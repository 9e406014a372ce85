-------------------------- MODULE EventStoreProofs --------------------------
(***************************************************************************)
(* Proofs about EventStore for any stores, callers, streams and bounds:    *)
(* its properties, and that it implements the abstract append log.         *)
(***************************************************************************)
EXTENDS EventStore, Sequences, SequenceTheorems, TLAPS

(* Every variable keeps its type.                                          *)
THEOREM TypeCorrect == Spec => []TypeOK
<1>1. Init => TypeOK
  BY EventStoreAssumption DEF Init, TypeOK, OpId, Call, Outcomes
<1>2. TypeOK /\ [Next]_vars => TypeOK'
  <2> SUFFICES ASSUME TypeOK, [Next]_vars
               PROVE  TypeOK'
    OBVIOUS
  <2> USE EventStoreAssumption DEF TypeOK, OpId, Call, Outcomes
  <2>1. ASSUME NEW c \in Callers, NEW st \in Streams, ObserveHead(c, st)
        PROVE  TypeOK'
    BY <2>1 DEF ObserveHead
  <2>2. ASSUME NEW c \in Callers, NEW st \in Streams, NEW n \in BatchSizes,
               Admit(c, st, n)
        PROVE  TypeOK'
    <3>1. call[c].op + 1 \in 0 .. MaxOps
      BY <2>2 DEF Admit
    <3>2. call' \in [Callers -> Call]
      BY <2>2, <3>1 DEF Admit
    <3>3. work' \subseteq Work
      BY <2>2, <3>1 DEF Admit, Work, Results
    <3> QED
      BY <2>2, <3>2, <3>3 DEF Admit
  <2>3. ASSUME NEW c \in Callers, Refuse(c)
        PROVE  TypeOK'
    BY <2>3 DEF Refuse
  <2>4. ASSUME NEW c \in Callers, Cancel(c)
        PROVE  TypeOK'
    <3>1. [call[c] EXCEPT !.cancelled = TRUE] \in Call
      OBVIOUS
    <3>2. call' = [call EXCEPT ![c] = [call[c] EXCEPT !.cancelled = TRUE]]
      BY <2>4 DEF Cancel
    <3>3. call' \in [Callers -> Call]
      BY <3>1, <3>2
    <3>4. UNCHANGED <<head, rows, phase, awaited, seen, work, receipts, crashes>>
      BY <2>4 DEF Cancel
    <3> QED
      BY ONLY TypeOK, <3>3, <3>4 DEF TypeOK
  <2>5. ASSUME NEW c \in Callers, Return(c)
        PROVE  TypeOK'
    <3> PICK w \in work : /\ w.id = <<c, call[c].op>>
                          /\ w.result # "pending"
                          /\ Deliver(c, w)
      BY <2>5 DEF Return
    <3>1. w \in Work /\ w.expected + 1 \in Nat
      BY DEF Work
    <3>2. [id |-> w.id, stream |-> w.stream,
           first |-> w.expected + 1, size |-> w.size] \in Receipt
      BY <3>1 DEF Work, Receipt
    <3>3. receipts' \subseteq Receipt
      BY <3>2 DEF Deliver
    <3> DEFINE out == IF call[c].cancelled THEN "cancelled" ELSE w.result
    <3>4. out \in Outcomes
      BY <3>1 DEF Work, Results
    <3>5. call' = [call EXCEPT ![c] = [call[c] EXCEPT !.at = "idle",
                                                      !.outcome = out]]
      BY DEF Deliver
    <3>6. call[c] \in Call
      OBVIOUS
    <3> HIDE DEF out
    <3>7. [call[c] EXCEPT !.at = "idle", !.outcome = out] \in Call
      BY <3>4, <3>6
    <3>8. call' \in [Callers -> Call]
      BY <3>5, <3>7
    <3>9. /\ UNCHANGED <<head, rows, phase, awaited, seen, crashes>>
          /\ work' \subseteq work
      BY DEF Deliver
    <3> QED
      BY <3>3, <3>8, <3>9
  <2>6. ASSUME NEW w \in work, Worker(w)
        PROVE  TypeOK'
    <3>1. w \in Work
      OBVIOUS
    <3>2. ASSUME NEW res \in Results, Finish(w, res)
          PROVE  work' \subseteq Work
      BY <3>1, <3>2 DEF Finish, Work
    <3>3. CASE Commit(w)
      <4>1. NewRows(w, w.size) \subseteq Row
        BY <3>1 DEF NewRows, Row, Work
      <4>2. head' \in [Streams -> Nat]
        BY <3>1, <3>3 DEF Commit, Work
      <4> QED
        BY <3>2, <3>3, <4>1, <4>2 DEF Commit, Results
    <3>4. CASE CommitNothing(w) \/ Conflict(w) \/ Busy(w)
      BY <3>2, <3>4 DEF CommitNothing, Conflict, Busy, Results
    <3> QED
      BY <2>6, <3>3, <3>4 DEF Worker
  <2>7. ASSUME NEW s \in Stores, BeginClose(s)
        PROVE  TypeOK'
    <3>1. {w.id : w \in Pending(s)} \in SUBSET OpId
      BY DEF Pending, Work
    <3> QED
      BY <2>7, <3>1 DEF BeginClose
  <2>8. ASSUME NEW s \in Stores, FinishClose(s)
        PROVE  TypeOK'
    BY <2>8 DEF FinishClose
  <2>9. ASSUME NEW s \in Stores, Crash(s)
        PROVE  TypeOK'
    <3>1. call' \in [Callers -> Call]
      <4>1. \A c \in Callers : /\ call[c] \in Call
                               /\ [call[c] EXCEPT !.at = "idle", !.outcome = "crashed"] \in Call
        OBVIOUS
      <4>2. call' = [c \in Callers |->
                       IF StoreOf[c] = s /\ call[c].at = "waiting"
                       THEN [call[c] EXCEPT !.at = "idle", !.outcome = "crashed"]
                       ELSE call[c]]
        BY <2>9 DEF Crash
      <4> HIDE DEF Call
      <4> QED
        BY ONLY <4>1, <4>2
    <3>2. seen' \in [Callers -> [Streams -> Nat]]
      BY <2>9 DEF Crash
    <3>3. /\ phase' = [phase EXCEPT ![s] = "open"]
          /\ awaited' = [awaited EXCEPT ![s] = {}]
          /\ UNCHANGED <<head, rows, receipts>>
          /\ work' \subseteq work
      BY <2>9 DEF Crash
    <3>4. crashes' \in 0 .. MaxCrashes
      <4>1. crashes < MaxCrashes /\ crashes' = crashes + 1
        BY <2>9 DEF Crash
      <4>2. crashes \in 0 .. MaxCrashes /\ MaxCrashes \in Nat
        OBVIOUS
      <4> HIDE DEF TypeOK
      <4> QED
        BY <4>1, <4>2
    <3> QED
      BY <3>1, <3>2, <3>3, <3>4
  <2>10. CASE UNCHANGED vars
    BY <2>10 DEF vars
  <2> QED
    BY <2>1, <2>2, <2>3, <2>4, <2>5, <2>6, <2>7, <2>8, <2>9, <2>10 DEF Next
<1> QED
  BY <1>1, <1>2, PTL DEF Spec

-----------------------------------------------------------------------------
(* Why receipts stay true and refusals leave nothing behind: a running     *)
(* call belongs to a caller that waits for it, call ids are never reused,  *)
(* and a worker's rows are in the table exactly when it says "ok".         *)
WorkOwned ==
    \A w \in work : /\ call[w.id[1]].at = "waiting"
                    /\ call[w.id[1]].op = w.id[2]
IdsUnique == \A w1, w2 \in work : w1.id = w2.id => w1 = w2
RowsOld   == \A r \in rows : r.id[2] <= call[r.id[1]].op
Fresh     == \A c \in Callers : call[c].at = "waiting" => call[c].outcome = "none"
WorkDurable ==
    \A w \in work : w.result = "ok" => NewRows(w, w.size) \subseteq rows
WorkSilent ==
    \A w \in work : w.result # "ok" => \A r \in rows : r.id # w.id

Ownership ==
    /\ WorkOwned /\ IdsUnique /\ RowsOld /\ Fresh /\ WorkDurable /\ WorkSilent
    /\ RefusedWroteNothing
    /\ ReceiptsDurable

(* Steps that touch neither the table, the calls nor the workers.          *)
LEMMA QuietStep ==
  ASSUME TypeOK, Ownership, UNCHANGED <<rows, call, work, receipts>>
  PROVE  Ownership'
BY DEF Ownership, WorkOwned, IdsUnique, RowsOld, Fresh, WorkDurable, WorkSilent,
       RefusedWroteNothing, ReceiptsDurable, NewRows

(* A call is admitted under an id nobody has used: nothing is in the table *)
(* or among the receipts under it yet.                                     *)
LEMMA AdmitOwnership ==
  ASSUME TypeOK, Ownership, NEW c \in Callers, NEW st \in Streams,
         NEW n \in BatchSizes, Admit(c, st, n)
  PROVE  Ownership'
<1> DEFINE k == call[c].op + 1
           v == [id |-> <<c, k>>, stream |-> st, expected |-> seen[c][st],
                 size |-> n, result |-> "pending"]
<1>1. /\ call[c].at = "idle" /\ call[c].op < MaxOps
      /\ call' = [call EXCEPT ![c] = [at |-> "waiting", op |-> k,
                                      cancelled |-> FALSE, outcome |-> "none"]]
      /\ work' = work \cup {v}
      /\ UNCHANGED <<head, rows, phase, awaited, seen, receipts, crashes>>
  BY DEF Admit
<1>2. /\ call[c].op \in Nat
      /\ call \in [Callers -> Call]
      /\ \A r \in rows : r.id[1] \in Callers /\ r.id[2] \in Nat
      /\ \A w \in work : w.id[1] \in Callers
  BY EventStoreAssumption DEF TypeOK, Call, Row, Work, OpId
<1>3. \A w \in work : w.id[1] # c
  BY <1>1 DEF Ownership, WorkOwned
<1>4. \A r \in rows : r.id # <<c, k>>
  BY <1>1, <1>2 DEF Ownership, RowsOld
<1>5. /\ v.id = <<c, k>> /\ v.id[1] = c /\ v.id[2] = k /\ v.result = "pending"
  OBVIOUS
<1>6. \A d \in Callers : d # c => call'[d] = call[d]
  BY <1>1, <1>2
<1>7. /\ call'[c].at = "waiting" /\ call'[c].op = k /\ call'[c].outcome = "none"
  BY <1>1, <1>2
<1> HIDE DEF v, k
<1>8. WorkOwned'
  BY <1>1, <1>2, <1>3, <1>5, <1>6, <1>7 DEF Ownership, WorkOwned
<1>9. IdsUnique'
  BY <1>1, <1>3, <1>5 DEF Ownership, IdsUnique
<1>10. RowsOld'
  BY <1>1, <1>2, <1>6, <1>7 DEF Ownership, RowsOld, k
<1>11. Fresh'
  BY <1>6, <1>7 DEF Ownership, Fresh
<1>12. WorkDurable'
  BY <1>1, <1>5 DEF Ownership, WorkDurable, NewRows
<1>13. WorkSilent'
  BY <1>1, <1>4, <1>5 DEF Ownership, WorkSilent
<1>14. RefusedWroteNothing'
  BY <1>1, <1>6, <1>7 DEF Ownership, RefusedWroteNothing
<1>15. ReceiptsDurable'
  BY <1>1 DEF Ownership, ReceiptsDurable
<1> QED
  BY <1>8, <1>9, <1>10, <1>11, <1>12, <1>13, <1>14, <1>15 DEF Ownership

(* A refused call uses up an id that nothing was ever written under.       *)
LEMMA RefuseOwnership ==
  ASSUME TypeOK, Ownership, NEW c \in Callers, Refuse(c)
  PROVE  Ownership'
<1>1. /\ call[c].at = "idle"
      /\ call' = [call EXCEPT ![c] = [at |-> "idle", op |-> call[c].op + 1,
                                      cancelled |-> FALSE, outcome |-> "closed"]]
      /\ UNCHANGED <<rows, work, receipts>>
  BY DEF Refuse
<1>2. /\ call[c].op \in Nat
      /\ call \in [Callers -> Call]
      /\ \A r \in rows : r.id[1] \in Callers /\ r.id[2] \in Nat
      /\ \A w \in work : w.id[1] \in Callers
  BY EventStoreAssumption DEF TypeOK, Call, Row, Work, OpId
<1>3. \A r \in rows : r.id # <<c, call[c].op + 1>>
  BY <1>1, <1>2 DEF Ownership, RowsOld
<1>4. \A d \in Callers : d # c => call'[d] = call[d]
  BY <1>1, <1>2
<1>5. call'[c].at = "idle" /\ call'[c].op = call[c].op + 1
  BY <1>1, <1>2
<1>6. WorkOwned'
  BY <1>1, <1>2, <1>4 DEF Ownership, WorkOwned
<1>7. IdsUnique' /\ WorkDurable' /\ WorkSilent' /\ ReceiptsDurable'
  BY <1>1 DEF Ownership, IdsUnique, WorkDurable, WorkSilent, ReceiptsDurable, NewRows
<1>8. RowsOld'
  BY <1>1, <1>2, <1>4, <1>5 DEF Ownership, RowsOld
<1>9. Fresh'
  BY <1>4, <1>5 DEF Ownership, Fresh
<1>10. RefusedWroteNothing'
  BY <1>1, <1>3, <1>4, <1>5 DEF Ownership, RefusedWroteNothing
<1> QED
  BY <1>6, <1>7, <1>8, <1>9, <1>10 DEF Ownership

(* A cancellation leaves the worker, its id and its rows alone.            *)
LEMMA CancelOwnership ==
  ASSUME TypeOK, Ownership, NEW c \in Callers, Cancel(c)
  PROVE  Ownership'
<1>1. /\ call' = [call EXCEPT ![c].cancelled = TRUE]
      /\ UNCHANGED <<rows, work, receipts>>
  BY DEF Cancel
<1>2. \A d \in Callers : /\ call'[d].at = call[d].at
                         /\ call'[d].op = call[d].op
                         /\ call'[d].outcome = call[d].outcome
  BY <1>1 DEF TypeOK, Call
<1>3. /\ \A r \in rows : r.id[1] \in Callers
      /\ \A w \in work : w.id[1] \in Callers
  BY DEF TypeOK, Row, Work, OpId
<1>4. WorkOwned' /\ RowsOld' /\ Fresh'
  BY <1>1, <1>2, <1>3 DEF Ownership, WorkOwned, RowsOld, Fresh
<1>5. IdsUnique' /\ WorkDurable' /\ WorkSilent' /\ ReceiptsDurable'
  BY <1>1 DEF Ownership, IdsUnique, WorkDurable, WorkSilent, ReceiptsDurable, NewRows
<1>6. RefusedWroteNothing'
  BY <1>1, <1>2 DEF Ownership, RefusedWroteNothing
<1> QED
  BY <1>4, <1>5, <1>6 DEF Ownership

(* The outcome handed to a caller is its own worker's: a receipt for rows  *)
(* that are in the table, or a refusal with none.                          *)
LEMMA ReturnOwnership ==
  ASSUME TypeOK, Ownership, NEW c \in Callers, Return(c)
  PROVE  Ownership'
<1> PICK w \in work : /\ w.id = <<c, call[c].op>>
                      /\ w.result # "pending"
                      /\ Deliver(c, w)
  BY DEF Return
<1>1. /\ work' = work \ {w}
      /\ call' = [call EXCEPT ![c].at = "idle",
                              ![c].outcome = IF call[c].cancelled
                                             THEN "cancelled" ELSE w.result]
      /\ rows' = rows
  BY DEF Deliver
<1>2. /\ \A r \in rows : r.id[1] \in Callers
      /\ \A v \in work : v.id[1] \in Callers
      /\ w.size \in Nat /\ w.expected \in Nat
  BY DEF TypeOK, Row, Work, OpId
<1>3. \A d \in Callers : d # c => call'[d] = call[d]
  BY <1>1 DEF TypeOK
<1>4. /\ call'[c].at = "idle"
      /\ call'[c].op = call[c].op
      /\ call'[c].outcome = IF call[c].cancelled THEN "cancelled" ELSE w.result
  BY <1>1 DEF TypeOK, Call
<1>5. \A v \in work' : v.id[1] # c
  <2> SUFFICES ASSUME NEW v \in work', v.id[1] = c
               PROVE  FALSE
    OBVIOUS
  <2>1. v.id = w.id
    BY <1>1 DEF Ownership, WorkOwned, TypeOK, Work, OpId
  <2> QED
    BY <1>1, <2>1 DEF Ownership, IdsUnique
<1>6. WorkOwned'
  BY <1>1, <1>2, <1>3, <1>5 DEF Ownership, WorkOwned
<1>7. IdsUnique' /\ WorkDurable' /\ WorkSilent'
  BY <1>1 DEF Ownership, IdsUnique, WorkDurable, WorkSilent, NewRows
<1>8. RowsOld' /\ Fresh'
  BY <1>1, <1>2, <1>3, <1>4 DEF Ownership, RowsOld, Fresh
<1>9. RefusedWroteNothing'
  <2> SUFFICES ASSUME NEW d \in Callers,
                      call'[d].outcome \in {"conflict", "busy", "closed"},
                      NEW r \in rows
               PROVE  r.id # <<d, call'[d].op>>
    BY <1>1 DEF RefusedWroteNothing
  <2>1. CASE d # c
    BY <1>3, <2>1 DEF Ownership, RefusedWroteNothing
  <2>2. CASE d = c
    <3>1. w.result # "ok"
      BY <1>4, <2>2
    <3> QED
      BY <1>4, <2>2, <3>1 DEF Ownership, WorkSilent
  <2> QED
    BY <2>1, <2>2
<1>10. ReceiptsDurable'
  <2> DEFINE new == [id |-> w.id, stream |-> w.stream,
                     first |-> w.expected + 1, size |-> w.size]
  <2> SUFFICES ASSUME NEW r \in receipts', NEW i \in 1 .. r.size
               PROVE  [stream |-> r.stream, seq |-> r.first + i - 1, id |-> r.id,
                       part |-> i, size |-> r.size] \in rows
    BY <1>1 DEF ReceiptsDurable
  <2>1. r \in receipts \/ (r = new /\ w.result = "ok")
    BY DEF Deliver
  <2>2. CASE r \in receipts
    BY <2>2 DEF Ownership, ReceiptsDurable
  <2>3. CASE r = new /\ w.result = "ok"
    <3>1. NewRows(w, w.size) \subseteq rows
      BY <2>3 DEF Ownership, WorkDurable
    <3>2. /\ r.stream = w.stream /\ r.id = w.id /\ r.size = w.size
          /\ r.first = w.expected + 1 /\ i \in 1 .. w.size
      BY <2>3
    <3>3. r.first + i - 1 = w.expected + i
      BY <1>2, <3>2
    <3> QED
      BY <3>1, <3>2, <3>3 DEF NewRows
  <2> QED
    BY <2>1, <2>2, <2>3
<1> QED
  BY <1>6, <1>7, <1>8, <1>9, <1>10 DEF Ownership

(* A worker writes rows only under its own id, and only when it ends "ok". *)
LEMMA WorkerOwnership ==
  ASSUME TypeOK, Ownership, NEW w \in work, Worker(w)
  PROVE  Ownership'
<1> DEFINE N == NewRows(w, w.size)
<1>1. PICK res \in {"ok", "conflict", "busy"} :
         /\ work' = (work \ {w}) \cup {[w EXCEPT !.result = res]}
         /\ \/ res = "ok" /\ rows' = rows \cup N
            \/ res # "ok" /\ rows' = rows
  <2>1. CASE CommitNothing(w)
    <3>1. N = {}
      BY <2>1 DEF CommitNothing, NewRows
    <3> QED
      BY <2>1, <3>1 DEF CommitNothing, Finish
  <2>2. CASE Commit(w) \/ Conflict(w) \/ Busy(w)
    BY <2>2 DEF Commit, Conflict, Busy, Finish
  <2> QED
    BY <2>1, <2>2 DEF Worker
<1>2. /\ w.result = "pending"
      /\ UNCHANGED <<call, receipts>>
  BY DEF Worker, Commit, CommitNothing, Conflict, Busy
<1> DEFINE v == [w EXCEPT !.result = res]
<1>3. /\ v.id = w.id /\ v.stream = w.stream /\ v.expected = w.expected
      /\ v.size = w.size /\ v.result = res
  BY DEF TypeOK, Work
<1>4. \A r \in N : r.id = w.id
  BY DEF NewRows
<1>5. NewRows(v, v.size) = N
  BY <1>3 DEF NewRows
<1>6. work' = (work \ {w}) \cup {v}
  BY <1>1
<1>7. w.id[1] \in Callers /\ w.id[2] \in Nat
  BY EventStoreAssumption DEF TypeOK, Work, OpId
<1> HIDE DEF N, v
<1>8. WorkOwned' /\ IdsUnique'
  BY <1>2, <1>3, <1>6 DEF Ownership, WorkOwned, IdsUnique
<1>9. RowsOld'
  BY <1>1, <1>2, <1>4, <1>7 DEF Ownership, RowsOld, WorkOwned
<1>10. Fresh'
  BY <1>2 DEF Ownership, Fresh
<1>11. WorkDurable'
  <2> SUFFICES ASSUME NEW x \in work', x.result = "ok"
               PROVE  NewRows(x, x.size) \subseteq rows'
    BY DEF WorkDurable, NewRows
  <2>1. CASE x = v
    BY <1>1, <1>3, <1>5, <2>1
  <2>2. CASE x \in work
    BY <1>1, <2>2 DEF Ownership, WorkDurable
  <2> QED
    BY <1>6, <2>1, <2>2
<1>12. WorkSilent'
  <2> SUFFICES ASSUME NEW x \in work', x.result # "ok", NEW r \in rows'
               PROVE  r.id # x.id
    BY DEF WorkSilent
  <2>1. CASE x = v
    BY <1>1, <1>2, <1>3, <2>1 DEF Ownership, WorkSilent
  <2>2. CASE x \in work /\ x # w
    BY <1>1, <1>4, <2>2 DEF Ownership, WorkSilent, IdsUnique
  <2> QED
    BY <1>6, <2>1, <2>2
<1>13. RefusedWroteNothing'
  <2> SUFFICES ASSUME NEW c \in Callers,
                      call[c].outcome \in {"conflict", "busy", "closed"},
                      NEW r \in rows'
               PROVE  r.id # <<c, call[c].op>>
    BY <1>2 DEF RefusedWroteNothing
  <2>1. CASE r \in rows
    BY <2>1 DEF Ownership, RefusedWroteNothing
  <2>2. CASE r \in N
    <3>1. r.id = w.id
      BY <1>4, <2>2
    <3>2. call[w.id[1]].outcome = "none"
      BY <1>7 DEF Ownership, WorkOwned, Fresh
    <3> QED
      BY <3>1, <3>2
  <2> QED
    BY <1>1, <2>1, <2>2
<1>14. ReceiptsDurable'
  BY <1>1, <1>2 DEF Ownership, ReceiptsDurable
<1> QED
  BY <1>8, <1>9, <1>10, <1>11, <1>12, <1>13, <1>14 DEF Ownership

(* A crash drops workers that have not committed; rows and receipts stay.  *)
LEMMA CrashOwnership ==
  ASSUME TypeOK, Ownership, NEW s \in Stores, Crash(s)
  PROVE  Ownership'
<1>1. /\ work' = {w \in work : StoreOfWork(w) # s}
      /\ call' = [c \in Callers |->
                    IF StoreOf[c] = s /\ call[c].at = "waiting"
                    THEN [call[c] EXCEPT !.at = "idle", !.outcome = "crashed"]
                    ELSE call[c]]
      /\ UNCHANGED <<rows, receipts>>
  BY DEF Crash
<1>2. /\ \A r \in rows : r.id[1] \in Callers
      /\ \A w \in work : w.id[1] \in Callers
  BY DEF TypeOK, Row, Work, OpId
<1>3. ASSUME NEW c \in Callers
      PROVE  /\ call'[c].op = call[c].op
             /\ \/ call'[c] = call[c]
                \/ call'[c].at = "idle" /\ call'[c].outcome = "crashed"
             /\ StoreOf[c] # s => call'[c] = call[c]
  BY <1>1 DEF TypeOK, Call
<1>4. WorkOwned'
  BY <1>1, <1>2, <1>3 DEF Ownership, WorkOwned, StoreOfWork
<1>5. IdsUnique' /\ WorkDurable' /\ WorkSilent' /\ ReceiptsDurable'
  BY <1>1 DEF Ownership, IdsUnique, WorkDurable, WorkSilent, ReceiptsDurable, NewRows
<1>6. RowsOld'
  BY <1>1, <1>2, <1>3 DEF Ownership, RowsOld
<1>7. Fresh'
  BY <1>3 DEF Ownership, Fresh
<1>8. RefusedWroteNothing'
  <2> SUFFICES ASSUME NEW c \in Callers,
                      call'[c].outcome \in {"conflict", "busy", "closed"},
                      NEW r \in rows
               PROVE  r.id # <<c, call'[c].op>>
    BY <1>1 DEF RefusedWroteNothing
  <2>1. call'[c] = call[c]
    BY <1>3
  <2> QED
    BY <2>1 DEF Ownership, RefusedWroteNothing
<1> QED
  BY <1>4, <1>5, <1>6, <1>7, <1>8 DEF Ownership

(* Who wrote what: every row under a call's id was written by the one     *)
(* worker of that call, and what each caller was told agrees with it.      *)
THEOREM OwnershipHolds == Spec => []Ownership
<1>1. Init => Ownership
  BY DEF Init, Ownership, WorkOwned, IdsUnique, RowsOld, Fresh, WorkDurable,
         WorkSilent, RefusedWroteNothing, ReceiptsDurable
<1>2. TypeOK /\ Ownership /\ [Next]_vars => Ownership'
  <2> SUFFICES ASSUME TypeOK, Ownership, [Next]_vars
               PROVE  Ownership'
    OBVIOUS
  <2>1. ASSUME NEW c \in Callers, NEW st \in Streams, ObserveHead(c, st)
        PROVE  Ownership'
    BY <2>1, QuietStep DEF ObserveHead
  <2>2. ASSUME NEW s \in Stores, BeginClose(s) \/ FinishClose(s)
        PROVE  Ownership'
    BY <2>2, QuietStep DEF BeginClose, FinishClose
  <2>3. CASE UNCHANGED vars
    BY <2>3, QuietStep DEF vars
  <2> QED
    BY <2>1, <2>2, <2>3, AdmitOwnership, RefuseOwnership, CancelOwnership,
       ReturnOwnership, WorkerOwnership, CrashOwnership DEF Next
<1> QED
  BY <1>1, <1>2, TypeCorrect, PTL DEF Spec

(* Events handed back by append() are in the stream for good, at the       *)
(* sequence numbers the caller was told.                                   *)
THEOREM ReceiptsHold == Spec => []ReceiptsDurable
BY OwnershipHolds, PTL DEF Ownership

(* A call reported as conflicted, failed or refused wrote nothing.         *)
THEOREM RefusalsHold == Spec => []RefusedWroteNothing
BY OwnershipHolds, PTL DEF Ownership

(* Both together: every answer of append() is true for good.               *)
THEOREM AnswersHold == Spec => []AnswersAreTrue
BY ReceiptsHold, RefusalsHold, PTL DEF AnswersAreTrue

-----------------------------------------------------------------------------
(* Every stream has exactly one row for each sequence number up to its     *)
(* head: the invariant that _validate_history() re-checks on every open.   *)
THEOREM HistoryHolds == Spec => []HistoryIntact
<1>1. Init => HistoryIntact
  BY DEF Init, HistoryIntact, RowsOf
<1>2. TypeOK /\ HistoryIntact /\ [Next]_vars => HistoryIntact'
  <2> SUFFICES ASSUME TypeOK, HistoryIntact, [Next]_vars
               PROVE  HistoryIntact'
    OBVIOUS
  <2>1. ASSUME NEW w \in work, Commit(w)
        PROVE  HistoryIntact'
    <3>1. /\ rows' = rows \cup NewRows(w, w.size)
          /\ head' = [head EXCEPT ![w.stream] = w.expected + w.size]
          /\ head[w.stream] = w.expected
      BY <2>1 DEF Commit
    <3>2. w.stream \in Streams /\ w.expected \in Nat /\ w.size \in Nat
      BY DEF TypeOK, Work
    <3>3. head \in [Streams -> Nat] /\ \A r \in rows : r.seq \in Nat
      BY DEF TypeOK, Row
    <3> SUFFICES ASSUME NEW st \in Streams
                 PROVE  /\ {r.seq : r \in RowsOf(st)'} = 1 .. head'[st]
                        /\ \A r1, r2 \in RowsOf(st)' : r1.seq = r2.seq => r1 = r2
      BY DEF HistoryIntact, RowsOf
    <3>4. CASE st # w.stream
      <4>1. RowsOf(st)' = RowsOf(st) /\ head'[st] = head[st]
        BY <3>1, <3>3, <3>4 DEF RowsOf, NewRows
      <4> QED
        BY <4>1 DEF HistoryIntact
    <3>5. CASE st = w.stream
      <4>1. /\ RowsOf(st)' = RowsOf(st) \cup NewRows(w, w.size)
            /\ head'[st] = w.expected + w.size
        BY <3>1, <3>2, <3>3, <3>5 DEF RowsOf, NewRows
      <4>2. {r.seq : r \in RowsOf(st)} = 1 .. w.expected
        BY <3>1, <3>5 DEF HistoryIntact
      <4>3. \A r \in RowsOf(st) : r.seq <= w.expected
        BY <3>2, <4>2
      <4>4. \A r \in NewRows(w, w.size) :
               \E i \in 1 .. w.size :
                  r = [stream |-> w.stream, seq |-> w.expected + i,
                       id |-> w.id, part |-> i, size |-> w.size]
        BY DEF NewRows
      <4>5. \A r \in NewRows(w, w.size) : r.seq > w.expected
        BY <3>2, <4>4
      <4>6. \A r1, r2 \in NewRows(w, w.size) : r1.seq = r2.seq => r1 = r2
        BY <3>2, <4>4
      <4>7. \A r1, r2 \in RowsOf(st)' : r1.seq = r2.seq => r1 = r2
        <5>1. \A r1, r2 \in RowsOf(st) : r1.seq = r2.seq => r1 = r2
          BY DEF HistoryIntact
        <5>2. \A r1 \in RowsOf(st), r2 \in NewRows(w, w.size) : r1.seq # r2.seq
          <6> SUFFICES ASSUME NEW r1 \in RowsOf(st), NEW r2 \in NewRows(w, w.size)
                       PROVE  r1.seq # r2.seq
            OBVIOUS
          <6>1. r1.seq \in Nat /\ r1.seq <= w.expected
            BY <3>3, <4>3 DEF RowsOf
          <6>2. r2.seq > w.expected
            BY <4>5
          <6>3. \E i \in 1 .. w.size : r2.seq = w.expected + i
            BY <4>4
          <6> QED
            BY <3>2, <6>1, <6>2, <6>3
        <5> QED
          BY <4>1, <4>6, <5>1, <5>2
      <4>8. {r.seq : r \in NewRows(w, w.size)} = (w.expected + 1) .. (w.expected + w.size)
        <5>1. ASSUME NEW q \in (w.expected + 1) .. (w.expected + w.size)
              PROVE  \E r \in NewRows(w, w.size) : r.seq = q
          <6>1. q - w.expected \in 1 .. w.size
            BY <3>2, <5>1
          <6>2. w.expected + (q - w.expected) = q
            BY <3>2, <5>1
          <6> DEFINE i == q - w.expected
                     r == [stream |-> w.stream, seq |-> w.expected + i,
                           id |-> w.id, part |-> i, size |-> w.size]
          <6>3. r \in NewRows(w, w.size)
            BY <6>1 DEF NewRows
          <6>4. r.seq = q
            BY <6>2
          <6> QED
            BY <6>3, <6>4
        <5>2. \A r \in NewRows(w, w.size) :
                 r.seq \in (w.expected + 1) .. (w.expected + w.size)
          BY <3>2, <4>4
        <5> QED
          BY <5>1, <5>2
      <4>9. {r.seq : r \in RowsOf(st)'}
               = 1 .. w.expected \cup (w.expected + 1) .. (w.expected + w.size)
        BY <4>1, <4>2, <4>8
      <4>10. 1 .. w.expected \cup (w.expected + 1) .. (w.expected + w.size)
               = 1 .. (w.expected + w.size)
        BY <3>2
      <4> QED
        BY <4>1, <4>7, <4>9, <4>10
    <3> QED
      BY <3>4, <3>5
  <2>2. ASSUME UNCHANGED <<rows, head>>
        PROVE  HistoryIntact'
    BY <2>2 DEF HistoryIntact, RowsOf
  <2>3. (\E w \in work : Commit(w)) \/ UNCHANGED <<rows, head>>
    BY DEF Next, vars, ObserveHead, Admit, Refuse, Cancel, Return, Deliver, Worker,
           CommitNothing, Conflict, Busy, BeginClose, FinishClose, Crash
  <2> QED
    BY <2>1, <2>2, <2>3
<1> QED
  BY <1>1, <1>2, TypeCorrect, PTL DEF Spec

(* No step rewrites, removes or reorders an event: new rows come after the *)
(* head of their stream.                                                   *)
THEOREM AppendOnlyHolds == Spec => AppendOnly
<1>1. TypeOK /\ [Next]_vars =>
        [ /\ rows \subseteq rows'
          /\ \A st \in Streams : head'[st] >= head[st]
          /\ \A r \in rows' \ rows : r.seq > head[r.stream] ]_vars
  <2> SUFFICES ASSUME TypeOK, [Next]_vars
               PROVE  /\ rows \subseteq rows'
                      /\ \A st \in Streams : head'[st] >= head[st]
                      /\ \A r \in rows' \ rows : r.seq > head[r.stream]
    OBVIOUS
  <2>1. ASSUME NEW w \in work, Commit(w)
        PROVE  /\ rows \subseteq rows'
               /\ \A st \in Streams : head'[st] >= head[st]
               /\ \A r \in rows' \ rows : r.seq > head[r.stream]
    <3>1. w.stream \in Streams /\ w.expected \in Nat /\ w.size \in Nat
      BY DEF TypeOK, Work
    <3>2. /\ rows' = rows \cup NewRows(w, w.size)
          /\ head' = [head EXCEPT ![w.stream] = w.expected + w.size]
          /\ head[w.stream] = w.expected
          /\ head \in [Streams -> Nat]
      BY <2>1 DEF Commit, TypeOK
    <3>3. \A r \in NewRows(w, w.size) : r.stream = w.stream /\ r.seq > w.expected
      BY <3>1 DEF NewRows
    <3> QED
      BY <3>1, <3>2, <3>3
  <2>2. ASSUME UNCHANGED <<rows, head>>
        PROVE  /\ rows \subseteq rows'
               /\ \A st \in Streams : head'[st] >= head[st]
               /\ \A r \in rows' \ rows : r.seq > head[r.stream]
    BY <2>2 DEF TypeOK
  <2>3. (\E w \in work : Commit(w)) \/ UNCHANGED <<rows, head>>
    BY DEF Next, vars, ObserveHead, Admit, Refuse, Cancel, Return, Deliver, Worker,
           CommitNothing, Conflict, Busy, BeginClose, FinishClose, Crash
  <2> QED
    BY <2>1, <2>2, <2>3
<1> QED
  BY <1>1, TypeCorrect, PTL DEF Spec, AppendOnly

(* One append() is in the stream entirely or not at all: only a commit adds *)
(* rows, all of one batch, and nothing ever removes one (_append_sync).     *)
THEOREM BatchesHold == Spec => []BatchesWhole
<1>1. Init => BatchesWhole
  BY DEF Init, BatchesWhole
<1>2. TypeOK /\ BatchesWhole /\ [Next]_vars => BatchesWhole'
  <2> SUFFICES ASSUME TypeOK, BatchesWhole, [Next]_vars
               PROVE  BatchesWhole'
    OBVIOUS
  <2>1. ASSUME NEW w \in work, Commit(w)
        PROVE  BatchesWhole'
    <3> SUFFICES ASSUME NEW r \in rows', NEW i \in 1 .. r.size
                 PROVE  \E q \in rows' : /\ q.stream = r.stream
                                        /\ q.id = r.id
                                        /\ q.part = i
                                        /\ q.seq + r.part = r.seq + i
      BY DEF BatchesWhole
    <3>1. rows' = rows \cup NewRows(w, w.size)
      BY <2>1 DEF Commit
    <3>2. CASE r \in rows
      BY <3>1, <3>2 DEF BatchesWhole
    <3>3. CASE r \in NewRows(w, w.size)
      <4> DEFINE row(k) == [stream |-> w.stream, seq |-> w.expected + k,
                            id |-> w.id, part |-> k, size |-> w.size]
      <4>1. w.expected \in Nat /\ w.size \in Nat
        BY DEF TypeOK, Work
      <4>2. PICK k \in 1 .. w.size : r = row(k)
        BY <3>3 DEF NewRows
      <4>3. i \in 1 .. w.size
        BY <4>2
      <4>4. row(i) \in rows'
        BY <3>1, <4>3 DEF NewRows
      <4>5. row(i).seq + r.part = r.seq + i
        BY <4>1, <4>2, <4>3
      <4> QED
        BY <4>2, <4>4, <4>5
    <3> QED
      BY <3>1, <3>2, <3>3
  <2>2. CASE UNCHANGED rows
    BY <2>2 DEF BatchesWhole
  <2> QED
    BY <2>1, <2>2 DEF Next, vars, Worker, ObserveHead, Admit, Refuse, Cancel, Return,
       Deliver, CommitNothing, Conflict, Busy, BeginClose, FinishClose, Crash
<1> QED
  BY <1>1, <1>2, TypeCorrect, PTL DEF Spec

(* A closed store runs no worker, because aclose() remembered every call   *)
(* it found running and admitted none after.                               *)
ClosingAwaits ==
    \A s \in Stores : phase[s] = "closing" => \A w \in Pending(s) : w.id \in awaited[s]

(* After aclose() no worker of the store is running: _finish_close()       *)
(* awaits exactly the workers that were admitted.                          *)
THEOREM ClosedHolds == Spec => []ClosedIsQuiet
<1> DEFINE CInv == ClosingAwaits /\ ClosedIsQuiet
<1>1. Init => CInv
  BY DEF Init, ClosingAwaits, ClosedIsQuiet, Pending
<1>2. TypeOK /\ CInv /\ [Next]_vars => CInv'
  <2> SUFFICES ASSUME TypeOK, CInv, [Next]_vars
               PROVE  CInv'
    OBVIOUS
  <2> USE DEF ClosingAwaits, ClosedIsQuiet, Pending, StoreOfWork
  <2>1. ASSUME UNCHANGED <<phase, awaited, work>>
        PROVE  CInv'
    BY <2>1
  <2>2. ASSUME NEW c \in Callers, NEW st \in Streams, NEW n \in BatchSizes,
               Admit(c, st, n)
        PROVE  CInv'
    <3>1. \A w \in work' \ work : w.id[1] = c
      BY <2>2 DEF Admit
    <3> QED
      BY <2>2, <3>1 DEF Admit
  <2>3. ASSUME NEW c \in Callers, Return(c)
        PROVE  CInv'
    BY <2>3 DEF Return, Deliver
  <2>4. ASSUME NEW w \in work, Worker(w)
        PROVE  CInv'
    <3>0. PICK res \in {"ok", "conflict", "busy"} :
             work' = (work \ {w}) \cup {[w EXCEPT !.result = res]}
      BY <2>4 DEF Worker, Commit, CommitNothing, Conflict, Busy, Finish
    <3>1. [w EXCEPT !.result = res].result # "pending"
      BY DEF TypeOK, Work
    <3>2. UNCHANGED <<phase, awaited>>
      BY <2>4 DEF Worker, Commit, CommitNothing, Conflict, Busy
    <3> QED
      BY <3>0, <3>1, <3>2
  <2>5. ASSUME NEW s \in Stores, BeginClose(s)
        PROVE  CInv'
    BY <2>5 DEF BeginClose, TypeOK
  <2>6. ASSUME NEW s \in Stores, FinishClose(s)
        PROVE  CInv'
    BY <2>6 DEF FinishClose, TypeOK
  <2>7. ASSUME NEW s \in Stores, Crash(s)
        PROVE  CInv'
    <3>1. /\ work' \subseteq work
          /\ phase' = [phase EXCEPT ![s] = "open"]
          /\ awaited' = [awaited EXCEPT ![s] = {}]
      BY <2>7 DEF Crash
    <3> QED
      BY <3>1 DEF TypeOK
  <2>8. CASE UNCHANGED vars
    BY <2>1, <2>8 DEF vars
  <2> QED
    BY <2>1, <2>2, <2>3, <2>4, <2>5, <2>6, <2>7, <2>8
    DEF Next, ObserveHead, Refuse, Cancel
<1> QED
  BY <1>1, <1>2, TypeCorrect, PTL DEF Spec

-----------------------------------------------------------------------------

(* A worker runs for a batch one append() was called with (_run).          *)
WorkSized == \A w \in work : w.size \in BatchSizes

(* The size of a batch stays what append() was called with.                *)
LEMMA WorkSizedHolds == Spec => []WorkSized
<1>1. Init => WorkSized
  BY DEF Init, WorkSized
<1>2. TypeOK /\ WorkSized /\ [Next]_vars => WorkSized'
  <2> SUFFICES ASSUME TypeOK, WorkSized, [Next]_vars
               PROVE  WorkSized'
    OBVIOUS
  <2>1. ASSUME NEW w \in work, NEW result \in Results, Finish(w, result)
        PROVE  WorkSized'
    <3>1. [w EXCEPT !.result = result].size = w.size
      BY DEF TypeOK, Work
    <3> QED
      BY <2>1, <3>1 DEF Finish, WorkSized
  <2>2. ASSUME NEW w \in work, Worker(w)
        PROVE  WorkSized'
    BY <2>1, <2>2 DEF Worker, Commit, CommitNothing, Conflict, Busy, Results
  <2>3. ASSUME NEW c \in Callers, NEW st \in Streams, NEW n \in BatchSizes,
               Admit(c, st, n)
        PROVE  WorkSized'
    BY <2>3 DEF Admit, WorkSized
  <2>4. CASE work' \subseteq work
    BY <2>4 DEF WorkSized
  <2> QED
    BY <2>2, <2>3, <2>4 DEF Next, vars, ObserveHead, Refuse, Cancel, Return, Deliver,
       BeginClose, FinishClose, Crash
<1> QED
  BY <1>1, <1>2, TypeCorrect, PTL DEF Spec

-----------------------------------------------------------------------------
(* R is a set of rows with one row at every place up to h, and its log.    *)
Gapless(R, h, Ids) ==
    /\ \A r \in R : r.seq \in 1 .. h /\ r.id \in Ids
    /\ \A q \in 1 .. h : \E r \in R : r.seq = q
    /\ \A r1, r2 \in R : r1.seq = r2.seq => r1 = r2
IdLog(R, h) == [q \in 1 .. h |-> (CHOOSE r \in R : r.seq = q).id]
Follows(N, h, id) == \A r \in N : r.id = id /\ r.seq \notin 1 .. h
Batch(n, id) == [i \in 1 .. n |-> id]
Extended(s, n, id) == s \o Batch(n, id)

(* It is as long as the head, and has at every row's place the row's id.   *)
LEMMA IdLogOfRows ==
  ASSUME NEW R, NEW h \in Nat, NEW Ids, Gapless(R, h, Ids)
  PROVE  /\ IdLog(R, h) \in Seq(Ids)
         /\ Len(IdLog(R, h)) = h
         /\ \A r \in R : IdLog(R, h)[r.seq] = r.id
<1> DEFINE at(q) == CHOOSE r \in R : r.seq = q
<1>1. \A q \in 1 .. h : \E r \in R : r.seq = q
  BY DEF Gapless
<1>2. \A q \in 1 .. h : at(q) \in R /\ at(q).seq = q
  BY <1>1
<1>3. \A r \in R : r.seq \in 1 .. h
  BY DEF Gapless
<1>4. IdLog(R, h) = [q \in 1 .. h |-> at(q).id]
  BY DEF IdLog
<1> HIDE DEF at
<1>5. \A r \in R : at(r.seq) = r
  BY <1>2, <1>3 DEF Gapless
<1>6. \A q \in 1 .. h : at(q).id \in Ids
  BY <1>2 DEF Gapless
<1>7. IdLog(R, h) \in Seq(Ids) /\ Len(IdLog(R, h)) = h
  BY <1>4, <1>6
<1>8. \A r \in R : IdLog(R, h)[r.seq] = r.id
  BY <1>3, <1>4, <1>5
<1> QED
  BY <1>7, <1>8

(* A batch of n rows of one id after the head is n times that id after the *)
(* log.                                                                    *)
LEMMA IdLogAppend ==
  ASSUME NEW R, NEW N, NEW A, NEW h \in Nat, NEW n \in Nat, NEW k,
         NEW Ids, NEW id \in Ids,
         A = R \cup N, k = h + n,
         Gapless(R, h, Ids), Gapless(A, k, Ids), Follows(N, h, id)
  PROVE  IdLog(A, k) = Extended(IdLog(R, h), n, id)
<1> DEFINE batch == Batch(n, id)
           before == IdLog(R, h)
           after == IdLog(A, k)
<1>1. batch \in Seq(Ids) /\ Len(batch) = n /\ \A i \in 1 .. n : batch[i] = id
  BY DEF Batch
<1>2. /\ before \in Seq(Ids) /\ Len(before) = h
      /\ \A r \in R : before[r.seq] = r.id
  BY IdLogOfRows
<1>3. /\ after \in Seq(Ids) /\ Len(after) = h + n
      /\ \A r \in R \cup N : after[r.seq] = r.id
  <2>1. h + n \in Nat
    OBVIOUS
  <2> HIDE DEF batch, before
  <2> QED
    BY <2>1, IdLogOfRows
<1> HIDE DEF batch, before, after
<1>4. /\ before \o batch \in Seq(Ids)
      /\ Len(before \o batch) = h + n
      /\ \A i \in 1 .. h + n :
            (before \o batch)[i] = IF i <= h THEN before[i] ELSE batch[i - h]
  <2>1. /\ before \o batch \in Seq(Ids)
        /\ Len(before \o batch) = Len(before) + Len(batch)
        /\ \A i \in 1 .. Len(before) + Len(batch) :
              (before \o batch)[i] = IF i <= Len(before) THEN before[i]
                                      ELSE batch[i - Len(before)]
    BY <1>1, <1>2, ConcatProperties
  <2> QED
    BY <2>1, <1>1, <1>2
<1>5. ASSUME NEW q \in 1 .. h + n
      PROVE  after[q] = (before \o batch)[q]
  <2>1. CASE q <= h
    <3>1. PICK r \in R : r.seq = q
      BY <2>1 DEF Gapless
    <3> QED
      BY <1>2, <1>3, <1>4, <2>1, <3>1
  <2>2. CASE q > h
    <3>1. PICK r \in R \cup N : r.seq = q
      BY DEF Gapless
    <3>2. r \in N
      BY <2>2, <3>1 DEF Gapless
    <3>3. after[q] = id
      BY <1>3, <3>1, <3>2 DEF Follows
    <3>4. q - h \in 1 .. n
      BY <2>2
    <3> QED
      BY <1>1, <1>4, <2>2, <3>3, <3>4
  <2>3. q <= h \/ q > h
    OBVIOUS
  <2> QED
    BY <2>1, <2>2, <2>3
<1>6. after = before \o batch
  BY <1>3, <1>4, <1>5, SeqEqual
<1> QED
  BY <1>6 DEF after, before, batch, Extended

(* A commit appends the batch to the log of its stream, and to no other.   *)
LEMMA CommitAppends ==
  ASSUME TypeOK, HistoryIntact, HistoryIntact', NEW w \in work, Commit(w)
  PROVE  \A st \in Streams :
            LogOf(st)' = IF st = w.stream
                         THEN Extended(LogOf(st), w.size, w.id)
                         ELSE LogOf(st)
<1>1. /\ w.stream \in Streams /\ w.expected \in Nat /\ w.size \in Nat
      /\ w.id \in OpId
  BY DEF TypeOK, Work
<1>2. /\ rows' = rows \cup NewRows(w, w.size)
      /\ head' = [head EXCEPT ![w.stream] = w.expected + w.size]
      /\ head[w.stream] = w.expected
      /\ head \in [Streams -> Nat]
  BY DEF Commit, TypeOK
<1> TAKE st \in Streams
<1>3. CASE st # w.stream
  <2>1. RowsOf(st)' = RowsOf(st) /\ head'[st] = head[st]
    BY <1>2, <1>3 DEF RowsOf, NewRows
  <2> QED
    BY <2>1, <1>3 DEF LogOf
<1>4. CASE st = w.stream
  <2> DEFINE N == NewRows(w, w.size)
  <2>1. RowsOf(st)' = RowsOf(st) \cup N /\ head'[st] = w.expected + w.size
    BY <1>1, <1>2, <1>4 DEF RowsOf, NewRows
  <2>2. Follows(N, w.expected, w.id)
    BY <1>1 DEF NewRows, Follows
  <2>3. \A r \in RowsOf(st) : r.id \in OpId
    BY DEF RowsOf, TypeOK, Row
  <2>4. Gapless(RowsOf(st), w.expected, OpId)
    <3>1. {r.seq : r \in RowsOf(st)} = 1 .. w.expected
      BY <1>2, <1>4 DEF HistoryIntact
    <3> QED
      BY <2>3, <3>1 DEF HistoryIntact, Gapless
  <2>5. Gapless(RowsOf(st)', head'[st], OpId)
    <3>1. \A r \in RowsOf(st)' : r.id \in OpId
      BY <1>1, <2>1, <2>2, <2>3 DEF Follows
    <3>2. {r.seq : r \in RowsOf(st)'} = 1 .. head'[st]
      BY DEF HistoryIntact
    <3> QED
      BY <3>1, <3>2 DEF HistoryIntact, Gapless
  <2>6. LogOf(st) = IdLog(RowsOf(st), w.expected)
    BY <1>2, <1>4 DEF LogOf, IdLog
  <2>7. LogOf(st)' = IdLog(RowsOf(st)', head'[st])
    BY DEF LogOf, IdLog
  <2> HIDE DEF N
  <2>8. IdLog(RowsOf(st)', head'[st])
          = Extended(IdLog(RowsOf(st), w.expected), w.size, w.id)
    <3> DEFINE R == RowsOf(st)
               A == RowsOf(st)'
               k == head'[st]
               h == w.expected
               n == w.size
               id == w.id
    <3>1. h \in Nat /\ n \in Nat /\ id \in OpId
      BY <1>1
    <3>2. A = R \cup N /\ k = h + n
      BY <2>1
    <3>3. Gapless(R, h, OpId) /\ Gapless(A, k, OpId) /\ Follows(N, h, id)
      BY <2>2, <2>4, <2>5
    <3> HIDE DEF R, A, k, h, n, id
    <3>4. IdLog(A, k) = Extended(IdLog(R, h), n, id)
      BY <3>1, <3>2, <3>3, IdLogAppend
    <3> QED
      BY <3>4 DEF R, A, k, h, n, id
  <2> QED
    BY <1>4, <2>6, <2>7, <2>8
<1> QED
  BY <1>3, <1>4

(* A running call that has not committed has no event in any log yet.      *)
LEMMA NotYetWritten ==
  ASSUME TypeOK, HistoryIntact, WorkSilent, NEW w \in work, Commit(w)
  PROVE  ~Abstract!Wrote(w.id)
<1> SUFFICES ASSUME NEW st \in Streams, NEW i \in 1 .. Len(LogOf(st)),
                    LogOf(st)[i] = w.id
             PROVE  FALSE
  BY DEF Abstract!Wrote
<1> DEFINE R == RowsOf(st)
           h == head[st]
<1>1. h \in Nat
  BY DEF TypeOK
<1>2. Gapless(R, h, OpId)
  <2>1. {r.seq : r \in R} = 1 .. h
    BY DEF HistoryIntact
  <2>2. \A r \in R : r.id \in OpId
    BY DEF RowsOf, TypeOK, Row
  <2> QED
    BY <2>1, <2>2 DEF HistoryIntact, Gapless
<1>3. LogOf(st) = IdLog(R, h)
  BY DEF LogOf, IdLog
<1> HIDE DEF R, h
<1>4. Len(IdLog(R, h)) = h /\ \A r \in R : IdLog(R, h)[r.seq] = r.id
  BY <1>1, <1>2, IdLogOfRows
<1>5. PICK r \in R : r.seq = i
  BY <1>2, <1>3, <1>4 DEF Gapless
<1>6. r.id = w.id
  BY <1>3, <1>4, <1>5
<1>7. r \in rows /\ w.result = "pending"
  BY DEF R, RowsOf, Commit
<1> QED
  BY <1>6, <1>7 DEF WorkSilent

(* A step that leaves the tables alone leaves every log alone.             *)
LEMMA TablesUntouched ==
  ASSUME UNCHANGED <<rows, head>>
  PROVE  [st \in Streams |-> LogOf(st)]' = [st \in Streams |-> LogOf(st)]
BY DEF LogOf, RowsOf

(* Every step of the store is one append of the abstract log, or none.     *)
LEMMA StepRefines ==
  ASSUME TypeOK, HistoryIntact, HistoryIntact', WorkSilent, WorkSized, [Next]_vars
  PROVE  [Abstract!Next]_([st \in Streams |-> LogOf(st)])
<1> DEFINE Logs == [st \in Streams |-> LogOf(st)]
<1>1. ASSUME NEW w \in work, Commit(w)
      PROVE  Abstract!AppendBatch(w.stream, w.id, w.size)
  <2>1. \A st \in Streams :
           LogOf(st)' = IF st = w.stream
                        THEN Extended(LogOf(st), w.size, w.id)
                        ELSE LogOf(st)
    BY <1>1, CommitAppends
  <2>2. Logs' = [Logs EXCEPT ![w.stream] = Extended(@, w.size, w.id)]
    BY <2>1
  <2>3. ~Abstract!Wrote(w.id)
    BY <1>1, NotYetWritten
  <2> QED
    BY <2>2, <2>3 DEF Abstract!AppendBatch, Extended, Batch
<1>2. ASSUME NEW w \in work, Commit(w)
      PROVE  Abstract!Next
  <2>1. w.stream \in Streams /\ w.id \in OpId /\ w.size \in BatchSizes
    BY DEF TypeOK, Work, WorkSized
  <2> QED
    BY <1>1, <1>2, <2>1 DEF Abstract!Next
<1>3. CASE UNCHANGED <<rows, head>>
  BY <1>3, TablesUntouched
<1>4. [Next]_vars => \/ \E w \in work : Commit(w)
                     \/ UNCHANGED <<rows, head>>
  BY DEF Next, vars, ObserveHead, Admit, Refuse, Cancel, Return, Deliver, Worker,
     CommitNothing, Conflict, Busy, BeginClose, FinishClose, Crash
<1> QED
  BY <1>2, <1>3, <1>4

(* The store implements a set of logs that only ever grow by whole batches *)
(* of one call each: no call's events are in a stream twice, or in two.    *)
THEOREM Refinement == Spec => ImplementsAppendLog
<1>1. Init => Abstract!Init
  BY DEF Init, Abstract!Init, LogOf
<1>2. /\ TypeOK /\ HistoryIntact /\ HistoryIntact'
      /\ WorkSilent /\ WorkSized /\ [Next]_vars
      => [Abstract!Next]_([st \in Streams |-> LogOf(st)])
  BY StepRefines
<1>3. Ownership => WorkSilent
  BY DEF Ownership
<1> QED
  BY <1>1, <1>2, <1>3, TypeCorrect, HistoryHolds, OwnershipHolds, WorkSizedHolds, PTL
  DEF Spec, ImplementsAppendLog, Abstract!Spec
=============================================================================
