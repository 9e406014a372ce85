----------------------------- MODULE EventStore -----------------------------
(***************************************************************************)
(* The append-only event store of session/sqlite.py: several store objects *)
(* (one per process) share one SQLite database; each runs its calls on     *)
(* worker threads which a cancelled caller still waits for, and converges  *)
(* the calls it admitted when it is closed.                                *)
(*                                                                         *)
(* One action per step that another task can observe: the admission of a   *)
(* call under the state lock, the worker's transaction (BEGIN IMMEDIATE .. *)
(* COMMIT, atomic because the write lock is exclusive), the delivery of    *)
(* the outcome, the two halves of aclose().  Payloads, JSON and schema are *)
(* abstracted: a row carries the identity of the call that wrote it.       *)
(***************************************************************************)
EXTENDS Naturals, FiniteSets

CONSTANTS
    Stores,      \* store objects, one per process
    Callers,     \* tasks that call a store, one call at a time each
    StoreOf,     \* the store object each caller holds
    Streams,     \* stream ids
    MaxOps,      \* bound: calls of append() per caller
    BatchSizes,  \* numbers of events one append() may carry
    MaxCrashes   \* bound: process crashes

ASSUME EventStoreAssumption ==
    /\ StoreOf \in [Callers -> Stores]
    /\ MaxOps \in Nat
    /\ BatchSizes \subseteq Nat
    /\ MaxCrashes \in Nat

VARIABLES
    head,      \* the streams table: head_seq of each stream
    rows,      \* the events table
    phase,     \* open, closing (aclose began) or closed, per store object
    awaited,   \* the calls each closing store converges
    seen,      \* the head of each stream as a caller last read it
    call,      \* what each caller is doing
    work,      \* the worker threads of admitted calls
    receipts,  \* history: the envelopes returned to callers
    crashes    \* history: number of crashes

vars == <<head, rows, phase, awaited, seen, call, work, receipts, crashes>>

OpId    == Callers \X (0 .. MaxOps)
Row     == [stream : Streams, seq : Nat, id : OpId, part : Nat, size : Nat]
Receipt == [id : OpId, stream : Streams, first : Nat, size : Nat]
Results == {"pending", "ok", "conflict", "busy"}
Work    == [id : OpId, stream : Streams, expected : Nat,
            size : Nat, result : Results]
Outcomes == {"none", "ok", "conflict", "busy", "closed", "cancelled", "crashed"}
Call    == [at : {"idle", "waiting"}, op : 0 .. MaxOps,
            cancelled : BOOLEAN, outcome : Outcomes]

StoreOfWork(w) == StoreOf[w.id[1]]
Pending(s)     == {w \in work : StoreOfWork(w) = s /\ w.result = "pending"}

(* Heads, rows, calls and workers keep their shapes; in particular a call  *)
(* that is idle again has a final outcome, never the worker's "pending".   *)
TypeOK ==
    /\ head \in [Streams -> Nat]
    /\ rows \subseteq Row
    /\ phase \in [Stores -> {"open", "closing", "closed"}]
    /\ awaited \in [Stores -> SUBSET OpId]
    /\ seen \in [Callers -> [Streams -> Nat]]
    /\ call \in [Callers -> Call]
    /\ work \subseteq Work
    /\ receipts \subseteq Receipt
    /\ crashes \in 0 .. MaxCrashes

Init ==
    /\ head = [st \in Streams |-> 0]
    /\ rows = {}
    /\ phase = [s \in Stores |-> "open"]
    /\ awaited = [s \in Stores |-> {}]
    /\ seen = [c \in Callers |-> [st \in Streams |-> 0]]
    /\ call = [c \in Callers |-> [at |-> "idle", op |-> 0,
                                  cancelled |-> FALSE, outcome |-> "none"]]
    /\ work = {}
    /\ receipts = {}
    /\ crashes = 0

-----------------------------------------------------------------------------
(* head() or read(): the caller learns where the stream ends now.          *)
ObserveHead(c, st) ==
    /\ call[c].at = "idle"
    /\ call[c].op < MaxOps
    /\ phase[StoreOf[c]] = "open"
    /\ seen' = [seen EXCEPT ![c][st] = head[st]]
    /\ UNCHANGED <<head, rows, phase, awaited, call, work, receipts, crashes>>

(* append() passes the state lock of _run(): a worker is started for it.   *)
(* n = 0 is the empty tuple of events, whose worker does nothing.          *)
Admit(c, st, n) ==
    /\ call[c].at = "idle"
    /\ call[c].op < MaxOps
    /\ phase[StoreOf[c]] = "open"
    /\ LET k == call[c].op + 1 IN
       /\ call' = [call EXCEPT ![c] = [at |-> "waiting", op |-> k,
                                       cancelled |-> FALSE, outcome |-> "none"]]
       /\ work' = work \cup {[id |-> <<c, k>>, stream |-> st,
                              expected |-> seen[c][st], size |-> n,
                              result |-> "pending"]}
    /\ UNCHANGED <<head, rows, phase, awaited, seen, receipts, crashes>>

(* The same call once aclose() has begun: EventStoreClosed, no worker.     *)
Refuse(c) ==
    /\ call[c].at = "idle"
    /\ call[c].op < MaxOps
    /\ phase[StoreOf[c]] # "open"
    /\ call' = [call EXCEPT ![c] = [at |-> "idle", op |-> call[c].op + 1,
                                    cancelled |-> FALSE, outcome |-> "closed"]]
    /\ UNCHANGED <<head, rows, phase, awaited, seen, work, receipts, crashes>>

Finish(w, result) ==
    work' = (work \ {w}) \cup {[w EXCEPT !.result = result]}

NewRows(w, n) == {[stream |-> w.stream, seq |-> w.expected + i,
                   id |-> w.id, part |-> i, size |-> w.size] : i \in 1 .. n}

(* Slip: no comparison of the head, INSERT OR REPLACE.                     *)
CommitOver(w) ==
    /\ w.result = "pending"
    /\ w.size > 0
    /\ rows' = NewRows(w, w.size) \cup
               {r \in rows : r.stream # w.stream \/ r.seq <= w.expected}
    /\ head' = [head EXCEPT ![w.stream] = w.expected + w.size]
    /\ Finish(w, "ok")
    /\ UNCHANGED <<phase, awaited, seen, call, receipts, crashes>>

(* Slip: one transaction per event instead of one per batch.               *)
CommitPerEvent(w) ==
    /\ w.result = "pending"
    /\ head[w.stream] = w.expected
    /\ \E n \in 1 .. w.size :
       /\ rows' = rows \cup NewRows(w, n)
       /\ head' = [head EXCEPT ![w.stream] = w.expected + n]
    /\ Finish(w, "ok")
    /\ UNCHANGED <<phase, awaited, seen, call, receipts, crashes>>

(* _append_sync() commits: the batch and the new head in one transaction.  *)
Commit(w) ==
    /\ w.result = "pending"
    /\ w.size > 0
    /\ head[w.stream] = w.expected
    /\ rows' = rows \cup NewRows(w, w.size)
    /\ head' = [head EXCEPT ![w.stream] = w.expected + w.size]
    /\ Finish(w, "ok")
    /\ UNCHANGED <<phase, awaited, seen, call, receipts, crashes>>

(* append() of no events returns without opening the database.             *)
CommitNothing(w) ==
    /\ w.result = "pending"
    /\ w.size = 0
    /\ Finish(w, "ok")
    /\ UNCHANGED <<head, rows, phase, awaited, seen, call, receipts, crashes>>

(* The stream moved since the caller read it: ConcurrencyConflict, rolled  *)
(* back.                                                                   *)
Conflict(w) ==
    /\ w.result = "pending"
    /\ w.size > 0
    /\ head[w.stream] # w.expected
    /\ Finish(w, "conflict")
    /\ UNCHANGED <<head, rows, phase, awaited, seen, call, receipts, crashes>>

(* The write lock stayed taken past the busy timeout, or the transaction   *)
(* failed: rolled back and reported as a store error.                      *)
Busy(w) ==
    /\ w.result = "pending"
    /\ w.size > 0
    /\ Finish(w, "busy")
    /\ UNCHANGED <<head, rows, phase, awaited, seen, call, receipts, crashes>>

(* CancelledError reaches a caller whose worker is still running or has    *)
(* finished without the caller knowing: it goes on waiting for the worker. *)
Cancel(c) ==
    /\ call[c].at = "waiting"
    /\ ~call[c].cancelled
    /\ call' = [call EXCEPT ![c].cancelled = TRUE]
    /\ UNCHANGED <<head, rows, phase, awaited, seen, work, receipts, crashes>>

Deliver(c, w) ==
    /\ work' = work \ {w}
    /\ call' = [call EXCEPT ![c].at = "idle",
                            ![c].outcome = IF call[c].cancelled
                                           THEN "cancelled" ELSE w.result]
    /\ receipts' = IF w.result = "ok" /\ ~call[c].cancelled
                   THEN receipts \cup {[id |-> w.id, stream |-> w.stream,
                                        first |-> w.expected + 1,
                                        size |-> w.size]}
                   ELSE receipts
    /\ UNCHANGED <<head, rows, phase, awaited, seen, crashes>>

(* Slip: the caller goes on without waiting for the worker to converge.    *)
ReturnEarly(c) ==
    /\ call[c].at = "waiting"
    /\ \E w \in work : w.id = <<c, call[c].op>> /\ Deliver(c, w)

(* Slip: a cancelled caller is never given its worker's outcome.           *)
ReturnUncancelled(c) ==
    /\ call[c].at = "waiting"
    /\ ~call[c].cancelled
    /\ \E w \in work :
       w.id = <<c, call[c].op>> /\ w.result # "pending" /\ Deliver(c, w)

(* The worker has converged and the caller gets its outcome: the envelopes *)
(* or the error, and CancelledError whatever the worker did if cancelled.  *)
Return(c) ==
    /\ call[c].at = "waiting"
    /\ \E w \in work :
       w.id = <<c, call[c].op>> /\ w.result # "pending" /\ Deliver(c, w)

(* Slip: aclose() does not remember which calls are running.               *)
BeginCloseForgetful(s) ==
    /\ phase[s] = "open"
    /\ phase' = [phase EXCEPT ![s] = "closing"]
    /\ UNCHANGED <<head, rows, awaited, seen, call, work, receipts, crashes>>

(* aclose() takes the state lock: no further call is admitted and the      *)
(* close task is to converge the calls running now.                        *)
BeginClose(s) ==
    /\ phase[s] = "open"
    /\ phase' = [phase EXCEPT ![s] = "closing"]
    /\ awaited' = [awaited EXCEPT ![s] = {w.id : w \in Pending(s)}]
    /\ UNCHANGED <<head, rows, seen, call, work, receipts, crashes>>

(* _finish_close(): every awaited worker has finished.                     *)
FinishClose(s) ==
    /\ phase[s] = "closing"
    /\ \A w \in work : w.id \in awaited[s] => w.result # "pending"
    /\ phase' = [phase EXCEPT ![s] = "closed"]
    /\ UNCHANGED <<head, rows, awaited, seen, call, work, receipts, crashes>>

(* The process of a store dies and a new one opens the database: a         *)
(* transaction that had not committed never happened, and everything kept  *)
(* in memory is gone.                                                      *)
Crash(s) ==
    /\ crashes < MaxCrashes
    /\ crashes' = crashes + 1
    /\ work' = {w \in work : StoreOfWork(w) # s}
    /\ phase' = [phase EXCEPT ![s] = "open"]
    /\ awaited' = [awaited EXCEPT ![s] = {}]
    /\ call' = [c \in Callers |->
                  IF StoreOf[c] = s /\ call[c].at = "waiting"
                  THEN [call[c] EXCEPT !.at = "idle", !.outcome = "crashed"]
                  ELSE call[c]]
    /\ seen' = [c \in Callers |->
                  IF StoreOf[c] = s THEN [st \in Streams |-> 0] ELSE seen[c]]
    /\ UNCHANGED <<head, rows, receipts>>

Worker(w) == Commit(w) \/ CommitNothing(w) \/ Conflict(w) \/ Busy(w)

Next ==
    \/ \E c \in Callers :
          \/ \E st \in Streams : ObserveHead(c, st)
          \/ \E st \in Streams, n \in BatchSizes : Admit(c, st, n)
          \/ Refuse(c)
          \/ Cancel(c)
          \/ Return(c)
    \/ \E w \in work : Worker(w)
    \/ \E s \in Stores : BeginClose(s) \/ FinishClose(s) \/ Crash(s)

Spec == Init /\ [][Next]_vars

(* A worker thread always ends (the busy timeout bounds its wait for the   *)
(* write lock), and the event loop resumes whoever it completed.           *)
Fairness ==
    /\ \A c \in Callers :
          /\ WF_vars(\E w \in work : w.id[1] = c /\ Worker(w))
          /\ WF_vars(Return(c))
    /\ \A s \in Stores : WF_vars(FinishClose(s))

FairSpec == Spec /\ Fairness

-----------------------------------------------------------------------------
RowsOf(st) == {r \in rows : r.stream = st}

(* What _validate_history() demands of a database it opens: each stream    *)
(* has exactly one row for every sequence number up to its head.           *)
HistoryIntact ==
    \A st \in Streams :
       /\ {r.seq : r \in RowsOf(st)} = 1 .. head[st]
       /\ \A r1, r2 \in RowsOf(st) : r1.seq = r2.seq => r1 = r2

(* Events handed back by append() are in the stream, contiguous and at the *)
(* sequence numbers the caller was told, whatever other writers, crashes   *)
(* and closes did since.                                                   *)
ReceiptsDurable ==
    \A r \in receipts : \A i \in 1 .. r.size :
       [stream |-> r.stream, seq |-> r.first + i - 1,
        id |-> r.id, part |-> i, size |-> r.size] \in rows

(* One append() is in the stream entirely or not at all: request/snapshot  *)
(* never appears without the model/attempt-start written with it.          *)
BatchesWhole ==
    \A r \in rows : \A i \in 1 .. r.size :
       \E q \in rows : /\ q.stream = r.stream
                       /\ q.id = r.id
                       /\ q.part = i
                       /\ q.seq + r.part = r.seq + i

(* A caller told that its append conflicted, failed or was refused has     *)
(* left nothing behind, so it may decide again from a fresh read.          *)
RefusedWroteNothing ==
    \A c \in Callers :
       call[c].outcome \in {"conflict", "busy", "closed"} =>
          \A r \in rows : r.id # <<c, call[c].op>>

(* What append() tells its caller is true for good, a receipt as much as a *)
(* refusal, whoever else writes, closes or crashes.                        *)
AnswersAreTrue == ReceiptsDurable /\ RefusedWroteNothing

(* Once aclose() has finished no worker of that store is running: nothing  *)
(* is written behind the back of whoever closed it.                        *)
ClosedIsQuiet ==
    \A s \in Stores : phase[s] = "closed" => Pending(s) = {}

(* No step ever rewrites, removes or reorders an event.                    *)
AppendOnly ==
    [][ /\ rows \subseteq rows'
        /\ \A st \in Streams : head'[st] >= head[st]
        /\ \A r \in rows' \ rows : r.seq > head[r.stream] ]_vars

(* Every call returns, cancelled or not, and so does every aclose(): a close *)
(* is not held up by callers that were cancelled or never look at their    *)
(* result.                                                                 *)
CallsReturn ==
    /\ \A c \in Callers : call[c].at = "waiting" ~> call[c].at = "idle"
    /\ \A s \in Stores : phase[s] = "closing" ~> phase[s] # "closing"

(* The stream as the abstract log sees it.                                 *)
LogOf(st) == [q \in 1 .. head[st] |-> (CHOOSE r \in RowsOf(st) : r.seq = q).id]

Abstract == INSTANCE AppendLog
              WITH Ids <- OpId, log <- [st \in Streams |-> LogOf(st)]

(* The store implements a set of logs that only ever grow by whole batches *)
(* of one call each.                                                       *)
ImplementsAppendLog == Abstract!Spec
=============================================================================
