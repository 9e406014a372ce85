------------------------ MODULE AgentDeliveryProofs ------------------------
(***************************************************************************)
(* Proofs about AgentDelivery, for any processes, any number of messages   *)
(* and any number of faults, interrupts, disposals and crashes.            *)
(***************************************************************************)
EXTENDS AgentDelivery, SequenceTheorems, TLAPS

Facts == [type : Terminal \cup {"claimed"}, message : Message, by : Process]

(* Claims and terminals alternate, message by message: the stream claims k *)
(* at 2k - 1 and settles it, for the same process, at 2k.                  *)
Alternating(d) ==
    \A i \in DOMAIN d, k \in Nat \ {0} :
       /\ i = 2 * k - 1 => d[i].type = "claimed" /\ d[i].message = k
       /\ i = 2 * k => /\ d[i].type \in Terminal /\ d[i].message = k
                      /\ d[i].by = d[i - 1].by

(* What a worker knows of the stream where it stands.  One that is about   *)
(* to claim m has seen all before m settled and m not claimed; the claim   *)
(* of one that holds m is the last fact of the stream.                     *)
Holding == {"confirm", "running"} \cup Settling

Place(p) ==
    /\ pc[p] \in {"claim inbox", "claim delivery", "claim append"} =>
          message[p] # 0 /\ view[p].delivery = 2 * message[p] - 2
    /\ pc[p] \in Claiming \cup {"settle delivery"} => message[p] <= view[p].inbox
    /\ pc[p] \in Holding => /\ Len(delivery) = 2 * message[p] - 1
                            /\ delivery[Len(delivery)].by = p
    /\ pc[p] = "settle append" => view[p].delivery = Len(delivery)
    /\ pc[p] = "confirm" => \A i \in DOMAIN ran : ran[i] # message[p]
    /\ stopping[p] => budget.disposals > 0

Places == \A p \in Process : Place(p)

(* Turns were started in order, each on a claim, of an accepted message.   *)
Started ==
    /\ Len(delivery) <= 2 * Len(inbox)
    /\ \A i, j \in DOMAIN ran : i < j => ran[i] < ran[j]
    /\ \A i \in DOMAIN ran : 2 * ran[i] - 1 <= Len(delivery)

(* A claim at the end of the stream has its worker, or a disposal came     *)
(* before its turn was started.                                            *)
Owed ==
    budget.faults = 0 /\ budget.crashes = 0 =>
       \A m \in Message : Len(delivery) = 2 * m - 1 =>
          \/ pc[delivery[Len(delivery)].by] \in Holding
          \/ budget.disposals > 0 /\ \A i \in DOMAIN ran : ran[i] # m

Inv == TypeOK /\ Alternating(delivery) /\ Places /\ Started /\ Owed

-----------------------------------------------------------------------------
(* What the projector finds in a stream that alternates.                   *)
LEMMA Halves == \A i \in Nat \ {0} : \E k \in Nat \ {0} : i = 2 * k - 1 \/ i = 2 * k
<1> SUFFICES ASSUME NEW i \in Nat \ {0}
             PROVE  \E k \in Nat \ {0} : i = 2 * k - 1 \/ i = 2 * k
  OBVIOUS
<1>1. (i + 1) \div 2 \in Nat \ {0} /\ (i = 2 * ((i + 1) \div 2) - 1 \/ i = 2 * ((i + 1) \div 2))
  OBVIOUS
<1> QED
  BY <1>1

LEMMA OddClaims ==
    ASSUME NEW d, Alternating(d), NEW i \in DOMAIN d, NEW k \in Nat \ {0}, i = 2 * k - 1
    PROVE  d[i].type = "claimed" /\ d[i].message = k
<1> QED
  BY Zenon DEF Alternating

LEMMA EvenSettles ==
    ASSUME NEW d, Alternating(d), NEW i \in DOMAIN d, NEW k \in Nat \ {0}, i = 2 * k
    PROVE  d[i].type \in Terminal /\ d[i].message = k /\ d[i].by = d[i - 1].by
<1> QED
  BY Zenon DEF Alternating

LEMMA EvenNamesItsMessage ==
    ASSUME NEW d, Alternating(d), NEW i \in DOMAIN d, NEW k \in Nat \ {0}, i = 2 * k
    PROVE  d[i].message = k
<1> QED
  BY Zenon DEF Alternating

LEMMA ClaimedIs ==
    ASSUME NEW d \in Seq(Facts), Alternating(d), NEW m
    PROVE  m \in Claimed(d) <=> m \in Nat \ {0} /\ 2 * m - 1 <= Len(d)
<1>1. DOMAIN d = 1 .. Len(d) /\ Len(d) \in Nat
  OBVIOUS
<1>2. ASSUME m \in Claimed(d) PROVE m \in Nat \ {0} /\ 2 * m - 1 <= Len(d)
  <2>1. PICK i \in DOMAIN d : d[i].type = "claimed" /\ d[i].message = m
    BY <1>2 DEF Claimed
  <2>2. PICK k \in Nat \ {0} : i = 2 * k - 1 \/ i = 2 * k
    BY <1>1, Halves, i \in Nat \ {0}
  <2>3. i = 2 * k - 1
    BY <2>1, <2>2, EvenSettles DEF Terminal
  <2>4. d[i].message = k
    BY ONLY Alternating(d), i \in DOMAIN d, k \in Nat \ {0}, <2>3, OddClaims, Zenon
  <2> QED
    BY <1>1, <2>1, <2>3, <2>4
<1>3. ASSUME m \in Nat \ {0}, 2 * m - 1 <= Len(d) PROVE m \in Claimed(d)
  <2>1. 2 * m - 1 \in DOMAIN d
    BY <1>1, <1>3
  <2>2. d[2 * m - 1].type = "claimed" /\ d[2 * m - 1].message = m
    BY <1>3, <2>1, OddClaims
  <2> QED
    BY <2>1, <2>2 DEF Claimed
<1> QED
  BY <1>2, <1>3

LEMMA SettledIs ==
    ASSUME NEW d \in Seq(Facts), Alternating(d), NEW m
    PROVE  m \in Settled(d) <=> m \in Nat \ {0} /\ 2 * m <= Len(d)
<1>1. DOMAIN d = 1 .. Len(d) /\ Len(d) \in Nat
  OBVIOUS
<1>2. ASSUME m \in Settled(d) PROVE m \in Nat \ {0} /\ 2 * m <= Len(d)
  <2>1. PICK i \in DOMAIN d : d[i].type \in Terminal /\ d[i].message = m
    BY <1>2 DEF Settled
  <2>2. PICK k \in Nat \ {0} : i = 2 * k - 1 \/ i = 2 * k
    BY <1>1, Halves, i \in Nat \ {0}
  <2>3. i = 2 * k
    BY <2>1, <2>2, OddClaims DEF Terminal
  <2>4. d[i].message = k
    BY ONLY Alternating(d), i \in DOMAIN d, k \in Nat \ {0}, <2>3,
            EvenNamesItsMessage, Zenon
  <2> QED
    BY <1>1, <2>1, <2>3, <2>4
<1>3. ASSUME m \in Nat \ {0}, 2 * m <= Len(d) PROVE m \in Settled(d)
  <2>1. 2 * m \in DOMAIN d
    BY <1>1, <1>3
  <2>2. d[2 * m].type \in Terminal /\ d[2 * m].message = m
    BY <1>3, <2>1, EvenSettles
  <2> QED
    BY <2>1, <2>2 DEF Settled
<1> QED
  BY <1>2, <1>3

(* A prefix alternates as well, and so does the stream with what follows.  *)
LEMMA PrefixAlternates ==
    ASSUME NEW d \in Seq(Facts), Alternating(d), NEW n \in 0 .. Len(d)
    PROVE  /\ SubSeq(d, 1, n) \in Seq(Facts) /\ Len(SubSeq(d, 1, n)) = n
           /\ Alternating(SubSeq(d, 1, n))
           /\ \A i \in 1 .. n : SubSeq(d, 1, n)[i] = d[i]
<1> DEFINE s == SubSeq(d, 1, n)
<1>1. DOMAIN d = 1 .. Len(d) /\ Len(d) \in Nat /\ \A i \in 1 .. n : d[i] \in Facts
  OBVIOUS
<1>2. s \in Seq(Facts) /\ Len(s) = n /\ \A i \in 1 .. n : s[i] = d[i]
  <2>1. \A i \in 1 .. n - 1 + 1 : s[i] = d[1 + i - 1]
    BY <1>1, SubSeqProperties
  <2>2. s \in Seq(Facts) /\ Len(s) = IF 1 <= n THEN n - 1 + 1 ELSE 0
    BY <1>1, SubSeqProperties
  <2> HIDE DEF s
  <2> QED
    BY <2>1, <2>2
<1> HIDE DEF s
<1>3. DOMAIN s = 1 .. n
  BY <1>2
<1>4. Alternating(s)
  <2> SUFFICES ASSUME NEW i \in 1 .. n, NEW k \in Nat \ {0}
               PROVE  /\ i = 2 * k - 1 => s[i].type = "claimed" /\ s[i].message = k
                      /\ i = 2 * k => /\ s[i].type \in Terminal /\ s[i].message = k
                                     /\ s[i].by = s[i - 1].by
    BY <1>3 DEF Alternating
  <2>1. i \in DOMAIN d /\ s[i] = d[i] /\ (i = 2 * k => s[i - 1] = d[i - 1])
    BY <1>1, <1>2
  <2>2. i = 2 * k - 1 => d[i].type = "claimed" /\ d[i].message = k
    BY <2>1, OddClaims
  <2>3. i = 2 * k => d[i].type \in Terminal /\ d[i].message = k /\ d[i].by = d[i - 1].by
    BY <2>1, EvenSettles
  <2> QED
    BY <2>1, <2>2, <2>3
<1> QED
  BY <1>2, <1>4 DEF s

LEMMA Extends ==
    ASSUME NEW d \in Seq(Facts), Alternating(d), NEW e \in Facts,
           NEW m \in Nat \ {0},
           \/ Len(d) = 2 * m - 2 /\ e.type = "claimed" /\ e.message = m
           \/ /\ Len(d) = 2 * m - 1 /\ e.type \in Terminal /\ e.message = m
              /\ e.by = d[Len(d)].by
    PROVE  Alternating(Append(d, e))
<1> DEFINE s == Append(d, e)
<1>1. /\ s \in Seq(Facts) /\ Len(s) = Len(d) + 1
      /\ \A i \in 1 .. Len(d) : s[i] = d[i]
      /\ s[Len(d) + 1] = e
  BY AppendProperties
<1>2. DOMAIN s = 1 .. Len(d) + 1 /\ DOMAIN d = 1 .. Len(d) /\ Len(d) \in Nat
  BY <1>1
<1> HIDE DEF s
<1>3. ASSUME NEW i \in DOMAIN s, NEW k \in Nat \ {0}, i = 2 * k - 1
      PROVE  s[i].type = "claimed" /\ s[i].message = k
  <2>1. CASE i <= Len(d)
    <3>1. i \in DOMAIN d
      BY <1>2, <2>1
    <3>2. d[i].type = "claimed" /\ d[i].message = k
      BY <1>3, <3>1, OddClaims
    <3> QED
      BY <1>1, <1>2, <3>1, <3>2
  <2>2. CASE i = Len(d) + 1
    <3>1. e.type = "claimed" /\ m = k /\ e.message = m
      BY <1>2, <1>3, <2>2
    <3> QED
      BY <1>1, <2>2, <3>1
  <2> QED
    BY <1>2, <2>1, <2>2
<1>4. ASSUME NEW i \in DOMAIN s, NEW k \in Nat \ {0}, i = 2 * k
      PROVE  /\ s[i].type \in Terminal /\ s[i].message = k
             /\ s[i].by = s[i - 1].by
  <2>1. CASE i <= Len(d)
    <3>1. i \in 1 .. Len(d) /\ i - 1 \in 1 .. Len(d)
      BY <1>2, <1>4, <2>1
    <3>2. d[i].type \in Terminal /\ d[i].message = k /\ d[i].by = d[i - 1].by
      <4>1. i \in DOMAIN d /\ i = 2 * k /\ k \in Nat \ {0}
        BY <1>4, <3>1
      <4>2. \A x \in DOMAIN d, y \in Nat \ {0} :
               x = 2 * y => d[x].type \in Terminal /\ d[x].message = y /\ d[x].by = d[x - 1].by
        BY EvenSettles
      <4> QED
        BY ONLY <4>1, <4>2
    <3> QED
      BY <1>1, <3>1, <3>2
  <2>2. CASE i = Len(d) + 1
    <3>1. e.type \in Terminal /\ e.message = m /\ e.by = d[Len(d)].by /\ m = k
      BY <1>2, <1>4, <2>2
    <3>2. s[i] = e /\ i - 1 = Len(d) /\ Len(d) \in 1 .. Len(d)
      BY <1>1, <1>2, <1>4, <2>2
    <3>3. s[i - 1] = d[Len(d)]
      BY <1>1, <3>2
    <3> QED
      BY <3>1, <3>2, <3>3
  <2> QED
    BY <1>2, <2>1, <2>2
<1>5. Alternating(s)
  BY <1>3, <1>4, ZenonT(40) DEF Alternating
<1> QED
  BY <1>5 DEF s

(* The projector accepts it beside an inbox that holds what it claims.     *)
LEMMA AcceptedIs ==
    ASSUME NEW d \in Seq(Facts), Alternating(d), NEW n \in Nat,
           \A k \in Nat \ {0} : 2 * k - 1 <= Len(d) => k <= n
    PROVE  Accepted(d, n)
<1> DEFINE before(i) == SubSeq(d, 1, i - 1)
<1>1. DOMAIN d = 1 .. Len(d) /\ Len(d) \in Nat
  OBVIOUS
<1>2. SUFFICES ASSUME NEW i \in DOMAIN d
      PROVE IF d[i].type = "claimed"
           THEN /\ d[i].message <= n
                /\ d[i].message \notin Claimed(before(i))
                /\ \A k \in 1 .. d[i].message - 1 : k \in Settled(before(i))
           ELSE /\ Fact("claimed", d[i].message, d[i].by) \in
                      {before(i)[j] : j \in DOMAIN before(i)}
                /\ d[i].message \notin Settled(before(i))
  BY DEF Accepted
<1>3. /\ before(i) \in Seq(Facts) /\ Len(before(i)) = i - 1 /\ Alternating(before(i))
      /\ \A j \in 1 .. i - 1 : before(i)[j] = d[j]
  BY <1>1, PrefixAlternates
<1> HIDE DEF before
<1>4. PICK k \in Nat \ {0} : i = 2 * k - 1 \/ i = 2 * k
  BY <1>1, Halves, i \in Nat \ {0}
<1>5. CASE i = 2 * k - 1
  <2>1. d[i].type = "claimed" /\ d[i].message = k /\ k <= n
    <3>1. d[i].type = "claimed" /\ d[i].message = k
      BY <1>5, OddClaims
    <3> QED
      BY <1>1, <1>5, <3>1
  <2>2. k \notin Claimed(before(i))
    BY <1>3, <1>5, ClaimedIs
  <2>3. \A j \in 1 .. k - 1 : j \in Settled(before(i))
    <3>1. \A j \in 1 .. k - 1 : j \in Nat \ {0} /\ 2 * j <= i - 1
      BY <1>5
    <3> QED
      BY <3>1, <1>3, SettledIs
  <2> QED
    BY <2>1, <2>2, <2>3
<1>6. CASE i = 2 * k
  <2>1. d[i].type \in Terminal /\ d[i].message = k /\ d[i].by = d[i - 1].by
    BY <1>6, EvenSettles
  <2>2. k \notin Settled(before(i))
    BY <1>3, <1>6, SettledIs
  <2>3. i - 1 \in 1 .. i - 1 /\ i - 1 \in DOMAIN d /\ i - 1 \in DOMAIN before(i)
    BY <1>1, <1>3, <1>6
  <2>4. d[i - 1] = Fact("claimed", k, d[i].by)
    <3>1. d[i - 1].type = "claimed" /\ d[i - 1].message = k
      BY <2>3, <1>6, OddClaims
    <3>2. d[i - 1] \in Facts
      BY <2>3, <1>1
    <3> QED
      BY <2>1, <3>1, <3>2 DEF Fact, Facts
  <2>5. before(i)[i - 1] = Fact("claimed", k, d[i].by)
    BY <2>3, <2>4, <1>3
  <2>6. d[i].type # "claimed"
    BY <2>1 DEF Terminal
  <2> QED
    BY <2>1, <2>2, <2>3, <2>5, <2>6
<1> QED
  BY <1>4, <1>5, <1>6

LEMMA NextUnclaimedIs ==
    ASSUME NEW d \in Seq(Facts), Alternating(d), NEW n \in Nat, NEW m \in NextUnclaimed(d, n)
    PROVE  m \in 1 .. n /\ Len(d) = 2 * m - 2
<1>1. m \in 1 .. n /\ m \notin Claimed(d) /\ \A k \in 1 .. m - 1 : k \in Settled(d)
  BY DEF NextUnclaimed
<1>2. Len(d) < 2 * m - 1
  BY <1>1, ClaimedIs
<1>3. m > 1 => 2 * (m - 1) <= Len(d)
  <2>1. m > 1 => m - 1 \in Settled(d)
    BY <1>1
  <2>2. m > 1 => m - 1 \in Nat \ {0}
    BY <1>1
  <2> QED
    BY <2>1, <2>2, SettledIs
<1> QED
  BY <1>1, <1>2, <1>3

-----------------------------------------------------------------------------
(* The steps of one process, and what they do to each variable.            *)
Act(p) ==
    \/ Send(p) \/ Resume(p) \/ Works(p) \/ Interrupt(p) \/ StoreFails(p) \/ Dispose(p) \/ Crash(p)

LEMMA SignalMoves ==
    ASSUME NEW p \in Process, Act(p)
    PROVE  /\ wake' = wake \/ \E b \in BOOLEAN : wake' = [wake EXCEPT ![p] = b]
           /\ idle' = idle \/ \E b \in BOOLEAN : idle' = [idle EXCEPT ![p] = b]
           /\ stopping' = stopping \/ \E b \in BOOLEAN : stopping' = [stopping EXCEPT ![p] = b]
           /\ calling' = calling \/ \E b \in BOOLEAN : calling' = [calling EXCEPT ![p] = b]
           /\ blocked' = blocked \/ \E b \in BOOLEAN : blocked' = [blocked EXCEPT ![p] = b]
           /\ dying' = dying \/ \E b \in {"no", "raised", "absorbed"} : dying' = [dying EXCEPT ![p] = b]
           /\ \/ fault' = fault
              \/ fault' = [fault EXCEPT ![p] = fault[p]]
              \/ \E f \in {"none", "worker-failed", "claim-append-failed",
                          "claim-not-durable", "terminal-not-durable"} :
                    fault' = [fault EXCEPT ![p] = f]
           /\ \/ asked' = asked \/ asked' = [asked EXCEPT ![p] = Len(inbox)]
              \/ asked' = [asked EXCEPT ![p] = 0]
<1> USE DEF Act, Send, Resume, Works, Interrupt, StoreFails, Dispose, Crash, Activate, RequestWake,
            TakeWake, LoadInbox, LoadDelivery, Drained, ClaimInbox, ClaimDelivery, ClaimAppend,
            Confirm, TurnEnds, SettleInbox, SettleDelivery, SettleAppend, CancelWorker, Disposed,
            ReadFails, ClaimFails, TerminalFails, signals, history, SetFault, WorkerOver,
            WorkerFailed, Retry, AfterTerminal, Gone
<1>1. wake' = wake \/ \E b \in BOOLEAN : wake' = [wake EXCEPT ![p] = b]
  OBVIOUS
<1>2. idle' = idle \/ \E b \in BOOLEAN : idle' = [idle EXCEPT ![p] = b]
  OBVIOUS
<1>3. stopping' = stopping \/ \E b \in BOOLEAN : stopping' = [stopping EXCEPT ![p] = b]
  OBVIOUS
<1>4. calling' = calling \/ \E b \in BOOLEAN : calling' = [calling EXCEPT ![p] = b]
  OBVIOUS
<1>5. blocked' = blocked \/ \E b \in BOOLEAN : blocked' = [blocked EXCEPT ![p] = b]
  OBVIOUS
<1>6. dying' = dying \/ \E b \in {"no", "raised", "absorbed"} : dying' = [dying EXCEPT ![p] = b]
  OBVIOUS
<1>7. \/ fault' = fault
      \/ fault' = [fault EXCEPT ![p] = fault[p]]
      \/ \E f \in {"none", "worker-failed", "claim-append-failed",
                  "claim-not-durable", "terminal-not-durable"} :
            fault' = [fault EXCEPT ![p] = f]
  OBVIOUS
<1>8. \/ asked' = asked \/ asked' = [asked EXCEPT ![p] = Len(inbox)]
      \/ asked' = [asked EXCEPT ![p] = 0]
  OBVIOUS
<1> QED
  BY ONLY <1>1, <1>2, <1>3, <1>4, <1>5, <1>6, <1>7, <1>8

LEMMA DecisionMoves ==
    ASSUME NEW p \in Process, Act(p)
    PROVE  /\ pc' = pc \/ \E w \in Alive \cup {"over", "off"} : pc' = [pc EXCEPT ![p] = w]
           /\ \/ view' = view \/ view' = [view EXCEPT ![p] = [inbox |-> 0, delivery |-> 0]]
              \/ view' = [view EXCEPT ![p].inbox = Len(inbox)]
              \/ view' = [view EXCEPT ![p].delivery = Len(delivery)]
           /\ \/ message' = message \/ message' = [message EXCEPT ![p] = 0]
              \/ \E m \in NextUnclaimed(delivery, view[p].inbox) : message' = [message EXCEPT ![p] = m]
           /\ result' = result \/ \E r \in Terminal : result' = [result EXCEPT ![p] = r]
<1> USE DEF Act, Send, Resume, Works, Interrupt, StoreFails, Dispose, Crash, Activate, RequestWake,
            TakeWake, LoadInbox, LoadDelivery, Drained, ClaimInbox, ClaimDelivery, ClaimAppend,
            Confirm, TurnEnds, SettleInbox, SettleDelivery, SettleAppend, CancelWorker, Disposed,
            ReadFails, ClaimFails, TerminalFails, decision, Go, Forget, WorkerOver,
            WorkerFailed, Retry, AfterTerminal, Gone
<1>1. pc' = pc \/ \E w \in Alive \cup {"over", "off"} : pc' = [pc EXCEPT ![p] = w]
  BY DEF Alive, Reading, Claiming, Settling
<1>2. \/ view' = view \/ view' = [view EXCEPT ![p] = [inbox |-> 0, delivery |-> 0]]
      \/ view' = [view EXCEPT ![p].inbox = Len(inbox)]
      \/ view' = [view EXCEPT ![p].delivery = Len(delivery)]
  OBVIOUS
<1>3. \/ message' = message \/ message' = [message EXCEPT ![p] = 0]
      \/ \E m \in NextUnclaimed(delivery, view[p].inbox) : message' = [message EXCEPT ![p] = m]
  OBVIOUS
<1>4. result' = result \/ \E r \in Terminal : result' = [result EXCEPT ![p] = r]
  BY DEF Terminal
<1> QED
  BY ONLY <1>1, <1>2, <1>3, <1>4

LEMMA BudgetMoves ==
    ASSUME NEW p \in Process, Act(p)
    PROVE  \/ budget' = budget
           \/ budget.faults < MaxFaults /\ budget' = [budget EXCEPT !.faults = @ + 1]
           \/ budget.interrupts < MaxInterrupts /\ budget' = [budget EXCEPT !.interrupts = @ + 1]
           \/ /\ budget.disposals + budget.crashes < MaxStops
              /\ \/ budget' = [budget EXCEPT !.disposals = @ + 1]
                 \/ budget' = [budget EXCEPT !.crashes = @ + 1]
<1> QED
  BY DEF Act, Send, Resume, Works, Interrupt, StoreFails, Dispose, Crash, Activate, RequestWake,
         TakeWake, LoadInbox, LoadDelivery, Drained, ClaimInbox, ClaimDelivery, ClaimAppend,
         Confirm, TurnEnds, SettleInbox, SettleDelivery, SettleAppend, CancelWorker, Disposed

LEMMA InboxMoves ==
    ASSUME NEW p \in Process, Act(p)
    PROVE  \/ inbox' = inbox
           \/ /\ Len(inbox) < MaxMessages
              /\ \E t \in {"new-turn", "next-step"} : inbox' = Append(inbox, t)
<1>1. CASE Send(p)
  BY <1>1 DEF Send
<1>2. CASE ~Send(p)
  <2>1. inbox' = inbox
    BY <1>2 DEF Act, Works, Resume, Activate, RequestWake, TakeWake, LoadInbox, LoadDelivery,
                Drained, ClaimInbox, ClaimDelivery, ClaimAppend, Confirm, TurnEnds, SettleInbox,
                SettleDelivery, SettleAppend, CancelWorker, Disposed, Interrupt, StoreFails,
                Dispose, Crash, ReadFails, ClaimFails, TerminalFails, streams, WorkerFailed,
                Retry, AfterTerminal, Gone
  <2> QED
    BY <2>1
<1> QED
  BY <1>1, <1>2

(* A turn is started only by a worker that has proved its claim.           *)
LEMMA RanMoves ==
    ASSUME NEW p \in Process, Act(p)
    PROVE  \/ ran' = ran
           \/ /\ pc[p] = "confirm" /\ pc' = [pc EXCEPT ![p] = "running"]
              /\ ran' = Append(ran, message[p]) /\ delivery' = delivery
<1>1. CASE Confirm(p)
  BY <1>1 DEF Confirm, WorkerFailed, history, Go, streams
<1>2. CASE ~Confirm(p)
  <2>1. ran' = ran
    BY <1>2 DEF Act, Works, Send, Resume, Activate, RequestWake, TakeWake, LoadInbox, LoadDelivery,
                Drained, ClaimInbox, ClaimDelivery, ClaimAppend, TurnEnds, SettleInbox,
                SettleDelivery, SettleAppend, CancelWorker, Disposed, Interrupt, StoreFails,
                Dispose, Crash, ReadFails, ClaimFails, TerminalFails, history, WorkerFailed,
                Retry, AfterTerminal, Gone
  <2> QED
    BY <2>1
<1> QED
  BY <1>1, <1>2

(* A fact is appended only by a worker whose view of the stream is current.*)
Claims(p) ==
    /\ pc[p] = "claim append" /\ Len(delivery) = view[p].delivery
    /\ delivery' = Append(delivery, Fact("claimed", message[p], p))

Settles(p) ==
    /\ pc[p] = "settle append" /\ Len(delivery) = view[p].delivery
    /\ delivery' = Append(delivery, Fact(result[p], message[p], p))

LEMMA DeliveryMoves ==
    ASSUME NEW p \in Process, Act(p)
    PROVE  delivery' = delivery \/ Claims(p) \/ Settles(p)
<1> USE DEF Claims, Settles
<1>1. CASE ClaimAppend(p) \/ SettleAppend(p)
  BY <1>1 DEF ClaimAppend, SettleAppend, Retry, streams
<1>2. CASE ClaimFails(p) \/ TerminalFails(p)
  BY <1>2 DEF ClaimFails, TerminalFails, Lands
<1>3. CASE CancelWorker(p)
  BY <1>3 DEF CancelWorker, Lands
<1>4. CASE ~(ClaimAppend(p) \/ SettleAppend(p) \/ ClaimFails(p) \/ TerminalFails(p) \/ CancelWorker(p))
  <2>1. delivery' = delivery
    BY <1>4 DEF Act, Works, Send, StoreFails, Resume, Activate, RequestWake, TakeWake, LoadInbox,
                LoadDelivery, Drained, ClaimInbox, ClaimDelivery, Confirm, TurnEnds, SettleInbox,
                SettleDelivery, Disposed, Interrupt, Dispose, Crash, ReadFails, streams,
                WorkerFailed, Retry, AfterTerminal, Gone
  <2> QED
    BY <2>1
<1> QED
  BY <1>1, <1>2, <1>3, <1>4

(* What a worker's place says of the step that took it there.              *)
Decided(p) ==
    message'[p] \in NextUnclaimed(delivery, view[p].inbox) /\ view'[p].inbox = view[p].inbox
       /\ view'[p].delivery = Len(delivery) /\ delivery' = delivery

LEMMA PlaceMoves ==
    ASSUME NEW p \in Process, Act(p),
           DOMAIN pc = Process, DOMAIN message = Process, DOMAIN view = Process,
           DOMAIN stopping = Process,
           view[p] = [inbox |-> view[p].inbox, delivery |-> view[p].delivery]
    PROVE  /\ pc'[p] \in Holding =>
                 /\ message'[p] = message[p]
                 /\ \/ pc[p] \in Holding /\ delivery' = delivery
                    \/ Claims(p) /\ pc'[p] = "confirm"
           /\ pc'[p] \in {"claim inbox", "claim delivery", "claim append"} =>
                 \/ Decided(p)
                 \/ /\ pc[p] \in {"claim inbox", "claim delivery", "claim append"}
                    /\ message'[p] = message[p] /\ view'[p].delivery = view[p].delivery
           /\ pc'[p] \in Claiming =>
                 \/ Decided(p)
                 \/ /\ pc[p] \in Claiming /\ message'[p] = message[p]
                    /\ view'[p].inbox \in {view[p].inbox, Len(inbox)}
           /\ pc'[p] = "settle delivery" =>
                 \/ view'[p].inbox = Len(inbox)
                 \/ pc[p] = "settle delivery" /\ view'[p].inbox = view[p].inbox
           /\ pc'[p] = "settle append" =>
                 \/ view'[p].delivery = Len(delivery)
                 \/ pc[p] = "settle append" /\ view'[p].delivery = view[p].delivery
           /\ pc'[p] = "confirm" => pc[p] \in {"claim append", "confirm"}
           /\ stopping'[p] => stopping[p] \/ budget' = [budget EXCEPT !.disposals = @ + 1]
<1> USE DEF Send, Resume, Interrupt, StoreFails, Dispose, Crash, Activate, RequestWake,
            TakeWake, LoadInbox, Drained, ClaimInbox, ClaimDelivery, ClaimAppend,
            Confirm, TurnEnds, SettleInbox, SettleDelivery, SettleAppend, CancelWorker, Disposed,
            ReadFails, ClaimFails, TerminalFails, Go, Forget, WorkerOver, WorkerFailed, Retry,
            AfterTerminal, Gone, streams, decision, signals, Lands, Holding, Claiming, Settling, Reading
<1>1. pc'[p] \in Holding => /\ message'[p] = message[p]
                           /\ \/ pc[p] \in Holding /\ delivery' = delivery
                              \/ Claims(p) /\ pc'[p] = "confirm"
  BY ZenonT(40) DEF Act, Works, LoadDelivery, Claims
<1>2. CASE LoadDelivery(p)
  <2>1. ASSUME pc'[p] \in Claiming PROVE Decided(p)
    <3> DEFINE next == NextUnclaimed(delivery, view[p].inbox)
    <3>1. /\ Accepted(delivery, view[p].inbox) /\ next # {}
          /\ message' = [message EXCEPT ![p] = CHOOSE m \in next : TRUE]
          /\ view' = [view EXCEPT ![p].delivery = Len(delivery)]
          /\ delivery' = delivery
      BY <1>2, <2>1 DEF LoadDelivery
    <3>2. (CHOOSE m \in next : TRUE) \in next
      BY <3>1
    <3> HIDE DEF next
    <3>3. message'[p] \in next
      BY <3>1, <3>2
    <3>4. view'[p].inbox = view[p].inbox /\ view'[p].delivery = Len(delivery)
      BY <3>1
    <3> QED
      BY ONLY <3>1, <3>3, <3>4 DEF Decided, next
  <2>2. pc'[p] \notin {"settle delivery", "settle append", "confirm"}
    BY <1>2 DEF LoadDelivery
  <2>3. stopping' = stopping
    BY <1>2 DEF LoadDelivery
  <2> QED
    BY <1>1, <2>1, <2>2, <2>3
<1>3. CASE ~LoadDelivery(p)
  <2>1. pc'[p] \in {"claim inbox", "claim delivery", "claim append"} =>
           /\ pc[p] \in {"claim inbox", "claim delivery", "claim append"}
           /\ message'[p] = message[p] /\ view'[p].delivery = view[p].delivery
    BY <1>3, ZenonT(40) DEF Act, Works
  <2>2. pc'[p] \in Claiming => /\ pc[p] \in Claiming /\ message'[p] = message[p]
                              /\ view'[p].inbox \in {view[p].inbox, Len(inbox)}
    BY <1>3, ZenonT(40) DEF Act, Works
  <2>3. pc'[p] = "settle delivery" =>
           \/ view'[p].inbox = Len(inbox)
           \/ pc[p] = "settle delivery" /\ view'[p].inbox = view[p].inbox
    BY <1>3, ZenonT(40) DEF Act, Works
  <2>4. pc'[p] = "settle append" =>
           \/ view'[p].delivery = Len(delivery)
           \/ pc[p] = "settle append" /\ view'[p].delivery = view[p].delivery
    BY <1>3, ZenonT(40) DEF Act, Works
  <2>5. pc'[p] = "confirm" => pc[p] \in {"claim append", "confirm"}
    BY <1>3 DEF Act, Works
  <2>6. stopping'[p] => stopping[p] \/ budget' = [budget EXCEPT !.disposals = @ + 1]
    BY <1>3 DEF Act, Works
  <2> QED
    BY ONLY <1>1, <2>1, <2>2, <2>3, <2>4, <2>5, <2>6
<1> QED
  BY <1>2, <1>3

(* Who lets go of a claim without a fault or a crash: a disposed worker    *)
(* before its turn; one that finds the claim unproved; one whose terminal  *)
(* fact does not fit the stream.                                           *)
LEMMA Releases ==
    ASSUME NEW p \in Process, Act(p), DOMAIN pc = Process, DOMAIN view = Process,
           DOMAIN message = Process,
           budget \in [faults : Nat, interrupts : Nat, disposals : Nat, crashes : Nat],
           budget'.faults = 0, budget'.crashes = 0
    PROVE  /\ pc[p] \in Holding /\ delivery' = delivery /\ pc'[p] \notin Holding =>
                 \/ pc[p] = "confirm" /\ (stopping[p] \/ ~Accepted(delivery, view[p].inbox))
                 \/ /\ pc[p] = "settle delivery"
                    /\ ~ /\ Accepted(delivery, view[p].inbox)
                         /\ Fact("claimed", message[p], p) \in {delivery[i] : i \in DOMAIN delivery}
                         /\ message[p] \notin Settled(delivery)
                 \/ pc[p] = "settle append" /\ Len(delivery) # view[p].delivery
                 \/ Settles(p)
           /\ Claims(p) /\ delivery' # delivery => pc'[p] \in Holding \/ stopping[p]
<1>1. ~StoreFails(p) /\ ~Crash(p)
  BY DEF StoreFails, Crash
<1>2. CASE SettleAppend(p)
  BY <1>2 DEF SettleAppend, Claims, Settles
<1>3. CASE SettleDelivery(p)
  BY <1>3 DEF SettleDelivery, Claims, AfterTerminal, Go, Holding, Settling
<1>4. CASE Confirm(p)
  BY <1>4 DEF Confirm, Claims, WorkerFailed, Go, Holding, Settling
<1>5. CASE CancelWorker(p)
  BY <1>5 DEF CancelWorker, Claims, Go, Holding, Settling, Claiming, Reading, WorkerOver
<1>6. CASE ClaimAppend(p)
  BY <1>6 DEF ClaimAppend, Claims, Go, Holding, Settling, Retry
<1>7. CASE ~ \/ SettleAppend(p) \/ SettleDelivery(p) \/ Confirm(p) \/ CancelWorker(p) \/ ClaimAppend(p)
  <2> USE <1>1, <1>7 DEF Act, Works, Send, Resume, Activate, RequestWake, TakeWake, LoadInbox,
          LoadDelivery, Drained, ClaimInbox, ClaimDelivery, TurnEnds, SettleInbox, Disposed,
          Interrupt, Dispose, Go, WorkerOver, WorkerFailed, Retry, Gone, Holding, Settling
  <2>1. pc[p] \in Holding => pc'[p] \in Holding
    OBVIOUS
  <2>2. pc[p] = "claim append" => delivery' = delivery
    BY DEF streams
  <2> QED
    BY ONLY <2>1, <2>2 DEF Claims
<1> QED
  BY <1>2, <1>3, <1>4, <1>5, <1>6, <1>7

-----------------------------------------------------------------------------
(* Every step of a process keeps the types.                                *)
Points == Alive \cup {"over", "off"}
Codes  == {"none", "worker-failed", "claim-append-failed", "claim-not-durable",
           "terminal-not-durable"}

LEMMA Typed ==
    ASSUME TypeOK
    PROVE  /\ inbox \in Seq({"new-turn", "next-step"}) /\ Len(inbox) \in 0 .. MaxMessages
           /\ delivery \in Seq(Facts) /\ Len(delivery) \in Nat
           /\ pc \in [Process -> Points]
           /\ view \in [Process -> [inbox : 0 .. Len(inbox), delivery : 0 .. Len(delivery)]]
           /\ message \in [Process -> 0 .. Len(inbox)]
           /\ result \in [Process -> Terminal]
           /\ fault \in [Process -> Codes]
           /\ {wake, idle, stopping, calling, blocked} \subseteq [Process -> BOOLEAN]
           /\ dying \in [Process -> {"no", "raised", "absorbed"}]
           /\ asked \in [Process -> 0 .. Len(inbox)]
           /\ ran \in Seq(Message)
           /\ budget \in [faults : 0 .. MaxFaults, interrupts : 0 .. MaxInterrupts,
                          disposals : 0 .. MaxStops, crashes : 0 .. MaxStops]
           /\ \A p \in Process : pc[p] \in Settling \cup {"running"} => message[p] # 0
<1>1. Len(inbox) \in 0 .. MaxMessages
  BY AgentDeliveryAssumption DEF TypeOK
<1>2. Len(delivery) \in Nat
  BY DEF TypeOK
<1> QED
  BY <1>1, <1>2, Zenon DEF TypeOK, Points, Codes, Facts

LEMMA Worker ==
    ASSUME TypeOK, NEW p \in Process
    PROVE  /\ DOMAIN pc = Process /\ DOMAIN message = Process /\ DOMAIN view = Process
           /\ DOMAIN stopping = Process
           /\ view[p] = [inbox |-> view[p].inbox, delivery |-> view[p].delivery]
           /\ view[p].inbox \in 0 .. Len(inbox) /\ view[p].delivery \in 0 .. Len(delivery)
           /\ message[p] \in 0 .. Len(inbox) /\ result[p] \in Terminal
           /\ message[p] # 0 => message[p] \in Message
<1>1. stopping \in [Process -> BOOLEAN]
  BY Typed
<1>2. view[p] \in [inbox : 0 .. Len(inbox), delivery : 0 .. Len(delivery)]
  BY Typed
<1>3. message[p] # 0 => message[p] \in Message
  BY Typed, AgentDeliveryAssumption DEF Message
<1> QED
  BY <1>1, <1>2, <1>3, Typed

(* Where a worker is about to append, its fact is the one that fits.       *)
LEMMA Fitting ==
    ASSUME Inv, NEW p \in Process
    PROVE  /\ Claims(p) => /\ Len(delivery) = 2 * message[p] - 2 /\ message[p] \in Message
                           /\ Fact("claimed", message[p], p) \in Facts
           /\ Settles(p) => /\ Len(delivery) = 2 * message[p] - 1 /\ message[p] \in Message
                            /\ Fact(result[p], message[p], p) \in Facts
                            /\ delivery[Len(delivery)].by = p
<1>1. Place(p)
  BY DEF Inv, Places
<1>2. ASSUME Claims(p)
      PROVE  Len(delivery) = 2 * message[p] - 2 /\ message[p] \in Message
  BY <1>1, <1>2, Worker DEF Claims, Place, Inv
<1>3. ASSUME Settles(p)
      PROVE  /\ Len(delivery) = 2 * message[p] - 1 /\ message[p] \in Message
             /\ delivery[Len(delivery)].by = p
  <2>1. /\ Len(delivery) = 2 * message[p] - 1 /\ delivery[Len(delivery)].by = p
    BY <1>1, <1>3 DEF Settles, Place, Holding, Settling
  <2>2. message[p] # 0
    BY <2>1, Typed DEF Inv
  <2> QED
    BY <2>1, <2>2, Worker DEF Inv
<1> QED
  BY <1>2, <1>3, Worker DEF Facts, Fact, Inv

LEMMA StreamKeeps ==
    ASSUME Inv, NEW p \in Process, Act(p)
    PROVE  /\ delivery' \in Seq(Facts) /\ Alternating(delivery')
           /\ delivery' = delivery \/ Len(delivery') = Len(delivery) + 1
           /\ \A i \in 1 .. Len(delivery) : delivery'[i] = delivery[i]
           /\ Claims(p) => delivery'[Len(delivery) + 1] = Fact("claimed", message[p], p)
<1>1. delivery \in Seq(Facts) /\ Alternating(delivery)
  BY Typed DEF Inv
<1>2. CASE delivery' = delivery /\ ~Claims(p)
  BY <1>1, <1>2 DEF Alternating
<1>3. CASE Claims(p)
  <2> DEFINE e == Fact("claimed", message[p], p)
  <2>1. e \in Facts /\ message[p] \in Nat \ {0} /\ Len(delivery) = 2 * message[p] - 2
    BY <1>3, Fitting DEF Message
  <2>2. e.type = "claimed" /\ e.message = message[p]
    BY DEF Fact
  <2>3. delivery' = Append(delivery, e)
    BY <1>3 DEF Claims
  <2> HIDE DEF e
  <2>4. Alternating(Append(delivery, e))
    BY <1>1, <2>1, <2>2, Extends
  <2>5. Alternating(delivery')
    BY <2>3, <2>4
  <2>6. /\ Append(delivery, e) \in Seq(Facts) /\ Len(Append(delivery, e)) = Len(delivery) + 1
        /\ \A i \in 1 .. Len(delivery) : Append(delivery, e)[i] = delivery[i]
        /\ Append(delivery, e)[Len(delivery) + 1] = e
    BY <1>1, <2>1, AppendProperties
  <2> QED
    BY <2>3, <2>5, <2>6 DEF e
<1>4. CASE Settles(p) /\ ~Claims(p)
  <2> DEFINE e == Fact(result[p], message[p], p)
  <2>1. /\ e \in Facts /\ message[p] \in Nat \ {0} /\ Len(delivery) = 2 * message[p] - 1
        /\ delivery[Len(delivery)].by = p
    BY <1>4, Fitting DEF Message
  <2>2. e.type \in Terminal /\ e.message = message[p] /\ e.by = p
    BY Worker DEF Fact, Inv
  <2>3. delivery' = Append(delivery, e)
    BY <1>4 DEF Settles
  <2> HIDE DEF e
  <2>4. Alternating(Append(delivery, e))
    BY <1>1, <2>1, <2>2, Extends
  <2>5. Alternating(delivery')
    BY <2>3, <2>4
  <2>6. /\ Append(delivery, e) \in Seq(Facts) /\ Len(Append(delivery, e)) = Len(delivery) + 1
        /\ \A i \in 1 .. Len(delivery) : Append(delivery, e)[i] = delivery[i]
        /\ Append(delivery, e)[Len(delivery) + 1] = e
    BY <1>1, <2>1, AppendProperties
  <2> QED
    BY <1>4, <2>3, <2>5, <2>6
<1> QED
  BY <1>2, <1>3, <1>4, DeliveryMoves

LEMMA TypeKeeps ==
    ASSUME Inv, NEW p \in Process, Act(p)
    PROVE  TypeOK'
<1>1. TypeOK
  BY DEF Inv
<1>2. /\ inbox' \in Seq({"new-turn", "next-step"}) /\ Len(inbox') <= MaxMessages
      /\ Len(inbox') \in Nat /\ Len(inbox) \in Nat /\ Len(inbox) <= Len(inbox')
  <2>1. CASE inbox' = inbox
    BY <1>1, <2>1, Typed
  <2>2. CASE Len(inbox) < MaxMessages /\ \E t \in {"new-turn", "next-step"} : inbox' = Append(inbox, t)
    <3>1. PICK t \in {"new-turn", "next-step"} : inbox' = Append(inbox, t)
      BY <2>2
    <3>2. inbox \in Seq({"new-turn", "next-step"})
      BY <1>1, Typed
    <3>3. inbox' \in Seq({"new-turn", "next-step"}) /\ Len(inbox') = Len(inbox) + 1
      BY <3>1, <3>2, AppendProperties
    <3>4. Len(inbox) \in Nat /\ MaxMessages \in Nat
      BY <3>2, AgentDeliveryAssumption
    <3>5. Len(inbox') \in Nat /\ Len(inbox') <= MaxMessages /\ Len(inbox) <= Len(inbox')
      BY ONLY <2>2, <3>3, <3>4
    <3> QED
      BY ONLY <3>3, <3>4, <3>5
  <2> QED
    BY <2>1, <2>2, InboxMoves
<1>3. /\ delivery' \in Seq(Facts) /\ Len(delivery') \in Nat /\ Len(delivery) \in Nat
      /\ Len(delivery) <= Len(delivery')
  <2>1. Len(delivery) \in Nat
    BY <1>1, Typed
  <2>2. delivery' \in Seq(Facts) /\ (delivery' = delivery \/ Len(delivery') = Len(delivery) + 1)
    BY StreamKeeps
  <2> QED
    BY <2>1, <2>2
<1>4. pc' \in [Process -> Points]
  BY <1>1, Typed, DecisionMoves DEF Points
<1>5. view' \in [Process -> [inbox : 0 .. Len(inbox'), delivery : 0 .. Len(delivery')]]
  <2> DEFINE V == [inbox : 0 .. Len(inbox'), delivery : 0 .. Len(delivery')]
  <2>1. view \in [Process -> V]
    <3>1. [inbox : 0 .. Len(inbox), delivery : 0 .. Len(delivery)] \subseteq V
      BY <1>2, <1>3
    <3> QED
      BY <1>1, <3>1, Typed
  <2>2. view[p] = [inbox |-> view[p].inbox, delivery |-> view[p].delivery]
    BY <1>1, Worker
  <2>3. [inbox |-> 0, delivery |-> 0] \in V
    BY <1>2, <1>3
  <2>4. [view[p] EXCEPT !.inbox = Len(inbox)] \in V /\ [view[p] EXCEPT !.delivery = Len(delivery)] \in V
    BY <1>1, <1>2, <1>3, <2>2, Worker
  <2> HIDE DEF V
  <2>5. \A v \in V : view' = [view EXCEPT ![p] = v] => view' \in [Process -> V]
    BY <2>1
  <2>6. \/ view' = view \/ view' = [view EXCEPT ![p] = [inbox |-> 0, delivery |-> 0]]
        \/ view' = [view EXCEPT ![p] = [view[p] EXCEPT !.inbox = Len(inbox)]]
        \/ view' = [view EXCEPT ![p] = [view[p] EXCEPT !.delivery = Len(delivery)]]
    BY DecisionMoves
  <2>7. view' \in [Process -> V]
    BY <2>1, <2>3, <2>4, <2>5, <2>6
  <2> QED
    BY <2>7 DEF V
<1>6. message' \in [Process -> 0 .. Len(inbox')]
  <2>1. message \in [Process -> 0 .. Len(inbox')]
    <3>1. message \in [Process -> 0 .. Len(inbox)]
      BY <1>1, Typed
    <3> QED
      BY <1>2, <3>1
  <2>2. \A m \in NextUnclaimed(delivery, view[p].inbox) : m \in 0 .. Len(inbox')
    <3> SUFFICES ASSUME NEW m \in NextUnclaimed(delivery, view[p].inbox)
                 PROVE  m \in 0 .. Len(inbox')
      OBVIOUS
    <3>1. m \in 1 .. view[p].inbox
      BY DEF NextUnclaimed
    <3>2. view[p].inbox \in 0 .. Len(inbox)
      BY <1>1, Worker
    <3> QED
      BY <1>2, <3>1, <3>2
  <2> QED
    BY <1>2, <2>1, <2>2, DecisionMoves
<1>7. result' \in [Process -> Terminal]
  BY <1>1, Typed, DecisionMoves
<1>8. fault' \in [Process -> Codes]
  <2>1. fault \in [Process -> Codes] /\ fault[p] \in Codes
    BY <1>1, Typed
  <2>2. fault' = fault \/ \E f \in Codes : fault' = [fault EXCEPT ![p] = f]
    BY <2>1, SignalMoves DEF Codes
  <2> QED
    BY <2>1, <2>2
<1>9. {wake, idle, stopping, calling, blocked}' \subseteq [Process -> BOOLEAN]
  <2>1. \A f, g : f \in [Process -> BOOLEAN] /\ (g = f \/ \E b \in BOOLEAN : g = [f EXCEPT ![p] = b])
                     => g \in [Process -> BOOLEAN]
    OBVIOUS
  <2>2. /\ wake \in [Process -> BOOLEAN] /\ idle \in [Process -> BOOLEAN]
        /\ stopping \in [Process -> BOOLEAN] /\ calling \in [Process -> BOOLEAN]
        /\ blocked \in [Process -> BOOLEAN]
    BY <1>1, Typed
  <2>3. /\ wake' \in [Process -> BOOLEAN] /\ idle' \in [Process -> BOOLEAN]
        /\ stopping' \in [Process -> BOOLEAN] /\ calling' \in [Process -> BOOLEAN]
        /\ blocked' \in [Process -> BOOLEAN]
    BY <2>1, <2>2, SignalMoves, ZenonT(40)
  <2> QED
    BY <2>3
<1>10. dying' \in [Process -> {"no", "raised", "absorbed"}]
  BY <1>1, Typed, SignalMoves
<1>11. asked' \in [Process -> 0 .. Len(inbox')]
  <2>1. asked \in [Process -> 0 .. Len(inbox')]
    <3>1. asked \in [Process -> 0 .. Len(inbox)]
      BY <1>1, Typed
    <3> QED
      BY <1>2, <3>1
  <2> QED
    BY <1>2, <2>1, SignalMoves
<1>12. ran' \in Seq(Message)
  <2>1. CASE ran' = ran
    BY <1>1, <2>1, Typed
  <2>2. CASE pc[p] = "confirm" /\ ran' = Append(ran, message[p])
    <3>1. Len(delivery) = 2 * message[p] - 1
      BY <2>2 DEF Inv, Places, Place, Holding
    <3>2. message[p] \in Message
      BY <1>1, <3>1, Worker, Typed
    <3> QED
      BY <1>1, <2>2, <3>2, Typed, AppendProperties
  <2> QED
    BY <2>1, <2>2, RanMoves
<1>13. budget' \in [faults : 0 .. MaxFaults, interrupts : 0 .. MaxInterrupts,
                    disposals : 0 .. MaxStops, crashes : 0 .. MaxStops]
  <2>1. budget \in [faults : 0 .. MaxFaults, interrupts : 0 .. MaxInterrupts,
                    disposals : 0 .. MaxStops, crashes : 0 .. MaxStops]
    BY <1>1, Typed
  <2> QED
    BY <2>1, BudgetMoves, AgentDeliveryAssumption
<1>14. \A q \in Process : pc'[q] \in Settling \cup {"running"} => message'[q] # 0
  <2> SUFFICES ASSUME NEW q \in Process, pc'[q] \in Settling \cup {"running"}
               PROVE  message'[q] # 0
    OBVIOUS
  <2>1. CASE q = p
    <3>1. message'[p] = message[p] /\ pc[p] \in Holding
      BY <1>1, <2>1, Worker, PlaceMoves DEF Holding, Settling
    <3>2. Len(delivery) = 2 * message[p] - 1
      BY <3>1 DEF Inv, Places, Place
    <3> QED
      BY <1>3, <2>1, <3>1, <3>2
  <2>2. CASE q # p
    <3>1. DOMAIN pc = Process /\ DOMAIN message = Process
      BY <1>1, Worker
    <3>2. pc' = pc \/ \E w : pc' = [pc EXCEPT ![p] = w]
      BY DecisionMoves
    <3>3. message' = message \/ \E m : message' = [message EXCEPT ![p] = m]
      BY DecisionMoves
    <3>4. pc'[q] = pc[q] /\ message'[q] = message[q]
      BY ONLY q \in Process, <2>2, <3>1, <3>2, <3>3
    <3> QED
      BY <1>1, <3>4, Typed
  <2> QED
    BY <2>1, <2>2
<1> QED
  BY <1>2, <1>3, <1>4, <1>5, <1>6, <1>7, <1>8, <1>9, <1>10, <1>11, <1>12, <1>13, <1>14
     DEF TypeOK, Facts, Points, Codes

-----------------------------------------------------------------------------
(* And what the workers know.  For the worker itself it is what the step   *)
(* found out; for the others, that nobody but the holder of an open claim  *)
(* writes.                                                                 *)
LEMMA LengthsGrow ==
    ASSUME Inv, NEW p \in Process, Act(p)
    PROVE  /\ Len(inbox) \in Nat /\ Len(inbox') \in Nat /\ Len(inbox) <= Len(inbox')
           /\ Len(delivery) \in Nat /\ Len(delivery') \in Nat
           /\ Len(delivery) <= Len(delivery')
           /\ budget.disposals \in Nat /\ budget'.disposals \in Nat
           /\ budget.disposals <= budget'.disposals
           /\ budget'.faults = 0 => budget.faults = 0
           /\ budget'.crashes = 0 => budget.crashes = 0
<1>1. TypeOK /\ TypeOK'
  BY TypeKeeps DEF Inv
<1>2. Len(inbox) \in Nat /\ Len(inbox') \in Nat /\ Len(inbox) <= Len(inbox')
  <2>1. inbox \in Seq({"new-turn", "next-step"})
    BY <1>1, Typed
  <2>2. inbox' = inbox \/ \E t \in {"new-turn", "next-step"} : inbox' = Append(inbox, t)
    BY InboxMoves
  <2> QED
    BY <2>1, <2>2, AppendProperties
<1>3. /\ Len(delivery) \in Nat /\ Len(delivery') \in Nat /\ Len(delivery) <= Len(delivery')
  <2>1. Len(delivery) \in Nat
    BY <1>1, Typed
  <2>2. delivery' = delivery \/ Len(delivery') = Len(delivery) + 1
    BY StreamKeeps
  <2> QED
    BY <2>1, <2>2
<1>4. /\ budget.disposals \in Nat /\ budget'.disposals \in Nat
      /\ budget.disposals <= budget'.disposals
      /\ budget'.faults = 0 => budget.faults = 0
      /\ budget'.crashes = 0 => budget.crashes = 0
  <2>1. budget \in [faults : 0 .. MaxFaults, interrupts : 0 .. MaxInterrupts,
                    disposals : 0 .. MaxStops, crashes : 0 .. MaxStops]
    BY <1>1, Typed
  <2>2. {MaxFaults, MaxInterrupts, MaxStops} \subseteq Nat
    BY AgentDeliveryAssumption
  <2> QED
    BY <2>1, <2>2, BudgetMoves
<1> QED
  BY <1>2, <1>3, <1>4

LEMMA Numbers ==
    ASSUME Inv, NEW p \in Process
    PROVE  /\ message[p] \in Nat /\ view[p].inbox \in Nat /\ view[p].delivery \in Nat
           /\ Len(delivery) \in Nat /\ Len(inbox) \in Nat
           /\ message[p] <= Len(inbox) /\ view[p].inbox <= Len(inbox)
           /\ message[p] # 0 => message[p] \in Message
           /\ \A m \in Message : m \in Nat /\ m > 0
           /\ delivery \in Seq(Facts) /\ Alternating(delivery) /\ Place(p)
<1>1. TypeOK /\ Alternating(delivery) /\ Place(p)
  BY DEF Inv, Places
<1>2. Len(inbox) \in 0 .. MaxMessages /\ Len(delivery) \in Nat /\ delivery \in Seq(Facts)
  BY <1>1, Typed
<1>3. /\ message[p] \in 0 .. Len(inbox) /\ view[p].inbox \in 0 .. Len(inbox)
      /\ view[p].delivery \in 0 .. Len(delivery) /\ (message[p] # 0 => message[p] \in Message)
  BY <1>1, Worker
<1>4. \A m \in Message : m \in Nat /\ m > 0
  BY AgentDeliveryAssumption DEF Message
<1> QED
  BY <1>1, <1>2, <1>3, <1>4

LEMMA Shapes ==
    ASSUME Inv, NEW p \in Process
    PROVE  /\ DOMAIN pc = Process /\ DOMAIN message = Process /\ DOMAIN view = Process
           /\ DOMAIN stopping = Process
           /\ view[p] = [inbox |-> view[p].inbox, delivery |-> view[p].delivery]
<1> QED
  BY Worker DEF Inv

(* What was started is numbered before what is not claimed.                *)
LEMMA RanIs ==
    ASSUME Inv, NEW i \in DOMAIN ran
    PROVE  ran[i] \in Nat \ {0} /\ ran[i] \in Message /\ 2 * ran[i] - 1 <= Len(delivery)
<1>1. ran \in Seq(Message)
  BY Typed DEF Inv
<1>2. ran[i] \in Message
  BY <1>1
<1>3. 2 * ran[i] - 1 <= Len(delivery)
  BY DEF Inv, Started
<1>4. Message \subseteq Nat \ {0}
  BY AgentDeliveryAssumption DEF Message
<1> QED
  BY <1>2, <1>3, <1>4

LEMMA OwnPlace ==
    ASSUME Inv, NEW p \in Process, Act(p)
    PROVE  Place(p)'
<1>1. /\ DOMAIN pc = Process /\ DOMAIN message = Process /\ DOMAIN view = Process
      /\ DOMAIN stopping = Process
      /\ view[p] = [inbox |-> view[p].inbox, delivery |-> view[p].delivery]
  BY Shapes
<1>2. /\ message[p] \in Nat /\ view[p].inbox \in Nat /\ view[p].delivery \in Nat
      /\ Len(delivery) \in Nat /\ Len(inbox) \in Nat
      /\ message[p] <= Len(inbox) /\ view[p].inbox <= Len(inbox)
  BY Numbers
<1>3. /\ delivery \in Seq(Facts) /\ Alternating(delivery) /\ Place(p)
  BY Numbers
<1>4. pc'[p] \in {"claim inbox", "claim delivery", "claim append"} =>
         \/ Decided(p)
         \/ /\ pc[p] \in {"claim inbox", "claim delivery", "claim append"}
            /\ message'[p] = message[p] /\ view'[p].delivery = view[p].delivery
  BY <1>1, PlaceMoves
<1>5. pc'[p] \in Claiming =>
         \/ Decided(p)
         \/ /\ pc[p] \in Claiming /\ message'[p] = message[p]
            /\ view'[p].inbox \in {view[p].inbox, Len(inbox)}
  BY <1>1, PlaceMoves
<1>6. Decided(p) => /\ message'[p] \in 1 .. view[p].inbox
                    /\ Len(delivery) = 2 * message'[p] - 2
                    /\ view'[p].inbox = view[p].inbox /\ view'[p].delivery = Len(delivery)
  BY <1>2, <1>3, NextUnclaimedIs DEF Decided
<1>7. pc'[p] \in {"claim inbox", "claim delivery", "claim append"} =>
         message'[p] # 0 /\ view'[p].delivery = 2 * message'[p] - 2
  <2>1. Decided(p) => message'[p] # 0 /\ view'[p].delivery = 2 * message'[p] - 2
    BY <1>2, <1>6
  <2>2. pc[p] \in {"claim inbox", "claim delivery", "claim append"} =>
           message[p] # 0 /\ view[p].delivery = 2 * message[p] - 2
    BY <1>3 DEF Place
  <2> QED
    BY <1>4, <2>1, <2>2
<1>8. pc'[p] \in Claiming \cup {"settle delivery"} => message'[p] <= view'[p].inbox
  <2>1. Decided(p) => message'[p] <= view'[p].inbox
    BY <1>2, <1>6
  <2>2. pc[p] \in Claiming \cup {"settle delivery"} => message[p] <= view[p].inbox
    BY <1>3 DEF Place
  <2>3. pc'[p] = "settle delivery" =>
           /\ message'[p] = message[p]
           /\ \/ view'[p].inbox = Len(inbox)
              \/ pc[p] = "settle delivery" /\ view'[p].inbox = view[p].inbox
    BY <1>1, PlaceMoves DEF Holding, Settling
  <2>4. pc'[p] = "settle delivery" => message'[p] <= view'[p].inbox
    BY <1>2, <2>2, <2>3
  <2>5. pc'[p] \in Claiming => message'[p] <= view'[p].inbox
    BY <1>2, <1>5, <2>1, <2>2
  <2> QED
    BY <2>4, <2>5
<1>9. pc'[p] \in Holding => /\ Len(delivery') = 2 * message'[p] - 1
                           /\ delivery'[Len(delivery')].by = p
  <2>1. pc'[p] \in Holding => /\ message'[p] = message[p]
                              /\ \/ pc[p] \in Holding /\ delivery' = delivery
                                 \/ Claims(p) /\ pc'[p] = "confirm"
    BY <1>1, PlaceMoves
  <2>2. pc[p] \in Holding => /\ Len(delivery) = 2 * message[p] - 1
                            /\ delivery[Len(delivery)].by = p
    BY <1>3 DEF Place
  <2>3. ASSUME Claims(p) PROVE /\ Len(delivery') = 2 * message[p] - 1
                               /\ delivery'[Len(delivery')].by = p
    <3> DEFINE e == Fact("claimed", message[p], p)
    <3>1. Len(delivery) = 2 * message[p] - 2 /\ e \in Facts
      BY <2>3, Fitting
    <3>2. e.by = p
      BY DEF Fact
    <3>3. delivery' = Append(delivery, e)
      BY <2>3 DEF Claims
    <3> HIDE DEF e
    <3>4. Len(delivery') = Len(delivery) + 1 /\ delivery'[Len(delivery) + 1] = e
      BY <1>3, <3>1, <3>3, AppendProperties
    <3> QED
      BY <1>2, <3>1, <3>2, <3>4
  <2> QED
    BY <2>1, <2>2, <2>3
<1>10. pc'[p] = "settle append" => view'[p].delivery = Len(delivery')
  <2>1. pc'[p] = "settle append" => delivery' = delivery
    BY <1>1, PlaceMoves DEF Holding, Settling
  <2>2. pc'[p] = "settle append" =>
           \/ view'[p].delivery = Len(delivery)
           \/ pc[p] = "settle append" /\ view'[p].delivery = view[p].delivery
    BY <1>1, PlaceMoves
  <2>3. pc[p] = "settle append" => view[p].delivery = Len(delivery)
    BY <1>3 DEF Place
  <2> QED
    BY <2>1, <2>2, <2>3
<1>11. pc'[p] = "confirm" => \A i \in DOMAIN ran' : ran'[i] # message'[p]
  <2> SUFFICES ASSUME pc'[p] = "confirm"
               PROVE  \A i \in DOMAIN ran' : ran'[i] # message'[p]
    OBVIOUS
  <2>1. /\ message'[p] = message[p] /\ pc[p] \in {"claim append", "confirm"}
        /\ pc[p] \in Holding \/ Claims(p)
    BY <1>1, PlaceMoves DEF Holding
  <2>2. ran' = ran
    <3>1. pc' # [pc EXCEPT ![p] = "running"]
      BY <1>1
    <3> QED
      BY <3>1, RanMoves
  <2>3. CASE pc[p] = "confirm"
    BY <1>3, <2>1, <2>2, <2>3 DEF Place
  <2>4. CASE Claims(p)
    <3>1. Len(delivery) = 2 * message[p] - 2
      BY <2>4, Fitting
    <3>2. \A i \in DOMAIN ran : ran[i] \in Nat \ {0} /\ 2 * ran[i] - 1 <= Len(delivery)
      BY RanIs
    <3>3. \A i \in DOMAIN ran : ran[i] # message[p]
      BY <1>2, <3>1, <3>2
    <3> QED
      BY <2>1, <2>2, <3>3
  <2> QED
    BY <2>1, <2>3, <2>4 DEF Holding, Settling
<1>12. stopping'[p] => budget'.disposals > 0
  <2>1. stopping'[p] => stopping[p] \/ budget' = [budget EXCEPT !.disposals = @ + 1]
    BY <1>1, PlaceMoves
  <2>2. /\ budget.disposals \in Nat /\ budget'.disposals \in Nat
        /\ budget.disposals <= budget'.disposals
    BY LengthsGrow
  <2>3. stopping[p] => budget.disposals > 0
    BY <1>3 DEF Place
  <2>4. budget' = [budget EXCEPT !.disposals = @ + 1] => budget'.disposals = budget.disposals + 1
    <3>1. budget \in [faults : 0 .. MaxFaults, interrupts : 0 .. MaxInterrupts,
                      disposals : 0 .. MaxStops, crashes : 0 .. MaxStops]
      BY Typed DEF Inv
    <3> QED
      BY <3>1
  <2> QED
    BY <2>1, <2>2, <2>3, <2>4
<1> QED
  BY <1>7, <1>8, <1>9, <1>10, <1>11, <1>12 DEF Place

LEMMA OtherPlace ==
    ASSUME Inv, NEW p \in Process, Act(p), NEW q \in Process \ {p}
    PROVE  Place(q)'
<1>1. /\ pc'[q] = pc[q] /\ view'[q] = view[q] /\ message'[q] = message[q]
  <2>1. DOMAIN pc = Process /\ DOMAIN message = Process /\ DOMAIN view = Process
    BY Shapes
  <2> QED
    BY <2>1, DecisionMoves
<1>2. stopping'[q] = stopping[q]
  <2>1. DOMAIN stopping = Process
    BY Shapes
  <2> QED
    BY <2>1, SignalMoves
<1>3. Place(q) /\ Place(p)
  BY DEF Inv, Places
<1>4. ASSUME pc[q] \in Holding
      PROVE  delivery' = delivery /\ ran' = ran
  <2>1. Len(delivery) = 2 * message[q] - 1 /\ delivery[Len(delivery)].by = q
    BY <1>3, <1>4 DEF Place
  <2>2. ~Claims(p)
    <3>1. Claims(p) => Len(delivery) = 2 * message[p] - 2
      BY Fitting
    <3>2. message[p] \in Nat /\ message[q] \in Nat
      BY Numbers
    <3>3. \A i, j \in Nat : 2 * i - 1 # 2 * j - 2
      OBVIOUS
    <3> QED
      BY <2>1, <3>1, <3>2, <3>3
  <2>3. ~Settles(p)
    BY <2>1, Fitting
  <2>4. pc[p] # "confirm"
    BY <1>3, <2>1 DEF Place, Holding
  <2> QED
    BY <2>2, <2>3, <2>4, DeliveryMoves, RanMoves
<1>5. budget.disposals > 0 => budget'.disposals > 0
  <2>1. /\ budget.disposals \in Nat /\ budget'.disposals \in Nat
        /\ budget.disposals <= budget'.disposals
    BY LengthsGrow
  <2> QED
    BY <2>1
<1>6. "settle append" \in Holding /\ "confirm" \in Holding
  BY DEF Holding, Settling
<1>7. /\ pc'[q] \in {"claim inbox", "claim delivery", "claim append"} =>
            message'[q] # 0 /\ view'[q].delivery = 2 * message'[q] - 2
      /\ pc'[q] \in Claiming \cup {"settle delivery"} => message'[q] <= view'[q].inbox
  BY <1>1, <1>3 DEF Place
<1>8. pc'[q] \in Holding => /\ Len(delivery') = 2 * message'[q] - 1
                           /\ delivery'[Len(delivery')].by = q
  BY <1>1, <1>3, <1>4 DEF Place
<1>9. pc'[q] = "settle append" => view'[q].delivery = Len(delivery')
  BY <1>1, <1>3, <1>4, <1>6 DEF Place
<1>10. pc'[q] = "confirm" => \A i \in DOMAIN ran' : ran'[i] # message'[q]
  BY <1>1, <1>3, <1>4, <1>6 DEF Place
<1>11. stopping'[q] => budget'.disposals > 0
  BY <1>2, <1>3, <1>5 DEF Place
<1> QED
  BY <1>7, <1>8, <1>9, <1>10, <1>11 DEF Place

LEMMA StartedKeeps ==
    ASSUME Inv, NEW p \in Process, Act(p)
    PROVE  Started'
<1>1. /\ Len(inbox) \in Nat /\ Len(inbox') \in Nat /\ Len(inbox) <= Len(inbox')
      /\ Len(delivery) \in Nat /\ Len(delivery') \in Nat /\ Len(delivery) <= Len(delivery')
  BY LengthsGrow
<1>2. /\ Len(delivery) <= 2 * Len(inbox)
      /\ \A i, j \in DOMAIN ran : i < j => ran[i] < ran[j]
  BY DEF Inv, Started
<1>3. message[p] \in Nat /\ message[p] <= Len(inbox) /\ (message[p] # 0 => message[p] \in Message)
  BY Numbers
<1>4. \A i \in DOMAIN ran : ran[i] \in Nat \ {0} /\ 2 * ran[i] - 1 <= Len(delivery)
  BY RanIs
<1>5. Len(delivery') <= 2 * Len(inbox')
  <2>1. CASE delivery' = delivery
    BY <1>1, <1>2, <2>1
  <2>2. CASE Claims(p) \/ Settles(p)
    <3>1. Len(delivery) < 2 * message[p]
      BY <1>1, <1>3, <2>2, Fitting
    <3>2. delivery' = delivery \/ Len(delivery') = Len(delivery) + 1
      BY StreamKeeps
    <3> QED
      BY <1>1, <1>3, <3>1, <3>2
  <2> QED
    BY <2>1, <2>2, DeliveryMoves
<1>6. CASE ran' = ran
  <2>1. \A i \in DOMAIN ran' : 2 * ran'[i] - 1 <= Len(delivery')
    BY <1>1, <1>4, <1>6
  <2>2. \A i, j \in DOMAIN ran' : i < j => ran'[i] < ran'[j]
    BY <1>2, <1>6
  <2> QED
    BY <1>5, <2>1, <2>2 DEF Started
<1>7. CASE pc[p] = "confirm" /\ ran' = Append(ran, message[p])
  <2>1. /\ Len(delivery) = 2 * message[p] - 1
        /\ \A i \in DOMAIN ran : ran[i] # message[p]
    BY <1>7, Numbers DEF Place, Holding
  <2>2. message[p] \in Message /\ ran \in Seq(Message)
    <3>1. ran \in Seq(Message)
      BY Typed DEF Inv
    <3> QED
      BY <1>1, <1>3, <2>1, <3>1
  <2>3. /\ Len(ran') = Len(ran) + 1 /\ ran' \in Seq(Message)
        /\ \A i \in 1 .. Len(ran) : ran'[i] = ran[i]
        /\ ran'[Len(ran) + 1] = message[p]
    BY <1>7, <2>2, AppendProperties
  <2>4. DOMAIN ran' = 1 .. Len(ran) + 1 /\ DOMAIN ran = 1 .. Len(ran) /\ Len(ran) \in Nat
    BY <2>2, <2>3
  <2>5. \A i \in DOMAIN ran : ran[i] < message[p]
    BY <1>3, <1>4, <2>1
  <2>6. ASSUME NEW i \in DOMAIN ran', NEW j \in DOMAIN ran', i < j PROVE ran'[i] < ran'[j]
    <3>1. i \in 1 .. Len(ran)
      BY <2>4, <2>6
    <3>2. ran'[i] = ran[i] /\ i \in DOMAIN ran
      BY <2>3, <2>4, <3>1
    <3>3. CASE j = Len(ran) + 1
      BY <2>3, <2>5, <3>2, <3>3
    <3>4. CASE j \in 1 .. Len(ran)
      <4>1. ran'[j] = ran[j] /\ j \in DOMAIN ran
        BY <2>3, <2>4, <3>4
      <4> QED
        BY <1>2, <2>6, <3>2, <4>1
    <3> QED
      BY <2>4, <3>3, <3>4
  <2>7. ASSUME NEW i \in DOMAIN ran' PROVE 2 * ran'[i] - 1 <= Len(delivery')
    <3>1. CASE i \in 1 .. Len(ran)
      <4>1. ran'[i] = ran[i] /\ i \in DOMAIN ran
        BY <2>3, <2>4, <3>1
      <4> QED
        BY <1>1, <1>4, <4>1
    <3>2. CASE i = Len(ran) + 1
      BY <1>1, <1>3, <2>1, <2>3, <3>2
    <3> QED
      BY <2>4, <3>1, <3>2
  <2> QED
    BY <1>5, <2>6, <2>7 DEF Started
<1> QED
  BY <1>6, <1>7, RanMoves

(* A worker that holds a claim finds it proved, and its terminal fact fits.*)
LEMMA HoldingFits ==
    ASSUME Inv, NEW p \in Process, pc[p] \in Holding
    PROVE  /\ pc[p] \in {"confirm", "settle delivery"} => Accepted(delivery, view[p].inbox)
           /\ Fact("claimed", message[p], p) \in {delivery[i] : i \in DOMAIN delivery}
           /\ message[p] \in Claimed(delivery) /\ message[p] \notin Settled(delivery)
<1>1. delivery \in Seq(Facts) /\ Alternating(delivery) /\ Place(p)
  BY Numbers
<1>2. message[p] \in Nat /\ view[p].inbox \in Nat /\ Len(delivery) \in Nat
  BY Numbers
<1>3. /\ Len(delivery) = 2 * message[p] - 1 /\ delivery[Len(delivery)].by = p
      /\ pc[p] \in {"confirm", "settle delivery"} => message[p] <= view[p].inbox
  BY <1>1 DEF Place, Claiming
<1>4. /\ message[p] \in Nat \ {0} /\ Len(delivery) \in Nat \ {0}
      /\ 2 * message[p] - 1 <= Len(delivery) /\ ~(2 * message[p] <= Len(delivery))
      /\ \A k \in Nat \ {0} : 2 * k - 1 <= Len(delivery) => k <= message[p]
  <2>1. \A x, n \in Nat : n = 2 * x - 1 =>
           /\ x \in Nat \ {0} /\ n \in Nat \ {0} /\ 2 * x - 1 <= n /\ ~(2 * x <= n)
           /\ \A k \in Nat \ {0} : 2 * k - 1 <= n => k <= x
    OBVIOUS
  <2>2. Len(delivery) = 2 * message[p] - 1
    BY <1>3
  <2> QED
    BY ONLY <1>2, <2>1, <2>2
<1>5. message[p] \in Claimed(delivery) /\ message[p] \notin Settled(delivery)
  BY <1>1, <1>4, ClaimedIs, SettledIs
<1>6. delivery[Len(delivery)] = Fact("claimed", message[p], p) /\ Len(delivery) \in DOMAIN delivery
  <2>1. Len(delivery) \in DOMAIN delivery
    BY <1>1, <1>4
  <2>2. delivery[Len(delivery)].type = "claimed" /\ delivery[Len(delivery)].message = message[p]
    <3>1. \A i \in DOMAIN delivery, k \in Nat \ {0} :
             i = 2 * k - 1 => delivery[i].type = "claimed" /\ delivery[i].message = k
      BY <1>1, OddClaims
    <3>2. Len(delivery) = 2 * message[p] - 1
      BY <1>3
    <3> QED
      BY <1>4, <2>1, <3>1, <3>2, Zenon
  <2>3. delivery[Len(delivery)] \in Facts
    BY <1>1, <2>1
  <2> QED
    BY <1>3, <2>2, <2>3, <2>1 DEF Facts, Fact
<1>7. ASSUME pc[p] \in {"confirm", "settle delivery"}
      PROVE  Accepted(delivery, view[p].inbox)
  <2>1. message[p] <= view[p].inbox
    BY <1>3, <1>7
  <2>2. \A k \in Nat \ {0} : 2 * k - 1 <= Len(delivery) => k <= view[p].inbox
    BY <1>2, <1>4, <2>1
  <2> QED
    BY <1>1, <1>2, <2>2, AcceptedIs
<1> QED
  BY <1>5, <1>6, <1>7

LEMMA OwedKeeps ==
    ASSUME Inv, NEW p \in Process, Act(p)
    PROVE  Owed'
<1> SUFFICES ASSUME budget'.faults = 0, budget'.crashes = 0,
                    NEW m \in Message, Len(delivery') = 2 * m - 1
             PROVE  \/ pc'[delivery'[Len(delivery')].by] \in Holding
                    \/ budget'.disposals > 0 /\ \A i \in DOMAIN ran' : ran'[i] # m
  BY DEF Owed
<1>1. Place(p)' /\ Place(p)
  BY OwnPlace, Numbers
<1>2. /\ m \in Nat /\ m > 0 /\ message[p] \in Nat
      /\ Len(delivery) \in Nat /\ delivery \in Seq(Facts)
  BY Numbers
<1>3. /\ DOMAIN pc = Process /\ DOMAIN message = Process /\ DOMAIN view = Process
      /\ budget \in [faults : Nat, interrupts : Nat, disposals : Nat, crashes : Nat]
  <2>1. {MaxFaults, MaxInterrupts, MaxStops} \subseteq Nat
    BY AgentDeliveryAssumption
  <2>2. budget \in [faults : 0 .. MaxFaults, interrupts : 0 .. MaxInterrupts,
                    disposals : 0 .. MaxStops, crashes : 0 .. MaxStops]
    BY Typed DEF Inv
  <2>3. budget \in [faults : Nat, interrupts : Nat, disposals : Nat, crashes : Nat]
    BY <2>1, <2>2
  <2> QED
    BY <2>3, Shapes
<1>4. /\ budget.faults = 0 /\ budget.crashes = 0
      /\ budget.disposals > 0 => budget'.disposals > 0
  <2>1. /\ budget.disposals \in Nat /\ budget'.disposals \in Nat
        /\ budget.disposals <= budget'.disposals
        /\ budget'.faults = 0 => budget.faults = 0
        /\ budget'.crashes = 0 => budget.crashes = 0
    BY LengthsGrow
  <2> QED
    BY <2>1
<1>5. stopping[p] => budget.disposals > 0
  BY <1>1 DEF Place
<1>6. \/ pc[p] \in Holding /\ delivery' = delivery /\ pc'[p] \notin Holding
      \/ Claims(p)
      \/ Settles(p)
      \/ delivery' = delivery /\ ~(pc[p] \in Holding /\ pc'[p] \notin Holding)
  BY DeliveryMoves
<1>7. CASE pc[p] \in Holding /\ delivery' = delivery /\ pc'[p] \notin Holding
  <2>1. Len(delivery) = 2 * message[p] - 1
    BY <1>1, <1>7 DEF Place
  <2>2. message[p] = m
    <3>1. 2 * message[p] - 1 = 2 * m - 1
      BY <1>7, <2>1
    <3>2. m \in Nat /\ message[p] \in Nat
      BY <1>2
    <3> QED
      BY <3>1, <3>2
  <2>3. ~Settles(p)
    <3>1. Settles(p) => Fact(result[p], message[p], p) \in Facts
      BY Fitting
    <3>2. Settles(p) => Len(delivery') = Len(delivery) + 1
      <4> DEFINE e == Fact(result[p], message[p], p)
      <4>1. Settles(p) => e \in Facts /\ delivery' = Append(delivery, e)
        BY <3>1 DEF Settles
      <4> HIDE DEF e
      <4> QED
        BY <1>2, <4>1, AppendProperties
    <3> QED
      BY <1>2, <1>7, <3>2
  <2>4. pc[p] = "settle append" => Len(delivery) = view[p].delivery
    BY <1>1 DEF Place
  <2>5. /\ pc[p] \in {"confirm", "settle delivery"} => Accepted(delivery, view[p].inbox)
        /\ Fact("claimed", message[p], p) \in {delivery[i] : i \in DOMAIN delivery}
        /\ message[p] \notin Settled(delivery)
    BY <1>7, HoldingFits
  <2>6. \/ pc[p] = "confirm" /\ (stopping[p] \/ ~Accepted(delivery, view[p].inbox))
        \/ /\ pc[p] = "settle delivery"
           /\ ~ /\ Accepted(delivery, view[p].inbox)
                /\ Fact("claimed", message[p], p) \in {delivery[i] : i \in DOMAIN delivery}
                /\ message[p] \notin Settled(delivery)
        \/ pc[p] = "settle append" /\ Len(delivery) # view[p].delivery
        \/ Settles(p)
    BY <1>3, <1>7, Releases
  <2>7. pc[p] = "confirm" /\ stopping[p]
    BY <2>3, <2>4, <2>5, <2>6
  <2>8. ran' = ran
    <3>1. pc' # [pc EXCEPT ![p] = "running"]
      BY <1>3, <1>7 DEF Holding
    <3> QED
      BY <3>1, RanMoves
  <2>9. \A i \in DOMAIN ran : ran[i] # m
    BY <1>1, <2>2, <2>7 DEF Place
  <2> QED
    BY <1>4, <1>5, <2>7, <2>8, <2>9
<1>8. CASE Claims(p)
  <2> DEFINE e == Fact("claimed", message[p], p)
  <2>1. Len(delivery) = 2 * message[p] - 2 /\ e \in Facts
    BY <1>8, Fitting
  <2>2. e.by = p
    BY DEF Fact
  <2>3. delivery' = Append(delivery, e)
    BY <1>8 DEF Claims
  <2> HIDE DEF e
  <2>4. Len(delivery') = Len(delivery) + 1 /\ delivery'[Len(delivery) + 1] = e
    <3>1. delivery \in Seq(Facts)
      BY <1>2
    <3> QED
      BY ONLY <2>1, <2>3, <3>1, AppendProperties
  <2>5. m = message[p] /\ delivery'[Len(delivery')].by = p
    <3>1. delivery'[Len(delivery')].by = p
      BY ONLY <2>2, <2>4
    <3>2. m = message[p]
      BY <1>2, <2>1, <2>4
    <3> QED
      BY ONLY <3>1, <3>2
  <2>6. delivery' # delivery
    BY <1>2, <2>4
  <2>7. pc'[p] \in Holding \/ stopping[p]
    BY <1>3, <1>8, <2>6, Releases
  <2>8. ran' = ran
    BY <2>6, RanMoves
  <2>9. \A i \in DOMAIN ran : ran[i] # m
    <3>1. \A i \in DOMAIN ran : ran[i] \in Nat \ {0} /\ 2 * ran[i] - 1 <= Len(delivery)
      BY RanIs
    <3> QED
      BY <1>2, <2>1, <2>5, <3>1
  <2> QED
    BY <1>4, <1>5, <2>5, <2>7, <2>8, <2>9
<1>9. CASE Settles(p)
  <2>1. Len(delivery) = 2 * message[p] - 1 /\ Fact(result[p], message[p], p) \in Facts
    BY <1>9, Fitting
  <2>2. Len(delivery') = Len(delivery) + 1
    BY <1>2, <1>9, <2>1, AppendProperties, ZenonT(40) DEF Settles
  <2>3. \A i, j \in Nat : 2 * i # 2 * j - 1
    OBVIOUS
  <2> QED
    BY <1>2, <2>1, <2>2, <2>3
<1>10. CASE delivery' = delivery /\ ~(pc[p] \in Holding /\ pc'[p] \notin Holding)
  <2> DEFINE b == delivery[Len(delivery)].by
  <2>1. b \in Process
    <3>1. Len(delivery) \in DOMAIN delivery
      <4>1. Len(delivery) > 0
        BY <1>2, <1>10
      <4> QED
        BY <1>2, <4>1
    <3>2. delivery[Len(delivery)] \in Facts
      BY <1>2, <3>1
    <3> QED
      BY <3>2 DEF Facts
  <2>2. pc[b] \in Holding \/ (budget.disposals > 0 /\ \A i \in DOMAIN ran : ran[i] # m)
    BY <1>4, <1>10 DEF Inv, Owed
  <2>3. pc[b] \in Holding => pc'[b] \in Holding
    <3>1. b # p => pc'[b] = pc[b]
      BY <1>3, <2>1, DecisionMoves
    <3> QED
      BY <1>10, <3>1
  <2>4. \/ ran' = ran
        \/ pc[p] = "confirm" /\ pc' = [pc EXCEPT ![p] = "running"]
    BY RanMoves
  <2>5. pc[p] = "confirm" => b = p
    BY <1>1 DEF Place, Holding
  <2>6. pc' = [pc EXCEPT ![p] = "running"] => pc'[p] \in Holding
    BY <1>3 DEF Holding
  <2> QED
    BY <1>4, <1>10, <2>2, <2>3, <2>4, <2>5, <2>6
<1> QED
  BY <1>6, <1>7, <1>8, <1>9, <1>10

-----------------------------------------------------------------------------
LEMMA InvInit == Init => Inv
<1> SUFFICES ASSUME Init PROVE Inv
  OBVIOUS
<1>1. TypeOK
  <2>1. inbox \in Seq({"new-turn", "next-step"}) /\ Len(inbox) = 0
    BY EmptySeq DEF Init
  <2>2. delivery \in Seq(Facts) /\ Len(delivery) = 0
    BY EmptySeq DEF Init
  <2>3. ran \in Seq(Message)
    BY EmptySeq DEF Init
  <2>4. {MaxMessages, MaxFaults, MaxInterrupts, MaxStops} \subseteq Nat
    BY AgentDeliveryAssumption
  <2>5. /\ pc \in [Process -> Points] /\ result \in [Process -> Terminal]
        /\ fault \in [Process -> Codes] /\ dying \in [Process -> {"no", "raised", "absorbed"}]
    BY DEF Init, Points, Codes, Terminal
  <2>6. {wake, idle, stopping, calling, blocked} \subseteq [Process -> BOOLEAN]
    BY DEF Init
  <2>7. /\ view \in [Process -> [inbox : 0 .. Len(inbox), delivery : 0 .. Len(delivery)]]
        /\ message \in [Process -> 0 .. Len(inbox)] /\ asked \in [Process -> 0 .. Len(inbox)]
    BY <2>1, <2>2 DEF Init
  <2>8. budget \in [faults : 0 .. MaxFaults, interrupts : 0 .. MaxInterrupts,
                    disposals : 0 .. MaxStops, crashes : 0 .. MaxStops]
    BY <2>4 DEF Init
  <2>9. \A p \in Process : pc[p] \in Settling \cup {"running"} => message[p] # 0
    BY DEF Init, Settling
  <2>10. Len(inbox) <= MaxMessages
    BY <2>1, <2>4
  <2> QED
    BY <2>1, <2>2, <2>3, <2>5, <2>6, <2>7, <2>8, <2>9, <2>10 DEF TypeOK, Points, Codes, Facts
<1>2. Len(delivery) = 0 /\ DOMAIN delivery = {} /\ DOMAIN ran = {}
  BY DEF Init
<1>3. Alternating(delivery) /\ Started /\ Owed
  <2>1. Alternating(delivery)
    BY <1>2 DEF Alternating
  <2>2. Started
    BY <1>2, Len(inbox) = 0 DEF Started, Init
  <2>3. Owed
    <3>1. \A m \in Nat : 2 * m - 1 # 0
      OBVIOUS
    <3>2. Message \subseteq Nat
      BY AgentDeliveryAssumption DEF Message
    <3> QED
      BY <1>2, <3>1, <3>2 DEF Owed
  <2> QED
    BY <2>1, <2>2, <2>3
<1>4. Places
  BY DEF Init, Places, Place, Holding, Settling, Claiming
<1> QED
  BY <1>1, <1>3, <1>4 DEF Inv

LEMMA NextKeeps == Inv /\ [Next]_vars => Inv'
<1> SUFFICES ASSUME Inv, [Next]_vars PROVE Inv'
  OBVIOUS
<1>1. CASE UNCHANGED vars
  <2> USE <1>1 DEF vars, streams, decision, signals, history
  <2>1. TypeOK'
    BY DEF Inv, TypeOK
  <2>2. Alternating(delivery')
    BY DEF Inv
  <2>3. Places'
    BY DEF Inv, Places, Place
  <2>4. Started' /\ Owed'
    BY DEF Inv, Started, Owed
  <2> QED
    BY <2>1, <2>2, <2>3, <2>4 DEF Inv
<1>2. ASSUME NEW p \in Process, Act(p) PROVE Inv'
  <2>1. Places'
    BY <1>2, OwnPlace, OtherPlace DEF Places
  <2> QED
    BY <1>2, <2>1, TypeKeeps, StreamKeeps, StartedKeeps, OwedKeeps DEF Inv
<1> QED
  BY <1>1, <1>2 DEF Next, Act

(* The inductive invariant: claims and terminals alternate, and what each  *)
(* worker knows at its await stays true whatever the other processes do    *)
(* (AgentDeliveryService.claim(), _drain(), _record_terminal()).           *)
THEOREM InvHolds == Spec => []Inv
<1> QED
  BY InvInit, NextKeeps, PTL DEF Spec

(* Every variable of the workers and streams keeps its type.               *)
THEOREM TypeHolds == Spec => []TypeOK
<1>1. Inv => TypeOK
  BY DEF Inv
<1> QED
  BY <1>1, InvHolds, PTL

(* Over all processes, crashes, faults and races a message starts at most  *)
(* one turn, in order, on a claim in the stream, one turn at a time, and   *)
(* the stream is one the projector accepts (claim(), _deliver()).          *)
THEOREM RunsHold == Spec => []RunsOnceInOrder
<1>1. Inv => RunsOnceInOrder
  <2> SUFFICES ASSUME Inv PROVE RunsOnceInOrder
    OBVIOUS
  <2>1. /\ delivery \in Seq(Facts) /\ Len(delivery) \in Nat /\ Alternating(delivery)
        /\ Len(inbox) \in Nat
    <3>1. Len(inbox) \in 0 .. MaxMessages
      BY Typed DEF Inv
    <3> QED
      BY <3>1, Typed DEF Inv
  <2>2. Accepted(delivery, Len(inbox))
    <3>1. Len(delivery) <= 2 * Len(inbox)
      BY DEF Inv, Started
    <3>2. \A k \in Nat \ {0} : 2 * k - 1 <= Len(delivery) => k <= Len(inbox)
      BY <2>1, <3>1
    <3> QED
      BY <2>1, <3>2, AcceptedIs
  <2>3. \A i \in DOMAIN ran : ran[i] \in Claimed(delivery)
    BY <2>1, RanIs, ClaimedIs
  <2>4. \A i, j \in DOMAIN ran : i < j => ran[i] < ran[j]
    BY DEF Inv, Started
  <2>5. ASSUME NEW p \in Process, pc[p] = "running"
        PROVE  /\ Fact("claimed", message[p], p) \in {delivery[i] : i \in DOMAIN delivery}
               /\ OpenClaim(delivery) = {message[p]}
               /\ \A q \in Process \ {p} : pc[q] # "running"
    <3>1. pc[p] \in Holding
      BY <2>5 DEF Holding
    <3>2. /\ Fact("claimed", message[p], p) \in {delivery[i] : i \in DOMAIN delivery}
          /\ message[p] \in OpenClaim(delivery)
      BY <3>1, HoldingFits DEF OpenClaim
    <3>3. \A q \in Process : pc[q] = "running" => /\ Len(delivery) = 2 * message[q] - 1
                                                  /\ delivery[Len(delivery)].by = q
      BY DEF Inv, Places, Place, Holding
    <3>4. ASSUME NEW m \in OpenClaim(delivery) PROVE m = message[p]
      <4>1. m \in Claimed(delivery) /\ m \notin Settled(delivery)
        BY DEF OpenClaim
      <4>2. m \in Nat \ {0} /\ 2 * m - 1 <= Len(delivery) /\ ~(2 * m <= Len(delivery))
        BY <2>1, <4>1, ClaimedIs, SettledIs
      <4>3. Len(delivery) = 2 * message[p] - 1 /\ message[p] \in Nat
        BY <2>5, <3>3, Numbers
      <4> QED
        BY <2>1, <4>2, <4>3
    <3> QED
      BY <2>5, <3>2, <3>3, <3>4
  <2> QED
    BY <2>2, <2>3, <2>4, <2>5 DEF RunsOnceInOrder
<1> QED
  BY <1>1, InvHolds, PTL

(* Without a store failure or a crash a claim is left open only by a       *)
(* worker at work on it, or by a disposal that met the claiming before a   *)
(* turn was started (_deliver(), _record_terminal(), _shutdown()).         *)
THEOREM ClaimsHold == Spec => []ClaimsAreSettled
<1>1. Inv => ClaimsAreSettled
  <2> SUFFICES ASSUME Inv, budget.faults = 0, budget.crashes = 0, NEW i \in DOMAIN delivery,
                      delivery[i].message \in OpenClaim(delivery)
               PROVE  LET m == delivery[i].message
                          p == delivery[i].by
                      IN  \/ message[p] = m /\ pc[p] \in Holding
                          \/ m \notin {ran[j] : j \in DOMAIN ran} /\ budget.disposals > 0
    BY DEF ClaimsAreSettled, Holding
  <2> DEFINE m == delivery[i].message
             p == delivery[i].by
  <2>1. delivery \in Seq(Facts) /\ Alternating(delivery)
    BY Typed DEF Inv
  <2>2. p \in Process /\ m \in Message /\ i \in Nat \ {0} /\ i <= Len(delivery)
    <3>1. DOMAIN delivery = 1 .. Len(delivery) /\ delivery[i] \in Facts
      BY <2>1
    <3>2. p \in Process /\ m \in Message
      BY <3>1 DEF Facts
    <3> QED
      BY <2>1, <3>1, <3>2
  <2>3. m \in Nat \ {0} /\ 2 * m - 1 <= Len(delivery) /\ ~(2 * m <= Len(delivery))
    BY <2>1, ClaimedIs, SettledIs DEF OpenClaim
  <2>4. Len(delivery) = 2 * m - 1
    BY <2>1, <2>3
  <2>5. i = Len(delivery)
    <3>1. PICK k \in Nat \ {0} : i = 2 * k - 1 \/ i = 2 * k
      BY <2>2, Halves
    <3>2. \A x \in DOMAIN delivery, y \in Nat \ {0} : 
             /\ x = 2 * y - 1 => delivery[x].message = y
             /\ x = 2 * y => delivery[x].message = y
      BY <2>1, OddClaims, EvenSettles
    <3>3. m = k
      BY ONLY <3>1, <3>2, i \in DOMAIN delivery
    <3> QED
      BY <2>2, <2>4, <3>1, <3>3
  <2>6. \/ pc[p] \in Holding
        \/ budget.disposals > 0 /\ \A j \in DOMAIN ran : ran[j] # m
    BY <2>2, <2>4, <2>5 DEF Inv, Owed
  <2>7. pc[p] \in Holding => message[p] = m
    <3>1. pc[p] \in Holding => Len(delivery) = 2 * message[p] - 1
      BY <2>2 DEF Inv, Places, Place
    <3>2. message[p] \in Nat
      BY <2>2, Numbers
    <3> QED
      BY <2>3, <2>4, <3>1, <3>2
  <2> QED
    BY <2>6, <2>7
<1> QED
  BY <1>1, InvHolds, PTL
=============================================================================
