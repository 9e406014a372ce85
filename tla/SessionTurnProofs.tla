------------------------- MODULE SessionTurnProofs --------------------------
(***************************************************************************)
(* Proofs about SessionTurn: for every limit on steps, attempts and        *)
(* retries, and any number of turns, cancellations, faults and crashes,    *)
(* the turn leaves nothing open, each rule its history breaks has a cause  *)
(* that is known, a recovery that ends has repaired what an append can     *)
(* repair, and every recorded end is true.                                 *)
(*                                                                         *)
(* Inv is the inductive invariant: what the stream is by itself (Sound),   *)
(* what the owner may rely on at each await (InTurn, InStep, Locals), that *)
(* a plan of closing events fits the stream and covers what is open        *)
(* (Plans), and which rules can be broken at all (Legal).                  *)
(***************************************************************************)
EXTENDS SessionTurn, FiniteSetTheorems, SequenceTheorems, TLAPS

(* The order in which turns, steps and attempts are opened.                *)
NoLater(a, b) ==
    \/ a[1] < b[1]
    \/ a[1] = b[1] /\ a[2] < b[2]
    \/ a[1] = b[1] /\ a[2] = b[2] /\ a[3] <= b[3]

(* The stream by itself: what ended had begun, what is open has not ended, *)
(* and nothing is in it that the owner has not come to.                    *)
Sound ==
    /\ log.closed \subseteq log.opened /\ log.calls \subseteq log.opened
    /\ log.results \subseteq log.calls /\ \A c \in log.calls : c[2] > 0
    /\ Ended(log) \subseteq log.starts /\ Answered(log) \subseteq log.starts
    /\ \A p \in log.reasons : p[1] \in log.closed
    /\ \A id \in log.opened \cup log.starts : NoLater(id, cur)
    /\ \A a \in log.starts : a[1] > 0 /\ a[2] > 0
    /\ log.turn # None => log.turn \in log.opened \ log.closed /\ log.turn[2] = 0
    /\ log.step # None => log.step \in log.opened \ log.closed /\ log.step[2] > 0
    /\ log.attempt # None => log.attempt \in log.starts \ Ended(log) /\ log.turn # None

(* What the owner may rely on at each await of the turn: of the turn, of   *)
(* its step and attempt, and of its local variables.                       *)
Started == {"hook"} \cup InTry
Asking  == {"provider", "failed", "message", "succeeded"}
Counted == {"attempt", "provider", "failed", "retry"}
Heard   == {"tools", "admitted", "results", "recorded", "verify", "stepEnd", "decide"}
Fresh   == {"attempt", "provider", "failed", "retry", "message", "succeeded", "tools"}

InTurn ==
    pc \in Started =>
       /\ cur[1] > 0
       /\ pc = "finished" => log.turn = None
       /\ pc # "finished" => log.turn = Turn /\ Turn \in log.opened \ log.closed
       /\ \A id \in log.opened \ log.closed : TurnOf(id) = Turn =>
             id = Turn \/ (id = Step /\ pc \in StepOpenFlag)
       /\ pc = "finished" => Turn \notin log.opened \ log.closed
       /\ \A a \in log.starts \ Ended(log) : TurnOf(a) = Turn => a = cur /\ pc \in Asking

InStep ==
    /\ pc \in StepOpenFlag => /\ cur[2] > 0 /\ cur[3] > 0
                              /\ log.step = Step /\ Step \in log.opened \ log.closed
    /\ pc \in Asking => cur \in log.starts \ Ended(log)
    /\ pc \in {"provider", "failed", "message"} => cur \notin Answered(log)
    /\ pc \in {"succeeded"} \cup Heard => <<cur, response>> \in log.messages
    /\ pc \in Heard => <<cur, "succeeded">> \in log.ends
    /\ pc \in Counted =>
          StartsIn(log, Step) =
             {<<cur[1], cur[2], k>> : k \in 1 .. (IF pc = "attempt" THEN cur[3] - 1 ELSE cur[3])}
    /\ pc = "retry" \/ (pc = "attempt" /\ cur[3] > 1) => log.last = "failed"
    /\ pc \in Fresh => Step \notin log.calls
    /\ pc \in {"admitted", "results"} => Step \in log.calls \ log.results
    /\ pc = "recorded" => Step \in log.results
    /\ pc \in {"verify", "stepEnd"} => Step \notin log.calls \ log.results

Complete(l, t) ==
    \E a \in l.starts :
       /\ TurnOf(a) = t
       /\ \A id \in l.opened : TurnOf(id) = t => id[2] <= a[2]
       /\ <<a, "answer">> \in l.messages
       /\ <<a, "succeeded">> \in l.ends
       /\ HasVerifier => <<StepOf(a), "passed">> \in l.verdicts

Locals ==
    /\ pc = "hook" => cur[2] = 0
    /\ pc = "step" => cur[2] < MaxSteps
    /\ pc \in {"message", "succeeded"} \cup Heard => response \in Kinds
    /\ pc \in {"message", "succeeded", "stepEnd"} /\ response = "summary" => cur[2] < MaxSteps
    /\ pc \in {"tools", "admitted", "results", "recorded"} => response = "tools"
    /\ pc = "verify" => response = "answer"
    /\ pc = "decide" => response # "summary"
    /\ pc \in {"stepEnd", "decide"} /\ response = "answer" /\ HasVerifier =>
          <<Step, "passed">> \in log.verdicts \/ <<Step, "rejected">> \in log.verdicts
    /\ pc \in Started => vfails <= cur[2]
    /\ pc \in Fresh \cup {"verify"} => vfails < cur[2]
    /\ pc = "turnEnd" => /\ reason \in Reasons
                         /\ reason = "completed" => Complete(log, Turn)

(* No turn was opened while another was open.                              *)
OneTurn == "single-open-turn" \notin log.bad

(* What is still to be appended fits the stream, in the order in which it  *)
(* is planned, and covers what is open.  Only a batch finalizer that was   *)
(* not told of a durable result plans a second one.                        *)
Rank(e) == CASE e.type = "turn/end" -> 3
             [] e.type = "step/end" -> 2
             [] OTHER               -> 1

Ordered(s) ==
    \A i, j \in DOMAIN s : i < j =>
       Rank(s[i]) <= Rank(s[j]) /\ (s[i].type # s[j].type \/ s[i].id # s[j].id)

Due(e) ==
    /\ e.type \in {"attempt/end", "tool/result", "step/end", "turn/end"}
    /\ e.type = "attempt/end" =>
          /\ e.id \in log.starts \ Ended(log)
          /\ e.recovered \/ (log.turn = TurnOf(e.id) /\ log.step = StepOf(e.id))
          /\ e.note \in Statuses
          /\ e.note = "succeeded" => e.id \in Answered(log)
          /\ e.note \in {"failed", "unknown_after_crash"} => e.id \notin Answered(log)
    /\ e.type = "tool/result" => /\ e.id \in log.calls
                                 /\ e.id \in log.results => "twice" \in loose
    /\ e.type = "step/end" => e.id = log.step /\ e.id # None
    /\ e.type = "turn/end" => /\ e.id = log.turn /\ e.id # None
                              /\ e.note \in Reasons \ {"completed"}

Planned(type, id) == \E e \in ToSet(plan) : e.type = type /\ e.id = id

Plans ==
    pc \in Closing =>
       /\ Ordered(plan)
       /\ \A e \in ToSet(plan) : Due(e) /\ (pc # "recovering" => TurnOf(e.id) = Turn)
       /\ log.turn # None => Planned("turn/end", log.turn)
       /\ \A a \in log.starts \ Ended(log) :
             pc = "recovering" \/ TurnOf(a) = Turn => Planned("attempt/end", a)
       /\ pc # "recovering" => \A id \in log.opened \ log.closed : TurnOf(id) = Turn =>
             Planned("turn/end", id) \/ Planned("step/end", id)
       /\ (pc = "recovering" \/ OneTurn) /\ log.step # None => Planned("step/end", log.step)
       /\ \A c \in log.calls \ log.results :
             pc = "recovering" \/ ("unanswered" \notin loose /\ Planned("step/end", c)) =>
                Planned("tool/result", c)

(* The rules that can be broken at all, and what else has to have happened *)
(* for it; and what is closed only after what it encloses.                 *)
Known ==
    /\ log.bad \subseteq Overlaps \cup {"single-tool-result"}
    /\ OneTurn => log.bad \cap Overlaps = {}
    /\ "single-tool-result" \in log.bad => "twice" \in loose

Nested ==
    /\ log.bad = {} /\ log.attempt # None => StepOf(log.attempt) = log.step
    /\ \A a \in log.starts \ Ended(log) : StepOf(a) \notin log.closed
    /\ "unanswered" \notin loose => \A c \in log.calls \ log.results : c \notin log.closed
    /\ OneTurn /\ log.turn = None => log.step = None

Legal ==
    /\ Known /\ Nested
    /\ OneTurn /\ pc \in Started /\ log.step # None => pc \in StepOpenFlag

Closed ==
    /\ OwnerLeavesNothingOpen
    /\ pc = "idle" /\ outcome = "recovered" => ~Unfinished(log)

Inv == TypeOK /\ Sound /\ InTurn /\ InStep /\ Locals /\ Plans /\ Legal /\ EndsAreTrue /\ Closed

-----------------------------------------------------------------------------
(* Names of turns, steps and attempts.                                     *)
LEMMA IdFields ==
    ASSUME NEW a \in Ids
    PROVE  /\ a[1] \in Nat /\ a[2] \in Nat /\ a[3] \in Nat
           /\ a = <<a[1], a[2], a[3]>>
           /\ a[1] <= MaxTurns /\ a[2] <= MaxSteps /\ a[3] <= MaxAttempts
           /\ TurnOf(a) \in Ids /\ StepOf(a) \in Ids
<1>1. {MaxTurns, MaxSteps, MaxAttempts} \subseteq Nat
  BY SessionTurnAssumption
<1> QED
  BY <1>1 DEF Ids, TurnOf, StepOf

LEMMA NoneIs == None \in Ids
<1> QED
  BY SessionTurnAssumption DEF None, Ids

LEMMA Names ==
    ASSUME NEW a \in Ids, NEW b \in Ids
    PROVE  /\ TurnOf(StepOf(a)) = TurnOf(a) /\ TurnOf(TurnOf(a)) = TurnOf(a)
           /\ StepOf(StepOf(a)) = StepOf(a) /\ StepOf(TurnOf(a)) = TurnOf(a)
           /\ TurnOf(a)[1] = a[1] /\ StepOf(a)[1] = a[1] /\ StepOf(a)[2] = a[2]
           /\ TurnOf(a)[2] = 0 /\ TurnOf(a)[3] = 0 /\ StepOf(a)[3] = 0
           /\ StepOf(a) = StepOf(b) <=> a[1] = b[1] /\ a[2] = b[2]
           /\ TurnOf(a) = TurnOf(b) <=> a[1] = b[1]
           /\ a[1] > 0 => TurnOf(a) # None /\ StepOf(a) # None /\ a # None
           /\ a[2] > 0 => StepOf(a) # TurnOf(b)
<1> QED
  BY IdFields DEF TurnOf, StepOf, None

LEMMA Later ==
    ASSUME NEW a \in Ids, NEW b \in Ids, NEW c \in Ids
    PROVE  /\ NoLater(a, a)
           /\ NoLater(a, b) /\ NoLater(b, c) => NoLater(a, c)
           /\ NoLater(a, b) /\ NoLater(b, a) => a = b
           /\ NoLater(TurnOf(a), a) /\ NoLater(StepOf(a), a)
<1>1. /\ a[1] \in Nat /\ a[2] \in Nat /\ a[3] \in Nat /\ a = <<a[1], a[2], a[3]>>
      /\ b[1] \in Nat /\ b[2] \in Nat /\ b[3] \in Nat /\ b = <<b[1], b[2], b[3]>>
      /\ c[1] \in Nat /\ c[2] \in Nat /\ c[3] \in Nat
  BY IdFields
<1>2. /\ TurnOf(a)[1] = a[1] /\ TurnOf(a)[2] = 0 /\ TurnOf(a)[3] = 0
      /\ StepOf(a)[1] = a[1] /\ StepOf(a)[2] = a[2] /\ StepOf(a)[3] = 0
  BY Names
<1> QED
  BY <1>1, <1>2 DEF NoLater

(* There are finitely many of them.                                        *)
LEMMA IdsFinite == IsFiniteSet(Ids)
<1> USE SessionTurnAssumption
<1>1. /\ IsFiniteSet(0 .. MaxTurns) /\ IsFiniteSet(0 .. MaxSteps)
      /\ IsFiniteSet(0 .. MaxAttempts)
  BY FS_Interval
<1> DEFINE T == 0 .. MaxTurns
           S == 0 .. MaxSteps
           A == 0 .. MaxAttempts
<1> HIDE DEF T, S, A
<1>2. IsFiniteSet((T \X S) \X A)
  BY <1>1, FS_Product DEF T, S, A
<1> DEFINE F == [x \in (T \X S) \X A |-> <<x[1][1], x[1][2], x[2]>>]
<1>3. F \in Surjection((T \X S) \X A, T \X S \X A)
  <2>1. F \in [(T \X S) \X A -> T \X S \X A]
    OBVIOUS
  <2>2. ASSUME NEW y \in T \X S \X A PROVE \E x \in (T \X S) \X A : F[x] = y
    <3>1. <<<<y[1], y[2]>>, y[3]>> \in (T \X S) \X A
      OBVIOUS
    <3> QED
      BY <3>1
  <2> QED
    BY <2>1, <2>2 DEF Surjection
<1> QED
  BY <1>2, <1>3, FS_Surjection DEF T, S, A, Ids

(* The attempts of a step are counted by their ordinals.                   *)
LEMMA CountedTo ==
    ASSUME NEW t, NEW s, NEW n \in Nat, NEW S,
           \A x : x \in S <=> \E k \in 1 .. n : x = <<t, s, k>>
    PROVE  Cardinality(S) = n
<1> DEFINE f == [k \in 1 .. n |-> <<t, s, k>>]
<1>1. f \in Bijection(1 .. n, S)
  BY DEF Bijection, Injection, Surjection, IsInjective
<1>2. ExistsBijection(1 .. n, S)
  BY <1>1 DEF ExistsBijection
<1> QED
  BY <1>2, FS_CountingElements

-----------------------------------------------------------------------------
(* Plans as sequences.                                                     *)
LEMMA ToSetOf ==
    ASSUME NEW S, NEW s \in Seq(S)
    PROVE  ToSet(s) \subseteq S /\ \A x : x \in ToSet(s) <=> \E i \in 1 .. Len(s) : s[i] = x
<1> QED
  BY DEF ToSet

LEMMA TakeHead ==
    ASSUME NEW S, NEW s \in Seq(S), s # <<>>, Ordered(s)
    PROVE  /\ Head(s) \in S /\ Tail(s) \in Seq(S)
           /\ ToSet(s) = {Head(s)} \cup ToSet(Tail(s))
           /\ Ordered(Tail(s))
           /\ \A e \in ToSet(Tail(s)) :
                 /\ Rank(Head(s)) <= Rank(e)
                 /\ Head(s).type # e.type \/ Head(s).id # e.id
<1>1. /\ Head(s) \in S /\ Tail(s) \in Seq(S) /\ Len(Tail(s)) = Len(s) - 1
      /\ \A i \in 1 .. Len(Tail(s)) : Tail(s)[i] = s[i + 1]
  BY HeadTailProperties
<1>2. Head(s) = s[1] /\ Len(s) \in Nat \ {0} /\ DOMAIN s = 1 .. Len(s)
  BY EmptySeq
<1> DEFINE t == Tail(s)
<1>3. t \in Seq(S) /\ Len(t) = Len(s) - 1 /\ \A i \in 1 .. Len(t) : t[i] = s[i + 1]
  BY <1>1
<1> HIDE DEF t
<1>4. DOMAIN t = 1 .. Len(t)
  BY <1>3
<1>5. ToSet(s) = {s[1]} \cup ToSet(t)
  <2>1. ASSUME NEW x \in ToSet(s) PROVE x \in {s[1]} \cup ToSet(t)
    <3>1. PICK i \in 1 .. Len(s) : x = s[i]
      BY <1>2, <2>1 DEF ToSet
    <3>2. CASE i = 1
      BY <3>1, <3>2
    <3>3. CASE i > 1
      <4>1. i - 1 \in 1 .. Len(t) /\ (i - 1) + 1 = i
        BY <1>2, <1>3, <3>1, <3>3
      <4>2. t[i - 1] = x
        BY <1>3, <3>1, <4>1
      <4> QED
        BY <1>4, <4>1, <4>2 DEF ToSet
    <3> QED
      BY <3>1, <3>2, <3>3
  <2>2. ASSUME NEW x \in ToSet(t) PROVE x \in ToSet(s)
    <3>1. PICK i \in 1 .. Len(t) : x = t[i]
      BY <1>4, <2>2 DEF ToSet
    <3>2. i + 1 \in DOMAIN s /\ s[i + 1] = x
      BY <1>2, <1>3, <3>1
    <3> QED
      BY <3>2 DEF ToSet
  <2>3. s[1] \in ToSet(s)
    BY <1>2 DEF ToSet
  <2> QED
    BY <2>1, <2>2, <2>3
<1>6. Ordered(t)
  <2> SUFFICES ASSUME NEW i \in 1 .. Len(t), NEW j \in 1 .. Len(t), i < j
               PROVE  Rank(t[i]) <= Rank(t[j]) /\ (t[i].type # t[j].type \/ t[i].id # t[j].id)
    BY <1>4 DEF Ordered
  <2>1. i + 1 \in DOMAIN s /\ j + 1 \in DOMAIN s /\ i + 1 < j + 1
    BY <1>2, <1>3
  <2>2. t[i] = s[i + 1] /\ t[j] = s[j + 1]
    BY <1>3
  <2>3. /\ Rank(s[i + 1]) <= Rank(s[j + 1])
        /\ s[i + 1].type # s[j + 1].type \/ s[i + 1].id # s[j + 1].id
    BY <2>1, Zenon DEF Ordered
  <2> QED
    BY ONLY <2>2, <2>3
<1>7. ASSUME NEW e \in ToSet(t)
      PROVE  Rank(s[1]) <= Rank(e) /\ (s[1].type # e.type \/ s[1].id # e.id)
  <2>1. PICK i \in 1 .. Len(t) : e = t[i]
    BY <1>4, <1>7 DEF ToSet
  <2>2. i + 1 \in DOMAIN s /\ 1 \in DOMAIN s /\ 1 < i + 1 /\ s[i + 1] = e
    BY <1>2, <1>3, <2>1
  <2> QED
    BY <2>2 DEF Ordered
<1> QED
  BY <1>1, <1>2, <1>5, <1>6, <1>7 DEF t

LEMMA Joined ==
    ASSUME NEW S, NEW s \in Seq(S), NEW t \in Seq(S), Ordered(s), Ordered(t),
           \A e \in ToSet(s), f \in ToSet(t) :
              Rank(e) <= Rank(f) /\ (e.type # f.type \/ e.id # f.id)
    PROVE  /\ s \o t \in Seq(S) /\ Ordered(s \o t)
           /\ ToSet(s \o t) = ToSet(s) \cup ToSet(t)
<1> DEFINE u == s \o t
<1>1. /\ u \in Seq(S) /\ Len(u) = Len(s) + Len(t)
      /\ \A i \in 1 .. Len(s) + Len(t) :
            u[i] = IF i <= Len(s) THEN s[i] ELSE t[i - Len(s)]
  BY ConcatProperties
<1>2. /\ Len(s) \in Nat /\ Len(t) \in Nat /\ DOMAIN s = 1 .. Len(s) /\ DOMAIN t = 1 .. Len(t)
      /\ DOMAIN u = 1 .. Len(s) + Len(t)
  BY <1>1, LenProperties
<1> HIDE DEF u
<1>3. \A i \in 1 .. Len(s) : i \in DOMAIN u /\ u[i] = s[i] /\ s[i] \in ToSet(s)
  BY <1>1, <1>2 DEF ToSet
<1>4. \A i \in 1 .. Len(t) : /\ i + Len(s) \in DOMAIN u /\ u[i + Len(s)] = t[i]
                             /\ t[i] \in ToSet(t)
  <2> SUFFICES ASSUME NEW i \in 1 .. Len(t)
               PROVE  i + Len(s) \in DOMAIN u /\ u[i + Len(s)] = t[i] /\ t[i] \in ToSet(t)
    OBVIOUS
  <2>1. i + Len(s) \in 1 .. Len(s) + Len(t) /\ ~(i + Len(s) <= Len(s))
        /\ (i + Len(s)) - Len(s) = i
    BY <1>2
  <2>2. u[i + Len(s)] = t[i]
    BY <1>1, <2>1
  <2> QED
    BY <1>2, <2>1, <2>2 DEF ToSet
<1>5. \A i \in DOMAIN u : \/ i \in 1 .. Len(s)
                          \/ \E k \in 1 .. Len(t) : i = k + Len(s)
  <2> SUFFICES ASSUME NEW i \in 1 .. Len(s) + Len(t), ~(i \in 1 .. Len(s))
               PROVE  \E k \in 1 .. Len(t) : i = k + Len(s)
    BY <1>2
  <2>1. i - Len(s) \in 1 .. Len(t) /\ i = (i - Len(s)) + Len(s)
    BY <1>2
  <2> QED
    BY <2>1
<1>6. ToSet(u) = ToSet(s) \cup ToSet(t)
  <2>1. ASSUME NEW x \in ToSet(u) PROVE x \in ToSet(s) \cup ToSet(t)
    <3>1. PICK i \in DOMAIN u : u[i] = x
      BY <2>1 DEF ToSet
    <3> QED
      BY <1>3, <1>4, <1>5, <3>1
  <2>2. ASSUME NEW x \in ToSet(s) PROVE x \in ToSet(u)
    <3>1. PICK i \in DOMAIN s : s[i] = x
      BY <2>2 DEF ToSet
    <3>2. i \in DOMAIN u /\ u[i] = x
      BY <1>2, <1>3, <3>1
    <3> QED
      BY <3>2 DEF ToSet
  <2>3. ASSUME NEW x \in ToSet(t) PROVE x \in ToSet(u)
    <3>1. PICK i \in DOMAIN t : t[i] = x
      BY <2>3 DEF ToSet
    <3>2. i + Len(s) \in DOMAIN u /\ u[i + Len(s)] = x
      BY <1>2, <1>4, <3>1
    <3> QED
      BY <3>2 DEF ToSet
  <2> QED
    BY <2>1, <2>2, <2>3
<1>7. Ordered(u)
  <2> SUFFICES ASSUME NEW i \in DOMAIN u, NEW j \in DOMAIN u, i < j
               PROVE  Rank(u[i]) <= Rank(u[j]) /\ (u[i].type # u[j].type \/ u[i].id # u[j].id)
    BY DEF Ordered
  <2>1. CASE i \in 1 .. Len(s) /\ j \in 1 .. Len(s)
    BY <1>2, <1>3, <2>1 DEF Ordered
  <2>2. CASE i \in 1 .. Len(s) /\ \E k \in 1 .. Len(t) : j = k + Len(s)
    BY <1>3, <1>4, <2>2
  <2>3. CASE (\E k \in 1 .. Len(t) : i = k + Len(s)) /\ (\E k \in 1 .. Len(t) : j = k + Len(s))
    <3>1. PICK k \in 1 .. Len(t) : i = k + Len(s)
      BY <2>3
    <3>2. PICK m \in 1 .. Len(t) : j = m + Len(s)
      BY <2>3
    <3>3. k \in DOMAIN t /\ m \in DOMAIN t /\ k < m
      BY <1>2, <3>1, <3>2
    <3>4. Rank(t[k]) <= Rank(t[m]) /\ (t[k].type # t[m].type \/ t[k].id # t[m].id)
      BY <3>3 DEF Ordered
    <3> QED
      BY <1>4, <3>1, <3>2, <3>4
  <2>4. CASE (\E k \in 1 .. Len(t) : i = k + Len(s)) /\ j \in 1 .. Len(s)
    BY <1>2, <2>4
  <2> QED
    BY <1>5, <2>1, <2>2, <2>3, <2>4
<1> QED
  BY <1>1, <1>6, <1>7 DEF u

LEMMA Listed ==
    ASSUME NEW S, IsFiniteSet(S)
    PROVE  /\ SetToSeq(S) \in Seq(S) /\ ToSet(SetToSeq(S)) = S
           /\ \A i, j \in DOMAIN SetToSeq(S) : i < j => SetToSeq(S)[i] # SetToSeq(S)[j]
<1> DEFINE n == Cardinality(S)
           f == SetToSeq(S)
<1>1. n \in Nat /\ ExistsBijection(1 .. n, S)
  BY FS_CardinalityType
<1>2. PICK g \in Bijection(1 .. n, S) : TRUE
  BY <1>1 DEF ExistsBijection
<1>3. g \in [1 .. n -> S] /\ IsInjective(g)
  BY <1>2 DEF Bijection, Injection
<1>4. f \in [1 .. n -> S] /\ IsInjective(f)
  BY <1>3 DEF SetToSeq
<1> HIDE DEF f
<1>5. f \in Injection(1 .. n, S)
  BY <1>4 DEF Injection
<1>6. IsFiniteSet(1 .. n) /\ Cardinality(1 .. n) = n
  BY <1>1, FS_Interval
<1>7. f \in Surjection(1 .. n, S)
  BY <1>5, <1>6, FS_Injection
<1>8. ToSet(f) = S
  BY <1>4, <1>7 DEF ToSet, Surjection
<1>9. \A i, j \in DOMAIN f : i < j => f[i] # f[j]
  BY <1>1, <1>4 DEF IsInjective
<1> QED
  BY <1>1, <1>4, <1>8, <1>9 DEF f

-----------------------------------------------------------------------------
(* What one appended event does to the stream, field by field.             *)
Fits(e) ==
    /\ e.type \in Types /\ e.id \in Ids
    /\ e.type = "turn/end" => e.note \in Reasons
    /\ e.type = "attempt/end" => e.note \in Statuses
    /\ e.type = "message" => e.note \in Kinds
    /\ e.type = "verification/result" => e.note \in {"passed", "rejected"}

(* m is the stream l with the event e appended, but for the rules broken.  *)
Fields(l, m, e) ==
    /\ m.turn = IF e.type = "turn/start" THEN e.id
                ELSE IF e.type = "turn/end" THEN None ELSE l.turn
    /\ m.step = IF e.type = "step/start" THEN e.id
                ELSE IF e.type = "step/end" THEN None ELSE l.step
    /\ m.attempt = IF e.type = "attempt/start" THEN e.id
                   ELSE IF \/ e.type \in {"step/end", "turn/end"}
                           \/ e.type = "attempt/end" /\ l.attempt = e.id
                        THEN None ELSE l.attempt
    /\ m.last = IF e.type = "step/start" THEN "none"
                ELSE IF e.type = "attempt/end" THEN e.note ELSE l.last
    /\ m.opened = IF e.type \in {"turn/start", "step/start"}
                  THEN l.opened \cup {e.id} ELSE l.opened
    /\ m.closed = IF e.type \in {"turn/end", "step/end"}
                  THEN l.closed \cup {e.id} ELSE l.closed
    /\ m.starts = IF e.type = "attempt/start" THEN l.starts \cup {e.id} ELSE l.starts
    /\ m.ends = IF e.type = "attempt/end"
                THEN l.ends \cup {<<e.id, e.note>>} ELSE l.ends
    /\ m.messages = IF e.type = "message"
                    THEN l.messages \cup {<<e.id, e.note>>} ELSE l.messages
    /\ m.calls = IF e.type = "tool/call" THEN l.calls \cup {e.id} ELSE l.calls
    /\ m.results = IF e.type = "tool/result" THEN l.results \cup {e.id} ELSE l.results
    /\ m.verdicts = IF e.type = "verification/result"
                    THEN l.verdicts \cup {<<e.id, e.note>>} ELSE l.verdicts
    /\ m.reasons = IF e.type = "turn/end"
                   THEN l.reasons \cup {<<e.id, e.note>>} ELSE l.reasons

Grown(l, m, e) ==
    /\ Fields(l, m, e)
    /\ Ended(m) = IF e.type = "attempt/end" THEN Ended(l) \cup {e.id} ELSE Ended(l)
    /\ Answered(m) = IF e.type = "message" THEN Answered(l) \cup {e.id} ELSE Answered(l)
    /\ \A s : StartsIn(m, s) = IF e.type = "attempt/start" /\ StepOf(e.id) = s
                               THEN StartsIn(l, s) \cup {e.id} ELSE StartsIn(l, s)

LEMMA AddIs ==
    ASSUME NEW l \in Log, NEW e, Fits(e)
    PROVE  Fields(l, Add(l, e), e)
<1> USE DEF Fits, Log, Types, Fields
<1>1. CASE e.type = "turn/start"
  BY <1>1 DEF Add, AddTurnStart
<1>2. CASE e.type = "turn/end"
  BY <1>2 DEF Add, AddTurnEnd
<1>3. CASE e.type = "step/start"
  BY <1>3 DEF Add, AddStepStart
<1>4. CASE e.type = "step/end"
  BY <1>4 DEF Add, AddStepEnd
<1>5. CASE e.type = "attempt/start"
  BY <1>5 DEF Add, AddAttemptStart
<1>6. CASE e.type = "attempt/end"
  BY <1>6 DEF Add, AddAttemptEnd
<1>7. CASE e.type = "message"
  BY <1>7 DEF Add
<1>8. CASE e.type = "tool/call"
  BY <1>8 DEF Add
<1>9. CASE e.type = "tool/result"
  BY <1>9 DEF Add, AddToolResult
<1>10. CASE e.type = "verification/result"
  BY <1>10 DEF Add
<1> QED
  BY <1>1, <1>2, <1>3, <1>4, <1>5, <1>6, <1>7, <1>8, <1>9, <1>10

LEMMA AddGrows ==
    ASSUME NEW l \in Log, NEW e, Fits(e)
    PROVE  Grown(l, Add(l, e), e)
<1> DEFINE m == Add(l, e)
<1>1. Fields(l, m, e)
  BY AddIs
<1> HIDE DEF m

<1>2. Ended(m) = IF e.type = "attempt/end" THEN Ended(l) \cup {e.id} ELSE Ended(l)
  <2>1. CASE e.type = "attempt/end"
    <3>1. \A x : x \in Ended(m) <=> \E p \in l.ends \cup {<<e.id, e.note>>} : x = p[1]
      BY <1>1, <2>1 DEF Ended, Fields
    <3>2. \A x : x \in Ended(l) <=> \E p \in l.ends : x = p[1]
      BY DEF Ended
    <3>3. <<e.id, e.note>>[1] = e.id
      OBVIOUS
    <3> QED
      BY <2>1, <3>1, <3>2, <3>3
  <2>2. CASE e.type # "attempt/end"
    BY <1>1, <2>2 DEF Ended, Fields
  <2> QED
    BY <2>1, <2>2
<1>3. Answered(m) = IF e.type = "message" THEN Answered(l) \cup {e.id} ELSE Answered(l)
  <2>1. CASE e.type = "message"
    <3>1. \A x : x \in Answered(m) <=> \E p \in l.messages \cup {<<e.id, e.note>>} : x = p[1]
      BY <1>1, <2>1 DEF Answered, Fields
    <3>2. \A x : x \in Answered(l) <=> \E p \in l.messages : x = p[1]
      BY DEF Answered
    <3>3. <<e.id, e.note>>[1] = e.id
      OBVIOUS
    <3> QED
      BY <2>1, <3>1, <3>2, <3>3
  <2>2. CASE e.type # "message"
    BY <1>1, <2>2 DEF Answered, Fields
  <2> QED
    BY <2>1, <2>2
<1>4. \A s : StartsIn(m, s) = IF e.type = "attempt/start" /\ StepOf(e.id) = s
                              THEN StartsIn(l, s) \cup {e.id} ELSE StartsIn(l, s)
  BY <1>1 DEF StartsIn, Fields
<1> QED
  BY <1>1, <1>2, <1>3, <1>4 DEF m, Grown

(* The rules an event breaks, by the state of the stream it comes to.      *)
LEMMA AddBad ==
    ASSUME NEW l \in Log, NEW e, Fits(e)
    PROVE  LET m == Add(l, e) IN
           /\ l.bad \subseteq m.bad
           /\ e.type \in {"message", "tool/call", "verification/result"} => m.bad = l.bad
           /\ e.type = "turn/start" =>
                 /\ m.bad \subseteq l.bad \cup {"single-open-turn"}
                 /\ "single-open-turn" \notin m.bad => l.turn = None /\ m.bad = l.bad
           /\ e.type = "step/start" /\ l.turn # None =>
                 /\ m.bad \subseteq l.bad \cup {"single-open-step"}
                 /\ l.step = None => m.bad = l.bad
                 /\ m.bad = {} => l.step = None
           /\ e.type = "attempt/start" /\ MayStart(l, e.id) /\ l.attempt = None =>
                 m.bad = l.bad
           /\ /\ e.type = "attempt/end" /\ e.id \in l.starts \ Ended(l)
              /\ e.recovered \/ (l.turn = TurnOf(e.id) /\ l.step = StepOf(e.id))
              => m.bad = l.bad
           /\ e.type = "tool/result" /\ e.id \in l.calls =>
                 /\ m.bad \subseteq l.bad \cup {"single-tool-result"}
                 /\ e.id \notin l.results => m.bad = l.bad
           /\ e.type = "step/end" /\ l.step = e.id => m.bad = l.bad
           /\ e.type = "turn/end" /\ l.turn = e.id =>
                 /\ m.bad \subseteq l.bad \cup {"turn-closes-after-step"}
                 /\ l.step = None => m.bad = l.bad
<1> USE DEF Fits, Log, Types, Broken
<1>1. CASE e.type = "turn/start"
  BY <1>1 DEF Add, AddTurnStart
<1>2. CASE e.type = "turn/end"
  BY <1>2 DEF Add, AddTurnEnd
<1>3. CASE e.type = "step/start"
  BY <1>3 DEF Add, AddStepStart
<1>4. CASE e.type = "step/end"
  BY <1>4 DEF Add, AddStepEnd
<1>5. CASE e.type = "attempt/start"
  BY <1>5 DEF Add, AddAttemptStart, MayStart
<1>6. CASE e.type = "attempt/end"
  BY <1>6 DEF Add, AddAttemptEnd
<1>7. CASE e.type = "message"
  BY <1>7 DEF Add
<1>8. CASE e.type = "tool/call"
  BY <1>8 DEF Add
<1>9. CASE e.type = "tool/result"
  BY <1>9 DEF Add, AddToolResult
<1>10. CASE e.type = "verification/result"
  BY <1>10 DEF Add
<1> QED
  BY <1>1, <1>2, <1>3, <1>4, <1>5, <1>6, <1>7, <1>8, <1>9, <1>10

LEMMA BrokenIs ==
    ASSUME NEW test, NEW rule \in Rules
    PROVE  Broken(test, rule) \subseteq Rules
<1> QED
  BY DEF Broken

LEMMA AddTyped ==
    ASSUME NEW l \in Log, NEW e, Fits(e)
    PROVE  Add(l, e) \in Log
<1> DEFINE PI == SUBSET Ids
           PE == SUBSET (Ids \X Statuses)
           PM == SUBSET (Ids \X Kinds)
           PV == SUBSET (Ids \X {"passed", "rejected"})
           PR == SUBSET (Ids \X Reasons)
           PB == SUBSET Rules
           Latest == Statuses \cup {"none"}
<1>a. Log = [turn : Ids, step : Ids, attempt : Ids, last : Latest, opened : PI, closed : PI,
             starts : PI, ends : PE, messages : PM, calls : PI, results : PI,
             verdicts : PV, reasons : PR, bad : PB]
  BY DEF Log
<1>b. l \in Log /\ None \in Ids /\ e.id \in Ids /\ "none" \in Latest
  BY NoneIs DEF Fits
<1>c. /\ l.turn \in Ids /\ l.step \in Ids /\ l.attempt \in Ids /\ l.bad \subseteq Rules
      /\ l.opened \cup {e.id} \in PI /\ l.closed \cup {e.id} \in PI
      /\ l.starts \cup {e.id} \in PI /\ l.calls \cup {e.id} \in PI
      /\ l.results \cup {e.id} \in PI
  BY <1>b DEF Log
<1>d. /\ l.ends \subseteq Ids \X Statuses /\ l.messages \subseteq Ids \X Kinds
      /\ l.verdicts \subseteq Ids \X {"passed", "rejected"}
      /\ l.reasons \subseteq Ids \X Reasons
  BY DEF Log
<1>1. CASE e.type = "turn/start"
  <2> DEFINE B == l.bad \cup Broken(l.turn # None, "single-open-turn")
             O == l.opened \cup {e.id}
  <2>1. B \in PB /\ O \in PI
    BY <1>c, BrokenIs DEF Rules
  <2>2. Add(l, e) = [l EXCEPT !.turn = e.id, !.opened = O, !.bad = B]
    BY <1>1 DEF Add, AddTurnStart
  <2> HIDE DEF B, O, PI, PE, PM, PV, PR, PB, Latest
  <2> QED
    BY ONLY <1>a, <1>b, <2>1, <2>2, ZenonT(40)
<1>2. CASE e.type = "turn/end"
  <2> DEFINE B == l.bad \cup Broken(l.step # None, "turn-closes-after-step")
                        \cup Broken(l.turn # e.id, "turn-close-matches")
             R == l.reasons \cup {<<e.id, e.note>>}
             C == l.closed \cup {e.id}
  <2>1. B \in PB
    BY <1>c, BrokenIs DEF Rules
  <2>2. R \in PR /\ C \in PI
    BY <1>2, <1>c, <1>d DEF Fits
  <2>3. Add(l, e) = [l EXCEPT !.turn = None, !.attempt = None, !.closed = C,
                              !.reasons = R, !.bad = B]
    BY <1>2 DEF Add, AddTurnEnd
  <2> HIDE DEF B, C, R, PI, PE, PM, PV, PR, PB, Latest
  <2> QED
    BY ONLY <1>a, <1>b, <2>1, <2>2, <2>3, ZenonT(40)
<1>3. CASE e.type = "step/start"
  <2> DEFINE B == l.bad \cup Broken(l.turn = None, "step-inside-turn")
                        \cup Broken(l.step # None, "single-open-step")
             O == l.opened \cup {e.id}
  <2>1. B \in PB /\ O \in PI
    BY <1>c, BrokenIs DEF Rules
  <2>2. Add(l, e) = [l EXCEPT !.step = e.id, !.opened = O, !.last = "none", !.bad = B]
    BY <1>3 DEF Add, AddStepStart
  <2> HIDE DEF B, O, PI, PE, PM, PV, PR, PB, Latest
  <2> QED
    BY ONLY <1>a, <1>b, <2>1, <2>2, ZenonT(40)
<1>4. CASE e.type = "step/end"
  <2> DEFINE B == l.bad \cup Broken(l.step # e.id, "step-close-matches")
             C == l.closed \cup {e.id}
  <2>1. B \in PB /\ C \in PI
    BY <1>c, BrokenIs DEF Rules
  <2>2. Add(l, e) = [l EXCEPT !.step = None, !.attempt = None, !.closed = C, !.bad = B]
    BY <1>4 DEF Add, AddStepEnd
  <2> HIDE DEF B, C, PI, PE, PM, PV, PR, PB, Latest
  <2> QED
    BY ONLY <1>a, <1>b, <2>1, <2>2, ZenonT(40)
<1>5. CASE e.type = "attempt/start"
  <2> DEFINE b1 == Broken(e.id[3] > 1 /\ l.last # "failed", "attempt-retry-binding")
             b2 == Broken(e.id \in l.starts, "single-attempt-start")
             b3 == Broken(e.id[3] # Cardinality(StartsIn(l, StepOf(e.id))) + 1,
                          "attempt-ordinal-contiguous")
             b4 == Broken(l.turn # TurnOf(e.id) \/ l.step # StepOf(e.id),
                          "attempt-start-inside-step")
             b5 == Broken(l.attempt # None, "single-open-attempt")
             B == l.bad \cup b1 \cup b2 \cup b3 \cup b4 \cup b5
             O == l.starts \cup {e.id}
  <2>1. b1 \subseteq Rules /\ b2 \subseteq Rules
    BY BrokenIs DEF Rules
  <2>2. b3 \subseteq Rules /\ b4 \subseteq Rules /\ b5 \subseteq Rules
    BY BrokenIs DEF Rules
  <2>3. Add(l, e) = [l EXCEPT !.attempt = e.id, !.starts = O, !.bad = B]
    BY <1>5 DEF Add, AddAttemptStart
  <2> HIDE DEF b1, b2, b3, b4, b5
  <2>4. B \in PB /\ O \in PI
    BY ONLY <1>c, <2>1, <2>2
  <2> HIDE DEF B, O, PI, PE, PM, PV, PR, PB, Latest
  <2> QED
    BY ONLY <1>a, <1>b, <2>3, <2>4, ZenonT(40)
<1>6. CASE e.type = "attempt/end"
  <2> DEFINE b1 == Broken(e.id \in Ended(l), "single-attempt-end")
             b2 == Broken(e.id \notin l.starts, "attempt-end-has-start")
             b3 == Broken(/\ ~e.recovered
                          /\ l.turn # TurnOf(e.id) \/ l.step # StepOf(e.id),
                          "attempt-end-inside-step")
             B == l.bad \cup b1 \cup b2 \cup b3
             A == IF l.attempt = e.id THEN None ELSE l.attempt
             E == l.ends \cup {<<e.id, e.note>>}
  <2>1. b1 \subseteq Rules /\ b2 \subseteq Rules /\ b3 \subseteq Rules
    BY BrokenIs DEF Rules
  <2>2. A \in Ids /\ E \in PE /\ e.note \in Latest
    BY <1>6, <1>b, <1>c, <1>d DEF Fits
  <2>3. Add(l, e) = [l EXCEPT !.attempt = A, !.ends = E, !.last = e.note, !.bad = B]
    BY <1>6 DEF Add, AddAttemptEnd
  <2> HIDE DEF b1, b2, b3, A, E
  <2>4. B \in PB
    BY ONLY <1>c, <2>1
  <2> HIDE DEF B, PI, PE, PM, PV, PR, PB, Latest
  <2> QED
    BY ONLY <1>a, <1>b, <2>2, <2>3, <2>4, ZenonT(40)
<1>7. CASE e.type = "message"
  <2> DEFINE M == l.messages \cup {<<e.id, e.note>>}
  <2>1. M \in PM
    BY <1>7, <1>b, <1>d DEF Fits
  <2>2. Add(l, e) = [l EXCEPT !.messages = M]
    BY <1>7 DEF Add
  <2> HIDE DEF M, PI, PE, PM, PV, PR, PB, Latest
  <2> QED
    BY ONLY <1>a, <1>b, <2>1, <2>2
<1>8. CASE e.type = "tool/call"
  <2>1. Add(l, e) = [l EXCEPT !.calls = @ \cup {e.id}]
    BY <1>8 DEF Add
  <2> HIDE DEF PI, PE, PM, PV, PR, PB, Latest
  <2> QED
    BY ONLY <1>a, <1>b, <1>c, <2>1
<1>9. CASE e.type = "tool/result"
  <2> DEFINE B == l.bad \cup Broken(e.id \notin l.calls, "tool-result-has-call")
                        \cup Broken(e.id \in l.results, "single-tool-result")
             R == l.results \cup {e.id}
  <2>1. B \in PB /\ R \in PI
    BY <1>c, BrokenIs DEF Rules
  <2>2. Add(l, e) = [l EXCEPT !.results = R, !.bad = B]
    BY <1>9 DEF Add, AddToolResult
  <2> HIDE DEF B, R, PI, PE, PM, PV, PR, PB, Latest
  <2> QED
    BY ONLY <1>a, <1>b, <2>1, <2>2, ZenonT(40)
<1>10. CASE e.type = "verification/result"
  <2> DEFINE V == l.verdicts \cup {<<e.id, e.note>>}
  <2>1. V \in PV
    BY <1>10, <1>b, <1>d DEF Fits
  <2>2. Add(l, e) = [l EXCEPT !.verdicts = V]
    BY <1>10 DEF Add
  <2> HIDE DEF V, PI, PE, PM, PV, PR, PB, Latest
  <2> QED
    BY ONLY <1>a, <1>b, <2>1, <2>2
<1> QED
  BY <1>1, <1>2, <1>3, <1>4, <1>5, <1>6, <1>7, <1>8, <1>9, <1>10 DEF Fits, Types

-----------------------------------------------------------------------------
(* The turn and step the owner is at, and the types of what it reads.      *)
LEMMA Typed ==
    ASSUME TypeOK
    PROVE  /\ log \in Log /\ cur \in Ids
           /\ log.turn \in Ids /\ log.step \in Ids /\ log.attempt \in Ids
           /\ log.opened \subseteq Ids /\ log.closed \subseteq Ids /\ log.starts \subseteq Ids
           /\ log.calls \subseteq Ids /\ log.results \subseteq Ids
           /\ Ended(log) \subseteq Ids /\ Answered(log) \subseteq Ids
<1>1. log \in Log /\ cur \in Ids
  BY DEF TypeOK
<1>2. log.ends \subseteq Ids \X Statuses /\ log.messages \subseteq Ids \X Kinds
  BY <1>1 DEF Log
<1>3. Ended(log) \subseteq Ids /\ Answered(log) \subseteq Ids
  BY <1>2 DEF Ended, Answered
<1> QED
  BY <1>1, <1>3 DEF Log

LEMMA Numbers ==
    ASSUME TypeOK
    PROVE  /\ cur[1] \in Nat /\ cur[2] \in Nat /\ cur[3] \in Nat /\ vfails \in Nat
           /\ cur = <<cur[1], cur[2], cur[3]>>
           /\ cur[1] <= MaxTurns /\ cur[2] <= MaxSteps /\ cur[3] <= MaxAttempts
           /\ MaxTurns \in Nat /\ MaxSteps \in Nat /\ MaxAttempts \in Nat
           /\ MaxSteps > 0 /\ MaxAttempts > 0
<1>1. cur \in Ids /\ vfails \in 0 .. MaxSteps
  BY DEF TypeOK
<1>2. /\ {MaxSteps, MaxAttempts} \subseteq Nat \ {0}
      /\ MaxTurns \in Nat
  BY SessionTurnAssumption
<1> QED
  BY <1>1, <1>2, IdFields

LEMMA Here ==
    ASSUME cur \in Ids
    PROVE  /\ Turn \in Ids /\ Step \in Ids /\ Turn = TurnOf(cur) /\ Step = StepOf(cur)
           /\ TurnOf(Turn) = Turn /\ TurnOf(Step) = Turn /\ StepOf(Step) = Step
           /\ NoLater(Turn, cur) /\ NoLater(Step, cur) /\ NoLater(cur, cur)
           /\ cur[2] > 0 => Step # Turn
           /\ cur[1] > 0 => Turn # None /\ Step # None /\ cur # None
           /\ \A a \in Ids : /\ StepOf(a) = Step => TurnOf(a) = Turn
                             /\ TurnOf(StepOf(a)) = TurnOf(a)
                             /\ a[2] > 0 => StepOf(a) # Turn
                             /\ a[1] > 0 => StepOf(a) # None
<1> QED
  BY IdFields, Names, Later DEF Turn, Step

(* What stays when the owner moves on without appending anything.          *)
LEMMA SameStream ==
    ASSUME Inv, log' = log, cur' = cur
    PROVE  /\ Sound' /\ EndsAreTrue' /\ Turn' = Turn /\ Step' = Step
           /\ Ended(log)' = Ended(log) /\ Answered(log)' = Answered(log)
           /\ StartsIn(log, Step)' = StartsIn(log, Step)
           /\ Complete(log, Turn)' = Complete(log, Turn)
<1>1. Sound /\ EndsAreTrue
  BY DEF Inv
<1>2. /\ Turn' = Turn /\ Step' = Step
      /\ Ended(log)' = Ended(log) /\ Answered(log)' = Answered(log)
      /\ StartsIn(log, Step)' = StartsIn(log, Step)
      /\ Complete(log, Turn)' = Complete(log, Turn)
  BY DEF Turn, Step, Ended, Answered, StartsIn, Complete
<1>3. Sound'
  BY <1>1, <1>2 DEF Sound
<1>4. EndsAreTrue'
  BY <1>1, <1>2 DEF EndsAreTrue
<1> QED
  BY <1>2, <1>3, <1>4

LEMMA Leaves ==
    ASSUME Inv, TypeOK', log' = log, cur' = cur, pc' \in {"idle", "down"},
           loose \subseteq loose', Closed'
    PROVE  Inv'
<1>1. Sound' /\ EndsAreTrue'
  BY SameStream
<1>2. InTurn' /\ InStep' /\ Plans' /\ Locals'
  BY DEF InTurn, InStep, Plans, Locals, Started, Asking, Counted, Heard, Fresh, InTry,
         StepOpenFlag, Closing
<1>3. Legal'
  BY DEF Inv, Legal, Known, Nested, OneTurn, Started, InTry, Ended
<1> QED
  BY <1>1, <1>2, <1>3 DEF Inv

LEMMA Closes ==
    ASSUME Inv, TypeOK', log' = log, cur' = cur, pc' \in Closing, loose \subseteq loose',
           Plans'
    PROVE  Inv'
<1>1. Sound' /\ EndsAreTrue'
  BY SameStream
<1>2. InTurn' /\ InStep' /\ Locals'
  BY DEF InTurn, InStep, Locals, Started, Asking, Counted, Heard, Fresh, InTry,
         StepOpenFlag, Closing
<1>3. Legal'
  BY DEF Inv, Legal, Known, Nested, OneTurn, Started, InTry, Ended, Closing
<1>4. Closed'
  BY DEF Closed, OwnerLeavesNothingOpen, Closing
<1> QED
  BY <1>1, <1>2, <1>3, <1>4 DEF Inv

LEMMA Moves ==
    ASSUME Inv, TypeOK', log' = log, cur' = cur, pc \in Started, pc' \in Started, loose' = loose,
           InTurn', InStep', Locals',
           OneTurn /\ log.step # None => pc' \in StepOpenFlag
    PROVE  Inv'
<1>1. Sound' /\ EndsAreTrue' /\ Step' = Step
  BY SameStream
<1>2. Plans' /\ Closed'
  BY DEF Plans, Closed, OwnerLeavesNothingOpen, Started, InTry, Closing
<1>3. Legal'
  BY <1>1 DEF Inv, Legal, Known, Nested, OneTurn, Ended
<1> QED
  BY <1>1, <1>2, <1>3 DEF Inv

-----------------------------------------------------------------------------
(* The steps that append nothing.                                          *)
LEMMA EnterTryKeeps ==
    ASSUME Inv, EnterTry
    PROVE  Inv'
<1>1. TypeOK /\ Sound /\ InTurn /\ InStep /\ Locals /\ Legal
  BY DEF Inv
<1>2. /\ pc = "hook" /\ pc' = "step" /\ log' = log /\ cur' = cur /\ loose' = loose
      /\ vfails' = vfails /\ response' = response /\ reason' = reason
  BY DEF EnterTry
<1>3. TypeOK'
  BY <1>1 DEF EnterTry, TypeOK, Points, InTry
<1>4. Turn' = Turn /\ Step' = Step /\ Ended(log)' = Ended(log)
  BY <1>2, SameStream
<1>5. InTurn'
  BY <1>1, <1>2, <1>4 DEF InTurn, Started, Asking, InTry, StepOpenFlag
<1>6. InStep'
  BY <1>2 DEF InStep, StepOpenFlag, Asking, Counted, Heard, Fresh
<1>7. Locals'
  BY <1>1, <1>2, Numbers DEF Locals, Started, Heard, Fresh, InTry
<1> QED
  BY <1>1, <1>2, <1>3, <1>5, <1>6, <1>7, Moves DEF Legal, Started, InTry, StepOpenFlag

LEMMA ProviderAnswersKeeps ==
    ASSUME Inv, NEW kind \in Kinds, ProviderAnswers(kind)
    PROVE  Inv'
<1>1. TypeOK /\ Sound /\ InTurn /\ InStep /\ Locals /\ Legal
  BY DEF Inv
<1>2. /\ pc = "provider" /\ pc' = "message" /\ log' = log /\ cur' = cur /\ loose' = loose
      /\ vfails' = vfails /\ response' = kind /\ reason' = reason
      /\ kind = "summary" => cur[2] < MaxSteps
  BY DEF ProviderAnswers
<1>3. TypeOK'
  BY <1>1 DEF ProviderAnswers, TypeOK, Points, InTry
<1>4. Turn' = Turn /\ Step' = Step /\ Ended(log)' = Ended(log) /\ Answered(log)' = Answered(log)
  BY <1>2, SameStream
<1>5. InTurn'
  BY <1>1, <1>2, <1>4 DEF InTurn, Started, Asking, InTry, StepOpenFlag
<1>6. InStep'
  BY <1>1, <1>2, <1>4 DEF InStep, StepOpenFlag, Asking, Counted, Heard, Fresh
<1>7. Locals'
  BY <1>1, <1>2 DEF Locals, Started, Heard, Fresh, InTry
<1> QED
  BY <1>1, <1>2, <1>3, <1>5, <1>6, <1>7, Moves DEF Legal, Started, InTry, StepOpenFlag

LEMMA ProviderFailsKeeps ==
    ASSUME Inv, ProviderFails
    PROVE  Inv'
<1>1. TypeOK /\ Sound /\ InTurn /\ InStep /\ Locals /\ Legal
  BY DEF Inv
<1>2. /\ pc = "provider" /\ pc' = "failed" /\ log' = log /\ cur' = cur /\ loose' = loose
      /\ vfails' = vfails /\ response' = response /\ reason' = reason
  BY DEF ProviderFails
<1>3. TypeOK'
  BY <1>1 DEF ProviderFails, TypeOK, Points, InTry
<1>4. /\ Turn' = Turn /\ Step' = Step /\ Ended(log)' = Ended(log)
      /\ Answered(log)' = Answered(log) /\ StartsIn(log, Step)' = StartsIn(log, Step)
  BY <1>2, SameStream
<1>5. InTurn'
  BY <1>1, <1>2, <1>4 DEF InTurn, Started, Asking, InTry, StepOpenFlag
<1>6. InStep'
  BY <1>1, <1>2, <1>4 DEF InStep, StepOpenFlag, Asking, Counted, Heard, Fresh
<1>7. Locals'
  BY <1>1, <1>2 DEF Locals, Started, Heard, Fresh, InTry
<1> QED
  BY <1>1, <1>2, <1>3, <1>5, <1>6, <1>7, Moves DEF Legal, Started, InTry, StepOpenFlag

LEMMA RunToolsKeeps ==
    ASSUME Inv, RunTools
    PROVE  Inv'
<1>1. TypeOK /\ Sound /\ InTurn /\ InStep /\ Locals /\ Legal
  BY DEF Inv
<1>2. /\ pc = "admitted" /\ pc' = "results" /\ log' = log /\ cur' = cur /\ loose' = loose
      /\ vfails' = vfails /\ response' = response /\ reason' = reason
  BY DEF RunTools
<1>3. TypeOK'
  BY <1>1 DEF RunTools, TypeOK, Points, InTry
<1>4. Turn' = Turn /\ Step' = Step /\ Ended(log)' = Ended(log)
  BY <1>2, SameStream
<1>5. InTurn'
  BY <1>1, <1>2, <1>4 DEF InTurn, Started, Asking, InTry, StepOpenFlag
<1>6. InStep'
  BY <1>1, <1>2, <1>4 DEF InStep, StepOpenFlag, Asking, Counted, Heard, Fresh
<1>7. Locals'
  BY <1>1, <1>2 DEF Locals, Started, Heard, Fresh, InTry
<1> QED
  BY <1>1, <1>2, <1>3, <1>5, <1>6, <1>7, Moves DEF Legal, Started, InTry, StepOpenFlag

LEMMA KeepResultsKeeps ==
    ASSUME Inv, KeepResults
    PROVE  Inv'
<1>1. TypeOK /\ Sound /\ InTurn /\ InStep /\ Locals /\ Legal
  BY DEF Inv
<1>2. /\ pc = "recorded" /\ pc' = "stepEnd" /\ log' = log /\ cur' = cur /\ loose' = loose
      /\ vfails' = vfails /\ response' = response /\ reason' = reason
  BY DEF KeepResults
<1>3. TypeOK'
  BY <1>1 DEF KeepResults, TypeOK, Points, InTry
<1>4. Turn' = Turn /\ Step' = Step /\ Ended(log)' = Ended(log)
  BY <1>2, SameStream
<1>5. InTurn'
  BY <1>1, <1>2, <1>4 DEF InTurn, Started, Asking, InTry, StepOpenFlag
<1>6. InStep'
  BY <1>1, <1>2, <1>4 DEF InStep, StepOpenFlag, Asking, Counted, Heard, Fresh
<1>7. Locals'
  BY <1>1, <1>2 DEF Locals, Started, Heard, Fresh, InTry
<1> QED
  BY <1>1, <1>2, <1>3, <1>5, <1>6, <1>7, Moves DEF Legal, Started, InTry, StepOpenFlag

(* A turn is only said to be completed with a complete answer at its end.  *)
LEMMA DecideKeeps ==
    ASSUME Inv, Decide
    PROVE  Inv'
<1>1. TypeOK /\ Sound /\ InTurn /\ InStep /\ Locals /\ Legal
  BY DEF Inv
<1>2. /\ pc = "decide" /\ pc' \in {"step", "turnEnd"} /\ log' = log /\ cur' = cur
      /\ loose' = loose /\ vfails' = vfails /\ response' = response
  BY DEF Decide
<1>3. PICK v \in Verdicts : IF v = "continue" THEN pc' = "step" /\ UNCHANGED reason
                                              ELSE pc' = "turnEnd" /\ reason' = v
  BY DEF Decide
<1>4. response \in Kinds \ {"summary"}
  BY <1>1, <1>2 DEF Locals, Heard
<1>5. cur[2] \in Nat /\ MaxSteps \in Nat
  BY <1>1, Numbers
<1>6. /\ v \in {"incomplete", "max_steps_exceeded", "continue", "stalled",
                "verification_failed", "completed"}
      /\ v = "continue" => cur[2] < MaxSteps
      /\ v = "completed" => response = "answer" /\ <<Step, "rejected">> \notin log.verdicts
  BY <1>4, <1>5 DEF Verdicts, Rejected, Kinds
<1>7. TypeOK'
  BY <1>1, <1>2, <1>3, <1>6 DEF Decide, TypeOK, Points, InTry, Reasons
<1>8. Turn' = Turn /\ Step' = Step /\ Ended(log)' = Ended(log)
      /\ Complete(log, Turn)' = Complete(log, Turn)
  BY <1>2, SameStream
<1>9. InTurn'
  BY <1>1, <1>2, <1>8 DEF InTurn, Started, Asking, InTry, StepOpenFlag
<1>10. InStep'
  BY <1>1, <1>2, <1>8 DEF InStep, StepOpenFlag, Asking, Counted, Heard, Fresh
<1>11. v = "completed" => Complete(log, Turn)
  <2> SUFFICES ASSUME v = "completed" PROVE Complete(log, Turn)
    OBVIOUS
  <2>1. <<cur, "answer">> \in log.messages /\ <<cur, "succeeded">> \in log.ends
    BY <1>1, <1>2, <1>6 DEF InStep, Heard
  <2>2. cur \in log.starts
    <3>1. cur \in Ended(log)
      BY <2>1 DEF Ended
    <3> QED
      BY <1>1, <3>1 DEF Sound
  <2>3. ASSUME NEW id \in log.opened, TurnOf(id) = Turn PROVE id[2] <= cur[2]
    <3>1. id \in Ids /\ cur \in Ids /\ NoLater(id, cur)
      BY <1>1, Typed DEF Sound
    <3>2. id[1] = cur[1]
      BY <2>3, <3>1, Names DEF Turn
    <3> QED
      BY <3>1, <3>2, IdFields DEF NoLater
  <2>4. HasVerifier => <<StepOf(cur), "passed">> \in log.verdicts
    BY <1>1, <1>2, <1>6 DEF Locals, Step
  <2>5. TurnOf(cur) = Turn
    BY DEF Turn
  <2> QED
    BY <2>1, <2>2, <2>3, <2>4, <2>5 DEF Complete
<1>12. Locals'
  BY <1>1, <1>2, <1>3, <1>6, <1>8, <1>11
     DEF Locals, Started, Heard, Fresh, InTry, Reasons
<1> QED
  BY <1>1, <1>2, <1>7, <1>9, <1>10, <1>12, Moves DEF Legal, Started, InTry, StepOpenFlag

(* The next attempt of the step; all before it have ended.                 *)
LEMMA RetryKeeps ==
    ASSUME Inv, Retry
    PROVE  Inv'
<1>1. TypeOK /\ Sound /\ InTurn /\ InStep /\ Locals /\ Legal /\ EndsAreTrue
  BY DEF Inv
<1>2. /\ pc = "retry" /\ pc' = "attempt" /\ log' = log /\ loose' = loose
      /\ vfails' = vfails /\ response' = response /\ reason' = reason
      /\ cur' = [cur EXCEPT ![3] = @ + 1] /\ cur[3] < MaxAttempts
  BY DEF Retry
<1>3. /\ cur[1] \in Nat /\ cur[2] \in Nat /\ cur[3] \in Nat /\ cur = <<cur[1], cur[2], cur[3]>>
      /\ MaxAttempts \in Nat /\ cur \in Ids
  BY <1>1, Numbers, Typed
<1>4. cur' = <<cur[1], cur[2], cur[3] + 1>>
  <2>1. cur = <<cur[1], cur[2], cur[3]>>
    BY <1>3
  <2> QED
    BY <1>2, <2>1
<1>5. cur' \in Ids
  BY <1>2, <1>3, <1>4 DEF Ids
<1>6. cur'[1] = cur[1] /\ cur'[2] = cur[2] /\ cur'[3] = cur[3] + 1
  BY <1>4
<1>7. Turn' = Turn /\ Step' = Step
  BY <1>6 DEF Turn, Step, TurnOf, StepOf
<1>8. Ended(log)' = Ended(log) /\ StartsIn(log, Step)' = StartsIn(log, Step)
  BY <1>2, <1>7 DEF Ended, StartsIn
<1>9. TypeOK'
  <2> HIDE DEF Ids
  <2> QED
    BY <1>1, <1>2, <1>5 DEF Retry, TypeOK, Points, InTry
<1>10. Sound'
  <2>1. \A id \in log.opened \cup log.starts : NoLater(id, cur')
    <3> SUFFICES ASSUME NEW id \in log.opened \cup log.starts PROVE NoLater(id, cur')
      OBVIOUS
    <3>1. NoLater(id, cur) /\ id \in Ids
      BY <1>1, Typed DEF Sound
    <3>2. id[1] \in Nat /\ id[2] \in Nat /\ id[3] \in Nat
      BY <3>1, IdFields
    <3> QED
      BY <1>3, <1>6, <3>1, <3>2 DEF NoLater
  <2> QED
    BY <1>1, <1>2, <2>1 DEF Sound, Ended, Answered
<1>11. InTurn'
  BY <1>1, <1>2, <1>6, <1>7, <1>8 DEF InTurn, Started, Asking, InTry, StepOpenFlag
<1>12. InStep'
  <2>1. StartsIn(log, Step) = {<<cur[1], cur[2], k>> : k \in 1 .. cur[3]} /\ log.last = "failed"
    BY <1>1, <1>2 DEF InStep, Counted
  <2>2. cur'[3] - 1 = cur[3]
    BY <1>3, <1>6
  <2>3. cur[2] > 0 /\ log.step = Step /\ Step \in log.opened \ log.closed /\ Step \notin log.calls
    BY <1>1, <1>2 DEF InStep, StepOpenFlag, Fresh
  <2>4. cur'[2] > 0 /\ cur'[3] > 0
    BY <1>3, <1>6, <2>3
  <2> QED
    BY <1>2, <1>6, <1>7, <1>8, <2>1, <2>2, <2>3, <2>4
       DEF InStep, StepOpenFlag, Asking, Counted, Heard, Fresh
<1>13. Locals'
  BY <1>1, <1>2, <1>6 DEF Locals, Started, Heard, Fresh, InTry
<1>14. Plans' /\ Closed'
  BY <1>2 DEF Plans, Closed, OwnerLeavesNothingOpen, Closing
<1>15. Legal'
  BY <1>1, <1>2, <1>8 DEF Legal, Known, Nested, OneTurn, StepOpenFlag
<1>16. EndsAreTrue'
  BY <1>1, <1>2, <1>8 DEF EndsAreTrue, Answered
<1> QED
  BY <1>9, <1>10, <1>11, <1>12, <1>13, <1>14, <1>15, <1>16 DEF Inv

-----------------------------------------------------------------------------
(* The steps of the turn that append.                                      *)
LEMMA Appended ==
    ASSUME TypeOK, NEW e, Fits(e), Write(e)
    PROVE  log' \in Log /\ Grown(log, log', e)
<1>1. log \in Log
  BY DEF TypeOK
<1> QED
  BY <1>1, AddTyped, AddGrows DEF Write

LEMMA NoViolation ==
    ASSUME NEW l
    PROVE  Violations(l) = {} <=>
              /\ l.bad = {}
              /\ \A a \in l.starts \ Ended(l) : StepOf(a) \notin l.closed
              /\ \A c \in l.calls \ l.results : c \notin l.closed
<1> QED
  BY DEF Violations, Broken

LEMMA OpenTurnKeeps ==
    ASSUME Inv, OpenTurn
    PROVE  Inv'
<1> DEFINE e == Ev("turn/start", cur', "none")
<1>1. TypeOK /\ Sound /\ Legal /\ EndsAreTrue
  BY DEF Inv
<1>2. /\ pc' = "hook" /\ cur' = <<cur[1] + 1, 0, 0>> /\ cur[1] < MaxTurns /\ Write(e)
      /\ response' = "none" /\ vfails' = 0 /\ reason' = "none" /\ outcome' = "none"
      /\ loose' = loose /\ plan' = plan /\ budget' = budget
  BY DEF OpenTurn
<1>3. cur[1] \in Nat /\ MaxTurns \in Nat /\ MaxSteps \in Nat /\ MaxAttempts \in Nat /\ cur \in Ids
  BY <1>1, Numbers, Typed
<1>4. /\ cur' \in Ids /\ cur'[1] = cur[1] + 1 /\ cur'[2] = 0 /\ cur'[3] = 0 /\ cur'[1] > 0
      /\ Turn' = cur'
  BY <1>2, <1>3 DEF Ids, Turn, TurnOf
<1>5. Fits(e) /\ e.type = "turn/start" /\ e.id = cur'
  BY <1>4 DEF Fits, Ev, Types
<1> HIDE DEF e
<1>6. log' \in Log /\ Grown(log, log', e)
  BY <1>1, <1>2, <1>5, Appended
<1>7. \A id \in log.opened \cup log.starts :
         id \in Ids /\ NoLater(id, cur') /\ id # cur' /\ TurnOf(id) # cur'
  <2> SUFFICES ASSUME NEW id \in log.opened \cup log.starts
               PROVE  id \in Ids /\ NoLater(id, cur') /\ id # cur' /\ TurnOf(id) # cur'
    OBVIOUS
  <2>1. NoLater(id, cur) /\ id \in Ids
    BY <1>1, Typed DEF Sound
  <2>2. id[1] \in Nat /\ id[1] <= cur[1] /\ TurnOf(id)[1] = id[1]
    BY <1>3, <2>1, IdFields, Names DEF NoLater
  <2>3. id[1] < cur'[1]
    BY <1>3, <1>4, <2>2
  <2> QED
    BY <2>1, <2>2, <2>3 DEF NoLater
<1>8. TypeOK'
  <2> HIDE DEF Ids
  <2> QED
    BY <1>1, <1>2, <1>3, <1>4, <1>6 DEF TypeOK, Points, Outcomes
<1>9. cur' # None /\ cur' \notin log.closed /\ TurnOf(cur') = cur' /\ NoLater(cur', cur')
  <2>1. cur' # None /\ NoLater(cur', cur')
    BY <1>4, Names, Later
  <2>2. cur' \notin log.closed
    BY <1>1, <1>7 DEF Sound
  <2>3. TurnOf(cur') = cur'
    BY <1>4 DEF Turn
  <2> QED
    BY <2>1, <2>2, <2>3
<1>10. Sound'
  BY <1>1, <1>4, <1>5, <1>6, <1>7, <1>9 DEF Sound, Grown, Fields
<1>11. InTurn'
  <2>1. \A id \in log.opened' : TurnOf(id) = cur' => id = cur'
    BY <1>5, <1>6, <1>7 DEF Grown, Fields
  <2>2. \A a \in log.starts' : TurnOf(a) # cur'
    BY <1>5, <1>6, <1>7 DEF Grown, Fields
  <2>3. log'.turn = cur' /\ cur' \in log.opened' \ log.closed'
    BY <1>5, <1>6, <1>9 DEF Grown, Fields
  <2> QED
    BY <1>2, <1>4, <2>1, <2>2, <2>3 DEF InTurn
<1>12. InStep' /\ Plans' /\ Closed'
  BY <1>2 DEF InStep, StepOpenFlag, Asking, Counted, Heard, Fresh, Plans, Closing, Closed,
              OwnerLeavesNothingOpen
<1>13. Locals'
  BY <1>2, <1>4 DEF Locals, Heard, Fresh
<1>14. Legal'
  <2>1. /\ log.bad \subseteq log'.bad /\ log'.bad \subseteq log.bad \cup {"single-open-turn"}
        /\ OneTurn' => log.turn = None /\ log'.bad = log.bad
    BY <1>1, <1>2, <1>5, AddBad, Typed DEF Write, OneTurn
  <2>2. Known'
    BY <1>1, <1>2, <2>1 DEF Legal, Known, OneTurn, Overlaps
  <2>3. Nested'
    BY <1>1, <1>2, <1>5, <1>6, <1>9, <2>1 DEF Legal, Nested, Grown, Fields
  <2>4. OneTurn' => log'.step = None
    BY <1>1, <1>5, <1>6, <2>1 DEF Legal, Nested, OneTurn, Grown, Fields
  <2> QED
    BY <2>2, <2>3, <2>4 DEF Legal
<1>15. EndsAreTrue'
  <2>1. /\ log'.ends = log.ends /\ Answered(log') = Answered(log) /\ log'.starts = log.starts
        /\ log'.reasons = log.reasons /\ log'.messages = log.messages
        /\ log'.verdicts = log.verdicts
        /\ \A p \in log.reasons : \A id \in log'.opened : TurnOf(id) = p[1] => id \in log.opened
    BY <1>1, <1>5, <1>6, <1>9 DEF Grown, Fields, Sound
  <2> QED
    BY <1>1, <2>1 DEF EndsAreTrue
<1> QED
  BY <1>8, <1>10, <1>11, <1>12, <1>13, <1>14, <1>15 DEF Inv

LEMMA StartStepKeeps ==
    ASSUME Inv, StartStep
    PROVE  Inv'
<1> DEFINE e == Ev("step/start", StepOf(cur'), "none")
<1>1. TypeOK /\ Sound /\ InTurn /\ Locals /\ Legal /\ EndsAreTrue
  BY DEF Inv
<1>2. /\ pc = "step" /\ pc' = "attempt" /\ cur' = <<cur[1], cur[2] + 1, 1>> /\ Write(e)
      /\ response' = response /\ vfails' = vfails /\ reason' = reason /\ outcome' = outcome
      /\ loose' = loose /\ plan' = plan /\ budget' = budget
  BY DEF StartStep
<1>3. /\ cur[1] \in Nat /\ cur[2] \in Nat /\ MaxTurns \in Nat /\ MaxSteps \in Nat
      /\ MaxAttempts \in Nat /\ cur \in Ids /\ cur[1] <= MaxTurns /\ MaxAttempts > 0
      /\ cur[2] < MaxSteps /\ cur[1] > 0
  BY <1>1, <1>2, Numbers, Typed DEF Locals, InTurn, Started, InTry
<1>4. cur' \in Ids /\ cur'[1] = cur[1] /\ cur'[2] = cur[2] + 1 /\ cur'[3] = 1 /\ cur'[2] > 0
  BY <1>2, <1>3 DEF Ids
<1>5. Turn' = Turn /\ Step' = StepOf(cur') /\ Step' \in Ids /\ TurnOf(Step') = Turn
      /\ Turn # None /\ Step' # None /\ Step' # Turn
  <2>1. TurnOf(cur') = TurnOf(cur) /\ TurnOf(cur) # None
    BY <1>3, <1>4, Names
  <2>2. /\ StepOf(cur') \in Ids /\ StepOf(cur') # None /\ StepOf(cur') # TurnOf(cur)
        /\ TurnOf(StepOf(cur')) = TurnOf(cur')
    BY <1>3, <1>4, Names, IdFields
  <2> QED
    BY <2>1, <2>2 DEF Turn, Step
<1>6. Fits(e) /\ e.type = "step/start" /\ e.id = Step'
  BY <1>5 DEF Fits, Ev, Types
<1> HIDE DEF e
<1>7. log' \in Log /\ Grown(log, log', e)
  BY <1>1, <1>2, <1>6, Appended
<1>8. \A id \in log.opened \cup log.starts :
         id \in Ids /\ NoLater(id, cur') /\ id # Step' /\ StepOf(id) # Step'
  <2> SUFFICES ASSUME NEW id \in log.opened \cup log.starts
               PROVE  id \in Ids /\ NoLater(id, cur') /\ id # Step' /\ StepOf(id) # Step'
    OBVIOUS
  <2>1. NoLater(id, cur) /\ id \in Ids
    BY <1>1, Typed DEF Sound
  <2>2. /\ id[1] \in Nat /\ id[2] \in Nat /\ Step'[1] = cur[1] /\ Step'[2] = cur[2] + 1
        /\ StepOf(id)[1] = id[1] /\ StepOf(id)[2] = id[2]
    BY <1>4, <1>5, <2>1, IdFields, Names
  <2>3. id[1] < cur[1] \/ (id[1] = cur[1] /\ id[2] <= cur[2])
    BY <1>3, <2>1, <2>2 DEF NoLater
  <2>4. ~(id[1] = cur[1] /\ id[2] = cur[2] + 1) /\ NoLater(id, cur')
    BY <1>3, <1>4, <2>2, <2>3 DEF NoLater
  <2> QED
    BY <2>1, <2>2, <2>4
<1>9. TypeOK'
  <2> HIDE DEF Ids
  <2> QED
    BY <1>1, <1>2, <1>4, <1>7 DEF TypeOK, Points, InTry
<1>10. Step' \notin log.closed /\ Step' \notin log.calls /\ NoLater(Step', cur')
  BY <1>1, <1>4, <1>5, <1>8, Later DEF Sound
<1>11. /\ log.turn = Turn /\ Turn \in log.opened \ log.closed
       /\ \A id \in log.opened \ log.closed : TurnOf(id) = Turn => id = Turn
       /\ \A a \in log.starts \ Ended(log) : TurnOf(a) # Turn
  BY <1>1, <1>2 DEF InTurn, Started, InTry, StepOpenFlag, Asking
<1>12. Sound'
  <2>1. Step'[2] > 0
    BY <1>4, <1>5, Names
  <2> QED
    BY <1>1, <1>5, <1>6, <1>7, <1>8, <1>10, <2>1 DEF Sound, Grown, Fields
<1>13. InTurn'
  <2>1. /\ log'.turn = Turn /\ Turn \in log'.opened \ log'.closed
        /\ \A id \in log'.opened \ log'.closed : TurnOf(id) = Turn => id \in {Turn, Step'}
        /\ \A a \in log'.starts \ Ended(log') : TurnOf(a) # Turn
    BY <1>5, <1>6, <1>7, <1>11 DEF Grown, Fields
  <2> QED
    BY <1>2, <1>3, <1>4, <1>5, <2>1 DEF InTurn, StepOpenFlag
<1>14. InStep'
  <2>1. log'.step = Step' /\ Step' \in log'.opened \ log'.closed /\ Step' \notin log'.calls
    BY <1>6, <1>7, <1>10 DEF Grown, Fields
  <2>2. StartsIn(log', Step') = {}
    BY <1>6, <1>7, <1>8 DEF Grown, Fields, StartsIn
  <2>3. {<<cur'[1], cur'[2], k>> : k \in 1 .. cur'[3] - 1} = {}
    BY <1>4
  <2> QED
    BY <1>2, <1>4, <2>1, <2>2, <2>3 DEF InStep, StepOpenFlag, Asking, Counted, Heard, Fresh
<1>15. Locals'
  <2>1. vfails \in Nat /\ vfails <= cur[2]
    BY <1>1, <1>2, Numbers DEF Locals, Started, InTry
  <2>2. vfails' <= cur'[2] /\ vfails' < cur'[2]
    BY <1>2, <1>3, <1>4, <2>1
  <2> QED
    BY <1>2, <2>2 DEF Locals, Heard
<1>16. Plans' /\ Closed'
  BY <1>2 DEF Plans, Closing, Closed, OwnerLeavesNothingOpen
<1>17. Legal'
  <2>1. /\ log.bad \subseteq log'.bad /\ log'.bad \subseteq log.bad \cup {"single-open-step"}
        /\ log.step = None => log'.bad = log.bad
        /\ log'.bad = {} => log.step = None
    BY <1>1, <1>2, <1>5, <1>6, <1>11, AddBad, Typed DEF Write
  <2>2. OneTurn => log.step = None
    BY <1>1, <1>2 DEF Legal, Started, InTry, StepOpenFlag
  <2>3. log'.bad = {} => log'.attempt = None
    <3> SUFFICES ASSUME log'.bad = {}, log.attempt # None PROVE FALSE
      BY <1>6, <1>7 DEF Grown, Fields
    <3>1. StepOf(log.attempt) = None
      BY <1>1, <2>1 DEF Legal, Nested
    <3>2. log.attempt \in Ids /\ log.attempt[1] > 0
      BY <1>1, Typed DEF Sound
    <3> QED
      BY <3>1, <3>2, Names
  <2>4. Known'
    BY <1>1, <1>2, <2>1, <2>2 DEF Legal, Known, OneTurn, Overlaps
  <2>5. Nested'
    BY <1>1, <1>2, <1>5, <1>6, <1>7, <1>11, <2>3 DEF Legal, Nested, Grown, Fields
  <2> QED
    BY <1>2, <2>4, <2>5 DEF Legal, StepOpenFlag
<1>18. EndsAreTrue'
  <2>1. /\ log'.ends = log.ends /\ Answered(log') = Answered(log) /\ log'.starts = log.starts
        /\ log'.reasons = log.reasons /\ log'.messages = log.messages
        /\ log'.verdicts = log.verdicts
        /\ \A p \in log.reasons : \A id \in log'.opened : TurnOf(id) = p[1] => id \in log.opened
    BY <1>1, <1>5, <1>6, <1>7, <1>11 DEF Grown, Fields, Sound
  <2> QED
    BY <1>1, <2>1 DEF EndsAreTrue
<1> QED
  BY <1>9, <1>12, <1>13, <1>14, <1>15, <1>16, <1>17, <1>18 DEF Inv

(* What an event other than the start of a turn or a step must satisfy for *)
(* the stream to stay sound, its ends true and its history legal.          *)
Proper(e) ==
    /\ e.type \in Types \ {"turn/start", "step/start"}
    /\ e.type = "attempt/start" =>
          e.id = cur /\ e.id[1] > 0 /\ e.id[2] > 0 /\ log.turn # None /\ MayStart(log, cur)
    /\ e.type = "attempt/end" =>
          /\ e.id \in log.starts \ Ended(log)
          /\ e.recovered \/ (log.turn = TurnOf(e.id) /\ log.step = StepOf(e.id))
          /\ e.note = "succeeded" => e.id \in Answered(log)
          /\ e.note \in {"failed", "unknown_after_crash"} => e.id \notin Answered(log)
    /\ e.type = "message" => e.id \in log.starts \ Ended(log)
    /\ e.type = "tool/call" => e.id \in log.opened \ log.closed /\ e.id[2] > 0
    /\ e.type = "tool/result" => e.id \in log.calls /\ (e.id \in log.results => "twice" \in loose)
    /\ e.type = "step/end" => e.id = log.step /\ e.id # None
    /\ e.type = "turn/end" =>
          e.id = log.turn /\ e.id # None /\ (e.note = "completed" => Complete(log, e.id))

LEMMA SoundStill ==
    ASSUME Inv, NEW e, Fits(e), Proper(e), Write(e), cur' = cur
    PROVE  Sound'
<1>1. TypeOK /\ Sound
  BY DEF Inv
<1>2. Grown(log, log', e)
  BY <1>1, Appended
<1>3. e.id = cur => NoLater(e.id, cur)
  BY <1>1, Typed, Later
<1>4. e.type = "attempt/start" => e.id \notin log.starts
  BY DEF Proper, MayStart
<1>5. /\ log'.closed \subseteq log'.opened /\ log'.calls \subseteq log'.opened
      /\ log'.results \subseteq log'.calls /\ \A c \in log'.calls : c[2] > 0
      /\ Ended(log') \subseteq log'.starts /\ Answered(log') \subseteq log'.starts
  BY <1>1, <1>2 DEF Sound, Proper, Grown, Fields
<1>6. \A p \in log'.reasons : p[1] \in log'.closed
  BY <1>1, <1>2 DEF Sound, Grown, Fields
<1>7. /\ \A id \in log'.opened \cup log'.starts : NoLater(id, cur)
      /\ \A a \in log'.starts : a[1] > 0 /\ a[2] > 0
  BY <1>1, <1>2, <1>3 DEF Sound, Proper, Grown, Fields
<1>8. /\ log'.turn # None => log'.turn \in log'.opened \ log'.closed /\ log'.turn[2] = 0
      /\ log'.step # None => log'.step \in log'.opened \ log'.closed /\ log'.step[2] > 0
  <2>1. log.turn # None /\ log.step # None => log.turn # log.step
    BY <1>1 DEF Sound
  <2>2. CASE e.type = "turn/end"
    BY <1>1, <1>2, <2>1, <2>2 DEF Sound, Proper, Grown, Fields
  <2>3. CASE e.type = "step/end"
    BY <1>1, <1>2, <2>1, <2>3 DEF Sound, Proper, Grown, Fields
  <2>4. CASE e.type \notin {"step/end", "turn/end"}
    BY <1>1, <1>2, <2>4 DEF Sound, Proper, Grown, Fields
  <2> QED
    BY <2>2, <2>3, <2>4
<1>9. log'.attempt # None => log'.attempt \in log'.starts \ Ended(log') /\ log'.turn # None
  BY <1>1, <1>2, <1>4 DEF Sound, Proper, Grown, Fields
<1> QED
  BY <1>5, <1>6, <1>7, <1>8, <1>9 DEF Sound

LEMMA TrueStill ==
    ASSUME Inv, NEW e, Fits(e), Proper(e), Write(e)
    PROVE  EndsAreTrue'
<1>1. TypeOK /\ Sound /\ EndsAreTrue
  BY DEF Inv
<1>2. Grown(log, log', e)
  BY <1>1, Appended
<1>3. ASSUME NEW p \in log'.ends
      PROVE  /\ p[2] = "succeeded" => p[1] \in Answered(log')
             /\ p[2] \in {"failed", "unknown_after_crash"} => p[1] \notin Answered(log')
  <2>1. CASE p \in log.ends
    <3>1. p[1] \in Ended(log)
      BY <2>1 DEF Ended
    <3>2. /\ p[2] = "succeeded" => p[1] \in Answered(log)
          /\ p[2] \in {"failed", "unknown_after_crash"} => p[1] \notin Answered(log)
      BY <1>1, <2>1 DEF EndsAreTrue
    <3> QED
      BY <1>2, <3>1, <3>2 DEF Grown, Proper
  <2>2. CASE e.type = "attempt/end" /\ p = <<e.id, e.note>>
    BY <1>2, <2>2 DEF Grown, Proper
  <2> QED
    BY <1>2, <1>3, <2>1, <2>2 DEF Grown, Fields
<1>4. \A t : Complete(log, t) => Complete(log', t)
  BY <1>2 DEF Complete, Grown, Fields, Proper
<1>5. ASSUME NEW p \in log'.reasons, p[2] = "completed" PROVE Complete(log', p[1])
  <2>1. CASE p \in log.reasons
    <3>1. Complete(log, p[1])
      BY <1>1, <1>5, <2>1 DEF EndsAreTrue, Complete
    <3> QED
      BY <1>4, <3>1
  <2>2. CASE e.type = "turn/end" /\ p = <<e.id, e.note>>
    BY <1>4, <1>5, <2>2 DEF Proper
  <2> QED
    BY <1>2, <1>5, <2>1, <2>2 DEF Grown, Fields
<1> QED
  BY <1>3, <1>5 DEF EndsAreTrue, Complete

LEMMA LegalStill ==
    ASSUME Inv, NEW e, Fits(e), Proper(e), Write(e), e.type \notin {"step/end", "turn/end"},
           e.type = "attempt/start" => StepOf(e.id) \notin log.closed, loose' = loose
    PROVE  Known' /\ Nested' /\ (OneTurn' => OneTurn) /\ log'.step = log.step
<1>1. TypeOK /\ Sound /\ Known /\ Nested
  BY DEF Inv, Legal
<1>2. Grown(log, log', e)
  BY <1>1, Appended
<1>3. e.type = "attempt/start" => log.attempt = None
  <2> SUFFICES ASSUME MayStart(log, cur), log.attempt # None PROVE FALSE
    BY DEF Proper
  <2>1. log.bad = {} /\ log.step = StepOf(cur) /\ StartsIn(log, StepOf(cur)) \subseteq Ended(log)
    BY NoViolation DEF MayStart
  <2>2. StepOf(log.attempt) = log.step /\ log.attempt \in log.starts \ Ended(log)
    BY <1>1, <2>1 DEF Nested, Sound
  <2> QED
    BY <2>1, <2>2 DEF StartsIn
<1>4. /\ log.bad \subseteq log'.bad /\ log'.bad \subseteq log.bad \cup {"single-tool-result"}
      /\ log'.bad # log.bad => "twice" \in loose
  <2>1. CASE e.type = "tool/result"
    BY <1>1, <2>1, AddBad, Typed DEF Proper, Write
  <2>2. CASE e.type # "tool/result"
    <3>1. log'.bad = log.bad
      BY <1>1, <1>3, <2>2, AddBad, Typed DEF Proper, Types, Write
    <3> QED
      BY <3>1
  <2> QED
    BY <2>1, <2>2
<1>5. Known' /\ (OneTurn' => OneTurn)
  BY <1>1, <1>4 DEF Known, OneTurn, Overlaps
<1>6. log'.bad = {} /\ log'.attempt # None => StepOf(log'.attempt) = log'.step
  BY <1>1, <1>2, <1>4 DEF Nested, Grown, Fields, Proper, MayStart
<1>7. /\ log'.closed = log.closed /\ log'.turn = log.turn /\ log'.step = log.step
      /\ \A a \in log'.starts \ Ended(log') : StepOf(a) \notin log'.closed
      /\ "unanswered" \notin loose => \A c \in log'.calls \ log'.results : c \notin log'.closed
  BY <1>1, <1>2 DEF Nested, Grown, Fields, Proper
<1> QED
  BY <1>1, <1>5, <1>6, <1>7 DEF Nested

LEMMA StartAttemptKeeps ==
    ASSUME Inv, StartAttempt
    PROVE  Inv'
<1> DEFINE e == Ev("attempt/start", cur, "none")
<1>1. TypeOK /\ Sound /\ InTurn /\ InStep /\ Locals /\ Legal
  BY DEF Inv
<1>2. /\ pc = "attempt" /\ pc' = "provider" /\ Write(e) /\ MayStart(log, cur)
      /\ cur' = cur /\ response' = response /\ vfails' = vfails /\ reason' = reason
      /\ outcome' = outcome /\ loose' = loose /\ plan' = plan /\ budget' = budget
  BY DEF StartAttempt
<1>3. /\ cur \in Ids /\ Turn = TurnOf(cur) /\ Step = StepOf(cur)
      /\ Turn' = Turn /\ Step' = Step
  BY <1>1, <1>2, Typed, Here DEF Turn, Step
<1>4. /\ cur[1] > 0 /\ cur[2] > 0 /\ cur[3] > 0 /\ log.step = Step
      /\ Step \in log.opened \ log.closed
      /\ StartsIn(log, Step) = {<<cur[1], cur[2], k>> : k \in 1 .. cur[3] - 1}
      /\ log.turn = Turn /\ Turn \in log.opened \ log.closed /\ Turn # None
      /\ \A id \in log.opened \ log.closed : TurnOf(id) = Turn => id = Turn \/ id = Step
      /\ \A a \in log.starts \ Ended(log) : TurnOf(a) # Turn
  BY <1>1, <1>2, <1>3, Here
     DEF InTurn, InStep, Started, InTry, StepOpenFlag, Counted, Asking
<1>5. /\ Fits(e) /\ Proper(e) /\ e.type = "attempt/start" /\ e.id = cur
  BY <1>2, <1>3, <1>4 DEF Fits, Proper, Ev, Types
<1> HIDE DEF e
<1>6. log' \in Log /\ Grown(log, log', e)
  BY <1>1, <1>2, <1>5, Appended
<1>7. TypeOK'
  BY <1>1, <1>2, <1>6 DEF TypeOK, Points, InTry
<1>8. Sound' /\ EndsAreTrue'
  BY <1>2, <1>5, SoundStill, TrueStill
<1>9. InTurn'
  <2>1. /\ log'.turn = Turn /\ Turn \in log'.opened \ log'.closed
        /\ \A id \in log'.opened \ log'.closed : TurnOf(id) = Turn => id = Turn \/ id = Step
        /\ \A a \in log'.starts \ Ended(log') : TurnOf(a) = Turn => a = cur
    BY <1>4, <1>5, <1>6 DEF Grown, Fields
  <2> QED
    BY <1>2, <1>3, <1>4, <2>1 DEF InTurn, StepOpenFlag, Asking
<1>10. InStep'
  <2>1. /\ log'.step = Step /\ Step \in log'.opened \ log'.closed
        /\ cur \in log'.starts \ Ended(log') /\ cur \notin Answered(log')
        /\ Step \notin log'.calls
    BY <1>1, <1>2, <1>4, <1>5, <1>6 DEF Grown, Fields, Sound, MayStart, InStep, Fresh
  <2>2. StartsIn(log', Step) = {<<cur[1], cur[2], k>> : k \in 1 .. cur[3]}
    <3>1. StartsIn(log', Step) = StartsIn(log, Step) \cup {cur}
      BY <1>3, <1>5, <1>6 DEF Grown
    <3>2. cur = <<cur[1], cur[2], cur[3]>> /\ cur[3] \in Nat
      BY <1>1, Numbers
    <3>3. 1 .. cur[3] = (1 .. cur[3] - 1) \cup {cur[3]}
      BY <1>4, <3>2
    <3> HIDE DEF Ids
    <3> QED
      BY <1>4, <3>1, <3>2, <3>3
  <2> QED
    BY <1>2, <1>3, <1>4, <2>1, <2>2
       DEF InStep, StepOpenFlag, Asking, Counted, Heard, Fresh
<1>11. Locals'
  BY <1>1, <1>2 DEF Locals, Started, Heard, Fresh, InTry
<1>12. Plans' /\ Closed'
  BY <1>2 DEF Plans, Closing, Closed, OwnerLeavesNothingOpen
<1>13. Legal'
  BY <1>2, <1>3, <1>4, <1>5, LegalStill DEF Legal, StepOpenFlag
<1> QED
  BY <1>7, <1>8, <1>9, <1>10, <1>11, <1>12, <1>13 DEF Inv

LEMMA RecordFailureKeeps ==
    ASSUME Inv, RecordFailure
    PROVE  Inv'
<1> DEFINE e == Ev("attempt/end", cur, "failed")
<1>1. TypeOK /\ Sound /\ InTurn /\ InStep /\ Locals /\ Legal
  BY DEF Inv
<1>2. /\ pc = "failed" /\ pc' = "retry" /\ Write(e)
      /\ cur' = cur /\ response' = response /\ vfails' = vfails /\ reason' = reason
      /\ outcome' = outcome /\ loose' = loose /\ plan' = plan /\ budget' = budget
  BY DEF RecordFailure
<1>3. /\ cur \in Ids /\ Turn = TurnOf(cur) /\ Step = StepOf(cur)
      /\ Turn' = Turn /\ Step' = Step
  BY <1>1, <1>2, Typed, Here DEF Turn, Step
<1>4. /\ cur[1] > 0 /\ cur[2] > 0 /\ cur[3] > 0 /\ log.step = Step
      /\ Step \in log.opened \ log.closed /\ Step \notin log.calls
      /\ StartsIn(log, Step) = {<<cur[1], cur[2], k>> : k \in 1 .. cur[3]}
      /\ log.turn = Turn /\ Turn \in log.opened \ log.closed
      /\ \A id \in log.opened \ log.closed : TurnOf(id) = Turn => id = Turn \/ id = Step
      /\ \A a \in log.starts \ Ended(log) : TurnOf(a) = Turn => a = cur
      /\ cur \in log.starts \ Ended(log) /\ cur \notin Answered(log)
  BY <1>1, <1>2 DEF InTurn, InStep, Started, InTry, StepOpenFlag, Counted, Asking, Fresh
<1>5. /\ Fits(e) /\ Proper(e) /\ e.type = "attempt/end" /\ e.id = cur /\ e.note = "failed"
  BY <1>2, <1>3, <1>4 DEF Fits, Proper, Ev, Types, Statuses
<1> HIDE DEF e
<1>6. log' \in Log /\ Grown(log, log', e)
  BY <1>1, <1>2, <1>5, Appended
<1>7. TypeOK'
  BY <1>1, <1>2, <1>6 DEF TypeOK, Points, InTry
<1>8. Sound' /\ EndsAreTrue'
  BY <1>2, <1>5, SoundStill, TrueStill
<1>9. InTurn'
  <2>1. /\ log'.turn = Turn /\ Turn \in log'.opened \ log'.closed
        /\ \A id \in log'.opened \ log'.closed : TurnOf(id) = Turn => id = Turn \/ id = Step
        /\ \A a \in log'.starts \ Ended(log') : TurnOf(a) # Turn
    BY <1>4, <1>5, <1>6 DEF Grown, Fields
  <2> QED
    BY <1>2, <1>3, <1>4, <2>1 DEF InTurn, StepOpenFlag
<1>10. InStep'
  <2>1. /\ log'.step = Step /\ Step \in log'.opened \ log'.closed /\ log'.last = "failed"
        /\ Step \notin log'.calls /\ StartsIn(log', Step) = StartsIn(log, Step)
    BY <1>4, <1>5, <1>6 DEF Grown, Fields
  <2> QED
    BY <1>2, <1>3, <1>4, <2>1 DEF InStep, StepOpenFlag, Asking, Counted, Heard, Fresh
<1>11. Locals'
  BY <1>1, <1>2 DEF Locals, Started, Heard, Fresh, InTry
<1>12. Plans' /\ Closed'
  BY <1>2 DEF Plans, Closing, Closed, OwnerLeavesNothingOpen
<1>13. Legal'
  BY <1>2, <1>5, LegalStill DEF Legal, StepOpenFlag
<1> QED
  BY <1>7, <1>8, <1>9, <1>10, <1>11, <1>12, <1>13 DEF Inv

LEMMA RecordMessageKeeps ==
    ASSUME Inv, RecordMessage
    PROVE  Inv'
<1> DEFINE e == Ev("message", cur, response)
<1>1. TypeOK /\ Sound /\ InTurn /\ InStep /\ Locals /\ Legal
  BY DEF Inv
<1>2. /\ pc = "message" /\ pc' = "succeeded" /\ Write(e)
      /\ cur' = cur /\ response' = response /\ vfails' = vfails /\ reason' = reason
      /\ outcome' = outcome /\ loose' = loose /\ plan' = plan /\ budget' = budget
  BY DEF RecordMessage
<1>3. /\ cur \in Ids /\ Turn = TurnOf(cur) /\ Step = StepOf(cur)
      /\ Turn' = Turn /\ Step' = Step
  BY <1>1, <1>2, Typed, Here DEF Turn, Step
<1>4. /\ cur[1] > 0 /\ cur[2] > 0 /\ cur[3] > 0 /\ log.step = Step
      /\ Step \in log.opened \ log.closed /\ Step \notin log.calls
      /\ log.turn = Turn /\ Turn \in log.opened \ log.closed
      /\ \A id \in log.opened \ log.closed : TurnOf(id) = Turn => id = Turn \/ id = Step
      /\ \A a \in log.starts \ Ended(log) : TurnOf(a) = Turn => a = cur
      /\ cur \in log.starts \ Ended(log) /\ response \in Kinds
  BY <1>1, <1>2 DEF InTurn, InStep, Locals, Started, InTry, StepOpenFlag, Asking, Fresh
<1>5. /\ Fits(e) /\ Proper(e) /\ e.type = "message" /\ e.id = cur /\ e.note = response
  BY <1>2, <1>3, <1>4 DEF Fits, Proper, Ev, Types
<1> HIDE DEF e
<1>6. log' \in Log /\ Grown(log, log', e)
  BY <1>1, <1>2, <1>5, Appended
<1>7. TypeOK'
  BY <1>1, <1>2, <1>6 DEF TypeOK, Points, InTry
<1>8. Sound' /\ EndsAreTrue'
  BY <1>2, <1>5, SoundStill, TrueStill
<1>9. InTurn'
  <2>1. /\ log'.turn = Turn /\ Turn \in log'.opened \ log'.closed
        /\ \A id \in log'.opened \ log'.closed : TurnOf(id) = Turn => id = Turn \/ id = Step
        /\ \A a \in log'.starts \ Ended(log') : TurnOf(a) = Turn => a = cur
    BY <1>4, <1>5, <1>6 DEF Grown, Fields
  <2> QED
    BY <1>2, <1>3, <1>4, <2>1 DEF InTurn, StepOpenFlag, Asking
<1>10. InStep'
  <2>1. /\ log'.step = Step /\ Step \in log'.opened \ log'.closed
        /\ cur \in log'.starts \ Ended(log') /\ <<cur, response>> \in log'.messages
        /\ Step \notin log'.calls
    BY <1>4, <1>5, <1>6 DEF Grown, Fields
  <2> QED
    BY <1>2, <1>3, <1>4, <2>1 DEF InStep, StepOpenFlag, Asking, Counted, Heard, Fresh
<1>11. Locals'
  BY <1>1, <1>2 DEF Locals, Started, Heard, Fresh, InTry
<1>12. Plans' /\ Closed'
  BY <1>2 DEF Plans, Closing, Closed, OwnerLeavesNothingOpen
<1>13. Legal'
  BY <1>2, <1>5, LegalStill DEF Legal, StepOpenFlag
<1> QED
  BY <1>7, <1>8, <1>9, <1>10, <1>11, <1>12, <1>13 DEF Inv

LEMMA RecordSuccessKeeps ==
    ASSUME Inv, RecordSuccess
    PROVE  Inv'
<1> DEFINE e == Ev("attempt/end", cur, "succeeded")
<1>1. TypeOK /\ Sound /\ InTurn /\ InStep /\ Locals /\ Legal
  BY DEF Inv
<1>2. /\ pc = "succeeded" /\ pc' \in {"tools", "verify", "stepEnd"} /\ Write(e)
      /\ pc' = "tools" => response = "tools"
      /\ pc' = "verify" => response = "answer"
      /\ pc' = "stepEnd" => ~(response = "answer" /\ HasVerifier)
      /\ cur' = cur /\ response' = response /\ vfails' = vfails /\ reason' = reason
      /\ outcome' = outcome /\ loose' = loose /\ plan' = plan /\ budget' = budget
  BY DEF RecordSuccess
<1>3. /\ cur \in Ids /\ Turn = TurnOf(cur) /\ Step = StepOf(cur)
      /\ Turn' = Turn /\ Step' = Step
  BY <1>1, <1>2, Typed, Here DEF Turn, Step
<1>4. /\ cur[1] > 0 /\ cur[2] > 0 /\ cur[3] > 0 /\ log.step = Step
      /\ Step \in log.opened \ log.closed /\ Step \notin log.calls
      /\ log.turn = Turn /\ Turn \in log.opened \ log.closed
      /\ \A id \in log.opened \ log.closed : TurnOf(id) = Turn => id = Turn \/ id = Step
      /\ \A a \in log.starts \ Ended(log) : TurnOf(a) = Turn => a = cur
      /\ cur \in log.starts \ Ended(log) /\ <<cur, response>> \in log.messages
  BY <1>1, <1>2 DEF InTurn, InStep, Started, InTry, StepOpenFlag, Asking, Fresh
<1>5. /\ Fits(e) /\ Proper(e) /\ e.type = "attempt/end" /\ e.id = cur /\ e.note = "succeeded"
  <2>1. cur \in Answered(log)
    BY <1>4 DEF Answered
  <2> QED
    BY <1>2, <1>3, <1>4, <2>1 DEF Fits, Proper, Ev, Types, Statuses
<1> HIDE DEF e
<1>6. log' \in Log /\ Grown(log, log', e)
  BY <1>1, <1>2, <1>5, Appended
<1>7. TypeOK'
  BY <1>1, <1>2, <1>6 DEF TypeOK, Points, InTry
<1>8. Sound' /\ EndsAreTrue'
  BY <1>2, <1>5, SoundStill, TrueStill
<1>9. InTurn'
  <2>1. /\ log'.turn = Turn /\ Turn \in log'.opened \ log'.closed
        /\ \A id \in log'.opened \ log'.closed : TurnOf(id) = Turn => id = Turn \/ id = Step
        /\ \A a \in log'.starts \ Ended(log') : TurnOf(a) # Turn
    BY <1>4, <1>5, <1>6 DEF Grown, Fields
  <2> QED
    BY <1>2, <1>3, <1>4, <2>1 DEF InTurn, StepOpenFlag
<1>10. InStep'
  <2>1. /\ log'.step = Step /\ Step \in log'.opened \ log'.closed /\ Step \notin log'.calls
        /\ <<cur, response>> \in log'.messages /\ <<cur, "succeeded">> \in log'.ends
    BY <1>4, <1>5, <1>6 DEF Grown, Fields
  <2> QED
    BY <1>2, <1>3, <1>4, <2>1 DEF InStep, StepOpenFlag, Asking, Counted, Heard, Fresh
<1>11. Locals'
  <2>1. vfails < cur[2] /\ vfails \in Nat /\ cur[2] \in Nat
    BY <1>1, <1>2, Numbers DEF Locals, Fresh
  <2> QED
    BY <1>1, <1>2, <2>1 DEF Locals, Started, Heard, Fresh, InTry
<1>12. Plans' /\ Closed'
  BY <1>2 DEF Plans, Closing, Closed, OwnerLeavesNothingOpen
<1>13. Legal'
  BY <1>2, <1>5, LegalStill DEF Legal, StepOpenFlag
<1> QED
  BY <1>7, <1>8, <1>9, <1>10, <1>11, <1>12, <1>13 DEF Inv

LEMMA AdmitToolsKeeps ==
    ASSUME Inv, AdmitTools
    PROVE  Inv'
<1> DEFINE e == Ev("tool/call", Step, "none")
<1>1. TypeOK /\ Sound /\ InTurn /\ InStep /\ Locals /\ Legal
  BY DEF Inv
<1>2. /\ pc = "tools" /\ pc' = "admitted" /\ Write(e)
      /\ cur' = cur /\ response' = response /\ vfails' = vfails /\ reason' = reason
      /\ outcome' = outcome /\ loose' = loose /\ plan' = plan /\ budget' = budget
  BY DEF AdmitTools
<1>3. /\ cur \in Ids /\ Step \in Ids /\ Turn' = Turn /\ Step' = Step
  BY <1>1, <1>2, Typed, Here DEF Turn, Step
<1>4. /\ cur[1] > 0 /\ cur[2] > 0 /\ cur[3] > 0 /\ log.step = Step
      /\ Step \in log.opened \ log.closed /\ Step \notin log.calls
      /\ log.turn = Turn /\ Turn \in log.opened \ log.closed
      /\ \A id \in log.opened \ log.closed : TurnOf(id) = Turn => id = Turn \/ id = Step
      /\ \A a \in log.starts \ Ended(log) : TurnOf(a) # Turn
      /\ <<cur, response>> \in log.messages /\ <<cur, "succeeded">> \in log.ends
  BY <1>1, <1>2 DEF InTurn, InStep, Started, InTry, StepOpenFlag, Asking, Fresh, Heard
<1>5. /\ Fits(e) /\ Proper(e) /\ e.type = "tool/call" /\ e.id = Step
  <2>1. Step[2] > 0
    BY <1>3, <1>4, Names DEF Step
  <2> QED
    BY <1>3, <1>4, <2>1 DEF Fits, Proper, Ev, Types
<1> HIDE DEF e
<1>6. log' \in Log /\ Grown(log, log', e)
  BY <1>1, <1>2, <1>5, Appended
<1>7. TypeOK'
  BY <1>1, <1>2, <1>6 DEF TypeOK, Points, InTry
<1>8. Sound' /\ EndsAreTrue'
  BY <1>2, <1>5, SoundStill, TrueStill
<1>9. InTurn'
  <2>1. /\ log'.turn = Turn /\ Turn \in log'.opened \ log'.closed
        /\ \A id \in log'.opened \ log'.closed : TurnOf(id) = Turn => id = Turn \/ id = Step
        /\ \A a \in log'.starts \ Ended(log') : TurnOf(a) # Turn
    BY <1>4, <1>5, <1>6 DEF Grown, Fields
  <2> QED
    BY <1>2, <1>3, <1>4, <2>1 DEF InTurn, StepOpenFlag
<1>10. InStep'
  <2>1. /\ log'.step = Step /\ Step \in log'.opened \ log'.closed
        /\ Step \in log'.calls \ log'.results
        /\ <<cur, response>> \in log'.messages /\ <<cur, "succeeded">> \in log'.ends
    BY <1>1, <1>4, <1>5, <1>6 DEF Grown, Fields, Sound
  <2> QED
    BY <1>2, <1>3, <1>4, <2>1 DEF InStep, StepOpenFlag, Asking, Counted, Heard, Fresh
<1>11. Locals'
  <2>1. vfails < cur[2] /\ vfails \in Nat /\ cur[2] \in Nat
    BY <1>1, <1>2, Numbers DEF Locals, Fresh
  <2> QED
    BY <1>1, <1>2, <2>1 DEF Locals, Started, Heard, Fresh, InTry
<1>12. Plans' /\ Closed'
  BY <1>2 DEF Plans, Closing, Closed, OwnerLeavesNothingOpen
<1>13. Legal'
  BY <1>2, <1>5, LegalStill DEF Legal, StepOpenFlag
<1> QED
  BY <1>7, <1>8, <1>9, <1>10, <1>11, <1>12, <1>13 DEF Inv

LEMMA RecordResultsKeeps ==
    ASSUME Inv, RecordResults
    PROVE  Inv'
<1> DEFINE e == Ev("tool/result", Step, "none")
<1>1. TypeOK /\ Sound /\ InTurn /\ InStep /\ Locals /\ Legal
  BY DEF Inv
<1>2. /\ pc = "results" /\ pc' = "recorded" /\ Write(e)
      /\ cur' = cur /\ response' = response /\ vfails' = vfails /\ reason' = reason
      /\ outcome' = outcome /\ loose' = loose /\ plan' = plan /\ budget' = budget
  BY DEF RecordResults
<1>3. /\ cur \in Ids /\ Step \in Ids /\ Turn' = Turn /\ Step' = Step
  BY <1>1, <1>2, Typed, Here DEF Turn, Step
<1>4. /\ cur[1] > 0 /\ cur[2] > 0 /\ cur[3] > 0 /\ log.step = Step
      /\ Step \in log.opened \ log.closed /\ Step \in log.calls \ log.results
      /\ log.turn = Turn /\ Turn \in log.opened \ log.closed
      /\ \A id \in log.opened \ log.closed : TurnOf(id) = Turn => id = Turn \/ id = Step
      /\ \A a \in log.starts \ Ended(log) : TurnOf(a) # Turn
      /\ <<cur, response>> \in log.messages /\ <<cur, "succeeded">> \in log.ends
  BY <1>1, <1>2 DEF InTurn, InStep, Started, InTry, StepOpenFlag, Asking, Heard
<1>5. /\ Fits(e) /\ Proper(e) /\ e.type = "tool/result" /\ e.id = Step
  BY <1>3, <1>4 DEF Fits, Proper, Ev, Types
<1> HIDE DEF e
<1>6. log' \in Log /\ Grown(log, log', e)
  BY <1>1, <1>2, <1>5, Appended
<1>7. TypeOK'
  BY <1>1, <1>2, <1>6 DEF TypeOK, Points, InTry
<1>8. Sound' /\ EndsAreTrue'
  BY <1>2, <1>5, SoundStill, TrueStill
<1>9. InTurn'
  <2>1. /\ log'.turn = Turn /\ Turn \in log'.opened \ log'.closed
        /\ \A id \in log'.opened \ log'.closed : TurnOf(id) = Turn => id = Turn \/ id = Step
        /\ \A a \in log'.starts \ Ended(log') : TurnOf(a) # Turn
    BY <1>4, <1>5, <1>6 DEF Grown, Fields
  <2> QED
    BY <1>2, <1>3, <1>4, <2>1 DEF InTurn, StepOpenFlag
<1>10. InStep'
  <2>1. /\ log'.step = Step /\ Step \in log'.opened \ log'.closed /\ Step \in log'.results
        /\ <<cur, response>> \in log'.messages /\ <<cur, "succeeded">> \in log'.ends
    BY <1>4, <1>5, <1>6 DEF Grown, Fields
  <2> QED
    BY <1>2, <1>3, <1>4, <2>1 DEF InStep, StepOpenFlag, Asking, Counted, Heard, Fresh
<1>11. Locals'
  BY <1>1, <1>2 DEF Locals, Started, Heard, Fresh, InTry
<1>12. Plans' /\ Closed'
  BY <1>2 DEF Plans, Closing, Closed, OwnerLeavesNothingOpen
<1>13. Legal'
  BY <1>2, <1>5, LegalStill DEF Legal, StepOpenFlag
<1> QED
  BY <1>7, <1>8, <1>9, <1>10, <1>11, <1>12, <1>13 DEF Inv

LEMMA VerifyKeeps ==
    ASSUME Inv, NEW verdict \in {"passed", "rejected"}, Verify(verdict)
    PROVE  Inv'
<1> DEFINE e == Ev("verification/result", Step, verdict)
<1>1. TypeOK /\ Sound /\ InTurn /\ InStep /\ Locals /\ Legal
  BY DEF Inv
<1>2. /\ pc = "verify" /\ pc' = "stepEnd" /\ Write(e)
      /\ vfails' = IF verdict = "rejected" THEN vfails + 1 ELSE vfails
      /\ cur' = cur /\ response' = response /\ reason' = reason
      /\ outcome' = outcome /\ loose' = loose /\ plan' = plan /\ budget' = budget
  BY DEF Verify
<1>3. /\ cur \in Ids /\ Step \in Ids /\ Turn' = Turn /\ Step' = Step
  BY <1>1, <1>2, Typed, Here DEF Turn, Step
<1>4. /\ cur[1] > 0 /\ cur[2] > 0 /\ cur[3] > 0 /\ log.step = Step
      /\ Step \in log.opened \ log.closed /\ Step \notin log.calls \ log.results
      /\ log.turn = Turn /\ Turn \in log.opened \ log.closed
      /\ \A id \in log.opened \ log.closed : TurnOf(id) = Turn => id = Turn \/ id = Step
      /\ \A a \in log.starts \ Ended(log) : TurnOf(a) # Turn
      /\ <<cur, response>> \in log.messages /\ <<cur, "succeeded">> \in log.ends
  BY <1>1, <1>2 DEF InTurn, InStep, Started, InTry, StepOpenFlag, Asking, Heard
<1>5. /\ Fits(e) /\ Proper(e) /\ e.type = "verification/result" /\ e.id = Step
      /\ e.note = verdict
  BY <1>3, <1>4 DEF Fits, Proper, Ev, Types
<1> HIDE DEF e
<1>6. log' \in Log /\ Grown(log, log', e)
  BY <1>1, <1>2, <1>5, Appended
<1>7. vfails' \in 0 .. MaxSteps /\ vfails' <= cur[2]
  <2>1. vfails < cur[2] /\ vfails \in Nat /\ cur[2] \in Nat /\ cur[2] <= MaxSteps
        /\ MaxSteps \in Nat
    BY <1>1, <1>2, Numbers DEF Locals, Fresh
  <2> QED
    BY <1>2, <2>1
<1>8. TypeOK'
  BY <1>1, <1>2, <1>6, <1>7 DEF TypeOK, Points, InTry
<1>9. Sound' /\ EndsAreTrue'
  BY <1>2, <1>5, SoundStill, TrueStill
<1>10. InTurn'
  <2>1. /\ log'.turn = Turn /\ Turn \in log'.opened \ log'.closed
        /\ \A id \in log'.opened \ log'.closed : TurnOf(id) = Turn => id = Turn \/ id = Step
        /\ \A a \in log'.starts \ Ended(log') : TurnOf(a) # Turn
    BY <1>4, <1>5, <1>6 DEF Grown, Fields
  <2> QED
    BY <1>2, <1>3, <1>4, <2>1 DEF InTurn, StepOpenFlag
<1>11. InStep'
  <2>1. /\ log'.step = Step /\ Step \in log'.opened \ log'.closed
        /\ Step \notin log'.calls \ log'.results
        /\ <<cur, response>> \in log'.messages /\ <<cur, "succeeded">> \in log'.ends
    BY <1>4, <1>5, <1>6 DEF Grown, Fields
  <2> QED
    BY <1>2, <1>3, <1>4, <2>1 DEF InStep, StepOpenFlag, Asking, Counted, Heard, Fresh
<1>12. Locals'
  <2>1. <<Step, verdict>> \in log'.verdicts
    BY <1>5, <1>6 DEF Grown, Fields
  <2>2. response = "answer" /\ response \in Kinds
    BY <1>1, <1>2 DEF Locals, Heard
  <2> QED
    BY <1>2, <1>3, <1>7, <2>1, <2>2 DEF Locals, Started, Heard, Fresh
<1>13. Plans' /\ Closed'
  BY <1>2 DEF Plans, Closing, Closed, OwnerLeavesNothingOpen
<1>14. Legal'
  BY <1>2, <1>5, LegalStill DEF Legal, StepOpenFlag
<1> QED
  BY <1>8, <1>9, <1>10, <1>11, <1>12, <1>13, <1>14 DEF Inv

LEMMA EndStepKeeps ==
    ASSUME Inv, EndStep
    PROVE  Inv'
<1> DEFINE e == Ev("step/end", Step, "none")
<1>1. TypeOK /\ Sound /\ InTurn /\ InStep /\ Locals /\ Legal
  BY DEF Inv
<1>2. /\ pc = "stepEnd" /\ pc' \in {"step", "decide"} /\ Write(e)
      /\ pc' = "step" <=> response = "summary"
      /\ cur' = cur /\ response' = response /\ vfails' = vfails /\ reason' = reason
      /\ outcome' = outcome /\ loose' = loose /\ plan' = plan /\ budget' = budget
  BY DEF EndStep
<1>3. /\ cur \in Ids /\ Step \in Ids /\ Turn' = Turn /\ Step' = Step
  BY <1>1, <1>2, Typed, Here DEF Turn, Step
<1>4. /\ cur[1] > 0 /\ cur[2] > 0 /\ cur[3] > 0 /\ log.step = Step
      /\ Step \in log.opened \ log.closed /\ Step # None /\ Step # Turn
      /\ Step \notin log.calls \ log.results
      /\ log.turn = Turn /\ Turn \in log.opened \ log.closed
      /\ \A id \in log.opened \ log.closed : TurnOf(id) = Turn => id = Turn \/ id = Step
      /\ \A a \in log.starts \ Ended(log) : TurnOf(a) # Turn
      /\ <<cur, response>> \in log.messages /\ <<cur, "succeeded">> \in log.ends
  BY <1>1, <1>2, <1>3, Here
     DEF InTurn, InStep, Started, InTry, StepOpenFlag, Asking, Heard
<1>5. /\ Fits(e) /\ Proper(e) /\ e.type = "step/end" /\ e.id = Step
  BY <1>3, <1>4 DEF Fits, Proper, Ev, Types
<1> HIDE DEF e
<1>6. log' \in Log /\ Grown(log, log', e)
  BY <1>1, <1>2, <1>5, Appended
<1>7. TypeOK'
  BY <1>1, <1>2, <1>6 DEF TypeOK, Points, InTry
<1>8. Sound' /\ EndsAreTrue'
  BY <1>2, <1>5, SoundStill, TrueStill
<1>9. InTurn'
  <2>1. /\ log'.turn = Turn /\ Turn \in log'.opened \ log'.closed
        /\ \A id \in log'.opened \ log'.closed : TurnOf(id) = Turn => id = Turn
        /\ \A a \in log'.starts \ Ended(log') : TurnOf(a) # Turn
    BY <1>4, <1>5, <1>6 DEF Grown, Fields
  <2> QED
    BY <1>2, <1>3, <1>4, <2>1 DEF InTurn, StepOpenFlag
<1>10. InStep'
  <2>1. /\ <<cur, response>> \in log'.messages /\ <<cur, "succeeded">> \in log'.ends
    BY <1>4, <1>5, <1>6 DEF Grown, Fields
  <2> QED
    BY <1>2, <2>1 DEF InStep, StepOpenFlag, Asking, Counted, Heard, Fresh
<1>11. Locals'
  <2>1. log'.verdicts = log.verdicts
    BY <1>5, <1>6 DEF Grown, Fields
  <2> QED
    BY <1>1, <1>2, <1>3, <2>1 DEF Locals, Started, Heard, Fresh, InTry
<1>12. Plans' /\ Closed'
  BY <1>2 DEF Plans, Closing, Closed, OwnerLeavesNothingOpen
<1>13. Legal'
  <2>1. log'.bad = log.bad /\ log'.attempt = None /\ log'.step = None
    BY <1>1, <1>2, <1>4, <1>5, <1>6, AddBad, Typed DEF Write, Grown, Fields
  <2>2. Known'
    BY <1>1, <1>2, <2>1 DEF Legal, Known, OneTurn
  <2>3. \A a \in log.starts \ Ended(log) : StepOf(a) # Step
    BY <1>1, <1>3, <1>4, Here, Typed
  <2>4. Nested'
    BY <1>1, <1>2, <1>4, <1>5, <1>6, <2>1, <2>3 DEF Legal, Nested, Grown, Fields
  <2> QED
    BY <2>1, <2>2, <2>4 DEF Legal
<1> QED
  BY <1>7, <1>8, <1>9, <1>10, <1>11, <1>12, <1>13 DEF Inv

LEMMA EndTurnKeeps ==
    ASSUME Inv, EndTurn
    PROVE  Inv'
<1> DEFINE e == Ev("turn/end", Turn, reason)
<1>1. TypeOK /\ Sound /\ InTurn /\ InStep /\ Locals /\ Legal
  BY DEF Inv
<1>2. /\ pc = "turnEnd" /\ pc' = "finished" /\ Write(e)
      /\ cur' = cur /\ response' = response /\ vfails' = vfails /\ reason' = reason
      /\ outcome' = outcome /\ loose' = loose /\ plan' = plan /\ budget' = budget
  BY DEF EndTurn
<1>3. /\ cur \in Ids /\ Turn \in Ids /\ Turn' = Turn /\ Step' = Step
  BY <1>1, <1>2, Typed, Here DEF Turn, Step
<1>4. /\ cur[1] > 0 /\ Turn # None
      /\ log.turn = Turn /\ Turn \in log.opened \ log.closed
      /\ \A id \in log.opened \ log.closed : TurnOf(id) = Turn => id = Turn
      /\ \A a \in log.starts \ Ended(log) : TurnOf(a) # Turn
      /\ reason \in Reasons /\ (reason = "completed" => Complete(log, Turn))
  BY <1>1, <1>2, <1>3, Here
     DEF InTurn, Locals, Started, InTry, StepOpenFlag, Asking
<1>5. /\ Fits(e) /\ Proper(e) /\ e.type = "turn/end" /\ e.id = Turn
  BY <1>3, <1>4 DEF Fits, Proper, Ev, Types
<1> HIDE DEF e
<1>6. log' \in Log /\ Grown(log, log', e)
  BY <1>1, <1>2, <1>5, Appended
<1>7. TypeOK'
  BY <1>1, <1>2, <1>6 DEF TypeOK, Points, InTry
<1>8. Sound' /\ EndsAreTrue'
  BY <1>2, <1>5, SoundStill, TrueStill
<1>9. InTurn'
  <2>1. /\ log'.turn = None /\ Turn \notin log'.opened \ log'.closed
        /\ \A id \in log'.opened \ log'.closed : TurnOf(id) # Turn
        /\ \A a \in log'.starts \ Ended(log') : TurnOf(a) # Turn
    BY <1>4, <1>5, <1>6 DEF Grown, Fields
  <2> QED
    BY <1>2, <1>3, <1>4, <2>1 DEF InTurn, StepOpenFlag
<1>10. InStep'
  BY <1>2 DEF InStep, StepOpenFlag, Asking, Counted, Heard, Fresh
<1>11. Locals'
  BY <1>1, <1>2 DEF Locals, Started, Heard, Fresh, InTry
<1>12. Plans' /\ Closed'
  BY <1>2 DEF Plans, Closing, Closed, OwnerLeavesNothingOpen
<1>13. Legal'
  <2>1. /\ log.bad \subseteq log'.bad /\ log'.bad \subseteq log.bad \cup {"turn-closes-after-step"}
        /\ log.step = None => log'.bad = log.bad
        /\ log'.attempt = None /\ log'.step = log.step
    BY <1>1, <1>2, <1>4, <1>5, <1>6, AddBad, Typed DEF Write, Grown, Fields
  <2>2. OneTurn => log.step = None
    BY <1>1, <1>2 DEF Legal, Started, InTry, StepOpenFlag
  <2>3. Known' /\ (OneTurn' => OneTurn)
    BY <1>1, <1>2, <2>1, <2>2 DEF Legal, Known, OneTurn, Overlaps
  <2>4. /\ \A a \in log.starts \ Ended(log) : StepOf(a) # Turn
        /\ \A c \in log.calls : c # Turn
    BY <1>1, <1>3, Here, Typed, Names DEF Sound
  <2>5. Nested'
    BY <1>1, <1>2, <1>5, <1>6, <2>1, <2>2, <2>3, <2>4 DEF Legal, Nested, Grown, Fields
  <2> QED
    BY <2>1, <2>2, <2>3, <2>5 DEF Legal
<1> QED
  BY <1>7, <1>8, <1>9, <1>10, <1>11, <1>12, <1>13 DEF Inv

-----------------------------------------------------------------------------
(* What each owner of closing events decides to append.                    *)
LEMMA OnlyIf ==
    ASSUME NEW e \in Event, NEW test \in BOOLEAN, NEW s, s = IF test THEN <<e>> ELSE <<>>
    PROVE  s \in Seq(Event) /\ Ordered(s) /\ \A x : x \in ToSet(s) <=> test /\ x = e
<1>1. CASE test
  <2>1. s = <<e>> /\ Len(s) = 1 /\ DOMAIN s = 1 .. 1 /\ s[1] = e
    BY <1>1
  <2>2. \A i, j \in DOMAIN s : ~(i < j)
    BY <2>1
  <2>3. s \in Seq(Event)
    BY <1>1
  <2> QED
    BY <1>1, <2>1, <2>2, <2>3 DEF ToSet, Ordered
<1>2. CASE ~test
  <2>1. s = <<>> /\ DOMAIN s = {} /\ s \in Seq(Event)
    BY <1>2
  <2> QED
    BY <1>2, <2>1 DEF ToSet, Ordered
<1> QED
  BY <1>1, <1>2

LEMMA EvIs ==
    ASSUME NEW type \in Types, NEW id \in Ids,
           NEW note \in Kinds \cup Statuses \cup Reasons \cup {"passed", "rejected", "none"}
    PROVE  LET e == Ev(type, id, note) IN
           /\ e \in Event /\ e.type = type /\ e.id = id /\ e.note = note /\ ~e.recovered
<1> QED
  BY DEF Ev, Event

LEMMA RanksOf ==
    ASSUME NEW e
    PROVE  /\ e.type = "turn/end" => Rank(e) = 3
           /\ e.type = "step/end" => Rank(e) = 2
           /\ e.type \in {"attempt/end", "tool/result"} => Rank(e) = 1
<1> QED
  BY DEF Rank

LEMMA FailPlanIs ==
    ASSUME TypeOK
    PROVE  /\ FailPlan \in Seq(Event) /\ Ordered(FailPlan)
           /\ \A x : x \in ToSet(FailPlan) <=>
                 \/ /\ cur \in log.starts \ Ended(log)
                    /\ x = Ev("attempt/end", cur, "unknown_after_failure")
                 \/ pc \in StepOpenFlag /\ x = Ev("step/end", Step, "failed")
                 \/ x = Ev("turn/end", Turn, "failed")
<1> DEFINE a == Ev("attempt/end", cur, "unknown_after_failure")
           s == Ev("step/end", Step, "failed")
           t == Ev("turn/end", Turn, "failed")
           A == AttemptClose(log, "unknown_after_failure")
           B == CloseIf(pc \in StepOpenFlag, "step/end", Step, "failed")
           C == <<t>>
<1>1. cur \in Ids /\ Turn \in Ids /\ Step \in Ids
  BY Typed, Here
<1>2. /\ a \in Event /\ a.type = "attempt/end" /\ s \in Event /\ s.type = "step/end"
      /\ t \in Event /\ t.type = "turn/end"
  BY <1>1, EvIs DEF Types, Statuses, Reasons
<1> HIDE DEF a, s, t
<1>3. /\ A \in Seq(Event) /\ Ordered(A)
      /\ \A x : x \in ToSet(A) <=> cur \in log.starts \ Ended(log) /\ x = a
  <2>1. A = IF cur \in log.starts \ Ended(log) THEN <<a>> ELSE <<>>
    BY DEF AttemptClose, a
  <2> HIDE DEF A
  <2> QED
    BY <1>2, <2>1, OnlyIf
<1>4. /\ B \in Seq(Event) /\ Ordered(B)
      /\ \A x : x \in ToSet(B) <=> pc \in StepOpenFlag /\ x = s
  <2>1. B = IF pc \in StepOpenFlag THEN <<s>> ELSE <<>>
    BY DEF CloseIf, s
  <2> HIDE DEF B
  <2> QED
    BY <1>2, <2>1, OnlyIf
<1>5. C \in Seq(Event) /\ Ordered(C) /\ \A x : x \in ToSet(C) <=> x = t
  <2>1. C = IF TRUE THEN <<t>> ELSE <<>>
    OBVIOUS
  <2> HIDE DEF C
  <2>2. /\ C \in Seq(Event) /\ Ordered(C)
        /\ \A x : x \in ToSet(C) <=> TRUE /\ x = t
    BY <1>2, <2>1, OnlyIf
  <2> QED
    BY <2>2
<1> HIDE DEF A, B, C
<1>6. Rank(a) = 1 /\ Rank(s) = 2 /\ Rank(t) = 3
  BY <1>2, RanksOf
<1>7. A \o B \in Seq(Event) /\ Ordered(A \o B) /\ ToSet(A \o B) = ToSet(A) \cup ToSet(B)
  BY <1>2, <1>3, <1>4, <1>6, Joined
<1>8. /\ (A \o B) \o C \in Seq(Event) /\ Ordered((A \o B) \o C)
      /\ ToSet((A \o B) \o C) = ToSet(A \o B) \cup ToSet(C)
  <2> DEFINE D == A \o B
  <2>1. \A x \in ToSet(D) : x = a \/ x = s
    BY <1>3, <1>4, <1>7
  <2>2. D \in Seq(Event) /\ Ordered(D)
    BY <1>7
  <2> HIDE DEF D
  <2>3. \A e \in ToSet(D), f \in ToSet(C) :
           Rank(e) <= Rank(f) /\ (e.type # f.type \/ e.id # f.id)
    BY <1>2, <1>5, <1>6, <2>1
  <2>4. D \o C \in Seq(Event) /\ Ordered(D \o C) /\ ToSet(D \o C) = ToSet(D) \cup ToSet(C)
    BY <1>5, <2>2, <2>3, Joined
  <2> QED
    BY <2>4 DEF D
<1>9. FailPlan = (A \o B) \o C
  BY DEF FailPlan, A, B, C, t
<1> QED
  BY <1>3, <1>4, <1>5, <1>7, <1>8, <1>9 DEF a, s, t

LEMMA CancelPlanIs ==
    ASSUME TypeOK
    PROVE  /\ CancelPlan \in Seq(Event) /\ Ordered(CancelPlan)
           /\ \A x : x \in ToSet(CancelPlan) <=>
                 \/ pc \in {"results", "recorded"} /\ x = Ev("tool/result", Step, "none")
                 \/ /\ cur \in log.starts \ Ended(log)
                    /\ x = Ev("attempt/end", cur, "cancelled")
                 \/ /\ cur[2] > 0 /\ Step \in log.opened \ log.closed
                    /\ x = Ev("step/end", Step, "cancelled")
                 \/ /\ Turn \in log.opened \ log.closed
                    /\ x = Ev("turn/end", Turn, "cancelled")
<1> DEFINE r == Ev("tool/result", Step, "none")
           a == Ev("attempt/end", cur, "cancelled")
           s == Ev("step/end", Step, "cancelled")
           t == Ev("turn/end", Turn, "cancelled")
           R == CloseIf(pc \in {"results", "recorded"}, "tool/result", Step, "none")
           A == AttemptClose(log, "cancelled")
           B == CloseIf(cur[2] > 0 /\ Step \in log.opened \ log.closed,
                        "step/end", Step, "cancelled")
           C == CloseIf(Turn \in log.opened \ log.closed, "turn/end", Turn, "cancelled")
<1>1. cur \in Ids /\ Turn \in Ids /\ Step \in Ids
  BY Typed, Here
<1>2. /\ r \in Event /\ r.type = "tool/result" /\ a \in Event /\ a.type = "attempt/end"
      /\ s \in Event /\ s.type = "step/end" /\ t \in Event /\ t.type = "turn/end"
  BY <1>1, EvIs DEF Types, Statuses, Reasons
<1> HIDE DEF r, a, s, t
<1>3. /\ R \in Seq(Event) /\ Ordered(R)
      /\ \A x : x \in ToSet(R) <=> pc \in {"results", "recorded"} /\ x = r
  <2>1. R = IF pc \in {"results", "recorded"} THEN <<r>> ELSE <<>>
    BY DEF CloseIf, r
  <2> HIDE DEF R
  <2> QED
    BY <1>2, <2>1, OnlyIf
<1>4. /\ A \in Seq(Event) /\ Ordered(A)
      /\ \A x : x \in ToSet(A) <=> cur \in log.starts \ Ended(log) /\ x = a
  <2>1. A = IF cur \in log.starts \ Ended(log) THEN <<a>> ELSE <<>>
    BY DEF AttemptClose, a
  <2> HIDE DEF A
  <2> QED
    BY <1>2, <2>1, OnlyIf
<1>5. /\ B \in Seq(Event) /\ Ordered(B)
      /\ \A x : x \in ToSet(B) <=> (cur[2] > 0 /\ Step \in log.opened \ log.closed) /\ x = s
  <2>1. B = IF cur[2] > 0 /\ Step \in log.opened \ log.closed THEN <<s>> ELSE <<>>
    BY DEF CloseIf, s
  <2> HIDE DEF B
  <2> QED
    BY <1>2, <2>1, OnlyIf
<1>6. /\ C \in Seq(Event) /\ Ordered(C)
      /\ \A x : x \in ToSet(C) <=> Turn \in log.opened \ log.closed /\ x = t
  <2>1. C = IF Turn \in log.opened \ log.closed THEN <<t>> ELSE <<>>
    BY DEF CloseIf, t
  <2> HIDE DEF C
  <2> QED
    BY <1>2, <2>1, OnlyIf
<1> HIDE DEF R, A, B, C
<1>7. Rank(r) = 1 /\ Rank(a) = 1 /\ Rank(s) = 2 /\ Rank(t) = 3
  BY <1>2, RanksOf
<1>8. R \o A \in Seq(Event) /\ Ordered(R \o A) /\ ToSet(R \o A) = ToSet(R) \cup ToSet(A)
  BY <1>2, <1>3, <1>4, <1>7, Joined
<1>9. /\ (R \o A) \o B \in Seq(Event) /\ Ordered((R \o A) \o B)
      /\ ToSet((R \o A) \o B) = ToSet(R \o A) \cup ToSet(B)
  <2> DEFINE D == R \o A
  <2>1. \A x \in ToSet(D) : x = r \/ x = a
    BY <1>3, <1>4, <1>8
  <2>2. D \in Seq(Event) /\ Ordered(D)
    BY <1>8
  <2> HIDE DEF D
  <2>3. \A e \in ToSet(D), f \in ToSet(B) :
           Rank(e) <= Rank(f) /\ (e.type # f.type \/ e.id # f.id)
    BY <1>2, <1>5, <1>7, <2>1
  <2>4. D \o B \in Seq(Event) /\ Ordered(D \o B) /\ ToSet(D \o B) = ToSet(D) \cup ToSet(B)
    BY <1>5, <2>2, <2>3, Joined
  <2> QED
    BY <2>4 DEF D
<1>10. /\ ((R \o A) \o B) \o C \in Seq(Event) /\ Ordered(((R \o A) \o B) \o C)
       /\ ToSet(((R \o A) \o B) \o C) = ToSet((R \o A) \o B) \cup ToSet(C)
  <2> DEFINE D == (R \o A) \o B
  <2>1. \A x \in ToSet(D) : x \in {r, a, s}
    BY <1>3, <1>4, <1>5, <1>8, <1>9
  <2>2. D \in Seq(Event) /\ Ordered(D)
    BY <1>9
  <2> HIDE DEF D
  <2>3. \A e \in ToSet(D), f \in ToSet(C) :
           Rank(e) <= Rank(f) /\ (e.type # f.type \/ e.id # f.id)
    BY <1>2, <1>6, <1>7, <2>1
  <2>4. D \o C \in Seq(Event) /\ Ordered(D \o C) /\ ToSet(D \o C) = ToSet(D) \cup ToSet(C)
    BY <1>6, <2>2, <2>3, Joined
  <2> QED
    BY <2>4 DEF D
<1>11. CancelPlan = ((R \o A) \o B) \o C
  BY DEF CancelPlan, R, A, B, C
<1> QED
  BY <1>3, <1>4, <1>5, <1>6, <1>8, <1>9, <1>10, <1>11 DEF r, a, s, t

(* Events of one type for different names, in any order.                   *)
LEMMA OnePerName ==
    ASSUME NEW S \in SUBSET Event, NEW type,
           \A x \in S : x.type = type, \A x, y \in S : x.id = y.id => x = y
    PROVE  SetToSeq(S) \in Seq(Event) /\ Ordered(SetToSeq(S)) /\ ToSet(SetToSeq(S)) = S
<1> DEFINE s == SetToSeq(S)
<1>1. IsFiniteSet(S)
  <2> DEFINE f == [x \in S |-> x.id]
  <2>1. \A x \in S : x.id \in Ids
    BY DEF Event
  <2>2. f \in Injection(S, Ids)
    BY <2>1 DEF Injection, IsInjective
  <2> QED
    BY <2>2, IdsFinite, FS_Injection
<1>2. \A x, y \in S : x.type = type /\ (x # y => x.id # y.id)
  OBVIOUS
<1>3. /\ s \in Seq(S) /\ ToSet(s) = S /\ \A i, j \in DOMAIN s : i < j => s[i] # s[j]
      /\ \A i \in DOMAIN s : s[i] \in S
  <2>1. /\ s \in Seq(S) /\ ToSet(s) = S /\ \A i, j \in DOMAIN s : i < j => s[i] # s[j]
    BY <1>1, Listed
  <2> QED
    BY <2>1 DEF ToSet
<1> HIDE DEF s
<1>4. \A x, y \in S : Rank(x) <= Rank(y)
  BY DEF Rank
<1>5. Ordered(s)
  BY <1>2, <1>3, <1>4 DEF Ordered
<1>6. s \in Seq(Event)
  BY <1>3
<1> QED
  BY <1>3, <1>5, <1>6 DEF s

LEMMA RecoveryPlanIs ==
    ASSUME TypeOK
    PROVE  /\ RecoveryPlan(log) \in Seq(Event) /\ Ordered(RecoveryPlan(log))
           /\ \A x : x \in ToSet(RecoveryPlan(log)) <=>
                 \/ \E a \in log.starts \ Ended(log) : x = RecoveredEnd(log, a)
                 \/ \E c \in log.calls \ log.results : x = Ev("tool/result", c, "none")
                 \/ log.step # None /\ x = Ev("step/end", log.step, "interrupted")
                 \/ log.turn # None /\ x = Ev("turn/end", log.turn, "interrupted")
<1> DEFINE s == Ev("step/end", log.step, "interrupted")
           t == Ev("turn/end", log.turn, "interrupted")
           A == SetToSeq({RecoveredEnd(log, a) : a \in log.starts \ Ended(log)})
           R == SetToSeq({Ev("tool/result", c, "none") : c \in log.calls \ log.results})
           B == CloseIf(log.step # None, "step/end", log.step, "interrupted")
           C == CloseIf(log.turn # None, "turn/end", log.turn, "interrupted")
<1>1. log.turn \in Ids /\ log.step \in Ids /\ log.starts \subseteq Ids /\ log.calls \subseteq Ids
  BY Typed
<1>2. s \in Event /\ s.type = "step/end" /\ t \in Event /\ t.type = "turn/end"
  BY <1>1, EvIs DEF Types, Reasons
<1> HIDE DEF s, t
<1>3. \A a \in Ids : /\ RecoveredEnd(log, a) \in Event
                     /\ RecoveredEnd(log, a).type = "attempt/end" /\ RecoveredEnd(log, a).id = a
  <2> HIDE DEF Ids
  <2> QED
    BY DEF RecoveredEnd, Event, Types, Statuses
<1>4. \A c \in Ids : /\ Ev("tool/result", c, "none") \in Event
                     /\ Ev("tool/result", c, "none").type = "tool/result"
                     /\ Ev("tool/result", c, "none").id = c
  BY EvIs DEF Types
<1>5. /\ A \in Seq(Event) /\ Ordered(A)
      /\ \A x : x \in ToSet(A) <=> \E a \in log.starts \ Ended(log) : x = RecoveredEnd(log, a)
  <2> DEFINE S == {RecoveredEnd(log, a) : a \in log.starts \ Ended(log)}
  <2>1. /\ S \in SUBSET Event /\ \A x \in S : x.type = "attempt/end"
        /\ \A x, y \in S : x.id = y.id => x = y
    BY <1>1, <1>3
  <2> HIDE DEF S
  <2>2. SetToSeq(S) \in Seq(Event) /\ Ordered(SetToSeq(S)) /\ ToSet(SetToSeq(S)) = S
    BY <2>1, OnePerName
  <2> QED
    BY <2>2 DEF S
<1>6. /\ R \in Seq(Event) /\ Ordered(R)
      /\ \A x : x \in ToSet(R) <=>
            \E c \in log.calls \ log.results : x = Ev("tool/result", c, "none")
  <2> DEFINE S == {Ev("tool/result", c, "none") : c \in log.calls \ log.results}
  <2>1. /\ S \in SUBSET Event /\ \A x \in S : x.type = "tool/result"
        /\ \A x, y \in S : x.id = y.id => x = y
    BY <1>1, <1>4
  <2> HIDE DEF S
  <2>2. SetToSeq(S) \in Seq(Event) /\ Ordered(SetToSeq(S)) /\ ToSet(SetToSeq(S)) = S
    BY <2>1, OnePerName
  <2> QED
    BY <2>2 DEF S
<1>7. /\ B \in Seq(Event) /\ Ordered(B)
      /\ \A x : x \in ToSet(B) <=> log.step # None /\ x = s
  <2>1. B = IF log.step # None THEN <<s>> ELSE <<>>
    BY DEF CloseIf, s
  <2> HIDE DEF B
  <2> QED
    BY <1>2, <2>1, OnlyIf
<1>8. /\ C \in Seq(Event) /\ Ordered(C)
      /\ \A x : x \in ToSet(C) <=> log.turn # None /\ x = t
  <2>1. C = IF log.turn # None THEN <<t>> ELSE <<>>
    BY DEF CloseIf, t
  <2> HIDE DEF C
  <2> QED
    BY <1>2, <2>1, OnlyIf
<1> HIDE DEF R, A, B, C
<1>9. /\ \A x \in ToSet(A) : x.type = "attempt/end" /\ Rank(x) = 1
      /\ \A x \in ToSet(R) : x.type = "tool/result" /\ Rank(x) = 1
      /\ Rank(s) = 2 /\ Rank(t) = 3
  BY <1>1, <1>2, <1>3, <1>4, <1>5, <1>6, RanksOf
<1>10. A \o R \in Seq(Event) /\ Ordered(A \o R) /\ ToSet(A \o R) = ToSet(A) \cup ToSet(R)
  <2>1. \A e \in ToSet(A), f \in ToSet(R) :
           Rank(e) <= Rank(f) /\ (e.type # f.type \/ e.id # f.id)
    BY <1>9
  <2> QED
    BY <1>5, <1>6, <2>1, Joined
<1>11. /\ (A \o R) \o B \in Seq(Event) /\ Ordered((A \o R) \o B)
       /\ ToSet((A \o R) \o B) = ToSet(A \o R) \cup ToSet(B)
  <2> DEFINE D == A \o R
  <2>1. \A x \in ToSet(D) : x.type \in {"attempt/end", "tool/result"} /\ Rank(x) = 1
    BY <1>9, <1>10
  <2>2. D \in Seq(Event) /\ Ordered(D)
    BY <1>10
  <2> HIDE DEF D
  <2>3. \A e \in ToSet(D), f \in ToSet(B) :
           Rank(e) <= Rank(f) /\ (e.type # f.type \/ e.id # f.id)
    BY <1>2, <1>7, <1>9, <2>1
  <2>4. D \o B \in Seq(Event) /\ Ordered(D \o B) /\ ToSet(D \o B) = ToSet(D) \cup ToSet(B)
    BY <1>7, <2>2, <2>3, Joined
  <2> QED
    BY <2>4 DEF D
<1>12. /\ ((A \o R) \o B) \o C \in Seq(Event) /\ Ordered(((A \o R) \o B) \o C)
       /\ ToSet(((A \o R) \o B) \o C) = ToSet((A \o R) \o B) \cup ToSet(C)
  <2> DEFINE D == (A \o R) \o B
  <2>1. \A x \in ToSet(D) : x.type # "turn/end" /\ Rank(x) \in {1, 2}
    BY <1>2, <1>7, <1>9, <1>10, <1>11
  <2>2. D \in Seq(Event) /\ Ordered(D)
    BY <1>11
  <2> HIDE DEF D
  <2>3. \A e \in ToSet(D), f \in ToSet(C) :
           Rank(e) <= Rank(f) /\ (e.type # f.type \/ e.id # f.id)
    BY <1>2, <1>8, <1>9, <2>1
  <2>4. D \o C \in Seq(Event) /\ Ordered(D \o C) /\ ToSet(D \o C) = ToSet(D) \cup ToSet(C)
    BY <1>8, <2>2, <2>3, Joined
  <2> QED
    BY <2>4 DEF D
<1>13. RecoveryPlan(log) = ((A \o R) \o B) \o C
  BY DEF RecoveryPlan, A, R, B, C
<1> QED
  BY <1>5, <1>6, <1>7, <1>8, <1>10, <1>11, <1>12, <1>13 DEF s, t

(* Nothing is planned for a stream that owes nothing.                      *)
LEMMA NothingToRepair ==
    ASSUME TypeOK, ~Unfinished(log)
    PROVE  RecoveryPlan(log) = <<>>
<1>1. RecoveryPlan(log) \in Seq(Event) /\ \A x : x \notin ToSet(RecoveryPlan(log))
  BY RecoveryPlanIs DEF Unfinished
<1> DEFINE p == RecoveryPlan(log)
<1> HIDE DEF p
<1>2. p \in Seq(Event) /\ \A x : x \notin ToSet(p)
  BY <1>1 DEF p
<1>3. p = <<>>
  <2> SUFFICES ASSUME p # <<>> PROVE FALSE
    OBVIOUS
  <2>1. 1 \in DOMAIN p
    BY <1>2, EmptySeq
  <2> QED
    BY <1>2, <2>1 DEF ToSet
<1> QED
  BY <1>3 DEF p

-----------------------------------------------------------------------------
(* Whoever is to close the turn starts from a plan that fits the stream.   *)
LEMMA SameDue ==
    ASSUME log' = log, loose \subseteq loose'
    PROVE  \A e : Due(e) => Due(e)'
<1> QED
  BY DEF Due, Ended, Answered

LEMMA FailKeeps ==
    ASSUME Inv, pc \in Writing \cup {"retry"}, Fail, TypeOK'
    PROVE  Inv'
<1> DEFINE a == Ev("attempt/end", cur, "unknown_after_failure")
           s == Ev("step/end", Step, "failed")
           t == Ev("turn/end", Turn, "failed")
<1>1. TypeOK /\ Sound /\ InTurn /\ InStep /\ Legal
  BY DEF Inv
<1>2. /\ pc' = "failing" /\ plan' = FailPlan /\ log' = log /\ cur' = cur
      /\ loose \subseteq loose'
      /\ pc \in {"admitted", "results"} => "unanswered" \in loose'
  BY DEF Fail, Without
<1>3. /\ cur \in Ids /\ Turn \in Ids /\ Step \in Ids /\ Turn' = Turn /\ Step' = Step
      /\ TurnOf(cur) = Turn /\ StepOf(cur) = Step /\ TurnOf(Turn) = Turn /\ TurnOf(Step) = Turn
  BY <1>1, <1>2, Typed, Here DEF Turn, Step
<1>4. /\ log.turn = Turn /\ Turn # None /\ Step # None
      /\ \A id \in log.opened \ log.closed :
            TurnOf(id) = Turn => id = Turn \/ (id = Step /\ pc \in StepOpenFlag)
      /\ \A b \in log.starts \ Ended(log) : TurnOf(b) = Turn => b = cur /\ pc \in StepOpenFlag
      /\ pc \in StepOpenFlag => log.step = Step
      /\ OneTurn /\ log.step # None => pc \in StepOpenFlag
  BY <1>1, <1>3, Here
     DEF InTurn, InStep, Legal, Writing, Started, InTry, StepOpenFlag, Asking
<1>a. pc \in StepOpenFlag /\ Step \in log.calls \ log.results => pc \in {"admitted", "results"}
  BY <1>1 DEF InStep, Sound, StepOpenFlag, Fresh
<1>5. /\ a.type = "attempt/end" /\ a.id = cur /\ a.note = "unknown_after_failure"
      /\ s.type = "step/end" /\ s.id = Step
      /\ t.type = "turn/end" /\ t.id = Turn /\ t.note = "failed"
  BY DEF Ev
<1>6. /\ Ordered(plan')
      /\ \A x : x \in ToSet(plan') <=>
            \/ cur \in log.starts \ Ended(log) /\ x = a
            \/ pc \in StepOpenFlag /\ x = s
            \/ x = t
  BY <1>1, <1>2, FailPlanIs
<1> HIDE DEF a, s, t
<1>7. \A e \in ToSet(plan') : Due(e)' /\ TurnOf(e.id) = Turn'
  <2>1. cur \in log.starts \ Ended(log) => Due(a) /\ TurnOf(a.id) = Turn
    BY <1>3, <1>4, <1>5 DEF Due, Statuses
  <2>2. pc \in StepOpenFlag => Due(s) /\ TurnOf(s.id) = Turn
    BY <1>3, <1>4, <1>5 DEF Due
  <2>3. Due(t) /\ TurnOf(t.id) = Turn
    BY <1>3, <1>4, <1>5 DEF Due, Reasons
  <2> QED
    BY <1>2, <1>3, <1>6, <2>1, <2>2, <2>3, SameDue
<1>8. /\ Planned("turn/end", Turn)'
      /\ cur \in log.starts \ Ended(log) => Planned("attempt/end", cur)'
      /\ pc \in StepOpenFlag => Planned("step/end", Step)'
  BY <1>2, <1>3, <1>5, <1>6 DEF Planned
<1>b. \A c \in log.calls \ log.results : "unanswered" \notin loose' => ~Planned("step/end", c)'
  BY <1>2, <1>5, <1>6, <1>a DEF Planned
<1>9. Plans'
  BY <1>2, <1>3, <1>4, <1>6, <1>7, <1>8, <1>b DEF Plans, Ended, OneTurn
<1> QED
  BY <1>2, <1>9, Closes DEF Closing

LEMMA CancelledKeeps ==
    ASSUME Inv, pc \in InTry, pc' = "cancelling", plan' = CancelPlan, log' = log, cur' = cur,
           loose \subseteq loose', pc = "admitted" => "unanswered" \in loose',
           pc = "recorded" => "twice" \in loose', TypeOK'
    PROVE  Inv'
<1> DEFINE r == Ev("tool/result", Step, "none")
           a == Ev("attempt/end", cur, "cancelled")
           s == Ev("step/end", Step, "cancelled")
           t == Ev("turn/end", Turn, "cancelled")
<1>1. TypeOK /\ Sound /\ InTurn /\ InStep /\ Legal
  BY DEF Inv
<1>2. /\ cur \in Ids /\ Turn \in Ids /\ Step \in Ids /\ Turn' = Turn /\ Step' = Step
      /\ TurnOf(cur) = Turn /\ StepOf(cur) = Step /\ TurnOf(Turn) = Turn /\ TurnOf(Step) = Turn
  BY <1>1, Typed, Here DEF Turn, Step
<1>3. /\ Turn # None /\ Step # None /\ (cur[2] > 0 => Step # Turn)
      /\ log.turn # None => log.turn = Turn /\ Turn \in log.opened \ log.closed
      /\ Turn \in log.opened \ log.closed => log.turn = Turn
      /\ \A id \in log.opened \ log.closed :
            TurnOf(id) = Turn => id = Turn \/ (id = Step /\ pc \in StepOpenFlag)
      /\ \A b \in log.starts \ Ended(log) :
            TurnOf(b) = Turn => b = cur /\ pc \in StepOpenFlag /\ log.turn = Turn
      /\ pc \in StepOpenFlag => log.step = Step /\ cur[2] > 0 /\ Step \in log.opened \ log.closed
      /\ OneTurn /\ log.step # None => pc \in StepOpenFlag
  BY <1>1, <1>2, Here
     DEF InTurn, InStep, Legal, Started, InTry, StepOpenFlag, Asking
<1>a. /\ pc = "results" => Step \in log.calls \ log.results
      /\ pc = "recorded" => Step \in log.calls
      /\ pc \in StepOpenFlag /\ Step \in log.calls \ log.results => pc \in {"admitted", "results"}
  BY <1>1 DEF InStep, Sound, StepOpenFlag, Fresh
<1>4. /\ r.type = "tool/result" /\ r.id = Step
      /\ a.type = "attempt/end" /\ a.id = cur /\ a.note = "cancelled"
      /\ s.type = "step/end" /\ s.id = Step
      /\ t.type = "turn/end" /\ t.id = Turn /\ t.note = "cancelled"
  BY DEF Ev
<1>5. /\ Ordered(plan')
      /\ \A x : x \in ToSet(plan') <=>
            \/ pc \in {"results", "recorded"} /\ x = r
            \/ cur \in log.starts \ Ended(log) /\ x = a
            \/ (cur[2] > 0 /\ Step \in log.opened \ log.closed) /\ x = s
            \/ Turn \in log.opened \ log.closed /\ x = t
  BY <1>1, CancelPlanIs
<1> HIDE DEF r, a, s, t
<1>6. \A e \in ToSet(plan') : Due(e)' /\ TurnOf(e.id) = Turn'
  <2>1. pc \in {"results", "recorded"} => \A e : e = r => Due(e)' /\ TurnOf(e.id) = Turn
    BY <1>2, <1>4, <1>a DEF Due
  <2>2. cur \in log.starts \ Ended(log) => Due(a) /\ TurnOf(a.id) = Turn
    BY <1>2, <1>3, <1>4 DEF Due, Statuses
  <2>3. cur[2] > 0 /\ Step \in log.opened \ log.closed => Due(s) /\ TurnOf(s.id) = Turn
    BY <1>2, <1>3, <1>4 DEF Due
  <2>4. Turn \in log.opened \ log.closed => Due(t) /\ TurnOf(t.id) = Turn
    BY <1>2, <1>3, <1>4 DEF Due, Reasons
  <2> QED
    BY <1>2, <1>5, <2>1, <2>2, <2>3, <2>4, SameDue
<1>7. /\ Turn \in log.opened \ log.closed => Planned("turn/end", Turn)'
      /\ cur \in log.starts \ Ended(log) => Planned("attempt/end", cur)'
      /\ pc \in StepOpenFlag => Planned("step/end", Step)'
      /\ pc = "results" => Planned("tool/result", Step)'
  BY <1>2, <1>3, <1>4, <1>5 DEF Planned
<1>b. \A c \in log.calls \ log.results :
         "unanswered" \notin loose' /\ Planned("step/end", c)' => Planned("tool/result", c)'
  <2> SUFFICES ASSUME NEW c \in log.calls \ log.results, "unanswered" \notin loose',
                      Planned("step/end", c)'
               PROVE  Planned("tool/result", c)'
    OBVIOUS
  <2>1. c = Step /\ cur[2] > 0 /\ Step \in log.opened \ log.closed
    BY <1>4, <1>5 DEF Planned
  <2>2. Step # Turn /\ pc \in StepOpenFlag
    BY <1>2, <1>3, <2>1
  <2>3. pc = "results"
    BY <1>a, <2>1, <2>2
  <2> QED
    BY <1>2, <1>7, <2>1, <2>3 DEF Planned
<1>8. Plans'
  BY <1>2, <1>3, <1>5, <1>6, <1>7, <1>b DEF Plans, Ended, OneTurn
<1> QED
  BY <1>8, Closes DEF Closing

LEMMA BeginRecoveryKeeps ==
    ASSUME Inv, BeginRecovery
    PROVE  Inv'
<1>1. TypeOK /\ Sound
  BY DEF Inv
<1>2. /\ pc' = "recovering" /\ plan' = RecoveryPlan(log) /\ log' = log /\ cur' = cur
      /\ loose' = loose
  BY DEF BeginRecovery
<1>3. /\ plan' \in Seq(Event) /\ Ordered(plan')
      /\ \A x : x \in ToSet(plan') <=>
            \/ \E a \in log.starts \ Ended(log) : x = RecoveredEnd(log, a)
            \/ \E c \in log.calls \ log.results : x = Ev("tool/result", c, "none")
            \/ log.step # None /\ x = Ev("step/end", log.step, "interrupted")
            \/ log.turn # None /\ x = Ev("turn/end", log.turn, "interrupted")
  BY <1>1, <1>2, RecoveryPlanIs
<1>4. TypeOK'
  <2> HIDE DEF Event, Ids
  <2> QED
    BY <1>1, <1>3 DEF BeginRecovery, TypeOK, Points, Closing, Outcomes
<1>5. /\ \A id : /\ Ev("tool/result", id, "none").type = "tool/result"
                 /\ Ev("tool/result", id, "none").id = id
                 /\ Ev("step/end", id, "interrupted").type = "step/end"
                 /\ Ev("step/end", id, "interrupted").id = id
                 /\ Ev("turn/end", id, "interrupted").type = "turn/end"
                 /\ Ev("turn/end", id, "interrupted").id = id
                 /\ Ev("turn/end", id, "interrupted").note = "interrupted"
                 /\ RecoveredEnd(log, id).type = "attempt/end" /\ RecoveredEnd(log, id).id = id
                 /\ RecoveredEnd(log, id).recovered
                 /\ RecoveredEnd(log, id).note =
                       IF id \in Answered(log) THEN "succeeded" ELSE "unknown_after_crash"
  BY DEF Ev, RecoveredEnd
<1>6. \A e \in ToSet(plan') : Due(e)'
  <2>1. \A a \in log.starts \ Ended(log) : Due(RecoveredEnd(log, a))
    BY <1>5 DEF Due, Statuses
  <2>2. \A c \in log.calls \ log.results : Due(Ev("tool/result", c, "none"))
    BY <1>5 DEF Due
  <2>3. log.step # None => Due(Ev("step/end", log.step, "interrupted"))
    BY <1>5 DEF Due
  <2>4. log.turn # None => Due(Ev("turn/end", log.turn, "interrupted"))
    BY <1>5 DEF Due, Reasons
  <2> QED
    BY <1>2, <1>3, <2>1, <2>2, <2>3, <2>4, SameDue
<1>7. /\ \A a \in log.starts \ Ended(log) : Planned("attempt/end", a)'
      /\ \A c \in log.calls \ log.results : Planned("tool/result", c)'
      /\ log.step # None => Planned("step/end", log.step)'
      /\ log.turn # None => Planned("turn/end", log.turn)'
  <2>1. \A a \in log.starts \ Ended(log) : Planned("attempt/end", a)'
    BY <1>2, <1>3, <1>5 DEF Planned
  <2>2. \A c \in log.calls \ log.results : Planned("tool/result", c)'
    BY <1>2, <1>3, <1>5 DEF Planned
  <2>3. log.step # None => Planned("step/end", log.step)'
    BY <1>2, <1>3, <1>5 DEF Planned
  <2>4. log.turn # None => Planned("turn/end", log.turn)'
    BY <1>2, <1>3, <1>5 DEF Planned
  <2> QED
    BY <1>2, <2>1, <2>2, <2>3, <2>4
<1>8. Plans'
  BY <1>2, <1>3, <1>6, <1>7 DEF Plans, Ended
<1> QED
  BY <1>2, <1>4, <1>8, Closes DEF Closing

-----------------------------------------------------------------------------
(* Taking the next event off the plan leaves a plan that fits.             *)
LEMMA CloseNextKeeps ==
    ASSUME Inv, CloseNext
    PROVE  Inv'
<1> DEFINE e == Head(plan)
<1>1. TypeOK /\ Sound /\ Plans /\ Legal
  BY DEF Inv
<1>2. /\ pc \in Closing /\ plan # <<>> /\ Write(e) /\ plan' = Tail(plan)
      /\ pc' = pc /\ cur' = cur /\ response' = response /\ vfails' = vfails
      /\ reason' = reason /\ outcome' = outcome /\ loose' = loose /\ budget' = budget
  BY DEF CloseNext
<1>3. plan \in Seq(Event) /\ Ordered(plan)
  BY <1>1, <1>2 DEF TypeOK, Plans
<1>4. /\ e \in Event /\ plan' \in Seq(Event) /\ ToSet(plan) = {e} \cup ToSet(plan')
      /\ Ordered(plan')
      /\ \A f \in ToSet(plan') : Rank(e) <= Rank(f) /\ (e.type # f.type \/ e.id # f.id)
  BY <1>2, <1>3, TakeHead
<1> HIDE DEF e
<1>5. \A f \in ToSet(plan) : Due(f) /\ (pc # "recovering" => TurnOf(f.id) = Turn)
  BY <1>1, <1>2 DEF Plans
<1>6. Due(e) /\ e.type \in Types /\ e.id \in Ids /\ Turn' = Turn
  <2> HIDE DEF Ids
  <2> QED
    BY <1>2, <1>4, <1>5 DEF Event, Turn
<1>7. /\ Fits(e) /\ Proper(e)
      /\ e.type \in {"attempt/end", "tool/result", "step/end", "turn/end"}
  BY <1>6 DEF Fits, Proper, Due
<1>8. log' \in Log /\ Grown(log, log', e)
  BY <1>1, <1>2, <1>7, Appended
<1>9. TypeOK'
  BY <1>1, <1>2, <1>4, <1>8 DEF TypeOK
<1>10. Sound' /\ EndsAreTrue'
  BY <1>2, <1>7, SoundStill, TrueStill
<1>11. InTurn' /\ InStep' /\ Locals' /\ Closed'
  BY <1>2 DEF InTurn, InStep, Locals, Started, Asking, Counted, Heard, Fresh, InTry,
              StepOpenFlag, Closing, Closed, OwnerLeavesNothingOpen
<1>12. \A f \in ToSet(plan') :
          /\ e.type \in {"step/end", "turn/end"} => f.type \in {"step/end", "turn/end"}
          /\ e.type = "turn/end" => f.type = "turn/end"
  <2>1. ASSUME NEW f \in ToSet(plan')
        PROVE  /\ e.type \in {"step/end", "turn/end"} => f.type \in {"step/end", "turn/end"}
               /\ e.type = "turn/end" => f.type = "turn/end"
    <3>1. Rank(e) <= Rank(f) /\ Due(f)
      BY <1>4, <1>5
    <3> QED
      BY <3>1, RanksOf DEF Due
  <2> QED
    BY <2>1
<1>13. \A f \in ToSet(plan') : Due(f)' /\ (pc' # "recovering" => TurnOf(f.id) = Turn')
  <2> SUFFICES ASSUME NEW f \in ToSet(plan') PROVE Due(f)'
    BY <1>2, <1>4, <1>5, <1>6
  <2>1. /\ Due(f) /\ (e.type # f.type \/ e.id # f.id)
        /\ e.type \in {"step/end", "turn/end"} => f.type \in {"step/end", "turn/end"}
        /\ e.type = "turn/end" => f.type = "turn/end"
    BY <1>4, <1>5, <1>12
  <2>2. CASE f.type = "attempt/end"
    <3>1. /\ log'.turn = log.turn /\ log'.step = log.step /\ log'.starts = log.starts
          /\ Answered(log') = Answered(log) /\ f.id \notin Ended(log')
      BY <1>7, <1>8, <2>1, <2>2 DEF Due, Grown, Fields
    <3> QED
      BY <2>1, <2>2, <3>1 DEF Due
  <2>3. CASE f.type = "tool/result"
    <3>1. log'.calls = log.calls /\ (f.id \in log'.results => f.id \in log.results)
      BY <1>7, <1>8, <2>1, <2>3 DEF Due, Grown, Fields
    <3> QED
      BY <1>2, <2>1, <2>3, <3>1 DEF Due
  <2>4. CASE f.type = "step/end"
    <3>1. e.type # "step/end"
      BY <1>6, <2>1, <2>4 DEF Due
    <3>2. log'.step = log.step
      BY <1>7, <1>8, <2>1, <2>4, <3>1 DEF Grown, Fields
    <3> QED
      BY <2>1, <2>4, <3>2 DEF Due
  <2>5. CASE f.type = "turn/end"
    <3>1. e.type # "turn/end"
      BY <1>6, <2>1, <2>5 DEF Due
    <3>2. log'.turn = log.turn
      BY <1>7, <1>8, <3>1 DEF Grown, Fields
    <3> QED
      BY <2>1, <2>5, <3>2 DEF Due
  <2> QED
    BY <2>1, <2>2, <2>3, <2>4, <2>5 DEF Due
<1> DEFINE Left(type, id) == \E f \in ToSet(plan') : f.type = type /\ f.id = id
<1>14. \A type, id : /\ Planned(type, id) => Left(type, id) \/ (e.type = type /\ e.id = id)
  <2> SUFFICES ASSUME NEW type, NEW id, NEW f \in ToSet(plan), f.type = type, f.id = id
               PROVE  Left(type, id) \/ (e.type = type /\ e.id = id)
    BY DEF Planned
  <2> QED
    BY <1>4 DEF Planned
<1> HIDE DEF Left
<1>a. log.bad \subseteq log'.bad
  BY <1>1, <1>2, <1>7, AddBad, Typed DEF Write
<1>15. Plans'
  <2>1. log'.turn # None => Left("turn/end", log'.turn)
    <3>1. log'.turn # None => e.type # "turn/end" /\ log'.turn = log.turn
      BY <1>7, <1>8 DEF Grown, Fields
    <3> QED
      BY <1>1, <1>2, <1>14, <3>1 DEF Plans
  <2>2. ASSUME NEW a \in log'.starts \ Ended(log'), pc = "recovering" \/ TurnOf(a) = Turn
        PROVE  Left("attempt/end", a)
    <3>1. a \in log.starts \ Ended(log) /\ ~(e.type = "attempt/end" /\ e.id = a)
      BY <1>7, <1>8, <2>2 DEF Grown, Fields
    <3> QED
      BY <1>1, <1>2, <1>14, <2>2, <3>1 DEF Plans
  <2>3. ASSUME pc # "recovering", NEW id \in log'.opened \ log'.closed, TurnOf(id) = Turn
        PROVE  Left("turn/end", id) \/ Left("step/end", id)
    <3>1. id \in log.opened \ log.closed /\ ~(e.type \in {"step/end", "turn/end"} /\ e.id = id)
      BY <1>7, <1>8, <2>3 DEF Grown, Fields
    <3> QED
      BY <1>1, <1>2, <1>14, <2>3, <3>1 DEF Plans
  <2>4. ASSUME pc = "recovering" \/ OneTurn', log'.step # None
        PROVE  Left("step/end", log'.step)
    <3>1. e.type # "step/end" /\ log'.step = log.step
      BY <1>7, <1>8, <2>4 DEF Grown, Fields
    <3>2. pc = "recovering" \/ OneTurn
      BY <1>a, <2>4 DEF OneTurn
    <3> QED
      BY <1>1, <1>2, <1>14, <2>4, <3>1, <3>2 DEF Plans
  <2>5. ASSUME NEW c \in log'.calls \ log'.results,
               pc = "recovering" \/ ("unanswered" \notin loose /\ Left("step/end", c))
        PROVE  Left("tool/result", c)
    <3>1. c \in log.calls \ log.results /\ ~(e.type = "tool/result" /\ e.id = c)
      BY <1>7, <1>8 DEF Grown, Fields
    <3>2. Left("step/end", c) => Planned("step/end", c)
      BY <1>4 DEF Left, Planned
    <3>3. Planned("tool/result", c)
      BY <1>1, <1>2, <2>5, <3>1, <3>2 DEF Plans
    <3> QED
      BY <1>14, <3>1, <3>3
  <2> QED
    BY <1>2, <1>4, <1>6, <1>13, <2>1, <2>2, <2>3, <2>4, <2>5 DEF Plans, Planned, Left
<1>16. Legal'
  <2>1. CASE e.type \notin {"step/end", "turn/end"}
    <3>1. Known' /\ Nested'
      BY <1>2, <1>7, <2>1, LegalStill
    <3> QED
      BY <1>2, <3>1 DEF Legal, Closing, Started, InTry
  <2>2. CASE e.type \in {"step/end", "turn/end"}
    <3>1. /\ log'.bad \subseteq log.bad \cup {"turn-closes-after-step"}
          /\ e.type = "step/end" \/ log.step = None => log'.bad = log.bad
          /\ log'.attempt = None
      BY <1>1, <1>2, <1>7, <1>8, <2>2, AddBad, Typed DEF Proper, Write, Grown, Fields
    <3>2. \A f \in ToSet(plan) : f.type \notin {"attempt/end", "tool/result"}
      BY <1>4, <1>12, <2>2
    <3>3. OneTurn /\ e.type = "turn/end" => log.step = None
      <4> SUFFICES ASSUME OneTurn, e.type = "turn/end", log.step # None PROVE FALSE
        OBVIOUS
      <4>1. PICK f \in ToSet(plan) : f.type = "step/end"
        BY <1>1, <1>2 DEF Plans, Planned
      <4> QED
        BY <1>4, <1>12, <4>1
    <3>4. Known'
      <4>1. OneTurn' => OneTurn /\ log'.bad = log.bad
        BY <1>a, <2>2, <3>1, <3>3 DEF OneTurn
      <4> QED
        BY <1>1, <1>2, <3>1, <4>1 DEF Legal, Known, OneTurn, Overlaps
    <3>5. \A a \in log.starts \ Ended(log) : StepOf(a) # e.id
      <4> SUFFICES ASSUME NEW a \in log.starts \ Ended(log), StepOf(a) = e.id PROVE FALSE
        OBVIOUS
      <4>1. a \in Ids
        BY <1>1, Typed
      <4>2. TurnOf(a) = TurnOf(e.id)
        BY <4>1, Names
      <4>3. pc = "recovering" \/ TurnOf(a) = Turn
        BY <1>4, <1>5, <4>2
      <4>4. Planned("attempt/end", a)
        BY <1>1, <1>2, <4>3 DEF Plans
      <4> QED
        BY <3>2, <4>4 DEF Planned
    <3>6. "unanswered" \notin loose => \A c \in log.calls \ log.results : c # e.id
      <4> SUFFICES ASSUME "unanswered" \notin loose, e.id \in log.calls \ log.results PROVE FALSE
        OBVIOUS
      <4>1. CASE e.type = "step/end"
        <5>1. Planned("step/end", e.id)
          BY <1>4, <4>1 DEF Planned
        <5>2. Planned("tool/result", e.id)
          BY <1>1, <1>2, <5>1 DEF Plans
        <5> QED
          BY <3>2, <5>2 DEF Planned
      <4>2. CASE e.type = "turn/end"
        <5>1. e.id[2] > 0 /\ e.id[2] = 0
          BY <1>1, <1>6, <4>2 DEF Sound, Due
        <5> QED
          BY <5>1
      <4> QED
        BY <2>2, <4>1, <4>2
    <3>7. /\ \A a \in log'.starts \ Ended(log') : StepOf(a) \notin log'.closed
          /\ "unanswered" \notin loose => \A c \in log'.calls \ log'.results : c \notin log'.closed
      BY <1>1, <1>8, <2>2, <3>5, <3>6 DEF Legal, Nested, Grown, Fields
    <3>8. OneTurn' /\ log'.turn = None => log'.step = None
      BY <1>8, <1>a, <2>2, <3>3 DEF OneTurn, Grown, Fields
    <3>9. Nested'
      BY <1>2, <3>1, <3>7, <3>8 DEF Nested
    <3> QED
      BY <1>2, <3>4, <3>9 DEF Legal, Closing, Started, InTry
  <2> QED
    BY <2>1, <2>2
<1> QED
  BY <1>9, <1>10, <1>11, <1>15, <1>16 DEF Inv

(* The finalizer of the batch drops the result it could not append.        *)
LEMMA DropResultKeeps ==
    ASSUME Inv, pc = "cancelling", plan # <<>>, Head(plan).type = "tool/result",
           plan' = Tail(plan), loose' = loose \cup {"unanswered"}, log' = log, cur' = cur,
           pc' = pc, TypeOK'
    PROVE  Inv'
<1> DEFINE e == Head(plan)
<1>1. TypeOK /\ Plans
  BY DEF Inv
<1>2. plan \in Seq(Event) /\ Ordered(plan) /\ Turn' = Turn
  BY <1>1 DEF TypeOK, Plans, Closing, Turn
<1>3. /\ plan' \in Seq(Event) /\ ToSet(plan) = {e} \cup ToSet(plan') /\ Ordered(plan')
  BY <1>2, TakeHead
<1>4. e.type = "tool/result"
  OBVIOUS
<1> HIDE DEF e
<1>5. \A type, id : Planned(type, id) /\ type # "tool/result" => Planned(type, id)'
  BY <1>3, <1>4 DEF Planned
<1>6. \A f \in ToSet(plan') : Due(f)' /\ TurnOf(f.id) = Turn
  BY <1>1, <1>3, SameDue DEF Plans, Closing
<1>7. Plans'
  BY <1>1, <1>2, <1>3, <1>5, <1>6 DEF Plans, Closing, Ended, OneTurn
<1> QED
  BY <1>7, Closes DEF Closing

-----------------------------------------------------------------------------
(* The owner returns, is interrupted or dies.                              *)
LEMMA ExitKeeps ==
    ASSUME Inv, NEW how \in Outcomes \ {"finished", "cancelled", "failed", "recovered"},
           Exit(how), log' = log, cur' = cur, response' = response, vfails' = vfails,
           reason' = reason, budget' \in [cancels : 0 .. MaxCancels, faults : 0 .. MaxFaults,
                                          crashes : 0 .. MaxCrashes]
    PROVE  Inv'
<1>1. TypeOK /\ pc' = "idle" /\ outcome' = how /\ plan' = <<>> /\ loose' = loose
  BY DEF Inv, Exit
<1>2. TypeOK'
  <2>1. <<>> \in Seq(Event)
    OBVIOUS
  <2> HIDE DEF Event, Ids
  <2> QED
    BY <1>1, <2>1 DEF TypeOK, Points
<1>3. Closed'
  BY <1>1 DEF Closed, OwnerLeavesNothingOpen, Outcomes
<1> QED
  BY <1>1, <1>2, <1>3, Leaves

LEMMA LoseOwnershipKeeps ==
    ASSUME Inv, LoseOwnership
    PROVE  Inv'
<1> QED
  BY ExitKeeps DEF LoseOwnership, Outcomes, Inv, TypeOK

LEMMA ReturnResultKeeps ==
    ASSUME Inv, ReturnResult
    PROVE  Inv'
<1>1. TypeOK /\ Sound /\ InTurn
  BY DEF Inv
<1>2. /\ pc = "finished" /\ pc' = "idle" /\ outcome' = "finished" /\ plan' = <<>>
      /\ loose' = loose /\ log' = log /\ cur' = cur /\ response' = response
      /\ vfails' = vfails /\ reason' = reason /\ budget' = budget
  BY DEF ReturnResult, Exit
<1>3. TypeOK'
  <2>1. <<>> \in Seq(Event)
    OBVIOUS
  <2> HIDE DEF Event, Ids
  <2> QED
    BY <1>1, <1>2, <2>1 DEF TypeOK, Points, Outcomes
<1>4. /\ log.turn = None /\ log.attempt = None
      /\ \A id \in log.opened : TurnOf(id) = Turn => id \in log.closed
      /\ \A a \in log.starts : TurnOf(a) = Turn => a \in Ended(log)
  BY <1>1, <1>2 DEF Sound, InTurn, Started, InTry, StepOpenFlag, Asking
<1>5. Closed'
  <2>1. Turn' = Turn /\ Ended(log)' = Ended(log)
    BY <1>2 DEF Turn, Ended
  <2> QED
    BY <1>2, <1>4, <2>1 DEF Closed, OwnerLeavesNothingOpen
<1> QED
  BY <1>2, <1>3, <1>5, Leaves

(* With the plan used up nothing of the turn is open.                      *)
LEMMA CloseDoneKeeps ==
    ASSUME Inv, CloseDone
    PROVE  Inv'
<1>1. TypeOK /\ Sound /\ Plans
  BY DEF Inv
<1>2. /\ pc \in {"cancelling", "failing"} /\ plan = <<>> /\ pc' = "idle"
      /\ outcome' \in {"cancelled", "failed"} /\ plan' = <<>>
      /\ loose' = loose /\ log' = log /\ cur' = cur /\ response' = response
      /\ vfails' = vfails /\ reason' = reason /\ budget' = budget
  BY DEF CloseDone, Exit
<1>3. TypeOK'
  <2> HIDE DEF Event, Ids
  <2> QED
    BY <1>1, <1>2 DEF TypeOK, Points, Outcomes
<1>4. \A type, id : ~Planned(type, id)
  BY <1>2 DEF Planned, ToSet
<1>5. /\ log.turn = None /\ log.attempt = None
      /\ \A id \in log.opened : TurnOf(id) = Turn => id \in log.closed
      /\ \A a \in log.starts : TurnOf(a) = Turn => a \in Ended(log)
  BY <1>1, <1>2, <1>4 DEF Sound, Plans, Closing
<1>6. Closed'
  <2>1. Turn' = Turn /\ Ended(log)' = Ended(log)
    BY <1>2 DEF Turn, Ended
  <2> QED
    BY <1>2, <1>5, <2>1 DEF Closed, OwnerLeavesNothingOpen
<1> QED
  BY <1>2, <1>3, <1>6, Leaves

LEMMA RecoveryDoneKeeps ==
    ASSUME Inv, RecoveryDone
    PROVE  Inv'
<1>1. TypeOK /\ Sound /\ Plans /\ Legal
  BY DEF Inv
<1>2. /\ pc = "recovering" /\ plan = <<>> /\ pc' = "idle" /\ outcome' = "recovered"
      /\ loose' = loose \ {"unanswered"} /\ log' = log /\ cur' = cur /\ response' = response
      /\ vfails' = vfails /\ reason' = reason /\ budget' = budget /\ plan' = plan
  BY DEF RecoveryDone
<1>3. TypeOK'
  <2> HIDE DEF Event, Ids
  <2> QED
    BY <1>1, <1>2 DEF TypeOK, Points, Outcomes
<1>4. Sound' /\ EndsAreTrue'
  BY <1>2, SameStream
<1>5. \A type, id : ~Planned(type, id)
  BY <1>2 DEF Planned, ToSet
<1>6. /\ log.turn = None /\ log.step = None /\ log.starts \ Ended(log) = {}
      /\ log.calls \ log.results = {}
  BY <1>1, <1>2, <1>5 DEF Plans, Closing
<1>7. ~Unfinished(log)
  BY <1>6 DEF Unfinished
<1>8. Closed'
  BY <1>2, <1>7 DEF Closed, OwnerLeavesNothingOpen, Unfinished, Ended
<1>9. Legal'
  <2>1. Known'
    BY <1>1, <1>2 DEF Legal, Known, OneTurn
  <2>2. Nested'
    BY <1>1, <1>2, <1>6 DEF Legal, Nested, OneTurn, Ended
  <2> QED
    BY <1>2, <2>1, <2>2 DEF Legal, Started, InTry
<1>10. InTurn' /\ InStep' /\ Locals' /\ Plans'
  BY <1>2 DEF InTurn, InStep, Locals, Plans, Started, Asking, Counted, Heard, Fresh, InTry,
              StepOpenFlag, Closing
<1> QED
  BY <1>3, <1>4, <1>8, <1>9, <1>10 DEF Inv

LEMMA FailTyped ==
    ASSUME TypeOK, Fail, budget' \in [cancels : 0 .. MaxCancels, faults : 0 .. MaxFaults,
                                      crashes : 0 .. MaxCrashes]
    PROVE  TypeOK'
<1>1. FailPlan \in Seq(Event)
  BY FailPlanIs
<1> HIDE DEF Event, Ids
<1> QED
  BY <1>1 DEF Fail, TypeOK, Points, Closing, Without

LEMMA GiveUpKeeps ==
    ASSUME Inv, GiveUp
    PROVE  Inv'
<1>1. TypeOK'
  BY FailTyped DEF GiveUp, Inv, TypeOK
<1> QED
  BY <1>1, FailKeeps DEF GiveUp

(* One more of what the history counts stays within its bounds.            *)
LEMMA BudgetSpent ==
    ASSUME TypeOK
    PROVE  LET Spent == [cancels : 0 .. MaxCancels, faults : 0 .. MaxFaults,
                         crashes : 0 .. MaxCrashes]
           IN  /\ budget.cancels < MaxCancels =>
                     [budget EXCEPT !.cancels = budget.cancels + 1] \in Spent
               /\ budget.faults < MaxFaults =>
                     [budget EXCEPT !.faults = budget.faults + 1] \in Spent
               /\ budget.crashes < MaxCrashes =>
                     [budget EXCEPT !.crashes = budget.crashes + 1] \in Spent
<1>1. budget \in [cancels : 0 .. MaxCancels, faults : 0 .. MaxFaults, crashes : 0 .. MaxCrashes]
  BY DEF TypeOK
<1>2. MaxCancels \in Nat /\ MaxFaults \in Nat /\ MaxCrashes \in Nat
  BY SessionTurnAssumption
<1>3. budget.cancels < MaxCancels => budget.cancels + 1 \in 0 .. MaxCancels
  BY ONLY <1>1, <1>2
<1>4. budget.faults < MaxFaults => budget.faults + 1 \in 0 .. MaxFaults
  BY ONLY <1>1, <1>2
<1>5. budget.crashes < MaxCrashes => budget.crashes + 1 \in 0 .. MaxCrashes
  BY ONLY <1>1, <1>2
<1> QED
  BY ONLY <1>1, <1>3, <1>4, <1>5

LEMMA CancelKeeps ==
    ASSUME Inv, Cancel
    PROVE  Inv'
<1>1. TypeOK
  BY DEF Inv
<1>2. /\ log' = log /\ cur' = cur /\ response' = response /\ vfails' = vfails
      /\ reason' = reason
  BY DEF Cancel
<1>3. budget' \in [cancels : 0 .. MaxCancels, faults : 0 .. MaxFaults, crashes : 0 .. MaxCrashes]
  BY <1>1, BudgetSpent DEF Cancel
<1>4. CASE pc = "hook" /\ Exit("early")
  BY <1>2, <1>3, <1>4, ExitKeeps DEF Outcomes
<1>5. CASE pc = "failing" /\ Exit("group")
  BY <1>2, <1>3, <1>5, ExitKeeps DEF Outcomes
<1>6. CASE /\ pc \in InTry /\ pc' = "cancelling" /\ plan' = CancelPlan
           /\ outcome' = outcome
           /\ loose' = loose \cup Without(pc = "admitted")
                             \cup (IF pc = "recorded" THEN {"twice"} ELSE {})
  <2>1. CancelPlan \in Seq(Event)
    BY <1>1, CancelPlanIs
  <2>a. /\ loose \subseteq loose' /\ loose' \subseteq loose \cup {"unanswered", "twice"}
        /\ pc = "admitted" => "unanswered" \in loose'
        /\ pc = "recorded" => "twice" \in loose'
    BY <1>6 DEF Without
  <2>2. TypeOK'
    <3> HIDE DEF Event, Ids
    <3> QED
      BY <1>1, <1>2, <1>3, <1>6, <2>1, <2>a DEF TypeOK, Points, Closing
  <2> QED
    BY <1>2, <1>6, <2>2, <2>a, CancelledKeeps
<1> QED
  BY <1>4, <1>5, <1>6 DEF Cancel

LEMMA FaultKeeps ==
    ASSUME Inv, Fault
    PROVE  Inv'
<1>1. TypeOK
  BY DEF Inv
<1>2. budget' \in [cancels : 0 .. MaxCancels, faults : 0 .. MaxFaults, crashes : 0 .. MaxCrashes]
  BY <1>1, BudgetSpent DEF Fault
<1>3. CASE pc \in Writing /\ Fail
  BY <1>1, <1>2, <1>3, FailTyped, FailKeeps
<1>4. CASE /\ pc = "cancelling" /\ plan # <<>> /\ Head(plan).type = "tool/result"
           /\ plan' = Tail(plan) /\ loose' = loose \cup {"unanswered"}
           /\ UNCHANGED <<log, pc, cur, response, vfails, reason, outcome>>
  <2>1. Tail(plan) \in Seq(Event)
    BY <1>1, <1>4, HeadTailProperties DEF TypeOK
  <2>2. TypeOK'
    <3> HIDE DEF Event, Ids
    <3> QED
      BY <1>1, <1>2, <1>4, <2>1 DEF TypeOK
  <2> QED
    BY <1>4, <2>2, DropResultKeeps
<1>5. CASE UNCHANGED <<log, cur, response, vfails, reason>> /\ Exit("group")
  BY <1>2, <1>5, ExitKeeps DEF Outcomes
<1>6. CASE UNCHANGED <<log, cur, response, vfails, reason>> /\ Exit("unrecovered")
  BY <1>2, <1>6, ExitKeeps DEF Outcomes
<1> QED
  BY <1>3, <1>4, <1>5, <1>6 DEF Fault

LEMMA CrashKeeps ==
    ASSUME Inv, Crash
    PROVE  Inv'
<1>1. TypeOK
  BY DEF Inv
<1>2. /\ pc' = "down" /\ plan' = <<>> /\ outcome' = "crashed" /\ log' = log /\ cur' = cur
      /\ response' = response /\ vfails' = vfails /\ reason' = reason /\ loose' = loose
  BY DEF Crash
<1>3. budget' \in [cancels : 0 .. MaxCancels, faults : 0 .. MaxFaults, crashes : 0 .. MaxCrashes]
  BY <1>1, BudgetSpent DEF Crash
<1>4. TypeOK'
  <2>1. <<>> \in Seq(Event)
    OBVIOUS
  <2> HIDE DEF Event, Ids
  <2> QED
    BY <1>1, <1>2, <1>3, <2>1 DEF TypeOK, Points, Outcomes
<1>5. Closed'
  BY <1>2 DEF Closed, OwnerLeavesNothingOpen
<1> QED
  BY <1>2, <1>4, <1>5, Leaves

-----------------------------------------------------------------------------
(* The invariant holds when the session is created, ...                    *)
LEMMA InitInv == Init => Inv
<1> SUFFICES ASSUME Init PROVE Inv
  OBVIOUS
<1> USE SessionTurnAssumption, NoneIs
<1>1. /\ log = EmptyLog /\ pc = "idle" /\ cur = None /\ response = "none" /\ vfails = 0
      /\ reason = "none" /\ plan = <<>> /\ outcome = "none" /\ loose = {}
      /\ budget = [cancels |-> 0, faults |-> 0, crashes |-> 0]
  BY DEF Init
<1>2. log \in Log
  BY <1>1 DEF EmptyLog, Log
<1>3. TypeOK
  <2>1. <<>> \in Seq(Event)
    OBVIOUS
  <2>2. vfails \in 0 .. MaxSteps
    BY <1>1
  <2>3. budget \in [cancels : 0 .. MaxCancels, faults : 0 .. MaxFaults, crashes : 0 .. MaxCrashes]
    BY <1>1
  <2> HIDE DEF Event, Ids, Log
  <2> QED
    BY ONLY NoneIs, <1>1, <1>2, <2>1, <2>2, <2>3 DEF TypeOK, Points, Outcomes
<1>4. Ended(log) = {} /\ Answered(log) = {}
  BY <1>1 DEF EmptyLog, Ended, Answered
<1>5. Sound /\ EndsAreTrue
  BY <1>1, <1>4 DEF EmptyLog, Sound, EndsAreTrue
<1>6. InTurn /\ InStep /\ Locals /\ Plans /\ Closed
  BY <1>1 DEF InTurn, InStep, Locals, Plans, Started, Asking, Counted, Heard, Fresh, InTry,
              StepOpenFlag, Closing, Closed, OwnerLeavesNothingOpen
<1>7. Legal
  BY <1>1, <1>4 DEF EmptyLog, Legal, Known, Nested, OneTurn, Started, InTry
<1> QED
  BY <1>3, <1>5, <1>6, <1>7 DEF Inv

(* ... and every step keeps it.                                            *)
LEMMA NextInv == Inv /\ [Next]_vars => Inv'
<1> SUFFICES ASSUME Inv, [Next]_vars PROVE Inv'
  OBVIOUS
<1>1. CASE TurnStep
  <2>1. CASE EnterTry \/ StartStep \/ StartAttempt \/ LoseOwnership
    BY <2>1, EnterTryKeeps, StartStepKeeps, StartAttemptKeeps, LoseOwnershipKeeps
  <2>2. CASE \E kind \in Kinds : ProviderAnswers(kind)
    BY <2>2, ProviderAnswersKeeps
  <2>3. CASE ProviderFails \/ RecordFailure \/ Retry \/ GiveUp
    BY <2>3, ProviderFailsKeeps, RecordFailureKeeps, RetryKeeps, GiveUpKeeps
  <2>4. CASE RecordMessage \/ RecordSuccess \/ AdmitTools \/ RunTools \/ RecordResults
             \/ KeepResults
    BY <2>4, RecordMessageKeeps, RecordSuccessKeeps, AdmitToolsKeeps, RunToolsKeeps,
       RecordResultsKeeps, KeepResultsKeeps
  <2>5. CASE \E verdict \in {"passed", "rejected"} : Verify(verdict)
    BY <2>5, VerifyKeeps
  <2>6. CASE EndStep \/ Decide \/ EndTurn \/ ReturnResult
    BY <2>6, EndStepKeeps, DecideKeeps, EndTurnKeeps, ReturnResultKeeps
  <2>7. CASE CloseNext \/ CloseDone \/ RecoveryDone
    BY <2>7, CloseNextKeeps, CloseDoneKeeps, RecoveryDoneKeeps
  <2> QED
    BY <1>1, <2>1, <2>2, <2>3, <2>4, <2>5, <2>6, <2>7 DEF TurnStep
<1>2. CASE OpenTurn \/ BeginRecovery \/ Cancel \/ Fault \/ Crash
  BY <1>2, OpenTurnKeeps, BeginRecoveryKeeps, CancelKeeps, FaultKeeps, CrashKeeps
<1>3. CASE UNCHANGED vars
  <2>1. /\ log' = log /\ pc' = pc /\ cur' = cur /\ response' = response /\ vfails' = vfails
        /\ reason' = reason /\ plan' = plan /\ outcome' = outcome /\ loose' = loose
        /\ budget' = budget
    BY <1>3 DEF vars
  <2>2. TypeOK' /\ Sound' /\ EndsAreTrue'
    BY <2>1, SameStream DEF Inv, TypeOK
  <2>3. Turn' = Turn /\ Step' = Step
    BY <2>1, SameStream
  <2>4. InTurn' /\ InStep'
    BY <2>1, <2>3 DEF Inv, InTurn, InStep, Ended, Answered, StartsIn
  <2>5. Locals'
    <3>1. Complete(log, Turn)' = Complete(log, Turn)
      BY <2>1, SameStream
    <3> QED
      BY <2>1, <2>3, <3>1 DEF Inv, Locals
  <2>6. Closed'
    BY <2>1, <2>3 DEF Inv, Closed, OwnerLeavesNothingOpen, Unfinished, Ended
  <2>7. Plans'
    BY <2>1, <2>3, SameDue DEF Inv, Plans, Planned, Ended, OneTurn
  <2>8. Legal'
    BY <2>1, <2>3 DEF Inv, Legal, Known, Nested, OneTurn, Ended
  <2> QED
    BY <2>2, <2>4, <2>5, <2>6, <2>7, <2>8 DEF Inv
<1> QED
  BY <1>1, <1>2, <1>3 DEF Next

(* The invariant above, of every history of the session: the finalizer of  *)
(* a cancelled batch that answers a call twice, and calls that stay behind *)
(* without an answer, included.                                            *)
THEOREM InvHolds == Spec => []Inv
<1> QED
  BY InitInv, NextInv, PTL DEF Spec

(* The state of the session keeps its shape: numbers of turns, steps,      *)
(* attempts and rejected answers within their limits, plans of events.     *)
THEOREM TypeHolds == Spec => []TypeOK
<1>1. Inv => TypeOK
  BY DEF Inv
<1> QED
  BY <1>1, InvHolds, PTL

(* When run_turn() returns with an end of its own, nothing of the turn is  *)
(* left open.                                                              *)
THEOREM OwnerHolds == Spec => []OwnerLeavesNothingOpen
<1>1. Inv => OwnerLeavesNothingOpen
  BY DEF Inv, Closed
<1> QED
  BY <1>1, InvHolds, PTL

(* Whatever is appended, in whatever order owners, cancellations, faults   *)
(* and crashes put it, each rule of CoreInvariantChecker it breaks has its *)
(* cause: a turn opened over an open one, calls left without a result, or  *)
(* a result a cancellation had answered twice.  With none of them broken   *)
(* the owner of an open step gets its permit.                              *)
THEOREM HistoryHolds == Spec => []HistoryStaysLegal
<1>1. Inv => HistoryStaysLegal
  <2> SUFFICES ASSUME Inv
               PROVE  /\ Violations(log) \subseteq Explained
                      /\ pc = "attempt" /\ Violations(log) = {} => MayStart(log, cur)
    BY DEF HistoryStaysLegal
  <2>1. TypeOK /\ InTurn /\ InStep /\ Known /\ Nested
    BY DEF Inv, Legal
  <2>2. Violations(log) \subseteq Explained
    <3>1. /\ ~(\E a \in log.starts \ Ended(log) : StepOf(a) \in log.closed)
          /\ (\E c \in log.calls \ log.results : c \in log.closed) => "unanswered" \in loose
      BY <2>1 DEF Nested
    <3>2. log.bad \subseteq Explained
      BY <2>1 DEF Known, OneTurn, Explained, Overlaps
    <3> QED
      BY <3>1, <3>2 DEF Violations, Broken, Explained
  <2>3. ASSUME pc = "attempt", Violations(log) = {} PROVE MayStart(log, cur)
    <3>1. /\ cur \in Ids /\ Turn = TurnOf(cur) /\ Step = StepOf(cur)
          /\ cur[3] \in Nat /\ cur[3] - 1 \in Nat /\ (cur[3] - 1) + 1 = cur[3]
      <4>1. cur[3] \in Nat /\ cur[3] > 0 /\ cur \in Ids
        BY <2>1, <2>3, Numbers, Typed DEF InStep, StepOpenFlag
      <4>2. cur[3] - 1 \in Nat /\ (cur[3] - 1) + 1 = cur[3]
        BY <4>1
      <4> QED
        BY <4>1, <4>2 DEF Turn, Step
    <3>2. /\ log.turn = Turn /\ log.step = Step
          /\ \A a \in log.starts \ Ended(log) : TurnOf(a) # Turn
          /\ StartsIn(log, Step) = {<<cur[1], cur[2], k>> : k \in 1 .. cur[3] - 1}
          /\ cur[3] > 1 => log.last = "failed"
      BY <2>1, <2>3 DEF InTurn, InStep, Started, InTry, StepOpenFlag, Asking, Counted
    <3>3. StartsIn(log, Step) \subseteq Ended(log)
      BY <2>1, <3>1, <3>2, Here, Typed DEF StartsIn
    <3>4. Cardinality(StartsIn(log, Step)) = cur[3] - 1
      <4> DEFINE n == cur[3] - 1
      <4>1. n \in Nat
        BY <3>1
      <4> HIDE DEF n
      <4>2. \A x : x \in StartsIn(log, Step) <=> \E k \in 1 .. n : x = <<cur[1], cur[2], k>>
        BY <3>2 DEF n
      <4>3. Cardinality(StartsIn(log, Step)) = n
        BY <4>1, <4>2, CountedTo
      <4> QED
        BY <4>3 DEF n
    <3>5. cur \notin log.starts
      <4> SUFFICES ASSUME cur \in log.starts PROVE FALSE
        OBVIOUS
      <4>1. cur \in StartsIn(log, Step)
        BY <3>1 DEF StartsIn
      <4>2. PICK k \in 1 .. cur[3] - 1 : cur = <<cur[1], cur[2], k>>
        BY <3>2, <4>1
      <4>3. cur[3] = k
        BY <4>2
      <4> QED
        BY <3>1, <4>3
    <3> QED
      BY <2>3, <3>1, <3>2, <3>3, <3>4, <3>5 DEF MayStart
  <2> QED
    BY <2>2, <2>3
<1> QED
  BY <1>1, InvHolds, PTL

(* A recovery that ran to its end leaves nothing for a second one; of the  *)
(* rules only those are still broken that no append can mend: of a turn    *)
(* opened over an open one, and of a call a cancellation had answered      *)
(* twice.                                                                  *)
THEOREM RecoveryHolds == Spec => []RecoveryRepairs
<1>1. Inv => RecoveryRepairs
  <2> SUFFICES ASSUME Inv, pc = "idle", outcome = "recovered"
               PROVE  /\ ~Unfinished(log) /\ RecoveryPlan(log) = <<>>
                      /\ Violations(log) \subseteq Overlaps \cup {"single-tool-result"}
                      /\ "single-tool-result" \in Violations(log) => "twice" \in loose
    BY DEF RecoveryRepairs
  <2>1. TypeOK /\ Known /\ ~Unfinished(log)
    BY DEF Inv, Closed, Legal
  <2>2. RecoveryPlan(log) = <<>>
    BY <2>1, NothingToRepair
  <2>3. Violations(log) = log.bad
    BY <2>1 DEF Unfinished, Violations, Broken
  <2> QED
    BY <2>1, <2>2, <2>3 DEF Known
<1> QED
  BY <1>1, InvHolds, PTL

(* Every recorded end of an attempt or a turn is true.                     *)
THEOREM EndsHold == Spec => []EndsAreTrue
<1>1. Inv => EndsAreTrue
  BY DEF Inv
<1> QED
  BY <1>1, InvHolds, PTL
=============================================================================
