--------------------------- MODULE WorkflowProofs ---------------------------
(***************************************************************************)
(* Proofs about Workflow, for any graph without a cycle, any kinds of      *)
(* nodes, any number of children, callers and troubles.                    *)
(***************************************************************************)
EXTENDS Workflow, WellFoundedInduction, TLAPS

(* A stream the projection reads.  What waits for an approval is running   *)
(* and no Map; children belong to an expansion that is on record, and an   *)
(* expansion is of a Map that goes on to complete; and a run that says it  *)
(* completed did.                                                          *)
Legal(l) ==
    /\ ~l.bad
    /\ ~l.begun => l = Empty
    /\ \A u \in l.awaiting : u \notin Maps /\ l.node[u] = "running"
    /\ \A k \in l.kids : Parent[k] \in l.expanded
    /\ \A n \in l.expanded : l.node[n] \in {"running", "completed"}
    /\ \A n \in Maps : l.node[n] = "completed" => n \in l.expanded
    /\ l.end = "completed" => \A u \in Declared \cup l.kids : l.node[u] = "completed"

(* The work of a node is only begun behind its start.                      *)
Untouched == \A u \in Units : log.node[u] = "pending" => runs[u] = 0

(* What the task knows of the stream at each await.                        *)
Running0 == {u \in Units : log.node[u] = "running"}

Place ==
    /\ pc = "begin" => ~log.begun
    /\ pc \in {"turn", "recheck", "start", "nodes", "record", "failing", "finish"} => log.begun
    /\ pc \in {"recheck", "start", "nodes", "record", "failing", "finish"} => log.end = "none"
    /\ pc \in {"turn", "recheck", "failing", "finish"} => RequireContinuable(log)
    /\ pc = "recheck" => todo \subseteq log.awaiting
    /\ pc = "failing" => \E u \in Units : log.node[u] = "failed"
    /\ pc = "finish" => ReadyNodes(log) = {} /\ log.awaiting = {}

(* The outcomes still to be recorded, and what is known of the others.      *)
Unrecorded(l, left) ==
    /\ left \subseteq batch
    /\ \A u \in left : /\ l.node[u] = "running" /\ u \notin l.awaiting
                       /\ work[u] \in {"ok", "failed", "wait"}
                       /\ u \in l.expanded => work[u] = "ok"
    /\ \A u \in batch \ left : work[u] = "failed" => l.node[u] = "failed"
    /\ \A u \in Units : l.node[u] = "running" =>
          u \in l.awaiting \cup left \/ (u \in batch /\ work[u] = "cut")

(* What it knows of the units of the round.                                *)
Round ==
    /\ pc = "start" =>
          /\ todo \subseteq batch
          /\ \A u \in batch : /\ Supported(u) /\ runs[u] = 0
                              /\ u \notin log.awaiting /\ u \notin log.expanded
                              /\ log.node[u] = IF u \in todo THEN "pending" ELSE "running"
          /\ Running0 \subseteq log.awaiting \cup batch
    /\ pc = "nodes" =>
          /\ todo \subseteq batch /\ \A u \in batch \ todo : ~Running(u)
          /\ \A u \in batch : /\ log.node[u] = "running" /\ work[u] # "none"
                              /\ u \notin log.awaiting /\ u \notin log.expanded
          /\ Running0 \subseteq log.awaiting \cup batch
    /\ pc = "record" => Unrecorded(log, todo)

(* What node tasks are about, and that they end with the round.            *)
Tasks ==
    /\ \A u \in Units : Running(u) => pc = "nodes" /\ u \in batch
    /\ \A u \in agents : work[u] \in {"live", "leave-ok", "leave-failed", "leave-cut"}
    /\ \A u \in Units :
          /\ work[u] \in {"live", "leave-ok", "leave-failed", "leave-cut"} => u \in AgentUnits
          /\ work[u] = "wait" => u \in Declared \ Maps
    /\ \A n \in Maps : /\ \A k \in keys[n] : Parent[k] = n
                       /\ work[n] = "ok" => keys[n] # {}

(* What callers are told.                                                  *)
Told ==
    /\ phase = "closed" => pc \in {"none", "done"}
    /\ pc = "done" /\ answer = "nodes" => log.end = "failed"
    /\ pc = "done" /\ answer = "run" => log.end # "none" \/ log.awaiting # {}

Inv == TypeOK /\ Legal(log) /\ Untouched /\ Place /\ Round /\ Tasks /\ Told

-----------------------------------------------------------------------------
(* The first of a set of numbers is one of them.                           *)
LEMMA MinIsOne ==
    ASSUME NEW T \in SUBSET Nat, T # {}
    PROVE  Min(T) \in T /\ \A y \in T : Min(T) <= y
<1> DEFINE R == {ss \in Nat \X Nat : ss[1] < ss[2]}
<1>1. IsWellFoundedOn(R, Nat)
  BY NatLessThanWellFounded DEF OpToRel
<1>2. \A x, y \in Nat : x < y => <<x, y>> \in R
  OBVIOUS
<1> HIDE DEF R
<1>3. PICK x \in T : \A y \in T : <<y, x>> \notin R
  BY <1>1, WFMin
<1>4. \A y \in T : x <= y
  <2> SUFFICES ASSUME NEW y \in T PROVE x <= y
    OBVIOUS
  <2>1. ~(y < x)
    BY <1>2, <1>3
  <2>2. x \in Nat /\ y \in Nat
    BY <1>3
  <2> QED
    BY <2>1, <2>2
<1> QED
  BY <1>3, <1>4 DEF Min

(* Children are no nodes of the definition, and Maps run no agent.         *)
LEMMA UnitFacts ==
    /\ Units \subseteq Nat /\ Declared \cap Children = {}
    /\ Maps \subseteq Declared /\ Maps \cap AgentUnits = {}
    /\ AgentUnits \subseteq Units /\ Declared \subseteq Units /\ Children \subseteq Units
    /\ \A k \in Children : Parent[k] \in Maps
    /\ \A n \in Declared : Preds[n] \subseteq Declared
BY WorkflowAssumption DEF Units, Maps, AgentUnits

(* The unit whose turn it is is one the phase has to deal with.            *)
LEMMA NextOne ==
    ASSUME TypeOK, todo # {}
    PROVE  Min(todo) \in todo /\ Min(todo) \in Units
<1>1. todo \in SUBSET Nat
  BY UnitFacts DEF TypeOK
<1> QED
  BY <1>1, MinIsOne DEF TypeOK

-----------------------------------------------------------------------------
(* What a fact makes of a stream that expects it.                          *)
LEMMA Begun ==
    ASSUME NEW l \in Log, ~l.begun, l.end = "none", NEW n, n = Add(l, Fact("run-started", 0, {}))
    PROVE  /\ n \in Log /\ n.begun /\ n.node = l.node /\ n.kids = l.kids
           /\ n.expanded = l.expanded /\ n.awaiting = l.awaiting
           /\ n.end = l.end /\ n.bad = l.bad
<1>1. n = [l EXCEPT !.begun = TRUE]
  BY DEF Add, Unexpected, Fact
<1> QED
  BY <1>1 DEF Log

LEMMA Started ==
    ASSUME NEW l \in Log, NEW u \in Units, l.begun, l.end = "none", l.node[u] = "pending",
           u \in Children => u \in l.kids, NEW n, n = Add(l, Fact("started", u, {}))
    PROVE  /\ n \in Log /\ n.begun /\ n.node = [l.node EXCEPT ![u] = "running"]
           /\ n.kids = l.kids /\ n.expanded = l.expanded /\ n.awaiting = l.awaiting
           /\ n.end = l.end /\ n.bad = l.bad
<1>1. n = [l EXCEPT !.node[u] = "running"]
  BY DEF Add, Unexpected, Fact
<1> QED
  BY <1>1 DEF Log

LEMMA Expanded ==
    ASSUME NEW l \in Log, NEW u \in Maps, NEW ks \in SUBSET Children, ks # {},
           l.begun, l.end = "none", l.node[u] = "running", u \notin l.expanded,
           NEW n, n = Add(l, Fact("expanded", u, ks))
    PROVE  /\ n \in Log /\ n.begun /\ n.node = l.node /\ n.kids = l.kids \cup ks
           /\ n.expanded = l.expanded \cup {u} /\ n.awaiting = l.awaiting
           /\ n.end = l.end /\ n.bad = l.bad
<1> DEFINE m == [l EXCEPT !.expanded = @ \cup {u}]
<1>1. n = [m EXCEPT !.kids = l.kids \cup ks]
  BY DEF Add, Unexpected, Fact
<1>2. /\ m \in Log /\ m.begun /\ m.node = l.node /\ m.kids = l.kids
      /\ m.expanded = l.expanded \cup {u} /\ m.awaiting = l.awaiting
      /\ m.end = l.end /\ m.bad = l.bad
  BY DEF Log
<1> HIDE DEF m
<1> QED
  BY <1>1, <1>2 DEF Log

LEMMA Awaited ==
    ASSUME NEW l \in Log, NEW u \in Declared, l.begun, l.end = "none",
           l.node[u] = "running", u \notin l.awaiting,
           NEW n, n = Add(l, Fact("awaited", u, {}))
    PROVE  /\ n \in Log /\ n.begun /\ n.node = l.node /\ n.kids = l.kids
           /\ n.expanded = l.expanded /\ n.awaiting = l.awaiting \cup {u}
           /\ n.end = l.end /\ n.bad = l.bad
<1>1. n = [l EXCEPT !.awaiting = @ \cup {u}]
  BY DEF Add, Unexpected, Fact
<1> QED
  BY <1>1 DEF Log

LEMMA Completed ==
    ASSUME NEW l \in Log, NEW u \in Units, l.begun, l.end = "none", l.node[u] = "running",
           NEW n, n = Add(l, Fact("completed", u, {}))
    PROVE  /\ n \in Log /\ n.begun /\ n.node = [l.node EXCEPT ![u] = "completed"]
           /\ n.kids = l.kids /\ n.expanded = l.expanded
           /\ n.awaiting = l.awaiting \ {u} /\ n.end = l.end /\ n.bad = l.bad
<1> DEFINE m == [l EXCEPT !.node[u] = "completed"]
<1>1. n = [m EXCEPT !.awaiting = l.awaiting \ {u}]
  BY DEF Add, Unexpected, Fact
<1>2. /\ m \in Log /\ m.begun /\ m.node = [l.node EXCEPT ![u] = "completed"]
      /\ m.kids = l.kids /\ m.expanded = l.expanded
      /\ m.awaiting = l.awaiting /\ m.end = l.end /\ m.bad = l.bad
  BY DEF Log
<1> HIDE DEF m
<1> QED
  BY <1>1, <1>2 DEF Log

LEMMA Failed ==
    ASSUME NEW l \in Log, NEW u \in Units, l.begun, l.end = "none", l.node[u] = "running",
           NEW n, n = Add(l, Fact("failed", u, {}))
    PROVE  /\ n \in Log /\ n.begun /\ n.node = [l.node EXCEPT ![u] = "failed"]
           /\ n.kids = l.kids /\ n.expanded = l.expanded
           /\ n.awaiting = l.awaiting \ {u} /\ n.end = l.end /\ n.bad = l.bad
<1> DEFINE m == [l EXCEPT !.node[u] = "failed"]
<1>1. n = [m EXCEPT !.awaiting = l.awaiting \ {u}]
  BY DEF Add, Unexpected, Fact
<1>2. /\ m \in Log /\ m.begun /\ m.node = [l.node EXCEPT ![u] = "failed"]
      /\ m.kids = l.kids /\ m.expanded = l.expanded
      /\ m.awaiting = l.awaiting /\ m.end = l.end /\ m.bad = l.bad
  BY DEF Log
<1> HIDE DEF m
<1> QED
  BY <1>1, <1>2 DEF Log

LEMMA Finished ==
    ASSUME NEW l \in Log, l.begun, l.end = "none", NEW n, n = Add(l, Fact("finished", 0, {}))
    PROVE  /\ n \in Log /\ n.begun /\ n.node = l.node /\ n.kids = l.kids
           /\ n.expanded = l.expanded /\ n.awaiting = l.awaiting
           /\ n.end = Outcome(l) /\ n.bad = l.bad
<1>1. n = [l EXCEPT !.end = Outcome(l)]
  BY DEF Add, Unexpected, Fact
<1>2. Outcome(l) \in {"completed", "failed"}
  BY DEF Outcome
<1> QED
  BY <1>1, <1>2 DEF Log

-----------------------------------------------------------------------------
(* A stream the task may leave behind: it is read, and starts are not      *)
(* taken back.                                                             *)
Fits(n) ==
    /\ n \in Log /\ Legal(n)
    /\ \A u \in Units : n.node[u] = "pending" => log.node[u] = "pending"

(* The first fact of a run.                                                *)
LEMMA BeginFits ==
    ASSUME Inv, pc = "begin", NEW n, n = Add(log, Due)
    PROVE  Fits(n) /\ n.begun /\ RequireContinuable(n)
<1>1. log \in Log /\ ~log.begun /\ log = Empty /\ Legal(log)
  BY DEF Inv, TypeOK, Place, Legal
<1>2. log.end = "none" /\ \A u \in Units : log.node[u] = "pending"
  BY <1>1 DEF Empty
<1>3. Due = Fact("run-started", 0, {})
  BY DEF Due
<1>4. /\ n \in Log /\ n.begun /\ n.node = log.node /\ n.kids = log.kids
      /\ n.expanded = log.expanded /\ n.awaiting = log.awaiting
      /\ n.end = log.end /\ n.bad = log.bad
  BY <1>1, <1>2, <1>3, Begun
<1> QED
  BY <1>1, <1>2, <1>4 DEF Fits, Legal, RequireContinuable

(* A start.                                                                *)
LEMMA StartFits ==
    ASSUME Inv, pc = "start", todo # {}, NEW u, u = Min(todo), NEW n, n = Add(log, Due)
    PROVE  /\ Fits(n) /\ n.begun /\ n.end = "none" /\ u \in todo
           /\ n.node = [log.node EXCEPT ![u] = "running"] /\ n.kids = log.kids
           /\ n.expanded = log.expanded /\ n.awaiting = log.awaiting
<1>1. log \in Log /\ log.begun /\ log.end = "none" /\ Legal(log)
  BY DEF Inv, TypeOK, Place
<1>2. u \in todo /\ u \in Units /\ u \in batch
  BY NextOne DEF Inv, Round
<1>3. /\ log.node[u] = "pending" /\ u \notin log.awaiting /\ u \notin log.expanded
      /\ u \in Children => u \in log.kids
  BY <1>2 DEF Inv, Round, Supported
<1>4. Due = Fact("started", u, {})
  BY DEF Due
<1>5. /\ n \in Log /\ n.begun /\ n.node = [log.node EXCEPT ![u] = "running"]
      /\ n.kids = log.kids /\ n.expanded = log.expanded /\ n.awaiting = log.awaiting
      /\ n.end = log.end /\ n.bad = log.bad
  BY <1>1, <1>2, <1>3, <1>4, Started
<1>6. log.node \in [Units -> {"pending", "running", "completed", "failed"}]
  BY <1>1 DEF Log
<1>7. \A x \in Units : n.node[x] = IF x = u THEN "running" ELSE log.node[x]
  BY <1>2, <1>5, <1>6
<1>8. log.expanded \subseteq Units /\ log.kids \subseteq Units /\ log.awaiting \subseteq Units
  BY <1>1, UnitFacts DEF Log
<1>9. Legal(n)
  BY <1>1, <1>3, <1>5, <1>7, <1>8, UnitFacts DEF Legal
<1> QED
  BY <1>1, <1>2, <1>5, <1>7, <1>9 DEF Fits

(* A barrier that was decided while the run stood still.                   *)
LEMMA RecheckFits ==
    ASSUME Inv, pc = "recheck", todo # {}, NEW u, u = Min(todo), NEW n, n = Add(log, Due)
    PROVE  /\ Fits(n) /\ n.begun /\ n.end = "none" /\ u \in todo /\ RequireContinuable(n)
           /\ n.awaiting = log.awaiting \ {u}
<1>1. log \in Log /\ log.begun /\ log.end = "none" /\ Legal(log) /\ RequireContinuable(log)
  BY DEF Inv, TypeOK, Place
<1>2. u \in todo /\ u \in Units /\ u \in log.awaiting
  BY NextOne DEF Inv, Place
<1>3. log.node[u] = "running" /\ u \notin Maps
  BY <1>1, <1>2 DEF Legal
<1>4. Due = Fact("completed", u, {})
  BY DEF Due
<1>5. /\ n \in Log /\ n.begun /\ n.node = [log.node EXCEPT ![u] = "completed"]
      /\ n.kids = log.kids /\ n.expanded = log.expanded /\ n.awaiting = log.awaiting \ {u}
      /\ n.end = log.end /\ n.bad = log.bad
  BY <1>1, <1>2, <1>3, <1>4, Completed
<1>6. log.node \in [Units -> {"pending", "running", "completed", "failed"}]
  BY <1>1 DEF Log
<1>7. \A x \in Units : n.node[x] = IF x = u THEN "completed" ELSE log.node[x]
  BY <1>2, <1>5, <1>6
<1>8. log.expanded \subseteq Units /\ log.kids \subseteq Units /\ log.awaiting \subseteq Units
  BY <1>1, UnitFacts DEF Log
<1>9. Legal(n)
  BY <1>1, <1>3, <1>5, <1>7, <1>8, UnitFacts DEF Legal
<1>10. RequireContinuable(n)
  BY <1>1, <1>5, <1>7 DEF RequireContinuable
<1> QED
  BY <1>1, <1>2, <1>3, <1>5, <1>7, <1>9, <1>10 DEF Fits

(* The four facts an outcome may be recorded by.                           *)
FailedNow(n, u) ==
    /\ work[u] = "failed" /\ Due.t = "failed" /\ n.node = [log.node EXCEPT ![u] = "failed"]
    /\ n.expanded = log.expanded /\ n.awaiting = log.awaiting \ {u}

AwaitedNow(n, u) ==
    /\ work[u] = "wait" /\ Due.t = "awaited" /\ n.node = log.node
    /\ n.expanded = log.expanded /\ n.awaiting = log.awaiting \cup {u}

ExpandedNow(n, u) ==
    /\ work[u] = "ok" /\ Due.t = "expanded" /\ n.node = log.node
    /\ n.expanded = log.expanded \cup {u} /\ n.awaiting = log.awaiting

CompletedNow(n, u) ==
    /\ work[u] = "ok" /\ Due.t = "completed" /\ n.node = [log.node EXCEPT ![u] = "completed"]
    /\ n.expanded = log.expanded /\ n.awaiting = log.awaiting \ {u}

(* The outcome of a node task.                                             *)
LEMMA RecordFits ==
    ASSUME Inv, pc = "record", todo # {}, NEW u, u = Min(todo), NEW n, n = Add(log, Due)
    PROVE  /\ Fits(n) /\ n.begun /\ n.end = "none" /\ u \in todo
           /\ FailedNow(n, u) \/ AwaitedNow(n, u) \/ ExpandedNow(n, u) \/ CompletedNow(n, u)
<1>1. log \in Log /\ log.begun /\ log.end = "none" /\ Legal(log)
  BY DEF Inv, TypeOK, Place
<1>2. u \in todo /\ u \in Units /\ u \in batch
  BY NextOne DEF Inv, Round, Unrecorded
<1>3. /\ log.node[u] = "running" /\ u \notin log.awaiting
      /\ work[u] \in {"ok", "failed", "wait"} /\ (u \in log.expanded => work[u] = "ok")
  BY <1>2 DEF Inv, Round, Unrecorded
<1>4. Due = FactOf(u)
  BY DEF Due
<1>5. log.node \in [Units -> {"pending", "running", "completed", "failed"}]
  BY <1>1 DEF Log
<1>6. log.expanded \subseteq Units /\ log.kids \subseteq Units /\ log.awaiting \subseteq Units
      /\ log.expanded \subseteq Maps /\ log.kids \subseteq Children
  BY <1>1, UnitFacts DEF Log
<1>7. CASE work[u] = "failed"
  <2>1. Due = Fact("failed", u, {}) /\ Due.t = "failed"
    BY <1>4, <1>7 DEF FactOf, Fact
  <2>2. /\ n \in Log /\ n.begun /\ n.node = [log.node EXCEPT ![u] = "failed"]
        /\ n.kids = log.kids /\ n.expanded = log.expanded
        /\ n.awaiting = log.awaiting \ {u} /\ n.end = log.end /\ n.bad = log.bad
    BY <1>1, <1>2, <1>3, <2>1, Failed
  <2>3. \A x \in Units : n.node[x] = IF x = u THEN "failed" ELSE log.node[x]
    BY <1>2, <1>5, <2>2
  <2>4. u \notin log.expanded
    BY <1>3, <1>7
  <2>5. Legal(n)
    BY <1>1, <1>6, <2>2, <2>3, <2>4, UnitFacts DEF Legal
  <2> QED
    BY <1>1, <1>2, <1>3, <1>7, <2>1, <2>2, <2>3, <2>5 DEF Fits, FailedNow
<1>8. CASE work[u] = "wait"
  <2>1. Due = Fact("awaited", u, {}) /\ Due.t = "awaited"
    BY <1>4, <1>8 DEF FactOf, Fact
  <2>2. u \in Declared /\ u \notin Maps
    BY <1>2, <1>8 DEF Inv, Tasks
  <2>3. /\ n \in Log /\ n.begun /\ n.node = log.node
        /\ n.kids = log.kids /\ n.expanded = log.expanded
        /\ n.awaiting = log.awaiting \cup {u} /\ n.end = log.end /\ n.bad = log.bad
    BY <1>1, <1>3, <2>1, <2>2, Awaited
  <2>4. Legal(n)
    BY <1>1, <1>3, <2>2, <2>3 DEF Legal
  <2> QED
    BY <1>1, <1>2, <1>8, <2>1, <2>3, <2>4 DEF Fits, AwaitedNow
<1>9. CASE work[u] = "ok" /\ u \in Maps \ log.expanded
  <2>1. Due = Fact("expanded", u, keys[u]) /\ Due.t = "expanded"
    BY <1>4, <1>9 DEF FactOf, Fact
  <2>2. keys[u] \in SUBSET Children /\ keys[u] # {} /\ \A k \in keys[u] : Parent[k] = u
    BY <1>9 DEF Inv, TypeOK, Tasks
  <2>3. /\ n \in Log /\ n.begun /\ n.node = log.node
        /\ n.kids = log.kids \cup keys[u] /\ n.expanded = log.expanded \cup {u}
        /\ n.awaiting = log.awaiting /\ n.end = log.end /\ n.bad = log.bad
    BY <1>1, <1>3, <1>9, <2>1, <2>2, Expanded
  <2>4. Legal(n)
    BY <1>1, <1>3, <2>2, <2>3 DEF Legal
  <2> QED
    BY <1>1, <1>2, <1>9, <2>1, <2>3, <2>4 DEF Fits, ExpandedNow
<1>10. CASE work[u] = "ok" /\ u \notin Maps \ log.expanded
  <2>1. Due = Fact("completed", u, {}) /\ Due.t = "completed"
    BY <1>4, <1>10 DEF FactOf, Fact
  <2>2. /\ n \in Log /\ n.begun /\ n.node = [log.node EXCEPT ![u] = "completed"]
        /\ n.kids = log.kids /\ n.expanded = log.expanded
        /\ n.awaiting = log.awaiting \ {u} /\ n.end = log.end /\ n.bad = log.bad
    BY <1>1, <1>2, <1>3, <2>1, Completed
  <2>3. \A x \in Units : n.node[x] = IF x = u THEN "completed" ELSE log.node[x]
    BY <1>2, <1>5, <2>2
  <2>4. Legal(n)
    BY <1>1, <1>6, <1>10, <2>2, <2>3, UnitFacts DEF Legal
  <2> QED
    BY <1>1, <1>2, <1>3, <1>10, <2>1, <2>2, <2>3, <2>4 DEF Fits, CompletedNow
<1> QED
  BY <1>3, <1>7, <1>8, <1>9, <1>10

(* A run in which no node is ready, waits or runs, and none has failed, is *)
(* complete: of the nodes still pending one would build on no other.       *)
LEMMA NothingLeft ==
    ASSUME NEW l \in Log, Legal(l), ReadyNodes(l) = {},
           \A u \in Units : l.node[u] \notin {"running", "failed"}
    PROVE  \A u \in Declared \cup l.kids : l.node[u] = "completed"
<1> DEFINE Left == {n \in Declared : l.node[n] = "pending"}
<1>1. \A u \in Units : l.node[u] \in {"pending", "completed"}
  BY DEF Log
<1>2. l.kids \subseteq Units /\ Declared \subseteq Units /\ Maps \subseteq Declared
  BY UnitFacts DEF Log
<1>3. \A k \in l.kids : l.node[k] = "completed"
  BY <1>1, <1>2 DEF ReadyNodes
<1>4. ASSUME Left # {} PROVE FALSE
  <2>1. PICK rank \in [Declared -> Declared] :
            \A n \in Declared : \A p \in Preds[n] : rank[p] < rank[n]
    BY WorkflowAssumption
  <2> DEFINE T == {rank[n] : n \in Left}
  <2>2. T \in SUBSET Nat /\ T # {}
    <3>1. Declared \subseteq Nat
      BY WorkflowAssumption
    <3>2. \A n \in Left : rank[n] \in Nat
      BY ONLY <2>1, <3>1
    <3> QED
      BY ONLY <1>4, <3>2
  <2>3. Min(T) \in T /\ \A y \in T : Min(T) <= y
    BY <2>2, MinIsOne
  <2>4. PICK n \in Left : rank[n] = Min(T)
    BY <2>3
  <2>5. \A p \in Preds[n] : p \in Declared /\ p \notin Left
    <3> SUFFICES ASSUME NEW p \in Preds[n], p \in Left PROVE FALSE
      BY <2>4, UnitFacts
    <3>1. rank[p] < rank[n] /\ rank[p] \in T
      BY <2>1, <2>4
    <3>2. Min(T) <= rank[p]
      BY <2>3, <3>1
    <3>3. rank[p] \in Nat /\ rank[n] \in Nat
      BY <2>2, <2>4, <2>3, <3>1
    <3> HIDE DEF T
    <3> QED
      BY <2>4, <3>1, <3>2, <3>3
  <2>6. ASSUME NEW p \in Preds[n]
        PROVE  PredecessorSettled(l, p) /\ ~PredecessorFailed(l, p)
    <3>1. p \in Declared /\ l.node[p] = "completed"
      BY <1>1, <1>2, <2>5, <2>6
    <3>2. p \in Maps => p \in l.expanded
      BY <3>1 DEF Legal
    <3> QED
      BY <1>3, <3>1, <3>2 DEF PredecessorSettled, PredecessorFailed, Terminal, KidsOf
  <2>7. n \in ReadyNodes(l)
    BY <2>4, <2>6 DEF ReadyNodes
  <2> QED
    BY <2>7
<1> QED
  BY <1>1, <1>2, <1>3, <1>4

(* The last fact of a run.                                                 *)
LEMMA EndFits ==
    ASSUME Inv, pc \in {"finish", "failing"}, NEW n, n = Add(log, Due)
    PROVE  /\ Fits(n) /\ n.begun /\ RequireContinuable(n)
           /\ pc = "failing" => n.end = "failed"
<1>1. log \in Log /\ log.begun /\ log.end = "none" /\ Legal(log) /\ RequireContinuable(log)
  BY DEF Inv, TypeOK, Place
<1>2. Due = Fact("finished", 0, {})
  BY DEF Due
<1>3. /\ n \in Log /\ n.begun /\ n.node = log.node /\ n.kids = log.kids
      /\ n.expanded = log.expanded /\ n.awaiting = log.awaiting
      /\ n.end = Outcome(log) /\ n.bad = log.bad
  BY <1>1, <1>2, Finished
<1>4. pc = "failing" => Outcome(log) = "failed"
  BY DEF Inv, Place, Outcome
<1>5. ASSUME Outcome(log) = "completed"
      PROVE  \A u \in Declared \cup log.kids : log.node[u] = "completed"
  <2>1. \A u \in Units : log.node[u] # "failed"
    BY <1>5 DEF Outcome
  <2>2. pc = "finish" /\ ReadyNodes(log) = {} /\ log.awaiting = {}
    BY <1>4, <1>5 DEF Inv, Place
  <2>3. \A u \in Units : log.node[u] # "running"
    BY <1>1, <2>2 DEF RequireContinuable
  <2> QED
    BY <1>1, <2>1, <2>2, <2>3, NothingLeft
<1>6. Legal(n)
  BY <1>1, <1>3, <1>5 DEF Legal
<1> QED
  BY <1>1, <1>3, <1>4, <1>6 DEF Fits, RequireContinuable

(* Whatever the task is about to write, the stream expects it.             *)
LEMMA DueFits ==
    ASSUME Inv, Appending
    PROVE  Fits(Add(log, Due))
<1>1. CASE pc = "begin"
  BY <1>1, BeginFits
<1>2. CASE pc = "start" /\ todo # {}
  BY <1>2, StartFits
<1>3. CASE pc = "recheck" /\ todo # {}
  BY <1>3, RecheckFits
<1>4. CASE pc = "record" /\ todo # {}
  BY <1>4, RecordFits
<1>5. CASE pc \in {"finish", "failing"}
  BY <1>5, EndFits
<1> QED
  BY <1>1, <1>2, <1>3, <1>4, <1>5 DEF Appending

-----------------------------------------------------------------------------
(* Each action keeps the invariant.                                        *)

(* A task that lets go of its nodes: whatever it returns or raises.        *)
LEMMA EndKeeps ==
    ASSUME Inv, NEW why, End(why), UNCHANGED <<nodes, waiting, phase, decided>>,
           Fits(log'), \A u \in Units : ~Running(u), pc # "none",
           phase = "closed" => pc = "done",
           why = "nodes" => log'.end = "failed",
           why = "run" => log'.end # "none" \/ log'.awaiting # {}
    PROVE  Inv'
<1> USE DEF End, nodes
<1>1. TypeOK'
  BY DEF Inv, TypeOK, Fits
<1>2. Legal(log)' /\ Untouched'
  BY DEF Inv, Untouched, Fits
<1>3. Place' /\ Round'
  BY DEF Place, Round
<1>4. Tasks'
  BY DEF Inv, Tasks, Running
<1>5. Told'
  BY DEF Inv, Told
<1> QED
  BY <1>1, <1>2, <1>3, <1>4, <1>5 DEF Inv

(* Only the node tasks of the round are at work, and only while the task   *)
(* waits for them.                                                         *)
LEMMA Idle ==
    ASSUME Inv, pc # "nodes"
    PROVE  agents = {} /\ \A u \in Units : ~Running(u)
<1>1. \A u \in Units : ~Running(u)
  BY DEF Inv, Tasks
<1>2. agents \subseteq Units
  BY UnitFacts DEF Inv, TypeOK
<1> QED
  BY <1>1, <1>2 DEF Inv, Tasks, Running

(* The stream as it is fits.                                               *)
LEMMA SameFits ==
    ASSUME Inv PROVE Fits(log)
BY DEF Inv, Fits, TypeOK

(* A task that goes on, with no node at work.                              *)
LEMMA GoesOn ==
    ASSUME Inv, UNCHANGED <<nodes, waiting, phase, decided>>,
           Fits(log'), \A u \in Units : ~Running(u), phase # "closed",
           pc' \in {"begin", "turn", "recheck", "start", "record", "failing", "finish"},
           todo' \subseteq Units, batch' \subseteq Units, cut' = cut, Place', Round'
    PROVE  Inv'
<1>1. TypeOK'
  BY DEF Inv, TypeOK, Fits, nodes
<1>2. Legal(log)' /\ Untouched'
  BY DEF Inv, Untouched, Fits, nodes
<1>3. Tasks'
  BY DEF Inv, Tasks, Running, nodes
<1>4. Told'
  BY DEF Told
<1> QED
  BY <1>1, <1>2, <1>3, <1>4 DEF Inv

(* The task is inside an advance, so the service is not closed.            *)
LEMMA Advancing ==
    ASSUME Inv, pc \notin {"none", "done"}
    PROVE  phase # "closed"
BY DEF Inv, Told

LEMMA LoadKeeps ==
    ASSUME Inv, Load
    PROVE  Inv'
<1>1. pc \in {"starting", "resuming"} /\ log' = log /\ UNCHANGED <<nodes, waiting, phase, decided>>
  BY DEF Load, host
<1>2. phase # "closed" /\ pc # "none" /\ \A u \in Units : ~Running(u)
  BY <1>1, Idle, Advancing
<1>3. ASSUME NEW why \in {"unknown", "unsafe"}, End(why)
      PROVE  Inv'
  <2>1. why \notin {"nodes", "run"}
    BY <1>3
  <2> QED
    BY <1>1, <1>2, <1>3, <2>1, EndKeeps, SameFits
<1>4. ASSUME \/ Goto("begin", {}) /\ ~log.begun
             \/ Goto("turn", {}) /\ log.begun /\ RequireContinuable(log)
      PROVE  Inv'
  <2>1. Place' /\ Round'
    BY <1>1, <1>4 DEF Place, Round, Goto
  <2>2. batch \subseteq Units
    BY DEF Inv, TypeOK
  <2> QED
    BY <1>1, <1>2, <1>4, <2>1, <2>2, GoesOn, SameFits DEF Goto
<1> QED
  BY <1>3, <1>4 DEF Load

LEMMA TurnKeeps ==
    ASSUME Inv, Turn
    PROVE  Inv'
<1>1. pc = "turn" /\ log' = log /\ UNCHANGED <<nodes, waiting, phase, decided>>
  BY DEF Turn, host
<1>2. phase # "closed" /\ \A u \in Units : ~Running(u)
  BY <1>1, Idle, Advancing
<1>3. CASE log.end # "none" /\ End("run")
  BY <1>1, <1>2, <1>3, EndKeeps, SameFits
<1>4. CASE log.end = "none" /\ Goto("recheck", log.awaiting)
  <2>1. Place' /\ Round'
    BY <1>1, <1>4 DEF Place, Round, Goto, Inv
  <2>2. batch \subseteq Units /\ log.awaiting \subseteq Units
    BY UnitFacts DEF Inv, TypeOK, Log
  <2> QED
    BY <1>1, <1>2, <1>4, <2>1, <2>2, GoesOn, SameFits DEF Goto
<1> QED
  BY <1>3, <1>4 DEF Turn

LEMMA StillWaitingKeeps ==
    ASSUME Inv, StillWaiting
    PROVE  Inv'
<1>1. /\ pc = "recheck" /\ log' = log /\ UNCHANGED <<nodes, waiting, phase, decided>>
      /\ Goto("recheck", todo \ {Min(todo)})
  BY DEF StillWaiting, host
<1>2. phase # "closed" /\ \A u \in Units : ~Running(u)
  BY <1>1, Idle, Advancing
<1>3. Place' /\ Round'
  BY <1>1 DEF Place, Round, Goto, Inv
<1>4. batch \subseteq Units /\ todo' \subseteq Units
  BY <1>1 DEF Inv, TypeOK, Goto
<1> QED
  BY <1>1, <1>2, <1>3, <1>4, GoesOn, SameFits DEF Goto

(* What is ready may be begun.                                             *)
LEMMA ReadyIsSupported ==
    ASSUME Inv, RequireContinuable(log), NEW u \in ReadyNodes(log)
    PROVE  /\ u \in Units /\ log.node[u] = "pending" /\ Supported(u) /\ runs[u] = 0
           /\ u \notin log.awaiting /\ u \notin log.expanded
<1>1. Legal(log) /\ log \in Log
  BY DEF Inv, TypeOK
<1>2. u \in Units /\ log.node[u] = "pending"
  BY <1>1, UnitFacts DEF ReadyNodes, Log
<1>3. runs[u] = 0 /\ u \notin log.awaiting /\ u \notin log.expanded
  BY <1>1, <1>2 DEF Inv, Untouched, Legal
<1>4. CASE u \in Children
  <2>1. u \in log.kids /\ Parent[u] \in log.expanded /\ Parent[u] \in Maps
    BY <1>1, <1>4, UnitFacts DEF ReadyNodes, Legal
  <2>2. log.node[Parent[u]] = "completed"
    BY <1>1, <2>1, UnitFacts DEF Legal, RequireContinuable
  <2> QED
    BY <1>2, <1>3, <1>4, <2>1, <2>2 DEF Supported
<1>5. CASE u \notin Children
  <2>1. \A p \in Preds[u] : PredecessorSettled(log, p) /\ ~PredecessorFailed(log, p)
    BY <1>1, <1>5 DEF ReadyNodes, Log
  <2>2. ASSUME NEW p \in Preds[u]
        PROVE  /\ log.node[p] = "completed"
               /\ p \in Maps => /\ p \in log.expanded
                                /\ \A k \in KidsOf(log, p) : log.node[k] = "completed"
    <3>1. PredecessorSettled(log, p) /\ ~PredecessorFailed(log, p)
      BY <2>1, <2>2
    <3> QED
      BY <3>1 DEF PredecessorSettled, PredecessorFailed, Terminal
  <2> QED
    BY <1>2, <1>3, <1>5, <2>2 DEF Supported
<1> QED
  BY <1>4, <1>5

LEMMA RecheckedKeeps ==
    ASSUME Inv, Rechecked
    PROVE  Inv'
<1>1. pc = "recheck" /\ log' = log /\ UNCHANGED <<nodes, waiting, phase, decided>>
  BY DEF Rechecked, host
<1>2. phase # "closed" /\ \A u \in Units : ~Running(u)
  BY <1>1, Idle, Advancing
<1>3. log.begun /\ log.end = "none" /\ RequireContinuable(log)
  BY <1>1 DEF Inv, Place
<1>4. CASE /\ pc' = "start" /\ todo' = ReadyNodes(log) /\ batch' = ReadyNodes(log)
           /\ UNCHANGED <<cut, answer>>
  <2>1. \A u \in ReadyNodes(log) :
            /\ u \in Units /\ log.node[u] = "pending" /\ Supported(u) /\ runs[u] = 0
            /\ u \notin log.awaiting /\ u \notin log.expanded
    BY <1>3, ReadyIsSupported
  <2>2. Place'
    BY <1>1, <1>3, <1>4 DEF Place
  <2>3. \A u \in ReadyNodes(log) : Supported(u)'
    BY <1>1, <2>1 DEF Supported
  <2>4. Round'
    BY <1>1, <1>3, <1>4, <2>1, <2>3 DEF Round, nodes, Running0, RequireContinuable
  <2>5. todo' \subseteq Units /\ batch' \subseteq Units
    BY <1>4, <2>1
  <2> QED
    BY <1>1, <1>2, <1>4, <2>2, <2>4, <2>5, GoesOn, SameFits
<1>5. CASE log.awaiting # {} /\ End("run")
  BY <1>1, <1>2, <1>5, EndKeeps, SameFits
<1>6. CASE ReadyNodes(log) = {} /\ log.awaiting = {} /\ Goto("finish", {})
  <2>1. Place' /\ Round'
    BY <1>1, <1>3, <1>6 DEF Place, Round, Goto
  <2>2. batch \subseteq Units
    BY DEF Inv, TypeOK
  <2> QED
    BY <1>1, <1>2, <1>6, <2>1, <2>2, GoesOn, SameFits DEF Goto
<1> QED
  BY <1>4, <1>5, <1>6 DEF Rechecked

LEMMA RunNodesKeeps ==
    ASSUME Inv, RunNodes
    PROVE  Inv'
<1>1. /\ pc = "start" /\ todo = {} /\ pc' = "nodes" /\ todo' = batch
      /\ batch' = batch /\ cut' = cut /\ answer' = answer
      /\ log' = log /\ UNCHANGED <<keys, agents, waiting, phase, decided>>
  BY DEF RunNodes, Goto, host
<1>2. /\ work \in [Units -> {"none", "busy", "live", "leave-ok", "leave-failed", "leave-cut",
                             "ok", "failed", "cut", "wait"}]
      /\ runs \in [Units -> Nat] /\ batch \subseteq Units
  BY DEF Inv, TypeOK
<1>3. phase # "closed" /\ agents = {} /\ \A u \in Units : ~Running(u)
  BY <1>1, Idle, Advancing
<1>4. /\ work' = [u \in Units |-> IF u \in batch THEN "busy" ELSE work[u]]
      /\ runs' = [u \in Units |-> IF u \in batch THEN runs[u] + 1 ELSE runs[u]]
  BY DEF RunNodes
<1>5. \A u \in Units : /\ work'[u] = IF u \in batch THEN "busy" ELSE work[u]
                       /\ u \notin batch => runs'[u] = runs[u]
  BY <1>4
<1>6. \A u \in batch : log.node[u] = "running" /\ u \notin log.awaiting /\ u \notin log.expanded
  BY <1>1 DEF Inv, Round
<1>7. TypeOK'
  <2>1. work' \in [Units -> {"none", "busy", "live", "leave-ok", "leave-failed", "leave-cut",
                             "ok", "failed", "cut", "wait"}]
    BY <1>2, <1>4
  <2>2. runs' \in [Units -> Nat]
    BY <1>2, <1>4
  <2> QED
    BY <1>1, <2>1, <2>2 DEF Inv, TypeOK
<1>8. Legal(log)' /\ Untouched'
  BY <1>1, <1>2, <1>5, <1>6 DEF Inv, Untouched
<1>9. Place'
  BY <1>1 DEF Inv, Place
<1>10. Round'
  <2>1. Running0 \subseteq log.awaiting \cup batch
    BY <1>1 DEF Inv, Round
  <2> QED
    BY <1>1, <1>2, <1>5, <1>6, <2>1 DEF Round, Running0
<1>11. Tasks'
  BY <1>1, <1>2, <1>3, <1>5, UnitFacts DEF Inv, Tasks, Running
<1>12. Told'
  BY <1>1, <1>3 DEF Told
<1> QED
  BY <1>7, <1>8, <1>9, <1>10, <1>11, <1>12 DEF Inv

LEMMA RecordedKeeps ==
    ASSUME Inv, Recorded
    PROVE  Inv'
<1>1. pc = "record" /\ todo = {} /\ log' = log
      /\ UNCHANGED <<nodes, waiting, phase, decided>>
  BY DEF Recorded, host
<1>2. phase # "closed" /\ \A u \in Units : ~Running(u)
  BY <1>1, Idle, Advancing
<1>3. log.begun /\ log.end = "none" /\ batch \subseteq Units
  BY <1>1 DEF Inv, Place, TypeOK
<1>4. CASE End("cancelled")
  BY <1>1, <1>2, <1>4, EndKeeps, SameFits
<1>5. ASSUME ~ \E u \in batch : work[u] = "cut"
      PROVE  RequireContinuable(log)
  BY <1>1, <1>5 DEF Inv, Round, Unrecorded, RequireContinuable
<1>6. CASE /\ ~ \E u \in batch : work[u] = "cut"
           /\ \E u \in batch : work[u] = "failed"
           /\ Goto("failing", {})
  <2>1. \E u \in Units : log.node[u] = "failed"
    BY <1>1, <1>3, <1>6 DEF Inv, Round, Unrecorded
  <2>2. Place' /\ Round'
    BY <1>1, <1>3, <1>5, <1>6, <2>1 DEF Place, Round, Goto
  <2> QED
    BY <1>1, <1>2, <1>3, <1>6, <2>2, GoesOn, SameFits DEF Goto
<1>7. CASE ~ (\E u \in batch : work[u] = "cut") /\ Goto("turn", {})
  <2>1. Place' /\ Round'
    BY <1>1, <1>3, <1>5, <1>7 DEF Place, Round, Goto
  <2> QED
    BY <1>1, <1>2, <1>3, <1>7, <2>1, GoesOn, SameFits DEF Goto
<1> QED
  BY <1>4, <1>6, <1>7 DEF Recorded

LEMMA ConvergedKeeps ==
    ASSUME Inv, Converged
    PROVE  Inv'
<1>1. pc = "nodes" /\ log' = log /\ UNCHANGED <<nodes, waiting, phase, decided>>
  BY DEF Converged, host
<1>2. /\ phase # "closed" /\ batch \subseteq Units /\ todo \subseteq batch
      /\ \A u \in batch \ todo : ~Running(u)
  BY <1>1, Advancing DEF Inv, TypeOK, Round
<1>3. log.begun /\ log.end = "none"
  BY <1>1 DEF Inv, Place
<1>4. PICK left, stop :
         /\ left = {u \in todo : \E v \in todo : v <= u /\ Running(v)}
         /\ stop = (cut \/ work[Min(todo)] = "cut")
         /\ \/ left # {} /\ todo' = left /\ cut' = stop /\ UNCHANGED <<pc, batch, answer>>
            \/ left = {} /\ stop /\ End("cancelled")
            \/ left = {} /\ ~stop /\ Goto("record", {u \in batch : work[u] # "cut"})
  BY DEF Converged
<1>5. \A u \in todo : Running(u) => u \in left
  <2>1. \A u \in todo : u <= u
    BY <1>2, UnitFacts
  <2> QED
    BY <1>4, <2>1
<1>6. ASSUME left = {}
      PROVE  \A u \in Units : ~Running(u)
  BY <1>2, <1>5, <1>6 DEF Inv, Tasks
<1>7. CASE todo' = left /\ cut' = stop /\ UNCHANGED <<pc, batch, answer>>
  <2>1. left \subseteq todo /\ stop \in BOOLEAN
    BY <1>4
  <2>2. TypeOK'
    BY <1>1, <1>2, <1>7, <2>1 DEF Inv, TypeOK, nodes
  <2>3. Legal(log)' /\ Untouched' /\ Place' /\ Told'
    BY <1>1, <1>7 DEF Inv, Untouched, Place, Told, nodes
  <2>4. \A u \in batch \ left : ~Running(u)
    BY <1>2, <1>5
  <2>5. Round'
    BY <1>1, <1>2, <1>7, <2>1, <2>4 DEF Inv, Round, Running, Running0, nodes
  <2>6. Tasks'
    BY <1>1, <1>7 DEF Inv, Tasks, Running, nodes
  <2> QED
    BY <2>2, <2>3, <2>5, <2>6 DEF Inv
<1>8. CASE left = {} /\ End("cancelled")
  BY <1>1, <1>2, <1>6, <1>8, EndKeeps, SameFits
<1>9. CASE left = {} /\ Goto("record", {u \in batch : work[u] # "cut"})
  <2>1. Place'
    BY <1>1, <1>3, <1>9 DEF Place, Goto
  <2>2. \A u \in batch : work[u] \in {"ok", "failed", "wait", "cut"}
    BY <1>1, <1>2, <1>6, <1>9 DEF Inv, Round, TypeOK, Running
  <2>3. Round'
    BY <1>1, <1>2, <1>9, <2>2 DEF Inv, Round, Unrecorded, Goto, nodes, Running0
  <2> QED
    BY <1>1, <1>2, <1>6, <1>9, <2>1, <2>3, GoesOn, SameFits DEF Goto
<1> QED
  BY <1>4, <1>7, <1>8, <1>9

(* An append goes through, phase by phase.                                 *)
LEMMA AppendKeeps ==
    ASSUME Inv, Append
    PROVE  Inv'
<1>1. Appending /\ log' = Add(log, Due) /\ UNCHANGED <<nodes, waiting, phase, decided>>
  BY DEF Append, host
<1>2. pc \notin {"none", "done", "nodes"}
  BY <1>1 DEF Appending
<1>3. phase # "closed" /\ \A u \in Units : ~Running(u)
  BY <1>2, Idle, Advancing
<1>4. Fits(log') /\ batch \subseteq Units /\ todo \subseteq Units
  BY <1>1, DueFits DEF Inv, TypeOK
<1>5. CASE pc \in {"begin", "finish"}
  <2>1. Goto("turn", {})
    BY <1>5 DEF Append
  <2>2. log'.begun /\ RequireContinuable(log')
    BY <1>1, <1>5, BeginFits, EndFits
  <2>3. Place' /\ Round'
    BY <2>1, <2>2 DEF Place, Round, Goto, RequireContinuable
  <2> QED
    BY <1>1, <1>3, <1>4, <2>1, <2>3, GoesOn DEF Goto
<1>6. CASE pc = "failing"
  <2>1. End("nodes")
    BY <1>6 DEF Append
  <2>2. log'.end = "failed"
    BY <1>1, <1>6, EndFits
  <2> QED
    BY <1>1, <1>2, <1>3, <1>4, <2>1, <2>2, EndKeeps
<1>7. CASE pc = "start" /\ todo # {}
  <2> DEFINE u == Min(todo)
  <2>1. /\ log'.begun /\ log'.end = "none" /\ u \in todo
        /\ log'.node = [log.node EXCEPT ![u] = "running"] /\ log'.kids = log.kids
        /\ log'.expanded = log.expanded /\ log'.awaiting = log.awaiting
    BY <1>1, <1>7, StartFits
  <2>2. Due.t = "started"
    BY <1>7 DEF Due, Fact
  <2>3. Goto("start", todo \ {u})
    BY <1>7, <2>2 DEF Append
  <2>4. /\ todo \subseteq batch
        /\ \A x \in batch : /\ Supported(x) /\ runs[x] = 0
                            /\ x \notin log.awaiting /\ x \notin log.expanded
                            /\ log.node[x] = IF x \in todo THEN "pending" ELSE "running"
        /\ Running0 \subseteq log.awaiting \cup batch
    BY <1>7 DEF Inv, Round
  <2>5. log.node \in [Units -> {"pending", "running", "completed", "failed"}]
        /\ log.kids \subseteq Units
    BY UnitFacts DEF Inv, TypeOK, Log
  <2> HIDE DEF u
  <2>6. \A x \in Units : log'.node[x] = IF x = u THEN "running" ELSE log.node[x]
    BY <1>4, <2>1, <2>5
  <2>7. Place'
    BY <2>1, <2>3 DEF Place, Goto
  <2>8. u \in batch /\ log.node[u] = "pending"
    BY <2>1, <2>4
  <2>9. ASSUME NEW x \in batch PROVE Supported(x)'
    <3>1. Supported(x) /\ x \in Units
      BY <1>4, <2>4, <2>9
    <3>2. ASSUME NEW y \in Units, log.node[y] = "completed" PROVE log'.node[y] = "completed"
      BY <2>6, <2>8, <3>2
    <3>3. CASE x \in Children
      BY <2>1, <3>1, <3>2, <3>3, UnitFacts DEF Supported
    <3>4. CASE x \notin Children
      <4>1. x \in Declared /\ Preds[x] \subseteq Units
        BY <3>1, <3>4, UnitFacts DEF Units
      <4>2. \A p \in Units : KidsOf(log, p) \subseteq Units /\ KidsOf(log', p) = KidsOf(log, p)
        BY <2>1, <2>5 DEF KidsOf
      <4> QED
        BY <2>1, <3>1, <3>2, <3>4, <4>1, <4>2 DEF Supported
    <3> QED
      BY <3>3, <3>4
  <2>10. Round'
    <3>1. runs' = runs /\ batch' = batch /\ todo' = todo \ {u} /\ pc' = "start"
      BY <1>1, <2>3 DEF nodes, Goto
    <3>2. \A x \in batch : /\ x \notin log'.awaiting /\ x \notin log'.expanded
                           /\ log'.node[x] = IF x \in todo' THEN "pending" ELSE "running"
      BY <1>4, <2>1, <2>4, <2>6, <3>1
    <3>3. Running0' \subseteq log'.awaiting \cup batch
      BY <2>1, <2>4, <2>6, <2>8 DEF Running0
    <3> QED
      BY <2>4, <2>9, <3>1, <3>2, <3>3 DEF Round
  <2> QED
    BY <1>1, <1>3, <1>4, <2>3, <2>7, <2>10, GoesOn DEF Goto
<1>8. CASE pc = "recheck" /\ todo # {}
  <2> DEFINE u == Min(todo)
  <2>1. /\ log'.begun /\ log'.end = "none" /\ u \in todo /\ RequireContinuable(log')
        /\ log'.awaiting = log.awaiting \ {u}
    BY <1>1, <1>8, RecheckFits
  <2>2. Due.t = "completed"
    BY <1>8 DEF Due, Fact
  <2>3. Goto("recheck", todo \ {u})
    BY <1>8, <2>2 DEF Append
  <2>4. todo \subseteq log.awaiting
    BY <1>8 DEF Inv, Place
  <2> HIDE DEF u
  <2>5. Place' /\ Round'
    BY <2>1, <2>3, <2>4 DEF Place, Round, Goto, RequireContinuable
  <2> QED
    BY <1>1, <1>3, <1>4, <2>3, <2>5, GoesOn DEF Goto
<1>9. CASE pc = "record" /\ todo # {}
  <2> DEFINE u == Min(todo)
  <2>1. /\ log'.begun /\ log'.end = "none" /\ u \in todo
        /\ \/ FailedNow(log', u) \/ AwaitedNow(log', u)
           \/ ExpandedNow(log', u) \/ CompletedNow(log', u)
    BY <1>1, <1>9, RecordFits
  <2>2. Goto("record", IF Due.t = "expanded" THEN todo ELSE todo \ {u})
    BY <1>9 DEF Append
  <2>3. Unrecorded(log, todo)
    BY <1>9 DEF Inv, Round
  <2>4. log.node \in [Units -> {"pending", "running", "completed", "failed"}] /\ u \in Units
    BY <1>4, <2>1 DEF Inv, TypeOK, Log
  <2> HIDE DEF u
  <2>5. Place'
    BY <2>1, <2>2 DEF Place, Goto
  <2>6. Unrecorded(log', todo')
    <3>1. CASE ExpandedNow(log', u)
      <4>1. todo' = todo
        BY <2>2, <3>1 DEF Goto, ExpandedNow
      <4> QED
        BY <2>3, <2>4, <3>1, <4>1 DEF Unrecorded, ExpandedNow
    <3>2. CASE AwaitedNow(log', u)
      <4>1. todo' = todo \ {u}
        BY <2>2, <3>2 DEF Goto, AwaitedNow
      <4> QED
        BY <2>3, <2>4, <3>2, <4>1 DEF Unrecorded, AwaitedNow
    <3>3. CASE FailedNow(log', u)
      <4>1. todo' = todo \ {u}
        BY <2>2, <3>3 DEF Goto, FailedNow
      <4>2. \A x \in Units : log'.node[x] = IF x = u THEN "failed" ELSE log.node[x]
        BY <2>4, <3>3 DEF FailedNow
      <4> QED
        BY <1>4, <2>3, <2>4, <3>3, <4>1, <4>2 DEF Unrecorded, FailedNow
    <3>4. CASE CompletedNow(log', u)
      <4>1. todo' = todo \ {u}
        BY <2>2, <3>4 DEF Goto, CompletedNow
      <4>2. \A x \in Units : log'.node[x] = IF x = u THEN "completed" ELSE log.node[x]
        BY <2>4, <3>4 DEF CompletedNow
      <4> QED
        BY <1>4, <2>3, <2>4, <3>4, <4>1, <4>2 DEF Unrecorded, CompletedNow
    <3> QED
      BY <2>1, <3>1, <3>2, <3>3, <3>4
  <2>7. Round'
    <3>1. pc' = "record" /\ batch' = batch /\ work' = work
      BY <1>1, <2>2 DEF Goto, nodes
    <3>2. Unrecorded(log, todo)'
      BY <2>6, <3>1 DEF Unrecorded
    <3> QED
      BY <3>1, <3>2 DEF Round
  <2>8. todo' \subseteq Units
    BY <1>4, <2>2 DEF Goto
  <2> QED
    BY <1>1, <1>3, <1>4, <2>2, <2>5, <2>7, <2>8, GoesOn DEF Goto
<1> QED
  BY <1>1, <1>5, <1>6, <1>7, <1>8, <1>9 DEF Appending

(* The store fails, or the task is cancelled away from the node tasks.     *)
LEMMA CutKeeps ==
    ASSUME Inv, AtAwait, pc # "nodes", NEW why \in {"nodes-unwritten", "unwritten", "cancelled"},
           log' \in IF Appending THEN {log, Add(log, Due)} ELSE {log},
           End(why), UNCHANGED <<nodes, waiting, phase, decided>>
    PROVE  Inv'
<1>1. pc \notin {"none", "done", "nodes"}
  BY DEF AtAwait, Appending
<1>2. phase # "closed" /\ \A u \in Units : ~Running(u)
  BY <1>1, Idle, Advancing
<1>3. Fits(log')
  BY SameFits, DueFits
<1>4. why \notin {"nodes", "run"}
  OBVIOUS
<1> QED
  BY <1>1, <1>2, <1>3, <1>4, EndKeeps

LEMMA StoreFailsKeeps ==
    ASSUME Inv, StoreFails
    PROVE  Inv'
<1>1. /\ AtAwait /\ pc # "nodes" /\ UNCHANGED <<nodes, waiting, phase, decided>>
      /\ log' \in IF Appending THEN {log, Add(log, Due)} ELSE {log}
  BY DEF StoreFails
<1>2. CASE pc = "failing"
  <2>1. End("nodes-unwritten")
    BY <1>2 DEF StoreFails
  <2> QED
    BY <1>1, <2>1, CutKeeps
<1>3. CASE pc # "failing"
  <2>1. End("unwritten")
    BY <1>3 DEF StoreFails
  <2> QED
    BY <1>1, <2>1, CutKeeps
<1> QED
  BY <1>2, <1>3

(* Only the flag changes: the node tasks are awaited.                      *)
LEMMA CancelKeeps ==
    ASSUME Inv, Cancel
    PROVE  Inv'
<1>1. CASE pc = "nodes"
  <2>1. cut' = TRUE /\ UNCHANGED <<log, pc, todo, batch, answer>>
        /\ UNCHANGED <<nodes, waiting, phase, decided>>
    BY <1>1 DEF Cancel
  <2> USE DEF nodes
  <2>2. TypeOK'
    BY <2>1 DEF Inv, TypeOK
  <2>3. Legal(log)' /\ Untouched' /\ Place' /\ Told'
    BY <2>1 DEF Inv, Untouched, Place, Told
  <2>4. Round'
    BY <1>1, <2>1 DEF Inv, Round, Running, Running0
  <2>5. Tasks'
    BY <2>1 DEF Inv, Tasks, Running
  <2> QED
    BY <2>2, <2>3, <2>4, <2>5 DEF Inv
<1>2. CASE pc # "nodes"
  <2>1. /\ AtAwait /\ UNCHANGED <<nodes, waiting, phase, decided>> /\ End("cancelled")
        /\ log' \in IF Appending THEN {log, Add(log, Due)} ELSE {log}
    BY <1>2 DEF Cancel
  <2> QED
    BY <1>2, <2>1, CutKeeps
<1> QED
  BY <1>1, <1>2

-----------------------------------------------------------------------------
(* A node task goes on: what it leaves of its agent and its children.      *)
LEMMA NodeGoesOn ==
    ASSUME Inv, NEW u \in Units, Running(u), UNCHANGED <<log, task, runs, host>>,
           NEW w \in {"live", "leave-ok", "leave-failed", "leave-cut", "ok", "failed", "cut", "wait"},
           Reaches(u, w), agents' \subseteq agents \cup {u},
           u \in agents' => w \in {"live", "leave-ok", "leave-failed", "leave-cut"},
           w \in {"live", "leave-ok", "leave-failed", "leave-cut"} => u \in AgentUnits,
           w = "wait" => u \in Declared \ Maps,
           keys' \in [Maps -> SUBSET Children],
           \A n \in Maps : n # u => keys'[n] = keys[n],
           u \in Maps => /\ \A k \in keys'[u] : Parent[k] = u
                         /\ w = "ok" => keys'[u] # {}
    PROVE  Inv'
<1>1. /\ work \in [Units -> {"none", "busy", "live", "leave-ok", "leave-failed", "leave-cut",
                             "ok", "failed", "cut", "wait"}]
      /\ agents \subseteq AgentUnits /\ AgentUnits \subseteq Units /\ batch \subseteq Units
  BY UnitFacts DEF Inv, TypeOK
<1>2. pc = "nodes" /\ u \in batch
  BY DEF Inv, Tasks
<1>3. \A x \in Units : work'[x] = IF x = u THEN w ELSE work[x]
  BY <1>1 DEF Reaches
<1>4. TypeOK'
  <2>1. work' \in [Units -> {"none", "busy", "live", "leave-ok", "leave-failed", "leave-cut",
                             "ok", "failed", "cut", "wait"}]
    BY <1>1 DEF Reaches
  <2>2. agents' \subseteq AgentUnits
    BY <1>1
  <2> QED
    BY <2>1, <2>2 DEF Inv, TypeOK, task, host
<1>5. Legal(log)' /\ Untouched' /\ Place' /\ Told'
  BY DEF Inv, Untouched, Place, Told, task, host
<1>6. Round'
  <2>1. Running0 \subseteq log.awaiting \cup batch
    BY <1>2 DEF Inv, Round
  <2>2. \A x \in batch : /\ log.node[x] = "running" /\ work[x] # "none"
                         /\ x \notin log.awaiting /\ x \notin log.expanded
    BY <1>2 DEF Inv, Round
  <2>3. pc' = "nodes" /\ todo' = todo /\ batch' = batch /\ log' = log
    BY <1>2 DEF task
  <2>4. todo \subseteq batch /\ \A x \in batch \ todo : ~Running(x)
    BY <1>2 DEF Inv, Round
  <2>5. \A x \in batch \ todo : ~Running(x)'
    BY <1>1, <1>3, <2>4 DEF Running
  <2> QED
    BY <1>1, <1>3, <2>1, <2>2, <2>3, <2>4, <2>5 DEF Round, Running0
<1>7. Tasks'
  <2>1. pc' = "nodes" /\ batch' = batch
    BY <1>2 DEF task
  <2>2. \A x \in Units : Running(x)' => x \in batch
    BY <1>2, <1>3 DEF Inv, Tasks, Running
  <2>3. \A x \in agents' : work'[x] \in {"live", "leave-ok", "leave-failed", "leave-cut"}
    BY <1>1, <1>3 DEF Inv, Tasks
  <2>4. \A x \in Units :
          /\ work'[x] \in {"live", "leave-ok", "leave-failed", "leave-cut"} => x \in AgentUnits
          /\ work'[x] = "wait" => x \in Declared \ Maps
    BY <1>3 DEF Inv, Tasks
  <2>5. \A n \in Maps : /\ \A k \in keys'[n] : Parent[k] = n
                        /\ work'[n] = "ok" => keys'[n] # {}
    BY <1>3, UnitFacts DEF Inv, Tasks
  <2> QED
    BY <2>1, <2>2, <2>3, <2>4, <2>5 DEF Tasks
<1> QED
  BY <1>4, <1>5, <1>6, <1>7 DEF Inv

LEMMA NodeStepKeeps ==
    ASSUME Inv, NEW u \in Units, NodeStep(u)
    PROVE  Inv'
<1>1. keys \in [Maps -> SUBSET Children] /\ agents \subseteq AgentUnits
  BY DEF Inv, TypeOK
<1>2. \A n \in Maps : \A k \in keys[n] : Parent[k] = n
  BY DEF Inv, Tasks
<1>3. Maps \cap AgentUnits = {}
  BY UnitFacts
<1>4. CASE CreateAgent(u)
  <2>1. u \in AgentUnits /\ u \notin Maps /\ work[u] = "busy" /\ Running(u)
        /\ UNCHANGED <<log, task, keys, runs, host>>
    BY <1>3, <1>4 DEF CreateAgent, Running
  <2>2. u \notin agents
    BY <2>1 DEF Inv, Tasks
  <2>3. CASE Reaches(u, "live") /\ agents' = agents \cup {u}
    BY <1>1, <1>2, <2>1, <2>3, NodeGoesOn
  <2>4. CASE Reaches(u, "failed") /\ agents' = agents
    BY <1>1, <1>2, <2>1, <2>2, <2>4, NodeGoesOn
  <2> QED
    BY <1>4, <2>3, <2>4 DEF CreateAgent
<1>5. CASE Report(u)
  <2>1. work[u] = "live" /\ Running(u) /\ UNCHANGED <<log, task, keys, agents, runs, host>>
    BY <1>5 DEF Report, Running
  <2>2. u \in AgentUnits /\ u \notin Maps
    BY <1>3, <2>1 DEF Inv, Tasks
  <2>3. PICK w \in {"leave-ok", "leave-failed", "leave-cut"} : Reaches(u, w)
    BY <1>5 DEF Report
  <2> QED
    BY <1>1, <1>2, <2>1, <2>2, <2>3, NodeGoesOn
<1>6. CASE DisposeAgent(u)
  <2>1. work[u] \in {"leave-ok", "leave-failed", "leave-cut"} /\ Running(u)
        /\ agents' = agents \ {u} /\ UNCHANGED <<log, task, keys, runs, host>>
    BY <1>6 DEF DisposeAgent, Running
  <2>2. u \in AgentUnits /\ u \notin Maps
    BY <1>3, <2>1 DEF Inv, Tasks
  <2>3. \E w \in {"ok", "failed", "cut"} : Reaches(u, w)
    BY <1>6 DEF DisposeAgent
  <2>4. PICK w \in {"ok", "failed", "cut"} : Reaches(u, w)
    BY <2>3
  <2> QED
    BY <1>1, <1>2, <2>1, <2>2, <2>4, NodeGoesOn
<1>7. CASE Expand(u)
  <2>1. u \in Maps /\ work[u] = "busy" /\ Running(u) /\ UNCHANGED <<log, task, agents, runs, host>>
    BY <1>7 DEF Expand, Running
  <2>2. u \notin agents
    BY <1>1, <1>3, <2>1
  <2>3. CASE Reaches(u, "failed") /\ keys' = keys
    BY <1>1, <1>2, <2>1, <2>2, <2>3, NodeGoesOn
  <2>4. CASE /\ Reaches(u, "ok")
             /\ \E ks \in (SUBSET {k \in Children : Parent[k] = u}) \ {{}} :
                   keys' = [keys EXCEPT ![u] = ks]
    <3>1. PICK ks \in (SUBSET {k \in Children : Parent[k] = u}) \ {{}} :
              keys' = [keys EXCEPT ![u] = ks]
      BY <2>4
    <3>2. /\ keys' \in [Maps -> SUBSET Children]
          /\ \A n \in Maps : n # u => keys'[n] = keys[n]
          /\ keys'[u] = ks
      BY <1>1, <2>1, <3>1
    <3>3. UNCHANGED <<log, task, runs, host>> /\ agents' = agents
      BY <2>1
    <3>4. ks # {} /\ \A k \in ks : Parent[k] = u
      BY <3>1
    <3>5. \A k \in keys'[u] : Parent[k] = u
      BY <3>2, <3>4
    <3> QED
      BY <2>1, <2>2, <2>4, <3>2, <3>3, <3>4, <3>5, NodeGoesOn
  <2> QED
    BY <1>7, <2>3, <2>4 DEF Expand
<1>8. CASE Answer(u)
  <2>1. /\ u \in Declared \ Maps /\ u \notin AgentUnits /\ work[u] = "busy" /\ Running(u)
        /\ UNCHANGED <<log, task, keys, agents, runs, host>>
    BY <1>8 DEF Answer, Running
  <2>2. u \notin agents
    BY <1>1, <2>1
  <2>3. \E w \in {"ok", "failed", "wait"} : Reaches(u, w)
    BY <1>8 DEF Answer
  <2>4. PICK w \in {"ok", "failed", "wait"} : Reaches(u, w)
    BY <2>3
  <2> QED
    BY <1>1, <1>2, <2>1, <2>2, <2>4, NodeGoesOn
<1> QED
  BY <1>4, <1>5, <1>6, <1>7, <1>8 DEF NodeStep

-----------------------------------------------------------------------------
(* Callers, the closing service and the human leave the task alone.        *)
LEMMA AsideKeeps ==
    ASSUME Inv, UNCHANGED <<log, todo, batch, cut, nodes>>,
           waiting' \subseteq Callers, phase' \in {"open", "closing", "closed"},
           decided' \in BOOLEAN,
           phase' = "closed" => pc' \in {"none", "done"},
           \/ pc' = pc /\ answer' = answer
           \/ pc = "done" /\ pc' = "none"
           \/ pc = "none" /\ pc' \in {"starting", "resuming"}
    PROVE  Inv'
<1> USE DEF nodes
<1>1. TypeOK'
  BY DEF Inv, TypeOK
<1>2. Legal(log)' /\ Untouched' /\ Told'
  BY DEF Inv, Untouched, Told
<1>3. Place'
  BY DEF Inv, Place
<1>4. Round'
  BY DEF Inv, Round, Unrecorded, Running, Running0, Supported
<1>5. Tasks'
  BY DEF Inv, Tasks, Running
<1> QED
  BY <1>1, <1>2, <1>3, <1>4, <1>5 DEF Inv

LEMMA CallKeeps ==
    ASSUME Inv, NEW c \in Callers, Call(c)
    PROVE  Inv'
<1>1. /\ UNCHANGED <<log, todo, batch, cut, answer, nodes, phase, decided>>
      /\ waiting' = waiting \cup {c} /\ phase = "open"
  BY DEF Call
<1>2. waiting \subseteq Callers /\ decided \in BOOLEAN
  BY DEF Inv, TypeOK
<1>3. CASE pc = "none" /\ pc' \in {"starting", "resuming"}
  BY <1>1, <1>2, <1>3, AsideKeeps
<1>4. CASE pc' = pc
  BY <1>1, <1>2, <1>4, AsideKeeps
<1> QED
  BY <1>3, <1>4 DEF Call

LEMMA HostKeeps ==
    ASSUME Inv, Return \/ Close \/ Closed \/ Approve
    PROVE  Inv'
<1>1. /\ waiting \subseteq Callers /\ phase \in {"open", "closing", "closed"}
      /\ decided \in BOOLEAN
      /\ phase = "closed" => pc \in {"none", "done"}
  BY DEF Inv, TypeOK, Told
<1>2. CASE Return
  <2>1. /\ UNCHANGED <<log, todo, batch, cut, nodes, phase, decided>>
        /\ pc = "done" /\ waiting' = {} /\ pc' = "none"
    BY <1>2 DEF Return
  <2> QED
    BY <1>1, <2>1, AsideKeeps
<1>3. CASE Close
  <2>1. /\ UNCHANGED <<log, todo, batch, cut, answer, nodes, waiting, decided>>
        /\ pc' = pc /\ phase' = "closing"
    BY <1>3 DEF Close, task
  <2> QED
    BY <1>1, <2>1, AsideKeeps
<1>4. CASE Closed
  <2>1. /\ UNCHANGED <<log, todo, batch, cut, answer, nodes, waiting, decided>>
        /\ pc' = pc /\ phase' = "closed" /\ pc \in {"none", "done"}
    BY <1>4 DEF Closed, task
  <2> QED
    BY <1>1, <2>1, AsideKeeps
<1>5. CASE Approve
  <2>1. /\ UNCHANGED <<log, todo, batch, cut, answer, nodes, waiting, phase>>
        /\ pc' = pc /\ decided' = TRUE
    BY <1>5 DEF Approve, task
  <2> QED
    BY <1>1, <2>1, AsideKeeps
<1> QED
  BY <1>2, <1>3, <1>4, <1>5

(* Only the stream survives the process.                                   *)
LEMMA CrashKeeps ==
    ASSUME Inv, Crash
    PROVE  Inv'
<1>1. /\ pc' = "none" /\ todo' = {} /\ batch' = {} /\ cut' = FALSE
      /\ work' = [u \in Units |-> "none"] /\ agents' = {} /\ keys' = [n \in Maps |-> {}]
      /\ waiting' = {} /\ phase' = "open" /\ UNCHANGED <<log, decided, runs>>
  BY DEF Crash
<1>2. \A u \in Units : work'[u] = "none"
  BY <1>1
<1>3. TypeOK'
  <2>1. work' \in [Units -> {"none", "busy", "live", "leave-ok", "leave-failed", "leave-cut",
                             "ok", "failed", "cut", "wait"}]
    BY <1>1
  <2>2. keys' \in [Maps -> SUBSET Children]
    BY <1>1
  <2> QED
    BY <1>1, <2>1, <2>2 DEF Inv, TypeOK
<1>4. Legal(log)' /\ Untouched'
  BY <1>1 DEF Inv, Untouched
<1>5. Place' /\ Round' /\ Told'
  BY <1>1 DEF Place, Round, Told
<1>6. Tasks'
  <2>1. \A n \in Maps : keys'[n] = {} /\ work'[n] = "none"
    BY <1>1, <1>2, UnitFacts
  <2> QED
    BY <1>1, <1>2, <2>1 DEF Tasks, Running
<1> QED
  BY <1>3, <1>4, <1>5, <1>6 DEF Inv

(* Nothing happens.                                                        *)
LEMMA StutterKeeps ==
    ASSUME Inv, UNCHANGED vars
    PROVE  Inv'
<1>1. /\ UNCHANGED <<log, todo, batch, cut, answer, nodes>> /\ pc' = pc
      /\ UNCHANGED <<waiting, phase, decided>>
  BY DEF vars, nodes
<1>2. /\ waiting \subseteq Callers /\ phase \in {"open", "closing", "closed"}
      /\ decided \in BOOLEAN
      /\ phase = "closed" => pc \in {"none", "done"}
  BY DEF Inv, TypeOK, Told
<1> QED
  BY <1>1, <1>2, AsideKeeps

-----------------------------------------------------------------------------
LEMMA InvInit == Init => Inv
<1> SUFFICES ASSUME Init PROVE Inv
  OBVIOUS
<1>1. /\ log = Empty /\ pc = "none" /\ todo = {} /\ batch = {} /\ agents = {} /\ waiting = {}
      /\ work = [u \in Units |-> "none"] /\ keys = [n \in Maps |-> {}]
      /\ runs = [u \in Units |-> 0] /\ cut = FALSE /\ decided = FALSE
      /\ phase = "open" /\ answer = "none"
  BY DEF Init
<1>2. log \in Log
  BY <1>1 DEF Log, Empty
<1>3. TypeOK
  BY <1>1, <1>2 DEF TypeOK
<1>4. Legal(log)
  <2>1. \A u \in Units : Empty.node[u] = "pending"
    BY DEF Empty
  <2> QED
    BY <1>1, <2>1, UnitFacts DEF Legal, Empty
<1>5. Untouched
  BY <1>1 DEF Untouched
<1>6. Place /\ Round /\ Told
  BY <1>1 DEF Place, Round, Told
<1>7. Tasks
  <2>1. \A u \in Units : work[u] = "none"
    BY <1>1
  <2>2. \A n \in Maps : keys[n] = {} /\ work[n] = "none"
    BY <1>1, <2>1, UnitFacts
  <2> QED
    BY <1>1, <2>1, <2>2 DEF Tasks, Running
<1> QED
  BY <1>3, <1>4, <1>5, <1>6, <1>7 DEF Inv

LEMMA NextKeeps == Inv /\ [Next]_vars => Inv'
<1> SUFFICES ASSUME Inv, [Next]_vars PROVE Inv'
  OBVIOUS
<1>1. CASE TaskStep
  BY <1>1, LoadKeeps, TurnKeeps, StillWaitingKeeps, RecheckedKeeps, RunNodesKeeps,
     AppendKeeps, RecordedKeeps, ConvergedKeeps, HostKeeps DEF TaskStep
<1>2. CASE \E u \in Units : NodeStep(u)
  BY <1>2, NodeStepKeeps
<1>3. CASE \E c \in Callers : Call(c)
  BY <1>3, CallKeeps
<1>4. CASE StoreFails \/ Cancel \/ Close \/ Closed \/ Approve \/ Crash
  BY <1>4, StoreFailsKeeps, CancelKeeps, HostKeeps, CrashKeeps
<1>5. CASE UNCHANGED vars
  BY <1>5, StutterKeeps
<1> QED
  BY <1>1, <1>2, <1>3, <1>4, <1>5 DEF Next

(* The inductive invariant of a run: what the task knows of the stream at  *)
(* each await holds whatever fails, is cancelled or dies around it         *)
(* (WorkflowService._run, _run_ready).                                     *)
THEOREM InvHolds == Spec => []Inv
<1> QED
  BY InvInit, NextKeeps, PTL DEF Spec

(* Every variable keeps its type, for any graph, callers and troubles.     *)
THEOREM TypeHolds == Spec => []TypeOK
<1>1. Inv => TypeOK
  BY DEF Inv
<1> QED
  BY <1>1, InvHolds, PTL

(* The stream is always one the projection reads, and a run that says it   *)
(* completed has every node and every announced child completed            *)
(* (_require_dag_completed()).                                             *)
THEOREM HistoryHolds == Spec => []HistoryIsReadable
<1>1. Inv => HistoryIsReadable
  BY UnitFacts DEF Inv, Legal, HistoryIsReadable
<1> QED
  BY <1>1, InvHolds, PTL

(* No caller is let go while a node of its run is at work or its agent     *)
(* alive, and what it is told is so (_converge_all(), _owned()).           *)
THEOREM AnswersHold == Spec => []AnswersMatchHistory
<1>1. Inv => AnswersMatchHistory
  <2> SUFFICES ASSUME Inv PROVE AnswersMatchHistory
    OBVIOUS
  <2>1. phase = "closed" => pc \in {"none", "done"}
    BY DEF Inv, Told
  <2>2. pc \in {"none", "done"} => Quiet
    BY Idle DEF Quiet
  <2> QED
    BY <2>1, <2>2 DEF Inv, Told, AnswersMatchHistory
<1> QED
  BY <1>1, InvHolds, PTL

-----------------------------------------------------------------------------
(* Work is begun by the task alone.                                        *)
LEMMA BeginsInRound ==
    ASSUME Inv, [Next]_vars, NEW u \in Units, WorkBegins(u)
    PROVE  RunNodes /\ u \in batch
<1>1. work \in [Units -> {"none", "busy", "live", "leave-ok", "leave-failed", "leave-cut",
                          "ok", "failed", "cut", "wait"}]
  BY DEF Inv, TypeOK
<1>2. work' # work /\ work[u] # "busy" /\ work'[u] = "busy"
  BY DEF WorkBegins
<1>3. ASSUME NEW x \in Units, NodeStep(x) PROVE FALSE
  <2>1. \E w \in {"live", "leave-ok", "leave-failed", "leave-cut", "ok", "failed", "cut", "wait"} :
            Reaches(x, w)
    <3>1. CASE CreateAgent(x)
      BY <3>1 DEF CreateAgent
    <3>2. CASE Report(x)
      BY <3>2 DEF Report
    <3>3. CASE DisposeAgent(x)
      BY <3>3 DEF DisposeAgent
    <3>4. CASE Expand(x)
      BY <3>4 DEF Expand
    <3>5. CASE Answer(x)
      BY <3>5 DEF Answer
    <3> QED
      BY <1>3, <3>1, <3>2, <3>3, <3>4, <3>5 DEF NodeStep
  <2>2. PICK w \in {"live", "leave-ok", "leave-failed", "leave-cut", "ok", "failed", "cut", "wait"} :
            Reaches(x, w)
    BY <2>1
  <2>3. work'[u] = IF u = x THEN w ELSE work[u]
    BY <1>1, <2>2 DEF Reaches
  <2> QED
    BY <1>2, <2>3
<1>4. ASSUME Crash PROVE FALSE
  BY <1>2, <1>4 DEF Crash
<1>5. Load \/ Turn \/ StillWaiting \/ Rechecked \/ Append \/ Recorded \/ Converged => work' = work
  BY DEF Load, Turn, StillWaiting, Rechecked, Append, Recorded, Converged, nodes
<1>6. Return \/ StoreFails \/ Cancel \/ Close \/ Closed \/ Approve => work' = work
  BY DEF Return, StoreFails, Cancel, Close, Closed, Approve, nodes
<1>7. ASSUME NEW c \in Callers, Call(c) PROVE work' = work
  BY <1>7 DEF Call, nodes
<1>8. UNCHANGED vars => work' = work
  BY DEF vars
<1>9. RunNodes
  BY <1>2, <1>3, <1>4, <1>5, <1>6, <1>7, <1>8 DEF Next, TaskStep
<1> QED
  BY <1>2, <1>9 DEF RunNodes

(* The work of a node is begun once, with its start on record and all it   *)
(* builds on durably completed, over all advances and crashes (the start   *)
(* facts of _run_ready(), rebuild()'s ready nodes).                        *)
THEOREM WorkHolds == Spec => WorkIsOnRecord
<1>1. ASSUME Inv, [Next]_vars, NEW u \in Units, WorkBegins(u)
      PROVE  /\ runs[u] = 0 /\ Supported(u)
             /\ log.node[u] = "running" /\ log.end = "none"
  <2>1. RunNodes /\ u \in batch
    BY <1>1, BeginsInRound
  <2>2. pc = "start" /\ todo = {}
    BY <2>1 DEF RunNodes
  <2> QED
    BY <1>1, <2>1, <2>2 DEF Inv, Round, Place
<1>2. Inv /\ [Next]_vars =>
        [\A u \in Units : WorkBegins(u) =>
            /\ runs[u] = 0 /\ Supported(u)
            /\ log.node[u] = "running" /\ log.end = "none"]_vars
  BY <1>1
<1> QED
  BY <1>2, InvHolds, PTL DEF Spec, WorkIsOnRecord

(* Whoever may have left something behind has the last word: nothing is    *)
(* added to the stream of a run with a node that is started, has no        *)
(* terminal and that nobody works on (_require_continuable()).             *)
THEOREM OrphansHold == Spec => NothingFollowsAnOrphan
<1>1. ASSUME Inv, Next, log' # log
      PROVE  Appending
  <2>1. Load \/ Turn \/ StillWaiting \/ Rechecked \/ RunNodes \/ Recorded \/ Converged
        \/ Return => log' = log
    BY DEF Load, Turn, StillWaiting, Rechecked, RunNodes, Recorded, Converged, Return
  <2>2. ASSUME NEW u \in Units, NodeStep(u) PROVE log' = log
    BY <2>2 DEF NodeStep, CreateAgent, Report, DisposeAgent, Expand, Answer
  <2>3. ASSUME NEW c \in Callers, Call(c) PROVE log' = log
    BY <2>3 DEF Call
  <2>4. Close \/ Closed \/ Approve \/ Crash => log' = log
    BY DEF Close, Closed, Approve, Crash
  <2>5. StoreFails \/ Cancel => Appending \/ log' = log
    BY DEF StoreFails, Cancel
  <2>6. Append => Appending
    BY DEF Append
  <2> QED
    BY <1>1, <2>1, <2>2, <2>3, <2>4, <2>5, <2>6 DEF Next, TaskStep
<1>2. ASSUME Inv, Appending
      PROVE  Orphans = {}
  <2>1. CASE pc = "begin"
    <3>1. log = Empty
      BY <1>2, <2>1 DEF Inv, Place, Legal
    <3> QED
      BY <3>1 DEF Empty, Orphans
  <2>2. CASE pc \in {"recheck", "failing", "finish"}
    BY <1>2, <2>2 DEF Inv, Place, RequireContinuable, Orphans
  <2>3. CASE pc = "start"
    BY <1>2, <2>3 DEF Inv, Round, Running0, Orphans
  <2>4. CASE pc = "record"
    BY <1>2, <2>4 DEF Inv, Round, Unrecorded, Orphans
  <2> QED
    BY <1>2, <2>1, <2>2, <2>3, <2>4 DEF Appending
<1>3. Inv /\ [Next]_vars => [log' # log => Orphans = {}]_vars
  BY <1>1, <1>2
<1> QED
  BY <1>3, InvHolds, PTL DEF Spec, NothingFollowsAnOrphan
=============================================================================
