--------------------- MODULE SupervisorLifecycleProofs ---------------------
(***************************************************************************)
(* Proofs about SupervisorLifecycle, for any forest of agents, any callers *)
(* and any number of calls, cancellations and faults.                      *)
(***************************************************************************)
EXTENDS SupervisorLifecycle, TLAPS

-----------------------------------------------------------------------------
(* Whoever is on record has an owner on record, and only who is on record  *)
(* can be installed or built.                                              *)
Recorded ==
    /\ Owners(dir)
    /\ \A a \in Agents :
          /\ act[a].st # "none" => a \in dir
          /\ make[a].at \in {"provision", "append"} => Owner[a] \subseteq dir
          /\ make[a].at \in {"install", "lose", "check", "building", "built"} => a \in dir
          /\ build[a].at # "none" => a \in dir

(* The await a call stands at belongs to its operation.                    *)
Waits ==
    \A c \in Callers :
       /\ call[c].op = "none"    => call[c].at = "none"
       /\ call[c].op = "create"  => call[c].at \in {"lookup", "admit", "join", "compWait", "retry"}
       /\ call[c].op = "wake"    => /\ call[c].at \in {"lookup", "admit", "check", "building", "built"}
                                    /\ call[c].on \in dir
       /\ call[c].op = "dispose" => call[c].at \in {"tree", "clean", "closeWait"}
       /\ call[c].op = "close"   => call[c].at = "closeWait"
       /\ call[c].op \in {"create", "wake", "dispose"} => call[c].on \in Agents

(* A creation under way has waiters, or its compensation; a build has a    *)
(* caller or a creation behind it.  So each has an admission.              *)
Shared ==
    \A a \in Agents :
       /\ \A c \in Callers : c \in make[a].waiters <=> call[c].at = "join" /\ call[c].on = a
       /\ make[a].at # "none" /\ comp[a] = "none" => make[a].waiters # {}
       /\ comp[a] # "none" => make[a].at = "ok" /\ make[a].waiters = {}
       /\ make[a].at \notin {"ok", "fail"} => ~make[a].delivered
       /\ build[a].at # "none" =>
             make[a].at = "building" \/ \E c \in Callers : call[c].at = "building" /\ call[c].on = a
       /\ make[a].at \in {"ok", "lose"} /\ make[a].waiters # {} => act[a].st # "none"

(* A quiescent scope stays so, and what its disposal has dealt with is     *)
(* dealt with.                                                             *)
Fences ==
    \A t \in Agents :
       /\ tree[t].at \in {"scope", "cancel", "joining", "reload", "clean"} => t \in tree[t].members
       /\ tree[t].at \in {"reload", "clean"} => Inside(tree[t].members) = {}
       /\ tree[t].at = "clean" => /\ tree[t].todo \subseteq Affected(t)
                                  /\ \A x \in Affected(t) \ tree[t].todo : Over(x)
       /\ tree[t].bad => used.faults > 0

Cleaner(a) == \/ \E t \in Agents : tree[t].at = "clean" /\ a \in tree[t].todo
              \/ close.at = "clean" /\ a \in close.todo

(* A cleanup has somebody who waits for it, and nothing below its agent.   *)
Cleanups ==
    \A a \in Agents :
       /\ Cleaning(a) => Cleaner(a) /\ \A y \in Agents : a \in Owner[y] => act[y].st = "none"
       /\ clean[a] = "stop" <=> act[a].st = "stopping"
       /\ Over(a) => act[a].st = "none"
       /\ clean[a] = "fail" => used.faults > 0
       /\ act[a].st = "none" => act[a] = NoAct

(* The close closes admissions, then trees, then activations.              *)
Closes ==
    /\ close.at \in {"trees", "dir", "clean", "calls", "done"} => Inside(Agents) = {}
    /\ close.at \in {"dir", "clean", "calls", "done"} => \A t \in Agents : tree[t].at = "none"
    /\ close.at \in {"clean", "calls", "done"} =>
          \A a \in Agents \ close.todo : act[a].st = "none" /\ ~Cleaning(a)
    /\ close.at \in {"calls", "done"} => close.todo = {}

(* An activation nobody keeps is that of a creation that succeeded and has *)
(* not been delivered, and an abandoned one is being compensated.          *)
Lonely(a) == act[a].st = "live" /\ ~act[a].kept

Keeps ==
    used.faults = 0 =>
       \A a \in Agents :
          /\ Lonely(a) => make[a].at = "ok" /\ ~make[a].delivered /\ comp[a] # "end"
          /\ act[a].gone => comp[a] \in {"start", "tree", "close"}
          /\ comp[a] # "failed"

Owned ==
    \A a \in Agents : \A p \in Owner[a] : /\ act[a].st # "none" => act[p].st # "none"
                                          /\ Installed(a) => act[p].st # "stopping"

Inv == TypeOK /\ Recorded /\ Waits /\ Shared /\ Fences /\ Cleanups /\ Closes
       /\ Owned /\ Keeps

-----------------------------------------------------------------------------
(* An agent is in its lineage; a lineage contains that of each of its      *)
(* members; and no owner is below the agent it owns.                       *)
LEMMA LineageIs ==
    /\ \A a \in Agents : Lineage[a] \subseteq Agents /\ a \in Lineage[a]
    /\ \A a \in Agents : \A x \in Lineage[a] : Lineage[x] \subseteq Lineage[a]
    /\ \A a \in Agents : \A p \in Owner[a] : p \in Agents /\ p \in Lineage[a] /\ p # a
    /\ \A a \in Agents, S \in SUBSET Agents : a \in S /\ Owners(S) => Lineage[a] \subseteq S
<1>0. /\ Owner \in [Agents -> SUBSET Agents]
      /\ \A a \in Agents : a \notin UNION {Lineage[p] : p \in Owner[a]}
  BY SupervisorLifecycleAssumption
<1>1. \A a \in Agents : Lineage[a] =
         {x \in Agents : \A S \in SUBSET Agents : a \in S /\ Owners(S) => x \in S}
  BY DEF Lineage
<1>2. \A a \in Agents : Lineage[a] \subseteq Agents /\ a \in Lineage[a]
  BY <1>1
<1>3. \A a \in Agents, S \in SUBSET Agents : a \in S /\ Owners(S) => Lineage[a] \subseteq S
  BY <1>1
<1>4. \A a \in Agents : Owners(Lineage[a])
  <2> SUFFICES ASSUME NEW a \in Agents, NEW x \in Lineage[a], NEW p \in Owner[x]
               PROVE  p \in Lineage[a]
    BY DEF Owners
  <2>1. x \in Agents /\ p \in Agents
    BY <1>0, <1>2
  <2>2. ASSUME NEW S \in SUBSET Agents, a \in S, Owners(S) PROVE p \in S
    <3>1. x \in S
      BY <1>1, <2>2
    <3> QED
      BY <2>2, <3>1 DEF Owners
  <2> QED
    BY <1>1, <2>1, <2>2
<1>5. \A a \in Agents : \A x \in Lineage[a] : Lineage[x] \subseteq Lineage[a]
  BY <1>2, <1>3, <1>4
<1>6. ASSUME NEW a \in Agents, NEW p \in Owner[a]
      PROVE  p \in Agents /\ p \in Lineage[a] /\ p # a
  <2>1. p \in Agents
    BY <1>0
  <2>2. p \in Lineage[a]
    BY <1>2, <1>4 DEF Owners
  <2>3. a \notin Lineage[p]
    BY <1>0
  <2> QED
    BY <1>2, <2>1, <2>2, <2>3
<1> QED
  BY <1>2, <1>3, <1>5, <1>6

-----------------------------------------------------------------------------
(* Every step preserves the types.                                         *)
Acts  == [st : {"none", "live", "faulted", "stopping"}, kept : BOOLEAN, gone : BOOLEAN]
Made  == [op : {"create", "wake", "dispose", "close"}, on : Agents \cup {"none"},
          at : {"lookup", "admit", "join", "compWait", "retry", "check", "building",
                "built", "tree", "clean", "closeWait"}, hit : BOOLEAN]
Makes == [at : {"none", "dir", "provision", "append", "install", "discard", "lose",
                "check", "building", "built", "ok", "fail"},
          hit : BOOLEAN, waiters : SUBSET Callers, delivered : BOOLEAN]
Builds == [at : {"none", "build", "discard", "lose"}, hit : BOOLEAN]
Trees  == [at : {"none", "dir", "scope", "cancel", "joining", "reload", "clean"},
           members : SUBSET Agents, joins : SUBSET Jobs, todo : SUBSET Agents, bad : BOOLEAN]
Cleans == {"none", "pend", "join", "stop", "ok", "fail"}
Comps  == {"none", "start", "tree", "close", "end", "failed"}
Closings == [at : {"none", "begin", "cancel", "joining", "trees", "dir", "clean", "calls", "done"},
             joins : SUBSET Jobs, todo : SUBSET Agents]
Counts == [calls : 0 .. MaxCalls, cancels : 0 .. MaxCancels, faults : 0 .. MaxFaults]

LEMMA TypeIs ==
    TypeOK <=> /\ dir \in SUBSET Agents
               /\ act \in [Agents -> Acts]
               /\ call \in [Callers -> {NoCall} \cup Made]
               /\ make \in [Agents -> Makes]
               /\ build \in [Agents -> Builds]
               /\ comp \in [Agents -> Comps]
               /\ tree \in [Agents -> Trees]
               /\ clean \in [Agents -> Cleans]
               /\ close \in Closings
               /\ used \in Counts
BY DEF TypeOK, Acts, Made, Makes, Builds, Trees, Cleans, Comps, Closings, Counts

LEMMA Primed ==
    TypeOK' <=> /\ dir' \in SUBSET Agents
                /\ act' \in [Agents -> Acts]
                /\ call' \in [Callers -> {NoCall} \cup Made]
                /\ make' \in [Agents -> Makes]
                /\ build' \in [Agents -> Builds]
                /\ comp' \in [Agents -> Comps]
                /\ tree' \in [Agents -> Trees]
                /\ clean' \in [Agents -> Cleans]
                /\ close' \in Closings
                /\ used' \in Counts
BY DEF TypeOK, Acts, Made, Makes, Builds, Trees, Cleans, Comps, Closings, Counts

LEMMA Counted ==
    ASSUME TypeOK
    PROVE  /\ Fault => used' \in Counts
           /\ used.calls < MaxCalls /\ Calls => used' \in Counts
           /\ used.cancels < MaxCancels /\ used' = [used EXCEPT !.cancels = @ + 1] => used' \in Counts
BY SupervisorLifecycleAssumption, TypeIs DEF Fault, Calls, Counts

(* Calls move, return and are handed on.                                   *)
LEMMA CallTypes ==
    ASSUME TypeOK, NEW c \in Callers
    PROVE  /\ Return(c) => call' \in [Callers -> {NoCall} \cup Made]
           /\ \A at \in {"lookup", "admit", "join", "compWait", "retry", "check", "building", "built"} :
                 call[c].at # "none" /\ Go(c, at) => call' \in [Callers -> {NoCall} \cup Made]
           /\ call[c] # NoCall /\ call' = [call EXCEPT ![c].hit = TRUE]
                 => call' \in [Callers -> {NoCall} \cup Made]
           /\ \A v \in Made : call' = [call EXCEPT ![c] = v] => call' \in [Callers -> {NoCall} \cup Made]
<1> USE TypeIs
<1>1. Return(c) => call' \in [Callers -> {NoCall} \cup Made]
  BY DEF Return
<1>2. ASSUME NEW at \in {"lookup", "admit", "join", "compWait", "retry", "check", "building", "built"},
             call[c].at # "none", Go(c, at)
      PROVE  call' \in [Callers -> {NoCall} \cup Made]
  <2>1. call[c] \in Made
    BY <1>2 DEF NoCall
  <2>2. [call[c] EXCEPT !.at = at] \in Made
    BY <2>1, <1>2 DEF Made
  <2> QED
    BY <2>2, <1>2 DEF Go
<1>3. ASSUME call[c] # NoCall, call' = [call EXCEPT ![c].hit = TRUE]
      PROVE  call' \in [Callers -> {NoCall} \cup Made]
  <2>1. call[c] \in Made
    BY <1>3
  <2>2. [call[c] EXCEPT !.hit = TRUE] \in Made
    BY <2>1, <1>3 DEF Made
  <2> QED
    BY <2>2, <1>3
<1>4. \A v \in Made : call' = [call EXCEPT ![c] = v] => call' \in [Callers -> {NoCall} \cup Made]
  OBVIOUS
<1> QED
  BY <1>1, <1>2, <1>3, <1>4

LEMMA EndTypes ==
    ASSUME TypeOK, NEW a \in Agents,
           call' = Hand("tree", a, Ends) \/ call' = Hand("clean", a, Ends)
    PROVE  call' \in [Callers -> {NoCall} \cup Made]
BY TypeIs DEF Hand, Ends

LEMMA MakeTypes ==
    ASSUME TypeOK, NEW a \in Agents
    PROVE  /\ \A at \in {"provision", "append", "install", "discard", "lose", "check", "building",
                         "built", "ok", "fail"} : Make(a, at) => make' \in [Agents -> Makes]
           /\ make' = [make EXCEPT ![a].hit = TRUE] => make' \in [Agents -> Makes]
           /\ make' = [make EXCEPT ![a] = NoMake] => make' \in [Agents -> Makes]
<1> USE TypeIs
<1>0. make[a] \in Makes
  OBVIOUS
<1>1. ASSUME NEW at \in {"provision", "append", "install", "discard", "lose", "check", "building",
                         "built", "ok", "fail"}, Make(a, at)
      PROVE  make' \in [Agents -> Makes]
  <2>1. [make[a] EXCEPT !.at = at] \in Makes
    BY <1>0, <1>1 DEF Makes
  <2> QED
    BY <1>1, <2>1 DEF Make
<1>2. ASSUME make' = [make EXCEPT ![a].hit = TRUE] PROVE make' \in [Agents -> Makes]
  <2>1. [make[a] EXCEPT !.hit = TRUE] \in Makes
    BY <1>0 DEF Makes
  <2> QED
    BY <1>2, <2>1
<1>3. NoMake \in Makes
  BY DEF NoMake, Makes
<1> QED
  BY <1>1, <1>2, <1>3

LEMMA BuildTypes ==
    ASSUME TypeOK, NEW a \in Agents
    PROVE  /\ \A at \in {"build", "discard", "lose"} :
                 build' = [build EXCEPT ![a].at = at] => build' \in [Agents -> Builds]
           /\ build' = [build EXCEPT ![a].hit = TRUE] => build' \in [Agents -> Builds]
           /\ build' = [build EXCEPT ![a] = NoBuild] => build' \in [Agents -> Builds]
<1> USE TypeIs
<1>0. build[a] \in Builds
  OBVIOUS
<1>1. ASSUME NEW at \in {"build", "discard", "lose"}, build' = [build EXCEPT ![a].at = at]
      PROVE  build' \in [Agents -> Builds]
  <2>1. [build[a] EXCEPT !.at = at] \in Builds
    BY <1>0, <1>1 DEF Builds
  <2> QED
    BY <1>1, <2>1
<1>2. ASSUME build' = [build EXCEPT ![a].hit = TRUE] PROVE build' \in [Agents -> Builds]
  <2>1. [build[a] EXCEPT !.hit = TRUE] \in Builds
    BY <1>0 DEF Builds
  <2> QED
    BY <1>2, <2>1
<1>3. NoBuild \in Builds
  BY DEF NoBuild, Builds
<1> QED
  BY <1>1, <1>2, <1>3

LEMMA StruckTypes ==
    ASSUME TypeOK, NEW j \in Jobs, Struck(j)
    PROVE  make' \in [Agents -> Makes] /\ build' \in [Agents -> Builds]
<1>1. j[2] \in Agents
  BY DEF Jobs
<1> QED
  BY <1>1, MakeTypes, BuildTypes, TypeIs DEF Struck

LEMMA ActTypes ==
    ASSUME TypeOK, NEW a \in Agents
    PROVE  /\ \A k \in BOOLEAN : act' = [act EXCEPT ![a].kept = k] => act' \in [Agents -> Acts]
           /\ \A k, g \in BOOLEAN :
                 act' = [act EXCEPT ![a].kept = k, ![a].gone = g] => act' \in [Agents -> Acts]
           /\ \A s \in {"stopping", "faulted"} :
                 act' = [act EXCEPT ![a].st = s] => act' \in [Agents -> Acts]
           /\ \A k \in BOOLEAN : Install(a, k) => act' \in [Agents -> Acts]
           /\ act' = [act EXCEPT ![a] = NoAct] => act' \in [Agents -> Acts]
<1> USE TypeIs
<1>0. act[a] \in Acts
  OBVIOUS
<1>1. ASSUME NEW k \in BOOLEAN, act' = [act EXCEPT ![a].kept = k] PROVE act' \in [Agents -> Acts]
  <2>1. [act[a] EXCEPT !.kept = k] \in Acts
    BY <1>0 DEF Acts
  <2> QED
    BY <1>1, <2>1
<1>2. ASSUME NEW k \in BOOLEAN, NEW g \in BOOLEAN, act' = [act EXCEPT ![a].kept = k, ![a].gone = g]
      PROVE  act' \in [Agents -> Acts]
  <2>1. [[act[a] EXCEPT !.kept = k] EXCEPT !.gone = g] \in Acts
    BY <1>0 DEF Acts
  <2> QED
    BY <1>2, <2>1
<1>3. ASSUME NEW s \in {"stopping", "faulted"}, act' = [act EXCEPT ![a].st = s]
      PROVE  act' \in [Agents -> Acts]
  <2>1. [act[a] EXCEPT !.st = s] \in Acts
    BY <1>0, <1>3 DEF Acts
  <2> QED
    BY <1>3, <2>1
<1>4. ASSUME NEW k \in BOOLEAN, Install(a, k) PROVE act' \in [Agents -> Acts]
  <2>1. [st |-> "live", kept |-> k, gone |-> FALSE] \in Acts
    BY DEF Acts
  <2> QED
    BY <1>4, <2>1 DEF Install
<1>5. NoAct \in Acts
  BY DEF NoAct, Acts
<1> QED
  BY <1>1, <1>2, <1>3, <1>4, <1>5

LEMMA TreeTypes ==
    ASSUME TypeOK, NEW t \in Agents
    PROVE  /\ \A at \in {"dir", "reload"} :
                 tree' = [tree EXCEPT ![t].at = at] => tree' \in [Agents -> Trees]
           /\ tree' = [tree EXCEPT ![t] = NoTree] => tree' \in [Agents -> Trees]
<1>0. tree[t] \in Trees /\ tree \in [Agents -> Trees]
  BY TypeIs
<1>1. ASSUME NEW at \in {"dir", "reload"}, tree' = [tree EXCEPT ![t].at = at]
      PROVE  tree' \in [Agents -> Trees]
  <2>1. [tree[t] EXCEPT !.at = at] \in Trees
    BY <1>0, <1>1 DEF Trees
  <2> QED
    BY <1>0, <1>1, <2>1
<1>7. NoTree \in Trees
  BY DEF NoTree, Trees
<1> QED
  BY <1>0, <1>1, <1>7

LEMMA TreeScopes ==
    ASSUME TypeOK, NEW t \in Agents, NEW S \in SUBSET Agents,
           tree' = [tree EXCEPT ![t].at = "scope", ![t].members = S]
    PROVE  tree' \in [Agents -> Trees]
<1>0. tree[t] \in Trees /\ tree \in [Agents -> Trees]
  BY TypeIs
<1>1. [[tree[t] EXCEPT !.at = "scope"] EXCEPT !.members = S] \in Trees
  BY <1>0 DEF Trees
<1> QED
  BY <1>0, <1>1

LEMMA TreeJoins ==
    ASSUME TypeOK, NEW t \in Agents, NEW J \in SUBSET Jobs,
           \/ tree' = [tree EXCEPT ![t].at = "cancel", ![t].joins = J]
           \/ \E S \in SUBSET Agents :
                 tree' = [tree EXCEPT ![t].at = "joining", ![t].joins = J, ![t].todo = S]
    PROVE  tree' \in [Agents -> Trees]
<1>0. tree[t] \in Trees /\ tree \in [Agents -> Trees]
  BY TypeIs
<1>1. ASSUME tree' = [tree EXCEPT ![t].at = "cancel", ![t].joins = J]
      PROVE  tree' \in [Agents -> Trees]
  <2>1. [[tree[t] EXCEPT !.at = "cancel"] EXCEPT !.joins = J] \in Trees
    BY <1>0 DEF Trees
  <2> QED
    BY <1>0, <1>1, <2>1
<1>2. ASSUME NEW S \in SUBSET Agents,
             tree' = [tree EXCEPT ![t].at = "joining", ![t].joins = J, ![t].todo = S]
      PROVE  tree' \in [Agents -> Trees]
  <2>1. [[[tree[t] EXCEPT !.at = "joining"] EXCEPT !.joins = J] EXCEPT !.todo = S] \in Trees
    BY <1>0 DEF Trees
  <2> QED
    BY <1>0, <1>2, <2>1
<1> QED
  BY <1>1, <1>2

LEMMA TreeWorks ==
    ASSUME TypeOK, NEW t \in Agents, NEW S \in SUBSET Agents,
           \/ \E at \in {"cancel", "clean"} : tree' = [tree EXCEPT ![t].at = at, ![t].todo = S]
           \/ \E b \in BOOLEAN : tree' = [tree EXCEPT ![t].todo = S, ![t].bad = b]
    PROVE  tree' \in [Agents -> Trees]
<1>0. tree[t] \in Trees /\ tree \in [Agents -> Trees]
  BY TypeIs
<1>1. ASSUME NEW at \in {"cancel", "clean"}, tree' = [tree EXCEPT ![t].at = at, ![t].todo = S]
      PROVE  tree' \in [Agents -> Trees]
  <2>1. [[tree[t] EXCEPT !.at = at] EXCEPT !.todo = S] \in Trees
    BY <1>0, <1>1 DEF Trees
  <2> QED
    BY <1>0, <1>1, <2>1
<1>2. ASSUME NEW b \in BOOLEAN, tree' = [tree EXCEPT ![t].todo = S, ![t].bad = b]
      PROVE  tree' \in [Agents -> Trees]
  <2>1. [[tree[t] EXCEPT !.todo = S] EXCEPT !.bad = b] \in Trees
    BY <1>0 DEF Trees
  <2> QED
    BY <1>0, <1>2, <2>1
<1> QED
  BY <1>1, <1>2

(* Whom a call is about, and which operation it belongs to.                *)
LEMMA About ==
    ASSUME TypeOK, Waits, NEW c \in Callers, call[c].at # "none"
    PROVE  /\ call[c] # NoCall
           /\ call[c].at \notin {"tree", "clean", "closeWait"} => call[c].on \in Agents
           /\ call[c].at \in {"join", "compWait", "retry"} => call[c].op = "create"
           /\ call[c].at \in {"check", "building", "built"} => call[c].op = "wake"
           /\ call[c].at \in {"lookup", "admit"} => call[c].op \in {"create", "wake"}
<1>1. call[c] # NoCall
  BY DEF NoCall
<1>2. call[c].op \in {"create", "wake", "dispose", "close"}
  BY <1>1 DEF TypeOK
<1> QED
  BY <1>1, <1>2 DEF Waits

LEMMA ActivateTypes ==
    ASSUME TypeOK, NEW a \in Agents, Activate(a)
    PROVE  act' \in [Agents -> Acts] /\ build' \in [Agents -> Builds] /\ clean' \in [Agents -> Cleans]
<1>1. clean' \in [Agents -> Cleans]
  BY TypeIs DEF Activate, Cleans
<1>2. CASE Installed(a)
  BY <1>1, <1>2, ActTypes, TypeIs DEF Activate
<1>3. CASE ~Installed(a)
  <2>1. build[a] \in Builds /\ build \in [Agents -> Builds]
    BY TypeIs
  <2>2. [build[a] EXCEPT !.at = IF @ = "none" THEN "build" ELSE @] \in Builds
    BY <2>1 DEF Builds
  <2>3. build' = [build EXCEPT ![a].at = IF @ = "none" THEN "build" ELSE @]
    BY <1>3 DEF Activate
  <2>4. build' \in [Agents -> Builds]
    BY <2>1, <2>2, <2>3
  <2> QED
    BY <1>1, <2>4, <1>3, TypeIs DEF Activate
<1> QED
  BY <1>2, <1>3

LEMMA ProceedTypes ==
    ASSUME TypeOK, Waits, NEW c \in Callers, Proceed(c)
    PROVE  TypeOK'
<1> DEFINE a == call[c].on
<1>1. CASE Lookup(c)
  <2>1. call[c].at # "none"
    BY <1>1 DEF Lookup
  <2>2. Go(c, "admit") \/ Return(c)
    BY <1>1 DEF Lookup
  <2>3. call' \in [Callers -> {NoCall} \cup Made]
    BY <2>1, <2>2, CallTypes
  <2> QED
    BY <1>1, <2>3, TypeIs, Primed DEF Lookup
<1>2. CASE Refuse(c)
  <2>3. call' \in [Callers -> {NoCall} \cup Made]
    BY <1>2, CallTypes DEF Refuse
  <2> QED
    BY <1>2, <2>3, TypeIs, Primed DEF Refuse
<1>3. CASE Admit(c)
  <2>1. call[c].at # "none" /\ a \in Agents
    BY <1>3, About DEF Admit
  <2>2. Go(c, "check") \/ Return(c) \/ Go(c, "retry") \/ Go(c, "join")
    BY <1>3 DEF Admit
  <2>3. call' \in [Callers -> {NoCall} \cup Made]
    BY <2>1, <2>2, CallTypes
  <2>4. make' = make \/ JoinCreate(c, a)
    BY <1>3 DEF Admit
  <2>5. ASSUME JoinCreate(c, a) PROVE make' \in [Agents -> Makes]
    <3>1. make[a] \in Makes /\ make \in [Agents -> Makes]
      BY <2>1, TypeIs
    <3>2. [[make[a] EXCEPT !.at = IF @ = "none" THEN "dir" ELSE @] EXCEPT !.waiters = @ \cup {c}] \in Makes
      BY <3>1 DEF Makes
    <3> QED
      BY <3>1, <3>2, <2>5, <2>1 DEF JoinCreate
  <2>6. make' \in [Agents -> Makes]
    BY <2>4, <2>5, TypeIs
  <2> QED
    BY <1>3, <2>3, <2>6, TypeIs, Primed DEF Admit
<1>4. CASE Abort(c)
  <2>3. call' \in [Callers -> {NoCall} \cup Made]
    BY <1>4, CallTypes DEF Abort
  <2> QED
    BY <1>4, <2>3, TypeIs, Primed DEF Abort
<1>5. CASE Check(c)
  <2>1. call[c].at # "none" /\ a \in Agents
    BY <1>5, About DEF Check
  <2>2. Return(c) \/ Go(c, "building")
    BY <1>5 DEF Check
  <2>3. call' \in [Callers -> {NoCall} \cup Made]
    BY <2>1, <2>2, CallTypes
  <2>4. UNCHANGED <<act, build, clean>> \/ Activate(a)
    BY <1>5 DEF Check
  <2>5. Activate(a) => /\ act' \in [Agents -> Acts]
                       /\ build' \in [Agents -> Builds]
                       /\ clean' \in [Agents -> Cleans]
    BY <2>1, ActivateTypes
  <2> QED
    BY <1>5, <2>3, <2>4, <2>5, TypeIs, Primed DEF Check
<1>6. CASE Post(c)
  <2>1. call[c].at # "none" /\ a \in Agents
    BY <1>6, About DEF Post
  <2>2. Return(c) \/ Go(c, "check")
    BY <1>6 DEF Post
  <2>3. call' \in [Callers -> {NoCall} \cup Made]
    BY <2>1, <2>2, CallTypes
  <2>4. act' = act \/ act' = [act EXCEPT ![a].kept = act[a].kept \/ ~act[a].gone]
    BY <1>6, <2>1, TypeIs DEF Post
  <2>5. (act[a].kept \/ ~act[a].gone) \in BOOLEAN
    OBVIOUS
  <2>6. act' \in [Agents -> Acts]
    BY <2>1, <2>4, <2>5, ActTypes, TypeIs
  <2> QED
    BY <1>6, <2>3, <2>6, TypeIs, Primed DEF Post
<1>7. CASE Release(c)
  <2> DEFINE good      == make[a].at = "ok" /\ ~call[c].hit
             last      == make[a].waiters = {c}
             delivered == make[a].delivered \/ good
             abandon   == last /\ ~delivered /\ make[a].at = "ok" /\ ~act[a].kept /\ ~act[a].gone
  <2>1. call[c].at # "none" /\ a \in Agents
    BY <1>7, About DEF Release
  <2>2. Return(c) \/ Go(c, "compWait")
    BY <1>7 DEF Release
  <2>3. call' \in [Callers -> {NoCall} \cup Made]
    BY <2>1, <2>2, CallTypes
  <2>4. PICK k \in BOOLEAN, g \in BOOLEAN : act' = [act EXCEPT ![a].kept = k, ![a].gone = g]
    <3>1. act' = [act EXCEPT ![a].kept = act[a].kept \/ (good /\ act[a].st # "none"),
                             ![a].gone = act[a].gone \/ abandon]
      <4>1. act[a] \in Acts /\ act \in [Agents -> Acts]
        BY <2>1, TypeIs
      <4>2. act' = [act EXCEPT ![a].kept = @ \/ (good /\ act[a].st # "none"), ![a].gone = @ \/ abandon]
        BY <1>7 DEF Release
      <4> QED
        BY <4>1, <4>2, <2>1 DEF Acts
    <3>2. (act[a].kept \/ (good /\ act[a].st # "none")) \in BOOLEAN /\ (act[a].gone \/ abandon) \in BOOLEAN
      OBVIOUS
    <3> HIDE DEF good, abandon
    <3> QED
      BY <3>1, <3>2
  <2>5. act' \in [Agents -> Acts]
    BY <2>1, <2>4, ActTypes
  <2>6. comp' \in [Agents -> Comps]
    <3>1. comp' = comp \/ comp' = [comp EXCEPT ![a] = "start"]
      BY <1>7 DEF Release
    <3> QED
      BY <3>1, TypeIs DEF Comps
  <2>7. make' \in [Agents -> Makes]
    <3>1. make[a] \in Makes /\ make \in [Agents -> Makes]
      BY ONLY TypeOK, <2>1, TypeIs
    <3>2. make' = [make EXCEPT ![a] = NoMake]
          \/ make' = [make EXCEPT ![a].waiters = @ \ {c}, ![a].delivered = delivered]
      BY <1>7 DEF Release
    <3>3. [[make[a] EXCEPT !.waiters = @ \ {c}] EXCEPT !.delivered = delivered] \in Makes
      BY <3>1 DEF Makes
    <3>4. ASSUME make' = [make EXCEPT ![a].waiters = @ \ {c}, ![a].delivered = delivered]
          PROVE  make' \in [Agents -> Makes]
      <4> HIDE DEF delivered
      <4> QED
        BY <3>1, <3>3, <3>4, <2>1
    <3> QED
      BY <3>2, <3>4, <2>1, MakeTypes
  <2> QED
    BY <1>7, <2>3, <2>5, <2>6, <2>7, TypeIs, Primed DEF Release
<1> QED
  BY <1>1, <1>2, <1>3, <1>4, <1>5, <1>6, <1>7 DEF Proceed

LEMMA StartTypes ==
    ASSUME TypeOK, NEW c \in Callers, NEW a \in Agents,
           Begin(c, "create", a) \/ Begin(c, "wake", a) \/ BeginDispose(c, a)
    PROVE  TypeOK'
<1>1. ASSUME NEW op \in {"create", "wake"}, Begin(c, op, a) PROVE TypeOK'
  <2>1. [op |-> op, on |-> a, at |-> "lookup", hit |-> FALSE] \in Made
    BY DEF Made
  <2>2. call' \in [Callers -> {NoCall} \cup Made]
    BY <1>1, <2>1, CallTypes DEF Begin
  <2>3. used' \in Counts
    BY <1>1, Counted DEF Begin, MayCall
  <2> QED
    BY <1>1, <2>2, <2>3, TypeIs, Primed DEF Begin
<1>2. CASE BeginDispose(c, a)
  <2>1. /\ [op |-> "dispose", on |-> a, at |-> "clean", hit |-> FALSE] \in Made
        /\ [op |-> "dispose", on |-> a, at |-> "closeWait", hit |-> FALSE] \in Made
        /\ [op |-> "dispose", on |-> a, at |-> "tree", hit |-> FALSE] \in Made
    BY DEF Made
  <2>2. call' \in [Callers -> {NoCall} \cup Made]
    BY <1>2, <2>1, CallTypes DEF BeginDispose
  <2>3. used' \in Counts
    BY <1>2, Counted DEF BeginDispose, MayCall
  <2>4. tree' \in [Agents -> Trees]
    <3>1. tree' = tree \/ tree' = [tree EXCEPT ![a].at = "dir"]
      BY <1>2 DEF BeginDispose, StartTree
    <3> QED
      BY <3>1, TreeTypes, TypeIs
  <2> QED
    BY <1>2, <2>2, <2>3, <2>4, TypeIs, Primed DEF BeginDispose
<1> QED
  BY <1>1, <1>2

LEMMA SoloTypes ==
    ASSUME TypeOK, NEW c \in Callers, BeginClose(c) \/ Cancel(c)
    PROVE  TypeOK'
<1>1. CASE BeginClose(c)
  <2>1. [op |-> "close", on |-> "none", at |-> "closeWait", hit |-> FALSE] \in Made
    BY DEF Made
  <2>2. call' \in [Callers -> {NoCall} \cup Made]
    BY <1>1, <2>1, CallTypes DEF BeginClose
  <2>3. used' \in Counts
    BY <1>1, Counted DEF BeginClose
  <2>4. close' \in Closings
    <3>1. close \in Closings
      BY TypeIs
    <3> QED
      BY <3>1, <1>1 DEF BeginClose, Closings
  <2> QED
    BY <1>1, <2>2, <2>3, <2>4, TypeIs, Primed DEF BeginClose
<1>2. CASE Cancel(c)
  <2>1. call' \in [Callers -> {NoCall} \cup Made]
    BY <1>2, CallTypes DEF Cancel
  <2>2. used' \in Counts
    BY <1>2, Counted DEF Cancel
  <2> QED
    BY <1>2, <2>1, <2>2, TypeIs, Primed DEF Cancel
<1> QED
  BY <1>1, <1>2

LEMMA BuildEndTypes ==
    ASSUME TypeOK, NEW a \in Agents, NEW good \in BOOLEAN, BuildEnds(a, good)
    PROVE  /\ call' \in [Callers -> {NoCall} \cup Made]
           /\ make' \in [Agents -> Makes]
           /\ build' \in [Agents -> Builds]
<1>1. build' \in [Agents -> Builds]
  BY BuildTypes DEF BuildEnds
<1>2. call' \in [Callers -> {NoCall} \cup Made]
  <2>1. ASSUME NEW c \in Callers, call[c].at = "building"
        PROVE  [call[c] EXCEPT !.at = "built"] \in Made
    <3>1. call[c] \in Made
      BY <2>1, TypeIs DEF NoCall
    <3> QED
      BY <3>1 DEF Made
  <2>2. \A c \in Callers : call[c] \in {NoCall} \cup Made
    BY TypeIs
  <2>3. call' = [c \in Callers |-> IF call[c].at = "building" /\ call[c].on = a
                                   THEN IF good /\ ~call[c].hit THEN [call[c] EXCEPT !.at = "built"]
                                        ELSE NoCall
                                   ELSE call[c]]
    BY DEF BuildEnds, Hand
  <2> QED
    BY <2>1, <2>2, <2>3
<1>3. make' \in [Agents -> Makes]
  <2>1. make' = make \/ Make(a, "built") \/ Make(a, "fail")
    BY TypeIs DEF BuildEnds, Make
  <2> QED
    BY <2>1, MakeTypes, TypeIs
<1> QED
  BY <1>1, <1>2, <1>3

LEMMA BuildStepTypes ==
    ASSUME TypeOK, NEW a \in Agents, BuildStep(a)
    PROVE  TypeOK'
<1>1. used' \in Counts
  BY Counted, TypeIs DEF BuildStep
<1>2. act' \in [Agents -> Acts]
  <2>1. act' = act \/ Install(a, TRUE)
    BY DEF BuildStep
  <2> QED
    BY <2>1, ActTypes, TypeIs
<1>3. /\ call' \in [Callers -> {NoCall} \cup Made]
      /\ make' \in [Agents -> Makes]
      /\ build' \in [Agents -> Builds]
  <2>1. \/ \E good \in BOOLEAN : BuildEnds(a, good)
        \/ /\ \E at \in {"discard", "lose"} : build' = [build EXCEPT ![a].at = at]
           /\ UNCHANGED <<call, make>>
    <3>1. build[a].hit \in BOOLEAN
      BY TypeIs DEF Builds
    <3> QED
      BY <3>1 DEF BuildStep
  <2> QED
    BY <2>1, BuildEndTypes, BuildTypes, TypeIs
<1> QED
  BY <1>1, <1>2, <1>3, TypeIs, Primed DEF BuildStep

LEMMA MakeStepTypes ==
    ASSUME TypeOK, NEW a \in Agents, MakeStep(a)
    PROVE  TypeOK'
<1>1. used' \in Counts
  BY Counted, TypeIs DEF MakeStep
<1>2. /\ act' \in [Agents -> Acts]
      /\ build' \in [Agents -> Builds]
      /\ clean' \in [Agents -> Cleans]
  <2>1. \/ UNCHANGED <<act, build, clean>>
        \/ Install(a, FALSE) /\ UNCHANGED <<build, clean>>
        \/ Activate(a)
        \/ /\ act' = [act EXCEPT ![a].kept = @ \/ (Installed(a) /\ ~act[a].gone)]
           /\ UNCHANGED <<build, clean>>
    BY DEF MakeStep
  <2>2. ASSUME act' = [act EXCEPT ![a].kept = @ \/ (Installed(a) /\ ~act[a].gone)]
        PROVE  act' \in [Agents -> Acts]
    <3>1. (act[a].kept \/ (Installed(a) /\ ~act[a].gone)) \in BOOLEAN
      OBVIOUS
    <3>2. act' = [act EXCEPT ![a].kept = act[a].kept \/ (Installed(a) /\ ~act[a].gone)]
      BY <2>2, TypeIs
    <3> QED
      BY <3>1, <3>2, ActTypes
  <2>3. Install(a, FALSE) => act' \in [Agents -> Acts]
    BY ActTypes
  <2> QED
    BY <2>1, <2>2, <2>3, ActivateTypes, TypeIs
<1>3. make' \in [Agents -> Makes]
  <2>1. \E at \in {"provision", "append", "install", "discard", "lose", "check", "building",
                   "built", "ok", "fail"} : Make(a, at)
    BY DEF MakeStep
  <2> QED
    BY <2>1, MakeTypes
<1>4. dir' \in SUBSET Agents
  BY TypeIs DEF MakeStep
<1> QED
  BY <1>1, <1>2, <1>3, <1>4, TypeIs, Primed DEF MakeStep

LEMMA CompStepTypes ==
    ASSUME TypeOK, NEW a \in Agents, CompStep(a)
    PROVE  TypeOK'
<1>1. tree' \in [Agents -> Trees]
  <2>1. tree' = tree \/ tree' = [tree EXCEPT ![a].at = "dir"]
    BY DEF CompStep, StartTree
  <2> QED
    BY <2>1, TreeTypes, TypeIs
<1>2. comp' \in [Agents -> Comps]
  BY TypeIs DEF CompStep, Comps
<1>3. make' \in [Agents -> Makes]
  <2>1. make' = make \/ make' = [make EXCEPT ![a] = NoMake]
    BY DEF CompStep
  <2> QED
    BY <2>1, MakeTypes, TypeIs
<1>4. call' \in [Callers -> {NoCall} \cup Made]
  <2>1. ASSUME NEW c \in Callers, call[c].at = "retry"
        PROVE  [call[c] EXCEPT !.at = "lookup"] \in Made
    <3>1. call[c] \in Made
      BY <2>1, TypeIs DEF NoCall
    <3> QED
      BY <3>1 DEF Made
  <2>2. call \in [Callers -> {NoCall} \cup Made]
    BY TypeIs
  <2>3. call' = call \/
        call' = [c \in Callers |->
                    IF call[c].on = a /\ call[c].at \in {"compWait", "retry"}
                    THEN IF call[c].at = "retry" /\ ~call[c].hit /\ comp[a] # "failed"
                         THEN [call[c] EXCEPT !.at = "lookup"] ELSE NoCall
                    ELSE call[c]]
    BY DEF CompStep
  <2> QED
    BY <2>1, <2>2, <2>3
<1> QED
  BY <1>1, <1>2, <1>3, <1>4, TypeIs, Primed DEF CompStep

LEMMA CleanStepTypes ==
    ASSUME TypeOK, NEW a \in Agents, CleanStep(a)
    PROVE  TypeOK'
<1>1. used' \in Counts
  BY Counted, TypeIs DEF CleanStep
<1>2. clean' \in [Agents -> Cleans]
  BY TypeIs DEF CleanStep, Cleans
<1>3. act' \in [Agents -> Acts]
  <2>1. act' = act \/ act' = [act EXCEPT ![a].st = "stopping"] \/ act' = [act EXCEPT ![a] = NoAct]
    BY DEF CleanStep
  <2> QED
    BY <2>1, ActTypes, TypeIs
<1>4. make' \in [Agents -> Makes] /\ build' \in [Agents -> Builds]
  <2>1. make' = make \/ make' = [make EXCEPT ![a].hit = TRUE]
    BY DEF CleanStep
  <2>2. build' = build \/ build' = [build EXCEPT ![a].hit = TRUE]
    BY DEF CleanStep
  <2> QED
    BY <2>1, <2>2, MakeTypes, BuildTypes, TypeIs
<1>5. call' \in [Callers -> {NoCall} \cup Made]
  <2>1. a \in Callers
    BY DEF Callers
  <2>2. \/ call' = call
        \/ call' = Hand("clean", a, Ends)
        \/ call[a] # NoCall /\ call' = [call EXCEPT ![a].hit = TRUE]
    BY DEF CleanStep
  <2> QED
    BY <2>1, <2>2, EndTypes, CallTypes, TypeIs
<1> QED
  BY <1>1, <1>2, <1>3, <1>4, <1>5, TypeIs, Primed DEF CleanStep

LEMMA TreeEndTypes ==
    ASSUME TypeOK, NEW t \in Agents, NEW bad \in BOOLEAN, TreeEnds(t, bad)
    PROVE  /\ tree' \in [Agents -> Trees]
           /\ call' \in [Callers -> {NoCall} \cup Made]
           /\ comp' \in [Agents -> Comps]
<1>1. tree' \in [Agents -> Trees]
  BY TreeTypes DEF TreeEnds
<1>2. call' \in [Callers -> {NoCall} \cup Made]
  BY EndTypes DEF TreeEnds
<1>3. comp' \in [Agents -> Comps]
  BY TypeIs DEF TreeEnds, Comps
<1> QED
  BY <1>1, <1>2, <1>3

LEMMA AffectedIs ==
    ASSUME TypeOK, NEW a \in Agents
    PROVE  Affected(a) \in SUBSET Agents /\ a \in Affected(a)
BY TypeIs, LineageIs DEF Affected, Subtree

LEMMA DisposeTypes ==
    ASSUME TypeOK, NEW t \in Agents, Dispose(t)
    PROVE  TypeOK'
<1>0. Affected(t) \in SUBSET Agents
  BY AffectedIs
<1>1. tree[t] \in Trees
  BY TypeIs
<1>2. CASE TreeStep(t)
  <2>1. used' \in Counts
    BY <1>2, Counted, TypeIs DEF TreeStep
  <2>2. CASE TreeEnds(t, TRUE) /\ UNCHANGED <<make, build>>
    BY <1>2, <2>1, <2>2, TreeEndTypes, TypeIs, Primed DEF TreeStep
  <2>3. CASE tree' = [tree EXCEPT ![t].at = "scope", ![t].members = Affected(t)]
             /\ UNCHANGED <<call, comp, make, build>>
    <3>1. tree' \in [Agents -> Trees]
      BY <1>0, <2>3, TreeScopes
    <3> QED
      BY <1>2, <2>1, <2>3, <3>1, TypeIs, Primed DEF TreeStep
  <2>4. CASE tree' = [tree EXCEPT ![t].at = "cancel", ![t].joins = Pending(tree[t].members)]
             /\ UNCHANGED <<call, comp, make, build>>
    <3>1. Pending(tree[t].members) \in SUBSET Jobs
      BY <1>1 DEF Pending, Jobs, Trees
    <3>2. tree' \in [Agents -> Trees]
      BY <2>4, <3>1, TreeJoins
    <3> QED
      BY <1>2, <2>1, <2>4, <3>2, TypeIs, Primed DEF TreeStep
  <2>5. ASSUME NEW j \in tree[t].joins, Struck(j),
               tree' = [tree EXCEPT ![t].at = "joining", ![t].joins = @ \ {j}, ![t].todo = {j[2]}],
               UNCHANGED <<call, comp>>
        PROVE  TypeOK'
    <3>1. j \in Jobs
      BY <1>1 DEF Trees
    <3>2. {j[2]} \in SUBSET Agents /\ (tree[t].joins \ {j}) \in SUBSET Jobs
      BY <1>1, <3>1 DEF Trees, Jobs
    <3>3. tree' = [tree EXCEPT ![t].at = "joining", ![t].joins = tree[t].joins \ {j}, ![t].todo = {j[2]}]
      <4>1. tree[t] \in Trees /\ tree \in [Agents -> Trees]
        BY TypeIs
      <4> QED
        BY <2>5, <4>1 DEF Trees
    <3>4. tree' \in [Agents -> Trees]
      <4> DEFINE J == tree[t].joins \ {j}
                 S == {j[2]}
      <4>1. J \in SUBSET Jobs /\ S \in SUBSET Agents
        BY <3>2
      <4>2. tree' = [tree EXCEPT ![t].at = "joining", ![t].joins = J, ![t].todo = S]
        BY <3>3
      <4> HIDE DEF J, S
      <4> QED
        BY <4>1, <4>2, TreeJoins
    <3>5. make' \in [Agents -> Makes] /\ build' \in [Agents -> Builds]
      BY <2>5, <3>1, StruckTypes
    <3> QED
      BY <1>2, <2>1, <2>5, <3>4, <3>5, TypeIs, Primed DEF TreeStep
  <2>6. CASE tree' = [tree EXCEPT ![t].at = "cancel", ![t].todo = {}]
             /\ UNCHANGED <<call, comp, make, build>>
    <3>1. tree[t] \in Trees /\ tree \in [Agents -> Trees]
      BY TypeIs
    <3>2. [[tree[t] EXCEPT !.at = "cancel"] EXCEPT !.todo = {}] \in Trees
      BY <3>1 DEF Trees
    <3>3. tree' \in [Agents -> Trees]
      BY <2>6, <3>1, <3>2
    <3> QED
      BY <1>2, <2>1, <2>6, <3>3, TypeIs, Primed DEF TreeStep
  <2>7. CASE tree' = [tree EXCEPT ![t].at = "reload"] /\ UNCHANGED <<call, comp, make, build>>
    <3>1. tree' \in [Agents -> Trees]
      BY <2>7, TreeTypes
    <3> QED
      BY <1>2, <2>1, <2>7, <3>1, TypeIs, Primed DEF TreeStep
  <2> QED
    BY <1>2, <2>2, <2>3, <2>4, <2>5, <2>6, <2>7 DEF TreeStep
<1>3. CASE Reload(t)
  <2>1. used' \in Counts
    BY <1>3, Counted, TypeIs DEF Reload
  <2>2. CASE TreeEnds(t, TRUE)
    BY <1>3, <2>1, <2>2, TreeEndTypes, TypeIs, Primed DEF Reload
  <2>3. CASE tree' = [tree EXCEPT ![t].at = "clean", ![t].todo = Affected(t)] /\ UNCHANGED <<call, comp>>
    <3>1. tree' \in [Agents -> Trees]
      BY <1>0, <2>3, TreeWorks
    <3> QED
      BY <1>3, <2>1, <2>3, <3>1, TypeIs, Primed DEF Reload
  <2> QED
    BY <1>3, <2>2, <2>3 DEF Reload
<1>4. CASE TreeClean(t)
  <2>1. ASSUME NEW x \in ChildFirst(tree[t].todo), Allocate(x), UNCHANGED <<tree, call, comp>>
        PROVE  TypeOK'
    <3>1. clean' \in [Agents -> Cleans]
      BY <2>1, TypeIs DEF Allocate, Cleans
    <3> QED
      BY <1>4, <2>1, <3>1, TypeIs, Primed DEF TreeClean
  <2>2. ASSUME NEW x \in ChildFirst(tree[t].todo),
               tree' = [tree EXCEPT ![t].todo = @ \ {x}, ![t].bad = @ \/ clean[x] = "fail"],
               UNCHANGED <<clean, call, comp>>
        PROVE  TypeOK'
    <3> DEFINE S == tree[t].todo \ {x}
               b == tree[t].bad \/ clean[x] = "fail"
    <3>1. S \in SUBSET Agents /\ b \in BOOLEAN
      BY <1>1 DEF Trees
    <3>2. tree' = [tree EXCEPT ![t].todo = S, ![t].bad = b]
      <4>1. tree[t] \in Trees /\ tree \in [Agents -> Trees]
        BY TypeIs
      <4> QED
        BY <2>2, <4>1 DEF Trees
    <3> HIDE DEF S, b
    <3>3. tree' \in [Agents -> Trees]
      BY <3>1, <3>2, TreeWorks
    <3> QED
      BY <1>4, <2>2, <3>3, TypeIs, Primed DEF TreeClean
  <2>3. CASE TreeEnds(t, tree[t].bad) /\ UNCHANGED clean
    <3>1. tree[t].bad \in BOOLEAN
      BY <1>1 DEF Trees
    <3> QED
      BY <1>4, <2>3, <3>1, TreeEndTypes, TypeIs, Primed DEF TreeClean
  <2> QED
    BY <1>4, <2>1, <2>2, <2>3 DEF TreeClean
<1> QED
  BY <1>2, <1>3, <1>4 DEF Dispose

LEMMA CloseStepTypes ==
    ASSUME TypeOK, CloseStep
    PROVE  TypeOK'
<1>0. close \in Closings
  BY TypeIs
<1>1. used' \in Counts
  <2>1. used' = used \/ Fault
    BY DEF CloseStep, CloseQuiescent
  <2>2. used \in Counts
    BY TypeIs
  <2>3. Fault => used' \in Counts
    BY Counted
  <2> QED
    BY ONLY <2>1, <2>2, <2>3
<1>2. close' \in Closings
  <2>1. Pending(Agents) \in SUBSET Jobs
    BY DEF Pending, Jobs
  <2>2. (dir \cup Known) \in SUBSET Agents /\ Known \in SUBSET Agents
    BY TypeIs DEF Known
  <2>3. \A j \in close.joins : {j[2]} \in SUBSET Agents /\ close.joins \ {j} \in SUBSET Jobs
    BY <1>0 DEF Closings, Jobs
  <2> HIDE DEF Pending, Known
  <2>4. \/ \E at \in {"trees", "dir", "calls", "done"} : close' = [close EXCEPT !.at = at]
        \/ close' = [close EXCEPT !.at = "cancel", !.joins = Pending(Agents)]
        \/ \E j \in close.joins : close' = [close EXCEPT !.at = "joining", !.joins = @ \ {j}, !.todo = {j[2]}]
        \/ close' = [close EXCEPT !.at = "cancel", !.todo = {}]
        \/ close' = [close EXCEPT !.at = "clean", !.todo = dir \cup Known]
        \/ close' = [close EXCEPT !.at = "clean", !.todo = Known]
        \/ \E x \in ChildFirst(close.todo) : close' = [close EXCEPT !.todo = @ \ {x}]
        \/ close' = close
    BY DEF CloseStep, CloseQuiescent
  <2>5. ASSUME NEW S \in SUBSET Agents,
               \/ close' = [close EXCEPT !.at = "cancel", !.todo = S]
               \/ close' = [close EXCEPT !.at = "clean", !.todo = S]
               \/ close' = [close EXCEPT !.todo = S]
        PROVE  close' \in Closings
    BY <1>0, <2>5 DEF Closings
  <2>6. ASSUME NEW J \in SUBSET Jobs,
               \/ close' = [close EXCEPT !.at = "cancel", !.joins = J]
               \/ \E S \in SUBSET Agents : close' = [close EXCEPT !.at = "joining", !.joins = J, !.todo = S]
        PROVE  close' \in Closings
    BY <1>0, <2>6 DEF Closings
  <2>7. ASSUME NEW at \in {"trees", "dir", "calls", "done"}, close' = [close EXCEPT !.at = at]
        PROVE  close' \in Closings
    BY <1>0, <2>7 DEF Closings
  <2>8. ASSUME NEW j \in close.joins, close' = [close EXCEPT !.at = "joining", !.joins = @ \ {j}, !.todo = {j[2]}]
        PROVE  close' \in Closings
    <3> DEFINE J == close.joins \ {j}
               S == {j[2]}
    <3>1. J \in SUBSET Jobs /\ S \in SUBSET Agents
      BY <2>3
    <3>2. close' = [close EXCEPT !.at = "joining", !.joins = J, !.todo = S]
      BY <1>0, <2>8 DEF Closings
    <3> HIDE DEF J, S
    <3> QED
      BY <3>1, <3>2, <2>6
  <2>9. ASSUME NEW x, close' = [close EXCEPT !.todo = @ \ {x}] PROVE close' \in Closings
    <3> DEFINE S == close.todo \ {x}
    <3>1. S \in SUBSET Agents
      BY <1>0 DEF Closings
    <3>2. close' = [close EXCEPT !.todo = S]
      BY <1>0, <2>9 DEF Closings
    <3> HIDE DEF S
    <3> QED
      BY <3>1, <3>2, <2>5
  <2> QED
    BY <1>0, <2>1, <2>2, <2>4, <2>5, <2>6, <2>7, <2>8, <2>9
<1>3. /\ make' \in [Agents -> Makes]
      /\ build' \in [Agents -> Builds]
  <2>1. UNCHANGED <<make, build>> \/ \E j \in close.joins : Struck(j)
    BY DEF CloseStep, CloseQuiescent
  <2>2. close.joins \subseteq Jobs
    BY <1>0 DEF Closings
  <2> QED
    BY <2>1, <2>2, StruckTypes, TypeIs
<1>4. clean' \in [Agents -> Cleans]
  <2>1. clean' = clean \/ \E x \in ChildFirst(close.todo) : Allocate(x)
    BY DEF CloseStep, CloseQuiescent
  <2> QED
    BY <2>1, TypeIs DEF Allocate, Cleans
<1>5. call' \in [Callers -> {NoCall} \cup Made]
  <2>1. ASSUME NEW c \in Callers, call[c].op = "create"
        PROVE  [call[c] EXCEPT !.hit = TRUE] \in Made
    <3>1. call[c] \in Made
      BY <2>1, TypeIs DEF NoCall
    <3> QED
      BY <3>1 DEF Made
  <2>2. call \in [Callers -> {NoCall} \cup Made]
    BY TypeIs
  <2>3. \/ call' = call
        \/ call' = [c \in Callers |->
                      IF call[c].op = "create" /\ call[c].at \in {"lookup", "admit"}
                      THEN [call[c] EXCEPT !.hit = TRUE] ELSE call[c]]
        \/ call' = [c \in Callers |-> IF call[c].at = "closeWait" THEN NoCall ELSE call[c]]
    BY DEF CloseStep, CloseQuiescent
  <2> QED
    BY <2>1, <2>2, <2>3
<1> QED
  BY <1>1, <1>2, <1>3, <1>4, <1>5, TypeIs, Primed DEF CloseStep

LEMMA TypesKept ==
    ASSUME TypeOK, Waits, Next
    PROVE  TypeOK'
<1>1. ASSUME NEW a \in Agents, WorkerFaults(a) PROVE TypeOK'
  <2>1. used' \in Counts
    BY <1>1, Counted DEF WorkerFaults
  <2>2. act' \in [Agents -> Acts]
    BY <1>1, ActTypes DEF WorkerFaults
  <2> QED
    BY <1>1, <2>1, <2>2, TypeIs, Primed DEF WorkerFaults
<1>2. ASSUME NEW a \in Agents, Work(a) PROVE TypeOK'
  BY <1>2, MakeStepTypes, BuildStepTypes, CompStepTypes, CleanStepTypes DEF Work
<1>3. ASSUME NEW c \in Callers, BeginClose(c) \/ Cancel(c) PROVE TypeOK'
  BY <1>3, SoloTypes
<1> QED
  BY <1>1, <1>2, <1>3, StartTypes, ProceedTypes, DisposeTypes, CloseStepTypes DEF Next

-----------------------------------------------------------------------------
(* How a call moves: it begins, goes on as its operation does, or ends.    *)
Stays(d) == call'[d].at = call[d].at /\ call'[d].op = call[d].op /\ call'[d].on = call[d].on

Starts(d) ==
    /\ call[d] = NoCall
    /\ \/ call'[d].op = "create" /\ call'[d].at = "lookup" /\ call'[d].on \in Agents
       \/ call'[d].op = "wake" /\ call'[d].at = "lookup" /\ call'[d].on \in dir
       \/ call'[d].op = "dispose" /\ call'[d].at \in {"tree", "clean", "closeWait"}
          /\ call'[d].on \in Agents
       \/ call'[d].op = "close" /\ call'[d].at = "closeWait"

Built(d) == \E good \in BOOLEAN : BuildEnds(call[d].on, good)

GoesOn(d) ==
    /\ call'[d].op = call[d].op /\ call'[d].on = call[d].on
    /\ \/ call[d].at = "lookup" /\ call'[d].at = "admit"
       \/ call[d].at = "admit" /\ Admit(d)
          /\ (\/ call[d].op = "wake" /\ call'[d].at = "check"
              \/ call[d].op = "create" /\ call'[d].at \in {"join", "retry"})
       \/ call[d].at = "check" /\ call'[d].at = "building"
       \/ call[d].at = "building" /\ call'[d].at = "built" /\ Built(d)
       \/ call[d].at = "built" /\ call'[d].at = "check"
       \/ call[d].at = "join" /\ call'[d].at = "compWait" /\ Release(d)
       \/ call[d].at = "retry" /\ call'[d].at = "lookup"

Quits(d) ==
    /\ call'[d] = NoCall
    /\ call[d].at = "join" => Release(d)
    /\ call[d].at = "building" => Built(d)

Moves(d) == Stays(d) \/ Quits(d) \/ Starts(d) \/ GoesOn(d)

(* What the shorthands do to a call.                                       *)
LEMMA Written ==
    ASSUME TypeOK, NEW c \in Callers
    PROVE  /\ \A at : Go(c, at) => \A d \in Callers :
                 /\ call'[d].at = IF d = c THEN at ELSE call[d].at
                 /\ call'[d].op = call[d].op /\ call'[d].on = call[d].on /\ call'[d].hit = call[d].hit
           /\ Return(c) => \A d \in Callers : call'[d] = IF d = c THEN NoCall ELSE call[d]
           /\ call' = [call EXCEPT ![c].hit = TRUE] => \A d \in Callers : Stays(d)
<1>1. call \in [Callers -> {NoCall} \cup Made]
  BY TypeIs
<1>2. \A d \in Callers : call[d] \in [op : {"none", "create", "wake", "dispose", "close"},
                                      on : Agents \cup {"none"},
                                      at : {"none", "lookup", "admit", "join", "compWait", "retry",
                                            "check", "building", "built", "tree", "clean", "closeWait"},
                                      hit : BOOLEAN]
  <2> DEFINE Calling == [op : {"none", "create", "wake", "dispose", "close"},
                         on : Agents \cup {"none"},
                         at : {"none", "lookup", "admit", "join", "compWait", "retry",
                               "check", "building", "built", "tree", "clean", "closeWait"},
                         hit : BOOLEAN]
  <2>1. NoCall \in Calling
    BY DEF NoCall
  <2>2. \A v \in Made : v \in Calling
    BY DEF Made
  <2> QED
    BY <1>1, <2>1, <2>2
<1>3. ASSUME NEW at, Go(c, at), NEW d \in Callers
      PROVE  /\ call'[d].at = IF d = c THEN at ELSE call[d].at
             /\ call'[d].op = call[d].op /\ call'[d].on = call[d].on /\ call'[d].hit = call[d].hit
  BY <1>1, <1>2, <1>3 DEF Go
<1>4. Return(c) => \A d \in Callers : call'[d] = IF d = c THEN NoCall ELSE call[d]
  BY <1>1 DEF Return
<1>5. call' = [call EXCEPT ![c].hit = TRUE] => \A d \in Callers : Stays(d)
  BY <1>1, <1>2 DEF Stays
<1> QED
  BY <1>3, <1>4, <1>5

LEMMA ProceedMoves ==
    ASSUME TypeOK, Waits, NEW c \in Callers, Proceed(c), NEW d \in Callers
    PROVE  Moves(d)
<1>1. CASE d # c
  <2>1. \/ Return(c) \/ \E at : Go(c, at)
    <3>1. CASE Lookup(c) \/ Refuse(c) \/ Abort(c)
      BY ONLY <3>1 DEF Lookup, Refuse, Abort
    <3>2. CASE Admit(c)
      BY ONLY <3>2 DEF Admit
    <3>3. CASE Check(c) \/ Post(c)
      BY ONLY <3>3 DEF Check, Post
    <3>4. CASE Release(c)
      BY ONLY <3>4 DEF Release
    <3> QED
      BY <3>1, <3>2, <3>3, <3>4 DEF Proceed
  <2>2. Stays(d)
    BY <1>1, <2>1, Written DEF Stays
  <2> QED
    BY <2>2 DEF Moves
<1>2. CASE Return(c) /\ d = c
  <2>1. call[c].at # "building" /\ (call[c].at = "join" => Release(c))
    <3>1. CASE Release(c)
      BY ONLY <3>1 DEF Release
    <3>2. CASE ~Release(c)
      <4>1. call[c].at \in {"lookup", "admit", "check", "built"}
        BY <3>2 DEF Proceed, Lookup, Refuse, Admit, Abort, Check, Post
      <4> QED
        BY ONLY <4>1
    <3> QED
      BY <3>1, <3>2
  <2>2. call'[d] = NoCall
    BY <1>2, Written
  <2> QED
    BY <1>2, <2>1, <2>2 DEF Moves, Quits
<1>3. CASE d = c /\ ~Return(c)
  <2>1. CASE Lookup(c)
    <3>1. Go(c, "admit") /\ call[c].at = "lookup"
      BY <1>3, <2>1 DEF Lookup
    <3> QED
      BY <1>3, <3>1, Written DEF Moves, GoesOn
  <2>2. CASE Admit(c)
    <3>0. call[c].at = "admit" /\ call[c].op \in {"create", "wake"}
      BY <2>2, About DEF Admit
    <3>1. \/ Go(c, "check") /\ call[c].op = "wake"
          \/ (Go(c, "retry") \/ Go(c, "join")) /\ call[c].op = "create"
      BY <1>3, <2>2, <3>0 DEF Admit
    <3>2. GoesOn(c)
      <4>1. CASE Go(c, "check") /\ call[c].op = "wake"
        BY <1>3, <2>2, <3>0, <4>1, Written DEF GoesOn
      <4>2. CASE Go(c, "retry") /\ call[c].op = "create"
        BY <1>3, <2>2, <3>0, <4>2, Written DEF GoesOn
      <4>3. CASE Go(c, "join") /\ call[c].op = "create"
        BY <1>3, <2>2, <3>0, <4>3, Written DEF GoesOn
      <4> QED
        BY <3>1, <4>1, <4>2, <4>3
    <3> QED
      BY <1>3, <3>2 DEF Moves
  <2>3. CASE Check(c)
    <3>1. Go(c, "building") /\ call[c].at = "check"
      BY <1>3, <2>3 DEF Check
    <3> QED
      BY <1>3, <3>1, Written DEF Moves, GoesOn
  <2>4. CASE Post(c)
    <3>1. Go(c, "check") /\ call[c].at = "built"
      BY <1>3, <2>4 DEF Post
    <3> QED
      BY <1>3, <3>1, Written DEF Moves, GoesOn
  <2>5. CASE Release(c)
    <3>1. Go(c, "compWait") /\ call[c].at = "join"
      BY <1>3, <2>5 DEF Release
    <3> QED
      BY <1>3, <2>5, <3>1, Written DEF Moves, GoesOn
  <2> QED
    BY <1>3, <2>1, <2>2, <2>3, <2>4, <2>5 DEF Proceed, Refuse, Abort
<1> QED
  BY <1>1, <1>2, <1>3

LEMMA CallMoves ==
    ASSUME TypeOK, Waits, Next, NEW d \in Callers
    PROVE  Moves(d)
<1>0. call \in [Callers -> {NoCall} \cup Made]
  BY TypeIs
<1>1. CASE call' = call
  BY <1>1 DEF Moves, Stays
<1>2. ASSUME NEW c \in Callers, NEW a \in Agents, NEW op \in {"create", "wake"}, Begin(c, op, a)
      PROVE  Moves(d)
  <2>1. /\ call' = [call EXCEPT ![c] = [op |-> op, on |-> a, at |-> "lookup", hit |-> FALSE]]
        /\ call[c] = NoCall /\ (op = "wake" => a \in dir)
    BY <1>2 DEF Begin, MayCall
  <2>2. CASE d = c
    BY <1>0, <2>1, <2>2 DEF Moves, Starts
  <2>3. CASE d # c
    BY <1>0, <2>1, <2>3 DEF Moves, Stays
  <2> QED
    BY <2>2, <2>3
<1>3. ASSUME NEW c \in Callers, NEW a \in Agents, BeginDispose(c, a)
      PROVE  Moves(d)
  <2>1. /\ call[c] = NoCall
        /\ \E at \in {"tree", "clean", "closeWait"} :
              call' = [call EXCEPT ![c] = [op |-> "dispose", on |-> a, at |-> at, hit |-> FALSE]]
    BY <1>3 DEF BeginDispose, MayCall
  <2>2. CASE d = c
    BY <1>0, <2>1, <2>2 DEF Moves, Starts
  <2>3. CASE d # c
    BY <1>0, <2>1, <2>3 DEF Moves, Stays
  <2> QED
    BY <2>2, <2>3
<1>4. ASSUME NEW c \in Callers, BeginClose(c)
      PROVE  Moves(d)
  <2>1. /\ call[c] = NoCall
        /\ call' = [call EXCEPT ![c] = [op |-> "close", on |-> "none", at |-> "closeWait", hit |-> FALSE]]
    BY <1>4 DEF BeginClose
  <2>2. CASE d = c
    BY <1>0, <2>1, <2>2 DEF Moves, Starts
  <2>3. CASE d # c
    BY <1>0, <2>1, <2>3 DEF Moves, Stays
  <2> QED
    BY <2>2, <2>3
<1>5. ASSUME NEW c \in Callers, Cancel(c) PROVE Moves(d)
  BY <1>5, Written DEF Cancel, Moves
<1>6. ASSUME NEW c \in Callers, Proceed(c) PROVE Moves(d)
  BY <1>6, ProceedMoves
<1>7. ASSUME NEW a \in Agents, call' = Hand("tree", a, Ends) \/ call' = Hand("clean", a, Ends)
      PROVE  Moves(d)
  BY <1>7 DEF Hand, Ends, Moves, Stays, Quits
<1>8. ASSUME NEW a \in Agents, NEW good \in BOOLEAN, BuildEnds(a, good)
      PROVE  Moves(d)
  <2>1. call'[d] = IF call[d].at = "building" /\ call[d].on = a
                   THEN IF good /\ ~call[d].hit THEN [call[d] EXCEPT !.at = "built"] ELSE NoCall
                   ELSE call[d]
    BY <1>8 DEF BuildEnds, Hand
  <2>0. call[d].at = "building" /\ call[d].on = a => Built(d)
    BY <1>8 DEF Built
  <2>2. ASSUME call'[d] = [call[d] EXCEPT !.at = "built"], call[d].at = "building", Built(d)
        PROVE  GoesOn(d)
    <3>1. call[d] \in Made
      BY <1>0, <2>2 DEF NoCall
    <3>2. /\ call'[d].at = "built"
          /\ call'[d].op = call[d].op
          /\ call'[d].on = call[d].on
      BY <2>2, <3>1 DEF Made
    <3> QED
      BY <2>2, <3>2 DEF GoesOn
  <2>3. CASE call[d].at = "building" /\ call[d].on = a
    BY <2>0, <2>1, <2>2, <2>3 DEF Moves, Quits
  <2>4. CASE ~(call[d].at = "building" /\ call[d].on = a)
    BY <2>1, <2>4 DEF Moves, Stays
  <2> QED
    BY <2>3, <2>4
<1>9. ASSUME NEW a \in Agents, Work(a) PROVE Moves(d)
  <2>1. CASE MakeStep(a)
    BY <1>1, <2>1 DEF MakeStep
  <2>2. CASE BuildStep(a)
    <3>1. call' = call \/ \E good \in BOOLEAN : BuildEnds(a, good)
      <4>1. build[a].hit \in BOOLEAN
        BY TypeIs DEF Builds
      <4> QED
        BY <2>2, <4>1 DEF BuildStep
    <3> QED
      BY <1>1, <1>8, <3>1
  <2>3. CASE CompStep(a)
    <3>1. \/ call' = call
          \/ call'[d] = IF call[d].on = a /\ call[d].at \in {"compWait", "retry"}
                        THEN IF call[d].at = "retry" /\ ~call[d].hit /\ comp[a] # "failed"
                             THEN [call[d] EXCEPT !.at = "lookup"] ELSE NoCall
                        ELSE call[d]
      BY <2>3 DEF CompStep
    <3>2. ASSUME call'[d] = [call[d] EXCEPT !.at = "lookup"], call[d].at = "retry"
          PROVE  GoesOn(d)
      <4>1. call[d] \in Made
        BY <1>0, <3>2 DEF NoCall
      <4>2. /\ call'[d].at = "lookup"
            /\ call'[d].op = call[d].op
            /\ call'[d].on = call[d].on
        BY <3>2, <4>1 DEF Made
      <4> QED
        BY <3>2, <4>2 DEF GoesOn
    <3> QED
      BY <3>1, <3>2, <1>1 DEF Moves, Stays, Quits
  <2>4. CASE CleanStep(a)
    <3>1. \/ call' = call
          \/ call' = Hand("clean", a, Ends)
          \/ call' = [call EXCEPT ![a].hit = TRUE]
      BY <2>4 DEF CleanStep
    <3>2. a \in Callers
      BY DEF Callers
    <3> QED
      BY <3>1, <3>2, <1>1, <1>7, Written DEF Moves
  <2> QED
    BY <1>9, <2>1, <2>2, <2>3, <2>4 DEF Work
<1>10. ASSUME NEW t \in Agents, Dispose(t) PROVE Moves(d)
  <2>1. call' = call \/ call' = Hand("tree", t, Ends)
    BY <1>10 DEF Dispose, TreeStep, Reload, TreeClean, TreeEnds
  <2> QED
    BY <2>1, <1>1, <1>7
<1>11. CASE CloseStep
  <2>1. \/ call' = call
        \/ call'[d] = IF call[d].op = "create" /\ call[d].at \in {"lookup", "admit"}
                      THEN [call[d] EXCEPT !.hit = TRUE] ELSE call[d]
        \/ call'[d] = IF call[d].at = "closeWait" THEN NoCall ELSE call[d]
    BY <1>11 DEF CloseStep, CloseQuiescent
  <2>2. ASSUME call'[d] = [call[d] EXCEPT !.hit = TRUE], call[d].op = "create" PROVE Stays(d)
    <3>1. call[d] \in Made
      BY <1>0, <2>2 DEF NoCall
    <3> QED
      BY <2>2, <3>1 DEF Made, Stays
  <2> QED
    BY <2>1, <2>2, <1>1 DEF Moves, Stays, Quits
<1>12. ASSUME NEW a \in Agents, WorkerFaults(a) PROVE Moves(d)
  BY <1>1, <1>12 DEF WorkerFaults
<1> QED
  BY <1>2, <1>3, <1>4, <1>5, <1>6, <1>9, <1>10, <1>11, <1>12 DEF Next

(* The directory only grows, and with it what waits for one in it stays.   *)
LEMMA DirGrows ==
    ASSUME Next
    PROVE  /\ dir \subseteq dir'
           /\ dir' # dir => \E a \in Agents : /\ dir' = dir \cup {a} /\ a \notin dir
                                             /\ make[a].at = "append" /\ MakeStep(a)
<1>1. ASSUME NEW a \in Agents, MakeStep(a)
      PROVE  dir' = dir \/ (make[a].at = "append" /\ dir' = dir \cup {a})
  BY <1>1 DEF MakeStep
<1>2. dir' = dir \/ \E a \in Agents : MakeStep(a)
  <2>1. ASSUME NEW c \in Callers, NEW a \in Agents,
               Begin(c, "create", a) \/ Begin(c, "wake", a) \/ BeginDispose(c, a)
        PROVE  dir' = dir
    BY <2>1 DEF Begin, BeginDispose
  <2>2. ASSUME NEW c \in Callers, BeginClose(c) \/ Cancel(c) PROVE dir' = dir
    BY <2>2 DEF BeginClose, Cancel
  <2>3. ASSUME NEW c \in Callers, Proceed(c) PROVE dir' = dir
    BY <2>3 DEF Proceed, Lookup, Refuse, Admit, Abort, Check, Post, Release
  <2>4. ASSUME NEW a \in Agents, BuildStep(a) \/ CompStep(a) \/ CleanStep(a) PROVE dir' = dir
    BY <2>4 DEF BuildStep, CompStep, CleanStep
  <2>5. ASSUME NEW t \in Agents, Dispose(t) \/ WorkerFaults(t) PROVE dir' = dir
    BY <2>5 DEF Dispose, TreeStep, Reload, TreeClean, WorkerFaults
  <2>6. CloseStep => dir' = dir
    BY DEF CloseStep
  <2> QED
    BY ONLY Next, <2>1, <2>2, <2>3, <2>4, <2>5, <2>6 DEF Next, Work
<1> QED
  BY <1>1, <1>2

LEMMA WaitsKept ==
    ASSUME TypeOK, Waits, Next
    PROVE  Waits'
<1> SUFFICES ASSUME NEW d \in Callers
    PROVE  /\ call'[d].op = "none"    => call'[d].at = "none"
           /\ call'[d].op = "create"  => call'[d].at \in {"lookup", "admit", "join", "compWait", "retry"}
           /\ call'[d].op = "wake"    => /\ call'[d].at \in {"lookup", "admit", "check", "building", "built"}
                                         /\ call'[d].on \in dir'
           /\ call'[d].op = "dispose" => call'[d].at \in {"tree", "clean", "closeWait"}
           /\ call'[d].op = "close"   => call'[d].at = "closeWait"
           /\ call'[d].op \in {"create", "wake", "dispose"} => call'[d].on \in Agents
  BY DEF Waits
<1>1. dir \subseteq dir' /\ dir \subseteq Agents
  BY DirGrows, TypeIs
<1>2. Moves(d)
  BY CallMoves
<1>3. CASE Stays(d)
  BY <1>1, <1>3 DEF Waits, Stays
<1>4. CASE Quits(d)
  BY <1>4 DEF Quits, NoCall
<1>5. CASE Starts(d)
  BY <1>1, <1>5 DEF Starts
<1>6. CASE GoesOn(d)
  <2>1. call[d].at # "none"
    BY <1>6 DEF GoesOn
  <2>2. /\ call[d].at \notin {"tree", "clean", "closeWait"} => call[d].on \in Agents
        /\ call[d].at \in {"join", "compWait", "retry"} => call[d].op = "create"
        /\ call[d].at \in {"check", "building", "built"} => call[d].op = "wake"
        /\ call[d].at \in {"lookup", "admit"} => call[d].op \in {"create", "wake"}
    BY <2>1, About
  <2>3. call[d].op = "wake" => call[d].on \in dir
    BY DEF Waits
  <2> QED
    BY <1>1, <1>6, <2>2, <2>3 DEF GoesOn
<1> QED
  BY <1>2, <1>3, <1>4, <1>5, <1>6 DEF Moves

-----------------------------------------------------------------------------
(* What is affected by a disposal is what is at or below its agent.        *)
LEMMA AffectedUp ==
    ASSUME TypeOK, NEW t \in Agents, NEW x \in Affected(t)
    PROVE  x \in Agents /\ t \in Lineage[x]
BY TypeIs, LineageIs DEF Affected, Subtree

(* Work on an agent has a caller with an admission behind it.              *)
LEMMA Behind ==
    ASSUME TypeOK, Shared, NEW a \in Agents,
           Busy(<<"make", a>>) \/ Busy(<<"build", a>>) \/ make[a].waiters # {}
    PROVE  \E c \in Callers : Admitted(c) /\ call[c].on = a
<1>1. ASSUME make[a].waiters # {} PROVE \E c \in Callers : Admitted(c) /\ call[c].on = a
  <2>1. make[a].waiters \subseteq Callers
    BY TypeIs DEF Makes
  <2>2. PICK c \in Callers : c \in make[a].waiters
    BY <1>1, <2>1
  <2> QED
    BY <2>2 DEF Shared, Admitted
<1>2. ASSUME make[a].at \notin {"none", "ok", "fail"} PROVE make[a].waiters # {}
  BY <1>2 DEF Shared
<1>3. CASE Busy(<<"make", a>>)
  BY <1>1, <1>2, <1>3 DEF Busy
<1>4. CASE Busy(<<"build", a>>)
  <2>1. build[a].at # "none"
    BY <1>4 DEF Busy
  <2>2. make[a].at = "building" \/ \E c \in Callers : call[c].at = "building" /\ call[c].on = a
    BY <2>1 DEF Shared
  <2> QED
    BY <2>2, <1>1, <1>2 DEF Admitted
<1> QED
  BY <1>1, <1>3, <1>4

(* While somebody is at work on an agent, nothing is cleaned at or above   *)
(* it, no disposal of it is quiescent, and the close is not.               *)
LEMMA Working ==
    ASSUME Inv, NEW a \in Agents, \E c \in Callers : Admitted(c) /\ call[c].on = a
    PROVE  /\ \A p \in Lineage[a] : ~Cleaning(p)
           /\ \A t \in Agents : tree[t].at \in {"reload", "clean"} => tree[t].members \cap Lineage[a] = {}
           /\ \A t \in Agents : tree[t].at \in {"reload", "clean"} => t \notin Lineage[a]
           /\ \A t \in Agents : tree[t].at \in {"reload", "clean"} => a \notin Affected(t)
           /\ close.at \notin {"trees", "dir", "clean", "calls", "done"}
<1> USE DEF Inv
<1>0. PICK c \in Callers : Admitted(c) /\ call[c].on = a
  OBVIOUS
<1>1. \A t \in Agents : tree[t].at \in {"reload", "clean"} => tree[t].members \cap Lineage[a] = {}
  BY <1>0 DEF Fences, Inside
<1>2. \A t \in Agents : tree[t].at \in {"reload", "clean"} => t \notin Lineage[a]
  BY <1>1 DEF Fences
<1>3. \A t \in Agents : tree[t].at \in {"reload", "clean"} => a \notin Affected(t)
  BY <1>2, AffectedUp
<1>4. close.at \notin {"trees", "dir", "clean", "calls", "done"}
  <2>1. Lineage[a] \cap Agents # {}
    BY LineageIs
  <2> QED
    BY <1>0, <2>1 DEF Closes, Inside
<1>5. ASSUME NEW p \in Lineage[a], Cleaning(p) PROVE FALSE
  <2>1. p \in Agents /\ Lineage[p] \subseteq Lineage[a]
    BY LineageIs
  <2>2. Cleaner(p)
    BY <1>5, <2>1 DEF Cleanups
  <2>3. PICK t \in Agents : tree[t].at = "clean" /\ p \in tree[t].todo
    BY <1>4, <2>2 DEF Cleaner
  <2>4. p \in Affected(t)
    BY <2>3 DEF Fences
  <2>5. t \in Lineage[a]
    BY <2>1, <2>4, AffectedUp
  <2> QED
    BY <1>2, <2>3, <2>5
<1> QED
  BY <1>1, <1>2, <1>3, <1>4, <1>5

(* An admission is taken by Admit alone, so neither a scope nor a close    *)
(* that was left alone is entered again.                                   *)
LEMMA Enters ==
    ASSUME TypeOK, Waits, Next, NEW d \in Callers, Admitted(d)'
    PROVE  /\ call'[d].on = call[d].on /\ call[d].on \in Agents
           /\ Admitted(d) \/ (~Blocked(Lineage[call[d].on]) /\ ~Closing)
<1>1. Moves(d)
  BY CallMoves
<1>2. ~Quits(d) /\ ~Starts(d)
  BY DEF Admitted, NoCall, Starts, Quits
<1>3. CASE Stays(d)
  <2>1. Admitted(d)
    BY <1>3 DEF Admitted, Stays
  <2>2. call[d].on \in Agents
    BY <2>1, About DEF Admitted
  <2> QED
    BY <1>3, <2>1, <2>2 DEF Stays
<1>4. CASE GoesOn(d)
  <2>1. call[d].on \in Agents
    <3>1. call[d].at # "none" /\ call[d].at \notin {"tree", "clean", "closeWait"}
      BY <1>4 DEF GoesOn
    <3> QED
      BY <3>1, About
  <2>2. Admitted(d) \/ Admit(d)
    BY <1>4 DEF GoesOn, Admitted
  <2> QED
    BY <1>4, <2>1, <2>2 DEF GoesOn, Admit
<1> QED
  BY <1>1, <1>2, <1>3, <1>4 DEF Moves

LEMMA ScopeStays ==
    ASSUME TypeOK, Waits, Next, NEW t \in Agents, t \in Scopes, Inside(tree[t].members) = {},
           tree'[t].members = tree[t].members
    PROVE  Inside(tree[t].members)' = {}
<1>1. ASSUME NEW d \in Callers, Admitted(d)', Lineage[call'[d].on] \cap tree[t].members # {}
      PROVE  FALSE
  <2>1. call'[d].on = call[d].on /\ (Admitted(d) \/ ~Blocked(Lineage[call[d].on]))
    BY <1>1, Enters
  <2> QED
    BY <1>1, <2>1 DEF Inside, Blocked
<1> QED
  BY <1>1 DEF Inside

LEMMA CloseStays ==
    ASSUME TypeOK, Waits, Next, Closing, Inside(Agents) = {}
    PROVE  Inside(Agents)' = {}
<1>1. ASSUME NEW d \in Callers, Admitted(d)', Lineage[call'[d].on] \cap Agents # {}
      PROVE  FALSE
  <2>1. call'[d].on = call[d].on /\ Admitted(d)
    BY <1>1, Enters
  <2> QED
    BY <1>1, <2>1 DEF Inside
<1> QED
  BY <1>1 DEF Inside

-----------------------------------------------------------------------------
(* What the shorthands do to the registries, field by field.               *)
StSame    == \A x \in Agents : act'[x].st = act[x].st
MakeSame  == \A x \in Agents : /\ make'[x].at = make[x].at
                               /\ make'[x].waiters = make[x].waiters
                               /\ make'[x].delivered = make[x].delivered
BuildSame == \A x \in Agents : build'[x].at = build[x].at

LEMMA StruckSame ==
    ASSUME TypeOK, NEW j \in Jobs, Struck(j)
    PROVE  MakeSame /\ BuildSame
<1>1. /\ make \in [Agents -> Makes] /\ build \in [Agents -> Builds]
      /\ \A x \in Agents : make[x] \in Makes /\ build[x] \in Builds
  BY TypeIs
<1>2. j[2] \in Agents
  BY DEF Jobs
<1>3. MakeSame
  <2>1. make' = make \/ make' = [make EXCEPT ![j[2]].hit = TRUE]
    BY DEF Struck
  <2> QED
    BY <1>1, <1>2, <2>1 DEF Makes, MakeSame
<1>4. BuildSame
  <2>1. build' = build \/ build' = [build EXCEPT ![j[2]].hit = TRUE]
    BY DEF Struck
  <2> QED
    BY <1>1, <1>2, <2>1 DEF Builds, BuildSame
<1> QED
  BY <1>3, <1>4

LEMMA MakeSets ==
    ASSUME TypeOK, NEW a \in Agents
    PROVE  /\ \A at : Make(a, at) => \A x \in Agents :
                 /\ make'[x].at = IF x = a THEN at ELSE make[x].at
                 /\ make'[x].waiters = make[x].waiters
                 /\ make'[x].delivered = make[x].delivered
           /\ make' = [make EXCEPT ![a] = NoMake] => \A x \in Agents :
                 make'[x] = IF x = a THEN NoMake ELSE make[x]
           /\ \A c : JoinCreate(c, a) => \A x \in Agents :
                 /\ make'[x].at = IF x = a /\ make[x].at = "none" THEN "dir" ELSE make[x].at
                 /\ make'[x].waiters = IF x = a THEN make[x].waiters \cup {c} ELSE make[x].waiters
                 /\ make'[x].delivered = make[x].delivered
<1>1. /\ make \in [Agents -> Makes]
      /\ \A x \in Agents : make[x] \in Makes
  BY TypeIs
<1>2. ASSUME NEW at, Make(a, at), NEW x \in Agents
      PROVE  /\ make'[x].at = IF x = a THEN at ELSE make[x].at
             /\ make'[x].waiters = make[x].waiters
             /\ make'[x].delivered = make[x].delivered
  BY <1>1, <1>2 DEF Make, Makes
<1>3. ASSUME make' = [make EXCEPT ![a] = NoMake], NEW x \in Agents
      PROVE  make'[x] = IF x = a THEN NoMake ELSE make[x]
  BY <1>1, <1>3
<1>4. ASSUME NEW c, JoinCreate(c, a), NEW x \in Agents
      PROVE  /\ make'[x].at = IF x = a /\ make[x].at = "none" THEN "dir" ELSE make[x].at
             /\ make'[x].waiters = IF x = a THEN make[x].waiters \cup {c} ELSE make[x].waiters
             /\ make'[x].delivered = make[x].delivered
  BY <1>1, <1>4 DEF JoinCreate, Makes
<1> QED
  BY <1>2, <1>3, <1>4

LEMMA JoinSets ==
    ASSUME TypeOK, NEW a \in Agents, NEW c, JoinCreate(c, a), NEW x \in Agents
    PROVE  /\ make'[x].at = IF x = a /\ make[x].at = "none" THEN "dir" ELSE make[x].at
           /\ make'[x].waiters = IF x = a THEN make[x].waiters \cup {c} ELSE make[x].waiters
           /\ make'[x].delivered = make[x].delivered
<1> QED
  BY ONLY TypeOK, a \in Agents, JoinCreate(c, a), x \in Agents, MakeSets

LEMMA ActSets ==
    ASSUME TypeOK, NEW a \in Agents
    PROVE  /\ \A k : act' = [act EXCEPT ![a].kept = k] => \A x \in Agents :
                 /\ act'[x].st = act[x].st /\ act'[x].gone = act[x].gone
                 /\ act'[x].kept = IF x = a THEN k ELSE act[x].kept
           /\ \A k, g : act' = [act EXCEPT ![a].kept = k, ![a].gone = g] => \A x \in Agents :
                 /\ act'[x].st = act[x].st
                 /\ act'[x].kept = IF x = a THEN k ELSE act[x].kept
                 /\ act'[x].gone = IF x = a THEN g ELSE act[x].gone
           /\ \A s : act' = [act EXCEPT ![a].st = s] => \A x \in Agents :
                 /\ act'[x].st = IF x = a THEN s ELSE act[x].st
                 /\ act'[x].kept = act[x].kept /\ act'[x].gone = act[x].gone
           /\ \A k : Install(a, k) => \A x \in Agents :
                 act'[x] = IF x = a THEN [st |-> "live", kept |-> k, gone |-> FALSE] ELSE act[x]
           /\ act' = [act EXCEPT ![a] = NoAct] => \A x \in Agents :
                 act'[x] = IF x = a THEN NoAct ELSE act[x]
<1>1. /\ act \in [Agents -> Acts]
      /\ \A x \in Agents : act[x] \in Acts
  BY TypeIs
<1>2. ASSUME NEW k, act' = [act EXCEPT ![a].kept = k], NEW x \in Agents
      PROVE  /\ act'[x].st = act[x].st /\ act'[x].gone = act[x].gone
             /\ act'[x].kept = IF x = a THEN k ELSE act[x].kept
  BY <1>1, <1>2 DEF Acts
<1>3. ASSUME NEW k, NEW g, act' = [act EXCEPT ![a].kept = k, ![a].gone = g], NEW x \in Agents
      PROVE  /\ act'[x].st = act[x].st
             /\ act'[x].kept = IF x = a THEN k ELSE act[x].kept
             /\ act'[x].gone = IF x = a THEN g ELSE act[x].gone
  BY <1>1, <1>3 DEF Acts
<1>4. ASSUME NEW s, act' = [act EXCEPT ![a].st = s], NEW x \in Agents
      PROVE  /\ act'[x].st = IF x = a THEN s ELSE act[x].st
             /\ act'[x].kept = act[x].kept /\ act'[x].gone = act[x].gone
  BY <1>1, <1>4 DEF Acts
<1>5. ASSUME NEW k, Install(a, k), NEW x \in Agents
      PROVE  act'[x] = IF x = a THEN [st |-> "live", kept |-> k, gone |-> FALSE] ELSE act[x]
  BY <1>1, <1>5 DEF Install
<1>6. ASSUME act' = [act EXCEPT ![a] = NoAct], NEW x \in Agents
      PROVE  act'[x] = IF x = a THEN NoAct ELSE act[x]
  BY <1>1, <1>6
<1> QED
  BY <1>2, <1>3, <1>4, <1>5, <1>6

LEMMA ActivateDoes ==
    ASSUME TypeOK, NEW a \in Agents, Activate(a)
    PROVE  /\ StSame
           /\ \A x \in Agents :
                 /\ act'[x].gone = act[x].gone
                 /\ act'[x].kept = IF x = a /\ Installed(a) THEN TRUE ELSE act[x].kept
                 /\ act[x].st = "none" => act'[x] = act[x]
                 /\ clean'[x] = IF x = a THEN "none" ELSE clean[x]
                 /\ x # a \/ Installed(a) => build'[x].at = build[x].at
           /\ ~Installed(a) => build'[a].at = IF build[a].at = "none" THEN "build" ELSE build[a].at
<1>1. /\ clean \in [Agents -> Cleans]
      /\ build \in [Agents -> Builds] /\ \A x \in Agents : build[x] \in Builds
  BY TypeIs
<1>2. \A x \in Agents : clean'[x] = IF x = a THEN "none" ELSE clean[x]
  BY <1>1 DEF Activate
<1>3. CASE Installed(a)
  <2>1. act' = [act EXCEPT ![a].kept = TRUE] /\ build' = build
    BY <1>3 DEF Activate
  <2>2. \A x \in Agents : /\ act'[x].st = act[x].st /\ act'[x].gone = act[x].gone
                          /\ act'[x].kept = IF x = a THEN TRUE ELSE act[x].kept
    <3>1. act \in [Agents -> Acts] /\ \A x \in Agents : act[x] \in Acts
      BY TypeIs
    <3> QED
      BY <2>1, <3>1 DEF Acts
  <2>3. \A x \in Agents : x # a => act'[x] = act[x]
    BY <2>1, TypeIs
  <2> QED
    BY <1>2, <1>3, <2>1, <2>2, <2>3 DEF StSame, Installed
<1>4. CASE ~Installed(a)
  <2>1. build' = [build EXCEPT ![a].at = IF @ = "none" THEN "build" ELSE @] /\ act' = act
    BY <1>4 DEF Activate
  <2>2. \A x \in Agents : build'[x].at = IF x = a /\ build[x].at = "none" THEN "build" ELSE build[x].at
    BY <1>1, <2>1 DEF Builds
  <2> QED
    BY <1>2, <1>4, <2>1, <2>2 DEF StSame
<1> QED
  BY <1>3, <1>4

LEMMA BuildEndDoes ==
    ASSUME TypeOK, NEW a \in Agents, NEW good \in BOOLEAN, BuildEnds(a, good)
    PROVE  /\ \A x \in Agents :
                 /\ build'[x].at = IF x = a THEN "none" ELSE build[x].at
                 /\ make'[x].at = IF x = a /\ make[x].at = "building"
                                  THEN IF good /\ ~make[a].hit THEN "built" ELSE "fail"
                                  ELSE make[x].at
                 /\ make'[x].waiters = make[x].waiters
                 /\ make'[x].delivered = make[x].delivered
           /\ \A d \in Callers : call[d].at # "building" \/ call[d].on # a => call'[d] = call[d]
           /\ \A d \in Callers : call[d].at = "building" /\ call[d].on = a => call'[d].at \in {"built", "none"}
<1>1. /\ make \in [Agents -> Makes] /\ build \in [Agents -> Builds]
      /\ \A x \in Agents : make[x] \in Makes /\ build[x] \in Builds
      /\ call \in [Callers -> {NoCall} \cup Made]
  BY TypeIs
<1>2. \A x \in Agents : build'[x].at = IF x = a THEN "none" ELSE build[x].at
  BY <1>1 DEF BuildEnds, NoBuild
<1>3. \A x \in Agents : /\ make'[x].at = IF x = a /\ make[x].at = "building"
                                         THEN IF good /\ ~make[a].hit THEN "built" ELSE "fail"
                                         ELSE make[x].at
                        /\ make'[x].waiters = make[x].waiters
                        /\ make'[x].delivered = make[x].delivered
  BY <1>1 DEF BuildEnds, Makes
<1>4. \A d \in Callers : call'[d] = IF call[d].at = "building" /\ call[d].on = a
                                    THEN IF good /\ ~call[d].hit THEN [call[d] EXCEPT !.at = "built"] ELSE NoCall
                                    ELSE call[d]
  BY DEF BuildEnds, Hand
<1>5. ASSUME NEW d \in Callers, call[d].at = "building", call[d].on = a
      PROVE  call'[d].at \in {"built", "none"}
  <2>1. call[d] \in Made
    BY <1>1, <1>5 DEF NoCall
  <2>2. [call[d] EXCEPT !.at = "built"].at = "built"
    BY <2>1 DEF Made
  <2>3. call'[d] = [call[d] EXCEPT !.at = "built"] \/ call'[d] = NoCall
    BY <1>4, <1>5
  <2>4. NoCall.at = "none"
    BY DEF NoCall
  <2> QED
    BY <2>2, <2>3, <2>4
<1> QED
  BY <1>2, <1>3, <1>4, <1>5

(* A waiter leaves a create that is done.                                  *)
Good(c)    == make[call[c].on].at = "ok" /\ ~call[c].hit
Last(c)    == make[call[c].on].waiters = {c}
Abandon(c) == /\ Last(c) /\ ~make[call[c].on].delivered /\ ~Good(c) /\ make[call[c].on].at = "ok"
              /\ ~act[call[c].on].kept /\ ~act[call[c].on].gone

LEMMA ReleaseDoes ==
    ASSUME TypeOK, Waits, NEW c \in Callers, Release(c), NEW a, a = call[c].on
    PROVE  /\ a \in Agents /\ call[c].at = "join" /\ make[a].at \in {"ok", "fail"}
           /\ StSame
           /\ \A x \in Agents :
                 /\ x # a => act'[x] = act[x]
                 /\ comp'[x] = IF x = a /\ Abandon(c) THEN "start" ELSE comp[x]
                 /\ x # a => make'[x] = make[x]
           /\ act'[a].kept <=> act[a].kept \/ (Good(c) /\ act[a].st # "none")
           /\ act'[a].gone <=> act[a].gone \/ Abandon(c)
           /\ Last(c) /\ ~Abandon(c) => make'[a] = NoMake
           /\ ~(Last(c) /\ ~Abandon(c)) =>
                 /\ make'[a].at = make[a].at
                 /\ make'[a].waiters = make[a].waiters \ {c}
                 /\ make'[a].delivered <=> make[a].delivered \/ Good(c)
           /\ Abandon(c) => Go(c, "compWait")
           /\ ~Abandon(c) => Return(c)
           /\ UNCHANGED <<dir, build, tree, clean, close, used>>
<1>0. /\ act \in [Agents -> Acts] /\ make \in [Agents -> Makes] /\ comp \in [Agents -> Comps]
      /\ \A x \in Agents : act[x] \in Acts /\ make[x] \in Makes
  BY TypeIs
<1>1. call[c].at = "join" /\ make[a].at \in {"ok", "fail"} /\ UNCHANGED <<dir, build, tree, clean, close, used>>
  BY DEF Release
<1>2. a \in Agents
  BY <1>1, About
<1>3. /\ act' = [act EXCEPT ![a].kept = @ \/ (Good(c) /\ act[a].st # "none"), ![a].gone = @ \/ Abandon(c)]
      /\ comp' = IF Abandon(c) THEN [comp EXCEPT ![a] = "start"] ELSE comp
      /\ make' = IF Last(c) /\ ~Abandon(c) THEN [make EXCEPT ![a] = NoMake]
                 ELSE [make EXCEPT ![a].waiters = @ \ {c}, ![a].delivered = make[a].delivered \/ Good(c)]
      /\ IF Abandon(c) THEN Go(c, "compWait") ELSE Return(c)
  <2> DEFINE good      == make[a].at = "ok" /\ ~call[c].hit
             last      == make[a].waiters = {c}
             delivered == make[a].delivered \/ good
             abandon   == last /\ ~delivered /\ make[a].at = "ok" /\ ~act[a].kept /\ ~act[a].gone
  <2>1. /\ act' = [act EXCEPT ![a].kept = @ \/ (good /\ act[a].st # "none"), ![a].gone = @ \/ abandon]
        /\ comp' = IF abandon THEN [comp EXCEPT ![a] = "start"] ELSE comp
        /\ make' = IF last /\ ~abandon THEN [make EXCEPT ![a] = NoMake]
                   ELSE [make EXCEPT ![a].waiters = @ \ {c}, ![a].delivered = delivered]
        /\ IF abandon THEN Go(c, "compWait") ELSE Return(c)
    BY DEF Release
  <2>2. (Good(c) <=> good) /\ (Last(c) <=> last) /\ (Abandon(c) <=> abandon)
    BY DEF Good, Last, Abandon
  <2>3. Good(c) = good /\ Abandon(c) = abandon /\ (make[a].delivered \/ Good(c)) = delivered
    BY <2>2 DEF Good, Abandon
  <2> HIDE DEF good, last, abandon, delivered
  <2> QED
    BY <2>1, <2>2, <2>3
<1> DEFINE g == Good(c)
           b == Abandon(c)
           k == act[a].kept \/ (g /\ act[a].st # "none")
           h == act[a].gone \/ b
           v == make[a].delivered \/ g
<1>4. act' = [act EXCEPT ![a].kept = k, ![a].gone = h]
  <2> HIDE DEF g, b
  <2>1. act' = [act EXCEPT ![a].kept = @ \/ (g /\ act[a].st # "none"), ![a].gone = @ \/ b]
    BY <1>3 DEF g, b
  <2> QED
    BY <1>0, <1>2, <2>1 DEF Acts
<1>5. /\ \A x \in Agents : act'[x].st = act[x].st /\ (x # a => act'[x] = act[x])
      /\ act'[a].kept = k /\ act'[a].gone = h
  <2> HIDE DEF k, h
  <2>1. act'[a] = [[act[a] EXCEPT !.kept = k] EXCEPT !.gone = h]
    BY <1>0, <1>2, <1>4
  <2>2. \A x \in Agents : x # a => act'[x] = act[x]
    BY <1>0, <1>4
  <2>3. act'[a].st = act[a].st /\ act'[a].kept = k /\ act'[a].gone = h
    BY <1>0, <1>2, <2>1 DEF Acts
  <2> QED
    BY <2>2, <2>3
<1>6. \A x \in Agents : comp'[x] = IF x = a /\ b THEN "start" ELSE comp[x]
  <2> HIDE DEF b
  <2>1. comp' = IF b THEN [comp EXCEPT ![a] = "start"] ELSE comp
    BY <1>3 DEF b
  <2> QED
    BY <1>0, <2>1
<1>7. /\ \A x \in Agents : x # a => make'[x] = make[x]
      /\ Last(c) /\ ~b => make'[a] = NoMake
      /\ ~(Last(c) /\ ~b) => /\ make'[a].at = make[a].at
                             /\ make'[a].waiters = make[a].waiters \ {c}
                             /\ make'[a].delivered = v
  <2> HIDE DEF b, v
  <2>1. make' = IF Last(c) /\ ~b THEN [make EXCEPT ![a] = NoMake]
                ELSE [make EXCEPT ![a].waiters = @ \ {c}, ![a].delivered = v]
    BY <1>3 DEF b, v
  <2> QED
    BY <1>0, <1>2, <2>1 DEF Makes
<1>8. /\ act'[a].kept <=> act[a].kept \/ (Good(c) /\ act[a].st # "none")
      /\ act'[a].gone <=> act[a].gone \/ Abandon(c)
  BY <1>5
<1>9. ~(Last(c) /\ ~Abandon(c)) => (make'[a].delivered <=> make[a].delivered \/ Good(c))
  BY <1>7
<1>10. /\ Last(c) /\ ~Abandon(c) => make'[a] = NoMake
       /\ ~(Last(c) /\ ~Abandon(c)) => /\ make'[a].at = make[a].at
                                         /\ make'[a].waiters = make[a].waiters \ {c}
       /\ \A x \in Agents : x # a => make'[x] = make[x]
  BY <1>7
<1>11. \A x \in Agents : comp'[x] = IF x = a /\ Abandon(c) THEN "start" ELSE comp[x]
  BY <1>6
<1>12. StSame /\ \A x \in Agents : x # a => act'[x] = act[x]
  BY <1>5 DEF StSame
<1>13. (Abandon(c) => Go(c, "compWait")) /\ (~Abandon(c) => Return(c))
  BY <1>3
<1> HIDE DEF g, b, k, h, v
<1> QED
  BY <1>1, <1>2, <1>8, <1>9, <1>10, <1>11, <1>12, <1>13

LEMMA InstallDoes ==
    ASSUME TypeOK, NEW a \in Agents, NEW k \in BOOLEAN, Install(a, k)
    PROVE  /\ \A x \in Agents : x # a => act'[x] = act[x]
           /\ act'[a].st = "live" /\ act'[a].kept = k /\ ~act'[a].gone
<1>1. act \in [Agents -> Acts]
  BY TypeIs
<1> QED
  BY <1>1 DEF Install

LEMMA PostDoes ==
    ASSUME TypeOK, Waits, NEW c \in Callers, Post(c)
    PROVE  /\ StSame /\ call[c].at = "built"
           /\ \A x \in Agents : /\ act'[x].gone = act[x].gone
                                /\ act[x].kept => act'[x].kept
                                /\ ~Installed(x) => act'[x] = act[x]
           /\ UNCHANGED <<dir, make, build, comp, tree, clean, close, used>>
<1> DEFINE a == call[c].on
           k == act[a].kept \/ ~act[a].gone
<1>1. act \in [Agents -> Acts] /\ \A x \in Agents : act[x] \in Acts
  BY TypeIs
<1>2. a \in Agents
  BY About DEF Post
<1>3. UNCHANGED act \/ (Installed(a) /\ act' = [act EXCEPT ![a].kept = @ \/ ~act[a].gone])
  BY DEF Post
<1>4. call[c].at = "built" /\ UNCHANGED <<dir, make, build, comp, tree, clean, close, used>>
  BY DEF Post
<1>5. CASE UNCHANGED act
  BY <1>4, <1>5 DEF StSame
<1>6. CASE Installed(a) /\ act' = [act EXCEPT ![a].kept = @ \/ ~act[a].gone]
  <2>1. act' = [act EXCEPT ![a].kept = k]
    BY <1>1, <1>2, <1>6 DEF Acts
  <2>2. act[a].kept => k
    OBVIOUS
  <2> HIDE DEF k
  <2>3. act'[a] = [act[a] EXCEPT !.kept = k] /\ \A x \in Agents : x # a => act'[x] = act[x]
    BY <1>1, <1>2, <2>1
  <2>4. act'[a].st = act[a].st /\ act'[a].gone = act[a].gone /\ act'[a].kept = k
    BY <1>1, <1>2, <2>3 DEF Acts
  <2> QED
    BY <1>4, <1>6, <2>2, <2>3, <2>4 DEF StSame
<1> QED
  BY <1>3, <1>5, <1>6

-----------------------------------------------------------------------------
(* What the tasks do.  The shared task of a creation:                      *)
MakeGoes(a) ==
    /\ make[a].at = "dir" => make'[a].at \in {"provision", "check", "fail"}
    /\ make[a].at = "provision" => make'[a].at \in {"append", "fail"}
    /\ make[a].at = "append" => make'[a].at \in {"install", "discard"}
    /\ make[a].at = "install" => make'[a].at \in {"discard", "ok", "lose"}
    /\ make[a].at = "discard" => make'[a].at = "fail"
    /\ make[a].at = "lose" => make'[a].at \in {"ok", "fail"}
    /\ make[a].at = "check" => make'[a].at \in {"ok", "fail", "building"}
    /\ make[a].at = "built" => make'[a].at \in {"check", "ok", "fail"}
    /\ make'[a].at = "provision" => OwnerLive(a)
    /\ make'[a].at = "install" => a \in dir'
    /\ make'[a].at = "check" => a \in dir' \/ make[a].at = "built"
    /\ make'[a].at = "lose" => Installed(a)
    /\ make'[a].at = "ok" => make[a].at = "lose" \/ Installed(a) \/ Install(a, FALSE)

Keeping(a) ==
    /\ act' = [act EXCEPT ![a].kept = @ \/ (Installed(a) /\ ~act[a].gone)]
    /\ UNCHANGED <<build, clean>>

MakeActs(a) ==
    \/ UNCHANGED <<act, build, clean>> /\ make'[a].at # "building"
    \/ /\ make[a].at = "install" /\ make'[a].at = "ok" /\ ~Rejected(a) /\ ~Installed(a)
       /\ Install(a, FALSE) /\ UNCHANGED <<build, clean>>
    \/ /\ make[a].at = "check" /\ ~Refused(a) /\ Activate(a)
       /\ make'[a].at = IF Installed(a) THEN "ok" ELSE "building"
    \/ make[a].at = "built" /\ make'[a].at # "building" /\ Keeping(a)

LEMMA MakeStepDoes ==
    ASSUME TypeOK, NEW a \in Agents, MakeStep(a)
    PROVE  /\ make[a].at \in {"dir", "provision", "append", "install", "discard", "lose", "check", "built"}
           /\ \A x \in Agents : /\ x # a => make'[x].at = make[x].at
                                /\ make'[x].waiters = make[x].waiters
                                /\ make'[x].delivered = make[x].delivered
           /\ UNCHANGED <<call, comp, tree, close>>
           /\ dir' = dir \/ (make[a].at = "append" /\ dir' = dir \cup {a})
           /\ MakeGoes(a)
           /\ MakeActs(a)
<1>1. \A at : Make(a, at) => \A x \in Agents :
                 /\ make'[x].at = IF x = a THEN at ELSE make[x].at
                 /\ make'[x].waiters = make[x].waiters
                 /\ make'[x].delivered = make[x].delivered
  BY MakeSets
<1>2. PICK at : Make(a, at)
  BY DEF MakeStep
<1>3. \A x \in Agents : /\ x # a => make'[x].at = make[x].at
                        /\ make'[x].waiters = make[x].waiters
                        /\ make'[x].delivered = make[x].delivered
  BY <1>1, <1>2
<1>4. ASSUME NEW v, Make(a, v) PROVE make'[a].at = v
  BY <1>1, <1>4
<1>5. UNCHANGED <<call, comp, tree, close>>
  BY DEF MakeStep
<1>6. dir' = dir \/ (make[a].at = "append" /\ dir' = dir \cup {a})
  BY DEF MakeStep
<1>7. make[a].at \in {"dir", "provision", "append", "install", "discard", "lose", "check", "built"}
  BY DEF MakeStep
<1>8. MakeGoes(a) /\ MakeActs(a)
  <2>1. CASE make[a].at = "dir"
    <3>1. UNCHANGED <<dir, act, build, clean>>
      BY <2>1 DEF MakeStep
    <3>2. \/ Make(a, "fail") \/ (Make(a, "check") /\ a \in dir) \/ (Make(a, "provision") /\ OwnerLive(a))
      BY <2>1 DEF MakeStep
    <3>3. \/ make'[a].at = "fail" \/ (make'[a].at = "check" /\ a \in dir)
          \/ (make'[a].at = "provision" /\ OwnerLive(a))
      BY <3>2, <1>4
    <3> QED
      BY <2>1, <3>1, <3>3 DEF MakeGoes, MakeActs
  <2>2. CASE make[a].at = "provision"
    <3>1. UNCHANGED <<dir, act, build, clean>>
      BY <2>2 DEF MakeStep
    <3>2. Make(a, "fail") \/ Make(a, "append")
      BY <2>2 DEF MakeStep
    <3>3. make'[a].at \in {"append", "fail"}
      BY <3>2, <1>4
    <3> QED
      BY <2>2, <3>1, <3>3 DEF MakeGoes, MakeActs
  <2>3. CASE make[a].at = "append"
    <3>1. UNCHANGED <<act, build, clean>>
      BY <2>3 DEF MakeStep
    <3>2. Make(a, "discard") \/ (Make(a, "install") /\ a \in dir')
      BY <2>3 DEF MakeStep
    <3>3. make'[a].at = "discard" \/ (make'[a].at = "install" /\ a \in dir')
      BY <3>2, <1>4
    <3> QED
      BY <2>3, <3>1, <3>3 DEF MakeGoes, MakeActs
  <2>4. CASE make[a].at = "install"
    <3>1. UNCHANGED <<build, clean>>
      BY <2>4 DEF MakeStep
    <3>2. \/ Make(a, "discard") /\ UNCHANGED act
          \/ ~Rejected(a) /\ ~Installed(a) /\ Install(a, FALSE) /\ Make(a, "ok")
          \/ Installed(a) /\ Make(a, "lose") /\ UNCHANGED act
      BY <2>4 DEF MakeStep
    <3>3. \/ make'[a].at = "discard" /\ UNCHANGED act
          \/ ~Rejected(a) /\ ~Installed(a) /\ Install(a, FALSE) /\ make'[a].at = "ok"
          \/ Installed(a) /\ make'[a].at = "lose" /\ UNCHANGED act
      BY <3>2, <1>4
    <3> QED
      BY <2>4, <3>1, <3>3 DEF MakeGoes, MakeActs
  <2>5. CASE make[a].at = "discard"
    <3>1. UNCHANGED <<dir, act, build, clean>> /\ Make(a, "fail")
      BY <2>5 DEF MakeStep
    <3>3. make'[a].at = "fail"
      BY <3>1, <1>4
    <3> QED
      BY <2>5, <3>1, <3>3 DEF MakeGoes, MakeActs
  <2>6. CASE make[a].at = "lose"
    <3>1. UNCHANGED <<dir, act, build, clean>> /\ (Make(a, "fail") \/ Make(a, "ok"))
      BY <2>6 DEF MakeStep
    <3>3. make'[a].at \in {"ok", "fail"}
      BY <3>1, <1>4
    <3> QED
      BY <2>6, <3>1, <3>3 DEF MakeGoes, MakeActs
  <2>7. CASE make[a].at = "check"
    <3>2. \/ Make(a, "fail") /\ UNCHANGED <<act, build, clean>>
          \/ ~Refused(a) /\ Activate(a) /\ Make(a, IF Installed(a) THEN "ok" ELSE "building")
      BY <2>7 DEF MakeStep
    <3>3. \/ make'[a].at = "fail" /\ UNCHANGED <<act, build, clean>>
          \/ ~Refused(a) /\ Activate(a) /\ make'[a].at = IF Installed(a) THEN "ok" ELSE "building"
      BY <3>2, <1>4
    <3> QED
      BY <2>7, <3>3 DEF MakeGoes, MakeActs
  <2>8. CASE make[a].at = "built"
    <3>1. Keeping(a)
      BY <2>8 DEF MakeStep, Keeping
    <3>2. Make(a, "check") \/ Make(a, "fail") \/ (Make(a, "ok") /\ Installed(a))
      BY <2>8 DEF MakeStep
    <3>3. make'[a].at \in {"check", "fail"} \/ (make'[a].at = "ok" /\ Installed(a))
      BY <3>2, <1>4
    <3> QED
      BY <2>8, <3>1, <3>3 DEF MakeGoes, MakeActs
  <2> QED
    BY <1>7, <2>1, <2>2, <2>3, <2>4, <2>5, <2>6, <2>7, <2>8
<1> QED
  BY <1>3, <1>5, <1>6, <1>7, <1>8

LEMMA KeepingDoes ==
    ASSUME TypeOK, NEW a \in Agents, Keeping(a)
    PROVE  /\ StSame
           /\ \A x \in Agents : /\ act'[x].gone = act[x].gone
                                /\ act[x].kept => act'[x].kept
                                /\ x # a \/ ~Installed(a) => act'[x] = act[x]
<1>1. act \in [Agents -> Acts] /\ \A x \in Agents : act[x] \in Acts
  BY TypeIs
<1> DEFINE k == act[a].kept \/ (Installed(a) /\ ~act[a].gone)
<1>2. act' = [act EXCEPT ![a].kept = k]
  <2>1. act' = [act EXCEPT ![a].kept = @ \/ (Installed(a) /\ ~act[a].gone)]
    BY DEF Keeping
  <2> QED
    BY <1>1, <2>1 DEF Acts
<1>3. act[a].kept => k
  OBVIOUS
<1>4. ~Installed(a) => k = act[a].kept
  BY <1>1 DEF Acts
<1> HIDE DEF k
<1>5. act'[a] = [act[a] EXCEPT !.kept = k] /\ \A x \in Agents : x # a => act'[x] = act[x]
  BY <1>1, <1>2
<1>6. act'[a].st = act[a].st /\ act'[a].gone = act[a].gone /\ act'[a].kept = k
  BY <1>1, <1>5 DEF Acts
<1>7. ~Installed(a) => act'[a] = act[a]
  BY <1>1, <1>4, <1>5 DEF Acts
<1> QED
  BY <1>3, <1>5, <1>6, <1>7 DEF StSame

(* The build of an activation.                                             *)
LEMMA BuildStepDoes ==
    ASSUME TypeOK, NEW a \in Agents, BuildStep(a)
    PROVE  /\ build[a].at # "none"
           /\ UNCHANGED <<dir, comp, tree, clean, close>>
           /\ \/ UNCHANGED act
              \/ Install(a, TRUE) /\ ~Rejected(a) /\ ~Installed(a)
           /\ \/ \E good \in BOOLEAN : BuildEnds(a, good)
              \/ /\ \A x \in Agents : /\ x # a => build'[x].at = build[x].at
                                      /\ x = a => build'[x].at # "none"
                 /\ UNCHANGED <<call, make>>
<1>1. build[a].at # "none" /\ UNCHANGED <<dir, comp, tree, clean, close>>
  BY DEF BuildStep
<1>2. UNCHANGED act \/ (Install(a, TRUE) /\ ~Rejected(a) /\ ~Installed(a))
  BY DEF BuildStep
<1>3. build[a].hit \in BOOLEAN /\ build \in [Agents -> Builds] /\ \A x \in Agents : build[x] \in Builds
  BY TypeIs DEF Builds
<1>4. \/ \E good \in BOOLEAN : BuildEnds(a, good)
      \/ /\ \E at \in {"discard", "lose"} : build' = [build EXCEPT ![a].at = at]
         /\ UNCHANGED <<call, make>>
  BY <1>3 DEF BuildStep
<1>5. ASSUME NEW at \in {"discard", "lose"}, build' = [build EXCEPT ![a].at = at]
      PROVE  \A x \in Agents : /\ x # a => build'[x].at = build[x].at
                               /\ x = a => build'[x].at # "none"
  BY <1>3, <1>5 DEF Builds
<1> QED
  BY <1>1, <1>2, <1>4, <1>5

(* The cleanup of an agent.                                                *)
LEMMA CleanStepDoes ==
    ASSUME TypeOK, NEW a \in Agents, CleanStep(a)
    PROVE  /\ UNCHANGED <<dir, comp, tree, close>>
           /\ MakeSame /\ BuildSame
           /\ \A x \in Agents : x # a => clean'[x] = clean[x] /\ act'[x] = act[x]
           /\ \/ clean[a] = "pend" /\ clean'[a] = "join" /\ UNCHANGED act
              \/ /\ clean[a] = "join" /\ clean'[a] = "ok" /\ act[a].st = "none" /\ UNCHANGED act
                 /\ ~Busy(<<"make", a>>) /\ ~Busy(<<"build", a>>)
              \/ /\ clean[a] = "join" /\ clean'[a] = "stop" /\ act[a].st # "none"
                 /\ act'[a].st = "stopping" /\ act'[a].kept = act[a].kept /\ act'[a].gone = act[a].gone
              \/ clean[a] = "stop" /\ clean'[a] = "ok" /\ act'[a] = NoAct
              \/ clean[a] = "stop" /\ clean'[a] = "fail" /\ act'[a] = NoAct /\ Fault
<1>1. /\ clean \in [Agents -> Cleans] /\ act \in [Agents -> Acts] /\ \A x \in Agents : act[x] \in Acts
      /\ make \in [Agents -> Makes] /\ build \in [Agents -> Builds]
      /\ \A x \in Agents : make[x] \in Makes /\ build[x] \in Builds
  BY TypeIs
<1>2. UNCHANGED <<dir, comp, tree, close>>
  BY DEF CleanStep
<1>3. MakeSame
  <2>1. make' = make \/ make' = [make EXCEPT ![a].hit = TRUE]
    BY DEF CleanStep
  <2> QED
    BY <1>1, <2>1 DEF Makes, MakeSame
<1>4. BuildSame
  <2>1. build' = build \/ build' = [build EXCEPT ![a].hit = TRUE]
    BY DEF CleanStep
  <2> QED
    BY <1>1, <2>1 DEF Builds, BuildSame
<1>5. \A x \in Agents : x # a => clean'[x] = clean[x] /\ act'[x] = act[x]
  <2>1. \E v : clean' = [clean EXCEPT ![a] = v]
    BY DEF CleanStep
  <2>2. act' = act \/ act' = [act EXCEPT ![a].st = "stopping"] \/ act' = [act EXCEPT ![a] = NoAct]
    BY DEF CleanStep
  <2> QED
    BY <1>1, <2>1, <2>2
<1>6. CASE clean[a] = "pend"
  BY <1>1, <1>2, <1>3, <1>4, <1>5, <1>6 DEF CleanStep
<1>7. CASE clean[a] = "join"
  <2>1. CASE act[a].st = "none"
    BY <1>1, <1>2, <1>3, <1>4, <1>5, <1>7, <2>1 DEF CleanStep
  <2>2. CASE act[a].st # "none"
    <3>1. clean' = [clean EXCEPT ![a] = "stop"] /\ act' = [act EXCEPT ![a].st = "stopping"]
      BY <1>7, <2>2 DEF CleanStep
    <3>2. /\ act'[a].st = "stopping" /\ act'[a].kept = act[a].kept /\ act'[a].gone = act[a].gone
      BY <1>1, <3>1 DEF Acts
    <3> QED
      BY <1>1, <1>2, <1>3, <1>4, <1>5, <1>7, <2>2, <3>1, <3>2
  <2> QED
    BY <2>1, <2>2
<1>8. CASE clean[a] = "stop"
  BY <1>1, <1>2, <1>3, <1>4, <1>5, <1>8 DEF CleanStep
<1> QED
  BY <1>6, <1>7, <1>8 DEF CleanStep

(* The compensation.                                                       *)
LEMMA CompStepDoes ==
    ASSUME TypeOK, NEW a \in Agents, CompStep(a)
    PROVE  /\ UNCHANGED <<dir, act, build, clean, close, used>>
           /\ \A x \in Agents : x # a => comp'[x] = comp[x] /\ make'[x] = make[x]
           /\ \/ /\ comp[a] = "start" /\ comp'[a] \in {"close", "tree"} /\ UNCHANGED make
                 /\ (tree' = tree \/ (~Disposed /\ StartTree(a)))
              \/ /\ comp[a] \in {"end", "failed"} \/ (comp[a] = "close" /\ ResourcesDone)
                 /\ comp'[a] = "none" /\ make'[a] = NoMake /\ UNCHANGED tree
<1>1. comp \in [Agents -> Comps] /\ make \in [Agents -> Makes]
  BY TypeIs
<1>2. CASE comp[a] = "start"
  BY <1>1, <1>2 DEF CompStep
<1>3. CASE comp[a] # "start"
  BY <1>1, <1>3 DEF CompStep
<1> QED
  BY <1>2, <1>3

(* The disposal of a subtree: how its task moves.                          *)
TreeGoes(t) ==
    \/ UNCHANGED <<tree, comp, used>> /\ tree[t].at = "clean"
       /\ \E x \in ChildFirst(tree[t].todo) : Allocate(x)
    \/ /\ UNCHANGED <<clean, comp>> /\ (\A x \in Agents : x # t => tree'[x] = tree[x])
       /\ \/ /\ tree[t].at = "dir" /\ tree'[t].at = "scope" /\ tree'[t].members = Affected(t)
             /\ tree'[t].bad = tree[t].bad
          \/ /\ tree[t].at \in {"scope", "cancel", "joining"} /\ tree'[t].at \in {"cancel", "joining"}
             /\ tree'[t].members = tree[t].members /\ tree'[t].bad = tree[t].bad
          \/ /\ tree[t].at = "cancel" /\ tree'[t].at = "reload" /\ Inside(tree[t].members) = {}
             /\ tree'[t].members = tree[t].members /\ tree'[t].bad = tree[t].bad
             /\ UNCHANGED call
          \/ /\ tree[t].at = "reload" /\ tree'[t].at = "clean" /\ tree'[t].todo = Affected(t)
             /\ tree'[t].members = tree[t].members /\ tree'[t].bad = tree[t].bad
          \/ /\ tree[t].at = "clean" /\ tree'[t].at = "clean"
             /\ tree'[t].members = tree[t].members
             /\ \E x \in ChildFirst(tree[t].todo) :
                   /\ Over(x) /\ tree'[t].todo = tree[t].todo \ {x}
                   /\ tree'[t].bad => tree[t].bad \/ clean[x] = "fail"
    \/ /\ UNCHANGED clean /\ \E bad \in BOOLEAN : TreeEnds(t, bad)
       /\ Fault \/ (tree[t].at = "clean" /\ tree[t].todo = {} /\ TreeEnds(t, tree[t].bad))
       /\ tree[t].at # "clean" \/ tree[t].todo = {}

LEMMA DisposeDoes ==
    ASSUME TypeOK, NEW t \in Agents, Dispose(t)
    PROVE  /\ UNCHANGED <<dir, act, close>>
           /\ MakeSame /\ BuildSame
           /\ tree[t].at # "none"
           /\ TreeGoes(t)
<1>1. /\ tree \in [Agents -> Trees] /\ tree[t] \in Trees
      /\ make' = make => MakeSame
      /\ build' = build => BuildSame
  BY TypeIs DEF MakeSame, BuildSame
<1>2. tree[t].at # "none" /\ UNCHANGED <<dir, act, close>>
  BY DEF Dispose, TreeStep, Reload, TreeClean
<1>3. CASE TreeStep(t)
  <2>1. CASE tree[t].at = "dir"
    <3>1. UNCHANGED <<make, build, clean>>
      BY <1>3, <2>1 DEF TreeStep
    <3>2. CASE tree' = [tree EXCEPT ![t].at = "scope", ![t].members = Affected(t)] /\ UNCHANGED comp
      <4>0. tree'[t] = [[tree[t] EXCEPT !.at = "scope"] EXCEPT !.members = Affected(t)]
        BY <1>1, <3>2
      <4>1. tree'[t].at = "scope" /\ tree'[t].members = Affected(t) /\ tree'[t].bad = tree[t].bad
        BY <1>1, <4>0 DEF Trees
      <4>2. \A x \in Agents : x # t => tree'[x] = tree[x]
        BY <1>1, <3>2
      <4> QED
        BY <1>1, <1>2, <2>1, <3>1, <3>2, <4>1, <4>2 DEF TreeGoes
    <3>3. CASE TreeEnds(t, TRUE) /\ Fault
      BY <1>1, <1>2, <2>1, <3>1, <3>3 DEF TreeGoes
    <3> QED
      BY <1>3, <2>1, <3>2, <3>3 DEF TreeStep
  <2>2. CASE tree[t].at = "scope"
    <3>1. /\ UNCHANGED <<make, build, clean, comp>>
          /\ tree' = [tree EXCEPT ![t].at = "cancel", ![t].joins = Pending(tree[t].members)]
      BY <1>3, <2>2 DEF TreeStep
    <3>2. tree'[t] = [[tree[t] EXCEPT !.at = "cancel"] EXCEPT !.joins = Pending(tree[t].members)]
      BY <1>1, <3>1
    <3>3. tree'[t].at = "cancel" /\ tree'[t].members = tree[t].members /\ tree'[t].bad = tree[t].bad
      BY <1>1, <3>2 DEF Trees
    <3>4. \A x \in Agents : x # t => tree'[x] = tree[x]
      BY <1>1, <3>1
    <3> QED
      BY <1>1, <1>2, <2>2, <3>1, <3>3, <3>4 DEF TreeGoes
  <2>3. CASE tree[t].at = "joining"
    <3>1. /\ UNCHANGED <<make, build, clean, comp>>
          /\ tree' = [tree EXCEPT ![t].at = "cancel", ![t].todo = {}]
      BY <1>3, <2>3 DEF TreeStep
    <3>2. tree'[t] = [[tree[t] EXCEPT !.at = "cancel"] EXCEPT !.todo = {}]
      BY <1>1, <3>1
    <3>3. tree'[t].at = "cancel" /\ tree'[t].members = tree[t].members /\ tree'[t].bad = tree[t].bad
      BY <1>1, <3>2 DEF Trees
    <3>4. \A x \in Agents : x # t => tree'[x] = tree[x]
      BY <1>1, <3>1
    <3> QED
      BY <1>1, <1>2, <2>3, <3>1, <3>3, <3>4 DEF TreeGoes
  <2>4. CASE tree[t].at = "cancel"
    <3>1. ASSUME NEW j \in tree[t].joins, Struck(j),
                 tree' = [tree EXCEPT ![t].at = "joining", ![t].joins = @ \ {j}, ![t].todo = {j[2]}],
                 UNCHANGED <<comp, clean>>
          PROVE  MakeSame /\ BuildSame /\ TreeGoes(t)
      <4>1. j \in Jobs
        BY <1>1 DEF Trees
      <4>2. MakeSame /\ BuildSame
        BY <3>1, <4>1, StruckSame
      <4> DEFINE J == tree[t].joins \ {j}
      <4>3. tree' = [tree EXCEPT ![t].at = "joining", ![t].joins = J, ![t].todo = {j[2]}]
        BY <1>1, <3>1 DEF Trees
      <4> HIDE DEF J
      <4>4. tree'[t] = [[[tree[t] EXCEPT !.at = "joining"] EXCEPT !.joins = J] EXCEPT !.todo = {j[2]}]
        BY <1>1, <4>3
      <4>5. tree'[t].at = "joining" /\ tree'[t].members = tree[t].members /\ tree'[t].bad = tree[t].bad
        BY <1>1, <4>4 DEF Trees
      <4>6. \A x \in Agents : x # t => tree'[x] = tree[x]
        BY <1>1, <4>3
      <4> QED
        BY <2>4, <3>1, <4>2, <4>5, <4>6 DEF TreeGoes
    <3>2. CASE /\ Inside(tree[t].members) = {} /\ UNCHANGED <<call, make, build, clean, comp>>
               /\ tree' = [tree EXCEPT ![t].at = "reload"]
      <4>1. tree'[t] = [tree[t] EXCEPT !.at = "reload"]
        BY <1>1, <3>2
      <4>2. tree'[t].at = "reload" /\ tree'[t].members = tree[t].members /\ tree'[t].bad = tree[t].bad
        BY <1>1, <4>1 DEF Trees
      <4>3. \A x \in Agents : x # t => tree'[x] = tree[x]
        BY <1>1, <3>2
      <4> QED
        BY <1>1, <1>2, <2>4, <3>2, <4>2, <4>3 DEF TreeGoes
    <3> QED
      BY <1>2, <1>3, <2>4, <3>1, <3>2 DEF TreeStep
  <2> QED
    BY <1>3, <2>1, <2>2, <2>3, <2>4 DEF TreeStep
<1>4. CASE Reload(t)
  <2>1. UNCHANGED <<make, build, clean>> /\ tree[t].at = "reload"
    BY <1>4 DEF Reload
  <2>2. CASE tree' = [tree EXCEPT ![t].at = "clean", ![t].todo = Affected(t)] /\ UNCHANGED comp
    <3>1. tree'[t] = [[tree[t] EXCEPT !.at = "clean"] EXCEPT !.todo = Affected(t)]
      BY <1>1, <2>2
    <3>2. /\ tree'[t].at = "clean" /\ tree'[t].members = tree[t].members
          /\ tree'[t].todo = Affected(t) /\ tree'[t].bad = tree[t].bad
      BY <1>1, <3>1 DEF Trees
    <3>3. \A x \in Agents : x # t => tree'[x] = tree[x]
      BY <1>1, <2>2
    <3> QED
      BY <1>1, <1>2, <2>1, <2>2, <3>2, <3>3 DEF TreeGoes
  <2>3. CASE TreeEnds(t, TRUE) /\ Fault
    BY <1>1, <1>2, <2>1, <2>3 DEF TreeGoes
  <2> QED
    BY <1>4, <2>2, <2>3 DEF Reload
<1>5. CASE TreeClean(t)
  <2>1. UNCHANGED <<make, build, used>> /\ tree[t].at = "clean"
    BY <1>5 DEF TreeClean
  <2>2. ASSUME NEW x \in ChildFirst(tree[t].todo), Allocate(x), UNCHANGED <<tree, comp>>
        PROVE  TreeGoes(t)
    BY <2>1, <2>2 DEF TreeGoes
  <2>3. ASSUME NEW x \in ChildFirst(tree[t].todo), Over(x), UNCHANGED <<clean, comp>>,
               tree' = [tree EXCEPT ![t].todo = @ \ {x}, ![t].bad = @ \/ clean[x] = "fail"]
        PROVE  TreeGoes(t)
    <3> DEFINE S == tree[t].todo \ {x}
               b == tree[t].bad \/ clean[x] = "fail"
    <3>1. tree' = [tree EXCEPT ![t].todo = S, ![t].bad = b]
      BY <1>1, <2>3 DEF Trees
    <3>2. b => tree[t].bad \/ clean[x] = "fail"
      OBVIOUS
    <3> HIDE DEF b
    <3>3. tree'[t] = [[tree[t] EXCEPT !.todo = S] EXCEPT !.bad = b]
      BY <1>1, <3>1
    <3>4. /\ tree'[t].at = "clean" /\ tree'[t].members = tree[t].members
          /\ tree'[t].todo = S /\ tree'[t].bad = b
      BY <1>1, <2>1, <3>3 DEF Trees
    <3>5. \A y \in Agents : y # t => tree'[y] = tree[y]
      BY <1>1, <3>1
    <3> QED
      BY <2>1, <2>3, <3>2, <3>4, <3>5 DEF TreeGoes
  <2>4. CASE tree[t].todo = {} /\ TreeEnds(t, tree[t].bad) /\ UNCHANGED clean
    <3>1. tree[t].bad \in BOOLEAN
      BY <1>1 DEF Trees
    <3> QED
      BY <1>1, <1>2, <2>1, <2>4, <3>1 DEF TreeGoes
  <2> QED
    BY <1>1, <1>2, <1>5, <2>1, <2>2, <2>3, <2>4 DEF TreeClean
<1> QED
  BY <1>3, <1>4, <1>5 DEF Dispose

(* The close.                                                              *)
CloseGoes ==
    \/ close'.at = close.at /\ close'.todo = close.todo /\ close.at = "clean"
       /\ \E x \in ChildFirst(close.todo) : Allocate(x)
    \/ /\ UNCHANGED clean
       /\ \/ close.at \in {"begin", "cancel", "joining"} /\ close'.at \in {"cancel", "joining"}
          \/ /\ close.at = "cancel" /\ close'.at = "trees" /\ Inside(Agents) = {} /\ UNCHANGED call
          \/ close.at = "trees" /\ close'.at = "dir" /\ \A t \in Agents : tree[t].at = "none"
          \/ close.at = "dir" /\ close'.at = "clean" /\ Known \subseteq close'.todo
          \/ /\ close.at = "clean" /\ close'.at = "clean"
             /\ \E x \in ChildFirst(close.todo) : Over(x) /\ close'.todo = close.todo \ {x}
          \/ close.at = "clean" /\ close'.at = "calls" /\ close'.todo = {} /\ close.todo = {}
          \/ close.at = "calls" /\ close'.at = "done" /\ close'.todo = close.todo

LEMMA CloseStepDoes ==
    ASSUME TypeOK, CloseStep
    PROVE  /\ UNCHANGED <<dir, act, comp, tree>>
           /\ MakeSame /\ BuildSame
           /\ CloseGoes
<1>1. /\ close \in Closings
      /\ make' = make => MakeSame
      /\ build' = build => BuildSame
  BY TypeIs DEF MakeSame, BuildSame
<1>2. UNCHANGED <<dir, act, comp, tree>>
  BY DEF CloseStep
<1>3. CASE close.at = "begin"
  BY <1>1, <1>2, <1>3 DEF CloseStep, CloseQuiescent, CloseGoes, Closings
<1>4. CASE close.at = "cancel"
  <2>1. ASSUME NEW j \in close.joins, Struck(j), clean' = clean,
               close' = [close EXCEPT !.at = "joining", !.joins = @ \ {j}, !.todo = {j[2]}]
        PROVE  MakeSame /\ BuildSame /\ CloseGoes
    <3>1. j \in Jobs
      BY <1>1 DEF Closings
    <3>2. MakeSame /\ BuildSame
      BY <2>1, <3>1, StruckSame
    <3>3. close'.at = "joining"
      BY <1>1, <2>1 DEF Closings
    <3> QED
      BY <1>4, <2>1, <3>2, <3>3 DEF CloseGoes
  <2>2. CASE CloseQuiescent /\ UNCHANGED <<make, build, call, clean>>
    <3>1. close'.at = "trees" /\ Inside(Agents) = {}
      BY <1>1, <2>2 DEF CloseQuiescent, Closings
    <3> QED
      BY <1>1, <1>2, <1>4, <2>2, <3>1 DEF CloseGoes
  <2> QED
    BY <1>2, <1>4, <2>1, <2>2 DEF CloseStep, CloseQuiescent
<1>5. CASE close.at = "joining"
  BY <1>1, <1>2, <1>5 DEF CloseStep, CloseQuiescent, CloseGoes, Closings
<1>6. CASE close.at = "trees"
  BY <1>1, <1>2, <1>6 DEF CloseStep, CloseQuiescent, CloseGoes, Closings
<1>7. CASE close.at = "dir"
  <2>1. UNCHANGED <<make, build, clean>> /\ \E S : close' = [close EXCEPT !.at = "clean", !.todo = S]
                                                  /\ Known \subseteq S
    BY <1>7 DEF CloseStep, CloseQuiescent
  <2>2. close'.at = "clean" /\ Known \subseteq close'.todo
    BY <1>1, <2>1 DEF Closings
  <2> QED
    BY <1>1, <1>2, <1>7, <2>1, <2>2 DEF CloseGoes
<1>8. CASE close.at = "clean"
  <2>1. UNCHANGED <<make, build>>
    BY <1>8 DEF CloseStep, CloseQuiescent
  <2>2. ASSUME NEW x \in ChildFirst(close.todo), Over(x), clean' = clean,
               close' = [close EXCEPT !.todo = @ \ {x}]
        PROVE  CloseGoes
    <3>1. close'.at = close.at /\ close'.todo = close.todo \ {x}
      BY <1>1, <2>2 DEF Closings
    <3> QED
      BY <1>8, <2>2, <3>1 DEF CloseGoes
  <2>3. ASSUME NEW x \in ChildFirst(close.todo), Allocate(x), close' = close
        PROVE  CloseGoes
    BY <1>8, <2>3 DEF CloseGoes
  <2>4. CASE close.todo = {} /\ close' = [close EXCEPT !.at = "calls"] /\ clean' = clean
    <3>1. close'.at = "calls" /\ close'.todo = close.todo
      BY <1>1, <2>4 DEF Closings
    <3> QED
      BY <1>1, <1>2, <1>8, <2>1, <2>4, <3>1 DEF CloseGoes
  <2> QED
    BY <1>1, <1>2, <1>8, <2>1, <2>2, <2>3, <2>4 DEF CloseStep, CloseQuiescent
<1>9. CASE close.at = "calls"
  BY <1>1, <1>2, <1>9 DEF CloseStep, CloseQuiescent, CloseGoes, Closings
<1> QED
  BY <1>3, <1>4, <1>5, <1>6, <1>7, <1>8, <1>9 DEF CloseStep, CloseQuiescent

(* Starting a call, cancelling one and what a caller does before it has an *)
(* admission touch no registry.                                            *)
LEMMA Outside ==
    ASSUME TypeOK, NEW c \in Callers,
           \/ \E a \in Agents : Begin(c, "create", a) \/ Begin(c, "wake", a) \/ BeginDispose(c, a)
           \/ BeginClose(c) \/ Cancel(c) \/ Lookup(c) \/ Refuse(c) \/ Abort(c)
    PROVE  /\ UNCHANGED <<dir, act, make, build, comp, clean>>
           /\ tree' = tree \/ \E a \in Agents : ~Disposed /\ StartTree(a)
           /\ close' = close \/ (close.at = "none" /\ close'.at = "begin")
<1>1. close \in Closings
  BY TypeIs
<1>2. CASE \E a \in Agents : Begin(c, "create", a) \/ Begin(c, "wake", a)
  BY <1>2 DEF Begin
<1>3. ASSUME NEW a \in Agents, BeginDispose(c, a)
      PROVE  /\ UNCHANGED <<dir, act, make, build, comp, clean, close>>
             /\ tree' = tree \/ (~Disposed /\ StartTree(a))
  BY <1>3 DEF BeginDispose
<1>4. CASE BeginClose(c)
  BY <1>1, <1>4 DEF BeginClose, Closings
<1> QED
  BY <1>2, <1>3, <1>4 DEF Cancel, Lookup, Refuse, Abort

(* Faults are counted up.                                                  *)
LEMMA FaultsCount ==
    ASSUME TypeOK, Next
    PROVE  /\ used.faults \in Nat /\ used'.faults \in Nat /\ used'.faults >= used.faults
           /\ Fault => used'.faults > 0
           /\ used'.faults = 0 => used.faults = 0 /\ ~Fault
<1>1. used \in Counts
  BY TypeIs
<1>2. used.faults \in Nat
  BY ONLY <1>1, SupervisorLifecycleAssumption DEF Counts
<1>3. \/ used' = used \/ Fault \/ Calls \/ used' = [used EXCEPT !.cancels = @ + 1]
  <2>1. ASSUME NEW c \in Callers, NEW a \in Agents,
               Begin(c, "create", a) \/ Begin(c, "wake", a) \/ BeginDispose(c, a)
        PROVE  Calls
    BY <2>1 DEF Begin, BeginDispose
  <2>2. ASSUME NEW c \in Callers, BeginClose(c) \/ Cancel(c)
        PROVE  Calls \/ used' = [used EXCEPT !.cancels = @ + 1]
    BY ONLY <2>2 DEF BeginClose, Cancel
  <2>3. ASSUME NEW c \in Callers, Proceed(c) PROVE used' = used
    BY <2>3 DEF Proceed, Lookup, Refuse, Admit, Abort, Check, Post, Release
  <2>4. ASSUME NEW a \in Agents, MakeStep(a) PROVE used' = used \/ Fault
    BY <2>4 DEF MakeStep
  <2>5. ASSUME NEW a \in Agents, BuildStep(a) PROVE used' = used \/ Fault
    BY <2>5 DEF BuildStep
  <2>6. ASSUME NEW a \in Agents, CompStep(a) \/ CleanStep(a) PROVE used' = used \/ Fault
    BY <2>6 DEF CompStep, CleanStep
  <2>7. ASSUME NEW t \in Agents, Dispose(t) PROVE used' = used \/ Fault
    BY <2>7 DEF Dispose, TreeStep, Reload, TreeClean
  <2>8. ASSUME NEW a \in Agents, WorkerFaults(a) PROVE Fault
    BY <2>8 DEF WorkerFaults
  <2>9. CloseStep => used' = used \/ Fault
    BY DEF CloseStep, CloseQuiescent
  <2> QED
    BY ONLY Next, <2>1, <2>2, <2>3, <2>4, <2>5, <2>6, <2>7, <2>8, <2>9 DEF Next, Work
<1>4. Fault => used'.faults = used.faults + 1
  BY <1>1 DEF Fault, Counts
<1>5. Calls \/ used' = [used EXCEPT !.cancels = @ + 1] => used'.faults = used.faults
  BY <1>1 DEF Calls, Counts
<1> QED
  BY <1>2, <1>3, <1>4, <1>5

-----------------------------------------------------------------------------
(* Whoever is active, being created or built is on record.                 *)
OnRecord == {"install", "lose", "check", "building", "built"}

LEMMA RecordedBy ==
    ASSUME TypeOK, Recorded, dir \subseteq dir', Owners(dir'),
           \A x \in Agents :
              /\ act'[x].st # "none" => act[x].st # "none" \/ x \in dir'
              /\ make'[x].at \in {"provision", "append"} => make[x].at \in {"provision", "append"} \/ OwnerLive(x)
              /\ make'[x].at \in OnRecord => make[x].at \in OnRecord \/ x \in dir'
              /\ build'[x].at # "none" => build[x].at # "none" \/ x \in dir'
    PROVE  Recorded'
<1>1. \A x \in Agents : OwnerLive(x) => Owner[x] \subseteq dir
  <2> SUFFICES ASSUME NEW x \in Agents, OwnerLive(x), NEW p \in Owner[x] PROVE p \in dir
    OBVIOUS
  <2>1. p \in Agents /\ act[p].st = "live"
    BY LineageIs DEF OwnerLive
  <2> QED
    BY <2>1 DEF Recorded
<1> QED
  BY <1>1 DEF Recorded, OnRecord

LEMMA RecordedKept ==
    ASSUME Inv, Next
    PROVE  Recorded'
<1> USE DEF Inv
<1>0. dir \subseteq dir' /\ dir \subseteq Agents
  BY DirGrows, TypeIs
<1>1. Owners(dir')
  <2>1. CASE dir' = dir
    BY <2>1 DEF Recorded
  <2>2. CASE dir' # dir
    <3>1. PICK a \in Agents : make[a].at = "append" /\ dir' = dir \cup {a}
      BY <2>2, DirGrows
    <3>2. Owner[a] \subseteq dir
      BY <3>1 DEF Recorded
    <3> QED
      BY <3>1, <3>2 DEF Recorded, Owners
  <2> QED
    BY <2>1, <2>2
<1>2. CASE StSame /\ MakeSame /\ BuildSame
  BY <1>0, <1>1, <1>2, RecordedBy DEF StSame, MakeSame, BuildSame
<1>3. CASE UNCHANGED <<act, make, build>>
  BY <1>0, <1>1, <1>3, RecordedBy
<1>4. ASSUME NEW c \in Callers, Admit(c) PROVE Recorded'
  <2>1. call[c].on \in Agents
    BY <1>4, About DEF Admit
  <2>2. make' = make \/ JoinCreate(c, call[c].on)
    BY <1>4 DEF Admit
  <2>3. \A x \in Agents : make'[x].at = make[x].at \/ make'[x].at = "dir"
    <3>1. ASSUME JoinCreate(c, call[c].on), NEW x \in Agents
          PROVE  make'[x].at = make[x].at \/ make'[x].at = "dir"
      <4>1. make'[x].at = IF x = call[c].on /\ make[x].at = "none" THEN "dir" ELSE make[x].at
        BY ONLY TypeOK, <2>1, <3>1, JoinSets, Zenon
      <4> QED
        BY ONLY <4>1
    <3> QED
      BY ONLY <2>2, <3>1
  <2>4. UNCHANGED <<act, build>>
    BY <1>4 DEF Admit
  <2> QED
    BY <1>0, <1>1, <2>3, <2>4, RecordedBy DEF OnRecord
<1>5. ASSUME NEW c \in Callers, Check(c) PROVE Recorded'
  <2>1. call[c].on \in Agents /\ call[c].on \in dir
    BY <1>5, About DEF Check, Waits
  <2>2. make' = make
    BY <1>5 DEF Check
  <2>3. UNCHANGED <<act, build>> \/ Activate(call[c].on)
    BY <1>5 DEF Check
  <2>4. ASSUME Activate(call[c].on) PROVE Recorded'
    <3>1. \A x \in Agents : act'[x].st = act[x].st
      BY <2>1, <2>4, ActivateDoes DEF StSame
    <3>2. \A x \in Agents : build'[x].at = build[x].at \/ x \in dir
      BY <2>1, <2>4, ActivateDoes
    <3> QED
      BY <1>0, <1>1, <2>2, <3>1, <3>2, RecordedBy
  <2> QED
    BY <1>3, <2>2, <2>3, <2>4
<1>6. ASSUME NEW c \in Callers, Post(c) PROVE Recorded'
  BY <1>2, <1>6, PostDoes DEF MakeSame, BuildSame
<1>7. ASSUME NEW c \in Callers, Release(c) PROVE Recorded'
  <2>1. \A x \in Agents : act'[x].st = act[x].st
    BY <1>7, ReleaseDoes DEF StSame
  <2>2. \A x \in Agents : make'[x].at = make[x].at \/ make'[x].at = "none"
    BY <1>7, ReleaseDoes DEF NoMake
  <2>3. build' = build
    BY <1>7, ReleaseDoes
  <2> QED
    BY <1>0, <1>1, <2>1, <2>2, <2>3, RecordedBy DEF OnRecord
<1>8. ASSUME NEW a \in Agents, MakeStep(a) PROVE Recorded'
  <2>0. /\ \A x \in Agents : x # a => make'[x].at = make[x].at
        /\ MakeGoes(a) /\ MakeActs(a)
        /\ make[a].at \in {"dir", "provision", "append", "install", "discard", "lose", "check", "built"}
    BY <1>8, MakeStepDoes
  <2>1. make[a].at \in OnRecord => a \in dir
    BY DEF Recorded, OnRecord
  <2>2. make'[a].at \in {"provision", "append"} => make[a].at \in {"provision", "append"} \/ OwnerLive(a)
    BY <2>0 DEF MakeGoes
  <2>3. make'[a].at \in OnRecord => make[a].at \in OnRecord \/ a \in dir'
    BY <2>0 DEF MakeGoes, OnRecord
  <2>4. ASSUME NEW x \in Agents
        PROVE  /\ act'[x].st # "none" => act[x].st # "none" \/ x \in dir'
               /\ build'[x].at # "none" => build[x].at # "none" \/ x \in dir'
    <3>1. CASE UNCHANGED <<act, build, clean>>
      BY <3>1
    <3>2. CASE make[a].at = "install" /\ Install(a, FALSE) /\ UNCHANGED <<build, clean>>
      <4>1. x # a => act'[x] = act[x]
        BY <3>2, InstallDoes
      <4> QED
        BY <1>0, <2>1, <3>2, <4>1 DEF OnRecord
    <3>3. CASE make[a].at = "check" /\ Activate(a)
      <4>1. act'[x].st = act[x].st
        BY <3>3, ActivateDoes DEF StSame
      <4>2. build'[x].at = build[x].at \/ x = a
        BY <3>3, ActivateDoes
      <4> QED
        BY <1>0, <2>1, <3>3, <4>1, <4>2 DEF OnRecord
    <3>4. CASE Keeping(a)
      <4>1. act'[x].st = act[x].st /\ build' = build
        BY <3>4, KeepingDoes DEF StSame, Keeping
      <4> QED
        BY <4>1
    <3> QED
      BY <2>0, <3>1, <3>2, <3>3, <3>4 DEF MakeActs
  <2> QED
    BY <1>0, <1>1, <2>0, <2>2, <2>3, <2>4, RecordedBy
<1>9. ASSUME NEW a \in Agents, BuildStep(a) PROVE Recorded'
  <2>0. build[a].at # "none" /\ a \in dir
    BY <1>9, BuildStepDoes DEF Recorded
  <2>1. UNCHANGED act \/ Install(a, TRUE)
    BY <1>9, BuildStepDoes
  <2>2. \A x \in Agents : act'[x] = act[x] \/ x \in dir
    BY <2>0, <2>1, InstallDoes
  <2>3. \A x \in Agents : build'[x].at # "none" => build[x].at # "none"
    <3>1. CASE \E good \in BOOLEAN : BuildEnds(a, good)
      BY <3>1, BuildEndDoes
    <3>2. CASE \A x \in Agents : x # a => build'[x].at = build[x].at
      BY <2>0, <3>2
    <3> QED
      BY <1>9, <3>1, <3>2, BuildStepDoes
  <2>4. \A x \in Agents : make'[x].at = make[x].at \/ (x = a /\ make[a].at = "building")
    <3>1. CASE \E good \in BOOLEAN : BuildEnds(a, good)
      BY <3>1, BuildEndDoes
    <3>2. CASE make' = make
      BY <3>2
    <3> QED
      BY <1>9, <3>1, <3>2, BuildStepDoes
  <2>5. \A x \in Agents : make'[x].at \in {"provision", "append"} => make[x].at \in {"provision", "append"}
    <3>1. CASE \E good \in BOOLEAN : BuildEnds(a, good)
      BY <3>1, BuildEndDoes
    <3>2. CASE make' = make
      BY <3>2
    <3> QED
      BY <1>9, <3>1, <3>2, BuildStepDoes
  <2> QED
    BY <1>0, <1>1, <2>0, <2>2, <2>3, <2>4, <2>5, RecordedBy DEF OnRecord
<1>10. ASSUME NEW a \in Agents, CompStep(a) PROVE Recorded'
  <2>1. UNCHANGED <<act, build>> /\ \A x \in Agents : make'[x] = make[x] \/ make'[x] = NoMake
    BY <1>10, CompStepDoes
  <2> QED
    BY <1>0, <1>1, <2>1, RecordedBy DEF NoMake, OnRecord
<1>11. ASSUME NEW a \in Agents, CleanStep(a) PROVE Recorded'
  <2>1. MakeSame /\ BuildSame
    BY <1>11, CleanStepDoes
  <2>2. \A x \in Agents : act'[x].st # "none" => act[x].st # "none"
    <3>1. \A x \in Agents : x # a => act'[x] = act[x]
      BY <1>11, CleanStepDoes
    <3>2. UNCHANGED act \/ act[a].st # "none" \/ act'[a] = NoAct
      BY <1>11, CleanStepDoes
    <3> QED
      BY <3>1, <3>2 DEF NoAct
  <2> QED
    BY <1>0, <1>1, <2>1, <2>2, RecordedBy DEF MakeSame, BuildSame
<1>12. ASSUME NEW t \in Agents, Dispose(t) PROVE Recorded'
  BY <1>2, <1>12, DisposeDoes DEF StSame
<1>13. ASSUME NEW a \in Agents, WorkerFaults(a) PROVE Recorded'
  <2>1. /\ act' = [act EXCEPT ![a].st = "faulted"] /\ act[a].st = "live"
        /\ UNCHANGED <<make, build>>
    BY <1>13 DEF WorkerFaults
  <2>2. \A x \in Agents : act'[x].st # "none" => act[x].st # "none"
    BY <2>1, ActSets
  <2> QED
    BY <1>0, <1>1, <2>1, <2>2, RecordedBy
<1>14. CASE CloseStep
  BY <1>2, <1>14, CloseStepDoes DEF StSame
<1>15. ASSUME NEW c \in Callers,
              \/ \E a \in Agents : Begin(c, "create", a) \/ Begin(c, "wake", a) \/ BeginDispose(c, a)
              \/ BeginClose(c) \/ Cancel(c) \/ Lookup(c) \/ Refuse(c) \/ Abort(c)
       PROVE  Recorded'
  BY <1>3, <1>15, Outside
<1> QED
  BY <1>4, <1>5, <1>6, <1>7, <1>8, <1>9, <1>10, <1>11, <1>12, <1>13, <1>14, <1>15
  DEF Next, Proceed, Work

-----------------------------------------------------------------------------
(* An activation appears by an installation, goes by a cleanup, and may    *)
(* fault in between.                                                       *)
Installing(b) ==
    /\ \E k \in BOOLEAN : Install(b, k)
    /\ ~Rejected(b) /\ ~Installed(b)
    /\ Busy(<<"make", b>>) \/ Busy(<<"build", b>>)
    /\ UNCHANGED <<clean, comp, tree, close>>

LEMMA StMoves ==
    ASSUME TypeOK, Waits, Next
    PROVE  \/ StSame
           \/ \E b \in Agents : Installing(b) \/ CleanStep(b) \/ WorkerFaults(b)
<1>1. UNCHANGED act => StSame
  BY DEF StSame
<1>2. ASSUME NEW c \in Callers, Proceed(c) PROVE StSame
  <2>1. CASE Check(c)
    <3>1. call[c].on \in Agents
      BY <2>1, About DEF Check
    <3>2. UNCHANGED act \/ Activate(call[c].on)
      BY <2>1 DEF Check
    <3> QED
      BY <1>1, <3>1, <3>2, ActivateDoes
  <2>2. UNCHANGED act \/ Check(c) \/ Post(c) \/ Release(c)
    BY <1>2 DEF Proceed, Lookup, Refuse, Admit, Abort
  <2> QED
    BY <1>1, <2>1, <2>2, PostDoes, ReleaseDoes
<1>3. ASSUME NEW a \in Agents, MakeStep(a) PROVE StSame \/ Installing(a)
  <2>1. MakeActs(a) /\ UNCHANGED <<comp, tree, close>>
    BY <1>3, MakeStepDoes
  <2>2. make[a].at = "install" => Busy(<<"make", a>>)
    BY DEF Busy
  <2>3. CASE make[a].at = "install" /\ ~Rejected(a) /\ ~Installed(a) /\ Install(a, FALSE)
             /\ UNCHANGED <<build, clean>>
    BY <2>1, <2>2, <2>3 DEF Installing
  <2> QED
    BY <1>1, <2>1, <2>3, ActivateDoes, KeepingDoes DEF MakeActs
<1>4. ASSUME NEW a \in Agents, BuildStep(a) PROVE StSame \/ Installing(a)
  <2>1. Busy(<<"build", a>>)
    BY <1>4, BuildStepDoes DEF Busy
  <2>2. UNCHANGED <<comp, tree, clean, close>>
    BY <1>4, BuildStepDoes
  <2>3. UNCHANGED act \/ (Install(a, TRUE) /\ ~Rejected(a) /\ ~Installed(a))
    BY <1>4, BuildStepDoes
  <2> QED
    BY <1>1, <2>1, <2>2, <2>3 DEF Installing
<1>5. ASSUME NEW a \in Agents, CompStep(a) PROVE StSame
  BY <1>1, <1>5, CompStepDoes
<1>6. ASSUME NEW t \in Agents, Dispose(t) PROVE StSame
  BY <1>1, <1>6, DisposeDoes
<1>7. CloseStep => StSame
  BY <1>1, CloseStepDoes
<1> QED
  BY <1>1, <1>2, <1>3, <1>4, <1>5, <1>6, <1>7
  DEF Next, Work, Begin, BeginDispose, BeginClose, Cancel

LEMMA InstallingDoes ==
    ASSUME Inv, NEW b \in Agents, Installing(b)
    PROVE  /\ \A x \in Agents : x # b => act'[x] = act[x]
           /\ act'[b].st = "live" /\ ~act'[b].gone
           /\ ~Disposed /\ clean[b] = "none" /\ OwnerLive(b)
           /\ \A p \in Lineage[b] : ~Cleaning(p)
           /\ UNCHANGED <<clean, comp, tree, close>>
           /\ \A t \in Agents : tree[t].at \in {"reload", "clean"} => b \notin Affected(t)
<1>1. \E c \in Callers : Admitted(c) /\ call[c].on = b
  BY Behind DEF Inv, Installing
<1> QED
  BY <1>1, Working, InstallDoes DEF Inv, Installing, Rejected

LEMMA FaultsDo ==
    ASSUME TypeOK, NEW b \in Agents, WorkerFaults(b)
    PROVE  /\ act[b].st = "live" /\ act'[b].st = "faulted"
           /\ act'[b].kept = act[b].kept /\ act'[b].gone = act[b].gone
           /\ \A x \in Agents : x # b => act'[x] = act[x]
           /\ UNCHANGED <<dir, call, make, build, comp, tree, clean, close>>
           /\ Fault
<1>1. act' = [act EXCEPT ![b].st = "faulted"] /\ act \in [Agents -> Acts]
  BY TypeIs DEF WorkerFaults
<1>2. \A x \in Agents : x # b => act'[x] = act[x]
  BY <1>1
<1>3. act'[b].st = "faulted" /\ act'[b].kept = act[b].kept /\ act'[b].gone = act[b].gone
  BY <1>1 DEF Acts
<1> QED
  BY <1>2, <1>3 DEF WorkerFaults

LEMMA OwnedKept ==
    ASSUME Inv, Next
    PROVE  Owned'
<1> SUFFICES ASSUME NEW a \in Agents, NEW p \in Owner[a]
             PROVE  /\ act'[a].st # "none" => act'[p].st # "none"
                    /\ act'[a].st \in {"live", "faulted"} => act'[p].st # "stopping"
  BY DEF Owned, Installed
<1>0. p \in Agents /\ p # a
  BY LineageIs
<1>1. /\ act[a].st # "none" => act[p].st # "none"
      /\ act[a].st \in {"live", "faulted"} => act[p].st # "stopping"
  BY DEF Inv, Owned, Installed
<1>2. CASE StSame
  BY <1>0, <1>1, <1>2 DEF StSame
<1>3. ASSUME NEW b \in Agents, Installing(b)
      PROVE  /\ act'[a].st # "none" => act'[p].st # "none"
             /\ act'[a].st \in {"live", "faulted"} => act'[p].st # "stopping"
  <2>1. CASE b = a
    <3>1. act[p].st = "live" /\ act'[p] = act[p]
      BY <1>0, <1>3, <2>1, InstallingDoes DEF OwnerLive
    <3> QED
      BY <3>1
  <2>2. CASE b # a
    BY <1>0, <1>1, <1>3, <2>2, InstallingDoes
  <2> QED
    BY <2>1, <2>2
<1>4. ASSUME NEW b \in Agents, CleanStep(b)
      PROVE  /\ act'[a].st # "none" => act'[p].st # "none"
             /\ act'[a].st \in {"live", "faulted"} => act'[p].st # "stopping"
  <2>0. Cleaning(b)
    BY <1>4 DEF CleanStep, Cleaning
  <2>1. \A x \in Agents : x # b => act'[x] = act[x]
    BY <1>4, CleanStepDoes DEF Inv
  <2>2. UNCHANGED act \/ act'[b] = NoAct \/ (act[b].st # "none" /\ act'[b].st = "stopping")
    BY <1>4, CleanStepDoes DEF Inv
  <2>3. CASE b = p
    <3>1. act[a].st = "none"
      BY <2>0, <2>3 DEF Inv, Cleanups
    <3> QED
      BY <1>0, <2>1, <2>3, <3>1
  <2>4. CASE b = a
    BY <1>0, <1>1, <2>1, <2>2, <2>4 DEF NoAct
  <2>5. CASE b # a /\ b # p
    BY <1>0, <1>1, <2>1, <2>5
  <2> QED
    BY <2>3, <2>4, <2>5
<1>5. ASSUME NEW b \in Agents, WorkerFaults(b)
      PROVE  /\ act'[a].st # "none" => act'[p].st # "none"
             /\ act'[a].st \in {"live", "faulted"} => act'[p].st # "stopping"
  <2>1. /\ act[b].st = "live" /\ act'[b].st = "faulted"
        /\ \A x \in Agents : x # b => act'[x] = act[x]
    BY ONLY Inv, b \in Agents, <1>5, FaultsDo, Zenon DEF Inv
  <2> QED
    BY ONLY a \in Agents, <1>0, <1>1, <2>1
<1> QED
  BY <1>2, <1>3, <1>4, <1>5, StMoves DEF Inv

-----------------------------------------------------------------------------
(* A cleanup is allocated by a disposal that is at its agent, goes on, and *)
(* is forgotten when somebody with an admission activates the agent.       *)
Allots(b) ==
    /\ Allocate(b) /\ UNCHANGED <<dir, act, comp, tree>>
    /\ close'.at = close.at /\ close'.todo = close.todo
    /\ \/ \E t \in Agents : tree[t].at = "clean" /\ b \in ChildFirst(tree[t].todo)
       \/ close.at = "clean" /\ b \in ChildFirst(close.todo)

Forgets(b) ==
    /\ Activate(b) /\ ~Refused(b) /\ UNCHANGED <<dir, comp, tree, close, used>>
    /\ \E c \in Callers : Admitted(c) /\ call[c].on = b

LEMMA CleanMoves ==
    ASSUME TypeOK, Waits, Shared, Next
    PROVE  \/ UNCHANGED clean
           \/ \E b \in Agents : CleanStep(b) \/ Allots(b) \/ Forgets(b)
<1>1. ASSUME NEW c \in Callers, Check(c) PROVE UNCHANGED clean \/ \E b \in Agents : Forgets(b)
  <2>1. call[c].on \in Agents /\ Admitted(c)
    BY <1>1, About DEF Check, Admitted
  <2>2. UNCHANGED clean \/ (~Refused(call[c].on) /\ Activate(call[c].on))
    BY <1>1 DEF Check
  <2>3. UNCHANGED <<dir, comp, tree, close, used>>
    BY <1>1 DEF Check
  <2> QED
    BY <2>1, <2>2, <2>3 DEF Forgets
<1>2. ASSUME NEW a \in Agents, MakeStep(a) PROVE UNCHANGED clean \/ Forgets(a)
  <2>1. CASE make[a].at = "check" /\ ~Refused(a) /\ Activate(a)
    <3>1. Busy(<<"make", a>>)
      BY <2>1 DEF Busy
    <3>2. UNCHANGED <<dir, comp, tree, close, used>>
      BY <1>2, <2>1 DEF MakeStep
    <3> QED
      BY <2>1, <3>1, <3>2, Behind DEF Forgets
  <2> QED
    BY <1>2, <2>1, MakeStepDoes DEF MakeActs, Keeping
<1>3. ASSUME NEW t \in Agents, Dispose(t) PROVE UNCHANGED clean \/ \E b \in Agents : Allots(b)
  <2>1. UNCHANGED <<dir, act, close>> /\ TreeGoes(t)
    BY <1>3, DisposeDoes
  <2>2. CASE UNCHANGED <<tree, comp, used>> /\ tree[t].at = "clean"
             /\ \E x \in ChildFirst(tree[t].todo) : Allocate(x)
    <3>1. PICK x \in ChildFirst(tree[t].todo) : Allocate(x)
      BY <2>2
    <3>2. x \in Agents
      BY TypeIs DEF ChildFirst, Trees
    <3> QED
      BY <2>1, <2>2, <3>1, <3>2 DEF Allots
  <2> QED
    BY <2>1, <2>2 DEF TreeGoes
<1>4. CloseStep => UNCHANGED clean \/ \E b \in Agents : Allots(b)
  <2> SUFFICES ASSUME CloseStep PROVE UNCHANGED clean \/ \E b \in Agents : Allots(b)
    OBVIOUS
  <2>1. UNCHANGED <<dir, act, comp, tree>> /\ CloseGoes
    BY CloseStepDoes
  <2>2. CASE /\ close'.at = close.at /\ close'.todo = close.todo /\ close.at = "clean"
             /\ \E x \in ChildFirst(close.todo) : Allocate(x)
    <3>1. PICK x \in ChildFirst(close.todo) : Allocate(x)
      BY <2>2
    <3>2. x \in Agents
      BY TypeIs DEF ChildFirst, Closings
    <3> QED
      BY <2>1, <2>2, <3>1, <3>2 DEF Allots
  <2> QED
    BY <2>1, <2>2 DEF CloseGoes
<1>5. ASSUME NEW c \in Callers,
             Lookup(c) \/ Refuse(c) \/ Admit(c) \/ Abort(c) \/ Post(c) \/ Release(c)
      PROVE  UNCHANGED clean
  BY ONLY <1>5 DEF Lookup, Refuse, Admit, Abort, Post, Release
<1>6. ASSUME NEW c \in Callers, BeginClose(c) \/ Cancel(c) PROVE UNCHANGED clean
  BY ONLY <1>6 DEF BeginClose, Cancel
<1>7. ASSUME NEW c \in Callers, NEW a \in Agents,
             Begin(c, "create", a) \/ Begin(c, "wake", a) \/ BeginDispose(c, a)
      PROVE  UNCHANGED clean
  BY ONLY <1>7 DEF Begin, BeginDispose
<1>8. ASSUME NEW a \in Agents, BuildStep(a) \/ CompStep(a) \/ WorkerFaults(a)
      PROVE  UNCHANGED clean
  BY ONLY <1>8 DEF BuildStep, CompStep, WorkerFaults
<1>9. ASSUME NEW c \in Callers, Proceed(c)
      PROVE  UNCHANGED clean \/ \E b \in Agents : Forgets(b)
  BY ONLY <1>1, <1>5, <1>9 DEF Proceed
<1>10. ASSUME NEW a \in Agents, Work(a)
       PROVE  UNCHANGED clean \/ \E b \in Agents : CleanStep(b) \/ Forgets(b)
  BY ONLY <1>2, <1>8, <1>10 DEF Work
<1>11. CASE \E c \in Callers, a \in Agents :
               Begin(c, "create", a) \/ Begin(c, "wake", a) \/ BeginDispose(c, a)
  BY ONLY <1>7, <1>11
<1>12. CASE \E c \in Callers : BeginClose(c) \/ Cancel(c) \/ Proceed(c)
  BY ONLY <1>6, <1>9, <1>12
<1>13. CASE \E a \in Agents : Work(a) \/ Dispose(a) \/ WorkerFaults(a)
  BY ONLY <1>3, <1>8, <1>10, <1>13
<1> QED
  BY ONLY Next, <1>4, <1>11, <1>12, <1>13, Zenon DEF Next

(* Nothing that is installed is owned by whom a disposal cleans next.      *)
LEMMA ChildrenGone ==
    ASSUME Inv, NEW b \in Agents, Allots(b), NEW y \in Agents, b \in Owner[y]
    PROVE  act[y].st = "none"
<1>0. y # b /\ b \in Lineage[y]
  BY LineageIs
<1>1. ASSUME NEW t \in Agents, tree[t].at = "clean", b \in ChildFirst(tree[t].todo), act[y].st # "none"
      PROVE  FALSE
  <2>1. b \in tree[t].todo /\ y \notin tree[t].todo
    BY <1>0, <1>1 DEF ChildFirst
  <2>2. y \in dir /\ b \in dir
    BY <1>1 DEF Inv, Recorded, Owners
  <2>3. b \in Affected(t)
    BY <1>1, <2>1 DEF Inv, Fences
  <2>4. t \in dir /\ t \in Lineage[b]
    BY <2>2, <2>3, AffectedUp DEF Inv, Affected
  <2>5. t \in Lineage[y]
    BY <1>0, <2>4, LineageIs
  <2>6. y \in Affected(t)
    BY <2>2, <2>4, <2>5 DEF Affected, Subtree
  <2>7. Over(y)
    BY <1>1, <2>1, <2>6 DEF Inv, Fences
  <2> QED
    BY <1>1, <2>7 DEF Inv, Cleanups
<1>2. ASSUME close.at = "clean", b \in ChildFirst(close.todo)
      PROVE  act[y].st = "none"
  <2>1. y \notin close.todo
    BY <1>0, <1>2 DEF ChildFirst
  <2> QED
    BY <1>2, <2>1 DEF Inv, Closes
<1> QED
  BY <1>1, <1>2 DEF Allots

(* What is said about the activation of an agent that has none: nothing.   *)
LEMMA NoneStays ==
    ASSUME Inv, Next, NEW a \in Agents, act[a].st = "none", act'[a].st = "none"
    PROVE  act'[a] = act[a]
<1> USE DEF Inv
<1>0. ~Installed(a) /\ act[a] = NoAct
  BY DEF Installed, Cleanups
<1>1. ASSUME NEW c \in Callers, Proceed(c) PROVE act'[a] = act[a]
  <2>1. CASE Check(c)
    <3>1. call[c].on \in Agents
      BY <2>1, About DEF Check
    <3>2. UNCHANGED act \/ Activate(call[c].on)
      BY <2>1 DEF Check
    <3> QED
      BY <3>1, <3>2, ActivateDoes
  <2>2. CASE Post(c)
    BY <1>0, <2>2, PostDoes
  <2>3. CASE Release(c)
    <3>1. CASE call[c].on # a
      BY <2>3, <3>1, ReleaseDoes
    <3>2. CASE call[c].on = a
      <4>0. /\ call[c].at = "join" /\ make[a].at \in {"ok", "fail"}
            /\ act'[a].st = act[a].st
            /\ act'[a].kept <=> act[a].kept \/ (Good(c) /\ act[a].st # "none")
            /\ act'[a].gone <=> act[a].gone \/ Abandon(c)
        BY <2>3, <3>2, ReleaseDoes DEF StSame
      <4>1. c \in make[a].waiters
        BY <3>2, <4>0 DEF Shared
      <4>2. ~Abandon(c)
        <5>1. make[a].at # "ok"
          BY <4>1 DEF Shared
        <5> QED
          BY <3>2, <5>1 DEF Abandon
      <4>3. act' \in [Agents -> Acts] /\ act \in [Agents -> Acts]
        BY TypesKept, TypeIs, Primed
      <4>4. act'[a].kept = act[a].kept /\ act'[a].gone = act[a].gone
        BY <4>0, <4>2, <4>3 DEF Acts
      <4> QED
        BY <4>0, <4>3, <4>4 DEF Acts
    <3> QED
      BY <3>1, <3>2
  <2> QED
    BY <1>1, <2>1, <2>2, <2>3 DEF Proceed, Lookup, Refuse, Admit, Abort
<1>2. ASSUME NEW b \in Agents, MakeStep(b) PROVE act'[a] = act[a]
  <2>1. MakeActs(b)
    BY <1>2, MakeStepDoes
  <2>2. CASE Install(b, FALSE)
    <3>1. b # a
      BY <2>2, InstallDoes
    <3> QED
      BY <2>2, <3>1, InstallDoes
  <2> QED
    BY <1>0, <2>1, <2>2, ActivateDoes, KeepingDoes DEF MakeActs
<1>3. ASSUME NEW b \in Agents, BuildStep(b) PROVE act'[a] = act[a]
  <2>1. UNCHANGED act \/ Install(b, TRUE)
    BY <1>3, BuildStepDoes
  <2>2. CASE Install(b, TRUE)
    <3>1. b # a
      BY <2>2, InstallDoes
    <3> QED
      BY <2>2, <3>1, InstallDoes
  <2> QED
    BY <2>1, <2>2
<1>4. ASSUME NEW b \in Agents, CleanStep(b) PROVE act'[a] = act[a]
  BY <1>0, <1>4, CleanStepDoes
<1>5. ASSUME NEW b \in Agents, WorkerFaults(b) PROVE act'[a] = act[a]
  BY <1>5, FaultsDo
<1>6. ASSUME NEW b \in Agents, CompStep(b) \/ Dispose(b) PROVE act'[a] = act[a]
  BY <1>6, CompStepDoes, DisposeDoes
<1>7. CloseStep => act'[a] = act[a]
  BY CloseStepDoes
<1> QED
  BY <1>1, <1>2, <1>3, <1>4, <1>5, <1>6, <1>7 DEF Next, Work, Begin, BeginDispose, BeginClose, Cancel

(* Who moves the disposals of subtrees, and the close.                     *)
LEMMA TreeMoves ==
    ASSUME TypeOK, Waits, Next
    PROVE  \/ UNCHANGED tree
           \/ UNCHANGED dir /\ \E a \in Agents : ~Disposed /\ StartTree(a)
           \/ \E t \in Agents : Dispose(t)
<1>1. ASSUME NEW c \in Callers, Proceed(c) PROVE UNCHANGED tree
  BY <1>1 DEF Proceed, Lookup, Refuse, Admit, Abort, Check, Post, Release
<1>2. ASSUME NEW a \in Agents, Work(a)
      PROVE  UNCHANGED tree \/ (UNCHANGED dir /\ ~Disposed /\ StartTree(a))
  <2>1. CASE MakeStep(a) \/ BuildStep(a) \/ CleanStep(a)
    BY ONLY <2>1 DEF MakeStep, BuildStep, CleanStep
  <2>2. CASE CompStep(a)
    BY ONLY <2>2 DEF CompStep
  <2> QED
    BY <1>2, <2>1, <2>2 DEF Work
<1>3. ASSUME NEW c \in Callers, NEW a \in Agents, BeginDispose(c, a)
      PROVE  UNCHANGED tree \/ (UNCHANGED dir /\ ~Disposed /\ StartTree(a))
  BY ONLY <1>3 DEF BeginDispose
<1>4. ASSUME NEW c \in Callers, NEW a \in Agents,
             Begin(c, "create", a) \/ Begin(c, "wake", a) \/ BeginClose(c) \/ Cancel(c)
      PROVE  UNCHANGED tree
  BY ONLY <1>4 DEF Begin, BeginClose, Cancel
<1>5. ASSUME NEW a \in Agents, WorkerFaults(a) PROVE UNCHANGED tree
  BY ONLY <1>5 DEF WorkerFaults
<1>6. CloseStep => UNCHANGED tree
  BY ONLY DEF CloseStep
<1>7. CASE \E c \in Callers, a \in Agents :
             Begin(c, "create", a) \/ Begin(c, "wake", a) \/ BeginDispose(c, a)
  BY <1>3, <1>4, <1>7
<1>8. CASE \E c \in Callers : BeginClose(c) \/ Cancel(c) \/ Proceed(c)
  BY <1>1, <1>8 DEF BeginClose, Cancel
<1>9. CASE \E a \in Agents : Work(a) \/ Dispose(a) \/ WorkerFaults(a)
  BY <1>2, <1>5, <1>9
<1> QED
  BY ONLY Next, <1>6, <1>7, <1>8, <1>9, Zenon DEF Next

LEMMA CloseMoves ==
    ASSUME TypeOK, Waits, Next
    PROVE  \/ UNCHANGED close
           \/ close.at = "none" /\ close'.at = "begin"
           \/ CloseStep
<1>1. ASSUME NEW c \in Callers, BeginClose(c) PROVE UNCHANGED close \/ (close.at = "none" /\ close'.at = "begin")
  BY ONLY TypeOK, c \in Callers, <1>1, Outside, Zenon
<1>2. ASSUME NEW c \in Callers, Proceed(c) PROVE UNCHANGED close
  BY <1>2 DEF Proceed, Lookup, Refuse, Admit, Abort, Check, Post, Release
<1>3. ASSUME NEW a \in Agents, Work(a) PROVE UNCHANGED close
  BY <1>3 DEF Work, MakeStep, BuildStep, CompStep, CleanStep
<1>4. ASSUME NEW t \in Agents, Dispose(t) PROVE UNCHANGED close
  BY <1>4, DisposeDoes
<1> QED
  BY <1>1, <1>2, <1>3, <1>4 DEF Next, Begin, BeginDispose, Cancel, WorkerFaults

LEMMA StartTreeDoes ==
    ASSUME TypeOK, NEW a \in Agents, StartTree(a), NEW t \in Agents
    PROVE  /\ tree'[t].at = tree[t].at \/ (tree[t].at = "none" /\ tree'[t].at = "dir")
           /\ tree'[t].members = tree[t].members /\ tree'[t].todo = tree[t].todo
           /\ tree'[t].bad = tree[t].bad
<1>1. tree \in [Agents -> Trees] /\ tree[t] \in Trees /\ tree[a] \in Trees
  BY TypeIs
<1>2. tree' = tree \/ (tree[a].at = "none" /\ tree' = [tree EXCEPT ![a].at = "dir"])
  BY DEF StartTree
<1> QED
  BY <1>1, <1>2 DEF Trees

LEMMA TreeEndsDoes ==
    ASSUME TypeOK, NEW t \in Agents, NEW bad \in BOOLEAN, TreeEnds(t, bad)
    PROVE  /\ tree'[t] = NoTree
           /\ \A x \in Agents : x # t => tree'[x] = tree[x] /\ comp'[x] = comp[x]
           /\ comp'[t] = IF comp[t] = "tree" THEN IF bad THEN "failed" ELSE "end" ELSE comp[t]
<1>1. tree \in [Agents -> Trees] /\ comp \in [Agents -> Comps]
  BY TypeIs
<1> QED
  BY <1>1 DEF TreeEnds

(* Whoever cleans an agent sees the cleanup to its end.                    *)
LEMMA CleanerStays ==
    ASSUME TypeOK, Waits, Next, NEW a \in Agents, Cleaner(a), ~Over(a)
    PROVE  Cleaner(a)'
<1>1. ASSUME NEW t \in Agents, tree[t].at = "clean", a \in tree[t].todo
      PROVE  tree'[t].at = "clean" /\ a \in tree'[t].todo
  <2>1. CASE UNCHANGED tree
    BY <1>1, <2>1
  <2>2. CASE \E b \in Agents : StartTree(b)
    BY <1>1, <2>2, StartTreeDoes
  <2>3. ASSUME NEW u \in Agents, Dispose(u) PROVE tree'[t].at = "clean" /\ a \in tree'[t].todo
    <3>1. TreeGoes(u)
      BY <2>3, DisposeDoes
    <3>2. CASE u = t
      BY <1>1, <3>1, <3>2 DEF TreeGoes
    <3>3. CASE u # t
      BY <1>1, <3>1, <3>3, TreeEndsDoes DEF TreeGoes
    <3> QED
      BY <3>2, <3>3
  <2> QED
    BY <2>1, <2>2, <2>3, TreeMoves
<1>2. ASSUME close.at = "clean", a \in close.todo
      PROVE  close'.at = "clean" /\ a \in close'.todo
  <2>1. CASE UNCHANGED close
    BY <1>2, <2>1
  <2>2. CASE CloseStep
    <3>1. CloseGoes
      BY <2>2, CloseStepDoes
    <3> QED
      BY <1>2, <3>1 DEF CloseGoes
  <2> QED
    BY <1>2, <2>1, <2>2, CloseMoves
<1> QED
  BY <1>1, <1>2 DEF Cleaner

LEMMA FirstCleaning ==
    ASSUME Inv, Next, NEW a \in Agents, ~Cleaning(a), Cleaning(a)'
    PROVE  Allots(a)
<1>0. TypeOK /\ Waits /\ Shared
  BY DEF Inv
<1>1. ASSUME NEW b \in Agents, CleanStep(b) PROVE FALSE
  <2>1. \A x \in Agents : x # b => clean'[x] = clean[x]
    BY <1>0, <1>1, CleanStepDoes
  <2>2. Cleaning(b)
    BY <1>1 DEF CleanStep, Cleaning
  <2> QED
    BY <2>1, <2>2 DEF Cleaning
<1>2. ASSUME NEW b \in Agents, Forgets(b) PROVE FALSE
  BY <1>0, <1>2, ActivateDoes DEF Forgets, Cleaning
<1>3. ASSUME NEW b \in Agents, Allots(b) PROVE b = a
  <2>1. \A x \in Agents : x # b => clean'[x] = clean[x]
    BY <1>0, <1>3, TypeIs DEF Allots, Allocate
  <2> QED
    BY <2>1 DEF Cleaning
<1> QED
  BY <1>0, <1>1, <1>2, <1>3, CleanMoves DEF Cleaning

LEMMA CleanEffects ==
    ASSUME TypeOK, NEW a \in Agents, CleanStep(a)
    PROVE  \/ clean[a] = "pend" /\ clean'[a] = "join" /\ act'[a] = act[a]
           \/ clean[a] = "join" /\ clean'[a] = "ok" /\ act[a].st = "none" /\ act'[a] = act[a]
           \/ clean[a] = "join" /\ clean'[a] = "stop" /\ act[a].st # "none" /\ act'[a].st = "stopping"
           \/ clean[a] = "stop" /\ clean'[a] \in {"ok", "fail"} /\ act'[a] = NoAct
BY CleanStepDoes

LEMMA CleanupsKept ==
    ASSUME Inv, Next
    PROVE  Cleanups'
<1> SUFFICES ASSUME NEW a \in Agents
    PROVE  /\ Cleaning(a)' => Cleaner(a)' /\ \A y \in Agents : a \in Owner[y] => act'[y].st = "none"
           /\ clean'[a] = "stop" <=> act'[a].st = "stopping"
           /\ Over(a)' => act'[a].st = "none"
           /\ clean'[a] = "fail" => used'.faults > 0
           /\ act'[a].st = "none" => act'[a] = NoAct
  BY DEF Cleanups
<1> USE DEF Inv
<1>0. TypeOK /\ Waits /\ Shared /\ Cleanups
  OBVIOUS
<1>1. ASSUME Cleaning(a)' PROVE Cleaner(a)'
  <2>1. CASE Cleaning(a)
    <3>1. Cleaner(a) /\ ~Over(a)
      BY <2>1 DEF Cleanups, Cleaning, Over
    <3> QED
      BY <3>1, CleanerStays
  <2>2. CASE ~Cleaning(a)
    <3>1. Allots(a)
      BY <1>1, <2>2, FirstCleaning
    <3>2. a \in Agents /\ UNCHANGED tree /\ close'.at = close.at /\ close'.todo = close.todo
      BY <3>1 DEF Allots
    <3>3. Cleaner(a)
      BY <3>1 DEF Allots, Cleaner, ChildFirst
    <3> QED
      BY <3>2, <3>3 DEF Cleaner
  <2> QED
    BY <2>1, <2>2
<1>2. ASSUME Cleaning(a)', NEW y \in Agents, a \in Owner[y] PROVE act'[y].st = "none"
  <2>0. a \in Lineage[y]
    BY <1>2, LineageIs
  <2>1. CASE Cleaning(a)
    <3>1. act[y].st = "none"
      BY <1>2, <2>1 DEF Cleanups
    <3>2. ASSUME NEW b \in Agents, Installing(b) PROVE b # y
      BY <2>0, <2>1, <3>2, InstallingDoes
    <3>3. ASSUME NEW b \in Agents, Installing(b) PROVE act'[y].st = "none"
      BY <3>1, <3>2, <3>3, InstallingDoes
    <3>4. ASSUME NEW b \in Agents, CleanStep(b) PROVE act'[y].st = "none"
      <4>1. CASE b = y
        BY <3>1, <3>4, <4>1, CleanEffects DEF NoAct
      <4>2. CASE b # y
        BY <3>1, <3>4, <4>2, CleanStepDoes
      <4> QED
        BY <4>1, <4>2
    <3>5. ASSUME NEW b \in Agents, WorkerFaults(b) PROVE act'[y].st = "none"
      BY <3>1, <3>5, FaultsDo
    <3> QED
      BY <3>1, <3>3, <3>4, <3>5, StMoves DEF StSame
  <2>2. CASE ~Cleaning(a)
    <3>1. Allots(a)
      BY <1>2, <2>2, FirstCleaning
    <3>2. act' = act
      BY <3>1 DEF Allots
    <3> QED
      BY <1>2, <3>1, <3>2, ChildrenGone
  <2> QED
    BY <2>1, <2>2
<1>3. /\ clean[a] = "stop" <=> act[a].st = "stopping"
      /\ Over(a) => act[a].st = "none"
      /\ clean[a] = "fail" => used.faults > 0
  BY DEF Cleanups
<1>4. /\ clean'[a] = "stop" <=> act'[a].st = "stopping"
      /\ Over(a)' => act'[a].st = "none"
  <2>1. CASE act'[a].st = act[a].st /\ clean'[a] = clean[a]
    BY <1>3, <2>1 DEF Over
  <2>2. ASSUME NEW b \in Agents, CleanStep(b)
        PROVE  /\ clean'[a] = "stop" <=> act'[a].st = "stopping"
               /\ Over(a)' => act'[a].st = "none"
    <3>1. CASE a = b
      BY <1>3, <2>2, <3>1, CleanEffects DEF Over, NoAct
    <3>2. CASE a # b
      BY <1>3, <2>2, <3>2, CleanStepDoes DEF Over
    <3> QED
      BY <3>1, <3>2
  <2>3. ASSUME NEW b \in Agents, Installing(b)
        PROVE  /\ clean'[a] = "stop" <=> act'[a].st = "stopping"
               /\ Over(a)' => act'[a].st = "none"
    BY <1>3, <2>3, InstallingDoes DEF Over
  <2>4. ASSUME NEW b \in Agents, WorkerFaults(b)
        PROVE  /\ clean'[a] = "stop" <=> act'[a].st = "stopping"
               /\ Over(a)' => act'[a].st = "none"
    BY <1>3, <2>4, FaultsDo DEF Over
  <2>5. ASSUME NEW b \in Agents, Allots(b)
        PROVE  /\ clean'[a] = "stop" <=> act'[a].st = "stopping"
               /\ Over(a)' => act'[a].st = "none"
    <3>1. clean'[a] = IF a = b THEN "pend" ELSE clean[a]
      BY <2>5, TypeIs DEF Allots, Allocate
    <3>2. act' = act /\ clean[b] = "none"
      BY <2>5 DEF Allots, Allocate
    <3> QED
      BY <1>3, <3>1, <3>2 DEF Over
  <2>6. ASSUME NEW b \in Agents, Forgets(b)
        PROVE  /\ clean'[a] = "stop" <=> act'[a].st = "stopping"
               /\ Over(a)' => act'[a].st = "none"
    <3>1. act'[a].st = act[a].st /\ clean'[a] = IF a = b THEN "none" ELSE clean[a]
      BY <2>6, ActivateDoes DEF Forgets, StSame
    <3>2. clean[b] # "stop"
      BY <2>6 DEF Forgets, Refused, Cleaning
    <3> QED
      BY <1>3, <3>1, <3>2 DEF Over
  <2>7. UNCHANGED clean \/ \E b \in Agents : CleanStep(b) \/ Allots(b) \/ Forgets(b)
    BY CleanMoves
  <2>8. StSame \/ \E b \in Agents : Installing(b) \/ CleanStep(b) \/ WorkerFaults(b)
    BY StMoves
  <2> QED
    BY <2>1, <2>2, <2>3, <2>4, <2>5, <2>6, <2>7, <2>8 DEF StSame
<1>5. clean'[a] = "fail" => used'.faults > 0
  <2>1. ASSUME NEW b \in Agents, CleanStep(b), clean'[a] = "fail", clean[a] # "fail"
        PROVE  Fault
    BY <2>1, CleanStepDoes
  <2>2. ASSUME NEW b \in Agents, Allots(b), clean'[a] = "fail" PROVE clean[a] = "fail"
    BY <2>2, TypeIs DEF Allots, Allocate
  <2>3. ASSUME NEW b \in Agents, Forgets(b), clean'[a] = "fail" PROVE clean[a] = "fail"
    BY <2>3, ActivateDoes DEF Forgets
  <2>4. clean'[a] = "fail" => clean[a] = "fail" \/ Fault
    BY <2>1, <2>2, <2>3, CleanMoves
  <2> QED
    BY <1>3, <2>4, FaultsCount
<1>6. act'[a].st = "none" => act'[a] = NoAct
  <2> SUFFICES ASSUME act'[a].st = "none" PROVE act'[a] = NoAct
    OBVIOUS
  <2>0. act[a].st = "none" => act[a] = NoAct
    BY DEF Cleanups
  <2>1. ASSUME NEW b \in Agents, CleanStep(b) PROVE act'[a] = NoAct
    BY <2>0, <2>1, CleanStepDoes
  <2>2. ASSUME NEW b \in Agents, Installing(b) PROVE act'[a] = NoAct
    BY <2>0, <2>2, InstallingDoes
  <2>3. ASSUME NEW b \in Agents, WorkerFaults(b) PROVE act'[a] = NoAct
    BY <2>0, <2>3, FaultsDo
  <2>4. ASSUME StSame PROVE act'[a] = NoAct
    <3>1. act[a].st = "none" /\ act[a] = NoAct /\ ~Installed(a)
      BY <2>0, <2>4 DEF StSame, Installed
    <3>2. act'[a] = act[a]
      BY <2>4, <3>1, NoneStays
    <3> QED
      BY <3>1, <3>2
  <2> QED
    BY <2>1, <2>2, <2>3, <2>4, StMoves
<1> QED
  BY <1>1, <1>2, <1>3, <1>4, <1>5, <1>6

-----------------------------------------------------------------------------
(* The task of a disposal moves by its own steps alone.                    *)
Still(t) ==
    /\ tree'[t].at = tree[t].at \/ (tree[t].at = "none" /\ tree'[t].at = "dir")
    /\ tree'[t].members = tree[t].members /\ tree'[t].todo = tree[t].todo
    /\ tree'[t].bad = tree[t].bad

LEMMA TreeAt ==
    ASSUME TypeOK, Waits, Next, NEW t \in Agents
    PROVE  Still(t) \/ (Dispose(t) /\ TreeGoes(t) /\ UNCHANGED <<dir, act, close>>)
<1>1. CASE UNCHANGED tree
  BY <1>1 DEF Still
<1>2. ASSUME NEW a \in Agents, StartTree(a) PROVE Still(t)
  BY <1>2, StartTreeDoes DEF Still
<1>3. ASSUME NEW u \in Agents, Dispose(u), u # t PROVE Still(t)
  <2>1. TreeGoes(u)
    BY <1>3, DisposeDoes
  <2>2. tree'[t] = tree[t]
    BY <1>3, <2>1, TreeEndsDoes DEF TreeGoes
  <2> QED
    BY <2>2 DEF Still
<1>4. Dispose(t) => TreeGoes(t) /\ UNCHANGED <<dir, act, close>>
  BY DisposeDoes
<1> QED
  BY <1>1, <1>2, <1>3, <1>4, TreeMoves

(* What a quiescent disposal found in the directory stays all there is.    *)
LEMMA AffectedStays ==
    ASSUME Inv, Next, NEW t \in Agents, tree[t].at \in {"reload", "clean"}
    PROVE  Affected(t)' = Affected(t)
<1> USE DEF Inv
<1>1. CASE dir' = dir
  BY <1>1 DEF Affected, Subtree
<1>2. CASE dir' # dir
  <2>1. PICK a \in Agents : make[a].at = "append" /\ a \notin dir /\ dir' = dir \cup {a}
    BY <1>2, DirGrows
  <2>2. Busy(<<"make", a>>)
    BY <2>1 DEF Busy
  <2>3. t \notin Lineage[a]
    BY <2>2, Behind, Working
  <2>4. a # t
    BY <2>3, LineageIs
  <2>5. Subtree(t)' = Subtree(t)
    BY <2>1, <2>3 DEF Subtree
  <2> QED
    BY <2>1, <2>4, <2>5 DEF Affected
<1> QED
  BY <1>1, <1>2

(* A cleanup a disposal has dealt with is not forgotten before it ends.    *)
LEMMA OverStays ==
    ASSUME Inv, Next, NEW x \in Agents, Over(x),
           \E t \in Agents : tree[t].at = "clean" /\ x \in Affected(t)
    PROVE  Over(x)'
<1> USE DEF Inv
<1>1. ASSUME NEW b \in Agents, CleanStep(b) PROVE Over(x)'
  <2>1. Cleaning(b)
    BY <1>1 DEF CleanStep, Cleaning
  <2>2. b # x
    BY <2>1 DEF Cleaning, Over
  <2> QED
    BY <1>1, <2>2, CleanStepDoes DEF Over
<1>2. ASSUME NEW b \in Agents, Allots(b) PROVE Over(x)'
  BY <1>2, TypeIs DEF Allots, Allocate, Over
<1>3. ASSUME NEW b \in Agents, Forgets(b) PROVE Over(x)'
  <2>1. b # x
    BY <1>3, Working DEF Forgets
  <2> QED
    BY <1>3, <2>1, ActivateDoes DEF Forgets, Over
<1> QED
  BY <1>1, <1>2, <1>3, CleanMoves DEF Over

LEMMA FencesKept ==
    ASSUME Inv, Next
    PROVE  Fences'
<1> USE DEF Inv
<1>0. TypeOK /\ Waits /\ Shared /\ Fences /\ Cleanups
  OBVIOUS
<1> SUFFICES ASSUME NEW t \in Agents
    PROVE  /\ tree'[t].at \in {"scope", "cancel", "joining", "reload", "clean"} => t \in tree'[t].members
           /\ tree'[t].at \in {"reload", "clean"} => Inside(tree[t].members)' = {}
           /\ tree'[t].at = "clean" => /\ tree'[t].todo \subseteq Affected(t)'
                                       /\ \A x \in Affected(t)' \ tree'[t].todo : Over(x)'
           /\ tree'[t].bad => used'.faults > 0
  BY DEF Fences
<1>1. /\ tree[t].at \in {"scope", "cancel", "joining", "reload", "clean"} => t \in tree[t].members
      /\ tree[t].at \in {"reload", "clean"} => Inside(tree[t].members) = {}
      /\ tree[t].at = "clean" => /\ tree[t].todo \subseteq Affected(t)
                                 /\ \A x \in Affected(t) \ tree[t].todo : Over(x)
      /\ tree[t].bad => used.faults > 0
  BY DEF Fences
<1>2. Still(t) \/ (TreeGoes(t) /\ UNCHANGED <<dir, act, close>>)
  BY TreeAt
<1>3. \A bad \in BOOLEAN : TreeEnds(t, bad) => tree'[t] = NoTree
  BY TreeEndsDoes
<1>4. t \in Affected(t)
  BY AffectedIs
<1>5. tree'[t].at \in {"scope", "cancel", "joining", "reload", "clean"} => t \in tree'[t].members
  BY <1>1, <1>2, <1>3, <1>4 DEF Still, TreeGoes, NoTree
<1>6. ASSUME tree'[t].at \in {"reload", "clean"} PROVE Inside(tree[t].members)' = {}
  <2>1. tree'[t].members = tree[t].members /\ tree[t].at \in {"cancel", "reload", "clean"}
        /\ Inside(tree[t].members) = {}
    BY <1>1, <1>2, <1>3, <1>6 DEF Still, TreeGoes, NoTree
  <2>2. t \in Scopes
    BY <2>1 DEF Scopes
  <2> QED
    BY <2>1, <2>2, ScopeStays
<1>7. ASSUME tree'[t].at = "clean"
      PROVE  /\ tree'[t].todo \subseteq Affected(t)'
             /\ \A x \in Affected(t)' \ tree'[t].todo : Over(x)'
  <2>1. CASE tree[t].at = "clean"
    <3>1. Affected(t)' = Affected(t)
      BY <2>1, AffectedStays
    <3>2. tree'[t].todo = tree[t].todo
          \/ \E x \in tree[t].todo : Over(x) /\ tree'[t].todo = tree[t].todo \ {x}
      BY <1>2, <1>3, <1>7, <2>1 DEF Still, TreeGoes, NoTree, ChildFirst
    <3>3. \A x \in Affected(t) \ tree'[t].todo : Over(x)
      BY <1>1, <2>1, <3>2
    <3>4. \A x \in Affected(t) : Over(x) => Over(x)'
      BY <2>1, OverStays, AffectedUp
    <3>5. tree'[t].todo \subseteq Affected(t)
      BY <1>1, <2>1, <3>2
    <3> QED
      BY <3>1, <3>3, <3>4, <3>5
  <2>2. CASE tree[t].at # "clean"
    <3>1. tree[t].at = "reload" /\ tree'[t].todo = Affected(t)
      BY <1>2, <1>3, <1>7, <2>2 DEF Still, TreeGoes, NoTree
    <3>2. Affected(t)' = Affected(t)
      BY <3>1, AffectedStays
    <3> QED
      BY <3>1, <3>2
  <2> QED
    BY <2>1, <2>2
<1>8. tree'[t].bad => used'.faults > 0
  <2>1. \A x \in Agents : clean[x] = "fail" => used.faults > 0
    BY DEF Cleanups
  <2>2. ChildFirst(tree[t].todo) \subseteq Agents
    BY TypeIs DEF ChildFirst, Trees
  <2>3. ~NoTree.bad
    BY DEF NoTree
  <2>4. CASE tree'[t].bad = tree[t].bad
    BY <1>1, <2>4, FaultsCount
  <2>5. CASE tree'[t] = NoTree
    BY <2>3, <2>5
  <2>6. CASE \E x \in ChildFirst(tree[t].todo) : tree'[t].bad => tree[t].bad \/ clean[x] = "fail"
    BY <1>1, <2>1, <2>2, <2>6, FaultsCount
  <2> QED
    BY <1>2, <1>3, <2>4, <2>5, <2>6 DEF Still, TreeGoes
<1> QED
  BY <1>5, <1>6, <1>7, <1>8

-----------------------------------------------------------------------------
(* The close leaves nothing behind it.                                     *)
LEMMA ClosesKept ==
    ASSUME Inv, Next
    PROVE  Closes'
<1> USE DEF Inv
<1>0. TypeOK /\ Waits /\ Shared /\ Closes /\ Cleanups
  OBVIOUS
<1>1. close' = close \/ (close.at = "none" /\ close'.at = "begin") \/ (CloseStep /\ CloseGoes)
  BY CloseMoves, CloseStepDoes
<1>2. ASSUME close'.at \in {"trees", "dir", "clean", "calls", "done"} PROVE Inside(Agents)' = {}
  <2>1. Closing /\ Inside(Agents) = {}
    BY <1>1, <1>2 DEF Closes, CloseGoes, Closing
  <2> QED
    BY <2>1, CloseStays
<1>3. ASSUME close'.at \in {"dir", "clean", "calls", "done"}, NEW t \in Agents PROVE tree'[t].at = "none"
  <2>1. Disposed /\ tree[t].at = "none" /\ \A u \in Agents : tree[u].at = "none"
    BY <1>1, <1>3 DEF Closes, CloseGoes, Disposed
  <2>2. ASSUME NEW u \in Agents, Dispose(u) PROVE FALSE
    BY <2>1, <2>2, DisposeDoes
  <2> QED
    BY <2>1, <2>2, TreeMoves
<1>4. ASSUME close'.at \in {"clean", "calls", "done"}, NEW a \in Agents \ close'.todo
      PROVE  act'[a].st = "none" /\ ~Cleaning(a)'
  <2>1. CASE close.at \in {"clean", "calls", "done"} /\ a \notin close.todo
    <3>1. act[a].st = "none" /\ ~Cleaning(a) /\ Disposed /\ \A u \in Agents : tree[u].at = "none"
      BY <2>1 DEF Closes, Disposed
    <3>2. act'[a].st = "none"
      <4>1. ASSUME NEW b \in Agents, Installing(b) PROVE FALSE
        BY <3>1, <4>1, InstallingDoes
      <4>2. ASSUME NEW b \in Agents, CleanStep(b) PROVE act'[a].st = "none"
        <5>1. b # a
          BY <3>1, <4>2 DEF CleanStep, Cleaning
        <5> QED
          BY <3>1, <4>2, <5>1, CleanStepDoes
      <4>3. ASSUME NEW b \in Agents, WorkerFaults(b) PROVE act'[a].st = "none"
        BY <3>1, <4>3, FaultsDo
      <4> QED
        BY <3>1, <4>1, <4>2, <4>3, StMoves DEF StSame
    <3>3. ~Cleaning(a)'
      <4> SUFFICES ASSUME Cleaning(a)' PROVE FALSE
        OBVIOUS
      <4>1. Allots(a)
        BY <3>1, FirstCleaning
      <4> QED
        BY <2>1, <3>1, <4>1 DEF Allots, ChildFirst
    <3> QED
      BY <3>2, <3>3
  <2>2. CASE close.at = "clean" /\ a \in close.todo
    <3>1. Over(a) /\ UNCHANGED <<act, clean>>
      BY <1>0, <1>1, <1>4, <2>2, CloseStepDoes DEF CloseGoes, ChildFirst
    <3> QED
      BY <3>1 DEF Cleanups, Cleaning, Over
  <2>3. CASE close.at \notin {"clean", "calls", "done"}
    <3>1. a \notin Known /\ UNCHANGED <<act, clean>>
      BY <1>0, <1>1, <1>4, <2>3, CloseStepDoes DEF CloseGoes
    <3> QED
      BY <3>1 DEF Known, Cleaning
  <2>4. CASE close.at \in {"calls", "done"} /\ a \in close.todo
    BY <2>4 DEF Closes
  <2> QED
    BY <2>1, <2>2, <2>3, <2>4
<1>5. ASSUME close'.at \in {"calls", "done"} PROVE close'.todo = {}
  BY <1>1, <1>5 DEF Closes, CloseGoes
<1> QED
  BY <1>2, <1>3, <1>4, <1>5 DEF Closes

-----------------------------------------------------------------------------
(* How a creation and its compensation move.                               *)
SameMake(a) == /\ make'[a].at = make[a].at
               /\ make'[a].waiters = make[a].waiters
               /\ make'[a].delivered = make[a].delivered

Joins(c, a) == /\ Admit(c) /\ call[c].on = a /\ JoinCreate(c, a) /\ comp[a] = "none" /\ Go(c, "join")
               /\ UNCHANGED <<act, build, comp>>

Awakes(a) == /\ make[a].at = "building" /\ make'[a].at \in {"built", "fail"} /\ build'[a].at = "none"
             /\ make'[a].waiters = make[a].waiters
             /\ make'[a].delivered = make[a].delivered

LEMMA MakeMoves ==
    ASSUME TypeOK, Waits, Next, NEW a \in Agents
    PROVE  \/ SameMake(a)
           \/ \E c \in Callers : Joins(c, a) \/ (Release(c) /\ call[c].on = a)
           \/ MakeStep(a)
           \/ Awakes(a)
           \/ CompStep(a) /\ make'[a] = NoMake /\ comp[a] # "none" /\ comp'[a] = "none"
<1>1. UNCHANGED make => SameMake(a)
  BY DEF SameMake
<1>2. MakeSame => SameMake(a)
  BY DEF MakeSame, SameMake
<1>3. ASSUME NEW c \in Callers, Admit(c) PROVE SameMake(a) \/ Joins(c, a)
  <2>1. call[c].on \in Agents
    BY <1>3, About DEF Admit
  <2>2. UNCHANGED make \/ Joins(c, call[c].on)
    BY <1>3 DEF Admit, Joins
  <2>3. CASE JoinCreate(c, call[c].on) /\ call[c].on # a
    <3>1. /\ make'[a].at = IF a = call[c].on /\ make[a].at = "none" THEN "dir" ELSE make[a].at
          /\ make'[a].waiters = IF a = call[c].on THEN make[a].waiters \cup {c} ELSE make[a].waiters
          /\ make'[a].delivered = make[a].delivered
      BY ONLY TypeOK, a \in Agents, <2>1, <2>3, JoinSets, Zenon
    <3> QED
      BY ONLY <2>3, <3>1 DEF SameMake
  <2> QED
    BY <1>1, <2>2, <2>3 DEF Joins
<1>4. ASSUME NEW c \in Callers, Release(c) PROVE SameMake(a) \/ call[c].on = a
  BY <1>4, ReleaseDoes DEF SameMake
<1>5. ASSUME NEW b \in Agents, MakeStep(b) PROVE SameMake(a) \/ b = a
  BY <1>5, MakeStepDoes DEF SameMake
<1>6. ASSUME NEW b \in Agents, BuildStep(b) PROVE SameMake(a) \/ Awakes(a)
  <2>1. CASE UNCHANGED make
    BY <1>1, <2>1
  <2>2. ASSUME NEW good \in BOOLEAN, BuildEnds(b, good) PROVE SameMake(a) \/ Awakes(a)
    BY <2>2, BuildEndDoes DEF SameMake, Awakes
  <2> QED
    BY <1>6, <2>1, <2>2, BuildStepDoes
<1>7. ASSUME NEW b \in Agents, CompStep(b)
      PROVE  SameMake(a) \/ (b = a /\ make'[a] = NoMake /\ comp[a] # "none" /\ comp'[a] = "none")
  <2>1. CASE b # a
    BY <1>7, <2>1, CompStepDoes DEF SameMake
  <2>2. CASE b = a
    BY <1>1, <1>7, <2>2, CompStepDoes
  <2> QED
    BY <2>1, <2>2
<1>8. ASSUME NEW b \in Agents, CleanStep(b) PROVE SameMake(a)
  BY <1>2, <1>8, CleanStepDoes
<1>9. ASSUME NEW t \in Agents, Dispose(t) PROVE SameMake(a)
  BY <1>2, <1>9, DisposeDoes
<1>10. CloseStep => SameMake(a)
  BY <1>2, CloseStepDoes
<1>11. ASSUME NEW c \in Callers, Proceed(c), ~Admit(c), ~Release(c) PROVE SameMake(a)
  BY <1>1, <1>11 DEF Proceed, Lookup, Refuse, Abort, Check, Post
<1>12. ASSUME NEW c \in Callers, BeginClose(c) \/ Cancel(c) PROVE SameMake(a)
  BY <1>1, <1>12 DEF BeginClose, Cancel
<1>13. ASSUME NEW c \in Callers, NEW b \in Agents,
              Begin(c, "create", b) \/ Begin(c, "wake", b) \/ BeginDispose(c, b)
       PROVE  SameMake(a)
  BY <1>1, <1>13 DEF Begin, BeginDispose
<1>14. ASSUME NEW b \in Agents, WorkerFaults(b) PROVE SameMake(a)
  BY <1>1, <1>14 DEF WorkerFaults
<1> QED
  BY <1>3, <1>4, <1>5, <1>6, <1>7, <1>8, <1>9, <1>10, <1>11, <1>12, <1>13, <1>14 DEF Next, Work

LEMMA CompMoves ==
    ASSUME TypeOK, Waits, Next, NEW a \in Agents
    PROVE  \/ comp'[a] = comp[a]
           \/ \E c \in Callers : Release(c) /\ call[c].on = a /\ Abandon(c) /\ comp'[a] = "start"
           \/ comp[a] = "start" /\ comp'[a] \in {"close", "tree"} /\ UNCHANGED <<act, make>>
           \/ /\ CompStep(a) /\ comp'[a] = "none" /\ make'[a] = NoMake
              /\ comp[a] \in {"end", "failed"} \/ (comp[a] = "close" /\ ResourcesDone)
           \/ /\ comp[a] = "tree" /\ TreeGoes(a) /\ UNCHANGED act /\ SameMake(a)
              /\ \E bad \in BOOLEAN : TreeEnds(a, bad) /\ comp'[a] = IF bad THEN "failed" ELSE "end"
<1>1. ASSUME NEW c \in Callers, Release(c)
      PROVE  \/ comp'[a] = comp[a]
             \/ call[c].on = a /\ Abandon(c) /\ comp'[a] = "start"
  BY <1>1, ReleaseDoes
<1>2. ASSUME NEW b \in Agents, CompStep(b)
      PROVE  \/ comp'[a] = comp[a]
             \/ comp[a] = "start" /\ comp'[a] \in {"close", "tree"} /\ UNCHANGED <<act, make>>
             \/ /\ CompStep(a) /\ comp'[a] = "none" /\ make'[a] = NoMake
                /\ comp[a] \in {"end", "failed"} \/ (comp[a] = "close" /\ ResourcesDone)
  BY <1>2, CompStepDoes
<1>3. ASSUME NEW t \in Agents, Dispose(t)
      PROVE  \/ comp'[a] = comp[a]
             \/ /\ comp[a] = "tree" /\ TreeGoes(a) /\ UNCHANGED act /\ SameMake(a)
                /\ \E bad \in BOOLEAN : TreeEnds(a, bad) /\ comp'[a] = IF bad THEN "failed" ELSE "end"
  <2>1. TreeGoes(t) /\ UNCHANGED act /\ SameMake(a)
    BY <1>3, DisposeDoes DEF MakeSame, SameMake
  <2>2. UNCHANGED comp \/ \E bad \in BOOLEAN : TreeEnds(t, bad)
    BY <2>1 DEF TreeGoes
  <2>3. ASSUME NEW bad \in BOOLEAN, TreeEnds(t, bad), comp'[a] # comp[a]
        PROVE  t = a /\ comp[a] = "tree" /\ comp'[a] = IF bad THEN "failed" ELSE "end"
    BY <2>3, TreeEndsDoes
  <2> QED
    BY <2>1, <2>2, <2>3
<1>4. ASSUME NEW c \in Callers, Proceed(c), ~Release(c) PROVE UNCHANGED comp
  BY <1>4 DEF Proceed, Lookup, Refuse, Admit, Abort, Check, Post
<1>5. ASSUME NEW b \in Agents, Work(b), ~CompStep(b) PROVE UNCHANGED comp
  BY <1>5 DEF Work, MakeStep, BuildStep, CleanStep
<1> QED
  BY <1>1, <1>2, <1>3, <1>4, <1>5
  DEF Next, Begin, BeginDispose, BeginClose, Cancel, WorkerFaults, CloseStep

-----------------------------------------------------------------------------
(* Callers join and leave a creation with its waiters.                     *)
LEMMA AdmitJoins ==
    ASSUME TypeOK, Waits, NEW d \in Callers, Admit(d), call'[d].at = "join"
    PROVE  Joins(d, call[d].on)
<1>1. ~Return(d)
  BY Written DEF NoCall
<1>2. ~Go(d, "check") /\ ~Go(d, "retry")
  BY Written
<1> QED
  BY <1>1, <1>2 DEF Admit, Joins

LEMMA JoinsStay ==
    ASSUME TypeOK, Waits, Next, NEW a \in Agents, NEW d \in Callers,
           ~Joins(d, a), ~(Release(d) /\ call[d].on = a)
    PROVE  call'[d].at = "join" /\ call'[d].on = a <=> call[d].at = "join" /\ call[d].on = a
<1>1. Moves(d)
  BY CallMoves
<1>2. CASE Stays(d)
  BY <1>2 DEF Stays
<1>3. CASE Quits(d)
  BY <1>3 DEF Quits, NoCall
<1>4. CASE Starts(d)
  BY <1>4 DEF Starts, NoCall
<1>5. CASE GoesOn(d)
  <2>1. call'[d].at = "join" => Joins(d, call[d].on)
    BY <1>5, AdmitJoins DEF GoesOn
  <2>2. call[d].at = "join" => Release(d)
    BY <1>5 DEF GoesOn
  <2> QED
    BY <1>5, <2>1, <2>2 DEF GoesOn
<1> QED
  BY <1>1, <1>2, <1>3, <1>4, <1>5 DEF Moves

(* An activation somebody waits for is not torn down.                      *)
LEMMA AwaitedLives ==
    ASSUME Inv, Next, NEW a \in Agents, make[a].waiters # {}, act[a].st # "none"
    PROVE  act'[a].st # "none"
<1> USE DEF Inv
<1>1. ~Cleaning(a)
  BY Behind, Working, LineageIs
<1>2. ASSUME NEW b \in Agents, CleanStep(b) PROVE act'[a].st # "none"
  <2>1. b # a
    BY <1>1, <1>2 DEF CleanStep, Cleaning
  <2> QED
    BY <1>2, <2>1, CleanStepDoes
<1>3. ASSUME NEW b \in Agents, Installing(b) PROVE act'[a].st # "none"
  BY <1>3, InstallingDoes
<1>4. ASSUME NEW b \in Agents, WorkerFaults(b) PROVE act'[a].st # "none"
  BY <1>4, FaultsDo
<1> QED
  BY <1>2, <1>3, <1>4, StMoves DEF StSame

(* A build is begun for a call, or for a creation.                         *)
LEMMA BuildBegins ==
    ASSUME TypeOK, Waits, Next, NEW a \in Agents, build[a].at = "none", build'[a].at # "none"
    PROVE  \/ make'[a].at = "building"
           \/ \E c \in Callers : call'[c].at = "building" /\ call'[c].on = a
<1>1. UNCHANGED build => FALSE
  OBVIOUS
<1>2. BuildSame => FALSE
  BY DEF BuildSame
<1>3. ASSUME NEW c \in Callers, Check(c)
      PROVE  \E d \in Callers : call'[d].at = "building" /\ call'[d].on = a
  <2>1. call[c].on \in Agents
    BY <1>3, About DEF Check
  <2>2. /\ Activate(call[c].on)
        /\ IF Installed(call[c].on) THEN Return(c) ELSE Go(c, "building")
    BY <1>1, <1>3 DEF Check
  <2>3. call[c].on = a /\ ~Installed(a)
    BY <2>1, <2>2, ActivateDoes
  <2>4. call'[c].at = "building" /\ call'[c].on = a
    BY <2>2, <2>3, Written
  <2> QED
    BY <2>4
<1>4. ASSUME NEW b \in Agents, MakeStep(b) PROVE make'[a].at = "building"
  <2>1. MakeActs(b)
    BY <1>4, MakeStepDoes
  <2>2. Activate(b) /\ make'[b].at = IF Installed(b) THEN "ok" ELSE "building"
    BY <1>1, <2>1 DEF MakeActs, Keeping
  <2>3. b = a /\ ~Installed(a)
    BY <2>2, ActivateDoes
  <2> QED
    BY <2>2, <2>3
<1>5. ASSUME NEW b \in Agents, BuildStep(b) PROVE FALSE
  <2>1. build[b].at # "none"
    BY <1>5, BuildStepDoes
  <2>2. build'[a].at = "none"
    BY <1>5, <2>1, BuildStepDoes, BuildEndDoes
  <2> QED
    BY <2>2
<1>6. ASSUME NEW b \in Agents, CompStep(b) \/ CleanStep(b) PROVE FALSE
  BY <1>1, <1>2, <1>6, CompStepDoes, CleanStepDoes
<1>7. ASSUME NEW t \in Agents, Dispose(t) PROVE FALSE
  BY <1>2, <1>7, DisposeDoes
<1>8. ~CloseStep
  <2>1. CloseStep => BuildSame
    BY ONLY TypeOK, CloseStepDoes, Zenon
  <2> QED
    BY ONLY <1>2, <2>1
<1>9. ASSUME NEW c \in Callers, Proceed(c), ~Check(c) PROVE FALSE
  BY <1>1, <1>9 DEF Proceed, Lookup, Refuse, Admit, Abort, Post, Release
<1>10. ASSUME NEW c \in Callers, BeginClose(c) \/ Cancel(c) PROVE FALSE
  BY <1>1, <1>10 DEF BeginClose, Cancel
<1>11. ASSUME NEW c \in Callers, NEW b \in Agents,
              Begin(c, "create", b) \/ Begin(c, "wake", b) \/ BeginDispose(c, b)
       PROVE  FALSE
  BY <1>1, <1>11 DEF Begin, BeginDispose
<1>12. ASSUME NEW b \in Agents, WorkerFaults(b) PROVE FALSE
  BY <1>1, <1>12 DEF WorkerFaults
<1> QED
  BY <1>3, <1>4, <1>5, <1>6, <1>7, <1>8, <1>9, <1>10, <1>11, <1>12 DEF Next, Work

LEMMA SharedKept ==
    ASSUME Inv, Next
    PROVE  Shared'
<1> USE DEF Inv
<1> SUFFICES ASSUME NEW a \in Agents
    PROVE  /\ \A c \in Callers : c \in make'[a].waiters <=> call'[c].at = "join" /\ call'[c].on = a
           /\ make'[a].at # "none" /\ comp'[a] = "none" => make'[a].waiters # {}
           /\ comp'[a] # "none" => make'[a].at = "ok" /\ make'[a].waiters = {}
           /\ make'[a].at \notin {"ok", "fail"} => ~make'[a].delivered
           /\ build'[a].at # "none" =>
                 make'[a].at = "building" \/ \E c \in Callers : call'[c].at = "building" /\ call'[c].on = a
           /\ make'[a].at \in {"ok", "lose"} /\ make'[a].waiters # {} => act'[a].st # "none"
  BY DEF Shared
<1>1. /\ \A c \in Callers : c \in make[a].waiters <=> call[c].at = "join" /\ call[c].on = a
      /\ make[a].at # "none" /\ comp[a] = "none" => make[a].waiters # {}
      /\ comp[a] # "none" => make[a].at = "ok" /\ make[a].waiters = {}
      /\ make[a].at \notin {"ok", "fail"} => ~make[a].delivered
      /\ build[a].at # "none" =>
            make[a].at = "building" \/ \E c \in Callers : call[c].at = "building" /\ call[c].on = a
      /\ make[a].at \in {"ok", "lose"} /\ make[a].waiters # {} => act[a].st # "none"
  BY DEF Shared
<1>2. /\ NoMake.at = "none" /\ NoMake.waiters = {} /\ ~NoMake.delivered
      /\ NoCall.at = "none"
      /\ make[a].waiters \subseteq Callers
  BY TypeIs DEF NoMake, NoCall, Makes
<1>3. \/ SameMake(a)
      \/ \E c \in Callers : Joins(c, a)
      \/ \E c \in Callers : Release(c) /\ call[c].on = a
      \/ MakeStep(a)
      \/ Awakes(a)
      \/ CompStep(a) /\ make'[a] = NoMake /\ comp[a] # "none" /\ comp'[a] = "none"
  BY MakeMoves
<1>4. ASSUME NEW c \in Callers, Joins(c, a)
      PROVE  /\ make'[a].at = IF make[a].at = "none" THEN "dir" ELSE make[a].at
             /\ make'[a].waiters = make[a].waiters \cup {c}
             /\ make'[a].delivered = make[a].delivered
             /\ comp[a] = "none" /\ comp'[a] = "none" /\ build'[a] = build[a]
             /\ \A d \in Callers : /\ call'[d].at = IF d = c THEN "join" ELSE call[d].at
                                   /\ call'[d].on = call[d].on
             /\ call[c].on = a
  <2>1. JoinCreate(c, a) /\ Go(c, "join") /\ call[c].on = a /\ comp[a] = "none" /\ UNCHANGED <<act, build, comp>>
    BY <1>4 DEF Joins
  <2>2. \A x \in Agents :
                 /\ make'[x].at = IF x = a /\ make[x].at = "none" THEN "dir" ELSE make[x].at
                 /\ make'[x].waiters = IF x = a THEN make[x].waiters \cup {c} ELSE make[x].waiters
                 /\ make'[x].delivered = make[x].delivered
    BY <2>1, MakeSets
  <2>3. \A d \in Callers : /\ call'[d].at = IF d = c THEN "join" ELSE call[d].at
                           /\ call'[d].on = call[d].on
    BY <2>1, Written
  <2> QED
    BY <2>1, <2>2, <2>3
<1>5. ASSUME NEW c \in Callers, Release(c), call[c].on = a
      PROVE  /\ c \in make[a].waiters /\ make[a].at \in {"ok", "fail"}
             /\ comp'[a] = IF Abandon(c) THEN "start" ELSE comp[a]
             /\ Last(c) /\ ~Abandon(c) => make'[a] = NoMake
             /\ ~(Last(c) /\ ~Abandon(c)) => make'[a].at = make[a].at
                                            /\ make'[a].waiters = make[a].waiters \ {c}
             /\ UNCHANGED <<build, clean>> /\ act'[a].st = act[a].st
             /\ \A d \in Callers : d # c => call'[d].at = call[d].at /\ call'[d].on = call[d].on
             /\ call'[c].at \in {"none", "compWait"}
  <2>1. /\ call[c].at = "join" /\ make[a].at \in {"ok", "fail"} /\ StSame
        /\ comp'[a] = IF Abandon(c) THEN "start" ELSE comp[a]
        /\ Last(c) /\ ~Abandon(c) => make'[a] = NoMake
        /\ ~(Last(c) /\ ~Abandon(c)) => make'[a].at = make[a].at
                                       /\ make'[a].waiters = make[a].waiters \ {c}
        /\ UNCHANGED <<build, clean>>
        /\ (Abandon(c) => Go(c, "compWait")) /\ (~Abandon(c) => Return(c))
    BY <1>5, ReleaseDoes
  <2>2. /\ Go(c, "compWait") =>
             \A d \in Callers : call'[d].at = (IF d = c THEN "compWait" ELSE call[d].at) /\ call'[d].on = call[d].on
        /\ Return(c) => \A d \in Callers : call'[d] = IF d = c THEN NoCall ELSE call[d]
    BY Written
  <2>3. c \in make[a].waiters
    BY <1>1, <1>5, <2>1
  <2> QED
    BY <1>2, <2>1, <2>2, <2>3 DEF StSame
<1>6. MakeStep(a) => /\ make[a].at \in {"dir", "provision", "append", "install", "discard", "lose", "check", "built"}
                     /\ make'[a].waiters = make[a].waiters /\ make'[a].delivered = make[a].delivered
                     /\ comp' = comp /\ MakeGoes(a)
  BY MakeStepDoes
<1>7. \A c \in Callers : c \in make'[a].waiters <=> call'[c].at = "join" /\ call'[c].on = a
  <2>1. CASE \E c \in Callers : Joins(c, a)
    BY <1>1, <1>4, <2>1
  <2>2. CASE \E c \in Callers : Release(c) /\ call[c].on = a
    <3>1. PICK c \in Callers : Release(c) /\ call[c].on = a
      BY <2>2
    <3>2. make'[a].waiters = make[a].waiters \ {c}
      BY <1>2, <1>5, <3>1 DEF Last
    <3> QED
      BY <1>1, <1>5, <3>1, <3>2
  <2>3. CASE /\ ~\E c \in Callers : Joins(c, a)
             /\ ~\E c \in Callers : Release(c) /\ call[c].on = a
    <3>1. make'[a].waiters = make[a].waiters
      BY <1>1, <1>2, <1>3, <1>6, <2>3 DEF SameMake, Awakes
    <3>2. ASSUME NEW d \in Callers
          PROVE call'[d].at = "join" /\ call'[d].on = a <=> call[d].at = "join" /\ call[d].on = a
      BY <2>3, JoinsStay
    <3> QED
      BY <1>1, <3>1, <3>2
  <2> QED
    BY <2>1, <2>2, <2>3
<1>8. ASSUME comp'[a] = "none", make'[a].at # "none" PROVE make'[a].waiters # {}
  <2>1. comp[a] = "none"
    <3>1. ~(CompStep(a) /\ comp'[a] = "none" /\ make'[a] = NoMake)
      BY <1>2, <1>8
    <3> QED
      BY <1>8, <3>1, CompMoves
  <2>2. CASE \E c \in Callers : Release(c) /\ call[c].on = a
    <3>1. PICK c \in Callers : Release(c) /\ call[c].on = a
      BY <2>2
    <3>2. ~Abandon(c) /\ ~Last(c) /\ make'[a].waiters = make[a].waiters \ {c} /\ c \in make[a].waiters
      BY <1>2, <1>5, <1>8, <3>1
    <3> QED
      BY <3>1, <3>2 DEF Last
  <2>3. CASE \E c \in Callers : Joins(c, a)
    BY <1>4, <2>3
  <2> QED
    BY <1>1, <1>2, <1>3, <1>6, <1>8, <2>1, <2>2, <2>3 DEF SameMake, Awakes
<1>9. ASSUME comp'[a] # "none" PROVE make'[a].at = "ok" /\ make'[a].waiters = {}
  <2>1. ASSUME comp[a] # "none" PROVE SameMake(a)
    <3>1. make[a].at = "ok" /\ make[a].waiters = {}
      BY <1>1, <2>1
    <3> QED
      BY <1>3, <1>4, <1>5, <1>6, <1>9, <2>1, <3>1 DEF Awakes
  <2>2. CASE comp[a] # "none"
    BY <1>1, <2>1, <2>2 DEF SameMake
  <2>3. CASE comp[a] = "none"
    <3>1. PICK c \in Callers : Release(c) /\ call[c].on = a /\ Abandon(c)
      BY <1>9, <2>3, CompMoves
    <3> QED
      BY <1>5, <3>1 DEF Abandon, Last
  <2> QED
    BY <2>2, <2>3
<1>10. ASSUME make'[a].at \notin {"ok", "fail"} PROVE ~make'[a].delivered
  <2>1. ASSUME NEW c \in Callers, Release(c), call[c].on = a PROVE make'[a] = NoMake
    BY <1>5, <1>10, <2>1
  <2> QED
    BY <1>1, <1>2, <1>3, <1>4, <1>6, <1>10, <2>1 DEF SameMake, Awakes
<1>11. ASSUME build'[a].at # "none"
       PROVE  make'[a].at = "building" \/ \E c \in Callers : call'[c].at = "building" /\ call'[c].on = a
  <2>1. CASE build[a].at = "none"
    BY <1>11, <2>1, BuildBegins
  <2>2. CASE make[a].at = "building"
    <3>1. make'[a].at = "building"
      BY <1>1, <1>3, <1>4, <1>5, <1>6, <1>11, <2>2 DEF SameMake, Awakes
    <3> QED
      BY <3>1
  <2>3. ASSUME NEW c \in Callers, call[c].at = "building", call[c].on = a
        PROVE  call'[c].at = "building" /\ call'[c].on = a
    <3>1. ~Built(c)
      BY <1>11, <2>3, BuildEndDoes DEF Built
    <3>2. Moves(c)
      BY CallMoves
    <3> QED
      BY <1>2, <2>3, <3>1, <3>2 DEF Moves, Stays, Quits, Starts, GoesOn
  <2> QED
    BY <1>1, <2>1, <2>2, <2>3
<1>12. ASSUME make'[a].at \in {"ok", "lose"}, make'[a].waiters # {} PROVE act'[a].st # "none"
  <2>1. ASSUME make[a].waiters # {}, act[a].st # "none" PROVE act'[a].st # "none"
    BY <2>1, AwaitedLives
  <2>2. ASSUME NEW c \in Callers, Joins(c, a) PROVE act'[a].st # "none"
    <3>1. make[a].at \in {"ok", "lose"} /\ make[a].waiters # {}
      BY <1>1, <1>4, <1>12, <2>2
    <3> QED
      BY <1>1, <2>1, <3>1
  <2>3. ASSUME NEW c \in Callers, Release(c), call[c].on = a PROVE act'[a].st # "none"
    <3>1. make[a].at = "ok" /\ make[a].waiters # {}
      BY <1>2, <1>5, <1>12, <2>3
    <3> QED
      BY <1>1, <2>1, <3>1
  <2>4. ASSUME MakeStep(a) PROVE act'[a].st # "none"
    <3>1. make[a].waiters # {}
      BY <1>6, <1>12, <2>4
    <3>2. Installed(a) => act[a].st # "none"
      BY DEF Installed
    <3>3. make[a].at = "lose" \/ Installed(a) \/ Install(a, FALSE)
      BY <1>6, <1>12, <2>4 DEF MakeGoes
    <3>4. Install(a, FALSE) => act'[a].st = "live"
      BY InstallDoes
    <3> QED
      BY <1>1, <2>1, <3>1, <3>2, <3>3, <3>4
  <2> QED
    BY <1>1, <1>2, <1>3, <1>12, <2>1, <2>2, <2>3, <2>4 DEF SameMake, Awakes
<1> QED
  BY <1>7, <1>8, <1>9, <1>10, <1>11, <1>12

-----------------------------------------------------------------------------
(* How an activation moves: it is worn on, torn down, released by a waiter *)
(* of its creation, or newly installed.                                    *)
WornOn(a) == /\ act'[a].gone <=> act[a].gone
             /\ act[a].kept => act'[a].kept
             /\ act'[a].st = "live" => act[a].st = "live"

LEMMA ActMoves ==
    ASSUME TypeOK, Waits, Next, NEW a \in Agents
    PROVE  \/ WornOn(a)
           \/ act'[a] = NoAct
           \/ \E c \in Callers : Release(c) /\ call[c].on = a
           \/ act'[a].st = "live" /\ act'[a].kept /\ ~act'[a].gone
           \/ /\ MakeStep(a) /\ make[a].at = "install" /\ make'[a].at = "ok"
              /\ act'[a].st = "live" /\ ~act'[a].gone
<1>1. act'[a] = act[a] => WornOn(a)
  BY DEF WornOn
<1>2. ASSUME NEW b \in Agents, Activate(b) PROVE WornOn(a)
  BY <1>2, ActivateDoes DEF WornOn, StSame
<1>3. ASSUME NEW c \in Callers, Check(c) PROVE WornOn(a)
  <2>1. UNCHANGED act \/ Activate(call[c].on)
    BY <1>3 DEF Check
  <2>2. call[c].on \in Agents
    BY <1>3, About DEF Check
  <2> QED
    BY <1>1, <1>2, <2>1, <2>2
<1>4. ASSUME NEW c \in Callers, Post(c) PROVE WornOn(a)
  BY <1>4, PostDoes DEF WornOn, StSame
<1>5. ASSUME NEW c \in Callers, Release(c) PROVE act'[a] = act[a] \/ call[c].on = a
  BY <1>5, ReleaseDoes
<1>6. ASSUME NEW b \in Agents, MakeStep(b)
      PROVE  WornOn(a) \/ (b = a /\ make[a].at = "install" /\ make'[a].at = "ok"
                           /\ act'[a].st = "live" /\ ~act'[a].gone)
  <2>1. MakeActs(b)
    BY <1>6, MakeStepDoes
  <2>2. Keeping(b) => WornOn(a)
    BY KeepingDoes DEF WornOn, StSame
  <2>3. ASSUME Install(b, FALSE) PROVE act'[a] = act[a] \/ (b = a /\ act'[a].st = "live" /\ ~act'[a].gone)
    BY <2>3, InstallDoes
  <2> QED
    BY <1>1, <1>2, <2>1, <2>2, <2>3 DEF MakeActs
<1>7. ASSUME NEW b \in Agents, BuildStep(b)
      PROVE  act'[a] = act[a] \/ (act'[a].st = "live" /\ act'[a].kept /\ ~act'[a].gone)
  <2>1. UNCHANGED act \/ Install(b, TRUE)
    BY <1>7, BuildStepDoes
  <2> QED
    BY <2>1, InstallDoes
<1>8. ASSUME NEW b \in Agents, CompStep(b) PROVE act'[a] = act[a]
  BY <1>8 DEF CompStep
<1>9. ASSUME NEW b \in Agents, CleanStep(b) PROVE WornOn(a) \/ act'[a] = NoAct
  BY <1>1, <1>9, CleanStepDoes DEF WornOn
<1>10. ASSUME NEW b \in Agents, WorkerFaults(b) PROVE WornOn(a)
  BY <1>1, <1>10, FaultsDo DEF WornOn
<1>11. ASSUME NEW t \in Agents, Dispose(t) PROVE act'[a] = act[a]
  BY <1>11, DisposeDoes
<1>12. CloseStep => act'[a] = act[a]
  BY DEF CloseStep
<1>13. ASSUME NEW c \in Callers, Proceed(c), ~Check(c), ~Post(c), ~Release(c) PROVE act'[a] = act[a]
  BY <1>13 DEF Proceed, Lookup, Refuse, Admit, Abort
<1>14. ASSUME NEW c \in Callers, BeginClose(c) \/ Cancel(c) PROVE act'[a] = act[a]
  BY <1>14 DEF BeginClose, Cancel
<1>15. ASSUME NEW c \in Callers, NEW b \in Agents,
              Begin(c, "create", b) \/ Begin(c, "wake", b) \/ BeginDispose(c, b)
       PROVE  act'[a] = act[a]
  BY <1>15 DEF Begin, BeginDispose
<1> QED
  BY <1>1, <1>3, <1>4, <1>5, <1>6, <1>7, <1>8, <1>9, <1>10, <1>11, <1>12, <1>13, <1>14, <1>15
  DEF Next, Work

(* The disposal a compensation asked for ends well unless something fails, *)
(* and with it the activation.                                             *)
LEMMA CompEnds ==
    ASSUME Inv, Next, used'.faults = 0, NEW a \in Agents, comp[a] = "tree",
           comp'[a] \in {"end", "failed"}
    PROVE  comp'[a] = "end" /\ UNCHANGED act /\ act[a] = NoAct
<1> USE DEF Inv
<1>1. used.faults = 0 /\ ~Fault
  BY FaultsCount
<1>2. TreeGoes(a) /\ UNCHANGED act
  BY CompMoves
<1>3. comp'[a] # comp[a]
  OBVIOUS
<1>4. tree[a].at = "clean" /\ tree[a].todo = {} /\ TreeEnds(a, tree[a].bad)
  BY <1>1, <1>2, <1>3 DEF TreeGoes
<1>5. tree[a].bad \in BOOLEAN /\ ~tree[a].bad
  BY <1>1, TypeIs DEF Trees, Fences
<1>6. comp'[a] = "end"
  BY <1>4, <1>5, TreeEndsDoes
<1>7. a \in Affected(a)
  BY AffectedIs
<1>8. Over(a)
  BY <1>4, <1>7 DEF Fences
<1>9. act[a] = NoAct
  BY <1>8 DEF Cleanups
<1> QED
  BY <1>2, <1>6, <1>9

(* A compensation that is done has nothing left to compensate.             *)
LEMMA CompDone ==
    ASSUME Inv, used.faults = 0, NEW a \in Agents, CompStep(a), make'[a] = NoMake,
           comp[a] \in {"end", "failed"} \/ (comp[a] = "close" /\ ResourcesDone)
    PROVE  ~Lonely(a) /\ ~act[a].gone /\ UNCHANGED act
<1> USE DEF Inv
<1>1. UNCHANGED act
  BY DEF CompStep
<1>2. CASE comp[a] \in {"end", "failed"}
  BY <1>1, <1>2 DEF Keeps
<1>3. CASE comp[a] = "close" /\ ResourcesDone
  <2>1. close.at \in {"calls", "done"} /\ close.todo = {}
    BY <1>3 DEF ResourcesDone, Closes
  <2>2. act[a].st = "none"
    BY <2>1 DEF Closes
  <2>3. act[a] = NoAct
    BY <2>2 DEF Cleanups
  <2> QED
    BY <1>1, <2>3 DEF NoAct, Lonely
<1> QED
  BY <1>2, <1>3

LEMMA KeepsKept ==
    ASSUME Inv, Next
    PROVE  Keeps'
<1> USE DEF Inv
<1> SUFFICES ASSUME used'.faults = 0, NEW a \in Agents
    PROVE  /\ act'[a].st = "live" /\ ~act'[a].kept =>
                 make'[a].at = "ok" /\ ~make'[a].delivered /\ comp'[a] # "end"
           /\ act'[a].gone => comp'[a] \in {"start", "tree", "close"}
           /\ comp'[a] # "failed"
  BY DEF Keeps, Lonely
<1>1. used.faults = 0 /\ ~Fault
  BY FaultsCount
<1>2. /\ act[a].st = "live" /\ ~act[a].kept => make[a].at = "ok" /\ ~make[a].delivered /\ comp[a] # "end"
      /\ act[a].gone => comp[a] \in {"start", "tree", "close"}
      /\ comp[a] # "failed"
  BY <1>1 DEF Keeps, Lonely
<1>3. NoAct.st = "none" /\ ~NoAct.gone /\ ~NoAct.kept
  BY DEF NoAct
<1>4. \/ comp'[a] = comp[a]
      \/ \E c \in Callers : Release(c) /\ call[c].on = a /\ Abandon(c) /\ comp'[a] = "start"
      \/ comp[a] = "start" /\ comp'[a] \in {"close", "tree"} /\ UNCHANGED <<act, make>>
      \/ UNCHANGED act /\ ~Lonely(a) /\ ~act[a].gone /\ comp'[a] = "none"
      \/ UNCHANGED act /\ act[a] = NoAct /\ comp'[a] = "end"
  <2>1. ASSUME CompStep(a), make'[a] = NoMake,
               comp[a] \in {"end", "failed"} \/ (comp[a] = "close" /\ ResourcesDone)
        PROVE  UNCHANGED act /\ ~Lonely(a) /\ ~act[a].gone
    BY <1>1, <2>1, CompDone
  <2>2. ASSUME comp[a] = "tree", comp'[a] \in {"end", "failed"}
        PROVE  UNCHANGED act /\ act[a] = NoAct /\ comp'[a] = "end"
    BY <2>2, CompEnds
  <2> QED
    BY <2>1, <2>2, CompMoves
<1>5. comp'[a] # "failed"
  BY <1>2, <1>4
<1>6. ASSUME NEW c \in Callers, Release(c), call[c].on = a
      PROVE  /\ act'[a].st = "live" /\ ~act'[a].kept =>
                   make'[a].at = "ok" /\ ~make'[a].delivered /\ comp'[a] # "end"
             /\ act'[a].gone => comp'[a] \in {"start", "tree", "close"}
  <2>1. /\ call[c].at = "join" /\ StSame
        /\ comp'[a] = IF Abandon(c) THEN "start" ELSE comp[a]
        /\ act'[a].kept <=> act[a].kept \/ (Good(c) /\ act[a].st # "none")
        /\ act'[a].gone <=> act[a].gone \/ Abandon(c)
        /\ ~(Last(c) /\ ~Abandon(c)) =>
                 /\ make'[a].at = make[a].at
                 /\ make'[a].delivered <=> make[a].delivered \/ Good(c)
    BY <1>6, ReleaseDoes
  <2>2. c \in make[a].waiters
    BY <1>6, <2>1 DEF Shared
  <2>3. comp[a] = "none"
    BY <2>2 DEF Shared
  <2>4. ~act[a].gone
    BY <1>2, <2>3
  <2>5. ASSUME act'[a].st = "live", ~act'[a].kept
        PROVE  make'[a].at = "ok" /\ ~make'[a].delivered /\ comp'[a] # "end"
    <3>1. act[a].st = "live" /\ ~act[a].kept /\ ~Good(c)
      BY <2>1, <2>5 DEF StSame
    <3>2. make[a].at = "ok" /\ ~make[a].delivered
      BY <1>2, <3>1
    <3>3. Last(c) => Abandon(c)
      BY <1>6, <2>4, <3>1, <3>2 DEF Abandon
    <3> QED
      BY <2>1, <2>3, <3>1, <3>2, <3>3
  <2> QED
    BY <2>1, <2>3, <2>4, <2>5
<1>7. ASSUME ~\E c \in Callers : Release(c) /\ call[c].on = a, act'[a].gone
      PROVE  comp'[a] \in {"start", "tree", "close"}
  <2>1. act[a].gone
    BY <1>3, <1>7, ActMoves DEF WornOn
  <2> QED
    BY <1>2, <1>3, <1>4, <1>7, <2>1
<1>8. ASSUME ~\E c \in Callers : Release(c) /\ call[c].on = a, act'[a].st = "live", ~act'[a].kept
      PROVE  make'[a].at = "ok" /\ ~make'[a].delivered /\ comp'[a] # "end"
  <2>1. CASE WornOn(a)
    <3>1. act[a].st = "live" /\ ~act[a].kept /\ Lonely(a)
      BY <1>8, <2>1 DEF WornOn, Lonely
    <3>2. make[a].at = "ok" /\ ~make[a].delivered /\ comp[a] # "end"
      BY <1>2, <3>1
    <3>3. comp'[a] # "end"
      BY <1>3, <1>4, <3>1, <3>2
    <3>4. ASSUME CompStep(a), comp[a] # "none", comp'[a] = "none" PROVE FALSE
      <4>1. UNCHANGED act /\ ~Lonely(a)
        BY <1>4, <3>2, <3>4
      <4> QED
        BY <3>1, <4>1
    <3>5. ASSUME NEW c \in Callers, Joins(c, a)
          PROVE  make'[a].at = make[a].at /\ (make'[a].delivered <=> make[a].delivered)
      BY <3>2, <3>5, MakeSets DEF Joins
    <3>6. make[a].at \notin {"dir", "provision", "append", "install", "discard", "lose", "check", "built", "building"}
      BY <3>2
    <3>7. ~MakeStep(a)
      BY <3>6, MakeStepDoes
    <3> QED
      BY <1>8, <3>2, <3>3, <3>4, <3>5, <3>6, <3>7, MakeMoves DEF SameMake, Awakes
  <2>2. CASE /\ MakeStep(a) /\ make[a].at = "install" /\ make'[a].at = "ok"
    <3>1. ~make[a].delivered /\ comp[a] = "none"
      BY <2>2 DEF Shared
    <3>2. (make'[a].delivered <=> make[a].delivered) /\ UNCHANGED comp
      BY <2>2, MakeStepDoes
    <3> QED
      BY <2>2, <3>1, <3>2
  <2> QED
    BY <1>3, <1>8, <2>1, <2>2, ActMoves
<1> QED
  BY <1>5, <1>6, <1>7, <1>8

-----------------------------------------------------------------------------
(* A supervisor at rest.                                                   *)
LEMMA InitInv ==
    ASSUME Init
    PROVE  Inv
<1>1. dir \subseteq Agents /\ \A a \in dir : Lineage[a] \subseteq dir
  BY DEF Init
<1>2. PICK on \in {S \in SUBSET dir : \A a \in S : Lineage[a] \subseteq S} :
             act = [a \in Agents |->
                      IF a \in on THEN [st |-> "live", kept |-> TRUE, gone |-> FALSE] ELSE NoAct]
  BY DEF Init
<1>3. \A a \in Agents : /\ call[a] = NoCall /\ make[a] = NoMake /\ build[a] = NoBuild
                        /\ comp[a] = "none" /\ tree[a] = NoTree /\ clean[a] = "none"
  BY DEF Init, Callers
<1>4. /\ \A c \in Callers : call[c] = NoCall
      /\ close.at = "none" /\ close.todo = {}
  BY DEF Init
<1>5. /\ NoMake.at = "none" /\ NoMake.waiters = {} /\ ~NoMake.delivered
      /\ NoCall.at = "none" /\ NoCall.op = "none" /\ NoBuild.at = "none"
      /\ NoTree.at = "none" /\ NoTree.todo = {} /\ ~NoTree.bad
      /\ NoAct.st = "none" /\ ~NoAct.gone
  BY DEF NoMake, NoCall, NoBuild, NoTree, NoAct
<1>6. \A a \in Agents : act[a] = IF a \in on THEN [st |-> "live", kept |-> TRUE, gone |-> FALSE] ELSE NoAct
  BY <1>2
<1>7. \A a \in Agents : \A p \in Owner[a] : p \in Agents /\ p \in Lineage[a]
  BY LineageIs
<1>8. TypeOK
  <2>1. act \in [Agents -> Acts]
    <3>1. NoAct \in Acts /\ [st |-> "live", kept |-> TRUE, gone |-> FALSE] \in Acts
      BY DEF NoAct, Acts
    <3> QED
      BY <1>2, <3>1
  <2>2. call \in [Callers -> {NoCall} \cup Made]
    BY DEF Init
  <2>3. make \in [Agents -> Makes] /\ build \in [Agents -> Builds] /\ tree \in [Agents -> Trees]
    <3>1. NoMake \in Makes /\ NoBuild \in Builds /\ NoTree \in Trees
      BY DEF NoMake, NoBuild, NoTree, Makes, Builds, Trees
    <3> QED
      BY <3>1 DEF Init
  <2>4. comp \in [Agents -> Comps] /\ clean \in [Agents -> Cleans]
    BY DEF Init, Comps, Cleans
  <2>5. close \in Closings
    BY DEF Init, Closings
  <2>6. used \in Counts
    BY SupervisorLifecycleAssumption DEF Init, Counts
  <2> QED
    BY <1>1, <2>1, <2>2, <2>3, <2>4, <2>5, <2>6, TypeIs
<1>9. Recorded
  <2>1. Owners(dir)
    BY <1>1, <1>7 DEF Owners
  <2>2. \A a \in Agents : act[a].st # "none" => a \in dir
    BY <1>2, <1>5, <1>6
  <2> QED
    BY <2>1, <2>2, <1>3, <1>5 DEF Recorded
<1>10. Waits
  BY <1>4, <1>5 DEF Waits
<1>11. Shared
  BY <1>3, <1>4, <1>5 DEF Shared
<1>12. Fences
  BY <1>3, <1>5 DEF Fences
<1>13. Cleanups
  <2>1. \A a \in Agents : ~Cleaning(a) /\ ~Over(a)
    BY <1>3 DEF Cleaning, Over
  <2>2. \A a \in Agents : act[a].st # "stopping" /\ (act[a].st = "none" => act[a] = NoAct)
    BY <1>5, <1>6
  <2> QED
    BY <1>3, <2>1, <2>2 DEF Cleanups
<1>14. Closes
  BY <1>4 DEF Closes
<1>15. Owned
  <2> SUFFICES ASSUME NEW a \in Agents, NEW p \in Owner[a], act[a].st # "none"
               PROVE  act[p].st = "live"
    BY DEF Owned, Installed
  <2>1. a \in on
    BY <1>5, <1>6
  <2>2. p \in on /\ p \in Agents
    BY <1>7, <2>1, <1>2
  <2> QED
    BY <1>6, <2>2
<1>16. Keeps
  <2>1. \A a \in Agents : ~Lonely(a) /\ ~act[a].gone
    BY <1>5, <1>6 DEF Lonely
  <2> QED
    BY <1>3, <2>1 DEF Keeps
<1> QED
  BY <1>8, <1>9, <1>10, <1>11, <1>12, <1>13, <1>14, <1>15, <1>16 DEF Inv

LEMMA StutterKeeps ==
    ASSUME Inv, UNCHANGED vars
    PROVE  Inv'
<1>1. TypeOK'
  BY DEF Inv, vars, TypeOK
<1>2. Recorded' /\ Waits'
  BY DEF Inv, vars, Recorded, Waits, Owners
<1>3. Shared'
  BY DEF Inv, vars, Shared
<1>4. Fences'
  BY DEF Inv, vars, Fences, Inside, Admitted, Affected, Subtree, Over
<1>5. Cleanups'
  BY DEF Inv, vars, Cleanups, Cleaning, Cleaner, Over
<1>6. Closes'
  BY DEF Inv, vars, Closes, Inside, Admitted, Cleaning
<1>7. Owned' /\ Keeps'
  BY DEF Inv, vars, Owned, Installed, Keeps, Lonely
<1> QED
  BY <1>1, <1>2, <1>3, <1>4, <1>5, <1>6, <1>7 DEF Inv

LEMMA NextKeeps ==
    ASSUME Inv, [Next]_vars
    PROVE  Inv'
<1>1. CASE Next
  <2>1. TypeOK' /\ Waits'
    BY <1>1, TypesKept, WaitsKept DEF Inv
  <2>2. Recorded' /\ Shared' /\ Fences' /\ Cleanups' /\ Closes' /\ Owned' /\ Keeps'
    BY <1>1, RecordedKept, SharedKept, FencesKept, CleanupsKept, ClosesKept, OwnedKept, KeepsKept
  <2> QED
    BY <2>1, <2>2 DEF Inv
<1>2. CASE UNCHANGED vars
  BY <1>2, StutterKeeps
<1> QED
  BY <1>1, <1>2

-----------------------------------------------------------------------------
(* The strengthened invariant holds of every reachable state.              *)
THEOREM InvHolds == Spec => []Inv
BY InitInv, NextKeeps, PTL DEF Spec

(* The registries of the supervisor keep the shape the class gives them.   *)
THEOREM TypeHolds == Spec => []TypeOK
<1>1. Inv => TypeOK
  BY DEF Inv
<1> QED
  BY <1>1, InvHolds, PTL

(* No agent runs without its owner, or for nobody: _install() under the    *)
(* lock, the subtree scopes and the child-first cleanup keep owners longer *)
(* than what they own, whatever creations, resumes, compensations and      *)
(* disposals overlap; and a creation nobody received is compensated.       *)
THEOREM OwnedHolds == Spec => []ActivationsAreOwned
<1>1. Inv => ActivationsAreOwned
  <2> SUFFICES ASSUME Inv, NEW a \in Agents
               PROVE  /\ \A p \in Owner[a] : /\ act[a].st # "none" => act[p].st # "none"
                                             /\ Installed(a) => act[p].st # "stopping"
                      /\ act[a].st = "live" /\ ~act[a].kept =>
                            make[a].waiters # {} \/ comp[a] # "none" \/ used.faults > 0
    BY DEF ActivationsAreOwned
  <2>1. \A p \in Owner[a] : /\ act[a].st # "none" => act[p].st # "none"
                            /\ Installed(a) => act[p].st # "stopping"
    BY DEF Inv, Owned
  <2>2. ASSUME act[a].st = "live", ~act[a].kept, comp[a] = "none", ~(used.faults > 0)
        PROVE  make[a].waiters # {}
    <3>1. used.faults \in Nat
      BY TypeIs, SupervisorLifecycleAssumption DEF Inv, Counts
    <3>2. used.faults = 0
      BY <2>2, <3>1
    <3>3. make[a].at = "ok"
      BY <2>2, <3>2 DEF Inv, Keeps, Lonely
    <3> QED
      BY <2>2, <3>3 DEF Inv, Shared
  <2> QED
    BY <2>1, <2>2
<1> QED
  BY <1>1, InvHolds, PTL

(* A cleanup is final, and so a disposal that ends leaves nothing of the   *)
(* subtree, and a close that released its resources nothing at all         *)
(* (_dispose_subtree(), _dispose_agent(), _close()).                       *)
THEOREM DisposalHolds == Spec => DisposalIsComplete
<1>1. Inv => CleanupIsFinal
  <2> SUFFICES ASSUME Inv, NEW a \in Agents
               PROVE  /\ Cleaning(a) => /\ Inside({a}) = {}
                                        /\ ~Busy(<<"make", a>>) /\ ~Busy(<<"build", a>>)
                      /\ Over(a) => act[a].st = "none"
    BY DEF CleanupIsFinal
  <2>0. TypeOK /\ Shared
    BY DEF Inv
  <2>1. ASSUME NEW c \in Callers, Admitted(c), a \in Lineage[call[c].on] PROVE ~Cleaning(a)
    <3>1. call[c].on \in Agents
      BY <2>1, About DEF Admitted, Inv
    <3> QED
      BY <2>1, <3>1, Working
  <2>2. Busy(<<"make", a>>) \/ Busy(<<"build", a>>) => ~Cleaning(a)
    BY <2>0, Behind, Working, LineageIs
  <2>3. Over(a) => act[a].st = "none"
    BY DEF Inv, Cleanups
  <2> QED
    BY <2>1, <2>2, <2>3 DEF Inside
<1>2. ASSUME Inv, [Next]_vars, NEW t \in Agents, tree[t].at = "clean", tree'[t].at = "none",
             NEW x \in Affected(t)
      PROVE  Gone(x)
  <2>0. TypeOK /\ Waits /\ Shared
    BY <1>2 DEF Inv
  <2>1. Next
    BY <1>2 DEF vars
  <2>2. tree[t].todo = {}
    BY <1>2, <2>0, <2>1, TreeAt DEF Still, TreeGoes
  <2>3. Over(x) /\ x \in Agents
    BY <1>2, <2>0, <2>2, AffectedUp DEF Inv, Fences
  <2>4. act[x].st = "none"
    BY <1>2, <2>3 DEF Inv, Cleanups
  <2>5. ~Busy(<<"make", x>>) /\ ~Busy(<<"build", x>>)
    BY <1>2, <2>0, <2>3, Behind, Working
  <2> QED
    BY <2>4, <2>5 DEF Gone
<1>3. Inv /\ [Next]_vars => [TreeLeavesNothing]_vars
  BY <1>2 DEF TreeLeavesNothing
<1>4. Inv => CloseLeavesNothing
  <2> SUFFICES ASSUME Inv, ResourcesDone, NEW a \in Agents
               PROVE  Gone(a) /\ tree[a].at = "none" /\ ~Cleaning(a)
    BY DEF CloseLeavesNothing
  <2>1. close.at \in {"calls", "done"} /\ close.todo = {}
    BY DEF ResourcesDone, Inv, Closes
  <2>2. tree[a].at = "none" /\ act[a].st = "none" /\ ~Cleaning(a)
    BY <2>1 DEF Inv, Closes
  <2>3. ~Busy(<<"make", a>>) /\ ~Busy(<<"build", a>>)
    BY <2>1, Behind, Working DEF Inv
  <2> QED
    BY <2>2, <2>3 DEF Gone
<1> QED
  BY <1>1, <1>3, <1>4, InvHolds, PTL DEF Spec, DisposalIsComplete
=============================================================================
