------------------------ MODULE SupervisorLifecycle ------------------------
(***************************************************************************)
(* The lifecycle half of ProcessAgentSupervisor: the tree of agents one    *)
(* process runs, and who may build, keep and tear down their activations.  *)
(* Public calls take admission over an ownership lineage; a disposal closes*)
(* a subtree, waits for older admissions and cleans it child first; close  *)
(* does so for the whole forest.  Creations, activations, compensations,   *)
(* subtree and agent disposals are tasks of their own that callers share.  *)
(*                                                                         *)
(* No section under the supervisor lock awaits, so each is one step, with  *)
(* whatever follows it up to the next await.  A task that ends hands its   *)
(* outcome to all who await it in the same step: nobody can replace it in  *)
(* the registries before they run.  A turn may itself call the supervisor  *)
(* for a child (the tools do): an agent is the caller of its turn's call.  *)
(***************************************************************************)
EXTENDS Naturals, FiniteSets

CONSTANTS
    Agents,      \* identities
    Owner,       \* Owner[a]: the set of at most one agent that owns a
    Hosts,       \* callers outside the agents
    MaxCalls,    \* bound: public calls
    MaxCancels,  \* bound: callers cancelled, or turns interrupted
    MaxFaults    \* bound: factory, store and cleanup failures, worker faults

(* An agent and those above it: what contains it and every owner.          *)
Owners(S) == \A x \in S : Owner[x] \subseteq S
Lineage == [a \in Agents |->
               {x \in Agents : \A S \in SUBSET Agents : a \in S /\ Owners(S) => x \in S}]

ASSUME SupervisorLifecycleAssumption ==
    /\ Owner \in [Agents -> SUBSET Agents]
    /\ \A a \in Agents : Cardinality(Owner[a]) <= 1 /\ a \notin UNION {Lineage[p] : p \in Owner[a]}
    /\ Hosts \cap Agents = {}
    /\ {MaxCalls, MaxCancels, MaxFaults} \subseteq Nat

VARIABLES
    dir,    \* agents with an AgentRecord in the durable directory
    act,    \* _activations: state, _retained and _abandonment_task
    call,   \* the public call of each caller
    make,   \* _pending_creates: the shared create and its waiters
    build,  \* _pending_activations
    comp,   \* compensation of a create nobody received
    tree,   \* _tree_disposals
    clean,  \* _agent_disposals: finished entries stay
    close,  \* _close_task
    used    \* calls, cancellations and faults so far

vars == <<dir, act, call, make, build, comp, tree, clean, close, used>>

Callers == Hosts \cup Agents
NoAct   == [st |-> "none", kept |-> FALSE, gone |-> FALSE]
NoCall  == [op |-> "none", on |-> "none", at |-> "none", hit |-> FALSE]
NoMake  == [at |-> "none", hit |-> FALSE, waiters |-> {}, delivered |-> FALSE]
NoBuild == [at |-> "none", hit |-> FALSE]
NoTree  == [at |-> "none", members |-> {}, joins |-> {}, todo |-> {}, bad |-> FALSE]
Jobs    == {"make", "build"} \X Agents

Subtree(a) == {x \in dir : a \in Lineage[x]}
Affected(a) == IF a \in dir THEN Subtree(a) ELSE {a}

Admitted(c)   == call[c].at \in {"join", "check", "building", "built"}
Inside(S)     == {c \in Callers : Admitted(c) /\ Lineage[call[c].on] \cap S # {}}
Scopes        == {t \in Agents : tree[t].at \in {"cancel", "joining", "reload", "clean"}}
Blocked(S)    == \E t \in Scopes : tree[t].members \cap S # {}
Disposed      == close.at # "none"
Closing       == close.at \notin {"none", "begin"}
ResourcesDone == close.at \in {"calls", "done"}
Cleaning(a)   == clean[a] \in {"pend", "join", "stop"}
CleanupIsFenced(a) == (Closing \/ Blocked({a})) /\ Inside({a}) = {}

OwnerLive(a) == \A p \in Owner[a] : act[p].st = "live"
Busy(j) == IF j[1] = "make" THEN make[j[2]].at \notin {"none", "ok", "fail"}
                            ELSE build[j[2]].at # "none"

TypeOK ==
    /\ dir \subseteq Agents
    /\ act \in [Agents -> [st : {"none", "live", "faulted", "stopping"}, kept : BOOLEAN, gone : BOOLEAN]]
    /\ call \in [Callers ->
          {NoCall} \cup [op : {"create", "wake", "dispose", "close"}, on : Agents \cup {"none"},
                        at : {"lookup", "admit", "join", "compWait", "retry", "check", "building",
                              "built", "tree", "clean", "closeWait"}, hit : BOOLEAN]]
    /\ make \in [Agents -> [at : {"none", "dir", "provision", "append", "install", "discard", "lose",
                                  "check", "building", "built", "ok", "fail"},
                            hit : BOOLEAN, waiters : SUBSET Callers, delivered : BOOLEAN]]
    /\ build \in [Agents -> [at : {"none", "build", "discard", "lose"}, hit : BOOLEAN]]
    /\ comp \in [Agents -> {"none", "start", "tree", "close", "end", "failed"}]
    /\ tree \in [Agents -> [at : {"none", "dir", "scope", "cancel", "joining", "reload", "clean"},
                            members : SUBSET Agents, joins : SUBSET Jobs,
                            todo : SUBSET Agents, bad : BOOLEAN]]
    /\ clean \in [Agents -> {"none", "pend", "join", "stop", "ok", "fail"}]
    /\ close \in [at : {"none", "begin", "cancel", "joining", "trees", "dir", "clean", "calls", "done"},
                  joins : SUBSET Jobs, todo : SUBSET Agents]
    /\ used \in [calls : 0 .. MaxCalls, cancels : 0 .. MaxCancels, faults : 0 .. MaxFaults]

(* A supervisor at rest: some agents on record, some of those active, and  *)
(* none active without its owner.                                          *)
Init ==
    /\ dir \in {S \in SUBSET Agents : \A a \in S : Lineage[a] \subseteq S}
    /\ \E on \in {S \in SUBSET dir : \A a \in S : Lineage[a] \subseteq S} :
          act = [a \in Agents |->
                   IF a \in on THEN [st |-> "live", kept |-> TRUE, gone |-> FALSE] ELSE NoAct]
    /\ call = [c \in Callers |-> NoCall]
    /\ make = [a \in Agents |-> NoMake]
    /\ build = [a \in Agents |-> NoBuild]
    /\ comp = [a \in Agents |-> "none"]
    /\ tree = [a \in Agents |-> NoTree]
    /\ clean = [a \in Agents |-> "none"]
    /\ close = [at |-> "none", joins |-> {}, todo |-> {}]
    /\ used = [calls |-> 0, cancels |-> 0, faults |-> 0]

Fault == used.faults < MaxFaults /\ used' = [used EXCEPT !.faults = @ + 1]

-----------------------------------------------------------------------------
(* Public calls.                                                           *)

Go(c, at)  == call' = [call EXCEPT ![c].at = at]
Return(c)  == call' = [call EXCEPT ![c] = NoCall]
(* Everyone awaiting `at` on a goes on as f says.                          *)
Hand(at, a, f(_)) ==
    [c \in Callers |-> IF call[c].at = at /\ call[c].on = a THEN f(c) ELSE call[c]]
Ends(c) == NoCall

(* A turn reaches the supervisor through tools bound to its own children.  *)
MayCall(c, a) ==
    /\ call[c] = NoCall /\ used.calls < MaxCalls
    /\ c \in Agents => c \in Owner[a] /\ act[c].st = "live"
Calls == used' = [used EXCEPT !.calls = @ + 1]

Begin(c, op, a) ==
    /\ MayCall(c, a) /\ Calls
    /\ op = "create" => ~Disposed
    /\ op = "create" \/ a \in dir
    /\ call' = [call EXCEPT ![c] = [op |-> op, on |-> a, at |-> "lookup", hit |-> FALSE]]
    /\ UNCHANGED <<dir, act, make, build, comp, tree, clean, close>>

(* create: the directory knows the agent or its owner; then the admission. *)
Lookup(c) ==
    /\ call[c].at = "lookup" /\ ~call[c].hit
    /\ LET a == call[c].on
       IN  IF a \in dir \/ Owner[a] \subseteq dir THEN Go(c, "admit") ELSE Return(c)
    /\ UNCHANGED <<dir, act, make, build, comp, tree, clean, close, used>>

JoinCreate(c, a) ==
    make' = [make EXCEPT ![a].at = IF @ = "none" THEN "dir" ELSE @, ![a].waiters = @ \cup {c}]

Refuse(c) ==
    /\ call[c].at = "admit" /\ Closing
    /\ Return(c)
    /\ UNCHANGED <<dir, act, make, build, comp, tree, clean, close, used>>

(* admission(): waits for intersecting scopes; then _create_admitted().    *)
Admit(c) ==
    /\ call[c].at = "admit" /\ ~call[c].hit /\ ~Closing
    /\ ~Blocked(Lineage[call[c].on])
    /\ LET a == call[c].on
       IN  IF call[c].op = "wake" THEN Go(c, "check") /\ UNCHANGED make
           ELSE IF Disposed THEN Return(c) /\ UNCHANGED make
           ELSE IF comp[a] # "none" THEN Go(c, "retry") /\ UNCHANGED make
           ELSE Go(c, "join") /\ JoinCreate(c, a)
    /\ UNCHANGED <<dir, act, build, comp, tree, clean, close, used>>

(* A cancellation lands; only some awaits let it through at once.          *)
Cancel(c) ==
    /\ call[c] # NoCall /\ ~call[c].hit /\ used.cancels < MaxCancels
    /\ call' = [call EXCEPT ![c].hit = TRUE]
    /\ used' = [used EXCEPT !.cancels = @ + 1]
    /\ UNCHANGED <<dir, act, make, build, comp, tree, clean, close>>

(* Slip: an aborted call stays registered.                                 *)
AbortHalfway(c) ==
    /\ call[c].hit /\ call[c].at \in {"lookup", "admit", "check"}
    /\ Go(c, "none")
    /\ UNCHANGED <<dir, act, make, build, comp, tree, clean, close, used>>

Abort(c) ==
    /\ call[c].hit /\ call[c].at \in {"lookup", "admit", "check"}
    /\ Return(c)
    /\ UNCHANGED <<dir, act, make, build, comp, tree, clean, close, used>>

-----------------------------------------------------------------------------
(* _activate(): shared by resume, send and a create of a known agent.      *)

Refused(a) == Disposed \/ ~OwnerLive(a) \/ Cleaning(a) \/ clean[a] = "fail" \/ act[a].gone
Installed(a) == act[a].st \in {"live", "faulted"}

(* One pass under the lock: forget a finished disposal, then keep what is  *)
(* installed or join the build.                                            *)
Activate(a) ==
    /\ clean' = [clean EXCEPT ![a] = "none"]
    /\ IF Installed(a)
       THEN act' = [act EXCEPT ![a].kept = TRUE] /\ UNCHANGED build
       ELSE /\ build' = [build EXCEPT ![a].at = IF @ = "none" THEN "build" ELSE @]
            /\ UNCHANGED act

Check(c) ==
    /\ call[c].at = "check" /\ ~call[c].hit
    /\ LET a == call[c].on
       IN  \/ Refused(a) /\ Return(c) /\ UNCHANGED <<act, build, clean>>
           \/ ~Refused(a) /\ Activate(a) /\ (IF Installed(a) THEN Return(c) ELSE Go(c, "building"))
    /\ UNCHANGED <<dir, make, comp, tree, close, used>>

(* The build is done: the activation must still be the one installed.      *)
Post(c) ==
    /\ call[c].at = "built"
    /\ LET a == call[c].on
       IN  IF Installed(a)
           THEN /\ act' = [act EXCEPT ![a].kept = @ \/ ~act[a].gone]
                /\ Return(c)
           ELSE Go(c, "check") /\ UNCHANGED act
    /\ UNCHANGED <<dir, make, build, comp, tree, clean, close, used>>

-----------------------------------------------------------------------------
(* _install() of a candidate execution.                                    *)

Rejected(a) == Disposed \/ clean[a] # "none" \/ ~OwnerLive(a)

Install(a, kept) == act' = [act EXCEPT ![a] = [st |-> "live", kept |-> kept, gone |-> FALSE]]

(* The build task: factory.activate(), install, or release the candidate.  *)
BuildEnds(a, good) ==
    /\ build' = [build EXCEPT ![a] = NoBuild]
    /\ call' = Hand("building", a, LAMBDA c :
                      IF good /\ ~call[c].hit THEN [call[c] EXCEPT !.at = "built"] ELSE NoCall)
    /\ make' = IF make[a].at = "building"
               THEN [make EXCEPT ![a].at = IF good /\ ~make[a].hit THEN "built" ELSE "fail"]
               ELSE make

BuildStep(a) ==
    /\ \/ /\ build[a].at = "build" /\ build[a].hit
          /\ BuildEnds(a, FALSE) /\ UNCHANGED <<act, used>>
       \/ /\ build[a].at = "build" /\ Fault
          /\ BuildEnds(a, FALSE) /\ UNCHANGED act
       \/ /\ build[a].at = "build" /\ ~build[a].hit /\ Rejected(a)
          /\ build' = [build EXCEPT ![a].at = "discard"] /\ UNCHANGED <<act, call, make, used>>
       \/ /\ build[a].at = "build" /\ ~build[a].hit /\ ~Rejected(a) /\ ~Installed(a)
          /\ Install(a, TRUE) /\ BuildEnds(a, TRUE) /\ UNCHANGED used
       \/ /\ build[a].at = "build" /\ ~build[a].hit /\ ~Rejected(a) /\ Installed(a)
          /\ build' = [build EXCEPT ![a].at = "lose"] /\ UNCHANGED <<act, call, make, used>>
       \/ /\ build[a].at = "discard"
          /\ BuildEnds(a, FALSE) /\ UNCHANGED <<act, used>>
       \/ /\ build[a].at = "lose"
          /\ BuildEnds(a, ~build[a].hit) /\ UNCHANGED <<act, used>>
    /\ UNCHANGED <<dir, comp, tree, clean, close>>

-----------------------------------------------------------------------------
(* _materialize_create(): the shared task of a creation.                   *)
Make(a, at) == make' = [make EXCEPT ![a].at = at]

MakeStep(a) ==
    /\ \/ /\ make[a].at = "dir"
          /\ Make(a, IF make[a].hit THEN "fail" ELSE
                     IF a \in dir THEN "check" ELSE
                     IF OwnerLive(a) THEN "provision" ELSE "fail")
          /\ UNCHANGED <<dir, act, build, clean, used>>
       \/ /\ make[a].at = "provision"
          /\ \/ Make(a, IF make[a].hit THEN "fail" ELSE "append") /\ UNCHANGED used
             \/ Fault /\ Make(a, "fail")
          /\ UNCHANGED <<dir, act, build, clean>>
       \/ /\ make[a].at = "append"
          /\ \/ ~make[a].hit /\ dir' = dir \cup {a} /\ Make(a, "install") /\ UNCHANGED used
             \/ make[a].hit /\ dir' \in {dir, dir \cup {a}} /\ Make(a, "discard") /\ UNCHANGED used
             \/ ~make[a].hit /\ Fault /\ dir' \in {dir, dir \cup {a}} /\ Make(a, "discard")
          /\ UNCHANGED <<act, build, clean>>
       \/ /\ make[a].at = "install"
          /\ \/ (make[a].hit \/ Rejected(a)) /\ Make(a, "discard") /\ UNCHANGED act
             \/ ~make[a].hit /\ ~Rejected(a) /\ ~Installed(a) /\ Install(a, FALSE) /\ Make(a, "ok")
             \/ ~make[a].hit /\ ~Rejected(a) /\ Installed(a) /\ Make(a, "lose") /\ UNCHANGED act
          /\ UNCHANGED <<dir, build, clean, used>>
       \/ /\ make[a].at = "discard"
          /\ Make(a, "fail") /\ UNCHANGED <<dir, act, build, clean, used>>
       \/ /\ make[a].at = "lose"
          /\ \/ Make(a, IF make[a].hit THEN "fail" ELSE "ok") /\ UNCHANGED used
             \/ Fault /\ Make(a, "fail")
          /\ UNCHANGED <<dir, act, build, clean>>
       \/ /\ make[a].at = "check"
          /\ \/ (make[a].hit \/ Refused(a)) /\ Make(a, "fail") /\ UNCHANGED <<act, build, clean>>
             \/ ~make[a].hit /\ ~Refused(a) /\ Activate(a)
                /\ Make(a, IF Installed(a) THEN "ok" ELSE "building")
          /\ UNCHANGED <<dir, used>>
       \/ /\ make[a].at = "built"
          /\ Make(a, IF ~Installed(a) THEN "check" ELSE IF act[a].gone THEN "fail" ELSE "ok")
          /\ act' = [act EXCEPT ![a].kept = @ \/ (Installed(a) /\ ~act[a].gone)]
          /\ UNCHANGED <<dir, build, clean, used>>
    /\ UNCHANGED <<call, comp, tree, close>>

(* Slip: the last waiter that is cancelled leaves without a compensation.  *)
ReleaseForgotten(c) ==
    /\ call[c].at = "join" /\ make[call[c].on].at \in {"ok", "fail"}
    /\ LET a    == call[c].on
           good == make[a].at = "ok" /\ ~call[c].hit
       IN  /\ Return(c)
           /\ make' = IF make[a].waiters = {c} THEN [make EXCEPT ![a] = NoMake]
                      ELSE [make EXCEPT ![a].waiters = @ \ {c}, ![a].delivered = @ \/ good]
           /\ act' = [act EXCEPT ![a].kept = @ \/ (good /\ act[a].st # "none")]
    /\ UNCHANGED <<dir, build, comp, tree, clean, close, used>>

(* The shared task is done: one waiter accounts for the handle, leaves its *)
(* admission and returns.  The last one, cancelled, of a create nobody     *)
(* received and nobody else uses starts the compensation and awaits it.    *)
Release(c) ==
    /\ call[c].at = "join" /\ make[call[c].on].at \in {"ok", "fail"}
    /\ LET a         == call[c].on
           good      == make[a].at = "ok" /\ ~call[c].hit
           last      == make[a].waiters = {c}
           delivered == make[a].delivered \/ good
           abandon   == last /\ ~delivered /\ make[a].at = "ok" /\ ~act[a].kept /\ ~act[a].gone
       IN  /\ act' = [act EXCEPT ![a].kept = @ \/ (good /\ act[a].st # "none"), ![a].gone = @ \/ abandon]
           /\ comp' = IF abandon THEN [comp EXCEPT ![a] = "start"] ELSE comp
           /\ make' = IF last /\ ~abandon THEN [make EXCEPT ![a] = NoMake]
                      ELSE [make EXCEPT ![a].waiters = @ \ {c}, ![a].delivered = delivered]
           /\ IF abandon THEN Go(c, "compWait") ELSE Return(c)
    /\ UNCHANGED <<dir, build, tree, clean, close, used>>

-----------------------------------------------------------------------------
(* Disposal of a subtree, and the compensation that asks for one.          *)
StartTree(a) ==
    tree' = IF tree[a].at = "none" THEN [tree EXCEPT ![a].at = "dir"] ELSE tree

(* dispose(): join an allocated cleanup, or close, or the subtree's task.  *)
BeginDispose(c, a) ==
    /\ MayCall(c, a) /\ Calls
    /\ IF clean[a] # "none" /\ CleanupIsFenced(a)
       THEN /\ Cleaning(a)
            /\ call' = [call EXCEPT ![c] = [op |-> "dispose", on |-> a, at |-> "clean", hit |-> FALSE]]
            /\ UNCHANGED tree
       ELSE IF Disposed
       THEN /\ close.at # "done"
            /\ call' = [call EXCEPT ![c] = [op |-> "dispose", on |-> a, at |-> "closeWait", hit |-> FALSE]]
            /\ UNCHANGED tree
       ELSE /\ call' = [call EXCEPT ![c] = [op |-> "dispose", on |-> a, at |-> "tree", hit |-> FALSE]]
            /\ StartTree(a)
    /\ UNCHANGED <<dir, act, make, build, comp, clean, close>>

(* _compensate_unreturned_create().  A create that meets it waits for it   *)
(* and starts over.                                                        *)
CompStep(a) ==
    /\ \/ /\ comp[a] = "start"
          /\ comp' = [comp EXCEPT ![a] = IF Disposed THEN "close" ELSE "tree"]
          /\ (IF Disposed THEN UNCHANGED tree ELSE StartTree(a))
          /\ UNCHANGED <<call, make>>
       \/ /\ comp[a] \in {"end", "failed"} \/ (comp[a] = "close" /\ ResourcesDone)
          /\ comp' = [comp EXCEPT ![a] = "none"]
          /\ make' = [make EXCEPT ![a] = NoMake]
          /\ call' = [c \in Callers |->
                        IF call[c].on = a /\ call[c].at \in {"compWait", "retry"}
                        THEN IF call[c].at = "retry" /\ ~call[c].hit /\ comp[a] # "failed"
                             THEN [call[c] EXCEPT !.at = "lookup"] ELSE NoCall
                        ELSE call[c]]
          /\ UNCHANGED tree
    /\ UNCHANGED <<dir, act, build, clean, close, used>>

(* _cancel_and_join() over the jobs a scope or close found: one is         *)
(* cancelled and awaited after the other.                                  *)
Struck(j) ==
    /\ make' = IF j[1] = "make" /\ Busy(j) THEN [make EXCEPT ![j[2]].hit = TRUE] ELSE make
    /\ build' = IF j[1] = "build" /\ Busy(j) THEN [build EXCEPT ![j[2]].hit = TRUE] ELSE build

Pending(S) ==
    {<<"make", x>> : x \in {y \in Agents : make[y].at # "none" /\ (y \in S \/ Owner[y] \cap S # {})}}
      \cup {<<"build", x>> : x \in {y \in S : build[y].at # "none"}}

TreeEnds(t, bad) ==
    /\ tree' = [tree EXCEPT ![t] = NoTree]
    /\ call' = Hand("tree", t, Ends)
    /\ comp' = IF comp[t] = "tree" THEN [comp EXCEPT ![t] = IF bad THEN "failed" ELSE "end"] ELSE comp

(* The descendants of an agent go before it.                               *)
ChildFirst(S) == {x \in S : \A y \in S \ {x} : x \notin Lineage[y]}

(* Wrong: no second look at the directory once the subtree is quiescent.   *)
ReloadSkipped(t) ==
    /\ tree[t].at = "reload"
    /\ tree' = [tree EXCEPT ![t].at = "clean", ![t].todo = tree[t].members]
    /\ UNCHANGED <<dir, act, call, make, build, comp, clean, close, used>>

(* The second directory read, which finds children committed meanwhile.    *)
Reload(t) ==
    /\ tree[t].at = "reload"
    /\ \/ /\ tree' = [tree EXCEPT ![t].at = "clean", ![t].todo = Affected(t)]
          /\ UNCHANGED <<call, comp, used>>
       \/ Fault /\ TreeEnds(t, TRUE)
    /\ UNCHANGED <<dir, act, make, build, clean, close>>

(* _dispose_subtree() up to that read.                                     *)
TreeStep(t) ==
    /\ \/ /\ tree[t].at = "dir"
          /\ \/ /\ tree' = [tree EXCEPT ![t].at = "scope", ![t].members = Affected(t)]
                /\ UNCHANGED <<call, comp, used>>
             \/ Fault /\ TreeEnds(t, TRUE)
          /\ UNCHANGED <<make, build>>
       \/ /\ tree[t].at = "scope" /\ ~Blocked(tree[t].members)
          /\ tree' = [tree EXCEPT ![t].at = "cancel", ![t].joins = Pending(tree[t].members)]
          /\ UNCHANGED <<call, make, build, comp, used>>
       \/ /\ tree[t].at = "cancel"
          /\ \E j \in tree[t].joins :
                /\ Struck(j)
                /\ tree' = [tree EXCEPT ![t].at = "joining", ![t].joins = @ \ {j}, ![t].todo = {j[2]}]
          /\ UNCHANGED <<call, comp, used>>
       \/ /\ tree[t].at = "joining"
          /\ \A x \in tree[t].todo : ~(make[x].hit /\ Busy(<<"make", x>>)) /\ ~(build[x].hit /\ Busy(<<"build", x>>))
          /\ tree' = [tree EXCEPT ![t].at = "cancel", ![t].todo = {}]
          /\ UNCHANGED <<call, make, build, comp, used>>
       \/ /\ tree[t].at = "cancel" /\ tree[t].joins = {} /\ Inside(tree[t].members) = {}
          /\ tree' = [tree EXCEPT ![t].at = "reload"]
          /\ UNCHANGED <<call, make, build, comp, used>>
    /\ UNCHANGED <<dir, act, clean, close>>

(* _agent_disposal_task(): the one cleanup of x, allocated if there is none*)
(* and waited for; a finished one is taken as it is.                       *)
Allocate(x) == clean[x] = "none" /\ clean' = [clean EXCEPT ![x] = "pend"]
(* Wrong: a cleanup that failed is waited for again.                        *)
OverWhenGood(x) == clean[x] = "ok"
Over(x) == clean[x] \in {"ok", "fail"}

TreeClean(t) ==
    /\ tree[t].at = "clean"
    /\ \/ \E x \in ChildFirst(tree[t].todo) :
             \/ Allocate(x) /\ UNCHANGED <<tree, call, comp>>
             \/ /\ Over(x)
                /\ tree' = [tree EXCEPT ![t].todo = @ \ {x}, ![t].bad = @ \/ clean[x] = "fail"]
                /\ UNCHANGED <<clean, call, comp>>
       \/ tree[t].todo = {} /\ TreeEnds(t, tree[t].bad) /\ UNCHANGED clean
    /\ UNCHANGED <<dir, act, make, build, close, used>>

(* _dispose_agent(): join what is being built, stop the worker - whose turn*)
(* may be in a call of its own, and is cancelled - release the execution   *)
(* and take the activation out of the registry.                            *)
CleanStep(a) ==
    /\ \/ /\ clean[a] = "pend"
          /\ make' = IF Busy(<<"make", a>>) THEN [make EXCEPT ![a].hit = TRUE] ELSE make
          /\ build' = IF Busy(<<"build", a>>) THEN [build EXCEPT ![a].hit = TRUE] ELSE build
          /\ clean' = [clean EXCEPT ![a] = "join"]
          /\ UNCHANGED <<act, call, used>>
       \/ /\ clean[a] = "join" /\ ~Busy(<<"make", a>>) /\ ~Busy(<<"build", a>>)
          /\ IF act[a].st = "none"
             THEN /\ clean' = [clean EXCEPT ![a] = "ok"]
                  /\ call' = Hand("clean", a, Ends)
                  /\ UNCHANGED act
             ELSE /\ clean' = [clean EXCEPT ![a] = "stop"]
                  /\ act' = [act EXCEPT ![a].st = "stopping"]
                  /\ call' = IF call[a] = NoCall THEN call ELSE [call EXCEPT ![a].hit = TRUE]
          /\ UNCHANGED <<make, build, used>>
       \/ /\ clean[a] = "stop" /\ call[a] = NoCall
          /\ \/ clean' = [clean EXCEPT ![a] = "ok"] /\ UNCHANGED used
             \/ clean' = [clean EXCEPT ![a] = "fail"] /\ Fault
          /\ act' = [act EXCEPT ![a] = NoAct]
          /\ call' = Hand("clean", a, Ends)
          /\ UNCHANGED <<make, build>>
    /\ UNCHANGED <<dir, comp, tree, close>>

(* A worker ends with a fault; its activation stays in the registry.       *)
WorkerFaults(a) ==
    /\ act[a].st = "live" /\ call[a] = NoCall /\ Fault
    /\ act' = [act EXCEPT ![a].st = "faulted"]
    /\ UNCHANGED <<dir, call, make, build, comp, tree, clean, close>>

-----------------------------------------------------------------------------
(* aclose() and _close().                                                  *)
BeginClose(c) ==
    /\ c \in Hosts /\ call[c] = NoCall /\ used.calls < MaxCalls /\ Calls
    /\ close.at # "done"
    /\ close' = [close EXCEPT !.at = IF @ = "none" THEN "begin" ELSE @]
    /\ call' = [call EXCEPT ![c] = [op |-> "close", on |-> "none", at |-> "closeWait", hit |-> FALSE]]
    /\ UNCHANGED <<dir, act, make, build, comp, tree, clean>>

Known == {a \in Agents : act[a].st # "none" \/ clean[a] # "none"}

CloseQuiescent ==
    /\ close.at = "cancel" /\ close.joins = {} /\ Inside(Agents) = {}
    /\ close' = [close EXCEPT !.at = "trees"]
    /\ UNCHANGED <<call, make, build, clean, used>>

CloseStep ==
    /\ \/ /\ close.at = "begin"
          /\ close' = [close EXCEPT !.at = "cancel", !.joins = Pending(Agents)]
          /\ call' = [c \in Callers |->
                        IF call[c].op = "create" /\ call[c].at \in {"lookup", "admit"}
                        THEN [call[c] EXCEPT !.hit = TRUE] ELSE call[c]]
          /\ UNCHANGED <<make, build, clean, used>>
       \/ /\ close.at = "cancel"
          /\ \E j \in close.joins :
                /\ Struck(j)
                /\ close' = [close EXCEPT !.at = "joining", !.joins = @ \ {j}, !.todo = {j[2]}]
          /\ UNCHANGED <<call, clean, used>>
       \/ /\ close.at = "joining"
          /\ \A x \in close.todo : ~(make[x].hit /\ Busy(<<"make", x>>)) /\ ~(build[x].hit /\ Busy(<<"build", x>>))
          /\ close' = [close EXCEPT !.at = "cancel", !.todo = {}]
          /\ UNCHANGED <<call, make, build, clean, used>>
       \/ CloseQuiescent
       \/ /\ close.at = "trees" /\ \A t \in Agents : tree[t].at = "none"
          /\ close' = [close EXCEPT !.at = "dir"]
          /\ UNCHANGED <<call, make, build, clean, used>>
       \/ /\ close.at = "dir"
          /\ \/ close' = [close EXCEPT !.at = "clean", !.todo = dir \cup Known] /\ UNCHANGED used
             \/ close' = [close EXCEPT !.at = "clean", !.todo = Known] /\ Fault
          /\ UNCHANGED <<call, make, build, clean>>
       \/ /\ close.at = "clean"
          /\ \/ \E x \in ChildFirst(close.todo) :
                   \/ Allocate(x) /\ UNCHANGED close
                   \/ Over(x) /\ close' = [close EXCEPT !.todo = @ \ {x}] /\ UNCHANGED clean
             \/ close.todo = {} /\ close' = [close EXCEPT !.at = "calls"] /\ UNCHANGED clean
          /\ UNCHANGED <<call, make, build, used>>
       \/ /\ close.at = "calls" /\ \A c \in Callers : call[c].op # "create"
          /\ close' = [close EXCEPT !.at = "done"]
          /\ call' = [c \in Callers |-> IF call[c].at = "closeWait" THEN NoCall ELSE call[c]]
          /\ UNCHANGED <<make, build, clean, used>>
    /\ UNCHANGED <<dir, act, comp, tree>>

-----------------------------------------------------------------------------
Proceed(c) == Lookup(c) \/ Refuse(c) \/ Admit(c) \/ Abort(c) \/ Check(c) \/ Post(c) \/ Release(c)
Work(a)    == MakeStep(a) \/ BuildStep(a) \/ CompStep(a) \/ CleanStep(a)
Dispose(t) == TreeStep(t) \/ Reload(t) \/ TreeClean(t)

Next ==
    \/ \E c \in Callers, a \in Agents :
          Begin(c, "create", a) \/ Begin(c, "wake", a) \/ BeginDispose(c, a)
    \/ \E c \in Callers : BeginClose(c) \/ Cancel(c) \/ Proceed(c)
    \/ \E a \in Agents : Work(a) \/ Dispose(a) \/ WorkerFaults(a)
    \/ CloseStep

Spec == Init /\ [][Next]_vars

(* The event loop runs every task, factories and cleanups end, and the     *)
(* condition wakes those it admits.                                        *)
FairSpec ==
    /\ Spec
    /\ \A c \in Callers : WF_vars(Proceed(c))
    /\ \A a \in Agents : WF_vars(MakeStep(a)) /\ WF_vars(BuildStep(a)) /\ WF_vars(CompStep(a))
                         /\ WF_vars(CleanStep(a)) /\ WF_vars(Dispose(a))
    /\ WF_vars(CloseStep)

-----------------------------------------------------------------------------
(* An agent never runs without its owner: creations, resumes, compensations*)
(* and disposals of both may race, but as long as a child is installed, so *)
(* is its owner, and a child that runs has an owner nobody has stopped.    *)
(* Nor does it run with nobody to use it because its creator was cancelled:*)
(* someone still waits for it, or its compensation runs, unless that       *)
(* disposal itself could not read the directory.                           *)
ActivationsAreOwned ==
    \A a \in Agents :
       /\ \A p \in Owner[a] : /\ act[a].st # "none" => act[p].st # "none"
                              /\ Installed(a) => act[p].st # "stopping"
       /\ act[a].st = "live" /\ ~act[a].kept =>
             make[a].waiters # {} \/ comp[a] # "none" \/ used.faults > 0

Gone(a) == act[a].st = "none" /\ ~Busy(<<"make", a>>) /\ ~Busy(<<"build", a>>)

(* A cleanup is final: while it runs no admitted call is at work on the    *)
(* agent or below it and no candidate for it is being built, so what it    *)
(* reads in the registries is all there is; once it is over there is no    *)
(* activation, so a disposal that skips it skips nothing.                  *)
CleanupIsFinal ==
    \A a \in Agents :
       /\ Cleaning(a) => Inside({a}) = {} /\ ~Busy(<<"make", a>>) /\ ~Busy(<<"build", a>>)
       /\ Over(a) => act[a].st = "none"

(* When a subtree disposal ends, nothing of the subtree as the directory   *)
(* then has it is installed or being built, failed cleanups included.      *)
TreeLeavesNothing ==
    \A t \in Agents : tree[t].at = "clean" /\ tree'[t].at = "none" => \A x \in Affected(t) : Gone(x)

(* Once close has released its resources there is nothing of any agent.    *)
CloseLeavesNothing ==
    ResourcesDone => \A a \in Agents : Gone(a) /\ tree[a].at = "none" /\ ~Cleaning(a)

(* A disposal that ends has left nothing behind, because a cleanup is      *)
(* final; nor has the close, and nothing ever comes back after it.         *)
DisposalIsComplete == []CleanupIsFinal /\ [][TreeLeavesNothing]_vars /\ []CloseLeavesNothing

(* Every disposal and every close returns, however callers are cancelled - *)
(* unless a turn of an agent that is being stopped itself waits for a      *)
(* disposal: that wait absorbs the cancellation the stop relies on.        *)
TurnAwaitsDisposal ==
    \E a \in Agents : clean[a] = "stop" /\ call[a].at \in {"tree", "closeWait", "compWait", "retry"}

DisposalsReturn ==
    \A c \in Callers :
       call[c].op \in {"dispose", "close"} ~> (call[c].op = "none" \/ []TurnAwaitsDisposal)

(* The same without the exception.                                         *)
DisposalConverges ==
    \A c \in Callers : call[c].op \in {"dispose", "close"} ~> call[c].op = "none"

=============================================================================
