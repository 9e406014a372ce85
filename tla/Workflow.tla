------------------------------ MODULE Workflow ------------------------------
(***************************************************************************)
(* One run of a fixed graph of nodes, driven by one WorkflowService        *)
(* (workflow/service.py) from the facts of the run's stream                *)
(* (workflow/projection.py).  The stream is kept as the record `log` of    *)
(* what the projection makes of it, log.bad being a history it refuses.    *)
(*                                                                         *)
(* Nodes and the children of a Map are numbered in the order of their ids. *)
(* What a node does is the work of other services (workflow/execution.py); *)
(* here it creates an agent, waits for its report and disposes of it, or   *)
(* answers.                                                                *)
(***************************************************************************)
EXTENDS Integers, FiniteSets, FiniteSetsExt

CONSTANTS
    Declared,       \* nodes of the definition, numbers
    Children,       \* children a Map may expand to, numbers
    Kind,           \* declared node -> kind
    Preds,          \* declared node -> its predecessors
    Parent,         \* child -> the Map it belongs to
    Callers,        \* coroutines that call start(), resume()
    MaxCalls,       \* advances that may be begun
    MaxFaults,      \* store failures
    MaxCancels,     \* calls of cancel(run_id)
    MaxCrashes

Kinds == {"task", "map", "join", "check", "approval"}
Units == Declared \cup Children

ASSUME WorkflowAssumption ==
    /\ Declared \subseteq Nat /\ Children \subseteq Nat /\ Declared \cap Children = {}
    /\ Kind \in [Declared -> Kinds]
    /\ \A n \in Declared : Preds[n] \subseteq Declared
    /\ \E rank \in [Declared -> Declared] :       \* the graph has no cycle
          \A n \in Declared : \A p \in Preds[n] : rank[p] < rank[n]
    /\ \A k \in Children : Parent[k] \in Declared /\ Kind[Parent[k]] = "map"
    /\ {MaxCalls, MaxFaults, MaxCancels, MaxCrashes} \subseteq Nat

Maps == {n \in Declared : Kind[n] = "map"}
AgentUnits == Children \cup {n \in Declared : Kind[n] = "task"}

VARIABLES
    log,        \* the run's stream, projected
    pc,         \* the await the run's task stands at; "done" until a caller saw it
    todo,       \* units the present phase still has to deal with
    batch,      \* units started by the present round
    work,       \* unit -> where its node task stands
    keys,       \* map -> the children its expansion named
    agents,     \* units whose agent is activated
    cut,        \* a cancellation waits for the node tasks to converge
    answer,     \* what the last advance returned or raised
    waiting,    \* callers waiting for the task
    phase,      \* of the service: open, closing, closed
    decided,    \* a human has approved (the promotion ledger)
    runs,       \* unit -> how often its work was begun (history)
    used        \* calls, faults, cancels and crashes spent

vars == <<log, pc, todo, batch, work, keys, agents, cut, answer, waiting,
          phase, decided, runs, used>>
task == <<pc, todo, batch, cut, answer>>
nodes == <<work, keys, agents, runs>>
host == <<waiting, phase, decided, used>>

Empty == [begun |-> FALSE, node |-> [u \in Units |-> "pending"], kids |-> {},
          expanded |-> {}, awaiting |-> {}, end |-> "none", bad |-> FALSE]

-----------------------------------------------------------------------------
(* The projection.                                                         *)

Fact(t, u, ks) == [t |-> t, on |-> u, ks |-> ks]

(* What rebuild() refuses.                                                 *)
Unexpected(l, f) ==
    \/ l.end # "none"
    \/ (f.t = "run-started") = l.begun
    \/ f.t = "started" /\ \/ l.node[f.on] # "pending"
                          \/ f.on \in Children \ l.kids
    \/ f.t \in {"expanded", "completed", "failed", "awaited"} /\ l.node[f.on] # "running"
    \/ f.t = "expanded" /\ (f.on \notin Maps \ l.expanded \/ f.ks = {})
    \/ f.t = "awaited" /\ f.on \in l.awaiting

(* Wrong: the run ends as its last node did.                               *)
OutcomeOfLast(l) == l.node[Max(Declared)]

(* The status _finish() records.                                           *)
Outcome(l) ==
    IF \E u \in Units : l.node[u] = "failed" THEN "failed" ELSE "completed"

Add(l, f) ==
    IF Unexpected(l, f) THEN [l EXCEPT !.bad = TRUE] ELSE
    CASE f.t = "run-started" -> [l EXCEPT !.begun = TRUE]
      [] f.t = "started"     -> [l EXCEPT !.node[f.on] = "running"]
      [] f.t = "expanded"    -> [l EXCEPT !.expanded = @ \cup {f.on}, !.kids = @ \cup f.ks]
      [] f.t = "awaited"     -> [l EXCEPT !.awaiting = @ \cup {f.on}]
      [] f.t \in {"completed", "failed"} ->
            [l EXCEPT !.node[f.on] = f.t, !.awaiting = @ \ {f.on}]
      [] OTHER -> [l EXCEPT !.end = Outcome(l)]

Terminal(l, u) == l.node[u] \in {"completed", "failed"}
KidsOf(l, n) == {k \in l.kids : Parent[k] = n}

(* Wrong: a Map counts as settled with its expansion.                      *)
SettledAtExpansion(l, p) == Terminal(l, p)

PredecessorSettled(l, p) ==
    /\ Terminal(l, p)
    /\ p \in Maps => p \in l.expanded /\ \A k \in KidsOf(l, p) : Terminal(l, k)

PredecessorFailed(l, p) == \E u \in {p} \cup KidsOf(l, p) : l.node[u] = "failed"

ReadyNodes(l) ==
    {n \in Declared : /\ l.node[n] = "pending"
                      /\ \A p \in Preds[n] : /\ PredecessorSettled(l, p)
                                             /\ ~PredecessorFailed(l, p)}
    \cup {k \in l.kids : l.node[k] = "pending"}

(* Wrong: an interrupted run goes on with whatever is left.                *)
AlwaysContinuable(l) == TRUE

RequireContinuable(l) == \A u \in Units : l.node[u] = "running" => u \in l.awaiting

-----------------------------------------------------------------------------
Init ==
    /\ log = Empty
    /\ pc = "none" /\ todo = {} /\ batch = {} /\ cut = FALSE /\ answer = "none"
    /\ work = [u \in Units |-> "none"]
    /\ keys = [n \in Maps |-> {}]
    /\ agents = {}
    /\ waiting = {} /\ phase = "open" /\ decided = FALSE
    /\ runs = [u \in Units |-> 0]
    /\ used = [calls |-> 0, faults |-> 0, cancels |-> 0, crashes |-> 0]

Spend(what, max) ==
    /\ used[what] < max
    /\ used' = [used EXCEPT ![what] = @ + 1]

(* start() and resume(): callers of one run share one task.                *)
Call(c) ==
    /\ c \notin waiting /\ phase = "open"
    /\ Spend("calls", MaxCalls)
    /\ waiting' = waiting \cup {c}
    /\ IF pc = "none" THEN pc' \in {"starting", "resuming"} ELSE UNCHANGED pc
    /\ UNCHANGED <<log, todo, batch, cut, answer, nodes, phase, decided>>

(* The task is over: it has let go of every node.                          *)
End(why) ==
    /\ pc' = "done" /\ answer' = why
    /\ todo' = {} /\ batch' = {} /\ cut' = FALSE

Goto(at, left) ==
    /\ pc' = at /\ todo' = left
    /\ UNCHANGED <<batch, cut, answer>>

(* _run(): read the stream and decide whether it may go on.                *)
Load ==
    /\ pc \in {"starting", "resuming"}
    /\ \/ ~log.begun /\ pc = "resuming" /\ End("unknown")
       \/ ~log.begun /\ pc = "starting" /\ Goto("begin", {})
       \/ log.begun /\ ~RequireContinuable(log) /\ End("unsafe")
       \/ log.begun /\ RequireContinuable(log) /\ Goto("turn", {})
    /\ UNCHANGED <<log, nodes, host>>

(* The top of the loop.                                                    *)
Turn ==
    /\ pc = "turn"
    /\ IF log.end # "none" THEN End("run") ELSE Goto("recheck", log.awaiting)
    /\ UNCHANGED <<log, nodes, host>>

(* _recheck_approvals(): a barrier nobody has decided stays.               *)
StillWaiting ==
    /\ pc = "recheck" /\ todo # {} /\ ~decided
    /\ Goto("recheck", todo \ {Min(todo)})
    /\ UNCHANGED <<log, nodes, host>>

Rechecked ==
    /\ pc = "recheck" /\ todo = {}
    /\ \/ /\ ReadyNodes(log) # {}
          /\ pc' = "start" /\ todo' = ReadyNodes(log) /\ batch' = ReadyNodes(log)
          /\ UNCHANGED <<cut, answer>>
       \/ ReadyNodes(log) = {} /\ log.awaiting # {} /\ End("run")
       \/ ReadyNodes(log) = {} /\ log.awaiting = {} /\ Goto("finish", {})
    /\ UNCHANGED <<log, nodes, host>>

(* Every start fact is durable: the node tasks are created.                *)
RunNodes ==
    /\ pc = "start" /\ todo = {}
    /\ Goto("nodes", batch)
    /\ work' = [u \in Units |-> IF u \in batch THEN "busy" ELSE work[u]]
    /\ runs' = [u \in Units |-> IF u \in batch THEN runs[u] + 1 ELSE runs[u]]
    /\ UNCHANGED <<log, keys, agents, host>>

-----------------------------------------------------------------------------
(* Appends.  The fact the task is about to write.                          *)

(* Slip: the children are announced after the Map is complete.             *)
CompletedFirst(u) ==
    CASE work[u] = "failed" -> Fact("failed", u, {})
      [] work[u] = "wait"   -> Fact("awaited", u, {})
      [] work[u] = "ok" /\ u \in Maps /\ log.node[u] = "completed" -> Fact("expanded", u, keys[u])
      [] OTHER -> Fact("completed", u, {})

FactOf(u) ==
    CASE work[u] = "failed" -> Fact("failed", u, {})
      [] work[u] = "wait"   -> Fact("awaited", u, {})
      [] work[u] = "ok" /\ u \in Maps \ log.expanded -> Fact("expanded", u, keys[u])
      [] OTHER -> Fact("completed", u, {})

Appending ==
    \/ pc \in {"begin", "finish", "failing"}
    \/ pc \in {"start", "record"} /\ todo # {}
    \/ pc = "recheck" /\ todo # {} /\ decided

Due ==
    CASE pc = "begin"   -> Fact("run-started", 0, {})
      [] pc = "start"   -> Fact("started", Min(todo), {})
      [] pc = "recheck" -> Fact("completed", Min(todo), {})
      [] pc = "record"  -> FactOf(Min(todo))
      [] OTHER          -> Fact("finished", 0, {})

(* _append(), when it succeeds or is found to have landed, and the reload. *)
Append ==
    /\ Appending
    /\ log' = Add(log, Due)
    /\ CASE pc \in {"begin", "finish"} -> Goto("turn", {})
         [] pc = "failing" -> End("nodes")
         [] OTHER -> Goto(pc, IF Due.t = "expanded" THEN todo ELSE todo \ {Min(todo)})
    /\ UNCHANGED <<nodes, host>>

AtAwait == pc \in {"starting", "resuming", "nodes"} \/ (pc = "recheck" /\ todo # {}) \/ Appending

(* The store fails, in the append or in the read that is to tell whether   *)
(* it landed, or in a read of the task.                                    *)
StoreFails ==
    /\ Spend("faults", MaxFaults)
    /\ AtAwait /\ pc # "nodes"
    /\ log' \in IF Appending THEN {log, Add(log, Due)} ELSE {log}
    /\ End(IF pc = "failing" THEN "nodes-unwritten" ELSE "unwritten")
    /\ UNCHANGED <<nodes, waiting, phase, decided>>

(* _run_ready(), every outcome recorded.  What a cancelled node did nobody *)
(* knows; a failed one ends the run.                                       *)
Recorded ==
    /\ pc = "record" /\ todo = {}
    /\ IF \E u \in batch : work[u] = "cut" THEN End("cancelled")
       ELSE IF \E u \in batch : work[u] = "failed" THEN Goto("failing", {})
       ELSE Goto("turn", {})
    /\ UNCHANGED <<log, nodes, host>>

-----------------------------------------------------------------------------
(* The node tasks (NodeExecutor.execute).  Nobody cancels them.            *)

Reaches(u, w) == work' = [work EXCEPT ![u] = w]

(* The agent is created or resumed, or cannot be.                          *)
CreateAgent(u) ==
    /\ u \in AgentUnits /\ work[u] = "busy"
    /\ \/ Reaches(u, "live") /\ agents' = agents \cup {u}
       \/ Reaches(u, "failed") /\ UNCHANGED agents
    /\ UNCHANGED <<log, task, keys, runs, host>>

(* The message is sent and reported on, and the patch captured; a service  *)
(* that is cancelled beside the run passes that on.                        *)
Report(u) ==
    /\ work[u] = "live"
    /\ \E w \in {"leave-ok", "leave-failed", "leave-cut"} : Reaches(u, w)
    /\ UNCHANGED <<log, task, keys, agents, runs, host>>

(* The finally block.                                                      *)
DisposeAgent(u) ==
    /\ work[u] \in {"leave-ok", "leave-failed", "leave-cut"}
    /\ Reaches(u, CASE work[u] = "leave-ok" -> "ok"
                    [] work[u] = "leave-failed" -> "failed"
                    [] OTHER -> "cut")
    /\ agents' = agents \ {u}
    /\ UNCHANGED <<log, task, keys, runs, host>>

(* _map_expansion(): the host names the children.                          *)
Expand(u) ==
    /\ u \in Maps /\ work[u] = "busy"
    /\ \/ /\ Reaches(u, "ok")
          /\ \E ks \in (SUBSET {k \in Children : Parent[k] = u}) \ {{}} :
                keys' = [keys EXCEPT ![u] = ks]
       \/ Reaches(u, "failed") /\ UNCHANGED keys
    /\ UNCHANGED <<log, task, agents, runs, host>>

(* A join, a review that passes or does not, an approval.                  *)
Answer(u) ==
    /\ u \in Declared \ (Maps \cup AgentUnits) /\ work[u] = "busy"
    /\ CASE Kind[u] = "join"  -> Reaches(u, "ok")
         [] Kind[u] = "check" -> Reaches(u, "ok") \/ Reaches(u, "failed")
         [] OTHER -> Reaches(u, IF decided THEN "ok" ELSE "wait")
    /\ UNCHANGED <<log, task, keys, agents, runs, host>>

Running(u) == work[u] \in {"busy", "live", "leave-ok", "leave-failed", "leave-cut"}

(* _converge_all() awaits them one by one and passes over those that are   *)
(* done when it comes to them.  An awaited node that ends cancelled looks  *)
(* to it like a cancellation of the run.                                   *)
Converged ==
    /\ pc = "nodes" /\ ~Running(Min(todo))
    /\ LET left == {u \in todo : \E v \in todo : v <= u /\ Running(v)}
           stop == cut \/ work[Min(todo)] = "cut" IN
          \/ left # {} /\ todo' = left /\ cut' = stop /\ UNCHANGED <<pc, batch, answer>>
          \/ left = {} /\ stop /\ End("cancelled")
          \/ left = {} /\ ~stop /\ Goto("record", {u \in batch : work[u] # "cut"})
    /\ UNCHANGED <<log, nodes, host>>

-----------------------------------------------------------------------------
(* Slip: a cancellation leaves the node tasks behind.                      *)
CancelAndLeave ==
    /\ AtAwait
    /\ Spend("cancels", MaxCancels)
    /\ log' \in IF Appending THEN {log, Add(log, Due)} ELSE {log}
    /\ End("cancelled")
    /\ UNCHANGED <<nodes, waiting, phase, decided>>

(* cancel(run_id): the CancelledError arrives at the await of pc.  The     *)
(* append in hand lands or not; node tasks are awaited all the same.       *)
Cancel ==
    /\ AtAwait
    /\ Spend("cancels", MaxCancels)
    /\ IF pc = "nodes"
       THEN cut' = TRUE /\ UNCHANGED <<log, pc, todo, batch, answer>>
       ELSE /\ log' \in IF Appending THEN {log, Add(log, Due)} ELSE {log}
            /\ End("cancelled")
    /\ UNCHANGED <<nodes, waiting, phase, decided>>

(* Slip: the first caller that sees the end drops the entry for all.       *)
ReturnToOne ==
    /\ pc = "done"
    /\ \E c \in waiting : waiting' = waiting \ {c}
    /\ pc' = "none" /\ answer' = "none"
    /\ UNCHANGED <<log, todo, batch, cut, nodes, phase, decided, used>>

(* _owned(): the callers see the end, and the entry is dropped.            *)
Return ==
    /\ pc = "done"
    /\ waiting' = {} /\ pc' = "none" /\ answer' = "none"
    /\ UNCHANGED <<log, todo, batch, cut, nodes, phase, decided, used>>

(* aclose(): nothing is admitted any more; the run is not cancelled.       *)
Close ==
    /\ phase = "open" /\ phase' = "closing"
    /\ UNCHANGED <<log, task, nodes, waiting, decided, used>>

Closed ==
    /\ phase = "closing" /\ pc \in {"none", "done"}
    /\ phase' = "closed"
    /\ UNCHANGED <<log, task, nodes, waiting, decided, used>>

(* Somebody approves a review, elsewhere, once its report is durable.      *)
Approve ==
    /\ ~decided
    /\ \E n \in Declared :
          Kind[n] = "check" /\ (work[n] = "ok" \/ log.node[n] = "completed")
    /\ decided' = TRUE
    /\ UNCHANGED <<log, task, nodes, waiting, phase, used>>

(* The process dies and a new service is built on the same store.          *)
Crash ==
    /\ Spend("crashes", MaxCrashes)
    /\ pc' = "none" /\ todo' = {} /\ batch' = {} /\ cut' = FALSE /\ answer' = "none"
    /\ work' = [u \in Units |-> "none"] /\ agents' = {} /\ keys' = [n \in Maps |-> {}]
    /\ waiting' = {} /\ phase' = "open"
    /\ UNCHANGED <<log, decided, runs>>

TaskStep ==
    \/ Load \/ Turn \/ StillWaiting \/ Rechecked \/ RunNodes \/ Append
    \/ Recorded \/ Converged \/ Return

NodeStep(u) == CreateAgent(u) \/ Report(u) \/ DisposeAgent(u) \/ Expand(u) \/ Answer(u)

Next ==
    \/ TaskStep
    \/ \E u \in Units : NodeStep(u)
    \/ \E c \in Callers : Call(c)
    \/ StoreFails \/ Cancel \/ Close \/ Closed \/ Approve \/ Crash

Spec == Init /\ [][Next]_vars

(* The store answers, agents report or fail, reviews run under a timeout.  *)
FairSpec ==
    /\ Spec
    /\ WF_vars(TaskStep)
    /\ \A u \in Units : WF_vars(NodeStep(u))
    /\ WF_vars(Closed)

-----------------------------------------------------------------------------
(* Type correctness of the run's stream and of the service's task.         *)
Log == [begun : BOOLEAN, kids : SUBSET Children, expanded : SUBSET Maps,
        node : [Units -> {"pending", "running", "completed", "failed"}],
        awaiting : SUBSET Declared, end : {"none", "completed", "failed"}, bad : BOOLEAN]
TypeOK ==
    /\ log \in Log
    /\ pc \in {"none", "starting", "resuming", "begin", "turn", "recheck", "start", "nodes",
               "record", "failing", "finish", "done"}
    /\ todo \subseteq Units /\ batch \subseteq Units /\ agents \subseteq AgentUnits
    /\ work \in [Units -> {"none", "busy", "live", "leave-ok", "leave-failed", "leave-cut",
                           "ok", "failed", "cut", "wait"}]
    /\ keys \in [Maps -> SUBSET Children] /\ runs \in [Units -> Nat]
    /\ waiting \subseteq Callers /\ phase \in {"open", "closing", "closed"}
    /\ {cut, decided} \subseteq BOOLEAN

(* Whoever wrote it, and wherever it was cut and continued, the stream is  *)
(* one the projection reads; and a run that says it completed has every    *)
(* node, and every child its Maps named, completed (_require_dag_completed)*)
HistoryIsReadable ==
    /\ ~log.bad
    /\ log.end = "completed" =>
          /\ Maps \subseteq log.expanded
          /\ \A u \in Declared \cup log.kids : log.node[u] = "completed"

(* The work of a node is begun at most once over all advances and crashes, *)
(* with its start on record, the run still open, and everything it builds  *)
(* on durably completed: for a child the expansion that names it, behind a *)
(* Map all of its children.                                                *)
WorkBegins(u) == work[u] # "busy" /\ work'[u] = "busy"

Supported(u) ==
    IF u \in Children THEN u \in log.kids /\ log.node[Parent[u]] = "completed"
    ELSE \A p \in Preds[u] :
            /\ log.node[p] = "completed"
            /\ p \in Maps => /\ p \in log.expanded
                             /\ \A k \in KidsOf(log, p) : log.node[k] = "completed"

WorkIsOnRecord ==
    [][\A u \in Units : WorkBegins(u) =>
          /\ runs[u] = 0 /\ Supported(u)
          /\ log.node[u] = "running" /\ log.end = "none"]_vars

(* A node with a start and no terminal that nobody works on any more could *)
(* have left anything behind: nothing is ever added to the stream of such  *)
(* a run, unless the node only waits for an approval (_require_continuable *)
(* and the cancelled nodes of _run_ready).                                 *)
Orphans == {u \in Units : log.node[u] = "running"} \ (log.awaiting \cup batch)

NothingFollowsAnOrphan == [][log' # log => Orphans = {}]_vars

(* No failure, cancellation or close lets a caller go while a node of its  *)
(* run is still at work or its agent alive, and what the caller is told is *)
(* so: node errors come after the failed terminal is durable, a run that   *)
(* is returned has ended or stands at the barrier.                         *)
Quiet == agents = {} /\ \A u \in Units : ~Running(u)

AnswersMatchHistory ==
    /\ pc \in {"none", "done"} \/ phase = "closed" => Quiet
    /\ pc = "done" /\ answer = "nodes" => log.end = "failed"
    /\ pc = "done" /\ answer = "run" => log.end # "none" \/ log.awaiting # {}

(* Every caller gets an answer, and a close ends.                          *)
RunsSettle ==
    /\ \A c \in Callers : c \in waiting ~> c \notin waiting
    /\ phase = "closing" ~> phase # "closing"
=============================================================================
