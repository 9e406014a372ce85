---------------------------- MODULE BudgetLedger ----------------------------
(***************************************************************************)
(* The budget ledger of budgets/service.py and projection.py, and what     *)
(* drives it: the managed creation of child agents (supervision.py) and    *)
(* the executions that hold budget around a provider call or a turn        *)
(* (enforcement.py, llm/runtime.py).                                       *)
(*                                                                         *)
(* A service loads the ledger, validates one operation against it and      *)
(* appends one fact at the head it has seen, all under a lock of its own;  *)
(* other services on the same store race it, so the append may find that   *)
(* the stream has moved.  One consumable dimension stands for tokens,      *)
(* steps, tool calls and wall time, whose arithmetic is the same.          *)
(***************************************************************************)
EXTENDS Integers, FiniteSets

CONSTANTS
    Agents,     \* agents that can have an account
    Kids,       \* those of them created under a parent's grant
    Parent,     \* the owner of each kid
    Limit,      \* what a root is granted, what a kid starts with
    Ceiling,    \* the most a kid may be given
    Retained,   \* what the parent of a kid keeps for itself
    Calls,      \* external invocations, each under one usage reservation
    Turns,      \* those that are turns; the others are provider calls
    AgentOf,    \* the account each call is paid from
    Execs,      \* executions of a call
    CallOf,     \* the call each of them would make
    Outer,      \* the execution of the turn each one runs in, or "nobody"
    Services,   \* BudgetLedgerService objects over one store
    ServiceOf,  \* the one each execution uses
    Host,       \* the one the managed supervisor uses
    Desk,       \* the one its other requests go to
    MaxAsk,     \* bound: amount of one request
    MaxRequests,\* bound: requests of the host, after its grants
    MaxCancels, \* bound: cancellations
    MaxFaults   \* bound: store faults and crashes

ASSUME BudgetLedgerAssumption ==
    /\ Kids \subseteq Agents
    /\ Parent \in [Kids -> Agents]
    /\ Limit \in [Agents -> Nat]
    /\ {Ceiling, Retained} \subseteq [Kids -> Nat]
    /\ Turns \subseteq Calls
    /\ AgentOf \in [Calls -> Agents]
    /\ CallOf \in [Execs -> Calls]
    /\ ServiceOf \in [Execs -> Services]
    /\ Outer \in [Execs -> Execs \cup {"nobody"}]
    /\ {Host, Desk} \subseteq Services
    /\ {MaxAsk, MaxRequests, MaxCancels, MaxFaults} \subseteq Nat
    /\ {"saga", "desk", "nobody"} \cap Execs = {}

VARIABLES
    limit, charged, delegated, reserved, observed,  \* the accounts
    res,        \* the reservation of each kid
    use,        \* the usage reservation of each call
    facts,      \* the operations of the ledger
    dir,        \* the agents in the Directory
    op,         \* the operation each service is in
    pc,         \* where each execution is
    want,       \* the amount it asks for, or settles
    cancelled,  \* the executions that were cancelled
    ran,        \* history: the executions that made their external call
    saga, kid,  \* the managed create(): where it is, for whom
    quit,       \* its caller was cancelled
    cancels, faults,  \* history: cancellations and faults met
    troubled    \* history: a fault, a crash or a lost race

accounts == <<limit, charged, delegated, reserved, observed, res, use>>
ledger   == <<accounts, facts>>
exec     == <<pc, want, ran>>
creation == <<saga, kid, quit>>
history  == <<cancels, faults, troubled>>
vars     == <<ledger, dir, op, exec, cancelled, creation, history>>

Ops  == {"grant", "reserve", "commit", "release", "decide", "admit",
         "observe", "hold", "start", "settle", "drop", "close"}
Fact == [op : Ops, on : Agents \cup Calls, n : Nat]
Fa(o, x, n) == [op |-> o, on |-> x, n |-> n]
Idle == [by |-> "nobody", f |-> [op |-> "none"], fresh |-> FALSE]
Clients == Execs \cup {"saga", "desk"}
Pcs  == {"idle", "reserving", "permit", "starting", "calling", "balance",
         "settling", "releasing", "unstarting", "terminal", "again",
         "done", "cut", "dead"}

Exists(o, x) == \E f \in facts : f.op = o /\ f.on = x

(* The status of a reservation as rebuild() projects it: a child that is   *)
(* in the Directory commits its reservation before anyone records it.      *)
Status(c) == IF res[c] = "pending" /\ c \in dir THEN "committed" ELSE res[c]

HasAccount(a) == IF a \in Kids THEN Status(a) = "committed"
                               ELSE Exists("grant", a)
Open(a)       == HasAccount(a) /\ ~Exists("close", a)
Used(a)       == charged[a] + delegated[a] + reserved[a]

(* Slip: what is reserved for running calls does not count as used.        *)
FitsUnreserved(a, n) == charged[a] + delegated[a] + n <= limit[a]
Fits(a, n)    == Used(a) + n <= limit[a]

Remaining(a)  == IF Used(a) < limit[a] THEN limit[a] - Used(a) ELSE 0

(* What each operation demands of the ledger and Directory it has loaded.  *)
ChildReservable(c) ==
    /\ c \notin dir
    /\ Open(Parent[c])
    /\ Ceiling[c] <= limit[Parent[c]]
    /\ Fits(Parent[c], Limit[c] + Retained[c])

TokensDecidable(c, n) ==
    /\ Open(c) /\ Open(Parent[c])
    /\ limit[c] + n <= Ceiling[c]
    /\ n > 0 => Fits(Parent[c], n + Retained[c])

Closable(a) ==
    /\ Open(a)
    /\ \A c \in Kids : Parent[c] = a => Status(c) # "pending"
    /\ \A u \in Calls : AgentOf[u] = a => use[u].st \notin {"pending", "started"}

Releasable(c) == res[c] = "pending" /\ c \notin dir

Valid(f) ==
    \/ f.op = "grant"   /\ f.on \in dir \ Kids
    \/ f.op = "reserve" /\ f.on \in Kids /\ ChildReservable(f.on)
    \/ f.op = "commit"  /\ f.on \in Kids /\ res[f.on] = "pending" /\ f.on \in dir
    \/ f.op = "release" /\ f.on \in Kids /\ Releasable(f.on)
    \/ f.op = "decide"  /\ f.on \in Kids /\ TokensDecidable(f.on, f.n)
    \/ f.op = "observe" /\ Open(f.on)
    \/ f.op = "hold"    /\ Open(AgentOf[f.on]) /\ Fits(AgentOf[f.on], f.n)
    \/ f.op = "start"   /\ use[f.on].st = "pending"
    \/ f.op = "settle"  /\ use[f.on].st = "started" /\ f.n <= use[f.on].n
    \/ f.op = "drop"    /\ use[f.on].st = "pending"
    \/ f.op = "close"   /\ Closable(f.on)

-----------------------------------------------------------------------------
(* rebuild(): what each fact does to the accounts and reservations.        *)
AccountNoted(f) ==
    /\ f.op \in {"grant", "close"}
    /\ UNCHANGED accounts

ChildReserved(f) ==
    /\ f.op = "reserve"
    /\ res' = [res EXCEPT ![f.on] = "pending"]
    /\ delegated' = [delegated EXCEPT ![Parent[f.on]] = @ + Limit[f.on]]
    /\ UNCHANGED <<limit, charged, reserved, observed, use>>

ReservationCommitted(f) ==
    /\ f.op = "commit"
    /\ res' = [res EXCEPT ![f.on] = "committed"]
    /\ UNCHANGED <<limit, charged, delegated, reserved, observed, use>>

ReservationReleased(f) ==
    /\ f.op = "release"
    /\ res' = [res EXCEPT ![f.on] = "released"]
    /\ delegated' = [delegated EXCEPT ![Parent[f.on]] = @ - Limit[f.on]]
    /\ UNCHANGED <<limit, charged, reserved, observed, use>>

ChildTokensDecided(f) ==
    /\ f.op = "decide"
    /\ delegated' = [delegated EXCEPT ![Parent[f.on]] = @ + f.n]
    /\ limit' = [limit EXCEPT ![f.on] = @ + f.n]
    /\ UNCHANGED <<charged, reserved, observed, res, use>>

(* An admission is held to the capacity; an observation of what has been   *)
(* spent already is not.                                                   *)
UsageCharged(f) ==
    /\ f.op \in {"admit", "observe"}
    /\ charged' = [charged EXCEPT ![f.on] = @ + f.n]
    /\ observed' = IF f.op = "observe"
                   THEN [observed EXCEPT ![f.on] = @ + f.n] ELSE observed
    /\ UNCHANGED <<limit, delegated, reserved, res, use>>

UsageReserved(f) ==
    /\ f.op = "hold"
    /\ use' = [use EXCEPT ![f.on] = [st |-> "pending", n |-> f.n]]
    /\ reserved' = [reserved EXCEPT ![AgentOf[f.on]] = @ + f.n]
    /\ UNCHANGED <<limit, charged, delegated, observed, res>>

UsageStarted(f) ==
    /\ f.op = "start"
    /\ use' = [use EXCEPT ![f.on].st = "started"]
    /\ UNCHANGED <<limit, charged, delegated, reserved, observed, res>>

(* Settled or released: the hold goes back, what was used is charged.      *)
UsageEnded(f) ==
    /\ f.op \in {"settle", "drop"}
    /\ use' = [use EXCEPT ![f.on].st =
                 IF f.op = "settle" THEN "settled" ELSE "released"]
    /\ reserved' = [reserved EXCEPT ![AgentOf[f.on]] = @ - use[f.on].n]
    /\ charged' = IF f.op = "settle"
                  THEN [charged EXCEPT ![AgentOf[f.on]] = @ + f.n] ELSE charged
    /\ UNCHANGED <<limit, delegated, observed, res>>

Projected(f) ==
    \/ AccountNoted(f)
    \/ ChildReserved(f) \/ ReservationCommitted(f) \/ ReservationReleased(f)
    \/ ChildTokensDecided(f)
    \/ UsageCharged(f)
    \/ UsageReserved(f) \/ UsageStarted(f) \/ UsageEnded(f)

-----------------------------------------------------------------------------
(* Slip: a start that committed is forgotten with the cancelled caller.    *)
StartThenForgetful(e, r) ==
    IF r = "ok" /\ e \notin cancelled THEN "calling" ELSE "unstarting"

(* A start whose caller was cancelled, or that is known to have landed, is *)
(* settled in full; one that did not happen releases the hold.             *)
StartThen(e, r) ==
    IF r = "no" THEN "unstarting"
    ELSE IF r = "ok" /\ e \notin cancelled THEN "calling" ELSE "terminal"

(* Where an execution goes when its operation has ended: "ok", "no" (the   *)
(* operation was refused, lost its race or failed) or "landed" (it failed, *)
(* but its fact was found in the ledger).                                  *)
Then(e, r) ==
    CASE pc[e] = "reserving" /\ (r # "ok" \/ e \in cancelled) -> "releasing"
      [] pc[e] = "reserving" /\ r = "ok" /\ e \notin cancelled ->
            IF use[CallOf[e]].st \notin {"none", "pending"} THEN "done"
            ELSE IF CallOf[e] \in Turns THEN "starting" ELSE "permit"
      [] pc[e] = "starting" -> StartThen(e, r)
      [] pc[e] \in {"unstarting", "terminal"} ->
            IF CallOf[e] \in Turns THEN "done" ELSE "again"
      [] OTHER -> "done"

(* The same for the managed create(): a reservation that was released      *)
(* before is no permission to create.                                      *)
SagaThen(r) ==
    CASE saga = "reserving" /\ (r = "landed" \/ (r = "ok" /\ quit)) -> "finishing"
      [] saga = "reserving" /\ r = "ok" /\ ~quit /\ Status(kid) # "released" ->
            "creating"
      [] OTHER -> "idle"

Answered(c, r) ==
    /\ pc' = IF c \in Execs THEN [pc EXCEPT ![c] = Then(c, r)] ELSE pc
    /\ ran' = IF c \in Execs /\ pc'[c] = "calling" THEN ran \cup {c} ELSE ran
    /\ saga' = IF c = "saga" THEN SagaThen(r) ELSE saga
    /\ kid' = IF c = "saga" /\ saga' = "idle" THEN "nobody" ELSE kid
    /\ quit' = (quit /\ saga' # "idle")
    /\ UNCHANGED want

(* What a client asks of its service where it is.  Finalizers read the     *)
(* ledger and release what is pending, settle in full what was started.    *)
Asking == {e \in Execs :
             \/ pc[e] \in {"starting", "settling", "releasing", "unstarting",
                           "terminal", "again"}
             \/ pc[e] = "reserving" /\ e \notin cancelled}
          \cup (IF saga \in {"reserving", "finishing"} THEN {"saga"} ELSE {})

SagaWants ==
    CASE saga = "reserving" -> Fa("reserve", kid, 0)
      [] saga # "reserving" /\ kid \in dir -> Fa("commit", kid, 0)
      [] OTHER -> Fa("release", kid, 0)

ExecWants(e) ==
    LET u == CallOf[e] IN
    CASE pc[e] = "reserving" -> Fa("hold", u, want[e])
      [] pc[e] = "starting"  -> Fa("start", u, 0)
      [] pc[e] = "settling"  -> Fa("settle", u, want[e])
      [] pc[e] = "terminal" /\ use[u].st = "started" -> Fa("settle", u, use[u].n)
      [] OTHER -> Fa("drop", u, 0)

Wanted(c) == IF c = "saga" THEN SagaWants ELSE ExecWants(c)

SvcOf(c) == IF c = "saga" THEN Host ELSE ServiceOf[c]

(* Slip: starting what the same fact has started already is a success.     *)
VerdictLenient(f) == IF f \in facts THEN "ok" ELSE "no"

(* A fact that is in the ledger already is this operation done, except for *)
(* a start, which has one owner.                                           *)
Verdict(f) == IF f \in facts /\ f.op # "start" THEN "ok" ELSE "no"

Cancellation == cancels < MaxCancels /\ cancels' = cancels + 1

Fault ==
    /\ faults < MaxFaults
    /\ faults' = faults + 1
    /\ troubled' = TRUE
    /\ UNCHANGED cancels

(* The service takes its lock and loads the ledger: the operation is       *)
(* answered, refused, or goes on to its append.                            *)
Begin(c) ==
    LET s == SvcOf(c) IN
    /\ c \in Asking
    /\ op[s] = Idle
    /\ LET f == Wanted(c) IN
       IF Valid(f) /\ ~Exists(f.op, f.on)
       THEN /\ op' = [op EXCEPT ![s] = [by |-> c, f |-> f, fresh |-> TRUE]]
            /\ UNCHANGED <<exec, creation>>
       ELSE /\ Answered(c, Verdict(f))
            /\ UNCHANGED op
    /\ UNCHANGED <<ledger, dir, cancelled, history>>

(* The load fails.                                                         *)
LoadFails(c) ==
    /\ c \in Asking
    /\ op[SvcOf(c)] = Idle
    /\ Fault
    /\ Answered(c, "no")
    /\ UNCHANGED <<ledger, dir, op, cancelled>>

(* Operations the host asks for, of which nobody waits for the outcome.    *)
Requests ==
    {Fa(o, a, 0) : o \in {"grant", "close"}, a \in Agents}
    \cup {Fa("observe", a, n) : a \in Agents, n \in 1 .. MaxAsk}
    \cup {Fa("decide", a, n) : a \in Kids, n \in 0 .. MaxAsk}

HostIdle == Cardinality({f \in facts : f.op \in {"admit", "observe", "decide", "close"}})
               < MaxRequests

BeginRequest(f) ==
    /\ op[Desk] = Idle
    /\ f.op # "grant" => HostIdle
    /\ Valid(f)
    /\ ~Exists(f.op, f.on)
    /\ op' = [op EXCEPT ![Desk] = [by |-> "desk", f |-> f, fresh |-> TRUE]]
    /\ UNCHANGED <<ledger, dir, exec, cancelled, creation, history>>

(* admit_tool_calls(): the largest prefix of a batch that still fits.      *)
BeginAdmission(a, asked) ==
    /\ op[Desk] = Idle
    /\ HostIdle
    /\ Open(a)
    /\ ~Exists("admit", a)
    /\ Remaining(a) > 0
    /\ LET n == IF asked < Remaining(a) THEN asked ELSE Remaining(a) IN
       op' = [op EXCEPT ![Desk] = [by |-> "desk", f |-> Fa("admit", a, n),
                                   fresh |-> TRUE]]
    /\ UNCHANGED <<ledger, dir, exec, cancelled, creation, history>>

(* A fact is in the ledger: whoever has loaded the ledger before is late.  *)
Late(o) == [by |-> o.by, f |-> o.f, fresh |-> FALSE]

Recorded(s) ==
    /\ Projected(op[s].f)
    /\ facts' = facts \cup {op[s].f}
    /\ op' = [t \in Services |-> IF t = s THEN Idle ELSE Late(op[t])]

(* Slip: the fact is appended wherever the stream ends by now.             *)
AppendUnfenced(s) ==
    /\ op[s] # Idle
    /\ Recorded(s)
    /\ Answered(op[s].by, "ok")
    /\ UNCHANGED <<dir, cancelled, history>>

(* _append() at the head that was loaded.                                  *)
Append(s) ==
    /\ op[s].fresh
    /\ Recorded(s)
    /\ Answered(op[s].by, "ok")
    /\ UNCHANGED <<dir, cancelled, history>>

(* The stream has moved: the same fact may be in it, or the race is lost.  *)
AppendConflicts(s) ==
    /\ op[s] # Idle
    /\ ~op[s].fresh
    /\ op' = [op EXCEPT ![s] = Idle]
    /\ Answered(op[s].by, Verdict(op[s].f))
    /\ troubled' = (troubled \/ op[s].f \notin facts)
    /\ UNCHANGED <<ledger, dir, cancelled, cancels, faults>>

(* The append fails with the fact in the ledger or not, and the read that  *)
(* is to tell may fail as well.                                            *)
AppendFails(s) ==
    /\ op[s] # Idle
    /\ Fault
    /\ \/ op[s].fresh /\ Recorded(s)
       \/ op' = [op EXCEPT ![s] = Idle] /\ UNCHANGED ledger
    /\ \/ Answered(op[s].by, IF op[s].f \in facts' THEN "landed" ELSE "no")
       \/ Answered(op[s].by, "no")
    /\ UNCHANGED <<dir, cancelled>>

-----------------------------------------------------------------------------
(* admit() and run_turn() look at the balance before they reserve: an      *)
(* execution that cannot be paid for, or a provider call that was reserved *)
(* before, ends here.                                                      *)
Admit(e) ==
    LET u == CallOf[e] a == AgentOf[u]
        payable == /\ Open(a)
                   /\ Remaining(a) > 0
                   /\ u \notin Turns => use[u].st = "none"
    IN
    /\ pc[e] = "idle"
    /\ Outer[e] # "nobody" => pc[Outer[e]] = "calling" /\ Outer[e] \notin cancelled
    /\ HasAccount(a)
    /\ \/ /\ payable
          /\ \E n \in 1 .. MaxAsk :
                want' = [want EXCEPT ![e] = IF n < Remaining(a) THEN n ELSE Remaining(a)]
          /\ pc' = [pc EXCEPT ![e] = "reserving"]
       \/ /\ ~payable
          /\ pc' = [pc EXCEPT ![e] = "done"]
          /\ UNCHANGED want
    /\ UNCHANGED <<ledger, dir, op, cancelled, ran, creation, history>>

(* CancelledError reaches the innermost execution and leaves through its   *)
(* turn; what they own goes on regardless.                                 *)
Busy(e) == \E i \in Execs : Outer[i] = e /\ pc[i] \notin {"idle", "done", "cut", "dead"}

Cancel(e) ==
    /\ pc[e] \in {"reserving", "permit", "starting", "calling", "balance"}
    /\ e \notin cancelled
    /\ ~Busy(e)
    /\ cancelled' = cancelled \cup ({e, Outer[e]} \cap Execs)
    /\ Cancellation
    /\ UNCHANGED <<ledger, dir, op, exec, creation, faults, troubled>>

(* A cancelled reservation that was waiting for the lock or loading; once  *)
(* its append has begun that append runs to its end (Append, Then).        *)
GiveUp(e) ==
    LET s == ServiceOf[e] IN
    /\ pc[e] = "reserving"
    /\ e \in cancelled
    /\ pc' = [pc EXCEPT ![e] = "releasing"]
    /\ op' = IF op[s].by = e THEN [op EXCEPT ![s] = Idle] ELSE op
    /\ UNCHANGED <<ledger, dir, want, ran, cancelled, creation, history>>

(* The session grants the attempt its permit, or refuses it and the        *)
(* admission is aborted.                                                   *)
Permit(e) ==
    /\ pc[e] = "permit"
    /\ \/ e \notin cancelled /\ pc' = [pc EXCEPT ![e] = "starting"]
       \/ pc' = [pc EXCEPT ![e] = "releasing"]
    /\ UNCHANGED <<ledger, dir, op, want, ran, cancelled, creation, history>>

(* The call ends, or is cancelled, having used what can be told of it or,  *)
(* when nothing can be told, all of its hold.  A turn ends after its call. *)
CallEnds(e) ==
    LET u == CallOf[e] IN
    /\ pc[e] = "calling"
    /\ ~Busy(e)
    /\ \E n \in (IF u \in Turns THEN 1 ELSE 0) .. use[u].n :
          want' = [want EXCEPT ![e] = n]
    /\ pc' = [pc EXCEPT ![e] = "settling"]
    /\ UNCHANGED <<ledger, dir, op, ran, cancelled, creation, history>>

(* The provider reports more than was reserved: before the hold is settled *)
(* in full the ledger is read, to tell exhaustion from a wrong estimate.   *)
Overage(e) ==
    /\ pc[e] = "calling"
    /\ CallOf[e] \notin Turns
    /\ e \notin cancelled
    /\ want' = [want EXCEPT ![e] = use[CallOf[e]].n]
    /\ pc' = [pc EXCEPT ![e] = "balance"]
    /\ UNCHANGED <<ledger, dir, op, ran, cancelled, creation, history>>

(* That read returns; a cancellation or a failure of it leaves finish()    *)
(* before the settlement.                                                  *)
BalanceRead(e) ==
    /\ pc[e] = "balance"
    /\ pc' = [pc EXCEPT ![e] = IF e \in cancelled THEN "cut" ELSE "settling"]
    /\ UNCHANGED <<ledger, dir, op, want, ran, cancelled, creation, history>>

BalanceReadFails(e) ==
    /\ pc[e] = "balance"
    /\ Fault
    /\ pc' = [pc EXCEPT ![e] = "cut"]
    /\ UNCHANGED <<ledger, dir, op, want, ran, cancelled, creation>>

-----------------------------------------------------------------------------
(* The managed create(): one at a time, under the host's lock.             *)
Create(c) ==
    /\ saga = "idle"
    /\ Parent[c] \in dir
    /\ saga' = "reserving"
    /\ kid' = c
    /\ quit' = FALSE
    /\ UNCHANGED <<ledger, dir, op, exec, cancelled, history>>

CancelCreate ==
    /\ saga \in {"reserving", "creating"}
    /\ ~quit
    /\ Cancellation
    /\ quit' = TRUE
    /\ UNCHANGED <<ledger, dir, op, exec, cancelled, saga, kid, faults, troubled>>

(* Slip: a cancelled create() does not wait for the Supervisor's creation, *)
(* which may still write the agent into the Directory.                     *)
ConvergedEarly ==
    /\ saga \in {"creating", "finishing", "idle"}
    /\ \/ saga = "creating" /\ saga' = "finishing" /\ UNCHANGED <<kid, dir>>
       \/ /\ saga # "creating"
          /\ quit
          /\ dir' = dir \cup {c \in Kids : res[c] # "none"}
          /\ UNCHANGED <<saga, kid>>
    /\ UNCHANGED <<ledger, op, exec, cancelled, quit, history>>

(* The Supervisor's create() has converged, with its caller cancelled or   *)
(* not: the agent is in the Directory or nothing was created.              *)
Converged ==
    /\ saga = "creating"
    /\ \/ dir' = dir \cup {kid}
       \/ UNCHANGED dir
    /\ saga' = "finishing"
    /\ UNCHANGED <<ledger, op, exec, cancelled, kid, quit, history>>

(* A process dies with its service, its executions and its create().       *)
Crash(s) ==
    /\ Fault
    /\ op' = [op EXCEPT ![s] = Idle]
    /\ pc' = [e \in Execs |-> IF ServiceOf[e] = s /\ pc[e] \notin {"idle", "done", "cut"}
                              THEN "dead" ELSE pc[e]]
    /\ IF s = Host THEN saga' = "idle" /\ kid' = "nobody" /\ quit' = FALSE
                   ELSE UNCHANGED <<saga, kid, quit>>
    /\ UNCHANGED <<ledger, dir, want, ran, cancelled>>

-----------------------------------------------------------------------------
Init ==
    /\ limit = Limit
    /\ charged = [a \in Agents |-> 0]
    /\ delegated = [a \in Agents |-> 0]
    /\ reserved = [a \in Agents |-> 0]
    /\ observed = [a \in Agents |-> 0]
    /\ res = [c \in Kids |-> "none"]
    /\ use = [u \in Calls |-> [st |-> "none", n |-> 0]]
    /\ facts = {}
    /\ dir = Agents \ Kids
    /\ op = [s \in Services |-> Idle]
    /\ pc = [e \in Execs |-> "idle"]
    /\ want = [e \in Execs |-> 0]
    /\ cancelled = {}
    /\ ran = {}
    /\ saga = "idle" /\ kid = "nobody" /\ quit = FALSE
    /\ cancels = 0 /\ faults = 0
    /\ troubled = FALSE

ServiceStep ==
    \/ \E c \in Execs \cup {"saga"} : Begin(c) \/ LoadFails(c)
    \/ \E f \in Requests : BeginRequest(f)
    \/ \E a \in Agents, n \in 1 .. MaxAsk : BeginAdmission(a, n)
    \/ \E s \in Services : Append(s) \/ AppendConflicts(s) \/ AppendFails(s)

ExecStep == \E e \in Execs :
    \/ Admit(e) \/ Cancel(e) \/ GiveUp(e) \/ Permit(e)
    \/ CallEnds(e) \/ Overage(e) \/ BalanceRead(e) \/ BalanceReadFails(e)

CreateStep == (\E c \in Kids : Create(c)) \/ CancelCreate \/ Converged

Next == ServiceStep \/ ExecStep \/ CreateStep \/ \E s \in Services : Crash(s)

Spec == Init /\ [][Next]_vars

-----------------------------------------------------------------------------
(* Accounts, reservations and operations keep their shapes: amounts never  *)
(* become negative, which the projection asserts of every subtraction.     *)
TypeOK ==
    /\ {limit, charged, delegated, reserved, observed} \subseteq [Agents -> Nat]
    /\ res \in [Kids -> {"none", "pending", "committed", "released"}]
    /\ use \in [Calls -> [st : {"none", "pending", "started", "settled", "released"},
                          n : Nat]]
    /\ facts \subseteq Fact
    /\ dir \subseteq Agents
    /\ op \in [Services -> [by : Clients, f : Fact, fresh : BOOLEAN] \cup {Idle}]
    /\ pc \in [Execs -> Pcs]
    /\ want \in [Execs -> Nat]
    /\ cancelled \subseteq Execs /\ ran \subseteq Execs
    /\ saga \in {"idle", "reserving", "creating", "finishing"}
    /\ kid \in Kids \cup {"nobody"}

(* No account spends, reserves or gives to children more than its limit,   *)
(* but for usage that was only observed: whatever services race, whoever   *)
(* is cancelled and whichever append fails.                                *)
Solvent == \A a \in Agents : Used(a) <= limit[a] + observed[a]

(* The ledger can be replayed over the Directory: an agent whose grant was *)
(* released never exists (budget-release-after-agent would make the whole  *)
(* ledger unreadable for good), and a closed account has nothing open.     *)
LedgerReplays ==
    /\ \A c \in Kids : res[c] = "released" => c \notin dir
    /\ \A c \in Kids : Exists("close", Parent[c]) => Status(c) # "pending"
    /\ \A u \in Calls : Exists("close", AgentOf[u]) =>
          use[u].st \notin {"pending", "started"}

(* One execution at most ever makes a call, and while it runs its whole    *)
(* amount is held, or was charged by a rival that took this start for its  *)
(* own.                                                                    *)
CallsAreFunded ==
    /\ \A e1, e2 \in ran : CallOf[e1] = CallOf[e2] => e1 = e2
    /\ \A e \in Execs : pc[e] \in {"calling", "balance"} =>
          LET u == CallOf[e] IN
          \/ use[u].st = "started"
          \/ Fa("settle", u, use[u].n) \in facts

OpenHolds(a) == {u \in Calls : AgentOf[u] = a /\ use[u].st \in {"pending", "started"}}
Granted(a)   == {c \in Kids : Parent[c] = a /\ res[c] \in {"pending", "committed"}}

(* The amounts n of the members of S, one element for each unit.           *)
Units(n, S) == UNION {{x} \X (1 .. n[x]) : x \in S}

(* What an account holds is exactly the holds of its open calls and the    *)
(* grants of its children; and unless the store failed, a process died or  *)
(* a race was lost, whoever returns leaves no hold open, cancelled or not  *)
(* (ADR-0027).  The exception is "cut": a cancellation of the balance read *)
(* after an overage returns with the hold still started.                   *)
HoldsAreSettled ==
    /\ \A a \in Agents :
          LET held == Units([u \in Calls |-> use[u].n], OpenHolds(a)) IN
          /\ reserved[a] = Cardinality(held)
          /\ delegated[a] = Cardinality(Units(limit, Granted(a)))
    /\ ~troubled =>
          /\ \A u \in Calls :
                (\A e \in Execs : CallOf[e] = u => pc[e] \in {"idle", "done"}) =>
                   use[u].st \notin {"pending", "started"}
          /\ saga = "idle" => \A c \in Kids : res[c] # "pending"
=============================================================================
