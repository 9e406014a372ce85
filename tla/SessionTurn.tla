---------------------------- MODULE SessionTurn ----------------------------
(***************************************************************************)
(* One session and its owner: AgentLoop.run_turn() opens a Turn, runs      *)
(* Steps of model Attempts, tool calls and verification, and closes what   *)
(* it opened; RecoveryService.recover() repairs what a crash left open.    *)
(*                                                                         *)
(* The session stream is kept as what its readers project from it (the     *)
(* StateProjector, the CoreInvariantChecker, the permit check of           *)
(* start_model_attempt): Add(l, e) is the effect of one appended event on  *)
(* that projection, with the rules the checker finds broken collected in   *)
(* l.bad.  Each append is a step, so that a crash, a store fault or a      *)
(* cancellation can come between any two of them.  Events no reader here   *)
(* looks at (inbox, user/message, chunks, runtime/error) are left out: an  *)
(* interruption there is one before the next append that is modelled.      *)
(***************************************************************************)
EXTENDS Naturals, Sequences, FiniteSets, SequencesExt

CONSTANTS
    MaxSteps,       \* AgentLoop.max_steps
    MaxAttempts,    \* ModelRetryPolicy.max_attempts
    MaxRetries,     \* AgentLoop.max_verification_retries
    HasVerifier,    \* is a completion verifier configured
    MaxTurns,       \* bound: turns started
    MaxCancels,     \* bound: cancellations delivered to a running turn
    MaxFaults,      \* bound: appends the store refuses
    MaxCrashes      \* bound: process crashes

ASSUME SessionTurnAssumption ==
    /\ {MaxSteps, MaxAttempts} \subseteq Nat \ {0}
    /\ {MaxRetries, MaxTurns, MaxCancels, MaxFaults, MaxCrashes} \subseteq Nat
    /\ HasVerifier \in BOOLEAN

VARIABLES
    log,       \* what the session stream says
    pc,        \* where the owner is
    cur,       \* turn, step and ordinal the running turn is at
    response,  \* the last model response
    vfails,    \* verification_failures
    reason,    \* the reason the turn is about to end with
    plan,      \* the appends a finalizer, failure handler or recovery still has to do
    outcome,   \* how the last run_turn() or recover() ended
    loose,     \* history: "unanswered" when calls were left without a result and
               \* no recovery came since, "twice" when a cancellation met the
               \* append of a result that was durable already
    budget     \* history: cancellations, faults and crashes so far

vars == <<log, pc, cur, response, vfails, reason, plan, outcome, loose, budget>>

-----------------------------------------------------------------------------
(* A turn, a step and an attempt are named by where they stand.            *)
None       == <<0, 0, 0>>
TurnOf(id) == <<id[1], 0, 0>>
StepOf(id) == <<id[1], id[2], 0>>
Ids        == (0 .. MaxTurns) \X (0 .. MaxSteps) \X (0 .. MaxAttempts)

Kinds    == {"answer", "tools", "cut", "summary"}
Statuses == {"failed", "succeeded", "cancelled", "unknown_after_failure",
             "unknown_after_crash"}
Reasons  == {"completed", "incomplete", "max_steps_exceeded", "stalled",
             "verification_failed", "cancelled", "failed", "interrupted"}
Types    == {"turn/start", "turn/end", "step/start", "step/end",
             "attempt/start", "attempt/end", "message", "tool/call",
             "tool/result", "verification/result"}
Rules    == {"single-open-turn", "step-inside-turn", "single-open-step",
             "attempt-retry-binding", "attempt-ordinal-contiguous",
             "single-attempt-start", "attempt-start-inside-step",
             "single-open-attempt", "single-attempt-end",
             "attempt-end-has-start", "attempt-end-inside-step",
             "tool-result-has-call", "single-tool-result",
             "step-close-matches", "turn-closes-after-step",
             "turn-close-matches", "attempt-has-end", "tool-call-has-result"}

Event == [type : Types, id : Ids, note : Kinds \cup Statuses \cup Reasons
                                          \cup {"passed", "rejected", "none"},
          recovered : BOOLEAN]
Ev(type, id, note) == [type |-> type, id |-> id, note |-> note, recovered |-> FALSE]

Log == [turn : Ids, step : Ids, attempt : Ids,  \* what is open
        last     : Statuses \cup {"none"},      \* status of the step's last attempt end
        opened   : SUBSET Ids,                  \* turns and steps started
        closed   : SUBSET Ids,                  \* turns and steps ended
        starts   : SUBSET Ids,                  \* attempts started
        ends     : SUBSET (Ids \X Statuses),
        messages : SUBSET (Ids \X Kinds),
        calls    : SUBSET Ids,                  \* steps with a tool/call
        results  : SUBSET Ids,
        verdicts : SUBSET (Ids \X {"passed", "rejected"}),
        reasons  : SUBSET (Ids \X Reasons),
        bad      : SUBSET Rules]

EmptyLog == [turn |-> None, step |-> None, attempt |-> None, last |-> "none",
             opened |-> {}, closed |-> {}, starts |-> {}, ends |-> {},
             messages |-> {}, calls |-> {}, results |-> {}, verdicts |-> {},
             reasons |-> {}, bad |-> {}]

Ended(l)     == {p[1] : p \in l.ends}
Answered(l)  == {p[1] : p \in l.messages}
StartsIn(l, step) == {a \in l.starts : StepOf(a) = step}
Broken(test, rule) == IF test THEN {rule} ELSE {}

(* The effect of one event on every projection, rule by rule.              *)
AddTurnStart(l, e) ==
    [l EXCEPT !.turn = e.id, !.opened = @ \cup {e.id},
              !.bad = @ \cup Broken(l.turn # None, "single-open-turn")]

AddStepStart(l, e) ==
    [l EXCEPT !.step = e.id, !.opened = @ \cup {e.id}, !.last = "none",
              !.bad = @ \cup Broken(l.turn = None, "step-inside-turn")
                        \cup Broken(l.step # None, "single-open-step")]

AddAttemptStart(l, e) ==
    [l EXCEPT !.attempt = e.id, !.starts = @ \cup {e.id},
              !.bad = @
                 \cup Broken(e.id[3] > 1 /\ l.last # "failed", "attempt-retry-binding")
                 \cup Broken(e.id \in l.starts, "single-attempt-start")
                 \cup Broken(e.id[3] # Cardinality(StartsIn(l, StepOf(e.id))) + 1,
                             "attempt-ordinal-contiguous")
                 \cup Broken(l.turn # TurnOf(e.id) \/ l.step # StepOf(e.id),
                             "attempt-start-inside-step")
                 \cup Broken(l.attempt # None, "single-open-attempt")]

AddAttemptEnd(l, e) ==
    [l EXCEPT !.attempt = IF @ = e.id THEN None ELSE @,
              !.ends = @ \cup {<<e.id, e.note>>}, !.last = e.note,
              !.bad = @
                 \cup Broken(e.id \in Ended(l), "single-attempt-end")
                 \cup Broken(e.id \notin l.starts, "attempt-end-has-start")
                 \cup Broken(/\ ~e.recovered
                             /\ l.turn # TurnOf(e.id) \/ l.step # StepOf(e.id),
                             "attempt-end-inside-step")]

AddStepEnd(l, e) ==
    [l EXCEPT !.step = None, !.attempt = None, !.closed = @ \cup {e.id},
              !.bad = @ \cup Broken(l.step # e.id, "step-close-matches")]

AddTurnEnd(l, e) ==
    [l EXCEPT !.turn = None, !.attempt = None, !.closed = @ \cup {e.id},
              !.reasons = @ \cup {<<e.id, e.note>>},
              !.bad = @ \cup Broken(l.step # None, "turn-closes-after-step")
                        \cup Broken(l.turn # e.id, "turn-close-matches")]

AddToolResult(l, e) ==
    [l EXCEPT !.results = @ \cup {e.id},
              !.bad = @ \cup Broken(e.id \notin l.calls, "tool-result-has-call")
                        \cup Broken(e.id \in l.results, "single-tool-result")]

Add(l, e) ==
    CASE e.type = "turn/start"    -> AddTurnStart(l, e)
      [] e.type = "turn/end"      -> AddTurnEnd(l, e)
      [] e.type = "step/start"    -> AddStepStart(l, e)
      [] e.type = "step/end"      -> AddStepEnd(l, e)
      [] e.type = "attempt/start" -> AddAttemptStart(l, e)
      [] e.type = "attempt/end"   -> AddAttemptEnd(l, e)
      [] e.type = "message"       -> [l EXCEPT !.messages = @ \cup {<<e.id, e.note>>}]
      [] e.type = "tool/call"     -> [l EXCEPT !.calls = @ \cup {e.id}]
      [] e.type = "tool/result"   -> AddToolResult(l, e)
      [] e.type = "verification/result" ->
            [l EXCEPT !.verdicts = @ \cup {<<e.id, e.note>>}]

(* Rules the checker applies to the stream as a whole: a later event may   *)
(* still satisfy them.                                                     *)
Violations(l) ==
    l.bad \cup Broken(\E a \in l.starts \ Ended(l) : StepOf(a) \in l.closed,
                      "attempt-has-end")
          \cup Broken(\E c \in l.calls \ l.results : c \in l.closed,
                      "tool-call-has-result")

(* The rules a turn that is opened over an open one may break.             *)
Overlaps == {"single-open-turn", "single-open-step", "turn-closes-after-step"}

-----------------------------------------------------------------------------
(* Control points of run_turn(), in the order of the code, then those of   *)
(* the three owners of closing events and of the process.                  *)
InTry == {"step", "attempt", "provider", "failed", "retry", "message",
          "succeeded", "tools", "admitted", "results", "recorded", "verify", "stepEnd",
          "decide", "turnEnd", "finished"}
Writing == {"step", "attempt", "failed", "message", "succeeded", "tools", "admitted",
            "results", "verify", "stepEnd", "turnEnd"}
StepOpenFlag == {"attempt", "provider", "failed", "retry", "message",
                 "succeeded", "tools", "admitted", "results", "recorded", "verify",
                 "stepEnd"}
Closing == {"cancelling", "failing", "recovering"}
Points  == InTry \cup Closing \cup {"idle", "hook", "down"}

Outcomes == {"none", "finished", "cancelled", "failed", "lost", "early", "group",
             "recovered", "unrecovered", "crashed"}

Turn == TurnOf(cur)
Step == StepOf(cur)

Unfinished(l) == \/ l.turn # None \/ l.step # None
                 \/ l.starts \ Ended(l) # {} \/ l.calls \ l.results # {}

(* The turn's record keeps its shape: the step and attempt numbers stay    *)
(* within the loop's limits, whatever retries and recoveries there were.   *)
TypeOK ==
    /\ log \in Log
    /\ pc \in Points
    /\ cur \in Ids
    /\ response \in Kinds \cup {"none"}
    /\ vfails \in 0 .. MaxSteps
    /\ reason \in Reasons \cup {"none"}
    /\ plan \in Seq(Event)
    /\ outcome \in Outcomes
    /\ loose \subseteq {"unanswered", "twice"}
    /\ budget \in [cancels : 0 .. MaxCancels, faults : 0 .. MaxFaults,
                   crashes : 0 .. MaxCrashes]

Init ==
    /\ log = EmptyLog
    /\ pc = "idle"
    /\ cur = None
    /\ response = "none"
    /\ vfails = 0
    /\ reason = "none"
    /\ plan = <<>>
    /\ outcome = "none"
    /\ loose = {}
    /\ budget = [cancels |-> 0, faults |-> 0, crashes |-> 0]

Write(e) == log' = Add(log, e)

(* The owner returns to its driver.                                        *)
Exit(how) ==
    /\ pc' = "idle"
    /\ outcome' = how
    /\ plan' = <<>>
    /\ UNCHANGED loose

-----------------------------------------------------------------------------
(* What start_model_attempt() demands of the history before it grants the  *)
(* permit for one provider call.                                           *)
MayStart(l, id) ==
    /\ Violations(l) = {}
    /\ l.turn = TurnOf(id)
    /\ l.step = StepOf(id)
    /\ StartsIn(l, StepOf(id)) \subseteq Ended(l)
    /\ id \notin l.starts
    /\ id[3] = Cardinality(StartsIn(l, StepOf(id))) + 1
    /\ id[3] > 1 => l.last = "failed"

(* _close_open_attempt(): closes the attempt whose start became durable.   *)
AttemptClose(l, status) ==
    IF cur \in l.starts \ Ended(l) THEN <<Ev("attempt/end", cur, status)>> ELSE <<>>

CloseIf(test, type, id, why) == IF test THEN <<Ev(type, id, why)>> ELSE <<>>

(* Wrong: closes only the attempt whose provider call was interrupted.     *)
CancelPlanFromMemory ==
    CloseIf(pc \in {"results", "recorded"}, "tool/result", Step, "none")
    \o CloseIf(pc = "provider", "attempt/end", cur, "cancelled")
    \o CloseIf(pc \in StepOpenFlag, "step/end", Step, "cancelled")
    \o <<Ev("turn/end", Turn, "cancelled")>>

(* _close_cancelled() decides from a fresh read of the stream; before it,  *)
(* the tool batch gives every call a result that it does not remember to   *)
(* have answered, whether the stream has one or not.                       *)
CancelPlan ==
    CloseIf(pc \in {"results", "recorded"}, "tool/result", Step, "none")
    \o AttemptClose(log, "cancelled")
    \o CloseIf(cur[2] > 0 /\ Step \in log.opened \ log.closed,
               "step/end", Step, "cancelled")
    \o CloseIf(Turn \in log.opened \ log.closed, "turn/end", Turn, "cancelled")

(* Wrong: closes the turn before its step.                                 *)
FailPlanTurnFirst ==
    AttemptClose(log, "unknown_after_failure")
    \o <<Ev("turn/end", Turn, "failed")>>
    \o CloseIf(pc \in StepOpenFlag, "step/end", Step, "failed")

(* The exception handler decides from its flags step_open and turn_open.   *)
FailPlan ==
    AttemptClose(log, "unknown_after_failure")
    \o CloseIf(pc \in StepOpenFlag, "step/end", Step, "failed")
    \o <<Ev("turn/end", Turn, "failed")>>

(* Wrong: no end is believed that the loop did not write itself.           *)
RecoveredEndPessimist(l, a) ==
    [type |-> "attempt/end", id |-> a, recovered |-> TRUE,
     note |-> "unknown_after_crash"]

(* recover(): evidence decides how an attempt ended, every call gets a     *)
(* result, then the open step and turn are closed.                         *)
RecoveredEnd(l, a) ==
    [type |-> "attempt/end", id |-> a, recovered |-> TRUE,
     note |-> IF a \in Answered(l) THEN "succeeded" ELSE "unknown_after_crash"]

(* Wrong: repairs the lifecycle and forgets the calls.                     *)
RecoveryPlanForgetful(l) ==
    SetToSeq({RecoveredEnd(l, a) : a \in l.starts \ Ended(l)})
    \o CloseIf(l.step # None, "step/end", l.step, "interrupted")
    \o CloseIf(l.turn # None, "turn/end", l.turn, "interrupted")

RecoveryPlan(l) ==
    SetToSeq({RecoveredEnd(l, a) : a \in l.starts \ Ended(l)})
    \o SetToSeq({Ev("tool/result", c, "none") : c \in l.calls \ l.results})
    \o CloseIf(l.step # None, "step/end", l.step, "interrupted")
    \o CloseIf(l.turn # None, "turn/end", l.turn, "interrupted")

(* Calls stay behind without a result.                                     *)
Without(test) == IF test THEN {"unanswered"} ELSE {}

Fail ==
    /\ pc' = "failing"
    /\ plan' = FailPlan
    /\ loose' = loose \cup Without(pc \in {"admitted", "results"})
    /\ UNCHANGED <<log, cur, response, vfails, reason, outcome>>

-----------------------------------------------------------------------------
(* run_existing(): the turn is durable before the try block is entered.    *)
(* Nothing here looks at what the stream left open: a supervisor, unlike   *)
(* resume() and the chat, starts a turn without a recovery.                *)
OpenTurn ==
    /\ pc \in {"idle", "down"}
    /\ cur[1] < MaxTurns
    /\ cur' = <<cur[1] + 1, 0, 0>>
    /\ Write(Ev("turn/start", cur', "none"))
    /\ pc' = "hook"
    /\ response' = "none" /\ vfails' = 0 /\ reason' = "none" /\ outcome' = "none"
    /\ UNCHANGED <<plan, loose, budget>>

EnterTry ==
    /\ pc = "hook"
    /\ pc' = "step"
    /\ UNCHANGED <<log, cur, response, vfails, reason, plan, outcome, loose, budget>>

StartStep ==
    /\ pc = "step"
    /\ cur' = <<cur[1], cur[2] + 1, 1>>
    /\ Write(Ev("step/start", StepOf(cur'), "none"))
    /\ pc' = "attempt"
    /\ UNCHANGED <<response, vfails, reason, plan, outcome, loose, budget>>

(* The permit: request/snapshot and model/attempt-start in one append.     *)
StartAttempt ==
    /\ pc = "attempt"
    /\ MayStart(log, cur)
    /\ Write(Ev("attempt/start", cur, "none"))
    /\ pc' = "provider"
    /\ UNCHANGED <<cur, response, vfails, reason, plan, outcome, loose, budget>>

(* No permit: ownership is lost and the turn exits without writing.        *)
LoseOwnership ==
    /\ pc = "attempt"
    /\ ~MayStart(log, cur)
    /\ UNCHANGED <<log, cur, response, vfails, reason, budget>>
    /\ Exit("lost")

(* The provider answers; a summary is only asked for when a step is left.  *)
ProviderAnswers(kind) ==
    /\ pc = "provider"
    /\ kind = "summary" => cur[2] < MaxSteps
    /\ response' = kind
    /\ pc' = "message"
    /\ UNCHANGED <<log, cur, vfails, reason, plan, outcome, loose, budget>>

ProviderFails ==
    /\ pc = "provider"
    /\ pc' = "failed"
    /\ UNCHANGED <<log, cur, response, vfails, reason, plan, outcome, loose, budget>>

RecordFailure ==
    /\ pc = "failed"
    /\ Write(Ev("attempt/end", cur, "failed"))
    /\ pc' = "retry"
    /\ UNCHANGED <<cur, response, vfails, reason, plan, outcome, loose, budget>>

(* Wrong: the policy's attempt limit is forgotten.                         *)
RetryForever ==
    /\ pc = "retry"
    /\ cur' = [cur EXCEPT ![3] = @ + 1]
    /\ pc' = "attempt"
    /\ UNCHANGED <<log, response, vfails, reason, plan, outcome, loose, budget>>

(* retry_policy.decide(), the wait, and the look at the clock after it.    *)
Retry ==
    /\ pc = "retry"
    /\ cur[3] < MaxAttempts
    /\ cur' = [cur EXCEPT ![3] = @ + 1]
    /\ pc' = "attempt"
    /\ UNCHANGED <<log, response, vfails, reason, plan, outcome, loose, budget>>

GiveUp == pc = "retry" /\ Fail /\ UNCHANGED budget

RecordMessage ==
    /\ pc = "message"
    /\ Write(Ev("message", cur, response))
    /\ pc' = "succeeded"
    /\ UNCHANGED <<cur, response, vfails, reason, plan, outcome, loose, budget>>

(* After the end of the attempt: judge_response() keeps a cut response     *)
(* from running its tools and from being verified.                         *)
RecordSuccess ==
    /\ pc = "succeeded"
    /\ Write(Ev("attempt/end", cur, "succeeded"))
    /\ pc' = CASE response = "tools" -> "tools"
               [] response = "answer" /\ HasVerifier -> "verify"
               [] OTHER -> "stepEnd"
    /\ UNCHANGED <<cur, response, vfails, reason, plan, outcome, loose, budget>>

(* execute_batch(), one call standing for the batch: the calls are written *)
(* one by one outside the try block that owes them results, then the block *)
(* is entered, they run and get their results.                             *)
AdmitTools ==
    /\ pc = "tools"
    /\ Write(Ev("tool/call", Step, "none"))
    /\ pc' = "admitted"
    /\ UNCHANGED <<cur, response, vfails, reason, plan, outcome, loose, budget>>

RunTools ==
    /\ pc = "admitted"
    /\ pc' = "results"
    /\ UNCHANGED <<log, cur, response, vfails, reason, plan, outcome, loose, budget>>

RecordResults ==
    /\ pc = "results"
    /\ Write(Ev("tool/result", Step, "none"))
    /\ pc' = "recorded"
    /\ UNCHANGED <<cur, response, vfails, reason, plan, outcome, loose, budget>>

(* The append returns, and only then the batch remembers the result.       *)
KeepResults ==
    /\ pc = "recorded"
    /\ pc' = "stepEnd"
    /\ UNCHANGED <<log, cur, response, vfails, reason, plan, outcome, loose, budget>>

Verify(verdict) ==
    /\ pc = "verify"
    /\ Write(Ev("verification/result", Step, verdict))
    /\ vfails' = IF verdict = "rejected" THEN vfails + 1 ELSE vfails
    /\ pc' = "stepEnd"
    /\ UNCHANGED <<cur, response, reason, plan, outcome, loose, budget>>

(* A summary step goes straight on to the next step.                       *)
EndStep ==
    /\ pc = "stepEnd"
    /\ Write(Ev("step/end", Step, "none"))
    /\ pc' = IF response = "summary" THEN "step" ELSE "decide"
    /\ UNCHANGED <<cur, response, vfails, reason, plan, outcome, loose, budget>>

(* DefaultContinuationRuntime.decide(), first match first.                 *)
Rejected == response = "answer" /\ <<Step, "rejected">> \in log.verdicts

Verdicts ==
    CASE response = "cut" -> {"incomplete"}
      [] response # "cut" /\ cur[2] >= MaxSteps -> {"max_steps_exceeded"}
      [] response = "tools" /\ cur[2] < MaxSteps -> {"continue", "stalled"}
      [] Rejected /\ cur[2] < MaxSteps ->
            IF vfails <= MaxRetries THEN {"continue"} ELSE {"verification_failed"}
      [] OTHER -> {"completed"}

Decide ==
    /\ pc = "decide"
    /\ \E v \in Verdicts :
          IF v = "continue" THEN pc' = "step" /\ UNCHANGED reason
                            ELSE pc' = "turnEnd" /\ reason' = v
    /\ UNCHANGED <<log, cur, response, vfails, plan, outcome, loose, budget>>

EndTurn ==
    /\ pc = "turnEnd"
    /\ Write(Ev("turn/end", Turn, reason))
    /\ pc' = "finished"
    /\ UNCHANGED <<cur, response, vfails, reason, plan, outcome, loose, budget>>

ReturnResult ==
    /\ pc = "finished"
    /\ UNCHANGED <<log, cur, response, vfails, reason, budget>>
    /\ Exit("finished")

-----------------------------------------------------------------------------
(* Wrong: what has been appended is not taken off the plan.                *)
CloseNextAgain ==
    /\ pc \in Closing
    /\ plan # <<>>
    /\ Write(Head(plan))
    /\ UNCHANGED <<pc, cur, response, vfails, reason, plan, outcome, loose, budget>>

(* A finalizer, the exception handler or a recovery appends what it has    *)
(* decided to append, one event at a time.                                 *)
CloseNext ==
    /\ pc \in Closing
    /\ plan # <<>>
    /\ Write(Head(plan))
    /\ plan' = Tail(plan)
    /\ UNCHANGED <<pc, cur, response, vfails, reason, outcome, loose, budget>>

CloseDone ==
    /\ pc \in {"cancelling", "failing"}
    /\ plan = <<>>
    /\ UNCHANGED <<log, cur, response, vfails, reason, budget>>
    /\ Exit(IF pc = "cancelling" THEN "cancelled" ELSE "failed")

(* recover() runs when a session is opened again, in a fresh process or in *)
(* this one (resume, the recover command); it reads first, then appends.   *)
BeginRecovery ==
    /\ pc \in {"idle", "down"}
    /\ pc' = "recovering"
    /\ plan' = RecoveryPlan(log)
    /\ outcome' = "none"
    /\ UNCHANGED <<log, cur, response, vfails, reason, loose, budget>>

RecoveryDone ==
    /\ pc = "recovering"
    /\ plan = <<>>
    /\ pc' = "idle"
    /\ outcome' = "recovered"
    /\ loose' = loose \ {"unanswered"}
    /\ UNCHANGED <<log, cur, response, vfails, reason, plan, budget>>

(* CancelledError is raised in the turn: nothing closes a turn whose try   *)
(* block was not entered, the finalizer owns it inside, the exception      *)
(* handler is cut short, and the finalizer itself cannot be interrupted.   *)
Cancel ==
    /\ budget.cancels < MaxCancels
    /\ budget' = [budget EXCEPT !.cancels = @ + 1]
    /\ UNCHANGED <<log, cur, response, vfails, reason>>
    /\ \/ pc = "hook" /\ Exit("early")
       \/ pc = "failing" /\ Exit("group")
       \/ /\ pc \in InTry
          /\ pc' = "cancelling"
          /\ plan' = CancelPlan
          /\ loose' = loose \cup Without(pc = "admitted")
                            \cup (IF pc = "recorded" THEN {"twice"} ELSE {})
          /\ UNCHANGED outcome

(* The store refuses an append (busy, closed, unavailable): nothing is     *)
(* written and the exception goes to whoever was appending.                *)
Fault ==
    /\ budget.faults < MaxFaults
    /\ budget' = [budget EXCEPT !.faults = @ + 1]
    /\ \/ pc \in Writing /\ Fail
       \/ /\ pc = "cancelling"       \* only the batch finalizer fails; the turn's goes on
          /\ plan # <<>> /\ Head(plan).type = "tool/result"
          /\ plan' = Tail(plan)
          /\ loose' = loose \cup {"unanswered"}
          /\ UNCHANGED <<log, pc, cur, response, vfails, reason, outcome>>
       \/ /\ pc \in {"cancelling", "failing"}
          /\ plan # <<>> /\ Head(plan).type # "tool/result"
          /\ UNCHANGED <<log, cur, response, vfails, reason>>
          /\ Exit("group")
       \/ /\ pc = "recovering"
          /\ plan # <<>>
          /\ UNCHANGED <<log, cur, response, vfails, reason>>
          /\ Exit("unrecovered")

(* The process dies; only the stream is left.                              *)
Crash ==
    /\ pc \notin {"idle", "down"}
    /\ budget.crashes < MaxCrashes
    /\ budget' = [budget EXCEPT !.crashes = @ + 1]
    /\ pc' = "down"
    /\ plan' = <<>>
    /\ outcome' = "crashed"
    /\ UNCHANGED <<log, cur, response, vfails, reason, loose>>

TurnStep ==
    \/ EnterTry \/ StartStep \/ StartAttempt \/ LoseOwnership
    \/ (\E kind \in Kinds : ProviderAnswers(kind))
    \/ ProviderFails \/ RecordFailure \/ Retry \/ GiveUp
    \/ RecordMessage \/ RecordSuccess \/ AdmitTools \/ RunTools \/ RecordResults
    \/ KeepResults
    \/ (\E verdict \in {"passed", "rejected"} : Verify(verdict))
    \/ EndStep \/ Decide \/ EndTurn \/ ReturnResult
    \/ CloseNext \/ CloseDone \/ RecoveryDone

Next == TurnStep \/ OpenTurn \/ BeginRecovery \/ Cancel \/ Fault \/ Crash

Spec == Init /\ [][Next]_vars

(* A started turn is run by the event loop: every await it stands at is    *)
(* answered (provider and verifier have timeouts, appends converge).       *)
FairSpec == Spec /\ WF_vars(TurnStep)

-----------------------------------------------------------------------------
(* ADR-002: when the turn's own owner closed it - normally, by the cancel  *)
(* finalizer or by the exception handler - no turn, step or attempt of it  *)
(* is left open.                                                           *)
OwnerLeavesNothingOpen ==
    pc = "idle" /\ outcome \in {"finished", "cancelled", "failed"} =>
       /\ log.turn = None /\ log.attempt = None
       /\ \A id \in log.opened : TurnOf(id) = Turn => id \in log.closed
       /\ \A a \in log.starts : TurnOf(a) = Turn => a \in Ended(log)

(* Whatever the loop, its finalizers and recovery append, in any order and *)
(* cut short anywhere, breaks no rule of CoreInvariantChecker but for one  *)
(* of three causes, and each of them only its own rules:                   *)
(*   - a turn was opened while one was open (single-open-turn itself);     *)
(*   - calls were left without a result and no recovery came since: the    *)
(*     store failed, or a cancellation met the writing of the calls, which *)
(*     stands outside the block that owes them one;                        *)
(*   - a cancellation met the append of a result that was already durable, *)
(*     and the batch finalizer answered the call again.                    *)
(* And nothing but a broken rule ever costs the owner its permit: what     *)
(* start_model_attempt demands of the open turn, step and attempts is what *)
(* the loop, retries, cancellations and recoveries before it left.         *)
Explained ==
    (IF "single-open-turn" \in log.bad THEN Overlaps ELSE {})
    \cup (IF "unanswered" \in loose THEN {"tool-call-has-result"} ELSE {})
    \cup (IF "twice" \in loose THEN {"single-tool-result"} ELSE {})

HistoryStaysLegal ==
    /\ Violations(log) \subseteq Explained
    /\ pc = "attempt" /\ Violations(log) = {} => MayStart(log, cur)

(* A recovery that ran to its end repaired all of it: a second one would   *)
(* append nothing, and the rules still broken are those that no further    *)
(* append can mend: of turns that were opened on top of an open one, and   *)
(* of a call that a cancellation had answered twice.                       *)
RecoveryRepairs ==
    pc = "idle" /\ outcome = "recovered" =>
       /\ ~Unfinished(log)
       /\ RecoveryPlan(log) = <<>>
       /\ Violations(log) \subseteq Overlaps \cup {"single-tool-result"}
       /\ "single-tool-result" \in Violations(log) => "twice" \in loose

(* Every end is true, whoever wrote it.  An attempt: "succeeded" needs its *)
(* complete response in the stream, "failed" and "unknown after crash"     *)
(* exclude it.  A turn: "completed" needs a complete answer without tool   *)
(* calls in its last step, accepted by the verifier, if any.               *)
EndsAreTrue ==
    /\ \A p \in log.ends :
          /\ p[2] = "succeeded" => p[1] \in Answered(log)
          /\ p[2] \in {"failed", "unknown_after_crash"} => p[1] \notin Answered(log)
    /\ \A p \in log.reasons : p[2] = "completed" =>
          \E a \in log.starts :
             /\ TurnOf(a) = p[1]
             /\ \A id \in log.opened : TurnOf(id) = p[1] => id[2] <= a[2]
             /\ <<a, "answer">> \in log.messages
             /\ <<a, "succeeded">> \in log.ends
             /\ HasVerifier => <<StepOf(a), "passed">> \in log.verdicts

(* run_turn() and recover() return: retries, steps, verification retries   *)
(* and finalizers are all bounded.                                         *)
OwnerReturns == (pc \notin {"idle", "down"}) ~> (pc \in {"idle", "down"})

(* ADR-002 as it is written: a cancelled turn is closed when run_turn()    *)
(* returns to whoever cancelled it.                                        *)
CancelledTurnIsClosed ==
    pc = "idle" /\ outcome \in {"cancelled", "early"} => log.turn = None
=============================================================================
