----------------------------- MODULE ToolBatch -----------------------------
(***************************************************************************)
(* ToolRuntime.execute_batch(): the tool calls of one model response, from *)
(* their tool/call facts to their tool/result facts, with the effect       *)
(* ledger between them, over the SQLite store.  Reads that stand next to   *)
(* each other are dispatched in parallel (asyncio.gather), everything else *)
(* alone and in order.  A cancellation raises CancelledError where a task  *)
(* awaits; an append it interrupts has been committed or has not.          *)
(* RecoveryService.recover() answers the calls a dead process left open.   *)
(***************************************************************************)
EXTENDS Naturals, Sequences, FiniteSets, SequencesExt

CONSTANTS
    N,            \* calls in the batch, numbered in the model's order
    Reads,        \* the calls whose effect kind is parallel-safe
    MaxCancels,   \* bound: cancellations
    MaxFaults,    \* bound: appends the store refuses
    MaxCrashes    \* bound: process crashes

ASSUME ToolBatchAssumption ==
    /\ N \in Nat \ {0}
    /\ Reads \subseteq 1 .. N
    /\ {MaxCancels, MaxFaults, MaxCrashes} \subseteq Nat

Call == 1 .. N

VARIABLES
    calls,       \* session stream: tool/call facts written, the first calls of them
    admitted,    \* session stream: tool/admitted facts
    results,     \* session stream: tool/result facts, in order
    intents,     \* effect stream: effect/intent facts
    dispatched,  \* effect stream: effect/dispatched facts
    outcome,     \* effect stream: effect/outcome and effect/reconciled per call
    pc,          \* where execute_batch() or recover() is
    verdict,     \* prepared: what became of each call before dispatch
    index,       \* the next call to look at
    group,       \* the calls being dispatched
    pending,     \* the awaits of the admission that a cancellation met; it waits for them
    todo,        \* the facts still to append
    recorded,    \* results: the calls execute_batch() knows to be answered
    member,      \* where the dispatch of each call is
    got,         \* what its tool returned
    hit,         \* dispatches with a CancelledError under way
    started,     \* history: how often each tool was run
    budget       \* history: cancellations, faults and crashes so far

session == <<calls, admitted, results>>
ledger  == <<intents, dispatched, outcome>>
batch   == <<verdict, index, group, pending, todo, recorded>>
tools   == <<member, got, hit, started>>
vars    == <<session, ledger, pc, batch, tools, budget>>

Outcomes == {"succeeded", "failed", "cancelled", "unknown_after_crash"}
Statuses == Outcomes \cup {"denied", "aborted_before_dispatch"}
Result(c, s)     == [type |-> "tool/result", call |-> c, status |-> s]
Reconciled(c)    == [type |-> "effect/reconciled", call |-> c,
                     status |-> "unknown_after_crash"]
Fact == {Result(c, s) : c \in Call, s \in Statuses} \cup {Reconciled(c) : c \in Call}

Over   == {"returned", "cancelled", "abandoned", "raised", "down", "recovered"}
Owner  == {"calling", "preparing", "gate", "admitting", "next", "group", "recording",
           "reading", "finalizing", "recovering"}
Live   == {"intent", "dispatch", "run", "running", "outcome", "closing"}

(* The facts and the dispatch states keep their shapes; no call is in the  *)
(* ledger as dispatched without an intent.                                 *)
TypeOK ==
    /\ calls \in 0 .. N
    /\ admitted \subseteq Call /\ intents \subseteq Call /\ dispatched \subseteq intents
    /\ results \in Seq(Call \X Statuses)
    /\ outcome \in [Call -> Seq(Outcomes)]
    /\ pc \in Owner \cup Over
    /\ verdict \in [Call -> {"none", "ready", "refused"}]
    /\ index \in 1 .. N + 1
    /\ group \subseteq Call /\ recorded \subseteq Call /\ hit \subseteq Call
    /\ pending \subseteq {"gate", "admitting"}
    /\ todo \subseteq Fact
    /\ member \in [Call -> Live \cup {"idle", "done", "cancelled", "failed"}]
    /\ got \in [Call -> {"none", "succeeded", "failed"}]
    /\ started \in [Call -> Nat]
    /\ budget \in [cancels : 0 .. MaxCancels, faults : 0 .. MaxFaults,
                   crashes : 0 .. MaxCrashes]

Answered == {results[i][1] : i \in DOMAIN results}
Ready    == {c \in Call : verdict[c] = "ready"}
First(S) == CHOOSE c \in S : \A d \in S : c <= d

Init ==
    /\ calls = 0 /\ admitted = {} /\ results = <<>>
    /\ intents = {} /\ dispatched = {} /\ outcome = [c \in Call |-> <<>>]
    /\ pc = "calling"
    /\ verdict = [c \in Call |-> "none"]
    /\ index = 1 /\ group = {} /\ pending = {} /\ todo = {} /\ recorded = {}
    /\ member = [c \in Call |-> "idle"] /\ got = [c \in Call |-> "none"] /\ hit = {}
    /\ started = [c \in Call |-> 0]
    /\ budget = [cancels |-> 0, faults |-> 0, crashes |-> 0]

-----------------------------------------------------------------------------
(* Before dispatch: every call is written, then judged, then admitted.     *)
WriteCall ==
    /\ pc = "calling"
    /\ calls' = calls + 1
    /\ pc' = IF calls' = N THEN "preparing" ELSE "calling"
    /\ UNCHANGED <<admitted, results, ledger, batch, tools, budget>>

(* The tool exists, its arguments are valid, the policies allow it or not. *)
Prepare ==
    /\ pc = "preparing"
    /\ LET c == First({d \in Call : verdict[d] = "none"}) IN
          /\ \E v \in {"ready", "refused"} : verdict' = [verdict EXCEPT ![c] = v]
          /\ pc' = IF c = N THEN "gate" ELSE "preparing"
    /\ UNCHANGED <<session, ledger, index, group, pending, todo, recorded, tools, budget>>

(* The host budget admits or denies each prepared call.                    *)
Gate ==
    /\ pc = "gate"
    /\ \E denied \in SUBSET Ready :
          verdict' = [c \in Call |-> IF c \in denied THEN "refused" ELSE verdict[c]]
    /\ pc' = "admitting"
    /\ UNCHANGED <<session, ledger, index, group, pending, todo, recorded, tools, budget>>

Admit ==
    /\ pc = "admitting"
    /\ Ready \ admitted # {}
    /\ admitted' = admitted \cup {First(Ready \ admitted)}
    /\ UNCHANGED <<calls, results, ledger, pc, batch, tools, budget>>

(* Wrong: dispatch does not wait for the last tool/admitted fact.          *)
AdmittedEarly ==
    /\ pc = "admitting"
    /\ pc' = IF pending # {} THEN "reading" ELSE "next"
    /\ UNCHANGED <<session, ledger, batch, tools, budget>>

(* A cancellation that came meanwhile is raised only now.                  *)
Admitted ==
    /\ pc = "admitting"
    /\ Ready \subseteq admitted
    /\ pc' = IF pending # {} THEN "reading" ELSE "next"
    /\ UNCHANGED <<session, ledger, batch, tools, budget>>

-----------------------------------------------------------------------------
(* The dispatch loop.                                                      *)
RefuseNext ==
    /\ pc = "next" /\ index <= N
    /\ verdict[index] = "refused"
    /\ todo' = {Result(index, "denied")}
    /\ index' = index + 1
    /\ pc' = "recording"
    /\ UNCHANGED <<session, ledger, verdict, group, pending, recorded, tools, budget>>

(* The neighbouring ready reads from index on, or one call of another kind, *)
(* and the index behind them.                                              *)
Neighbours == {c \in index .. N : \A d \in index .. c : d \in Ready \cap Reads}

After(g) == CHOOSE i \in 1 .. N + 1 : i - 1 \in g /\ \A c \in g : c < i

Dispatch(g) ==
    /\ group' = g
    /\ index' = After(g)
    /\ member' = [c \in Call |-> IF c \in g THEN "intent" ELSE member[c]]
    /\ pc' = "group"
    /\ UNCHANGED <<session, ledger, verdict, pending, todo, recorded, got, hit, started,
                   budget>>

(* Wrong: everything that is ready is dispatched at once.                  *)
DispatchNextTogether ==
    /\ pc = "next" /\ index <= N
    /\ verdict[index] = "ready"
    /\ Dispatch(Ready \ (1 .. index - 1))

DispatchNext ==
    /\ pc = "next" /\ index <= N
    /\ verdict[index] = "ready"
    /\ Dispatch(IF index \in Reads THEN Neighbours ELSE {index})

Return ==
    /\ pc = "next" /\ index = N + 1
    /\ pc' = "returned"
    /\ UNCHANGED <<session, ledger, batch, tools, budget>>

(* gather() returns when all are done, and raises with the first that does. *)
GroupDone ==
    /\ pc = "group"
    /\ \A c \in group : member[c] = "done"
    /\ todo' = {Result(c, got[c]) : c \in group}
    /\ pc' = "recording"
    /\ UNCHANGED <<session, ledger, verdict, index, group, pending, recorded, tools, budget>>

(* Wrong: waits for every dispatch to have been cancelled.                 *)
GroupRaisesTogether ==
    /\ pc = "group"
    /\ \/ (\A c \in group : member[c] = "cancelled") /\ pc' = "reading"
       \/ (\E c \in group : member[c] = "failed") /\ pc' = "raised"
    /\ UNCHANGED <<session, ledger, batch, tools, budget>>

GroupRaises ==
    /\ pc = "group"
    /\ \/ (\E c \in group : member[c] = "cancelled") /\ pc' = "reading"
       \/ (\E c \in group : member[c] = "failed") /\ pc' = "raised"
    /\ UNCHANGED <<session, ledger, batch, tools, budget>>

-----------------------------------------------------------------------------
(* _dispatch_one(c): the next fact is committed; a CancelledError under    *)
(* way is raised after it, or before it (Raise).                           *)
Move(c, at) == member' = [member EXCEPT ![c] = IF c \in hit THEN "cancelled" ELSE at]

(* Wrong: the intent is not written.                                       *)
AppendIntentSkipped(c) ==
    /\ member[c] = "intent"
    /\ Move(c, "dispatch")
    /\ UNCHANGED <<session, ledger, pc, batch, got, hit, started, budget>>

AppendIntent(c) ==
    /\ member[c] = "intent"
    /\ intents' = intents \cup {c}
    /\ Move(c, "dispatch")
    /\ UNCHANGED <<session, dispatched, outcome, pc, batch, got, hit, started, budget>>

AppendDispatched(c) ==
    /\ member[c] = "dispatch"
    /\ dispatched' = dispatched \cup {c}
    /\ Move(c, "run")
    /\ UNCHANGED <<session, intents, outcome, pc, batch, got, hit, started, budget>>

StartTool(c) ==
    /\ member[c] = "run" /\ c \notin hit
    /\ started' = [started EXCEPT ![c] = @ + 1]
    /\ member' = [member EXCEPT ![c] = "running"]
    /\ UNCHANGED <<session, ledger, pc, batch, got, hit, budget>>

(* It returns, fails or runs into its timeout.                             *)
FinishTool(c) ==
    /\ member[c] = "running" /\ c \notin hit
    /\ \E s \in {"succeeded", "failed"} : got' = [got EXCEPT ![c] = s]
    /\ member' = [member EXCEPT ![c] = "outcome"]
    /\ UNCHANGED <<session, ledger, pc, batch, hit, started, budget>>

AppendOutcome(c) ==
    /\ member[c] = "outcome"
    /\ outcome' = [outcome EXCEPT ![c] = Append(@, got[c])]
    /\ Move(c, "done")
    /\ UNCHANGED <<session, intents, dispatched, pc, batch, got, hit, started, budget>>

Raise(c) ==
    /\ c \in hit
    /\ member[c] \in {"intent", "dispatch", "run", "outcome"}
    /\ member' = [member EXCEPT ![c] = "cancelled"]
    /\ UNCHANGED <<session, ledger, pc, batch, got, hit, started, budget>>

(* The cancelled tool lets go; its outcome is written by an owned task     *)
(* that no further cancellation reaches.                                   *)
StopTool(c) ==
    /\ member[c] = "running" /\ c \in hit
    /\ member' = [member EXCEPT ![c] = "closing"]
    /\ UNCHANGED <<session, ledger, pc, batch, got, hit, started, budget>>

AppendCancelled(c) ==
    /\ member[c] = "closing"
    /\ outcome' = [outcome EXCEPT ![c] = Append(@, "cancelled")]
    /\ member' = [member EXCEPT ![c] = "cancelled"]
    /\ UNCHANGED <<session, intents, dispatched, pc, batch, got, hit, started, budget>>

MemberStep(c) ==
    \/ AppendIntent(c) \/ AppendDispatched(c) \/ StartTool(c) \/ FinishTool(c)
    \/ AppendOutcome(c) \/ Raise(c) \/ StopTool(c) \/ AppendCancelled(c)

-----------------------------------------------------------------------------
(* Answering: the loop, the cancel finalizer and recovery append results.  *)
Known(c) == IF outcome[c] = <<>> THEN "none" ELSE Last(outcome[c])

(* _finalize_cancelled_batch() reads the effect stream once.               *)
FinalResult(c) ==
    Result(c, IF Known(c) # "none" THEN Known(c)
              ELSE IF verdict[c] = "refused" THEN "denied"
              ELSE "aborted_before_dispatch")

(* Wrong: calls that were not prepared yet are forgotten.                  *)
ReadLedgerPrepared ==
    /\ pc = "reading"
    /\ todo' = {FinalResult(c) : c \in {d \in Call \ recorded : verdict[d] # "none"}}
    /\ pc' = "finalizing"
    /\ UNCHANGED <<session, ledger, verdict, index, group, pending, recorded, tools, budget>>

ReadLedger ==
    /\ pc = "reading"
    /\ todo' = {FinalResult(c) : c \in Call \ recorded}
    /\ pc' = "finalizing"
    /\ UNCHANGED <<session, ledger, verdict, index, group, pending, recorded, tools, budget>>

(* All three append in the order of the calls, and reconcile an intent     *)
(* before they answer its call.                                            *)
NextFact ==
    CHOOSE f \in todo : \A g \in todo :
       /\ f.call <= g.call
       /\ f.call = g.call /\ f.type = "tool/result" => g.type = "tool/result"

(* The next fact is committed.                                             *)
Commit ==
    LET f == NextFact IN
       IF f.type = "tool/result"
       THEN results' = Append(results, <<f.call, f.status>>) /\ UNCHANGED outcome
       ELSE /\ outcome' = [outcome EXCEPT ![f.call] = Append(@, f.status)]
            /\ UNCHANGED results

AppendFact ==
    /\ pc \in {"recording", "finalizing", "recovering"}
    /\ todo # {}
    /\ Commit
    /\ recorded' = recorded \cup {NextFact.call}
    /\ todo' = todo \ {NextFact}
    /\ UNCHANGED <<calls, admitted, intents, dispatched, pc, verdict, index, group,
                   pending, tools, budget>>

FactsDone ==
    /\ pc \in {"recording", "finalizing", "recovering"}
    /\ todo = {}
    /\ pc' = CASE pc = "recording"  -> "next"
               [] pc = "finalizing" -> "cancelled"
               [] pc = "recovering" -> "recovered"
    /\ UNCHANGED <<session, ledger, batch, tools, budget>>

(* recover(): an outcome is believed; without one nobody knows, and an     *)
(* intent is reconciled.  Nothing is run again.                            *)
Repair(c) ==
    IF Known(c) # "none" THEN {Result(c, Known(c))}
    ELSE {Result(c, "unknown_after_crash")} \cup {Reconciled(d) : d \in {c} \cap intents}

BeginRecovery ==
    /\ pc \in {"down", "raised", "cancelled", "abandoned"}
    /\ todo' = UNION {Repair(c) : c \in (1 .. calls) \ Answered}
    /\ pc' = "recovering"
    /\ UNCHANGED <<session, ledger, verdict, index, group, pending, recorded, tools, budget>>

-----------------------------------------------------------------------------
(* CancelledError reaches execute_batch() where it awaits.  The tool/call  *)
(* loop stands outside the try block; the admission is owned and finishes  *)
(* first; in a group it goes to the dispatches; the finalizer absorbs it.  *)
Cancel ==
    /\ budget.cancels < MaxCancels
    /\ budget' = [budget EXCEPT !.cancels = @ + 1]
    /\ UNCHANGED <<admitted, intents, dispatched, verdict, index, group, todo, recorded,
                   member, got, started>>
    /\ \/ /\ pc = "calling"
          /\ calls' \in {calls, calls + 1}
          /\ pc' = "abandoned"
          /\ UNCHANGED <<results, outcome, pending, hit>>
       \/ /\ pc = "preparing" \/ (pc = "next" /\ index <= N)
          /\ pc' = "reading"
          /\ UNCHANGED <<session, outcome, pending, hit>>
       \/ /\ pc \in {"gate", "admitting"}
          /\ pending' = pending \cup {pc}
          /\ UNCHANGED <<session, outcome, pc, hit>>
       \/ /\ pc = "group"
          /\ LET live == {c \in group : member[c] \in Live} IN
                /\ hit' = hit \cup live
                /\ pc' = IF live = {} THEN "reading" ELSE "group"
          /\ UNCHANGED <<session, outcome, pending>>
       \/ /\ pc = "recording" /\ todo # {}
          /\ Commit \/ UNCHANGED <<results, outcome>>
          /\ pc' = "reading"
          /\ UNCHANGED <<calls, pending, hit>>

(* The store refuses an append, or the gate fails.  Who met the failure    *)
(* with a cancellation of this very await raises the cancellation, anybody *)
(* else the failure; so does an answer of the gate that fits no call.      *)
Fault ==
    /\ budget.faults < MaxFaults
    /\ budget' = [budget EXCEPT !.faults = @ + 1]
    /\ UNCHANGED <<session, ledger, verdict, index, group, pending, todo, recorded,
                   got, hit, started>>
    /\ \/ /\ pc \in {"calling", "preparing", "gate", "admitting", "recording"}
          /\ pc' = IF pc \in pending THEN "reading" ELSE "raised"
          /\ UNCHANGED member
       \/ pc = "gate" /\ pc' = "raised" /\ UNCHANGED member
       \/ pc = "recovering" /\ pc' = "raised" /\ UNCHANGED member
       \/ pc \in {"reading", "finalizing"} /\ pc' = "cancelled" /\ UNCHANGED member
       \/ \E c \in Call :
             /\ member[c] \in {"intent", "dispatch", "outcome", "closing"}
             /\ member' = [member EXCEPT
                              ![c] = IF @ = "closing" THEN "cancelled" ELSE "failed"]
             /\ UNCHANGED pc

(* The process dies; the two streams are left.                             *)
Crash ==
    /\ budget.crashes < MaxCrashes
    /\ pc \notin {"down", "recovered"}
    /\ budget' = [budget EXCEPT !.crashes = @ + 1]
    /\ pc' = "down"
    /\ verdict' = [c \in Call |-> "none"]
    /\ index' = 1 /\ group' = {} /\ pending' = {} /\ todo' = {} /\ recorded' = {}
    /\ member' = [c \in Call |-> "idle"] /\ got' = [c \in Call |-> "none"] /\ hit' = {}
    /\ UNCHANGED <<session, ledger, started>>

OwnerStep ==
    \/ WriteCall \/ Prepare \/ Gate \/ Admit \/ Admitted \/ RefuseNext \/ DispatchNext
    \/ Return \/ GroupDone \/ GroupRaises \/ ReadLedger \/ AppendFact \/ FactsDone

Next == \/ OwnerStep \/ BeginRecovery \/ Cancel \/ Fault \/ Crash
        \/ \E c \in Call : MemberStep(c)

Spec == Init /\ [][Next]_vars

(* The event loop resumes every task; tools end by themselves or by their  *)
(* timeout.                                                                *)
FairSpec == Spec /\ WF_vars(OwnerStep) /\ \A c \in Call : WF_vars(MemberStep(c))

-----------------------------------------------------------------------------
(* ADR-0027, recovery-semantics.md: whatever is cancelled, refused, lost   *)
(* and recovered, a tool runs at most once, and never before the whole     *)
(* response is on record, the call is admitted and its intent and its      *)
(* dispatch are durable; and a cancellation that ended the batch has also  *)
(* stopped the dispatches that had not run their tool yet.                 *)
DispatchOnRecord ==
    /\ [](\A c \in Call : /\ started[c] <= 1
                          /\ started[c] = 1 => /\ calls = N
                                               /\ c \in admitted \cap intents \cap dispatched)
    /\ [][\A c \in Call : started'[c] # started[c] => pc = "group" \/ budget.faults > 0]_vars

(* Only parallel-safe reads overlap: a tool of another kind runs when no   *)
(* other dispatch is under way and every call before it has been answered. *)
WritesRunAlone ==
    \A c \in Call \ Reads : member[c] = "running" =>
       /\ \A d \in Call \ {c} : member[d] \notin Live
       /\ 1 .. c - 1 \subseteq Answered

(* No call stays unanswered: not when the batch returned, not when its     *)
(* cancellation was finalized over a working store, and not after recovery, *)
(* which also leaves no intent open that is not told as aborted (a fault   *)
(* in a parallel group detaches its siblings: they may still write).  The  *)
(* answers come from the loop, the cancel finalizer and recovery, and yet  *)
(* in the order of the calls, and they are what the ledger says: an outcome*)
(* that is told is durable, a denied call left no intent, and for a call   *)
(* that is not run in parallel the ledger never says anything else.        *)
EveryCallAnswered ==
    /\ \A i, j \in DOMAIN results : i < j => results[i][1] <= results[j][1]
    /\ \A i \in DOMAIN results :
          LET c == results[i][1]  s == results[i][2] IN
             /\ s \in {"succeeded", "failed", "cancelled"} => s \in ToSet(outcome[c])
             /\ s = "denied" => c \notin intents
             /\ c \notin Reads => ToSet(outcome[c]) \subseteq {s}
    /\ pc \in {"returned", "cancelled"} /\ budget.faults = 0 => Answered = Call
    /\ pc = "recovered" =>
          /\ Answered = 1 .. calls
          /\ \A c \in intents :
                outcome[c] = <<>> /\ (c \notin Reads \/ budget.faults = 0) =>
                \E i \in DOMAIN results : results[i] = <<c, "aborted_before_dispatch">>

(* The batch ends: with its results, its cancellation or its error.        *)
BatchReturns == <>(pc \in Over)

(* event-protocol.md: each tool call receives at most one model-visible    *)
(* result.                                                                 *)
SingleResult ==
    \A i, j \in DOMAIN results : results[i][1] = results[j][1] => i = j
=============================================================================
