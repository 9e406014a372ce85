# TLA+ models of TraceHarness

TraceHarness Py runs language-model agents whose every decision is an event in
an append-only log. This directory holds TLA+ models of the parts that decide,
race and recover: the event store, a turn of a session, the tools it calls, the
delivery of messages to agents, the lifecycle of the agents themselves, the
budgets they spend, the workflows that drive them, and the promotion of what
they produced. TLC checks each on a small instance; TLAPS proves each safe for all
instances.

Paths below are relative to `src/src/traceh/` of the repository unless they say
otherwise. `PROJECT.json` maps each definition to the lines it stands for and
lists components, runs, mutants, hazards, findings and theorems.

## 1. Inventory

| Part | State it keeps | Operations | Talks to | Model |
|---|---|---|---|---|
| event store (`session/sqlite.py`, `concurrency.py`) | `streams(head_seq)`, `events(seq, envelope)`; in memory: closed flag, running calls | `append(stream, expected_seq, events)`, `read`, `head`, `aclose` | SQLite, shared with other processes; worker threads | `EventStore`, `AppendLog` |
| session service (`session/service.py`, `invariants.py`, `projections.py`) | nothing durable of its own | `append_session`, `append_effect`, `start_model_attempt`, projection, rule checking | event store | `SessionTurn`, partly |
| turn (`runtime/agent_loop.py`, `continuation.py`, `llm/retry.py`) | local variables of one coroutine; facts in the session stream | `run_turn`, cancel finalizer, exception handler | session service, provider, tool runtime, verifier, hooks | `SessionTurn` |
| tool runtime (`tools/runtime.py`) | local variables; facts in the session and effect streams | `execute_batch`, `_dispatch_one`, cancel finalizers | session service, admission gate, tools | `ToolBatch` |
| recovery (`session/recovery.py`) | none | `recover` | both streams | `SessionTurn`, `ToolBatch` |
| inbox and delivery (`agents/inbox_service.py`, `supervision/delivery*.py`) | inbox and delivery stream of each agent | `accept`, `claim`, `complete`/`fail`/`cancel`, `next_unclaimed` | event store | `AgentDelivery` |
| activation worker (`supervision/supervisor.py`) | wake and idle events, fault, stopping, current claim | `request_wake`, `_run`, `_drain`, `_deliver`, `interrupt`, `dispose` | inbox, delivery, the turn of its agent | `AgentDelivery` |
| supervisor (`supervision/supervisor.py`, `lifecycle.py`) | registries of activations, creations, builds, compensations, subtree and agent disposals; the close task; admissions per lineage | `create`, `resume`, `send` with a wake, `dispose`, `aclose` | Agent Directory, runtime factories, workers; the turns of its own agents call it | `SupervisorLifecycle` |
| budget ledger (`budgets/service.py`, `projection.py`) | ledger stream: accounts, child and usage reservations, operations | admit, reserve/release child, reserve/start/settle/release usage, observe, decide, close | event store, Agent Directory | `BudgetLedger` |
| budget enforcement (`budgets/enforcement.py`, `supervision.py`, `llm/runtime.py`) | local variables of an execution | hold around a provider call or turn; managed `create` of a child | ledger, providers, supervisor | `BudgetLedger`, partly |
| workflow (`workflow/`) | run stream; tasks per run | `start`, `resume`, `cancel`, `aclose`; rounds of ready nodes | agents, delivery, approvals of promotion | `Workflow` |
| promotion (`promotion/`) | ledger stream, a git ref | review, approve, promote, `aclose` | git, sandbox, artifacts | `Promotion` |
| workspaces (`workspaces/`) | catalog stream, git worktrees | provision, attach, release, quarantine | git | none |
| composition (`runtime/composition_runtime.py`, `kernel/`) | generations with leases | publish, acquire, release, retire, drain | plugins | none |
| artifacts (`artifacts/`) | content files, capture stream | capture, put, read | file system | none |
| compaction and surface (`session/compaction.py`, `surface*.py`) | `surface/replace` facts | fold, replace a closed prefix | session stream | none |
| hosts: product, evaluation, evolution, TUI, CLI, chat, plugins, sandbox, memory, projects | mostly records in the same store | user-facing operations | all of the above | none |

### What makes it hard

* **Cancellation.** Nearly everything runs in one asyncio loop, and a
  `CancelledError` can be raised at any await. The code answers with owned,
  shielded tasks, and what matters is which appends stand inside one, and what
  an owner that absorbed a cancellation is itself waiting for.
* **Appends that may have happened.** A cancelled or failed append has committed
  or has not; the code must find out from the stream or be safe either way.
* **Several processes on one database.** Only the compare-and-swap of `append`
  orders them; two streams are never read in one transaction.
* **A second system beside the store.** The Agent Directory beside the budget
  ledger, agents beside a workflow run, a git ref beside the promotion ledger:
  each pair is written in two steps with a crash possible between them.
* **Shared tasks.** Creations, activations, disposals, workflow runs and
  promotions are one task for all who ask the same, and callers come and go.
* **Crashes.** Anything may stop between any two appends; recovery works from
  the streams alone.
* **Store failures in the middle of a cleanup.**

### What makes each part correct

* store: gapless history, whole batches, true receipts, refused calls that wrote
  nothing, a close after which nothing runs;
* turn: a legal stream whoever wrote it and wherever it was cut, closed by its
  owner, true about how attempts ended, "completed" only on a verified answer;
* tools: at most once, on record before they run, writes alone, one answer per
  call, in order, agreeing with the ledger;
* recovery: complete, idempotent, never running anything again;
* delivery: one turn per message, in order, one at a time, no lost wake, every
  claim settled;
* supervisor: no agent without its owner or without anybody to use it, a
  disposal that leaves nothing behind and nothing growing back, and that returns;
* budgets: nobody overdrawn, no external call made twice or without a hold, a
  ledger that replays beside the Directory, no hold forgotten;
* workflow: no node run twice or before what it builds on is durable, nothing
  added to a run that has an interrupted node, nobody let go while its nodes work;
* promotion: only approved patches move the ref and nobody's commit is lost,
  what is recorded happened, what happened is recorded, answers are true.

## 2. Modules

    AppendLog  <---refines---  EventStore  <--extends--  MCEventStore, EventStoreProofs
    SessionTurn  <-- SessionTurnProofs    ToolBatch  <-- ToolBatchProofs
    AgentDelivery  <-- MCAgentDelivery, AgentDeliveryProofs
    SupervisorLifecycle  <-- MCSupervisorLifecycle, SupervisorLifecycleProofs
    BudgetLedger  <-- MCBudgetLedger, BudgetLedgerProofs
    Workflow  <-- MCWorkflow, WorkflowProofs
    Promotion  <-- MCPromotion, PromotionProofs

The modules above the store use it through what `EventStore` establishes of it: an
append is atomic, and is done, refused, or (for a caller that was cancelled or
saw an error) done or not done. They therefore take an append as one step, with a
cancellation, a fault and a crash possible between any two, instead of composing
with the store's variables. Where services of several processes write one stream
(delivery, budgets, promotion) the compare-and-swap is explicit: a decision is
`fresh` or at a known length until somebody else appends.

A definition whose comment begins "Wrong:" or "Slip:" is a variant of the
definition that follows it with a plausible mistake. It is part of no
specification; it documents what each property would catch.

### EventStore (and AppendLog)

`rows` and `head` are the two tables; a row carries the id of the call that
wrote it instead of a payload. `call` is what a caller awaits, `work` the worker
threads, `phase` and `awaited` the closing of a store object, `seen` the head a
caller last read.

| Action | Code |
|---|---|
| `ObserveHead` | `head()` / `read()` |
| `Admit`, `Refuse` | `_run()` under the state lock |
| `Commit`, `CommitNothing`, `Conflict`, `Busy` | `_append_sync()`, from `BEGIN IMMEDIATE` to `COMMIT` or `ROLLBACK` |
| `Cancel`, `Return` | `await_worker_convergence()`: a cancelled caller still waits |
| `BeginClose`, `FinishClose` | `aclose()`, `_finish_close()` |
| `Crash` | the process dies; tables stay |

`AppendLog` is the abstract promise: per stream, a log that only grows, by all
events of one call at once, no call twice. `EventStore` implements it under the
mapping that reads each stream's rows in order (`ImplementsAppendLog`).

### SessionTurn

The session stream is kept as the record `log` of what its readers project from
it: what is open, how attempts ended, which calls have results, and in `log.bad`
the rules of `CoreInvariantChecker` that the history breaks. `Add(l, e)` is the
effect of one event. `pc` is the await at which `run_turn()` stands.

| Action | Code in `runtime/agent_loop.py` unless named |
|---|---|
| `OpenTurn`, `EnterTry` | lines 149-186: turn/start, the TURN_STARTED hook, the try block |
| `StartStep`, `StartAttempt`, `LoseOwnership` | step/start; `start_model_attempt()` (service.py 424-518) |
| `ProviderAnswers`, `ProviderFails`, `RecordFailure`, `Retry`, `GiveUp` | the attempt loop and `ModelRetryPolicy.decide` |
| `RecordMessage`, `RecordSuccess` | model/message, model/attempt-end |
| `AdmitTools`, `RunTools`, `RecordResults`, `KeepResults` | the tool batch, one call standing for it: its call, the try block, its durable result, and the batch's memory of it (tools/runtime.py 197-330) |
| `Verify`, `EndStep`, `Decide`, `EndTurn`, `ReturnResult` | verification, `DefaultContinuationRuntime.decide`, the ends |
| `Cancel` | `CancelledError` at the await of `pc`; `plan` holds what the finalizers of the batch and the turn append (`CancelPlan`) |
| `Fail`, `Fault` | the exception handler; a refused append |
| `CloseNext`, `CloseDone` | the finalizer, handler or recovery appends its plan, one event a step |
| `BeginRecovery`, `RecoveryDone` | `RecoveryService.recover` |
| `Crash` | only the stream is left |

`recorded` is the moment between a durable `tool/result` and the line that adds it
to `results`: a cancellation that arrives there makes the batch finalizer answer the
call again (disagreement 2 of section 5), and `single-tool-result` is in `log.bad` from
then on. `loose` is a history variable of the two ways in which the results of a call
go wrong. "unanswered": a call was left without one, because the store refused an
append, or because a cancellation arrived while the calls were being written
(`admitted`), which is outside the block that answers them; a recovery takes it
away. "twice": the cancellation above; nothing takes it away. `Explained` says which
rules each of them may break, and that a turn opened over an open one (a supervisor
starts turns without a recovery) may break those in `Overlaps`.

### ToolBatch

`execute_batch()` over N calls. `calls`, `admitted`, `results` are facts of the
session stream, `intents`, `dispatched`, `outcome` of the effect stream.
`member[c]` is where `_dispatch_one(c)` stands; a group of neighbouring
parallel-safe reads is dispatched by `asyncio.gather`, which raises with the first
dispatch that does. `hit` are the dispatches a cancellation is on its way to.
`ReadLedger` and `FinalResult` are `_finalize_cancelled_batch()`; `Repair` and
`BeginRecovery` are recovery's answers. `todo` is the set of facts the loop, the
finalizer or recovery still has to append; all three append in the order of the
calls, and recovery reconciles an intent before it answers its call (`NextFact`).

`pending` are the awaits of the admission that a cancellation met. It is held back
until the admission has converged; if the await it met then fails, the cancellation is
raised and the batch finalized, while a failure of the other await, or an answer
of the gate that fits no call, is raised as it is and the batch left (`Fault`).

A tool that is cancelled is taken to raise; one that swallows the cancellation
and returns is outside the model.

### AgentDelivery

One agent, its two streams, and one worker per process. A message is its
position in the inbox. `pc[p]` is the await the worker of process p stands at;
`view[p]` the lengths of the streams it read, which are all a compare-and-swap
and the projector need. `Accepted` and `NextUnclaimed` are the projector.

| Action | Code in `supervision/supervisor.py` unless named |
|---|---|
| `Send`, `Resume`, `Activate` | `send`, `resume`, `_activate` |
| `RequestWake` | `request_wake` under the state lock |
| `TakeWake`, `Drained` | `_run`: clear before draining, idle only if no wake came |
| `LoadInbox`, `LoadDelivery` | the two reads of `_drain` |
| `ClaimInbox`, `ClaimDelivery`, `ClaimAppend`, `Confirm` | `AgentDeliveryService.claim`: two reads, the append, the proving read |
| `TurnEnds`, `Interrupt` | `_deliver` around `run_turn` |
| `SettleInbox`, `SettleDelivery`, `SettleAppend` | `_record_terminal`, shielded |
| `StoreFails` | a store error in any of these, the append landed or not |
| `Dispose`, `CancelWorker`, `Disposed` | `dispose`, `_shutdown`, `_dispose_agent` |
| `Crash` | the process dies |

Sending is one step: an inbox append that loses its race writes nothing and is
repeated. A sender that dies before it wakes the worker is a send without wakeup.
Disposal waits until admitted senders have left (the lifecycle coordinator).

### SupervisorLifecycle

The other half of the supervisor: which agents of the tree have an activation
in this process. `dir` are the agents in the durable Directory, `act` the
installed activations, `call` the public call each caller is in, and `make`,
`build`, `comp`, `tree`, `clean`, `close` the registries of tasks that callers
share. An agent is itself a caller: its turn may call the supervisor for a child,
as the delegation and collaboration tools do.

| Action | Code in `supervision/supervisor.py` unless named |
|---|---|
| `Begin`, `Lookup`, `Admit`, `Refuse` | `create`, `resume`, `send`; the admission of `lifecycle.py` over the lineage |
| `JoinCreate` (part of `Admit`), `MakeStep` | the shared create: Directory append, build, install, retain |
| `Activate`, `Check`, `Post`, `BuildStep` | `_activate`: install what was built unless the agent, its owner or the supervisor is being stopped |
| `Cancel`, `Abort`, `Release` | a cancelled caller leaves; the last of a create nobody received starts the compensation |
| `CompStep` | the compensation disposes of the abandoned agent |
| `BeginDispose`, `TreeStep`, `Reload`, `TreeClean` | subtree disposal: fence, wait for older admissions, read the Directory again, clean child first |
| `CleanStep` | disposal of one agent: stop the worker, close the runtime |
| `BeginClose`, `CloseStep` | `aclose`, for the whole forest, then the resources |
| `WorkerFaults` | a worker ends with a fault; its activation stays until resumed or disposed |

No section under the supervisor's lock awaits, so each is one step. Identities
are pinned by the caller; the removal of a registry entry is part of the step in
which its task ends; `send` with a wakeup and `resume` are the one call "wake".
A branch of `_activate` that waits for a retained activation being abandoned from
within a worker cannot be reached and is left out.

### BudgetLedger

The accounts (`limit`, `charged`, `delegated`, `reserved`, `observed`), child
grants `res`, usage holds `use` and recorded operations `facts` are the
projection of the ledger stream; `dir` is the Agent Directory. `op[s]` is the
operation service s is in: it loads and validates (`Begin`), then appends at the
head it loaded (`Append`) or finds the stream moved (`AppendConflicts`). An
execution (`pc`, `want`) reserves, starts, calls, settles; `saga` is the managed
creation of a child.

| Action | Code |
|---|---|
| `Begin`, `LoadFails` | `BudgetLedgerService._append`: load, look for the operation, validate (budgets/service.py) |
| `Append`, `AppendConflicts`, `AppendFails` | the append, its races and its reconciling read |
| `BeginRequest`, `BeginAdmission` | requests of the host: close, observe, decide tokens, admission of a batch of tools |
| `Admit`, `Permit`, `CallEnds`, `GiveUp`, `Cancel` | `_BudgetedLlmAccounting` and the turn's hold: reserve before, start, call, settle or release after (budgets/enforcement.py, llm/runtime.py) |
| `Overage`, `BalanceRead`, `BalanceReadFails` | the read of the balance after more was used than held |
| `Create`, `CancelCreate`, `Converged` | the managed `create` (budgets/supervision.py): reserve, let the supervisor write the agent, commit or release once it has converged |
| `Crash` | a process dies; its executions and operations end |

`Valid(f)` are the checks of the service, `Projected(f)` what `rebuild()` does
with a fact. `troubled` is true once the store failed, a process died or a race
was lost.

### Workflow

One run of a fixed graph, driven by one service. `log` is the projection of the
run's stream (`log.bad`: a history `rebuild()` refuses), `pc` the await of the
run's task, `work[u]` where the task of a node, or of a child of a Map, stands,
`waiting` the callers that share the task, `runs` how often work was begun.

| Action | Code in `workflow/service.py` unless named |
|---|---|
| `Call`, `Return` | `start`, `resume`: callers share one task per run |
| `Load` | load, rebuild, `_require_continuable` |
| `Turn` | one round: terminal, barrier, or the ready nodes of `projection.ready` |
| `StillWaiting`, `Rechecked` | `_recheck_approvals` |
| `Append` | NODE_STARTED of each ready node, expansion, outcomes in the order of the ids, the terminal |
| `RunNodes`, `Converged`, `Recorded` | the node tasks of a round; `_converge_all`, which awaits them one by one (`todo`) and takes one that ends cancelled under its eyes for a cancellation of the run; what is made of their outcomes |
| `CreateAgent`, `Report`, `DisposeAgent`, `Expand`, `Answer` | `NodeExecutor` (workflow/execution.py) |
| `Cancel`, `Close`, `Closed` | `cancel(run_id)`, `aclose`: node tasks are not cancelled but waited for |
| `StoreFails` | a store failure at any await |
| `Approve` | a human approves in the promotion ledger, as soon as the review is durable and before the node that waits for it or after (`_approval`) |
| `Crash` | everything but the stream and that approval is gone |

A caller's own cancellation never reaches the shared task. What completed nodes
left as evidence, and the identities of agents and messages, are abstracted; so is
the failure of a dispose.

### Promotion

Several services over one ledger and one git ref. A revision is the sequence
of patches that made it, so the commit of a patch on a revision is the same
whoever builds it, which is what the deterministic integration commit of
`local_git.py` gives. `task[s, j]` is the owned task of job j (review, approve or
promote) in service s.

| Action | Code in `promotion/service.py` unless named |
|---|---|
| `Call` | `_owned`, and the find that decides whether there is anything to do |
| `Resolve`, `Observe` | `_review`: target, clone and verify, target again |
| `Confirm` | `_approve`: the ref still is what was reviewed |
| `RefState`, `Reobserve`, `Swap`, `Reread` | `_promote`, `_compare_and_swap`; `UpdateRef` is `git update-ref <new> <old>` |
| `SwapUnknown`, `Fails` | a git command times out, having moved the ref or not; anything else fails |
| `Record`, `Appended`, `Conflicted`, `AppendFails` | `_record`: load, find, append at that head, try again, reconcile |
| `Push`, `Revert` | others move the ref (external) |
| `Crash`, `OrphanEnds` | the process dies; a git child it left may still move the ref |
| `Close`, `Closed` | `aclose` |

Callers that are cancelled only stop waiting; nobody cancels the task. Digests,
plans, artifacts, sandboxes and scratch clones are taken to match, or to fail.

## 3. Runs

| Run | Bounds | Shows |
|---|---|---|
| `event_store` | 2 processes with a task each, 2 streams, empty batches and batches of two, 1 crash | 58k states. Safety of the store, the refinement, every call returns |
| `session_turn` | 2 turns, 2 steps, 2 attempts, 1 verification retry, 1 cancellation, 1 fault, 1 crash | 7.8M states. Safety of the turn and of recovery |
| `session_turn_live` | the same with 1 turn | 26k states. `run_turn` and `recover` return |
| `tool_batch` | 4 calls (write, read, read, write), 1 cancellation, 1 fault, 1 crash | 179k states. Safety and termination of a batch |
| `agent_delivery` | 2 processes, 2 messages, 1 store failure, 1 interrupt, 1 disposal or crash | 4.4M states. Safety of delivery |
| `agent_delivery_live` | the same with 1 message | 181k states. Woken messages settle; waiters are released |
| `supervisor_lifecycle` | a root and its child, one host besides, 4 calls, 1 cancellation, 1 failure | 122k states. Ownership, complete disposals, disposals return |
| `budget_ledger` | accounts of a root (limit 4) and its child (limit 2, ceiling 3, parent keeps 1); a turn with a provider call in it and a rival of that call; 2 services; 1 host request, 1 cancellation, 1 fault or crash | 3.3M states. Solvency, replay, one call at most, holds settled |
| `workflow` | 5 nodes: a task, its check and approval beside a Map of up to 2 children and its join; 2 callers, 3 calls, 1 fault, 1 `cancel`, 1 crash | 449k states. Legal history, work once and on record, true answers, calls settle |
| `promotion` | 2 services, 2 patches, 3 approval operations (two race for one review), 2 append attempts, 3 calls, 1 move of the ref by others, 1 fault or crash, three initial ledgers | 136k states. True records and answers, approved moves, what landed is recorded |
| `session_turn_cancel`, `tool_batch_single` | smallest | findings, section 5 |

What the less obvious properties say:

* `AnswersAreTrue` (store): receipts are durable, refused calls wrote nothing.
* `HistoryStaysLegal`: a rule of `CoreInvariantChecker` is broken only for one of three
  causes, each of which breaks its own rules and no others: a turn opened over an open
  one, a call left unanswered (a store fault, or a plain cancellation while the
  calls are written), a plain cancellation that met a durable result. As long as no rule
  is broken the owner is never refused its permit; after the last of the three every
  later permit is refused. `RecoveryRepairs`: a finished recovery leaves nothing
  unfinished, and of the broken rules only those no append can mend, the
  second result of such a call among them. `EndsAreTrue`: attempts and turns.
* `DispatchOnRecord`: a tool starts once, after its call, admission, intent and
  dispatch are durable, and nothing starts behind a cancellation.
  `EveryCallAnswered`: each call, in order, and as the ledger says.
* `RunsOnceInOrder`: turns in the order of the inbox, one at a time, once; the
  delivery stream stays one the projector accepts.
* `ActivationsAreOwned`: an installed child has an installed owner nobody is
  stopping, and an activation nobody received is being compensated.
  `DisposalIsComplete`: a cleanup runs beside no construction, and what is gone
  stays gone.
* `HoldsAreSettled`: reserved and delegated amounts are the sums of what is open,
  and whoever returns leaves no hold behind.
* `WorkIsOnRecord`, `NothingFollowsAnOrphan`: the work of a node begins once, over
  all crashes, on durable ground; a node that was started and is worked on by
  nobody freezes its run.
* `RecordsAreTrue`, `LandedIsRecorded`: the two directions between the ref and the
  promotion ledger.

Why the bounds are enough. The proofs (section 6) cover all bounds for the safety properties they name; the runs
keep those properties honest, and cover the rest. A batch of two can be torn and
an empty one is a case of its own in the code. Two turns show what one leaves to
the next, two steps and attempts have a first and a last of each. The four calls
have every neighbourhood: write before read, read beside read, read before
write. Two messages have an order, two processes a race. Four calls of the supervisor
let a create, its cancellation, a resume and a disposal, or two disposals and a close,
overlap in every order; a deeper tree adds longer lineages, which admission treats
as sets. The limits of the two accounts are such that hold,
grant and raised limit compete for the last unit. The workflow has a node of each
kind, a chain through a barrier and a Map joined beside it. Two patches on one revision
compete for the ref, and two operations for one approval. One cancellation, one fault
and one crash combine in all orders; what two of the same kind add is covered where
the code treats the second differently, because a finalizer absorbs it (it is not
interruptible in the model either). Processes are symmetric in `agent_delivery`, where no
liveness is checked. Deadlock checking is off in
runs whose system may rest: everything asked is done and the budget of troubles is
spent.

## 4. Fairness

* `EventStore!Fairness`: workers end (the busy timeout bounds the wait for the
  write lock) and the event loop resumes whoever they complete.
* `SessionTurn!FairSpec`: one weak fairness over the steps of a started turn. The
  awaits it stands at are answered: provider, tools and verifier run under
  timeouts, appends converge. Starting turns, recoveries and troubles are not fair.
* `ToolBatch!FairSpec`: the owner, and each dispatch, go on; tools run under
  `asyncio.timeout`.
* `AgentDelivery!FairSpec`: per process, its worker and disposal go on, and a turn
  ends (the run `session_turn_live`). Senders are not fair.
* `SupervisorLifecycle!FairSpec`: each caller's call, each kind of task of each
  agent, and the close go on: the event loop runs every task that is ready,
  factories and cleanups end, and the lifecycle condition wakes those it admits.
  Calling, cancelling and faulting are not fair.
* `Workflow!FairSpec`: the run's task, each node task, and the close: the store
  answers, agents report or fail within their budgets, reviews run under timeouts.
  Approvals, calls and troubles are not fair, so a run may rest at its barrier.
* `Promotion!FairSpec`: one weak fairness over the steps of the tasks, one over the
  closing: git commands have timeouts, verifiers and the store answer. Only a lost
  race for the ledger can undo a step, and tries are bounded.
* `BudgetLedger` is checked for safety only.

Weak fairness suffices throughout: no step of an owner is disabled again by
someone else forever.

## 5. Where the code and its documents disagree

The first two are runs that find the violation; the others are kept in the models
of the passing runs, whose properties state around them by name.

1. **A cancellation at the TURN_STARTED hook leaves the turn open**
   (`session_turn_cancel`). `turn/start` is durable at agent_loop.py:166 and the
   try block begins at 186. ADR-002 lines 9-11 promise that the loop closes what
   is open on cancellation. The next turn of a supervised agent then opens inside
   the open one, and the permit check refuses its attempts until a recovery.
2. **Two results for one call** (`tool_batch_single`). A cancellation that meets
   the append of a `tool/result` leaves it durable but not in `results`; the
   finalizer answers the call again. `docs/event-protocol.md:136`: "Each Tool Call
   receives at most one model-visible result." It takes one cancellation and no fault,
   and the session does not get over it: the checker reports the history for good,
   `start_model_attempt` refuses every later permit, and recovery can only append.
   `HistoryStaysLegal` and `RecoveryRepairs` state it as their exception.
3. **A tool that ran is reported as aborted before dispatch.** The append of the
   outcome of a tool that returned (tools/runtime.py:781) is outside the block that
   owns a cancelled outcome. ADR-0027 lines 163-166 say the append cannot be
   detached. `EveryCallAnswered` excepts it.
4. **Losing a race for a message can fault the worker.** `_drain` reads the inbox
   and then the delivery stream; a message accepted and claimed elsewhere in
   between is unknown to the projector, and the exception it raises is not the
   conflict the code treats as ordinary ("worker-failed"). The comments at
   supervisor.py:376-377 and 400-401 and `tests/test_agent_supervisor.py:335` say
   otherwise. `WorkSettles` speaks of workers without a fault.
5. **A turn that disposes of its child can wait for its own disposal.** A turn of P
   that calls `dispose(child)`, or waits as a cancelled `create` for its
   compensation, after `aclose()` or `dispose(P)` began and before the child's
   cleanup was allocated, awaits the close or subtree task; that task awaits P's
   worker, and the turn's wait absorbs the cancellation. Neither returns. The comment
   at supervisor.py:1098-1103 and ADR-0022 sections 2 and 4 mean to exclude it;
   `tests/test_agent_lifecycle.py:159` covers the case in which the cleanup exists.
   `DisposalsReturn` excepts `TurnAwaitsDisposal`; `DisposalConverges` is the same
   property without the exception, which TLC refutes under the same configuration.
6. **An overage can leave its hold started.** `_BudgetedLlmAccounting.finish` reads
   the balance after an overage before it settles, unshielded: a cancellation or a
   failure of that read leaves the hold open with no process dead. ADR-0027 lines 192
   and 266-269 say only a crash does. `HoldsAreSettled` excepts the state "cut".
7. **A start may be taken for one's own.** A failed append of a START whose
   reconciling read finds the identical START of another executor is counted as
   written, and that executor settles the rival's hold in full.
   `_start_reserved_usage` says it was started by nobody else. ADR-0027:264 excludes
   racing processes; `CallsAreFunded` names the case, and still at most one call is
   made.
8. **More than one kind of interrupted run is continued.** ADR-0031 section 7 and
   the docstring of workflow/service.py: "Exactly one interrupted run may be
   continued: one that stopped cleanly at a human Approval barrier". `_require_continuable`
   also admits a run cut between two rounds, and one whose failed node is recorded
   but whose terminal was lost; a resume then runs other ready nodes first, or
   supplies the terminal (section 8 says a failure is never continued). What matters
   holds all the same: nothing is added behind an orphan.
9. **An old approval can be applied again.** ADR-0030 section 7 and the comment at
   promotion/service.py:515-517 treat a ref that fell back as drift. A promotion that
   landed, was recorded by another service or by none (crash), and was then reverted
   by somebody is applied again by the next `promote`: the compare-and-swap cannot
   tell the expected old revision from the same revision reached again. The records
   stay true. By design, a promotion on top of which somebody pushed before the ref
   was read again is answered "drift" and never recorded; `LandedIsRecorded` excepts
   moves by others.

## 6. What is proved

Theorems hold for every value of the constants that satisfies the module's one named
assumption, and are checked to the last leaf by `tlapm`. The assumptions only type
the constants and say what the code's configuration guarantees (callers have a
store, kids have a parent, the graph of a workflow has no cycle (`_require_acyclic`,
`workflow/models.py`), every request has an operation that approves it,
an agent has at most one owner and none above it that it owns itself).
Records, streams and sets of facts stay behind local names in the proofs (`DEFINE`,
`HIDE`) and a step that touches one variable is stated as such, so that each leaf is a
small obligation, proved in seconds and not near the provers' time limits.

### The store (`EventStoreProofs`)

* `TypeCorrect`: `Spec => []TypeOK`.
* `OwnershipHolds`: the inductive invariant `Ownership`, of which `ReceiptsHold`,
  `RefusalsHold` and their conjunction `AnswersHold` are consequences. Receipts
  alone are not inductive: nothing in them says that a worker about to hand back a
  receipt wrote what it says, or that no other worker may write under the same id.
  `Ownership` adds that a worker belongs to the call its caller is waiting for
  (`WorkOwned`), that ids are used once (`IdsUnique`, `RowsOld`, `Fresh`), that a
  worker that ended "ok" has its rows in the table (`WorkDurable`) and one that is
  pending or failed has none (`WorkSilent`). One lemma per action preserves it.
* `HistoryHolds`: sequence numbers of a stream are exactly 1 .. head, each once.
  Only `Commit` matters, and there the guard `head = expected` makes the new rows
  the next interval.
* `AppendOnlyHolds`: no step rewrites, removes or reorders a row; by `HistoryHolds`
  and the same guard.
* `ClosedHolds`: with the strengthening `ClosingAwaits` (a closing store awaits every
  worker it still has pending), a closed store has no worker.
* `BatchesHold`: only a commit adds rows, it adds all of one batch, at
  neighbouring sequence numbers, and no row ever leaves.
* `Refinement`: the store implements `AppendLog`. A stream is `Gapless`, so its log is
  a sequence of the length of its head (`IdLogOfRows`); the rows of a commit extend
  it by the batch (`IdLogAppend`, `CommitAppends`); the call's id is not in any log,
  because a pending worker has no rows (`WorkSilent`, `NotYetWritten`); every other
  step leaves both tables alone.

`HistoryHolds`, `AppendOnlyHolds`, `BatchesHold`, `ReceiptsHold` and `RefusalsHold`
state more than a run checks by name; the refinement and `AnswersAreTrue` check
their sum on the instance.

### The budget ledger (`BudgetLedgerProofs`)

`BooksHold` proves the inductive invariant from which `SolventHolds`,
`LedgerReplaysHolds` and `CallsAreFundedHolds` follow. Its core: a service
validates an operation against the ledger it loaded and appends only at that head,
so as long as its operation is `fresh`, what was validated (`Demanded`) still holds
of the ledger as it is. Every step is then either `Recording`, which applies
one fact whose demands hold, or `Quiet`, which leaves the books alone. Around it: a
child's grant is released only by the saga, after the supervisor has converged with
no agent in the Directory; an execution makes its call only after an append of its
own START, and there is one START for each hold.

`TypeHolds` and `HoldsHold` go on from there: no amount becomes negative, what an
account has reserved and delegated is the sum over its open holds and its kids, and
nobody returns and leaves a hold open unless something failed. The model writes such a
sum as the cardinality of a set with one element for each unit (`Units`), which the
prover can reason about where a recursive sum it cannot. `Sums` says that the sets are
finite and the amounts their sizes: a member comes, leaves or grows, and so does the
set (`UnitsOneMore`, `UnitsOneLess`, `UnitsGrow`). That a fact moves the member it
should takes `Told`: the status of a hold or reservation is the one its facts tell, so
nothing is held or reserved twice, and a limit was only ever raised for an agent that
exists, so that the release of a grant - which comes when the agent does not - takes
back what the reservation put in. `Kept` is the second half: a pending hold has an
execution on its way to start or drop it, a started one an execution that will
settle it with no more than it holds (`WantsFit`), a pending reservation the `create()`
that made it. It is inductive because an execution is turned away, or finds its fact on
record already, only when its hold is no longer open (`TendersBegin`,
`TendersConflict`).

### Workflow (`WorkflowProofs`)

`InvHolds` proves the inductive invariant `Inv`, of which `TypeHolds`, `HistoryHolds`,
`AnswersHold`, `WorkHolds` and `OrphansHold` - all the safety properties of the run - are
consequences. None of them is inductive: that a fact is one the stream expects depends on
what the task found at an earlier await. `Inv` says what it may still rely on there.
`Legal` is about the stream alone: what waits for an approval is running and no Map,
children belong to an expansion on record, a completed Map has one. `Place` says what
the task knows at each await, above all that every running node waits for an approval
until the next round is begun; `Round` relates the units of a round to their nodes and
to the outcomes not yet recorded (`Unrecorded`); `Tasks` keeps node tasks inside their
round, so that every path that lets the callers go finds none at work (while they are
awaited, those that are not in `todo` any more are done); `Untouched`
ties the count of begun work to the start facts. The lemmas `BeginFits` ...
`EndFits` show for each phase that the fact it appends is expected and leaves a legal stream
(`DueFits`), which covers an append that succeeds, one that fails after it landed and
one that is cancelled. That a finished run may say "completed" is `NothingLeft`: of the
nodes still pending, one of minimal rank builds on none of the others, so it would
be ready. This is the only use of the graph having no cycle.

### Promotion (`PromotionProofs`)

`InvHolds` proves the inductive invariant `Inv`; `TypeHolds`, `RecordsHold`,
`AnswersHold` and, as an action property, `MovesHold` follow. `RecordsAreTrue` is not
inductive: a task that is about to record a promotion must know that the ref was seen
at its commit. `Inv` adds `Tasks`: what each task found out - a review that passed,
an approval, a sighting of the ref - is never taken back, and an append that is
still fresh meets the ledger it was decided from, which therefore takes the fact
(`Founded`). `Sightings` says the converse for the ref: whenever it stands at the
commit of an approved review, that was seen, so the equal comparison of `Reread` or
`Reobserve` is proof enough to record; and a git child that outlived its process
swaps for an approved review. `TriesLeft` bounds the tries of a task, `Books` says the ledger
replays. `Writes` (a fresh append), `Moves` (every step that writes nothing) and
`Swapped` (the swap of the ref) carry the case analysis.

### Tools (`ToolBatchProofs`)

`InvHolds` proves the inductive invariant `Inv`; `WritesHold` and `DispatchHolds` follow,
the latter as an action property beside an invariant. That a write runs alone needs to
know that nothing before it is still owed an answer: `Progress` says that everything
before `index` is answered, about to be (`Told`), or in the group, which is a run of
neighbours that ends there, and that nothing from `index` on has been touched; `Alone`
is the consequence that outlives a batch that raised. `Backed` says, for each place a
dispatch can stand at, which of its facts are durable. `Reached` says that a
cancellation is on its way to every dispatch under way, so that without a store
fault none starts a tool once the batch has gone on; with one, a sibling of
the dispatch that raised may, which is why the property excepts it.

`AnswersHold` proves a second invariant on top of it, `Answers`, from which `TypeHolds`
and `EveryCallHolds` follow. `EveryCallAnswered` is about two things. Which calls are
answered, and in which order (`Order`): at every moment they are 1 .. k for some k, and
what is about to be appended answers k + 1, k + 2, ... up to the end of the group or the
batch (`Due`). The one exception is that `recorded`, which `execute_batch()` believes,
may be one behind the stream: a cancellation interrupted an append that landed, and
the finalizer answers that call again (the finding about `SingleResult`). And whether
an answer is true (`Truth`): it says what the ledger says (`LedgerSays`), and where the
outcome is unknown the call left an outcome or a reconciliation, or no intent
(`Explained`). This must hold when the ledger is read, still hold when the fact is
appended, and ever after: a step may only speak of calls whose dispatch is under way
(`Steady`), and a call that is answered has none, unless it is a read that a fault
detached from its group. What the ledger and a dispatch say of a call (`Ledger`) is what
makes the reading true: a call that was refused or not yet dispatched has no trace in
the ledger, a dispatch that is done has its outcome there, and a call that does not
run in parallel never gets two different ones.

### Delivery (`AgentDeliveryProofs`)

`InvHolds` proves the inductive invariant `Inv`; `TypeHolds`, `RunsHold` and `ClaimsHold`
follow. The stream is `Alternating`: position 2k - 1 claims message k, and 2k settles
it, for the same process. With that the projector's sets are intervals (`ClaimedIs`,
`SettledIs`), it accepts every prefix (`AcceptedIs`), and the message it would deliver
next is told by the length alone (`NextUnclaimedIs`). That is why the compare-and-swap,
which compares nothing but a length, is enough: a worker that decided on message m saw a
stream of 2m - 2 facts, so an append at the length it saw can only be the claim that
fits (`Fitting`, `Extends`). `Place` says what each worker knows where it stands: one
that is claiming, the length it saw; one that holds a claim, that its claim is the
last fact of the stream, which no other process can add to until it is settled
(`OtherPlace`), because whoever claims needs an even length and whoever settles
must be the claimant. `Started` ties the turns that were started to the stream, `Owed`
the claim at its end to its worker. `Releases` finds every way a worker lets go of a claim:
only a disposal, and only before the turn.

### Turn and recovery (`SessionTurnProofs`)

`InvHolds` proves the inductive invariant `Inv`; `TypeHolds`, `OwnerHolds`,
`HistoryHolds`, `RecoveryHolds` and `EndsHold` - all the safety properties of the run -
follow. `Sound` is what the stream is whoever wrote it: what ended had begun, what is
open has not ended, and no name of a turn, step or attempt lies behind the owner's
counters (`NoLater`), so that the next one it forms is fresh. `InTurn`, `InStep` and
`Locals` say what the owner may rely on at each await: its turn is the open one, nothing
of it is open but this step and this attempt, and the attempts of the step so far are
numbered 1, 2, ... without a gap. The last is what makes the permit come out right
(`HistoryHolds`): `start_model_attempt` counts attempts, the loop carries an ordinal.
`Plans` is about the cancel finalizer, the exception handler and recovery, which
compute what to close and then append it one event at a time, with a crash possible
between any two: the plan is `Ordered` (attempts and calls, then the step, then the
turn), each of its events is still `Due`, and it covers what is open. A result that is
due may only have a predecessor where a cancellation met it. `FailPlanIs`,
`CancelPlanIs` and `RecoveryPlanIs` show this of the plan each of them begins with,
`CloseNextKeeps` of what is left of it after an event. `Legal` says which rules can be
broken at all (`Known`): those of `Overlaps` once a turn was opened over an open one, and
single-tool-result once a cancellation met a durable result; and that a step is closed
over a call without its result only where `loose` says why. What is left to show of `HistoryStaysLegal` is that nothing breaks another rule, however
turns, recoveries and crashes overlap. In particular single-open-attempt never breaks:
as long as no turn overlaps another (`OneTurn`), what is open is `Nested`, and with one
broken rule no permit is granted, so no attempt is started at all.
`NothingToRepair` is why a second recovery appends nothing.

### Supervisor (`SupervisorLifecycleProofs`)

`InvHolds` proves the inductive invariant `Inv` for any forest of agents;
`TypeHolds`, `OwnedHolds` and `DisposalHolds` follow: all the safety properties of the
run, of which the run shows a tree of two. What the properties rest on is that a
disposal which waited for the admissions of its scope may take the registries for all
there is. `Shared` gives every creation and build under way an admitted call behind it
(`Behind`): a creation has its waiters, or its compensation, and a build a caller or a
creation. `Fences` and `Closes` say that a scope past its quiescence has no admission
inside, and one lemma (`Enters`) that `Admit` is the only way in, which both of them
bar. `Cleanups` says that a cleanup has a disposal or the close in charge of it
(`Cleaner`), which does not let go before it is over, and that nothing below its agent is
installed any more. Together: while anybody is at work on an agent, nothing at or above
it is cleaned, and no quiescent disposal has it in its subtree (`Working`). From there
`OwnedKept` - an activation is installed only below live owners, and torn down only
after what it owns - and `AffectedStays`: after the second directory read nothing more is
committed in the subtree, so what was to be cleaned is what is there. `Keeps` is about
creations that nobody received: an activation nobody keeps belongs to one that
succeeded and still has waiters or a compensation, whose disposal removes it unless
something failed.

### Only model-checked

All liveness (`CallsReturn`, `OwnerReturns`, `BatchReturns`, `WorkSettles`,
`DisposalsReturn`, `RunsSettle`, `LandedIsRecorded`), which is beyond the prover. Every
invariant and action property of a passing run is a theorem.

## 7. Not modelled, and the plan

Left out of the modules above: payloads, JSON, schema validation and digests;
prompt building, context and streaming events; the in-memory store (same
contract, no threads); workspace observation around tools; message identity;
of budget enforcement the process slots, the continuation runtime and step
accounting; of the workflow the retry after a lost race, because ADR-0031 excludes
two hosts driving one run (with two, identical NODE_STARTED facts would count as
committed and nodes would run twice). User interfaces, provider HTTP, Docker,
subprocess pipelines and plugin discovery are I/O around the core and stay out.
Evolution and evaluation are sequential pipelines over subprocesses and files.

What is left of the plan, in order:

1. `CompositionLeases`: publish, acquire, release, retire, drain; cleanup once and
   only after the last lease.
2. `DispatchPermit`: two owners of one session over `start_model_attempt`; and the
   composition of a turn with its delivery (a turn durably completed whose claim is
   recorded as cancelled).
3. `Workspaces` and `Artifacts`: durable facts beside the worktree or file they
   describe.
4. Compaction and the request surface: closed-prefix cuts over the history.

Known behaviours without a property: a disposal, or a failed read, right after a
claim committed leaves the claim open and blocks the agent's inbox in every
process (`ClaimsAreSettled` names it as its exception); `wait_idle()` returns while
another process holds the open claim in front of the caller's message
(`WorkSettles` excepts `blocked`); two owners of one session racing for the permit of a
provider call; the view a workflow call returns is computed before the last recheck of
its approvals.
