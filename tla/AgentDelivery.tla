--------------------------- MODULE AgentDelivery ---------------------------
(***************************************************************************)
(* The messages of one agent, from acceptance to the end of the turn that  *)
(* ran them: the inbox and the delivery stream in the shared event store,  *)
(* and in each process one supervisor with at most one _Activation, whose  *)
(* worker drains the inbox by claiming the next message, running its turn  *)
(* and recording how it ended.  Processes share nothing but the store.     *)
(*                                                                         *)
(* Store reads and appends are single steps; everything a worker does      *)
(* between two of them can meet a change by another process.  Sending is   *)
(* one step, because a lost compare-and-swap on the inbox writes nothing.  *)
(***************************************************************************)
EXTENDS Naturals, Sequences, FiniteSets

CONSTANTS
    Process,        \* processes with a supervisor for the agent
    MaxMessages,    \* bound: messages accepted
    MaxFaults,      \* bound: store calls that fail
    MaxInterrupts,  \* bound: interrupt() calls that meet a turn
    MaxStops        \* bound: disposals and crashes

ASSUME AgentDeliveryAssumption ==
    {MaxMessages, MaxFaults, MaxInterrupts, MaxStops} \subseteq Nat

VARIABLES
    inbox,     \* inbox stream: the target of each accepted message
    delivery,  \* delivery stream: claims and terminal facts
    pc,        \* where the worker of each process is
    view,      \* lengths of inbox and delivery its decision rests on
    message,   \* the message it decided to deliver
    result,    \* how its turn ended, while that is being recorded
    wake,      \* _wake
    idle,      \* _idle
    fault,     \* _fault
    stopping,  \* _stopping
    dying,     \* what became of the cancellation of the worker task
    calling,   \* a send() or resume() of the process has yet to wake
    asked,     \* history: length of the inbox at the last request_wake()
    blocked,   \* history: the last drain ended at an open claim
    ran,       \* history: messages whose turn was started, in order
    budget     \* history: faults, interrupts and stops so far

streams    == <<inbox, delivery>>
decision   == <<view, message, result>>
signals    == <<wake, idle, fault, stopping, dying>>
history    == <<asked, blocked, ran>>
vars       == <<streams, pc, decision, signals, calling, history, budget>>

Message == 1 .. MaxMessages
Terminal == {"completed", "failed", "cancelled"}
Fact(t, m, p) == [type |-> t, message |-> m, by |-> p]

Reading   == {"inbox", "delivery"}
Claiming  == {"claim inbox", "claim delivery", "claim append", "confirm"}
Settling  == {"settle inbox", "settle delivery", "settle append"}
Alive     == {"waiting", "running", "drained"} \cup Reading \cup Claiming \cup Settling

(* The streams and the workers' records keep their shapes: a worker never  *)
(* holds a view longer than the stream it read.                            *)
TypeOK ==
    /\ inbox \in Seq({"new-turn", "next-step"}) /\ Len(inbox) <= MaxMessages
    /\ delivery \in Seq([type : Terminal \cup {"claimed"}, message : Message, by : Process])
    /\ pc \in [Process -> Alive \cup {"over", "off"}]
    /\ view \in [Process -> [inbox : 0 .. Len(inbox), delivery : 0 .. Len(delivery)]]
    /\ message \in [Process -> 0 .. Len(inbox)]
    /\ result \in [Process -> Terminal]
    /\ fault \in [Process -> {"none", "worker-failed", "claim-append-failed",
                              "claim-not-durable", "terminal-not-durable"}]
    /\ {wake, idle, stopping, calling, blocked} \subseteq [Process -> BOOLEAN]
    /\ dying \in [Process -> {"no", "raised", "absorbed"}]
    /\ asked \in [Process -> 0 .. Len(inbox)]
    /\ ran \in Seq(Message)
    /\ budget \in [faults : 0 .. MaxFaults, interrupts : 0 .. MaxInterrupts,
                   disposals : 0 .. MaxStops, crashes : 0 .. MaxStops]
    /\ \A p \in Process : pc[p] \in Settling \cup {"running"} => message[p] # 0

-----------------------------------------------------------------------------
(* The projector: what a delivery stream d says beside an inbox of n.      *)
Claimed(d)   == {d[i].message : i \in {j \in DOMAIN d : d[j].type = "claimed"}}
Settled(d)   == {d[i].message : i \in {j \in DOMAIN d : d[j].type \in Terminal}}
OpenClaim(d) == Claimed(d) \ Settled(d)

(* next_unclaimed(): at most one message, and none behind an open claim.   *)
NextUnclaimed(d, n) ==
    {m \in (1 .. n) \ Claimed(d) : \A k \in 1 .. m - 1 : k \in Settled(d)}

(* rebuild() accepts d: every event of it is one _scan() finds no issue in.*)
Accepted(d, n) ==
    \A i \in DOMAIN d :
       LET before == SubSeq(d, 1, i - 1)
           m      == d[i].message
       IN  IF d[i].type = "claimed"
           THEN /\ m <= n
                /\ m \notin Claimed(before)
                /\ \A k \in 1 .. m - 1 : k \in Settled(before)
           ELSE /\ Fact("claimed", m, d[i].by) \in {before[j] : j \in DOMAIN before}
                /\ m \notin Settled(before)

-----------------------------------------------------------------------------
Init ==
    /\ inbox = <<>> /\ delivery = <<>>
    /\ pc = [p \in Process |-> "off"]
    /\ view = [p \in Process |-> [inbox |-> 0, delivery |-> 0]]
    /\ message = [p \in Process |-> 0]
    /\ result = [p \in Process |-> "failed"]
    /\ wake = [p \in Process |-> FALSE]
    /\ idle = [p \in Process |-> TRUE]
    /\ fault = [p \in Process |-> "none"]
    /\ stopping = [p \in Process |-> FALSE]
    /\ dying = [p \in Process |-> "no"]
    /\ calling = [p \in Process |-> FALSE]
    /\ asked = [p \in Process |-> 0]
    /\ blocked = [p \in Process |-> FALSE]
    /\ ran = <<>>
    /\ budget = [faults |-> 0, interrupts |-> 0, disposals |-> 0, crashes |-> 0]

(* send(): accepted durably, then, with wakeup, the activation is woken.   *)
(* A sender that dies in between has sent without wakeup.  New admissions  *)
(* wait while the activation is being disposed.                            *)
Send(p) ==
    /\ Len(inbox) < MaxMessages
    /\ \E target \in {"new-turn", "next-step"} : inbox' = Append(inbox, target)
    /\ \/ UNCHANGED calling
       \/ ~stopping[p] /\ ~calling[p] /\ calling' = [calling EXCEPT ![p] = TRUE]
    /\ UNCHANGED <<delivery, pc, decision, signals, history, budget>>

Resume(p) ==
    /\ pc[p] = "off" /\ ~calling[p]
    /\ calling' = [calling EXCEPT ![p] = TRUE]
    /\ UNCHANGED <<streams, pc, decision, signals, history, budget>>

(* _activate() builds the activation the process does not have.            *)
Activate(p) ==
    /\ calling[p] /\ pc[p] = "off"
    /\ pc' = [pc EXCEPT ![p] = "waiting"]
    /\ UNCHANGED <<streams, decision, signals, calling, history, budget>>

(* request_wake(), one critical section under _state_lock; refused when    *)
(* the activation has faulted.                                             *)
RequestWake(p) ==
    /\ calling[p] /\ pc[p] # "off"
    /\ calling' = [calling EXCEPT ![p] = FALSE]
    /\ IF fault[p] = "none"
       THEN /\ wake' = [wake EXCEPT ![p] = TRUE]
            /\ idle' = [idle EXCEPT ![p] = FALSE]
            /\ asked' = [asked EXCEPT ![p] = Len(inbox)]
       ELSE UNCHANGED <<wake, idle, asked>>
    /\ UNCHANGED <<streams, pc, decision, fault, stopping, dying, blocked, ran, budget>>

-----------------------------------------------------------------------------
Go(p, where) == pc' = [pc EXCEPT ![p] = where]

SetFault(p, code) ==
    fault' = [fault EXCEPT ![p] = IF fault[p] = "none" THEN code ELSE fault[p]]

(* What _drain() and _deliver() held in local variables is gone.           *)
Forget(p) ==
    /\ view' = [view EXCEPT ![p] = [inbox |-> 0, delivery |-> 0]]
    /\ message' = [message EXCEPT ![p] = 0]
    /\ result' = [result EXCEPT ![p] = "failed"]

(* The worker task is over; its finally releases wait_idle().              *)
WorkerOver(p) ==
    /\ Go(p, "over")
    /\ Forget(p)
    /\ idle' = [idle EXCEPT ![p] = TRUE]

WorkerFailed(p) ==
    /\ SetFault(p, "worker-failed")
    /\ WorkerOver(p)
    /\ UNCHANGED <<streams, wake, stopping, dying, calling, history>>

(* _run(): the wake is cleared before draining.                            *)
TakeWake(p) ==
    /\ pc[p] = "waiting" /\ wake[p]
    /\ IF stopping[p]
       THEN WorkerOver(p) /\ UNCHANGED wake
       ELSE /\ Go(p, "inbox")
            /\ wake' = [wake EXCEPT ![p] = FALSE]
            /\ UNCHANGED <<decision, idle>>
    /\ UNCHANGED <<streams, fault, stopping, dying, calling, history, budget>>

(* Wrong: counts one message more than the inbox holds.                    *)
LoadInboxAhead(p) ==
    /\ pc[p] = "inbox"
    /\ IF stopping[p] \/ fault[p] # "none"
       THEN Go(p, "drained") /\ UNCHANGED view
       ELSE Go(p, "delivery") /\ view' = [view EXCEPT ![p].inbox = Len(inbox) + 1]
    /\ UNCHANGED <<streams, message, result, signals, calling, history, budget>>

(* _drain(): the inbox first, then the delivery stream beside it.          *)
LoadInbox(p) ==
    /\ pc[p] = "inbox"
    /\ IF stopping[p] \/ fault[p] # "none"
       THEN Go(p, "drained") /\ UNCHANGED view
       ELSE Go(p, "delivery") /\ view' = [view EXCEPT ![p].inbox = Len(inbox)]
    /\ UNCHANGED <<streams, message, result, signals, calling, history, budget>>

LoadDelivery(p) ==
    /\ pc[p] = "delivery"
    /\ LET next == NextUnclaimed(delivery, view[p].inbox) IN
          IF ~Accepted(delivery, view[p].inbox) THEN WorkerFailed(p)
          ELSE /\ IF next = {}
                  THEN Go(p, "drained") /\ Forget(p)
                  ELSE /\ Go(p, "claim inbox")
                       /\ message' = [message EXCEPT ![p] = CHOOSE m \in next : TRUE]
                       /\ view' = [view EXCEPT ![p].delivery = Len(delivery)]
                       /\ UNCHANGED result
               /\ blocked' = [blocked EXCEPT ![p] = next = {} /\ OpenClaim(delivery) # {}]
               /\ UNCHANGED <<streams, signals, calling, asked, ran>>
    /\ UNCHANGED budget

(* Wrong: forgets a wake that arrived while it was draining.               *)
DrainedForgetful(p) ==
    /\ pc[p] = "drained"
    /\ idle' = [idle EXCEPT ![p] = TRUE]
    /\ wake' = [wake EXCEPT ![p] = FALSE]
    /\ Go(p, "waiting")
    /\ UNCHANGED <<streams, decision, fault, stopping, dying, calling, history, budget>>

(* _run() again: idle only if no wake arrived meanwhile.                   *)
Drained(p) ==
    /\ pc[p] = "drained"
    /\ idle' = [idle EXCEPT ![p] = ~wake[p] \/ idle[p]]
    /\ Go(p, "waiting")
    /\ UNCHANGED <<streams, decision, wake, fault, stopping, dying, calling, history, budget>>

-----------------------------------------------------------------------------
(* AgentDeliveryService.claim(): both streams again, the head the caller   *)
(* decided from, the append against that head, and the read that proves it.*)
Retry(p) ==
    /\ Go(p, "inbox")
    /\ Forget(p)
    /\ UNCHANGED <<streams, signals, calling, history>>

ClaimInbox(p) ==
    /\ pc[p] = "claim inbox"
    /\ view' = [view EXCEPT ![p].inbox = Len(inbox)]
    /\ Go(p, "claim delivery")
    /\ UNCHANGED <<streams, message, result, signals, calling, history, budget>>

ClaimDelivery(p) ==
    /\ pc[p] = "claim delivery"
    /\ IF ~Accepted(delivery, view[p].inbox) THEN WorkerFailed(p)
       ELSE IF Len(delivery) # view[p].delivery
       THEN Retry(p)
       ELSE IF NextUnclaimed(delivery, view[p].inbox) # {message[p]} THEN WorkerFailed(p)
       ELSE /\ Go(p, "claim append")
            /\ UNCHANGED <<streams, decision, signals, calling, history>>
    /\ UNCHANGED budget

ClaimAppend(p) ==
    /\ pc[p] = "claim append"
    /\ IF Len(delivery) = view[p].delivery
       THEN /\ delivery' = Append(delivery, Fact("claimed", message[p], p))
            /\ Go(p, "confirm")
            /\ UNCHANGED <<inbox, decision, signals, calling, history>>
       ELSE Retry(p)
    /\ UNCHANGED budget

(* The claim is proved: its turn runs, or the message cannot be delivered. *)
Confirm(p) ==
    /\ pc[p] = "confirm"
    /\ IF ~Accepted(delivery, view[p].inbox) THEN WorkerFailed(p)
       ELSE /\ IF inbox[message[p]] = "new-turn"
               THEN /\ Go(p, "running")
                    /\ ran' = Append(ran, message[p])
                    /\ UNCHANGED result
               ELSE /\ Go(p, "settle inbox")
                    /\ result' = [result EXCEPT ![p] = "failed"]
                    /\ UNCHANGED ran
            /\ view' = [view EXCEPT ![p] = [inbox |-> 0, delivery |-> 0]]
            /\ UNCHANGED <<streams, message, signals, calling, asked, blocked>>
    /\ UNCHANGED budget

(* run_turn() returned, raised, or was cancelled by interrupt().           *)
TurnEnds(p) ==
    /\ pc[p] = "running"
    /\ \E r \in {"completed", "failed"} : result' = [result EXCEPT ![p] = r]
    /\ Go(p, "settle inbox")
    /\ UNCHANGED <<streams, view, message, signals, calling, history, budget>>

Interrupt(p) ==
    /\ pc[p] = "running" /\ ~stopping[p]
    /\ budget.interrupts < MaxInterrupts
    /\ budget' = [budget EXCEPT !.interrupts = @ + 1]
    /\ result' = [result EXCEPT ![p] = "cancelled"]
    /\ Go(p, "settle inbox")
    /\ UNCHANGED <<streams, view, message, signals, calling, history>>

-----------------------------------------------------------------------------
(* Wrong: a cancelled worker does not wait for its terminal fact.          *)
SettleInboxUnshielded(p) ==
    /\ pc[p] = "settle inbox"
    /\ IF dying[p] = "raised" THEN WorkerOver(p)
       ELSE /\ view' = [view EXCEPT ![p].inbox = Len(inbox)]
            /\ Go(p, "settle delivery")
            /\ UNCHANGED <<message, result, idle>>
    /\ UNCHANGED <<streams, wake, fault, stopping, dying, calling, history, budget>>

(* _record_terminal(), shielded: it ends whatever happens to the worker,   *)
(* and only then is a cancellation raised.                                 *)
SettleInbox(p) ==
    /\ pc[p] = "settle inbox"
    /\ view' = [view EXCEPT ![p].inbox = Len(inbox)]
    /\ Go(p, "settle delivery")
    /\ UNCHANGED <<streams, message, result, signals, calling, history, budget>>

AfterTerminal(p, recorded) ==
    /\ IF recorded THEN UNCHANGED fault ELSE SetFault(p, "terminal-not-durable")
    /\ IF dying[p] = "raised" THEN WorkerOver(p)
       ELSE /\ Go(p, IF recorded THEN "inbox" ELSE "drained")
            /\ Forget(p)
            /\ UNCHANGED idle
    /\ UNCHANGED <<inbox, wake, stopping, dying, calling, history>>

SettleDelivery(p) ==
    /\ pc[p] = "settle delivery"
    /\ IF /\ Accepted(delivery, view[p].inbox)
          /\ Fact("claimed", message[p], p) \in {delivery[i] : i \in DOMAIN delivery}
          /\ message[p] \notin Settled(delivery)
       THEN /\ view' = [view EXCEPT ![p].delivery = Len(delivery)]
            /\ Go(p, "settle append")
            /\ UNCHANGED <<inbox, message, result, signals, calling, history>>
       ELSE AfterTerminal(p, FALSE)
    /\ UNCHANGED <<delivery, budget>>

SettleAppend(p) ==
    /\ pc[p] = "settle append"
    /\ LET current == Len(delivery) = view[p].delivery IN
          /\ delivery' = IF current
                         THEN Append(delivery, Fact(result[p], message[p], p))
                         ELSE delivery
          /\ AfterTerminal(p, current)
    /\ UNCHANGED budget

-----------------------------------------------------------------------------
(* The store fails a call.  A failed append has committed or has not, and  *)
(* the read that follows finds out, or fails as well.                      *)
Lands(p, fact) ==
    \/ UNCHANGED delivery
    \/ Len(delivery) = view[p].delivery /\ delivery' = Append(delivery, fact)

ReadFails(p) ==
    /\ pc[p] \in Reading \cup (Claiming \ {"claim append"})
    /\ WorkerFailed(p)

(* Wrong: a claim that may have landed is taken for a claim.               *)
ClaimFailsOpen(p) ==
    /\ pc[p] = "claim append"
    /\ Lands(p, Fact("claimed", message[p], p))
    /\ Go(p, "running")
    /\ ran' = Append(ran, message[p])
    /\ UNCHANGED <<inbox, decision, signals, calling, asked, blocked>>

ClaimFails(p) ==
    /\ pc[p] = "claim append"
    /\ Lands(p, Fact("claimed", message[p], p))
    /\ \E code \in {"claim-append-failed", "claim-not-durable"} : SetFault(p, code)
    /\ Go(p, "drained")
    /\ Forget(p)
    /\ UNCHANGED <<inbox, wake, idle, stopping, dying, calling, history>>

TerminalFails(p) ==
    /\ pc[p] \in Settling
    /\ IF pc[p] = "settle append"
       THEN Lands(p, Fact(result[p], message[p], p))
       ELSE UNCHANGED delivery
    /\ AfterTerminal(p, FALSE)

StoreFails(p) ==
    /\ budget.faults < MaxFaults
    /\ budget' = [budget EXCEPT !.faults = @ + 1]
    /\ ReadFails(p) \/ ClaimFails(p) \/ TerminalFails(p)

(* dispose(), which admits no sender meanwhile, and its _shutdown task.    *)
Dispose(p) ==
    /\ pc[p] # "off" /\ ~stopping[p] /\ ~calling[p]
    /\ budget.disposals + budget.crashes < MaxStops
    /\ budget' = [budget EXCEPT !.disposals = @ + 1]
    /\ stopping' = [stopping EXCEPT ![p] = TRUE]
    /\ wake' = [wake EXCEPT ![p] = TRUE]
    /\ UNCHANGED <<streams, pc, decision, idle, fault, dying, calling, history>>

(* worker.cancel(): the turn is cancelled and recorded as such, or fails   *)
(* over it; an append under way has committed or has not.                  *)
CancelWorker(p) ==
    /\ stopping[p] /\ dying[p] = "no"
    /\ \/ /\ pc[p] = "running"
          /\ \E r \in {"cancelled", "failed"} :
                /\ result' = [result EXCEPT ![p] = r]
                /\ dying' = [dying EXCEPT ![p] = IF r = "failed" THEN "absorbed" ELSE "raised"]
          /\ Go(p, "settle inbox")
          /\ UNCHANGED <<delivery, view, message, idle>>
       \/ /\ pc[p] \in Settling \cup {"over"}
          /\ dying' = [dying EXCEPT ![p] = "raised"]
          /\ UNCHANGED <<delivery, pc, decision, idle>>
       \/ /\ pc[p] \in {"waiting", "drained"} \cup Reading \cup Claiming
          /\ IF pc[p] = "claim append"
             THEN Lands(p, Fact("claimed", message[p], p))
             ELSE UNCHANGED delivery
          /\ WorkerOver(p)
          /\ dying' = [dying EXCEPT ![p] = "raised"]
    /\ UNCHANGED <<inbox, wake, fault, stopping, calling, history, budget>>

(* The process has no activation any more, or has died with it.            *)
Gone(p) ==
    /\ Go(p, "off")
    /\ Forget(p)
    /\ wake' = [wake EXCEPT ![p] = FALSE]
    /\ idle' = [idle EXCEPT ![p] = TRUE]
    /\ fault' = [fault EXCEPT ![p] = "none"]
    /\ stopping' = [stopping EXCEPT ![p] = FALSE]
    /\ dying' = [dying EXCEPT ![p] = "no"]
    /\ asked' = [asked EXCEPT ![p] = 0]
    /\ blocked' = [blocked EXCEPT ![p] = FALSE]
    /\ UNCHANGED <<streams, ran>>

Disposed(p) ==
    /\ stopping[p] /\ dying[p] # "no" /\ pc[p] = "over"
    /\ Gone(p)
    /\ UNCHANGED <<calling, budget>>

Crash(p) ==
    /\ pc[p] # "off"
    /\ budget.disposals + budget.crashes < MaxStops
    /\ budget' = [budget EXCEPT !.crashes = @ + 1]
    /\ calling' = [calling EXCEPT ![p] = FALSE]
    /\ Gone(p)

-----------------------------------------------------------------------------
Works(p) ==
    \/ Activate(p) \/ RequestWake(p)
    \/ TakeWake(p) \/ LoadInbox(p) \/ LoadDelivery(p) \/ Drained(p)
    \/ ClaimInbox(p) \/ ClaimDelivery(p) \/ ClaimAppend(p) \/ Confirm(p)
    \/ TurnEnds(p) \/ SettleInbox(p) \/ SettleDelivery(p) \/ SettleAppend(p)
    \/ CancelWorker(p) \/ Disposed(p)

Next ==
    \E p \in Process :
       \/ Send(p) \/ Resume(p)
       \/ Works(p)
       \/ Interrupt(p) \/ StoreFails(p)
       \/ Dispose(p) \/ Crash(p)

Spec == Init /\ [][Next]_vars

(* Every task of a living process gets to run, and a turn ends.            *)
FairSpec == Spec /\ \A p \in Process : WF_vars(Works(p))

-----------------------------------------------------------------------------
(* Whatever crashes, faults and races there are, a message starts at most  *)
(* one turn, messages start theirs in the order of their acceptance and on *)
(* a claim that is in the stream, and the agent's session is only ever in  *)
(* one turn: the one of the open claim, in the process that holds it; and  *)
(* the stream all processes write together is one the projector accepts.   *)
RunsOnceInOrder ==
    /\ Accepted(delivery, Len(inbox))
    /\ \A i, j \in DOMAIN ran : i < j => ran[i] < ran[j]
    /\ \A i \in DOMAIN ran : ran[i] \in Claimed(delivery)
    /\ \A p \in Process : pc[p] = "running" =>
          /\ Fact("claimed", message[p], p) \in {delivery[i] : i \in DOMAIN delivery}
          /\ OpenClaim(delivery) = {message[p]}
          /\ \A q \in Process \ {p} : pc[q] # "running"

(* A turn that was started is recorded as ended: short of a crash or a     *)
(* store failure a claim stays open only while its worker is at work on    *)
(* it, or because a disposal met the claiming, before there was a turn.    *)
ClaimsAreSettled ==
    budget.faults = 0 /\ budget.crashes = 0 =>
       \A i \in DOMAIN delivery :
          LET m == delivery[i].message
              p == delivery[i].by
          IN  m \in OpenClaim(delivery) =>
                 \/ message[p] = m /\ pc[p] \in {"confirm", "running"} \cup Settling
                 \/ m \notin {ran[j] : j \in DOMAIN ran} /\ budget.disposals > 0

(* A message whose worker was woken is settled, unless that worker faults, *)
(* stops, or finds an open claim in its way; and wait_idle() and dispose() *)
(* return.                                                                 *)
WorkSettles ==
    \A p \in Process :
       /\ \A m \in Message :
             (pc[p] # "off" /\ m <= asked[p]) ~>
                (m \in Settled(delivery) \/ blocked[p] \/ fault[p] # "none" \/ stopping[p]
                   \/ pc[p] = "off")
       /\ ~idle[p] ~> idle[p]
       /\ stopping[p] ~> pc[p] = "off"

=============================================================================
