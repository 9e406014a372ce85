------------------------- MODULE BudgetLedgerProofs -------------------------
(***************************************************************************)
(* Proofs about BudgetLedger for any agents, calls, executions, services,  *)
(* limits and bounds.                                                      *)
(***************************************************************************)
EXTENDS BudgetLedger, FiniteSetTheorems, TLAPS

OnKid     == {"reserve", "commit", "release", "decide"}
OnAccount == {"grant", "admit", "observe", "close"}
OnCall    == {"hold", "start", "settle", "drop"}

Proper(f) ==
    /\ f \in Fact
    /\ f.op \in OnKid => f.on \in Kids
    /\ f.op \in OnAccount => f.on \in Agents
    /\ f.op \in OnCall => f.on \in Calls

Loaded == {w \in [by : Clients, f : Fact, fresh : BOOLEAN] : Proper(w.f)}

(* The amounts are integers here: that none is negative takes the sums,    *)
(* below.                                                                  *)
BooksTyped ==
    /\ limit \in [Agents -> Int] /\ charged \in [Agents -> Int]
    /\ delegated \in [Agents -> Int] /\ reserved \in [Agents -> Int]
    /\ observed \in [Agents -> Nat]
    /\ res \in [Kids -> {"none", "pending", "committed", "released"}]
    /\ use \in [Calls -> [st : {"none", "pending", "started", "settled", "released"},
                          n : Nat]]

OpsTyped == op \in [Services -> Loaded \cup {Idle}]

ClientsTyped ==
    /\ pc \in [Execs -> Pcs]
    /\ want \in [Execs -> Nat]
    /\ ran \subseteq Execs
    /\ saga \in {"idle", "reserving", "creating", "finishing"}
    /\ saga # "idle" => kid \in Kids

(* What an operation has been validated for and no other client undoes     *)
(* while the stream stays where it is.                                     *)
Demanded(f) ==
    /\ f.op = "reserve" => /\ ~Exists("close", Parent[f.on])
                           /\ ~Exists("reserve", f.on)
                           /\ Fits(Parent[f.on], Limit[f.on] + Retained[f.on])
    /\ f.op \in {"commit", "release"} => res[f.on] = "pending"
    /\ f.op = "commit" => f.on \in dir
    /\ f.op = "decide" => Status(f.on) = "committed"
    /\ f.op = "decide" /\ f.n > 0 => Fits(Parent[f.on], f.n + Retained[f.on])
    /\ f.op = "admit" => Fits(f.on, f.n)
    /\ f.op = "hold" => /\ ~Exists("close", AgentOf[f.on])
                        /\ ~Exists("hold", f.on)
                        /\ Fits(AgentOf[f.on], f.n)
    /\ f.op \in {"start", "drop"} => use[f.on].st = "pending"
    /\ f.op = "settle" => use[f.on].st = "started" /\ f.n <= use[f.on].n
    /\ f.op = "close" => Closable(f.on)

LoadedIsCurrent == \A s \in Services : op[s].fresh => Demanded(op[s].f)

ClosedIsEmpty ==
    /\ \A c \in Kids : Exists("close", Parent[c]) => Status(c) # "pending"
    /\ \A u \in Calls : Exists("close", AgentOf[u]) =>
          use[u].st \notin {"pending", "started"}

Books == BooksTyped /\ OpsTyped /\ LoadedIsCurrent /\ Solvent /\ ClosedIsEmpty

(* The two kinds of step the ledger sees.                                  *)
Recording == \E s \in Services : op[s].fresh /\ Recorded(s) /\ UNCHANGED dir

Quiet ==
    /\ UNCHANGED ledger
    /\ dir \subseteq dir'
    /\ \/ op' = op
       \/ \E s \in Services : op' = [op EXCEPT ![s] = Idle]
       \/ \E s \in Services, w \in Loaded :
             Demanded(w.f) /\ op' = [op EXCEPT ![s] = w]

-----------------------------------------------------------------------------
(* What a service validates is what the accounts demand of the fact.       *)
LEMMA ValidIsDemanded ==
    ASSUME NEW f, Valid(f), ~Exists(f.op, f.on)
    PROVE  Demanded(f)
BY DEF Valid, Demanded, ChildReservable, TokensDecidable, Releasable, Open, HasAccount

(* A client only asks for facts of the right shape about its own call or   *)
(* kid.                                                                    *)
LEMMA WantedIsProper ==
    ASSUME BooksTyped, ClientsTyped, NEW c \in Asking
    PROVE  Proper(Wanted(c))
<1> USE BudgetLedgerAssumption
<1>1. CASE c = "saga"
  <2>1. saga \in {"reserving", "finishing"} /\ kid \in Kids
    BY <1>1 DEF Asking, ClientsTyped
  <2> QED
    BY <1>1, <2>1 DEF Wanted, SagaWants, Proper, Fa, Fact, Ops, OnKid, OnAccount, OnCall
<1>2. CASE c # "saga"
  <2>1. c \in Execs
    BY <1>2 DEF Asking
  <2> DEFINE u == CallOf[c]
  <2>2. u \in Calls /\ want[c] \in Nat /\ use[u].n \in Nat
    BY <2>1 DEF ClientsTyped, BooksTyped
  <2>3. \/ Wanted(c) = Fa("hold", u, want[c])
        \/ Wanted(c) = Fa("start", u, 0)
        \/ Wanted(c) = Fa("settle", u, want[c])
        \/ Wanted(c) = Fa("settle", u, use[u].n)
        \/ Wanted(c) = Fa("drop", u, 0)
    BY <1>2, <2>1 DEF Wanted, ExecWants
  <2> QED
    BY <2>2, <2>3 DEF Proper, Fa, Fact, Ops, OnKid, OnAccount, OnCall
<1> QED
  BY <1>1, <1>2

(* Whoever asks has a service, and its own name in the operation.          *)
LEMMA AskingIsClient ==
    ASSUME NEW c \in Asking
    PROVE  c \in Clients /\ SvcOf(c) \in Services
BY BudgetLedgerAssumption DEF Asking, Clients, SvcOf

(* A step that leaves the ledger alone leaves what was validated valid.    *)
LEMMA DemandsLast ==
    ASSUME UNCHANGED ledger, dir \subseteq dir', NEW f, Demanded(f)
    PROVE  Demanded(f)'
<1>1. f.op = "close" => Closable(f.on)'
  BY DEF Demanded, Closable, Open, HasAccount, Exists, Status, ledger, accounts
<1>2. f.op = "decide" => (Status(f.on) = "committed")'
  BY DEF Demanded, Status, ledger, accounts
<1> QED
  BY <1>1, <1>2 DEF Demanded, Fits, Used, Exists, ledger, accounts

-----------------------------------------------------------------------------
(* What one fact does to the books when it is appended at the head it was  *)
(* validated against.                                                      *)
LEMMA FactsGrow ==
    ASSUME NEW s \in Services, Recorded(s), NEW o, NEW x
    PROVE  Exists(o, x)' <=> Exists(o, x) \/ (op[s].f.op = o /\ op[s].f.on = x)
BY DEF Recorded, Exists

(* A valid fact leaves statuses and the links between accounts typed.      *)
LEMMA RecordingKeepsTypes ==
    ASSUME BooksTyped, NEW f, Proper(f), Demanded(f), Projected(f)
    PROVE  BooksTyped'
<1> DEFINE Hold == [st : {"none", "pending", "started", "settled", "released"}, n : Nat]
<1> USE BudgetLedgerAssumption DEF BooksTyped, Proper, Fact, OnKid, OnAccount, OnCall
<1>0. use \in [Calls -> Hold]
  OBVIOUS
<1> HIDE DEF Hold
<1>1. CASE AccountNoted(f)
  BY <1>1 DEF AccountNoted, accounts
<1>2. CASE ChildReserved(f)
  BY <1>2 DEF ChildReserved
<1>3. CASE ReservationCommitted(f)
  BY <1>3 DEF ReservationCommitted
<1>4. CASE ReservationReleased(f)
  BY <1>4 DEF ReservationReleased
<1>5. CASE ChildTokensDecided(f)
  BY <1>5 DEF ChildTokensDecided
<1>6. CASE UsageCharged(f)
  BY <1>6 DEF UsageCharged
<1>7. CASE UsageReserved(f)
  <2>1. f.on \in Calls /\ f.n \in Nat
    BY <1>7 DEF UsageReserved
  <2>2. use' \in [Calls -> Hold]
    BY <1>7, <2>1 DEF UsageReserved, Hold
  <2>3. reserved' \in [Agents -> Int]
    BY <1>7, <2>1 DEF UsageReserved
  <2> QED
    BY <1>7, <2>2, <2>3 DEF UsageReserved, Hold
<1>8. CASE UsageStarted(f)
  <2>1. f.on \in Calls
    BY <1>8 DEF UsageStarted
  <2>2. [use[f.on] EXCEPT !.st = "started"] \in Hold
    BY ONLY <2>1, <1>0 DEF Hold
  <2>3. use' = [use EXCEPT ![f.on] = [use[f.on] EXCEPT !.st = "started"]]
    BY <1>8 DEF UsageStarted
  <2>4. use' \in [Calls -> Hold]
    BY ONLY <2>2, <2>3, <1>0
  <2>5. UNCHANGED <<limit, charged, delegated, reserved, observed, res>>
    BY <1>8 DEF UsageStarted
  <2> QED
    BY ONLY BooksTyped, <2>4, <2>5 DEF BooksTyped, Hold
<1>9. CASE UsageEnded(f)
  <2> DEFINE st == IF f.op = "settle" THEN "settled" ELSE "released"
  <2>1. f.on \in Calls /\ f.n \in Nat /\ st \in {"settled", "released"}
    BY <1>9 DEF UsageEnded
  <2>2. use' = [use EXCEPT ![f.on] = [use[f.on] EXCEPT !.st = st]]
    BY <1>9 DEF UsageEnded
  <2> HIDE DEF st
  <2>3. use[f.on] \in Hold
    BY ONLY <2>1, <1>0
  <2>4. [use[f.on] EXCEPT !.st = st] \in Hold
    BY ONLY <2>1, <2>3 DEF Hold
  <2>5. use' \in [Calls -> Hold]
    BY ONLY <2>2, <2>4, <1>0
  <2>6. reserved' \in [Agents -> Int]
    BY <1>9, <2>1, <2>3 DEF UsageEnded, Hold
  <2>7. charged' \in [Agents -> Int]
    BY <1>9, <2>1 DEF UsageEnded
  <2>8. UNCHANGED <<limit, delegated, observed, res>>
    BY <1>9 DEF UsageEnded
  <2> QED
    BY ONLY BooksTyped, <2>5, <2>6, <2>7, <2>8 DEF BooksTyped, Hold
<1> QED
  BY <1>1, <1>2, <1>3, <1>4, <1>5, <1>6, <1>7, <1>8, <1>9 DEF Projected

(* A valid fact overdraws no account.                                      *)
LEMMA RecordingKeepsSolvent ==
    ASSUME BooksTyped, Solvent, NEW f, Proper(f), Demanded(f), Projected(f)
    PROVE  Solvent'
<1> SUFFICES ASSUME NEW a \in Agents
             PROVE  Used(a)' <= limit'[a] + observed'[a]
  BY DEF Solvent
<1>0. Used(a) <= limit[a] + observed[a]
  BY DEF Solvent
<1> USE BudgetLedgerAssumption, <1>0
    DEF BooksTyped, Proper, Fact, OnKid, OnAccount, OnCall, Used
<1>1. CASE AccountNoted(f)
  BY <1>1 DEF AccountNoted, accounts
<1>2. CASE ChildReserved(f)
  BY <1>2 DEF ChildReserved, Demanded, Fits
<1>3. CASE ReservationCommitted(f)
  BY <1>3 DEF ReservationCommitted
<1>4. CASE ReservationReleased(f)
  BY <1>4 DEF ReservationReleased
<1>5. CASE ChildTokensDecided(f)
  BY <1>5 DEF ChildTokensDecided, Demanded, Fits
<1>6. CASE UsageCharged(f)
  BY <1>6 DEF UsageCharged, Demanded, Fits
<1>7. CASE UsageReserved(f)
  BY <1>7 DEF UsageReserved, Demanded, Fits
<1>8. CASE UsageStarted(f)
  BY <1>8 DEF UsageStarted
<1>9. CASE UsageEnded(f)
  BY <1>9 DEF UsageEnded, Demanded
<1> QED
  BY <1>1, <1>2, <1>3, <1>4, <1>5, <1>6, <1>7, <1>8, <1>9 DEF Projected

(* A reservation or a hold is only ever made by its own fact, and ended    *)
(* for good.                                                               *)
LEMMA OnlyOneTurnsPending ==
    ASSUME BooksTyped, NEW f, Proper(f), Projected(f)
    PROVE  /\ \A c \in Kids : res'[c] = "pending" =>
                 res[c] = "pending" \/ (f.op = "reserve" /\ f.on = c)
           /\ \A u \in Calls : use'[u].st \in {"pending", "started"} =>
                 \/ use[u].st \in {"pending", "started"}
                 \/ f.op = "hold" /\ f.on = u
                 \/ f.op = "start" /\ f.on = u
<1> USE BudgetLedgerAssumption
    DEF BooksTyped, Proper, Fact, OnKid, OnAccount, OnCall
<1> QED
  BY DEF Projected, AccountNoted, ChildReserved, ReservationCommitted,
         ReservationReleased, ChildTokensDecided, UsageCharged, UsageReserved,
         UsageStarted, UsageEnded, accounts

(* A valid fact opens nothing on a closed account.                         *)
LEMMA RecordingKeepsClosedEmpty ==
    ASSUME BooksTyped, ClosedIsEmpty, UNCHANGED dir,
           NEW s \in Services, Recorded(s), Proper(op[s].f), Demanded(op[s].f)
    PROVE  ClosedIsEmpty'
<1> DEFINE f == op[s].f
<1> USE BudgetLedgerAssumption
<1>1. Projected(f)
  BY DEF Recorded
<1>2. ASSUME NEW c \in Kids, Exists("close", Parent[c])', Status(c)' = "pending"
      PROVE  FALSE
  <2>1. res'[c] = "pending" /\ c \notin dir
    BY <1>2 DEF Status, BooksTyped
  <2>2. res[c] = "pending" \/ (f.op = "reserve" /\ f.on = c)
    BY <1>1, <2>1, OnlyOneTurnsPending
  <2>3. CASE res[c] = "pending"
    <3>1. Status(c) = "pending"
      BY <2>1, <2>3 DEF Status
    <3>2. ~Exists("close", Parent[c])
      BY <3>1 DEF ClosedIsEmpty
    <3>3. f.op = "close" /\ f.on = Parent[c]
      BY <1>2, <3>2, FactsGrow
    <3> QED
      BY <3>1, <3>3 DEF Demanded, Closable
  <2>4. CASE f.op = "reserve" /\ f.on = c
    <3>1. ~Exists("close", Parent[c])
      BY <2>4 DEF Demanded
    <3> QED
      BY <1>2, <2>4, <3>1, FactsGrow
  <2> QED
    BY <2>2, <2>3, <2>4
<1>3. ASSUME NEW u \in Calls, Exists("close", AgentOf[u])',
             use'[u].st \in {"pending", "started"}
      PROVE  FALSE
  <2>1. \/ use[u].st \in {"pending", "started"}
        \/ f.op = "hold" /\ f.on = u
        \/ f.op = "start" /\ f.on = u
    BY <1>1, <1>3, OnlyOneTurnsPending
  <2>2. CASE use[u].st \in {"pending", "started"}
    <3>1. ~Exists("close", AgentOf[u])
      BY <2>2 DEF ClosedIsEmpty
    <3>2. f.op = "close" /\ f.on = AgentOf[u]
      BY <1>3, <3>1, FactsGrow
    <3> QED
      BY <2>2, <3>2 DEF Demanded, Closable
  <2>3. CASE f.op = "hold" /\ f.on = u
    <3>1. ~Exists("close", AgentOf[u])
      BY <2>3 DEF Demanded
    <3> QED
      BY <1>3, <2>3, <3>1, FactsGrow
  <2>4. CASE f.op = "start" /\ f.on = u
    <3>1. use[u].st = "pending"
      BY <2>4 DEF Demanded
    <3> QED
      BY <2>2, <3>1
  <2> QED
    BY <2>1, <2>2, <2>3, <2>4
<1> QED
  BY <1>2, <1>3 DEF ClosedIsEmpty

(* Together: the books stay sound when a valid fact is appended.           *)
LEMMA RecordingKeepsBooks ==
    ASSUME Books, Recording
    PROVE  Books'
<1> PICK s \in Services : op[s].fresh /\ Recorded(s) /\ UNCHANGED dir
  BY DEF Recording
<1> DEFINE f == op[s].f
<1>1. op[s] \in Loaded /\ Proper(f) /\ Demanded(f) /\ Projected(f)
  <2>1. op[s] # Idle
    BY DEF Idle
  <2> QED
    BY <2>1 DEF Books, OpsTyped, LoadedIsCurrent, Loaded, Recorded
<1>2. BooksTyped'
  BY <1>1, RecordingKeepsTypes DEF Books
<1>3. Solvent'
  BY <1>1, RecordingKeepsSolvent DEF Books
<1>4. ClosedIsEmpty'
  BY <1>1, RecordingKeepsClosedEmpty DEF Books
<1>5. ASSUME NEW t \in Services
      PROVE  op'[t] \in Loaded \cup {Idle} /\ op'[t].fresh = FALSE
  <2>1. CASE op[t] \in Loaded /\ t # s
    <3>1. op'[t] = Late(op[t])
      BY <2>1 DEF Recorded
    <3> QED
      BY <2>1, <3>1 DEF Loaded, Late
  <2>2. CASE op[t] = Idle \/ t = s
    <3>1. Late(Idle) = Idle
      BY DEF Late, Idle
    <3>2. op'[t] = Idle
      BY <2>2, <3>1 DEF Recorded
    <3> QED
      BY <3>2 DEF Idle
  <2> QED
    BY <2>1, <2>2 DEF Books, OpsTyped
<1>6. OpsTyped' /\ LoadedIsCurrent'
  BY <1>5 DEF OpsTyped, LoadedIsCurrent, Recorded
<1> QED
  BY <1>2, <1>3, <1>4, <1>6 DEF Books

(* A step that appends nothing keeps what was validated, and the books.    *)
LEMMA QuietKeepsBooks ==
    ASSUME Books, Quiet
    PROVE  Books'
<1>1. BooksTyped' /\ Solvent'
  BY DEF Books, Quiet, BooksTyped, Solvent, Used, ledger, accounts
<1>2. ClosedIsEmpty'
  BY DEF Books, Quiet, ClosedIsEmpty, Exists, Status, ledger, accounts
<1>3. ASSUME NEW t \in Services, op'[t] = op[t]
      PROVE  (op[t] \in Loaded \cup {Idle} /\ (op[t].fresh => Demanded(op[t].f)))'
  <2> DEFINE f == op[t].f
  <2>1. op[t] \in Loaded \cup {Idle} /\ (op[t].fresh => Demanded(f))
    BY DEF Books, OpsTyped, LoadedIsCurrent
  <2>2. op[t].fresh => (\A g : g = f => Demanded(g)')
    BY <2>1, DemandsLast DEF Quiet
  <2>3. op[t].fresh => Demanded(op[t].f)'
    BY <1>3, <2>2
  <2> QED
    BY <1>3, <2>1, <2>3
<1>4. ASSUME NEW t \in Services, op'[t] = Idle
      PROVE  (op[t] \in Loaded \cup {Idle} /\ (op[t].fresh => Demanded(op[t].f)))'
  BY <1>4 DEF Idle
<1>5. ASSUME NEW t \in Services, NEW w \in Loaded, Demanded(w.f), op'[t] = w
      PROVE  (op[t] \in Loaded \cup {Idle} /\ (op[t].fresh => Demanded(op[t].f)))'
  <2>1. \A g : g = w.f => Demanded(g)'
    BY <1>5, DemandsLast DEF Quiet
  <2>2. Demanded(op[t].f)'
    BY <1>5, <2>1
  <2> QED
    BY <1>5, <2>2
<1>6. OpsTyped' /\ LoadedIsCurrent'
  <2>1. op' \in [Services -> Loaded \cup {Idle}] =>
           OpsTyped' /\ (LoadedIsCurrent' <=>
              \A t \in Services : (op[t].fresh => Demanded(op[t].f))')
    BY DEF OpsTyped, LoadedIsCurrent
  <2>2. \A t \in Services :
           (op[t] \in Loaded \cup {Idle} /\ (op[t].fresh => Demanded(op[t].f)))'
    <3> SUFFICES ASSUME NEW t \in Services
                 PROVE  (op[t] \in Loaded \cup {Idle}
                          /\ (op[t].fresh => Demanded(op[t].f)))'
      OBVIOUS
    <3>1. \/ op'[t] = op[t]
          \/ op'[t] = Idle
          \/ \E w \in Loaded : Demanded(w.f) /\ op'[t] = w
      BY DEF Quiet, Books, OpsTyped
    <3> QED
      BY <1>3, <1>4, <1>5, <3>1
  <2>3. op' \in [Services -> Loaded \cup {Idle}]
    <3>1. DOMAIN op' = Services /\ op' = [t \in Services |-> op'[t]]
      BY DEF Quiet, Books, OpsTyped
    <3> QED
      BY <2>2, <3>1
  <2> QED
    BY <2>1, <2>2, <2>3
<1> QED
  BY <1>1, <1>2, <1>6 DEF Books

-----------------------------------------------------------------------------
(* Who gets an answer goes on typed.                                       *)
LEMMA AnswersAreTyped ==
    ASSUME ClientsTyped, NEW c \in Clients, NEW r, Answered(c, r)
    PROVE  ClientsTyped'
<1> USE BudgetLedgerAssumption DEF ClientsTyped, Clients
<1>1. pc' \in [Execs -> Pcs]
  <2>1. ASSUME NEW e \in Execs PROVE Then(e, r) \in Pcs
    BY DEF Then, StartThen, Pcs
  <2> QED
    BY <2>1 DEF Answered
<1>2. want' \in [Execs -> Nat] /\ ran' \subseteq Execs
  BY DEF Answered
<1>3. saga' \in {"idle", "reserving", "creating", "finishing"}
  BY DEF Answered, SagaThen
<1>4. saga' # "idle" => kid' \in Kids
  BY DEF Answered, SagaThen
<1> QED
  BY <1>1, <1>2, <1>3, <1>4

(* An execution that takes a step of its own.                              *)
LEMMA ExecStepsAreTyped ==
    ASSUME BooksTyped, ClientsTyped, ExecStep
    PROVE  ClientsTyped'
<1> USE BudgetLedgerAssumption DEF ClientsTyped, creation, Pcs
<1> PICK e \in Execs :
      \/ Admit(e) \/ Cancel(e) \/ GiveUp(e) \/ Permit(e)
      \/ CallEnds(e) \/ Overage(e) \/ BalanceRead(e) \/ BalanceReadFails(e)
  BY DEF ExecStep
<1>1. use[CallOf[e]].n \in Nat
  BY DEF BooksTyped
<1>2. CASE Admit(e)
  <2>1. Remaining(AgentOf[CallOf[e]]) \in Nat
    BY DEF BooksTyped, Remaining, Used
  <2> QED
    BY <1>2, <2>1 DEF Admit
<1>3. CASE Cancel(e)
  BY <1>3 DEF Cancel, exec
<1>4. CASE GiveUp(e) \/ Permit(e) \/ BalanceRead(e) \/ BalanceReadFails(e)
  BY <1>4 DEF GiveUp, Permit, BalanceRead, BalanceReadFails
<1>5. CASE CallEnds(e) \/ Overage(e)
  BY <1>1, <1>5 DEF CallEnds, Overage
<1> QED
  BY <1>2, <1>3, <1>4, <1>5

(* The managed create() goes on typed.                                     *)
LEMMA CreateStepsAreTyped ==
    ASSUME ClientsTyped, CreateStep
    PROVE  ClientsTyped'
BY DEF ClientsTyped, CreateStep, Create, CancelCreate, Converged, exec

(* A client that begins.                                                   *)
LEMMA BeginIsQuiet ==
    ASSUME Books, ClientsTyped, NEW c \in Asking, Begin(c)
    PROVE  Quiet /\ ClientsTyped'
<1> DEFINE f == Wanted(c)
           s == SvcOf(c)
           w == [by |-> c, f |-> f, fresh |-> TRUE]
<1>1. c \in Clients /\ s \in Services
  BY AskingIsClient
<1>2. CASE Valid(f) /\ ~Exists(f.op, f.on)
  <2>1. op' = [op EXCEPT ![s] = w] /\ UNCHANGED <<ledger, dir, exec, creation>>
    BY <1>2 DEF Begin
  <2>2. Proper(f)
    BY WantedIsProper DEF Books
  <2>3. Demanded(f)
    BY <1>2, ValidIsDemanded
  <2> HIDE DEF f, s
  <2>4. w \in Loaded /\ w.f = f
    BY <1>1, <2>2 DEF Loaded, Proper
  <2>5. ClientsTyped'
    BY <2>1 DEF ClientsTyped, exec, creation
  <2>6. Quiet
    BY <1>1, <2>1, <2>3, <2>4 DEF Quiet
  <2> QED
    BY <2>5, <2>6
<1>3. CASE ~(Valid(f) /\ ~Exists(f.op, f.on))
  <2>1. Answered(c, Verdict(f)) /\ UNCHANGED <<ledger, dir, op>>
    BY <1>3 DEF Begin
  <2>2. ClientsTyped'
    BY <1>1, <2>1, AnswersAreTyped
  <2> QED
    BY <2>1, <2>2 DEF Quiet
<1> QED
  BY <1>2, <1>3

(* A request of the desk validates and appends nothing.                    *)
LEMMA DeskIsQuiet ==
    ASSUME Books, ClientsTyped,
           \/ \E f \in Requests : BeginRequest(f)
           \/ \E a \in Agents, n \in 1 .. MaxAsk : BeginAdmission(a, n)
    PROVE  Quiet /\ ClientsTyped'
<1> USE BudgetLedgerAssumption
<1>0. ASSUME NEW f, Proper(f), Demanded(f),
             op' = [op EXCEPT ![Desk] = [by |-> "desk", f |-> f, fresh |-> TRUE]],
             UNCHANGED <<ledger, dir>>
      PROVE  Quiet
  <2> DEFINE w == [by |-> "desk", f |-> f, fresh |-> TRUE]
  <2>1. w \in Loaded /\ w.f = f
    BY <1>0 DEF Loaded, Proper, Clients
  <2>2. op' = [op EXCEPT ![Desk] = w]
    BY <1>0
  <2> HIDE DEF w
  <2> QED
    BY <1>0, <2>1, <2>2 DEF Quiet
<1>1. ASSUME NEW f \in Requests, BeginRequest(f)
      PROVE  Quiet /\ ClientsTyped'
  <2>1. Proper(f)
    BY DEF Requests, Proper, Fa, Fact, Ops, OnKid, OnAccount, OnCall
  <2>2. Demanded(f)
    BY <1>1, ValidIsDemanded DEF BeginRequest
  <2> QED
    BY <1>0, <1>1, <2>1, <2>2 DEF BeginRequest, ClientsTyped, exec, creation
<1>2. ASSUME NEW a \in Agents, NEW asked \in 1 .. MaxAsk, BeginAdmission(a, asked)
      PROVE  Quiet /\ ClientsTyped'
  <2> DEFINE n == IF asked < Remaining(a) THEN asked ELSE Remaining(a)
             f == Fa("admit", a, n)
  <2>1. n \in Nat /\ Fits(a, n)
    BY <1>2 DEF BeginAdmission, Remaining, Fits, Used, Books, BooksTyped
  <2>2. Proper(f) /\ Demanded(f)
    BY <2>1 DEF Proper, Demanded, Fa, Fact, Ops, OnKid, OnAccount, OnCall
  <2>3. /\ op' = [op EXCEPT ![Desk] = [by |-> "desk", f |-> f, fresh |-> TRUE]]
        /\ UNCHANGED <<ledger, dir, exec, creation>>
    BY <1>2 DEF BeginAdmission
  <2> HIDE DEF f
  <2> QED
    BY <1>0, <2>2, <2>3 DEF ClientsTyped, exec, creation
<1> QED
  BY <1>1, <1>2

(* Every step either records one valid fact or is quiet.                   *)
LEMMA EveryStepIsOne ==
    ASSUME Books, ClientsTyped, [Next]_vars
    PROVE  (Recording \/ Quiet) /\ ClientsTyped'
<1> USE BudgetLedgerAssumption
<1>1. ASSUME NEW c \in Execs \cup {"saga"}, Begin(c) \/ LoadFails(c)
      PROVE  (Recording \/ Quiet) /\ ClientsTyped'
  <2>1. c \in Asking
    BY <1>1 DEF Begin, LoadFails
  <2>2. CASE LoadFails(c)
    BY <2>1, <2>2, AskingIsClient, AnswersAreTyped DEF LoadFails, Quiet
  <2> QED
    BY <1>1, <2>1, <2>2, BeginIsQuiet
<1>2. ASSUME NEW s \in Services, Append(s) \/ AppendConflicts(s) \/ AppendFails(s)
      PROVE  (Recording \/ Quiet) /\ ClientsTyped'
  <2>1. op[s] \in Loaded /\ op[s].by \in Clients
    <3>1. op[s] # Idle
      BY <1>2 DEF Append, AppendConflicts, AppendFails, Idle
    <3> QED
      BY <3>1 DEF Books, OpsTyped, Loaded
  <2>2. ClientsTyped'
    BY <1>2, <2>1, AnswersAreTyped DEF Append, AppendConflicts, AppendFails
  <2>3. Recording \/ Quiet
    BY <1>2 DEF Append, AppendConflicts, AppendFails, Recording, Quiet
  <2> QED
    BY <2>2, <2>3
<1>3. CASE \/ \E f \in Requests : BeginRequest(f)
           \/ \E a \in Agents, n \in 1 .. MaxAsk : BeginAdmission(a, n)
  BY <1>3, DeskIsQuiet
<1>4. CASE ExecStep
  <2>1. ClientsTyped'
    BY <1>4, ExecStepsAreTyped DEF Books
  <2>2. PICK e \in Execs :
          \/ Admit(e) \/ Cancel(e) \/ GiveUp(e) \/ Permit(e)
          \/ CallEnds(e) \/ Overage(e) \/ BalanceRead(e) \/ BalanceReadFails(e)
    BY <1>4 DEF ExecStep
  <2>3. CASE GiveUp(e)
    <3>1. ServiceOf[e] \in Services
      OBVIOUS
    <3>2. UNCHANGED <<ledger, dir>> /\ (op' = op \/ op' = [op EXCEPT ![ServiceOf[e]] = Idle])
      BY <2>3 DEF GiveUp
    <3> QED
      BY <2>1, <3>1, <3>2 DEF Quiet
  <2>4. CASE ~GiveUp(e)
    BY <2>1, <2>2, <2>4 DEF Admit, Cancel, Permit, CallEnds, Overage, BalanceRead,
                      BalanceReadFails, Quiet
  <2> QED
    BY <2>1, <2>3, <2>4
<1>5. CASE CreateStep
  BY <1>5, CreateStepsAreTyped DEF CreateStep, Create, CancelCreate, Converged, Quiet
<1>6. ASSUME NEW s \in Services, Crash(s)
      PROVE  (Recording \/ Quiet) /\ ClientsTyped'
  BY <1>6 DEF Crash, Quiet, ClientsTyped, Pcs
<1>7. CASE UNCHANGED vars
  BY <1>7 DEF vars, exec, creation, Quiet, ClientsTyped
<1> QED
  BY <1>1, <1>2, <1>3, <1>4, <1>5, <1>6, <1>7 DEF Next, ServiceStep

(* The empty ledger is sound.                                              *)
LEMMA InitIsSound == Init => Books /\ ClientsTyped
<1> SUFFICES ASSUME Init PROVE Books /\ ClientsTyped
  OBVIOUS
<1> USE BudgetLedgerAssumption DEF Init
<1>1. BooksTyped /\ OpsTyped
  BY DEF BooksTyped, OpsTyped
<1>2. LoadedIsCurrent
  BY DEF LoadedIsCurrent, Idle
<1>3. Solvent /\ ClosedIsEmpty
  BY DEF Solvent, Used, ClosedIsEmpty, Exists
<1>4. ClientsTyped
  BY DEF ClientsTyped, Pcs
<1> QED
  BY <1>1, <1>2, <1>3, <1>4 DEF Books

(* The invariant of the ledger and its clients.                            *)
THEOREM BooksHold == Spec => [](Books /\ ClientsTyped)
<1>1. Books /\ ClientsTyped /\ [Next]_vars => (Books /\ ClientsTyped)'
  BY EveryStepIsOne, RecordingKeepsBooks, QuietKeepsBooks
<1> QED
  BY <1>1, InitIsSound, PTL DEF Spec

(* No account is overdrawn, however services race for the head of the      *)
(* ledger, clients are cancelled and appends fail.                         *)
THEOREM SolventHolds == Spec => []Solvent
<1>1. Books => Solvent
  BY DEF Books
<1> QED
  BY <1>1, BooksHold, PTL

-----------------------------------------------------------------------------
(* Of the managed create(): only it reserves, commits and releases grants, *)
(* and it releases one when the Supervisor has answered and the kid is not *)
(* in the Directory.                                                       *)
ReleasesAreLate ==
    /\ \A s \in Services : op[s].by = "saga" =>
          /\ s = Host /\ saga \in {"reserving", "finishing"}
          /\ op[s].f.on = kid
          /\ saga = "reserving" => op[s].f.op = "reserve"
          /\ saga = "finishing" => op[s].f.op \in {"commit", "release"}
    /\ \A s \in Services : op[s].f.op \in {"reserve", "commit"} => op[s].by = "saga"
    /\ \A s \in Services : op[s].f.op = "release" =>
          op[s].by = "saga" /\ saga = "finishing" /\ op[s].f.on = kid /\ kid \notin dir

ReleasedNeverExists ==
    /\ saga = "creating" => res[kid] # "released"
    /\ \A c \in Kids : res[c] = "released" => c \notin dir

(* A reservation becomes released by the fact that releases it alone.      *)
LEMMA OnlyReleaseReleases ==
    ASSUME BooksTyped, NEW f, Proper(f), Projected(f), NEW c \in Kids,
           res'[c] = "released"
    PROVE  res[c] = "released" \/ (f.op = "release" /\ f.on = c)
BY DEF BooksTyped, Proper, OnKid, Projected, AccountNoted, ChildReserved,
       ReservationCommitted, ReservationReleased, ChildTokensDecided,
       UsageCharged, UsageReserved, UsageStarted, UsageEnded, accounts

(* An operation that ends, answered or dropped, leaves the others as they  *)
(* were.                                                                   *)
LEMMA SagaAnswered ==
    ASSUME Books, ClientsTyped, ReleasesAreLate, NEW c \in Clients, NEW r,
           Answered(c, r), UNCHANGED dir,
           \A t \in Services : \/ op'[t].by = op[t].by /\ op'[t].f = op[t].f
                              \/ op'[t] = Idle,
           c = "saga" => op'[Host] = Idle
    PROVE  ReleasesAreLate'
<1>1. CASE c = "saga"
  <2>1. \A t \in Services :
           op'[t].by # "saga" /\ op'[t].f.op \notin {"reserve", "commit", "release"}
    BY <1>1 DEF ReleasesAreLate, Idle
  <2> QED
    BY <2>1 DEF ReleasesAreLate
<1>2. CASE c # "saga"
  <2>1. UNCHANGED <<saga, kid>>
    BY <1>2 DEF Answered
  <2> QED
    BY <2>1 DEF ReleasesAreLate, Idle
<1> QED
  BY <1>1, <1>2

(* A saga goes on to create only what has not been released.               *)
LEMMA CreatingIsUnreleased ==
    ASSUME ClientsTyped, ReleasedNeverExists, NEW c \in Clients, NEW r,
           Answered(c, r), saga' = "creating"
    PROVE  kid' = kid /\ kid \in Kids /\ res[kid] # "released"
<1>1. CASE c = "saga"
  BY <1>1 DEF Answered, SagaThen, Status, ClientsTyped
<1>2. CASE c # "saga"
  BY <1>2 DEF Answered, ReleasedNeverExists, ClientsTyped
<1> QED
  BY <1>1, <1>2

(* The only operation that releases is the one of the saga that finishes.  *)
LEMMA ReleasesStayLate ==
    ASSUME Books, ClientsTyped, ReleasesAreLate, [Next]_vars
    PROVE  ReleasesAreLate'
<1> USE BudgetLedgerAssumption
<1>1. ASSUME NEW c \in Execs \cup {"saga"}, Begin(c) \/ LoadFails(c)
      PROVE  ReleasesAreLate'
  <2> DEFINE f == Wanted(c)
             w == [by |-> c, f |-> f, fresh |-> TRUE]
  <2>1. c \in Asking /\ c \in Clients /\ SvcOf(c) \in Services /\ op[SvcOf(c)] = Idle
    BY <1>1, AskingIsClient DEF Begin, LoadFails
  <2>2. ASSUME NEW r, Answered(c, r), UNCHANGED <<ledger, dir, op>>
        PROVE  ReleasesAreLate'
    BY <2>1, <2>2, SagaAnswered DEF SvcOf
  <2>3. CASE op' = [op EXCEPT ![SvcOf(c)] = w] /\ UNCHANGED <<ledger, dir, exec, creation>>
    <3>1. c = "saga" =>
             /\ SvcOf(c) = Host /\ saga \in {"reserving", "finishing"}
             /\ f.on = kid
             /\ saga = "reserving" => f.op = "reserve"
             /\ saga = "finishing" => f.op \in {"commit", "release"}
      BY <2>1 DEF SvcOf, Asking, Wanted, SagaWants, Fa
    <3>5. c # "saga" => f.op \notin {"reserve", "commit"}
      BY DEF Wanted, ExecWants, Fa
    <3>2. f.op = "release" => c = "saga" /\ saga = "finishing" /\ f.on = kid /\ kid \notin dir
      <4>1. c = "saga" /\ f.op = "release" => saga = "finishing" /\ f.on = kid /\ kid \notin dir
        BY <3>1 DEF Wanted, SagaWants, Fa
      <4>2. c # "saga" => f.op # "release"
        BY DEF Wanted, ExecWants, Fa
      <4> QED
        BY <4>1, <4>2
    <3>3. w.by = c /\ w.f = f
      OBVIOUS
    <3>4. \A t \in Services : op'[t] = IF t = SvcOf(c) THEN w ELSE op[t]
      BY <2>1, <2>3 DEF Books, OpsTyped
    <3> HIDE DEF w, f
    <3> QED
      BY <2>3, <3>1, <3>2, <3>3, <3>4, <3>5 DEF ReleasesAreLate, creation
  <2> QED
    BY <1>1, <2>2, <2>3 DEF Begin, LoadFails
<1>2. ASSUME NEW f \in Requests, BeginRequest(f)
      PROVE  ReleasesAreLate'
  <2>1. f.op \notin {"reserve", "commit", "release"}
    BY DEF Requests, Fa
  <2> QED
    BY <1>2, <2>1 DEF BeginRequest, ReleasesAreLate, creation, Books, OpsTyped
<1>3. ASSUME NEW a \in Agents, NEW n \in 1 .. MaxAsk, BeginAdmission(a, n)
      PROVE  ReleasesAreLate'
  BY <1>3 DEF BeginAdmission, Fa, ReleasesAreLate, creation, Books, OpsTyped
<1>4. ASSUME NEW s \in Services, Append(s) \/ AppendConflicts(s) \/ AppendFails(s)
      PROVE  ReleasesAreLate'
  <2>1. op[s].by \in Clients
    <3>1. op[s] # Idle
      BY <1>4 DEF Append, AppendConflicts, AppendFails, Idle
    <3> QED
      BY <3>1 DEF Books, OpsTyped, Loaded
  <2>2. /\ op'[s] = Idle
        /\ \A t \in Services : \/ op'[t].by = op[t].by /\ op'[t].f = op[t].f
                              \/ op'[t] = Idle
    BY <1>4 DEF Append, AppendConflicts, AppendFails, Recorded, Late, Books, OpsTyped
  <2>3. op[s].by = "saga" => s = Host
    BY DEF ReleasesAreLate
  <2>4. (\E r : Answered(op[s].by, r)) /\ UNCHANGED dir
    BY <1>4 DEF Append, AppendConflicts, AppendFails
  <2> QED
    BY <2>1, <2>2, <2>3, <2>4, SagaAnswered
<1>5. CASE ExecStep
  <2>1. UNCHANGED <<saga, kid, dir>>
    BY <1>5 DEF ExecStep, Admit, Cancel, GiveUp, Permit, CallEnds, Overage,
                BalanceRead, BalanceReadFails, creation
  <2>2. \A t \in Services : op'[t] = op[t] \/ op'[t] = Idle
    BY <1>5 DEF ExecStep, Admit, Cancel, GiveUp, Permit, CallEnds, Overage,
                BalanceRead, BalanceReadFails, Books, OpsTyped
  <2> QED
    BY <2>1, <2>2 DEF ReleasesAreLate, Idle
<1>6. CASE CreateStep
  BY <1>6 DEF CreateStep, Create, CancelCreate, Converged, ReleasesAreLate
<1>7. ASSUME NEW s \in Services, Crash(s)
      PROVE  ReleasesAreLate'
  BY <1>7 DEF Crash, ReleasesAreLate, Idle, Books, OpsTyped
<1>8. CASE UNCHANGED vars
  BY <1>8 DEF vars, creation, ReleasesAreLate
<1> QED
  BY <1>1, <1>2, <1>3, <1>4, <1>5, <1>6, <1>7, <1>8 DEF Next, ServiceStep

(* No step puts an agent in the Directory whose grant was released.        *)
LEMMA ReleasedStaysAbsent ==
    ASSUME Books, ClientsTyped, ReleasesAreLate, ReleasedNeverExists, [Next]_vars
    PROVE  ReleasedNeverExists'
<1> USE BudgetLedgerAssumption
<1>1. ASSUME UNCHANGED <<res, dir>>, NEW c \in Clients, NEW r, Answered(c, r)
      PROVE  ReleasedNeverExists'
  BY <1>1, CreatingIsUnreleased DEF ReleasedNeverExists
<1>2. ASSUME UNCHANGED <<res, dir>>, saga' = "creating" => saga = "creating" /\ kid' = kid
      PROVE  ReleasedNeverExists'
  BY <1>2 DEF ReleasedNeverExists
<1>3. ASSUME NEW c \in Execs \cup {"saga"}, Begin(c) \/ LoadFails(c)
      PROVE  ReleasedNeverExists'
  BY <1>1, <1>2, <1>3, AskingIsClient
     DEF Begin, LoadFails, ledger, accounts, creation
<1>4. CASE \/ \E f \in Requests : BeginRequest(f)
           \/ \E a \in Agents, n \in 1 .. MaxAsk : BeginAdmission(a, n)
  BY <1>2, <1>4 DEF BeginRequest, BeginAdmission, ledger, accounts, creation
<1>5. ASSUME NEW s \in Services, Append(s) \/ AppendConflicts(s) \/ AppendFails(s)
      PROVE  ReleasedNeverExists'
  <2> DEFINE f == op[s].f
  <2>1. op[s] \in Loaded /\ op[s].by \in Clients /\ Proper(f)
    <3>1. op[s] # Idle
      BY <1>5 DEF Append, AppendConflicts, AppendFails, Idle
    <3> QED
      BY <3>1 DEF Books, OpsTyped, Loaded
  <2>2. PICK r : Answered(op[s].by, r) /\ UNCHANGED dir
    BY <1>5 DEF Append, AppendConflicts, AppendFails
  <2>3. CASE Recorded(s)
    <3>1. Projected(f)
      BY <2>3 DEF Recorded
    <3>2. ASSUME NEW c \in Kids, res'[c] = "released"
          PROVE  c \notin dir
      <4>1. res[c] = "released" \/ (f.op = "release" /\ f.on = c)
        BY <2>1, <3>1, <3>2, OnlyReleaseReleases DEF Books
      <4> QED
        BY <4>1 DEF ReleasesAreLate, ReleasedNeverExists
    <3>3. ASSUME saga' = "creating" PROVE res'[kid'] # "released"
      <4>1. kid' = kid /\ kid \in Kids /\ res[kid] # "released"
        BY <2>1, <2>2, <3>3, CreatingIsUnreleased
      <4>2. CASE f.op = "release"
        <5>1. op[s].by = "saga" /\ saga = "finishing"
          BY <4>2 DEF ReleasesAreLate
        <5> QED
          BY <2>2, <3>3, <5>1 DEF Answered, SagaThen
      <4>3. CASE f.op # "release"
        BY <2>1, <3>1, <4>1, <4>3, OnlyReleaseReleases DEF Books
      <4> QED
        BY <4>2, <4>3
    <3> QED
      BY <2>2, <3>2, <3>3 DEF ReleasedNeverExists
  <2>4. CASE UNCHANGED ledger
    BY <1>1, <2>1, <2>2, <2>4 DEF ledger, accounts
  <2> QED
    BY <1>5, <2>3, <2>4 DEF Append, AppendConflicts, AppendFails
<1>6. CASE ExecStep
  BY <1>2, <1>6 DEF ExecStep, Admit, Cancel, GiveUp, Permit, CallEnds, Overage,
        BalanceRead, BalanceReadFails, creation, ledger, accounts
<1>7. ASSUME NEW c \in Kids, Create(c)
      PROVE  ReleasedNeverExists'
  BY <1>2, <1>7 DEF Create, ledger, accounts
<1>8. CASE CancelCreate
  BY <1>2, <1>8 DEF CancelCreate, ledger, accounts
<1>9. CASE Converged
  BY <1>9 DEF Converged, ReleasedNeverExists, ledger, accounts
<1>10. ASSUME NEW s \in Services, Crash(s)
       PROVE  ReleasedNeverExists'
  BY <1>2, <1>10 DEF Crash, ledger, accounts
<1>11. CASE UNCHANGED vars
  BY <1>2, <1>11 DEF vars, creation, ledger, accounts
<1> QED
  BY <1>3, <1>4, <1>5, <1>6, <1>7, <1>8, <1>9, <1>10, <1>11
     DEF Next, ServiceStep, CreateStep

(* The invariant of the managed create().                                  *)
LEMMA ReleasesHold == Spec => [](ReleasesAreLate /\ ReleasedNeverExists)
<1> DEFINE Sound == ReleasesAreLate /\ ReleasedNeverExists
<1>1. Init => Sound
  BY DEF Init, ReleasesAreLate, ReleasedNeverExists, Idle
<1>2. Books /\ ClientsTyped /\ Sound /\ [Next]_vars => Sound'
  BY ReleasesStayLate, ReleasedStaysAbsent
<1> QED
  BY <1>1, <1>2, BooksHold, PTL DEF Spec

(* The ledger can always be replayed over the Directory: a released grant  *)
(* never gets its agent, a closed account nothing that is still open.      *)
THEOREM LedgerReplaysHolds == Spec => []LedgerReplays
<1>1. Books /\ ReleasedNeverExists => LedgerReplays
  BY DEF Books, ReleasedNeverExists, ClosedIsEmpty, LedgerReplays
<1> QED
  BY <1>1, BooksHold, ReleasesHold, PTL

-----------------------------------------------------------------------------
(* Of the executions: an operation on a call belongs to an execution that  *)
(* waits for it, and one that settles without having called settles all.   *)
AskingPcs == {"reserving", "starting", "settling", "releasing", "unstarting",
              "terminal", "again"}
CalledPcs == {"calling", "balance", "settling"}

Suits(o, p) ==
    \/ o = "hold" /\ p = "reserving"
    \/ o = "start" /\ p = "starting"
    \/ o = "settle" /\ p \in {"settling", "terminal"}
    \/ o = "drop" /\ p \in {"releasing", "unstarting", "terminal", "again"}

Placed == \A s \in Services :
    /\ op[s].f.op \in OnCall => op[s].by \in Execs
    /\ op[s].by \in Execs =>
          /\ s = ServiceOf[op[s].by]
          /\ pc[op[s].by] \in AskingPcs
          /\ op[s].f.on = CallOf[op[s].by]
          /\ Suits(op[s].f.op, pc[op[s].by])
          /\ op[s].f.op = "settle" /\ pc[op[s].by] # "settling" /\ op[s].fresh =>
                op[s].f.n = use[op[s].f.on].n

Running ==
    /\ \A u \in Calls : use[u].st # "none" => Exists("hold", u)
    /\ \A e \in Execs : pc[e] \in CalledPcs => e \in ran
    /\ \A e \in ran : use[CallOf[e]].st \notin {"none", "pending"}
    /\ CallsAreFunded

(* An answer moves the client it is for and nobody else.                   *)
LEMMA AnswerToOne ==
    ASSUME ClientsTyped, NEW c \in Clients, NEW r, Answered(c, r)
    PROVE  /\ \A e \in Execs : e # c => pc'[e] = pc[e]
           /\ c \in Execs =>
                 /\ pc'[c] \notin {"balance", "settling"}
                 /\ pc'[c] = "calling" => pc[c] = "starting" /\ r = "ok"
           /\ ran' = ran \/ (c \in Execs /\ pc'[c] = "calling" /\ ran' = ran \cup {c})
<1>1. \A e \in Execs : e # c => pc'[e] = pc[e]
  BY DEF Answered, ClientsTyped
<1>2. ASSUME c \in Execs
      PROVE  /\ pc'[c] \notin {"balance", "settling"}
             /\ pc'[c] = "calling" => pc[c] = "starting" /\ r = "ok"
  <2>1. pc'[c] = Then(c, r)
    BY <1>2 DEF Answered, ClientsTyped
  <2> QED
    BY <2>1 DEF Then, StartThen
<1> QED
  BY <1>1, <1>2 DEF Answered

(* When a client is answered, the operations in flight stay with theirs.   *)
LEMMA PlacedAnswered ==
    ASSUME ClientsTyped, Placed, NEW c \in Clients, NEW r, Answered(c, r),
           \A t \in Services :
              \/ op'[t] = Idle
              \/ /\ op'[t].by = op[t].by /\ op'[t].f = op[t].f
                 /\ op'[t].fresh => op[t].fresh /\ use' = use,
           c \in Execs => op'[ServiceOf[c]] = Idle
    PROVE  Placed'
<1> SUFFICES ASSUME NEW t \in Services, op'[t] # Idle
             PROVE
    /\ op'[t].f.op \in OnCall => op'[t].by \in Execs
    /\ op'[t].by \in Execs =>
          /\ t = ServiceOf[op'[t].by]
          /\ pc'[op'[t].by] \in AskingPcs
          /\ op'[t].f.on = CallOf[op'[t].by]
          /\ Suits(op'[t].f.op, pc'[op'[t].by])
          /\ op'[t].f.op = "settle" /\ pc'[op'[t].by] # "settling" /\ op'[t].fresh =>
                op'[t].f.n = use'[op'[t].f.on].n
  BY BudgetLedgerAssumption DEF Placed, Idle, OnCall
<1>1. /\ op'[t].by = op[t].by /\ op'[t].f = op[t].f
      /\ op'[t].fresh => op[t].fresh /\ use' = use
  OBVIOUS
<1>2. op[t].by \in Execs => pc'[op[t].by] = pc[op[t].by]
  BY AnswerToOne DEF Placed
<1> QED
  BY <1>1, <1>2 DEF Placed

(* Every step leaves each operation with the execution that waits for it.  *)
LEMMA StaysPlaced ==
    ASSUME Books, ClientsTyped, Placed, [Next]_vars
    PROVE  Placed'
<1> USE BudgetLedgerAssumption
<1>1. ASSUME NEW c \in Execs \cup {"saga"}, Begin(c) \/ LoadFails(c)
      PROVE  Placed'
  <2> DEFINE f == Wanted(c)
             w == [by |-> c, f |-> f, fresh |-> TRUE]
  <2>1. c \in Asking /\ c \in Clients /\ SvcOf(c) \in Services /\ op[SvcOf(c)] = Idle
    BY <1>1, AskingIsClient DEF Begin, LoadFails
  <2>2. ASSUME NEW r, Answered(c, r), UNCHANGED <<ledger, dir, op>>
        PROVE  Placed'
    BY <2>1, <2>2, PlacedAnswered DEF SvcOf, ledger, accounts
  <2>3. CASE op' = [op EXCEPT ![SvcOf(c)] = w] /\ UNCHANGED <<ledger, dir, exec, creation>>
    <3>1. c \in Execs =>
             /\ SvcOf(c) = ServiceOf[c] /\ pc[c] \in AskingPcs /\ f.on = CallOf[c]
             /\ Suits(f.op, pc[c])
             /\ f.op = "settle" /\ pc[c] # "settling" => f.n = use[f.on].n
      BY <2>1 DEF SvcOf, Asking, AskingPcs, Wanted, ExecWants, Fa, Suits
    <3>2. f.op \in OnCall => c \in Execs
      BY DEF Wanted, SagaWants, Fa, OnCall
    <3>3. w.by = c /\ w.f = f
      OBVIOUS
    <3>4. \A t \in Services : op'[t] = IF t = SvcOf(c) THEN w ELSE op[t]
      BY <2>1, <2>3 DEF Books, OpsTyped
    <3>5. UNCHANGED <<pc, use>>
      BY <2>3 DEF ledger, accounts, exec
    <3> HIDE DEF w, f
    <3> QED
      BY <3>1, <3>2, <3>3, <3>4, <3>5 DEF Placed
  <2> QED
    BY <1>1, <2>2, <2>3 DEF Begin, LoadFails
<1>2. ASSUME NEW f, f.op \notin OnCall, UNCHANGED <<pc, use>>,
             op' = [op EXCEPT ![Desk] = [by |-> "desk", f |-> f, fresh |-> TRUE]]
      PROVE  Placed'
  BY <1>2 DEF Placed, Books, OpsTyped
<1>3. ASSUME NEW f \in Requests, BeginRequest(f)
      PROVE  Placed'
  <2>1. f.op \notin OnCall
    BY DEF Requests, Fa, OnCall
  <2>2. /\ op' = [op EXCEPT ![Desk] = [by |-> "desk", f |-> f, fresh |-> TRUE]]
        /\ UNCHANGED <<pc, use>>
    BY <1>3 DEF BeginRequest, ledger, accounts, exec
  <2> QED
    BY <1>2, <2>1, <2>2
<1>4. ASSUME NEW a \in Agents, NEW n \in 1 .. MaxAsk, BeginAdmission(a, n)
      PROVE  Placed'
  <2> DEFINE f == Fa("admit", a, IF n < Remaining(a) THEN n ELSE Remaining(a))
  <2>1. f.op \notin OnCall
    BY DEF Fa, OnCall
  <2>2. /\ op' = [op EXCEPT ![Desk] = [by |-> "desk", f |-> f, fresh |-> TRUE]]
        /\ UNCHANGED <<pc, use>>
    BY <1>4 DEF BeginAdmission, ledger, accounts, exec
  <2> HIDE DEF f
  <2> QED
    BY <1>2, <2>1, <2>2
<1>5. ASSUME NEW s \in Services, Append(s) \/ AppendConflicts(s) \/ AppendFails(s)
      PROVE  Placed'
  <2>1. op[s].by \in Clients
    <3>1. op[s] # Idle
      BY <1>5 DEF Append, AppendConflicts, AppendFails, Idle
    <3> QED
      BY <3>1 DEF Books, OpsTyped, Loaded
  <2>2. /\ op'[s] = Idle
        /\ \A t \in Services :
              \/ op'[t] = Idle
              \/ /\ op'[t].by = op[t].by /\ op'[t].f = op[t].f
                 /\ op'[t].fresh => op[t].fresh /\ use' = use
    BY <1>5 DEF Append, AppendConflicts, AppendFails, Recorded, Late, Books,
                OpsTyped, ledger, accounts
  <2>3. op[s].by \in Execs => s = ServiceOf[op[s].by]
    BY DEF Placed
  <2>4. \E r : Answered(op[s].by, r)
    BY <1>5 DEF Append, AppendConflicts, AppendFails
  <2> QED
    BY <2>1, <2>2, <2>3, <2>4, PlacedAnswered
<1>6. ASSUME NEW e \in Execs, NEW p, pc' = [pc EXCEPT ![e] = p], UNCHANGED use,
             \/ op' = op /\ pc[e] \notin AskingPcs
             \/ /\ op[ServiceOf[e]].by = e
                /\ op' = [op EXCEPT ![ServiceOf[e]] = Idle]
             \/ op' = op /\ op[ServiceOf[e]].by # e
      PROVE  Placed'
  <2>1. \A t \in Services : op'[t] = op[t] \/ op'[t] = Idle
    BY <1>6 DEF Books, OpsTyped
  <2>2. ASSUME NEW t \in Services, op'[t].by \in Execs
        PROVE  op'[t] = op[t] /\ pc'[op'[t].by] = pc[op[t].by]
    <3>1. op'[t] = op[t]
      BY <2>1, <2>2 DEF Idle
    <3>2. op[t].by # e
      BY <1>6, <2>2, <3>1 DEF Placed, Books, OpsTyped, Idle
    <3> QED
      BY <1>6, <2>2, <3>1, <3>2 DEF ClientsTyped
  <2> QED
    BY <1>6, <2>1, <2>2 DEF Placed, Idle, OnCall
<1>7. ASSUME NEW e \in Execs, Admit(e) \/ Cancel(e) \/ GiveUp(e) \/ Permit(e)
             \/ CallEnds(e) \/ Overage(e) \/ BalanceRead(e) \/ BalanceReadFails(e)
      PROVE  Placed'
  <2>1. CASE Cancel(e)
    BY <2>1 DEF Cancel, Placed, exec, ledger, accounts
  <2>2. CASE GiveUp(e)
    BY <1>6, <2>2 DEF GiveUp, ledger, accounts
  <2>3. CASE Admit(e) \/ Permit(e) \/ CallEnds(e) \/ Overage(e) \/ BalanceRead(e)
             \/ BalanceReadFails(e)
    BY <1>6, <2>3 DEF Admit, Permit, CallEnds, Overage, BalanceRead,
                      BalanceReadFails, AskingPcs, ledger, accounts
  <2> QED
    BY <1>7, <2>1, <2>2, <2>3
<1>8. CASE CreateStep
  BY <1>8 DEF CreateStep, Create, CancelCreate, Converged, Placed, exec,
              ledger, accounts
<1>9. ASSUME NEW s \in Services, Crash(s)
      PROVE  Placed'
  <2>1. \A t \in Services : op'[t] = IF t = s THEN Idle ELSE op[t]
    BY <1>9 DEF Crash, Books, OpsTyped
  <2>2. \A e \in Execs : ServiceOf[e] # s => pc'[e] = pc[e]
    BY <1>9 DEF Crash
  <2>3. UNCHANGED use
    BY <1>9 DEF Crash, ledger, accounts
  <2> QED
    BY <2>1, <2>2, <2>3 DEF Placed, Idle, OnCall
<1>10. CASE UNCHANGED vars
  BY <1>10 DEF vars, exec, ledger, accounts, Placed
<1> QED
  BY <1>1, <1>3, <1>4, <1>5, <1>7, <1>8, <1>9, <1>10
     DEF Next, ServiceStep, ExecStep

-----------------------------------------------------------------------------
(* What one fact does to the hold of a call.                               *)
LEMMA HoldMoves ==
    ASSUME BooksTyped, NEW f, Proper(f), Demanded(f), Projected(f), NEW u \in Calls
    PROVE  \/ use'[u] = use[u]
           \/ f.on = u /\ f.op = "hold" /\ use'[u].st = "pending"
           \/ /\ f.on = u /\ f.op = "start" /\ use[u].st = "pending"
              /\ use'[u].st = "started" /\ use'[u].n = use[u].n
           \/ /\ f.on = u /\ f.op = "drop" /\ use[u].st = "pending"
              /\ use'[u].st = "released" /\ use'[u].n = use[u].n
           \/ /\ f.on = u /\ f.op = "settle" /\ use[u].st = "started"
              /\ use'[u].st = "settled" /\ use'[u].n = use[u].n
<1> USE BudgetLedgerAssumption DEF BooksTyped, Proper, OnCall
<1>1. CASE UNCHANGED use
  BY <1>1
<1>2. CASE UsageReserved(f) \/ UsageStarted(f) \/ UsageEnded(f)
  BY <1>2 DEF UsageReserved, UsageStarted, UsageEnded, Demanded
<1> QED
  BY <1>1, <1>2 DEF Projected, AccountNoted, ChildReserved, ReservationCommitted,
         ReservationReleased, ChildTokensDecided, UsageCharged, accounts

(* Steps after which no more executions are calling, over the same ledger. *)
LEMMA RunningStill ==
    ASSUME Running, UNCHANGED <<ledger, ran>>,
           \A e \in Execs : /\ pc'[e] \in CalledPcs => pc[e] \in CalledPcs
                            /\ pc'[e] \in {"calling", "balance"} =>
                                  pc[e] \in {"calling", "balance"}
    PROVE  Running'
BY DEF Running, CallsAreFunded, Exists, ledger, accounts

(* A fact that is recorded takes no hold from a running call.              *)
LEMMA RunningRecorded ==
    ASSUME Books, ClientsTyped, Placed, Running,
           NEW s \in Services, op[s].fresh, Recorded(s), NEW r, Answered(op[s].by, r)
    PROVE  Running'
<1> USE BudgetLedgerAssumption
<1> DEFINE f == op[s].f
           c == op[s].by
<1>0. c \in Clients /\ f \in Fact /\ Proper(f) /\ Demanded(f) /\ Projected(f)
  <2>1. op[s] # Idle
    BY DEF Idle
  <2> QED
    BY <2>1 DEF Books, OpsTyped, LoadedIsCurrent, Loaded, Recorded
<1>1. \A u \in Calls :
           \/ use'[u] = use[u]
           \/ f.on = u /\ f.op = "hold" /\ use'[u].st = "pending"
           \/ /\ f.on = u /\ f.op = "start" /\ use[u].st = "pending"
              /\ use'[u].st = "started" /\ use'[u].n = use[u].n
           \/ /\ f.on = u /\ f.op = "drop" /\ use[u].st = "pending"
              /\ use'[u].st = "released" /\ use'[u].n = use[u].n
           \/ /\ f.on = u /\ f.op = "settle" /\ use[u].st = "started"
              /\ use'[u].st = "settled" /\ use'[u].n = use[u].n
  BY <1>0, HoldMoves DEF Books
<1>2. \A e \in Execs : e # c => pc'[e] = pc[e]
  BY <1>0, AnswerToOne
<1>3. c \in Execs => /\ pc'[c] \notin {"balance", "settling"}
                     /\ pc'[c] = "calling" => pc[c] = "starting"
  BY <1>0, AnswerToOne
<1>4. ran' = ran \/ (c \in Execs /\ pc'[c] = "calling" /\ ran' = ran \cup {c})
  BY <1>0, AnswerToOne
<1>5. c \in Execs /\ pc[c] = "starting" => f.op = "start" /\ f.on = CallOf[c]
  BY DEF Placed, Suits
<1>6. \A u \in Calls : use'[u].st # "none" => Exists("hold", u)'
  BY <1>1, FactsGrow DEF Running
<1>7. \A e \in Execs : pc'[e] \in CalledPcs => e \in ran'
  <2> SUFFICES ASSUME NEW e \in Execs, pc'[e] \in CalledPcs
               PROVE  e \in ran'
    OBVIOUS
  <2>1. CASE e = c
    BY <1>3, <2>1 DEF Answered, CalledPcs
  <2>2. CASE e # c
    BY <1>2, <1>4, <2>2 DEF Running
  <2> QED
    BY <2>1, <2>2
<1>8. \A e \in ran : /\ use[CallOf[e]].st \notin {"none", "pending"}
                     /\ use'[CallOf[e]].st \notin {"none", "pending"}
                     /\ use'[CallOf[e]].n = use[CallOf[e]].n
  <2> SUFFICES ASSUME NEW e \in ran
               PROVE  /\ use[CallOf[e]].st \notin {"none", "pending"}
                      /\ use'[CallOf[e]].st \notin {"none", "pending"}
                      /\ use'[CallOf[e]].n = use[CallOf[e]].n
    OBVIOUS
  <2> DEFINE u == CallOf[e]
  <2>1. u \in Calls /\ use[u].st \notin {"none", "pending"}
    BY DEF Running, ClientsTyped
  <2>2. Exists("hold", u)
    BY <2>1 DEF Running
  <2>3. ~(f.on = u /\ f.op = "hold")
    BY <1>0, <2>2 DEF Demanded
  <2> QED
    BY <1>1, <2>1, <2>3
<1>9. ASSUME ran' # ran
      PROVE  /\ c \in Execs /\ ran' = ran \cup {c}
             /\ f.op = "start" /\ f.on = CallOf[c]
             /\ use[CallOf[c]].st = "pending" /\ use'[CallOf[c]].st = "started"
  <2>1. c \in Execs /\ pc'[c] = "calling" /\ ran' = ran \cup {c}
    BY <1>4, <1>9
  <2>2. f.op = "start" /\ f.on = CallOf[c] /\ use[CallOf[c]].st = "pending"
    BY <1>0, <1>3, <1>5, <2>1 DEF Demanded
  <2>3. use' = [use EXCEPT ![CallOf[c]].st = "started"]
    BY <1>0, <2>2 DEF Projected, AccountNoted, ChildReserved, ReservationCommitted,
         ReservationReleased, ChildTokensDecided, UsageCharged, UsageReserved,
         UsageStarted, UsageEnded
  <2> QED
    BY <2>1, <2>2, <2>3 DEF Books, BooksTyped
<1>10. \A e \in ran' : use'[CallOf[e]].st \notin {"none", "pending"}
  BY <1>8, <1>9
<1>11. \A e1, e2 \in ran' : CallOf[e1] = CallOf[e2] => e1 = e2
  BY <1>8, <1>9 DEF Running, CallsAreFunded
<1>12. ASSUME NEW e \in Execs, pc'[e] \in {"calling", "balance"}
       PROVE  LET u == CallOf[e] IN
              \/ use'[u].st = "started"
              \/ Fa("settle", u, use'[u].n) \in facts'
  <2> DEFINE u == CallOf[e]
  <2>1. CASE e = c
    <3>1. pc[c] = "starting" /\ pc'[c] = "calling"
      BY <1>3, <1>12, <2>1
    <3>2. f.op = "start" /\ f.on = u /\ use[u].st = "pending"
      BY <1>0, <1>5, <2>1, <3>1 DEF Demanded
    <3>3. use' = [use EXCEPT ![u].st = "started"]
      BY <1>0, <3>2 DEF Projected, AccountNoted, ChildReserved, ReservationCommitted,
         ReservationReleased, ChildTokensDecided, UsageCharged, UsageReserved,
         UsageStarted, UsageEnded
    <3> QED
      BY <3>3 DEF Books, BooksTyped
  <2>2. CASE e # c
    <3>1. pc[e] \in {"calling", "balance"} /\ e \in ran
      BY <1>2, <1>12, <2>2 DEF Running, CalledPcs
    <3>2. use'[u].n = use[u].n /\ use[u].st \notin {"none", "pending"}
      BY <1>8, <3>1
    <3>3. use[u].st = "started" \/ Fa("settle", u, use[u].n) \in facts
      BY <3>1 DEF Running, CallsAreFunded
    <3>4. CASE Fa("settle", u, use[u].n) \in facts
      BY <3>2, <3>4 DEF Recorded
    <3>5. CASE use[u].st = "started" /\ use'[u].st # "started"
      <4>1. f.on = u /\ f.op = "settle"
        BY <1>1, <1>8, <3>1, <3>2, <3>5
      <4>2. c \in Execs /\ CallOf[c] = u
        BY <4>1 DEF Placed, OnCall
      <4>3. pc[c] # "settling"
        BY <2>2, <3>1, <4>2 DEF Running, CalledPcs, CallsAreFunded
      <4>4. f.n = use[u].n
        BY <4>1, <4>2, <4>3 DEF Placed
      <4>5. f = Fa("settle", u, use'[u].n)
        BY <1>0, <3>2, <4>1, <4>4 DEF Fact, Fa
      <4> QED
        BY <4>5 DEF Recorded
    <3> QED
      BY <3>3, <3>4, <3>5
  <2> QED
    BY <2>1, <2>2
<1> QED
  BY <1>6, <1>7, <1>10, <1>11, <1>12 DEF Running, CallsAreFunded

(* At most one execution made the call, and its hold is there while it     *)
(* runs.                                                                   *)
LEMMA RunningStays ==
    ASSUME Books, ClientsTyped, Placed, Running, [Next]_vars
    PROVE  Running'
<1> USE BudgetLedgerAssumption
<1>1. ASSUME NEW c \in Clients, NEW r, Answered(c, r), UNCHANGED ledger,
             c \in Execs /\ pc[c] = "starting" => r # "ok"
      PROVE  Running'
  <2>1. /\ \A e \in Execs : e # c => pc'[e] = pc[e]
        /\ c \in Execs => pc'[c] \notin CalledPcs
        /\ ran' = ran
    BY <1>1, AnswerToOne DEF CalledPcs
  <2>2. \A e \in Execs : /\ pc'[e] \in CalledPcs => pc[e] \in CalledPcs
                         /\ pc'[e] \in {"calling", "balance"} =>
                               pc[e] \in {"calling", "balance"}
    BY <2>1 DEF CalledPcs
  <2> QED
    BY <1>1, <2>1, <2>2, RunningStill
<1>2. ASSUME NEW c \in Execs \cup {"saga"}, Begin(c) \/ LoadFails(c)
      PROVE  Running'
  <2>1. c \in Asking /\ c \in Clients
    BY <1>2, AskingIsClient DEF Begin, LoadFails
  <2>2. CASE UNCHANGED <<ledger, exec>>
    BY <2>2, RunningStill DEF exec
  <2>3. CASE Answered(c, "no") /\ UNCHANGED ledger
    BY <1>1, <2>1, <2>3
  <2>4. CASE Answered(c, Verdict(Wanted(c))) /\ UNCHANGED ledger
    <3>1. c \in Execs /\ pc[c] = "starting" => Verdict(Wanted(c)) # "ok"
      BY DEF Verdict, Wanted, ExecWants, Fa
    <3> QED
      BY <1>1, <2>1, <2>4, <3>1
  <2> QED
    BY <1>2, <2>2, <2>3, <2>4 DEF Begin, LoadFails
<1>3. CASE \/ \E f \in Requests : BeginRequest(f)
           \/ \E a \in Agents, n \in 1 .. MaxAsk : BeginAdmission(a, n)
  BY <1>3, RunningStill DEF BeginRequest, BeginAdmission, exec
<1>4. ASSUME NEW s \in Services, Append(s) \/ AppendConflicts(s) \/ AppendFails(s)
      PROVE  Running'
  <2>1. op[s].by \in Clients
    <3>1. op[s] # Idle
      BY <1>4 DEF Append, AppendConflicts, AppendFails, Idle
    <3> QED
      BY <3>1 DEF Books, OpsTyped, Loaded
  <2>2. CASE op[s].fresh /\ Recorded(s)
    BY <1>4, <2>2, RunningRecorded DEF Append, AppendConflicts, AppendFails
  <2>3. CASE AppendConflicts(s)
    <3>1. op[s].by \in Execs /\ pc[op[s].by] = "starting" => Verdict(op[s].f) # "ok"
      BY DEF Placed, Suits, Verdict
    <3> QED
      BY <1>1, <2>1, <2>3, <3>1 DEF AppendConflicts
  <2>4. CASE AppendFails(s) /\ UNCHANGED ledger
    <3>1. PICK r : Answered(op[s].by, r) /\ r # "ok"
      BY <2>4 DEF AppendFails
    <3> QED
      BY <1>1, <2>1, <2>4, <3>1
  <2> QED
    BY <1>4, <2>2, <2>3, <2>4 DEF Append, AppendFails
<1>5. ASSUME NEW e \in Execs, Admit(e) \/ Cancel(e) \/ GiveUp(e) \/ Permit(e)
             \/ CallEnds(e) \/ Overage(e) \/ BalanceRead(e) \/ BalanceReadFails(e)
      PROVE  Running'
  <2>1. UNCHANGED <<ledger, ran>>
    BY <1>5 DEF Admit, Cancel, GiveUp, Permit, CallEnds, Overage, BalanceRead,
                BalanceReadFails, exec
  <2>2. \A d \in Execs : d # e => pc'[d] = pc[d]
    BY <1>5 DEF Admit, Cancel, GiveUp, Permit, CallEnds, Overage, BalanceRead,
                BalanceReadFails, exec, ClientsTyped
  <2>3. /\ pc'[e] \in CalledPcs => pc[e] \in CalledPcs
        /\ pc'[e] \in {"calling", "balance"} => pc[e] \in {"calling", "balance"}
    <3> USE DEF ClientsTyped, CalledPcs
    <3>1. CASE Admit(e) \/ GiveUp(e) \/ Permit(e)
      BY <3>1 DEF Admit, GiveUp, Permit
    <3>2. CASE CallEnds(e) \/ Overage(e)
      BY <3>2 DEF CallEnds, Overage
    <3>3. CASE BalanceRead(e) \/ BalanceReadFails(e)
      BY <3>3 DEF BalanceRead, BalanceReadFails
    <3>4. CASE Cancel(e)
      BY <3>4 DEF Cancel, exec
    <3> QED
      BY <1>5, <3>1, <3>2, <3>3, <3>4
  <2> QED
    BY <2>1, <2>2, <2>3, RunningStill
<1>6. CASE CreateStep
  BY <1>6, RunningStill DEF CreateStep, Create, CancelCreate, Converged, exec
<1>7. ASSUME NEW s \in Services, Crash(s)
      PROVE  Running'
  <2>1. \A e \in Execs : pc'[e] = "dead" \/ pc'[e] = pc[e]
    BY <1>7 DEF Crash
  <2>2. UNCHANGED <<ledger, ran>>
    BY <1>7 DEF Crash
  <2> QED
    BY <2>1, <2>2, RunningStill DEF CalledPcs
<1>8. CASE UNCHANGED vars
  BY <1>8, RunningStill DEF vars, exec
<1> QED
  BY <1>2, <1>3, <1>4, <1>5, <1>6, <1>7, <1>8 DEF Next, ServiceStep, ExecStep

(* The invariant of the executions.                                        *)
LEMMA RunningHold == Spec => [](Placed /\ Running)
<1> DEFINE Sound == Placed /\ Running
<1>1. Init => Sound
  <2> SUFFICES ASSUME Init PROVE Sound
    OBVIOUS
  <2>1. Placed
    BY BudgetLedgerAssumption DEF Init, Placed, Idle, OnCall
  <2>2. Running
    BY BudgetLedgerAssumption DEF Init, Running, CallsAreFunded, CalledPcs
  <2> QED
    BY <2>1, <2>2
<1>2. Books /\ ClientsTyped /\ Sound /\ [Next]_vars => Sound'
  BY StaysPlaced, RunningStays
<1> QED
  BY <1>1, <1>2, BooksHold, PTL DEF Spec

(* One execution at most makes a call, whoever else starts, retries or     *)
(* gives it up, and its amount stays accounted for while it runs.          *)
THEOREM CallsAreFundedHolds == Spec => []CallsAreFunded
<1>1. Running => CallsAreFunded
  BY DEF Running
<1> QED
  BY <1>1, RunningHold, PTL

-----------------------------------------------------------------------------
(* Of the books and the facts: each status is the one its facts tell, and  *)
(* no grant is decided or committed for an agent that does not exist.      *)
Told ==
    /\ \A c \in Kids :
          /\ Exists("reserve", c) <=> res[c] # "none"
          /\ Exists("commit", c) \/ Exists("release", c) =>
                res[c] \in {"committed", "released"}
          /\ res[c] = "committed" => c \in dir
          /\ limit[c] # Limit[c] => c \in dir /\ res[c] # "none"
    /\ \A u \in Calls :
          /\ Exists("hold", u) <=> use[u].st # "none"
          /\ Exists("start", u) => use[u].st \notin {"none", "pending"}
          /\ Exists("settle", u) \/ Exists("drop", u) =>
                use[u].st \in {"settled", "released"}
    /\ facts \subseteq Fact

(* What one fact does to the reservation of a kid.                         *)
LEMMA GrantMoves ==
    ASSUME BooksTyped, NEW f, Proper(f), Demanded(f), Projected(f), NEW c \in Kids
    PROVE  /\ \/ res'[c] = res[c] /\ ~(f.on = c /\ f.op \in {"reserve", "commit", "release"})
              \/ f.on = c /\ f.op = "reserve" /\ res'[c] = "pending"
              \/ f.on = c /\ f.op = "commit" /\ res[c] = "pending" /\ res'[c] = "committed"
              \/ f.on = c /\ f.op = "release" /\ res[c] = "pending" /\ res'[c] = "released"
           /\ \/ limit'[c] = limit[c]
              \/ f.on = c /\ f.op = "decide" /\ Status(c) = "committed"
<1> USE BudgetLedgerAssumption DEF BooksTyped, Proper, OnKid
<1>1. CASE f.op \in {"grant", "close"}
  BY <1>1 DEF Projected, AccountNoted, ChildReserved, ReservationCommitted,
         ReservationReleased, ChildTokensDecided, UsageCharged, UsageReserved,
         UsageStarted, UsageEnded, accounts
<1>2. CASE f.op \in {"reserve", "commit", "release", "decide"}
  BY <1>2 DEF Projected, AccountNoted, ChildReserved, ReservationCommitted,
         ReservationReleased, ChildTokensDecided, UsageCharged, UsageReserved,
         UsageStarted, UsageEnded, Demanded
<1>3. CASE f.op \in {"admit", "observe", "hold", "start", "settle", "drop"}
  BY <1>3 DEF Projected, AccountNoted, ChildReserved, ReservationCommitted,
         ReservationReleased, ChildTokensDecided, UsageCharged, UsageReserved,
         UsageStarted, UsageEnded
<1> QED
  BY <1>1, <1>2, <1>3 DEF Fact, Ops

(* The fact on a call always moves its hold.                               *)
LEMMA HoldMovesByFact ==
    ASSUME BooksTyped, NEW f, Proper(f), Demanded(f), Projected(f), NEW u \in Calls,
           f.op \in OnCall, f.on = u
    PROVE  use'[u].st = CASE f.op = "hold"   -> "pending"
                          [] f.op = "start"  -> "started"
                          [] f.op = "settle" -> "settled"
                          [] f.op = "drop"   -> "released"
<1> USE DEF BooksTyped, OnCall
<1>1. CASE f.op = "hold"
  BY <1>1 DEF Projected, AccountNoted, ChildReserved, ReservationCommitted,
         ReservationReleased, ChildTokensDecided, UsageCharged, UsageReserved,
         UsageStarted, UsageEnded
<1>2. CASE f.op = "start"
  BY <1>2 DEF Projected, AccountNoted, ChildReserved, ReservationCommitted,
         ReservationReleased, ChildTokensDecided, UsageCharged, UsageReserved,
         UsageStarted, UsageEnded
<1>3. CASE f.op \in {"settle", "drop"}
  BY <1>3 DEF Projected, AccountNoted, ChildReserved, ReservationCommitted,
         ReservationReleased, ChildTokensDecided, UsageCharged, UsageReserved,
         UsageStarted, UsageEnded
<1> QED
  BY <1>1, <1>2, <1>3

(* A fact that is recorded tells its status.                               *)
LEMMA ToldRecorded ==
    ASSUME BooksTyped, Told, UNCHANGED dir, NEW s \in Services, Recorded(s),
           Proper(op[s].f), Demanded(op[s].f)
    PROVE  Told'
<1> DEFINE f == op[s].f
<1> USE BudgetLedgerAssumption
<1>0. Projected(f) /\ f \in Fact
  BY DEF Recorded, Proper
<1>1. ASSUME NEW c \in Kids
      PROVE  /\ Exists("reserve", c)' <=> res'[c] # "none"
             /\ Exists("commit", c)' \/ Exists("release", c)' =>
                   res'[c] \in {"committed", "released"}
             /\ res'[c] = "committed" => c \in dir
             /\ limit'[c] # Limit[c] => c \in dir /\ res'[c] # "none"
  <2>1. /\ Exists("reserve", c) <=> res[c] # "none"
        /\ Exists("commit", c) \/ Exists("release", c) =>
              res[c] \in {"committed", "released"}
        /\ res[c] = "committed" => c \in dir
        /\ limit[c] # Limit[c] => c \in dir /\ res[c] # "none"
    BY DEF Told
  <2>2. /\ \/ res'[c] = res[c] /\ ~(f.on = c /\ f.op \in {"reserve", "commit", "release"})
           \/ f.on = c /\ f.op = "reserve" /\ res'[c] = "pending"
           \/ f.on = c /\ f.op = "commit" /\ res[c] = "pending" /\ res'[c] = "committed"
           \/ f.on = c /\ f.op = "release" /\ res[c] = "pending" /\ res'[c] = "released"
        /\ \/ limit'[c] = limit[c]
           \/ f.on = c /\ f.op = "decide" /\ Status(c) = "committed"
    BY <1>0, GrantMoves
  <2>3. /\ Exists("reserve", c)' <=> Exists("reserve", c) \/ (f.op = "reserve" /\ f.on = c)
        /\ Exists("commit", c)' <=> Exists("commit", c) \/ (f.op = "commit" /\ f.on = c)
        /\ Exists("release", c)' <=> Exists("release", c) \/ (f.op = "release" /\ f.on = c)
    BY FactsGrow
  <2>4. f.op = "commit" => f.on \in dir
    BY DEF Demanded
  <2>5. f.op = "reserve" /\ f.on = c => ~Exists("reserve", c)
    BY DEF Demanded
  <2>6. Status(c) = "committed" => c \in dir /\ res[c] # "none"
    BY <2>1 DEF Status
  <2> HIDE DEF f
  <2> QED
    BY <2>1, <2>2, <2>3, <2>4, <2>5, <2>6
<1>2. ASSUME NEW u \in Calls
      PROVE  /\ Exists("hold", u)' <=> use'[u].st # "none"
             /\ Exists("start", u)' => use'[u].st \notin {"none", "pending"}
             /\ Exists("settle", u)' \/ Exists("drop", u)' =>
                   use'[u].st \in {"settled", "released"}
  <2>1. /\ Exists("hold", u) <=> use[u].st # "none"
        /\ Exists("start", u) => use[u].st \notin {"none", "pending"}
        /\ Exists("settle", u) \/ Exists("drop", u) =>
              use[u].st \in {"settled", "released"}
    BY DEF Told
  <2>2. \/ use'[u] = use[u]
        \/ f.on = u /\ f.op = "hold" /\ use'[u].st = "pending"
        \/ /\ f.on = u /\ f.op = "start" /\ use[u].st = "pending"
           /\ use'[u].st = "started" /\ use'[u].n = use[u].n
        \/ /\ f.on = u /\ f.op = "drop" /\ use[u].st = "pending"
           /\ use'[u].st = "released" /\ use'[u].n = use[u].n
        \/ /\ f.on = u /\ f.op = "settle" /\ use[u].st = "started"
           /\ use'[u].st = "settled" /\ use'[u].n = use[u].n
    BY <1>0, HoldMoves
  <2>3. /\ Exists("hold", u)' <=> Exists("hold", u) \/ (f.op = "hold" /\ f.on = u)
        /\ Exists("start", u)' <=> Exists("start", u) \/ (f.op = "start" /\ f.on = u)
        /\ Exists("settle", u)' <=> Exists("settle", u) \/ (f.op = "settle" /\ f.on = u)
        /\ Exists("drop", u)' <=> Exists("drop", u) \/ (f.op = "drop" /\ f.on = u)
    BY FactsGrow
  <2>4. f.op = "hold" /\ f.on = u => ~Exists("hold", u)
    BY DEF Demanded
  <2>5. f.op \in {"hold", "start", "settle", "drop"} /\ f.on = u =>
           use'[u].st = CASE f.op = "hold"   -> "pending"
                          [] f.op = "start"  -> "started"
                          [] f.op = "settle" -> "settled"
                          [] f.op = "drop"   -> "released"
    BY <1>0, HoldMovesByFact DEF OnCall
  <2> HIDE DEF f
  <2> QED
    BY <2>1, <2>2, <2>3, <2>4, <2>5
<1>3. facts' \subseteq Fact
  BY <1>0 DEF Recorded, Told
<1> QED
  BY <1>1, <1>2, <1>3 DEF Told

(* Nothing is told by a step that records nothing.                         *)
LEMMA ToldStill ==
    ASSUME Told, UNCHANGED ledger, dir \subseteq dir'
    PROVE  Told'
BY DEF Told, Exists, ledger, accounts

LEMMA ToldStays ==
    ASSUME Books, ClientsTyped, Told, [Next]_vars
    PROVE  Told'
<1>1. Recording \/ Quiet
  BY EveryStepIsOne
<1>2. CASE Quiet
  BY <1>2, ToldStill DEF Quiet
<1>3. CASE Recording
  <2>1. PICK s \in Services : op[s].fresh /\ Recorded(s) /\ UNCHANGED dir
    BY <1>3 DEF Recording
  <2>2. Proper(op[s].f) /\ Demanded(op[s].f)
    <3>1. op[s] # Idle
      BY <2>1 DEF Idle
    <3> QED
      BY <2>1, <3>1 DEF Books, OpsTyped, LoadedIsCurrent, Loaded
  <2> QED
    BY <2>1, <2>2, ToldRecorded DEF Books
<1> QED
  BY <1>1, <1>2, <1>3

-----------------------------------------------------------------------------
(* Units of the same amounts are the same.                                 *)
LEMMA UnitsAgree ==
    ASSUME NEW S, NEW n, NEW m, \A x \in S : m[x] = n[x]
    PROVE  Units(m, S) = Units(n, S)
BY DEF Units

(* A new member brings its amount.                                         *)
LEMMA UnitsOneMore ==
    ASSUME NEW S, NEW x, x \notin S, NEW n, n[x] \in Nat, IsFiniteSet(Units(n, S))
    PROVE  /\ IsFiniteSet(Units(n, S \cup {x}))
           /\ Cardinality(Units(n, S \cup {x})) = Cardinality(Units(n, S)) + n[x]
<1> DEFINE new == {x} \X (1 .. n[x])
           old == Units(n, S)
<1>1. Units(n, S \cup {x}) = old \cup new
  BY DEF Units
<1>2. IsFiniteSet(new) /\ Cardinality(new) = n[x]
  <2>1. IsFiniteSet(1 .. n[x]) /\ Cardinality(1 .. n[x]) = n[x]
    <3>1. IsFiniteSet(1 .. n[x])
      BY FS_Interval
    <3>2. Cardinality(1 .. n[x]) = n[x]
      BY FS_Interval
    <3> QED
      BY ONLY <3>1, <3>2
  <2>2. IsFiniteSet({x}) /\ Cardinality({x}) = 1
    BY FS_Singleton
  <2>3. IsFiniteSet(new) /\ Cardinality(new) = Cardinality({x}) * Cardinality(1 .. n[x])
    <3> DEFINE one == {x}
               amount == 1 .. n[x]
    <3>1. IsFiniteSet(one) /\ IsFiniteSet(amount) /\ new = one \X amount
      BY <2>1, <2>2
    <3> SUFFICES IsFiniteSet(new) /\ Cardinality(new) = Cardinality(one) * Cardinality(amount)
      OBVIOUS
    <3> HIDE DEF new, one, amount
    <3> QED
      BY ONLY <3>1, FS_Product
  <2> HIDE DEF new
  <2> QED
    BY <2>1, <2>2, <2>3
<1>3. old \cap new = {}
  BY DEF Units
<1>4. Cardinality(old \cap new) = 0
  BY <1>3, FS_EmptySet
<1>5. Units(n, S) = old /\ IsFiniteSet(old)
  OBVIOUS
<1> HIDE DEF new, old
<1>6. /\ IsFiniteSet(old \cup new)
      /\ Cardinality(old \cup new) =
            Cardinality(old) + Cardinality(new) - Cardinality(old \cap new)
  BY <1>2, <1>5, FS_Union
<1>7. Cardinality(old) \in Nat
  BY <1>5, FS_CardinalityType
<1>8. Cardinality(old \cup new) = Cardinality(old) + n[x]
  BY <1>2, <1>4, <1>6, <1>7
<1> QED
  BY <1>1, <1>5, <1>6, <1>8

(* A member that leaves takes its amount along.                            *)
LEMMA UnitsOneLess ==
    ASSUME NEW S, NEW x \in S, NEW n, n[x] \in Nat, IsFiniteSet(Units(n, S))
    PROVE  /\ IsFiniteSet(Units(n, S \ {x}))
           /\ Cardinality(Units(n, S \ {x})) = Cardinality(Units(n, S)) - n[x]
<1> DEFINE rest == S \ {x}
<1>1. Units(n, rest) \subseteq Units(n, S)
  BY DEF Units
<1>2. IsFiniteSet(Units(n, rest))
  BY <1>1, FS_Subset
<1>3. rest \cup {x} = S /\ x \notin rest
  OBVIOUS
<1> HIDE DEF rest
<1>4. Cardinality(Units(n, rest \cup {x})) = Cardinality(Units(n, rest)) + n[x]
  BY <1>2, <1>3, UnitsOneMore
<1>5. Cardinality(Units(n, rest)) \in Nat /\ Cardinality(Units(n, S)) \in Nat
  BY <1>2, FS_CardinalityType
<1>6. Cardinality(Units(n, rest)) = Cardinality(Units(n, S)) - n[x]
  BY <1>3, <1>4, <1>5
<1> QED
  BY <1>2, <1>6 DEF rest

(* A member that grows brings what it grows by.                            *)
LEMMA UnitsGrow ==
    ASSUME NEW S, NEW x \in S, NEW n, NEW m, n[x] \in Nat, m[x] \in Nat,
           \A y \in S \ {x} : m[y] = n[y], IsFiniteSet(Units(n, S))
    PROVE  /\ IsFiniteSet(Units(m, S))
           /\ Cardinality(Units(m, S)) = Cardinality(Units(n, S)) - n[x] + m[x]
<1> DEFINE rest == S \ {x}
<1>1. /\ IsFiniteSet(Units(n, rest))
      /\ Cardinality(Units(n, rest)) = Cardinality(Units(n, S)) - n[x]
  BY UnitsOneLess
<1>2. Units(m, rest) = Units(n, rest)
  BY UnitsAgree
<1>3. rest \cup {x} = S /\ x \notin rest
  OBVIOUS
<1> HIDE DEF rest
<1>4. /\ IsFiniteSet(Units(m, rest \cup {x}))
      /\ Cardinality(Units(m, rest \cup {x})) = Cardinality(Units(m, rest)) + m[x]
  BY <1>1, <1>2, <1>3, UnitsOneMore
<1> QED
  BY <1>1, <1>2, <1>3, <1>4

-----------------------------------------------------------------------------
(* Of the amounts: what an account has reserved and delegated is the sum   *)
(* of its open holds and of the limits of the kids it has granted.         *)
Amounts == [u \in Calls |-> use[u].n]
Held(a) == Units(Amounts, OpenHolds(a))
Lent(a) == Units(limit, Granted(a))

Sums ==
    /\ limit \in [Agents -> Nat] /\ charged \in [Agents -> Nat]
    /\ \A a \in Agents :
          /\ IsFiniteSet(Held(a)) /\ reserved[a] = Cardinality(Held(a))
          /\ IsFiniteSet(Lent(a)) /\ delegated[a] = Cardinality(Lent(a))

(* A fact keeps the sum of the holds.                                      *)
LEMMA HeldRecorded ==
    ASSUME BooksTyped, Told, Sums, NEW f, Proper(f), Demanded(f), Projected(f),
           NEW a \in Agents
    PROVE  IsFiniteSet(Held(a))' /\ reserved'[a] = Cardinality(Held(a))'
<1> DEFINE S == OpenHolds(a)
           T == {u \in Calls : AgentOf[u] = a /\ use'[u].st \in {"pending", "started"}}
           n == [u \in Calls |-> use[u].n]
           m == [u \in Calls |-> use'[u].n]
<1> USE BudgetLedgerAssumption
<1>0. /\ Held(a) = Units(n, S) /\ Held(a)' = Units(m, T)
      /\ IsFiniteSet(Units(n, S)) /\ reserved[a] = Cardinality(Units(n, S))
  BY DEF Held, Amounts, OpenHolds, Sums
<1>1. /\ reserved \in [Agents -> Int]
      /\ \A u \in Calls : n[u] \in Nat /\ n[u] = use[u].n /\ m[u] = use'[u].n
      /\ S = {u \in Calls : AgentOf[u] = a /\ use[u].st \in {"pending", "started"}}
  BY DEF BooksTyped, OpenHolds
<1>2. \A u \in Calls :
        \/ use'[u] = use[u]
        \/ f.on = u /\ f.op = "hold" /\ use'[u].st = "pending"
        \/ /\ f.on = u /\ f.op = "start" /\ use[u].st = "pending"
           /\ use'[u].st = "started" /\ use'[u].n = use[u].n
        \/ /\ f.on = u /\ f.op = "drop" /\ use[u].st = "pending"
           /\ use'[u].st = "released" /\ use'[u].n = use[u].n
        \/ /\ f.on = u /\ f.op = "settle" /\ use[u].st = "started"
           /\ use'[u].st = "settled" /\ use'[u].n = use[u].n
  BY HoldMoves
<1>3. CASE f.op = "hold" /\ AgentOf[f.on] = a
  <2> DEFINE x == f.on
  <2>1. /\ x \in Calls /\ f.n \in Nat /\ use[x].st = "none"
    BY <1>3 DEF Proper, OnCall, Fact, Demanded, Told
  <2>2. use' = [use EXCEPT ![x] = [st |-> "pending", n |-> f.n]]
        /\ reserved' = [reserved EXCEPT ![a] = @ + f.n]
    BY <1>3 DEF Projected, AccountNoted, ChildReserved, ReservationCommitted,
         ReservationReleased, ChildTokensDecided, UsageCharged, UsageReserved,
         UsageStarted, UsageEnded
  <2>3. use'[x].st = "pending" /\ use'[x].n = f.n
        /\ reserved'[a] = reserved[a] + f.n
        /\ \A u \in Calls : u # x => use'[u] = use[u]
    BY <2>1, <2>2, <1>1 DEF BooksTyped
  <2>4. /\ x \notin S /\ T = S \cup {x} /\ m[x] = f.n
        /\ \A u \in S : m[u] = n[u]
    <3>1. x \notin S
      BY <1>1, <2>1
    <3>2. m[x] = f.n
      BY <1>1, <2>1, <2>3
    <3>3. \A u \in Calls : u # x => m[u] = n[u]
      BY <1>1, <2>3
    <3>4. x \in T
      BY <1>3, <2>1, <2>3
    <3>5. \A u \in Calls : u # x => (u \in T <=> u \in S)
      BY <1>1, <2>3
    <3>6. S \subseteq Calls /\ T \subseteq Calls
      BY <1>1
    <3> HIDE DEF S, T, n, m, x
    <3>7. T = S \cup {x}
      BY ONLY <2>1, <3>4, <3>5, <3>6
    <3> QED
      BY ONLY <3>1, <3>2, <3>3, <3>6, <3>7
  <2> HIDE DEF S, T, n, m, x
  <2>5. Units(m, S) = Units(n, S)
    BY <2>4, UnitsAgree
  <2>6. /\ IsFiniteSet(Units(m, S \cup {x}))
        /\ Cardinality(Units(m, S \cup {x})) = Cardinality(Units(m, S)) + m[x]
    <3>1. x \notin S /\ m[x] \in Nat
      BY ONLY <2>1, <2>4
    <3>2. IsFiniteSet(Units(m, S))
      BY ONLY <1>0, <2>5
    <3> QED
      BY ONLY <3>1, <3>2, UnitsOneMore, Zenon
  <2> QED
    BY <1>0, <2>3, <2>4, <2>5, <2>6
<1>4. CASE f.op \in {"settle", "drop"} /\ AgentOf[f.on] = a
  <2> DEFINE x == f.on
  <2>1. x \in Calls /\ use[x].st \in {"pending", "started"}
    BY <1>4 DEF Proper, OnCall, Demanded
  <2>2. /\ use' = [use EXCEPT ![x].st = IF f.op = "settle" THEN "settled" ELSE "released"]
        /\ reserved' = [reserved EXCEPT ![a] = @ - use[x].n]
    BY <1>4 DEF Projected, AccountNoted, ChildReserved, ReservationCommitted,
         ReservationReleased, ChildTokensDecided, UsageCharged, UsageReserved,
         UsageStarted, UsageEnded
  <2>3. /\ use'[x].st \notin {"pending", "started"} /\ use'[x].n = use[x].n
        /\ reserved'[a] = reserved[a] - n[x]
        /\ \A u \in Calls : u # x => use'[u] = use[u]
    BY <1>1, <2>1, <2>2 DEF BooksTyped
  <2>4. /\ x \in S /\ n[x] \in Nat /\ T = S \ {x} /\ m = n
    BY <1>1, <1>4, <2>1, <2>3
  <2> HIDE DEF S, T, n, m, x
  <2>5. /\ IsFiniteSet(Units(n, S \ {x}))
        /\ Cardinality(Units(n, S \ {x})) = Cardinality(Units(n, S)) - n[x]
    BY <1>0, <2>4, UnitsOneLess
  <2> QED
    BY <1>0, <2>3, <2>4, <2>5
<1>5. CASE ~(f.op \in {"hold", "settle", "drop"} /\ AgentOf[f.on] = a)
  <2>1. reserved'[a] = reserved[a]
    <3>1. CASE f.op \in {"hold", "settle", "drop"}
      <4>1. f.on \in Calls /\ AgentOf[f.on] # a
        BY <1>5, <3>1 DEF Proper, OnCall
      <4>2. \E v : reserved' = [reserved EXCEPT ![AgentOf[f.on]] = v]
        BY <3>1 DEF Projected, AccountNoted, ChildReserved, ReservationCommitted,
         ReservationReleased, ChildTokensDecided, UsageCharged, UsageReserved,
         UsageStarted, UsageEnded
      <4> QED
        BY <1>1, <4>1, <4>2
    <3>2. CASE f.op \notin {"hold", "settle", "drop"}
      BY <3>2 DEF Projected, AccountNoted, ChildReserved, ReservationCommitted,
         ReservationReleased, ChildTokensDecided, UsageCharged, UsageReserved,
         UsageStarted, UsageEnded, accounts
    <3> QED
      BY <3>1, <3>2
  <2>2. T = S /\ \A u \in S : m[u] = n[u]
    BY <1>1, <1>2, <1>5
  <2> HIDE DEF S, T, n, m
  <2>3. Units(m, S) = Units(n, S)
    BY <2>2, UnitsAgree
  <2> QED
    BY <1>0, <2>1, <2>2, <2>3
<1> QED
  BY <1>3, <1>4, <1>5

(* A fact keeps the sum of the grants.                                     *)
LEMMA LentRecorded ==
    ASSUME BooksTyped, Told, Sums, NEW f, Proper(f), Demanded(f), Projected(f),
           f.op = "release" => f.on \notin dir, NEW a \in Agents
    PROVE  IsFiniteSet(Lent(a))' /\ delegated'[a] = Cardinality(Lent(a))'
<1> DEFINE S == Granted(a)
           T == {c \in Kids : Parent[c] = a /\ res'[c] \in {"pending", "committed"}}
<1> USE BudgetLedgerAssumption
<1>0. /\ Lent(a) = Units(limit, S) /\ Lent(a)' = Units(limit', T)
      /\ IsFiniteSet(Units(limit, S)) /\ delegated[a] = Cardinality(Units(limit, S))
  BY DEF Lent, Granted, Sums
<1>1. /\ delegated \in [Agents -> Int] /\ limit \in [Agents -> Nat]
      /\ S = {c \in Kids : Parent[c] = a /\ res[c] \in {"pending", "committed"}}
  BY DEF BooksTyped, Granted, Sums
<1>2. \A c \in Kids :
        /\ \/ res'[c] = res[c] /\ ~(f.on = c /\ f.op \in {"reserve", "commit", "release"})
           \/ f.on = c /\ f.op = "reserve" /\ res'[c] = "pending"
           \/ f.on = c /\ f.op = "commit" /\ res[c] = "pending" /\ res'[c] = "committed"
           \/ f.on = c /\ f.op = "release" /\ res[c] = "pending" /\ res'[c] = "released"
        /\ \/ limit'[c] = limit[c]
           \/ f.on = c /\ f.op = "decide" /\ Status(c) = "committed"
  BY GrantMoves
<1>3. CASE f.op = "reserve" /\ Parent[f.on] = a
  <2> DEFINE x == f.on
  <2>1. /\ x \in Kids /\ res[x] = "none"
        /\ limit[x] = Limit[x]
    BY <1>3 DEF Proper, OnKid, Demanded, Told
  <2>2. /\ limit' = limit /\ delegated' = [delegated EXCEPT ![a] = @ + Limit[x]]
        /\ res' = [res EXCEPT ![x] = "pending"]
    BY <1>3 DEF Projected, AccountNoted, ChildReserved, ReservationCommitted,
         ReservationReleased, ChildTokensDecided, UsageCharged, UsageReserved,
         UsageStarted, UsageEnded
  <2>3. /\ delegated'[a] = delegated[a] + limit[x] /\ limit[x] \in Nat
        /\ res'[x] = "pending" /\ \A c \in Kids : c # x => res'[c] = res[c]
    BY <1>1, <2>1, <2>2 DEF BooksTyped
  <2>4. x \notin S /\ T = S \cup {x}
    BY <1>1, <1>3, <2>1, <2>3
  <2> HIDE DEF S, T, x
  <2>5. /\ IsFiniteSet(Units(limit, S \cup {x}))
        /\ Cardinality(Units(limit, S \cup {x})) = Cardinality(Units(limit, S)) + limit[x]
    BY <1>0, <2>3, <2>4, UnitsOneMore
  <2> QED
    BY <1>0, <2>2, <2>3, <2>4, <2>5
<1>4. CASE f.op = "release" /\ Parent[f.on] = a
  <2> DEFINE x == f.on
  <2>1. /\ x \in Kids /\ res[x] = "pending"
        /\ limit[x] = Limit[x]
    BY <1>4 DEF Proper, OnKid, Demanded, Told
  <2>2. /\ limit' = limit /\ delegated' = [delegated EXCEPT ![a] = @ - Limit[x]]
        /\ res' = [res EXCEPT ![x] = "released"]
    BY <1>4 DEF Projected, AccountNoted, ChildReserved, ReservationCommitted,
         ReservationReleased, ChildTokensDecided, UsageCharged, UsageReserved,
         UsageStarted, UsageEnded
  <2>3. /\ delegated'[a] = delegated[a] - limit[x] /\ limit[x] \in Nat
        /\ res'[x] = "released" /\ \A c \in Kids : c # x => res'[c] = res[c]
    BY <1>1, <2>1, <2>2 DEF BooksTyped
  <2>4. x \in S /\ T = S \ {x}
    BY <1>1, <1>4, <2>1, <2>3
  <2> HIDE DEF S, T, x
  <2>5. /\ IsFiniteSet(Units(limit, S \ {x}))
        /\ Cardinality(Units(limit, S \ {x})) = Cardinality(Units(limit, S)) - limit[x]
    BY <1>0, <2>3, <2>4, UnitsOneLess
  <2> QED
    BY <1>0, <2>2, <2>3, <2>4, <2>5
<1>5. CASE f.op = "decide" /\ Parent[f.on] = a
  <2> DEFINE x == f.on
  <2>1. /\ x \in Kids /\ res[x] \in {"pending", "committed"} /\ f.n \in Nat
    BY <1>5 DEF Proper, OnKid, Fact, Demanded, Status
  <2>2. /\ limit' = [limit EXCEPT ![x] = @ + f.n]
        /\ delegated' = [delegated EXCEPT ![a] = @ + f.n]
        /\ res' = res
    BY <1>5 DEF Projected, AccountNoted, ChildReserved, ReservationCommitted,
         ReservationReleased, ChildTokensDecided, UsageCharged, UsageReserved,
         UsageStarted, UsageEnded
  <2>3. /\ delegated'[a] = delegated[a] + f.n
        /\ limit[x] \in Nat /\ limit'[x] = limit[x] + f.n /\ limit'[x] \in Nat
        /\ \A c \in Kids : c # x => limit'[c] = limit[c]
    BY <1>1, <2>1, <2>2
  <2>4. x \in S /\ T = S /\ \A c \in S \ {x} : limit'[c] = limit[c]
    BY <1>1, <1>5, <2>1, <2>2, <2>3
  <2> HIDE DEF S, T, x
  <2>5. /\ IsFiniteSet(Units(limit', S))
        /\ Cardinality(Units(limit', S)) = Cardinality(Units(limit, S)) - limit[x] + limit'[x]
    BY <1>0, <2>3, <2>4, UnitsGrow
  <2>6. Cardinality(Units(limit, S)) \in Nat
    BY <1>0, FS_CardinalityType
  <2> QED
    BY <1>0, <2>1, <2>3, <2>4, <2>5, <2>6
<1>6. CASE ~(f.op \in {"reserve", "release", "decide"} /\ Parent[f.on] = a)
  <2>1. delegated'[a] = delegated[a]
    <3>1. CASE f.op \in {"reserve", "release", "decide"}
      <4>1. f.on \in Kids /\ Parent[f.on] # a
        BY <1>6, <3>1 DEF Proper, OnKid
      <4>2. \E v : delegated' = [delegated EXCEPT ![Parent[f.on]] = v]
        BY <3>1 DEF Projected, AccountNoted, ChildReserved, ReservationCommitted,
         ReservationReleased, ChildTokensDecided, UsageCharged, UsageReserved,
         UsageStarted, UsageEnded
      <4> QED
        BY <1>1, <4>1, <4>2
    <3>2. CASE f.op \notin {"reserve", "release", "decide"}
      BY <3>2 DEF Projected, AccountNoted, ChildReserved, ReservationCommitted,
         ReservationReleased, ChildTokensDecided, UsageCharged, UsageReserved,
         UsageStarted, UsageEnded, accounts
    <3> QED
      BY <3>1, <3>2
  <2>2. T = S /\ \A c \in S : limit'[c] = limit[c]
    BY <1>1, <1>2, <1>6
  <2> HIDE DEF S, T
  <2>3. Units(limit', S) = Units(limit, S)
    BY <2>2, UnitsAgree
  <2> QED
    BY <1>0, <2>1, <2>2, <2>3
<1> QED
  BY <1>3, <1>4, <1>5, <1>6

(* The limits and charges only grow.                                       *)
LEMMA AmountsGrow ==
    ASSUME BooksTyped, Sums, NEW f, Proper(f), Projected(f)
    PROVE  limit' \in [Agents -> Nat] /\ charged' \in [Agents -> Nat]
<1> USE BudgetLedgerAssumption DEF BooksTyped, Proper, OnKid, OnAccount, OnCall, Fact
<1>1. limit \in [Agents -> Nat] /\ charged \in [Agents -> Nat] /\ f.n \in Nat
  BY DEF Sums
<1>2. limit' \in [Agents -> Nat]
  BY <1>1 DEF Projected, AccountNoted, ChildReserved, ReservationCommitted,
         ReservationReleased, ChildTokensDecided, UsageCharged, UsageReserved,
         UsageStarted, UsageEnded, accounts
<1>3. charged' \in [Agents -> Nat]
  BY <1>1 DEF Projected, AccountNoted, ChildReserved, ReservationCommitted,
         ReservationReleased, ChildTokensDecided, UsageCharged, UsageReserved,
         UsageStarted, UsageEnded, accounts
<1> QED
  BY <1>2, <1>3

LEMMA SumsStay ==
    ASSUME Books, ClientsTyped, ReleasesAreLate, Told, Sums, [Next]_vars
    PROVE  Sums'
<1>1. Recording \/ Quiet
  BY EveryStepIsOne
<1>2. CASE Quiet
  BY <1>2 DEF Quiet, Sums, Held, Lent, Amounts, OpenHolds, Granted, ledger, accounts
<1>3. CASE Recording
  <2>1. PICK s \in Services : op[s].fresh /\ Recorded(s) /\ UNCHANGED dir
    BY <1>3 DEF Recording
  <2> DEFINE f == op[s].f
  <2>2. Proper(f) /\ Demanded(f) /\ Projected(f)
    <3>1. op[s] # Idle
      BY <2>1 DEF Idle
    <3> QED
      BY <2>1, <3>1 DEF Books, OpsTyped, LoadedIsCurrent, Loaded, Recorded
  <2>3. f.op = "release" => f.on \notin dir
    BY DEF ReleasesAreLate
  <2> HIDE DEF f
  <2>4. limit' \in [Agents -> Nat] /\ charged' \in [Agents -> Nat]
    BY <2>2, AmountsGrow DEF Books
  <2>5. ASSUME NEW a \in Agents
        PROVE  /\ IsFiniteSet(Held(a))' /\ reserved'[a] = Cardinality(Held(a))'
               /\ IsFiniteSet(Lent(a))' /\ delegated'[a] = Cardinality(Lent(a))'
    BY <2>2, <2>3, HeldRecorded, LentRecorded DEF Books
  <2> QED
    BY <2>4, <2>5 DEF Sums
<1> QED
  BY <1>1, <1>2, <1>3

LEMMA BooksAdd == Spec => [](Told /\ Sums)
<1>1. Init => Told /\ Sums
  <2> SUFFICES ASSUME Init PROVE Told /\ Sums
    OBVIOUS
  <2> USE BudgetLedgerAssumption DEF Init
  <2>1. Told
    BY DEF Told, Exists
  <2>2. ASSUME NEW a \in Agents
        PROVE  Held(a) = {} /\ Lent(a) = {}
    BY DEF Held, Lent, Units, OpenHolds, Granted
  <2>3. Sums
    BY <2>2, FS_EmptySet DEF Sums
  <2> QED
    BY <2>1, <2>3
<1>2. /\ Books /\ ClientsTyped /\ ReleasesAreLate /\ Told /\ Sums /\ [Next]_vars
      => (Told /\ Sums)'
  BY ToldStays, SumsStay
<1> QED
  BY <1>1, <1>2, BooksHold, ReleasesHold, PTL DEF Spec

(* The Directory, the cancelled and the kid of the create() keep their     *)
(* types.                                                                  *)
Outline ==
    /\ dir \subseteq Agents
    /\ cancelled \subseteq Execs
    /\ kid \in Kids \cup {"nobody"}

LEMMA OutlineStays ==
    ASSUME ClientsTyped, Outline, [Next]_vars
    PROVE  Outline'
<1> USE BudgetLedgerAssumption
<1>1. ASSUME NEW c, NEW r, Answered(c, r), UNCHANGED <<dir, cancelled>>
      PROVE  Outline'
  BY <1>1 DEF Answered, Outline
<1>2. ASSUME NEW c \in Execs \cup {"saga"}, Begin(c) \/ LoadFails(c)
      PROVE  Outline'
  BY <1>1, <1>2 DEF Begin, LoadFails, Outline, creation
<1>3. CASE \/ \E f \in Requests : BeginRequest(f)
           \/ \E a \in Agents, n \in 1 .. MaxAsk : BeginAdmission(a, n)
  BY <1>3 DEF BeginRequest, BeginAdmission, Outline, creation
<1>4. ASSUME NEW s \in Services, Append(s) \/ AppendConflicts(s) \/ AppendFails(s)
      PROVE  Outline'
  BY <1>1, <1>4 DEF Append, AppendConflicts, AppendFails
<1>5. CASE ExecStep
  BY <1>5 DEF ExecStep, Admit, Cancel, GiveUp, Permit, CallEnds, Overage,
              BalanceRead, BalanceReadFails, Outline, creation
<1>6. CASE CreateStep
  BY <1>6 DEF CreateStep, Create, CancelCreate, Converged, Outline, ClientsTyped
<1>7. ASSUME NEW s \in Services, Crash(s)
      PROVE  Outline'
  BY <1>7 DEF Crash, Outline
<1>8. CASE UNCHANGED vars
  BY <1>8 DEF vars, creation, Outline
<1> QED
  BY <1>2, <1>3, <1>4, <1>5, <1>6, <1>7, <1>8 DEF Next, ServiceStep

(* Every part keeps its type, and no amount ever becomes negative: no      *)
(* settlement, release or refund takes back more than was put in.          *)
THEOREM TypeHolds == Spec => []TypeOK
<1>1. Init => Outline
  BY DEF Init, Outline
<1>2. ClientsTyped /\ Outline /\ [Next]_vars => Outline'
  BY OutlineStays
<1>3. Books /\ ClientsTyped /\ Told /\ Sums /\ Outline => TypeOK
  <2> SUFFICES ASSUME Books, ClientsTyped, Told, Sums, Outline PROVE TypeOK
    OBVIOUS
  <2>1. delegated \in [Agents -> Nat] /\ reserved \in [Agents -> Nat]
    <3>1. \A a \in Agents : delegated[a] \in Nat /\ reserved[a] \in Nat
      BY FS_CardinalityType DEF Sums
    <3> QED
      BY <3>1 DEF Books, BooksTyped
  <2>2. {limit, charged, delegated, reserved, observed} \subseteq [Agents -> Nat]
    BY <2>1 DEF Sums, Books, BooksTyped
  <2>3. op \in [Services -> [by : Clients, f : Fact, fresh : BOOLEAN] \cup {Idle}]
    BY DEF Books, OpsTyped, Loaded
  <2> QED
    BY <2>2, <2>3 DEF Books, BooksTyped, ClientsTyped, Told, Outline, TypeOK
<1> QED
  BY <1>1, <1>2, <1>3, BooksHold, BooksAdd, PTL DEF Spec

-----------------------------------------------------------------------------
(* Of the holds: while nothing has failed, an open hold has an execution   *)
(* that is on its way to end it, and a pending reservation the create()    *)
(* that made it.                                                           *)
PendingPcs == {"permit", "starting", "releasing", "unstarting", "again", "terminal"}
StartedPcs == {"calling", "balance", "settling", "terminal", "cut"}

WantsFit == \A e \in Execs :
    pc[e] \in {"balance", "settling"} => want[e] <= use[CallOf[e]].n

Tended(u) ==
    /\ use[u].st = "pending" => \E e \in Execs : CallOf[e] = u /\ pc[e] \in PendingPcs
    /\ use[u].st = "started" => \E e \in Execs : CallOf[e] = u /\ pc[e] \in StartedPcs

Creating == \A c \in Kids :
    res[c] = "pending" => saga \in {"creating", "finishing"} /\ kid = c

Kept == ~troubled => (\A u \in Calls : Tended(u)) /\ Creating

(* The hold of a call that was made keeps its amount.                      *)
LEMMA AmountsStand ==
    ASSUME Books, ClientsTyped, Running, [Next]_vars, NEW e \in ran
    PROVE  use'[CallOf[e]].n = use[CallOf[e]].n
<1> USE BudgetLedgerAssumption
<1> DEFINE u == CallOf[e]
<1>1. u \in Calls /\ Exists("hold", u)
  BY DEF Running, ClientsTyped
<1>2. Recording \/ Quiet
  BY EveryStepIsOne
<1>3. CASE Quiet
  BY <1>3 DEF Quiet, ledger, accounts
<1>4. CASE Recording
  <2>1. PICK s \in Services : op[s].fresh /\ Recorded(s)
    BY <1>4 DEF Recording
  <2> DEFINE f == op[s].f
  <2>2. Proper(f) /\ Demanded(f) /\ Projected(f)
    <3>1. op[s] # Idle
      BY <2>1 DEF Idle
    <3> QED
      BY <2>1, <3>1 DEF Books, OpsTyped, LoadedIsCurrent, Loaded, Recorded
  <2>3. ~(f.on = u /\ f.op = "hold")
    BY <1>1, <2>2 DEF Demanded
  <2> HIDE DEF f, u
  <2>4. use'[u].n = use[u].n
    BY <1>1, <2>2, <2>3, HoldMoves DEF Books
  <2> QED
    BY <2>4 DEF u
<1> QED
  BY <1>2, <1>3, <1>4

(* What an execution settles is never more than what it holds.             *)
LEMMA WantsStayFit ==
    ASSUME Books, ClientsTyped, Running, WantsFit, [Next]_vars
    PROVE  WantsFit'
<1> USE BudgetLedgerAssumption
<1>1. \A e \in Execs : pc[e] \in CalledPcs => use'[CallOf[e]].n = use[CallOf[e]].n
  BY AmountsStand DEF Running
<1>2. ASSUME UNCHANGED want,
             \A e \in Execs : pc'[e] \in {"balance", "settling"} => pc[e] = pc'[e]
      PROVE  WantsFit'
  BY <1>1, <1>2 DEF WantsFit, CalledPcs
<1>3. ASSUME NEW c \in Clients, NEW r, Answered(c, r)
      PROVE  WantsFit'
  <2>1. /\ \A e \in Execs : e # c => pc'[e] = pc[e]
        /\ c \in Execs => pc'[c] \notin {"balance", "settling"}
    BY <1>3, AnswerToOne
  <2> QED
    BY <1>2, <1>3, <2>1 DEF Answered
<1>4. ASSUME NEW c \in Execs \cup {"saga"}, Begin(c) \/ LoadFails(c)
      PROVE  WantsFit'
  <2>1. c \in Clients
    BY DEF Clients
  <2> QED
    BY <1>2, <1>3, <1>4, <2>1 DEF Begin, LoadFails, exec
<1>5. CASE \/ \E f \in Requests : BeginRequest(f)
           \/ \E a \in Agents, n \in 1 .. MaxAsk : BeginAdmission(a, n)
  BY <1>2, <1>5 DEF BeginRequest, BeginAdmission, exec
<1>6. ASSUME NEW s \in Services, Append(s) \/ AppendConflicts(s) \/ AppendFails(s)
      PROVE  WantsFit'
  <2>1. op[s].by \in Clients
    <3>1. op[s] # Idle
      BY <1>6 DEF Append, AppendConflicts, AppendFails, Idle
    <3> QED
      BY <3>1 DEF Books, OpsTyped, Loaded
  <2>2. \E r : Answered(op[s].by, r)
    BY <1>6 DEF Append, AppendConflicts, AppendFails
  <2> QED
    BY <1>3, <2>1, <2>2
<1>7. ASSUME NEW e \in Execs, Admit(e) \/ Cancel(e) \/ GiveUp(e) \/ Permit(e)
             \/ CallEnds(e) \/ Overage(e) \/ BalanceRead(e) \/ BalanceReadFails(e)
      PROVE  WantsFit'
  <2> USE DEF ClientsTyped
  <2>1. CASE Admit(e)
    <3>1. pc'[e] \notin {"balance", "settling"} /\ UNCHANGED use
          /\ \A d \in Execs : d # e => pc'[d] = pc[d] /\ want'[d] = want[d]
      BY <2>1 DEF Admit, ledger, accounts
    <3> QED
      BY <3>1 DEF WantsFit
  <2>2. CASE Cancel(e) \/ GiveUp(e) \/ Permit(e) \/ BalanceReadFails(e)
    BY <1>2, <2>2 DEF Cancel, GiveUp, Permit, BalanceReadFails, exec
  <2>3. CASE CallEnds(e) \/ Overage(e)
    <3>1. use[CallOf[e]].n \in Nat
      BY DEF Books, BooksTyped
    <3>2. want'[e] <= use[CallOf[e]].n /\ UNCHANGED use
          /\ \A d \in Execs : d # e => pc'[d] = pc[d] /\ want'[d] = want[d]
      BY <2>3, <3>1 DEF CallEnds, Overage, ledger, accounts
    <3> QED
      BY <3>2 DEF WantsFit
  <2>4. CASE BalanceRead(e)
    BY <2>4 DEF BalanceRead, WantsFit, ledger, accounts
  <2> QED
    BY <1>7, <2>1, <2>2, <2>3, <2>4
<1>8. CASE CreateStep
  BY <1>2, <1>8 DEF CreateStep, Create, CancelCreate, Converged, exec
<1>9. ASSUME NEW s \in Services, Crash(s)
      PROVE  WantsFit'
  BY <1>2, <1>9 DEF Crash
<1>10. CASE UNCHANGED vars
  BY <1>2, <1>10 DEF vars, exec
<1> QED
  BY <1>4, <1>5, <1>6, <1>7, <1>8, <1>9, <1>10 DEF Next, ServiceStep, ExecStep

(* An answer that records nothing moves the tenders of the holds on, and   *)
(* the one it is for only when it tends none.                              *)
LEMMA TendedAnswered ==
    ASSUME ClientsTyped, NEW c \in Clients, NEW r, Answered(c, r), UNCHANGED ledger,
           \A u \in Calls : Tended(u),
           c \in Execs /\ pc[c] \in PendingPcs => use[CallOf[c]].st # "pending",
           c \in Execs /\ pc[c] \in StartedPcs => use[CallOf[c]].st # "started"
    PROVE  \A u \in Calls : Tended(u)'
<1>1. \A e \in Execs : e # c => pc'[e] = pc[e]
  BY AnswerToOne
<1>2. UNCHANGED use
  BY DEF ledger, accounts
<1> QED
  BY <1>1, <1>2 DEF Tended

(* An execution whose hold is open is not turned away.                     *)
LEMMA TendersBegin ==
    ASSUME Books, ClientsTyped, Told, WantsFit, NEW c \in Asking, c \in Execs,
           ~(Valid(Wanted(c)) /\ ~Exists(Wanted(c).op, Wanted(c).on))
    PROVE  /\ pc[c] \in PendingPcs => use[CallOf[c]].st # "pending"
           /\ pc[c] \in StartedPcs => use[CallOf[c]].st # "started"
<1> USE BudgetLedgerAssumption
<1> DEFINE u == CallOf[c]
<1>1. /\ u \in Calls /\ c # "saga" /\ use[u].n \in Nat
      /\ pc[c] \in {"reserving", "starting", "settling", "releasing", "unstarting",
                    "terminal", "again"}
  BY DEF Asking, Books, BooksTyped
<1>2. /\ Exists("start", u) => use[u].st \notin {"none", "pending"}
      /\ Exists("settle", u) \/ Exists("drop", u) =>
            use[u].st \in {"settled", "released"}
  BY <1>1 DEF Told
<1>3. ASSUME pc[c] \in PendingPcs, use[u].st = "pending"
      PROVE  FALSE
  <2>1. Wanted(c) = Fa("start", u, 0) \/ Wanted(c) = Fa("drop", u, 0)
    BY <1>1, <1>3 DEF Wanted, ExecWants, PendingPcs
  <2> QED
    BY <1>2, <1>3, <2>1 DEF Valid, Fa
<1>4. ASSUME pc[c] \in StartedPcs, use[u].st = "started"
      PROVE  FALSE
  <2>1. \E n : Wanted(c) = Fa("settle", u, n) /\ n <= use[u].n
    <3>1. CASE pc[c] = "settling"
      BY <1>1, <3>1 DEF Wanted, ExecWants, WantsFit
    <3>2. CASE pc[c] = "terminal"
      BY <1>1, <1>4, <3>2 DEF Wanted, ExecWants
    <3> QED
      BY <1>1, <1>4, <3>1, <3>2 DEF StartedPcs
  <2> QED
    BY <1>2, <1>4, <2>1 DEF Valid, Fa
<1> QED
  BY <1>3, <1>4

(* What a fact that is there already asked for has happened.               *)
LEMMA TendersConflict ==
    ASSUME Books, ClientsTyped, Placed, Told, NEW s \in Services, op[s].f \in facts,
           op[s].by \in Execs
    PROVE  /\ pc[op[s].by] \in PendingPcs => use[CallOf[op[s].by]].st # "pending"
           /\ pc[op[s].by] \in StartedPcs => use[CallOf[op[s].by]].st # "started"
<1> USE BudgetLedgerAssumption
<1> DEFINE c == op[s].by
           u == CallOf[c]
<1>1. Suits(op[s].f.op, pc[c]) /\ op[s].f.on = u /\ u \in Calls
  BY DEF Placed
<1>2. Exists(op[s].f.op, u)
  BY <1>1 DEF Exists
<1>3. /\ Exists("start", u) => use[u].st \notin {"none", "pending"}
      /\ Exists("settle", u) \/ Exists("drop", u) =>
            use[u].st \in {"settled", "released"}
  BY <1>1 DEF Told
<1> HIDE DEF c, u
<1>4. /\ pc[c] \in PendingPcs => use[u].st # "pending"
      /\ pc[c] \in StartedPcs => use[u].st # "started"
  BY <1>1, <1>2, <1>3 DEF Suits, PendingPcs, StartedPcs
<1> QED
  BY <1>4 DEF c, u

(* A fact that is recorded opens a hold for the execution that goes on     *)
(* with it, and closes only the one of its own.                            *)
LEMMA TendedRecorded ==
    ASSUME Books, ClientsTyped, Placed, Told, NEW s \in Services, op[s].fresh,
           Recorded(s), Answered(op[s].by, "ok"), \A u \in Calls : Tended(u),
           NEW u \in Calls
    PROVE  Tended(u)'
<1> USE BudgetLedgerAssumption
<1> DEFINE f == op[s].f
           c == op[s].by
<1>1. c \in Clients /\ f \in Fact /\ Proper(f) /\ Demanded(f) /\ Projected(f)
  <2>1. op[s] # Idle
    BY DEF Idle
  <2> QED
    BY <2>1 DEF Books, OpsTyped, LoadedIsCurrent, Loaded, Recorded, Proper
<1>2. /\ f.op \in OnCall => c \in Execs
      /\ c \in Execs => Suits(f.op, pc[c]) /\ f.on = CallOf[c] /\ f.op \in OnCall
  BY DEF Placed, Suits, OnCall
<1>3. \A e \in Execs : e # c => pc'[e] = pc[e]
  BY <1>1, AnswerToOne
<1>4. c \in Execs => pc'[c] = Then(c, "ok")
  BY DEF Answered, ClientsTyped
<1>5. CASE f.op \in OnCall /\ f.on = u
  <2>1. c \in Execs /\ CallOf[c] = u
    BY <1>2, <1>5
  <2>2. use'[u].st = CASE f.op = "hold"   -> "pending"
                       [] f.op = "start"  -> "started"
                       [] f.op = "settle" -> "settled"
                       [] f.op = "drop"   -> "released"
    BY <1>1, <1>5, HoldMovesByFact DEF Books
  <2>3. CASE f.op = "hold"
    <3>1. use[u].st = "none"
      BY <1>1, <1>5, <2>3 DEF Demanded, Told
    <3>2. pc[c] = "reserving"
      BY <1>2, <2>1, <2>3 DEF Suits
    <3>3. pc'[c] \in PendingPcs
      BY <1>4, <2>1, <3>1, <3>2 DEF Then, PendingPcs
    <3> QED
      BY <2>1, <2>2, <2>3, <3>3 DEF Tended
  <2>4. CASE f.op = "start"
    <3>1. pc[c] = "starting"
      BY <1>2, <2>1, <2>4 DEF Suits
    <3>2. pc'[c] \in StartedPcs
      BY <1>4, <2>1, <3>1 DEF Then, StartThen, StartedPcs
    <3> QED
      BY <2>1, <2>2, <2>4, <3>2 DEF Tended
  <2>5. CASE f.op \in {"settle", "drop"}
    BY <2>2, <2>5 DEF Tended
  <2> QED
    BY <1>5, <2>3, <2>4, <2>5 DEF OnCall
<1>6. CASE ~(f.op \in OnCall /\ f.on = u)
  <2>1. use'[u] = use[u]
    BY <1>1, <1>6, HoldMoves DEF Books, OnCall
  <2>2. \A e \in Execs : CallOf[e] = u => pc'[e] = pc[e]
    BY <1>2, <1>3, <1>6
  <2>3. Tended(u)
    OBVIOUS
  <2> QED
    BY <2>1, <2>2, <2>3 DEF Tended
<1> QED
  BY <1>5, <1>6

(* Nothing moves an execution from its hold but its own steps.             *)
LEMMA TendedMoves ==
    ASSUME UNCHANGED ledger, \A u \in Calls : Tended(u),
           \A e \in Execs : /\ pc[e] \in PendingPcs => pc'[e] \in PendingPcs
                            /\ pc[e] \in StartedPcs => pc'[e] \in StartedPcs
    PROVE  \A u \in Calls : Tended(u)'
BY DEF Tended, ledger, accounts

(* A create() that is answered without a record has nothing pending.       *)
LEMMA CreatingAnswered ==
    ASSUME NEW c \in Clients, NEW r, Answered(c, r), UNCHANGED ledger, Creating,
           c = "saga" => \A k \in Kids : res[k] # "pending"
    PROVE  Creating'
BY DEF Creating, Answered, ledger, accounts

(* A create() that has a reservation pending is not turned away.           *)
LEMMA CreateBegins ==
    ASSUME ClientsTyped, Told, Creating, "saga" \in Asking,
           ~(Valid(Wanted("saga")) /\ ~Exists(Wanted("saga").op, Wanted("saga").on))
    PROVE  \A k \in Kids : res[k] # "pending"
<1> SUFFICES ASSUME NEW k \in Kids, res[k] = "pending"
             PROVE  FALSE
  OBVIOUS
<1>1. saga = "finishing" /\ kid = k
  BY BudgetLedgerAssumption DEF Creating, Asking
<1>2. ~Exists("commit", k) /\ ~Exists("release", k)
  BY DEF Told
<1>3. CASE k \in dir
  <2>1. Wanted("saga") = Fa("commit", k, 0)
    BY <1>1, <1>3 DEF Wanted, SagaWants
  <2> QED
    BY <1>2, <1>3, <2>1 DEF Valid, Fa
<1>4. CASE k \notin dir
  <2>1. Wanted("saga") = Fa("release", k, 0)
    BY <1>1, <1>4 DEF Wanted, SagaWants
  <2> QED
    BY <1>2, <1>4, <2>1 DEF Valid, Releasable, Fa
<1> QED
  BY <1>3, <1>4

(* A reservation becomes pending for the create() that goes on with it.    *)
LEMMA CreatingRecorded ==
    ASSUME Books, ClientsTyped, ReleasesAreLate, Told, Creating, NEW s \in Services,
           op[s].fresh, Recorded(s), Answered(op[s].by, "ok")
    PROVE  Creating'
<1> USE BudgetLedgerAssumption
<1> DEFINE f == op[s].f
           c == op[s].by
<1>1. Proper(f) /\ Demanded(f) /\ Projected(f)
  <2>1. op[s] # Idle
    BY DEF Idle
  <2> QED
    BY <2>1 DEF Books, OpsTyped, LoadedIsCurrent, Loaded, Recorded
<1>2. /\ c = "saga" =>
            /\ saga \in {"reserving", "finishing"} /\ f.on = kid
            /\ saga = "reserving" => f.op = "reserve"
            /\ saga = "finishing" => f.op \in {"commit", "release"}
      /\ f.op \in {"reserve", "commit", "release"} => c = "saga"
  BY DEF ReleasesAreLate
<1> SUFFICES ASSUME NEW k \in Kids, res'[k] = "pending"
             PROVE  saga' \in {"creating", "finishing"} /\ kid' = k
  BY DEF Creating
<1>3. \/ res[k] = "pending" /\ ~(f.on = k /\ f.op \in {"reserve", "commit", "release"})
      \/ f.on = k /\ f.op = "reserve"
  BY <1>1, GrantMoves DEF Books
<1>4. CASE res[k] = "pending" /\ ~(f.on = k /\ f.op \in {"reserve", "commit", "release"})
  <2>1. saga \in {"creating", "finishing"} /\ kid = k
    BY <1>4 DEF Creating
  <2>2. c # "saga"
    BY <1>2, <1>4, <2>1
  <2> QED
    BY <2>1, <2>2 DEF Answered
<1>5. CASE f.on = k /\ f.op = "reserve"
  <2>1. c = "saga" /\ kid = k /\ saga = "reserving"
    BY <1>2, <1>5
  <2>2. res[k] = "none"
    BY <1>1, <1>5 DEF Demanded, Told
  <2>3. SagaThen("ok") \in {"creating", "finishing"}
    BY <2>1, <2>2 DEF SagaThen, Status
  <2> QED
    BY <2>1, <2>3 DEF Answered
<1> QED
  BY <1>3, <1>4, <1>5

(* No step leaves an open hold, or a pending reservation, to nobody.       *)
LEMMA StaysKept ==
    ASSUME Books, ClientsTyped, ReleasesAreLate, Placed, Told, WantsFit, Kept,
           [Next]_vars
    PROVE  Kept'
<1> USE BudgetLedgerAssumption
<1> SUFFICES ASSUME ~troubled'
             PROVE  (\A u \in Calls : Tended(u)') /\ Creating'
  BY DEF Kept
<1>1. ASSUME NEW c \in Clients, NEW r, Answered(c, r), UNCHANGED ledger, ~troubled,
             c \in Execs =>
                /\ pc[c] \in PendingPcs => use[CallOf[c]].st # "pending"
                /\ pc[c] \in StartedPcs => use[CallOf[c]].st # "started",
             c = "saga" /\ Creating => \A k \in Kids : res[k] # "pending"
      PROVE  (\A u \in Calls : Tended(u)') /\ Creating'
  BY <1>1, TendedAnswered, CreatingAnswered DEF Kept
<1>2. ASSUME UNCHANGED ledger, ~troubled,
             \A e \in Execs : /\ pc[e] \in PendingPcs => pc'[e] \in PendingPcs
                              /\ pc[e] \in StartedPcs => pc'[e] \in StartedPcs,
             saga \in {"creating", "finishing"} =>
                saga' \in {"creating", "finishing"} /\ kid' = kid
      PROVE  (\A u \in Calls : Tended(u)') /\ Creating'
  <2>1. \A u \in Calls : Tended(u)'
    BY <1>2, TendedMoves DEF Kept
  <2>2. Creating'
    BY <1>2 DEF Kept, Creating, ledger, accounts
  <2> QED
    BY <2>1, <2>2
<1>3. ASSUME NEW c \in Execs \cup {"saga"}, Begin(c)
      PROVE  (\A u \in Calls : Tended(u)') /\ Creating'
  <2>1. c \in Asking /\ c \in Clients
    BY <1>3, AskingIsClient DEF Begin
  <2>2. CASE Valid(Wanted(c)) /\ ~Exists(Wanted(c).op, Wanted(c).on)
    BY <1>2, <1>3, <2>2 DEF Begin, exec, creation, history
  <2>3. CASE ~(Valid(Wanted(c)) /\ ~Exists(Wanted(c).op, Wanted(c).on))
    <3>1. Answered(c, Verdict(Wanted(c))) /\ UNCHANGED ledger /\ ~troubled
      BY <1>3, <2>3 DEF Begin, history
    <3>2. c \in Execs =>
                /\ pc[c] \in PendingPcs => use[CallOf[c]].st # "pending"
                /\ pc[c] \in StartedPcs => use[CallOf[c]].st # "started"
      BY <2>1, <2>3, TendersBegin
    <3>3. c = "saga" /\ Creating => \A k \in Kids : res[k] # "pending"
      BY <2>1, <2>3, CreateBegins
    <3> QED
      BY <1>1, <2>1, <3>1, <3>2, <3>3
  <2> QED
    BY <2>2, <2>3
<1>4. ASSUME NEW c \in Execs \cup {"saga"}, LoadFails(c)
      PROVE  FALSE
  BY <1>4 DEF LoadFails, Fault
<1>5. CASE \/ \E f \in Requests : BeginRequest(f)
           \/ \E a \in Agents, n \in 1 .. MaxAsk : BeginAdmission(a, n)
  BY <1>2, <1>5 DEF BeginRequest, BeginAdmission, exec, creation, history
<1>6. ASSUME NEW s \in Services, Append(s)
      PROVE  (\A u \in Calls : Tended(u)') /\ Creating'
  <2>1. op[s].fresh /\ Recorded(s) /\ Answered(op[s].by, "ok") /\ ~troubled
    BY <1>6 DEF Append, history
  <2>2. \A u \in Calls : Tended(u)'
    BY <2>1, TendedRecorded DEF Kept
  <2>3. Creating'
    BY <2>1, CreatingRecorded DEF Kept
  <2> QED
    BY <2>2, <2>3
<1>7. ASSUME NEW s \in Services, AppendConflicts(s)
      PROVE  (\A u \in Calls : Tended(u)') /\ Creating'
  <2> DEFINE c == op[s].by
  <2>1. c \in Clients
    <3>1. op[s] # Idle
      BY <1>7 DEF AppendConflicts
    <3> QED
      BY <3>1 DEF Books, OpsTyped, Loaded
  <2>2. op[s].f \in facts /\ UNCHANGED ledger /\ ~troubled
        /\ Answered(c, Verdict(op[s].f))
    BY <1>7 DEF AppendConflicts, Kept
  <2>3. c \in Execs =>
              /\ pc[c] \in PendingPcs => use[CallOf[c]].st # "pending"
              /\ pc[c] \in StartedPcs => use[CallOf[c]].st # "started"
    BY <2>2, TendersConflict
  <2>4. ASSUME c = "saga", Creating, NEW k \in Kids, res[k] = "pending"
        PROVE  FALSE
    <3>1. /\ saga \in {"creating", "finishing"} /\ kid = k
          /\ saga \in {"reserving", "finishing"} /\ op[s].f.on = kid
          /\ saga = "finishing" => op[s].f.op \in {"commit", "release"}
      BY <2>4 DEF Creating, ReleasesAreLate
    <3>2. Exists(op[s].f.op, k) /\ op[s].f.op \in {"commit", "release"}
      BY <2>2, <3>1 DEF Exists
    <3> QED
      BY <2>4, <3>2 DEF Told
  <2> HIDE DEF c
  <2> QED
    BY <1>1, <2>1, <2>2, <2>3, <2>4
<1>8. ASSUME NEW s \in Services, AppendFails(s)
      PROVE  FALSE
  BY <1>8 DEF AppendFails, Fault
<1>9. ASSUME NEW e \in Execs, Admit(e) \/ Cancel(e) \/ GiveUp(e) \/ Permit(e)
             \/ CallEnds(e) \/ Overage(e) \/ BalanceRead(e) \/ BalanceReadFails(e)
      PROVE  (\A u \in Calls : Tended(u)') /\ Creating'
  <2> USE DEF ClientsTyped, PendingPcs, StartedPcs
  <2>1. CASE Cancel(e)
    BY <1>2, <2>1 DEF Cancel, exec, creation
  <2>2. CASE Admit(e) \/ GiveUp(e)
    BY <1>2, <2>2 DEF Admit, GiveUp, creation, history
  <2>3. CASE Permit(e) \/ CallEnds(e) \/ Overage(e) \/ BalanceRead(e)
    BY <1>2, <2>3 DEF Permit, CallEnds, Overage, BalanceRead, creation, history
  <2>4. CASE BalanceReadFails(e)
    BY <2>4 DEF BalanceReadFails, Fault
  <2> QED
    BY <1>9, <2>1, <2>2, <2>3, <2>4
<1>10. CASE CreateStep
  BY <1>2, <1>10 DEF CreateStep, Create, CancelCreate, Converged, exec, history
<1>11. ASSUME NEW s \in Services, Crash(s)
       PROVE  FALSE
  BY <1>11 DEF Crash, Fault
<1>12. CASE UNCHANGED vars
  BY <1>2, <1>12 DEF vars, exec, creation, history
<1> QED
  BY <1>3, <1>4, <1>5, <1>6, <1>7, <1>8, <1>9, <1>10, <1>11, <1>12
     DEF Next, ServiceStep, ExecStep

(* What every account holds is exactly what its open calls and its kids    *)
(* were given, and as long as nothing failed, nobody returns and leaves a  *)
(* hold or a reservation open.                                             *)
THEOREM HoldsHold == Spec => []HoldsAreSettled
<1> DEFINE Sound == WantsFit /\ Kept
<1>1. Init => Sound
  BY BudgetLedgerAssumption DEF Init, WantsFit, Kept, Tended, Creating
<1>2. /\ Books /\ ClientsTyped /\ ReleasesAreLate /\ Placed /\ Running /\ Told
      /\ Sound /\ [Next]_vars
      => Sound'
  BY WantsStayFit, StaysKept
<1>3. Sums /\ Kept => HoldsAreSettled
  <2> SUFFICES ASSUME Sums, Kept PROVE HoldsAreSettled
    OBVIOUS
  <2>1. ASSUME NEW a \in Agents
        PROVE  /\ reserved[a] = Cardinality(Units([u \in Calls |-> use[u].n], OpenHolds(a)))
               /\ delegated[a] = Cardinality(Units(limit, Granted(a)))
    BY DEF Sums, Held, Lent, Amounts
  <2>2. ASSUME ~troubled, NEW u \in Calls, use[u].st \in {"pending", "started"},
               \A e \in Execs : CallOf[e] = u => pc[e] \in {"idle", "done"}
        PROVE  FALSE
    BY <2>2 DEF Kept, Tended, PendingPcs, StartedPcs
  <2>3. ASSUME ~troubled, saga = "idle", NEW c \in Kids, res[c] = "pending"
        PROVE  FALSE
    BY <2>3 DEF Kept, Creating
  <2> QED
    BY <2>1, <2>2, <2>3 DEF HoldsAreSettled
<1> QED
  BY <1>1, <1>2, <1>3, BooksHold, ReleasesHold, RunningHold, BooksAdd, PTL DEF Spec

=============================================================================
