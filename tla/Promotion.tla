------------------------------ MODULE Promotion ------------------------------
(***************************************************************************)
(* Review, approval and promotion of patches onto one git ref              *)
(* (promotion/service.py), by PatchPromotionService objects over one       *)
(* ledger stream (promotion/projection.py) and one repository              *)
(* (promotion/local_git.py), beside others who move the ref.               *)
(*                                                                         *)
(* A revision is the sequence of patches that made it: the integration     *)
(* commit of a patch on a revision is the same whoever builds it.  What a  *)
(* caller gets is a task shared by all who ask the same; nobody cancels it.*)
(* Ids, digests and plans are taken to match, as they do unless the host   *)
(* is configured anew.                                                     *)
(***************************************************************************)
EXTENDS Integers, Sequences, FiniteSets

CONSTANTS
    Services,   \* service objects
    Requests,   \* review requests; an approval digest stands for its review
    Patch,      \* request -> the artifact it is about
    Ops,        \* approval operations
    ReviewOf,   \* operation -> the request whose review it approves
    MaxTries,   \* MAX_APPEND_ATTEMPTS
    MaxCalls,   \* bound: calls begun
    MaxMoves,   \* bound: moves of the ref by others
    MaxFaults   \* bound: failures of store or git, and crashes

ASSUME PromotionAssumption ==
    /\ ReviewOf \in [Ops -> Requests]
    /\ \A r \in Requests : \E o \in Ops : ReviewOf[o] = r
    /\ Patch \in [Requests -> STRING \ {"other"}]
    /\ "none" \notin Ops
    /\ MaxTries \in Nat \ {0} /\ {MaxCalls, MaxMoves, MaxFaults} \subseteq Nat

VARIABLES
    ref,        \* the revision the target ref points at
    ledger,     \* the ledger stream, projected
    task,       \* the owned task of each job
    phase,      \* of each service: open, closing, closed
    orphans,    \* update-ref children that outlived their process
    landed,     \* requests whose swap moved the ref (history)
    seen,       \* approved requests whose commit the ref was at (history)
    lies,       \* answers that were not true (history)
    spent,      \* promotions that ran out of tries (history)
    used        \* calls, moves and faults spent

vars == <<ref, ledger, task, phase, orphans, landed, seen, lies, spent, used>>
repo == <<ref, orphans, landed>>
said == <<lies, spent>>

Jobs == ({"review", "promote"} \X Requests) \cup ({"approve"} \X Ops)
Of(j) == IF j[1] = "approve" THEN ReviewOf[j[2]] ELSE j[2]

NoReview == [done |-> FALSE, on |-> <<>>, passed |-> FALSE]
Idle == [at |-> "idle", on |-> <<>>, passed |-> FALSE, fresh |-> FALSE, tries |-> 0]

(* The commit a review is about.                                           *)
Integration(r, on) == Append(on, Patch[r])
Commit(r) == Integration(r, ledger.review[r].on)
Expected(r) == ledger.review[r].on
Approved(r) == ledger.approval[r] # "none"

-----------------------------------------------------------------------------
(* rebuild(): what a fact may not follow, and what it does.                *)
Fact(s, j) == [job |-> j, on |-> task[s, j].on, passed |-> task[s, j].passed]

Refused(l, f) ==
    LET r == Of(f.job) IN
    \/ f.job[1] = "review"  /\ l.review[r].done
    \/ f.job[1] = "approve" /\ (~l.review[r].done \/ ~l.review[r].passed \/ l.approval[r] # "none")
    \/ f.job[1] = "promote" /\ (l.approval[r] = "none" \/ r \in l.promoted)

Add(l, f) ==
    LET r == Of(f.job) IN
    IF Refused(l, f) THEN [l EXCEPT !.bad = TRUE] ELSE
    CASE f.job[1] = "review"  ->
            [l EXCEPT !.review[r] = [done |-> TRUE, on |-> f.on, passed |-> f.passed]]
      [] f.job[1] = "approve" -> [l EXCEPT !.approval[r] = f.job[2]]
      [] f.job[1] = "promote" -> [l EXCEPT !.promoted = @ \cup {r}]

(* Whether exactly this fact is in the ledger (is_promotion_fact).         *)
Holds(l, f) ==
    LET r == Of(f.job) IN
    CASE f.job[1] = "review"  -> l.review[r] = [done |-> TRUE, on |-> f.on, passed |-> f.passed]
      [] f.job[1] = "approve" -> l.approval[r] = f.job[2]
      [] f.job[1] = "promote" -> r \in l.promoted

(* What the find() of each kind makes of a loaded ledger.                  *)
Find(j) ==
    LET r == Of(j) IN
    CASE j[1] = "review"  -> IF ledger.review[r].done THEN "ok" ELSE "none"
      [] j[1] = "approve" -> IF ledger.approval[r] = j[2] THEN "ok"
                             ELSE IF Approved(r) THEN "conflict" ELSE "none"
      [] j[1] = "promote" -> IF r \in ledger.promoted THEN "ok" ELSE "none"

-----------------------------------------------------------------------------
(* Nothing is on record, or reviews that passed on the revision the ref is *)
(* at, or these and an approval of each.                                   *)
Past(reviewed, approved) ==
    [review   |-> [r \in Requests |-> IF reviewed THEN [NoReview EXCEPT !.done = TRUE, !.passed = TRUE]
                                      ELSE NoReview],
     approval |-> [r \in Requests |-> IF approved THEN CHOOSE o \in Ops : ReviewOf[o] = r
                                      ELSE "none"],
     promoted |-> {}, bad |-> FALSE]

Init ==
    /\ ref = <<>>
    /\ ledger \in {Past(FALSE, FALSE), Past(TRUE, FALSE), Past(TRUE, TRUE)}
    /\ task = [sj \in Services \X Jobs |-> Idle]
    /\ phase = [s \in Services |-> "open"]
    /\ orphans = {} /\ landed = {} /\ seen = {} /\ lies = {} /\ spent = {}
    /\ used = [calls |-> 0, moves |-> 0, faults |-> 0]

Spend(what, max) ==
    /\ used[what] < max
    /\ used' = [used EXCEPT ![what] = @ + 1]

(* The ref is at v; l is the ledger by then.                               *)
Sees(v, l) ==
    seen' = seen \cup {r \in Requests : l.approval[r] # "none"
                                        /\ v = Integration(r, l.review[r].on)}

At(s, j, x) == task[s, j].at = x
Goto(s, j, x) == task' = [task EXCEPT ![<<s, j>>].at = x] /\ UNCHANGED said

(* What an answer says of the ledger l and, as last observed, of the ref.  *)
Untrue(j, why, l) ==
    LET r == Of(j) IN
    CASE why = "ok" -> \/ j[1] = "review"  /\ ~l.review[r].done
                       \/ j[1] = "approve" /\ l.approval[r] # j[2]
                       \/ j[1] = "promote" /\ r \notin l.promoted
      [] why \in {"drift", "rejected"} -> j[1] = "promote" /\ ref = Commit(r)
      [] why \in {"unwritten", "gave-up"} ->
                       \/ j[1] = "approve" /\ l.approval[r] = j[2]
                       \/ j[1] = "promote" /\ r \in l.promoted
      [] OTHER -> FALSE

Answer(j, why, l) ==
    /\ lies' = IF Untrue(j, why, l) THEN lies \cup {<<j, why>>} ELSE lies
    /\ spent' = IF why = "gave-up" THEN spent \cup {j} ELSE spent
End(s, j, why) == task' = [task EXCEPT ![<<s, j>>] = Idle] /\ Answer(j, why, ledger)

(* _owned(): one task for all who ask the same, none once closed.  What    *)
(* the task finds on record decides whether there is anything to do.       *)
Call(s, j) ==
    LET r == Of(j)
        passed == ledger.review[r].done /\ ledger.review[r].passed
    IN
    /\ At(s, j, "idle") /\ phase[s] = "open"
    /\ Spend("calls", MaxCalls)
    /\ IF Find(j) # "none" THEN End(s, j, Find(j))
       ELSE CASE j[1] = "review"  -> Goto(s, j, "resolve")
              [] j[1] = "approve" -> IF passed THEN Goto(s, j, "resolve") ELSE End(s, j, "refused")
              [] j[1] = "promote" -> IF Approved(r) THEN Goto(s, j, "state")
                                     ELSE End(s, j, "refused")
    /\ UNCHANGED <<repo, ledger, phase, seen>>

(* _review(): the target as it is now; then clone, build and verify.       *)
Resolve(s, r) ==
    LET j == <<"review", r>> IN
    /\ At(s, j, "resolve")
    /\ \E good \in BOOLEAN :
          task' = [task EXCEPT ![<<s, j>>] = [@ EXCEPT !.at = "observe", !.on = ref, !.passed = good]]
    /\ UNCHANGED <<repo, ledger, phase, seen, said, used>>

Observe(s, r) ==
    LET j == <<"review", r>> IN
    /\ At(s, j, "observe")
    /\ IF ref = task[s, j].on THEN Goto(s, j, "record") ELSE End(s, j, "drift")
    /\ UNCHANGED <<repo, ledger, phase, seen, used>>

(* _approve(): the target still is what was reviewed.                      *)
Confirm(s, o) ==
    LET j == <<"approve", o>> IN
    /\ At(s, j, "resolve")
    /\ IF ref = Expected(ReviewOf[o]) THEN Goto(s, j, "record") ELSE End(s, j, "drift")
    /\ UNCHANGED <<repo, ledger, phase, seen, used>>

-----------------------------------------------------------------------------
(* _promote(): the first look at the ref; then the commit is rebuilt.      *)
RefState(s, r) ==
    LET j == <<"promote", r>> IN
    /\ At(s, j, "state")
    /\ IF ref = Commit(r) THEN Goto(s, j, "again")
       ELSE IF ref = Expected(r) THEN Goto(s, j, "swap") ELSE End(s, j, "drift")
    /\ UNCHANGED <<repo, ledger, phase, seen, used>>

(* It had moved already: look again.                                       *)
Reobserve(s, r) ==
    LET j == <<"promote", r>> IN
    /\ At(s, j, "again")
    /\ IF ref = Commit(r) THEN Goto(s, j, "record") ELSE End(s, j, "drift")
    /\ UNCHANGED <<repo, ledger, phase, seen, used>>

(* Slip: the ref is set whatever it is at.                                 *)
ForceUpdate(r) ==
    /\ ref' = Commit(r) /\ landed' = landed \cup {r}
    /\ Sees(Commit(r), ledger)

(* git update-ref <ref> <new> <expected-old>                               *)
UpdateRef(r) ==
    IF ref = Expected(r)
    THEN ref' = Commit(r) /\ landed' = landed \cup {r} /\ Sees(Commit(r), ledger)
    ELSE UNCHANGED <<ref, landed, seen>>

Swap(s, r) ==
    LET j == <<"promote", r>> IN
    /\ At(s, j, "swap")
    /\ UpdateRef(r)
    /\ Goto(s, j, "reread")
    /\ UNCHANGED <<ledger, phase, orphans, used>>

(* The command times out: it is killed, having moved the ref or not.       *)
SwapUnknown(s, r) ==
    LET j == <<"promote", r>> IN
    /\ At(s, j, "swap")
    /\ Spend("faults", MaxFaults)
    /\ UpdateRef(r) \/ UNCHANGED <<ref, landed, seen>>
    /\ End(s, j, "unknown")
    /\ UNCHANGED <<ledger, phase, orphans>>

(* Slip: the call returned, so the ref has moved.                          *)
TrustTheCall(s, r) ==
    LET j == <<"promote", r>> IN
    /\ At(s, j, "reread")
    /\ Goto(s, j, "record")
    /\ UNCHANGED <<repo, ledger, phase, seen, used>>

Reread(s, r) ==
    LET j == <<"promote", r>> IN
    /\ At(s, j, "reread")
    /\ IF ref = Commit(r) THEN Goto(s, j, "record")
       ELSE End(s, j, IF ref = Expected(r) THEN "rejected" ELSE "drift")
    /\ UNCHANGED <<repo, ledger, phase, seen, used>>

(* git, the artifact store or the verifier fails.                          *)
Fails(s, j) ==
    /\ task[s, j].at \in {"resolve", "observe", "state", "again", "reread", "record"}
    /\ Spend("faults", MaxFaults)
    /\ End(s, j, "error")
    /\ UNCHANGED <<repo, ledger, phase, seen>>

-----------------------------------------------------------------------------
(* _record(): load, find, and append at the head that was loaded.          *)
Tried(t) == [at |-> "append", on |-> t.on, passed |-> t.passed, fresh |-> TRUE, tries |-> t.tries + 1]

Record(s, j) ==
    /\ At(s, j, "record")
    /\ IF Find(j) # "none" THEN End(s, j, Find(j))
       ELSE /\ task' = [task EXCEPT ![<<s, j>>] = Tried(@)]
            /\ UNCHANGED said
    /\ UNCHANGED <<repo, ledger, phase, seen, used>>

(* The fact is in the stream, and whoever loaded it before is late.        *)
Late(t) == [t EXCEPT !.fresh = FALSE]
Written(s, j) ==
    /\ ledger' = Add(ledger, Fact(s, j))
    /\ Sees(ref, ledger')
    /\ task' = [sj \in Services \X Jobs |-> IF sj = <<s, j>> THEN Idle ELSE Late(task[sj])]

Appended(s, j) ==
    /\ At(s, j, "append") /\ task[s, j].fresh
    /\ Written(s, j) /\ Answer(j, "ok", ledger')
    /\ UNCHANGED <<repo, phase, used>>

(* Slip: a promotion that loses the race for the ledger gives up.          *)
AbandonRace(s, j) ==
    /\ At(s, j, "append") /\ ~task[s, j].fresh
    /\ End(s, j, IF Holds(ledger, Fact(s, j)) THEN "ok" ELSE "unwritten")
    /\ UNCHANGED <<repo, ledger, phase, seen, used>>

(* Slip: one try too many.                                                 *)
TryOnceMore(s, j) ==
    /\ At(s, j, "append") /\ ~task[s, j].fresh
    /\ IF Holds(ledger, Fact(s, j)) THEN End(s, j, "ok")
       ELSE IF task[s, j].tries > MaxTries THEN End(s, j, "gave-up")
       ELSE Goto(s, j, "record")
    /\ UNCHANGED <<repo, ledger, phase, seen, used>>

(* The race is lost.  The very fact may be another's by now.               *)
Conflicted(s, j) ==
    /\ At(s, j, "append") /\ ~task[s, j].fresh
    /\ IF Holds(ledger, Fact(s, j)) THEN End(s, j, "ok")
       ELSE IF task[s, j].tries >= MaxTries THEN End(s, j, "gave-up")
       ELSE Goto(s, j, "record")
    /\ UNCHANGED <<repo, ledger, phase, seen, used>>

(* Slip: what cannot be told did not happen.                               *)
AbsentUnlessSeen(there) == {IF there THEN "ok" ELSE "unwritten", "unwritten"}

(* What the read after a failed append tells, or that it fails as well.    *)
Reconciled(there) == {IF there THEN "ok" ELSE "unwritten", "unknown"}

AppendFails(s, j) ==
    /\ At(s, j, "append")
    /\ Spend("faults", MaxFaults)
    /\ \/ task[s, j].fresh /\ Written(s, j)
       \/ task' = [task EXCEPT ![<<s, j>>] = Idle] /\ UNCHANGED <<ledger, seen>>
    /\ \E why \in Reconciled(Holds(ledger', Fact(s, j))) : Answer(j, why, ledger')
    /\ UNCHANGED <<repo, phase>>

-----------------------------------------------------------------------------
(* Somebody else pushes, or takes the last commit back.                    *)
Push ==
    /\ Spend("moves", MaxMoves)
    /\ ref' = Append(ref, "other")
    /\ Sees(ref', ledger)
    /\ UNCHANGED <<ledger, task, phase, orphans, landed, said>>

Revert ==
    /\ Spend("moves", MaxMoves)
    /\ ref # <<>> /\ ref' = SubSeq(ref, 1, Len(ref) - 1)
    /\ Sees(ref', ledger)
    /\ UNCHANGED <<ledger, task, phase, orphans, landed, said>>

(* The process dies and starts again; a git child may go on without it.    *)
Crash(s) ==
    /\ Spend("faults", MaxFaults)
    /\ \E left \in SUBSET {r \in Requests : At(s, <<"promote", r>>, "swap")} :
          orphans' = orphans \cup left
    /\ task' = [sj \in Services \X Jobs |-> IF sj[1] = s THEN Idle ELSE task[sj]]
    /\ phase' = [phase EXCEPT ![s] = "open"]
    /\ UNCHANGED <<ref, ledger, landed, seen, said>>

OrphanEnds(r) ==
    /\ r \in orphans /\ orphans' = orphans \ {r}
    /\ UpdateRef(r)
    /\ UNCHANGED <<ledger, task, phase, said, used>>

(* aclose() waits for the tasks that are under way.                        *)
Close(s) ==
    /\ phase[s] = "open" /\ phase' = [phase EXCEPT ![s] = "closing"]
    /\ Spend("calls", MaxCalls)
    /\ UNCHANGED <<repo, ledger, task, seen, said>>

Closed(s) ==
    /\ phase[s] = "closing" /\ \A j \in Jobs : At(s, j, "idle")
    /\ phase' = [phase EXCEPT ![s] = "closed"]
    /\ UNCHANGED <<repo, ledger, task, seen, said, used>>

Step(s, j) ==
    \/ Record(s, j) \/ Appended(s, j) \/ Conflicted(s, j)
    \/ \E r \in {Of(j)} : \/ j[1] = "review" /\ (Resolve(s, r) \/ Observe(s, r))
                          \/ j[1] = "promote" /\ \/ RefState(s, r) \/ Reobserve(s, r)
                                                 \/ Swap(s, r) \/ Reread(s, r)
    \/ j[1] = "approve" /\ Confirm(s, j[2])

Trouble ==
    \/ \E s \in Services, j \in Jobs : Fails(s, j) \/ AppendFails(s, j)
    \/ \E s \in Services, r \in Requests : SwapUnknown(s, r)
    \/ \E s \in Services : Crash(s)

Next ==
    \/ \E s \in Services, j \in Jobs : Call(s, j) \/ Step(s, j)
    \/ \E s \in Services : Close(s) \/ Closed(s)
    \/ \E r \in Requests : OrphanEnds(r)
    \/ Trouble \/ Push \/ Revert

Spec == Init /\ [][Next]_vars

(* Git commands, verifiers and the store answer, by their timeouts.        *)
FairSpec ==
    /\ Spec
    /\ WF_vars(\E s \in Services, j \in Jobs : Step(s, j))
    /\ WF_vars(\E s \in Services : Closed(s))

-----------------------------------------------------------------------------
(* Type correctness.                                                       *)
Hands == {Patch[r] : r \in Requests} \cup {"other"}
Review == [done : BOOLEAN, on : Seq(Hands), passed : BOOLEAN]
Ledger == [review : [Requests -> Review], approval : [Requests -> Ops \cup {"none"}],
           promoted : SUBSET Requests, bad : BOOLEAN]
Ats == {"idle", "resolve", "observe", "state", "again", "swap", "reread", "record", "append"}
Task == [at : Ats, on : Seq(Hands), passed : BOOLEAN, fresh : BOOLEAN, tries : 0 .. MaxTries]

TypeOK ==
    /\ ref \in Seq(Hands)
    /\ ledger \in Ledger
    /\ task \in [Services \X Jobs -> Task]
    /\ phase \in [Services -> {"open", "closing", "closed"}]
    /\ {orphans, landed, seen} \subseteq SUBSET Requests /\ spent \subseteq Jobs
    /\ used \in [calls : Nat, moves : Nat, faults : Nat]

(* Whatever services race and wherever they die: the ledger can be replayed*)
(* (one review per request, one approval per passed review, one promotion  *)
(* per approval), and a promotion is on record only if the ref has been at *)
(* its commit since it was approved (promotion/service.py:520).            *)
RecordsAreTrue ==
    /\ ~ledger.bad
    /\ ledger.promoted \subseteq seen

(* The ref is moved by a service, or by a git child that outlived one, only*)
(* onto the patch of a passed and approved review, on top of what is there:*)
(* no commit of anybody else is lost (ADR-0030, consequences).             *)
MovesAreApproved ==
    [][landed' # landed \/ (ref' # ref /\ used' = used) =>
         \E r \in Requests : /\ ledger.review[r].passed /\ Approved(r)
                             /\ ref' = Append(ref, Patch[r])]_vars

(* Callers are told the truth: what "ok" promises is on record; "drift" is *)
(* never said of a promotion the ref stands at, nor "rejected" of one that *)
(* landed; and "unwritten" only of a fact that is not in the ledger.       *)
AnswersAreTrue == lies = {}

(* A ref that a promotion has moved is recorded as its promotion, unless   *)
(* somebody moves it on, the store, git or the process fails, or the race  *)
(* for the ledger is lost too often; and a close ends.                     *)
LandedIsRecorded ==
    /\ \A r \in Requests :
          r \in landed ~> \/ r \in ledger.promoted
                          \/ used.moves + used.faults > 0
                          \/ <<"promote", r>> \in spent
    /\ \A s \in Services : phase[s] = "closing" ~> phase[s] # "closing"
=============================================================================
