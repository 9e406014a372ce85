--------------------------- MODULE PromotionProofs ---------------------------
(***************************************************************************)
(* Proofs about Promotion, for any services, requests and bounds.          *)
(***************************************************************************)
EXTENDS Promotion, SequenceTheorems, TLAPS

(* A task that is not about to append has a try left.                      *)
TriesLeft ==
    \A s \in Services, j \in Jobs : task[s, j].at # "append" => task[s, j].tries < MaxTries

(* The ledger replays, and approvals are of reviews that passed.           *)
Books ==
    /\ ~ledger.bad
    /\ \A r \in Requests : Approved(r) => ledger.review[r].done /\ ledger.review[r].passed

(* What a task has found out still holds: reviews that passed, approvals   *)
(* and sightings are never taken back, and an append that is still fresh   *)
(* would meet the ledger it was decided from.                              *)
Founded(l, sn, j, t) ==
    /\ j[1] = "approve" /\ t.at # "idle" => l.review[Of(j)].done /\ l.review[Of(j)].passed
    /\ j[1] = "promote" /\ t.at # "idle" => l.approval[Of(j)] # "none"
    /\ j[1] = "promote" /\ t.at \in {"record", "append"} => Of(j) \in sn
    /\ t.at = "append" /\ t.fresh => ~Refused(l, [job |-> j, on |-> t.on, passed |-> t.passed])

Tasks == \A s \in Services, j \in Jobs : Founded(ledger, seen, j, task[s, j])

(* Whenever the ref is where an approved promotion takes it, that was seen.*)
Sightings ==
    /\ ledger.promoted \subseteq seen
    /\ \A r \in Requests : Approved(r) /\ ref = Commit(r) => r \in seen
    /\ \A r \in orphans : Approved(r)

Inv == TypeOK /\ TriesLeft /\ Books /\ Tasks /\ Sightings /\ lies = {}

-----------------------------------------------------------------------------
(* A job is about a request.                                               *)
LEMMA JobFacts ==
    ASSUME NEW j \in Jobs
    PROVE  /\ Of(j) \in Requests
           /\ j[1] \in {"review", "approve", "promote"}
           /\ j[1] = "approve" => j[2] \in Ops /\ j = <<"approve", j[2]>>
           /\ j[1] # "approve" => j[2] \in Requests /\ j = <<j[1], j[2]>>
BY PromotionAssumption DEF Jobs, Of

(* Reviews and promotions are of their request, approvals of a review.     *)
LEMMA JobsOf ==
    /\ \A r \in Requests : /\ <<"review", r>> \in Jobs /\ Of(<<"review", r>>) = r
                           /\ <<"promote", r>> \in Jobs /\ Of(<<"promote", r>>) = r
    /\ \A o \in Ops : <<"approve", o>> \in Jobs /\ Of(<<"approve", o>>) = ReviewOf[o]
BY DEF Jobs, Of

(* An idle task has its type, and tries left.                              *)
LEMMA IdleTyped == Idle \in Task /\ Idle.at = "idle" /\ Idle.tries < MaxTries /\ ~Idle.fresh
BY PromotionAssumption DEF Idle, Task, Ats

(* The commit of a request is a revision.                                  *)
LEMMA CommitTyped ==
    ASSUME TypeOK, NEW r \in Requests
    PROVE  /\ Expected(r) \in Seq(Hands) /\ Commit(r) \in Seq(Hands)
           /\ Commit(r) = Append(Expected(r), Patch[r])
<1>1. ledger.review[r].on \in Seq(Hands)
  BY DEF TypeOK, Ledger, Review
<1>2. Patch[r] \in Hands
  BY DEF Hands
<1> QED
  BY <1>1, <1>2 DEF Expected, Commit, Integration

-----------------------------------------------------------------------------
(* A fact that is not refused leaves a ledger that replays; what was on    *)
(* record stays there, and nothing else joins it than the fact.            *)
LEMMA AddFact ==
    ASSUME NEW l \in Ledger, NEW f, f.job \in Jobs, f.on \in Seq(Hands), f.passed \in BOOLEAN
    PROVE  Add(l, f) \in Ledger
<1> DEFINE r == Of(f.job)
<1>1. r \in Requests /\ f.job[1] \in {"review", "approve", "promote"}
      /\ (f.job[1] = "approve" => f.job[2] \in Ops)
  BY JobFacts
<1>2. [l EXCEPT !.bad = TRUE] \in Ledger
  BY DEF Ledger
<1>3. [l EXCEPT !.review[r] = [done |-> TRUE, on |-> f.on, passed |-> f.passed]] \in Ledger
  BY <1>1 DEF Ledger, Review
<1>4. ASSUME f.job[1] = "approve" PROVE [l EXCEPT !.approval[r] = f.job[2]] \in Ledger
  BY <1>1, <1>4 DEF Ledger
<1>5. [l EXCEPT !.promoted = @ \cup {r}] \in Ledger
  BY <1>1 DEF Ledger
<1> HIDE DEF r
<1> QED
  BY <1>1, <1>2, <1>3, <1>4, <1>5 DEF Add, r

(* What the ledger n keeps of the ledger l after a fact about the job j.   *)
Kept(l, n, j, r) ==
    /\ n.bad = l.bad
    /\ l.review[r].done => n.review[r] = l.review[r]
    /\ l.approval[r] # "none" => n.approval[r] = l.approval[r]
    /\ n.approval[r] # "none" => \/ l.approval[r] # "none"
                                 \/ l.review[r].done /\ l.review[r].passed
    /\ r \in l.promoted => r \in n.promoted
    /\ r \in n.promoted => r \in l.promoted \/ (j[1] = "promote" /\ r = Of(j))

(* A fact the ledger takes leaves on record what was there.                *)
LEMMA AddKeeps ==
    ASSUME NEW l \in Ledger, NEW f, f.job \in Jobs, f.on \in Seq(Hands), f.passed \in BOOLEAN,
           ~Refused(l, f), NEW r \in Requests
    PROVE  Kept(l, Add(l, f), f.job, r)
<1> DEFINE q == Of(f.job)
<1>1. q \in Requests /\ f.job[1] \in {"review", "approve", "promote"}
  BY JobFacts
<1>2. l.review \in [Requests -> Review] /\ l.approval \in [Requests -> Ops \cup {"none"}]
  BY DEF Ledger, Kept
<1>3. CASE f.job[1] = "review"
  <2>1. Add(l, f) = [l EXCEPT !.review[q] = [done |-> TRUE, on |-> f.on, passed |-> f.passed]]
    BY <1>3 DEF Add
  <2>2. ~l.review[q].done
    BY <1>3 DEF Refused
  <2> HIDE DEF q
  <2> QED
    BY <1>1, <1>2, <1>3, <2>1, <2>2 DEF Ledger, Kept
<1>4. CASE f.job[1] = "approve"
  <2>1. Add(l, f) = [l EXCEPT !.approval[q] = f.job[2]]
    BY <1>4 DEF Add
  <2>2. l.review[q].done /\ l.review[q].passed /\ l.approval[q] = "none"
    BY <1>4 DEF Refused
  <2> HIDE DEF q
  <2> QED
    BY <1>1, <1>2, <1>4, <2>1, <2>2 DEF Ledger, Kept
<1>5. CASE f.job[1] = "promote"
  <2>1. Add(l, f) = [l EXCEPT !.promoted = @ \cup {q}]
    BY <1>5 DEF Add
  <2> QED
    BY <1>1, <1>2, <1>5, <2>1 DEF Ledger, Kept
<1> QED
  BY <1>1, <1>3, <1>4, <1>5

(* What the caller of a write that went through is promised is on record.  *)
LEMMA AddHolds ==
    ASSUME NEW l \in Ledger, NEW f, f.job \in Jobs, f.on \in Seq(Hands), f.passed \in BOOLEAN,
           ~Refused(l, f)
    PROVE  LET r == Of(f.job) IN
           /\ f.job[1] = "review"  => Add(l, f).review[r].done
           /\ f.job[1] = "approve" => Add(l, f).approval[r] = f.job[2]
           /\ f.job[1] = "promote" => r \in Add(l, f).promoted
<1> DEFINE q == Of(f.job)
<1>1. q \in Requests /\ f.job[1] \in {"review", "approve", "promote"}
  BY JobFacts
<1>2. l.review \in [Requests -> Review] /\ l.approval \in [Requests -> Ops \cup {"none"}]
  BY DEF Ledger
<1>3. CASE f.job[1] = "review"
  <2>1. Add(l, f) = [l EXCEPT !.review[q] = [done |-> TRUE, on |-> f.on, passed |-> f.passed]]
    BY <1>3 DEF Add
  <2> HIDE DEF q
  <2>2. Add(l, f).review[q].done
    BY <1>1, <1>2, <2>1 DEF Ledger
  <2> QED
    BY <1>3, <2>2 DEF q
<1>4. CASE f.job[1] = "approve"
  <2>1. Add(l, f) = [l EXCEPT !.approval[q] = f.job[2]]
    BY <1>4 DEF Add
  <2> HIDE DEF q
  <2>2. Add(l, f).approval[q] = f.job[2]
    BY <1>1, <1>2, <2>1 DEF Ledger
  <2> QED
    BY <1>4, <2>2 DEF q
<1>5. CASE f.job[1] = "promote"
  <2>1. Add(l, f) = [l EXCEPT !.promoted = @ \cup {q}]
    BY <1>5 DEF Add
  <2> QED
    BY <1>1, <1>2, <1>5, <2>1 DEF Ledger
<1> QED
  BY <1>1, <1>3, <1>4, <1>5

-----------------------------------------------------------------------------
(* Steps that write nothing: the tasks they touch must be founded anew,    *)
(* and the ref must not come to a commit unseen.                           *)
LEMMA Moves ==
    ASSUME Inv, ledger' = ledger,
           task' \in [Services \X Jobs -> Task],
           \A s \in Services, j \in Jobs :
              \/ task'[s, j] = task[s, j]
              \/ /\ task'[s, j].at # "append" => task'[s, j].tries < MaxTries
                 /\ Founded(ledger, seen', j, task'[s, j]),
           ref' \in Seq(Hands), landed' \in SUBSET Requests,
           seen' \in SUBSET Requests, seen \subseteq seen',
           \A r \in Requests : Approved(r) /\ ref' = Commit(r) => r \in seen',
           orphans' \in SUBSET Requests, \A r \in orphans' : Approved(r),
           phase' \in [Services -> {"open", "closing", "closed"}],
           used' \in [calls : Nat, moves : Nat, faults : Nat],
           spent' \subseteq Jobs, lies' = {}
    PROVE  Inv'
<1>1. TypeOK'
  BY DEF Inv, TypeOK
<1>2. TriesLeft'
  BY DEF Inv, TriesLeft
<1>3. Books'
  BY DEF Inv, Books, Approved
<1>4. Tasks'
  <2> SUFFICES ASSUME NEW s \in Services, NEW j \in Jobs
               PROVE  Founded(ledger, seen', j, task'[s, j])
    BY DEF Tasks
  <2>1. CASE task'[s, j] = task[s, j]
    <3>1. Founded(ledger, seen, j, task[s, j])
      BY DEF Inv, Tasks
    <3> QED
      BY <3>1, <2>1 DEF Founded
  <2> QED
    BY <2>1
<1>5. Sightings'
  BY DEF Inv, Sightings, Approved, Commit, Integration
<1> QED
  BY <1>1, <1>2, <1>3, <1>4, <1>5 DEF Inv

(* A step of one task that leaves the ref alone.                           *)
Puts(s, j, t) == task' = [task EXCEPT ![<<s, j>>] = t]

(* One task moves and nothing else: it must be founded where it goes.      *)
LEMMA TaskMoves ==
    ASSUME Inv, NEW s \in Services, NEW j \in Jobs, NEW t \in Task,
           Puts(s, j, t),
           t.at # "append" => t.tries < MaxTries,
           Founded(ledger, seen, j, t),
           UNCHANGED <<repo, ledger, phase, seen>>,
           used' \in [calls : Nat, moves : Nat, faults : Nat],
           spent' \subseteq Jobs, lies' = {}
    PROVE  Inv'
<1>1. task' \in [Services \X Jobs -> Task]
  BY DEF Inv, TypeOK, Puts
<1>2. \A z \in Services, k \in Jobs :
         \/ task'[z, k] = task[z, k]
         \/ /\ task'[z, k].at # "append" => task'[z, k].tries < MaxTries
            /\ Founded(ledger, seen', k, task'[z, k])
  <2> SUFFICES ASSUME NEW z \in Services, NEW k \in Jobs
               PROVE  \/ task'[z, k] = task[z, k]
                      \/ /\ task'[z, k].at # "append" => task'[z, k].tries < MaxTries
                         /\ Founded(ledger, seen', k, task'[z, k])
    OBVIOUS
  <2>1. CASE <<z, k>> = <<s, j>>
    <3>1. task'[z, k] = t /\ k = j
      BY <2>1 DEF Inv, TypeOK, Puts
    <3> QED
      BY <3>1
  <2>2. CASE <<z, k>> # <<s, j>>
    BY <2>2 DEF Inv, TypeOK, Puts
  <2> QED
    BY <2>1, <2>2
<1>3. /\ ref' \in Seq(Hands) /\ {orphans', landed', seen'} \subseteq SUBSET Requests
      /\ phase' \in [Services -> {"open", "closing", "closed"}]
      /\ seen \subseteq seen'
  BY DEF Inv, TypeOK, repo
<1>4. /\ \A r \in Requests : Approved(r) /\ ref' = Commit(r) => r \in seen'
      /\ \A r \in orphans' : Approved(r)
  BY DEF Inv, Sightings, repo
<1> QED
  BY <1>1, <1>2, <1>3, <1>4, Moves

(* The fact of a task that is about to append.                             *)
LEMMA FactTyped ==
    ASSUME TypeOK, NEW s \in Services, NEW j \in Jobs
    PROVE  /\ Fact(s, j).job = j /\ Fact(s, j).on \in Seq(Hands) /\ Fact(s, j).passed \in BOOLEAN
           /\ task[s, j] \in Task
<1>1. task[s, j] \in Task
  BY DEF TypeOK
<1> QED
  BY <1>1 DEF Task, Fact

(* A fresh append: the fact is one the ledger takes, whoever loaded it     *)
(* before is late, and what was approved remains so.                       *)
LEMMA Writes ==
    ASSUME Inv, NEW s \in Services, NEW j \in Jobs,
           task[s, j].at = "append", task[s, j].fresh, Written(s, j),
           UNCHANGED <<repo, phase>>, used' \in [calls : Nat, moves : Nat, faults : Nat],
           spent' \subseteq Jobs, lies' = {}
    PROVE  Inv'
<1> DEFINE f == Fact(s, j)
<1>1. f.job = j /\ f.job \in Jobs /\ f.on \in Seq(Hands) /\ f.passed \in BOOLEAN
  BY FactTyped DEF Inv
<1>2. ledger \in Ledger /\ ledger' = Add(ledger, f)
  BY DEF Inv, TypeOK, Written
<1>3. ~Refused(ledger, f)
  BY DEF Inv, Tasks, Founded, Fact
<1> HIDE DEF f
<1>4. ledger' \in Ledger
  BY <1>1, <1>2, AddFact
<1>5. \A r \in Requests : Kept(ledger, ledger', j, r)
  <2>1. \A r \in Requests : Kept(ledger, Add(ledger, f), f.job, r)
    BY <1>1, <1>2, <1>3, AddKeeps
  <2> QED
    BY <2>1, <1>1, <1>2
<1>6. ~ledger'.bad
  <2>1. Of(j) \in Requests
    BY JobFacts
  <2> QED
    BY <2>1, <1>5 DEF Kept, Inv, Books
<1>7. task' \in [Services \X Jobs -> Task]
      /\ \A z \in Services, k \in Jobs :
            task'[z, k] = Idle \/ (task'[z, k] = [task[z, k] EXCEPT !.fresh = FALSE])
  <2>1. task' = [sj \in Services \X Jobs |-> IF sj = <<s, j>> THEN Idle ELSE Late(task[sj])]
    BY DEF Written
  <2>2. ASSUME NEW sj \in Services \X Jobs PROVE Late(task[sj]) \in Task
    <3>1. task[sj] \in Task
      BY DEF Inv, TypeOK
    <3> QED
      BY <3>1 DEF Task, Late
  <2> QED
    BY <2>1, <2>2, IdleTyped DEF Late
<1>8. seen' = seen \cup {r \in Requests : ledger'.approval[r] # "none"
                                          /\ ref = Integration(r, ledger'.review[r].on)}
  BY DEF Written, Sees
<1>9. TypeOK'
  <2>1. seen' \in SUBSET Requests
    BY <1>8 DEF Inv, TypeOK
  <2> QED
    BY <1>4, <1>7, <2>1 DEF Inv, TypeOK, repo
<1>10. TriesLeft'
  <2> SUFFICES ASSUME NEW z \in Services, NEW k \in Jobs, task'[z, k].at # "append"
               PROVE  task'[z, k].tries < MaxTries
    BY DEF TriesLeft
  <2>1. CASE task'[z, k] = Idle
    BY <2>1, IdleTyped
  <2>2. CASE task'[z, k] = [task[z, k] EXCEPT !.fresh = FALSE]
    <3>1. task[z, k] \in Task
      BY DEF Inv, TypeOK
    <3> QED
      BY <2>2, <3>1 DEF Inv, TriesLeft, Task
  <2> QED
    BY <1>7, <2>1, <2>2
<1>11. Books'
  <2> SUFFICES ASSUME NEW r \in Requests, ledger'.approval[r] # "none"
               PROVE  ledger'.review[r].done /\ ledger'.review[r].passed
    BY <1>6 DEF Books, Approved
  <2>1. ledger.review[r].done /\ ledger.review[r].passed
    BY <1>5 DEF Kept, Inv, Books, Approved
  <2> QED
    BY <2>1, <1>5 DEF Kept
<1>12. Tasks'
  <2> SUFFICES ASSUME NEW z \in Services, NEW k \in Jobs
               PROVE  Founded(ledger', seen', k, task'[z, k])
    BY DEF Tasks
  <2>1. CASE task'[z, k] = Idle
    <3>1. task'[z, k].at = "idle"
      BY <2>1, IdleTyped
    <3> QED
      BY <3>1 DEF Founded
  <2>2. CASE task'[z, k] = [task[z, k] EXCEPT !.fresh = FALSE]
    <3>1. task[z, k] \in Task /\ Of(k) \in Requests
      BY JobFacts DEF Inv, TypeOK
    <3>2. task'[z, k].at = task[z, k].at /\ ~task'[z, k].fresh
      BY <2>2, <3>1 DEF Task
    <3>3. Founded(ledger, seen, k, task[z, k])
      BY DEF Inv, Tasks
    <3>4. Kept(ledger, ledger', j, Of(k)) /\ seen \subseteq seen'
      BY <3>1, <1>5, <1>8
    <3>5. k[1] = "approve" /\ task[z, k].at # "idle" =>
             ledger'.review[Of(k)].done /\ ledger'.review[Of(k)].passed
      BY <3>3, <3>4 DEF Founded, Kept
    <3>6. k[1] = "promote" /\ task[z, k].at # "idle" => ledger'.approval[Of(k)] # "none"
      BY <3>3, <3>4 DEF Founded, Kept
    <3>7. k[1] = "promote" /\ task[z, k].at \in {"record", "append"} => Of(k) \in seen'
      BY <3>3, <3>4 DEF Founded
    <3> QED
      BY <3>2, <3>5, <3>6, <3>7 DEF Founded
  <2> QED
    BY <1>7, <2>1, <2>2
<1>13. Sightings'
  <2>1. ledger'.promoted \subseteq seen'
    <3> SUFFICES ASSUME NEW r \in ledger'.promoted PROVE r \in seen'
      OBVIOUS
    <3>1. r \in Requests
      BY <1>4 DEF Ledger
    <3>2. CASE r \in ledger.promoted
      BY <3>2, <1>8 DEF Inv, Sightings
    <3>3. CASE j[1] = "promote" /\ r = Of(j)
      BY <3>3, <1>8 DEF Inv, Tasks, Founded
    <3> QED
      BY <3>1, <3>2, <3>3, <1>5 DEF Kept
  <2>2. \A r \in Requests : Approved(r)' /\ ref' = Commit(r)' => r \in seen'
    BY <1>8 DEF Approved, Commit, repo
  <2>3. \A r \in orphans' : Approved(r)'
    <3>1. orphans' = orphans /\ orphans \subseteq Requests
      BY DEF Inv, TypeOK, repo
    <3>2. \A r \in orphans : ledger.approval[r] # "none"
      BY DEF Inv, Sightings, Approved
    <3>3. \A r \in Requests : ledger.approval[r] # "none" =>
             ledger'.approval[r] = ledger.approval[r]
      BY <1>5 DEF Kept
    <3> QED
      BY ONLY <3>1, <3>2, <3>3 DEF Approved
  <2> QED
    BY <2>1, <2>2, <2>3 DEF Sightings
<1> QED
  BY <1>9, <1>10, <1>11, <1>12, <1>13 DEF Inv

(* The swap of an approved promotion.                                      *)
LEMMA Swapped ==
    ASSUME Inv, NEW r \in Requests, Approved(r), UpdateRef(r)
    PROVE  /\ ref' \in Seq(Hands) /\ landed' \in SUBSET Requests /\ seen' \in SUBSET Requests
           /\ seen \subseteq seen'
           /\ \A q \in Requests : Approved(q) /\ ref' = Commit(q) => q \in seen'
<1>1. CASE ref = Expected(r)
  <2>1. /\ ref' = Commit(r) /\ landed' = landed \cup {r}
        /\ seen' = seen \cup {q \in Requests : ledger.approval[q] # "none" /\ ref' = Commit(q)}
    BY <1>1 DEF UpdateRef, Sees, Commit
  <2>2. ref' \in Seq(Hands)
    BY <2>1, CommitTyped DEF Inv
  <2> QED
    BY <2>1, <2>2 DEF Inv, TypeOK, Approved
<1>2. CASE ref # Expected(r)
  BY <1>2 DEF Inv, TypeOK, UpdateRef, Sightings
<1> QED
  BY <1>1, <1>2

-----------------------------------------------------------------------------
(* What the counters and tasks are after the pieces the actions are of.    *)
LEMMA Counts ==
    ASSUME TypeOK, NEW what \in {"calls", "moves", "faults"}, NEW max, Spend(what, max)
    PROVE  used' \in [calls : Nat, moves : Nat, faults : Nat] /\ used' # used
<1>1. used \in [calls : Nat, moves : Nat, faults : Nat] /\ used' = [used EXCEPT ![what] = @ + 1]
  BY DEF TypeOK, Spend
<1>2. used[what] \in Nat
  BY <1>1
<1> QED
  BY <1>1, <1>2

Gone(s, j, x) == [task[s, j] EXCEPT !.at = x]

(* A task that goes on keeps its type and its tries.                       *)
LEMMA GoneTo ==
    ASSUME TypeOK, NEW s \in Services, NEW j \in Jobs, NEW x \in Ats, Goto(s, j, x)
    PROVE  /\ Gone(s, j, x) \in Task /\ Puts(s, j, Gone(s, j, x))
           /\ Gone(s, j, x).at = x /\ Gone(s, j, x).tries = task[s, j].tries
<1>1. task[s, j] \in Task
  BY DEF TypeOK
<1>2. Puts(s, j, Gone(s, j, x))
  BY DEF Goto, Gone, Puts
<1> QED
  BY <1>1, <1>2 DEF Task, Gone

(* A task goes on, on the ground it stood on, but not to an append.        *)
LEMMA GoesOn ==
    ASSUME Inv, NEW s \in Services, NEW j \in Jobs, NEW x \in Ats \ {"append", "idle"},
           Goto(s, j, x), task[s, j].at # "idle", task[s, j].tries < MaxTries,
           x = "record" /\ j[1] = "promote" => Of(j) \in seen,
           UNCHANGED <<repo, ledger, phase, seen, used>>
    PROVE  Inv'
<1> DEFINE t == Gone(s, j, x)
<1>1. /\ t \in Task /\ Puts(s, j, t)
      /\ t.at = x /\ t.tries = task[s, j].tries
  <2>1. TypeOK /\ x \in Ats
    BY DEF Inv
  <2> QED
    BY <2>1, GoneTo
<1> HIDE DEF t
<1>2. Founded(ledger, seen, j, t)
  <2>1. Founded(ledger, seen, j, task[s, j])
    BY DEF Inv, Tasks
  <2> QED
    BY <1>1, <2>1 DEF Founded
<1>3. used' \in [calls : Nat, moves : Nat, faults : Nat] /\ spent' \subseteq Jobs /\ lies' = {}
  BY DEF Inv, TypeOK, Goto, said
<1> QED
  BY <1>1, <1>2, <1>3, TaskMoves

(* A task ends, and what it tells is true.                                 *)
LEMMA Ends ==
    ASSUME Inv, NEW s \in Services, NEW j \in Jobs, NEW why, End(s, j, why),
           ~Untrue(j, why, ledger), UNCHANGED <<repo, ledger, phase, seen>>,
           used' \in [calls : Nat, moves : Nat, faults : Nat]
    PROVE  Inv'
<1>1. Puts(s, j, Idle)
  BY DEF End, Puts
<1>2. lies' = {} /\ spent' \subseteq Jobs
  BY DEF End, Answer, Inv, TypeOK
<1>3. Founded(ledger, seen, j, Idle)
  BY IdleTyped DEF Founded
<1> QED
  BY <1>1, <1>2, <1>3, IdleTyped, TaskMoves

(* What is found on record is there.                                       *)
LEMMA FoundIsTrue == ASSUME NEW j \in Jobs, Find(j) # "none" PROVE ~Untrue(j, Find(j), ledger)
<1>1. j[1] \in {"review", "approve", "promote"}
  BY JobFacts
<1>2. CASE j[1] = "review"
  BY <1>2 DEF Find, Untrue
<1>3. CASE j[1] = "approve"
  BY <1>3 DEF Find, Untrue
<1>4. CASE j[1] = "promote"
  BY <1>4 DEF Find, Untrue
<1> QED
  BY <1>1, <1>2, <1>3, <1>4

(* Answers that claim nothing are true.                                    *)
LEMMA QuietIsTrue ==
    ASSUME NEW j, NEW why \in {"refused", "error", "unknown", "conflict"}
    PROVE  ~Untrue(j, why, ledger) /\ ~Untrue(j, why, ledger')
BY DEF Untrue

-----------------------------------------------------------------------------
(* A call starts a task only on what it found on record.                   *)
LEMMA CallKeeps ==
    ASSUME Inv, NEW s \in Services, NEW j \in Jobs, Call(s, j)
    PROVE  Inv'
<1>1. used' \in [calls : Nat, moves : Nat, faults : Nat]
  BY Counts DEF Inv, Call
<1>2. UNCHANGED <<repo, ledger, phase, seen>>
  BY DEF Call
<1>3. CASE Find(j) # "none"
  <2>1. End(s, j, Find(j))
    BY <1>3 DEF Call
  <2> QED
    BY <1>1, <1>2, <1>3, <2>1, FoundIsTrue, Ends
<1>4. CASE End(s, j, "refused")
  BY <1>1, <1>2, <1>4, QuietIsTrue, Ends
<1>5. ASSUME NEW x \in {"resolve", "state"}, Goto(s, j, x),
             j[1] = "approve" => ledger.review[Of(j)].done /\ ledger.review[Of(j)].passed,
             j[1] = "promote" => Approved(Of(j))
      PROVE  Inv'
  <2> DEFINE t == Gone(s, j, x)
  <2>1. x \in Ats
    BY <1>5 DEF Ats
  <2>2. /\ t \in Task /\ Puts(s, j, t)
        /\ t.at = x /\ t.tries = task[s, j].tries
    <3>1. TypeOK
      BY DEF Inv
    <3> QED
      BY <1>5, <2>1, <3>1, GoneTo
  <2> HIDE DEF t
  <2>3. t.tries < MaxTries
    BY <2>2 DEF Inv, TriesLeft, Call, At
  <2>4. Founded(ledger, seen, j, t)
    BY <1>5, <2>2 DEF Founded, Approved
  <2>5. spent' \subseteq Jobs /\ lies' = {}
    BY <1>5 DEF Inv, TypeOK, Goto, said
  <2> QED
    BY <1>1, <1>2, <2>2, <2>3, <2>4, <2>5, TaskMoves
<1>6. j[1] \in {"review", "approve", "promote"}
  BY JobFacts
<1>7. CASE Find(j) = "none" /\ j[1] = "review"
  <2>1. Goto(s, j, "resolve")
    BY <1>7 DEF Call
  <2> QED
    BY <1>7, <2>1, <1>5
<1>8. CASE Find(j) = "none" /\ j[1] = "approve"
  <2>1. \/ /\ Goto(s, j, "resolve")
           /\ ledger.review[Of(j)].done /\ ledger.review[Of(j)].passed
        \/ End(s, j, "refused")
    BY <1>8 DEF Call
  <2> QED
    BY <1>4, <1>5, <1>8, <2>1
<1>9. CASE Find(j) = "none" /\ j[1] = "promote"
  <2>1. \/ Goto(s, j, "state") /\ Approved(Of(j))
        \/ End(s, j, "refused")
    BY <1>9 DEF Call
  <2> QED
    BY <1>4, <1>5, <1>9, <2>1
<1> QED
  BY <1>3, <1>6, <1>7, <1>8, <1>9

(* Counters that do not move keep their type.                              *)
LEMMA UsedKept ==
    ASSUME TypeOK, UNCHANGED used PROVE used' \in [calls : Nat, moves : Nat, faults : Nat]
BY DEF TypeOK

(* A review takes the revision the ref is at.                              *)
LEMMA ResolveKeeps ==
    ASSUME Inv, NEW s \in Services, NEW r \in Requests, Resolve(s, r)
    PROVE  Inv'
<1> DEFINE j == <<"review", r>>
<1>1. j \in Jobs /\ Of(j) = r /\ j[1] = "review"
  BY JobsOf
<1>2. task[s, j] \in Task /\ task[s, j].at = "resolve" /\ ref \in Seq(Hands)
  BY <1>1 DEF Inv, TypeOK, Resolve, At
<1>3. PICK good \in BOOLEAN :
         task' = [task EXCEPT ![<<s, j>>] = [@ EXCEPT !.at = "observe", !.on = ref, !.passed = good]]
  BY DEF Resolve
<1> DEFINE t == [task[s, j] EXCEPT !.at = "observe", !.on = ref, !.passed = good]
<1>4. t \in Task /\ t.at = "observe" /\ t.tries = task[s, j].tries
  BY <1>2 DEF Task, Ats
<1>5. Puts(s, j, t)
  BY <1>3 DEF Puts
<1> HIDE DEF t
<1>6. t.tries < MaxTries
  BY <1>1, <1>2, <1>4 DEF Inv, TriesLeft
<1>7. Founded(ledger, seen, j, t)
  BY <1>1, <1>4 DEF Founded
<1>8. /\ UNCHANGED <<repo, ledger, phase, seen>> /\ lies' = {} /\ spent' \subseteq Jobs
      /\ used' \in [calls : Nat, moves : Nat, faults : Nat]
  BY DEF Inv, TypeOK, Resolve, said
<1> HIDE DEF j
<1> QED
  BY <1>1, <1>4, <1>5, <1>6, <1>7, <1>8, TaskMoves

(* A review goes on to be recorded, or finds drift.                        *)
LEMMA ObserveKeeps ==
    ASSUME Inv, NEW s \in Services, NEW r \in Requests, Observe(s, r)
    PROVE  Inv'
<1> DEFINE j == <<"review", r>>
<1>1. j \in Jobs /\ j[1] = "review"
  BY JobsOf
<1>2. /\ task[s, j].at = "observe" /\ UNCHANGED <<repo, ledger, phase, seen, used>>
      /\ Goto(s, j, "record") \/ End(s, j, "drift")
  BY DEF Observe, At
<1>3. task[s, j].tries < MaxTries
  BY <1>1, <1>2 DEF Inv, TriesLeft
<1>4. ~Untrue(j, "drift", ledger)
  BY <1>1 DEF Untrue
<1>5. used' \in [calls : Nat, moves : Nat, faults : Nat]
  BY <1>2, UsedKept DEF Inv
<1>6. "record" \in Ats \ {"append", "idle"}
  BY DEF Ats
<1> HIDE DEF j
<1> QED
  BY <1>1, <1>2, <1>3, <1>4, <1>5, <1>6, GoesOn, Ends

(* An approval goes on to be recorded, or finds drift.                     *)
LEMMA ConfirmKeeps ==
    ASSUME Inv, NEW s \in Services, NEW o \in Ops, Confirm(s, o)
    PROVE  Inv'
<1> DEFINE j == <<"approve", o>>
<1>1. j \in Jobs /\ j[1] = "approve"
  BY JobsOf
<1>2. /\ task[s, j].at = "resolve" /\ UNCHANGED <<repo, ledger, phase, seen, used>>
      /\ Goto(s, j, "record") \/ End(s, j, "drift")
  BY DEF Confirm, At
<1>3. task[s, j].tries < MaxTries
  BY <1>1, <1>2 DEF Inv, TriesLeft
<1>4. ~Untrue(j, "drift", ledger)
  BY <1>1 DEF Untrue
<1>5. used' \in [calls : Nat, moves : Nat, faults : Nat]
  BY <1>2, UsedKept DEF Inv
<1>6. "record" \in Ats \ {"append", "idle"}
  BY DEF Ats
<1> HIDE DEF j
<1> QED
  BY <1>1, <1>2, <1>3, <1>4, <1>5, <1>6, GoesOn, Ends

(* A promotion under way is of an approved review.                         *)
LEMMA Promoting ==
    ASSUME Inv, NEW s \in Services, NEW r \in Requests, task[s, <<"promote", r>>].at # "idle"
    PROVE  /\ <<"promote", r>> \in Jobs /\ Of(<<"promote", r>>) = r /\ Approved(r)
           /\ task[s, <<"promote", r>>].at # "append" =>
                 task[s, <<"promote", r>>].tries < MaxTries
<1>1. <<"promote", r>> \in Jobs /\ Of(<<"promote", r>>) = r
  BY JobsOf
<1>2. Founded(ledger, seen, <<"promote", r>>, task[s, <<"promote", r>>])
  BY <1>1 DEF Inv, Tasks
<1> QED
  BY <1>1, <1>2 DEF Founded, Approved, Inv, TriesLeft

(* A promotion looks at the ref: it goes on, or the ref is not there.      *)
LEMMA LooksKeep ==
    ASSUME Inv, NEW s \in Services, NEW r \in Requests,
           NEW x \in {"again", "swap", "record"}, NEW why \in {"drift", "rejected"},
           task[s, <<"promote", r>>].at \in {"state", "again", "swap", "reread"},
           UNCHANGED <<repo, ledger, phase, seen, used>>,
           \/ Goto(s, <<"promote", r>>, x) /\ (x = "record" => ref = Commit(r))
           \/ End(s, <<"promote", r>>, why) /\ ref # Commit(r)
    PROVE  Inv'
<1> DEFINE j == <<"promote", r>>
<1>1. /\ j \in Jobs /\ Of(j) = r /\ Approved(r)
      /\ task[s, j].at # "idle" /\ task[s, j].tries < MaxTries
  BY Promoting
<1>2. x \in Ats \ {"append", "idle"}
  BY DEF Ats
<1>3. x = "record" /\ ref = Commit(r) => Of(j) \in seen
  BY <1>1 DEF Inv, Sightings
<1>4. ref # Commit(r) => ~Untrue(j, why, ledger)
  BY <1>1 DEF Untrue
<1>5. used' \in [calls : Nat, moves : Nat, faults : Nat]
  BY UsedKept DEF Inv
<1>6. CASE Goto(s, j, x) /\ (x = "record" => ref = Commit(r))
  <2> HIDE DEF j
  <2> QED
    BY <1>1, <1>2, <1>3, <1>6, GoesOn
<1>7. CASE End(s, j, why) /\ ref # Commit(r)
  <2> HIDE DEF j
  <2> QED
    BY <1>1, <1>4, <1>5, <1>7, Ends
<1> QED
  BY <1>6, <1>7

(* The three looks of a promotion at the ref.                              *)
LEMMA PromoteKeeps ==
    ASSUME Inv, NEW s \in Services, NEW r \in Requests,
           RefState(s, r) \/ Reobserve(s, r) \/ Reread(s, r)
    PROVE  Inv'
<1> DEFINE j == <<"promote", r>>
<1>1. CASE RefState(s, r)
  <2>1. /\ task[s, j].at = "state" /\ UNCHANGED <<repo, ledger, phase, seen, used>>
        /\ \/ Goto(s, j, "again") \/ Goto(s, j, "swap")
           \/ End(s, j, "drift") /\ ref # Commit(r)
    BY <1>1 DEF RefState, At
  <2> QED
    BY <2>1, LooksKeep
<1>2. CASE Reobserve(s, r)
  <2>1. /\ task[s, j].at = "again" /\ UNCHANGED <<repo, ledger, phase, seen, used>>
        /\ \/ Goto(s, j, "record") /\ ref = Commit(r)
           \/ End(s, j, "drift") /\ ref # Commit(r)
    BY <1>2 DEF Reobserve, At
  <2> QED
    BY <2>1, LooksKeep
<1>3. CASE Reread(s, r)
  <2>1. /\ task[s, j].at = "reread" /\ UNCHANGED <<repo, ledger, phase, seen, used>>
        /\ \/ Goto(s, j, "record") /\ ref = Commit(r)
           \/ End(s, j, "rejected") /\ ref # Commit(r)
           \/ End(s, j, "drift") /\ ref # Commit(r)
    BY <1>3 DEF Reread, At
  <2>2. CASE Goto(s, j, "record") /\ ref = Commit(r)
    BY <2>1, <2>2, LooksKeep
  <2>3. CASE End(s, j, "rejected") /\ ref # Commit(r)
    BY <2>1, <2>3, LooksKeep
  <2>4. CASE End(s, j, "drift") /\ ref # Commit(r)
    BY <2>1, <2>4, LooksKeep
  <2> QED
    BY <2>1, <2>2, <2>3, <2>4
<1> QED
  BY <1>1, <1>2, <1>3

(* One task moves on the ground it stood on while an approved promotion may*)
(* have moved the ref.                                                     *)
LEMMA SwapMoves ==
    ASSUME Inv, NEW s \in Services, NEW r \in Requests, NEW t \in Task,
           task[s, <<"promote", r>>].at = "swap",
           Puts(s, <<"promote", r>>, t), t.at \in {"idle", "reread"}, t.tries < MaxTries,
           UpdateRef(r) \/ UNCHANGED <<ref, landed, seen>>,
           UNCHANGED <<ledger, phase, orphans>>,
           used' \in [calls : Nat, moves : Nat, faults : Nat], spent' \subseteq Jobs, lies' = {}
    PROVE  Inv'
<1> DEFINE j == <<"promote", r>>
<1>1. j \in Jobs /\ Of(j) = r /\ Approved(r)
  BY Promoting
<1>2. /\ ref' \in Seq(Hands) /\ landed' \in SUBSET Requests /\ seen' \in SUBSET Requests
      /\ seen \subseteq seen'
      /\ \A q \in Requests : Approved(q) /\ ref' = Commit(q) => q \in seen'
  <2>1. CASE UpdateRef(r)
    BY <1>1, <2>1, Swapped
  <2>2. CASE UNCHANGED <<ref, landed, seen>>
    BY <2>2 DEF Inv, TypeOK, Sightings
  <2> QED
    BY <2>1, <2>2
<1>3. task' \in [Services \X Jobs -> Task]
  BY <1>1 DEF Inv, TypeOK, Puts
<1>4. \A z \in Services, k \in Jobs :
         \/ task'[z, k] = task[z, k]
         \/ task'[z, k] = t /\ k = j
  BY <1>1 DEF Inv, TypeOK, Puts
<1>5. Founded(ledger, seen', j, t)
  BY <1>1 DEF Founded, Approved
<1>6. /\ orphans' \in SUBSET Requests /\ \A q \in orphans' : Approved(q)
      /\ phase' \in [Services -> {"open", "closing", "closed"}]
  BY DEF Inv, TypeOK, Sightings
<1> HIDE DEF j
<1>7. \A z \in Services, k \in Jobs :
         \/ task'[z, k] = task[z, k]
         \/ /\ task'[z, k].at # "append" => task'[z, k].tries < MaxTries
            /\ Founded(ledger, seen', k, task'[z, k])
  BY <1>4, <1>5
<1> QED
  BY <1>2, <1>3, <1>6, <1>7, Moves

(* The swap, and the swap of which nobody knows how it ended.              *)
LEMMA SwapKeeps ==
    ASSUME Inv, NEW s \in Services, NEW r \in Requests, Swap(s, r) \/ SwapUnknown(s, r)
    PROVE  Inv'
<1> DEFINE j == <<"promote", r>>
<1>1. task[s, j].at = "swap"
  BY DEF Swap, SwapUnknown, At
<1>2. j \in Jobs /\ task[s, j].tries < MaxTries
  BY <1>1, Promoting
<1>3. CASE Swap(s, r)
  <2>1. /\ Goto(s, j, "reread") /\ UpdateRef(r) /\ UNCHANGED <<ledger, phase, orphans>>
        /\ UNCHANGED <<lies, spent, used>>
    BY <1>3 DEF Swap, Goto, said
  <2>2. TypeOK /\ "reread" \in Ats
    BY DEF Inv, Ats
  <2>3. /\ Gone(s, j, "reread") \in Task /\ Puts(s, j, Gone(s, j, "reread"))
        /\ Gone(s, j, "reread").at = "reread" /\ Gone(s, j, "reread").tries < MaxTries
    BY <1>2, <2>1, <2>2, GoneTo
  <2>4. /\ used' \in [calls : Nat, moves : Nat, faults : Nat] /\ spent' \subseteq Jobs
        /\ lies' = {}
    BY <2>1 DEF Inv, TypeOK
  <2> QED
    BY <1>1, <2>1, <2>3, <2>4, SwapMoves
<1>4. CASE SwapUnknown(s, r)
  <2>1. /\ End(s, j, "unknown")
        /\ UpdateRef(r) \/ UNCHANGED <<ref, landed, seen>>
        /\ UNCHANGED <<ledger, phase, orphans>> /\ Spend("faults", MaxFaults)
    BY <1>4 DEF SwapUnknown
  <2>2. Puts(s, j, Idle)
    BY <2>1 DEF End, Puts
  <2>3. spent' \subseteq Jobs /\ lies' = {}
    <3>1. ~Untrue(j, "unknown", ledger)
      BY QuietIsTrue
    <3> QED
      BY <2>1, <3>1 DEF Inv, TypeOK, End, Answer
  <2>4. used' \in [calls : Nat, moves : Nat, faults : Nat]
    BY <2>1, Counts DEF Inv
  <2> QED
    BY <1>1, <2>1, <2>2, <2>3, <2>4, IdleTyped, SwapMoves
<1> QED
  BY <1>3, <1>4

(* A task that fails claims nothing.                                       *)
LEMMA FailsKeep ==
    ASSUME Inv, NEW s \in Services, NEW j \in Jobs, Fails(s, j)
    PROVE  Inv'
<1>1. End(s, j, "error") /\ UNCHANGED <<repo, ledger, phase, seen>>
  BY DEF Fails
<1>2. used' \in [calls : Nat, moves : Nat, faults : Nat]
  BY Counts DEF Inv, Fails
<1> QED
  BY <1>1, <1>2, QuietIsTrue, Ends

-----------------------------------------------------------------------------
(* What is found, in the ledger a service loads, not to be on record may be*)
(* appended to that ledger.                                                *)
LEMMA RecordKeeps ==
    ASSUME Inv, NEW s \in Services, NEW j \in Jobs, Record(s, j)
    PROVE  Inv'
<1>1. task[s, j].at = "record" /\ UNCHANGED <<repo, ledger, phase, seen, used>>
  BY DEF Record, At
<1>2. used' \in [calls : Nat, moves : Nat, faults : Nat]
  BY <1>1, UsedKept DEF Inv
<1>3. CASE Find(j) # "none"
  <2>1. End(s, j, Find(j))
    BY <1>3 DEF Record
  <2> QED
    BY <1>1, <1>2, <1>3, <2>1, FoundIsTrue, Ends
<1>4. CASE Find(j) = "none"
  <2> DEFINE t == Tried(task[s, j])
  <2>1. Puts(s, j, t) /\ UNCHANGED <<lies, spent>>
    BY <1>4 DEF Record, said, Puts
  <2>2. task[s, j] \in Task /\ task[s, j].tries < MaxTries
    BY <1>1 DEF Inv, TypeOK, TriesLeft
  <2>3. /\ t \in Task /\ t.at = "append"
        /\ t.on = task[s, j].on /\ t.passed = task[s, j].passed
    <3>1. task[s, j].tries \in 0 .. MaxTries /\ MaxTries \in Nat
      BY <2>2, PromotionAssumption DEF Task
    <3>2. task[s, j].tries + 1 \in 0 .. MaxTries
      <4>1. ASSUME NEW m \in Nat, NEW n \in 0 .. m, n < m PROVE n + 1 \in 0 .. m
        BY <4>1
      <4> QED
        BY <2>2, <3>1, <4>1
    <3>3. task[s, j].on \in Seq(Hands) /\ task[s, j].passed \in BOOLEAN
      BY <2>2 DEF Task
    <3> QED
      BY <3>2, <3>3 DEF Task, Ats, Tried
  <2> HIDE DEF t
  <2>4. Founded(ledger, seen, j, task[s, j])
    BY DEF Inv, Tasks
  <2>5. ~Refused(ledger, [job |-> j, on |-> t.on, passed |-> t.passed])
    <3> DEFINE f == [job |-> j, on |-> t.on, passed |-> t.passed]
    <3>1. f.job = j
      OBVIOUS
    <3> HIDE DEF f
    <3>2. CASE j[1] = "review"
      BY <1>4, <3>1, <3>2 DEF Find, Refused
    <3>3. CASE j[1] = "approve"
      BY <1>1, <1>4, <2>4, <3>1, <3>3 DEF Find, Refused, Founded, Approved
    <3>4. CASE j[1] = "promote"
      BY <1>1, <1>4, <2>4, <3>1, <3>4 DEF Find, Refused, Founded
    <3> QED
      BY <3>2, <3>3, <3>4, JobFacts DEF f
  <2>6. Founded(ledger, seen, j, t)
    BY <1>1, <2>3, <2>4, <2>5 DEF Founded
  <2>7. spent' \subseteq Jobs /\ lies' = {}
    BY <2>1 DEF Inv, TypeOK
  <2> QED
    BY <1>1, <1>2, <2>1, <2>3, <2>6, <2>7, TaskMoves
<1> QED
  BY <1>3, <1>4

-----------------------------------------------------------------------------
(* The ends of a write: what the caller is told is so.                     *)
LEMMA HeldIsTrue ==
    ASSUME TypeOK, NEW s \in Services, NEW j \in Jobs
    PROVE  /\ Holds(ledger, Fact(s, j)) => ~Untrue(j, "ok", ledger)
           /\ Holds(ledger', Fact(s, j)) => ~Untrue(j, "ok", ledger')
           /\ ~Holds(ledger, Fact(s, j)) => ~Untrue(j, "gave-up", ledger)
           /\ ~Holds(ledger', Fact(s, j)) => ~Untrue(j, "unwritten", ledger')
<1> DEFINE f == Fact(s, j)
<1>1. f.job = j
  BY FactTyped
<1> HIDE DEF f
<1>2. CASE j[1] = "review"
  BY <1>1, <1>2 DEF Holds, Untrue, f
<1>3. CASE j[1] = "approve"
  BY <1>1, <1>3 DEF Holds, Untrue, f
<1>4. CASE j[1] = "promote"
  BY <1>1, <1>4 DEF Holds, Untrue, f
<1> QED
  BY <1>2, <1>3, <1>4, JobFacts

(* A fresh append writes a fact the ledger takes, and "ok" is true of it.  *)
LEMMA AppendedKeeps ==
    ASSUME Inv, NEW s \in Services, NEW j \in Jobs, Appended(s, j)
    PROVE  Inv'
<1>1. /\ task[s, j].at = "append" /\ task[s, j].fresh /\ Written(s, j)
      /\ Answer(j, "ok", ledger') /\ UNCHANGED <<repo, phase, used>>
  BY DEF Appended, At
<1>2. ~Untrue(j, "ok", ledger')
  <2> DEFINE f == Fact(s, j)
  <2>1. f.job = j /\ f.job \in Jobs /\ f.on \in Seq(Hands) /\ f.passed \in BOOLEAN
    BY FactTyped DEF Inv
  <2>2. ledger \in Ledger /\ ledger' = Add(ledger, f) /\ ~Refused(ledger, f)
    BY <1>1 DEF Inv, TypeOK, Written, Tasks, Founded, Fact
  <2> HIDE DEF f
  <2>3. CASE j[1] = "review"
    BY <2>1, <2>2, <2>3, AddHolds DEF Untrue
  <2>4. CASE j[1] = "approve"
    BY <2>1, <2>2, <2>4, AddHolds DEF Untrue
  <2>5. CASE j[1] = "promote"
    BY <2>1, <2>2, <2>5, AddHolds DEF Untrue
  <2> QED
    BY <2>3, <2>4, <2>5, JobFacts
<1>3. used' \in [calls : Nat, moves : Nat, faults : Nat]
  BY <1>1, UsedKept DEF Inv
<1>4. lies' = {} /\ spent' \subseteq Jobs
  BY <1>1, <1>2 DEF Answer, Inv, TypeOK
<1> QED
  BY <1>1, <1>3, <1>4, Writes

(* A lost race is answered, or tried again from the load.                  *)
LEMMA ConflictedKeeps ==
    ASSUME Inv, NEW s \in Services, NEW j \in Jobs, Conflicted(s, j)
    PROVE  Inv'
<1>1. task[s, j].at = "append" /\ UNCHANGED <<repo, ledger, phase, seen, used>>
  BY DEF Conflicted, At
<1>2. used' \in [calls : Nat, moves : Nat, faults : Nat]
  BY <1>1, UsedKept DEF Inv
<1>3. CASE Holds(ledger, Fact(s, j))
  <2>1. End(s, j, "ok")
    BY <1>3 DEF Conflicted
  <2>2. ~Untrue(j, "ok", ledger)
    BY <1>3, HeldIsTrue DEF Inv
  <2> QED
    BY <1>1, <1>2, <2>1, <2>2, Ends
<1>4. CASE ~Holds(ledger, Fact(s, j)) /\ task[s, j].tries >= MaxTries
  <2>1. End(s, j, "gave-up")
    BY <1>4 DEF Conflicted
  <2>2. ~Untrue(j, "gave-up", ledger)
    BY <1>4, HeldIsTrue DEF Inv
  <2> QED
    BY <1>1, <1>2, <2>1, <2>2, Ends
<1>5. CASE ~Holds(ledger, Fact(s, j)) /\ ~(task[s, j].tries >= MaxTries)
  <2>1. Goto(s, j, "record")
    BY <1>5 DEF Conflicted
  <2>2. task[s, j].tries < MaxTries
    <3>1. task[s, j].tries \in 0 .. MaxTries /\ MaxTries \in Nat
      BY PromotionAssumption DEF Inv, TypeOK, Task
    <3>2. ASSUME NEW m \in Nat, NEW n \in 0 .. m, ~(n >= m) PROVE n < m
      BY <3>2
    <3> QED
      BY <1>5, <3>1, <3>2
  <2>3. j[1] = "promote" => Of(j) \in seen
    BY <1>1 DEF Inv, Tasks, Founded
  <2>4. "record" \in Ats \ {"append", "idle"}
    BY DEF Ats
  <2> QED
    BY <1>1, <2>1, <2>2, <2>3, <2>4, GoesOn
<1> QED
  BY <1>3, <1>4, <1>5

(* A failed append wrote or did not; what the read after it tells is so.   *)
LEMMA AppendFailsKeeps ==
    ASSUME Inv, NEW s \in Services, NEW j \in Jobs, AppendFails(s, j)
    PROVE  Inv'
<1>1. task[s, j].at = "append" /\ UNCHANGED <<repo, phase>>
  BY DEF AppendFails, At
<1>2. used' \in [calls : Nat, moves : Nat, faults : Nat]
  BY Counts DEF Inv, AppendFails
<1>3. PICK why \in Reconciled(Holds(ledger', Fact(s, j))) : Answer(j, why, ledger')
  BY DEF AppendFails
<1>4. ~Untrue(j, why, ledger')
  BY HeldIsTrue, QuietIsTrue DEF Reconciled, Inv
<1>5. lies' = {} /\ spent' \subseteq Jobs
  BY <1>3, <1>4 DEF Answer, Inv, TypeOK
<1>6. CASE task[s, j].fresh /\ Written(s, j)
  BY <1>1, <1>2, <1>5, <1>6, Writes
<1>7. CASE task' = [task EXCEPT ![<<s, j>>] = Idle] /\ UNCHANGED <<ledger, seen>>
  <2>1. Puts(s, j, Idle)
    BY <1>7 DEF Puts
  <2>2. Founded(ledger, seen, j, Idle)
    BY IdleTyped DEF Founded
  <2> QED
    BY <1>1, <1>2, <1>5, <1>7, <2>1, <2>2, IdleTyped, TaskMoves
<1> QED
  BY <1>6, <1>7 DEF AppendFails

-----------------------------------------------------------------------------
(* Others move the ref.                                                    *)
LEMMA OthersKeep ==
    ASSUME Inv, Push \/ Revert
    PROVE  Inv'
<1>1. /\ Spend("moves", MaxMoves) /\ Sees(ref', ledger)
      /\ UNCHANGED <<ledger, task, phase, orphans, landed, lies, spent>>
  BY DEF Push, Revert, said
<1>2. ref' \in Seq(Hands)
  <2>1. ref \in Seq(Hands)
    BY DEF Inv, TypeOK
  <2>2. CASE Push
    <3>1. "other" \in Hands
      BY DEF Hands
    <3> QED
      BY <2>1, <2>2, <3>1, AppendProperties DEF Push
  <2>3. CASE Revert
    <3>1. ref # <<>> /\ ref' = SubSeq(ref, 1, Len(ref) - 1)
      BY <2>3 DEF Revert
    <3>2. Len(ref) \in Nat /\ Len(ref) - 1 <= Len(ref)
      BY <2>1, LenProperties
    <3>3. \A i \in 1 .. Len(ref) - 1 : ref[i] \in Hands
      BY <2>1, <3>2, ElementOfSeq
    <3> QED
      BY <2>1, <3>1, <3>2, <3>3, SubSeqProperties
  <2> QED
    BY <2>2, <2>3
<1>3. /\ seen' \in SUBSET Requests /\ seen \subseteq seen'
      /\ \A r \in Requests : Approved(r) /\ ref' = Commit(r) => r \in seen'
  BY <1>1 DEF Sees, Approved, Commit, Inv, TypeOK
<1>4. used' \in [calls : Nat, moves : Nat, faults : Nat]
  BY <1>1, Counts DEF Inv
<1>5. /\ task' \in [Services \X Jobs -> Task]
      /\ \A s \in Services, j \in Jobs : task'[s, j] = task[s, j]
      /\ landed' \in SUBSET Requests /\ orphans' \in SUBSET Requests
      /\ \A r \in orphans' : Approved(r)
      /\ phase' \in [Services -> {"open", "closing", "closed"}]
      /\ spent' \subseteq Jobs /\ lies' = {}
  BY <1>1 DEF Inv, TypeOK, Sightings
<1> QED
  BY <1>1, <1>2, <1>3, <1>4, <1>5, Moves

(* A crash forgets every task of a service; what a git child may still do  *)
(* is a swap of an approved promotion.                                     *)
LEMMA CrashKeeps ==
    ASSUME Inv, NEW s \in Services, Crash(s)
    PROVE  Inv'
<1>1. /\ Spend("faults", MaxFaults) /\ phase' = [phase EXCEPT ![s] = "open"]
      /\ task' = [sj \in Services \X Jobs |-> IF sj[1] = s THEN Idle ELSE task[sj]]
      /\ UNCHANGED <<ref, ledger, landed, seen, lies, spent>>
  BY DEF Crash, said
<1>2. PICK left \in SUBSET {r \in Requests : At(s, <<"promote", r>>, "swap")} :
         orphans' = orphans \cup left
  BY DEF Crash
<1>3. \A r \in left : r \in Requests /\ Approved(r)
  <2> SUFFICES ASSUME NEW r \in left PROVE r \in Requests /\ Approved(r)
    OBVIOUS
  <2>1. r \in Requests /\ task[s, <<"promote", r>>].at = "swap"
    BY DEF At
  <2> QED
    BY <2>1, Promoting
<1>4. task' \in [Services \X Jobs -> Task]
  BY <1>1, IdleTyped DEF Inv, TypeOK
<1>5. \A z \in Services, k \in Jobs :
         \/ task'[z, k] = task[z, k]
         \/ /\ task'[z, k].at # "append" => task'[z, k].tries < MaxTries
            /\ Founded(ledger, seen', k, task'[z, k])
  <2> SUFFICES ASSUME NEW z \in Services, NEW k \in Jobs, task'[z, k] = Idle
               PROVE  /\ task'[z, k].at # "append" => task'[z, k].tries < MaxTries
                      /\ Founded(ledger, seen', k, task'[z, k])
    BY <1>1
  <2> QED
    BY IdleTyped DEF Founded
<1>6. used' \in [calls : Nat, moves : Nat, faults : Nat]
  BY <1>1, Counts DEF Inv
<1>7. /\ ref' \in Seq(Hands) /\ landed' \in SUBSET Requests /\ seen' \in SUBSET Requests
      /\ seen \subseteq seen' /\ orphans' \in SUBSET Requests
      /\ phase' \in [Services -> {"open", "closing", "closed"}]
      /\ spent' \subseteq Jobs /\ lies' = {}
  BY <1>1, <1>2, <1>3 DEF Inv, TypeOK
<1>8. /\ \A r \in Requests : Approved(r) /\ ref' = Commit(r) => r \in seen'
      /\ \A r \in orphans' : Approved(r)
  BY <1>1, <1>2, <1>3 DEF Inv, Sightings
<1> QED
  BY <1>1, <1>4, <1>5, <1>6, <1>7, <1>8, Moves

(* A git child that outlived its process swaps an approved promotion.      *)
LEMMA OrphanKeeps ==
    ASSUME Inv, NEW r \in Requests, OrphanEnds(r)
    PROVE  Inv'
<1>1. /\ UpdateRef(r) /\ orphans' = orphans \ {r} /\ r \in orphans
      /\ UNCHANGED <<ledger, task, phase, lies, spent, used>>
  BY DEF OrphanEnds, said
<1>2. Approved(r)
  BY <1>1 DEF Inv, Sightings
<1>3. /\ ref' \in Seq(Hands) /\ landed' \in SUBSET Requests /\ seen' \in SUBSET Requests
      /\ seen \subseteq seen'
      /\ \A q \in Requests : Approved(q) /\ ref' = Commit(q) => q \in seen'
  BY <1>1, <1>2, Swapped
<1>4. /\ task' \in [Services \X Jobs -> Task]
      /\ \A s \in Services, j \in Jobs : task'[s, j] = task[s, j]
      /\ orphans' \in SUBSET Requests /\ \A q \in orphans' : Approved(q)
      /\ phase' \in [Services -> {"open", "closing", "closed"}]
      /\ used' \in [calls : Nat, moves : Nat, faults : Nat]
      /\ spent' \subseteq Jobs /\ lies' = {}
  BY <1>1 DEF Inv, TypeOK, Sightings
<1> QED
  BY <1>1, <1>3, <1>4, Moves

(* A close touches no task.                                                *)
LEMMA CloseKeeps ==
    ASSUME Inv, NEW s \in Services, Close(s) \/ Closed(s)
    PROVE  Inv'
<1>1. UNCHANGED <<ref, orphans, landed, ledger, task, seen, lies, spent>>
  BY DEF Close, Closed, repo, said
<1>2. phase' \in [Services -> {"open", "closing", "closed"}]
  BY DEF Close, Closed, Inv, TypeOK
<1>3. used' \in [calls : Nat, moves : Nat, faults : Nat]
  BY Counts, UsedKept DEF Inv, Close, Closed
<1>4. /\ task' \in [Services \X Jobs -> Task]
      /\ \A z \in Services, k \in Jobs : task'[z, k] = task[z, k]
      /\ ref' \in Seq(Hands) /\ landed' \in SUBSET Requests /\ seen' \in SUBSET Requests
      /\ seen \subseteq seen'
      /\ \A q \in Requests : Approved(q) /\ ref' = Commit(q) => q \in seen'
      /\ orphans' \in SUBSET Requests /\ \A q \in orphans' : Approved(q)
      /\ spent' \subseteq Jobs /\ lies' = {}
  BY <1>1 DEF Inv, TypeOK, Sightings
<1> QED
  BY <1>1, <1>2, <1>3, <1>4, Moves

(* Nothing happens.                                                        *)
LEMMA StutterKeeps == Inv /\ UNCHANGED vars => Inv'
<1> SUFFICES ASSUME Inv, UNCHANGED vars PROVE Inv'
  OBVIOUS
<1> QED
  BY DEF vars, Inv, TypeOK, TriesLeft, Books, Tasks, Founded, Sightings, Approved, Commit, Integration

-----------------------------------------------------------------------------
(* Each of the three initial ledgers is one that replays.                  *)
LEMMA StartsWell == Init => Inv
<1> SUFFICES ASSUME Init PROVE Inv
  OBVIOUS
<1>1. PICK rv \in BOOLEAN, ap \in BOOLEAN : ledger = Past(rv, ap) /\ (ap => rv)
  BY DEF Init
<1>2. \A r \in Requests :
         (CHOOSE o \in Ops : ReviewOf[o] = r) \in Ops
  BY PromotionAssumption
<1>3. /\ ledger.review = [r \in Requests |->
                            IF rv THEN [NoReview EXCEPT !.done = TRUE, !.passed = TRUE]
                            ELSE NoReview]
      /\ ledger.approval = [r \in Requests |-> IF ap THEN CHOOSE o \in Ops : ReviewOf[o] = r
                                               ELSE "none"]
      /\ ledger.promoted = {} /\ ledger.bad = FALSE
  BY <1>1 DEF Past
<1>4. NoReview \in Review /\ [NoReview EXCEPT !.done = TRUE, !.passed = TRUE] \in Review
      /\ [NoReview EXCEPT !.done = TRUE, !.passed = TRUE].done
      /\ [NoReview EXCEPT !.done = TRUE, !.passed = TRUE].passed
  <2>1. <<>> \in Seq(Hands)
    OBVIOUS
  <2> QED
    BY <2>1 DEF NoReview, Review
<1>5. ledger \in Ledger
  BY <1>1, <1>2, <1>4 DEF Past, Ledger
<1>6. TypeOK
  BY <1>5, IdleTyped DEF Init, TypeOK
<1>7. \A s \in Services, j \in Jobs : task[s, j] = Idle
  BY DEF Init
<1>8. TriesLeft
  BY <1>7, IdleTyped DEF TriesLeft
<1>9. Books
  BY <1>1, <1>3, <1>4 DEF Books, Approved
<1>10. Tasks
  BY <1>7, IdleTyped DEF Tasks, Founded
<1>11. Sightings
  <2> SUFFICES ASSUME NEW r \in Requests, ref = Commit(r) PROVE FALSE
    BY <1>3 DEF Sightings, Init
  <2>1. Commit(r) = Append(Expected(r), Patch[r]) /\ Expected(r) \in Seq(Hands)
    BY <1>6, CommitTyped
  <2>2. Commit(r) # <<>>
    BY <2>1, AppendProperties
  <2> QED
    BY <2>2 DEF Init
<1> QED
  BY <1>6, <1>8, <1>9, <1>10, <1>11 DEF Inv, Init

(* Every step keeps the invariant: one case for each action.               *)
LEMMA NextKeeps == Inv /\ [Next]_vars => Inv'
<1> SUFFICES ASSUME Inv, [Next]_vars PROVE Inv'
  OBVIOUS
<1>1. ASSUME NEW s \in Services, NEW j \in Jobs, Call(s, j) PROVE Inv'
  BY <1>1, CallKeeps
<1>2. ASSUME NEW s \in Services, NEW j \in Jobs, Step(s, j) PROVE Inv'
  <2>1. CASE Record(s, j)
    BY <2>1, RecordKeeps
  <2>2. CASE Appended(s, j)
    BY <2>2, AppendedKeeps
  <2>3. CASE Conflicted(s, j)
    BY <2>3, ConflictedKeeps
  <2>4. ASSUME NEW r \in {Of(j)}, Resolve(s, r) \/ Observe(s, r) PROVE Inv'
    BY <2>4, JobFacts, ResolveKeeps, ObserveKeeps
  <2>5. ASSUME NEW r \in {Of(j)}, RefState(s, r) \/ Reobserve(s, r) \/ Reread(s, r) PROVE Inv'
    BY <2>5, JobFacts, PromoteKeeps
  <2>6. ASSUME NEW r \in {Of(j)}, Swap(s, r) PROVE Inv'
    BY <2>6, JobFacts, SwapKeeps
  <2>7. CASE j[1] = "approve" /\ Confirm(s, j[2])
    BY <2>7, JobFacts, ConfirmKeeps
  <2> QED
    BY <1>2, <2>1, <2>2, <2>3, <2>4, <2>5, <2>6, <2>7 DEF Step
<1>3. ASSUME NEW s \in Services, Close(s) \/ Closed(s) PROVE Inv'
  BY <1>3, CloseKeeps
<1>4. ASSUME NEW r \in Requests, OrphanEnds(r) PROVE Inv'
  BY <1>4, OrphanKeeps
<1>5. CASE Trouble
  <2>1. ASSUME NEW s \in Services, NEW j \in Jobs, Fails(s, j) PROVE Inv'
    BY <2>1, FailsKeep
  <2>2. ASSUME NEW s \in Services, NEW j \in Jobs, AppendFails(s, j) PROVE Inv'
    BY <2>2, AppendFailsKeeps
  <2>3. ASSUME NEW s \in Services, NEW r \in Requests, SwapUnknown(s, r) PROVE Inv'
    BY <2>3, SwapKeeps
  <2>4. ASSUME NEW s \in Services, Crash(s) PROVE Inv'
    BY <2>4, CrashKeeps
  <2> QED
    BY <1>5, <2>1, <2>2, <2>3, <2>4 DEF Trouble
<1>6. CASE Push \/ Revert
  BY <1>6, OthersKeep
<1>7. CASE UNCHANGED vars
  BY <1>7, StutterKeeps
<1> QED
  BY <1>1, <1>2, <1>3, <1>4, <1>5, <1>6, <1>7 DEF Next

(* The strengthened invariant holds of every reachable state.              *)
THEOREM InvHolds == Spec => []Inv
BY StartsWell, NextKeeps, PTL DEF Spec

(* What services keep and say has its type, and no task outlives its tries.*)
THEOREM TypeHolds == Spec => []TypeOK
<1>1. Inv => TypeOK
  BY DEF Inv
<1> QED
  BY <1>1, InvHolds, PTL

(* The ledger always replays, and a promotion is on record only if the ref *)
(* has been at its commit since it was approved, whatever services race    *)
(* and whenever they crash (promotion/service.py:520).                     *)
THEOREM RecordsHold == Spec => []RecordsAreTrue
<1>1. Inv => RecordsAreTrue
  BY DEF Inv, Books, Sightings, RecordsAreTrue
<1> QED
  BY <1>1, InvHolds, PTL

(* No caller is told of a record that is not there, of a drift that did not*)
(* happen, or that nothing was written when it was.                        *)
THEOREM AnswersHold == Spec => []AnswersAreTrue
<1>1. Inv => AnswersAreTrue
  BY DEF Inv, AnswersAreTrue
<1> QED
  BY <1>1, InvHolds, PTL

(* A swap of an approved promotion puts its patch on top of what is there. *)
LEMMA SwapIsApproved ==
    ASSUME Inv, NEW r \in Requests, Approved(r), UpdateRef(r) \/ UNCHANGED <<ref, landed, seen>>,
           landed' # landed \/ ref' # ref
    PROVE  ledger.review[r].passed /\ Approved(r) /\ ref' = Append(ref, Patch[r])
<1>1. ref = Expected(r) /\ ref' = Commit(r)
  BY DEF UpdateRef
<1>2. Commit(r) = Append(Expected(r), Patch[r])
  BY CommitTyped DEF Inv
<1> QED
  BY <1>1, <1>2 DEF Inv, Books

(* Services, and the git children that outlive them, move the ref only to  *)
(* the patch of a passed and approved review, on top of what is there: no  *)
(* commit of anybody else is lost (git update-ref with the expected old).  *)
THEOREM MovesHold == Spec => MovesAreApproved
<1> DEFINE Moved == landed' # landed \/ (ref' # ref /\ used' = used)
           Allowed == \E r \in Requests : /\ ledger.review[r].passed /\ Approved(r)
                                          /\ ref' = Append(ref, Patch[r])
<1>1. Inv /\ [Next]_vars => [Moved => Allowed]_vars
  <2> SUFFICES ASSUME Inv, Next, Moved PROVE Allowed
    OBVIOUS
  <2>1. ASSUME NEW r \in Requests, Approved(r), UpdateRef(r) \/ UNCHANGED <<ref, landed, seen>>
        PROVE  Allowed
    BY <2>1, SwapIsApproved
  <2>2. ASSUME NEW s \in Services, NEW j \in Jobs, Call(s, j) \/ Record(s, j) \/ Appended(s, j)
                  \/ Conflicted(s, j) \/ Fails(s, j) \/ AppendFails(s, j)
        PROVE  Allowed
    BY <2>2 DEF Call, Record, Appended, Conflicted, Fails, AppendFails, repo
  <2>3. ASSUME NEW s \in Services, NEW r \in Requests, Resolve(s, r) \/ Observe(s, r)
                  \/ RefState(s, r) \/ Reobserve(s, r) \/ Reread(s, r)
        PROVE  Allowed
    BY <2>3 DEF Resolve, Observe, RefState, Reobserve, Reread, repo
  <2>4. ASSUME NEW s \in Services, NEW o, Confirm(s, o) PROVE Allowed
    BY <2>4 DEF Confirm, repo
  <2>5. ASSUME NEW s \in Services, NEW r \in Requests, Swap(s, r) \/ SwapUnknown(s, r)
        PROVE  Allowed
    <3>1. task[s, <<"promote", r>>].at = "swap"
      BY <2>5 DEF Swap, SwapUnknown, At
    <3>2. Approved(r)
      BY <3>1, Promoting
    <3>3. UpdateRef(r) \/ UNCHANGED <<ref, landed, seen>>
      BY <2>5 DEF Swap, SwapUnknown
    <3> QED
      BY <3>2, <3>3, <2>1
  <2>6. ASSUME NEW s \in Services, Close(s) \/ Closed(s) \/ Crash(s) PROVE Allowed
    BY <2>6 DEF Close, Closed, Crash, repo
  <2>7. ASSUME NEW r \in Requests, OrphanEnds(r) PROVE Allowed
    <3>1. Approved(r) /\ UpdateRef(r)
      BY <2>7 DEF OrphanEnds, Inv, Sightings
    <3> QED
      BY <3>1, <2>1
  <2>8. CASE Push \/ Revert
    <3>1. Spend("moves", MaxMoves) /\ landed' = landed
      BY <2>8 DEF Push, Revert
    <3>2. used' # used
      BY <3>1, Counts DEF Inv
    <3> QED
      BY <3>1, <3>2
  <2> HIDE DEF Moved, Allowed
  <2>9. ASSUME NEW s \in Services, NEW j \in Jobs, Step(s, j) PROVE Allowed
    BY <2>9, <2>2, <2>3, <2>4, <2>5, JobFacts DEF Step
  <2>10. CASE Trouble
    BY <2>10, <2>2, <2>5, <2>6 DEF Trouble
  <2> QED
    BY <2>2, <2>6, <2>7, <2>8, <2>9, <2>10 DEF Next
<1> QED
  BY <1>1, InvHolds, PTL DEF Spec, MovesAreApproved

=============================================================================
