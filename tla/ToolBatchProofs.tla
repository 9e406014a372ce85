--------------------------- MODULE ToolBatchProofs ---------------------------
(***************************************************************************)
(* Proofs about ToolBatch, for any number of calls, any of them reads, and *)
(* any number of cancellations, faults and crashes.  Two invariants: Inv   *)
(* for how the calls are dispatched and, on top of it, Answers for what is *)
(* answered: which calls, in which order, and that it is true.             *)
(***************************************************************************)
EXTENDS ToolBatch, SequenceTheorems, WellFoundedInduction, TLAPS

(* A sequence, of whatever.                                                *)
Listed(s) == \E S : s \in Seq(S)

(* The shapes the other parts rely on.                                     *)
Shapes ==
    /\ calls \in 0 .. N
    /\ admitted \subseteq Call /\ intents \subseteq Call /\ dispatched \subseteq Call
    /\ Listed(results)
    /\ pc \in Owner \cup Over
    /\ verdict \in [Call -> {"none", "ready", "refused"}]
    /\ index \in 1 .. N + 1
    /\ group \subseteq Call /\ hit \subseteq group
    /\ member \in [Call -> Live \cup {"idle", "done", "cancelled", "failed"}]
    /\ started \in [Call -> Nat]
    /\ budget \in [cancels : Nat, faults : Nat, crashes : Nat]

(* While the batch is on its way, nothing from index on has been touched,  *)
(* and everything before it is answered, being answered or in the group.   *)
Early   == {"calling", "preparing", "gate", "admitting"}
Forward == Early \cup {"next", "group", "recording"}

Told(d) == \E f \in todo : f.type = "tool/result" /\ f.call = d

Progress ==
    /\ pc = "calling" => calls < N
    /\ pc \in Forward \ {"calling"} => calls = N
    /\ pc \in Early => index = 1
    /\ pc \in Forward \ Early => Ready \subseteq admitted
    /\ pc \in Forward => \A c \in index .. N : member[c] = "idle" /\ started[c] = 0
    /\ pc \in Forward \ {"group"} => hit = {} /\ \A c \in Call : member[c] \notin Live
    /\ pc = "next" => 1 .. index - 1 \subseteq Answered
    /\ pc = "recording" => \A d \in 1 .. index - 1 : d \in Answered \/ Told(d)
    /\ pc = "group" => \E lo \in 1 .. index - 1 : /\ group = lo .. index - 1
                                                  /\ 1 .. lo - 1 \subseteq Answered

(* A dispatch has behind it what it needs: one that ran its tool, and one  *)
(* that is about to.                                                       *)
Backed(c) ==
    /\ member[c] # "idle" => calls = N /\ c \in admitted
    /\ member[c] \in Live => c \in group
    /\ member[c] \in {"intent", "dispatch", "run"} => started[c] = 0
    /\ member[c] \in Live \ {"intent"} => c \in intents
    /\ member[c] \in Live \ {"intent", "dispatch"} => c \in dispatched
    /\ started[c] <= 1
    /\ started[c] = 1 => calls = N /\ c \in admitted \cap intents \cap dispatched

Dispatches == \A c \in Call : Backed(c)

Alone == \A c \in group \ Reads : group = {c} /\ 1 .. c - 1 \subseteq Answered

(* A cancellation reaches every dispatch under way, so without a fault     *)
(* none of them is left to run when the batch has gone on.                 *)
Reached ==
    /\ \A c \in hit : member[c] \in Live \cup {"cancelled", "failed"}
    /\ budget.faults = 0 =>
          /\ \A c \in Call : /\ member[c] # "failed"
                             /\ member[c] \in {"closing", "cancelled"} => c \in hit
          /\ hit # {} \/ pc # "group" => \A c \in Call : member[c] \in Live => c \in hit

Inv == Shapes /\ Progress /\ Dispatches /\ Alone /\ Reached

-----------------------------------------------------------------------------
(* The first of a set of numbers is one of them.                           *)
LEMMA FirstIsOne ==
    ASSUME NEW T \in SUBSET Nat, T # {}
    PROVE  First(T) \in T /\ \A y \in T : First(T) <= y
<1> DEFINE R == {ss \in Nat \X Nat : ss[1] < ss[2]}
<1>1. IsWellFoundedOn(R, Nat)
  BY NatLessThanWellFounded DEF OpToRel
<1>2. \A x, y \in Nat : x < y => <<x, y>> \in R
  OBVIOUS
<1> HIDE DEF R
<1>3. PICK x \in T : \A y \in T : <<y, x>> \notin R
  BY <1>1, WFMin
<1>4. \A y \in T : x <= y
  <2> SUFFICES ASSUME NEW y \in T PROVE x <= y
    OBVIOUS
  <2>1. ~(y < x)
    BY <1>2, <1>3
  <2>2. x \in Nat /\ y \in Nat
    BY <1>3
  <2> QED
    BY <2>1, <2>2
<1> QED
  BY <1>3, <1>4 DEF First

(* A group has an end.                                                     *)
LEMMA GroupEnds ==
    ASSUME NEW g \in SUBSET Call, g # {}
    PROVE  \E i \in 1 .. N + 1 : i - 1 \in g /\ \A c \in g : c < i
<1> DEFINE U == {i \in 1 .. N + 1 : \A c \in g : c < i}
<1>1. N \in Nat /\ Call = 1 .. N
  BY ToolBatchAssumption DEF Call
<1>2. U \in SUBSET Nat /\ N + 1 \in U
  BY <1>1
<1>3. First(U) \in U /\ \A y \in U : First(U) <= y
  BY <1>2, FirstIsOne
<1>4. PICK m \in 1 .. N + 1 : m \in U /\ \A y \in U : m <= y
  BY <1>3
<1>5. PICK c \in g : c < m
  BY <1>4
<1>6. m - 1 \in 1 .. N /\ m - 1 \notin U
  BY <1>1, <1>4, <1>5
<1>7. PICK d \in g : ~(d < m - 1)
  BY <1>1, <1>6
<1>8. d < m /\ d = m - 1
  BY <1>1, <1>4, <1>7
<1> QED
  BY <1>4, <1>7, <1>8

(* One more fact: what was listed stays.                                   *)
LEMMA OneMore ==
    ASSUME NEW s, Listed(s), NEW e, NEW t, t = Append(s, e)
    PROVE  /\ Listed(t)
           /\ \A i \in DOMAIN s : \E j \in DOMAIN t : t[j] = s[i]
           /\ \E j \in DOMAIN t : t[j] = e
<1>0. PICK R : s \in Seq(R)
  BY DEF Listed
<1> DEFINE S == R \cup {e}
<1>1. s \in Seq(S) /\ e \in S
  BY <1>0, SeqMonotonic
<1> HIDE DEF S
<1>2. /\ Len(t) = Len(s) + 1 /\ DOMAIN t = 1 .. Len(s) + 1 /\ DOMAIN s = 1 .. Len(s)
      /\ t[Len(s) + 1] = e /\ \A i \in 1 .. Len(s) : t[i] = s[i]
      /\ Len(s) \in Nat /\ t \in Seq(S)
  BY <1>1
<1> QED
  BY <1>2 DEF Listed

(* One more result: what was answered stays so.                            *)
LEMMA ResultAdds ==
    ASSUME Listed(results), NEW e, results' = Append(results, e)
    PROVE  Listed(results') /\ Answered \subseteq Answered' /\ e[1] \in Answered'
<1> DEFINE t == results'
<1>1. t = Append(results, e)
  OBVIOUS
<1> HIDE DEF t
<1>2. Listed(t)
  BY <1>1, OneMore
<1>3. \A i \in DOMAIN results : \E j \in DOMAIN t : t[j] = results[i]
  BY <1>1, OneMore
<1>4. \E j \in DOMAIN t : t[j] = e
  BY <1>1, OneMore
<1> QED
  BY <1>2, <1>3, <1>4 DEF Answered, t

(* Whatever is committed, results are only added.                          *)
LEMMA CommitAdds ==
    ASSUME Listed(results), Commit \/ UNCHANGED <<results, outcome>>
    PROVE  Listed(results') /\ Answered \subseteq Answered'
<1>1. CASE results' = Append(results, <<NextFact.call, NextFact.status>>)
  <2>1. \A e : results' = Append(results, e) => Listed(results') /\ Answered \subseteq Answered'
    BY ResultAdds
  <2> QED
    BY <1>1, <2>1
<1>2. CASE results' = results
  BY <1>2 DEF Answered
<1> QED
  BY <1>1, <1>2 DEF Commit

-----------------------------------------------------------------------------
(* A step that leaves the dispatches alone.                                *)
Still == UNCHANGED <<intents, dispatched, group, hit, member, started>>

LEMMA StillKeeps ==
    ASSUME Inv, Still, calls' \in 0 .. N, calls <= calls',
           admitted \subseteq admitted', admitted' \subseteq Call,
           Listed(results'), Answered \subseteq Answered', pc' \in Owner \cup Over,
           verdict' \in [Call -> {"none", "ready", "refused"}], index' \in 1 .. N + 1,
           budget' \in [cancels : Nat, faults : Nat, crashes : Nat],
           budget'.faults = 0 => budget.faults = 0,
           Progress',
           pc' # "group" => \/ pc # "group" \/ budget'.faults # 0
                            \/ \A c \in Call : member[c] \in Live => c \in hit
    PROVE  Inv'
<1> USE DEF Still
<1>1. N \in Nat /\ Call = 1 .. N
  BY ToolBatchAssumption DEF Call
<1>2. calls = N => calls' = N
  BY <1>1
<1>3. Shapes'
  BY DEF Inv, Shapes
<1>4. Dispatches'
  BY <1>2 DEF Inv, Dispatches, Backed
<1>5. Alone'
  BY DEF Inv, Alone
<1>6. Reached'
  BY DEF Inv, Reached
<1> QED
  BY <1>3, <1>4, <1>5, <1>6 DEF Inv

(* A dispatch under way goes on: what the ledger says of it goes with it.  *)
LEMMA MemberGoesOn ==
    ASSUME Inv, NEW c \in Call, member[c] \in Live,
           NEW w \in (Live \ {"intent"}) \cup {"done", "cancelled", "failed"},
           member' = [member EXCEPT ![c] = w],
           UNCHANGED <<calls, admitted, results, pc, verdict, index, group, todo, hit>>,
           intents' \in {intents, intents \cup {c}}, dispatched' \in {dispatched, dispatched \cup {c}},
           w \in Live => c \in intents', w \in Live \ {"dispatch"} => c \in dispatched',
           \/ started' = started
           \/ /\ started' = [started EXCEPT ![c] = @ + 1]
              /\ member[c] = "run" /\ w = "running",
           w \in {"dispatch", "run"} => member[c] \in {"intent", "dispatch"} /\ started' = started,
           c \in hit => w # "done",
           budget' \in [cancels : Nat, faults : Nat, crashes : Nat],
           budget'.faults = 0 => /\ budget.faults = 0 /\ w # "failed"
                                 /\ w \in {"closing", "cancelled"} => c \in hit
    PROVE  Inv'
<1>1. /\ N \in Nat /\ Call = 1 .. N
      /\ member \in [Call -> Live \cup {"idle", "done", "cancelled", "failed"}]
      /\ started \in [Call -> Nat]
      /\ index \in 1 .. N + 1
  BY ToolBatchAssumption DEF Inv, Shapes, Call
<1>2. \A d \in Call : member'[d] = IF d = c THEN w ELSE member[d]
  BY <1>1
<1>3. \A d \in Call : d # c => started'[d] = started[d]
  BY <1>1
<1>4. /\ calls = N /\ c \in admitted /\ c \in group /\ started[c] <= 1
      /\ started[c] = 1 => c \in intents /\ c \in dispatched
  BY DEF Inv, Dispatches, Backed, Live
<1>5. Shapes'
  <2>1. member' \in [Call -> Live \cup {"idle", "done", "cancelled", "failed"}]
    <3>1. w \in Live \cup {"idle", "done", "cancelled", "failed"}
      BY DEF Live
    <3> QED
      BY ONLY <1>1, <3>1, member' = [member EXCEPT ![c] = w]
  <2>2. started' \in [Call -> Nat]
    <3>1. started' = started \/ started' = [started EXCEPT ![c] = @ + 1]
      OBVIOUS
    <3> QED
      BY ONLY <1>1, <3>1
  <2> QED
    BY <2>1, <2>2 DEF Inv, Shapes
<1>6. Progress'
  <2>1. pc \notin Forward \ {"group"}
    BY DEF Inv, Progress
  <2>2. CASE pc = "group"
    <3>1. c < index
      BY <1>1, <1>4, <2>2 DEF Inv, Progress
    <3>2. \A d \in index .. N : d # c /\ d \in Call
      BY <1>1, <3>1
    <3>3. \A d \in index .. N : member[d] = "idle" /\ started[d] = 0
      BY <2>2 DEF Inv, Progress, Forward
    <3>4. \A d \in index .. N : member'[d] = "idle" /\ started'[d] = 0
      BY <1>2, <1>3, <3>2, <3>3
    <3>5. /\ Ready' = Ready /\ Answered' = Answered
      BY DEF Ready, Answered
    <3> QED
      BY <1>4, <2>2, <3>4, <3>5 DEF Inv, Progress, Forward, Early
  <2>3. CASE pc \notin Forward
    BY <2>3 DEF Progress, Forward, Early
  <2> QED
    BY <2>1, <2>2, <2>3
<1>7. Dispatches'
  <2> SUFFICES ASSUME NEW d \in Call PROVE Backed(d)'
    BY DEF Dispatches
  <2>1. CASE d # c
    BY <1>2, <1>3, <2>1 DEF Inv, Dispatches, Backed
  <2>2. CASE d = c
    BY <1>1, <1>2, <1>4, <2>2 DEF Inv, Dispatches, Backed, Live
  <2> QED
    BY <2>1, <2>2
<1>8. Alone'
  BY DEF Inv, Alone, Answered
<1>9. Reached'
  BY <1>2 DEF Inv, Reached, Shapes
<1> QED
  BY <1>5, <1>6, <1>7, <1>8, <1>9 DEF Inv

-----------------------------------------------------------------------------
(* Each action keeps the invariant.                                        *)

(* What every step of the batch itself may use.                            *)
LEMMA Facts ==
    ASSUME Inv
    PROVE  /\ N \in Nat \ {0} /\ Call = 1 .. N /\ calls \in 0 .. N
           /\ admitted \subseteq Call /\ Listed(results)
           /\ pc \in Owner \cup Over /\ verdict \in [Call -> {"none", "ready", "refused"}]
           /\ index \in 1 .. N + 1 /\ group \subseteq Call /\ hit \subseteq group
           /\ budget \in [cancels : Nat, faults : Nat, crashes : Nat]
           /\ member \in [Call -> Live \cup {"idle", "done", "cancelled", "failed"}]
           /\ started \in [Call -> Nat]
BY ToolBatchAssumption DEF Inv, Shapes, Call

(* The facts are written, the calls judged and admitted.                   *)
LEMMA EarlyKeeps ==
    ASSUME Inv, WriteCall \/ Prepare \/ Gate \/ Admit \/ Admitted
    PROVE  Inv'
<1>1. /\ pc \in Early /\ results' = results /\ budget' = budget /\ index' = index /\ Still
      /\ pc' \in {"calling", "preparing", "gate", "admitting", "next", "reading"}
  BY DEF WriteCall, Prepare, Gate, Admit, Admitted, session, ledger, batch, tools, Early, Still
<1>2. /\ calls' \in 0 .. N /\ calls <= calls' /\ (pc # "calling" => calls = N /\ calls' = N)
      /\ (pc' = "calling" => calls' < N) /\ (pc' # "calling" => calls' = N)
  <2>1. CASE WriteCall
    <3>1. pc = "calling" /\ calls < N
      BY <2>1 DEF WriteCall, Inv, Progress
    <3> QED
      BY <2>1, <3>1, Facts DEF WriteCall
  <2>2. CASE Prepare \/ Gate \/ Admit \/ Admitted
    <3>1. pc \in Forward \ {"calling"} /\ pc' # "calling" /\ calls' = calls
      BY <2>2 DEF Prepare, Gate, Admit, Admitted, session, Forward, Early
    <3>2. calls = N
      BY <3>1 DEF Inv, Progress
    <3> QED
      BY <3>1, <3>2, Facts
  <2> QED
    BY <2>1, <2>2
<1>3. /\ admitted \subseteq admitted' /\ admitted' \subseteq Call
      /\ verdict' \in [Call -> {"none", "ready", "refused"}]
  <2>1. CASE Admit
    <3>1. Ready \ admitted \in SUBSET Nat /\ Ready \subseteq Call
      BY Facts DEF Ready
    <3>2. First(Ready \ admitted) \in Call
      BY <2>1, <3>1, FirstIsOne DEF Admit
    <3> QED
      BY <2>1, <3>2, Facts DEF Admit, batch
  <2>2. CASE Prepare
    <3>1. admitted' = admitted /\ admitted \subseteq Call
      BY <2>2, Facts DEF Prepare, session
    <3>2. \E d : \E v \in {"ready", "refused"} : verdict' = [verdict EXCEPT ![d] = v]
      BY ONLY <2>2 DEF Prepare
    <3>3. verdict \in [Call -> {"none", "ready", "refused"}]
      BY Facts
    <3> QED
      BY ONLY <3>1, <3>2, <3>3
  <2>3. CASE Gate
    <3>1. PICK denied \in SUBSET Ready :
              verdict' = [c \in Call |-> IF c \in denied THEN "refused" ELSE verdict[c]]
      BY <2>3 DEF Gate
    <3> QED
      BY <2>3, <3>1, Facts DEF Gate, session
  <2>4. CASE WriteCall \/ Admitted
    BY <2>4, Facts DEF WriteCall, Admitted, session, batch
  <2> QED
    BY <2>1, <2>2, <2>3, <2>4
<1>4. pc' = "next" => Ready' \subseteq admitted' /\ pc = "admitting"
  BY DEF WriteCall, Prepare, Gate, Admit, Admitted, session, batch, Ready
<1>5. /\ hit = {} /\ index = 1
      /\ \A c \in Call : member[c] \notin Live
      /\ \A c \in index .. N : member[c] = "idle" /\ started[c] = 0
  BY <1>1 DEF Inv, Progress, Forward, Early
<1>6. Progress'
  BY <1>1, <1>2, <1>4, <1>5 DEF Progress, Forward, Early, Still
<1>7. Listed(results') /\ Answered' = Answered
  BY <1>1, Facts DEF Answered
<1> QED
  BY <1>1, <1>2, <1>3, <1>5, <1>6, <1>7, Facts, StillKeeps DEF Early, Owner

(* The batch is over, or goes on to answer what is left.                   *)
LEMMA Leaves ==
    ASSUME Inv, Still, calls' \in 0 .. N, calls <= calls', admitted' = admitted,
           verdict' = verdict, index' = index,
           Listed(results'), Answered \subseteq Answered', pc' \in (Owner \cup Over) \ Forward,
           budget' \in [cancels : Nat, faults : Nat, crashes : Nat],
           budget'.faults = 0 => budget.faults = 0,
           \/ pc # "group" \/ budget'.faults # 0
           \/ \A c \in Call : member[c] \in Live => c \in hit
    PROVE  Inv'
<1>1. Progress'
  BY DEF Progress, Forward, Early
<1> QED
  BY <1>1, Facts, StillKeeps

LEMMA RefuseNextKeeps ==
    ASSUME Inv, RefuseNext
    PROVE  Inv'
<1>1. /\ pc = "next" /\ index <= N /\ todo' = {Result(index, "denied")}
      /\ index' = index + 1 /\ pc' = "recording" /\ Still
      /\ UNCHANGED <<calls, admitted, results, verdict, budget>>
  BY DEF RefuseNext, session, ledger, tools, Still
<1>2. index \in Nat /\ N \in Nat /\ index' \in 1 .. N + 1
  BY <1>1, Facts
<1>3. /\ calls = N /\ Ready \subseteq admitted /\ hit = {} /\ 1 .. index - 1 \subseteq Answered
      /\ \A c \in Call : member[c] \notin Live
      /\ \A c \in index .. N : member[c] = "idle" /\ started[c] = 0
  BY <1>1 DEF Inv, Progress, Forward, Early
<1>4. Answered' = Answered /\ Ready' = Ready
  BY <1>1 DEF Answered, Ready
<1>5. \E f \in todo' : f.type = "tool/result" /\ f.call = index
  BY <1>1 DEF Result
<1>7. \A d \in 1 .. index' - 1 : d \in Answered' \/ Told(d)'
  <2> SUFFICES ASSUME NEW d \in 1 .. index' - 1 PROVE d \in Answered' \/ Told(d)'
    OBVIOUS
  <2>1. d \in 1 .. index - 1 \/ d = index
    BY <1>1, <1>2
  <2> QED
    BY <1>3, <1>4, <1>5, <2>1 DEF Told
<1>8. \A c \in index' .. N : member[c] = "idle" /\ started[c] = 0
  BY <1>1, <1>2, <1>3
<1>9. Progress'
  BY <1>1, <1>3, <1>4, <1>7, <1>8 DEF Progress, Forward, Early, Still
<1> QED
  BY <1>1, <1>2, <1>3, <1>4, <1>9, Facts, StillKeeps DEF Owner

(* The calls that are dispatched together are the next ones.               *)
LEMMA GroupIsNext ==
    ASSUME Inv, index <= N, verdict[index] = "ready", NEW g,
           g = IF index \in Reads THEN Neighbours ELSE {index},
           NEW i, i = After(g)
    PROVE  /\ i \in index + 1 .. N + 1 /\ g = index .. i - 1 /\ g \subseteq Ready
           /\ \A c \in g \ Reads : g = {c} /\ c = index
<1>1. index \in 1 .. N /\ N \in Nat /\ index \in Ready /\ Call = 1 .. N /\ Ready \subseteq Call
  BY Facts DEF Ready
<1>2. index \in Reads => g = {c \in index .. N : \A d \in index .. c : d \in Ready \cap Reads}
  BY DEF Neighbours
<1>3. index \in g /\ \A c \in g : c \in index .. N /\ \A d \in index .. c : d \in g
  <2>1. CASE index \in Reads
    <3>1. \A d \in index .. index : d \in Ready \cap Reads
      BY <1>1, <2>1
    <3>2. index \in g
      BY <1>1, <1>2, <2>1, <3>1
    <3>3. ASSUME NEW c \in g, NEW d \in index .. c PROVE d \in g
      <4>1. c \in index .. N /\ \A e \in index .. c : e \in Ready \cap Reads
        BY <1>2, <2>1
      <4>2. d \in index .. N /\ \A e \in index .. d : e \in Ready \cap Reads
        BY <1>1, <3>3, <4>1
      <4> QED
        BY <1>2, <2>1, <4>2
    <3> QED
      BY <1>2, <2>1, <3>2, <3>3
  <2>2. CASE index \notin Reads
    BY <1>1, <2>2
  <2> QED
    BY <2>1, <2>2
<1>4. g \subseteq Ready /\ \A c \in g \ Reads : g = {c} /\ c = index
  <2>1. CASE index \in Reads
    <3>1. ASSUME NEW c \in g PROVE c \in Ready \cap Reads
      <4>1. c \in index .. N /\ c \in index .. c
        BY <1>1, <1>3
      <4> QED
        BY <1>2, <2>1, <4>1
    <3> QED
      BY <3>1
  <2>2. CASE index \notin Reads
    BY <1>1, <2>2
  <2> QED
    BY <2>1, <2>2
<1>5. g \in SUBSET Call /\ g # {}
  BY <1>1, <1>3, <1>4
<1>6. i \in 1 .. N + 1 /\ i - 1 \in g /\ \A c \in g : c < i
  BY <1>5, GroupEnds DEF After
<1>7. i \in index + 1 .. N + 1
  BY <1>1, <1>3, <1>6
<1>8. g = index .. i - 1
  <2>1. ASSUME NEW c \in g PROVE c \in index .. i - 1
    <3>1. c \in index .. N /\ c < i
      BY <1>3, <1>6, <2>1
    <3> QED
      BY <1>1, <1>6, <3>1
  <2>2. ASSUME NEW c \in index .. i - 1 PROVE c \in g
    BY <1>3, <1>6, <2>2
  <2> QED
    BY <2>1, <2>2
<1> QED
  BY <1>4, <1>7, <1>8

LEMMA DispatchNextKeeps ==
    ASSUME Inv, DispatchNext
    PROVE  Inv'
<1> DEFINE g == IF index \in Reads THEN Neighbours ELSE {index}
<1>1. /\ pc = "next" /\ index <= N /\ verdict[index] = "ready"
      /\ group' = g /\ pc' = "group"
      /\ index' = After(g)
      /\ member' = [c \in Call |-> IF c \in g THEN "intent" ELSE member[c]]
      /\ UNCHANGED <<calls, admitted, results, intents, dispatched, verdict, hit, started, budget>>
  BY DEF DispatchNext, Dispatch, session, ledger
<1>2. /\ index' \in index + 1 .. N + 1 /\ g = index .. index' - 1 /\ g \subseteq Ready
      /\ \A c \in g \ Reads : g = {c} /\ c = index
  BY <1>1, GroupIsNext
<1> HIDE DEF g
<1>3. /\ calls = N /\ Ready \subseteq admitted /\ hit = {} /\ 1 .. index - 1 \subseteq Answered
      /\ \A c \in Call : member[c] \notin Live
      /\ \A c \in index .. N : member[c] = "idle" /\ started[c] = 0
  BY <1>1 DEF Inv, Progress, Forward, Early
<1>4. N \in Nat /\ Call = 1 .. N /\ index \in 1 .. N + 1 /\ Ready \subseteq Call
      /\ member \in [Call -> Live \cup {"idle", "done", "cancelled", "failed"}]
      /\ started \in [Call -> Nat]
  BY Facts DEF Ready
<1>5. Answered' = Answered /\ Ready' = Ready
  BY <1>1 DEF Answered, Ready
<1>6. \A c \in Call : member'[c] = IF c \in g THEN "intent" ELSE member[c]
  BY <1>1
<1>7. Shapes'
  <2>1. member' \in [Call -> Live \cup {"idle", "done", "cancelled", "failed"}]
    BY <1>1, <1>4 DEF Live
  <2>2. index' \in 1 .. N + 1 /\ group' \subseteq Call /\ hit' \subseteq group'
    BY <1>1, <1>2, <1>3, <1>4
  <2> QED
    BY <1>1, <2>1, <2>2 DEF Inv, Shapes, Owner
<1>8. Progress'
  <2>1. \A c \in index' .. N : member'[c] = "idle" /\ started'[c] = 0
    <3> SUFFICES ASSUME NEW c \in index' .. N PROVE member'[c] = "idle" /\ started'[c] = 0
      OBVIOUS
    <3>0. index' \in Nat /\ index < index' /\ index \in Nat /\ 1 <= index
      BY <1>2, <1>4
    <3>1. c \in index .. N /\ c \in Call
      BY <1>4, <3>0
    <3>2. c \notin index .. index' - 1
      <4>1. c \in Int /\ index' <= c
        BY <1>4, <3>0
      <4>2. \A j \in Nat, x \in Int : j <= x => x \notin index .. j - 1
        OBVIOUS
      <4> QED
        BY <3>0, <4>1, <4>2
    <3> QED
      BY <1>1, <1>2, <1>3, <1>6, <3>1, <3>2
  <2>2. index \in 1 .. index' - 1 /\ group' = index .. index' - 1 /\ 1 .. index - 1 \subseteq Answered'
    BY <1>1, <1>2, <1>3, <1>4, <1>5
  <2> QED
    BY <1>1, <1>3, <1>5, <2>1, <2>2 DEF Progress, Forward, Early
<1>9. Dispatches'
  <2> SUFFICES ASSUME NEW c \in Call PROVE Backed(c)'
    BY DEF Dispatches
  <2>1. CASE c \in g
    <3>1. member'[c] = "intent" /\ c \in group' /\ started'[c] = 0 /\ c \in admitted' /\ calls' = N
      BY <1>1, <1>2, <1>3, <1>4, <1>6, <2>1
    <3> QED
      BY <3>1 DEF Backed, Live
  <2>2. CASE c \notin g
    <3>1. member'[c] = member[c] /\ member[c] \notin Live /\ Backed(c)
      BY <1>3, <1>6, <2>2 DEF Inv, Dispatches
    <3> QED
      BY <1>1, <3>1 DEF Backed, Live
  <2> QED
    BY <2>1, <2>2
<1>10. Alone'
  BY <1>1, <1>2, <1>3, <1>5 DEF Alone
<1>11. Reached'
  <2>1. budget.faults = 0 => \A c \in Call : member[c] \notin {"failed", "closing", "cancelled"}
    BY <1>3 DEF Inv, Reached
  <2> QED
    BY <1>1, <1>3, <1>6, <2>1 DEF Reached
<1> QED
  BY <1>7, <1>8, <1>9, <1>10, <1>11 DEF Inv

LEMMA ReturnKeeps ==
    ASSUME Inv, Return
    PROVE  Inv'
<1>1. /\ pc = "next" /\ pc' = "returned" /\ Still /\ todo' = todo
      /\ UNCHANGED <<calls, admitted, results, verdict, index, budget>>
  BY DEF Return, session, ledger, tools, batch, Still
<1>2. calls' \in 0 .. N /\ calls <= calls' /\ Answered' = Answered
  BY <1>1, Facts DEF Answered
<1> QED
  BY <1>1, <1>2, Facts, Leaves DEF Owner, Over, Forward, Early

(* The results of a group.                                                *)
LEMMA GroupDoneKeeps ==
    ASSUME Inv, GroupDone
    PROVE  Inv'
<1>1. /\ pc = "group" /\ pc' = "recording" /\ Still
      /\ \A c \in group : member[c] = "done"
      /\ todo' = {Result(c, got[c]) : c \in group}
      /\ UNCHANGED <<calls, admitted, results, verdict, index, budget>>
  BY DEF GroupDone, session, ledger, tools, Still
<1>2. PICK lo \in 1 .. index - 1 : group = lo .. index - 1 /\ 1 .. lo - 1 \subseteq Answered
  BY <1>1 DEF Inv, Progress
<1>3. index \in Nat /\ N \in Nat /\ index \in 1 .. N + 1 /\ hit \subseteq group /\ group \subseteq Call
  BY Facts
<1>4. ASSUME NEW d \in group PROVE Told(d)'
  <2>1. Result(d, got[d]) \in todo'
    BY <1>1, <1>4
  <2> QED
    BY <2>1 DEF Told, Result
<1>5. \A d \in 1 .. index - 1 : d \in Answered \/ Told(d)'
  BY <1>2, <1>3, <1>4
<1>6. hit = {} /\ \A c \in Call : member[c] \notin Live
  <2>1. hit = {}
    BY <1>1, <1>3 DEF Inv, Reached, Live
  <2>2. \A c \in Call : member[c] \notin Live
    BY <1>1 DEF Inv, Dispatches, Backed, Live
  <2> QED
    BY <2>1, <2>2
<1>7. Answered' = Answered /\ Ready' = Ready
  BY <1>1 DEF Answered, Ready
<1>8. /\ calls = N /\ Ready \subseteq admitted
       /\ \A c \in index .. N : member[c] = "idle" /\ started[c] = 0
  BY <1>1 DEF Inv, Progress, Forward, Early
<1>9. Progress'
  BY <1>1, <1>5, <1>6, <1>7, <1>8 DEF Progress, Forward, Early, Still
<1> QED
  BY <1>1, <1>3, <1>6, <1>7, <1>8, <1>9, Facts, StillKeeps DEF Owner

(* Only a cancellation that reached them all, or a fault, ends a group.    *)
LEMMA GroupRaisesKeeps ==
    ASSUME Inv, GroupRaises
    PROVE  Inv'
<1>1. /\ pc = "group" /\ pc' \in {"reading", "raised"} /\ Still
      /\ \E c \in group : member[c] \in {"cancelled", "failed"}
      /\ UNCHANGED <<calls, admitted, results, verdict, index, budget>>
  BY DEF GroupRaises, session, ledger, tools, batch, Still
<1>2. calls' \in 0 .. N /\ calls <= calls' /\ Answered' = Answered
  BY <1>1, Facts DEF Answered
<1>3. budget.faults # 0 \/ \A c \in Call : member[c] \in Live => c \in hit
  BY <1>1, Facts DEF Inv, Reached
<1> QED
  BY <1>1, <1>2, <1>3, Facts, Leaves DEF Owner, Over, Forward, Early

(* What is still open is read, or found by recovery.                       *)
LEMMA ReadKeeps ==
    ASSUME Inv, ReadLedger \/ BeginRecovery
    PROVE  Inv'
<1>1. /\ pc # "group" /\ pc' \in {"finalizing", "recovering"} /\ Still
      /\ UNCHANGED <<calls, admitted, results, verdict, index, budget>>
  BY DEF ReadLedger, BeginRecovery, session, ledger, tools, Still
<1>2. calls' \in 0 .. N /\ calls <= calls' /\ Answered' = Answered
  BY <1>1, Facts DEF Answered
<1> QED
  BY <1>1, <1>2, Facts, Leaves DEF Owner, Over, Forward, Early

(* An answer is committed.                                                 *)
LEMMA AppendFactKeeps ==
    ASSUME Inv, AppendFact
    PROVE  Inv'
<1>1. /\ pc \in {"recording", "finalizing", "recovering"} /\ pc' = pc /\ todo # {}
      /\ todo' = todo \ {NextFact} /\ Commit /\ Still
      /\ UNCHANGED <<calls, admitted, verdict, index, budget>>
  BY DEF AppendFact, tools, Still
<1>2. calls' \in 0 .. N /\ calls <= calls' /\ Listed(results') /\ Answered \subseteq Answered'
  BY <1>1, Facts, CommitAdds
<1>3. CASE pc # "recording"
  BY <1>1, <1>2, <1>3, Facts, Leaves DEF Owner, Over, Forward, Early
<1>4. CASE pc = "recording"
  <2>1. /\ calls = N /\ Ready \subseteq admitted /\ hit = {}
        /\ \A d \in 1 .. index - 1 : d \in Answered \/ Told(d)
        /\ \A c \in Call : member[c] \notin Live
        /\ \A c \in index .. N : member[c] = "idle" /\ started[c] = 0
    BY <1>4 DEF Inv, Progress, Forward, Early
  <2>3. ASSUME NextFact.type = "tool/result" PROVE NextFact.call \in Answered'
    <3>1. results' = Append(results, <<NextFact.call, NextFact.status>>)
      BY <1>1, <2>3 DEF Commit
    <3>2. \A e : results' = Append(results, e) => e[1] \in Answered'
      BY ResultAdds, Facts
    <3> DEFINE e == <<NextFact.call, NextFact.status>>
    <3>3. e[1] = NextFact.call
      OBVIOUS
    <3>4. results' = Append(results, e) => e[1] \in Answered'
      BY <3>2, Zenon
    <3> HIDE DEF e
    <3> QED
      BY <3>1, <3>3, <3>4 DEF e
  <2>4. ASSUME NEW d \in 1 .. index - 1 PROVE d \in Answered' \/ Told(d)'
    <3>1. CASE d \in Answered
      BY <1>2, <3>1
    <3>2. CASE Told(d)
      BY <1>1, <2>3, <3>2 DEF Told
    <3> QED
      BY <2>1, <2>4, <3>1, <3>2
  <2>5. Ready' = Ready
    BY <1>1 DEF Ready
  <2>6. Progress'
    BY <1>1, <1>4, <2>1, <2>4, <2>5 DEF Progress, Forward, Early, Still
  <2> QED
    BY <1>1, <1>2, <1>4, <2>6, Facts, StillKeeps DEF Owner
<1> QED
  BY <1>3, <1>4

LEMMA FactsDoneKeeps ==
    ASSUME Inv, FactsDone
    PROVE  Inv'
<1>1. /\ pc \in {"recording", "finalizing", "recovering"} /\ todo = {} /\ todo' = todo /\ Still
      /\ pc = "recording" => pc' = "next"
      /\ pc # "recording" => pc' \in {"cancelled", "recovered"}
      /\ UNCHANGED <<calls, admitted, results, verdict, index, budget>>
  BY DEF FactsDone, session, ledger, batch, tools, Still
<1>2. calls' \in 0 .. N /\ calls <= calls' /\ Listed(results') /\ Answered' = Answered
  BY <1>1, Facts DEF Answered
<1>3. CASE pc # "recording"
  BY <1>1, <1>2, <1>3, Facts, Leaves DEF Owner, Over, Forward, Early
<1>4. CASE pc = "recording"
  <2>1. /\ calls = N /\ Ready \subseteq admitted /\ hit = {}
        /\ \A d \in 1 .. index - 1 : d \in Answered \/ Told(d)
        /\ \A c \in Call : member[c] \notin Live
        /\ \A c \in index .. N : member[c] = "idle" /\ started[c] = 0
    BY <1>4 DEF Inv, Progress, Forward, Early
  <2>2. \A d \in 1 .. index - 1 : d \in Answered
    BY <1>1, <2>1 DEF Told
  <2>3. Ready' = Ready
    BY <1>1 DEF Ready
  <2>4. Progress'
    BY <1>1, <1>2, <1>4, <2>1, <2>2, <2>3 DEF Progress, Forward, Early, Still
  <2> QED
    BY <1>1, <1>2, <1>4, <2>4, Facts, StillKeeps DEF Owner
<1> QED
  BY <1>3, <1>4

-----------------------------------------------------------------------------
(* The dispatches.                                                         *)
LEMMA MemberKeeps ==
    ASSUME Inv, NEW c \in Call, MemberStep(c)
    PROVE  Inv'
<1>1. /\ pc' = pc /\ budget' = budget /\ budget \in [cancels : Nat, faults : Nat, crashes : Nat]
      /\ UNCHANGED <<calls, admitted, results, verdict, index, group, todo, hit>>
  BY Facts DEF MemberStep, AppendIntent, AppendDispatched, StartTool, FinishTool, AppendOutcome,
              Raise, StopTool, AppendCancelled, session, batch
<1>2. /\ member[c] \in Live \ {"intent"} => c \in intents
      /\ member[c] \in Live \ {"intent", "dispatch"} => c \in dispatched
  BY DEF Inv, Dispatches, Backed
<1>3. budget.faults = 0 => /\ member[c] = "closing" => c \in hit
                           /\ member[c] = "cancelled" => c \in hit
  BY DEF Inv, Reached
<1>4. CASE AppendIntent(c)
  <2>1. /\ member[c] = "intent" /\ intents' = intents \cup {c}
        /\ UNCHANGED <<dispatched, started>>
        /\ member' = [member EXCEPT ![c] = IF c \in hit THEN "cancelled" ELSE "dispatch"]
    BY <1>4 DEF AppendIntent, Move
  <2>2. CASE c \in hit
    <3>1. member' = [member EXCEPT ![c] = "cancelled"]
      BY <2>1, <2>2
    <3> QED
      BY <1>1, <2>1, <2>2, <3>1, MemberGoesOn DEF Live
  <2>3. CASE c \notin hit
    <3>1. member' = [member EXCEPT ![c] = "dispatch"]
      BY <2>1, <2>3
    <3> QED
      BY <1>1, <2>1, <2>3, <3>1, MemberGoesOn DEF Live
  <2> QED
    BY <2>2, <2>3
<1>5. CASE AppendDispatched(c)
  <2>1. /\ member[c] = "dispatch" /\ dispatched' = dispatched \cup {c} /\ c \in intents
        /\ UNCHANGED <<intents, started>>
        /\ member' = [member EXCEPT ![c] = IF c \in hit THEN "cancelled" ELSE "run"]
    BY <1>2, <1>5 DEF AppendDispatched, Move, Live
  <2>2. CASE c \in hit
    <3>1. member' = [member EXCEPT ![c] = "cancelled"]
      BY <2>1, <2>2
    <3> QED
      BY <1>1, <2>1, <2>2, <3>1, MemberGoesOn DEF Live
  <2>3. CASE c \notin hit
    <3>1. member' = [member EXCEPT ![c] = "run"]
      BY <2>1, <2>3
    <3> QED
      BY <1>1, <2>1, <2>3, <3>1, MemberGoesOn DEF Live
  <2> QED
    BY <2>2, <2>3
<1>6. CASE StartTool(c)
  <2>1. /\ member[c] = "run" /\ member' = [member EXCEPT ![c] = "running"]
        /\ started' = [started EXCEPT ![c] = @ + 1]
        /\ c \in intents /\ c \in dispatched /\ UNCHANGED <<intents, dispatched>>
    BY <1>2, <1>6 DEF StartTool, ledger, Live
  <2> QED
    BY <1>1, <2>1, MemberGoesOn DEF Live
<1>7. CASE FinishTool(c)
  <2>1. /\ member[c] = "running" /\ member' = [member EXCEPT ![c] = "outcome"]
        /\ c \in intents /\ c \in dispatched /\ UNCHANGED <<intents, dispatched, started>>
    BY <1>2, <1>7 DEF FinishTool, ledger, Live
  <2> QED
    BY <1>1, <2>1, MemberGoesOn DEF Live
<1>8. CASE AppendOutcome(c)
  <2>1. /\ member[c] = "outcome" /\ UNCHANGED <<intents, dispatched, started>>
        /\ member' = [member EXCEPT ![c] = IF c \in hit THEN "cancelled" ELSE "done"]
        /\ c \in dispatched
    BY <1>2, <1>8 DEF AppendOutcome, Move, Live
  <2>2. CASE c \in hit
    <3>1. member' = [member EXCEPT ![c] = "cancelled"]
      BY <2>1, <2>2
    <3> QED
      BY <1>1, <2>1, <2>2, <3>1, MemberGoesOn DEF Live
  <2>3. CASE c \notin hit
    <3>1. member' = [member EXCEPT ![c] = "done"]
      BY <2>1, <2>3
    <3> QED
      BY <1>1, <2>1, <2>3, <3>1, MemberGoesOn DEF Live
  <2> QED
    BY <2>2, <2>3
<1>9. CASE Raise(c)
  <2>1. /\ member[c] \in {"intent", "dispatch", "run", "outcome"} /\ c \in hit
        /\ member' = [member EXCEPT ![c] = "cancelled"]
        /\ UNCHANGED <<intents, dispatched, started>>
    BY <1>9 DEF Raise, ledger
  <2> QED
    BY <1>1, <2>1, MemberGoesOn DEF Live
<1>10. CASE StopTool(c)
  <2>1. /\ member[c] = "running" /\ c \in hit /\ member' = [member EXCEPT ![c] = "closing"]
        /\ c \in intents /\ c \in dispatched /\ UNCHANGED <<intents, dispatched, started>>
    BY <1>2, <1>10 DEF StopTool, ledger, Live
  <2> QED
    BY <1>1, <2>1, MemberGoesOn DEF Live
<1>11. CASE AppendCancelled(c)
  <2>1. /\ member[c] = "closing" /\ member' = [member EXCEPT ![c] = "cancelled"]
        /\ UNCHANGED <<intents, dispatched, started>>
    BY <1>11 DEF AppendCancelled
  <2> QED
    BY <1>1, <1>3, <2>1, MemberGoesOn DEF Live
<1> QED
  BY <1>4, <1>5, <1>6, <1>7, <1>8, <1>9, <1>10, <1>11 DEF MemberStep

-----------------------------------------------------------------------------
(* A cancellation, a fault, a crash.                                       *)
LEMMA CancelKeeps ==
    ASSUME Inv, Cancel
    PROVE  Inv'
<1>1. /\ UNCHANGED <<admitted, intents, dispatched, verdict, index, group, todo, member, started>>
      /\ budget' = [budget EXCEPT !.cancels = @ + 1]
  BY DEF Cancel
<1>2. budget' \in [cancels : Nat, faults : Nat, crashes : Nat] /\ budget'.faults = budget.faults
  <2>1. budget \in [cancels : Nat, faults : Nat, crashes : Nat]
    BY Facts
  <2> QED
    BY ONLY <1>1, <2>1
<1>3. CASE /\ pc = "calling" /\ calls' \in {calls, calls + 1} /\ pc' = "abandoned"
           /\ UNCHANGED <<results, outcome, pending, hit>>
  <2>1. calls < N
    BY <1>3 DEF Inv, Progress
  <2>2. calls' \in 0 .. N /\ calls <= calls' /\ Answered' = Answered /\ Still
    BY <1>1, <1>3, <2>1, Facts DEF Answered, Still
  <2> QED
    BY <1>1, <1>2, <1>3, <2>2, Facts, Leaves DEF Owner, Over, Forward, Early
<1>4. CASE /\ pc \in {"preparing", "next"} /\ pc' = "reading"
           /\ UNCHANGED <<session, outcome, pending, hit>>
  <2>1. calls' \in 0 .. N /\ calls <= calls' /\ Answered' = Answered /\ Still
    BY <1>1, <1>4, Facts DEF Answered, Still, session
  <2> QED
    BY <1>1, <1>2, <1>4, <2>1, Facts, Leaves DEF Owner, Over, Forward, Early, session
<1>5. CASE /\ pc \in {"gate", "admitting"} /\ UNCHANGED <<session, outcome, pc, hit>>
  <2>1. calls' \in 0 .. N /\ calls <= calls' /\ Answered' = Answered /\ Still /\ Ready' = Ready
    BY <1>1, <1>5, Facts DEF Answered, Still, session, Ready
  <2>2. Progress'
    BY <1>1, <1>5, <2>1 DEF Inv, Progress, Forward, Early, Still, session
  <2> QED
    BY <1>1, <1>2, <1>5, <2>1, <2>2, Facts, StillKeeps DEF session
<1>6. CASE /\ pc = "group" /\ hit' = hit \cup {c \in group : member[c] \in Live}
           /\ pc' = IF {c \in group : member[c] \in Live} = {} THEN "reading" ELSE "group"
           /\ UNCHANGED <<session, outcome, pending>>
  <2>1. /\ Answered' = Answered /\ Ready' = Ready
        /\ UNCHANGED <<calls, admitted, results>>
    BY <1>1, <1>6 DEF Answered, Ready, session
  <2>2. \A c \in Call : member[c] \in Live => c \in hit'
    BY <1>6 DEF Inv, Dispatches, Backed
  <2>3. Shapes'
    BY <1>1, <1>2, <1>6, <2>1 DEF Inv, Shapes, Owner
  <2>4. Progress'
    BY <1>1, <1>6, <2>1 DEF Inv, Progress, Forward, Early
  <2>5. Dispatches' /\ Alone'
    BY <1>1, <2>1 DEF Inv, Dispatches, Backed, Alone
  <2>6. Reached'
    BY <1>1, <1>2, <1>6, <2>2 DEF Inv, Reached
  <2> QED
    BY <2>3, <2>4, <2>5, <2>6 DEF Inv
<1>7. CASE /\ pc = "recording" /\ pc' = "reading" /\ (Commit \/ UNCHANGED <<results, outcome>>)
           /\ UNCHANGED <<calls, pending, hit>>
  <2>1. calls' \in 0 .. N /\ calls <= calls' /\ Listed(results') /\ Answered \subseteq Answered' /\ Still
    BY <1>1, <1>7, Facts, CommitAdds DEF Still
  <2> QED
    BY <1>1, <1>2, <1>7, <2>1, Facts, Leaves DEF Owner, Over, Forward, Early
<1> QED
  BY <1>3, <1>4, <1>5, <1>6, <1>7 DEF Cancel

LEMMA FaultKeeps ==
    ASSUME Inv, Fault
    PROVE  Inv'
<1>1. /\ UNCHANGED <<calls, admitted, results, intents, dispatched, verdict, index, group, todo,
                     hit, started>>
      /\ budget' = [budget EXCEPT !.faults = @ + 1]
  BY DEF Fault, session, ledger
<1>2. budget' \in [cancels : Nat, faults : Nat, crashes : Nat] /\ budget'.faults # 0
  <2>1. budget \in [cancels : Nat, faults : Nat, crashes : Nat]
    BY Facts
  <2> QED
    BY ONLY <1>1, <2>1
<1>3. CASE pc' \in {"reading", "raised", "cancelled"} /\ member' = member
  <2>1. calls' \in 0 .. N /\ calls <= calls' /\ Answered' = Answered /\ Still
    BY <1>1, <1>3, Facts DEF Answered, Still
  <2> QED
    BY <1>1, <1>2, <1>3, <2>1, Facts, Leaves DEF Owner, Over, Forward, Early
<1>4. CASE \E c \in Call :
              /\ member[c] \in {"intent", "dispatch", "outcome", "closing"}
              /\ member' = [member EXCEPT ![c] = IF @ = "closing" THEN "cancelled" ELSE "failed"]
              /\ pc' = pc
  <2>1. PICK c \in Call :
              /\ member[c] \in {"intent", "dispatch", "outcome", "closing"}
              /\ member' = [member EXCEPT ![c] = IF @ = "closing" THEN "cancelled" ELSE "failed"]
              /\ pc' = pc
    BY <1>4
  <2>2. \E w \in {"cancelled", "failed"} : member' = [member EXCEPT ![c] = w]
    BY <2>1
  <2>3. PICK w \in {"cancelled", "failed"} : member' = [member EXCEPT ![c] = w]
    BY <2>2
  <2> QED
    BY <1>1, <1>2, <2>1, <2>3, MemberGoesOn DEF Live
<1> QED
  BY <1>3, <1>4 DEF Fault

(* Nothing is under way after a crash, and nothing is dispatched again.    *)
LEMMA CrashKeeps ==
    ASSUME Inv, Crash
    PROVE  Inv'
<1>1. /\ pc' = "down" /\ index' = 1 /\ group' = {} /\ hit' = {}
      /\ verdict' = [c \in Call |-> "none"] /\ member' = [c \in Call |-> "idle"]
      /\ budget' = [budget EXCEPT !.crashes = @ + 1]
      /\ UNCHANGED <<calls, admitted, results, intents, dispatched, started>>
  BY DEF Crash, session, ledger
<1>2. \A c \in Call : member'[c] = "idle"
  BY <1>1
<1>3. budget' \in [cancels : Nat, faults : Nat, crashes : Nat]
  <2>1. budget \in [cancels : Nat, faults : Nat, crashes : Nat]
    BY DEF Inv, Shapes
  <2>2. budget' = [budget EXCEPT !.crashes = budget.crashes + 1]
    BY <1>1
  <2> QED
    BY <2>1, <2>2
<1>4. Shapes'
  <2>1. verdict' \in [Call -> {"none", "ready", "refused"}]
    BY <1>1
  <2>2. member' \in [Call -> Live \cup {"idle", "done", "cancelled", "failed"}]
    BY <1>1
  <2>3. index' \in 1 .. N + 1
    BY <1>1, Facts
  <2> QED
    BY <1>1, <1>3, <2>1, <2>2, <2>3 DEF Inv, Shapes, Over
<1>5. Progress'
  BY <1>1 DEF Progress, Forward, Early
<1>6. Dispatches'
  BY <1>1, <1>2 DEF Inv, Dispatches, Backed, Live
<1>7. Alone' /\ Reached'
  BY <1>1, <1>2 DEF Alone, Reached, Live
<1> QED
  BY <1>4, <1>5, <1>6, <1>7 DEF Inv

LEMMA InvInit == Init => Inv
<1> SUFFICES ASSUME Init PROVE Inv
  OBVIOUS
<1>1. /\ calls = 0 /\ admitted = {} /\ results = <<>> /\ intents = {} /\ dispatched = {}
      /\ pc = "calling" /\ verdict = [c \in Call |-> "none"] /\ index = 1
      /\ group = {} /\ member = [c \in Call |-> "idle"] /\ hit = {}
      /\ started = [c \in Call |-> 0] /\ budget = [cancels |-> 0, faults |-> 0, crashes |-> 0]
  BY DEF Init
<1>2. N \in Nat \ {0} /\ Call = 1 .. N
  BY ToolBatchAssumption DEF Call
<1>3. \A c \in Call : member[c] = "idle" /\ started[c] = 0
  BY <1>1
<1>4. Listed(results)
  <2>1. results \in Seq({})
    BY <1>1
  <2> QED
    BY <2>1 DEF Listed
<1>5. Shapes
  BY <1>1, <1>2, <1>4 DEF Shapes, Owner
<1>6. Progress
  BY <1>1, <1>2, <1>3 DEF Progress, Forward, Early, Live
<1>7. Dispatches /\ Alone /\ Reached
  BY <1>1, <1>3 DEF Dispatches, Backed, Alone, Reached, Live
<1> QED
  BY <1>5, <1>6, <1>7 DEF Inv

LEMMA StutterKeeps ==
    ASSUME Inv, UNCHANGED vars
    PROVE  Inv'
<1>1. /\ UNCHANGED <<calls, admitted, results, intents, dispatched, pc, verdict, index, group>>
      /\ UNCHANGED <<todo, hit, member, started, budget>>
  BY DEF vars, session, ledger, batch, tools
<1>2. Answered' = Answered /\ Ready' = Ready
  BY <1>1 DEF Answered, Ready
<1>3. Shapes'
  BY <1>1 DEF Inv, Shapes
<1>4. Progress'
  BY <1>1, <1>2 DEF Inv, Progress, Told
<1>5. Dispatches' /\ Alone' /\ Reached'
  BY <1>1, <1>2 DEF Inv, Dispatches, Backed, Alone, Reached
<1> QED
  BY <1>3, <1>4, <1>5 DEF Inv

LEMMA NextKeeps == Inv /\ [Next]_vars => Inv'
<1> SUFFICES ASSUME Inv, [Next]_vars PROVE Inv'
  OBVIOUS
<1>1. CASE OwnerStep
  BY <1>1, EarlyKeeps, RefuseNextKeeps, DispatchNextKeeps, ReturnKeeps, GroupDoneKeeps,
     GroupRaisesKeeps, ReadKeeps, AppendFactKeeps, FactsDoneKeeps DEF OwnerStep
<1>2. CASE BeginRecovery \/ Cancel \/ Fault \/ Crash
  BY <1>2, ReadKeeps, CancelKeeps, FaultKeeps, CrashKeeps
<1>3. CASE \E c \in Call : MemberStep(c)
  BY <1>3, MemberKeeps
<1>4. CASE UNCHANGED vars
  BY <1>4, StutterKeeps
<1> QED
  BY <1>1, <1>2, <1>3, <1>4 DEF Next

(* The inductive invariant of a batch: what has been dispatched stands     *)
(* behind what has been answered, with its facts on record                 *)
(* (ToolRuntime.execute_batch(), _dispatch_one()).                         *)
THEOREM InvHolds == Spec => []Inv
<1> QED
  BY InvInit, NextKeeps, PTL DEF Spec

(* A tool of another kind than a read runs when no other dispatch is under *)
(* way and every call before it has been answered (execute_batch()).       *)
THEOREM WritesHold == Spec => []WritesRunAlone
<1>1. Inv => WritesRunAlone
  <2> SUFFICES ASSUME Inv, NEW c \in Call \ Reads, member[c] = "running"
               PROVE  /\ \A d \in Call \ {c} : member[d] \notin Live
                      /\ 1 .. c - 1 \subseteq Answered
    BY DEF WritesRunAlone
  <2>1. c \in group
    BY DEF Inv, Dispatches, Backed, Live
  <2>2. group = {c} /\ 1 .. c - 1 \subseteq Answered
    BY <2>1 DEF Inv, Alone
  <2>3. \A d \in Call : member[d] \in Live => d = c
    BY <2>2 DEF Inv, Dispatches, Backed
  <2> QED
    BY <2>2, <2>3
<1> QED
  BY <1>1, InvHolds, PTL

(* A tool runs at most once, whatever is cancelled, refused, lost and      *)
(* recovered, never before the response is on record, it is admitted and   *)
(* its intent and its dispatch are durable; and without a store fault none *)
(* is started by a batch that was cancelled (execute_batch(), recover()).  *)
THEOREM DispatchHolds == Spec => DispatchOnRecord
<1> DEFINE Recorded == \A c \in Call : /\ started[c] <= 1
                                       /\ started[c] = 1 => /\ calls = N
                                                            /\ c \in admitted \cap intents \cap dispatched
<1> DEFINE Timely == \A c \in Call : started'[c] # started[c] => pc = "group" \/ budget.faults > 0
<1>1. Inv => Recorded
  BY DEF Inv, Dispatches, Backed
<1>2. ASSUME Inv, Next
      PROVE  Timely
  <2> SUFFICES ASSUME NEW c \in Call, started'[c] # started[c]
               PROVE  pc = "group" \/ budget.faults > 0
    OBVIOUS
  <2>1. started' # started
    OBVIOUS
  <2>2. OwnerStep \/ BeginRecovery \/ Cancel \/ Fault \/ Crash => started' = started
    BY DEF OwnerStep, WriteCall, Prepare, Gate, Admit, Admitted, RefuseNext, DispatchNext, Dispatch,
           Return, GroupDone, GroupRaises, ReadLedger, AppendFact, FactsDone, BeginRecovery,
           Cancel, Fault, Crash, tools
  <2>3. PICK d \in Call : MemberStep(d)
    BY <1>2, <2>1, <2>2 DEF Next
  <2>4. StartTool(d)
    BY <2>1, <2>3 DEF MemberStep, AppendIntent, AppendDispatched, FinishTool, AppendOutcome,
                      Raise, StopTool, AppendCancelled
  <2>5. member[d] \in Live /\ d \notin hit
    BY <2>4 DEF StartTool, Live
  <2>6. budget.faults = 0 => pc = "group"
    BY <1>2, <2>5 DEF Inv, Reached
  <2>7. budget.faults \in Nat
    BY <1>2, Facts
  <2> QED
    BY <2>6, <2>7
<1>3. Inv /\ [Next]_vars => [Timely]_vars
  BY <1>2
<1> HIDE DEF Recorded, Timely
<1>4. Spec => []Recorded /\ [][Timely]_vars
  BY <1>1, <1>3, InvHolds, PTL DEF Spec
<1> QED
  BY <1>4 DEF DispatchOnRecord, Recorded, Timely

-----------------------------------------------------------------------------
(* The answers: what the ledger and a dispatch say of one call.            *)
Ledger(c) ==
    /\ c \in intents => calls = N
    /\ member[c] \in {"outcome", "done"} => got[c] # "none"
    /\ member[c] = "done" => got[c] \in ToSet(outcome[c])
    /\ verdict[c] = "refused" => c \notin intents /\ member[c] = "idle"
    /\ pc \in Forward /\ member[c] = "idle" => c \notin intents /\ outcome[c] = <<>>
    /\ c \notin Reads => /\ member[c] \in Live => pc = "group" /\ outcome[c] = <<>>
                         /\ \A s, t \in ToSet(outcome[c]) : s = t

Ledgers == \A c \in Call : Ledger(c)

(* Calls are answered from the first on, without a gap: what is about to   *)
(* be answered follows what has been, each call once.                      *)
Due(a, b) ==
    /\ \A c \in a .. b : \E s \in Statuses : Result(c, s) \in todo
    /\ \A f \in todo : f.call \in a .. b
    /\ \A c \in Call, s, t \in Statuses : Result(c, s) \in todo /\ Result(c, t) \in todo => s = t
    /\ pc # "recovering" => \A c \in Call : Reconciled(c) \notin todo

InOrder(k) ==
    /\ Answered = 1 .. k
    /\ pc \in Early => k = 0
    /\ pc \in Forward => recorded = 1 .. k
    /\ pc = "next" => k = index - 1
    /\ pc = "group" => k + 1 < index /\ group = k + 1 .. index - 1
    /\ pc = "recording" => k < index /\ Due(k + 1, index - 1)
    /\ pc \in {"reading", "finalizing"} =>
          /\ calls = N
          /\ \E j \in {k, k - 1} \cap Nat : /\ recorded = 1 .. j
                                            /\ pc = "finalizing" => Due(j + 1, N)
    /\ pc = "recovering" => Due(k + 1, calls)
    /\ pc = "recovered" => k = calls
    /\ pc = "returned" \/ (pc = "cancelled" /\ budget.faults = 0) => k = N

Sorted == \A i, j \in DOMAIN results : i < j => results[i][1] <= results[j][1]

Order ==
    /\ \E k \in 0 .. calls : InOrder(k)
    /\ Sorted
    /\ pc \in {"down", "abandoned"} => \A c \in Call : member[c] = "idle"
    /\ pc = "raised" => budget.faults # 0

(* An answer is what the ledger says, and stays so.                        *)
LedgerSays(c, s) ==
    /\ s \in {"succeeded", "failed", "cancelled"} => s \in ToSet(outcome[c])
    /\ s = "denied" => c \notin intents /\ member[c] = "idle"
    /\ c \notin Reads => member[c] \notin Live /\ ToSet(outcome[c]) \subseteq {s}

Explained(c, s) ==
    s = "unknown_after_crash" /\ (c \notin Reads \/ budget.faults = 0) =>
       outcome[c] # <<>> \/ (c \notin intents /\ member[c] \notin Live)

Truth ==
    /\ \A c \in Call, s \in Statuses : <<c, s>> \in ToSet(results) => LedgerSays(c, s) /\ Explained(c, s)
    /\ pc \in {"recording", "finalizing", "recovering"} => \A c \in Call :
          /\ \A s \in Statuses : Result(c, s) \in todo =>
                LedgerSays(c, s) /\ (Explained(c, s) \/ Reconciled(c) \in todo)
          /\ Reconciled(c) \in todo =>
                /\ c \notin Reads => outcome[c] = <<>>
                /\ \A s \in Statuses : Result(c, s) \in todo => s = "unknown_after_crash"

Answers == TypeOK /\ Ledgers /\ Order /\ Truth

-----------------------------------------------------------------------------
(* Sequences and facts.                                                    *)
LEMMA LastIn ==
    ASSUME NEW S, NEW s \in Seq(S), s # <<>>
    PROVE  Last(s) \in ToSet(s) /\ Last(s) \in S
<1>1. Len(s) \in DOMAIN s /\ Last(s) = s[Len(s)] /\ s[Len(s)] \in S
  BY DEF Last
<1> QED
  BY <1>1 DEF ToSet

LEMMA AppendedTo ==
    ASSUME NEW S, NEW s \in Seq(S), NEW e \in S, NEW t, t = Append(s, e)
    PROVE  /\ t \in Seq(S) /\ t # <<>> /\ Len(t) = Len(s) + 1 /\ DOMAIN t = 1 .. Len(s) + 1
           /\ Len(s) \in Nat /\ DOMAIN s = 1 .. Len(s)
           /\ t[Len(s) + 1] = e /\ \A i \in 1 .. Len(s) : t[i] = s[i]
<1>1. t # <<>>
  BY DEF Append
<1> QED
  BY <1>1

LEMMA AppendedSet ==
    \A S : \A s \in Seq(S) : \A e \in S : ToSet(Append(s, e)) = ToSet(s) \cup {e}
<1> SUFFICES ASSUME NEW S, NEW s \in Seq(S), NEW e \in S
             PROVE  ToSet(Append(s, e)) = ToSet(s) \cup {e}
  OBVIOUS
<1> DEFINE t == Append(s, e)
<1>1. /\ Len(s) \in Nat /\ DOMAIN t = 1 .. Len(s) + 1 /\ DOMAIN s = 1 .. Len(s)
      /\ t[Len(s) + 1] = e /\ \A i \in 1 .. Len(s) : t[i] = s[i]
  OBVIOUS
<1> HIDE DEF t
<1>2. ASSUME NEW x \in ToSet(t) PROVE x \in ToSet(s) \cup {e}
  <2>1. PICK i \in 1 .. Len(s) + 1 : x = t[i]
    BY <1>1, <1>2 DEF ToSet
  <2>2. i \in 1 .. Len(s) \/ i = Len(s) + 1
    BY <1>1, <2>1
  <2> QED
    BY <1>1, <2>1, <2>2 DEF ToSet
<1>3. ASSUME NEW x \in ToSet(s) PROVE x \in ToSet(t)
  <2>1. PICK i \in 1 .. Len(s) : x = s[i]
    BY <1>1, <1>3 DEF ToSet
  <2>2. i \in 1 .. Len(s) + 1 /\ x = t[i]
    BY <1>1, <2>1
  <2> QED
    BY <1>1, <2>2 DEF ToSet
<1>4. e \in ToSet(t)
  <2>1. Len(s) + 1 \in 1 .. Len(s) + 1
    BY <1>1
  <2> QED
    BY <1>1, <2>1 DEF ToSet
<1>5. ToSet(t) = ToSet(s) \cup {e}
  BY <1>2, <1>3, <1>4
<1> QED
  BY <1>5 DEF t

LEMMA OutcomeAppended ==
    ASSUME NEW s \in Seq(Outcomes), NEW e \in Outcomes
    PROVE  ToSet(Append(s, e)) = ToSet(s) \cup {e}
<1> DEFINE S == Outcomes
<1>1. s \in Seq(S) /\ e \in S
  OBVIOUS
<1> HIDE DEF S
<1> QED
  BY ONLY <1>1, AppendedSet

(* The facts are answers and reconciliations, and no fact is both.         *)
LEMMA FactIs ==
    /\ \A f \in Fact : f.call \in Call /\ \/ \E s \in Statuses : f = Result(f.call, s)
                                          \/ f = Reconciled(f.call)
    /\ \A c, s : /\ Result(c, s).call = c /\ Result(c, s).status = s
                 /\ Result(c, s).type = "tool/result"
    /\ \A c : /\ Reconciled(c).call = c /\ Reconciled(c).status = "unknown_after_crash"
              /\ Reconciled(c).type = "effect/reconciled"
    /\ \A c, d, s : Result(c, s) # Reconciled(d)
    /\ \A c, d, s, t : Result(c, s) = Result(d, t) => c = d /\ s = t
    /\ \A c \in Call, s \in Statuses : Result(c, s) \in Fact
    /\ \A c \in Call : Reconciled(c) \in Fact
<1>1. /\ \A c, s : /\ Result(c, s).call = c /\ Result(c, s).status = s
                   /\ Result(c, s).type = "tool/result"
      /\ \A c : /\ Reconciled(c).call = c /\ Reconciled(c).status = "unknown_after_crash"
                /\ Reconciled(c).type = "effect/reconciled"
  BY DEF Result, Reconciled
<1>2. \A c \in Call, s \in Statuses : Result(c, s) \in Fact
  BY DEF Fact
<1>3. \A c \in Call : Reconciled(c) \in Fact
  BY DEF Fact
<1>4. ASSUME NEW f \in Fact
      PROVE  f.call \in Call /\ \/ \E s \in Statuses : f = Result(f.call, s)
                                \/ f = Reconciled(f.call)
  <2>1. CASE \E c \in Call, s \in Statuses : f = Result(c, s)
    BY <1>1, <2>1
  <2>2. CASE \E c \in Call : f = Reconciled(c)
    BY <1>1, <2>2
  <2> QED
    BY <2>1, <2>2 DEF Fact
<1>5. /\ \A c, d, s : Result(c, s) # Reconciled(d)
      /\ \A c, d, s, t : Result(c, s) = Result(d, t) => c = d /\ s = t
  <2>1. \A c, d, s : Result(c, s).type # Reconciled(d).type
    BY <1>1
  <2>2. \A c, s : Result(c, s).call = c /\ Result(c, s).status = s
    BY <1>1
  <2> QED
    BY <2>1, <2>2
<1> QED
  BY <1>1, <1>2, <1>3, <1>4, <1>5

(* The next fact is of the first call, and answers it only when nothing of *)
(* it is left to reconcile.                                                *)
LEMMA NextIs ==
    ASSUME todo \subseteq Fact, todo # {}
    PROVE  /\ NextFact \in todo
           /\ \A g \in todo : NextFact.call <= g.call
           /\ \A c, s : NextFact = Result(c, s) => Reconciled(c) \notin todo
<1> DEFINE Calls == {f.call : f \in todo}
           First0 == First(Calls)
           Good(f) == \A g \in todo :
              /\ f.call <= g.call
              /\ f.call = g.call /\ f.type = "tool/result" => g.type = "tool/result"
<1>1. Calls \in SUBSET Nat /\ Calls # {}
  <2>1. \A f \in todo : f.call \in Nat
    BY FactIs, ToolBatchAssumption DEF Call
  <2> QED
    BY <2>1
<1>2. First0 \in Calls /\ \A y \in Calls : First0 <= y
  BY <1>1, FirstIsOne
<1>3. PICK f \in todo : f.call = First0
  BY <1>2
<1>4. \A g \in todo : f.call <= g.call
  BY <1>2, <1>3
<1> HIDE DEF First0, Calls
<1>5. \E h \in todo : Good(h)
  <2>1. CASE \E h \in todo : h.call = f.call /\ h.type # "tool/result"
    BY <1>4, <2>1
  <2>2. CASE \A h \in todo : h.call = f.call => h.type = "tool/result"
    BY <1>4, <2>2
  <2> QED
    BY <2>1, <2>2
<1>6. NextFact \in todo /\ Good(NextFact)
  BY <1>5 DEF NextFact
<1>7. \A c, s : NextFact = Result(c, s) => Reconciled(c) \notin todo
  <2> SUFFICES ASSUME NEW c, NEW s, NextFact = Result(c, s), Reconciled(c) \in todo PROVE FALSE
    OBVIOUS
  <2>1. /\ NextFact.call = c /\ NextFact.type = "tool/result"
        /\ Reconciled(c).call = c /\ Reconciled(c).type = "effect/reconciled"
    BY FactIs
  <2>2. Reconciled(c).type = "tool/result"
    BY <1>6, <2>1
  <2> QED
    BY <2>1, <2>2
<1> QED
  BY <1>6, <1>7

(* What a commit of the next fact does.                                    *)
Answering(c, s) ==
    /\ NextFact = Result(c, s) /\ Result(c, s) \in todo /\ Reconciled(c) \notin todo
    /\ results' = Append(results, <<c, s>>) /\ outcome' = outcome

Reconciling(c) ==
    /\ NextFact = Reconciled(c) /\ Reconciled(c) \in todo
    /\ outcome' = [outcome EXCEPT ![c] = Append(@, "unknown_after_crash")] /\ results' = results

LEMMA CommitIs ==
    ASSUME todo \subseteq Fact, todo # {}, Commit
    PROVE  \E c \in Call : /\ NextFact.call = c
                           /\ \A f \in todo : c <= f.call
                           /\ Reconciling(c) \/ \E s \in Statuses : Answering(c, s)
<1>1. /\ NextFact \in todo /\ NextFact \in Fact
      /\ \A g \in todo : NextFact.call <= g.call
      /\ \A c, s : NextFact = Result(c, s) => Reconciled(c) \notin todo
  BY NextIs
<1>2. PICK c \in Call : c = NextFact.call
  BY <1>1, FactIs
<1>3. CASE NextFact = Reconciled(c)
  <2>1. NextFact.type = "effect/reconciled" /\ NextFact.status = "unknown_after_crash"
    BY <1>3, FactIs
  <2> QED
    BY <1>1, <1>2, <1>3, <2>1 DEF Commit, Reconciling
<1>4. CASE \E s \in Statuses : NextFact = Result(c, s)
  <2>1. PICK s \in Statuses : NextFact = Result(c, s)
    BY <1>4
  <2>2. NextFact.type = "tool/result" /\ NextFact.status = s
    BY <2>1, FactIs
  <2> QED
    BY <1>1, <1>2, <2>1, <2>2 DEF Commit, Answering
<1> QED
  BY <1>1, <1>2, <1>3, <1>4, FactIs

(* What the cancel finalizer and recovery answer a call with.              *)
LEMMA KnownIs ==
    ASSUME TypeOK, NEW c \in Call
    PROVE  /\ outcome[c] \in Seq(Outcomes)
           /\ Known(c) = "none" <=> outcome[c] = <<>>
           /\ outcome[c] # <<>> => Known(c) \in Outcomes /\ Known(c) \in ToSet(outcome[c])
<1>1. outcome[c] \in Seq(Outcomes)
  BY DEF TypeOK
<1>2. outcome[c] # <<>> => Last(outcome[c]) \in Outcomes /\ Last(outcome[c]) \in ToSet(outcome[c])
  BY <1>1, LastIn
<1> QED
  BY <1>1, <1>2 DEF Known, Outcomes

LEMMA FinalIs ==
    ASSUME TypeOK, NEW c \in Call
    PROVE  \E s \in Statuses :
              /\ FinalResult(c) = Result(c, s)
              /\ outcome[c] # <<>> => s \in Outcomes \cap ToSet(outcome[c])
              /\ outcome[c] = <<>> => s = "aborted_before_dispatch"
                                      \/ (s = "denied" /\ verdict[c] = "refused")
<1>1. CASE outcome[c] # <<>>
  <2>1. FinalResult(c) = Result(c, Known(c)) /\ Known(c) \in Statuses
    BY <1>1, KnownIs DEF FinalResult, Statuses
  <2> QED
    BY <1>1, <2>1, KnownIs
<1>2. CASE outcome[c] = <<>>
  <2>1. FinalResult(c) = Result(c, IF verdict[c] = "refused" THEN "denied"
                                   ELSE "aborted_before_dispatch")
    BY <1>2, KnownIs DEF FinalResult
  <2> QED
    BY <1>2, <2>1 DEF Statuses
<1> QED
  BY <1>1, <1>2

LEMMA RepairIs ==
    ASSUME TypeOK, NEW c \in Call
    PROVE  /\ Repair(c) \subseteq Fact /\ \A f \in Repair(c) : f.call = c
           /\ Reconciled(c) \in Repair(c) => outcome[c] = <<>>
           /\ \E s \in Statuses :
                 /\ \A t \in Statuses : Result(c, t) \in Repair(c) <=> t = s
                 /\ outcome[c] # <<>> => s \in Outcomes \cap ToSet(outcome[c])
                 /\ outcome[c] = <<>> => /\ s = "unknown_after_crash"
                                         /\ c \in intents => Reconciled(c) \in Repair(c)
<1>1. CASE outcome[c] # <<>>
  <2>1. Repair(c) = {Result(c, Known(c))} /\ Known(c) \in Statuses
    BY <1>1, KnownIs DEF Repair, Statuses
  <2>2. \A t : Result(c, t) \in Repair(c) <=> t = Known(c)
    BY <2>1, FactIs
  <2>3. Reconciled(c) \notin Repair(c)
    BY <2>1, FactIs
  <2>4. Repair(c) \subseteq Fact /\ \A f \in Repair(c) : f.call = c
    BY <2>1, FactIs
  <2> QED
    BY <1>1, <2>1, <2>2, <2>3, <2>4, KnownIs
<1>2. CASE outcome[c] = <<>>
  <2> DEFINE u == "unknown_after_crash"
  <2>1. Repair(c) = {Result(c, u)} \cup {Reconciled(d) : d \in {c} \cap intents} /\ u \in Statuses
    BY <1>2, KnownIs DEF Repair, Statuses, Outcomes
  <2> HIDE DEF u
  <2>2. \A f \in Repair(c) : f = Result(c, u) \/ f = Reconciled(c)
    BY <2>1
  <2>3. \A t : Result(c, t) \in Repair(c) <=> t = u
    BY <2>1, <2>2, FactIs
  <2>4. c \in intents => Reconciled(c) \in Repair(c)
    BY <2>1
  <2>5. Repair(c) \subseteq Fact /\ \A f \in Repair(c) : f.call = c
    BY <2>1, <2>2, FactIs
  <2> QED
    BY <1>2, <2>1, <2>3, <2>4, <2>5 DEF u
<1> QED
  BY <1>1, <1>2

-----------------------------------------------------------------------------
(* The types that the first invariant leaves out.                          *)
Rest ==
    /\ dispatched \subseteq intents
    /\ results \in Seq(Call \X Statuses)
    /\ outcome \in [Call -> Seq(Outcomes)]
    /\ recorded \subseteq Call /\ pending \subseteq {"gate", "admitting"} /\ todo \subseteq Fact
    /\ got \in [Call -> {"none", "succeeded", "failed"}]
    /\ budget \in [cancels : 0 .. MaxCancels, faults : 0 .. MaxFaults,
                   crashes : 0 .. MaxCrashes]

LEMMA RestIs == TypeOK => Rest
BY DEF TypeOK, Rest

LEMMA TypeIs ==
    ASSUME Inv', Rest'
    PROVE  TypeOK'
<1>1. Shapes' /\ hit' \subseteq Call
  BY DEF Inv, Shapes
<1> QED
  BY <1>1 DEF Shapes, Rest, TypeOK

LEMMA CommitTyped ==
    ASSUME TypeOK, todo # {}, Commit
    PROVE  results' \in Seq(Call \X Statuses) /\ outcome' \in [Call -> Seq(Outcomes)]
<1>0. /\ todo \subseteq Fact /\ results \in Seq(Call \X Statuses)
      /\ outcome \in [Call -> Seq(Outcomes)]
  BY DEF TypeOK
<1>1. PICK c \in Call : Reconciling(c) \/ \E s \in Statuses : Answering(c, s)
  BY <1>0, CommitIs
<1>2. CASE Reconciling(c)
  <2> DEFINE o == Append(outcome[c], "unknown_after_crash")
  <2>1. o \in Seq(Outcomes)
    BY <1>0 DEF Outcomes
  <2>2. outcome' = [outcome EXCEPT ![c] = o] /\ results' = results
    BY <1>2 DEF Reconciling
  <2> HIDE DEF o
  <2> QED
    BY <1>0, <2>1, <2>2
<1>3. ASSUME NEW s \in Statuses, Answering(c, s)
      PROVE  results' \in Seq(Call \X Statuses) /\ outcome' = outcome
  <2>1. results' = Append(results, <<c, s>>) /\ outcome' = outcome /\ <<c, s>> \in Call \X Statuses
    BY <1>3 DEF Answering
  <2> QED
    BY <1>0, <2>1
<1> QED
  BY <1>0, <1>1, <1>2, <1>3

LEMMA BudgetTyped ==
    ASSUME TypeOK
    PROVE  /\ budget.cancels < MaxCancels => [budget EXCEPT !.cancels = @ + 1] \in
                 [cancels : 0 .. MaxCancels, faults : 0 .. MaxFaults, crashes : 0 .. MaxCrashes]
           /\ budget.faults < MaxFaults => [budget EXCEPT !.faults = @ + 1] \in
                 [cancels : 0 .. MaxCancels, faults : 0 .. MaxFaults, crashes : 0 .. MaxCrashes]
           /\ budget.crashes < MaxCrashes => [budget EXCEPT !.crashes = @ + 1] \in
                 [cancels : 0 .. MaxCancels, faults : 0 .. MaxFaults, crashes : 0 .. MaxCrashes]
<1>1. /\ budget \in [cancels : 0 .. MaxCancels, faults : 0 .. MaxFaults, crashes : 0 .. MaxCrashes]
      /\ MaxCancels \in Nat /\ MaxFaults \in Nat /\ MaxCrashes \in Nat
  BY ToolBatchAssumption DEF TypeOK
<1>2. /\ budget.cancels < MaxCancels => budget.cancels + 1 \in 0 .. MaxCancels
      /\ budget.faults < MaxFaults => budget.faults + 1 \in 0 .. MaxFaults
      /\ budget.crashes < MaxCrashes => budget.crashes + 1 \in 0 .. MaxCrashes
  BY <1>1
<1> QED
  BY <1>1, <1>2

LEMMA OwnerTyped ==
    ASSUME Inv, Answers, OwnerStep
    PROVE  Rest'
<1>0. Rest /\ TypeOK /\ N \in Nat \ {0} /\ Call = 1 .. N
  BY RestIs, Facts DEF Answers
<1>1. CASE WriteCall \/ Prepare \/ Gate \/ Admit \/ Admitted
  BY <1>0, <1>1 DEF WriteCall, Prepare, Gate, Admit, Admitted, Rest, session, ledger, batch, tools
<1>2. CASE DispatchNext \/ Return \/ GroupRaises \/ FactsDone
  BY <1>0, <1>2 DEF DispatchNext, Dispatch, Return, GroupRaises, FactsDone, Rest, session, ledger,
                    batch, tools
<1>3. CASE RefuseNext
  <2>1. index \in Call /\ "denied" \in Statuses
    BY <1>0, <1>3, Facts DEF RefuseNext, Statuses
  <2>2. todo' \subseteq Fact
    BY <1>3, <2>1, FactIs DEF RefuseNext
  <2> QED
    BY <1>0, <1>3, <2>2 DEF RefuseNext, Rest, session, ledger, tools
<1>4. CASE GroupDone
  <2>1. ASSUME NEW c \in group PROVE c \in Call /\ got[c] \in Statuses
    <3>1. c \in Call /\ member[c] = "done"
      BY <1>4, <2>1, Facts DEF GroupDone
    <3>2. got[c] # "none" /\ got[c] \in {"none", "succeeded", "failed"}
      BY <1>0, <3>1 DEF Answers, Ledgers, Ledger, Rest
    <3> QED
      BY <3>1, <3>2 DEF Statuses, Outcomes
  <2>2. todo' \subseteq Fact
    BY <1>4, <2>1, FactIs DEF GroupDone
  <2> QED
    BY <1>0, <1>4, <2>2 DEF GroupDone, Rest, session, ledger, tools
<1>5. CASE ReadLedger
  <2>1. \A c \in Call : FinalResult(c) \in Fact
    BY <1>0, FinalIs, FactIs
  <2>2. todo' \subseteq Fact
    BY <1>5, <2>1 DEF ReadLedger
  <2> QED
    BY <1>0, <1>5, <2>2 DEF ReadLedger, Rest, session, ledger, tools
<1>6. CASE AppendFact
  <2>1. todo # {} /\ Commit /\ todo \subseteq Fact
    BY <1>0, <1>6 DEF AppendFact, Rest
  <2>2. results' \in Seq(Call \X Statuses) /\ outcome' \in [Call -> Seq(Outcomes)]
    BY <1>0, <2>1, CommitTyped
  <2>3. NextFact.call \in Call
    BY <2>1, CommitIs
  <2> QED
    BY <1>0, <1>6, <2>2, <2>3 DEF AppendFact, Rest, tools
<1> QED
  BY <1>1, <1>2, <1>3, <1>4, <1>5, <1>6 DEF OwnerStep

LEMMA RecoveryTyped ==
    ASSUME Inv, Answers, BeginRecovery
    PROVE  Rest'
<1>0. Rest /\ TypeOK /\ Call = 1 .. N /\ N \in Nat /\ calls \in 0 .. N
  BY RestIs, Facts DEF Answers
<1>1. \A c \in Call : Repair(c) \subseteq Fact
  BY <1>0, RepairIs
<1>2. (1 .. calls) \ Answered \subseteq Call
  BY <1>0
<1>3. todo' \subseteq Fact
  BY <1>1, <1>2 DEF BeginRecovery
<1> QED
  BY <1>0, <1>3 DEF BeginRecovery, Rest, session, ledger, tools

LEMMA MemberTyped ==
    ASSUME Inv, Answers, NEW c \in Call, MemberStep(c)
    PROVE  Rest'
<1>0. /\ Rest
      /\ member[c] \in Live \ {"intent"} => c \in intents
      /\ member[c] = "outcome" => got[c] # "none"
  BY RestIs DEF Answers, Inv, Dispatches, Backed, Ledgers, Ledger
<1>1. CASE AppendIntent(c) \/ StartTool(c) \/ Raise(c) \/ StopTool(c)
  BY <1>0, <1>1 DEF AppendIntent, StartTool, Raise, StopTool, Rest, session, ledger, batch
<1>2. CASE AppendDispatched(c)
  BY <1>0, <1>2 DEF AppendDispatched, Rest, session, batch, Live
<1>3. CASE FinishTool(c)
  BY <1>0, <1>3 DEF FinishTool, Rest, session, ledger, batch
<1>4. ASSUME NEW s \in Outcomes, outcome' = [outcome EXCEPT ![c] = Append(@, s)]
      PROVE  outcome' \in [Call -> Seq(Outcomes)]
  <2> DEFINE o == Append(outcome[c], s)
  <2>1. o \in Seq(Outcomes)
    BY <1>0 DEF Rest
  <2>2. outcome' = [outcome EXCEPT ![c] = o]
    BY <1>4
  <2> HIDE DEF o
  <2> QED
    BY <1>0, <2>1, <2>2 DEF Rest
<1>5. CASE AppendOutcome(c)
  <2>1. got[c] \in Outcomes
    BY <1>0, <1>5 DEF AppendOutcome, Rest, Outcomes
  <2>2. outcome' \in [Call -> Seq(Outcomes)]
    BY <1>4, <1>5, <2>1 DEF AppendOutcome
  <2> QED
    BY <1>0, <1>5, <2>2 DEF AppendOutcome, Rest, session, batch
<1>6. CASE AppendCancelled(c)
  <2>1. "cancelled" \in Outcomes
    BY DEF Outcomes
  <2>2. outcome' \in [Call -> Seq(Outcomes)]
    BY <1>4, <1>6, <2>1 DEF AppendCancelled
  <2> QED
    BY <1>0, <1>6, <2>2 DEF AppendCancelled, Rest, session, batch
<1> QED
  BY <1>1, <1>2, <1>3, <1>5, <1>6 DEF MemberStep

LEMMA TroubleTyped ==
    ASSUME Inv, Answers, Cancel \/ Fault \/ Crash
    PROVE  Rest'
<1>0. Rest /\ TypeOK
  BY RestIs DEF Answers
<1>1. CASE Cancel
  <2>1. budget' \in [cancels : 0 .. MaxCancels, faults : 0 .. MaxFaults, crashes : 0 .. MaxCrashes]
    BY <1>0, <1>1, BudgetTyped DEF Cancel
  <2>2. results' \in Seq(Call \X Statuses) /\ outcome' \in [Call -> Seq(Outcomes)]
    <3>1. CASE todo # {} /\ Commit
      BY <1>0, <3>1, CommitTyped
    <3>2. CASE UNCHANGED <<results, outcome>>
      BY <1>0, <3>2 DEF Rest
    <3> QED
      BY <1>1, <3>1, <3>2 DEF Cancel, session
  <2>3. pending' \subseteq {"gate", "admitting"}
    BY <1>0, <1>1 DEF Cancel, Rest
  <2>4. UNCHANGED <<dispatched, intents, recorded, todo, got>>
    BY <1>1 DEF Cancel
  <2> QED
    BY <1>0, <2>1, <2>2, <2>3, <2>4 DEF Rest
<1>2. CASE Fault
  <2>1. budget' \in [cancels : 0 .. MaxCancels, faults : 0 .. MaxFaults, crashes : 0 .. MaxCrashes]
    BY <1>0, <1>2, BudgetTyped DEF Fault
  <2> QED
    BY <1>0, <1>2, <2>1 DEF Fault, Rest, session, ledger
<1>3. CASE Crash
  <2>1. budget' \in [cancels : 0 .. MaxCancels, faults : 0 .. MaxFaults, crashes : 0 .. MaxCrashes]
    BY <1>0, <1>3, BudgetTyped DEF Crash
  <2>2. got' \in [Call -> {"none", "succeeded", "failed"}]
    BY <1>3 DEF Crash
  <2> QED
    BY <1>0, <1>3, <2>1, <2>2 DEF Crash, Rest, session, ledger
<1> QED
  BY <1>1, <1>2, <1>3

-----------------------------------------------------------------------------
(* What the ledger says of a call: a step that leaves it alone.            *)
LEMMA LedgerStays ==
    ASSUME Inv, Answers, NEW c \in Call, calls' \in 0 .. N, calls <= calls',
           c \in intents' <=> c \in intents, member'[c] = member[c], got'[c] = got[c],
           outcome'[c] = outcome[c],
           verdict'[c] = "refused" => verdict[c] = "refused" \/ (c \notin intents /\ member[c] = "idle"),
           pc' \in Forward => pc \in Forward,
           pc = "group" => pc' = "group" \/ c \in Reads \/ member[c] \notin Live
    PROVE  Ledger(c)'
<1>1. Ledger(c) /\ N \in Nat /\ calls \in 0 .. N
  BY Facts DEF Answers, Ledgers
<1>2. calls = N => calls' = N
  BY <1>1
<1> QED
  BY <1>1, <1>2 DEF Ledger

(* Without a commit, an owner's step changes nothing of it.                *)
LEMMA OwnerLedgers ==
    ASSUME Inv, Answers,
           \/ OwnerStep /\ ~DispatchNext /\ ~AppendFact
           \/ BeginRecovery
           \/ (Cancel \/ Fault) /\ member' = member /\ outcome' = outcome
    PROVE  Ledgers'
<1> SUFFICES ASSUME NEW c \in Call PROVE Ledger(c)'
  BY DEF Ledgers
<1>0. /\ calls \in 0 .. N /\ N \in Nat /\ verdict \in [Call -> {"none", "ready", "refused"}]
      /\ Ledger(c)
  BY Facts DEF Answers, Ledgers
<1>1. /\ UNCHANGED <<intents, member, got, outcome>>
      /\ pc' \in Forward => pc \in Forward
  BY DEF OwnerStep, WriteCall, Prepare, Gate, Admit, Admitted, RefuseNext, Return, GroupDone,
         GroupRaises, ReadLedger, FactsDone, BeginRecovery, Cancel, Fault, Forward, Early,
         session, ledger, batch, tools
<1>2. calls' \in 0 .. N /\ calls <= calls'
  <2>1. pc = "calling" => calls < N
    BY DEF Inv, Progress
  <2>2. calls' = calls \/ (pc = "calling" /\ calls' = calls + 1)
    BY DEF OwnerStep, WriteCall, Prepare, Gate, Admit, Admitted, RefuseNext, Return, GroupDone,
           GroupRaises, ReadLedger, FactsDone, BeginRecovery, Cancel, Fault, session, batch
  <2> QED
    BY <1>0, <2>1, <2>2
<1>3. verdict'[c] = "refused" => verdict[c] = "refused" \/ (c \notin intents /\ member[c] = "idle")
  <2>1. CASE Prepare \/ Gate
    <3>1. pc \in Forward /\ member[c] = "idle"
      BY <2>1, Facts DEF Prepare, Gate, Inv, Progress, Forward, Early
    <3> QED
      BY <1>0, <3>1 DEF Ledger
  <2>2. CASE verdict' = verdict
    BY <2>2
  <2> QED
    BY <2>1, <2>2 DEF OwnerStep, WriteCall, Admit, Admitted, RefuseNext, Return, GroupDone,
          GroupRaises, ReadLedger, FactsDone, BeginRecovery, Cancel, Fault, batch
<1>4. pc = "group" => pc' = "group" \/ c \in Reads \/ member[c] \notin Live
  <2> SUFFICES ASSUME pc = "group", pc' # "group", c \notin Reads, member[c] \in Live PROVE FALSE
    OBVIOUS
  <2>1. c \in group /\ group = {c}
    BY DEF Inv, Dispatches, Backed, Alone
  <2>2. GroupDone \/ GroupRaises \/ (Cancel /\ {d \in group : member[d] \in Live} = {})
    BY DEF OwnerStep, WriteCall, Prepare, Gate, Admit, Admitted, RefuseNext, Return, ReadLedger,
           FactsDone, BeginRecovery, Cancel, Fault
  <2> QED
    BY <2>1, <2>2 DEF GroupDone, GroupRaises, Live
<1> QED
  BY <1>1, <1>2, <1>3, <1>4, LedgerStays

LEMMA DispatchLedgers ==
    ASSUME Inv, Answers, DispatchNext
    PROVE  Ledgers'
<1> DEFINE g == IF index \in Reads THEN Neighbours ELSE {index}
<1>1. /\ pc = "next" /\ index <= N /\ verdict[index] = "ready" /\ pc' = "group"
      /\ index' = After(g)
      /\ member' = [c \in Call |-> IF c \in g THEN "intent" ELSE member[c]]
      /\ UNCHANGED <<calls, intents, got, outcome, verdict>>
  BY DEF DispatchNext, Dispatch, session, ledger
<1>2. index' \in index + 1 .. N + 1 /\ g = index .. index' - 1 /\ g \subseteq Ready
  BY <1>1, GroupIsNext
<1> HIDE DEF g
<1>3. SUFFICES ASSUME NEW c \in Call PROVE Ledger(c)'
  BY DEF Ledgers
<1>4. Ledger(c) /\ calls \in 0 .. N /\ N \in Nat /\ index \in 1 .. N + 1
  BY Facts DEF Answers, Ledgers
<1>5. CASE c \notin g
  <2>1. member'[c] = member[c]
    BY <1>1, <1>5
  <2> QED
    BY <1>1, <1>4, <2>1, LedgerStays DEF Forward
<1>6. CASE c \in g
  <2>1. member'[c] = "intent" /\ verdict[c] = "ready"
    BY <1>1, <1>2, <1>6 DEF Ready
  <2>2. c \in index .. N
    <3>1. index \in Nat /\ N \in Nat /\ index' \in index + 1 .. N + 1
      BY <1>2, <1>4
    <3>2. c \in index .. index' - 1
      BY <1>2, <1>6
    <3>3. \A i \in index + 1 .. N + 1 : \A x \in index .. i - 1 : x \in index .. N
      BY <3>1
    <3> QED
      BY <3>1, <3>2, <3>3
  <2>3. member[c] = "idle" /\ calls = N
    BY <1>1, <2>2 DEF Inv, Progress, Forward, Early
  <2>4. outcome[c] = <<>> /\ c \notin intents
    BY <1>1, <1>4, <2>3 DEF Ledger, Forward
  <2>5. ToSet(outcome[c]) = {}
    BY <2>4 DEF ToSet
  <2> QED
    BY <1>1, <2>1, <2>3, <2>4, <2>5 DEF Ledger, Forward, Live
<1> QED
  BY <1>5, <1>6

(* Only recovery reconciles.                                               *)
LEMMA OnlyRecovery ==
    ASSUME Answers, pc \in {"recording", "finalizing", "recovering"}, NEW c \in Call,
           Reconciled(c) \in todo
    PROVE  pc = "recovering" /\ (c \notin Reads => outcome[c] = <<>>)
<1>1. PICK k \in 0 .. calls : InOrder(k)
  BY DEF Answers, Order
<1>2. pc = "recording" => Due(k + 1, index - 1)
  BY <1>1 DEF InOrder
<1>3. pc = "finalizing" => \E j \in {k, k - 1} \cap Nat : Due(j + 1, N)
  BY <1>1 DEF InOrder
<1>4. pc = "recovering"
  BY <1>2, <1>3 DEF Due
<1> QED
  BY <1>4 DEF Answers, Truth

(* A commit, whether a cancellation interrupts it or not.                  *)
LEMMA CommitLedgers ==
    ASSUME Inv, Answers, pc \in {"recording", "finalizing", "recovering"}, todo # {}, Commit,
           UNCHANGED <<calls, intents, verdict, member, got>>,
           pc' = pc \/ (pc = "recording" /\ pc' = "reading")
    PROVE  Ledgers'
<1> SUFFICES ASSUME NEW c \in Call PROVE Ledger(c)'
  BY DEF Ledgers
<1>0. /\ Ledger(c) /\ calls \in 0 .. N /\ N \in Nat /\ todo \subseteq Fact
      /\ outcome \in [Call -> Seq(Outcomes)]
  BY Facts DEF Answers, Ledgers, TypeOK
<1>1. PICK d \in Call : Reconciling(d) \/ \E s \in Statuses : Answering(d, s)
  BY <1>0, CommitIs
<1>2. CASE outcome'[c] = outcome[c]
  BY <1>0, <1>2, LedgerStays DEF Forward, Early
<1>3. CASE outcome'[c] # outcome[c]
  <2>1. Reconciling(d)
    BY <1>1, <1>3 DEF Answering
  <2> DEFINE o == Append(outcome[c], "unknown_after_crash")
  <2>2. d = c /\ outcome'[c] = o
    BY <1>0, <1>3, <2>1 DEF Reconciling
  <2>3. pc = "recovering" /\ (c \notin Reads => outcome[c] = <<>>)
    BY <2>1, <2>2, OnlyRecovery DEF Reconciling
  <2>4. ToSet(o) = ToSet(outcome[c]) \cup {"unknown_after_crash"}
    <3>1. outcome[c] \in Seq(Outcomes) /\ "unknown_after_crash" \in Outcomes
      BY <1>0 DEF Outcomes
    <3> QED
      BY ONLY <3>1, OutcomeAppended, Zenon
  <2>5. c \notin Reads => ToSet(outcome[c]) = {}
    BY <2>3 DEF ToSet
  <2>6. pc' = "recovering" /\ pc' \notin Forward
    BY <2>3 DEF Forward, Early
  <2> HIDE DEF o
  <2> QED
    BY <1>0, <2>2, <2>3, <2>4, <2>5, <2>6 DEF Ledger
<1> QED
  BY <1>2, <1>3

LEMMA CrashLedgers ==
    ASSUME Inv, Answers, Crash
    PROVE  Ledgers'
<1> SUFFICES ASSUME NEW c \in Call PROVE Ledger(c)'
  BY DEF Ledgers
<1>1. /\ pc' = "down" /\ verdict' = [d \in Call |-> "none"] /\ member' = [d \in Call |-> "idle"]
      /\ UNCHANGED <<calls, intents, outcome>>
  BY DEF Crash, session, ledger
<1>2. Ledger(c) /\ verdict'[c] = "none" /\ member'[c] = "idle"
  BY <1>1 DEF Answers, Ledgers
<1> QED
  BY <1>1, <1>2 DEF Ledger, Forward, Early, Live

(* A dispatch goes on, or is refused its fact by the store.                *)
LEMMA MemberLedger ==
    ASSUME Inv, Answers, NEW c \in Call, member[c] \in Live,
           UNCHANGED <<calls, verdict, pc>>,
           NEW w, member' = [member EXCEPT ![c] = w], w # "idle",
           intents' \in {intents, intents \cup {c}},
           \A d \in Call \ {c} : outcome'[d] = outcome[d] /\ got'[d] = got[d],
           w = "outcome" => got'[c] # "none",
           w = "done" => got'[c] # "none" /\ got'[c] \in ToSet(outcome'[c]),
           w \in Live => outcome'[c] = outcome[c],
           \/ outcome'[c] = outcome[c]
           \/ w \notin Live /\ \E s \in Outcomes : outcome'[c] = Append(outcome[c], s)
    PROVE  Ledgers'
<1> SUFFICES ASSUME NEW d \in Call PROVE Ledger(d)'
  BY DEF Ledgers
<1>0. /\ Ledger(c) /\ Ledger(d) /\ calls \in 0 .. N /\ N \in Nat
      /\ member \in [Call -> Live \cup {"idle", "done", "cancelled", "failed"}]
      /\ calls = N /\ outcome[c] \in Seq(Outcomes)
      /\ verdict[c] # "refused"
  BY Facts DEF Answers, Ledgers, Ledger, Inv, Dispatches, Backed, Live, TypeOK
<1>1. CASE d # c
  <2>1. member'[d] = member[d] /\ (d \in intents' <=> d \in intents)
        /\ outcome'[d] = outcome[d] /\ got'[d] = got[d]
    BY <1>0, <1>1
  <2> QED
    BY <1>0, <2>1, LedgerStays
<1>2. CASE d = c
  <2>1. member'[c] = w
    BY <1>0
  <2>2. c \notin Reads => \A s, t \in ToSet(outcome'[c]) : s = t
    <3>1. CASE outcome'[c] = outcome[c]
      BY <1>0, <3>1 DEF Ledger
    <3>2. ASSUME NEW s \in Outcomes, outcome'[c] = Append(outcome[c], s), c \notin Reads
          PROVE  \A x, y \in ToSet(outcome'[c]) : x = y
      <4>1. outcome[c] = <<>>
        BY <1>0, <3>2 DEF Ledger
      <4>2. ToSet(outcome[c]) = {}
        BY <4>1 DEF ToSet
      <4>0. outcome[c] \in Seq(Outcomes)
        BY <1>0
      <4>3. ToSet(Append(outcome[c], s)) = ToSet(outcome[c]) \cup {s}
        BY ONLY <4>0, s \in Outcomes, OutcomeAppended, Zenon
      <4>4. ToSet(outcome'[c]) = {s}
        BY <3>2, <4>2, <4>3
      <4> QED
        BY <4>4
    <3> QED
      BY <3>1, <3>2
  <2>3. c \notin Reads /\ w \in Live => pc = "group" /\ outcome[c] = <<>>
    BY <1>0 DEF Ledger
  <2> QED
    BY <1>0, <1>2, <2>1, <2>2, <2>3 DEF Ledger
<1> QED
  BY <1>1, <1>2

LEMMA MemberLedgers ==
    ASSUME Inv, Answers, NEW c \in Call, MemberStep(c)
    PROVE  Ledgers'
<1>0. /\ outcome \in [Call -> Seq(Outcomes)] /\ got \in [Call -> {"none", "succeeded", "failed"}]
      /\ outcome[c] \in Seq(Outcomes)
      /\ Ledger(c)
  BY DEF Answers, TypeOK, Ledgers
<1>1. UNCHANGED <<calls, verdict, pc>>
  BY DEF MemberStep, AppendIntent, AppendDispatched, StartTool, FinishTool, AppendOutcome,
         Raise, StopTool, AppendCancelled, session, batch
<1>2. CASE AppendIntent(c) \/ AppendDispatched(c) \/ StartTool(c) \/ Raise(c) \/ StopTool(c)
  <2>1. PICK w \in {"cancelled", "dispatch", "run", "running", "closing"} :
            /\ member' = [member EXCEPT ![c] = w]
            /\ member[c] \in Live /\ intents' \in {intents, intents \cup {c}}
            /\ UNCHANGED <<outcome, got>>
    BY <1>2 DEF AppendIntent, AppendDispatched, StartTool, Raise, StopTool, Move, ledger, Live
  <2> QED
    BY <1>1, <2>1, MemberLedger
<1>3. CASE FinishTool(c)
  <2>1. PICK s \in {"succeeded", "failed"} : got' = [got EXCEPT ![c] = s]
    BY <1>3 DEF FinishTool
  <2>2. got'[c] # "none" /\ \A d \in Call \ {c} : got'[d] = got[d]
    BY <1>0, <2>1
  <2>3. /\ member' = [member EXCEPT ![c] = "outcome"] /\ member[c] \in Live
        /\ UNCHANGED <<intents, outcome>>
    BY <1>3 DEF FinishTool, ledger, Live
  <2> QED
    BY <1>1, <2>2, <2>3, MemberLedger
<1>4. ASSUME NEW s \in Outcomes, outcome' = [outcome EXCEPT ![c] = Append(@, s)]
      PROVE  /\ outcome'[c] = Append(outcome[c], s) /\ s \in ToSet(outcome'[c])
             /\ \A d \in Call \ {c} : outcome'[d] = outcome[d]
  <2>1. outcome'[c] = Append(outcome[c], s) /\ \A d \in Call \ {c} : outcome'[d] = outcome[d]
    BY <1>0, <1>4
  <2>2. ToSet(Append(outcome[c], s)) = ToSet(outcome[c]) \cup {s}
    BY ONLY <1>0, s \in Outcomes, OutcomeAppended, Zenon
  <2>3. s \in ToSet(outcome'[c])
    BY <2>1, <2>2
  <2> QED
    BY <2>1, <2>3
<1>5. CASE AppendOutcome(c)
  <2>1. /\ member[c] = "outcome" /\ outcome' = [outcome EXCEPT ![c] = Append(@, got[c])]
        /\ UNCHANGED <<intents, got>>
    BY <1>5 DEF AppendOutcome
  <2>2. PICK w \in {"done", "cancelled"} : member' = [member EXCEPT ![c] = w]
    BY <1>5 DEF AppendOutcome, Move
  <2>3. got[c] # "none" /\ got[c] \in Outcomes
    BY <1>0, <2>1 DEF Ledger, Outcomes
  <2>4. /\ outcome'[c] = Append(outcome[c], got[c]) /\ got[c] \in ToSet(outcome'[c])
        /\ \A d \in Call \ {c} : outcome'[d] = outcome[d]
    BY <1>4, <2>1, <2>3
  <2>5. member[c] \in Live /\ w \notin Live /\ w # "idle" /\ w # "outcome"
    BY <2>1, <2>2 DEF Live
  <2> QED
    BY <1>1, <2>1, <2>2, <2>3, <2>4, <2>5, MemberLedger
<1>6. CASE AppendCancelled(c)
  <2>1. /\ member[c] \in Live /\ outcome' = [outcome EXCEPT ![c] = Append(@, "cancelled")]
        /\ member' = [member EXCEPT ![c] = "cancelled"] /\ UNCHANGED <<intents, got>>
    BY <1>6 DEF AppendCancelled, Live
  <2>2. "cancelled" \in Outcomes /\ "cancelled" \notin Live
    BY DEF Outcomes, Live
  <2>3. /\ outcome'[c] = Append(outcome[c], "cancelled")
        /\ \A d \in Call \ {c} : outcome'[d] = outcome[d]
    BY <1>4, <2>1, <2>2
  <2> QED
    BY <1>1, <2>1, <2>2, <2>3, MemberLedger
<1> QED
  BY <1>2, <1>3, <1>5, <1>6 DEF MemberStep

LEMMA LedgersKept ==
    ASSUME Inv, Answers, Next
    PROVE  Ledgers'
<1>1. CASE OwnerStep \/ BeginRecovery
  <2>1. CASE AppendFact
    <3>1. /\ pc \in {"recording", "finalizing", "recovering"} /\ todo # {} /\ Commit /\ pc' = pc
          /\ UNCHANGED <<calls, intents, verdict, member, got>>
      BY <2>1 DEF AppendFact, tools
    <3> QED
      BY <3>1, CommitLedgers
  <2> QED
    BY <1>1, <2>1, OwnerLedgers, DispatchLedgers
<1>2. CASE Cancel
  <2>1. CASE pc = "recording" /\ todo # {} /\ Commit /\ pc' = "reading" /\ calls' = calls
    <3>1. UNCHANGED <<intents, verdict, member, got>>
      BY <1>2 DEF Cancel
    <3> QED
      BY <2>1, <3>1, CommitLedgers
  <2>2. CASE outcome' = outcome
    BY <1>2, <2>2, OwnerLedgers DEF Cancel
  <2> QED
    BY <1>2, <2>1, <2>2 DEF Cancel, session
<1>3. CASE Fault
  <2>1. CASE member' = member
    BY <1>3, <2>1, OwnerLedgers DEF Fault, ledger
  <2>2. CASE \E c \in Call :
                /\ member[c] \in {"intent", "dispatch", "outcome", "closing"}
                /\ member' = [member EXCEPT ![c] = IF @ = "closing" THEN "cancelled" ELSE "failed"]
                /\ UNCHANGED pc
    <3>1. PICK c \in Call : \E w \in {"cancelled", "failed"} :
              /\ member[c] \in Live /\ member' = [member EXCEPT ![c] = w] /\ UNCHANGED pc
      BY <2>2 DEF Live
    <3>2. PICK w \in {"cancelled", "failed"} :
              /\ member[c] \in Live /\ member' = [member EXCEPT ![c] = w] /\ UNCHANGED pc
      BY <3>1
    <3>3. UNCHANGED <<calls, verdict, intents, outcome, got>>
      BY <1>3 DEF Fault, session, ledger
    <3> QED
      BY <3>2, <3>3, MemberLedger
  <2> QED
    BY <1>3, <2>1, <2>2 DEF Fault
<1>4. CASE Crash
  BY <1>4, CrashLedgers
<1>5. CASE \E c \in Call : MemberStep(c)
  BY <1>5, MemberLedgers
<1> QED
  BY <1>1, <1>2, <1>3, <1>4, <1>5 DEF Next

-----------------------------------------------------------------------------
(* The order of the answers.                                               *)
LEMMA OneAnswer ==
    ASSUME TypeOK, Sorted, NEW c \in Call, NEW s \in Statuses,
           results' = Append(results, <<c, s>>),
           NEW k \in Nat, Answered = 1 .. k, k <= c
    PROVE  /\ Answered' = Answered \cup {c} /\ Sorted'
           /\ ToSet(results') = ToSet(results) \cup {<<c, s>>}
<1> DEFINE t == results'
           n == Len(results)
<1>0. results \in Seq(Call \X Statuses) /\ <<c, s>> \in Call \X Statuses /\ t = Append(results, <<c, s>>)
  BY DEF TypeOK
<1>1. /\ n \in Nat /\ DOMAIN t = 1 .. n + 1 /\ DOMAIN results = 1 .. n
      /\ t[n + 1] = <<c, s>> /\ \A i \in 1 .. n : t[i] = results[i]
  BY <1>0
<1>2. \A i \in 1 .. n : results[i][1] \in 1 .. k
  BY <1>1 DEF Answered
<1>3. ToSet(t) = ToSet(results) \cup {<<c, s>>}
  BY <1>0, AppendedSet
<1> HIDE DEF t, n
<1>4. c \in Nat /\ <<c, s>>[1] = c
  BY ToolBatchAssumption DEF Call
<1>5. \A i, j \in 1 .. n + 1 : i < j => t[i][1] <= t[j][1]
  <2> SUFFICES ASSUME NEW i \in 1 .. n + 1, NEW j \in 1 .. n + 1, i < j PROVE t[i][1] <= t[j][1]
    OBVIOUS
  <2>1. i \in 1 .. n /\ t[i] = results[i] /\ results[i][1] \in 1 .. k
    BY <1>1, <1>2
  <2>2. CASE j \in 1 .. n
    BY <1>1, <2>1, <2>2 DEF Sorted
  <2>3. CASE j = n + 1
    BY <1>1, <1>4, <2>1, <2>3
  <2> QED
    BY <1>1, <2>2, <2>3
<1>6. {t[i][1] : i \in 1 .. n + 1} = {results[i][1] : i \in 1 .. n} \cup {c}
  <2>1. \A i \in 1 .. n + 1 : i \in 1 .. n \/ i = n + 1
    BY <1>1
  <2>2. n + 1 \in 1 .. n + 1 /\ \A i \in 1 .. n : i \in 1 .. n + 1
    BY <1>1
  <2>3. ASSUME NEW x \in {t[i][1] : i \in 1 .. n + 1}
        PROVE  x \in {results[i][1] : i \in 1 .. n} \cup {c}
    BY <1>1, <1>4, <2>1, <2>3
  <2>4. ASSUME NEW x \in {results[i][1] : i \in 1 .. n} \cup {c}
        PROVE  x \in {t[i][1] : i \in 1 .. n + 1}
    BY <1>1, <1>4, <2>2, <2>4
  <2> QED
    BY <2>3, <2>4
<1>7. Answered' = {t[i][1] : i \in DOMAIN t} /\ Answered = {results[i][1] : i \in DOMAIN results}
  BY DEF Answered, t
<1> QED
  BY <1>1, <1>3, <1>5, <1>6, <1>7 DEF Sorted, t

(* After the first of what is due, the rest is due.                        *)
LEMMA DueNext ==
    ASSUME todo \subseteq Fact, NEW a \in Nat, NEW b \in Nat, b <= N, Due(a, b), 1 <= a,
           NEW c \in Call, NEW s \in Statuses, Answering(c, s), \A f \in todo : c <= f.call,
           todo' = todo \ {NextFact}, pc' = pc
    PROVE  c = a /\ a <= b /\ Due(a + 1, b)'
<1>0. N \in Nat /\ Call = 1 .. N
  BY ToolBatchAssumption DEF Call
<1>1. c \in a .. b
  BY FactIs DEF Due, Answering
<1>2. a \in a .. b /\ a \in Call
  BY <1>0, <1>1
<1>3. PICK t \in Statuses : Result(a, t) \in todo
  BY <1>2 DEF Due
<1>4. c = a
  <2>1. c <= a
    BY <1>3, FactIs
  <2> QED
    BY <1>0, <1>1, <2>1
<1>5. todo' = todo \ {Result(c, s)} /\ Result(c, s) \in todo /\ Reconciled(c) \notin todo
  BY DEF Answering
<1>6. \A d \in a + 1 .. b : \E u \in Statuses : Result(d, u) \in todo'
  <2> SUFFICES ASSUME NEW d \in a + 1 .. b PROVE \E u \in Statuses : Result(d, u) \in todo'
    OBVIOUS
  <2>1. d \in a .. b /\ d # c
    BY <1>4
  <2>2. PICK u \in Statuses : Result(d, u) \in todo
    BY <2>1 DEF Due
  <2> QED
    BY <1>5, <2>1, <2>2, FactIs
<1>7. \A f \in todo' : f.call \in a + 1 .. b
  <2> SUFFICES ASSUME NEW f \in todo' PROVE f.call \in a + 1 .. b
    OBVIOUS
  <2>1. f \in todo /\ f # Result(c, s) /\ f.call \in a .. b
    BY <1>5 DEF Due
  <2>2. f.call # a
    <3> SUFFICES ASSUME f.call = a PROVE FALSE
      OBVIOUS
    <3>1. f # Reconciled(c)
      BY <1>5, <2>1
    <3>2. PICK u \in Statuses : f = Result(c, u)
      BY <1>4, <2>1, <3>1, FactIs
    <3>3. u = s
      BY <1>5, <2>1, <3>2 DEF Due
    <3> QED
      BY <2>1, <3>2, <3>3
  <2> QED
    BY <2>1, <2>2
<1>8. /\ \A d \in Call, u, v \in Statuses : Result(d, u) \in todo' /\ Result(d, v) \in todo' => u = v
      /\ pc' # "recovering" => \A d \in Call : Reconciled(d) \notin todo'
  BY <1>5 DEF Due
<1> QED
  BY <1>1, <1>2, <1>4, <1>6, <1>7, <1>8 DEF Due

(* A step that answers nothing.                                            *)
LEMMA QuietOrder ==
    ASSUME Answers, UNCHANGED results, calls \in Nat, calls' \in Nat, calls <= calls',
           \E k \in 0 .. calls : InOrder(k)',
           pc' \in {"down", "abandoned"} => \A c \in Call : member'[c] = "idle",
           pc' = "raised" => budget'.faults # 0
    PROVE  Order'
<1>1. \E k \in 0 .. calls' : InOrder(k)'
  <2>1. PICK k \in 0 .. calls : InOrder(k)'
    OBVIOUS
  <2>2. k \in 0 .. calls'
    OBVIOUS
  <2> QED
    BY <2>1, <2>2
<1>2. Sorted'
  BY DEF Answers, Order, Sorted
<1> QED
  BY <1>1, <1>2 DEF Order, Sorted

LEMMA EarlyOrder ==
    ASSUME Inv, Answers, WriteCall \/ Prepare \/ Gate \/ Admit \/ Admitted
    PROVE  Order'
<1>0. /\ calls \in 0 .. N /\ N \in Nat /\ calls \in Nat
      /\ pc = "calling" => calls < N
      /\ pc # "calling" => calls = N
  <2>1. /\ pc \in Early /\ pc = "calling" => calls < N
    BY DEF WriteCall, Prepare, Gate, Admit, Admitted, Early, Inv, Progress
  <2>2. pc \in Early
    BY DEF WriteCall, Prepare, Gate, Admit, Admitted, Early
  <2>3. pc # "calling" => calls = N
    BY <2>2 DEF Inv, Progress, Forward
  <2> QED
    BY <2>1, <2>2, <2>3, Facts DEF Inv, Progress
<1>1. /\ pc \in Early /\ UNCHANGED <<results, index, recorded, pending>>
      /\ pc' \in Early \cup {"next", "reading"}
      /\ pc' = "calling" => pc = "calling"
      /\ pc # "calling" => calls' = calls
      /\ pc = "calling" => calls' = calls + 1 /\ pc' \in Early
  BY DEF WriteCall, Prepare, Gate, Admit, Admitted, session, batch, Early
<1>2. PICK k \in 0 .. calls : InOrder(k)
  BY DEF Answers, Order
<1>3. k = 0 /\ recorded = 1 .. 0 /\ Answered = 1 .. 0 /\ index = 1
  BY <1>1, <1>2 DEF InOrder, Forward, Inv, Progress
<1>4. Answered' = 1 .. 0 /\ recorded' = 1 .. 0 /\ index' = 1
  BY <1>1, <1>3 DEF Answered
<1>5. pc' \in {"reading"} => calls' = N /\ calls' = calls
  BY <1>0, <1>1 DEF Early
<1>6. InOrder(0)'
  <2>1. 0 \in {0, 0 - 1} \cap Nat /\ 0 = 1 - 1
    OBVIOUS
  <2> QED
    BY <1>1, <1>4, <1>5, <2>1 DEF InOrder, Forward, Early
<1>7. calls' \in Nat /\ calls <= calls'
  BY <1>0, <1>1
<1>8. 0 \in 0 .. calls /\ pc' \notin {"down", "abandoned", "raised"}
  BY <1>0, <1>1 DEF Early
<1> QED
  BY <1>0, <1>1, <1>6, <1>7, <1>8, QuietOrder DEF Answers, Order

LEMMA LoopOrder ==
    ASSUME Inv, Answers, RefuseNext \/ DispatchNext \/ Return
    PROVE  Order'
<1>0. calls \in 0 .. N /\ N \in Nat /\ index \in 1 .. N + 1 /\ Call = 1 .. N
  BY Facts
<1>1. PICK k \in 0 .. calls : InOrder(k)
  BY DEF Answers, Order
<1>2. pc = "next" /\ UNCHANGED <<calls, results, recorded>>
  BY DEF RefuseNext, DispatchNext, Dispatch, Return, session, batch
<1>3. k = index - 1 /\ recorded = 1 .. k /\ Answered = 1 .. k
  BY <1>1, <1>2 DEF InOrder, Forward
<1>4. recorded' = 1 .. k /\ Answered' = 1 .. k
  BY <1>2, <1>3 DEF Answered
<1>5. CASE RefuseNext
  <2>1. todo' = {Result(index, "denied")} /\ index' = index + 1 /\ pc' = "recording" /\ index \in Call
    BY <1>0, <1>5 DEF RefuseNext
  <2>2. index' \in Nat /\ k < index' /\ k + 1 = index /\ index' - 1 = index /\ index \in Nat
    BY <1>0, <1>3, <2>1
  <2>3. Due(k + 1, index - 1)'
    <3>1. \A c \in k + 1 .. index' - 1 : c = index
      <4>1. \A c \in index .. index : c = index
        BY <2>2
      <4> QED
        BY <2>2, <4>1
    <3>2. "denied" \in Statuses /\ Result(index, "denied") \in todo' /\ index \in k + 1 .. index' - 1
      BY <2>1, <2>2 DEF Statuses
    <3>3. \A f \in todo' : f.call = index
      BY <2>1, FactIs
    <3>4. \A c \in Call : Reconciled(c) \notin todo'
      BY <2>1, FactIs
    <3>5. \A c \in Call, s, t \in Statuses : Result(c, s) \in todo' /\ Result(c, t) \in todo' => s = t
      BY <2>1, FactIs
    <3> QED
      BY <3>1, <3>2, <3>3, <3>4, <3>5 DEF Due
  <2>4. InOrder(k)'
    BY <1>4, <2>1, <2>2, <2>3 DEF InOrder, Forward, Early
  <2> QED
    BY <1>0, <1>2, <2>1, <2>4, QuietOrder
<1>6. CASE DispatchNext
  <2> DEFINE g == IF index \in Reads THEN Neighbours ELSE {index}
  <2>1. /\ pc = "next" /\ index <= N /\ verdict[index] = "ready" /\ group' = g /\ pc' = "group"
        /\ index' = After(g)
    BY <1>6 DEF DispatchNext, Dispatch
  <2>2. index' \in index + 1 .. N + 1 /\ g = index .. index' - 1
    BY <2>1, GroupIsNext
  <2> HIDE DEF g
  <2>3. k + 1 = index /\ k + 1 < index' /\ group' = k + 1 .. index' - 1
    BY <1>0, <1>3, <2>1, <2>2
  <2>4. InOrder(k)'
    BY <1>4, <2>1, <2>3 DEF InOrder, Forward, Early
  <2> QED
    BY <1>0, <1>2, <2>1, <2>4, QuietOrder
<1>7. CASE Return
  <2>1. pc' = "returned" /\ index = N + 1 /\ k = N
    BY <1>0, <1>3, <1>7 DEF Return
  <2>2. InOrder(k)'
    BY <1>4, <2>1 DEF InOrder, Forward, Early
  <2> QED
    BY <1>0, <1>2, <2>1, <2>2, QuietOrder
<1> QED
  BY <1>5, <1>6, <1>7

LEMMA GroupOrder ==
    ASSUME Inv, Answers, GroupDone \/ GroupRaises
    PROVE  Order'
<1>0. calls \in 0 .. N /\ N \in Nat /\ index \in 1 .. N + 1 /\ Call = 1 .. N /\ group \subseteq Call
  BY Facts
<1>1. PICK k \in 0 .. calls : InOrder(k)
  BY DEF Answers, Order
<1>2. pc = "group" /\ UNCHANGED <<calls, results, recorded, index>>
  BY DEF GroupDone, GroupRaises, session, batch
<1>3. /\ recorded = 1 .. k /\ Answered = 1 .. k /\ calls = N
      /\ k + 1 < index /\ group = k + 1 .. index - 1
  BY <1>1, <1>2 DEF InOrder, Forward, Inv, Progress
<1>4. recorded' = 1 .. k /\ Answered' = 1 .. k
  BY <1>2, <1>3 DEF Answered
<1>5. CASE GroupDone
  <2>1. todo' = {Result(c, got[c]) : c \in group} /\ pc' = "recording"
    BY <1>5 DEF GroupDone
  <2>2. ASSUME NEW c \in group PROVE got[c] \in Statuses
    <3>1. c \in Call /\ member[c] = "done"
      BY <1>0, <1>5, <2>2 DEF GroupDone
    <3>2. got[c] # "none" /\ got[c] \in {"none", "succeeded", "failed"}
      BY <3>1 DEF Answers, Ledgers, Ledger, TypeOK
    <3> QED
      BY <3>2 DEF Statuses, Outcomes
  <2>3. Due(k + 1, index - 1)'
    <3>1. \A c \in group : Result(c, got[c]) \in todo'
      BY <2>1
    <3>2. \A f \in todo' : f.call \in group
      BY <2>1, FactIs
    <3>3. \A c \in Call : Reconciled(c) \notin todo'
      BY <2>1, FactIs
    <3>4. \A c \in Call, s, t \in Statuses : Result(c, s) \in todo' /\ Result(c, t) \in todo' => s = t
      <4>1. \A c, s : Result(c, s) \in todo' => s = got[c]
        BY <2>1, FactIs
      <4> QED
        BY <4>1
    <3> QED
      BY <1>2, <1>3, <2>2, <3>1, <3>2, <3>3, <3>4 DEF Due
  <2>4. k < index
    BY <1>0, <1>3
  <2>5. InOrder(k)'
    BY <1>2, <1>4, <2>1, <2>3, <2>4 DEF InOrder, Forward, Early
  <2> QED
    BY <1>0, <1>2, <2>1, <2>5, QuietOrder
<1>6. CASE GroupRaises
  <2>1. pc' \in {"reading", "raised"} /\ budget' = budget
    BY <1>6 DEF GroupRaises
  <2>2. pc' = "raised" => budget.faults # 0
    <3>1. pc' = "raised" => \E c \in Call : member[c] = "failed"
      BY <1>0, <1>6 DEF GroupRaises
    <3> QED
      BY <3>1 DEF Inv, Reached
  <2>3. k \in {k, k - 1} \cap Nat
    BY <1>0
  <2>4. InOrder(k)'
    BY <1>2, <1>3, <1>4, <2>1, <2>3 DEF InOrder, Forward, Early
  <2> QED
    BY <1>0, <1>2, <2>1, <2>2, <2>4, QuietOrder
<1> QED
  BY <1>5, <1>6

LEMMA ReadOrder ==
    ASSUME Inv, Answers, ReadLedger
    PROVE  Order'
<1>0. calls \in 0 .. N /\ N \in Nat /\ Call = 1 .. N /\ TypeOK
  BY Facts DEF Answers
<1>1. PICK k \in 0 .. calls : InOrder(k)
  BY DEF Answers, Order
<1>2. /\ pc = "reading" /\ pc' = "finalizing" /\ UNCHANGED <<calls, results, recorded>>
      /\ todo' = {FinalResult(c) : c \in Call \ recorded}
  BY DEF ReadLedger, session
<1>3. PICK j \in {k, k - 1} \cap Nat : recorded = 1 .. j
  BY <1>1, <1>2 DEF InOrder
<1>4. Answered' = 1 .. k /\ recorded' = 1 .. j /\ calls' = N
  BY <1>1, <1>2, <1>3 DEF InOrder, Answered
<1>5. Due(j + 1, N)'
  <2>1. \A c : c \in j + 1 .. N <=> c \in Call \ recorded
    BY <1>0, <1>3
  <2>2. \A c \in Call : \E s \in Statuses : FinalResult(c) = Result(c, s)
    BY <1>0, FinalIs
  <2>3. \A f \in todo' : \E c \in Call \ recorded, s \in Statuses : f = Result(c, s) /\ f = FinalResult(c)
    BY <1>2, <2>2
  <2>4. \A c \in j + 1 .. N : \E s \in Statuses : Result(c, s) \in todo'
    BY <1>2, <2>1, <2>2
  <2>5. \A f \in todo' : f.call \in j + 1 .. N
    BY <2>1, <2>3, FactIs
  <2>6. \A c \in Call : Reconciled(c) \notin todo'
    BY <2>3, FactIs
  <2>7. ASSUME NEW c \in Call, NEW s \in Statuses, NEW t \in Statuses,
               Result(c, s) \in todo', Result(c, t) \in todo'
        PROVE  s = t
    <3>1. Result(c, s) = FinalResult(c)
      BY <2>3, <2>7, FactIs
    <3>2. Result(c, t) = FinalResult(c)
      BY <2>3, <2>7, FactIs
    <3> QED
      BY <3>1, <3>2, FactIs
  <2> QED
    BY <2>4, <2>5, <2>6, <2>7 DEF Due
<1>6. InOrder(k)'
  BY <1>2, <1>3, <1>4, <1>5 DEF InOrder, Forward, Early
<1> QED
  BY <1>0, <1>2, <1>6, QuietOrder

LEMMA BeginOrder ==
    ASSUME Inv, Answers, BeginRecovery
    PROVE  Order'
<1>0. calls \in 0 .. N /\ N \in Nat /\ Call = 1 .. N /\ TypeOK
  BY Facts DEF Answers
<1>1. PICK k \in 0 .. calls : InOrder(k)
  BY DEF Answers, Order
<1>2. /\ pc' = "recovering" /\ UNCHANGED <<calls, results>>
      /\ todo' = UNION {Repair(c) : c \in (1 .. calls) \ Answered}
  BY DEF BeginRecovery, session
<1>3. Answered' = 1 .. k /\ Answered = 1 .. k
  BY <1>1, <1>2 DEF InOrder, Answered
<1>4. Due(k + 1, calls)'
  <2>1. \A c : c \in k + 1 .. calls <=> c \in (1 .. calls) \ Answered
    BY <1>0, <1>3
  <2>2. \A c \in k + 1 .. calls : c \in Call
    BY <1>0
  <2>3. \A f : f \in todo' <=> \E c \in k + 1 .. calls : f \in Repair(c)
    BY <1>2, <2>1
  <2>4. ASSUME NEW c \in Call, NEW s, Result(c, s) \in todo'
        PROVE  Result(c, s) \in Repair(c)
    <3>1. PICK d \in k + 1 .. calls : Result(c, s) \in Repair(d)
      BY <2>3, <2>4
    <3>2. Result(c, s).call = d
      BY <1>0, <2>2, <3>1, RepairIs
    <3> QED
      BY <3>1, <3>2, FactIs
  <2>5. \A c \in k + 1 .. calls : \E s \in Statuses : Result(c, s) \in todo'
    <3> SUFFICES ASSUME NEW c \in k + 1 .. calls PROVE \E s \in Statuses : Result(c, s) \in todo'
      OBVIOUS
    <3>1. \E s \in Statuses : Result(c, s) \in Repair(c)
      BY <1>0, <2>2, RepairIs
    <3> QED
      BY <2>3, <3>1
  <2>6. \A f \in todo' : f.call \in k + 1 .. calls
    <3> SUFFICES ASSUME NEW f \in todo' PROVE f.call \in k + 1 .. calls
      OBVIOUS
    <3>1. PICK c \in k + 1 .. calls : f \in Repair(c)
      BY <2>3
    <3>2. f.call = c
      BY <1>0, <2>2, <3>1, RepairIs
    <3> QED
      BY <3>2
  <2>7. ASSUME NEW c \in Call, NEW s \in Statuses, NEW t \in Statuses,
               Result(c, s) \in todo', Result(c, t) \in todo'
        PROVE  s = t
    <3>1. Result(c, s) \in Repair(c) /\ Result(c, t) \in Repair(c)
      BY <2>4, <2>7
    <3> QED
      BY <1>0, <3>1, RepairIs
  <2> QED
    BY <1>2, <2>5, <2>6, <2>7 DEF Due
<1>5. InOrder(k)'
  BY <1>2, <1>3, <1>4 DEF InOrder, Forward, Early
<1> QED
  BY <1>0, <1>2, <1>5, QuietOrder

(* A commit; a cancellation may have interrupted it.                       *)
LEMMA CommitOrder ==
    ASSUME Inv, Answers, pc \in {"recording", "finalizing", "recovering"}, todo # {}, Commit,
           UNCHANGED <<calls, index>>,
           \/ AppendFact
           \/ pc = "recording" /\ pc' = "reading" /\ recorded' = recorded
    PROVE  Order'
<1>0. /\ calls \in 0 .. N /\ N \in Nat /\ Call = 1 .. N /\ TypeOK /\ index \in 1 .. N + 1
      /\ todo \subseteq Fact
  BY Facts DEF Answers, TypeOK
<1>1. PICK k \in 0 .. calls : InOrder(k)
  BY DEF Answers, Order
<1>2. Answered = 1 .. k /\ Sorted /\ k \in Nat
  BY <1>0, <1>1 DEF InOrder, Answers, Order, Sorted
<1>3. PICK c \in Call : /\ NextFact.call = c
                        /\ \A f \in todo : c <= f.call
                        /\ Reconciling(c) \/ \E s \in Statuses : Answering(c, s)
  BY <1>0, CommitIs
<1>4. AppendFact => /\ pc' = pc /\ recorded' = recorded \cup {c} /\ todo' = todo \ {NextFact}
  BY <1>3 DEF AppendFact
<1>5. pc \in Forward => calls = N /\ pc = "recording"
  BY DEF Forward, Early, Inv, Progress
<1>6. pc' \notin {"down", "abandoned", "raised", "calling"}
  BY <1>4
<1>7. CASE Reconciling(c)
  <2>1. pc = "recovering" /\ AppendFact
    BY <1>7, OnlyRecovery DEF Reconciling
  <2>2. Due(k + 1, calls) /\ results' = results /\ todo' = todo \ {Reconciled(c)}
    BY <1>1, <1>4, <1>7, <2>1 DEF InOrder, Reconciling
  <2>3. Due(k + 1, calls)'
    <3>1. \A d, s : Result(d, s) \in todo' <=> Result(d, s) \in todo
      BY <2>2, FactIs
    <3> QED
      BY <1>4, <2>1, <2>2, <3>1 DEF Due
  <2>4. InOrder(k)'
    BY <1>2, <1>4, <2>1, <2>2, <2>3 DEF InOrder, Forward, Early, Answered
  <2> QED
    BY <1>0, <1>6, <2>2, <2>4, QuietOrder
<1>8. ASSUME NEW s \in Statuses, Answering(c, s)
      PROVE  Order'
  <2>1. results' = Append(results, <<c, s>>)
    BY <1>8 DEF Answering
  <2>2. ASSUME NEW m \in 0 .. calls, InOrder(m)', k <= c
        PROVE  Order'
    <3>1. Sorted'
      BY <1>0, <1>2, <2>1, <2>2, OneAnswer
    <3> QED
      BY <1>6, <2>2, <3>1 DEF Order, Sorted
  <2>3. k <= c => Answered' = (1 .. k) \cup {c}
    BY <1>0, <1>2, <2>1, OneAnswer
  <2>4. \A j \in Nat : (1 .. j) \cup {j + 1} = 1 .. j + 1
    OBVIOUS
  <2>5. c = k + 1 => k <= c /\ Answered' = 1 .. k + 1
    <3>1. c = k + 1 => k <= c
      BY <1>2
    <3>2. (1 .. k) \cup {k + 1} = 1 .. k + 1
      BY <1>2, <2>4
    <3> QED
      BY <2>3, <3>1, <3>2
  <2>6. c = k => k <= c /\ Answered' = 1 .. k
    <3>1. c = k => k <= c /\ c \in 1 .. k
      BY <1>0, <1>2
    <3>2. c \in 1 .. k => (1 .. k) \cup {c} = 1 .. k
      OBVIOUS
    <3> QED
      BY <2>3, <3>1, <3>2
  <2>7. CASE pc = "recording"
    <3>1. PICK b \in Nat : b = index - 1 /\ b <= N
      BY <1>0
    <3>2. k < index /\ Due(k + 1, b) /\ recorded = 1 .. k /\ index' - 1 = b
      BY <1>1, <2>7, <3>1 DEF InOrder, Forward
    <3>3. k + 1 \in Nat /\ 1 <= k + 1
      BY <1>2
    <3>4. c = k + 1 /\ k + 1 <= b
      <4>1. c \in k + 1 .. b
        BY <1>8, <3>2, FactIs DEF Due, Answering
      <4>2. k + 1 \in k + 1 .. b /\ k + 1 \in Call
        BY <1>0, <1>2, <3>1, <4>1
      <4>3. PICK t \in Statuses : Result(k + 1, t) \in todo
        BY <3>2, <4>2 DEF Due
      <4>4. c <= k + 1
        BY <1>3, <4>3, FactIs
      <4> QED
        BY <1>2, <3>1, <4>1, <4>4
    <3>5. /\ k + 1 \in 0 .. calls /\ k <= c /\ Answered' = 1 .. k + 1 /\ k + 1 < index
          /\ calls = N
      <4>1. calls = N
        BY <1>5, <2>7 DEF Forward
      <4>2. k + 1 \in 0 .. calls /\ k + 1 < index
        BY <1>0, <1>2, <3>1, <3>4, <4>1
      <4> QED
        BY <2>5, <3>4, <4>1, <4>2
    <3>6. CASE AppendFact
      <4>1. Due((k + 1) + 1, b)'
        BY <1>0, <1>3, <1>4, <1>8, <3>1, <3>2, <3>3, <3>6, DueNext
      <4>2. recorded' = 1 .. k + 1
        <5>1. (1 .. k) \cup {k + 1} = 1 .. k + 1
          BY <1>2, <2>4
        <5> QED
          BY <1>4, <3>2, <3>4, <3>6, <5>1
      <4>3. InOrder(k + 1)'
        <5>1. (k + 1 < index)' /\ Due((k + 1) + 1, index - 1)'
          BY <3>2, <3>5, <4>1 DEF Due
        <5> QED
          BY <1>4, <2>7, <3>5, <3>6, <4>2, <5>1 DEF InOrder, Forward, Early
      <4> QED
        BY <2>2, <3>5, <4>3
    <3>7. CASE pc' = "reading" /\ recorded' = recorded
      <4>1. k \in {k + 1, (k + 1) - 1} \cap Nat
        BY <1>2
      <4>2. InOrder(k + 1)'
        BY <3>2, <3>5, <3>7, <4>1 DEF InOrder, Forward, Early
      <4> QED
        BY <2>2, <3>5, <4>2
    <3> QED
      BY <3>6, <3>7
  <2>8. CASE pc = "finalizing"
    <3>1. PICK j \in {k, k - 1} \cap Nat : recorded = 1 .. j /\ Due(j + 1, N) /\ calls = N
      BY <1>1, <2>8 DEF InOrder
    <3>2. AppendFact /\ pc' = "finalizing" /\ todo' = todo \ {NextFact}
      BY <1>4, <2>8
    <3>3. j + 1 \in Nat /\ 1 <= j + 1 /\ N <= N
      BY <1>0, <3>1
    <3>4. c = j + 1 /\ j + 1 <= N /\ Due((j + 1) + 1, N)'
      BY <1>0, <1>3, <1>8, <2>8, <3>1, <3>2, <3>3, DueNext
    <3>5. recorded' = 1 .. j + 1
      <4>1. (1 .. j) \cup {j + 1} = 1 .. j + 1
        BY <2>4, <3>1
      <4> QED
        BY <1>4, <3>1, <3>2, <3>4, <4>1
    <3>6. k <= c /\ calls' = N
      BY <1>2, <3>1, <3>4
    <3>7. CASE j = k
      <4>1. Answered' = 1 .. k + 1 /\ k + 1 \in 0 .. calls
        <5>1. c = k + 1
          BY <3>4, <3>7
        <5>2. k + 1 \in 0 .. calls
          BY <1>0, <1>2, <3>1, <3>4, <3>7
        <5> QED
          BY <2>5, <5>1, <5>2
      <4>2. k + 1 \in {k + 1, (k + 1) - 1} \cap Nat
        BY <1>2
      <4>3. InOrder(k + 1)'
        BY <3>2, <3>4, <3>5, <3>6, <3>7, <4>1, <4>2 DEF InOrder, Forward, Early
      <4> QED
        BY <2>2, <3>6, <4>1, <4>3
    <3>8. CASE j = k - 1
      <4>1. c = k /\ k \in Nat \ {0} /\ j + 1 = k
        BY <1>2, <3>1, <3>4, <3>8
      <4>2. Answered' = 1 .. k
        BY <2>6, <4>1
      <4>3. k \in {k, k - 1} \cap Nat
        BY <1>2
      <4>4. InOrder(k)'
        BY <3>2, <3>4, <3>5, <3>6, <4>1, <4>2, <4>3 DEF InOrder, Forward, Early
      <4> QED
        BY <1>1, <2>2, <3>6, <4>4
    <3> QED
      BY <3>1, <3>7, <3>8
  <2>9. CASE pc = "recovering"
    <3>1. AppendFact /\ pc' = "recovering" /\ todo' = todo \ {NextFact}
      BY <1>4, <2>9
    <3>2. PICK b \in Nat : b = calls /\ b <= N
      BY <1>0
    <3>3. Due(k + 1, b) /\ calls' = b
      BY <1>1, <2>9, <3>2 DEF InOrder
    <3>4. k + 1 \in Nat /\ 1 <= k + 1
      BY <1>2
    <3>5. c = k + 1 /\ k + 1 <= b /\ Due((k + 1) + 1, b)'
      BY <1>0, <1>3, <1>8, <2>9, <3>1, <3>2, <3>3, <3>4, DueNext
    <3>6. Answered' = 1 .. k + 1 /\ k + 1 \in 0 .. calls /\ k <= c
      <4>1. k + 1 \in 0 .. calls
        BY <1>0, <1>2, <3>2, <3>5
      <4> QED
        BY <2>5, <3>5, <4>1
    <3>7. Due((k + 1) + 1, calls)'
      BY <3>3, <3>5 DEF Due
    <3>8. InOrder(k + 1)'
      BY <3>1, <3>6, <3>7 DEF InOrder, Forward, Early
    <3> QED
      BY <2>2, <3>6, <3>8
  <2> QED
    BY <2>7, <2>8, <2>9
<1> QED
  BY <1>3, <1>7, <1>8

LEMMA DoneOrder ==
    ASSUME Inv, Answers, FactsDone
    PROVE  Order'
<1>0. calls \in 0 .. N /\ N \in Nat /\ index \in 1 .. N + 1 /\ Call = 1 .. N
  BY Facts
<1>1. PICK k \in 0 .. calls : InOrder(k)
  BY DEF Answers, Order
<1>2. /\ pc \in {"recording", "finalizing", "recovering"} /\ todo = {}
      /\ UNCHANGED <<calls, results, recorded, index, pending, budget>>
      /\ pc' = CASE pc = "recording"  -> "next"
                 [] pc = "finalizing" -> "cancelled"
                 [] pc = "recovering" -> "recovered"
  BY DEF FactsDone, session, batch
<1>3. Answered' = 1 .. k
  BY <1>1, <1>2 DEF InOrder, Answered
<1>4. ASSUME NEW a \in Nat, NEW b \in Int, Due(a, b) PROVE b < a
  <2>1. \A c \in a .. b : FALSE
    BY <1>2, <1>4 DEF Due
  <2>2. a \notin a .. b
    BY <2>1
  <2> QED
    BY <2>2
<1>5. k \in Nat /\ k + 1 \in Nat /\ k <= N
  BY <1>0
<1>6. CASE pc = "recording"
  <2>1. k < index /\ index - 1 \in Int /\ Due(k + 1, index - 1) /\ recorded = 1 .. k
    BY <1>0, <1>1, <1>6 DEF InOrder, Forward
  <2>2. k = index - 1
    BY <1>0, <1>4, <1>5, <2>1
  <2>3. InOrder(k)'
    BY <1>2, <1>3, <1>6, <2>1, <2>2 DEF InOrder, Forward, Early
  <2> QED
    BY <1>0, <1>2, <1>6, <2>3, QuietOrder
<1>7. CASE pc = "finalizing"
  <2>1. PICK j \in {k, k - 1} \cap Nat : Due(j + 1, N) /\ calls = N
    BY <1>1, <1>7 DEF InOrder
  <2>2. N < j + 1
    <3>1. j + 1 \in Nat /\ N \in Int
      BY <1>0, <2>1
    <3> QED
      BY <1>4, <2>1, <3>1
  <2>3. k = N
    BY <1>0, <1>5, <2>1, <2>2
  <2>4. InOrder(k)'
    BY <1>2, <1>3, <1>7, <2>3 DEF InOrder, Forward, Early
  <2> QED
    BY <1>0, <1>2, <1>7, <2>4, QuietOrder
<1>8. CASE pc = "recovering"
  <2>1. Due(k + 1, calls) /\ calls \in Int
    BY <1>0, <1>1, <1>8 DEF InOrder
  <2>2. calls < k + 1
    BY <1>4, <1>5, <2>1
  <2>3. k = calls
    BY <1>0, <1>1, <2>2
  <2>4. InOrder(k)'
    BY <1>2, <1>3, <1>8, <2>3 DEF InOrder, Forward, Early
  <2> QED
    BY <1>0, <1>2, <1>8, <2>4, QuietOrder
<1> QED
  BY <1>2, <1>6, <1>7, <1>8

LEMMA CancelOrder ==
    ASSUME Inv, Answers, Cancel
    PROVE  Order'
<1>0. calls \in 0 .. N /\ N \in Nat /\ index \in 1 .. N + 1 /\ Call = 1 .. N
  BY Facts
<1>1. PICK k \in 0 .. calls : InOrder(k)
  BY DEF Answers, Order
<1>2. /\ UNCHANGED <<index, group, todo, recorded, member>>
      /\ budget' = [budget EXCEPT !.cancels = @ + 1]
  BY DEF Cancel
<1>3. budget'.faults = budget.faults
  BY <1>2, Facts
<1>4. k \in {k, k - 1} \cap Nat
  BY <1>0
<1>5. CASE /\ pc = "calling" /\ calls' \in {calls, calls + 1} /\ pc' = "abandoned"
           /\ UNCHANGED <<results, outcome, pending, hit>>
  <2>1. \A c \in Call : member'[c] = "idle"
    BY <1>0, <1>2, <1>5 DEF Inv, Progress, Forward, Early
  <2>2. Answered' = 1 .. k
    BY <1>1, <1>5 DEF InOrder, Answered
  <2>3. InOrder(k)'
    BY <1>5, <2>2 DEF InOrder, Forward, Early
  <2>4. calls \in Nat /\ calls' \in Nat /\ calls <= calls'
    BY <1>0, <1>5
  <2>5. pc' = "abandoned" /\ UNCHANGED results
    BY <1>5
  <2> QED
    BY <2>1, <2>3, <2>4, <2>5, QuietOrder
<1>6. CASE /\ pc \in {"preparing", "next", "group"} /\ pc' = "reading" /\ UNCHANGED session
  <2>1. /\ Answered' = 1 .. k /\ recorded' = 1 .. k /\ calls' = N
        /\ UNCHANGED <<calls, results>>
    BY <1>1, <1>2, <1>6 DEF InOrder, Answered, session, Forward, Early, Inv, Progress
  <2>2. InOrder(k)'
    BY <1>4, <1>6, <2>1 DEF InOrder, Forward, Early
  <2> QED
    BY <1>0, <1>6, <2>1, <2>2, QuietOrder
<1>7. CASE /\ pc \in {"gate", "admitting", "group"} /\ pc' = pc /\ UNCHANGED session
  <2>1. UNCHANGED <<calls, results>> /\ Answered' = Answered
    BY <1>7 DEF session, Answered
  <2>2. InOrder(k)'
    BY <1>1, <1>2, <1>7, <2>1 DEF InOrder, Forward, Early
  <2> QED
    BY <1>0, <1>7, <2>1, <2>2, QuietOrder
<1>8. CASE /\ pc = "recording" /\ todo # {} /\ pc' = "reading" /\ UNCHANGED <<results, outcome>>
           /\ UNCHANGED <<calls, pending, hit>>
  <2>1. Answered' = 1 .. k /\ recorded' = 1 .. k /\ calls' = N
    BY <1>1, <1>2, <1>8 DEF InOrder, Answered, Forward, Early, Inv, Progress
  <2>2. InOrder(k)'
    BY <1>4, <1>8, <2>1 DEF InOrder, Forward, Early
  <2> QED
    BY <1>0, <1>8, <2>2, QuietOrder
<1>9. CASE /\ pc = "recording" /\ todo # {} /\ pc' = "reading" /\ Commit
           /\ UNCHANGED <<calls, pending, hit>>
  <2>1. /\ UNCHANGED <<calls, index>> /\ recorded' = recorded
    BY <1>2, <1>9
  <2> QED
    BY <1>3, <1>9, <2>1, CommitOrder
<1> QED
  BY <1>5, <1>6, <1>7, <1>8, <1>9 DEF Cancel

LEMMA FaultOrder ==
    ASSUME Inv, Answers, Fault
    PROVE  Order'
<1>0. calls \in 0 .. N /\ N \in Nat /\ Call = 1 .. N
  BY Facts
<1>1. PICK k \in 0 .. calls : InOrder(k)
  BY DEF Answers, Order
<1>2. /\ UNCHANGED <<calls, results, index, group, todo, recorded, pending>>
      /\ budget' = [budget EXCEPT !.faults = @ + 1]
  BY DEF Fault, session
<1>3. budget'.faults # 0
  BY <1>2, Facts
<1>4. Answered' = 1 .. k /\ k \in {k, k - 1} \cap Nat
  BY <1>0, <1>1, <1>2 DEF InOrder, Answered
<1>5. CASE pc' \in {"raised", "cancelled"}
  <2>1. InOrder(k)'
    BY <1>3, <1>4, <1>5 DEF InOrder, Forward, Early
  <2> QED
    BY <1>0, <1>2, <1>3, <1>5, <2>1, QuietOrder
<1>6. CASE pc \in {"calling", "preparing", "gate", "admitting", "recording"} /\ pc' = "reading"
  <2>1. pc # "calling"
    BY <1>2, <1>6 DEF Fault, Answers, TypeOK
  <2>2. recorded' = 1 .. k /\ calls' = N
    BY <1>1, <1>2, <1>6, <2>1 DEF InOrder, Forward, Early, Inv, Progress
  <2>3. InOrder(k)'
    BY <1>4, <1>6, <2>2 DEF InOrder, Forward, Early
  <2> QED
    BY <1>0, <1>2, <1>6, <2>3, QuietOrder
<1>7. CASE \E c \in Call : member[c] # "idle" /\ pc' = pc
  <2>1. pc \notin {"down", "abandoned"}
    BY <1>7 DEF Answers, Order
  <2>2. InOrder(k)'
    BY <1>1, <1>2, <1>3, <1>4, <1>7 DEF InOrder, Due
  <2> QED
    BY <1>0, <1>2, <1>3, <1>7, <2>1, <2>2, QuietOrder DEF Answers, Order
<1> QED
  BY <1>5, <1>6, <1>7 DEF Fault

LEMMA CrashOrder ==
    ASSUME Inv, Answers, Crash
    PROVE  Order'
<1>0. calls \in 0 .. N /\ N \in Nat
  BY Facts
<1>1. PICK k \in 0 .. calls : InOrder(k)
  BY DEF Answers, Order
<1>2. /\ pc' = "down" /\ member' = [c \in Call |-> "idle"] /\ UNCHANGED <<calls, results>>
  BY DEF Crash, session
<1>3. InOrder(k)'
  BY <1>1, <1>2 DEF InOrder, Forward, Early, Answered
<1> QED
  BY <1>0, <1>2, <1>3, QuietOrder

LEMMA MemberOrder ==
    ASSUME Inv, Answers, NEW c \in Call, MemberStep(c)
    PROVE  Order'
<1>0. calls \in 0 .. N /\ N \in Nat
  BY Facts
<1>1. PICK k \in 0 .. calls : InOrder(k)
  BY DEF Answers, Order
<1>2. UNCHANGED <<calls, results, index, group, todo, recorded, pending, pc, budget>>
  BY DEF MemberStep, AppendIntent, AppendDispatched, StartTool, FinishTool, AppendOutcome,
         Raise, StopTool, AppendCancelled, session, batch
<1>3. member[c] # "idle"
  BY DEF MemberStep, AppendIntent, AppendDispatched, StartTool, FinishTool, AppendOutcome,
         Raise, StopTool, AppendCancelled
<1>4. pc \notin {"down", "abandoned"}
  BY <1>3 DEF Answers, Order
<1>5. InOrder(k)'
  BY <1>1, <1>2 DEF InOrder, Due, Answered
<1> QED
  BY <1>0, <1>2, <1>4, <1>5, QuietOrder DEF Answers, Order

LEMMA OrderKept ==
    ASSUME Inv, Answers, Next
    PROVE  Order'
<1>1. CASE AppendFact
  <2>1. /\ pc \in {"recording", "finalizing", "recovering"} /\ todo # {} /\ Commit
        /\ UNCHANGED <<calls, index, budget>>
    BY <1>1 DEF AppendFact
  <2> QED
    BY <1>1, <2>1, CommitOrder
<1>2. CASE OwnerStep
  BY <1>1, <1>2, EarlyOrder, LoopOrder, GroupOrder, ReadOrder, DoneOrder DEF OwnerStep
<1>3. CASE BeginRecovery \/ Cancel \/ Fault \/ Crash \/ \E c \in Call : MemberStep(c)
  BY <1>3, BeginOrder, CancelOrder, FaultOrder, CrashOrder, MemberOrder
<1> QED
  BY <1>2, <1>3 DEF Next

-----------------------------------------------------------------------------
(* The truth of the answers: a step that does not speak against the call.  *)
Steady(c) ==
    /\ outcome'[c] = outcome[c] \/ member[c] \in Live
    /\ ToSet(outcome[c]) \subseteq ToSet(outcome'[c])
    /\ outcome[c] # <<>> => outcome'[c] # <<>>
    /\ member[c] = "idle" => member'[c] = "idle"
    /\ member[c] \notin Live => member'[c] \notin Live
    /\ c \in intents' => c \in intents \/ member[c] \in Live
    /\ budget'.faults = 0 => budget.faults = 0

LEMMA StaysTrue ==
    ASSUME NEW c \in Call, NEW s \in Statuses, Steady(c)
    PROVE  /\ LedgerSays(c, s) => LedgerSays(c, s)'
           /\ Explained(c, s) => Explained(c, s)'
<1>1. LedgerSays(c, s) => LedgerSays(c, s)'
  BY DEF Steady, LedgerSays, Live
<1>2. Explained(c, s) => Explained(c, s)'
  BY DEF Steady, Explained
<1> QED
  BY <1>1, <1>2

LEMMA SteadyWhen ==
    ASSUME NEW c \in Call, outcome'[c] = outcome[c], c \in intents' <=> c \in intents,
           \/ member'[c] = member[c]
           \/ member'[c] \in {"idle", "cancelled", "failed"} /\ member[c] \in Live
           \/ member'[c] = "idle",
           budget'.faults = 0 => budget.faults = 0
    PROVE  Steady(c)
BY DEF Steady, Live

LEMMA AnsweredIs ==
    ASSUME NEW c, NEW s, <<c, s>> \in ToSet(results)
    PROVE  c \in Answered
<1>1. PICK i \in DOMAIN results : results[i] = <<c, s>>
  BY DEF ToSet
<1>2. results[i][1] = c
  BY <1>1
<1> QED
  BY <1>2 DEF Answered

LEMMA QuietTruth ==
    ASSUME Answers, results' = results,
           \A c \in Answered \cap Call : Steady(c),
           pc' \in {"recording", "finalizing", "recovering"} =>
              pc' = pc /\ todo' = todo /\ \A c \in Call : Steady(c)
    PROVE  Truth'
<1>1. \A c \in Call, s \in Statuses :
         <<c, s>> \in ToSet(results') => LedgerSays(c, s)' /\ Explained(c, s)'
  BY AnsweredIs, StaysTrue DEF Answers, Truth
<1>2. ASSUME pc' \in {"recording", "finalizing", "recovering"}, NEW c \in Call
      PROVE  /\ \A s \in Statuses : Result(c, s) \in todo' =>
                   LedgerSays(c, s)' /\ (Explained(c, s)' \/ Reconciled(c) \in todo')
             /\ Reconciled(c) \in todo' =>
                   /\ c \notin Reads => outcome'[c] = <<>>
                   /\ \A s \in Statuses : Result(c, s) \in todo' => s = "unknown_after_crash"
  <2>1. pc' = pc /\ todo' = todo /\ Steady(c)
    BY <1>2
  <2>2. /\ \A s \in Statuses : Result(c, s) \in todo =>
              LedgerSays(c, s) /\ (Explained(c, s) \/ Reconciled(c) \in todo)
        /\ Reconciled(c) \in todo =>
              /\ c \notin Reads => outcome[c] = <<>>
              /\ \A s \in Statuses : Result(c, s) \in todo => s = "unknown_after_crash"
    BY <1>2, <2>1 DEF Answers, Truth
  <2>3. c \notin Reads => member[c] \notin Live
    BY <1>2, <2>1 DEF Answers, Ledgers, Ledger
  <2>4. \A s \in Statuses : Result(c, s) \in todo' =>
           LedgerSays(c, s)' /\ (Explained(c, s)' \/ Reconciled(c) \in todo')
    BY <2>1, <2>2, StaysTrue
  <2>5. c \notin Reads => outcome'[c] = outcome[c]
    BY <2>1, <2>3 DEF Steady
  <2> QED
    BY <2>1, <2>2, <2>4, <2>5
<1> QED
  BY <1>1, <1>2 DEF Truth, Result, Reconciled

(* What is about to be answered, when it was read from the ledger.         *)
LEMMA ReadTruth ==
    ASSUME Answers, UNCHANGED <<results, intents, outcome, member, budget>>,
           \A c \in Call :
              /\ \A s \in Statuses : Result(c, s) \in todo' =>
                    LedgerSays(c, s) /\ (Explained(c, s) \/ Reconciled(c) \in todo')
              /\ Reconciled(c) \in todo' =>
                    /\ c \notin Reads => outcome[c] = <<>>
                    /\ \A s \in Statuses : Result(c, s) \in todo' => s = "unknown_after_crash"
    PROVE  Truth'
<1>1. \A c \in Call : Steady(c)
  BY SteadyWhen
<1>2. \A c \in Call, s \in Statuses :
         /\ LedgerSays(c, s) => LedgerSays(c, s)'
         /\ Explained(c, s) => Explained(c, s)'
  BY <1>1, StaysTrue
<1> QED
  BY <1>2 DEF Truth, Answers, Result, Reconciled

(* A step of the batch that appends no answer and reads no ledger.         *)
LEMMA LoopTruth ==
    ASSUME Inv, Answers,
           \/ OwnerStep /\ ~RefuseNext /\ ~GroupDone /\ ~ReadLedger /\ ~DispatchNext /\ ~AppendFact
           \/ Cancel /\ UNCHANGED <<results, outcome>>
           \/ Crash
    PROVE  Truth'
<1>1. CASE OwnerStep /\ ~RefuseNext /\ ~GroupDone /\ ~ReadLedger /\ ~DispatchNext /\ ~AppendFact
  <2>1. /\ UNCHANGED <<results, intents, outcome, member, budget>>
        /\ pc' \notin {"recording", "finalizing", "recovering"}
    BY <1>1 DEF OwnerStep, WriteCall, Prepare, Gate, Admit, Admitted, Return, GroupRaises,
                FactsDone, session, ledger, batch, tools
  <2>2. \A c \in Call : Steady(c)
    BY <2>1, SteadyWhen
  <2> QED
    BY <2>1, <2>2, QuietTruth
<1>2. CASE Cancel /\ UNCHANGED <<results, outcome>>
  <2>1. /\ UNCHANGED <<intents, member>> /\ budget' = [budget EXCEPT !.cancels = @ + 1]
        /\ pc' \notin {"recording", "finalizing", "recovering"}
    BY <1>2 DEF Cancel
  <2>2. budget'.faults = budget.faults
    BY <2>1, Facts
  <2>3. \A c \in Call : Steady(c)
    BY <1>2, <2>1, <2>2, SteadyWhen
  <2> QED
    BY <1>2, <2>1, <2>3, QuietTruth
<1>3. CASE Crash
  <2>1. /\ UNCHANGED <<results, intents, outcome>> /\ pc' = "down"
        /\ member' = [c \in Call |-> "idle"] /\ budget' = [budget EXCEPT !.crashes = @ + 1]
    BY <1>3 DEF Crash, session, ledger
  <2>2. budget'.faults = budget.faults
    BY <2>1, Facts
  <2>3. \A c \in Call : member'[c] = "idle"
    BY <2>1
  <2>4. \A c \in Call : Steady(c)
    BY <2>1, <2>2, <2>3, SteadyWhen
  <2> QED
    BY <2>1, <2>4, QuietTruth
<1> QED
  BY <1>1, <1>2, <1>3

LEMMA FaultTruth ==
    ASSUME Inv, Answers, Fault
    PROVE  Truth'
<1>1. /\ UNCHANGED <<results, intents, outcome, todo>>
      /\ budget' = [budget EXCEPT !.faults = @ + 1]
  BY DEF Fault, session, ledger
<1>2. budget'.faults # 0
  BY <1>1, Facts
<1>3. pc' \in {"recording", "finalizing", "recovering"} => pc' = pc
  BY DEF Fault
<1>4. ASSUME NEW d \in Call PROVE Steady(d)
  <2>1. CASE member' = member
    BY <1>1, <1>2, <2>1, SteadyWhen
  <2>2. CASE \E c \in Call :
                /\ member[c] \in {"intent", "dispatch", "outcome", "closing"}
                /\ member' = [member EXCEPT ![c] = IF @ = "closing" THEN "cancelled" ELSE "failed"]
    <3>1. PICK c \in Call, w \in {"cancelled", "failed"} :
              member[c] \in Live /\ member' = [member EXCEPT ![c] = w]
      BY <2>2 DEF Live
    <3>2. member'[d] = member[d] \/ (member'[d] \in {"cancelled", "failed"} /\ member[d] \in Live)
      BY <3>1, Facts
    <3> QED
      BY <1>1, <1>2, <3>2, SteadyWhen
  <2> QED
    BY <2>1, <2>2 DEF Fault
<1> QED
  BY <1>1, <1>3, <1>4, QuietTruth

(* The calls of a new group have no answer yet.                            *)
LEMMA DispatchTruth ==
    ASSUME Inv, Answers, DispatchNext
    PROVE  Truth'
<1> DEFINE g == IF index \in Reads THEN Neighbours ELSE {index}
<1>1. /\ pc = "next" /\ index <= N /\ verdict[index] = "ready" /\ pc' = "group"
      /\ index' = After(g)
      /\ member' = [c \in Call |-> IF c \in g THEN "intent" ELSE member[c]]
      /\ UNCHANGED <<results, intents, outcome, budget>>
  BY DEF DispatchNext, Dispatch, session, ledger
<1>2. index' \in index + 1 .. N + 1 /\ g = index .. index' - 1
  BY <1>1, GroupIsNext
<1> HIDE DEF g
<1>3. PICK k \in 0 .. calls : InOrder(k)
  BY DEF Answers, Order
<1>4. Answered = 1 .. index - 1
  BY <1>1, <1>3 DEF InOrder
<1>5. index \in 1 .. N + 1 /\ N \in Nat
  BY Facts
<1>6. \A c \in Answered \cap Call : c \notin g
  <2>1. \A c \in 1 .. index - 1 : ~(index <= c)
    BY <1>5
  <2>2. \A c \in g : index <= c
    <3>1. \A i \in Int : \A c \in index .. i - 1 : index <= c
      BY <1>5
    <3> QED
      BY <1>2, <1>5, <3>1
  <2> QED
    BY <1>4, <2>1, <2>2
<1>7. \A c \in Answered \cap Call : Steady(c)
  BY <1>1, <1>6, SteadyWhen
<1> QED
  BY <1>1, <1>7, QuietTruth

LEMMA RefuseTruth ==
    ASSUME Inv, Answers, RefuseNext
    PROVE  Truth'
<1>1. /\ UNCHANGED <<results, intents, outcome, member, budget>>
      /\ todo' = {Result(index, "denied")} /\ pc = "next" /\ verdict[index] = "refused"
      /\ index \in Call
  BY Facts DEF RefuseNext, session, ledger, tools
<1>2. index \notin intents /\ member[index] = "idle" /\ outcome[index] = <<>>
  BY <1>1 DEF Answers, Ledgers, Ledger, Forward
<1>3. ToSet(outcome[index]) = {} /\ "idle" \notin Live
  BY <1>2 DEF ToSet, Live
<1>4. LedgerSays(index, "denied") /\ Explained(index, "denied")
  BY <1>2, <1>3 DEF LedgerSays, Explained
<1>5. \A c, s : Result(c, s) \in todo' => c = index /\ s = "denied"
  BY <1>1, FactIs
<1>6. \A c : Reconciled(c) \notin todo'
  BY <1>1, FactIs
<1> QED
  BY <1>1, <1>4, <1>5, <1>6, ReadTruth

LEMMA GroupTruth ==
    ASSUME Inv, Answers, GroupDone
    PROVE  Truth'
<1>1. /\ UNCHANGED <<results, intents, outcome, member, budget>>
      /\ todo' = {Result(c, got[c]) : c \in group} /\ \A c \in group : member[c] = "done"
  BY DEF GroupDone, session, ledger, tools
<1>2. ASSUME NEW c \in group
      PROVE  c \in Call /\ LedgerSays(c, got[c]) /\ Explained(c, got[c])
  <2>1. c \in Call /\ member[c] = "done" /\ Ledger(c) /\ got[c] \in {"none", "succeeded", "failed"}
    BY <1>1, Facts DEF Answers, Ledgers, TypeOK
  <2>2. got[c] \in {"succeeded", "failed"} /\ got[c] \in ToSet(outcome[c]) /\ "done" \notin Live
    BY <2>1 DEF Ledger, Live
  <2>3. c \notin Reads => ToSet(outcome[c]) \subseteq {got[c]}
    BY <2>1, <2>2 DEF Ledger
  <2> QED
    BY <2>1, <2>2, <2>3 DEF LedgerSays, Explained
<1>3. \A c, s : Result(c, s) \in todo' => c \in group /\ s = got[c]
  BY <1>1, FactIs
<1>4. \A c : Reconciled(c) \notin todo'
  BY <1>1, FactIs
<1> QED
  BY <1>1, <1>2, <1>3, <1>4, ReadTruth

(* The cancel finalizer and recovery believe the outcome, if there is one. *)
LEMMA BelievedIsTrue ==
    ASSUME Answers, NEW c \in Call, NEW s \in Outcomes, s \in ToSet(outcome[c]), pc # "group"
    PROVE  LedgerSays(c, s) /\ Explained(c, s)
<1>1. c \notin Reads => member[c] \notin Live /\ \A t \in ToSet(outcome[c]) : t = s
  BY DEF Answers, Ledgers, Ledger
<1>2. s # "denied"
  BY DEF Outcomes
<1>3. outcome[c] # <<>>
  BY DEF ToSet
<1> QED
  BY <1>1, <1>2, <1>3 DEF LedgerSays, Explained

LEMMA FinalTruth ==
    ASSUME Inv, Answers, ReadLedger
    PROVE  Truth'
<1>1. /\ UNCHANGED <<results, intents, outcome, member, budget>> /\ pc = "reading" /\ TypeOK
      /\ todo' = {FinalResult(c) : c \in Call \ recorded}
  BY DEF ReadLedger, session, ledger, tools, Answers
<1>2. ASSUME NEW c \in Call, NEW s \in Statuses, Result(c, s) = FinalResult(c)
      PROVE  LedgerSays(c, s) /\ Explained(c, s)
  <2>1. /\ outcome[c] # <<>> => s \in Outcomes \cap ToSet(outcome[c])
        /\ outcome[c] = <<>> => s = "aborted_before_dispatch"
                                \/ (s = "denied" /\ verdict[c] = "refused")
    BY <1>1, <1>2, FinalIs, FactIs
  <2>2. CASE outcome[c] # <<>>
    BY <1>1, <2>1, <2>2, BelievedIsTrue
  <2>3. CASE outcome[c] = <<>>
    <3>1. ToSet(outcome[c]) = {}
      BY <2>3 DEF ToSet
    <3>2. /\ c \notin Reads => member[c] \notin Live
          /\ s = "denied" => c \notin intents /\ member[c] = "idle"
      BY <1>1, <2>1, <2>3 DEF Answers, Ledgers, Ledger
    <3> QED
      BY <2>1, <2>3, <3>1, <3>2 DEF LedgerSays, Explained
  <2> QED
    BY <2>2, <2>3
<1>3. \A f \in todo' : \E c \in Call, s \in Statuses : f = Result(c, s) /\ f = FinalResult(c)
  BY <1>1, FinalIs
<1>4. \A c, s : Result(c, s) \in todo' => Result(c, s) = FinalResult(c)
  BY <1>3, FactIs
<1>5. \A c : Reconciled(c) \notin todo'
  BY <1>3, FactIs
<1> QED
  BY <1>1, <1>2, <1>4, <1>5, ReadTruth

LEMMA RepairTruth ==
    ASSUME Inv, Answers, BeginRecovery
    PROVE  Truth'
<1>0. calls \in 0 .. N /\ N \in Nat /\ Call = 1 .. N /\ TypeOK
  BY Facts DEF Answers
<1>1. /\ UNCHANGED <<results, intents, outcome, member, budget>>
      /\ pc \in {"down", "raised", "cancelled", "abandoned"}
      /\ todo' = UNION {Repair(c) : c \in (1 .. calls) \ Answered}
  BY DEF BeginRecovery, session, ledger, tools
<1> DEFINE Open == (1 .. calls) \ Answered
<1>2. Open \subseteq Call
  BY <1>0
<1>3. \A f : f \in todo' <=> \E c \in Open : f \in Repair(c)
  BY <1>1
<1>4. Open # {} /\ pc = "cancelled" => budget.faults # 0
  <2>1. PICK k \in 0 .. calls : InOrder(k)
    BY DEF Answers, Order
  <2>2. pc = "cancelled" /\ budget.faults = 0 => Answered = 1 .. N
    BY <2>1 DEF InOrder
  <2>3. 1 .. calls \subseteq 1 .. N
    BY <1>0
  <2> QED
    BY <2>2, <2>3
<1> HIDE DEF Open
<1>5. ASSUME NEW c \in Call, NEW f, f \in {Reconciled(c)} \cup {Result(c, s) : s \in Statuses}, f \in todo'
      PROVE  c \in Open /\ f \in Repair(c)
  <2>1. f.call = c
    BY <1>5, FactIs
  <2>2. PICK d \in Open : f \in Repair(d)
    BY <1>3, <1>5
  <2>3. f.call = d
    BY <1>0, <1>2, <2>2, RepairIs
  <2> QED
    BY <2>1, <2>2, <2>3
<1>6. ASSUME NEW c \in Call, NEW s \in Statuses, Result(c, s) \in todo'
      PROVE  LedgerSays(c, s) /\ (Explained(c, s) \/ Reconciled(c) \in todo')
  <2>1. c \in Open /\ Result(c, s) \in Repair(c)
    BY <1>5, <1>6
  <2>2. /\ outcome[c] # <<>> => s \in Outcomes \cap ToSet(outcome[c])
        /\ outcome[c] = <<>> => /\ s = "unknown_after_crash"
                                /\ c \in intents => Reconciled(c) \in Repair(c)
    BY <1>0, <2>1, RepairIs
  <2>3. CASE outcome[c] # <<>>
    BY <1>1, <2>2, <2>3, BelievedIsTrue
  <2>4. CASE outcome[c] = <<>>
    <3>1. ToSet(outcome[c]) = {} /\ s = "unknown_after_crash"
      BY <2>2, <2>4 DEF ToSet
    <3>2. c \notin Reads => member[c] \notin Live
      BY <1>1 DEF Answers, Ledgers, Ledger
    <3>3. LedgerSays(c, s)
      BY <3>1, <3>2 DEF LedgerSays
    <3>4. c \in intents => Reconciled(c) \in todo'
      BY <1>3, <2>1, <2>2, <2>4
    <3>5. budget.faults = 0 => member[c] \notin Live
      <4>1. budget.faults = 0 => member[c] = "idle"
        BY <1>1, <1>4, <2>1 DEF Answers, Order
      <4> QED
        BY <4>1 DEF Live
    <3>6. c \notin intents => Explained(c, s)
      BY <3>2, <3>5 DEF Explained
    <3> QED
      BY <3>3, <3>4, <3>6
  <2> QED
    BY <2>3, <2>4
<1>7. ASSUME NEW c \in Call, Reconciled(c) \in todo'
      PROVE  /\ outcome[c] = <<>>
             /\ \A s \in Statuses : Result(c, s) \in todo' => s = "unknown_after_crash"
  <2>1. Reconciled(c) \in Repair(c)
    BY <1>5, <1>7
  <2>2. outcome[c] = <<>>
    BY <1>0, <2>1, RepairIs
  <2>3. \A s \in Statuses : Result(c, s) \in todo' => Result(c, s) \in Repair(c)
    BY <1>5
  <2>4. \A s \in Statuses : Result(c, s) \in Repair(c) => s = "unknown_after_crash"
    BY <1>0, <2>2, RepairIs
  <2> QED
    BY <2>2, <2>3, <2>4
<1> QED
  BY <1>1, <1>6, <1>7, ReadTruth

(* A commit, whether a cancellation interrupts it or not.                  *)
LEMMA CommitTruth ==
    ASSUME Inv, Answers, pc \in {"recording", "finalizing", "recovering"}, todo # {}, Commit,
           UNCHANGED <<intents, member>>, budget'.faults = budget.faults,
           \/ AppendFact
           \/ pc = "recording" /\ pc' = "reading"
    PROVE  Truth'
<1>0. /\ todo \subseteq Fact /\ results \in Seq(Call \X Statuses)
      /\ outcome \in [Call -> Seq(Outcomes)]
  BY DEF Answers, TypeOK
<1>1. PICK c \in Call : Reconciling(c) \/ \E s \in Statuses : Answering(c, s)
  BY <1>0, CommitIs
<1>2. AppendFact => pc' = pc /\ todo' = todo \ {NextFact}
  BY DEF AppendFact
<1>3. \A d \in Call, s \in Statuses : <<d, s>> \in ToSet(results) => LedgerSays(d, s) /\ Explained(d, s)
  BY DEF Answers, Truth
<1>4. \A d \in Call :
         /\ \A s \in Statuses : Result(d, s) \in todo =>
               LedgerSays(d, s) /\ (Explained(d, s) \/ Reconciled(d) \in todo)
         /\ Reconciled(d) \in todo =>
               /\ d \notin Reads => outcome[d] = <<>>
               /\ \A s \in Statuses : Result(d, s) \in todo => s = "unknown_after_crash"
  BY DEF Answers, Truth
<1>5. \A d \in Call : outcome'[d] = outcome[d] => Steady(d)
  BY SteadyWhen
<1>6. ASSUME NEW s \in Statuses, Answering(c, s)
      PROVE  Truth'
  <2>1. /\ results' = Append(results, <<c, s>>) /\ outcome' = outcome /\ NextFact = Result(c, s)
        /\ Result(c, s) \in todo /\ Reconciled(c) \notin todo
    BY <1>6 DEF Answering
  <2>2. ToSet(results') = ToSet(results) \cup {<<c, s>>}
    <3> DEFINE e == <<c, s>>
               Pairs == Call \X Statuses
    <3>1. e \in Pairs /\ results \in Seq(Pairs)
      BY <1>0
    <3> HIDE DEF e, Pairs
    <3>2. ToSet(Append(results, e)) = ToSet(results) \cup {e}
      BY <3>1, AppendedSet
    <3> QED
      BY <2>1, <3>2 DEF e
  <2>3. \A d \in Call, t \in Statuses :
           /\ LedgerSays(d, t) => LedgerSays(d, t)'
           /\ Explained(d, t) => Explained(d, t)'
    BY <1>5, <2>1, StaysTrue
  <2>4. \A d \in Call, t \in Statuses :
           <<d, t>> \in ToSet(results') => LedgerSays(d, t)' /\ Explained(d, t)'
    <3> SUFFICES ASSUME NEW d \in Call, NEW t \in Statuses, <<d, t>> \in ToSet(results')
                 PROVE  LedgerSays(d, t) /\ Explained(d, t)
      BY <2>3
    <3>1. CASE <<d, t>> \in ToSet(results)
      BY <1>3, <3>1
    <3>2. CASE <<d, t>> = <<c, s>>
      BY <1>4, <2>1, <3>2
    <3> QED
      BY <2>2, <3>1, <3>2
  <2>5. pc' \in {"recording", "finalizing", "recovering"} => todo' = todo \ {Result(c, s)}
    BY <1>2, <2>1
  <2>6. \A d : Reconciled(d) \in todo /\ todo' = todo \ {Result(c, s)} => Reconciled(d) \in todo'
    BY FactIs
  <2>7. ASSUME pc' \in {"recording", "finalizing", "recovering"}, NEW d \in Call
        PROVE  /\ \A t \in Statuses : Result(d, t) \in todo' =>
                     LedgerSays(d, t)' /\ (Explained(d, t)' \/ Reconciled(d) \in todo')
               /\ Reconciled(d) \in todo' =>
                     /\ d \notin Reads => outcome'[d] = <<>>
                     /\ \A t \in Statuses : Result(d, t) \in todo' => t = "unknown_after_crash"
    BY <1>4, <2>1, <2>3, <2>5, <2>6, <2>7
  <2> QED
    BY <2>4, <2>7 DEF Truth, Result, Reconciled
<1>7. CASE Reconciling(c)
  <2>1. /\ NextFact = Reconciled(c) /\ Reconciled(c) \in todo /\ results' = results
        /\ outcome' = [outcome EXCEPT ![c] = Append(@, "unknown_after_crash")]
    BY <1>7 DEF Reconciling
  <2>2. pc = "recovering" /\ AppendFact /\ todo' = todo \ {Reconciled(c)} /\ pc' = pc
        /\ (c \notin Reads => outcome[c] = <<>>)
    BY <1>2, <2>1, OnlyRecovery
  <2>3. PICK k \in 0 .. calls : InOrder(k)
    BY DEF Answers, Order
  <2>4. c \notin Answered
    <3>1. Answered = 1 .. k /\ Due(k + 1, calls) /\ Reconciled(c).call = c
      BY <2>2, <2>3, FactIs DEF InOrder
    <3>2. c \in k + 1 .. calls
      BY <2>1, <3>1 DEF Due
    <3>3. k \in Nat
      BY Facts
    <3>4. \A m \in Nat : \A x \in k + 1 .. m : x \notin 1 .. k
      BY <3>3
    <3> QED
      BY <3>1, <3>2, <3>4, Facts
  <2>5. \A d \in Call \ {c} : outcome'[d] = outcome[d]
    BY <1>0, <2>1
  <2>6. \A d \in Call \ {c}, t \in Statuses :
           /\ LedgerSays(d, t) => LedgerSays(d, t)'
           /\ Explained(d, t) => Explained(d, t)'
    BY <1>5, <2>5, StaysTrue
  <2>7. \A d \in Call, t \in Statuses :
           <<d, t>> \in ToSet(results') => LedgerSays(d, t)' /\ Explained(d, t)'
    BY <1>3, <2>1, <2>4, <2>6, AnsweredIs
  <2>8. ASSUME NEW d \in Call \ {c}
        PROVE  /\ \A t \in Statuses : Result(d, t) \in todo' =>
                     LedgerSays(d, t)' /\ (Explained(d, t)' \/ Reconciled(d) \in todo')
               /\ Reconciled(d) \in todo' =>
                     /\ d \notin Reads => outcome'[d] = <<>>
                     /\ \A t \in Statuses : Result(d, t) \in todo' => t = "unknown_after_crash"
    <3>1. Reconciled(d) # Reconciled(c)
      BY FactIs
    <3> QED
      BY <1>4, <2>2, <2>5, <2>6, <3>1
  <2>9. ASSUME NEW t \in Statuses, Result(c, t) \in todo'
        PROVE  LedgerSays(c, t)' /\ Explained(c, t)'
    <3>1. t = "unknown_after_crash" /\ LedgerSays(c, t)
      BY <1>4, <2>1, <2>2, <2>9
    <3> DEFINE u == "unknown_after_crash"
               o == Append(outcome[c], u)
    <3>2. outcome'[c] = o
      BY <1>0, <2>1
    <3>3. outcome[c] \in Seq(Outcomes) /\ u \in Outcomes
      BY <1>0 DEF Outcomes
    <3> HIDE DEF u
    <3>4. ToSet(o) = ToSet(outcome[c]) \cup {u}
      <4>1. ToSet(Append(outcome[c], u)) = ToSet(outcome[c]) \cup {u}
        BY <3>3, AppendedSet
      <4> QED
        BY <4>1
    <3>5. o # <<>>
      BY <3>3, AppendedTo
    <3> USE DEF u
    <3>6. outcome[c] = <<>> => ToSet(outcome[c]) = {}
      BY DEF ToSet
    <3> HIDE DEF o
    <3>7. LedgerSays(c, t)'
      BY <2>2, <3>1, <3>2, <3>4, <3>6 DEF LedgerSays
    <3>8. Explained(c, t)'
      BY <3>2, <3>5 DEF Explained
    <3> QED
      BY <3>7, <3>8
  <2>10. Reconciled(c) \notin todo'
    BY <2>2
  <2> QED
    BY <2>7, <2>8, <2>9, <2>10 DEF Truth, Result, Reconciled
<1> QED
  BY <1>1, <1>6, <1>7

(* A dispatch goes on: its call was under way.                             *)
LEMMA MemberTruth ==
    ASSUME Inv, Answers, NEW c \in Call, MemberStep(c)
    PROVE  Truth'
<1>0. /\ outcome \in [Call -> Seq(Outcomes)] /\ got \in [Call -> {"none", "succeeded", "failed"}]
      /\ member \in [Call -> Live \cup {"idle", "done", "cancelled", "failed"}]
      /\ member[c] = "outcome" => got[c] # "none"
  BY DEF Answers, TypeOK, Ledgers, Ledger
<1>1. /\ UNCHANGED <<results, pc, todo, budget>> /\ member[c] \in Live
      /\ \A d \in Call \ {c} : member'[d] = member[d] /\ (d \in intents' <=> d \in intents)
  BY <1>0 DEF MemberStep, AppendIntent, AppendDispatched, StartTool, FinishTool, AppendOutcome,
         Raise, StopTool, AppendCancelled, Move, session, ledger, batch, Live
<1>2. outcome' = outcome \/ \E s \in Outcomes : outcome' = [outcome EXCEPT ![c] = Append(@, s)]
  <2>1. CASE AppendOutcome(c)
    <3>1. got[c] \in Outcomes
      BY <1>0, <2>1 DEF AppendOutcome, Outcomes
    <3> QED
      BY <2>1, <3>1 DEF AppendOutcome
  <2>2. CASE AppendCancelled(c)
    BY <2>2 DEF AppendCancelled, Outcomes
  <2> QED
    BY <2>1, <2>2 DEF MemberStep, AppendIntent, AppendDispatched, StartTool, FinishTool, Raise,
                      StopTool, ledger
<1>3. \A d \in Call \ {c} : outcome'[d] = outcome[d]
  BY <1>0, <1>2
<1>4. ToSet(outcome[c]) \subseteq ToSet(outcome'[c]) /\ (outcome[c] # <<>> => outcome'[c] # <<>>)
  <2>1. ASSUME NEW s \in Outcomes, outcome' = [outcome EXCEPT ![c] = Append(@, s)]
        PROVE  ToSet(outcome[c]) \subseteq ToSet(outcome'[c]) /\ outcome'[c] # <<>>
    <3> DEFINE o == Append(outcome[c], s)
    <3>1. outcome'[c] = o
      BY <1>0, <2>1
    <3>2. outcome[c] \in Seq(Outcomes) /\ s \in Outcomes
      BY <1>0
    <3>3. ToSet(o) = ToSet(outcome[c]) \cup {s}
      <4>1. ToSet(Append(outcome[c], s)) = ToSet(outcome[c]) \cup {s}
        BY <3>2, AppendedSet
      <4> QED
        BY <4>1
    <3>4. o # <<>>
      BY <3>2, AppendedTo
    <3> HIDE DEF o
    <3> QED
      BY <3>1, <3>3, <3>4
  <2> QED
    BY <1>2, <2>1
<1>5. Steady(c)
  BY <1>1, <1>4 DEF Steady, Live
<1>6. \A d \in Call \ {c} : Steady(d)
  BY <1>1, <1>3, SteadyWhen
<1> QED
  BY <1>1, <1>5, <1>6, QuietTruth

LEMMA TruthKept ==
    ASSUME Inv, Answers, Next
    PROVE  Truth'
<1>1. CASE AppendFact
  <2>1. /\ pc \in {"recording", "finalizing", "recovering"} /\ todo # {} /\ Commit
        /\ UNCHANGED <<intents, member, budget>>
    BY <1>1 DEF AppendFact, tools
  <2> QED
    BY <1>1, <2>1, CommitTruth
<1>2. CASE OwnerStep
  BY <1>1, <1>2, LoopTruth, RefuseTruth, GroupTruth, FinalTruth, DispatchTruth
<1>3. CASE Cancel
  <2>1. CASE pc = "recording" /\ todo # {} /\ Commit /\ pc' = "reading"
    <3>1. UNCHANGED <<intents, member>> /\ budget' = [budget EXCEPT !.cancels = @ + 1]
      BY <1>3 DEF Cancel
    <3>2. budget'.faults = budget.faults
      BY <3>1, Facts
    <3> QED
      BY <2>1, <3>1, <3>2, CommitTruth
  <2>2. CASE UNCHANGED <<results, outcome>>
    BY <1>3, <2>2, LoopTruth
  <2> QED
    BY <1>3, <2>1, <2>2 DEF Cancel, session
<1>4. CASE BeginRecovery \/ Fault \/ Crash \/ \E c \in Call : MemberStep(c)
  BY <1>4, RepairTruth, FaultTruth, LoopTruth, MemberTruth
<1> QED
  BY <1>2, <1>3, <1>4 DEF Next

-----------------------------------------------------------------------------
LEMMA AnswersInit == Init => Answers
<1> SUFFICES ASSUME Init PROVE Answers
  OBVIOUS
<1>1. TypeOK
  <2>1. N \in Nat \ {0} /\ MaxCancels \in Nat /\ MaxFaults \in Nat /\ MaxCrashes \in Nat
    BY ToolBatchAssumption
  <2>2. /\ calls = 0 /\ 0 \in 0 .. N /\ 1 \in 1 .. N + 1
        /\ 0 \in 0 .. MaxCancels /\ 0 \in 0 .. MaxFaults /\ 0 \in 0 .. MaxCrashes
    BY <2>1 DEF Init
  <2>3. /\ results \in Seq(Call \X Statuses) /\ outcome \in [Call -> Seq(Outcomes)]
    BY DEF Init
  <2> QED
    BY <2>2, <2>3 DEF Init, TypeOK, Owner
<1>2. Ledgers
  <2> SUFFICES ASSUME NEW c \in Call PROVE Ledger(c)
    BY DEF Ledgers
  <2>1. /\ c \notin intents /\ member[c] = "idle" /\ verdict[c] = "none" /\ outcome[c] = <<>>
    BY DEF Init
  <2>2. ToSet(outcome[c]) = {}
    BY <2>1 DEF ToSet
  <2> QED
    BY <2>1, <2>2 DEF Ledger, Live
<1>3. DOMAIN results = {} /\ Answered = {} /\ ToSet(results) = {}
  BY DEF Init, Answered, ToSet
<1>4. Order
  <2>1. {} = 1 .. 0 /\ 0 \in 0 .. calls
    BY DEF Init
  <2>2. InOrder(0)
    BY <1>3, <2>1 DEF InOrder, Init, Forward, Early
  <2> QED
    BY <1>3, <2>1, <2>2 DEF Order, Sorted, Init
<1>5. Truth
  BY <1>3 DEF Truth, Init
<1> QED
  BY <1>1, <1>2, <1>4, <1>5 DEF Answers

LEMMA TypeKept ==
    ASSUME Inv, Inv', Answers, Next
    PROVE  TypeOK'
<1>1. Rest'
  BY OwnerTyped, RecoveryTyped, TroubleTyped, MemberTyped DEF Next
<1> QED
  BY <1>1, TypeIs

LEMMA AnswersKept == Inv /\ Inv' /\ Answers /\ [Next]_vars => Answers'
<1> SUFFICES ASSUME Inv, Inv', Answers, [Next]_vars PROVE Answers'
  OBVIOUS
<1>1. CASE Next
  BY <1>1, TypeKept, LedgersKept, OrderKept, TruthKept DEF Answers
<1>2. CASE UNCHANGED vars
  <2>1. UNCHANGED <<calls, admitted, results, intents, dispatched, outcome, pc, verdict, index,
                    group, pending, todo, recorded, member, got, hit, started, budget>>
    BY <1>2 DEF vars, session, ledger, batch, tools
  <2>2. TypeOK'
    BY <2>1 DEF Answers, TypeOK
  <2>3. Ledgers'
    BY <2>1 DEF Answers, Ledgers, Ledger
  <2>4. Order'
    <3>1. PICK k \in 0 .. calls : InOrder(k)
      BY DEF Answers, Order
    <3>2. InOrder(k)'
      BY <2>1, <3>1 DEF InOrder, Due, Answered
    <3>3. calls \in Nat
      BY Facts
    <3> QED
      BY <2>1, <3>2, <3>3, QuietOrder DEF Answers, Order
  <2>5. Truth'
    BY <2>1 DEF Answers, Truth, LedgerSays, Explained
  <2> QED
    BY <2>2, <2>3, <2>4, <2>5 DEF Answers
<1> QED
  BY <1>1, <1>2

(* execute_batch(), _finalize_cancelled_batch() and recover() answer the   *)
(* calls in their order and without a gap, each once unless a cancellation *)
(* interrupts its append, and say of a call what the ledger says then and  *)
(* ever after.                                                             *)
THEOREM AnswersHold == Spec => []Answers
<1>1. Init => Answers
  BY AnswersInit
<1>2. Inv /\ Inv' /\ Answers /\ [Next]_vars => Answers'
  BY AnswersKept
<1> QED
  BY <1>1, <1>2, InvHolds, PTL DEF Spec

(* The facts of both streams and the state of execute_batch() keep their   *)
(* shapes, and the ledger dispatches no call without its intent.           *)
THEOREM TypeHolds == Spec => []TypeOK
<1>1. Answers => TypeOK
  BY DEF Answers
<1> QED
  BY <1>1, AnswersHold, PTL

(* No call stays unanswered when execute_batch() has returned, when its    *)
(* cancellation was finalized over a working store, or after recover(),    *)
(* and what is answered is what the ledger says.                           *)
THEOREM EveryCallHolds == Spec => []EveryCallAnswered
<1>1. ASSUME Inv, Answers PROVE EveryCallAnswered
  <2>0. /\ TypeOK /\ Order /\ Truth /\ Ledgers /\ Call = 1 .. N
        /\ results \in Seq(Call \X Statuses)
    BY <1>1, Facts DEF Answers, TypeOK
  <2>1. PICK k \in 0 .. calls : InOrder(k)
    BY <2>0 DEF Order
  <2>2. ASSUME NEW i \in DOMAIN results
        PROVE  /\ results[i][1] \in Call /\ results[i][2] \in Statuses
               /\ results[i] = <<results[i][1], results[i][2]>>
               /\ LedgerSays(results[i][1], results[i][2])
               /\ Explained(results[i][1], results[i][2])
    <3>1. results[i] \in Call \X Statuses
      BY <2>0
    <3>2. PICK c \in Call, s \in Statuses : results[i] = <<c, s>>
      BY <3>1
    <3>3. <<c, s>> \in ToSet(results)
      BY <3>2 DEF ToSet
    <3>4. LedgerSays(c, s) /\ Explained(c, s)
      BY <2>0, <3>3 DEF Truth
    <3>5. results[i][1] = c /\ results[i][2] = s
      BY <3>2
    <3> QED
      BY <3>2, <3>4, <3>5
  <2>3. \A i \in DOMAIN results :
           LET c == results[i][1]  s == results[i][2] IN
              /\ s \in {"succeeded", "failed", "cancelled"} => s \in ToSet(outcome[c])
              /\ s = "denied" => c \notin intents
              /\ c \notin Reads => ToSet(outcome[c]) \subseteq {s}
    BY <2>2 DEF LedgerSays
  <2>4. pc \in {"returned", "cancelled"} /\ budget.faults = 0 => Answered = Call
    BY <2>0, <2>1 DEF InOrder
  <2>5. pc = "recovered" => Answered = 1 .. calls
    BY <2>1 DEF InOrder
  <2>6. ASSUME pc = "recovered", NEW c \in intents, outcome[c] = <<>>,
               c \notin Reads \/ budget.faults = 0
        PROVE  \E i \in DOMAIN results : results[i] = <<c, "aborted_before_dispatch">>
    <3>1. c \in Call /\ calls = N
      BY <2>0, <2>6 DEF Ledgers, Ledger, TypeOK
    <3>2. PICK i \in DOMAIN results : results[i][1] = c
      BY <2>0, <2>5, <2>6, <3>1 DEF Answered
    <3>3. PICK s \in Statuses : s = results[i][2] /\ results[i] = <<c, s>>
      BY <2>2, <3>2
    <3>4. LedgerSays(c, s) /\ Explained(c, s)
      BY <2>2, <3>2, <3>3
    <3>5. ToSet(outcome[c]) = {}
      BY <2>6 DEF ToSet
    <3>6. s \notin {"succeeded", "failed", "cancelled"}
      BY <3>4, <3>5 DEF LedgerSays
    <3>7. s # "denied"
      BY <2>6, <3>4 DEF LedgerSays
    <3>8. s # "unknown_after_crash"
      BY <2>6, <3>4 DEF Explained
    <3>9. s = "aborted_before_dispatch"
      BY <3>6, <3>7, <3>8 DEF Statuses, Outcomes
    <3> QED
      BY <3>3, <3>9
  <2> QED
    BY <2>0, <2>3, <2>4, <2>5, <2>6 DEF EveryCallAnswered, Order, Sorted
<1> QED
  BY <1>1, InvHolds, AnswersHold, PTL
=============================================================================
