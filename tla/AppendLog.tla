------------------------------ MODULE AppendLog ------------------------------
(***************************************************************************)
(* What an event store promises: per stream, a log to which a call adds    *)
(* all its events at once at the end, and no call adds events twice.       *)
(***************************************************************************)
EXTENDS Naturals, Sequences

CONSTANTS Streams, Ids, BatchSizes

VARIABLE log   \* for each stream, the call that wrote each event

Wrote(id) == \E st \in Streams : \E i \in 1 .. Len(log[st]) : log[st][i] = id

Init == log = [st \in Streams |-> <<>>]

AppendBatch(st, id, n) ==
    /\ ~Wrote(id)
    /\ log' = [log EXCEPT ![st] = @ \o [i \in 1 .. n |-> id]]

Next == \E st \in Streams, id \in Ids, n \in BatchSizes : AppendBatch(st, id, n)

Spec == Init /\ [][Next]_log
=============================================================================
