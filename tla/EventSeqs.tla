------------------------------ MODULE EventSeqs ------------------------------
(* Sequences of events, oldest first, as the event store keeps them         *)
(* (src/src/tailora/core/store.py), and the operators every module that     *)
(* reads or writes the store shares.                                        *)
EXTENDS Integers, Sequences

Minimum(a, b) == IF a <= b THEN a ELSE b

\* The ids of the events of a sequence.
IdsOf(s) == {s[i].request_id : i \in DOMAIN s}

\* The n newest events of a sequence whose newest event is the last one.
Newest(s, n) ==
    IF Len(s) <= n THEN s ELSE SubSeq(s, Len(s) - n + 1, Len(s))

\* tuple(reversed(events))[:n]: newest first, at most n of them.
LatestFirst(s, n) == [i \in 1..Minimum(n, Len(s)) |-> s[Len(s) - i + 1]]

\* The events of a sequence have pairwise different request ids.
DistinctIds(s) ==
    \A i, j \in DOMAIN s : s[i].request_id = s[j].request_id => i = j
=============================================================================
