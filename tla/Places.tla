------------------------------- MODULE Places -------------------------------
(***************************************************************************)
(* Lists in an order: what orderBy, sort and the order of a Map give. An   *)
(* order is a set of pairs, the first of which comes before the second.    *)
(***************************************************************************)
EXTENDS Naturals, FiniteSets, Sequences

Before(members, order, u) == {v \in members : <<v, u>> \in order}

(* Members by their place: i - 1 of them are before the i-th.              *)
InOrder(members, order) ==
    [i \in 1..Cardinality(members) |->
        CHOOSE u \in members : Cardinality(Before(members, order, u)) = i - 1]

(* take *)
First(seq, n) == SubSeq(seq, 1, IF n < Len(seq) THEN n ELSE Len(seq))

(* What a sequence has at some of its positions.                           *)
Smaller(positions) == {p \in positions \X positions : p[1] < p[2]}
Pick(seq, positions) ==
    LET at == InOrder(positions, Smaller(positions))
    IN  [i \in DOMAIN at |-> seq[at[i]]]
=============================================================================
