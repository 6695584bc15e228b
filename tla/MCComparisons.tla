--------------------------- MODULE MCComparisons ---------------------------
(* Small instances of Comparisons for TLC. *)
EXTENDS Comparisons

Body(g, comparator, threshold, payout) ==
    [group |-> g, comparator |-> comparator, threshold |-> threshold, payout |-> payout]

(* Equal thresholds of both strictnesses, a higher one, the other side of  *)
(* the line, and a second observation.                                     *)
GT2 == Body(1, "GT", 2, "yes")
GTE2 == Body(1, "GTE", 2, "yes")
GTE4 == Body(1, "GTE", 4, "no")
LTE2 == Body(1, "LTE", 2, "foreign")
Elsewhere == Body(2, "LT", 2, "amount")

SomeBodies == {GT2, GTE2, GTE4, LTE2, Elsewhere}

(* A chain out of the order of its contracts; the second group and the     *)
(* other side of the line come with the changes.                           *)
SomeInitial == {<<GTE2, GTE4, GT2>>}

SomeValues == 1..5
=============================================================================
