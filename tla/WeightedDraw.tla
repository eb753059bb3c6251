---------------------------- MODULE WeightedDraw ----------------------------
(* What weighted_random (src/src/selection.rs) promises: up to n distinct  *)
(* candidates among those of positive weight, and all of these when there  *)
(* are no more than n.  The order of the draws is left out.                *)
EXTENDS Integers, FiniteSets

\* w: [candidate -> weight].  Zero and negative weights are never drawn.
Positive(w) == {c \in DOMAIN w : w[c] > 0}

Draws(w, n) ==
    {D \in SUBSET Positive(w) :
        IF n < Cardinality(Positive(w)) THEN Cardinality(D) = n ELSE D = Positive(w)}

=============================================================================
