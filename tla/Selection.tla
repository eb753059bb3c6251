----------------------------- MODULE Selection ------------------------------
(***************************************************************************)
(* The weighted draw of src/src/selection.rs: weighted_random copies the   *)
(* weights into a pool and, up to the requested count, rolls a number      *)
(* below the sum of the pool, walks the pool to the slot the roll falls    *)
(* in, takes it and clears it.  The seeded generator is a free choice of   *)
(* each roll.                                                              *)
(***************************************************************************)
EXTENDS Integers, SequencesExt, FiniteSetsExt, WeightedDraw

CONSTANTS MaxCandidates,  \* bound on the candidates
          Weight,         \* weights an ad can have (an i32 column)
          MaxCount        \* bound on the requested count

ASSUME SelectionAssumption ==
    MaxCandidates \in Nat /\ MaxCount \in Nat /\ Weight \subseteq Int

VARIABLES candidates,  \* their weights, in the order of the snapshot
          count,       \* ads asked for
          pool,        \* the weights left
          picks,       \* candidates drawn, in order
          done         \* weighted_random has returned

drawVars == <<candidates, count, pool, picks, done>>

\* weight.max(0)
InitialPool(c) == [i \in DOMAIN c |-> IF c[i] > 0 THEN c[i] ELSE 0]

SelectionInit ==
    /\ candidates \in UNION {[1..n -> Weight] : n \in 0..MaxCandidates}
    /\ count \in 0..MaxCount
    /\ pool = InitialPool(candidates)
    /\ picks = <<>>
    /\ done = FALSE

-----------------------------------------------------------------------------

Target == IF count < Len(candidates) THEN count ELSE Len(candidates)

\* The sum of the pool up to each slot.
Sums ==
    LET upto[i \in 0..Len(pool)] == IF i = 0 THEN 0 ELSE upto[i - 1] + pool[i]
    IN  upto

Total == Sums[Len(pool)]

\* What the walk has taken off the roll when it comes to slot i.
Before(i) == Sums[i - 1]

\* Mutant: the walk stops a slot early when the roll is the slot's weight.
HitsAtMost(roll) == {i \in DOMAIN pool : pool[i] # 0 /\ roll - Before(i) =< pool[i]}

\* Slots at which the walk would stop; it stops at the first.
Hits(roll) == {i \in DOMAIN pool : pool[i] # 0 /\ roll - Before(i) < pool[i]}

\* Mutant: the drawn slot keeps its weight.
DrawWithReplacement ==
    /\ ~done /\ Len(picks) < Target /\ Total > 0
    /\ \E roll \in 0..(Total - 1) :
        IF Hits(roll) = {} THEN done' = TRUE /\ UNCHANGED <<pool, picks>>
        ELSE /\ picks' = Append(picks, Min(Hits(roll)))
             /\ UNCHANGED <<done, pool>>
    /\ UNCHANGED <<candidates, count>>

\* One turn of the loop.  A roll that falls in no slot would end it.
Draw ==
    /\ ~done /\ Len(picks) < Target /\ Total > 0
    /\ \E roll \in 0..(Total - 1) :
        IF Hits(roll) = {} THEN done' = TRUE /\ UNCHANGED <<pool, picks>>
        ELSE LET i == Min(Hits(roll)) IN
             /\ picks' = Append(picks, i)
             /\ pool' = [pool EXCEPT ![i] = 0]
             /\ UNCHANGED done
    /\ UNCHANGED <<candidates, count>>

\* Nothing to draw from, nothing asked for, enough drawn or the pool exhausted.
Return ==
    /\ ~done
    /\ Len(picks) = Target \/ Total =< 0
    /\ done' = TRUE
    /\ UNCHANGED <<candidates, count, pool, picks>>

SelectionNext == Draw \/ Return

SelectionSpec == SelectionInit /\ [][SelectionNext]_drawVars

-----------------------------------------------------------------------------
(* Properties.                                                             *)

\* Every turn of the loop draws what is left in proportion to the weights: of
\* the equally likely rolls, as many lead to a candidate as its weight says, none
\* to one already drawn or of no weight, and none is wasted.
RollsProportional ==
    \A i \in DOMAIN candidates :
        Cardinality({roll \in 0..(Total - 1) : Hits(roll) # {} /\ Min(Hits(roll)) = i})
          = IF \E k \in DOMAIN picks : picks[k] = i THEN 0
            ELSE IF candidates[i] > 0 THEN candidates[i] ELSE 0

\* What is returned is distinct, of positive weight and as many as there are, up
\* to the count: Decision relies on nothing else about the draw.
ReturnsADraw ==
    done => /\ ToSet(picks) \in Draws(candidates, count)
            /\ Len(picks) = Cardinality(ToSet(picks))

=============================================================================
