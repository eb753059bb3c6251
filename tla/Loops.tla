------------------------------- MODULE Loops --------------------------------
(***************************************************************************)
(* Induction for the loops of the model.  A loop over a sequence is        *)
(* written as a recursive function of the number of turns taken; that such *)
(* a function exists, and that what holds at its start and is kept by its  *)
(* turns holds at its end, rests on the well-foundedness of < on Nat.      *)
(***************************************************************************)
EXTENDS Integers, TLAPS, WellFoundedInduction

(* A set of naturals that is not empty has a least element.                *)
LEMMA NatMin ==
  ASSUME NEW T, T \subseteq Nat, T # {}
  PROVE  \E x \in T : \A y \in T : x =< y
<1>1. PICK x \in T : \A y \in T : ~(<<y, x>> \in OpToRel(<, Nat))
  BY NatLessThanWellFounded, WFMin
<1>2. \A y \in T : ~(y < x)
  BY <1>1 DEF OpToRel
<1> QED
  BY <1>2

(* What holds of 0, and of k + 1 when it holds of k, holds up to n.         *)
LEMMA UpToInduction ==
  ASSUME NEW n \in Nat, NEW T, 0 \in T,
         \A k \in 0..n : k \in T /\ k < n => k + 1 \in T
  PROVE  0..n \subseteq T
<1> SUFFICES ASSUME ~(0..n \subseteq T) PROVE FALSE
  OBVIOUS
<1>1. (0..n) \ T \subseteq Nat /\ (0..n) \ T # {}
  OBVIOUS
<1>2. PICK x \in (0..n) \ T : \A y \in (0..n) \ T : x =< y
  BY <1>1, NatMin
<1>3. x # 0 /\ x - 1 \in 0..n /\ x - 1 < n
  BY <1>2
<1>4. x - 1 \in T
  BY <1>2, <1>3
<1> QED
  BY <1>2, <1>3, <1>4

(* f[k] is the value after k turns.                                        *)
Loop(f, start, turn, n) ==
    f[0] = start /\ \A k \in 1..n : f[k] = turn[k][f[k - 1]]

(* Every loop of n turns computes something.                               *)
LEMMA LoopExists ==
  ASSUME NEW S, NEW n \in Nat, NEW start \in S, NEW turn \in [1..n -> [S -> S]]
  PROVE  \E f \in [0..n -> S] : Loop(f, start, turn, n)
<1> DEFINE Upto(m) == \E f \in [0..m -> S] : Loop(f, start, turn, m)
           T == {m \in 0..n : Upto(m)}
<1>1. Upto(0)
  <2> DEFINE f == [k \in 0..0 |-> start]
  <2>1. f \in [0..0 -> S] /\ f[0] = start
    OBVIOUS
  <2>2. \A k \in 1..0 : f[k] = turn[k][f[k - 1]]
    OBVIOUS
  <2> QED
    BY <2>1, <2>2 DEF Loop
<1>2. ASSUME NEW m \in 0..n, m < n, Upto(m) PROVE Upto(m + 1)
  <2>1. PICK f \in [0..m -> S] :
           f[0] = start /\ \A k \in 1..m : f[k] = turn[k][f[k - 1]]
    BY <1>2 DEF Loop
  <2> DEFINE next == turn[m + 1][f[m]]
             g == [k \in 0..(m + 1) |-> IF k = m + 1 THEN next ELSE f[k]]
  <2>2. f[m] \in S /\ m + 1 \in 1..n /\ m \in Nat
    BY <1>2
  <2>3. next \in S
    BY <2>2
  <2>4. /\ g \in [0..(m + 1) -> S] /\ g[0] = start /\ g[m + 1] = next
        /\ \A k \in 0..m : g[k] = f[k]
    <3> HIDE DEF next
    <3> QED
      BY <2>1, <2>2, <2>3
  <2> HIDE DEF g
  <2>5. ASSUME NEW k \in 1..(m + 1) PROVE g[k] = turn[k][g[k - 1]]
    <3>1. CASE k = m + 1
      <4>1. k - 1 = m /\ m \in 0..m
        BY <2>2, <3>1
      <4> QED
        BY <2>4, <3>1, <4>1
    <3>2. CASE k \in 1..m
      <4>1. k - 1 \in 0..m /\ k \in 0..m
        BY <2>2, <3>2
      <4> QED
        BY <2>1, <2>4, <3>2, <4>1
    <3> QED
      BY <2>2, <3>1, <3>2
  <2> QED
    BY <2>4, <2>5 DEF Loop
<1>3. ASSUME NEW k \in 0..n, k \in T, k < n PROVE k + 1 \in T
  <2> HIDE DEF Upto
  <2>1. Upto(k + 1)
    BY <1>2, <1>3
  <2> QED
    BY <1>3, <2>1
<1>4. 0 \in T
  BY <1>1
<1> HIDE DEF T
<1>5. 0..n \subseteq T
  BY <1>3, <1>4, UpToInduction
<1>6. n \in T
  BY <1>5
<1> QED
  BY <1>6 DEF T

=============================================================================
