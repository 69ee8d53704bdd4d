-------------------------- MODULE IterationProofs --------------------------
(***************************************************************************)
(* Induction and recursion over 0 .. n without an operator parameter: the  *)
(* property is given as a set, the step of a recursion as a function.  The *)
(* loops of the indexer and of the cosigners are such recursions.          *)
(***************************************************************************)
EXTENDS Naturals, TLAPS, SequenceTheorems, WellFoundedInduction

(* Induction, for a property given as the set of numbers that have it.      *)
LEMMA InductTo ==
  ASSUME NEW n \in Nat, NEW P, 0 \in P, \A i \in 1 .. n : i - 1 \in P => i \in P
  PROVE  \A i \in 0 .. n : i \in P
<1> SUFFICES ASSUME NEW k \in 0 .. n, k \notin P PROVE FALSE
  OBVIOUS
<1> DEFINE Wrong == {i \in Nat : i \in 0 .. n /\ i \notin P}
<1>1. Wrong # {} /\ Wrong \subseteq Nat
  <2>1. k \in Nat
    OBVIOUS
  <2>2. k \in Wrong
    BY <2>1
  <2> QED BY <2>2
<1> HIDE DEF Wrong
<1>2. \E x \in Wrong : \A y \in Wrong : ~(<<y, x>> \in OpToRel(<, Nat))
  BY <1>1, NatLessThanWellFounded, WFMin, Zenon
<1>3. PICK x \in Wrong : \A y \in Wrong : ~(y < x)
  BY <1>1, <1>2 DEF OpToRel
<1>4. x \in 0 .. n /\ x \notin P /\ \A y \in 0 .. n : y < x => y \in P
  BY <1>3 DEF Wrong
<1>5. x \in 1 .. n
  BY <1>4
<1>6. x - 1 \in 0 .. n /\ x - 1 < x
  BY <1>5
<1> QED BY <1>4, <1>5, <1>6

(* A non-empty set of naturals has a least element. *)
LEMMA LeastExists ==
  ASSUME NEW S, S \subseteq Nat, S # {}
  PROVE  \E x \in S : \A y \in S : x <= y
<1>2. \E x \in S : \A y \in S : ~(<<y, x>> \in OpToRel(<, Nat))
  BY NatLessThanWellFounded, WFMin, Zenon
<1>3. PICK x \in S : \A y \in S : ~(y < x)
  BY <1>2 DEF OpToRel
<1> QED BY <1>3

(* A recursive definition that starts with v0 and applies step[i] at        *)
(* position i has a solution.                                               *)
Iterates(g, v0, n, step) == g[0] = v0 /\ \A i \in 1 .. n : g[i] = step[i][g[i - 1]]

LEMMA IterExists ==
  ASSUME NEW V, NEW v0 \in V, NEW n \in Nat, NEW step \in [1 .. n -> [V -> V]]
  PROVE  \E g \in [0 .. n -> V] : Iterates(g, v0, n, step)
<1> DEFINE P == {m \in 0 .. n : \E g \in [0 .. m -> V] : Iterates(g, v0, m, step)}
<1>1. 0 \in P
  <2>1. [i \in 0 .. 0 |-> v0] \in [0 .. 0 -> V]
    OBVIOUS
  <2>2. Iterates([i \in 0 .. 0 |-> v0], v0, 0, step)
    BY DEF Iterates
  <2> QED BY <2>1, <2>2
<1>2. ASSUME NEW m \in 1 .. n, m - 1 \in P
      PROVE  m \in P
  <2>1. PICK g \in [0 .. m - 1 -> V] : Iterates(g, v0, m - 1, step)
    BY <1>2
  <2>2. m - 1 \in 0 .. m - 1
    OBVIOUS
  <2>3. step[m][g[m - 1]] \in V
    BY <2>1, <2>2
  <2>4. PICK h : h = [i \in 0 .. m |-> IF i = m THEN step[m][g[m - 1]] ELSE g[i]]
    OBVIOUS
  <2>5. h \in [0 .. m -> V]
    <3>1. \A i \in 0 .. m : i # m => i \in 0 .. m - 1
      OBVIOUS
    <3> QED BY <2>3, <2>4, <3>1
  <2>6. Iterates(h, v0, m, step)
    <3>1. h[0] = v0
      BY <2>1, <2>4 DEF Iterates
    <3>2. ASSUME NEW i \in 1 .. m
          PROVE  h[i] = step[i][h[i - 1]]
      <4>0. i - 1 \in 0 .. m /\ i - 1 # m /\ i \in 0 .. m
        OBVIOUS
      <4>1. h[i - 1] = g[i - 1]
        BY <2>4, <4>0
      <4>2. CASE i = m
        BY <2>4, <4>0, <4>1, <4>2
      <4>3. CASE i # m
        <5>1. i \in 1 .. m - 1
          BY <4>3
        <5>2. h[i] = g[i] /\ g[i] = step[i][g[i - 1]]
          BY <2>1, <2>4, <4>0, <4>3, <5>1 DEF Iterates
        <5> QED BY <4>1, <5>2
      <4> QED BY <4>2, <4>3
    <3> QED BY <3>1, <3>2 DEF Iterates
  <2> QED BY <2>5, <2>6
<1> HIDE DEF P
<1>3. \A i \in 0 .. n : i \in P
  BY <1>1, <1>2, InductTo
<1>4. n \in P
  BY <1>3
<1> QED BY <1>4 DEF P
=============================================================================
