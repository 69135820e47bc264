----------------------------- MODULE Induction -----------------------------
(***************************************************************************)
(* Induction over data, in a form that takes sets and functions rather     *)
(* than operators: the least-number principle, induction over a set of     *)
(* numbers, and the existence of a function defined by recursion on an     *)
(* interval.                                                               *)
(***************************************************************************)
EXTENDS Integers, WellFoundedInduction, TLAPS

\* A set of natural numbers that is not empty has a least element.
LEMMA LeastNumber ==
    ASSUME NEW T, T \subseteq Nat, T # {}
    PROVE  \E x \in T : \A y \in T : x <= y
<1> DEFINE R == OpToRel(<, Nat)
<1>1. \A x, y \in Nat : y < x => <<y, x>> \in R
  BY DEF OpToRel
<1>2. IsWellFoundedOn(R, Nat)
  BY NatLessThanWellFounded
<1> HIDE DEF R
<1>3. PICK x \in T : \A y \in T : ~(<<y, x>> \in R)
  BY <1>2, WFMin
<1>4. \A y \in T : ~(y < x)
  BY <1>1, <1>3
<1> QED
  BY <1>4

\* A set that has 0, and with each number below N the next one, has all
\* numbers up to N.
LEMMA UpTo ==
    ASSUME NEW N \in Nat, NEW T, 0 \in T,
           \A n \in 0 .. N - 1 : n \in T => n + 1 \in T
    PROVE  \A n \in 0 .. N : n \in T
<1> DEFINE X == {n \in 0 .. N : n \notin T}
<1> SUFFICES ASSUME X # {} PROVE FALSE
  OBVIOUS
<1>1. X \subseteq Nat
  OBVIOUS
<1> HIDE DEF X
<1>2. PICK x \in X : \A y \in X : x <= y
  BY <1>1, LeastNumber
<1>3. x \in 0 .. N /\ x # 0 /\ x \notin T
  BY <1>2 DEF X
<1>4. x - 1 \in 0 .. N - 1 /\ x - 1 + 1 = x
  BY <1>3
<1>5. x - 1 \notin X
  BY <1>1, <1>2, <1>4
<1>6. x - 1 \in T
  BY <1>4, <1>5 DEF X
<1> QED
  BY <1>3, <1>4, <1>6

\* f is defined by recursion on 0 .. N: its first value is d, and G has for
\* each index the function that takes one value to the next.
Recurs(f, N, D, d, G) ==
    /\ f \in [0 .. N -> D]
    /\ f[0] = d
    /\ \A i \in 1 .. N : f[i] = G[i][f[i - 1]]

\* Recursion on an interval has a solution.
LEMMA Recursion ==
    ASSUME NEW N \in Nat, NEW D, NEW d \in D, NEW G \in [1 .. N -> [D -> D]]
    PROVE  \E f : Recurs(f, N, D, d, G)
<1> DEFINE Good(n, f) == f[0] = d /\ \A i \in 1 .. n : f[i] = G[i][f[i - 1]]
           T == {n \in 0 .. N : \E f \in [0 .. n -> D] : Good(n, f)}
<1>1. 0 \in T
  <2> DEFINE h == [i \in 0 .. 0 |-> d]
  <2>1. Good(0, h) /\ h \in [0 .. 0 -> D]
    OBVIOUS
  <2> HIDE DEF h
  <2>2. \E f \in [0 .. 0 -> D] : Good(0, f)
    BY <2>1
  <2> HIDE DEF Good
  <2> QED
    BY <2>2
<1>2. ASSUME NEW n \in 0 .. N - 1, n \in T PROVE n + 1 \in T
  <2>1. PICK f \in [0 .. n -> D] : Good(n, f)
    BY <1>2
  <2> DEFINE h == [i \in 0 .. n + 1 |-> IF i = n + 1 THEN G[n + 1][f[n]] ELSE f[i]]
  <2>2. G[n + 1][f[n]] \in D
    OBVIOUS
  <2>3. h \in [0 .. n + 1 -> D]
    BY <2>2
  <2>4. Good(n + 1, h)
    <3>1. h[0] = d
      BY <2>1
    <3>2. ASSUME NEW i \in 1 .. n + 1 PROVE h[i] = G[i][h[i - 1]]
      <4>1. CASE i = n + 1
        BY <4>1
      <4>2. CASE i \in 1 .. n
        BY <2>1, <4>2
      <4> QED
        BY <4>1, <4>2
    <3> HIDE DEF h
    <3> QED
      BY <3>1, <3>2
  <2> HIDE DEF h, Good
  <2>5. \E g \in [0 .. n + 1 -> D] : Good(n + 1, g)
    BY <2>3, <2>4
  <2>6. n + 1 \in 0 .. N
    OBVIOUS
  <2> QED
    BY <2>5, <2>6
<1>3. \A n \in 0 .. N : n \in T
  <2> HIDE DEF T
  <2> QED
    BY <1>1, <1>2, UpTo
<1>4. \E f \in [0 .. N -> D] : Good(N, f)
  <2> HIDE DEF Good
  <2> QED
    BY <1>3
<1> QED
  BY <1>4 DEF Recurs
=============================================================================
