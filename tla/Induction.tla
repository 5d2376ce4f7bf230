------------------------------- MODULE Induction -------------------------------
(***************************************************************************)
(* Induction and recursion over the naturals, for sets and functions: what *)
(* holds of a number is a set of numbers, what a definition does in a step *)
(* is a function, so that a proof can use both without an operator as a    *)
(* parameter.  They rest on the well-foundedness of < on Nat.              *)
(***************************************************************************)
EXTENDS WellFoundedInduction, TLAPS

(* A set of numbers that is not empty has a least one.                     *)
LEMMA LeastNumber ==
  ASSUME NEW T, T \subseteq Nat, T # {}
  PROVE  \E m \in T : \A k \in T : m <= k
<1> DEFINE R == {ss \in Nat \X Nat : ss[1] < ss[2]}
<1>1. IsWellFoundedOn(R, Nat)
  BY NatLessThanWellFounded DEF OpToRel
<1>2. PICK m \in T : \A k \in T : ~(<<k, m>> \in R)
  <2> HIDE DEF R
  <2> QED BY <1>1, WFMin
<1>3. ASSUME NEW k \in T PROVE m <= k
  <2>1. ~(<<k, m>> \in R)
    BY <1>2
  <2> QED BY <2>1
<1> QED BY <1>3

(* A set that has 0, and with a number the next, has them all.             *)
LEMMA Induction ==
  ASSUME NEW P, 0 \in P, \A n \in Nat : n \in P => n + 1 \in P
  PROVE  Nat \subseteq P
<1> DEFINE T == Nat \ P
<1> SUFFICES ASSUME T # {} PROVE FALSE
  OBVIOUS
<1>1. PICK m \in T : \A k \in T : m <= k
  <2>1. T \subseteq Nat
    OBVIOUS
  <2> HIDE DEF T
  <2> QED BY <2>1, LeastNumber
<1>2. m # 0 /\ m - 1 \in Nat /\ ~(m <= m - 1)
  OBVIOUS
<1>3. m - 1 \in P
  BY <1>1, <1>2
<1>4. (m - 1) + 1 \in P
  BY <1>2, <1>3
<1> QED BY <1>4

\* f begins with a first value and goes on by a step.
Iterates(f, S, first, step) ==
  f \in [Nat -> S] /\ f[0] = first /\ \A n \in Nat : f[n + 1] = step[n][f[n]]

(* A first value and a step from one value to the next are a function.     *)
LEMMA Recursion ==
  ASSUME NEW S, NEW first \in S, NEW step \in [Nat -> [S -> S]]
  PROVE  \E f : Iterates(f, S, first, step)
<1> DEFINE Upto(n) == {g \in [0..n -> S] :
                        g[0] = first /\ \A k \in 0..n - 1 : g[k + 1] = step[k][g[k]]}
<1>1. \A n \in Nat : Upto(n) # {}
  <2> DEFINE P == {n \in Nat : Upto(n) # {}}
  <2>1. 0 \in P
    <3>1. [k \in 0..0 |-> first] \in Upto(0)
      OBVIOUS
    <3> QED BY <3>1
  <2>2. ASSUME NEW n \in Nat, n \in P PROVE n + 1 \in P
    <3>1. PICK g : g \in Upto(n)
      BY <2>2
    <3> DEFINE h == [k \in 0..n + 1 |-> IF k = n + 1 THEN step[n][g[n]] ELSE g[k]]
    <3>2. g \in [0..n -> S] /\ g[0] = first
          /\ \A k \in 0..n - 1 : g[k + 1] = step[k][g[k]]
      BY <3>1
    <3>3. step[n][g[n]] \in S
      BY <3>2
    <3>4. h \in [0..n + 1 -> S] /\ h[0] = first
      BY <3>2, <3>3
    <3>5. ASSUME NEW k \in 0..(n + 1) - 1 PROVE h[k + 1] = step[k][h[k]]
      <4>1. CASE k = n
        BY <4>1
      <4>2. CASE k # n
        <5>1. k \in 0..n - 1 /\ k + 1 \in 0..n /\ k + 1 # n + 1 /\ k # n + 1
          BY <4>2
        <5>2. h[k + 1] = g[k + 1] /\ h[k] = g[k]
          BY <5>1
        <5> QED BY <3>2, <5>1, <5>2
      <4> QED BY <4>1, <4>2
    <3>6. h \in Upto(n + 1)
      BY <3>4, <3>5
    <3> HIDE DEF Upto, h
    <3> QED BY <3>6
  <2> HIDE DEF Upto
  <2>3. Nat \subseteq P
    <3> HIDE DEF P
    <3> QED BY <2>1, <2>2, Induction
  <2> QED BY <2>3
<1>2. \A k \in Nat : \A m, n \in Nat : \A g \in Upto(m), h \in Upto(n) :
         k <= m /\ k <= n => g[k] = h[k]
  <2> DEFINE P == {k \in Nat : \A m, n \in Nat : \A g \in Upto(m), h \in Upto(n) :
                                 k <= m /\ k <= n => g[k] = h[k]}
  <2>1. 0 \in P
    OBVIOUS
  <2>2. ASSUME NEW k \in Nat, k \in P PROVE k + 1 \in P
    <3> SUFFICES ASSUME NEW m \in Nat, NEW n \in Nat, NEW g \in Upto(m), NEW h \in Upto(n),
                        k + 1 <= m, k + 1 <= n
                 PROVE  g[k + 1] = h[k + 1]
      <4>1. k + 1 \in Nat
        OBVIOUS
      <4> HIDE DEF Upto
      <4> QED BY <4>1
    <3>1. g[k] = h[k]
      <4>1. k <= m /\ k <= n
        OBVIOUS
      <4> HIDE DEF Upto
      <4> QED BY <2>2, <4>1
    <3>2. g[k + 1] = step[k][g[k]] /\ h[k + 1] = step[k][h[k]]
      OBVIOUS
    <3> QED BY <3>1, <3>2
  <2>3. Nat \subseteq P
    <3> HIDE DEF P
    <3> QED BY <2>1, <2>2, Induction
  <2> QED BY <2>3
<1> DEFINE part(n) == CHOOSE g : g \in Upto(n)
           f == [n \in Nat |-> part(n)[n]]
<1>3. \A n \in Nat : part(n) \in Upto(n)
  <2> HIDE DEF Upto
  <2> QED BY <1>1
<1>4. \A n \in Nat : part(n) \in [0..n -> S] /\ part(n)[0] = first
        /\ \A k \in 0..n - 1 : part(n)[k + 1] = step[k][part(n)[k]]
  <2> HIDE DEF part
  <2> QED BY <1>3
<1> HIDE DEF part
<1>5. f \in [Nat -> S] /\ f[0] = first
  BY <1>4
<1>6. ASSUME NEW n \in Nat PROVE f[n + 1] = step[n][f[n]]
  <2>1. part(n + 1)[n + 1] = step[n][part(n + 1)[n]]
    BY <1>4
  <2>2. part(n + 1)[n] = part(n)[n]
    <3> HIDE DEF Upto
    <3>1. n + 1 \in Nat /\ n <= n + 1 /\ n <= n
      OBVIOUS
    <3> QED BY <1>2, <1>3, <3>1
  <2> QED BY <2>1, <2>2
<1>7. Iterates(f, S, first, step)
  <2> HIDE DEF f
  <2> QED BY <1>5, <1>6 DEF Iterates
<1> QED BY <1>7
================================================================================
