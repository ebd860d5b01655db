----------------------------- MODULE Recursion -----------------------------
(***************************************************************************)
(* Induction over the numbers, for what the models define by recursion:    *)
(* the library's induction theorems are over operators, these over sets    *)
(* and functions.                                                          *)
(***************************************************************************)
EXTENDS Integers, WellFoundedInduction, TLAPS

LEMMA LeastNumber ==
  ASSUME NEW T, T \subseteq Nat, T # {}
  PROVE  \E x \in T : \A y \in T : x <= y
  <1> DEFINE R == {ss \in Nat \X Nat : ss[1] < ss[2]}
  <1>1. IsWellFoundedOn(R, Nat)
    BY NatLessThanWellFounded DEF OpToRel
  <1>2. \A x, y \in Nat : x < y => <<x, y>> \in R
    OBVIOUS
  <1> HIDE DEF R
  <1>3. PICK x \in T : \A y \in T : ~ (<<y, x>> \in R)
    BY <1>1, WFMin
  <1>4. \A y \in T : ~(y < x)
    BY <1>2, <1>3
  <1>5. QED
    BY <1>4

LEMMA SetInduction ==
  ASSUME NEW T, 0 \in T, \A n \in Nat : n \in T => n + 1 \in T
  PROVE  Nat \subseteq T
  <1> SUFFICES ASSUME NEW m \in Nat \ T PROVE FALSE
    OBVIOUS
  <1>1. PICK x \in Nat \ T : \A y \in Nat \ T : x <= y
    BY LeastNumber
  <1>2. x # 0 /\ x - 1 \in Nat
    BY <1>1
  <1>3. x - 1 \in T
    BY <1>1, <1>2
  <1>4. x - 1 + 1 \in T
    BY <1>2, <1>3
  <1>5. QED
    BY <1>1, <1>4

Iterates(f, a, h) == f[0] = a /\ \A n \in Nat : f[n + 1] = h[<<n, f[n]>>]

\* There is a function that iterates h from a: the values at n of functions
\* that do so as far as n.
LEMMA Recursion ==
  ASSUME NEW S, NEW a \in S, NEW h \in [Nat \X S -> S]
  PROVE  \E f \in [Nat -> S] : Iterates(f, a, h)
  <1> DEFINE Upto(f, n) == f[0] = a /\ \A i \in Nat : i < n => f[i + 1] = h[<<i, f[i]>>]
             Reached == {n \in Nat : \E f \in [Nat -> S] : Upto(f, n)}
             Agreed  == {n \in Nat : \A f, g \in [Nat -> S], m \in Nat :
                                       Upto(f, m) /\ Upto(g, m) /\ n <= m => f[n] = g[n]}
  <1>1. 0 \in Reached
    <2> DEFINE f == [i \in Nat |-> a]
    <2>1. f \in [Nat -> S] /\ Upto(f, 0)
      OBVIOUS
    <2>2. QED
      BY <2>1
  <1>2. ASSUME NEW n \in Nat, n \in Reached PROVE n + 1 \in Reached
    <2>1. PICK f \in [Nat -> S] : Upto(f, n)
      BY <1>2
    <2> DEFINE g == [f EXCEPT ![n + 1] = h[<<n, f[n]>>]]
    <2>2. g \in [Nat -> S] /\ Upto(g, n + 1)
      BY <2>1
    <2> HIDE DEF g, Upto
    <2>3. QED
      BY <2>2
  <1>3. \A n \in Nat : \E f \in [Nat -> S] : Upto(f, n)
    <2> HIDE DEF Upto
    <2>1. Nat \subseteq Reached
      <3> HIDE DEF Reached
      <3>1. QED
        BY <1>1, <1>2, SetInduction
    <2>2. QED
      BY <2>1
  <1>4. 0 \in Agreed
    OBVIOUS
  <1>5. ASSUME NEW n \in Nat, n \in Agreed PROVE n + 1 \in Agreed
    <2> SUFFICES ASSUME NEW f \in [Nat -> S], NEW g \in [Nat -> S], NEW m \in Nat,
                        Upto(f, m), Upto(g, m), n + 1 <= m
                 PROVE  f[n + 1] = g[n + 1]
      OBVIOUS
    <2>1. f[n] = g[n]
      BY <1>5
    <2>2. n < m /\ f[n + 1] = h[<<n, f[n]>>] /\ g[n + 1] = h[<<n, g[n]>>]
      OBVIOUS
    <2>3. QED
      BY <2>1, <2>2
  <1>6. \A n \in Nat : n \in Agreed
    <2> HIDE DEF Agreed
    <2>1. Nat \subseteq Agreed
      BY <1>4, <1>5, SetInduction
    <2>2. QED
      BY <2>1
  <1> DEFINE part  == [n \in Nat |-> CHOOSE f \in [Nat -> S] : Upto(f, n)]
             whole == [n \in Nat |-> part[n][n]]
  <1>7. \A n \in Nat : part[n] \in [Nat -> S] /\ Upto(part[n], n)
    <2> HIDE DEF Upto
    <2>1. QED
      BY <1>3
  <1>8. whole \in [Nat -> S]
    <2> HIDE DEF Upto, part
    <2>1. QED
      BY <1>7
  <1>9. whole[0] = a
    BY <1>7
  <1>10. ASSUME NEW n \in Nat PROVE whole[n + 1] = h[<<n, whole[n]>>]
    <2> HIDE DEF part
    <2>1. Upto(part[n + 1], n + 1) /\ Upto(part[n], n)
      BY <1>7
    <2>2. Upto(part[n + 1], n)
      BY <2>1
    <2>3. part[n + 1][n] = part[n][n]
      <3> HIDE DEF Upto
      <3>1. QED
        BY <1>6, <1>7, <2>1, <2>2
    <2>4. QED
      BY <2>1, <2>3
  <1> HIDE DEF whole
  <1>11. Iterates(whole, a, h)
    BY <1>9, <1>10 DEF Iterates
  <1>12. QED
    BY <1>8, <1>11
=============================================================================
