-------------------------- MODULE RecursionProofs --------------------------
(***************************************************************************)
(* Induction and recursion.  The induction theorems of the library take an *)
(* operator as a parameter; here both are stated with sets and functions,  *)
(* and derived from the least number that a set of numbers has.            *)
(***************************************************************************)
EXTENDS Recursion, WellFoundedInduction, TLAPS

LEMMA LeastExists ==
  ASSUME NEW S \in SUBSET Nat, S # {}
  PROVE  \E x \in S : \A y \in S : x <= y
<1>1. PICK x \in S : \A y \in S : ~ (<<y, x>> \in OpToRel(<, Nat))
  BY NatLessThanWellFounded, WFMin
<1>2. ASSUME NEW y \in S PROVE x <= y
  <2>1. ~ (y < x)
    BY <1>1 DEF OpToRel
  <2> QED BY <2>1
<1> QED BY <1>2

LEMMA Induction ==
  ASSUME NEW S \in SUBSET Nat, 0 \in S, \A n \in S : n + 1 \in S
  PROVE  \A n \in Nat : n \in S
<1>1. SUFFICES ASSUME Nat \ S # {} PROVE FALSE
  OBVIOUS
<1>2. Nat \ S \in SUBSET Nat
  OBVIOUS
<1>3. PICK x \in Nat \ S : \A y \in Nat \ S : x <= y
  BY <1>1, <1>2, LeastExists
<1>4. x - 1 \in S
  BY <1>3
<1>5. x - 1 + 1 = x
  BY <1>3
<1> QED BY <1>3, <1>4, <1>5

\* What Iterate computes: f takes its values in A.
Iterates(f, F, c, max, A) == /\ \A n \in 0 .. max : f[n] \in A
                             /\ f[0] = c
                             /\ \A n \in 1 .. max : f[n] = F[f[n - 1]]

LEMMA Iteration ==
  ASSUME NEW A, NEW c \in A, NEW F \in [A -> A], NEW max \in Nat
  PROVE  Iterates(Iterate(F, c, max), F, c, max, A)
<1> DEFINE Def(f, n) == f = [k \in 0 .. n |-> IF k = 0 THEN c ELSE F[f[k - 1]]]
           S == {n \in Nat : \E f \in [0 .. n -> A] : Def(f, n)}
<1>1. 0 \in S
  <2> DEFINE f == [k \in 0 .. 0 |-> c]
  <2>1. f \in [0 .. 0 -> A] /\ Def(f, 0)
    OBVIOUS
  <2> QED BY <2>1
<1>2. ASSUME NEW n \in S PROVE n + 1 \in S
  <2>1. PICK f \in [0 .. n -> A] : Def(f, n)
    OBVIOUS
  <2> DEFINE g == [k \in 0 .. n + 1 |-> IF k = 0 THEN c ELSE F[f[k - 1]]]
  <2>2. n \in Nat /\ \A k \in 1 .. n + 1 : k - 1 \in 0 .. n
    OBVIOUS
  <2>3. g \in [0 .. n + 1 -> A]
    BY <2>2
  <2>4. \A k \in 0 .. n : f[k] = IF k = 0 THEN c ELSE F[f[k - 1]]
    BY <2>1
  <2>5. \A k \in 0 .. n : g[k] = f[k]
    BY <2>2, <2>4
  <2>6. \A k \in 0 .. n + 1 : g[k] = IF k = 0 THEN c ELSE F[f[k - 1]]
    OBVIOUS
  <2>7. g = [k \in 0 .. n + 1 |-> g[k]]
    OBVIOUS
  <2> HIDE DEF g
  <2>8. \A k \in 0 .. n + 1 : k # 0 => g[k - 1] = f[k - 1]
    BY <2>2, <2>5
  <2>9. \A k \in 0 .. n + 1 : g[k] = IF k = 0 THEN c ELSE F[g[k - 1]]
    BY <2>6, <2>8
  <2>10. Def(g, n + 1)
    BY <2>7, <2>9
  <2> QED BY <2>2, <2>3, <2>10
<1>3. max \in S
  <2> HIDE DEF S
  <2>1. S \in SUBSET Nat
    BY DEF S
  <2> QED BY <1>1, <1>2, <2>1, Induction
<1> DEFINE f == Iterate(F, c, max)
<1>4. Def(f, max)
  <2>1. \E g : Def(g, max)
    BY <1>3
  <2>2. Def((CHOOSE g : Def(g, max)), max)
    BY <2>1
  <2> QED BY <2>2 DEF Iterate
<1> HIDE DEF f
<1>5. \A n \in 0 .. max : f[n] = IF n = 0 THEN c ELSE F[f[n - 1]]
  BY <1>4
<1> HIDE DEF Def
<1>6. f[0] = c /\ \A n \in 1 .. max : f[n] = F[f[n - 1]]
  BY <1>5
<1>7. \A n \in 0 .. max : f[n] \in A
  <2> DEFINE U == {n \in Nat : n <= max => f[n] \in A}
  <2>1. 0 \in U
    BY <1>6
  <2>2. ASSUME NEW n \in U, n + 1 <= max PROVE f[n + 1] \in A
    <3>1. n \in Nat /\ n <= max /\ f[n] \in A
      BY <2>2
    <3>2. n + 1 \in 1 .. max /\ n + 1 - 1 = n
      BY <3>1, <2>2
    <3>3. f[n + 1] = F[f[n]]
      BY <3>2, <1>6
    <3> QED BY <3>1, <3>3
  <2>3. \A n \in U : n + 1 \in U
    BY <2>2
  <2>4. U \in SUBSET Nat
    OBVIOUS
  <2> HIDE DEF U
  <2>5. \A n \in Nat : n \in U
    BY <2>1, <2>3, <2>4, Induction
  <2> QED BY <2>5 DEF U
<1> QED BY <1>6, <1>7 DEF f, Iterates
=============================================================================
