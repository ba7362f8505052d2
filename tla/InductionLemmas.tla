--------------------------- MODULE InductionLemmas ---------------------------
(***************************************************************************)
(* Induction and recursion over the natural numbers, stated with sets and  *)
(* functions in the place of predicates: what a proof by induction shows   *)
(* of n is that n is in a set.                                             *)
(***************************************************************************)
EXTENDS Integers, WellFoundedInduction, TLAPS

\* A set of numbers has a least one.
LEMMA LeastNat ==
    ASSUME NEW T \in SUBSET Nat, T # {}
    PROVE  \E x \in T : \A y \in T : x <= y
<1> DEFINE R == OpToRel(<, Nat)
<1>1. IsWellFoundedOn(R, Nat)
  BY NatLessThanWellFounded
<1>2. \A x, y \in Nat : y < x => <<y, x>> \in R
  BY DEF OpToRel
<1> HIDE DEF R
<1>3. PICK x \in T : \A y \in T : ~ (<<y, x>> \in R)
  BY <1>1, WFMin
<1>4. ASSUME NEW y \in T
      PROVE  x <= y
  <2>1. x \in Nat /\ y \in Nat /\ ~ (<<y, x>> \in R)
    BY <1>3
  <2>2. ~ (y < x)
    BY <1>2, <2>1
  <2> QED BY <2>1, <2>2
<1> QED BY <1>4

\* What contains 0 and, with a number, the next one, contains all.
LEMMA SetInduction ==
    ASSUME NEW T, 0 \in T, \A n \in Nat : n \in T => n + 1 \in T
    PROVE  \A n \in Nat : n \in T
<1> SUFFICES ASSUME Nat \ T # {}
             PROVE  FALSE
  OBVIOUS
<1>1. PICK x \in Nat \ T : \A y \in Nat \ T : x <= y
  BY LeastNat
<1>2. x - 1 \in Nat /\ x - 1 \in T
  BY <1>1
<1> QED BY <1>1, <1>2

\* g is the function that step defines from base, as far as n.
DefinedBy(g, S, base, step, n) ==
    /\ g \in [0..n -> S]
    /\ g[0] = base
    /\ \A i \in 0..(n - 1) : g[i + 1] = step[<<i + 1, g[i]>>]

\* Two such functions agree as far as both go.
LEMMA RecursionUnique ==
    ASSUME NEW S, NEW base, NEW step, NEW m \in Nat, NEW n \in Nat,
           NEW g, DefinedBy(g, S, base, step, m), NEW h, DefinedBy(h, S, base, step, n)
    PROVE  \A i \in Nat : i <= m /\ i <= n => g[i] = h[i]
<1> DEFINE T == {i \in Nat : i <= m /\ i <= n => g[i] = h[i]}
<1>1. 0 \in T
  BY DEF DefinedBy
<1>2. ASSUME NEW i \in Nat, i \in T
      PROVE  i + 1 \in T
  <2> SUFFICES ASSUME i + 1 <= m, i + 1 <= n
               PROVE  g[i + 1] = h[i + 1]
    OBVIOUS
  <2>1. g[i] = h[i] /\ i \in 0..(m - 1) /\ i \in 0..(n - 1)
    BY <1>2
  <2> QED BY <2>1 DEF DefinedBy
<1>3. \A i \in Nat : i \in T
  <2> HIDE DEF T
  <2> QED BY <1>1, <1>2, SetInduction
<1> QED BY <1>3

\* step makes a value of S of every value of S.
Steps(step, S) == \A n \in Nat : \A x \in S : step[<<n, x>>] \in S

\* f is the function that step defines from base.
RecursiveFrom(f, S, base, step) ==
    /\ f \in [Nat -> S]
    /\ f[0] = base
    /\ \A n \in Nat : f[n + 1] = step[<<n + 1, f[n]>>]

\* There is such a function as far as any number, ...
LEMMA RecursionUpTo ==
    ASSUME NEW S, NEW base \in S, NEW step, Steps(step, S)
    PROVE  \A n \in Nat : \E g : DefinedBy(g, S, base, step, n)
<1> DEFINE T == {n \in Nat : \E g : DefinedBy(g, S, base, step, n)}
<1>1. 0 \in T
  <2> DEFINE g == [i \in 0..0 |-> base]
  <2>1. DefinedBy(g, S, base, step, 0)
    BY DEF DefinedBy
  <2> QED BY <2>1
<1>2. ASSUME NEW n \in Nat, n \in T
      PROVE  n + 1 \in T
  <2>1. PICK g : DefinedBy(g, S, base, step, n)
    BY <1>2
  <2> DEFINE h == [i \in 0..(n + 1) |-> IF i <= n THEN g[i] ELSE step[<<n + 1, g[n]>>]]
  <2>2. g \in [0..n -> S] /\ g[0] = base
        /\ \A i \in 0..(n - 1) : g[i + 1] = step[<<i + 1, g[i]>>]
    BY <2>1 DEF DefinedBy
  <2>3. step[<<n + 1, g[n]>>] \in S
    <3>1. g[n] \in S
      BY <2>2
    <3> QED BY <3>1 DEF Steps
  <2>4. h \in [0..(n + 1) -> S]
    BY <2>2, <2>3
  <2>5. h[0] = base
    BY <2>2
  <2>6. ASSUME NEW i \in 0..n
        PROVE  h[i + 1] = step[<<i + 1, h[i]>>]
    <3>1. CASE i < n
      BY <2>2, <3>1
    <3>2. CASE i = n
      <4>1. h[n] = g[n] /\ h[n + 1] = step[<<n + 1, g[n]>>]
        OBVIOUS
      <4> HIDE DEF h
      <4> QED BY <3>2, <4>1
    <3> QED BY <3>1, <3>2
  <2>7. DefinedBy(h, S, base, step, n + 1)
    <3> HIDE DEF h
    <3>1. \A i \in 0..(n + 1 - 1) : h[i + 1] = step[<<i + 1, h[i]>>]
      BY <2>6
    <3> QED BY <2>4, <2>5, <3>1 DEF DefinedBy
  <2> QED BY <2>7
<1>3. \A n \in Nat : n \in T
  <2> HIDE DEF T
  <2> QED BY <1>1, <1>2, SetInduction
<1> QED BY <1>3

\* ... and therefore one for all.
LEMMA Recursion ==
    ASSUME NEW S, NEW base \in S, NEW step, Steps(step, S)
    PROVE  \E f : RecursiveFrom(f, S, base, step)
<1> DEFINE upto(n) == CHOOSE g : DefinedBy(g, S, base, step, n)
           f == [n \in Nat |-> upto(n)[n]]
<1>1. \A n \in Nat : DefinedBy(upto(n), S, base, step, n)
  BY RecursionUpTo
<1> HIDE DEF upto
<1>2. ASSUME NEW n \in Nat
      PROVE  upto(n)[n] \in S
  BY <1>1 DEF DefinedBy
<1>3. f \in [Nat -> S]
  BY <1>2
<1>4. f[0] = base
  BY <1>1 DEF DefinedBy
<1>5. ASSUME NEW n \in Nat
      PROVE  f[n + 1] = step[<<n + 1, f[n]>>]
  <2>1. DefinedBy(upto(n), S, base, step, n) /\ DefinedBy(upto(n + 1), S, base, step, n + 1)
    BY <1>1
  <2>2. upto(n)[n] = upto(n + 1)[n]
    BY <2>1, RecursionUnique
  <2>3. n \in 0..(n + 1 - 1)
    OBVIOUS
  <2>4. upto(n + 1)[n + 1] = step[<<n + 1, upto(n + 1)[n]>>]
    BY <2>1, <2>3 DEF DefinedBy
  <2> QED BY <2>2, <2>4
<1>6. RecursiveFrom(f, S, base, step)
  <2> HIDE DEF f
  <2> QED BY <1>3, <1>4, <1>5 DEF RecursiveFrom
<1> QED BY <1>6
=============================================================================
