----------------------------- MODULE Induction -----------------------------
(***************************************************************************)
(* Induction over the natural numbers with a set in the place of a         *)
(* predicate, and functions made step by step.                             *)
(***************************************************************************)
EXTENDS Integers, WellFoundedInduction, TLAPS

(* A nonempty set of natural numbers has a least element.                  *)
LEMMA LeastElement ==
    ASSUME NEW T, T \subseteq Nat, T # {}
    PROVE  \E n \in T : \A m \in T : n <= m
<1>1. \E n \in T : \A m \in T : ~(<<m, n>> \in OpToRel(<, Nat))
    BY WFMin, NatLessThanWellFounded
<1>2. \A m, n \in Nat : m < n => <<m, n>> \in OpToRel(<, Nat)
    BY DEF OpToRel
<1>3. \E n \in T : \A m \in T : ~(m < n)
    BY <1>1, <1>2, Zenon
<1> QED
    BY <1>3

(* What holds of 0, and of n + 1 if it holds of n, holds up to last.       *)
LEMMA UpTo ==
    ASSUME NEW S, NEW last \in Nat,
           0 \in S,
           \A n \in 0 .. last - 1 : n \in S => n + 1 \in S
    PROVE  0 .. last \subseteq S
<1> DEFINE T == {n \in 0 .. last : n \notin S}
<1> SUFFICES ASSUME T # {} PROVE FALSE
    OBVIOUS
<1>1. T \subseteq Nat
    OBVIOUS
<1>2. \E n \in T : \A m \in T : n <= m
  <2> HIDE DEF T
  <2> QED
    BY <1>1, LeastElement
<1>3. PICK n \in T : \A m \in T : n <= m
    BY <1>2
<1>4. n - 1 \in 0 .. last - 1 /\ n - 1 \in S
    BY <1>3
<1> QED
    BY <1>3, <1>4

(* f is made step by step, as a recursive definition makes it.             *)
Stepwise(f, last, start, step) ==
    /\ f = [k \in 0 .. last |-> f[k]]
    /\ f[0] = start
    /\ \A k \in 1 .. last : f[k] = step[<<k, f[k - 1]>>]

(* There is such a function, and it has the type of its steps.             *)
LEMMA StepByStep ==
    ASSUME NEW last \in Nat, NEW S, NEW start \in S,
           NEW step \in [(1 .. last) \X S -> S]
    PROVE  \E f : Stepwise(f, last, start, step)
<1> DEFINE Value(f, k) == IF k = 0 THEN start ELSE step[<<k, f[k - 1]>>]
           Made(n, f) == \A k \in 0 .. n : f[k] = Value(f, k)
           T == {n \in 0 .. last : \E f \in [0 .. n -> S] : Made(n, f)}
<1>1. 0 \in T
  <2> DEFINE f == [k \in 0 .. 0 |-> start]
  <2>1. f \in [0 .. 0 -> S]
      OBVIOUS
  <2>2. Made(0, f)
      OBVIOUS
  <2> HIDE DEF Made, f
  <2> QED
      BY <2>1, <2>2
<1>2. ASSUME NEW n \in 0 .. last - 1, n \in T
      PROVE  n + 1 \in T
  <2>1. PICK f \in [0 .. n -> S] : Made(n, f)
      BY <1>2
  <2>2. n + 1 \in 1 .. last /\ f[n] \in S
      OBVIOUS
  <2>3. step[<<n + 1, f[n]>>] \in S
      BY <2>2
  <2> DEFINE g == [k \in 0 .. n + 1 |-> IF k = n + 1 THEN step[<<n + 1, f[n]>>] ELSE f[k]]
  <2>4. g \in [0 .. n + 1 -> S]
      BY <2>3
  <2>5. ASSUME NEW k \in 0 .. n + 1
        PROVE  g[k] = Value(g, k)
    <3>1. CASE k = n + 1
      <4>1. g[k] = step[<<n + 1, f[n]>>] /\ g[n] = f[n]
          BY <3>1
      <4>2. k # 0 /\ k - 1 = n
          BY <3>1
      <4> HIDE DEF g
      <4> QED
          BY <3>1, <4>1, <4>2
    <3>2. CASE k \in 0 .. n
      <4> HIDE DEF Value
      <4>1. f[k] = Value(f, k)
          BY <2>1, <3>2
      <4>2. g[k] = f[k] /\ (k # 0 => g[k - 1] = f[k - 1])
          BY <3>2
      <4> QED
          BY <4>1, <4>2 DEF Value
    <3> QED
        BY <3>1, <3>2
  <2>6. Made(n + 1, g)
      BY <2>5
  <2>7. n + 1 \in 0 .. last
      OBVIOUS
  <2> HIDE DEF Made, g
  <2> QED
      BY <2>4, <2>6, <2>7
<1>3. last \in T
  <2> HIDE DEF T
  <2> QED
      BY <1>1, <1>2, UpTo
<1>4. PICK f \in [0 .. last -> S] : Made(last, f)
    BY <1>3
<1>5. f[0] = start
  <2>1. 0 \in 0 .. last
      OBVIOUS
  <2> QED
      BY <1>4, <2>1
<1>6. ASSUME NEW k \in 1 .. last
      PROVE  f[k] = step[<<k, f[k - 1]>>]
  <2>1. k \in 0 .. last /\ k # 0
      OBVIOUS
  <2>2. f[k] = Value(f, k)
    <3> HIDE DEF Value
    <3> QED
      BY <1>4, <2>1
  <2> QED
      BY <2>1, <2>2
<1> QED
    BY <1>5, <1>6 DEF Stepwise

LEMMA StepByStepType ==
    ASSUME NEW last \in Nat, NEW S, NEW start \in S,
           NEW step \in [(1 .. last) \X S -> S],
           NEW f, Stepwise(f, last, start, step)
    PROVE  f \in [0 .. last -> S]
<1> DEFINE T == {n \in 0 .. last : f[n] \in S}
<1>1. 0 \in T
    BY DEF Stepwise
<1>2. ASSUME NEW n \in 0 .. last - 1, n \in T
      PROVE  n + 1 \in T
  <2>1. n + 1 \in 1 .. last /\ (n + 1) - 1 = n
      OBVIOUS
  <2>2. f[n + 1] = step[<<n + 1, f[n]>>]
      BY <2>1 DEF Stepwise
  <2>3. step[<<n + 1, f[n]>>] \in S
      BY <1>2, <2>1
  <2> QED
      BY <2>1, <2>2, <2>3
<1>3. 0 .. last \subseteq T
  <2> HIDE DEF T
  <2> QED
      BY <1>1, <1>2, UpTo
<1> QED
    BY <1>3 DEF Stepwise
=============================================================================
