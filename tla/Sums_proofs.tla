----------------------------- MODULE Sums_proofs ------------------------------
(***************************************************************************)
(* What a sum is, for every sequence of integers.  The induction over its  *)
(* prefixes goes by a least counterexample: < is well founded on Nat, so a *)
(* set of numbers that is not empty has a least one.                       *)
(***************************************************************************)
EXTENDS Sums, SequenceTheorems, WellFoundedInduction, TLAPS

(* A set of natural numbers that is not empty has a least element.         *)
LEMMA LeastNat ==
    ASSUME NEW T, T \subseteq Nat, T # {}
    PROVE  \E n \in T : \A k \in T : n <= k
<1>1. PICK n \in T : \A k \in T : ~(<<k, n>> \in OpToRel(<, Nat))
      BY NatLessThanWellFounded, WFMin
<1>2. ASSUME NEW k \in T PROVE n <= k
  <2>1. n \in Nat /\ k \in Nat /\ <<k, n>> \in Nat \X Nat
        BY <1>1
  <2>2. k < n => <<k, n>> \in OpToRel(<, Nat)
        BY <2>1 DEF OpToRel
  <2>3. ~(k < n)
        BY <1>1, <2>2
  <2> QED
        BY <2>1, <2>3
<1> QED
    BY <1>1, <1>2

-----------------------------------------------------------------------------
(* The running total of a sequence: the function its sum is read from.     *)
Runs(g, s) == /\ g \in [0..Len(s) -> Int] /\ g[0] = 0
              /\ \A n \in 1..Len(s) : g[n] = g[n - 1] + s[n]

(* There is one up to every prefix, or a shortest prefix would have none.  *)
LEMMA RunningTotal == ASSUME NEW s \in Seq(Int) PROVE \E g : Runs(g, s)
<1> DEFINE Part(g, k) == /\ g \in [0..k -> Int] /\ g[0] = 0
                         /\ \A n \in 1..k : g[n] = g[n - 1] + s[n]
           Stuck == {k \in 0..Len(s) : \A g : ~Part(g, k)}
<1>1. Len(s) \in Nat /\ Stuck \subseteq Nat
      OBVIOUS
<1>2. Part([n \in 0..0 |-> 0], 0)
      OBVIOUS
<1>3. ASSUME NEW k \in 1..Len(s), NEW g, Part(g, k - 1)
      PROVE  Part([n \in 0..k |-> IF n = k THEN g[k - 1] + s[k] ELSE g[n]], k)
  <2> DEFINE h == [n \in 0..k |-> IF n = k THEN g[k - 1] + s[k] ELSE g[n]]
  <2>1. k \in Nat /\ k > 0 /\ s[k] \in Int
        BY <1>1
  <2>2. h \in [0..k -> Int]
        BY <1>3, <2>1
  <2>3. h[0] = 0
        BY <1>3, <2>1
  <2>4. ASSUME NEW n \in 1..k PROVE h[n] = h[n - 1] + s[n]
        BY <1>3, <2>1
  <2> QED
        BY <2>2, <2>3, <2>4
<1> HIDE DEF Part
<1>4. Stuck = {}
  <2> SUFFICES ASSUME Stuck # {} PROVE FALSE
      OBVIOUS
  <2>1. PICK k \in Stuck : \A i \in Stuck : k <= i
    <3> HIDE DEF Stuck
    <3> QED
        BY <1>1, LeastNat
  <2>2. k # 0
        BY <1>2
  <2>3. k \in 1..Len(s) /\ k - 1 \in 0..Len(s)
        BY <1>1, <2>2
  <2>4. k - 1 \notin Stuck
        BY <2>1, <2>3
  <2>5. PICK g : Part(g, k - 1)
        BY <2>3, <2>4
  <2> QED
        BY <1>3, <2>3, <2>5
<1>5. PICK g : Part(g, Len(s))
  <2>1. Len(s) \in 0..Len(s)
        BY <1>1
  <2> QED
        BY <1>4, <2>1
<1> QED
    BY <1>5 DEF Runs, Part

(* Two running totals of one sequence nowhere begin to differ.             *)
LEMMA RunningOnce ==
    ASSUME NEW s \in Seq(Int), NEW g, NEW h, Runs(g, s), Runs(h, s)
    PROVE  g = h
<1> DEFINE Differ == {k \in 0..Len(s) : g[k] # h[k]}
<1>1. Len(s) \in Nat /\ Differ \subseteq Nat
      OBVIOUS
<1>2. Differ = {}
  <2> SUFFICES ASSUME Differ # {} PROVE FALSE
      OBVIOUS
  <2>1. PICK k \in Differ : \A i \in Differ : k <= i
    <3> HIDE DEF Differ
    <3> QED
        BY <1>1, LeastNat
  <2>2. k \in 1..Len(s) /\ k - 1 \in 0..Len(s) /\ k - 1 \notin Differ
        BY <1>1, <2>1 DEF Runs
  <2> QED
        BY <2>1, <2>2 DEF Runs
<1> QED
    BY <1>2 DEF Runs

(* So a sum is what any running total ends with.                           *)
LEMMA SumRuns == ASSUME NEW s \in Seq(Int), NEW g, Runs(g, s) PROVE SumOf(s) = g[Len(s)]
<1> DEFINE Equation(f) == f = [n \in 0..Len(s) |-> IF n = 0 THEN 0 ELSE f[n - 1] + s[n]]
           upTo == CHOOSE f : Equation(f)
<1>1. Len(s) \in Nat
      OBVIOUS
<1>2. Equation(g)
  <2>1. g = [n \in 0..Len(s) |-> g[n]]
        BY DEF Runs
  <2>2. ASSUME NEW n \in 0..Len(s) PROVE g[n] = IF n = 0 THEN 0 ELSE g[n - 1] + s[n]
        BY <1>1 DEF Runs
  <2> QED
        BY <2>1, <2>2
<1>3. Equation(upTo)
      BY <1>2, Zenon
<1>4. SumOf(s) = upTo[Len(s)]
      BY Zenon DEF SumOf
<1> HIDE DEF upTo
\* Its values are integers, or there would be a first that is not.
<1>5. Runs(upTo, s)
  <2> DEFINE Odd == {k \in 0..Len(s) : upTo[k] \notin Int}
  <2>1. \A n \in 0..Len(s) : upTo[n] = IF n = 0 THEN 0 ELSE upTo[n - 1] + s[n]
        BY <1>3
  <2>2. Odd = {}
    <3> SUFFICES ASSUME Odd # {} PROVE FALSE
        OBVIOUS
    <3>0. Odd \subseteq Nat
          BY <1>1
    <3>1. PICK k \in Odd : \A i \in Odd : k <= i
      <4> HIDE DEF Odd
      <4> QED
          BY <3>0, LeastNat
    <3>2. k \in 1..Len(s) /\ k - 1 \in 0..Len(s) /\ k - 1 \notin Odd /\ s[k] \in Int
          BY <1>1, <2>1, <3>1
    <3> QED
          BY <2>1, <3>1, <3>2
  <2>3. upTo = [n \in 0..Len(s) |-> upTo[n]]
        BY <1>3
  <2> QED
        BY <1>1, <2>1, <2>2, <2>3 DEF Runs
<1>6. upTo = g
      BY <1>5, RunningOnce
<1> QED
    BY <1>4, <1>6

-----------------------------------------------------------------------------
(* The laws of sums.  Two sequences are compared number by number.         *)

LEMMA SumInt == ASSUME NEW s \in Seq(Int) PROVE SumOf(s) \in Int
<1>1. PICK g : Runs(g, s)
      BY RunningTotal
<1>2. SumOf(s) = g[Len(s)] /\ Len(s) \in 0..Len(s)
      BY <1>1, SumRuns
<1> QED
    BY <1>1, <1>2 DEF Runs

LEMMA SumEmpty == SumOf(<<>>) = 0
<1>1. <<>> \in Seq(Int) /\ Len(<<>>) = 0
      OBVIOUS
<1>2. Runs([n \in 0..0 |-> 0], <<>>)
      BY <1>1 DEF Runs
<1> QED
    BY <1>1, <1>2, SumRuns

(* Nothing but zeros.                                                      *)
LEMMA SumZero ==
    ASSUME NEW s \in Seq(Int), \A i \in 1..Len(s) : s[i] = 0
    PROVE  SumOf(s) = 0
<1> DEFINE g == [n \in 0..Len(s) |-> 0]
<1>1. Len(s) \in Nat
      OBVIOUS
<1>2. Runs(g, s)
      BY <1>1 DEF Runs
<1> QED
    BY <1>1, <1>2, SumRuns

(* One number more at the end.                                             *)
LEMMA SumGrows ==
    ASSUME NEW s \in Seq(Int), NEW t \in Seq(Int), Len(t) = Len(s) + 1,
           \A i \in 1..Len(s) : t[i] = s[i]
    PROVE  SumOf(t) = SumOf(s) + t[Len(t)]
<1>1. Len(s) \in Nat /\ t[Len(t)] \in Int
      OBVIOUS
<1>2. PICK g : Runs(g, s)
      BY RunningTotal
<1> DEFINE h == [n \in 0..Len(t) |-> IF n = Len(t) THEN g[Len(s)] + t[Len(t)] ELSE g[n]]
<1>3. Runs(h, t)
  <2>1. h \in [0..Len(t) -> Int] /\ h[0] = 0
        BY <1>1, <1>2 DEF Runs
  <2>2. ASSUME NEW n \in 1..Len(t) PROVE h[n] = h[n - 1] + t[n]
        BY <1>1, <1>2 DEF Runs
  <2> QED
        BY <2>1, <2>2 DEF Runs
<1>4. SumOf(t) = h[Len(t)] /\ SumOf(s) = g[Len(s)]
  <2> HIDE DEF h
  <2> QED
      BY <1>2, <1>3, SumRuns
<1> QED
    BY <1>1, <1>4

(* One number less at the front.                                           *)
LEMMA SumShrinks ==
    ASSUME NEW s \in Seq(Int), NEW t \in Seq(Int), Len(s) = Len(t) + 1,
           \A i \in 1..Len(t) : t[i] = s[i + 1]
    PROVE  SumOf(s) = s[1] + SumOf(t)
<1>1. Len(t) \in Nat /\ s[1] \in Int
      OBVIOUS
<1>2. PICK g : Runs(g, t)
      BY RunningTotal
<1> DEFINE h == [n \in 0..Len(s) |-> IF n = 0 THEN 0 ELSE s[1] + g[n - 1]]
<1>3. Runs(h, s)
  <2>1. h \in [0..Len(s) -> Int] /\ h[0] = 0
        BY <1>1, <1>2 DEF Runs
  <2>2. ASSUME NEW n \in 1..Len(s) PROVE h[n] = h[n - 1] + s[n]
    <3>1. CASE n = 1
          BY <1>1, <1>2, <3>1 DEF Runs
    <3>2. CASE n > 1
      <4> DEFINE m == n - 1
      <4>1. m \in 1..Len(t) /\ m - 1 \in 0..Len(t) /\ n = m + 1
            BY <1>1, <3>2
      <4>2. g[m] = g[m - 1] + t[m] /\ t[m] = s[n] /\ g[m - 1] \in Int /\ s[n] \in Int
        <5> HIDE DEF m
        <5>1. g[m] = g[m - 1] + t[m] /\ g[m - 1] \in Int
              BY <1>2, <4>1 DEF Runs
        <5>2. t[m] = s[m + 1] /\ s[n] \in Int
              BY <4>1, ElementOfSeq
        <5> QED
              BY <4>1, <5>1, <5>2
      <4>3. h[n] = s[1] + g[m] /\ h[n - 1] = s[1] + g[m - 1]
            BY <1>1, <4>1
      <4> HIDE DEF h, m
      <4> QED
            BY <1>1, <4>2, <4>3
    <3> QED
          BY <1>1, <3>1, <3>2
  <2> QED
        BY <2>1, <2>2 DEF Runs
<1>4. SumOf(s) = h[Len(s)] /\ SumOf(t) = g[Len(t)]
  <2> HIDE DEF h
  <2> QED
      BY <1>2, <1>3, SumRuns
<1> QED
    BY <1>1, <1>2, <1>4 DEF Runs

(* Another first number.                                                   *)
LEMMA SumHead ==
    ASSUME NEW s \in Seq(Int), NEW t \in Seq(Int), Len(s) = Len(t), s # <<>>,
           \A i \in 2..Len(s) : t[i] = s[i]
    PROVE  SumOf(t) = SumOf(s) - s[1] + t[1]
<1> DEFINE u == Tail(s)
<1>1. u \in Seq(Int) /\ Len(s) = Len(u) + 1 /\ \A i \in 1..Len(u) : u[i] = s[i + 1]
      BY HeadTailProperties
<1>0. Len(u) \in Nat
      BY <1>1
<1> HIDE DEF u
<1>2. ASSUME NEW i \in 1..Len(u) PROVE u[i] = t[i + 1]
      BY <1>0, <1>1
<1>3. SumOf(s) = s[1] + SumOf(u) /\ SumOf(t) = t[1] + SumOf(u)
      BY <1>1, <1>2, SumShrinks
<1>4. SumOf(u) \in Int /\ 1 \in 1..Len(s)
      BY <1>0, <1>1, SumInt
<1>5. s[1] \in Int /\ t[1] \in Int
      BY <1>4, ElementOfSeq
<1> QED
    BY <1>3, <1>4, <1>5

(* Numbers none of which is negative.                                      *)
LEMMA SumNat == ASSUME NEW s \in Seq(Int), \A i \in 1..Len(s) : s[i] >= 0 PROVE SumOf(s) \in Nat
<1>1. PICK g : Runs(g, s)
      BY RunningTotal
<1>2. Len(s) \in Nat
      OBVIOUS
<1> DEFINE Below == {k \in 0..Len(s) : g[k] < 0}
<1>3. Below = {}
  <2> SUFFICES ASSUME Below # {} PROVE FALSE
      OBVIOUS
  <2>0. Below \subseteq Nat
        BY <1>2
  <2>1. PICK k \in Below : \A i \in Below : k <= i
    <3> HIDE DEF Below
    <3> QED
        BY <2>0, LeastNat
  <2>2. k \in 1..Len(s) /\ k - 1 \in 0..Len(s) /\ k - 1 \notin Below
        BY <1>1, <1>2, <2>1 DEF Runs
  <2>3. g[k] = g[k - 1] + s[k] /\ s[k] >= 0
        BY <1>1, <2>2 DEF Runs
  <2>4. g[k - 1] \in Int /\ s[k] \in Int
        BY <1>1, <2>2, ElementOfSeq DEF Runs
  <2>5. g[k - 1] >= 0 /\ g[k] < 0
        BY <2>1, <2>2, <2>4
  <2> QED
        BY <2>3, <2>4, <2>5
<1>4. SumOf(s) = g[Len(s)] /\ Len(s) \in 0..Len(s)
      BY <1>1, <1>2, SumRuns
<1> QED
    BY <1>1, <1>3, <1>4 DEF Runs

(* A function on the first numbers is a sequence.                          *)
LEMMA FunctionIsSeq ==
    ASSUME NEW n \in Nat, NEW S, NEW f \in [1..n -> S]
    PROVE  f \in Seq(S) /\ Len(f) = n
<1>1. f \in Seq(S)
      BY SeqDef
<1>2. DOMAIN f = 1..n /\ DOMAIN f = 1..Len(f) /\ Len(f) \in Nat
      BY <1>1, LenProperties
<1> QED
    BY <1>1, <1>2
===============================================================================
