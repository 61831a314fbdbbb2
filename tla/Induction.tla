----------------------------- MODULE Induction ------------------------------
(***************************************************************************)
(* Induction over the natural numbers in first-order form.  The theorems   *)
(* of NaturalsInduction take an operator as a parameter, which the provers *)
(* at hand cannot instantiate; these take a set of numbers or a function   *)
(* instead.  They rest on the well-foundedness of < on Nat.                *)
(***************************************************************************)
EXTENDS Integers, FiniteSets, FiniteSetTheorems, WellFoundedInduction, TLAPS

\* Every nonempty set of naturals has a least element.
LEMMA LeastElement ==
  ASSUME NEW T \in SUBSET Nat, T # {}
  PROVE  \E n \in T : \A m \in T : n <= m
<1> DEFINE R == OpToRel(<, Nat)
<1>1. R = {pair \in Nat \X Nat : pair[1] < pair[2]}
  BY DEF OpToRel
<1>2. IsWellFoundedOn(R, Nat)
  BY NatLessThanWellFounded
<1> HIDE DEF R
<1>3. PICK n \in T : \A m \in T : <<m, n>> \notin R
  BY <1>2, WFMin
<1>4. ASSUME NEW m \in T
      PROVE  n <= m
  <2>1. n \in Nat /\ m \in Nat
    OBVIOUS
  <2>2. <<m, n>> \in Nat \X Nat /\ <<m, n>>[1] = m /\ <<m, n>>[2] = n
    BY <2>1
  <2>3. ~ (m < n)
    BY <1>1, <1>3, <2>2
  <2> QED
    BY <2>1, <2>3
<1> QED
  BY <1>4

\* A set that holds 0 and, with a number below n, the next one, holds 0 .. n.
LEMMA IntervalInduction ==
  ASSUME NEW n \in Nat, NEW T,
         0 \in T, \A i \in 1 .. n : i - 1 \in T => i \in T
  PROVE  \A i \in 0 .. n : i \in T
<1> DEFINE Missing == {i \in 0 .. n : i \notin T}
<1> SUFFICES ASSUME Missing # {}
             PROVE  FALSE
  OBVIOUS
<1>1. Missing \in SUBSET Nat
  OBVIOUS
<1>2. PICK i \in Missing : \A j \in Missing : i <= j
  BY <1>1, LeastElement
<1>3. i \in 1 .. n /\ i - 1 \in 0 .. n /\ ~ (i <= i - 1)
  BY <1>2
<1>4. i - 1 \notin Missing
  BY <1>2, <1>3
<1> QED
  BY <1>2, <1>3, <1>4

\* A downward closed set of naturals below n is an interval, and its
\* cardinality is the first number outside it.
LEMMA InitialSegment ==
  ASSUME NEW n \in Nat, NEW T \in SUBSET (0 .. (n - 1)),
         \A i \in T : \A j \in 0 .. i : j \in T
  PROVE  /\ Cardinality(T) \in 0 .. n
         /\ T = 0 .. (Cardinality(T) - 1)
<1> DEFINE Outside == (0 .. n) \ T
<1>1. n \in Outside /\ Outside \in SUBSET Nat
  OBVIOUS
<1>2. PICK m \in Outside : \A j \in Outside : m <= j
  BY <1>1, LeastElement
<1>3. T = 0 .. (m - 1)
  <2>1. ASSUME NEW i \in T PROVE i \in 0 .. (m - 1)
    <3>1. i \in Nat /\ m \in Nat
      OBVIOUS
    <3>2. CASE m <= i
      BY <3>1, <3>2
    <3> QED
      BY <3>1, <3>2
  <2>2. ASSUME NEW i \in 0 .. (m - 1) PROVE i \in T
    <3>1. i \in 0 .. n /\ ~ (m <= i)
      OBVIOUS
    <3> QED
      BY <1>2, <3>1
  <2> QED
    BY <2>1, <2>2
<1>4. Cardinality(0 .. (m - 1)) = m
  BY FS_Interval
<1> QED
  BY <1>3, <1>4

\* A step function that takes the value so far and the index defines a
\* function by primitive recursion.
LEMMA PrimitiveRecursion ==
  ASSUME NEW A, NEW base \in A, NEW n \in Nat, NEW step \in [A \X (1 .. n) -> A]
  PROVE  \E g \in [0 .. n -> A] :
           /\ g[0] = base
           /\ \A i \in 1 .. n : g[i] = step[<<g[i - 1], i>>]
<1> DEFINE Begun(m, g) == /\ g[0] = base
                          /\ \A i \in 1 .. m : g[i] = step[<<g[i - 1], i>>]
           T == {m \in 0 .. n : \E g \in [0 .. m -> A] : Begun(m, g)}
<1>1. 0 \in T
  <2>1. [i \in 0 .. 0 |-> base] \in [0 .. 0 -> A]
    OBVIOUS
  <2>2. Begun(0, [i \in 0 .. 0 |-> base])
    OBVIOUS
  <2>3. 0 \in 0 .. n
    OBVIOUS
  <2> HIDE DEF Begun
  <2> QED
    BY <2>1, <2>2, <2>3
<1>2. ASSUME NEW m \in 1 .. n, m - 1 \in T
      PROVE  m \in T
  <2>1. PICK g \in [0 .. (m - 1) -> A] : Begun(m - 1, g)
    BY <1>2
  <2> DEFINE h == [i \in 0 .. m |-> IF i = m THEN step[<<g[m - 1], m>>] ELSE g[i]]
  <2>2. g[m - 1] \in A /\ <<g[m - 1], m>> \in A \X (1 .. n)
    OBVIOUS
  <2>3. h \in [0 .. m -> A]
    BY <2>2
  <2>4. h[0] = base /\ h[m] = step[<<g[m - 1], m>>]
    BY <2>1
  <2>5. ASSUME NEW i \in 1 .. m
        PROVE  h[i] = step[<<h[i - 1], i>>]
    <3>1. h[i - 1] = g[i - 1]
      OBVIOUS
    <3>2. CASE i = m
      BY <2>4, <3>1, <3>2
    <3>3. CASE i # m
      <4>1. i \in 1 .. (m - 1) /\ h[i] = g[i]
        BY <3>3
      <4> QED
        BY <2>1, <3>1, <4>1
    <3> QED
      BY <3>2, <3>3
  <2> HIDE DEF h
  <2> QED
    BY <2>3, <2>4, <2>5
<1>3. n \in T
  <2> HIDE DEF T
  <2> QED BY <1>1, <1>2, IntervalInduction
<1> QED
  BY <1>3

\* The same with names for its hypothesis and its conclusion, by which provers find it.
IsStep(step, A, n) == step \in [A \X (1 .. n) -> A]

Iterates(g, A, base, n, step) ==
  /\ g \in [0 .. n -> A]
  /\ g[0] = base
  /\ \A i \in 1 .. n : g[i] = step[<<g[i - 1], i>>]

\* A step function has a sequence of iterates.
LEMMA IteratesExist ==
  ASSUME NEW A, NEW base, NEW n, NEW step, base \in A, n \in Nat, IsStep(step, A, n)
  PROVE  \E g : Iterates(g, A, base, n, step)
<1>1. step \in [A \X (1 .. n) -> A]
  BY DEF IsStep
<1>2. PICK g \in [0 .. n -> A] :
        /\ g[0] = base
        /\ \A i \in 1 .. n : g[i] = step[<<g[i - 1], i>>]
  BY <1>1, PrimitiveRecursion
<1>3. Iterates(g, A, base, n, step)
  BY <1>2 DEF Iterates
<1> QED
  BY <1>3
-----------------------------------------------------------------------------
(* Sums *)

\* The sums of the first values of f, by recursion on their number.
RunningSum(f, n) ==
  LET sum[i \in 0 .. n] == IF i = 0 THEN 0 ELSE sum[i - 1] + f[i]
  IN  sum

\* The recursive definition denotes a function, the one with these equations.
LEMMA RunningSumDef ==
  ASSUME NEW n \in Nat, NEW f, \A i \in 1 .. n : f[i] \in Int
  PROVE  /\ RunningSum(f, n) \in [0 .. n -> Int]
         /\ RunningSum(f, n)[0] = 0
         /\ \A i \in 1 .. n : RunningSum(f, n)[i] = RunningSum(f, n)[i - 1] + f[i]
<1> DEFINE Values == Int
           step == [p \in Values \X (1 .. n) |-> p[1] + f[p[2]]]
<1>1. step \in [Values \X (1 .. n) -> Values] /\ 0 \in Values
  OBVIOUS
<1>2. ASSUME NEW x \in Int, NEW i \in 1 .. n
      PROVE  step[<<x, i>>] = x + f[i]
  OBVIOUS
<1>3. Values = Int
  OBVIOUS
<1> HIDE DEF step, Values
<1>4. PICK g \in [0 .. n -> Values] :
        /\ g[0] = 0
        /\ \A i \in 1 .. n : g[i] = step[<<g[i - 1], i>>]
  BY <1>1, PrimitiveRecursion
<1>5. ASSUME NEW i \in 1 .. n
      PROVE  g[i] = g[i - 1] + f[i]
  <2>1. i - 1 \in 0 .. n /\ g[i - 1] \in Int
    BY <1>3
  <2> QED
    BY <1>2, <1>4, <2>1
<1> DEFINE Defines(sum) == sum = [i \in 0 .. n |-> IF i = 0 THEN 0 ELSE sum[i - 1] + f[i]]
           r == CHOOSE sum : Defines(sum)
<1>6. Defines(g)
  BY <1>3, <1>4, <1>5
<1>7. Defines(r)
  <2> HIDE DEF Defines
  <2> QED BY <1>6
<1>8. RunningSum(f, n) = r
  BY Zenon DEF RunningSum
<1> HIDE DEF r
<1>9. r[0] = 0
  BY <1>7
<1>10. ASSUME NEW i \in 1 .. n
       PROVE  r[i] = r[i - 1] + f[i]
  <2>1. i \in 0 .. n /\ i # 0
    OBVIOUS
  <2> QED
    BY <1>7, <2>1
<1> DEFINE T == {i \in 0 .. n : r[i] \in Int}
<1>11. 0 \in T
  BY <1>9
<1>12. ASSUME NEW i \in 1 .. n, i - 1 \in T
       PROVE  i \in T
  BY <1>10, <1>12
<1> HIDE DEF T
<1>13. \A i \in 0 .. n : i \in T
  BY <1>11, <1>12, IntervalInduction
<1>14. r \in [0 .. n -> Int]
  BY <1>7, <1>13 DEF T
<1> QED
  BY <1>8, <1>9, <1>10, <1>14

\* No other function has them.
LEMMA RunningSumUnique ==
  ASSUME NEW n \in Nat, NEW f, \A i \in 1 .. n : f[i] \in Int,
         NEW g, g[0] = 0, \A i \in 1 .. n : g[i] = g[i - 1] + f[i]
  PROVE  \A i \in 0 .. n : RunningSum(f, n)[i] = g[i]
<1> DEFINE r == RunningSum(f, n)
           T == {i \in 0 .. n : r[i] = g[i]}
<1>1. r[0] = 0 /\ \A i \in 1 .. n : r[i] = r[i - 1] + f[i]
  BY RunningSumDef
<1> HIDE DEF r
<1>2. 0 \in T
  BY <1>1
<1>3. ASSUME NEW i \in 1 .. n, i - 1 \in T
      PROVE  i \in T
  BY <1>1, <1>3
<1> HIDE DEF T
<1>4. \A i \in 0 .. n : i \in T
  BY <1>2, <1>3, IntervalInduction
<1> QED
  BY <1>4 DEF T, r
=============================================================================
