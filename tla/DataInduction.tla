---------------------------- MODULE DataInduction ----------------------------
(***************************************************************************)
(* Induction over sequences and functions on 0..n, in a form the provers   *)
(* can instantiate: over sets of naturals rather than predicates.          *)
(***************************************************************************)
EXTENDS Integers, Sequences, FiniteSets, FiniteSetTheorems, TLAPS

(* A set of naturals that holds 0, and with every number below m the next, *)
(* holds m: otherwise adding one would map its part below m one-to-one     *)
(* into that part without 0, which is smaller.                             *)
LEMMA ReachesEvery ==
    ASSUME NEW S \in SUBSET Nat, 0 \in S, NEW m \in Nat,
           \A k \in S : k < m => k + 1 \in S
    PROVE  m \in S
<1> SUFFICES ASSUME m \notin S PROVE FALSE
  OBVIOUS
<1> DEFINE A == {k \in S : k < m}
           B == A \ {0}
           f == [k \in A |-> k + 1]
<1>1. A \subseteq 0..m /\ 0 \in A
  <2>1. \A k \in S : k \in Nat
    OBVIOUS
  <2>2. \A k \in A : k \in 0..m
    BY <2>1
  <2>3. 0 < m
    <3>1. m # 0
      OBVIOUS
    <3> QED BY <3>1
  <2> QED BY <2>2, <2>3
<1>2. IsFiniteSet(A)
  <2>1. IsFiniteSet(0..m) /\ A \in SUBSET (0..m)
    BY <1>1, FS_Interval
  <2> HIDE DEF A
  <2> QED BY <2>1, FS_Subset
<1>3. IsFiniteSet(B) /\ Cardinality(B) = Cardinality(A) - 1 /\ Cardinality(A) \in Nat
  <2> HIDE DEF A
  <2> QED BY <1>1, <1>2, FS_RemoveElement, FS_CardinalityType
<1>4. f \in [A -> B]
  <2> SUFFICES ASSUME NEW k \in A PROVE k + 1 \in B
    OBVIOUS
  <2>1. k \in Nat /\ k + 1 \in S /\ k + 1 # m
    OBVIOUS
  <2> QED BY <2>1
<1>5. \A x, y \in A : f[x] = f[y] => x = y
  OBVIOUS
<1> HIDE DEF A, B, f
<1>6. Cardinality(B) < Cardinality(A)
  BY <1>3
<1>7. \E x, y \in A : x # y /\ f[x] = f[y]
  BY <1>2, <1>3, <1>4, <1>6, FS_PigeonHole
<1> QED BY <1>5, <1>7

(* A fold over 1..n: a start value, and one step for each index. *)
IsFold(f, start, step, n) ==
    f[0] = start /\ \A k \in 1..n : f[k] = step[k][f[k - 1]]

LEMMA FoldExists ==
    ASSUME NEW X, NEW start \in X, NEW n \in Nat, NEW step \in [1..n -> [X -> X]]
    PROVE  \E f \in [0..n -> X] : IsFold(f, start, step, n)
<1> DEFINE S == {m \in 0..n : \E f \in [0..m -> X] : IsFold(f, start, step, m)}
<1>1. 0 \in S
  <2>1. [k \in 0..0 |-> start] \in [0..0 -> X] /\ IsFold([k \in 0..0 |-> start], start, step, 0)
    BY DEF IsFold
  <2> QED BY <2>1
<1>2. ASSUME NEW m \in S, m < n PROVE m + 1 \in S
  <2>1. m \in 0..n /\ m + 1 \in 1..n
    BY <1>2
  <2>2. PICK f \in [0..m -> X] : IsFold(f, start, step, m)
    OBVIOUS
  <2> DEFINE g == [k \in 0..(m + 1) |-> IF k <= m THEN f[k] ELSE step[m + 1][f[m]]]
  <2>3. step[m + 1][f[m]] \in X
    BY <2>1
  <2>4. g \in [0..(m + 1) -> X]
    BY <2>1, <2>3
  <2>5. g[0] = start
    BY <2>1, <2>2 DEF IsFold
  <2>6. ASSUME NEW k \in 1..(m + 1) PROVE g[k] = step[k][g[k - 1]]
    <3>1. k \in 0..(m + 1) /\ k - 1 \in 0..(m + 1) /\ k - 1 <= m
      BY <2>1
    <3>2. g[k - 1] = f[k - 1]
      BY <3>1
    <3>3. CASE k <= m
      <4>1. k \in 1..m /\ g[k] = f[k]
        BY <3>1, <3>3
      <4> QED BY <3>2, <4>1, <2>2 DEF IsFold
    <3>4. CASE k = m + 1
      BY <2>1, <3>1, <3>2, <3>4
    <3> QED BY <2>1, <3>3, <3>4
  <2> HIDE DEF g
  <2>7. IsFold(g, start, step, m + 1)
    BY <2>5, <2>6 DEF IsFold
  <2> QED BY <2>1, <2>4, <2>7
<1>3. S \in SUBSET Nat
  OBVIOUS
<1> HIDE DEF S
<1>4. n \in S
  BY <1>1, <1>2, <1>3, ReachesEvery
<1> QED BY <1>4 DEF S

(* A property of the numbers up to n that 0 has and each hands to the next. *)
LEMMA StepByStep ==
    ASSUME NEW n \in Nat, NEW S, 0 \in S, \A k \in 1..n : k - 1 \in S => k \in S
    PROVE  0..n \subseteq S
<1> DEFINE T == S \cap Nat
<1>1. T \in SUBSET Nat /\ 0 \in T
  OBVIOUS
<1>2. ASSUME NEW k \in T, k < n PROVE k + 1 \in T
  <2>1. k + 1 \in 1..n /\ (k + 1) - 1 = k
    BY <1>2
  <2> QED BY <2>1
<1>3. ASSUME NEW m \in 0..n PROVE m \in S
  <2>1. \A k \in T : k < m => k + 1 \in T
    BY <1>2
  <2>2. m \in Nat
    OBVIOUS
  <2> HIDE DEF T
  <2>3. m \in T
    BY <1>1, <2>1, <2>2, ReachesEvery
  <2> QED BY <2>3 DEF T
<1> QED BY <1>3

(* Two functions that start alike and take the same steps up to n agree. *)
StepAlike(f, g, n) ==
    f[0] = g[0] /\ \A k \in 1..n : f[k - 1] = g[k - 1] => f[k] = g[k]

LEMMA SameSteps ==
    ASSUME NEW n \in Nat, NEW f, NEW g, StepAlike(f, g, n)
    PROVE  \A k \in 0..n : f[k] = g[k]
<1> DEFINE S == {k \in 0..n : f[k] = g[k]}
<1>1. 0 \in S /\ \A k \in 1..n : k - 1 \in S => k \in S
  BY DEF StepAlike
<1> HIDE DEF S
<1>2. 0..n \subseteq S
  BY <1>1, StepByStep
<1> QED BY <1>2 DEF S

(* A function that starts in a set and whose steps stay in it stays in it. *)
StepInto(f, X, n) ==
    f[0] \in X /\ \A k \in 1..n : f[k - 1] \in X => f[k] \in X

LEMMA StepsStayIn ==
    ASSUME NEW n \in Nat, NEW X, NEW f, StepInto(f, X, n)
    PROVE  \A k \in 0..n : f[k] \in X
<1> DEFINE S == {k \in 0..n : f[k] \in X}
<1>1. 0 \in S /\ \A k \in 1..n : k - 1 \in S => k \in S
  BY DEF StepInto
<1> HIDE DEF S
<1>2. 0..n \subseteq S
  BY <1>1, StepByStep
<1> QED BY <1>2 DEF S
=============================================================================
