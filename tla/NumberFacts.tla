---------------------------- MODULE NumberFacts ----------------------------
(***************************************************************************)
(* Facts about sets of numbers that the proofs of the other modules need:  *)
(* they have a least element, which gives an induction over sets; Min and  *)
(* Max of FiniteSetsExt find the ends; the members of a bounded set can be *)
(* counted in increasing order; a function may be defined by recursion;    *)
(* and a power of two doubles with its exponent.                           *)
(*                                                                         *)
(* The provers know nothing of ^. What is said of it rests on FS_SUBSET of *)
(* FiniteSetTheorems: a set of n elements has 2 ^ n subsets.               *)
(***************************************************************************)
EXTENDS Integers, FiniteSetsExt, FiniteSetTheorems, WellFoundedInduction, TLAPS

\* Every set of natural numbers has a least element, unless it is empty.
LEMMA LeastExists ==
  ASSUME NEW S, S \subseteq Nat, S # {}
  PROVE  \E x \in S : \A y \in S : x <= y
<1> DEFINE R == OpToRel(<, Nat)
<1>1. IsWellFoundedOn(R, Nat)
  BY NatLessThanWellFounded
<1>2. \A x, y \in Nat : y < x => <<y, x>> \in R
  BY DEF OpToRel
<1> HIDE DEF R
<1>3. PICK x \in S : \A y \in S : <<y, x>> \notin R
  BY <1>1, WFMin, Zenon
<1>4. \A y \in S : ~(y < x)
  BY <1>2, <1>3
<1>5. \A y \in S : x <= y
  BY <1>4
<1> QED BY <1>5

\* Induction, for a property that is given as the set of numbers that have it.
LEMMA NumberInduction ==
  ASSUME NEW S, 0 \in S, \A k \in Nat : k \in S => k + 1 \in S
  PROVE  \A k \in Nat : k \in S
<1>1. SUFFICES ASSUME Nat \ S # {} PROVE FALSE
  OBVIOUS
<1>2. PICK k \in Nat \ S : \A j \in Nat \ S : k <= j
  BY <1>1, LeastExists
<1>3. k # 0
  BY <1>2
<1>4. k - 1 \in Nat /\ (k - 1) + 1 = k /\ ~(k <= k - 1)
  BY <1>2, <1>3
<1> QED BY <1>2, <1>4


\* Min is that element.
LEMMA MinIsLeast ==
  ASSUME NEW S, S \subseteq Nat, S # {}
  PROVE  Min(S) \in S /\ \A y \in S : Min(S) <= y
BY LeastExists DEF Min

\* Max is the greatest element of a set of numbers that has a bound.
LEMMA MaxIsGreatest ==
  ASSUME NEW S, S \subseteq Nat, S # {}, NEW bound \in Nat, \A x \in S : x <= bound
  PROVE  Max(S) \in S /\ \A y \in S : y <= Max(S)
<1> DEFINE Below == {d \in Nat : \E x \in S : x + d = bound}
<1>1. Below # {}
  <2>1. PICK x \in S : TRUE
    OBVIOUS
  <2>2. bound - x \in Nat /\ x + (bound - x) = bound
    OBVIOUS
  <2> QED BY <2>2
<1>2. PICK d \in Below : \A e \in Below : d <= e
  <2> HIDE DEF Below
  <2>1. Below \subseteq Nat
    BY DEF Below
  <2> QED BY <1>1, <2>1, LeastExists
<1>3. PICK x \in S : x + d = bound
  OBVIOUS
<1>4. ASSUME NEW y \in S PROVE y <= x
  <2>1. bound - y \in Nat /\ y + (bound - y) = bound
    OBVIOUS
  <2>2. bound - y \in Below
    BY <2>1
  <2>3. d <= bound - y
    BY <1>2, <2>2
  <2> QED BY <2>3, <1>3
<1>5. \E z \in S : \A y \in S : z >= y
  BY <1>4
<1> QED BY <1>5 DEF Max

\* The lesser of two numbers.
LEMMA MinOfTwo ==
  ASSUME NEW a \in Nat, NEW b \in Nat
  PROVE  Min({a, b}) = IF a <= b THEN a ELSE b
<1>1. Min({a, b}) \in {a, b} /\ \A y \in {a, b} : Min({a, b}) <= y
  BY MinIsLeast
<1> QED BY <1>1

-----------------------------------------------------------------------------
\* f counts the members of S upwards.
Upwards(f, n, S) ==
  /\ f \in [1 .. n -> S]
  /\ \A i, j \in 1 .. n : i < j => f[i] < f[j]
  /\ \A x \in S : \E i \in 1 .. n : f[i] = x

\* The members of a bounded set of numbers can be counted upwards.
LEMMA CanCountUpwards ==
  ASSUME NEW n \in Nat, NEW S, S \subseteq 1 .. n
  PROVE  \E k \in Nat : \E f : Upwards(f, k, S)
<1> DEFINE Counted(T) == \E k \in Nat : \E f : Upwards(f, k, T)
           Bad == {m \in Nat : \E T \in SUBSET (1 .. m) : ~Counted(T)}
<1> HIDE DEF Counted
<1>1. SUFFICES ASSUME Bad # {} PROVE FALSE
  <2>1. n \notin Bad
    BY <1>1
  <2>2. Counted(S)
    BY <2>1
  <2> QED BY <2>2 DEF Counted
<1>2. PICK m \in Bad : \A x \in Bad : m <= x
  <2>1. Bad \subseteq Nat
    OBVIOUS
  <2> HIDE DEF Bad
  <2> QED BY <1>1, <2>1, LeastExists
<1>3. PICK T \in SUBSET (1 .. m) : ~Counted(T)
  OBVIOUS
<1>4. T # {}
  <2>1. Upwards([i \in 1 .. 0 |-> 0], 0, {})
    BY DEF Upwards
  <2> QED BY <2>1, <1>3 DEF Counted
<1>5. m \in Nat /\ m - 1 \in Nat /\ T \ {m} \subseteq 1 .. m - 1
  <2>1. m \in Nat
    BY <1>2
  <2>2. PICK x \in T : x \in 1 .. m
    BY <1>4
  <2>3. \A y \in T \ {m} : y \in 1 .. m - 1
    BY <2>1
  <2> QED BY <2>1, <2>2, <2>3
<1>6. m - 1 \notin Bad
  BY <1>2, <1>5
<1>7. Counted(T \ {m})
  BY <1>5, <1>6
<1>7a. PICK k \in Nat : \E f : Upwards(f, k, T \ {m})
  BY <1>7 DEF Counted
<1>8. PICK f : k \in Nat /\ Upwards(f, k, T \ {m})
  BY <1>7a
<1>9. CASE m \notin T
  <2>1. T \ {m} = T
    BY <1>9
  <2> QED BY <1>3, <1>8, <2>1 DEF Counted
<1>10. CASE m \in T
  <2> DEFINE g == [i \in 1 .. k + 1 |-> IF i = k + 1 THEN m ELSE f[i]]
  <2>1. ASSUME NEW i \in 1 .. k
        PROVE  /\ f[i] \in T /\ f[i] \in Nat /\ f[i] < m
               /\ i \in 1 .. k + 1 /\ i # k + 1 /\ g[i] = f[i]
    <3>1. f[i] \in T \ {m}
      BY <1>8 DEF Upwards
    <3>2. f[i] \in T /\ f[i] \in 1 .. m - 1
      BY <3>1, <1>5
    <3>3. i \in 1 .. k + 1 /\ i # k + 1
      BY <1>8
    <3> QED BY <3>2, <3>3, <1>5
  <2>2. g \in [1 .. k + 1 -> T]
    <3>1. ASSUME NEW i \in 1 .. k + 1 PROVE g[i] \in T
      <4>1. i = k + 1 \/ i \in 1 .. k
        BY <1>8
      <4> QED BY <4>1, <2>1, <1>10
    <3> QED BY <3>1
  <2>3. ASSUME NEW i \in 1 .. k + 1, NEW j \in 1 .. k + 1, i < j PROVE g[i] < g[j]
    <3>1. i \in 1 .. k
      BY <2>3, <1>8
    <3>2. CASE j = k + 1
      BY <3>1, <3>2, <2>1
    <3>3. CASE j \in 1 .. k
      BY <3>1, <3>3, <2>1, <2>3, <1>8 DEF Upwards
    <3>4. j = k + 1 \/ j \in 1 .. k
      BY <1>8
    <3> QED BY <3>2, <3>3, <3>4
  <2>4. \A x \in T : \E i \in 1 .. k + 1 : g[i] = x
    <3> TAKE x \in T
    <3>1. CASE x = m
      <4>1. g[k + 1] = m
        OBVIOUS
      <4> QED BY <3>1, <4>1
    <3>2. CASE x # m
      <4>1. PICK i \in 1 .. k : f[i] = x
        BY <3>2, <1>8 DEF Upwards
      <4>2. i \in 1 .. k + 1 /\ g[i] = x
        BY <4>1, <2>1
      <4> QED BY <4>2
    <3> QED BY <3>1, <3>2
  <2> HIDE DEF g
  <2>5. Upwards(g, k + 1, T)
    BY <2>2, <2>3, <2>4 DEF Upwards
  <2> QED BY <2>5, <1>3 DEF Counted
<1> QED BY <1>9, <1>10

\* Who counts as many as there are counts them all: a function that rises on
\* 1 .. Cardinality(S) meets every member of S, and there is one.
LEMMA RisingMeetsAll ==
  ASSUME NEW n \in Nat, NEW S, S \subseteq 1 .. n
  PROVE  /\ Cardinality(S) \in Nat
         /\ \E f \in [1 .. Cardinality(S) -> S] :
              \A i, j \in 1 .. Cardinality(S) : i < j => f[i] < f[j]
         /\ \A f \in [1 .. Cardinality(S) -> S] :
              (\A i, j \in 1 .. Cardinality(S) : i < j => f[i] < f[j])
                => Upwards(f, Cardinality(S), S)
<1>1. IsFiniteSet(S) /\ \A x \in S : x \in Nat
  <2>1. IsFiniteSet(1 .. n)
    BY FS_Interval
  <2>2. S \in SUBSET (1 .. n)
    OBVIOUS
  <2>3. IsFiniteSet(S)
    BY <2>1, <2>2, FS_Subset
  <2> QED BY <2>2, <2>3
<1>2. Cardinality(S) \in Nat
  BY <1>1, FS_CardinalityType
<1>2a. PICK k \in Nat : \E g : Upwards(g, k, S)
  BY CanCountUpwards
<1>3. PICK g : k \in Nat /\ Upwards(g, k, S)
  BY <1>2a
<1>4. IsFiniteSet(1 .. k) /\ Cardinality(1 .. k) = k
  BY FS_Interval
<1>5. g \in Bijection(1 .. k, S)
  <2>1. \A i \in 1 .. k : g[i] \in Nat
    BY <1>1, <1>3 DEF Upwards
  <2>2. \A i, j \in 1 .. k : g[i] = g[j] => i = j
    BY <2>1, <1>3 DEF Upwards
  <2>3. g \in [1 .. k -> S] /\ \A x \in S : \E i \in 1 .. k : g[i] = x
    BY <1>3 DEF Upwards
  <2>4. g \in Injection(1 .. k, S)
    BY <2>2, <2>3 DEF Injection, IsInjective
  <2>5. g \in Surjection(1 .. k, S)
    BY <2>3, Zenon DEF Surjection
  <2> QED BY <2>4, <2>5 DEF Bijection
<1>6. Cardinality(S) = k
  BY <1>4, <1>5, FS_Bijection DEF ExistsBijection
<1>7. ASSUME NEW f \in [1 .. k -> S], \A i, j \in 1 .. k : i < j => f[i] < f[j]
      PROVE  Upwards(f, k, S)
  <2>1. \A i \in 1 .. k : f[i] \in Nat
    BY <1>1
  <2>2. \A i, j \in 1 .. k : f[i] = f[j] => i = j
    BY <2>1, <1>7
  <2>3. f \in Injection(1 .. k, S)
    BY <2>2 DEF Injection, IsInjective
  <2>4. f \in Surjection(1 .. k, S)
    BY <2>3, <1>1, <1>4, <1>6, FS_Injection
  <2> QED BY <2>4, <1>7 DEF Upwards, Surjection
<1>8. g \in [1 .. k -> S] /\ \A i, j \in 1 .. k : i < j => g[i] < g[j]
  BY <1>3 DEF Upwards
<1> QED BY <1>2, <1>6, <1>7, <1>8

-----------------------------------------------------------------------------
\* The empty set has one subset.
LEMMA PowerOfZero == 2 ^ 0 = 1
<1>1. IsFiniteSet({}) /\ Cardinality({}) = 0
  BY FS_EmptySet
<1>2. Cardinality(SUBSET {}) = 2 ^ Cardinality({})
  BY <1>1, FS_SUBSET
<1>3. SUBSET {} = {{}}
  OBVIOUS
<1>4. Cardinality({{}}) = 1
  BY FS_Singleton
<1> QED BY <1>1, <1>2, <1>3, <1>4, Zenon


\* A set has twice as many subsets with one more element.
LEMMA PowersDouble ==
  ASSUME NEW n \in Nat
  PROVE  2 ^ n \in Nat /\ 2 ^ (n + 1) = 2 * 2 ^ n
<1> DEFINE S == 1 .. n
           x == n + 1
           T == S \cup {x}
           Without == SUBSET S
           With    == {U \cup {x} : U \in SUBSET S}
<1>1. IsFiniteSet(S) /\ Cardinality(S) = n /\ IsFiniteSet(T) /\ Cardinality(T) = n + 1
  <2>1. IsFiniteSet(S) /\ Cardinality(S) = n
    BY FS_Interval
  <2>2. IsFiniteSet(1 .. n + 1) /\ Cardinality(1 .. n + 1) = n + 1
    BY FS_Interval
  <2>3. T = 1 .. n + 1
    OBVIOUS
  <2> HIDE DEF S, T
  <2> QED BY <2>1, <2>2, <2>3
<1>2. x \notin S
  OBVIOUS
<1> HIDE DEF S, x
<1>3. IsFiniteSet(Without) /\ Cardinality(Without) = 2 ^ n /\ Cardinality(Without) \in Nat
  BY <1>1, FS_SUBSET, FS_CardinalityType
<1>4. Cardinality(SUBSET T) = 2 ^ (n + 1)
  <2> HIDE DEF T
  <2> QED BY <1>1, FS_SUBSET
<1>5. SUBSET T = Without \cup With
  <2>1. ASSUME NEW V \in SUBSET T PROVE V \in Without \cup With
    <3>1. CASE x \in V
      <4>1. V \ {x} \in SUBSET S /\ V = (V \ {x}) \cup {x}
        BY <3>1
      <4> QED BY <4>1
    <3>2. CASE x \notin V
      BY <3>2
    <3> QED BY <3>1, <3>2
  <2>2. \A V \in Without \cup With : V \in SUBSET T
    OBVIOUS
  <2> QED BY <2>1, <2>2
<1>6. Without \cap With = {}
  BY <1>2
<1>7. IsFiniteSet(With) /\ Cardinality(With) = Cardinality(Without)
  <2> DEFINE f == [U \in Without |-> U \cup {x}]
  <2>1. f \in Bijection(Without, With)
    <3>1. f \in [Without -> With]
      OBVIOUS
    <3>2. ASSUME NEW U \in Without, NEW V \in Without, f[U] = f[V] PROVE U = V
      <4>1. U \cup {x} = V \cup {x} /\ x \notin U /\ x \notin V
        BY <3>2, <1>2
      <4>2. U = (U \cup {x}) \ {x} /\ V = (V \cup {x}) \ {x}
        BY <4>1
      <4> QED BY <4>1, <4>2
    <3>3. \A W \in With : \E U \in Without : f[U] = W
      OBVIOUS
    <3> HIDE DEF f, Without, With
    <3>4. f \in Injection(Without, With)
      BY <3>1, <3>2 DEF Injection, IsInjective
    <3>5. f \in Surjection(Without, With)
      BY <3>1, <3>3, Zenon DEF Surjection
    <3> QED BY <3>4, <3>5 DEF Bijection
  <2> HIDE DEF f, Without, With
  <2> QED BY <2>1, <1>3, FS_Bijection DEF ExistsBijection
<1> HIDE DEF Without, With, T
<1>8. Cardinality(Without \cup With) = Cardinality(Without) + Cardinality(With)
  <2>1. /\ IsFiniteSet(Without \cup With)
        /\ Cardinality(Without \cup With)
             = Cardinality(Without) + Cardinality(With) - Cardinality(Without \cap With)
    BY <1>3, <1>7, FS_Union
  <2>2. Cardinality(Without \cap With) = 0
    BY <1>6, FS_EmptySet
  <2>3. \A a, b \in Nat : a + b - 0 = a + b
    OBVIOUS
  <2>4. Cardinality(Without) \in Nat /\ Cardinality(With) \in Nat
    BY <1>3, <1>7
  <2> QED BY <2>1, <2>2, <2>3, <2>4, Zenon
<1>9. \A a, b, c, p, q : p = a /\ q = c /\ c = a + b /\ b = a => q = p + p
  OBVIOUS
<1>10. 2 ^ (n + 1) = 2 ^ n + 2 ^ n
  BY <1>3, <1>4, <1>5, <1>7, <1>8, Zenon
<1>11. 2 ^ n \in Nat
  BY <1>3, Zenon
<1>12. \A a \in Nat : a + a = 2 * a
  OBVIOUS
<1> QED BY <1>10, <1>11, <1>12, Zenon


-----------------------------------------------------------------------------
\* g begins with first and goes on by step.
Follows(g, D, first, step) ==
  g \in [Nat -> D] /\ g[0] = first /\ \A n \in Nat : g[n + 1] = step[n][g[n]]

\* A function on the numbers may be defined by its first value and a step from each
\* value to the next.
LEMMA RecursionExists ==
  ASSUME NEW D, NEW first \in D, NEW step, \A n \in Nat, d \in D : step[n][d] \in D
  PROVE  \E g : Follows(g, D, first, step)
<1> DEFINE Starts(n, p) == /\ p \in [0 .. n -> D] /\ p[0] = first
                           /\ \A k \in 0 .. n - 1 : p[k + 1] = step[k][p[k]]
           Short == {n \in Nat : ~\E p : Starts(n, p)}
<1>1. Short = {}
  <2>1. SUFFICES ASSUME Short # {} PROVE FALSE
    OBVIOUS
  <2>2. PICK n \in Short : \A m \in Short : n <= m
    BY <2>1, LeastExists
  <2>3. n \in Nat /\ ~\E p : Starts(n, p)
    BY <2>2
  <2>4. n # 0
    <3>1. Starts(0, [k \in 0 .. 0 |-> first])
      OBVIOUS
    <3> QED BY <3>1, <2>3
  <2>5. n - 1 \in Nat /\ ~(n <= n - 1)
    BY <2>3, <2>4
  <2>6. PICK p : Starts(n - 1, p)
    <3> HIDE DEF Starts
    <3> QED BY <2>2, <2>5
  <2>7. p[n - 1] \in D /\ step[n - 1][p[n - 1]] \in D
    BY <2>5, <2>6
  <2> DEFINE q == [k \in 0 .. n |-> IF k = n THEN step[n - 1][p[n - 1]] ELSE p[k]]
  <2>8. q \in [0 .. n -> D] /\ q[0] = first
    BY <2>3, <2>4, <2>5, <2>6, <2>7
  <2>9. ASSUME NEW k \in 0 .. n - 1 PROVE q[k + 1] = step[k][q[k]]
    <3>1. CASE k = n - 1
      BY <3>1, <2>3, <2>5
    <3>2. CASE k # n - 1
      BY <3>2, <2>3, <2>5, <2>6
    <3> QED BY <3>1, <3>2
  <2>10. Starts(n, q)
    BY <2>8, <2>9
  <2> QED BY <2>3, <2>10
<1>2. ASSUME NEW m \in Nat, NEW n \in Nat, m <= n, NEW p, NEW q, Starts(m, p), Starts(n, q)
      PROVE  p[m] = q[m]
  <2> DEFINE Apart == {k \in 0 .. m : p[k] # q[k]}
  <2>1. SUFFICES ASSUME p[m] # q[m] PROVE FALSE
    OBVIOUS
  <2>2. PICK k \in Apart : \A j \in Apart : k <= j
    <3>1. m \in Apart /\ Apart \subseteq Nat
      BY <2>1
    <3> HIDE DEF Apart
    <3> QED BY <3>1, LeastExists
  <2>3. k \in 0 .. m /\ p[k] # q[k]
    BY <2>2
  <2>4. k # 0
    BY <2>3, <1>2
  <2>5. k - 1 \in 0 .. m - 1 /\ k - 1 \in 0 .. n - 1 /\ k - 1 \notin Apart
    BY <1>2, <2>2, <2>3, <2>4
  <2>6. p[k - 1] = q[k - 1]
    BY <1>2, <2>5
  <2>7. (k - 1) + 1 = k
    BY <2>3
  <2>8. p[k] = step[k - 1][p[k - 1]] /\ q[k] = step[k - 1][q[k - 1]]
    BY <1>2, <2>5, <2>7
  <2> QED BY <2>3, <2>6, <2>8
<1> DEFINE g == [n \in Nat |-> (CHOOSE p : Starts(n, p))[n]]
<1>3. ASSUME NEW n \in Nat PROVE Starts(n, CHOOSE p : Starts(n, p))
  <2>1. \E p : Starts(n, p)
    BY <1>1
  <2> HIDE DEF Starts
  <2> QED BY <2>1, Zenon
<1>4. g \in [Nat -> D]
  <2>1. ASSUME NEW n \in Nat PROVE g[n] \in D
    <3>1. PICK p : p = CHOOSE q : Starts(n, q)
      OBVIOUS
    <3>2. Starts(n, p)
      BY <1>3, <3>1, Zenon
    <3>3. p[n] \in D
      BY <3>2
    <3> QED BY <3>1, <3>3
  <2> QED BY <2>1
<1>5. g[0] = first
  BY <1>3
<1>6. ASSUME NEW n \in Nat PROVE g[n + 1] = step[n][g[n]]
  <2>1. PICK p : p = CHOOSE q : Starts(n, q)
    OBVIOUS
  <2>2. PICK r : r = CHOOSE q : Starts(n + 1, q)
    OBVIOUS
  <2>3. n + 1 \in Nat /\ n <= n + 1
    OBVIOUS
  <2>4. Starts(n, p) /\ Starts(n + 1, r)
    BY <1>3, <2>1, <2>2, <2>3, Zenon
  <2>5. p[n] = r[n]
    <3> HIDE DEF Starts
    <3> QED BY <1>2, <2>3, <2>4, Zenon
  <2>6. r[n + 1] = step[n][r[n]]
    BY <2>4
  <2>7. g[n] = p[n] /\ g[n + 1] = r[n + 1]
    BY <2>1, <2>2, <2>3, Zenon
  <2> QED BY <2>5, <2>6, <2>7
<1> HIDE DEF g
<1> QED BY <1>4, <1>5, <1>6 DEF Follows

\* A power of two is at least one.
LEMMA PowerIsPositive ==
  ASSUME NEW n \in Nat
  PROVE  2 ^ n \in Nat \ {0}
<1> DEFINE Positive == {k \in Nat : 2 ^ k \in Nat \ {0}}
<1>1. 0 \in Positive
  BY PowerOfZero
<1>2. ASSUME NEW k \in Nat, k \in Positive PROVE k + 1 \in Positive
  BY <1>2, PowersDouble
<1> HIDE DEF Positive
<1>3. n \in Positive
  BY <1>1, <1>2, NumberInduction
<1> QED BY <1>3 DEF Positive
=============================================================================
