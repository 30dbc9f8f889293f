--------------------------- MODULE AlgorithmsProofs ---------------------------
(***************************************************************************)
(* What the algorithms of Scoring, QuestionBank and QuestionQuality        *)
(* promise, for inputs of any length.                                      *)
(***************************************************************************)
EXTENDS MCAlgorithms, FiniteSetTheorems, SequenceTheorems, WellFoundedInduction, TLAPS

-----------------------------------------------------------------------------
(* Induction over numbers, with a set in the place of the predicate.       *)

\* A nonempty set of numbers has a least one.
LEMMA LeastOf ==
  ASSUME NEW T \in SUBSET Nat, T # {}
  PROVE  \E x \in T : \A y \in T : x <= y
<1> DEFINE R == {p \in Nat \X Nat : p[1] < p[2]}
<1>1. R = OpToRel(<, Nat)
  BY DEF OpToRel
<1>2. IsWellFoundedOn(R, Nat)
  BY <1>1, NatLessThanWellFounded
<1> HIDE DEF R
<1>3. \E x \in T : \A y \in T : ~ (<<y, x>> \in R)
  BY <1>2, WFMin
<1>4. \A x, y \in Nat : ~ (<<y, x>> \in R) => x <= y
  BY DEF R
<1> QED
  BY <1>3, <1>4

\* A set that has 0 and the successors of its numbers has every number.
LEMMA Induct ==
  ASSUME NEW T, 0 \in T, \A k \in Nat : k \in T => k + 1 \in T
  PROVE  Nat \subseteq T
<1> SUFFICES ASSUME Nat \ T # {} PROVE FALSE
  OBVIOUS
<1>1. PICK x \in Nat \ T : \A y \in Nat \ T : x <= y
  <2>1. Nat \ T \in SUBSET Nat
    OBVIOUS
  <2> QED
    BY <2>1, LeastOf
<1>2. x # 0 /\ x - 1 \in Nat /\ x - 1 \in T
  <2>1. x # 0
    OBVIOUS
  <2>2. x - 1 \in Nat
    BY <2>1
  <2>3. ~(x <= x - 1)
    OBVIOUS
  <2>4. x - 1 \notin Nat \ T
    BY <1>1, <2>3
  <2> QED
    BY <2>1, <2>2, <2>4
<1>3. (x - 1) + 1 \in T
  BY <1>2
<1>4. (x - 1) + 1 = x
  OBVIOUS
<1> QED
  BY <1>3, <1>4

\* The same up to a bound.
LEMMA InductTo ==
  ASSUME NEW n \in Nat, NEW T, 0 \in T, \A k \in Nat : (k < n /\ k \in T) => k + 1 \in T
  PROVE  \A k \in 0..n : k \in T
<1> DEFINE U == {k \in Nat : k <= n => k \in T}
<1>1. 0 \in U
  OBVIOUS
<1>2. ASSUME NEW k \in Nat, k \in U PROVE k + 1 \in U
  BY <1>2
<1> HIDE DEF U
<1>3. Nat \subseteq U
  BY <1>1, <1>2, Induct
<1> QED
  BY <1>3 DEF U

\* A nonempty set of numbers up to n has a greatest one.
LEMMA GreatestOf ==
  ASSUME NEW n \in Nat, NEW s \in SUBSET (1..n), s # {}
  PROVE  Max(s) \in s /\ \A y \in s : y <= Max(s)
<1> DEFINE T == {n - y : y \in s}
<1>y. \A y \in s : y \in 1..n /\ n - y \in Nat
  OBVIOUS
<1>1. T \in SUBSET Nat /\ T # {}
  BY <1>y
<1> HIDE DEF T
<1>2. PICK x \in T : \A y \in T : x <= y
  BY <1>1, LeastOf
<1>3. PICK z \in s : x = n - z
  BY DEF T
<1>4. \A y \in s : z >= y
  <2> SUFFICES ASSUME NEW y \in s PROVE z >= y
    OBVIOUS
  <2>1. n - y \in T
    BY DEF T
  <2>2. n - z <= n - y
    BY <1>2, <1>3, <2>1
  <2> QED
    BY <2>2
<1>5. \E m \in s : \A y \in s : m >= y
  BY <1>4
<1> QED
  BY <1>5 DEF Max

\* A set with the greatest number it may have.
LEMMA MaxIsTop ==
  ASSUME NEW k \in Nat, NEW s \in SUBSET (1..(k + 1)), k + 1 \in s
  PROVE  Max(s) = k + 1
<1>1. k + 1 \in Nat /\ s # {}
  OBVIOUS
<1>2. Max(s) \in s /\ \A y \in s : y <= Max(s)
  BY <1>1, GreatestOf
<1>3. Max(s) \in 1..(k + 1) /\ k + 1 <= Max(s)
  BY <1>2
<1> QED
  BY <1>3

-----------------------------------------------------------------------------
(* Folds.  FoldLeft chooses a function on sets of indices by the equation  *)
(* it satisfies.  Such a function exists (FoldsExist), and its values on   *)
(* the first k indices are what the fold has after k steps (FoldTrace).    *)

Folds(iter, n, base, Step) ==
  \A s \in SUBSET (1..n) :
    iter[s] = IF s = {} THEN base ELSE Step[<<iter[s \ {Max(s)}], Max(s)>>]

\* For any step there is a function that folds it.
LEMMA FoldsExist ==
  ASSUME NEW n \in Nat, NEW A, NEW base \in A, NEW Step \in [A \X (1..n) -> A]
  PROVE  \E iter \in [SUBSET (1..n) -> A] : Folds(iter, n, base, Step)
<1> DEFINE T == {k \in Nat : \E iter \in [SUBSET (1..k) -> A] : Folds(iter, k, base, Step)}
<1>1. 0 \in T
  <2> DEFINE iter == [s \in SUBSET (1..0) |-> base]
  <2>1. \A s \in SUBSET (1..0) : s = {}
    OBVIOUS
  <2>2. iter \in [SUBSET (1..0) -> A] /\ Folds(iter, 0, base, Step)
    BY <2>1 DEF Folds
  <2> QED
    BY <2>2
<1>2. ASSUME NEW k \in Nat, k < n, k \in T PROVE k + 1 \in T
  <2>1. PICK f \in [SUBSET (1..k) -> A] : Folds(f, k, base, Step)
    BY <1>2
  <2> DEFINE iter == [s \in SUBSET (1..(k + 1)) |->
                        IF k + 1 \in s THEN Step[<<f[s \ {k + 1}], k + 1>>] ELSE f[s]]
  <2>2. \A s \in SUBSET (1..(k + 1)) : s \ {k + 1} \in SUBSET (1..k)
    OBVIOUS
  <2>3. \A s \in SUBSET (1..(k + 1)) : k + 1 \notin s => s \in SUBSET (1..k)
    OBVIOUS
  <2>4. k + 1 \in 1..n
    BY <1>2
  <2>5. iter \in [SUBSET (1..(k + 1)) -> A]
    <3> SUFFICES ASSUME NEW s \in SUBSET (1..(k + 1))
                 PROVE  (IF k + 1 \in s THEN Step[<<f[s \ {k + 1}], k + 1>>] ELSE f[s]) \in A
      OBVIOUS
    <3>1. CASE k + 1 \in s
      <4>1. f[s \ {k + 1}] \in A
        BY <2>2
      <4> QED
        BY <3>1, <4>1, <2>4
    <3>2. CASE k + 1 \notin s
      BY <3>2, <2>3
    <3> QED
      BY <3>1, <3>2
  <2>6. Folds(iter, k + 1, base, Step)
    <3> SUFFICES ASSUME NEW s \in SUBSET (1..(k + 1))
                 PROVE  iter[s] = IF s = {} THEN base ELSE Step[<<iter[s \ {Max(s)}], Max(s)>>]
      BY DEF Folds
    <3>1. CASE k + 1 \in s
      <4>1. Max(s) = k + 1
        BY <3>1, MaxIsTop
      <4>2. k + 1 \notin s \ {k + 1} /\ s \ {k + 1} \in SUBSET (1..(k + 1))
        OBVIOUS
      <4>3. iter[s \ {k + 1}] = f[s \ {k + 1}]
        BY <4>2
      <4>4. iter[s] = Step[<<f[s \ {k + 1}], k + 1>>]
        BY <3>1
      <4> QED
        BY <3>1, <4>1, <4>3, <4>4
    <3>2. CASE k + 1 \notin s
      <4>1. s \in SUBSET (1..k)
        BY <3>2, <2>3
      <4>2. iter[s] = f[s]
        BY <3>2
      <4>3. s \ {Max(s)} \in SUBSET (1..(k + 1)) /\ k + 1 \notin s \ {Max(s)}
        BY <3>2
      <4>4. iter[s \ {Max(s)}] = f[s \ {Max(s)}]
        BY <4>3
      <4>5. f[s] = IF s = {} THEN base ELSE Step[<<f[s \ {Max(s)}], Max(s)>>]
        BY <2>1, <4>1 DEF Folds
      <4> QED
        BY <4>2, <4>4, <4>5
    <3> QED
      BY <3>1, <3>2
  <2> HIDE DEF iter
  <2>7. \E g \in [SUBSET (1..(k + 1)) -> A] : Folds(g, k + 1, base, Step)
    BY <2>5, <2>6
  <2> QED
    BY <2>7
<1> HIDE DEF T
<1>3. \A k \in 0..n : k \in T
  BY <1>1, <1>2, InductTo
<1>4. n \in T
  BY <1>3
<1> QED
  BY <1>4 DEF T

\* What a fold has after k steps: v[k] is the base for k = 0, and otherwise a step from v[k - 1].
Traces(v, n, A, base, Step) ==
  /\ v \in [0..n -> A]
  /\ v[0] = base
  /\ \A k \in 1..n : v[k] = Step[<<v[k - 1], k>>]

\* A function that satisfies the equation of a fold has its trace on the first k indices.
LEMMA FoldTrace ==
  ASSUME NEW n \in Nat, NEW A, NEW base \in A, NEW Step \in [A \X (1..n) -> A], NEW iter,
         iter[{}] = base,
         \A s \in SUBSET (1..n) : (s # {} /\ iter[s \ {Max(s)}] \in A) =>
                                    iter[s] = Step[<<iter[s \ {Max(s)}], Max(s)>>]
  PROVE  Traces([k \in 0..n |-> iter[1..k]], n, A, base, Step)
<1> DEFINE T == {k \in Nat : iter[1..k] \in A}
<1>1. 1..0 = {}
  OBVIOUS
<1>2. 0 \in T
  BY <1>1
<1>3. ASSUME NEW k \in Nat, k < n, iter[1..k] \in A
      PROVE  iter[1..(k + 1)] \in A /\ iter[1..(k + 1)] = Step[<<iter[1..k], k + 1>>]
  <2>1. 1..(k + 1) \in SUBSET (1..(k + 1)) /\ k + 1 \in 1..(k + 1)
    OBVIOUS
  <2>2. Max(1..(k + 1)) = k + 1
    BY <2>1, MaxIsTop
  <2>3. (1..(k + 1)) \ {k + 1} = 1..k
    OBVIOUS
  <2>4. 1..(k + 1) \in SUBSET (1..n) /\ 1..(k + 1) # {} /\ k + 1 \in 1..n
    BY <1>3
  <2>5. iter[1..(k + 1)] = Step[<<iter[1..k], k + 1>>]
    BY <1>3, <2>2, <2>3, <2>4
  <2>6. Step[<<iter[1..k], k + 1>>] \in A
    BY <1>3, <2>4
  <2> QED
    BY <2>5, <2>6
<1>4. ASSUME NEW k \in Nat, k < n, k \in T PROVE k + 1 \in T
  <2>1. iter[1..k] \in A
    BY <1>4
  <2>2. iter[1..(k + 1)] \in A
    BY <1>3, <1>4, <2>1
  <2> QED
    BY <2>2
<1> HIDE DEF T
<1>5. \A k \in 0..n : k \in T
  BY <1>2, <1>4, InductTo
<1>6. \A k \in 0..n : iter[1..k] \in A
  BY <1>5 DEF T
<1>7. \A k \in 1..n : iter[1..k] = Step[<<iter[1..(k - 1)], k>>]
  <2> SUFFICES ASSUME NEW k \in 1..n PROVE iter[1..k] = Step[<<iter[1..(k - 1)], k>>]
    OBVIOUS
  <2>1. k - 1 \in Nat /\ k - 1 < n /\ (k - 1) + 1 = k /\ k - 1 \in 0..n
    OBVIOUS
  <2>2. iter[1..((k - 1) + 1)] = Step[<<iter[1..(k - 1)], (k - 1) + 1>>]
    BY <2>1, <1>6, <1>3
  <2> QED
    BY <2>1, <2>2
<1> DEFINE v == [k \in 0..n |-> iter[1..k]]
<1>8. v \in [0..n -> A] /\ v[0] = base
  BY <1>1, <1>6
<1>9. \A k \in 1..n : v[k] = Step[<<v[k - 1], k>>]
  BY <1>7
<1> QED
  BY <1>8, <1>9 DEF Traces

-----------------------------------------------------------------------------
(* Sums.                                                                   *)

\* Total adds one element after the other.
LEMMA TotalTrace ==
  ASSUME NEW n \in Nat, NEW seq \in [1..n -> Int]
  PROVE  \E v \in [0..n -> Int] :
           /\ v[0] = 0
           /\ \A k \in 1..n : v[k] = v[k - 1] + seq[k]
           /\ Total(seq) = v[n]
<1> DEFINE Step == [p \in Int \X (1..n) |-> p[1] + seq[p[2]]]
           Eqn(iter) == iter = [s \in SUBSET DOMAIN seq |->
                                  IF s = {} THEN 0 ELSE iter[s \ {Max(s)}] + seq[Max(s)]]
           fold == CHOOSE iter : Eqn(iter)
<1>1. Total(seq) = fold[DOMAIN seq]
  BY DEF Total, FoldLeft, MapThenFoldSet
<1>2. \A x \in Int, k \in 1..n : Step[<<x, k>>] = x + seq[k]
  OBVIOUS
<1>3. DOMAIN seq = 1..n
  OBVIOUS
<1>4. PICK A, zero : A = Int /\ zero = 0
  OBVIOUS
<1>5. zero \in A /\ Step \in [A \X (1..n) -> A]
  BY <1>4
<1>6. \A s \in SUBSET (1..n) : s # {} => Max(s) \in 1..n /\ s \ {Max(s)} \in SUBSET (1..n)
  BY GreatestOf
<1> HIDE DEF Step
<1>7. Eqn(fold)
  <2>1. PICK iter \in [SUBSET (1..n) -> A] : Folds(iter, n, zero, Step)
    BY <1>5, FoldsExist
  <2>2. \A s \in SUBSET (1..n) :
          iter[s] = IF s = {} THEN 0 ELSE iter[s \ {Max(s)}] + seq[Max(s)]
    BY <2>1, <1>2, <1>4, <1>6 DEF Folds
  <2>3. Eqn(iter)
    BY <2>2, <1>3
  <2> HIDE DEF Eqn
  <2> QED
    BY <2>3
<1> HIDE DEF fold
<1>8. fold[{}] = zero
  BY <1>7, <1>3, <1>4
<1>9. \A s \in SUBSET (1..n) : s # {} => fold[s] = fold[s \ {Max(s)}] + seq[Max(s)]
  BY <1>7, <1>3
<1> HIDE DEF Eqn
<1>10. \A s \in SUBSET (1..n) : (s # {} /\ fold[s \ {Max(s)}] \in A) =>
                                    fold[s] = Step[<<fold[s \ {Max(s)}], Max(s)>>]
  BY <1>2, <1>4, <1>6, <1>9
<1> DEFINE v == [k \in 0..n |-> fold[1..k]]
<1>11. Traces(v, n, A, zero, Step)
  <2> HIDE DEF v
  <2>1. v = [k \in 0..n |-> fold[1..k]]
    BY DEF v
  <2> QED
    BY <2>1, <1>5, <1>8, <1>10, FoldTrace
<1>12. Total(seq) = v[n]
  BY <1>1, <1>3
<1> HIDE DEF v
<1>13. v \in [0..n -> Int] /\ v[0] = 0
  BY <1>4, <1>11 DEF Traces
<1>14. \A k \in 1..n : v[k] = v[k - 1] + seq[k]
  <2> SUFFICES ASSUME NEW k \in 1..n PROVE v[k] = v[k - 1] + seq[k]
    OBVIOUS
  <2>1. v[k] = Step[<<v[k - 1], k>>]
    BY <1>11 DEF Traces
  <2>2. v[k - 1] \in Int
    BY <1>13
  <2> QED
    BY <2>1, <2>2, <1>2
<1> QED
  BY <1>12, <1>13, <1>14

-----------------------------------------------------------------------------
(* Least and greatest elements, counting and division.                     *)

\* A nonempty set of numbers f[1], ..., f[n] has its Min and its Max.
LEMMA ExtremesOf ==
  ASSUME NEW n \in Nat, n > 0, NEW f \in [1..n -> Int], NEW s, s = {f[i] : i \in 1..n}
  PROVE  /\ Min(s) \in s /\ \A y \in s : Min(s) <= y
         /\ Max(s) \in s /\ \A y \in s : y <= Max(s)
<1> DEFINE Both(k) == \E p, q \in 1..k : \A i \in 1..k : f[p] <= f[i] /\ f[i] <= f[q]
           T == {k \in Nat : k > 0 => Both(k)}
<1>1. 0 \in T
  OBVIOUS
<1>2. ASSUME NEW k \in Nat, k < n, k \in T PROVE k + 1 \in T
  <2>1. \A i \in 1..(k + 1) : f[i] \in Int /\ (i = k + 1 \/ i \in 1..k)
    BY <1>2
  <2>2. CASE k = 0
    <3>1. \A i \in 1..(k + 1) : f[1] <= f[i] /\ f[i] <= f[1]
      BY <2>1, <2>2
    <3> QED
      BY <3>1, <2>2
  <2>3. CASE k > 0
    <3>1. PICK p, q \in 1..k : \A i \in 1..k : f[p] <= f[i] /\ f[i] <= f[q]
      BY <1>2, <2>3
    <3>2. p \in 1..(k + 1) /\ q \in 1..(k + 1) /\ k + 1 \in 1..(k + 1)
      OBVIOUS
    <3>n. f[p] \in Int /\ f[q] \in Int /\ f[k + 1] \in Int
      BY <2>1, <3>2
    <3>3. PICK p2 \in 1..(k + 1) : f[p2] <= f[p] /\ f[p2] <= f[k + 1]
      <4>1. CASE f[p] <= f[k + 1]
        BY <4>1, <3>2, <3>n
      <4>2. CASE ~(f[p] <= f[k + 1])
        <5>1. f[k + 1] <= f[p] /\ f[k + 1] <= f[k + 1]
          BY <4>2, <3>n
        <5> QED
          BY <5>1, <3>2
      <4> QED
        BY <4>1, <4>2
    <3>4. PICK q2 \in 1..(k + 1) : f[q] <= f[q2] /\ f[k + 1] <= f[q2]
      <4>1. CASE f[k + 1] <= f[q]
        BY <4>1, <3>2, <3>n
      <4>2. CASE ~(f[k + 1] <= f[q])
        <5>1. f[q] <= f[k + 1] /\ f[k + 1] <= f[k + 1]
          BY <4>2, <3>n
        <5> QED
          BY <5>1, <3>2
      <4> QED
        BY <4>1, <4>2
    <3>5. ASSUME NEW i \in 1..(k + 1) PROVE f[p2] <= f[i] /\ f[i] <= f[q2]
      <4>1. f[i] \in Int /\ f[p2] \in Int /\ f[q2] \in Int
        BY <2>1
      <4>2. CASE i = k + 1
        BY <4>2, <3>3, <3>4
      <4>3. CASE i \in 1..k
        <5>1. f[p] <= f[i] /\ f[i] <= f[q]
          BY <4>3, <3>1
        <5>2. f[p2] <= f[p] /\ f[q] <= f[q2]
          BY <3>3, <3>4
        <5>3. \A x, y, z \in Int : x <= y /\ y <= z => x <= z
          OBVIOUS
        <5>4. f[p2] <= f[i]
          BY <5>1, <5>2, <5>3, <4>1, <3>n
        <5>5. f[i] <= f[q2]
          BY <5>1, <5>2, <5>3, <4>1, <3>n
        <5> QED
          BY <5>4, <5>5
      <4> QED
        BY <4>2, <4>3, <2>1
    <3>6. Both(k + 1)
      BY <3>5
    <3> HIDE DEF Both
    <3> QED
      BY <3>6
  <2> QED
    BY <2>2, <2>3
<1> HIDE DEF T
<1>3. \A k \in 0..n : k \in T
  BY <1>1, <1>2, InductTo
<1>4. n \in T
  BY <1>3
<1>5. PICK p, q \in 1..n : \A i \in 1..n : f[p] <= f[i] /\ f[i] <= f[q]
  BY <1>4 DEF T
<1>6. \A i \in 1..n : f[i] \in Int
  OBVIOUS
<1>7. \E x \in s : \A y \in s : x <= y
  BY <1>5
<1>8. \E x \in s : \A y \in s : x >= y
  BY <1>5, <1>6
<1>9. \A y \in s : y \in Int
  BY <1>6
<1> QED
  BY <1>7, <1>8, <1>9 DEF Min, Max

\* The least number of a nonempty set of indices.
LEMMA LeastIndex ==
  ASSUME NEW n \in Nat, NEW s \in SUBSET (1..n), s # {}
  PROVE  Min(s) \in s /\ \A y \in s : Min(s) <= y
<1>1. s \in SUBSET Nat
  OBVIOUS
<1>2. \E x \in s : \A y \in s : x <= y
  BY <1>1, LeastOf
<1> QED
  BY <1>2 DEF Min

\* How many of the first numbers are in a set, one number after the other.
LEMMA CountStep ==
  ASSUME NEW n \in Nat, NEW T
  PROVE  /\ Cardinality({i \in 1..n : i \in T}) \in 0..n
         /\ Cardinality({i \in 1..(n + 1) : i \in T}) =
              Cardinality({i \in 1..n : i \in T}) + (IF n + 1 \in T THEN 1 ELSE 0)
<1> DEFINE C == {i \in 1..n : i \in T}
           D == {i \in 1..(n + 1) : i \in T}
<1>1. IsFiniteSet(1..n) /\ Cardinality(1..n) = n
  BY FS_Interval
<1>2. C \in SUBSET (1..n)
  OBVIOUS
<1>3. IsFiniteSet(C) /\ Cardinality(C) <= n
  BY <1>1, <1>2, FS_Subset
<1>4. Cardinality(C) \in 0..n
  BY <1>3, FS_CardinalityType
<1>5. CASE n + 1 \in T
  <2>1. D = C \cup {n + 1} /\ n + 1 \notin C
    BY <1>5
  <2> HIDE DEF C, D
  <2>2. Cardinality(D) = Cardinality(C) + 1
    BY <2>1, <1>3, FS_AddElement
  <2> QED
    BY <2>2, <1>4, <1>5 DEF C, D
<1>6. CASE n + 1 \notin T
  <2>1. D = C
    BY <1>6
  <2> QED
    BY <2>1, <1>4, <1>6
<1> QED
  BY <1>5, <1>6

\* A quotient lies where the products say.
LEMMA DivWithin ==
  ASSUME NEW x \in Int, NEW d \in Nat, d > 0, NEW q \in Int
  PROVE  /\ x \div d \in Int
         /\ q * d <= x => q <= x \div d
         /\ x < (q + 1) * d => x \div d <= q
<1> DEFINE r == x \div d
           e == x % d
<1>1. r \in Int /\ e \in 0..(d - 1) /\ x = d * r + e
  OBVIOUS
<1> HIDE DEF r, e
<1>2. ASSUME q * d <= x, r < q PROVE FALSE
  <2>1. PICK h \in Nat : q = r + 1 + h
    <3>1. q - r - 1 \in Nat /\ q = r + 1 + (q - r - 1)
      BY <1>1, <1>2
    <3> QED
      BY <3>1
  <2>2. q * d = d * r + d + h * d
    BY <2>1, <1>1
  <2>3. h * d \in Nat /\ d * r \in Int
    BY <2>1, <1>1
  <2> QED
    BY <1>1, <1>2, <2>2, <2>3
<1>3. ASSUME x < (q + 1) * d, q < r PROVE FALSE
  <2>1. PICK h \in Nat : r = q + 1 + h
    <3>1. r - q - 1 \in Nat /\ r = q + 1 + (r - q - 1)
      BY <1>1, <1>3
    <3> QED
      BY <3>1
  <2>2. d * r = (q + 1) * d + h * d
    <3>1. d * (q + 1 + h) = (q + 1) * d + h * d
      OBVIOUS
    <3> QED
      BY <2>1, <3>1
  <2>3. h * d \in Nat /\ (q + 1) * d \in Int
    BY <2>1, <1>1
  <2> QED
    BY <1>1, <1>3, <2>2, <2>3
<1>4. r \in Int
  BY <1>1
<1>5. (q * d <= x => q <= r) /\ (x < (q + 1) * d => r <= q)
  BY <1>2, <1>3, <1>4
<1> QED
  BY <1>4, <1>5 DEF r

\* A larger number has no smaller quotient.
LEMMA DivMonotone ==
  ASSUME NEW x \in Int, NEW y \in Int, x <= y, NEW d \in Nat, d > 0
  PROVE  x \div d <= y \div d
<1> DEFINE q == x \div d
           e == x % d
<1>1. q \in Int /\ q * d <= x
  <2>1. q \in Int /\ e \in 0..(d - 1) /\ x = d * q + e
    OBVIOUS
  <2> HIDE DEF q, e
  <2>2. d * q \in Int /\ d * q = q * d
    BY <2>1
  <2> QED
    BY <2>1, <2>2
<1> HIDE DEF q, e
<1>2. q * d \in Int
  BY <1>1
<1>3. q * d <= y
  BY <1>1, <1>2
<1>4. q <= y \div d
  BY <1>1, <1>3, DivWithin
<1> QED
  BY <1>4 DEF q

\* A rounded quotient lies between bounds of the exact one.
LEMMA RoundBetween ==
  ASSUME NEW x \in Int, NEW d \in Nat, d > 0, NEW low \in Int, NEW high \in Int,
         low * d <= x, x <= high * d
  PROVE  low <= RoundDiv(x, d) /\ RoundDiv(x, d) <= high
<1>1. 2 * x + d \in Int /\ 2 * d \in Nat /\ 2 * d > 0 /\ low * d \in Int /\ high * d \in Int
  OBVIOUS
<1>2. low * (2 * d) = 2 * (low * d) /\ (high + 1) * (2 * d) = 2 * (high * d) + 2 * d
  OBVIOUS
<1>3. low * (2 * d) <= 2 * x + d /\ 2 * x + d < (high + 1) * (2 * d)
  BY <1>1, <1>2
<1>4. low <= (2 * x + d) \div (2 * d)
  BY <1>1, <1>3, DivWithin
<1>5. (2 * x + d) \div (2 * d) <= high
  BY <1>1, <1>3, DivWithin
<1> QED
  BY <1>4, <1>5 DEF RoundDiv

\* Rounding keeps the order.
LEMMA RoundMonotone ==
  ASSUME NEW x \in Int, NEW y \in Int, x <= y, NEW d \in Nat, d > 0
  PROVE  RoundDiv(x, d) <= RoundDiv(y, d)
<1>1. 2 * x + d \in Int /\ 2 * y + d \in Int /\ 2 * x + d <= 2 * y + d /\ 2 * d \in Nat /\ 2 * d > 0
  OBVIOUS
<1>2. (2 * x + d) \div (2 * d) <= (2 * y + d) \div (2 * d)
  BY <1>1, DivMonotone
<1> QED
  BY <1>2 DEF RoundDiv

-----------------------------------------------------------------------------
(* Questions by sub-turns.                                                 *)

VerdictOver(U, V, W) ==
  [nodes : SUBSET U, edges : SUBSET V, extensions : SUBSET W, recitation : 0..10,
   answered : BOOLEAN, adequate : BOOLEAN, probe : BOOLEAN]

Ends(evals, followups) ==
  {i \in 1..Len(evals) : evals[i].adequate \/ ~evals[i].probe \/ i \in {followups + 1, Len(evals)}}

\* take_question stops at the first round that ends it.
LEMMA RoundsEnd ==
  ASSUME NEW A, NEW evals \in Seq(A), evals # <<>>, NEW followups \in Nat
  PROVE  /\ Rounds(evals, followups) \in 1..Len(evals)
         /\ Rounds(evals, followups) \in Ends(evals, followups)
         /\ \A i \in Ends(evals, followups) : Rounds(evals, followups) <= i
<1>1. Len(evals) \in Nat /\ Len(evals) > 0
  OBVIOUS
<1>2. Len(evals) \in Ends(evals, followups)
  BY <1>1 DEF Ends
<1>3. Ends(evals, followups) \in SUBSET (1..Len(evals)) /\ Ends(evals, followups) # {}
  BY <1>2 DEF Ends
<1>4. Rounds(evals, followups) = Min(Ends(evals, followups))
  BY DEF Rounds, Ends
<1> QED
  BY <1>1, <1>3, <1>4, LeastIndex

\* One more follow-up never makes it fewer rounds, and an adequate answer ends both alike.
LEMMA RoundsGrow ==
  ASSUME NEW A, NEW evals \in Seq(A), evals # <<>>, NEW followups \in Nat
  PROVE  /\ Rounds(evals, followups) <= Rounds(evals, followups + 1)
         /\ evals[Rounds(evals, followups)].adequate =>
              Rounds(evals, followups) = Rounds(evals, followups + 1)
<1> DEFINE r == Rounds(evals, followups)
           s == Rounds(evals, followups + 1)
<1>1. Len(evals) \in Nat
  OBVIOUS
<1>2. r \in 1..Len(evals) /\ r \in Ends(evals, followups) /\ \A i \in Ends(evals, followups) : r <= i
  BY RoundsEnd
<1>3. followups + 1 \in Nat
  OBVIOUS
<1>4. /\ s \in 1..Len(evals) /\ s \in Ends(evals, followups + 1)
      /\ \A i \in Ends(evals, followups + 1) : s <= i
  BY <1>3, RoundsEnd
<1> HIDE DEF r, s
<1>5. r <= s
  <2>1. CASE s = (followups + 1) + 1
    <3>1. followups + 1 \in 1..Len(evals)
      BY <2>1, <1>1, <1>4
    <3>2. followups + 1 \in Ends(evals, followups)
      BY <3>1 DEF Ends
    <3>3. r <= followups + 1
      BY <3>2, <1>2
    <3> QED
      BY <3>3, <2>1, <1>2, <1>4
  <2>2. CASE s # (followups + 1) + 1
    <3>1. s \in Ends(evals, followups)
      BY <2>2, <1>4 DEF Ends
    <3> QED
      BY <3>1, <1>2
  <2> QED
    BY <2>1, <2>2
<1>6. ASSUME evals[r].adequate PROVE r = s
  <2>1. r \in Ends(evals, followups + 1)
    BY <1>6, <1>2 DEF Ends
  <2>2. s <= r
    BY <2>1, <1>4
  <2> QED
    BY <2>2, <1>1, <1>2, <1>4, <1>5
<1> QED
  BY <1>5, <1>6 DEF r, s

\* The first rounds of a question.
LEMMA Prefix ==
  ASSUME NEW A, NEW evals \in Seq(A), NEW r \in 1..Len(evals)
  PROVE  /\ SubSeq(evals, 1, r) \in Seq(A) /\ Len(SubSeq(evals, 1, r)) = r
         /\ DOMAIN SubSeq(evals, 1, r) = 1..r /\ SubSeq(evals, 1, r) # <<>>
         /\ \A i \in 1..r : SubSeq(evals, 1, r)[i] = evals[i]
         /\ Last(SubSeq(evals, 1, r)) = evals[r]
<1> DEFINE u == SubSeq(evals, 1, r)
<1>1. 1 \in 1..(Len(evals) + 1) /\ r \in (1 - 1)..Len(evals)
  OBVIOUS
<1>2. u \in Seq(A) /\ Len(u) = r /\ \A i \in 1..r : u[i] = evals[i]
  BY <1>1, SubSeqProperties
<1> HIDE DEF u
<1>3. DOMAIN u = 1..r /\ u # <<>>
  BY <1>2
<1>4. Last(u) = evals[r]
  BY <1>2 DEF Last
<1> QED
  BY <1>2, <1>3, <1>4 DEF u

\* A question whose answers were never adequate took every round a probe was left for.
THEOREM EveryProbeIsFollowed ==
  ASSUME NEW A, NEW evals \in Seq(A), NEW path, NEW followups \in Nat
  PROVE  ProbesFollowed(path, evals, followups)
<1> SUFFICES ASSUME evals # <<>>
             PROVE  LET q == TakeQuestion(path, evals, followups)
                    IN q.adequate \/ q.turns \in {followups + 1, Len(evals)} \/ ~evals[q.turns].probe
  BY DEF ProbesFollowed
<1> DEFINE r == Rounds(evals, followups)
           q == TakeQuestion(path, evals, followups)
<1>1. r \in 1..Len(evals) /\ r \in Ends(evals, followups)
  BY RoundsEnd
<1>2. q.turns = Len(SubSeq(evals, 1, r)) /\ q.adequate = Last(SubSeq(evals, 1, r)).adequate
  BY DEF TakeQuestion
<1> HIDE DEF r, q
<1>3. q.turns = r /\ q.adequate = evals[r].adequate
  BY <1>1, <1>2, Prefix
<1>4. q.adequate \/ q.turns \in {followups + 1, Len(evals)} \/ ~evals[q.turns].probe
  BY <1>1, <1>3 DEF Ends
<1> QED
  BY <1>4 DEF q

\* The score's formula, of the reasoning R, the shares a and b of P that the nodes and edges have,
\* and the extensions g of X.
Formula(R, a, b, g, P, X) == 2 * R * X * (8 * a + 12 * b) + 3 * g * (20 * P - R * (a + b))

\* Products keep the order.
LEMMA TimesMonotone ==
  ASSUME NEW x \in Int, NEW y \in Int, x <= y, NEW z \in Nat
  PROVE  x * z <= y * z /\ z * x <= z * y
<1>1. PICK h \in Nat : y = x + h
  <2>1. y - x \in Nat /\ y = x + (y - x)
    OBVIOUS
  <2> QED
    BY <2>1
<1>2. (x + h) * z = x * z + h * z /\ z * (x + h) = z * x + h * z /\ h * z \in Nat /\ x * z \in Int /\ z * x \in Int
  OBVIOUS
<1> QED
  BY <1>1, <1>2

\* The formula grows with the extensions.
LEMMA FormulaExtensions ==
  ASSUME NEW R \in 0..10, NEW P \in Nat, NEW a \in 0..P, NEW b \in 0..P, NEW X \in Nat, NEW g \in Nat, NEW h \in Nat
  PROVE  Formula(R, a, b, g, P, X) <= Formula(R, a, b, g + h, P, X)
<1>1. a + b \in Nat /\ a + b <= 2 * P
  OBVIOUS
<1>2. R * (a + b) <= 10 * (2 * P)
  <2>1. R * (a + b) <= R * (2 * P)
    BY <1>1, TimesMonotone
  <2>2. R * (2 * P) <= 10 * (2 * P)
    BY TimesMonotone
  <2> QED
    BY <2>1, <2>2
<1> DEFINE m == R * (a + b)
           k == 2 * R * X * (8 * a + 12 * b)
<1>3. m \in Int /\ k \in Int
  OBVIOUS
<1>4. Formula(R, a, b, g, P, X) = k + 3 * g * (20 * P - m)
      /\ Formula(R, a, b, g + h, P, X) = k + 3 * (g + h) * (20 * P - m)
  BY DEF Formula
<1> HIDE DEF m, k
<1>5. 20 * P - m \in Nat
  BY <1>2, <1>3 DEF m
<1>6. PICK d \in Nat : d = 20 * P - m
  BY <1>5
<1>7. 3 * (g + h) * d = 3 * g * d + 3 * (h * d) /\ h * d \in Nat /\ 3 * g * d \in Int
  OBVIOUS
<1> QED
  BY <1>3, <1>4, <1>6, <1>7

\* The formula grows with the reasoning.
LEMMA FormulaReasoning ==
  ASSUME NEW R \in Nat, NEW h \in Nat, NEW P \in Nat, NEW a \in Nat, NEW b \in Nat, NEW X \in Nat, NEW g \in 0..X
  PROVE  Formula(R, a, b, g, P, X) <= Formula(R + h, a, b, g, P, X)
<1>1. PICK e \in Nat : X = g + e
  <2>1. X - g \in Nat /\ X = g + (X - g)
    OBVIOUS
  <2> QED
    BY <2>1
<1>2. Formula(R + h, a, b, g, P, X) =
        Formula(R, a, b, g, P, X) + h * (13 * (g * a) + 21 * (g * b) + 16 * (e * a) + 24 * (e * b))
  BY <1>1 DEF Formula
<1>3. Formula(R, a, b, g, P, X) \in Int
  BY DEF Formula
<1>4. h * (13 * (g * a) + 21 * (g * b) + 16 * (e * a) + 24 * (e * b)) \in Nat
  <2>1. g * a \in Nat /\ g * b \in Nat /\ e * a \in Nat /\ e * b \in Nat
    OBVIOUS
  <2>2. 13 * (g * a) + 21 * (g * b) + 16 * (e * a) + 24 * (e * b) \in Nat
    BY <2>1
  <2> QED
    BY <2>2
<1> QED
  BY <1>2, <1>3, <1>4

\* The formula grows with the nodes and with the edges.
LEMMA FormulaShares ==
  ASSUME NEW R \in Nat, NEW P \in Nat, NEW a \in Nat, NEW b \in Nat, NEW X \in Nat, NEW g \in 0..X,
         NEW h \in Nat, NEW j \in Nat
  PROVE  Formula(R, a, b, g, P, X) <= Formula(R, a + h, b + j, g, P, X)
<1>1. PICK e \in Nat : X = g + e
  <2>1. X - g \in Nat /\ X = g + (X - g)
    OBVIOUS
  <2> QED
    BY <2>1
<1>2. Formula(R, a + h, b + j, g, P, X) =
        Formula(R, a, b, g, P, X) + R * (13 * (g * h) + 21 * (g * j) + 16 * (e * h) + 24 * (e * j))
  BY <1>1 DEF Formula
<1>3. Formula(R, a, b, g, P, X) \in Int
  BY DEF Formula
<1>4. R * (13 * (g * h) + 21 * (g * j) + 16 * (e * h) + 24 * (e * j)) \in Nat
  <2>1. g * h \in Nat /\ g * j \in Nat /\ e * h \in Nat /\ e * j \in Nat
    OBVIOUS
  <2>2. 13 * (g * h) + 21 * (g * j) + 16 * (e * h) + 24 * (e * j) \in Nat
    BY <2>1
  <2> QED
    BY <2>2
<1> QED
  BY <1>2, <1>3, <1>4

\* Reasoning, nodes, edges and extensions: more of any is no smaller a score.
LEMMA FormulaMonotone ==
  ASSUME NEW P \in Nat, NEW X \in Nat, NEW R \in 0..10, NEW S2 \in 0..10, R <= S2,
         NEW a \in Nat, NEW a2 \in 0..P, a <= a2, NEW b \in Nat, NEW b2 \in 0..P, b <= b2,
         NEW g \in Nat, NEW g2 \in 0..X, g <= g2
  PROVE  /\ Formula(R, a, b, g, P, X) \in Int /\ Formula(S2, a2, b2, g2, P, X) \in Int
         /\ Formula(R, a, b, g, P, X) <= Formula(S2, a2, b2, g2, P, X)
<1>1. \A x, y \in Nat : x <= y => \E h \in Nat : y = x + h
  <2> SUFFICES ASSUME NEW x \in Nat, NEW y \in Nat, x <= y PROVE \E h \in Nat : y = x + h
    OBVIOUS
  <2>1. y - x \in Nat /\ y = x + (y - x)
    OBVIOUS
  <2> QED
    BY <2>1
<1>2. PICK h1 \in Nat : S2 = R + h1
  BY <1>1
<1>3. PICK h2 \in Nat : a2 = a + h2
  BY <1>1
<1>4. PICK h3 \in Nat : b2 = b + h3
  BY <1>1
<1>5. PICK h4 \in Nat : g2 = g + h4
  BY <1>1
<1>6. g \in 0..X /\ a \in 0..P /\ b \in 0..P /\ R \in Nat /\ S2 \in Nat
  OBVIOUS
<1>7. Formula(R, a, b, g, P, X) <= Formula(S2, a, b, g, P, X)
  BY <1>2, <1>6, FormulaReasoning
<1>8. Formula(S2, a, b, g, P, X) <= Formula(S2, a2, b2, g, P, X)
  BY <1>3, <1>4, <1>6, FormulaShares
<1>9. Formula(S2, a2, b2, g, P, X) <= Formula(S2, a2, b2, g2, P, X)
  BY <1>5, FormulaExtensions
<1>10. /\ Formula(R, a, b, g, P, X) \in Int /\ Formula(S2, a, b, g, P, X) \in Int
       /\ Formula(S2, a2, b2, g, P, X) \in Int /\ Formula(S2, a2, b2, g2, P, X) \in Int
  BY DEF Formula
<1> QED
  BY <1>7, <1>8, <1>9, <1>10

\* A larger subset of a finite set has no fewer elements.
LEMMA CardinalityGrows ==
  ASSUME NEW s, IsFiniteSet(s), NEW t \in SUBSET s
  PROVE  Cardinality(t) \in Nat /\ Cardinality(s) \in Nat /\ Cardinality(t) <= Cardinality(s)
BY FS_Subset, FS_CardinalityType

\* What a longer run of sub-turns has reported, and its least recitation.
LEMMA ReportsGrow ==
  ASSUME NEW U, NEW V, NEW W, IsFiniteSet(U), IsFiniteSet(V), IsFiniteSet(W),
         NEW few \in Seq(VerdictOver(U, V, W)), NEW many \in Seq(VerdictOver(U, V, W)),
         few # <<>>, Len(few) <= Len(many), \A i \in 1..Len(few) : few[i] = many[i]
  PROVE  /\ \A kind \in {"nodes", "edges", "extensions"} :
              /\ IsFiniteSet(Reported(many, kind))
              /\ Reported(few, kind) \in SUBSET Reported(many, kind)
         /\ MinRecitation(few) \in 0..10 /\ MinRecitation(many) \in 0..10
         /\ MinRecitation(many) <= MinRecitation(few)
<1>1. /\ Len(few) \in Nat /\ Len(few) > 0 /\ DOMAIN few = 1..Len(few)
      /\ Len(many) \in Nat /\ Len(many) > 0 /\ DOMAIN many = 1..Len(many) /\ many # <<>>
  OBVIOUS
<1>2. /\ \A i \in 1..Len(few) : few[i] \in VerdictOver(U, V, W)
      /\ \A i \in 1..Len(many) : many[i] \in VerdictOver(U, V, W)
  BY <1>1
<1>3. \A kind \in {"nodes", "edges", "extensions"} :
        /\ IsFiniteSet(Reported(many, kind))
        /\ Reported(few, kind) \in SUBSET Reported(many, kind)
  <2> SUFFICES ASSUME NEW kind \in {"nodes", "edges", "extensions"}
               PROVE  /\ IsFiniteSet(Reported(many, kind))
                      /\ Reported(few, kind) \in SUBSET Reported(many, kind)
    OBVIOUS
  <2>1. PICK B : IsFiniteSet(B) /\ \A i \in 1..Len(many) : many[i][kind] \in SUBSET B
    BY <1>2 DEF VerdictOver
  <2>2. Reported(many, kind) \in SUBSET B
    BY <1>1, <2>1 DEF Reported
  <2>3. IsFiniteSet(Reported(many, kind))
    BY <2>1, <2>2, FS_Subset
  <2>4. \A i \in 1..Len(few) : i \in 1..Len(many)
    BY <1>1
  <2>5. Reported(few, kind) \in SUBSET Reported(many, kind)
    BY <1>1, <2>4 DEF Reported
  <2> QED
    BY <2>3, <2>5
<1>4. PICK f \in [1..Len(few) -> 0..10] : \A i \in 1..Len(few) : f[i] = few[i].recitation
  <2>1. [i \in 1..Len(few) |-> few[i].recitation] \in [1..Len(few) -> 0..10]
    BY <1>2 DEF VerdictOver
  <2> QED
    BY <2>1
<1>5. PICK m \in [1..Len(many) -> 0..10] : \A i \in 1..Len(many) : m[i] = many[i].recitation
  <2>1. [i \in 1..Len(many) |-> many[i].recitation] \in [1..Len(many) -> 0..10]
    BY <1>2 DEF VerdictOver
  <2> QED
    BY <2>1
<1> DEFINE F == {f[i] : i \in 1..Len(few)}
           M == {m[i] : i \in 1..Len(many)}
<1>6. MinRecitation(few) = Min(F) /\ MinRecitation(many) = Min(M)
  <2>1. F = {few[i].recitation : i \in DOMAIN few} /\ M = {many[i].recitation : i \in DOMAIN many}
    <3>1. F = {few[i].recitation : i \in DOMAIN few}
      BY <1>1, <1>4
    <3>2. M = {many[i].recitation : i \in DOMAIN many}
      BY <1>1, <1>5
    <3> QED
      BY <3>1, <3>2
  <2> HIDE DEF F, M
  <2> QED
    BY <1>1, <2>1 DEF MinRecitation
<1>7. f \in [1..Len(few) -> Int] /\ m \in [1..Len(many) -> Int]
  OBVIOUS
<1>8. F \subseteq M /\ F \subseteq 0..10 /\ M \subseteq 0..10
  <2>1. \A i \in 1..Len(few) : i \in 1..Len(many) /\ f[i] = m[i]
    BY <1>1, <1>4, <1>5
  <2>2. F \subseteq M
    BY <2>1
  <2>3. F \subseteq 0..10
    OBVIOUS
  <2>4. M \subseteq 0..10
    OBVIOUS
  <2> QED
    BY <2>2, <2>3, <2>4
<1>9. Min(F) \in F
  BY <1>1, <1>7, ExtremesOf
<1>10. Min(M) \in M /\ \A y \in M : Min(M) <= y
  BY <1>1, <1>7, ExtremesOf
<1> HIDE DEF F, M
<1> QED
  BY <1>3, <1>6, <1>8, <1>9, <1>10

PathType == [nodes : Nat, edges : Nat, extensions : Nat]

\* A longer run of sub-turns has no smaller EDS.
LEMMA EdsGrows ==
  ASSUME NEW U, NEW V, NEW W, IsFiniteSet(U), IsFiniteSet(V), IsFiniteSet(W),
         NEW few \in Seq(VerdictOver(U, V, W)), NEW many \in Seq(VerdictOver(U, V, W)),
         few # <<>>, Len(few) <= Len(many), \A i \in 1..Len(few) : few[i] = many[i],
         NEW path \in PathType, ~OverReported(path, many)
  PROVE  /\ EdsUnit(path) \in Nat /\ EdsUnit(path) > 0
         /\ EdsFromComponents(path, few) \in Int /\ EdsFromComponents(path, many) \in Int
         /\ EdsFromComponents(path, few) <= EdsFromComponents(path, many)
<1> DEFINE N == Most(path.nodes, 1)
           E == Most(path.edges, 1)
           X == Most(path.extensions, 3)
           nf == Cardinality(Reported(few, "nodes"))
           nm == Cardinality(Reported(many, "nodes"))
           ef == Cardinality(Reported(few, "edges"))
           em == Cardinality(Reported(many, "edges"))
           xf == Cardinality(Reported(few, "extensions"))
           xm == Cardinality(Reported(many, "extensions"))
           mf == MinRecitation(few)
           mm == MinRecitation(many)
<1>1. /\ N \in Nat /\ N > 0 /\ path.nodes \in Nat /\ path.nodes <= N
      /\ E \in Nat /\ E > 0 /\ path.edges \in Nat /\ path.edges <= E
      /\ X \in Nat /\ X > 0
  BY DEF PathType, Most
<1>2. /\ mf \in 0..10 /\ mm \in 0..10 /\ mm <= mf
      /\ \A kind \in {"nodes", "edges", "extensions"} :
           /\ IsFiniteSet(Reported(many, kind))
           /\ Reported(few, kind) \in SUBSET Reported(many, kind)
  BY ReportsGrow
<1>3. nf \in Nat /\ nm \in Nat /\ nf <= nm
  BY <1>2, CardinalityGrows
<1>4. ef \in Nat /\ em \in Nat /\ ef <= em
  BY <1>2, CardinalityGrows
<1>5. xf \in Nat /\ xm \in Nat /\ xf <= xm
  BY <1>2, CardinalityGrows
<1>6. ~(nm > path.nodes) /\ ~(em > path.edges)
  BY DEF OverReported
<1>7. EdsUnit(path) = 400 * N * E * X
  BY DEF EdsUnit
<1> DEFINE P == N * E
           gf == Least(X, xf)
           gm == Least(X, xm)
<1>8. /\ EdsFromComponents(path, few) =
           Clamp(2 * (10 - mf) * X * (8 * (E * nf) + 12 * (N * ef)) +
                 3 * gf * (20 * N * E - (10 - mf) * ((E * nf) + (N * ef))), 0, EdsUnit(path))
      /\ EdsFromComponents(path, many) =
           Clamp(2 * (10 - mm) * X * (8 * (E * nm) + 12 * (N * em)) +
                 3 * gm * (20 * N * E - (10 - mm) * ((E * nm) + (N * em))), 0, EdsUnit(path))
  BY DEF EdsFromComponents
<1> HIDE DEF N, E, X, nf, nm, ef, em, xf, xm, mf, mm
<1>9. gf \in Nat /\ gm \in 0..X /\ gf <= gm
  BY <1>1, <1>5 DEF Least
<1> HIDE DEF gf, gm
<1>10. P \in Nat /\ 20 * N * E = 20 * P
  BY <1>1
<1>11. /\ E * nf \in Nat /\ E * nm \in 0..P /\ E * nf <= E * nm
       /\ N * ef \in Nat /\ N * em \in 0..P /\ N * ef <= N * em
  <2>1. nm <= N /\ em <= E
    BY <1>1, <1>3, <1>4, <1>6
  <2>2. E * nm <= E * N /\ N * em <= N * E /\ E * nf <= E * nm /\ N * ef <= N * em
    BY <2>1, <1>1, <1>3, <1>4, TimesMonotone
  <2>3. E * nf \in Nat /\ E * nm \in Nat /\ N * ef \in Nat /\ N * em \in Nat /\ E * N = N * E
    BY <1>1, <1>3, <1>4
  <2> QED
    BY <2>2, <2>3, <1>10
<1> DEFINE a == E * nf
           a2 == E * nm
           b == N * ef
           b2 == N * em
           R == 10 - mf
           S2 == 10 - mm
<1>12. R \in 0..10 /\ S2 \in 0..10 /\ R <= S2
  BY <1>2
<1>13. /\ EdsFromComponents(path, few) = Clamp(Formula(R, a, b, gf, P, X), 0, EdsUnit(path))
       /\ EdsFromComponents(path, many) = Clamp(Formula(S2, a2, b2, gm, P, X), 0, EdsUnit(path))
  BY <1>8, <1>10 DEF Formula
<1>14. EdsUnit(path) \in Nat /\ EdsUnit(path) > 0
  <2>1. N * E \in Nat /\ N * E > 0
    BY <1>1
  <2>2. (N * E) * X \in Nat /\ (N * E) * X > 0
    BY <2>1, <1>1
  <2>3. 400 * N * E * X = 400 * ((N * E) * X)
    BY <1>1
  <2> QED
    BY <2>2, <2>3, <1>7
<1> HIDE DEF P, a, a2, b, b2, R, S2
<1>15. /\ Formula(R, a, b, gf, P, X) \in Int /\ Formula(S2, a2, b2, gm, P, X) \in Int
       /\ Formula(R, a, b, gf, P, X) <= Formula(S2, a2, b2, gm, P, X)
  <2>1. a \in Nat /\ a2 \in 0..P /\ a <= a2 /\ b \in Nat /\ b2 \in 0..P /\ b <= b2
    BY <1>11 DEF a, a2, b, b2
  <2> QED
    BY <2>1, <1>1, <1>9, <1>10, <1>12, FormulaMonotone
<1>16. \A x, y, z \in Int : x <= y => /\ Clamp(x, 0, z) \in Int /\ Clamp(y, 0, z) \in Int
                                    /\ Clamp(x, 0, z) <= Clamp(y, 0, z)
  BY DEF Clamp, Least, Most
<1> DEFINE u == EdsUnit(path)
           ff == Formula(R, a, b, gf, P, X)
           fm == Formula(S2, a2, b2, gm, P, X)
<1> HIDE DEF u, ff, fm
<1>17. /\ Clamp(ff, 0, u) \in Int /\ Clamp(fm, 0, u) \in Int /\ Clamp(ff, 0, u) <= Clamp(fm, 0, u)
  <2>1. ff \in Int /\ fm \in Int /\ ff <= fm /\ u \in Int
    BY <1>14, <1>15 DEF u, ff, fm
  <2> QED
    BY <2>1, <1>16
<1> QED
  BY <1>13, <1>14, <1>17 DEF u, ff, fm

\* Another follow-up never costs a student points, unless the model reports more than the path has.
THEOREM AnotherFollowUpNeverHurts ==
  ASSUME NEW U, NEW V, NEW W, IsFiniteSet(U), IsFiniteSet(V), IsFiniteSet(W),
         NEW evals \in Seq(VerdictOver(U, V, W)), NEW path \in PathType, NEW followups \in Nat
  PROVE  FollowUpsNeverHurt(path, evals, followups)
<1> SUFFICES ASSUME evals # <<>>, ~OverReported(path, evals)
             PROVE  TakeQuestion(path, evals, followups).score <= TakeQuestion(path, evals, followups + 1).score
  BY DEF FollowUpsNeverHurt
<1> DEFINE A == VerdictOver(U, V, W)
           r == Rounds(evals, followups)
           s == Rounds(evals, followups + 1)
           few == SubSeq(evals, 1, r)
           many == SubSeq(evals, 1, s)
           fa == \E i \in DOMAIN few : few[i].answered
           ma == \E i \in DOMAIN many : many[i].answered
<1>1. /\ Len(evals) \in Nat /\ Len(evals) > 0 /\ followups + 1 \in Nat /\ evals \in Seq(A)
  OBVIOUS
<1>2. /\ TakeQuestion(path, evals, followups).score =
           (IF path.nodes > 0 THEN RoundDiv(100 * EdsFromComponents(path, few), EdsUnit(path))
            ELSE LegacyScore(fa, Last(few).adequate))
      /\ TakeQuestion(path, evals, followups + 1).score =
           (IF path.nodes > 0 THEN RoundDiv(100 * EdsFromComponents(path, many), EdsUnit(path))
            ELSE LegacyScore(ma, Last(many).adequate))
  BY DEF TakeQuestion
<1> HIDE DEF A
<1>3. /\ r \in 1..Len(evals) /\ s \in 1..Len(evals) /\ r <= s
      /\ evals[r].adequate => r = s
  BY <1>1, RoundsEnd, RoundsGrow
<1> HIDE DEF r, s
<1>4. /\ few \in Seq(A) /\ Len(few) = r /\ DOMAIN few = 1..r /\ few # <<>>
      /\ \A i \in 1..r : few[i] = evals[i]
      /\ Last(few) = evals[r]
  BY <1>1, <1>3, Prefix
<1>5. /\ many \in Seq(A) /\ Len(many) = s /\ DOMAIN many = 1..s /\ many # <<>>
      /\ \A i \in 1..s : many[i] = evals[i]
      /\ Last(many) = evals[s]
  BY <1>1, <1>3, Prefix
<1>n. r \in Nat /\ s \in Nat /\ 1..r \subseteq 1..s /\ 1..s \subseteq 1..Len(evals)
  BY <1>1, <1>3
<1> HIDE DEF few, many
<1>6. Len(few) <= Len(many) /\ \A i \in 1..Len(few) : few[i] = many[i]
  BY <1>3, <1>4, <1>5, <1>n
<1>7. CASE path.nodes > 0
  <2>1. ~OverReported(path, many)
    <3>1. Len(many) <= Len(evals) /\ \A i \in 1..Len(many) : many[i] = evals[i]
      BY <1>1, <1>3, <1>5
    <3>2. \A kind \in {"nodes", "edges", "extensions"} :
              /\ IsFiniteSet(Reported(evals, kind))
              /\ Reported(many, kind) \in SUBSET Reported(evals, kind)
      BY <1>1, <1>5, <3>1, ReportsGrow DEF A
    <3>3. /\ Cardinality(Reported(many, "nodes")) \in Nat /\ Cardinality(Reported(evals, "nodes")) \in Nat
          /\ Cardinality(Reported(many, "nodes")) <= Cardinality(Reported(evals, "nodes"))
      BY <3>2, CardinalityGrows
    <3>4. /\ Cardinality(Reported(many, "edges")) \in Nat /\ Cardinality(Reported(evals, "edges")) \in Nat
          /\ Cardinality(Reported(many, "edges")) <= Cardinality(Reported(evals, "edges"))
      BY <3>2, CardinalityGrows
    <3>5. path.nodes \in Nat /\ path.edges \in Nat
      BY DEF PathType
    <3> QED
      BY <3>3, <3>4, <3>5 DEF OverReported
  <2> DEFINE u == EdsUnit(path)
             x == EdsFromComponents(path, few)
             y == EdsFromComponents(path, many)
  <2>2. u \in Nat /\ u > 0 /\ x \in Int /\ y \in Int /\ x <= y
    BY <1>4, <1>5, <1>6, <2>1, EdsGrows DEF A
  <2> HIDE DEF u, x, y
  <2>3. 100 * x \in Int /\ 100 * y \in Int /\ 100 * x <= 100 * y
    BY <2>2
  <2>4. RoundDiv(100 * x, u) <= RoundDiv(100 * y, u)
    BY <2>2, <2>3, RoundMonotone
  <2> QED
    BY <1>2, <1>7, <2>4 DEF u, x, y
<1>8. CASE ~(path.nodes > 0)
  <2>1. fa => ma
    BY <1>4, <1>5, <1>n
  <2>2. Last(few).adequate => r = s
    BY <1>3, <1>4
  <2>3. CASE r = s
    <3>1. few = many
      BY <2>3 DEF few, many
    <3>2. LegacyScore(fa, Last(few).adequate) = LegacyScore(ma, Last(many).adequate)
      BY <3>1
    <3>3. LegacyScore(ma, Last(many).adequate) \in Int
      BY DEF LegacyScore
    <3> DEFINE x == LegacyScore(fa, Last(few).adequate)
               y == LegacyScore(ma, Last(many).adequate)
    <3>4. TakeQuestion(path, evals, followups).score = x /\ TakeQuestion(path, evals, followups + 1).score = y
      BY <1>2, <1>8
    <3>5. x = y /\ y \in Int
      BY <3>2, <3>3
    <3> HIDE DEF x, y
    <3> QED
      BY <3>4, <3>5
  <2>4. CASE r # s
    <3>1. ~Last(few).adequate
      BY <2>2, <2>4
    <3>2. LegacyScore(fa, Last(few).adequate) <= LegacyScore(ma, Last(many).adequate)
      BY <2>1, <3>1 DEF LegacyScore
    <3> QED
      BY <1>2, <1>8, <3>2
  <2> QED
    BY <2>3, <2>4
<1> QED
  BY <1>7, <1>8

-----------------------------------------------------------------------------
(* The report on a cohort.                                                 *)

\* A sum lies between as many times the least and the greatest summand.
LEMMA TotalBetween ==
  ASSUME NEW n \in Nat, NEW seq \in [1..n -> Int], NEW low \in Int, NEW high \in Int,
         \A i \in 1..n : low <= seq[i] /\ seq[i] <= high
  PROVE  Total(seq) \in Int /\ low * n <= Total(seq) /\ Total(seq) <= high * n
<1>1. PICK v \in [0..n -> Int] : /\ v[0] = 0
                                 /\ \A k \in 1..n : v[k] = v[k - 1] + seq[k]
                                 /\ Total(seq) = v[n]
  BY TotalTrace
<1> DEFINE T == {k \in Nat : low * k <= v[k] /\ v[k] <= high * k}
<1>2. 0 \in T
  BY <1>1
<1>3. ASSUME NEW k \in Nat, k < n, k \in T PROVE k + 1 \in T
  <2>1. k + 1 \in 1..n /\ (k + 1) - 1 = k /\ k \in 0..n
    BY <1>3
  <2>2. v[k + 1] = v[k] + seq[k + 1] /\ v[k] \in Int /\ seq[k + 1] \in Int
    BY <1>1, <2>1
  <2>3. low <= seq[k + 1] /\ seq[k + 1] <= high
    BY <2>1
  <2>4. low * (k + 1) = low * k + low /\ high * (k + 1) = high * k + high /\ low * k \in Int /\ high * k \in Int
    OBVIOUS
  <2>5. low * k <= v[k] /\ v[k] <= high * k
    BY <1>3
  <2>6. low * (k + 1) <= v[k + 1] /\ v[k + 1] <= high * (k + 1)
    <3>1. PICK a \in Int, b \in Int : a = low * k /\ b = high * k
      BY <2>4
    <3>2. PICK p, q : p = low * (k + 1) /\ q = high * (k + 1) /\ p = a + low /\ q = b + high
      BY <2>4, <3>1
    <3>3. a <= v[k] /\ v[k] <= b
      BY <2>5, <3>1
    <3>4. \A x, y, z, t \in Int : x <= y /\ z <= t => x + z <= y + t
      OBVIOUS
    <3>5. a + low <= v[k] + seq[k + 1] /\ v[k] + seq[k + 1] <= b + high
      BY <2>2, <2>3, <3>3, <3>4
    <3>6. p <= v[k + 1] /\ v[k + 1] <= q
      BY <2>2, <3>2, <3>5
    <3> QED
      BY <3>2, <3>6
  <2> QED
    BY <2>6
<1> HIDE DEF T
<1>4. \A k \in 0..n : k \in T
  BY <1>2, <1>3, InductTo
<1>5. n \in T /\ v[n] \in Int
  BY <1>4
<1> QED
  BY <1>1, <1>5 DEF T

\* Every agent is in one bucket, the one named for its score, and the mean lies between the extremes.
THEOREM CohortIsCounted ==
  ASSUME NEW scores \in Seq(0..100), scores # <<>>
  PROVE  CohortCounted(scores)
<1> DEFINE n == Len(scores)
           report == Aggregate(scores)
           From(low, high) == Count(scores, LAMBDA s : low <= s /\ s <= high)
<1>1. n \in Nat /\ n > 0 /\ DOMAIN scores = 1..n /\ scores \in [1..n -> 0..100]
  <2>1. Len(scores) \in Nat /\ Len(scores) > 0 /\ DOMAIN scores = 1..Len(scores)
    OBVIOUS
  <2>2. scores \in [1..Len(scores) -> 0..100]
    BY LenProperties
  <2> QED
    BY <2>1, <2>2
<1> HIDE DEF n
<1>2. scores \in [1..n -> Int] /\ Range(scores) = {scores[i] : i \in 1..n}
  <2>1. scores \in [1..n -> Int]
    <3>1. PICK B : B = 0..100
      OBVIOUS
    <3>2. B \subseteq Int /\ scores \in [1..n -> B]
      BY <1>1, <3>1
    <3> QED
      BY <3>2
  <2>2. Range(scores) = {scores[i] : i \in 1..n}
    BY <1>1 DEF Range
  <2> QED
    BY <2>1, <2>2
<1>3. /\ Min(Range(scores)) \in Range(scores) /\ \A y \in Range(scores) : Min(Range(scores)) <= y
      /\ Max(Range(scores)) \in Range(scores) /\ \A y \in Range(scores) : y <= Max(Range(scores))
  BY <1>1, <1>2, ExtremesOf
<1>4. /\ \A i \in 1..n : Min(Range(scores)) <= scores[i] /\ scores[i] <= Max(Range(scores))
      /\ Min(Range(scores)) \in Int /\ Max(Range(scores)) \in Int
  <2>1. \A i \in 1..n : scores[i] \in Range(scores)
    BY <1>2
  <2>2. Range(scores) \subseteq Int
    BY <1>2
  <2> QED
    BY <1>3, <2>1, <2>2
<1>5. /\ Total(scores) \in Int /\ Min(Range(scores)) * n <= Total(scores)
      /\ Total(scores) <= Max(Range(scores)) * n
  <2>1. PICK low, high \in Int : low = Min(Range(scores)) /\ high = Max(Range(scores))
    BY <1>4
  <2>2. \A i \in 1..n : low <= scores[i] /\ scores[i] <= high
    BY <1>4, <2>1
  <2>3. Total(scores) \in Int /\ low * n <= Total(scores) /\ Total(scores) <= high * n
    BY <1>1, <1>2, <2>2, TotalBetween
  <2> QED
    BY <2>1, <2>3
<1>6. /\ Min(Range(scores)) <= RoundDiv(Total(scores), n)
      /\ RoundDiv(Total(scores), n) <= Max(Range(scores))
  BY <1>1, <1>4, <1>5, RoundBetween
<1>7. report.min <= report.mean /\ report.mean <= report.max
  BY <1>6 DEF Aggregate, n
<1>8. \A i \in DOMAIN scores : scores[i] \in 0..100
  BY <1>1
<1>9. \A x \in 0..100 :
        /\ (Bucket(x) = "0-19") <=> (0 <= x /\ x <= 19)
        /\ (Bucket(x) = "20-39") <=> (20 <= x /\ x <= 39)
        /\ (Bucket(x) = "40-59") <=> (40 <= x /\ x <= 59)
        /\ (Bucket(x) = "60-79") <=> (60 <= x /\ x <= 79)
        /\ (Bucket(x) = "80-100") <=> (80 <= x /\ x <= 100)
  BY DEF Bucket
<1>10. /\ Count(scores, LAMBDA s : Bucket(s) = "0-19") = From(0, 19)
       /\ Count(scores, LAMBDA s : Bucket(s) = "20-39") = From(20, 39)
       /\ Count(scores, LAMBDA s : Bucket(s) = "40-59") = From(40, 59)
       /\ Count(scores, LAMBDA s : Bucket(s) = "60-79") = From(60, 79)
       /\ Count(scores, LAMBDA s : Bucket(s) = "80-100") = From(80, 100)
  <2>0. \A i \in DOMAIN scores :
          /\ (Bucket(scores[i]) = "0-19") <=> (0 <= scores[i] /\ scores[i] <= 19)
          /\ (Bucket(scores[i]) = "20-39") <=> (20 <= scores[i] /\ scores[i] <= 39)
          /\ (Bucket(scores[i]) = "40-59") <=> (40 <= scores[i] /\ scores[i] <= 59)
          /\ (Bucket(scores[i]) = "60-79") <=> (60 <= scores[i] /\ scores[i] <= 79)
          /\ (Bucket(scores[i]) = "80-100") <=> (80 <= scores[i] /\ scores[i] <= 100)
    BY <1>8, <1>9
  <2>1. Count(scores, LAMBDA s : Bucket(s) = "0-19") = From(0, 19)
    <3>1. {i \in DOMAIN scores : Bucket(scores[i]) = "0-19"} = {i \in DOMAIN scores : 0 <= scores[i] /\ scores[i] <= 19}
      BY <2>0
    <3> QED
      BY <3>1 DEF Count
  <2>2. Count(scores, LAMBDA s : Bucket(s) = "20-39") = From(20, 39)
    <3>1. {i \in DOMAIN scores : Bucket(scores[i]) = "20-39"} = {i \in DOMAIN scores : 20 <= scores[i] /\ scores[i] <= 39}
      BY <2>0
    <3> QED
      BY <3>1 DEF Count
  <2>3. Count(scores, LAMBDA s : Bucket(s) = "40-59") = From(40, 59)
    <3>1. {i \in DOMAIN scores : Bucket(scores[i]) = "40-59"} = {i \in DOMAIN scores : 40 <= scores[i] /\ scores[i] <= 59}
      BY <2>0
    <3> QED
      BY <3>1 DEF Count
  <2>4. Count(scores, LAMBDA s : Bucket(s) = "60-79") = From(60, 79)
    <3>1. {i \in DOMAIN scores : Bucket(scores[i]) = "60-79"} = {i \in DOMAIN scores : 60 <= scores[i] /\ scores[i] <= 79}
      BY <2>0
    <3> QED
      BY <3>1 DEF Count
  <2>5. Count(scores, LAMBDA s : Bucket(s) = "80-100") = From(80, 100)
    <3>1. {i \in DOMAIN scores : Bucket(scores[i]) = "80-100"} = {i \in DOMAIN scores : 80 <= scores[i] /\ scores[i] <= 100}
      BY <2>0
    <3> QED
      BY <3>1 DEF Count
  <2> QED
    BY <2>1, <2>2, <2>3, <2>4, <2>5
<1> HIDE DEF From
<1> DEFINE B == {"0-19", "20-39", "40-59", "60-79", "80-100"}
           Right == [b \in B |-> CASE b = "0-19" -> From(0, 19) [] b = "20-39" -> From(20, 39)
                                   [] b = "40-59" -> From(40, 59) [] b = "60-79" -> From(60, 79)
                                   [] b = "80-100" -> From(80, 100)]
<1>11. report.distribution = [b \in B |-> Count(scores, LAMBDA s : Bucket(s) = b)]
  BY DEF Aggregate
<1>12. \A b \in B : Count(scores, LAMBDA s : Bucket(s) = b) = Right[b]
  <2> SUFFICES ASSUME NEW b \in B PROVE Count(scores, LAMBDA s : Bucket(s) = b) = Right[b]
    OBVIOUS
  <2>1. Right[b] = CASE b = "0-19" -> From(0, 19) [] b = "20-39" -> From(20, 39)
                     [] b = "40-59" -> From(40, 59) [] b = "60-79" -> From(60, 79)
                     [] b = "80-100" -> From(80, 100)
    OBVIOUS
  <2>2. CASE b = "0-19"
    BY <2>1, <2>2, <1>10
  <2>3. CASE b = "20-39"
    BY <2>1, <2>3, <1>10
  <2>4. CASE b = "40-59"
    BY <2>1, <2>4, <1>10
  <2>5. CASE b = "60-79"
    BY <2>1, <2>5, <1>10
  <2>6. CASE b = "80-100"
    BY <2>1, <2>6, <1>10
  <2> QED
    BY <2>2, <2>3, <2>4, <2>5, <2>6
<1>13. report.distribution = Right
  BY <1>11, <1>12
<1> HIDE DEF report
<1>14. DOMAIN report.distribution = B
  BY <1>11
<1>15. report.distribution = [b \in DOMAIN report.distribution |->
          CASE b = "0-19" -> From(0, 19) [] b = "20-39" -> From(20, 39) [] b = "40-59" -> From(40, 59)
            [] b = "60-79" -> From(60, 79) [] b = "80-100" -> From(80, 100)]
  BY <1>13, <1>14
<1> QED
  BY <1>7, <1>15 DEF CohortCounted, report, From

-----------------------------------------------------------------------------
(* Coverage.  A scorer's state fits when the credits are from none to all  *)
(* and exactly the concepts with half of it are covered.                   *)

ClaimOver(C, D) ==
  [text : BOOLEAN, concepts : Seq(C), causal : BOOLEAN, confidence : 0..10, says : SUBSET D]

Fitting(X) ==
  {acc \in [partial : [X -> 0..50], covered : SUBSET X] : acc.covered = {c \in X : acc.partial[c] >= 25}}

Raised(credit, weight) == Least(50, credit + weight)

\* What a claim is worth.
LEMMA WeightFits ==
  ASSUME NEW C, NEW D, NEW claim \in ClaimOver(C, D)
  PROVE  Weight(claim) \in 0..50
<1>1. claim.causal \in BOOLEAN /\ claim.confidence \in 0..10
  BY DEF ClaimOver
<1> QED
  BY <1>1 DEF Weight, Least

\* A credit covers its concept from one half on, if that is expected.
LEMMA CreditFits ==
  ASSUME NEW X, NEW acc \in Fitting(X), NEW d, NEW w \in 0..50
  PROVE  Credit(acc, d, w) \in Fitting(X)
<1>1. /\ acc.partial \in [X -> 0..50] /\ acc.covered \in SUBSET X
      /\ acc.covered = {c \in X : acc.partial[c] >= 25}
      /\ DOMAIN acc.partial = X
  BY DEF Fitting
<1>2. CASE d \notin X
  <2>1. Credit(acc, d, w) = acc
    BY <1>1, <1>2 DEF Credit
  <2> QED
    BY <2>1, <1>2
<1>3. CASE d \in X
  <2> DEFINE sum == Least(50, acc.partial[d] + w)
             p == [acc.partial EXCEPT ![d] = sum]
             q == IF sum >= 25 THEN acc.covered \cup {d} ELSE acc.covered
  <2>1. Credit(acc, d, w) = [partial |-> p, covered |-> q]
    BY <1>1, <1>3 DEF Credit
  <2>2. acc.partial[d] \in 0..50
    BY <1>1, <1>3
  <2>3. sum \in 0..50 /\ acc.partial[d] <= sum
    BY <2>2 DEF Least
  <2> HIDE DEF sum
  <2>4. p \in [X -> 0..50] /\ \A c \in X : p[c] = IF c = d THEN sum ELSE acc.partial[c]
    BY <1>1, <1>3, <2>3
  <2>5. q \in SUBSET X
    BY <1>1, <1>3
  <2>6. q = {c \in X : p[c] >= 25}
    <3> SUFFICES ASSUME NEW c \in X PROVE c \in q <=> p[c] >= 25
      BY <2>5
    <3>1. CASE c = d
      <4>1. p[c] = sum
        BY <3>1, <2>4
      <4>2. c \in acc.covered => sum >= 25
        BY <3>1, <1>1, <2>2, <2>3
      <4> QED
        BY <3>1, <4>1, <4>2
    <3>2. CASE c # d
      <4>1. p[c] = acc.partial[c]
        BY <3>2, <2>4
      <4>2. c \in q <=> c \in acc.covered
        BY <3>2
      <4> QED
        BY <4>1, <4>2, <1>1
    <3> QED
      BY <3>1, <3>2
  <2> HIDE DEF p, q
  <2>7. [partial |-> p, covered |-> q] \in Fitting(X)
    BY <2>4, <2>5, <2>6 DEF Fitting
  <2> QED
    BY <2>1, <2>7
<1> QED
  BY <1>2, <1>3

\* An expected concept gets its credit.
LEMMA CreditThere ==
  ASSUME NEW X, NEW acc \in Fitting(X), NEW d \in X, NEW w \in 0..50
  PROVE  Credit(acc, d, w).partial[d] = Raised(acc.partial[d], w)
<1>1. acc.partial \in [X -> 0..50] /\ DOMAIN acc.partial = X
  BY DEF Fitting
<1> QED
  BY <1>1 DEF Credit, Raised

\* Other concepts keep their credit.
LEMMA CreditElsewhere ==
  ASSUME NEW X, NEW acc \in Fitting(X), NEW d, NEW w \in 0..50, NEW c \in X, c # d
  PROVE  Credit(acc, d, w).partial[c] = acc.partial[c]
<1>1. acc.partial \in [X -> 0..50] /\ DOMAIN acc.partial = X
  BY DEF Fitting
<1> QED
  BY <1>1 DEF Credit

Named(claim, c) == Count(claim.concepts, LAMBDA d : d = c)

Worth(claim, c) == Weight(claim) * Named(claim, c)

\* Within one claim each concept is credited as often as it is named.
LEMMA CreditAdds ==
  ASSUME NEW X, NEW C, NEW D, NEW claim \in ClaimOver(C, D), NEW acc \in Fitting(X)
  PROVE  /\ CreditClaim(acc, claim) \in Fitting(X)
         /\ \A c \in X : CreditClaim(acc, claim).partial[c] = Raised(acc.partial[c], Worth(claim, c))
<1> DEFINE w == Weight(claim)
           seq == claim.concepts
           n == Len(seq)
           Step == [p \in Fitting(X) \X (1..n) |-> Credit(p[1], seq[p[2]], w)]
           Eqn(iter) == iter = [s \in SUBSET DOMAIN seq |->
                                  IF s = {} THEN acc ELSE Credit(iter[s \ {Max(s)}], seq[Max(s)], w)]
           fold == CHOOSE iter : Eqn(iter)
<1>1. w \in 0..50
  BY WeightFits
<1>2. seq \in Seq(C)
  BY DEF ClaimOver
<1>3. n \in Nat /\ DOMAIN seq = 1..n
  BY <1>2
<1>4. CreditClaim(acc, claim) = fold[DOMAIN seq]
  BY DEF CreditClaim, FoldLeft, MapThenFoldSet
<1> HIDE DEF w, n, seq
<1>5. \A x \in Fitting(X), k \in 1..n : Step[<<x, k>>] = Credit(x, seq[k], w)
  OBVIOUS
<1>6. Step \in [Fitting(X) \X (1..n) -> Fitting(X)]
  <2>1. \A x \in Fitting(X), k \in 1..n : Credit(x, seq[k], w) \in Fitting(X)
    BY <1>1, CreditFits
  <2> QED
    BY <2>1
<1>7. \A s \in SUBSET (1..n) : s # {} => Max(s) \in 1..n /\ s \ {Max(s)} \in SUBSET (1..n)
  BY <1>3, GreatestOf
<1> HIDE DEF Step
<1>8. Eqn(fold)
  <2>1. PICK iter \in [SUBSET (1..n) -> Fitting(X)] : Folds(iter, n, acc, Step)
    BY <1>3, <1>6, FoldsExist
  <2>2. \A s \in SUBSET (1..n) :
          iter[s] = IF s = {} THEN acc ELSE Credit(iter[s \ {Max(s)}], seq[Max(s)], w)
    BY <2>1, <1>5, <1>7 DEF Folds
  <2>3. Eqn(iter)
    BY <2>2, <1>3
  <2> HIDE DEF Eqn
  <2> QED
    BY <2>3
<1> HIDE DEF fold
<1>9. fold[{}] = acc
  BY <1>8, <1>3
<1>10. \A s \in SUBSET (1..n) : s # {} => fold[s] = Credit(fold[s \ {Max(s)}], seq[Max(s)], w)
  BY <1>8, <1>3
<1> HIDE DEF Eqn
<1>11. \A s \in SUBSET (1..n) : (s # {} /\ fold[s \ {Max(s)}] \in Fitting(X)) =>
                                    fold[s] = Step[<<fold[s \ {Max(s)}], Max(s)>>]
  BY <1>5, <1>7, <1>10
<1> DEFINE v == [k \in 0..n |-> fold[1..k]]
<1>12. Traces(v, n, Fitting(X), acc, Step)
  BY <1>3, <1>6, <1>9, <1>11, FoldTrace
<1>13. CreditClaim(acc, claim) = v[n]
  BY <1>3, <1>4
<1> HIDE DEF v
<1>14. v \in [0..n -> Fitting(X)] /\ v[0] = acc
  BY <1>12 DEF Traces
<1>15. \A k \in 1..n : v[k] = Credit(v[k - 1], seq[k], w)
  <2> SUFFICES ASSUME NEW k \in 1..n PROVE v[k] = Credit(v[k - 1], seq[k], w)
    OBVIOUS
  <2>1. v[k] = Step[<<v[k - 1], k>>]
    BY <1>12 DEF Traces
  <2>2. v[k - 1] \in Fitting(X)
    BY <1>3, <1>14
  <2> QED
    BY <2>1, <2>2, <1>5
<1>16. ASSUME NEW c \in X
       PROVE  v[n].partial[c] = Least(50, acc.partial[c] + w * Count(seq, LAMBDA d : d = c))
  <2> DEFINE T == {i \in DOMAIN seq : seq[i] = c}
             named(k) == Cardinality({i \in 1..k : i \in T})
             good == {k \in Nat : v[k].partial[c] = Least(50, acc.partial[c] + w * named(k))}
  <2>1. \A k \in Nat : named(k) \in Nat /\ named(k + 1) = named(k) + (IF k + 1 \in T THEN 1 ELSE 0)
    BY CountStep
  <2>2. named(0) = 0
    <3>1. {i \in 1..0 : i \in T} = {}
      OBVIOUS
    <3> QED
      BY <3>1, FS_EmptySet
  <2>3. acc.partial[c] \in 0..50
    BY DEF Fitting
  <2>4. named(n) = Count(seq, LAMBDA d : d = c)
    <3>1. {i \in 1..n : i \in T} = {i \in DOMAIN seq : seq[i] = c}
      BY <1>3
    <3> QED
      BY <3>1 DEF Count
  <2>5. \A k \in 0..n : k + 1 \in 1..n => (k + 1 \in T <=> seq[k + 1] = c)
    BY <1>3
  <2> HIDE DEF named, T
  <2>6. 0 \in good
    <3>1. w * named(0) = 0
      BY <1>1, <2>2
    <3>2. Least(50, acc.partial[c] + w * named(0)) = acc.partial[c]
      BY <2>3, <3>1 DEF Least
    <3>3. v[0].partial[c] = Least(50, acc.partial[c] + w * named(0))
      BY <1>14, <3>2
    <3> QED
      BY <3>3
  <2>7. ASSUME NEW k \in Nat, k < n, k \in good PROVE k + 1 \in good
    <3>1. k + 1 \in 1..n /\ (k + 1) - 1 = k /\ k \in 0..n
      BY <1>3, <2>7
    <3>2. v[k + 1] = Credit(v[k], seq[k + 1], w) /\ v[k] \in Fitting(X)
      BY <1>14, <1>15, <3>1
    <3>3. v[k + 1].partial[c] = IF c = seq[k + 1] THEN Least(50, v[k].partial[c] + w) ELSE v[k].partial[c]
      <4>1. PICK x, d, u : x = v[k] /\ d = seq[k + 1] /\ u = w
        OBVIOUS
      <4>2. x \in Fitting(X) /\ v[k + 1] = Credit(x, d, u) /\ u \in 0..50
        BY <1>1, <3>2, <4>1
      <4>3. CASE d = c
        <5>1. Credit(x, d, u).partial[d] = Raised(x.partial[d], u)
          BY <4>2, <4>3, CreditThere
        <5> QED
          BY <4>1, <4>2, <4>3, <5>1 DEF Raised
      <4>4. CASE d # c
        <5>1. Credit(x, d, u).partial[c] = x.partial[c]
          BY <4>2, <4>4, CreditElsewhere
        <5> QED
          BY <4>1, <4>2, <4>4, <5>1
      <4> QED
        BY <4>3, <4>4
    <3>4. v[k].partial[c] = Least(50, acc.partial[c] + w * named(k))
      BY <2>7
    <3>5. named(k) \in Nat /\ named(k + 1) = named(k) + (IF k + 1 \in T THEN 1 ELSE 0)
      BY <2>1
    <3>6. w * named(k) \in Nat /\ w * (named(k) + 1) = w * named(k) + w
      BY <1>1, <3>5
    <3>7. v[k + 1].partial[c] = Least(50, acc.partial[c] + w * named(k + 1))
      <4>1. CASE seq[k + 1] = c
        <5>1. named(k + 1) = named(k) + 1
          BY <4>1, <3>1, <3>5, <2>5
        <5> DEFINE m == w * named(k)
        <5>2. w * named(k + 1) = m + w /\ m \in Nat
          BY <5>1, <3>6
        <5> HIDE DEF m
        <5>3. v[k + 1].partial[c] = Least(50, Least(50, acc.partial[c] + m) + w)
          BY <4>1, <3>3, <3>4 DEF m
        <5>4. Least(50, Least(50, acc.partial[c] + m) + w) = Least(50, acc.partial[c] + (m + w))
          BY <5>2, <2>3, <1>1 DEF Least
        <5> QED
          BY <5>2, <5>3, <5>4
      <4>2. CASE seq[k + 1] # c
        <5>1. named(k + 1) = named(k)
          BY <4>2, <3>1, <3>5, <2>5
        <5> QED
          BY <5>1, <4>2, <3>3, <3>4
      <4> QED
        BY <4>1, <4>2
    <3> QED
      BY <3>7
  <2> HIDE DEF good
  <2>8. \A k \in 0..n : k \in good
    BY <1>3, <2>6, <2>7, InductTo
  <2>9. n \in good
    BY <1>3, <2>8
  <2> QED
    BY <2>4, <2>9 DEF good
<1>17. v[n] \in Fitting(X)
  BY <1>3, <1>14
<1> QED
  BY <1>13, <1>16, <1>17 DEF w, seq, Raised, Worth, Named

\* A claim is worth a number for each concept.
LEMMA WorthFits ==
  ASSUME NEW C, NEW D, NEW claim \in ClaimOver(C, D), NEW c
  PROVE  Worth(claim, c) \in Nat
<1> DEFINE n == Len(claim.concepts)
<1>1. claim.concepts \in Seq(C)
  BY DEF ClaimOver
<1>2. n \in Nat /\ DOMAIN claim.concepts = 1..n
  BY <1>1
<1> DEFINE s == {i \in DOMAIN claim.concepts : claim.concepts[i] = c}
<1>3. Named(claim, c) = Cardinality(s)
  BY DEF Named, Count
<1>4. s \in SUBSET (1..n)
  BY <1>2
<1> HIDE DEF s, n
<1>5. Cardinality(s) \in Nat
  <2>1. IsFiniteSet(1..n)
    BY <1>2, FS_Interval
  <2>2. IsFiniteSet(s)
    BY <2>1, <1>4, FS_Subset
  <2> QED
    BY <2>2, FS_CardinalityType
<1>6. Weight(claim) \in Nat
  BY WeightFits
<1> QED
  BY <1>3, <1>5, <1>6 DEF Worth

\* The credits after a claim fit.
LEMMA CreditClaimFits ==
  ASSUME NEW X, NEW C, NEW D, NEW claim \in ClaimOver(C, D), NEW acc \in Fitting(X)
  PROVE  CreditClaim(acc, claim) \in Fitting(X)
BY CreditAdds

\* The scorer goes through the claims one by one.
LEMMA CoverageTrace ==
  ASSUME NEW C, NEW D, NEW claims \in Seq(ClaimOver(C, D)), NEW expected
  PROVE  \E v \in [0..Len(claims) -> Fitting(Range(expected))] :
           /\ \A c \in Range(expected) : v[0].partial[c] = 0
           /\ \A k \in 1..Len(claims) : v[k] = CreditClaim(v[k - 1], claims[k])
           /\ ClaimCoverage(claims, expected) = v[Len(claims)]
<1> DEFINE X == Range(expected)
           n == Len(claims)
           base == [partial |-> [c \in X |-> 0], covered |-> {}]
           Step == [p \in Fitting(X) \X (1..n) |-> CreditClaim(p[1], claims[p[2]])]
           Eqn(iter) == iter = [s \in SUBSET DOMAIN claims |->
                                  IF s = {} THEN base ELSE CreditClaim(iter[s \ {Max(s)}], claims[Max(s)])]
           fold == CHOOSE iter : Eqn(iter)
<1>1. ClaimCoverage(claims, expected) = fold[DOMAIN claims]
  BY DEF ClaimCoverage, FoldLeft, MapThenFoldSet
<1> HIDE DEF X
<1>2. base \in Fitting(X) /\ \A c \in X : base.partial[c] = 0
  BY DEF Fitting
<1>3. n \in Nat /\ DOMAIN claims = 1..n
  OBVIOUS
<1>4. \A k \in 1..n : claims[k] \in ClaimOver(C, D)
  OBVIOUS
<1> HIDE DEF n, base
<1>5. \A x \in Fitting(X), k \in 1..n : Step[<<x, k>>] = CreditClaim(x, claims[k])
  OBVIOUS
<1>6. Step \in [Fitting(X) \X (1..n) -> Fitting(X)]
  <2>1. \A x \in Fitting(X), k \in 1..n : CreditClaim(x, claims[k]) \in Fitting(X)
    BY <1>4, CreditClaimFits
  <2> QED
    BY <2>1
<1>7. \A s \in SUBSET (1..n) : s # {} => Max(s) \in 1..n /\ s \ {Max(s)} \in SUBSET (1..n)
  BY <1>3, GreatestOf
<1> HIDE DEF Step
<1>8. Eqn(fold)
  <2>1. PICK iter \in [SUBSET (1..n) -> Fitting(X)] : Folds(iter, n, base, Step)
    BY <1>2, <1>3, <1>6, FoldsExist
  <2>2. \A s \in SUBSET (1..n) :
          iter[s] = IF s = {} THEN base ELSE CreditClaim(iter[s \ {Max(s)}], claims[Max(s)])
    BY <2>1, <1>5, <1>7 DEF Folds
  <2>3. Eqn(iter)
    BY <2>2, <1>3
  <2> HIDE DEF Eqn
  <2> QED
    BY <2>3
<1> HIDE DEF fold
<1>9. fold[{}] = base
  BY <1>8, <1>3
<1>10. \A s \in SUBSET (1..n) : s # {} => fold[s] = CreditClaim(fold[s \ {Max(s)}], claims[Max(s)])
  BY <1>8, <1>3
<1> HIDE DEF Eqn
<1>11. \A s \in SUBSET (1..n) : (s # {} /\ fold[s \ {Max(s)}] \in Fitting(X)) =>
                                    fold[s] = Step[<<fold[s \ {Max(s)}], Max(s)>>]
  BY <1>5, <1>7, <1>10
<1> DEFINE v == [k \in 0..n |-> fold[1..k]]
<1>12. Traces(v, n, Fitting(X), base, Step)
  BY <1>2, <1>3, <1>6, <1>9, <1>11, FoldTrace
<1>13. ClaimCoverage(claims, expected) = v[n]
  BY <1>1, <1>3
<1> HIDE DEF v
<1>14. v \in [0..n -> Fitting(X)] /\ v[0] = base
  BY <1>12 DEF Traces
<1>15. \A k \in 1..n : v[k] = CreditClaim(v[k - 1], claims[k])
  <2> SUFFICES ASSUME NEW k \in 1..n PROVE v[k] = CreditClaim(v[k - 1], claims[k])
    OBVIOUS
  <2>1. v[k] = Step[<<v[k - 1], k>>]
    BY <1>12 DEF Traces
  <2>2. v[k - 1] \in Fitting(X)
    BY <1>3, <1>14
  <2> QED
    BY <2>1, <2>2, <1>5
<1>16. \A c \in X : v[0].partial[c] = 0
  BY <1>2, <1>14
<1> QED
  BY <1>13, <1>14, <1>15, <1>16 DEF n, X

Claimed(claims, c) == Total([i \in DOMAIN claims |-> Worth(claims[i], c)])

\* The sum of what the claims are worth, claim by claim.
LEMMA ClaimedTrace ==
  ASSUME NEW C, NEW D, NEW claims \in Seq(ClaimOver(C, D)), NEW c
  PROVE  \E u \in [0..Len(claims) -> Nat] :
           /\ u[0] = 0
           /\ \A k \in 1..Len(claims) : u[k] = u[k - 1] + Worth(claims[k], c)
           /\ Claimed(claims, c) = u[Len(claims)]
<1> DEFINE n == Len(claims)
           seq == [i \in DOMAIN claims |-> Worth(claims[i], c)]
<1>1. n \in Nat /\ DOMAIN claims = 1..n
  OBVIOUS
<1>2. \A k \in 1..n : claims[k] \in ClaimOver(C, D)
  OBVIOUS
<1> HIDE DEF n
<1>3. \A k \in 1..n : Worth(claims[k], c) \in Nat
  BY <1>2, WorthFits
<1>4. seq \in [1..n -> Int] /\ \A k \in 1..n : seq[k] = Worth(claims[k], c)
  BY <1>1, <1>3
<1>5. Claimed(claims, c) = Total(seq)
  BY DEF Claimed
<1> HIDE DEF seq
<1>6. PICK u \in [0..n -> Int] : /\ u[0] = 0
                                 /\ \A k \in 1..n : u[k] = u[k - 1] + seq[k]
                                 /\ Total(seq) = u[n]
  BY <1>1, <1>4, TotalTrace
<1> DEFINE T == {k \in Nat : u[k] \in Nat}
<1>7. 0 \in T
  BY <1>6
<1>8. ASSUME NEW k \in Nat, k < n, k \in T PROVE k + 1 \in T
  <2>1. k + 1 \in 1..n /\ (k + 1) - 1 = k
    BY <1>1, <1>8
  <2>2. u[k + 1] = u[k] + Worth(claims[k + 1], c)
    BY <1>4, <1>6, <2>1
  <2>3. u[k + 1] \in Nat
    BY <1>3, <1>8, <2>1, <2>2
  <2> QED
    BY <2>3
<1> HIDE DEF T
<1>9. \A k \in 0..n : k \in T
  BY <1>1, <1>7, <1>8, InductTo
<1>10. u \in [0..n -> Nat]
  <2>1. \A k \in 0..n : u[k] \in Nat
    BY <1>9 DEF T
  <2> QED
    BY <1>6, <2>1
<1>11. \A k \in 1..n : u[k] = u[k - 1] + Worth(claims[k], c)
  BY <1>4, <1>6
<1> QED
  BY <1>5, <1>6, <1>10, <1>11 DEF n

\* An expected concept is credited what it was claimed, up to one.
LEMMA CoverageSum ==
  ASSUME NEW C, NEW D, NEW claims \in Seq(ClaimOver(C, D)), NEW expected, NEW c \in Range(expected)
  PROVE  /\ ClaimCoverage(claims, expected) \in Fitting(Range(expected))
         /\ Claimed(claims, c) \in Nat
         /\ ClaimCoverage(claims, expected).partial[c] = Least(50, Claimed(claims, c))
<1> DEFINE X == Range(expected)
           n == Len(claims)
<1> HIDE DEF X
<1>c. c \in X
  BY DEF X
<1>1. n \in Nat /\ \A k \in 1..n : claims[k] \in ClaimOver(C, D)
  OBVIOUS
<1>2. PICK v \in [0..n -> Fitting(X)] :
           /\ \A d \in X : v[0].partial[d] = 0
           /\ \A k \in 1..n : v[k] = CreditClaim(v[k - 1], claims[k])
           /\ ClaimCoverage(claims, expected) = v[n]
  BY CoverageTrace DEF X
<1>3. PICK u \in [0..n -> Nat] :
           /\ u[0] = 0
           /\ \A k \in 1..n : u[k] = u[k - 1] + Worth(claims[k], c)
           /\ Claimed(claims, c) = u[n]
  BY ClaimedTrace
<1> HIDE DEF n
<1> DEFINE T == {k \in Nat : v[k].partial[c] = Least(50, u[k])}
<1>4. 0 \in T
  BY <1>c, <1>2, <1>3 DEF Least
<1>5. ASSUME NEW k \in Nat, k < n, k \in T PROVE k + 1 \in T
  <2>1. k + 1 \in 1..n /\ (k + 1) - 1 = k /\ k \in 0..n
    BY <1>1, <1>5
  <2>2. u[k + 1] = u[k] + Worth(claims[k + 1], c) /\ u[k] \in Nat
    BY <1>3, <2>1
  <2>3. v[k + 1] = CreditClaim(v[k], claims[k + 1]) /\ v[k] \in Fitting(X)
    BY <1>2, <2>1
  <2>4. claims[k + 1] \in ClaimOver(C, D)
    BY <1>1, <2>1
  <2>5. Worth(claims[k + 1], c) \in Nat
    BY <2>4, WorthFits
  <2>6. PICK x, claim : x = v[k] /\ claim = claims[k + 1]
    OBVIOUS
  <2>7. CreditClaim(x, claim).partial[c] = Raised(x.partial[c], Worth(claim, c))
    BY <1>c, <2>3, <2>4, <2>6, CreditAdds
  <2>8. v[k].partial[c] = Least(50, u[k])
    BY <1>5
  <2> DEFINE y == Worth(claims[k + 1], c)
  <2>9. v[k + 1].partial[c] = Least(50, Least(50, u[k]) + y)
    BY <2>3, <2>6, <2>7, <2>8 DEF Raised
  <2> HIDE DEF y
  <2>10. Least(50, Least(50, u[k]) + y) = Least(50, u[k] + y)
    BY <2>2, <2>5 DEF Least, y
  <2>11. v[k + 1].partial[c] = Least(50, u[k + 1])
    BY <2>2, <2>9, <2>10 DEF y
  <2> QED
    BY <2>11
<1> HIDE DEF T
<1>6. \A k \in 0..n : k \in T
  BY <1>1, <1>4, <1>5, InductTo
<1>7. v[n].partial[c] = Least(50, u[n])
  BY <1>1, <1>6 DEF T
<1>8. v[n] \in Fitting(X) /\ u[n] \in Nat
  BY <1>1, <1>2, <1>3
<1> QED
  BY <1>2, <1>3, <1>7, <1>8 DEF X

\* A concept is covered when at least one half of it was claimed.
LEMMA CoveredBySum ==
  ASSUME NEW C, NEW D, NEW claims \in Seq(ClaimOver(C, D)), NEW expected
  PROVE  ClaimCoverage(claims, expected).covered = {c \in Range(expected) : Claimed(claims, c) >= 25}
<1> DEFINE X == Range(expected)
           r == ClaimCoverage(claims, expected)
<1>1. r \in Fitting(X)
  <2>1. PICK v \in [0..Len(claims) -> Fitting(X)] : r = v[Len(claims)]
    BY CoverageTrace
  <2>2. Len(claims) \in 0..Len(claims)
    OBVIOUS
  <2> QED
    BY <2>1, <2>2
<1>2. r.covered = {c \in X : r.partial[c] >= 25}
  BY <1>1 DEF Fitting
<1>3. ASSUME NEW c \in X PROVE r.partial[c] >= 25 <=> Claimed(claims, c) >= 25
  <2>1. Claimed(claims, c) \in Nat /\ r.partial[c] = Least(50, Claimed(claims, c))
    BY CoverageSum
  <2> QED
    BY <2>1 DEF Least
<1> QED
  BY <1>2, <1>3

\* A concept is covered when all that was claimed of it adds up to one half, in whatever order and in
\* however many claims.
THEOREM CoverageIsTheSum ==
  ASSUME NEW C, NEW D, NEW claims \in Seq(ClaimOver(C, D)), NEW expected
  PROVE  CoverageAddsUp(claims, expected)
<1>1. ClaimCoverage(claims, expected).covered = {c \in Range(expected) : Claimed(claims, c) >= 25}
  BY CoveredBySum
<1> QED
  BY <1>1 DEF CoverageAddsUp, Claimed, Worth, Named

-----------------------------------------------------------------------------
(* One more claim.                                                         *)

\* The last claim.
LEMMA LastOf ==
  ASSUME NEW A, NEW claims \in Seq(A), claims # <<>>
  PROVE  /\ Len(claims) \in Nat /\ Len(claims) > 0 /\ DOMAIN claims = 1..Len(claims)
         /\ Last(claims) = claims[Len(claims)] /\ Last(claims) \in A
<1>1. Len(claims) \in Nat /\ Len(claims) > 0 /\ DOMAIN claims = 1..Len(claims)
  OBVIOUS
<1>2. Last(claims) = claims[Len(claims)]
  BY DEF Last
<1>3. claims[Len(claims)] \in A
  BY <1>1
<1> QED
  BY <1>1, <1>2, <1>3

\* The claims before the last.
LEMMA FrontOf ==
  ASSUME NEW A, NEW claims \in Seq(A), claims # <<>>
  PROVE  Front(claims) \in [1..(Len(claims) - 1) -> A] /\ Front(claims) \in Seq(A)
<1> DEFINE n == Len(claims)
           u == SubSeq(claims, 1, n - 1)
<1>1. n \in Nat /\ n > 0 /\ \A i \in 1..n : claims[i] \in A
  OBVIOUS
<1>2. n - 1 \in Int /\ 1 \in Int /\ \A i \in 1..(n - 1) : claims[i] \in A
  BY <1>1
<1> HIDE DEF n
<1>3. u \in Seq(A) /\ Len(u) = (IF 1 <= n - 1 THEN (n - 1) - 1 + 1 ELSE 0)
  <2> HIDE DEF u
  <2>1. u = SubSeq(claims, 1, n - 1)
    BY DEF u
  <2> QED
    BY <1>2, <2>1, SubSeqProperties
<1>4. Front(claims) = u
  BY DEF Front, u, n
<1> HIDE DEF u
<1>5. Len(u) = n - 1
  BY <1>1, <1>3
<1>6. u \in [1..(n - 1) -> A]
  BY <1>3, <1>5, LenProperties
<1> QED
  BY <1>3, <1>4, <1>6 DEF n

\* They are the same claims.
LEMMA FrontAt ==
  ASSUME NEW A, NEW claims \in Seq(A), claims # <<>>, NEW i \in 1..(Len(claims) - 1)
  PROVE  Front(claims)[i] = claims[i]
<1>1. Front(claims) = SubSeq(claims, 1, Len(claims) - 1)
  BY DEF Front
<1>2. SubSeq(claims, 1, Len(claims) - 1)[i] = claims[i]
  OBVIOUS
<1> QED
  BY <1>1, <1>2

\* Their number.
LEMMA FrontLen ==
  ASSUME NEW A, NEW claims \in Seq(A), claims # <<>>
  PROVE  Len(Front(claims)) = Len(claims) - 1 /\ DOMAIN Front(claims) = 1..(Len(claims) - 1)
<1>1. DOMAIN Front(claims) = 1..(Len(claims) - 1)
  BY FrontOf
<1>2. Len(claims) - 1 \in Nat
  OBVIOUS
<1>3. Front(claims) \in Seq(A)
  BY FrontOf
<1>4. Len(Front(claims)) \in Nat /\ DOMAIN Front(claims) = 1..Len(Front(claims))
  BY <1>3
<1>5. Len(Front(claims)) = Len(claims) - 1
  <2>1. PICK p, q : p = Len(Front(claims)) /\ q = Len(claims) - 1
    OBVIOUS
  <2>2. p \in Nat /\ q \in Nat /\ 1..p = 1..q
    BY <1>1, <1>2, <1>4, <2>1
  <2>3. p \in 1..p \/ p = 0
    BY <2>2
  <2>4. q \in 1..q \/ q = 0
    BY <2>2
  <2> QED
    BY <2>1, <2>2, <2>3, <2>4
<1> QED
  BY <1>1, <1>5

\* With one more claim a concept is claimed no less.
LEMMA ClaimedGrows ==
  ASSUME NEW C, NEW D, NEW claims \in Seq(ClaimOver(C, D)), claims # <<>>, NEW c
  PROVE  /\ Claimed(Front(claims), c) \in Nat /\ Claimed(claims, c) \in Nat
         /\ Claimed(Front(claims), c) <= Claimed(claims, c)
<1> DEFINE n == Len(claims)
           front == Front(claims)
<1>1. /\ n \in Nat /\ n > 0 /\ front \in Seq(ClaimOver(C, D)) /\ Len(front) = n - 1
      /\ \A i \in 1..(n - 1) : front[i] = claims[i]
  BY LastOf, FrontOf, FrontLen, FrontAt
<1>2. PICK u \in [0..n -> Nat] :
           /\ u[0] = 0
           /\ \A k \in 1..n : u[k] = u[k - 1] + Worth(claims[k], c)
           /\ Claimed(claims, c) = u[n]
  BY ClaimedTrace
<1> HIDE DEF front
<1>3. PICK f \in [0..(n - 1) -> Nat] :
           /\ f[0] = 0
           /\ \A k \in 1..(n - 1) : f[k] = f[k - 1] + Worth(front[k], c)
           /\ Claimed(front, c) = f[n - 1]
  <2>1. PICK m : m = n - 1
    OBVIOUS
  <2>2. front \in Seq(ClaimOver(C, D)) /\ Len(front) = m
    BY <1>1, <2>1
  <2>3. \E f \in [0..Len(front) -> Nat] :
          /\ f[0] = 0
          /\ \A k \in 1..Len(front) : f[k] = f[k - 1] + Worth(front[k], c)
          /\ Claimed(front, c) = f[Len(front)]
    BY <2>2, ClaimedTrace
  <2>4. \E f \in [0..m -> Nat] :
          /\ f[0] = 0
          /\ \A k \in 1..m : f[k] = f[k - 1] + Worth(front[k], c)
          /\ Claimed(front, c) = f[m]
    BY <2>2, <2>3
  <2> QED
    BY <2>1, <2>4
<1>4. \A k \in 1..n : claims[k] \in ClaimOver(C, D)
  OBVIOUS
<1> HIDE DEF n
<1> DEFINE T == {k \in Nat : f[k] = u[k]}
<1>5. 0 \in T
  BY <1>2, <1>3
<1>6. ASSUME NEW k \in Nat, k < n - 1, k \in T PROVE k + 1 \in T
  <2>1. k + 1 \in 1..(n - 1) /\ k + 1 \in 1..n /\ (k + 1) - 1 = k
    BY <1>1, <1>6
  <2>2. u[k + 1] = u[k] + Worth(claims[k + 1], c)
    BY <1>2, <2>1
  <2>3. f[k + 1] = f[k] + Worth(claims[k + 1], c)
    BY <1>1, <1>3, <2>1
  <2>4. f[k + 1] = u[k + 1]
    BY <1>6, <2>2, <2>3
  <2> QED
    BY <2>4
<1> HIDE DEF T
<1>7. n - 1 \in Nat
  BY <1>1
<1>8. \A k \in 0..(n - 1) : k \in T
  BY <1>5, <1>6, <1>7, InductTo
<1>9. f[n - 1] = u[n - 1] /\ f[n - 1] \in Nat
  BY <1>3, <1>7, <1>8 DEF T
<1>10. u[n] = u[n - 1] + Worth(claims[n], c) /\ Worth(claims[n], c) \in Nat /\ u[n] \in Nat
  <2>1. n \in 1..n /\ n \in 0..n
    BY <1>1
  <2>2. Worth(claims[n], c) \in Nat
    BY <1>4, <2>1, WorthFits
  <2> QED
    BY <1>2, <2>1, <2>2
<1>11. front = Front(claims)
  BY DEF front
<1> QED
  BY <1>2, <1>3, <1>9, <1>10, <1>11

\* What is covered is expected.
LEMMA CoveredFits ==
  ASSUME NEW C, NEW D, NEW claims \in Seq(ClaimOver(C, D)), NEW expected, NEW store
  PROVE  Covered(claims, expected, store) \in SUBSET Range(expected)
<1> DEFINE X == Range(expected)
           r == ClaimCoverage(claims, expected)
<1>1. r.covered = {c \in X : Claimed(claims, c) >= 25}
  BY CoveredBySum
<1>2. r.covered \in SUBSET X
  BY <1>1
<1>3. SemanticMatch(claims, X \ r.covered) \in SUBSET X
  BY DEF SemanticMatch
<1> QED
  BY <1>2, <1>3 DEF Covered

\* A further claim never uncovers a concept.
LEMMA CoveredGrows ==
  ASSUME NEW C, NEW D, NEW claims \in Seq(ClaimOver(C, D)), claims # <<>>, NEW expected, NEW store
  PROVE  Covered(Front(claims), expected, store) \subseteq Covered(claims, expected, store)
<1> DEFINE X == Range(expected)
           n == Len(claims)
           front == Front(claims)
           old == ClaimCoverage(front, expected).covered
           new == ClaimCoverage(claims, expected).covered
<1>1. /\ n \in Nat /\ n > 0 /\ DOMAIN claims = 1..n /\ front \in Seq(ClaimOver(C, D))
      /\ DOMAIN front = 1..(n - 1)
      /\ \A i \in 1..(n - 1) : front[i] = claims[i]
  BY LastOf, FrontOf, FrontLen, FrontAt
<1>2. new = {c \in X : Claimed(claims, c) >= 25}
  BY CoveredBySum
<1> HIDE DEF front
<1>3. old = {c \in X : Claimed(front, c) >= 25}
  BY <1>1, CoveredBySum
<1> HIDE DEF old, new
<1>4. old \subseteq new
  <2> SUFFICES ASSUME NEW c \in X, Claimed(front, c) >= 25 PROVE Claimed(claims, c) >= 25
    BY <1>2, <1>3
  <2>1. /\ Claimed(front, c) \in Nat /\ Claimed(claims, c) \in Nat
        /\ Claimed(front, c) <= Claimed(claims, c)
    BY ClaimedGrows DEF front
  <2> QED
    BY <2>1
<1>5. SemanticMatch(front, X \ old) \subseteq new \cup SemanticMatch(claims, X \ new)
  <2> SUFFICES ASSUME NEW c \in SemanticMatch(front, X \ old), c \notin new
               PROVE  c \in SemanticMatch(claims, X \ new)
    OBVIOUS
  <2>1. c \in X /\ \E i \in DOMAIN front : c \in front[i].says
    BY DEF SemanticMatch
  <2>2. PICK i \in 1..(n - 1) : c \in claims[i].says
    BY <1>1, <2>1
  <2>3. i \in DOMAIN claims
    BY <1>1
  <2> QED
    BY <2>1, <2>2, <2>3 DEF SemanticMatch
<1>6. CASE store.there /\ store.vectors
  <2>1. /\ Covered(front, expected, store) = old \cup SemanticMatch(front, X \ old)
        /\ Covered(claims, expected, store) = new \cup SemanticMatch(claims, X \ new)
    BY <1>6 DEF Covered, old, new
  <2> QED
    BY <1>4, <1>5, <2>1 DEF front
<1>7. CASE ~(store.there /\ store.vectors)
  <2>1. Covered(front, expected, store) = old /\ Covered(claims, expected, store) = new
    BY <1>7 DEF Covered, old, new
  <2> QED
    BY <1>4, <2>1 DEF front
<1> QED
  BY <1>6, <1>7

\* How coherent an answer with so many causal claims is, so many of them supported by the graph.
CoherenceOf(causal, valid) ==
  IF causal = 0 THEN 360 ELSE Least(1200, ((1200 * valid) \div causal) + Least(240, 60 * causal))

\* One more causal claim that the graph supports does not make it less coherent.
LEMMA CoherenceGrows ==
  ASSUME NEW causal \in Nat, NEW valid \in 0..causal
  PROVE  /\ CoherenceOf(causal, valid) \in Int /\ CoherenceOf(causal + 1, valid + 1) \in Int
         /\ CoherenceOf(causal, valid) <= CoherenceOf(causal + 1, valid + 1)
         /\ 360 <= CoherenceOf(causal + 1, valid + 1) \/ causal > 0
<1> DEFINE r == (1200 * (valid + 1)) \div (causal + 1)
           q == (1200 * valid) \div causal
           x == 1200 * valid
           y == 1200 * (valid + 1)
<1>1. valid \in Nat /\ valid <= causal /\ causal + 1 \in Nat /\ causal + 1 > 0 /\ causal + 1 # 0
  OBVIOUS
<1>2. x \in Int /\ y \in Int /\ y = x + 1200 /\ x <= 1200 * causal
  BY <1>1
<1> HIDE DEF x, y
<1>3. r = y \div (causal + 1) /\ q = x \div causal
  BY DEF x, y
<1>4. r \in Int
  BY <1>1, <1>2, <1>3, DivWithin
<1>5. CoherenceOf(causal + 1, valid + 1) = Least(1200, r + Least(240, 60 * (causal + 1)))
  BY <1>1 DEF CoherenceOf
<1>6. CoherenceOf(causal + 1, valid + 1) \in Int
  <2> HIDE DEF r
  <2> QED
    BY <1>4, <1>5 DEF Least
<1>7. CASE causal = 0
  <2>1. CoherenceOf(causal, valid) = 360
    BY <1>7 DEF CoherenceOf
  <2>2. y = 1200 /\ 1200 * (causal + 1) <= y
    BY <1>1, <1>7 DEF y
  <2>3. 1200 <= r
    <3>1. 1200 \in Int
      OBVIOUS
    <3> QED
      BY <1>1, <1>2, <1>3, <2>2, <3>1, DivWithin
  <2> HIDE DEF r
  <2>4. Least(240, 60 * (causal + 1)) = 60
    BY <1>7 DEF Least
  <2>5. CoherenceOf(causal + 1, valid + 1) = 1200
    BY <1>4, <1>5, <2>3, <2>4 DEF Least
  <2> QED
    BY <1>6, <2>1, <2>5
<1>8. CASE causal # 0
  <2>1. causal \in Nat /\ causal > 0
    BY <1>8
  <2>2. q \in Int /\ q * causal <= x /\ q <= 1200
    <3>1. q \in Int
      BY <1>2, <1>3, <2>1, DivWithin
    <3>2. q * causal <= x
      <4> DEFINE e == x % causal
      <4>1. x \div causal \in Int /\ e \in 0..(causal - 1) /\ x = causal * (x \div causal) + e
        BY <1>2, <2>1
      <4> HIDE DEF e, q
      <4>2. q \in Int /\ e \in 0..(causal - 1) /\ x = causal * q + e
        BY <1>3, <4>1
      <4>3. causal * q \in Int /\ causal * q = q * causal
        BY <4>2
      <4> QED
        BY <4>2, <4>3
    <3>3. q <= 1200
      <4>1. x < (1200 + 1) * causal
        BY <1>2, <2>1
      <4>2. 1200 \in Int
        OBVIOUS
      <4> QED
        BY <1>2, <1>3, <2>1, <4>1, <4>2, DivWithin
    <3> QED
      BY <3>1, <3>2, <3>3
  <2> HIDE DEF q
  <2>3. q * (causal + 1) <= y
    <3>1. q * (causal + 1) = q * causal + q /\ q * causal \in Int
      BY <2>1, <2>2
    <3> QED
      BY <1>2, <2>2, <3>1
  <2>4. q <= r
    BY <1>1, <1>2, <1>3, <2>2, <2>3, DivWithin
  <2>5. CoherenceOf(causal, valid) = Least(1200, q + Least(240, 60 * causal))
    BY <1>8 DEF CoherenceOf, q
  <2> HIDE DEF r
  <2>6. /\ Least(240, 60 * causal) \in Int /\ Least(240, 60 * (causal + 1)) \in Int
        /\ Least(240, 60 * causal) <= Least(240, 60 * (causal + 1))
    BY DEF Least
  <2>7. /\ CoherenceOf(causal, valid) \in Int
        /\ CoherenceOf(causal, valid) <= CoherenceOf(causal + 1, valid + 1)
    BY <1>4, <1>5, <2>2, <2>4, <2>5, <2>6 DEF Least
  <2> QED
    BY <1>6, <2>1, <2>7
<1> QED
  BY <1>7, <1>8

\* How many claims are causal, and how many of those the graph supports.
CausalClaims(claims) == {i \in DOMAIN claims : claims[i].causal}
ValidClaims(claims, store) == {i \in DOMAIN claims : claims[i].causal /\ ValidChain(claims[i], store)}

\* Coherence is in these numbers.
LEMMA CoherenceByNumbers ==
  ASSUME NEW A, NEW claims \in Seq(A), NEW store, store.there
  PROVE  Coherence(claims, store) =
           IF claims = <<>> THEN 0
           ELSE CoherenceOf(Cardinality(CausalClaims(claims)), Cardinality(ValidClaims(claims, store)))
<1> DEFINE c == Cardinality(CausalClaims(claims))
           v == Cardinality(ValidClaims(claims, store))
<1>1. Coherence(claims, store) =
        IF c = 0 THEN IF claims = <<>> THEN 0 ELSE 360
        ELSE Least(1200, ((1200 * v) \div c) + Least(240, 60 * c))
  BY DEF Coherence, Count, CausalClaims, ValidClaims, Ratio, Unit
<1>2. claims = <<>> => c = 0
  <2>1. claims = <<>> => CausalClaims(claims) = {}
    BY DEF CausalClaims
  <2> QED
    BY <2>1, FS_EmptySet
<1> HIDE DEF c, v
<1> QED
  BY <1>1, <1>2 DEF CoherenceOf, c, v

\* These numbers are finite and the one is at most the other.
LEMMA NumbersFit ==
  ASSUME NEW A, NEW claims \in Seq(A), NEW store
  PROVE  /\ Cardinality(CausalClaims(claims)) \in Nat
         /\ Cardinality(ValidClaims(claims, store)) \in 0..Cardinality(CausalClaims(claims))
<1> DEFINE n == Len(claims)
           s == CausalClaims(claims)
           t == ValidClaims(claims, store)
<1>1. n \in Nat /\ DOMAIN claims = 1..n
  OBVIOUS
<1>2. IsFiniteSet(1..n)
  BY <1>1, FS_Interval
<1>3. s \in SUBSET (1..n) /\ t \in SUBSET s
  BY <1>1 DEF CausalClaims, ValidClaims
<1> HIDE DEF s, t
<1>4. IsFiniteSet(s)
  BY <1>2, <1>3, FS_Subset
<1>5. Cardinality(t) \in Nat /\ Cardinality(s) \in Nat /\ Cardinality(t) <= Cardinality(s)
  BY <1>3, <1>4, CardinalityGrows
<1> QED
  BY <1>5 DEF s, t

\* A further claim that is not a causal one without support makes no answer less coherent.
LEMMA CoherenceHolds ==
  ASSUME NEW A, NEW claims \in Seq(A), claims # <<>>, NEW store, store.there,
         ~(Last(claims).causal /\ ~ValidChain(Last(claims), store)),
         \A i \in DOMAIN claims : claims[i].causal \in BOOLEAN
  PROVE  Coherence(Front(claims), store) <= Coherence(claims, store)
<1> DEFINE n == Len(claims)
           front == Front(claims)
           m == n - 1
           s == {k \in 1..n : claims[k].causal}
           t == {k \in 1..n : claims[k].causal /\ ValidChain(claims[k], store)}
           c == Cardinality({i \in 1..m : i \in s})
           v == Cardinality({i \in 1..m : i \in t})
<1>1. n \in Nat /\ n > 0 /\ DOMAIN claims = 1..n /\ Last(claims) = claims[n]
  BY LastOf
<1>2. front \in Seq(A) /\ DOMAIN front = 1..m
  BY FrontOf, FrontLen
<1>3. \A i \in 1..m : front[i] = claims[i]
  BY FrontAt
<1>4. CausalClaims(claims) = {i \in 1..n : i \in s} /\ ValidClaims(claims, store) = {i \in 1..n : i \in t}
  BY <1>1 DEF CausalClaims, ValidClaims
<1>5. m \in Nat /\ n = m + 1 /\ n \in 1..n /\ 1..m \subseteq 1..n
  BY <1>1
<1> HIDE DEF front
<1>6. CausalClaims(front) = {i \in 1..m : i \in s} /\ ValidClaims(front, store) = {i \in 1..m : i \in t}
  <2>1. \A i \in 1..m : i \in 1..n /\ front[i] = claims[i]
    BY <1>3, <1>5
  <2> QED
    BY <1>2, <2>1 DEF CausalClaims, ValidClaims
<1>7. n \in s <=> n \in t
  BY <1>1, <1>5
<1> HIDE DEF m, s, t
<1>8. Cardinality(CausalClaims(claims)) = c + (IF n \in s THEN 1 ELSE 0)
  <2>1. Cardinality({i \in 1..(m + 1) : i \in s}) = c + (IF m + 1 \in s THEN 1 ELSE 0)
    BY <1>5, CountStep
  <2>2. CausalClaims(claims) = {i \in 1..(m + 1) : i \in s}
    BY <1>4, <1>5
  <2> QED
    BY <1>5, <2>1, <2>2
<1>9. Cardinality(ValidClaims(claims, store)) = v + (IF n \in t THEN 1 ELSE 0)
  <2>1. Cardinality({i \in 1..(m + 1) : i \in t}) = v + (IF m + 1 \in t THEN 1 ELSE 0)
    BY <1>5, CountStep
  <2>2. ValidClaims(claims, store) = {i \in 1..(m + 1) : i \in t}
    BY <1>4, <1>5
  <2> QED
    BY <1>5, <2>1, <2>2
<1>10. Cardinality(CausalClaims(front)) = c /\ Cardinality(ValidClaims(front, store)) = v
  BY <1>6
<1>11. c \in Nat /\ v \in 0..c
  BY <1>2, <1>10, NumbersFit
<1> HIDE DEF c, v
<1>12. Coherence(front, store) = IF front = <<>> THEN 0 ELSE CoherenceOf(c, v)
  BY <1>2, <1>10, CoherenceByNumbers
<1>13. /\ CoherenceOf(c, v) \in Int /\ CoherenceOf(c + 1, v + 1) \in Int
       /\ CoherenceOf(c, v) <= CoherenceOf(c + 1, v + 1)
       /\ 360 <= CoherenceOf(c + 1, v + 1) \/ c > 0
  BY <1>11, CoherenceGrows
<1>14. front = <<>> => c = 0
  <2>1. front = <<>> => CausalClaims(front) = {}
    BY DEF CausalClaims
  <2> QED
    BY <1>10, <2>1, FS_EmptySet
<1>15. CASE n \in s
  <2>1. Coherence(claims, store) = CoherenceOf(c + 1, v + 1)
    BY <1>7, <1>8, <1>9, <1>15, CoherenceByNumbers
  <2> QED
    BY <1>12, <1>13, <1>14, <2>1 DEF front
<1>16. CASE n \notin s
  <2>1. Coherence(claims, store) = CoherenceOf(c, v)
    BY <1>7, <1>8, <1>9, <1>11, <1>16, CoherenceByNumbers
  <2>2. front = <<>> => CoherenceOf(c, v) = 360
    BY <1>14 DEF CoherenceOf
  <2> QED
    BY <1>12, <1>13, <2>1, <2>2 DEF front
<1> QED
  BY <1>15, <1>16

\* Whatever claims an answer makes: a further one never uncovers a concept, and with a graph at hand only
\* a causal claim the graph does not support makes the answer less coherent.
THEOREM FurtherClaimsNeverHurt ==
  ASSUME NEW C, NEW D, NEW claims \in Seq(ClaimOver(C, D)), NEW expected, NEW store
  PROVE  ClaimsNeverHurt(claims, expected, store)
<1> SUFFICES ASSUME claims # <<>>
             PROVE  /\ Covered(Front(claims), expected, store) \subseteq Covered(claims, expected, store)
                    /\ \/ Coherence(Front(claims), store) <= Coherence(claims, store)
                       \/ ~store.there \/ (Last(claims).causal /\ ~ValidChain(Last(claims), store))
  BY DEF ClaimsNeverHurt
<1>1. Covered(Front(claims), expected, store) \subseteq Covered(claims, expected, store)
  BY CoveredGrows
<1>2. \A i \in DOMAIN claims : claims[i].causal \in BOOLEAN
  <2>1. \A i \in DOMAIN claims : claims[i] \in ClaimOver(C, D)
    OBVIOUS
  <2> QED
    BY <2>1 DEF ClaimOver
<1>3. ASSUME store.there, ~(Last(claims).causal /\ ~ValidChain(Last(claims), store))
      PROVE  Coherence(Front(claims), store) <= Coherence(claims, store)
  BY <1>2, <1>3, CoherenceHolds
<1> QED
  BY <1>1, <1>3

-----------------------------------------------------------------------------
(* A session.                                                              *)

Scores == [coverage : Int, depth : Int, coherence : Int]

\* A session's score is the sum of those of its turns.
LEMMA SessionIsSum ==
  ASSUME NEW scores \in Seq(Scores)
  PROVE  ScoreSession(scores) = Total([i \in DOMAIN scores |-> Weighted(scores[i])])
<1> DEFINE n == Len(scores)
           a == [i \in DOMAIN scores |-> scores[i].coverage]
           b == [i \in DOMAIN scores |-> scores[i].depth]
           c == [i \in DOMAIN scores |-> scores[i].coherence]
           w == [i \in DOMAIN scores |-> Weighted(scores[i])]
<1>1. n \in Nat /\ DOMAIN scores = 1..n
  OBVIOUS
<1>2. \A i \in 1..n : /\ scores[i].coverage \in Int /\ scores[i].depth \in Int /\ scores[i].coherence \in Int
  <2>1. \A i \in 1..n : scores[i] \in Scores
    OBVIOUS
  <2> QED
    BY <2>1 DEF Scores
<1> HIDE DEF n
<1>3. \A i \in 1..n : a[i] = scores[i].coverage /\ b[i] = scores[i].depth /\ c[i] = scores[i].coherence
  BY <1>1
<1>4. \A i \in 1..n : w[i] = 35 * a[i] + 35 * b[i] + 30 * c[i]
  BY <1>1 DEF Weighted
<1>5. a \in [1..n -> Int]
  BY <1>1, <1>2
<1>6. b \in [1..n -> Int]
  BY <1>1, <1>2
<1>7. c \in [1..n -> Int]
  BY <1>1, <1>2
<1>9. w \in [1..n -> Int]
  <2>1. w = [i \in 1..n |-> Weighted(scores[i])]
    BY <1>1
  <2>2. \A x, y, z \in Int : 35 * x + 35 * y + 30 * z \in Int
    OBVIOUS
  <2>3. \A i \in 1..n : Weighted(scores[i]) \in Int
    BY <1>2, <2>2 DEF Weighted
  <2> QED
    BY <2>1, <2>3
<1>10. ScoreSession(scores) = 35 * Total(a) + 35 * Total(b) + 30 * Total(c)
  BY DEF ScoreSession, Weighted
<1> HIDE DEF a, b, c, w
<1>11. PICK ta \in [0..n -> Int] : ta[0] = 0 /\ (\A k \in 1..n : ta[k] = ta[k - 1] + a[k]) /\ Total(a) = ta[n]
  BY <1>1, <1>5, TotalTrace
<1>12. PICK tb \in [0..n -> Int] : tb[0] = 0 /\ (\A k \in 1..n : tb[k] = tb[k - 1] + b[k]) /\ Total(b) = tb[n]
  BY <1>1, <1>6, TotalTrace
<1>13. PICK tc \in [0..n -> Int] : tc[0] = 0 /\ (\A k \in 1..n : tc[k] = tc[k - 1] + c[k]) /\ Total(c) = tc[n]
  BY <1>1, <1>7, TotalTrace
<1>14. PICK tw \in [0..n -> Int] : tw[0] = 0 /\ (\A k \in 1..n : tw[k] = tw[k - 1] + w[k]) /\ Total(w) = tw[n]
  BY <1>1, <1>9, TotalTrace
<1> DEFINE T == {k \in Nat : tw[k] = 35 * ta[k] + 35 * tb[k] + 30 * tc[k]}
<1>15. 0 \in T
  BY <1>11, <1>12, <1>13, <1>14
<1>16. ASSUME NEW k \in Nat, k < n, k \in T PROVE k + 1 \in T
  <2>1. k + 1 \in 1..n /\ (k + 1) - 1 = k /\ k \in 0..n
    BY <1>1, <1>16
  <2>2. /\ ta[k + 1] = ta[k] + a[k + 1] /\ tb[k + 1] = tb[k] + b[k + 1]
        /\ tc[k + 1] = tc[k] + c[k + 1] /\ tw[k + 1] = tw[k] + w[k + 1]
    BY <1>11, <1>12, <1>13, <1>14, <2>1
  <2>3. ta[k] \in Int /\ tb[k] \in Int /\ tc[k] \in Int
    BY <2>1
  <2>4. a[k + 1] \in Int /\ b[k + 1] \in Int /\ c[k + 1] \in Int
    BY <1>5, <1>6, <1>7, <2>1
  <2>5. tw[k] = 35 * ta[k] + 35 * tb[k] + 30 * tc[k] /\ w[k + 1] = 35 * a[k + 1] + 35 * b[k + 1] + 30 * c[k + 1]
    BY <1>4, <1>16, <2>1
  <2>6. \A p, q, r, x, y, z \in Int :
          35 * p + 35 * q + 30 * r + (35 * x + 35 * y + 30 * z) = 35 * (p + x) + 35 * (q + y) + 30 * (r + z)
    OBVIOUS
  <2>7. tw[k + 1] = 35 * ta[k + 1] + 35 * tb[k + 1] + 30 * tc[k + 1]
    <3>1. PICK p, q, r, x, y, z \in Int : /\ p = ta[k] /\ q = tb[k] /\ r = tc[k]
                                         /\ x = a[k + 1] /\ y = b[k + 1] /\ z = c[k + 1]
      BY <2>3, <2>4
    <3>2. tw[k + 1] = 35 * p + 35 * q + 30 * r + (35 * x + 35 * y + 30 * z)
      BY <2>2, <2>5, <3>1
    <3>3. ta[k + 1] = p + x /\ tb[k + 1] = q + y /\ tc[k + 1] = r + z
      BY <2>2, <3>1
    <3> QED
      BY <2>6, <3>2, <3>3
  <2> QED
    BY <2>7
<1> HIDE DEF T
<1>17. \A k \in 0..n : k \in T
  BY <1>1, <1>15, <1>16, InductTo
<1>18. n \in T
  BY <1>1, <1>17
<1>19. tw[n] = 35 * ta[n] + 35 * tb[n] + 30 * tc[n]
  BY <1>18 DEF T
<1>20. ScoreSession(scores) = Total(w)
  BY <1>10, <1>11, <1>12, <1>13, <1>14, <1>19
<1> QED
  BY <1>20 DEF w

\* However many turns a session has, its score lies between those of its turns.
THEOREM SessionIsBetween ==
  ASSUME NEW scores \in Seq(Scores)
  PROVE  SessionBetweenTurns(scores)
<1> DEFINE n == Len(scores)
           w == [i \in DOMAIN scores |-> Weighted(scores[i])]
           each == {Weighted(scores[i]) : i \in DOMAIN scores}
<1> SUFFICES ASSUME scores # <<>>
             PROVE  n * Min(each) <= ScoreSession(scores) /\ ScoreSession(scores) <= n * Max(each)
  BY DEF SessionBetweenTurns
<1>1. n \in Nat /\ n > 0 /\ DOMAIN scores = 1..n
  OBVIOUS
<1>2. \A i \in 1..n : scores[i] \in Scores
  OBVIOUS
<1>3. \A i \in 1..n : Weighted(scores[i]) \in Int
  BY <1>2 DEF Scores, Weighted
<1>4. ScoreSession(scores) = Total(w)
  BY SessionIsSum
<1> HIDE DEF n
<1>5. w = [i \in 1..n |-> Weighted(scores[i])]
  BY <1>1
<1>6. w \in [1..n -> Int] /\ \A i \in 1..n : w[i] = Weighted(scores[i])
  BY <1>3, <1>5
<1> HIDE DEF w
<1>7. each = {w[i] : i \in 1..n}
  BY <1>1, <1>6
<1> HIDE DEF each
<1>8. Min(each) \in each /\ \A y \in each : Min(each) <= y
  BY <1>1, <1>6, <1>7, ExtremesOf
<1>9. Max(each) \in each /\ \A y \in each : y <= Max(each)
  BY <1>1, <1>6, <1>7, ExtremesOf
<1>10. Min(each) \in Int /\ Max(each) \in Int
  BY <1>6, <1>7, <1>8, <1>9
<1>11. \A i \in 1..n : Min(each) <= w[i] /\ w[i] <= Max(each)
  BY <1>7, <1>8, <1>9
<1>12. Min(each) * n <= Total(w) /\ Total(w) <= Max(each) * n
  BY <1>1, <1>6, <1>10, <1>11, TotalBetween
<1>13. n * Min(each) = Min(each) * n /\ n * Max(each) = Max(each) * n
  BY <1>1, <1>10
<1> QED
  BY <1>4, <1>12, <1>13

\* The concepts of a sequence are finitely many, and more than none unless it is empty.
LEMMA RangeFinite ==
  ASSUME NEW E, NEW expected \in Seq(E)
  PROVE  /\ IsFiniteSet(Range(expected)) /\ Range(expected) \in SUBSET E
         /\ expected # <<>> => Cardinality(Range(expected)) \in Nat \ {0}
<1>1. /\ Len(expected) \in Nat /\ DOMAIN expected = 1..Len(expected)
      /\ \A i \in 1..Len(expected) : expected[i] \in E
      /\ expected # <<>> => Len(expected) > 0
  OBVIOUS
<1>2. Range(expected) = {expected[i] : i \in 1..Len(expected)}
  BY <1>1 DEF Range
<1>3. IsFiniteSet(1..Len(expected))
  BY <1>1, FS_Interval
<1>4. IsFiniteSet(Range(expected))
  <2> DEFINE T == Range(expected)
             n == Len(expected)
  <2>1. T = {expected[i] : i \in 1..n}
    BY <1>2
  <2>2. expected \in [1..n -> E]
    BY LenProperties
  <2> HIDE DEF T, n
  <2>3. expected \in [1..n -> T]
    BY <2>1, <2>2
  <2>4. \A t \in T : \E i \in 1..n : expected[i] = t
    BY <2>1
  <2>5. expected \in Surjection(1..n, T)
    BY <2>3, <2>4 DEF Surjection
  <2>6. IsFiniteSet(T)
    BY <1>3, <2>5, FS_Surjection DEF n
  <2> QED
    BY <2>6 DEF T
<1>5. Range(expected) \in SUBSET E
  BY <1>1, <1>2
<1>6. expected # <<>> => Range(expected) # {}
  BY <1>1, <1>2
<1>7. Cardinality(Range(expected)) \in Nat
  BY <1>4, FS_CardinalityType
<1>8. expected # <<>> => Cardinality(Range(expected)) # 0
  BY <1>4, <1>6, FS_EmptySet
<1> QED
  BY <1>4, <1>5, <1>7, <1>8

\* The components of a turn's score are numbers.
LEMMA ScoresAreNumbers ==
  ASSUME NEW C, NEW D, NEW claims \in Seq(ClaimOver(C, D)), NEW E, NEW expected \in Seq(E),
         NEW store, store.depth \in Int
  PROVE  ScoreTurn(claims, expected, store) \in Scores
<1> DEFINE n == Len(claims)
           c == Cardinality(CausalClaims(claims))
           v == Cardinality(ValidClaims(claims, store))
<1>1. n \in Nat /\ (claims # <<>> => n > 0)
  OBVIOUS
<1>2. c \in Nat /\ v \in 0..c
  BY NumbersFit
<1>3. \A x \in Int, d \in Nat : d > 0 => Ratio(x, d) \in Int
  <2> SUFFICES ASSUME NEW x \in Int, NEW d \in Nat, d > 0 PROVE (1200 * x) \div d \in Int
    BY DEF Ratio, Unit
  <2> QED
    OBVIOUS
<1>4. CoverageRatio(claims, expected, store) \in Int
  <2>1. CASE expected = <<>>
    BY <2>1 DEF CoverageRatio, Unit
  <2>2. CASE expected # <<>>
    <3> DEFINE x == Cardinality(Covered(claims, expected, store))
               d == Cardinality(Range(expected))
    <3>1. d \in Nat /\ d > 0 /\ IsFiniteSet(Range(expected))
      BY <2>2, RangeFinite
    <3>2. Covered(claims, expected, store) \in SUBSET Range(expected)
      BY CoveredFits
    <3>3. x \in Int
      BY <3>1, <3>2, CardinalityGrows
    <3> HIDE DEF x, d
    <3>4. Ratio(x, d) \in Int
      BY <1>3, <3>1, <3>3
    <3> QED
      BY <2>2, <3>4 DEF CoverageRatio, x, d
  <2> QED
    BY <2>1, <2>2
<1>5. Count(claims, LAMBDA x : x.causal) = c
  BY DEF Count, CausalClaims
<1>6. Count(claims, LAMBDA x : x.causal /\ ValidChain(x, store)) = v
  BY DEF Count, ValidClaims
<1>7. DepthScore(claims, expected, store) \in Int
  <2>1. DepthScore(claims, expected, store) =
          IF store.there /\ store.answers /\ expected # <<>> /\ store.depth > 0 THEN store.depth
          ELSE IF claims = <<>> THEN 0 ELSE Ratio(c, n)
    BY <1>5 DEF DepthScore
  <2> HIDE DEF c, n
  <2>2. claims # <<>> => Ratio(c, n) \in Int
    BY <1>1, <1>2, <1>3
  <2> QED
    BY <2>1, <2>2
<1>8. Coherence(claims, store) \in Int
  <2>1. CASE store.there
    <3>1. Coherence(claims, store) = IF claims = <<>> THEN 0 ELSE CoherenceOf(c, v)
      BY <2>1, CoherenceByNumbers
    <3> HIDE DEF c, v
    <3>2. CoherenceOf(c, v) \in Int
      BY <1>2, CoherenceGrows
    <3> QED
      BY <3>1, <3>2
  <2>2. CASE ~store.there
    <3>1. Coherence(claims, store) =
            IF c = 0 THEN IF claims = <<>> THEN 0 ELSE 360 ELSE Ratio(c, n)
      BY <2>2, <1>5 DEF Coherence
    <3>2. claims = <<>> => c = 0
      <4>1. claims = <<>> => CausalClaims(claims) = {}
        BY DEF CausalClaims
      <4> QED
        BY <4>1, FS_EmptySet
    <3> HIDE DEF c, n
    <3>3. claims # <<>> => Ratio(c, n) \in Int
      BY <1>1, <1>2, <1>3
    <3> QED
      BY <3>1, <3>2, <3>3
  <2> QED
    BY <2>1, <2>2
<1> QED
  BY <1>4, <1>7, <1>8 DEF ScoreTurn, Scores

-----------------------------------------------------------------------------
(* Extraction.                                                             *)

\* What Among keeps is wanted and in the sequence.
LEMMA AmongKeeps ==
  ASSUME NEW A, NEW seq \in Seq(A), NEW wanted
  PROVE  Among(seq, wanted) \in Seq(A \cap wanted)
<1> DEFINE n == Len(seq)
           B == Seq(A \cap wanted)
           Kept(x, k) == IF seq[k] \in wanted THEN Append(x, seq[k]) ELSE x
           Step == [p \in B \X (1..n) |-> Kept(p[1], p[2])]
           Eqn(iter) == iter = [s \in SUBSET DOMAIN seq |->
                                  IF s = {} THEN <<>> ELSE Kept(iter[s \ {Max(s)}], Max(s))]
           fold == CHOOSE iter : Eqn(iter)
<1>1. Among(seq, wanted) = fold[DOMAIN seq]
  BY DEF Among, FoldLeft, MapThenFoldSet
<1>2. n \in Nat /\ DOMAIN seq = 1..n /\ \A k \in 1..n : seq[k] \in A
  OBVIOUS
<1> HIDE DEF n
<1>3. <<>> \in B
  OBVIOUS
<1>4. \A x \in B, k \in 1..n : Kept(x, k) \in B
  BY <1>2
<1> HIDE DEF B, Kept
<1>5. Step \in [B \X (1..n) -> B] /\ \A x \in B, k \in 1..n : Step[<<x, k>>] = Kept(x, k)
  BY <1>4
<1>6. \A s \in SUBSET (1..n) : s # {} => Max(s) \in 1..n /\ s \ {Max(s)} \in SUBSET (1..n)
  BY <1>2, GreatestOf
<1>7. PICK base : base = <<>>
  OBVIOUS
<1> HIDE DEF Step
<1>8. Eqn(fold)
  <2>1. PICK iter \in [SUBSET (1..n) -> B] : Folds(iter, n, base, Step)
    BY <1>2, <1>3, <1>5, <1>7, FoldsExist
  <2>2. \A s \in SUBSET (1..n) : iter[s] = IF s = {} THEN <<>> ELSE Kept(iter[s \ {Max(s)}], Max(s))
    BY <2>1, <1>5, <1>6, <1>7 DEF Folds
  <2>3. Eqn(iter)
    BY <2>2, <1>2
  <2> HIDE DEF Eqn
  <2> QED
    BY <2>3
<1> HIDE DEF fold
<1>9. fold[{}] = base
  BY <1>8, <1>2, <1>7
<1>10. \A s \in SUBSET (1..n) : s # {} => fold[s] = Kept(fold[s \ {Max(s)}], Max(s))
  BY <1>8, <1>2
<1> HIDE DEF Eqn
<1>11. \A s \in SUBSET (1..n) : (s # {} /\ fold[s \ {Max(s)}] \in B) =>
                                   fold[s] = Step[<<fold[s \ {Max(s)}], Max(s)>>]
  BY <1>5, <1>6, <1>10
<1> DEFINE v == [k \in 0..n |-> fold[1..k]]
<1>12. Traces(v, n, B, base, Step)
  <2> HIDE DEF v
  <2>1. v = [k \in 0..n |-> fold[1..k]]
    BY DEF v
  <2>2. base \in B
    BY <1>3, <1>7
  <2> QED
    BY <1>2, <1>5, <1>9, <1>11, <2>1, <2>2, FoldTrace
<1>13. Among(seq, wanted) = v[n]
  BY <1>1, <1>2
<1> HIDE DEF v
<1>14. v[n] \in B
  BY <1>2, <1>12 DEF Traces
<1> QED
  BY <1>13, <1>14 DEF B

RawClaimOver(C, D) ==
  [text : BOOLEAN, concepts : Seq(C), causal : BOOLEAN, confidence : Int, says : SUBSET D]

\* Whatever the model returns, what is extracted are claims about known concepts.
LEMMA ExtractFits ==
  ASSUME NEW C, NEW D, NEW raw \in Seq(RawClaimOver(C, D)), NEW expected \in Seq(C), NEW reached
  PROVE  Extract(raw, expected, reached) \in Seq(ClaimOver(C, D))
<1> DEFINE A == RawClaimOver(C, D)
           claims == WithText(raw)
           n == Len(claims)
           wanted == {c \in Range(raw) : c.text}
<1>1. claims \in Seq(A)
  <2>1. claims \in Seq(A \cap wanted)
    <3> HIDE DEF A, wanted
    <3>1. raw \in Seq(A)
      BY DEF A
    <3>2. Among(raw, wanted) \in Seq(A \cap wanted)
      BY <3>1, AmongKeeps
    <3> QED
      BY <3>2 DEF WithText, wanted
  <2> HIDE DEF A, wanted, claims
  <2> QED
    BY <2>1
<1> HIDE DEF claims
<1>2. n \in Nat /\ DOMAIN claims = 1..n /\ \A i \in 1..n : claims[i] \in A
  BY <1>1
<1> HIDE DEF n
<1>3. \A i \in 1..n : claims[i].concepts \in Seq(C) /\ claims[i].confidence \in Int
  BY <1>2 DEF RawClaimOver
<1>4. ParseExtraction(raw, expected) \in Seq(ClaimOver(C, D))
  <2> DEFINE Parsed(i) == [claims[i] EXCEPT !.concepts = Among(claims[i].concepts, Range(expected)),
                                            !.confidence = Clamp(claims[i].confidence, 0, 10)]
  <2>1. ParseExtraction(raw, expected) = [i \in 1..n |-> Parsed(i)]
    BY <1>2 DEF ParseExtraction, claims
  <2>2. \A i \in 1..n : Parsed(i) \in ClaimOver(C, D)
    <3> SUFFICES ASSUME NEW i \in 1..n PROVE Parsed(i) \in ClaimOver(C, D)
      OBVIOUS
    <3>1. claims[i] \in RawClaimOver(C, D)
      BY <1>2
    <3>2. Clamp(claims[i].confidence, 0, 10) \in 0..10
      <4>1. claims[i].confidence \in Int
        BY <1>3
      <4>2. PICK x \in Int : x = claims[i].confidence
        BY <4>1
      <4>3. Clamp(x, 0, 10) \in 0..10
        BY DEF Clamp, Least, Most
      <4> QED
        BY <4>2, <4>3
    <3>3. Among(claims[i].concepts, Range(expected)) \in Seq(C)
      <4>1. PICK s : s = claims[i].concepts
        OBVIOUS
      <4>2. s \in Seq(C)
        BY <1>3, <4>1
      <4>3. PICK R : R = Range(expected)
        OBVIOUS
      <4>4. PICK a : a = Among(s, R)
        OBVIOUS
      <4>5. a \in Seq(C \cap R)
        BY <4>2, <4>4, AmongKeeps
      <4>6. a \in Seq(C)
        BY <4>5
      <4> QED
        BY <4>1, <4>3, <4>4, <4>6
    <3> QED
      BY <3>1, <3>2, <3>3 DEF RawClaimOver, ClaimOver
  <2> HIDE DEF Parsed
  <2>3. [i \in 1..n |-> Parsed(i)] \in Seq(ClaimOver(C, D))
    BY <1>2, <2>2
  <2> QED
    BY <2>1, <2>3
<1>5. HeuristicExtraction(raw, expected) \in Seq(ClaimOver(C, D))
  <2> DEFINE few == SubSeq(expected, 1, Least(2, Len(expected)))
             Guessed(i) == [claims[i] EXCEPT !.concepts = few, !.confidence = 5]
  <2>1. HeuristicExtraction(raw, expected) = [i \in 1..n |-> Guessed(i)]
    BY <1>2 DEF HeuristicExtraction, claims
  <2>2. few \in Seq(C)
    <3> DEFINE k == Least(2, Len(expected))
    <3>1. k \in Int /\ k <= Len(expected) /\ Len(expected) \in Nat
      BY DEF Least
    <3> HIDE DEF k
    <3>2. \A i \in 1..k : expected[i] \in C
      BY <3>1
    <3>3. 1 \in Int
      OBVIOUS
    <3>4. SubSeq(expected, 1, k) \in Seq(C)
      BY <3>1, <3>2, <3>3, SubSeqProperties
    <3> QED
      BY <3>4 DEF k
  <2> HIDE DEF few
  <2>3. \A i \in 1..n : Guessed(i) \in ClaimOver(C, D)
    <3> SUFFICES ASSUME NEW i \in 1..n PROVE Guessed(i) \in ClaimOver(C, D)
      OBVIOUS
    <3>1. claims[i] \in RawClaimOver(C, D)
      BY <1>2
    <3>2. 5 \in 0..10
      OBVIOUS
    <3> QED
      BY <2>2, <3>1, <3>2 DEF RawClaimOver, ClaimOver
  <2> HIDE DEF Guessed
  <2>4. [i \in 1..n |-> Guessed(i)] \in Seq(ClaimOver(C, D))
    BY <1>2, <2>3
  <2> QED
    BY <2>1, <2>4
<1> QED
  BY <1>4, <1>5 DEF Extract

-----------------------------------------------------------------------------
(* Shares of questions.                                                    *)

HowMany(k, T) == Cardinality({i \in 1..k : i \in T})

\* Of the first numbers none is in a set, and then one more for each that is.
LEMMA HowManyStep ==
  ASSUME NEW n \in Nat, NEW T
  PROVE  HowMany(n, T) \in 0..n /\ HowMany(n + 1, T) = HowMany(n, T) + (IF n + 1 \in T THEN 1 ELSE 0)
BY CountStep DEF HowMany

\* Before the first number there is none.
LEMMA HowManyNone == \A T : HowMany(0, T) = 0
<1>1. \A T : {i \in 1..0 : i \in T} = {}
  OBVIOUS
<1> QED
  BY <1>1, FS_EmptySet DEF HowMany

\* a times a summand of h is b times one of f and one of g
Splits(n, h, a, f, b, g) ==
  /\ n \in Nat /\ a \in Int /\ b \in Int
  /\ h \in [1..n -> Int] /\ f \in [1..n -> Int] /\ g \in [1..n -> Int]
  /\ \A i \in 1..n : h[i] * a = f[i] * b + g[i]

\* Sums keep a linear equation of their summands.
LEMMA SumsAgree ==
  ASSUME NEW n, NEW h, NEW a, NEW f, NEW b, NEW g, Splits(n, h, a, f, b, g)
  PROVE  /\ Sum(f) \in Int /\ Sum(g) \in Int /\ Sum(h) \in Int
         /\ Sum(h) * a = Sum(f) * b + Sum(g)
<1> USE DEF Splits
<1> n \in Nat /\ a \in Int /\ b \in Int
  OBVIOUS
<1> h \in [1..n -> Int] /\ f \in [1..n -> Int] /\ g \in [1..n -> Int]
  OBVIOUS
<1>0. \A i \in 1..n : h[i] * a = f[i] * b + g[i]
  OBVIOUS
<1> HIDE DEF Splits
<1>1. PICK u \in [0..n -> Int] : u[0] = 0 /\ (\A k \in 1..n : u[k] = u[k - 1] + f[k]) /\ Total(f) = u[n]
  BY TotalTrace
<1>2. PICK v \in [0..n -> Int] : v[0] = 0 /\ (\A k \in 1..n : v[k] = v[k - 1] + g[k]) /\ Total(g) = v[n]
  BY TotalTrace
<1>3. PICK w \in [0..n -> Int] : w[0] = 0 /\ (\A k \in 1..n : w[k] = w[k - 1] + h[k]) /\ Total(h) = w[n]
  BY TotalTrace
<1> DEFINE T == {k \in Nat : w[k] * a = u[k] * b + v[k]}
<1>4. 0 \in T
  BY <1>1, <1>2, <1>3
<1>5. ASSUME NEW k \in Nat, k < n, k \in T PROVE k + 1 \in T
  <2>1. k + 1 \in 1..n /\ (k + 1) - 1 = k /\ k \in 0..n
    BY <1>5
  <2>2. /\ u[k + 1] = u[k] + f[k + 1] /\ v[k + 1] = v[k] + g[k + 1] /\ w[k + 1] = w[k] + h[k + 1]
        /\ h[k + 1] * a = f[k + 1] * b + g[k + 1]
    BY <1>0, <1>1, <1>2, <1>3, <2>1
  <2>3. /\ u[k] \in Int /\ v[k] \in Int /\ w[k] \in Int
        /\ f[k + 1] \in Int /\ g[k + 1] \in Int /\ h[k + 1] \in Int
    BY <2>1
  <2>4. w[k] * a = u[k] * b + v[k]
    BY <1>5
  <2>5. PICK u1 \in Int, v1 \in Int, w1 \in Int, f1 \in Int, g1 \in Int, h1 \in Int :
               u1 = u[k] /\ v1 = v[k] /\ w1 = w[k] /\ f1 = f[k + 1] /\ g1 = g[k + 1] /\ h1 = h[k + 1]
    BY <2>3
  <2>6. w1 * a = u1 * b + v1 /\ h1 * a = f1 * b + g1
    BY <2>2, <2>4, <2>5
  <2>7. (w1 + h1) * a = (u1 + f1) * b + (v1 + g1)
    <3>1. PICK p \in Int, q \in Int, r \in Int, s \in Int : p = u1 * b /\ q = f1 * b /\ r = w1 * a /\ s = h1 * a
      OBVIOUS
    <3>2. (w1 + h1) * a = r + s /\ (u1 + f1) * b = p + q
      BY <3>1
    <3>3. r = p + v1 /\ s = q + g1
      BY <2>6, <3>1
    <3>4. r + s = (p + q) + (v1 + g1)
      BY <3>3
    <3> QED
      BY <3>2, <3>4
  <2>8. w[k + 1] = w1 + h1 /\ u[k + 1] = u1 + f1 /\ v[k + 1] = v1 + g1
    BY <2>2, <2>5
  <2>9. w[k + 1] * a = u[k + 1] * b + v[k + 1]
    BY <2>7, <2>8
  <2> QED
    BY <2>9
<1> HIDE DEF T
<1>6. \A k \in 0..n : k \in T
  BY <1>4, <1>5, InductTo
<1>7. n \in T /\ u[n] \in Int /\ v[n] \in Int /\ w[n] \in Int
  BY <1>6
<1>8. Sum(f) = u[n] /\ Sum(g) = v[n] /\ Sum(h) = w[n]
  BY <1>1, <1>2, <1>3 DEF Sum, Total
<1> QED
  BY <1>7, <1>8 DEF T

\* One more for each index of a set adds their number to the sum.
LEMMA SumWithExtra ==
  ASSUME NEW n \in Nat, NEW f \in [1..n -> Int], NEW S
  PROVE  Sum([i \in 1..n |-> f[i] + IF i \in S THEN 1 ELSE 0]) = Sum(f) + HowMany(n, S)
<1> DEFINE h == [i \in 1..n |-> f[i] + IF i \in S THEN 1 ELSE 0]
           c(k) == HowMany(k, S)
<1>1. PICK u \in [0..n -> Int] : u[0] = 0 /\ (\A k \in 1..n : u[k] = u[k - 1] + f[k]) /\ Total(f) = u[n]
  BY TotalTrace
<1>2. h \in [1..n -> Int]
  OBVIOUS
<1>3. \A k \in 1..n : h[k] = f[k] + IF k \in S THEN 1 ELSE 0
  OBVIOUS
<1> HIDE DEF h
<1>4. PICK w \in [0..n -> Int] : w[0] = 0 /\ (\A k \in 1..n : w[k] = w[k - 1] + h[k]) /\ Total(h) = w[n]
  BY <1>2, TotalTrace
<1>5. \A k \in Nat : c(k) \in Nat /\ c(k + 1) = c(k) + IF k + 1 \in S THEN 1 ELSE 0
  <2> SUFFICES ASSUME NEW k \in Nat
               PROVE  c(k) \in Nat /\ c(k + 1) = c(k) + IF k + 1 \in S THEN 1 ELSE 0
    OBVIOUS
  <2>1. c(k) \in 0..k /\ c(k + 1) = c(k) + (IF k + 1 \in S THEN 1 ELSE 0)
    BY HowManyStep
  <2>2. c(k) \in 0..k
    BY <2>1
  <2> HIDE DEF c
  <2> QED
    BY <2>1, <2>2
<1>6. c(0) = 0
  BY HowManyNone
<1> HIDE DEF c
<1> DEFINE T == {k \in Nat : w[k] = u[k] + c(k)}
<1>7. 0 \in T
  BY <1>1, <1>4, <1>6
<1>8. ASSUME NEW k \in Nat, k < n, k \in T PROVE k + 1 \in T
  <2>1. k + 1 \in 1..n /\ (k + 1) - 1 = k /\ k \in 0..n
    BY <1>8
  <2>2. u[k + 1] = u[k] + f[k + 1] /\ w[k + 1] = w[k] + (f[k + 1] + IF k + 1 \in S THEN 1 ELSE 0)
    BY <1>1, <1>3, <1>4, <2>1
  <2>3. u[k] \in Int /\ f[k + 1] \in Int /\ w[k] \in Int /\ c(k) \in Nat
    BY <1>5, <2>1
  <2>4. w[k] = u[k] + c(k)
    BY <1>8
  <2>5. PICK u1 \in Int, f1 \in Int, c1 \in Int, e \in {0, 1} :
               u1 = u[k] /\ f1 = f[k + 1] /\ c1 = c(k) /\ e = IF k + 1 \in S THEN 1 ELSE 0
    <3>1. (IF k + 1 \in S THEN 1 ELSE 0) \in {0, 1}
      OBVIOUS
    <3> QED
      BY <2>3, <3>1
  <2>6. w[k + 1] = (u1 + c1) + (f1 + e) /\ u[k + 1] = u1 + f1 /\ c(k + 1) = c1 + e
    BY <1>5, <2>2, <2>4, <2>5
  <2>7. (u1 + c1) + (f1 + e) = (u1 + f1) + (c1 + e)
    OBVIOUS
  <2> QED
    BY <2>6, <2>7
<1> HIDE DEF T
<1>9. \A k \in 0..n : k \in T
  BY <1>7, <1>8, InductTo
<1>10. w[n] = u[n] + c(n)
  BY <1>9 DEF T
<1>11. Sum(f) = u[n] /\ Sum(h) = w[n]
  BY <1>1, <1>4 DEF Sum, Total
<1> QED
  BY <1>10, <1>11 DEF h, c

\* A sum is at most as many times a bound as there are positive summands.
LEMMA SumOfPositives ==
  ASSUME NEW n \in Nat, NEW top \in Nat, NEW f \in [1..n -> 0..top]
  PROVE  Sum(f) \in Nat /\ Sum(f) <= top * HowMany(n, {j \in 1..n : f[j] > 0})
<1> DEFINE S == {j \in 1..n : f[j] > 0}
           c(k) == HowMany(k, S)
<1>1. PICK u \in [0..n -> Int] : u[0] = 0 /\ (\A k \in 1..n : u[k] = u[k - 1] + f[k]) /\ Total(f) = u[n]
  <2>1. f \in [1..n -> Int]
    OBVIOUS
  <2> QED
    BY <2>1, TotalTrace
<1>2. \A k \in 1..n : f[k] \in 0..top /\ (k \in S <=> f[k] > 0)
  OBVIOUS
<1> HIDE DEF S
<1>3. \A k \in Nat : c(k) \in Nat /\ c(k + 1) = c(k) + IF k + 1 \in S THEN 1 ELSE 0
  <2> SUFFICES ASSUME NEW k \in Nat
               PROVE  c(k) \in Nat /\ c(k + 1) = c(k) + IF k + 1 \in S THEN 1 ELSE 0
    OBVIOUS
  <2>1. c(k) \in 0..k /\ c(k + 1) = c(k) + (IF k + 1 \in S THEN 1 ELSE 0)
    BY HowManyStep
  <2>2. c(k) \in 0..k
    BY <2>1
  <2> HIDE DEF c
  <2> QED
    BY <2>1, <2>2
<1>4. c(0) = 0
  BY HowManyNone
<1> HIDE DEF c
<1> DEFINE T == {k \in Nat : 0 <= u[k] /\ u[k] <= top * c(k)}
<1>5. 0 \in T
  BY <1>1, <1>4
<1>6. ASSUME NEW k \in Nat, k < n, k \in T PROVE k + 1 \in T
  <2>1. k + 1 \in 1..n /\ (k + 1) - 1 = k /\ k \in 0..n
    BY <1>6
  <2>2. u[k + 1] = u[k] + f[k + 1] /\ f[k + 1] \in 0..top /\ u[k] \in Int /\ c(k) \in Nat
    BY <1>1, <1>2, <1>3, <2>1
  <2>3. 0 <= u[k] /\ u[k] <= top * c(k)
    BY <1>6
  <2>4. top * c(k) \in Int /\ top * (c(k) + 1) = top * c(k) + top
    <3>1. \A x \in Nat : top * x \in Int /\ top * (x + 1) = top * x + top
      OBVIOUS
    <3> QED
      BY <2>2, <3>1
  <2>5. CASE k + 1 \in S
    <3>1. c(k + 1) = c(k) + 1
      BY <1>3, <2>5
    <3>2. PICK a, x \in Int, y \in 0..top : a = top * c(k) /\ x = u[k] /\ y = f[k + 1]
      BY <2>2, <2>4
    <3>3. 0 <= x + y /\ x + y <= a + top
      BY <2>3, <3>2
    <3>4. u[k + 1] = x + y /\ top * c(k + 1) = a + top
      BY <2>2, <2>4, <3>1, <3>2
    <3>5. 0 <= u[k + 1] /\ u[k + 1] <= top * c(k + 1)
      BY <3>3, <3>4
    <3> QED
      BY <3>5
  <2>6. CASE k + 1 \notin S
    <3>1. c(k + 1) = c(k) /\ f[k + 1] = 0
      <4>1. c(k + 1) = c(k) + 0
        BY <1>3, <2>6
      <4> QED
        BY <4>1, <1>2, <2>1, <2>2, <2>6
    <3> QED
      BY <2>2, <2>3, <3>1
  <2> QED
    BY <2>5, <2>6
<1> HIDE DEF T
<1>7. \A k \in 0..n : k \in T
  BY <1>5, <1>6, InductTo
<1>8. 0 <= u[n] /\ u[n] <= top * c(n) /\ u[n] \in Int
  BY <1>7 DEF T
<1>9. Sum(f) = u[n]
  BY <1>1 DEF Sum, Total
<1> QED
  BY <1>8, <1>9 DEF S, c

\* When the numbers before each number of 1..n are those of a strict order, as many have fewer than left
\* before them as left says.
LEMMA RanksFill ==
  ASSUME NEW n \in Nat, NEW B \in [1..n -> SUBSET (1..n)], NEW left \in 0..n,
         \A i \in 1..n : i \notin B[i],
         \A i, j \in 1..n : i # j => i \in B[j] \/ j \in B[i],
         \A i, j \in 1..n : i \in B[j] => B[i] \subseteq B[j]
  PROVE  HowMany(n, {i \in 1..n : Cardinality(B[i]) < left}) = left
<1> DEFINE rank == [i \in 1..n |-> Cardinality(B[i])]
           T == {i \in 1..n : rank[i] < left}
           low == 0..(left - 1)
           g == [i \in T |-> rank[i]]
<1>1. IsFiniteSet(1..n) /\ Cardinality(1..n) = n
  BY FS_Interval
<1>2. IsFiniteSet(0..(n - 1)) /\ Cardinality(0..(n - 1)) = n
  <2>1. 0 \in Int /\ n - 1 \in Int
    OBVIOUS
  <2>2. IsFiniteSet(0..(n - 1)) /\ Cardinality(0..(n - 1)) = IF 0 > n - 1 THEN 0 ELSE (n - 1) - 0 + 1
    BY <2>1, FS_Interval
  <2> QED
    BY <2>2
<1>3. ASSUME NEW i \in 1..n PROVE IsFiniteSet(B[i]) /\ rank[i] \in 0..(n - 1)
  <2>1. B[i] \in SUBSET ((1..n) \ {i})
    OBVIOUS
  <2>2. IsFiniteSet((1..n) \ {i}) /\ Cardinality((1..n) \ {i}) = n - 1
    BY <1>1, FS_RemoveElement
  <2>3. IsFiniteSet(B[i]) /\ Cardinality(B[i]) <= n - 1
    BY <2>1, <2>2, FS_Subset
  <2>4. Cardinality(B[i]) \in Nat
    BY <2>3, FS_CardinalityType
  <2> QED
    BY <2>3, <2>4
<1>4. ASSUME NEW i \in 1..n, NEW j \in 1..n, i \in B[j] PROVE rank[i] < rank[j]
  <2>1. B[i] \in SUBSET B[j] /\ B[i] # B[j]
    BY <1>4
  <2>2. IsFiniteSet(B[j])
    BY <1>3
  <2>3. Cardinality(B[i]) <= Cardinality(B[j]) /\ Cardinality(B[j]) # Cardinality(B[i])
    BY <2>1, <2>2, FS_Subset
  <2>4. rank[i] \in 0..(n - 1) /\ rank[j] \in 0..(n - 1)
    BY <1>3
  <2>5. rank[i] = Cardinality(B[i]) /\ rank[j] = Cardinality(B[j])
    OBVIOUS
  <2> HIDE DEF rank
  <2> QED
    BY <2>3, <2>4, <2>5
<1>5. {i \in 1..n : Cardinality(B[i]) < left} = T
  OBVIOUS
<1>6. rank \in [1..n -> 0..(n - 1)]
  BY <1>3
<1> HIDE DEF rank
<1>7. rank \in Injection(1..n, 0..(n - 1))
  <2>1. \A i, j \in 1..n : rank[i] = rank[j] => i = j
    <3> SUFFICES ASSUME NEW i \in 1..n, NEW j \in 1..n, i # j PROVE rank[i] # rank[j]
      OBVIOUS
    <3>1. rank[i] \in Int /\ rank[j] \in Int
      BY <1>6
    <3>2. i \in B[j] \/ j \in B[i]
      OBVIOUS
    <3>3. rank[i] < rank[j] \/ rank[j] < rank[i]
      BY <1>4, <3>2
    <3> QED
      BY <3>1, <3>3
  <2> QED
    BY <1>6, <2>1 DEF Injection, IsInjective
<1>8. rank \in Surjection(1..n, 0..(n - 1))
  BY <1>1, <1>2, <1>7, FS_Injection
<1>9. T \in SUBSET (1..n) /\ IsFiniteSet(T)
  <2>1. T \in SUBSET (1..n)
    OBVIOUS
  <2> HIDE DEF T
  <2> QED
    BY <1>1, <2>1, FS_Subset
<1>10. g \in [T -> low]
  BY <1>6
<1>11. g \in Injection(T, low)
  <2>1. \A i, j \in T : g[i] = g[j] => i = j
    BY <1>7 DEF Injection, IsInjective
  <2> HIDE DEF g, T, low
  <2> QED
    BY <1>10, <2>1 DEF Injection, IsInjective
<1>12. g \in Surjection(T, low)
  <2>1. \A t \in low : \E i \in T : g[i] = t
    <3> SUFFICES ASSUME NEW t \in low PROVE \E i \in T : g[i] = t
      OBVIOUS
    <3>1. t \in 0..(n - 1) /\ t < left
      OBVIOUS
    <3>2. PICK i \in 1..n : rank[i] = t
      BY <1>8, <3>1 DEF Surjection
    <3>3. i \in T /\ g[i] = t
      BY <3>1, <3>2
    <3> QED
      BY <3>3
  <2> HIDE DEF g, T, low
  <2> QED
    BY <1>10, <2>1 DEF Surjection
<1>13. Cardinality(low) = left
  <2>1. 0 \in Int /\ left - 1 \in Int
    OBVIOUS
  <2>2. Cardinality(0..(left - 1)) = IF 0 > left - 1 THEN 0 ELSE (left - 1) - 0 + 1
    BY <2>1, FS_Interval
  <2> QED
    BY <2>2
<1> HIDE DEF g, T, low
<1>14. Cardinality(low) = Cardinality(T)
  <2>1. g \in Bijection(T, low)
    BY <1>11, <1>12 DEF Bijection
  <2>2. ExistsBijection(T, low)
    BY <2>1 DEF ExistsBijection
  <2> QED
    BY <1>9, <2>2, FS_Bijection
<1>15. {i \in 1..n : i \in T} = T
  BY <1>9
<1> QED
  BY <1>5, <1>13, <1>14, <1>15 DEF HowMany

\* Weights are between 1 and the number of concepts.
LEMMA WeightsFit ==
  ASSUME NEW n \in Nat \ {0}, NEW mode
  PROVE  Weights(n, mode) \in [1..n -> 1..n]
<1>1. \A i \in 1..n : n - i + 1 \in 1..n /\ i \in 1..n /\ 1 \in 1..n
  OBVIOUS
<1>2. CASE mode = "front"
  BY <1>1, <1>2 DEF Weights
<1>3. CASE mode = "back"
  BY <1>1, <1>3 DEF Weights
<1>4. CASE mode # "front" /\ mode # "back"
  BY <1>1, <1>4 DEF Weights
<1> QED
  BY <1>2, <1>3, <1>4

\* A number is a multiple of the divisor and a rest below it.
LEMMA DivMod ==
  ASSUME NEW x \in Nat, NEW d \in Nat, d > 0
  PROVE  x \div d \in Nat /\ x % d \in 0..(d - 1) /\ x = ((x \div d) * d) + (x % d)
<1>1. PICK q, e : q = x \div d /\ e = x % d
  OBVIOUS
<1>2. q \in Int /\ e \in 0..(d - 1) /\ x = d * q + e
  BY <1>1
<1>3. d * q = q * d
  BY <1>2
<1>4. 0 <= q
  <2>1. 0 * d <= x /\ 0 \in Int
    OBVIOUS
  <2> QED
    BY <1>1, <2>1, DivWithin
<1>5. q \in Nat /\ x = q * d + e
  BY <1>2, <1>3, <1>4
<1> QED
  BY <1>1, <1>2, <1>5

Remainders(w, count) == [i \in DOMAIN w |-> Remainder(w, count, i)]

\* The floors of the shares and what is left of them.
LEMMA FloorsFit ==
  ASSUME NEW n \in Nat \ {0}, NEW w \in [1..n -> 1..n], NEW count \in Nat,
         NEW f, f = Floors(w, count), NEW r, r = Remainders(w, count), NEW total, total = Sum(w)
  PROVE  /\ total \in Nat \ {0}
         /\ f \in [1..n -> Nat]
         /\ r \in [1..n -> 0..(total - 1)]
         /\ Splits(n, w, count, f, total, r)
<1>1. w \in [1..n -> Int] /\ 1 \in Int /\ n \in Int /\ n \in Nat /\ \A i \in 1..n : 1 <= w[i] /\ w[i] <= n
  OBVIOUS
<1>2. Total(w) \in Int /\ 1 * n <= Total(w)
  BY <1>1, TotalBetween
<1>3. Sum(w) = Total(w)
  BY DEF Sum, Total
<1>4. total \in Nat /\ total > 0 /\ total \in Nat \ {0}
  BY <1>2, <1>3
<1>5. f = [i \in 1..n |-> (w[i] * count) \div total]
  BY DEF Floors
<1>6. r = [i \in 1..n |-> (w[i] * count) % total]
  BY DEF Remainders, Remainder
<1>7. ASSUME NEW i \in 1..n
      PROVE  f[i] \in Nat /\ r[i] \in 0..(total - 1) /\ w[i] * count = f[i] * total + r[i]
  <2>1. PICK x \in Nat : x = w[i] * count
    <3>1. w[i] \in Nat
      BY <1>1
    <3>2. w[i] * count \in Nat
      BY <3>1
    <3> QED
      BY <3>2
  <2>2. f[i] = x \div total /\ r[i] = x % total
    BY <1>5, <1>6, <2>1
  <2>3. x \div total \in Nat /\ x % total \in 0..(total - 1) /\ x = ((x \div total) * total) + (x % total)
    BY <1>4, DivMod
  <2> QED
    BY <2>1, <2>2, <2>3
<1>8. f \in [1..n -> Nat]
  BY <1>5, <1>7
<1>9. r \in [1..n -> 0..(total - 1)]
  BY <1>6, <1>7
<1>10. f \in [1..n -> Int] /\ r \in [1..n -> Int]
  <2>1. f \in [1..n -> Int]
    BY <1>8
  <2>2. r \in [1..n -> Int]
    BY <1>9
  <2> QED
    BY <2>1, <2>2
<1>11. Splits(n, w, count, f, total, r)
  <2>1. \A i \in 1..n : w[i] * count = f[i] * total + r[i]
    BY <1>7
  <2>2. n \in Nat /\ count \in Int /\ total \in Int
    BY <1>4
  <2> QED
    BY <1>1, <1>10, <2>1, <2>2 DEF Splits
<1> QED
  BY <1>4, <1>8, <1>9, <1>11

\* What the floors leave over is less than a question for each concept whose share was rounded.
LEMMA LeftFits ==
  ASSUME NEW n \in Nat \ {0}, NEW w \in [1..n -> 1..n], NEW count \in Nat,
         NEW f, f = Floors(w, count), NEW r, r = Remainders(w, count), NEW left, left = count - Sum(f)
  PROVE  left \in 0..n /\ (left = 0 \/ left < HowMany(n, {i \in 1..n : r[i] > 0}))
<1>1. PICK total : total = Sum(w)
  OBVIOUS
<1>2. /\ total \in Nat \ {0}
      /\ f \in [1..n -> Nat]
      /\ r \in [1..n -> 0..(total - 1)]
      /\ Splits(n, w, count, f, total, r)
  BY <1>1, FloorsFit
<1>3. Sum(f) \in Int /\ Sum(r) \in Int /\ total * count = Sum(f) * total + Sum(r)
  <2>1. Splits(n, w, count, f, total, r)
    BY <1>2
  <2>2. /\ Sum(f) \in Int /\ Sum(r) \in Int /\ Sum(w) \in Int
        /\ Sum(w) * count = Sum(f) * total + Sum(r)
    BY <2>1, SumsAgree
  <2>3. total = Sum(w) /\ total * count = Sum(w) * count
    BY <1>1
  <2> QED
    BY <2>2, <2>3
<1>4. PICK c : c = HowMany(n, {i \in 1..n : r[i] > 0})
  OBVIOUS
<1>5. Sum(r) \in Nat /\ Sum(r) <= (total - 1) * c
  <2>1. total - 1 \in Nat /\ n \in Nat
    BY <1>2
  <2>2. r \in [1..n -> 0..(total - 1)]
    BY <1>2
  <2>3. Sum(r) \in Nat /\ Sum(r) <= (total - 1) * HowMany(n, {j \in 1..n : r[j] > 0})
    BY <2>1, <2>2, SumOfPositives
  <2> QED
    BY <1>4, <2>3
<1>6. c \in 0..n
  <2>1. n \in Nat
    OBVIOUS
  <2> QED
    BY <1>4, <2>1, HowManyStep
<1>7. PICK s \in Int, t \in Nat : s = Sum(f) /\ t = Sum(r)
  BY <1>3, <1>5
<1>8. left = count - s /\ left \in Int /\ total * count = s * total + t /\ t <= (total - 1) * c
  BY <1>3, <1>5, <1>7
<1>9. left * total = t
  <2>1. (count - s) * total = total * count - s * total
    BY <1>2
  <2>2. PICK x \in Int, y \in Int : x = total * count /\ y = s * total
    BY <1>2
  <2>3. (count - s) * total = x - y /\ x = y + t
    BY <1>8, <2>1, <2>2
  <2>4. x - y = t
    BY <2>3
  <2> QED
    BY <1>8, <2>3, <2>4
<1>10. (total - 1) * c = c * total - c /\ c * total \in Int
  BY <1>2, <1>6
<1>11. left >= 0
  <2> SUFFICES ASSUME left <= -1 PROVE FALSE
    BY <1>8
  <2>1. PICK h \in Nat : left = -1 - h
    <3>1. -1 - left \in Nat /\ left = -1 - (-1 - left)
      BY <1>8
    <3> QED
      BY <3>1
  <2>2. left * total = -total - h * total /\ h * total \in Nat
    <3>1. (-1 - h) * total = -total - h * total /\ h * total \in Nat
      BY <1>2
    <3> QED
      BY <2>1, <3>1
  <2> QED
    BY <1>2, <1>9, <2>2
<1>12. left = 0 \/ left < c
  <2> SUFFICES ASSUME left # 0, c <= left PROVE FALSE
    BY <1>6, <1>8
  <2>1. PICK h \in Nat : left = c + h
    <3>1. left - c \in Nat /\ left = c + (left - c)
      BY <1>6, <1>8
    <3> QED
      BY <3>1
  <2>2. left * total = c * total + h * total /\ h * total \in Nat
    <3>1. (c + h) * total = c * total + h * total /\ h * total \in Nat
      BY <1>2, <1>6
    <3> QED
      BY <2>1, <3>1
  <2>3. c * total + h * total <= c * total - c
    BY <1>8, <1>9, <1>10, <2>2
  <2>4. h * total = 0 /\ c = 0
    BY <1>6, <1>10, <2>2, <2>3
  <2>5. h # 0
    BY <2>1, <2>4
  <2>6. h >= 1 /\ h * total >= total
    <3>1. PICK e \in Nat : h = 1 + e
      <4>1. h - 1 \in Nat /\ h = 1 + (h - 1)
        BY <2>5
      <4> QED
        BY <4>1
    <3>2. h * total = total + e * total /\ e * total \in Nat
      BY <1>2, <3>1
    <3> QED
      BY <1>2, <2>5, <3>2
  <2> QED
    BY <1>2, <2>4, <2>6
<1>13. left \in 0..n
  BY <1>6, <1>8, <1>11, <1>12
<1> QED
  BY <1>4, <1>12, <1>13

\* The concepts served before concept i: those with a larger remainder, and among equals the first.
Ahead(n, r) == [i \in 1..n |-> {j \in 1..n : r[j] > r[i] \/ (r[j] = r[i] /\ j < i)}]

\* The largest remainders are rounded up, as many as there are questions left.
LEMMA SharesByRank ==
  ASSUME NEW n \in Nat \ {0}, NEW count \in Nat, NEW mode, NEW w, w = Weights(n, mode),
         NEW f, f = Floors(w, count), NEW r, r = Remainders(w, count), NEW left, left = count - Sum(f)
  PROVE  DistributeQuestions(n, count, mode) =
           [i \in 1..n |-> f[i] + IF i \in {k \in 1..n : Cardinality(Ahead(n, r)[k]) < left} THEN 1 ELSE 0]
<1>1. DOMAIN w = 1..n
  BY DEF Weights
<1>2. \A i \in 1..n : r[i] = Remainder(w, count, i)
  BY <1>1 DEF Remainders
<1> DEFINE First(i) == {j \in 1..n : \/ Remainder(w, count, j) > Remainder(w, count, i)
                                     \/ Remainder(w, count, j) = Remainder(w, count, i) /\ j < i}
<1>3. \A i \in 1..n : Ahead(n, r)[i] = First(i)
  BY <1>2 DEF Ahead
<1> DEFINE Extra(i) == IF Cardinality(First(i)) < left THEN 1 ELSE 0
           Up(i) == IF i \in {k \in 1..n : Cardinality(Ahead(n, r)[k]) < left} THEN 1 ELSE 0
<1>4. DistributeQuestions(n, count, mode) = [i \in 1..n |-> f[i] + Extra(i)]
  BY DEF DistributeQuestions
<1>5. \A i \in 1..n : Extra(i) = Up(i)
  <2> HIDE DEF First
  <2> QED
    BY <1>3
<1> HIDE DEF Extra, Up, First
<1>6. [i \in 1..n |-> f[i] + Extra(i)] = [i \in 1..n |-> f[i] + Up(i)]
  BY <1>5
<1> QED
  BY <1>4, <1>6 DEF Up

\* The concepts served before each are those of a strict order.
LEMMA AheadOrders ==
  ASSUME NEW n \in Nat, NEW r \in [1..n -> Int]
  PROVE  /\ Ahead(n, r) \in [1..n -> SUBSET (1..n)]
         /\ \A i \in 1..n : i \notin Ahead(n, r)[i]
         /\ \A i, j \in 1..n : i # j => i \in Ahead(n, r)[j] \/ j \in Ahead(n, r)[i]
         /\ \A i, j \in 1..n : i \in Ahead(n, r)[j] => Ahead(n, r)[i] \subseteq Ahead(n, r)[j]
<1>1. \A i, j \in 1..n : j \in Ahead(n, r)[i] <=> r[j] > r[i] \/ (r[j] = r[i] /\ j < i)
  BY DEF Ahead
<1>2. \A i \in 1..n : r[i] \in Int
  OBVIOUS
<1>3. Ahead(n, r) \in [1..n -> SUBSET (1..n)]
  BY DEF Ahead
<1>4. \A i \in 1..n : i \notin Ahead(n, r)[i]
  BY <1>1, <1>2
<1>5. \A i, j \in 1..n : i # j => i \in Ahead(n, r)[j] \/ j \in Ahead(n, r)[i]
  BY <1>1, <1>2
<1>6. ASSUME NEW i \in 1..n, NEW j \in 1..n, i \in Ahead(n, r)[j], NEW k \in Ahead(n, r)[i]
      PROVE  k \in Ahead(n, r)[j]
  <2>1. k \in 1..n
    BY <1>3
  <2>2. r[i] > r[j] \/ (r[i] = r[j] /\ i < j)
    BY <1>1, <1>6
  <2>3. r[k] > r[i] \/ (r[k] = r[i] /\ k < i)
    BY <1>1, <1>6, <2>1
  <2>4. r[k] > r[j] \/ (r[k] = r[j] /\ k < j)
    BY <1>2, <2>1, <2>2, <2>3
  <2> QED
    BY <1>1, <2>1, <2>4
<1> QED
  BY <1>3, <1>4, <1>5, <1>6

\* Every question is handed out, each concept gets its share rounded up or down, and a heavier concept
\* no fewer than a lighter one, for any number of concepts and questions (_distribute_questions).
THEOREM SharesAreFair ==
  ASSUME NEW n \in Nat \ {0}, NEW count \in Nat, NEW mode
  PROVE  SharesFair(n, count, mode)
<1>1. PICK w : w = Weights(n, mode)
  OBVIOUS
<1>2. PICK f, r, total : f = Floors(w, count) /\ r = Remainders(w, count) /\ total = Sum(w)
  OBVIOUS
<1>3. PICK left : left = count - Sum(f)
  OBVIOUS
<1>4. PICK out : out = DistributeQuestions(n, count, mode)
  OBVIOUS
<1> DEFINE B == Ahead(n, r)
           S == {i \in 1..n : Cardinality(B[i]) < left}
<1>5. w \in [1..n -> 1..n]
  BY <1>1, WeightsFit
<1>6. /\ total \in Nat \ {0}
      /\ f \in [1..n -> Nat]
      /\ r \in [1..n -> 0..(total - 1)]
      /\ Splits(n, w, count, f, total, r)
  BY <1>2, <1>5, FloorsFit
<1>7. left \in 0..n /\ (left = 0 \/ left < HowMany(n, {i \in 1..n : r[i] > 0}))
  BY <1>2, <1>3, <1>5, LeftFits
<1>8. out = [i \in 1..n |-> f[i] + IF i \in S THEN 1 ELSE 0]
  BY <1>1, <1>2, <1>3, <1>4, SharesByRank
<1>9. r \in [1..n -> Int] /\ n \in Nat
  <2>1. r \in [1..n -> 0..(total - 1)] /\ total \in Nat
    BY <1>6
  <2> QED
    BY <2>1
<1>10. /\ B \in [1..n -> SUBSET (1..n)]
       /\ \A i \in 1..n : i \notin B[i]
       /\ \A i, j \in 1..n : i # j => i \in B[j] \/ j \in B[i]
       /\ \A i, j \in 1..n : i \in B[j] => B[i] \subseteq B[j]
  BY <1>9, AheadOrders
<1>11. \A i, j \in 1..n : j \in B[i] <=> r[j] > r[i] \/ (r[j] = r[i] /\ j < i)
  BY DEF Ahead
<1> HIDE DEF B
<1>12. HowMany(n, S) = left
  BY <1>7, <1>9, <1>10, RanksFill
<1>13. \A i \in 1..n : out[i] = f[i] + (IF i \in S THEN 1 ELSE 0) /\ w[i] * count = f[i] * total + r[i]
  BY <1>6, <1>8 DEF Splits
<1>14. \A i \in 1..n : i \in S <=> Cardinality(B[i]) < left
  OBVIOUS
<1> HIDE DEF S
<1>15. Sum(out) = count
  <2>1. f \in [1..n -> Int] /\ Sum(f) \in Int
    <3>1. Sum(f) \in Int
      BY <1>6, SumsAgree
    <3>2. f \in [1..n -> Int]
      BY <1>6
    <3> QED
      BY <3>1, <3>2
  <2>2. Sum(out) = Sum(f) + HowMany(n, S)
    BY <1>8, <1>9, <2>1, SumWithExtra
  <2>3. PICK s \in Int : s = Sum(f)
    BY <2>1
  <2>4. Sum(out) = s + left /\ left = count - s
    BY <1>3, <1>12, <2>2, <2>3
  <2> QED
    BY <2>3, <2>4
<1>16. ASSUME NEW i \in 1..n
       PROVE  out[i] * total > w[i] * count - total /\ out[i] * total < w[i] * count + total
  <2>1. PICK x \in Nat, y \in Int, e \in {0, 1} :
               x = f[i] /\ y = r[i] /\ e = IF i \in S THEN 1 ELSE 0
    BY <1>6, <1>9
  <2>2. out[i] = x + e /\ w[i] * count = x * total + y /\ 0 <= y /\ y < total
    <3>1. out[i] = x + e
      BY <1>13, <2>1
    <3>2. w[i] * count = x * total + y
      BY <1>13, <2>1
    <3>3. 0 <= y /\ y < total
      BY <1>6, <2>1
    <3> QED
      BY <3>1, <3>2, <3>3
  <2>3. e = 1 => y > 0
    <3> SUFFICES ASSUME i \in S, y = 0 PROVE FALSE
      BY <2>1, <2>2
    <3>1. {k \in 1..n : r[k] > 0} \in SUBSET B[i]
      BY <1>11, <2>1
    <3>2. HowMany(n, {k \in 1..n : r[k] > 0}) = Cardinality({k \in 1..n : r[k] > 0})
      <4>1. {k \in 1..n : k \in {m \in 1..n : r[m] > 0}} = {k \in 1..n : r[k] > 0}
        OBVIOUS
      <4> QED
        BY <4>1 DEF HowMany
    <3>3. IsFiniteSet(B[i]) /\ Cardinality(B[i]) \in Nat
      <4>1. IsFiniteSet(1..n)
        BY FS_Interval
      <4>2. B[i] \in SUBSET (1..n)
        BY <1>10
      <4> QED
        BY <4>1, <4>2, FS_Subset, FS_CardinalityType
    <3>4. Cardinality({k \in 1..n : r[k] > 0}) <= Cardinality(B[i])
      BY <3>1, <3>3, FS_Subset
    <3>5. Cardinality({k \in 1..n : r[k] > 0}) \in Nat
      BY <3>1, <3>3, FS_Subset, FS_CardinalityType
    <3>6. Cardinality(B[i]) < left
      BY <1>14
    <3> QED
      BY <1>7, <3>2, <3>3, <3>4, <3>5, <3>6
  <2>4. PICK p \in Int : p = x * total
    BY <1>6
  <2>5. (x + e) * total = p + (IF e = 1 THEN total ELSE 0)
    BY <1>6, <2>4
  <2>6. w[i] * count = p + y /\ total \in Nat
    BY <1>6, <2>2, <2>4
  <2> QED
    BY <2>2, <2>3, <2>5, <2>6
<1>17. ASSUME NEW i \in 1..n, NEW j \in 1..n, w[i] > w[j] PROVE out[i] >= out[j]
  <2>1. PICK x \in Nat, y \in Int, e \in {0, 1} :
               x = f[i] /\ y = r[i] /\ e = IF i \in S THEN 1 ELSE 0
    BY <1>6, <1>9
  <2>2. PICK x2 \in Nat, y2 \in Int, e2 \in {0, 1} :
               x2 = f[j] /\ y2 = r[j] /\ e2 = IF j \in S THEN 1 ELSE 0
    BY <1>6, <1>9
  <2>3. /\ out[i] = x + e /\ w[i] * count = x * total + y
        /\ out[j] = x2 + e2 /\ w[j] * count = x2 * total + y2
    BY <1>13, <2>1, <2>2
  <2>4. w[j] * count <= w[i] * count
    <3>1. PICK a \in Int, b \in Int : a = w[i] /\ b = w[j] /\ b <= a
      BY <1>5, <1>17
    <3>2. b * count <= a * count
      BY <3>1, TimesMonotone
    <3> QED
      BY <3>1, <3>2
  <2>5. 0 <= y /\ y < total /\ 0 <= y2 /\ y2 < total
    BY <1>6, <2>1, <2>2
  <2>6. x2 <= x
    <3> SUFFICES ASSUME x < x2 PROVE FALSE
      OBVIOUS
    <3>1. PICK h \in Nat : x2 = x + 1 + h
      <4>1. x2 - x - 1 \in Nat /\ x2 = x + 1 + (x2 - x - 1)
        OBVIOUS
      <4> QED
        BY <4>1
    <3>2. (x + 1 + h) * total = x * total + total + h * total /\ h * total \in Nat /\ x * total \in Nat
      BY <1>6
    <3>3. PICK p \in Nat, q \in Nat : p = x * total /\ q = h * total
      BY <3>2
    <3>4. p + total + q + y2 <= p + y /\ total \in Nat
      BY <1>6, <2>3, <2>4, <3>1, <3>2, <3>3
    <3> QED
      BY <2>5, <3>4
  <2>7. CASE x2 = x
    <3>1. y2 <= y
      <4>1. PICK p \in Int : p = x * total
        BY <1>6
      <4>2. p + y2 <= p + y
        BY <2>3, <2>4, <2>7, <4>1
      <4> QED
        BY <4>2
    <3>2. e2 = 1 => e = 1
      <4> SUFFICES ASSUME j \in S PROVE i \in S
        BY <2>1, <2>2
      <4>1. IsFiniteSet(1..n)
        BY FS_Interval
      <4>2. B[i] \in SUBSET (1..n) /\ B[j] \in SUBSET (1..n)
        BY <1>10
      <4>3. IsFiniteSet(B[i]) /\ IsFiniteSet(B[j])
        BY <4>1, <4>2, FS_Subset
      <4>4. CASE i \in B[j]
        <5>1. B[i] \in SUBSET B[j]
          BY <1>10, <4>4
        <5>2. Cardinality(B[i]) <= Cardinality(B[j]) /\ Cardinality(B[i]) \in Nat /\ Cardinality(B[j]) \in Nat
          BY <4>3, <5>1, FS_Subset, FS_CardinalityType
        <5> QED
          BY <1>7, <1>14, <5>2
      <4>5. CASE i \notin B[j]
        <5>1. y2 = y /\ ~(i < j)
          BY <1>11, <2>1, <2>2, <3>1, <4>5
        <5>2. i # j
          BY <1>17, <1>5
        <5>3. w[i] * count = w[j] * count
          BY <2>3, <2>7, <5>1
        <5>4. count = 0
          <6>1. PICK a \in Nat, b \in Nat : a = w[i] /\ b = w[j] /\ b < a
            BY <1>5, <1>17
          <6>2. PICK h \in Nat : a = b + 1 + h
            <7>1. a - b - 1 \in Nat /\ a = b + 1 + (a - b - 1)
              BY <6>1
            <7> QED
              BY <7>1
          <6>3. (b + 1 + h) * count = b * count + count + h * count /\ h * count \in Nat /\ b * count \in Nat
            OBVIOUS
          <6> QED
            BY <5>3, <6>1, <6>2, <6>3
        <5>5. left <= 0
          <6>1. ASSUME NEW k \in 1..n PROVE ~(r[k] > 0)
            <7>1. PICK a \in Nat, b \in Nat, c \in Int : a = w[k] /\ b = f[k] /\ c = r[k]
              <8>1. w[k] \in Nat
                BY <1>5
              <8>2. f[k] \in Nat
                BY <1>6
              <8>3. r[k] \in Int
                BY <1>9
              <8> QED
                BY <8>1, <8>2, <8>3
            <7>2. a * count = b * total + c
              BY <1>13, <7>1
            <7>3. a * count = 0 /\ b * total \in Nat
              <8>1. a * 0 = 0 /\ total \in Nat
                BY <1>6
              <8> QED
                BY <5>4, <8>1
            <7> QED
              BY <7>1, <7>2, <7>3
          <6>2. {k \in 1..n : r[k] > 0} = {}
            BY <6>1
          <6>3. HowMany(n, {}) = 0
            <7>1. {k \in 1..n : k \in {}} = {}
              OBVIOUS
            <7> QED
              BY <7>1, FS_EmptySet DEF HowMany
          <6> QED
            BY <1>7, <6>2, <6>3
        <5>6. Cardinality(B[j]) \in Nat /\ Cardinality(B[j]) < left
          BY <1>14, <4>3, FS_CardinalityType
        <5> QED
          BY <1>7, <5>5, <5>6
      <4> QED
        BY <4>4, <4>5
    <3> QED
      BY <2>3, <2>7, <3>2
  <2>8. CASE x2 < x
    BY <2>3, <2>8
  <2> QED
    BY <2>6, <2>7, <2>8
<1> QED
  BY <1>1, <1>2, <1>4, <1>15, <1>16, <1>17 DEF SharesFair

-----------------------------------------------------------------------------
(* Sequences without repetition, joined sequences and selected rows.       *)

\* Distinct takes one element after the other and appends what is new.
LEMMA DistinctTrace ==
  ASSUME NEW A, NEW seq \in Seq(A)
  PROVE  \E v \in [0..Len(seq) -> Seq(A)] :
           /\ v[0] = <<>>
           /\ \A k \in 1..Len(seq) : v[k] = IF seq[k] \in ToSet(v[k - 1]) THEN v[k - 1] ELSE Append(v[k - 1], seq[k])
           /\ Distinct(seq) = v[Len(seq)]
<1> DEFINE n == Len(seq)
           B == Seq(A)
           Kept(x, k) == IF seq[k] \in ToSet(x) THEN x ELSE Append(x, seq[k])
           Step == [p \in B \X (1..n) |-> Kept(p[1], p[2])]
           Eqn(iter) == iter = [s \in SUBSET DOMAIN seq |->
                                  IF s = {} THEN <<>> ELSE Kept(iter[s \ {Max(s)}], Max(s))]
           fold == CHOOSE iter : Eqn(iter)
<1>1. Distinct(seq) = fold[DOMAIN seq]
  BY DEF Distinct, FoldLeft, MapThenFoldSet
<1>2. n \in Nat /\ DOMAIN seq = 1..n /\ \A k \in 1..n : seq[k] \in A
  OBVIOUS
<1> HIDE DEF n
<1>3. <<>> \in B
  OBVIOUS
<1>4. \A x \in B, k \in 1..n : Kept(x, k) \in B
  BY <1>2
<1> HIDE DEF B, Kept
<1>5. Step \in [B \X (1..n) -> B] /\ \A x \in B, k \in 1..n : Step[<<x, k>>] = Kept(x, k)
  BY <1>4
<1>6. \A s \in SUBSET (1..n) : s # {} => Max(s) \in 1..n /\ s \ {Max(s)} \in SUBSET (1..n)
  BY <1>2, GreatestOf
<1>7. PICK base : base = <<>>
  OBVIOUS
<1> HIDE DEF Step
<1>8. Eqn(fold)
  <2>1. PICK iter \in [SUBSET (1..n) -> B] : Folds(iter, n, base, Step)
    BY <1>2, <1>3, <1>5, <1>7, FoldsExist
  <2>2. \A s \in SUBSET (1..n) : iter[s] = IF s = {} THEN <<>> ELSE Kept(iter[s \ {Max(s)}], Max(s))
    BY <2>1, <1>5, <1>6, <1>7 DEF Folds
  <2>3. Eqn(iter)
    BY <2>2, <1>2
  <2> HIDE DEF Eqn
  <2> QED
    BY <2>3
<1> HIDE DEF fold
<1>9. fold[{}] = base
  BY <1>8, <1>2, <1>7
<1>10. \A s \in SUBSET (1..n) : s # {} => fold[s] = Kept(fold[s \ {Max(s)}], Max(s))
  BY <1>8, <1>2
<1> HIDE DEF Eqn
<1>11. \A s \in SUBSET (1..n) : (s # {} /\ fold[s \ {Max(s)}] \in B) =>
                                   fold[s] = Step[<<fold[s \ {Max(s)}], Max(s)>>]
  BY <1>5, <1>6, <1>10
<1> DEFINE v == [k \in 0..n |-> fold[1..k]]
<1>12. Traces(v, n, B, base, Step)
  <2> HIDE DEF v
  <2>1. v = [k \in 0..n |-> fold[1..k]]
    BY DEF v
  <2>2. base \in B
    BY <1>3, <1>7
  <2> QED
    BY <1>2, <1>5, <1>9, <1>11, <2>1, <2>2, FoldTrace
<1>13. Distinct(seq) = v[n]
  BY <1>1, <1>2
<1> HIDE DEF v
<1>14. v \in [0..n -> B] /\ v[0] = base
  BY <1>12 DEF Traces
<1>15. \A k \in 1..n : v[k] = Kept(v[k - 1], k)
  <2> SUFFICES ASSUME NEW k \in 1..n PROVE v[k] = Kept(v[k - 1], k)
    OBVIOUS
  <2>1. v[k] = Step[<<v[k - 1], k>>]
    BY <1>12 DEF Traces
  <2>2. v[k - 1] \in B
    BY <1>2, <1>14
  <2> QED
    BY <1>5, <2>1, <2>2
<1> QED
  BY <1>7, <1>13, <1>14, <1>15 DEF n, B, Kept

\* Joined puts one sequence behind the other.
LEMMA JoinedTrace ==
  ASSUME NEW A, NEW seq \in Seq(Seq(A))
  PROVE  \E v \in [0..Len(seq) -> Seq(A)] :
           /\ v[0] = <<>>
           /\ \A k \in 1..Len(seq) : v[k] = v[k - 1] \o seq[k]
           /\ Joined(seq) = v[Len(seq)]
<1> DEFINE n == Len(seq)
           B == Seq(A)
           Kept(x, k) == x \o seq[k]
           Step == [p \in B \X (1..n) |-> Kept(p[1], p[2])]
           Eqn(iter) == iter = [s \in SUBSET DOMAIN seq |->
                                  IF s = {} THEN <<>> ELSE Kept(iter[s \ {Max(s)}], Max(s))]
           fold == CHOOSE iter : Eqn(iter)
<1>1. Joined(seq) = fold[DOMAIN seq]
  BY DEF Joined, FoldLeft, MapThenFoldSet
<1>2. n \in Nat /\ DOMAIN seq = 1..n /\ \A k \in 1..n : seq[k] \in Seq(A)
  OBVIOUS
<1> HIDE DEF n
<1>3. <<>> \in B
  OBVIOUS
<1>4. \A x \in B, k \in 1..n : Kept(x, k) \in B
  BY <1>2
<1> HIDE DEF B, Kept
<1>5. Step \in [B \X (1..n) -> B] /\ \A x \in B, k \in 1..n : Step[<<x, k>>] = Kept(x, k)
  BY <1>4
<1>6. \A s \in SUBSET (1..n) : s # {} => Max(s) \in 1..n /\ s \ {Max(s)} \in SUBSET (1..n)
  BY <1>2, GreatestOf
<1>7. PICK base : base = <<>>
  OBVIOUS
<1> HIDE DEF Step
<1>8. Eqn(fold)
  <2>1. PICK iter \in [SUBSET (1..n) -> B] : Folds(iter, n, base, Step)
    BY <1>2, <1>3, <1>5, <1>7, FoldsExist
  <2>2. \A s \in SUBSET (1..n) : iter[s] = IF s = {} THEN <<>> ELSE Kept(iter[s \ {Max(s)}], Max(s))
    BY <2>1, <1>5, <1>6, <1>7 DEF Folds
  <2>3. Eqn(iter)
    BY <2>2, <1>2
  <2> HIDE DEF Eqn
  <2> QED
    BY <2>3
<1> HIDE DEF fold
<1>9. fold[{}] = base
  BY <1>8, <1>2, <1>7
<1>10. \A s \in SUBSET (1..n) : s # {} => fold[s] = Kept(fold[s \ {Max(s)}], Max(s))
  BY <1>8, <1>2
<1> HIDE DEF Eqn
<1>11. \A s \in SUBSET (1..n) : (s # {} /\ fold[s \ {Max(s)}] \in B) =>
                                   fold[s] = Step[<<fold[s \ {Max(s)}], Max(s)>>]
  BY <1>5, <1>6, <1>10
<1> DEFINE v == [k \in 0..n |-> fold[1..k]]
<1>12. Traces(v, n, B, base, Step)
  <2> HIDE DEF v
  <2>1. v = [k \in 0..n |-> fold[1..k]]
    BY DEF v
  <2>2. base \in B
    BY <1>3, <1>7
  <2> QED
    BY <1>2, <1>5, <1>9, <1>11, <2>1, <2>2, FoldTrace
<1>13. Joined(seq) = v[n]
  BY <1>1, <1>2
<1> HIDE DEF v
<1>14. v \in [0..n -> B] /\ v[0] = base
  BY <1>12 DEF Traces
<1>15. \A k \in 1..n : v[k] = Kept(v[k - 1], k)
  <2> SUFFICES ASSUME NEW k \in 1..n PROVE v[k] = Kept(v[k - 1], k)
    OBVIOUS
  <2>1. v[k] = Step[<<v[k - 1], k>>]
    BY <1>12 DEF Traces
  <2>2. v[k - 1] \in B
    BY <1>2, <1>14
  <2> QED
    BY <1>5, <2>1, <2>2
<1> QED
  BY <1>7, <1>13, <1>14, <1>15 DEF n, B, Kept

\* Rows takes one row after the other and keeps those of the label.
LEMMA RowsTrace ==
  ASSUME NEW A, NEW seq \in Seq(A), NEW label
  PROVE  \E v \in [0..Len(seq) -> Seq(A)] :
           /\ v[0] = <<>>
           /\ \A k \in 1..Len(seq) : v[k] = IF seq[k].label = label THEN Append(v[k - 1], seq[k]) ELSE v[k - 1]
           /\ Rows(seq, label) = v[Len(seq)]
<1> DEFINE n == Len(seq)
           B == Seq(A)
           Kept(x, k) == IF seq[k].label = label THEN Append(x, seq[k]) ELSE x
           Step == [p \in B \X (1..n) |-> Kept(p[1], p[2])]
           Eqn(iter) == iter = [s \in SUBSET DOMAIN seq |->
                                  IF s = {} THEN <<>> ELSE Kept(iter[s \ {Max(s)}], Max(s))]
           fold == CHOOSE iter : Eqn(iter)
<1>1. Rows(seq, label) = fold[DOMAIN seq]
  BY DEF Rows, FoldLeft, MapThenFoldSet
<1>2. n \in Nat /\ DOMAIN seq = 1..n /\ \A k \in 1..n : seq[k] \in A
  OBVIOUS
<1> HIDE DEF n
<1>3. <<>> \in B
  OBVIOUS
<1>4. \A x \in B, k \in 1..n : Kept(x, k) \in B
  BY <1>2
<1> HIDE DEF B, Kept
<1>5. Step \in [B \X (1..n) -> B] /\ \A x \in B, k \in 1..n : Step[<<x, k>>] = Kept(x, k)
  BY <1>4
<1>6. \A s \in SUBSET (1..n) : s # {} => Max(s) \in 1..n /\ s \ {Max(s)} \in SUBSET (1..n)
  BY <1>2, GreatestOf
<1>7. PICK base : base = <<>>
  OBVIOUS
<1> HIDE DEF Step
<1>8. Eqn(fold)
  <2>1. PICK iter \in [SUBSET (1..n) -> B] : Folds(iter, n, base, Step)
    BY <1>2, <1>3, <1>5, <1>7, FoldsExist
  <2>2. \A s \in SUBSET (1..n) : iter[s] = IF s = {} THEN <<>> ELSE Kept(iter[s \ {Max(s)}], Max(s))
    BY <2>1, <1>5, <1>6, <1>7 DEF Folds
  <2>3. Eqn(iter)
    BY <2>2, <1>2
  <2> HIDE DEF Eqn
  <2> QED
    BY <2>3
<1> HIDE DEF fold
<1>9. fold[{}] = base
  BY <1>8, <1>2, <1>7
<1>10. \A s \in SUBSET (1..n) : s # {} => fold[s] = Kept(fold[s \ {Max(s)}], Max(s))
  BY <1>8, <1>2
<1> HIDE DEF Eqn
<1>11. \A s \in SUBSET (1..n) : (s # {} /\ fold[s \ {Max(s)}] \in B) =>
                                   fold[s] = Step[<<fold[s \ {Max(s)}], Max(s)>>]
  BY <1>5, <1>6, <1>10
<1> DEFINE v == [k \in 0..n |-> fold[1..k]]
<1>12. Traces(v, n, B, base, Step)
  <2> HIDE DEF v
  <2>1. v = [k \in 0..n |-> fold[1..k]]
    BY DEF v
  <2>2. base \in B
    BY <1>3, <1>7
  <2> QED
    BY <1>2, <1>5, <1>9, <1>11, <2>1, <2>2, FoldTrace
<1>13. Rows(seq, label) = v[n]
  BY <1>1, <1>2
<1> HIDE DEF v
<1>14. v \in [0..n -> B] /\ v[0] = base
  BY <1>12 DEF Traces
<1>15. \A k \in 1..n : v[k] = Kept(v[k - 1], k)
  <2> SUFFICES ASSUME NEW k \in 1..n PROVE v[k] = Kept(v[k - 1], k)
    OBVIOUS
  <2>1. v[k] = Step[<<v[k - 1], k>>]
    BY <1>12 DEF Traces
  <2>2. v[k - 1] \in B
    BY <1>2, <1>14
  <2> QED
    BY <1>5, <2>1, <2>2
<1> QED
  BY <1>7, <1>13, <1>14, <1>15 DEF n, B, Kept

\* What Distinct has after k elements: each of them once, in the order of their first occurrences.
FirstAt(seq, x) == Min({i \in DOMAIN seq : seq[i] = x})

InOrder(seq, k, d) ==
  /\ ToSet(d) = {seq[i] : i \in 1..k}
  /\ IsInjective(d)
  /\ \A a, b \in DOMAIN d : a < b => FirstAt(seq, d[a]) < FirstAt(seq, d[b])

\* An element that is not among the first k and comes next occurs there first; those among them occur before.
LEMMA FirstOccurs ==
  ASSUME NEW A, NEW seq \in Seq(A), NEW k \in 1..Len(seq)
  PROVE  /\ seq[k] \notin {seq[i] : i \in 1..(k - 1)} => FirstAt(seq, seq[k]) = k
         /\ FirstAt(seq, seq[k]) \in 1..k
<1> DEFINE n == Len(seq)
           s == {i \in 1..n : seq[i] = seq[k]}
<1>1. n \in Nat /\ DOMAIN seq = 1..n
  OBVIOUS
<1>2. FirstAt(seq, seq[k]) = Min(s)
  BY <1>1 DEF FirstAt
<1>3. s \in SUBSET (1..n) /\ k \in s /\ k \in 1..n
  BY <1>1
<1>4. \A i \in s : seq[i] = seq[k] /\ i \in 1..n
  OBVIOUS
<1> HIDE DEF n, s
<1>5. Min(s) \in s /\ \A y \in s : Min(s) <= y
  BY <1>1, <1>3, LeastIndex
<1>6. Min(s) \in 1..n /\ Min(s) <= k /\ seq[Min(s)] = seq[k]
  BY <1>3, <1>4, <1>5
<1>7. Min(s) \in 1..k
  BY <1>1, <1>3, <1>6
<1>8. ASSUME seq[k] \notin {seq[i] : i \in 1..(k - 1)} PROVE Min(s) = k
  <2>1. ~(Min(s) \in 1..(k - 1))
    BY <1>6, <1>8
  <2> QED
    BY <1>1, <1>3, <1>7, <2>1
<1> QED
  BY <1>2, <1>7, <1>8

\* Distinct keeps every element once, in the order of their first occurrences.
LEMMA DistinctKeeps ==
  ASSUME NEW A, NEW seq \in Seq(A)
  PROVE  Distinct(seq) \in Seq(A) /\ InOrder(seq, Len(seq), Distinct(seq))
<1> DEFINE n == Len(seq)
<1>1. n \in Nat /\ DOMAIN seq = 1..n /\ \A k \in 1..n : seq[k] \in A
  OBVIOUS
<1>2. PICK v \in [0..n -> Seq(A)] :
             /\ v[0] = <<>>
             /\ \A k \in 1..n : v[k] = IF seq[k] \in ToSet(v[k - 1]) THEN v[k - 1] ELSE Append(v[k - 1], seq[k])
             /\ Distinct(seq) = v[n]
  BY DistinctTrace
<1>a. \A k \in 1..n : /\ seq[k] \notin {seq[i] : i \in 1..(k - 1)} => FirstAt(seq, seq[k]) = k
                      /\ FirstAt(seq, seq[k]) \in 1..k
  BY FirstOccurs
<1> HIDE DEF n
<1> DEFINE T == {k \in Nat : InOrder(seq, k, v[k])}
<1>3. 0 \in T
  <2>1. InOrder(seq, 0, <<>>)
    BY DEF InOrder, ToSet, IsInjective
  <2> QED
    BY <1>2, <2>1
<1>4. ASSUME NEW k \in Nat, k < n, k \in T PROVE k + 1 \in T
  <2>1. k + 1 \in 1..n /\ (k + 1) - 1 = k /\ k \in 0..n
    BY <1>1, <1>4
  <2>2. PICK d \in Seq(A) : d = v[k]
    BY <1>2, <2>1
  <2>3. PICK x : x = seq[k + 1]
    OBVIOUS
  <2>4. v[k + 1] = IF x \in ToSet(d) THEN d ELSE Append(d, x)
    BY <1>2, <2>1, <2>2, <2>3
  <2>5. /\ ToSet(d) = {seq[i] : i \in 1..k}
        /\ IsInjective(d)
        /\ \A a, b \in DOMAIN d : a < b => FirstAt(seq, d[a]) < FirstAt(seq, d[b])
    BY <1>4, <2>2 DEF InOrder
  <2>6. {seq[i] : i \in 1..(k + 1)} = {seq[i] : i \in 1..k} \cup {x}
    BY <2>3
  <2>7. CASE x \in ToSet(d)
    <3>1. v[k + 1] = d /\ {seq[i] : i \in 1..(k + 1)} = ToSet(d)
      BY <2>4, <2>5, <2>6, <2>7
    <3>2. InOrder(seq, k + 1, v[k + 1])
      BY <2>5, <3>1 DEF InOrder
    <3> QED
      BY <3>2
  <2>8. CASE x \notin ToSet(d)
    <3> DEFINE e == Append(d, x)
               m == Len(d)
    <3>1. m \in Nat /\ DOMAIN d = 1..m /\ DOMAIN e = 1..(m + 1) /\ e[m + 1] = x
      OBVIOUS
    <3>2. \A i \in 1..m : e[i] = d[i]
      OBVIOUS
    <3>3. v[k + 1] = e
      BY <2>4, <2>8
    <3> HIDE DEF e, m
    <3>4. ToSet(e) = ToSet(d) \cup {x}
      <4>1. ToSet(e) = {e[i] : i \in 1..(m + 1)} /\ ToSet(d) = {d[i] : i \in 1..m}
        BY <3>1 DEF ToSet
      <4>2. \A i \in 1..(m + 1) : i \in 1..m \/ i = m + 1
        BY <3>1
      <4>3. \A i \in 1..m : i \in 1..(m + 1)
        BY <3>1
      <4>4. m + 1 \in 1..(m + 1)
        BY <3>1
      <4> QED
        BY <3>1, <3>2, <4>1, <4>2, <4>3, <4>4
    <3>5. \A i \in 1..m : d[i] \in ToSet(d)
      BY <3>1 DEF ToSet
    <3>6. IsInjective(e)
      <4> SUFFICES ASSUME NEW a \in 1..(m + 1), NEW b \in 1..(m + 1), e[a] = e[b] PROVE a = b
        BY <3>1 DEF IsInjective
      <4>1. a \in 1..m \/ a = m + 1
        BY <3>1
      <4>2. b \in 1..m \/ b = m + 1
        BY <3>1
      <4>3. CASE a \in 1..m /\ b \in 1..m
        BY <2>5, <3>1, <3>2, <4>3 DEF IsInjective
      <4>4. CASE a \in 1..m /\ b = m + 1
        BY <2>8, <3>1, <3>2, <3>5, <4>4
      <4>5. CASE a = m + 1 /\ b \in 1..m
        BY <2>8, <3>1, <3>2, <3>5, <4>5
      <4> QED
        BY <4>1, <4>2, <4>3, <4>4, <4>5
    <3>7. FirstAt(seq, x) = k + 1
      <4>1. x \notin {seq[i] : i \in 1..k}
        BY <2>5, <2>8
      <4> QED
        BY <1>a, <2>1, <2>3, <4>1
    <3>8. \A y \in ToSet(d) : FirstAt(seq, y) \in 1..k
      <4> SUFFICES ASSUME NEW y \in ToSet(d) PROVE FirstAt(seq, y) \in 1..k
        OBVIOUS
      <4>1. PICK i \in 1..k : y = seq[i]
        BY <2>5
      <4>2. i \in 1..n
        BY <1>1, <2>1
      <4>3. FirstAt(seq, y) \in 1..i
        BY <1>a, <4>1, <4>2
      <4> QED
        BY <4>3
    <3>9. ASSUME NEW a \in 1..(m + 1), NEW b \in 1..(m + 1), a < b
          PROVE  FirstAt(seq, e[a]) < FirstAt(seq, e[b])
      <4>1. a \in 1..m
        BY <3>1, <3>9
      <4>2. CASE b \in 1..m
        BY <2>5, <3>1, <3>2, <3>9, <4>1, <4>2
      <4>3. CASE b = m + 1
        <5>1. FirstAt(seq, e[a]) \in 1..k
          BY <3>2, <3>5, <3>8, <4>1
        <5>2. FirstAt(seq, e[b]) = k + 1
          BY <3>1, <3>7, <4>3
        <5> QED
          BY <5>1, <5>2
      <4> QED
        BY <3>1, <4>2, <4>3
    <3>10. InOrder(seq, k + 1, e)
      BY <2>5, <2>6, <3>1, <3>4, <3>6, <3>9 DEF InOrder
    <3> QED
      BY <3>3, <3>10
  <2> QED
    BY <2>7, <2>8
<1> HIDE DEF T
<1>5. \A k \in 0..n : k \in T
  BY <1>1, <1>3, <1>4, InductTo
<1>6. InOrder(seq, n, v[n]) /\ v[n] \in Seq(A)
  <2>1. n \in T /\ n \in 0..n
    BY <1>1, <1>5
  <2> QED
    BY <1>2, <2>1 DEF T
<1> QED
  BY <1>2, <1>6 DEF n

\* Joined sequences have elements of the sequences joined.
LEMMA JoinedFits ==
  ASSUME NEW A, NEW seq \in Seq(Seq(A))
  PROVE  Joined(seq) \in Seq(A)
<1>1. PICK v \in [0..Len(seq) -> Seq(A)] :
             /\ v[0] = <<>>
             /\ \A k \in 1..Len(seq) : v[k] = v[k - 1] \o seq[k]
             /\ Joined(seq) = v[Len(seq)]
  BY JoinedTrace
<1> QED
  BY <1>1

\* The rows of a label are rows, and there is one if the label is among those of the rows.
LEMMA RowsFit ==
  ASSUME NEW A, NEW seq \in Seq(A), NEW label
  PROVE  /\ Rows(seq, label) \in Seq(A)
         /\ (\E i \in 1..Len(seq) : seq[i].label = label) => Rows(seq, label) # <<>>
<1> DEFINE n == Len(seq)
<1>1. n \in Nat /\ \A k \in 1..n : seq[k] \in A
  OBVIOUS
<1>2. PICK v \in [0..n -> Seq(A)] :
             /\ v[0] = <<>>
             /\ \A k \in 1..n : v[k] = IF seq[k].label = label THEN Append(v[k - 1], seq[k]) ELSE v[k - 1]
             /\ Rows(seq, label) = v[n]
  BY RowsTrace
<1> HIDE DEF n
<1> DEFINE T == {k \in Nat : (\E i \in 1..k : seq[i].label = label) => v[k] # <<>>}
<1>3. 0 \in T
  OBVIOUS
<1>4. ASSUME NEW k \in Nat, k < n, k \in T PROVE k + 1 \in T
  <2>1. k + 1 \in 1..n /\ (k + 1) - 1 = k /\ k \in 0..n
    BY <1>1, <1>4
  <2>2. v[k] \in Seq(A)
    BY <1>2, <2>1
  <2>3. CASE seq[k + 1].label = label
    <3>1. v[k + 1] = Append(v[k], seq[k + 1])
      BY <1>2, <2>1, <2>3
    <3>2. PICK r \in Seq(A), x \in A : v[k + 1] = Append(r, x)
      BY <1>1, <2>1, <2>2, <3>1
    <3>3. Len(Append(r, x)) = Len(r) + 1 /\ Len(r) \in Nat
      OBVIOUS
    <3>4. Len(<<>>) = 0
      OBVIOUS
    <3>5. Append(r, x) # <<>>
      BY <3>3, <3>4
    <3> QED
      BY <3>2, <3>5
  <2>4. CASE seq[k + 1].label # label
    <3>1. v[k + 1] = v[k]
      BY <1>2, <2>1, <2>4
    <3>2. (\E i \in 1..(k + 1) : seq[i].label = label) => (\E i \in 1..k : seq[i].label = label)
      BY <2>4
    <3>3. (\E i \in 1..k : seq[i].label = label) => v[k] # <<>>
      BY <1>4
    <3> QED
      BY <3>1, <3>2, <3>3
  <2> QED
    BY <2>3, <2>4
<1> HIDE DEF T
<1>5. \A k \in 0..n : k \in T
  BY <1>1, <1>3, <1>4, InductTo
<1>6. n \in T /\ n \in 0..n
  BY <1>1, <1>5
<1> QED
  BY <1>2, <1>6 DEF T, n

-----------------------------------------------------------------------------
(* Topics and their questions.                                             *)

\* What a bank holds of a tier.
LEMMA AtMostFits ==
  ASSUME NEW A, NEW s \in Seq(A), NEW n \in Nat
  PROVE  AtMost(n, s) \in Seq(A)
<1> DEFINE m == IF Len(s) < n THEN Len(s) ELSE n
<1>1. m \in 0..Len(s)
  OBVIOUS
<1>2. \A i \in 1..m : s[i] \in A
  BY <1>1
<1> HIDE DEF m
<1>3. SubSeq(s, 1, m) \in Seq(A)
  BY <1>1, <1>2
<1> QED
  BY <1>3 DEF AtMost, m

\* A bank is cut tier by tier.
LEMMA BankCut ==
  ASSUME NEW S, NEW b \in [Tier -> Seq(S)]
  PROVE  SanitizeBank(b) \in [Tier -> Seq(S)]
<1>1. \A t \in Tier : AtMost(PerTier, b[t]) \in Seq(S)
  <2>1. PerTier \in Nat
    BY DEF PerTier
  <2> QED
    BY <2>1, AtMostFits
<1> QED
  BY <1>1 DEF SanitizeBank

\* Two banks make one.
LEMMA BanksMerge ==
  ASSUME NEW S, NEW a \in [Tier -> Seq(S)], NEW b \in [Tier -> Seq(S)]
  PROVE  MergeBanks(a, b) \in [Tier -> Seq(S)]
<1>1. PerTier \in Nat
  BY DEF PerTier
<1>2. SanitizeBank(a) \in [Tier -> Seq(S)] /\ SanitizeBank(b) \in [Tier -> Seq(S)]
  BY BankCut
<1>3. \A t \in Tier : AtMost(PerTier, Distinct(SanitizeBank(a)[t] \o SanitizeBank(b)[t])) \in Seq(S)
  <2> SUFFICES ASSUME NEW t \in Tier
               PROVE  AtMost(PerTier, Distinct(SanitizeBank(a)[t] \o SanitizeBank(b)[t])) \in Seq(S)
    OBVIOUS
  <2>1. PICK x \in Seq(S), y \in Seq(S) : x = SanitizeBank(a)[t] /\ y = SanitizeBank(b)[t]
    BY <1>2
  <2>2. PICK p \in Seq(S) : p = x \o y
    <3>1. x \o y \in Seq(S)
      OBVIOUS
    <3> QED
      BY <3>1
  <2>3. PICK q \in Seq(S) : q = Distinct(p)
    BY DistinctKeeps
  <2>4. AtMost(PerTier, q) \in Seq(S)
    BY <1>1, AtMostFits
  <2> QED
    BY <2>1, <2>2, <2>3, <2>4
<1> QED
  BY <1>3 DEF MergeBanks

RowOver(D, L, S) == [doc : D, label : L, text : BOOLEAN, bank : [Tier -> Seq(S)]]

Gathered(start, rows) == FoldLeft(LAMBDA b, r : MergeBanks(b, r.bank), start, rows)


\* A bank that takes in the banks of rows, row by row.
LEMMA BankTrace ==
  ASSUME NEW D, NEW L, NEW S, NEW start \in [Tier -> Seq(S)], NEW seq \in Seq(RowOver(D, L, S))
  PROVE  \E v \in [0..Len(seq) -> [Tier -> Seq(S)]] :
           /\ v[0] = start
           /\ \A k \in 1..Len(seq) : v[k] = MergeBanks(v[k - 1], seq[k].bank)
           /\ Gathered(start, seq) = v[Len(seq)]
<1> DEFINE n == Len(seq)
           B == [Tier -> Seq(S)]
           Kept(x, k) == MergeBanks(x, seq[k].bank)
           Step == [p \in B \X (1..n) |-> Kept(p[1], p[2])]
           Eqn(iter) == iter = [s \in SUBSET DOMAIN seq |->
                                  IF s = {} THEN start ELSE Kept(iter[s \ {Max(s)}], Max(s))]
           fold == CHOOSE iter : Eqn(iter)
<1>1. Gathered(start, seq) = fold[DOMAIN seq]
  BY DEF Gathered, FoldLeft, MapThenFoldSet
<1>2. n \in Nat /\ DOMAIN seq = 1..n /\ \A k \in 1..n : seq[k] \in RowOver(D, L, S)
  OBVIOUS
<1> HIDE DEF n
<1>3. start \in B
  OBVIOUS
<1>4. \A x \in B, k \in 1..n : Kept(x, k) \in B
  BY <1>2, BanksMerge DEF RowOver
<1> HIDE DEF B, Kept
<1>5. Step \in [B \X (1..n) -> B] /\ \A x \in B, k \in 1..n : Step[<<x, k>>] = Kept(x, k)
  BY <1>4
<1>6. \A s \in SUBSET (1..n) : s # {} => Max(s) \in 1..n /\ s \ {Max(s)} \in SUBSET (1..n)
  BY <1>2, GreatestOf
<1>7. PICK base : base = start
  OBVIOUS
<1> HIDE DEF Step
<1>8. Eqn(fold)
  <2>1. PICK iter \in [SUBSET (1..n) -> B] : Folds(iter, n, base, Step)
    BY <1>2, <1>3, <1>5, <1>7, FoldsExist
  <2>2. \A s \in SUBSET (1..n) : iter[s] = IF s = {} THEN start ELSE Kept(iter[s \ {Max(s)}], Max(s))
    BY <2>1, <1>5, <1>6, <1>7 DEF Folds
  <2>3. Eqn(iter)
    BY <2>2, <1>2
  <2> HIDE DEF Eqn
  <2> QED
    BY <2>3
<1> HIDE DEF fold
<1>9. fold[{}] = base
  BY <1>8, <1>2, <1>7
<1>10. \A s \in SUBSET (1..n) : s # {} => fold[s] = Kept(fold[s \ {Max(s)}], Max(s))
  BY <1>8, <1>2
<1> HIDE DEF Eqn
<1>11. \A s \in SUBSET (1..n) : (s # {} /\ fold[s \ {Max(s)}] \in B) =>
                                   fold[s] = Step[<<fold[s \ {Max(s)}], Max(s)>>]
  BY <1>5, <1>6, <1>10
<1> DEFINE v == [k \in 0..n |-> fold[1..k]]
<1>12. Traces(v, n, B, base, Step)
  <2> HIDE DEF v
  <2>1. v = [k \in 0..n |-> fold[1..k]]
    BY DEF v
  <2>2. base \in B
    BY <1>3, <1>7
  <2> QED
    BY <1>2, <1>5, <1>9, <1>11, <2>1, <2>2, FoldTrace
<1>13. Gathered(start, seq) = v[n]
  BY <1>1, <1>2
<1> HIDE DEF v
<1>14. v \in [0..n -> B] /\ v[0] = base
  BY <1>12 DEF Traces
<1>15. \A k \in 1..n : v[k] = Kept(v[k - 1], k)
  <2> SUFFICES ASSUME NEW k \in 1..n PROVE v[k] = Kept(v[k - 1], k)
    OBVIOUS
  <2>1. v[k] = Step[<<v[k - 1], k>>]
    BY <1>12 DEF Traces
  <2>2. v[k - 1] \in B
    BY <1>2, <1>14
  <2> QED
    BY <1>5, <2>1, <2>2
<1> QED
  BY <1>7, <1>13, <1>14, <1>15 DEF n, B, Kept

\* A concept has its rows' label and a bank.
LEMMA ConceptFits ==
  ASSUME NEW D, NEW L, NEW S, NEW rows \in Seq(RowOver(D, L, S)), NEW label,
         \E i \in 1..Len(rows) : rows[i].label = label
  PROVE  /\ MergeConcept(rows, label).label = label
         /\ MergeConcept(rows, label).bank \in [Tier -> Seq(S)]
<1> DEFINE A == RowOver(D, L, S)
           own == Rows(rows, label)
<1>1. \A r \in A : r.bank \in [Tier -> Seq(S)]
  BY DEF RowOver
<1> HIDE DEF A
<1>2. own \in Seq(A) /\ own # <<>>
  BY RowsFit DEF A
<1>3. MergeConcept(rows, label).label = label
  BY DEF MergeConcept
<1>4. MergeConcept(rows, label).bank = Gathered(SanitizeBank(own[1].bank), Tail(own))
  BY DEF MergeConcept, Gathered
<1> HIDE DEF own
<1>5. own[1] \in A /\ Tail(own) \in Seq(A)
  BY <1>2
<1>6. PICK start \in [Tier -> Seq(S)] : start = SanitizeBank(own[1].bank)
  BY <1>1, <1>5, BankCut
<1>7. PICK rest \in Seq(A) : rest = Tail(own)
  BY <1>5
<1>8. PICK v \in [0..Len(rest) -> [Tier -> Seq(S)]] :
             /\ v[0] = start
             /\ \A k \in 1..Len(rest) : v[k] = MergeBanks(v[k - 1], rest[k].bank)
             /\ Gathered(start, rest) = v[Len(rest)]
  <2>1. rest \in Seq(RowOver(D, L, S))
    BY DEF A
  <2> QED
    BY <2>1, BankTrace
<1>9. Gathered(start, rest) \in [Tier -> Seq(S)]
  BY <1>8
<1> QED
  BY <1>3, <1>4, <1>6, <1>7, <1>9

\* Two numbers with the same rest are a divisor apart.
LEMMA SameRest ==
  ASSUME NEW d \in Nat, d > 0, NEW x \in Nat, NEW y \in Nat, x < y, x % d = y % d
  PROVE  y - x >= d
<1>1. PICK p \in Nat, e \in 0..(d - 1) : x = p * d + e /\ e = x % d
  BY DivMod
<1>2. PICK q \in Nat : y = q * d + e
  <2>1. y \div d \in Nat /\ y = ((y \div d) * d) + (y % d)
    BY DivMod
  <2>2. PICK q \in Nat : q = y \div d
    BY <2>1
  <2> QED
    BY <1>1, <2>1, <2>2
<1>3. PICK a \in Int, b \in Int : a = p * d /\ b = q * d
  OBVIOUS
<1>4. CASE q <= p
  <2>1. q * d <= p * d
    BY <1>4
  <2> QED
    BY <1>1, <1>2, <1>3, <2>1
<1>5. CASE p + 1 <= q
  <2>1. (p + 1) * d <= q * d
    BY <1>5
  <2>2. (p + 1) * d = p * d + d
    OBVIOUS
  <2> QED
    BY <1>1, <1>2, <1>3, <2>1, <2>2
<1> QED
  BY <1>4, <1>5

\* A concept's stored questions.
LEMMA BankFits ==
  ASSUME NEW S, NEW c, c.bank \in [Tier -> Seq(S)]
  PROVE  ConceptBank(c) \in Seq(S)
<1>1. PICK bank \in [Tier -> Seq(S)] : bank = c.bank
  OBVIOUS
<1>2. [k \in DOMAIN Drawn |-> bank[Drawn[k]]] \in Seq(Seq(S))
  <2>1. \A k \in 1..Len(Drawn) : bank[Drawn[k]] \in Seq(S)
    BY DrawnAssumption
  <2>2. Len(Drawn) \in Nat /\ DOMAIN Drawn = 1..Len(Drawn)
    BY DrawnAssumption
  <2> QED
    BY <2>1, <2>2
<1>3. PICK banks \in Seq(Seq(S)) : banks = [k \in DOMAIN Drawn |-> c.bank[Drawn[k]]]
  BY <1>1, <1>2
<1>4. PICK all \in Seq(S) : all = Joined(banks)
  BY JoinedFits
<1>5. Distinct(all) \in Seq(S)
  BY DistinctKeeps
<1> QED
  BY <1>3, <1>4, <1>5 DEF ConceptBank

\* Every concept of C has a sequence of questions.
Pooled(C, answer, S) == \A c \in C : MergeGenerated(answer, c) \in Seq(S)

\* The concepts of rows.
LEMMA ConceptsFit ==
  ASSUME NEW D, NEW L, NEW S, NEW rows \in Seq(RowOver(D, L, S)), NEW edges, NEW answer \in [L -> Seq(S)]
  PROVE  \E C : Pooled(C, answer, S) /\ MergeDocumentConcepts(rows, edges).concepts \in Seq(C)
<1> DEFINE n == Len(rows)
           given == [k \in 1..n |-> rows[k].label]
           M == {rows[k].label : k \in 1..n}
           C == {MergeConcept(rows, l) : l \in M}
<1>1. n \in Nat /\ DOMAIN rows = 1..n /\ \A k \in 1..n : rows[k].label \in L
  <2>1. n \in Nat /\ DOMAIN rows = 1..n /\ \A k \in 1..n : rows[k] \in RowOver(D, L, S)
    OBVIOUS
  <2> QED
    BY <2>1 DEF RowOver
<1>2. given \in Seq(M)
  BY <1>1
<1>3. PICK labels \in Seq(M) : labels = Distinct(given)
  <2> HIDE DEF given, M
  <2>1. Distinct(given) \in Seq(M)
    BY <1>2, DistinctKeeps
  <2> QED
    BY <2>1
<1>4. MergeDocumentConcepts(rows, edges).concepts = [k \in DOMAIN labels |-> MergeConcept(rows, labels[k])]
  BY <1>1, <1>3 DEF MergeDocumentConcepts
<1>5. [k \in DOMAIN labels |-> MergeConcept(rows, labels[k])] \in Seq(C)
  <2> HIDE DEF n, given, M
  <2>1. Len(labels) \in Nat /\ DOMAIN labels = 1..Len(labels) /\ \A k \in 1..Len(labels) : labels[k] \in M
    <3>1. labels \in Seq(M)
      BY <1>3
    <3> QED
      BY <3>1
  <2>2. \A k \in 1..Len(labels) : MergeConcept(rows, labels[k]) \in C
    BY <2>1
  <2> HIDE DEF C
  <2> QED
    BY <2>1, <2>2
<1>6. Pooled(C, answer, S)
  <2> SUFFICES ASSUME NEW k \in 1..n, NEW c, c = MergeConcept(rows, rows[k].label)
               PROVE  MergeGenerated(answer, c) \in Seq(S)
    BY DEF Pooled
  <2>1. PICK l : l = rows[k].label /\ l \in L
    BY <1>1
  <2>2. \E i \in 1..Len(rows) : rows[i].label = l
    BY <2>1
  <2>3. c.label = l /\ c.bank \in [Tier -> Seq(S)]
    BY <2>1, <2>2, ConceptFits
  <2>4. ConceptBank(c) \in Seq(S)
    BY <2>3, BankFits
  <2>5. answer[c.label] \in Seq(S)
    BY <2>1, <2>3
  <2> QED
    BY <2>4, <2>5 DEF MergeGenerated
<1> HIDE DEF C
<1> QED
  BY <1>4, <1>5, <1>6

\* The concepts that have an id, by number.
WithId(concepts, id) == {k \in DOMAIN concepts : concepts[k].id = id}

\* If ids differ, they tell concepts apart.
LEMMA IdsTellApart ==
  ASSUME NEW C, NEW concepts \in Seq(C), IdsDiffer(concepts), NEW i \in 1..Len(concepts), NEW j \in 1..Len(concepts),
         concepts[i].id = concepts[j].id
  PROVE  i = j
<1> DEFINE n == Len(concepts)
           ids == {c.id : c \in ToSet(concepts)}
           f == [k \in 1..n |-> concepts[k].id]
<1>1. n \in Nat /\ DOMAIN concepts = 1..n
  OBVIOUS
<1>2. Cardinality(ids) = n
  BY DEF IdsDiffer
<1>3. ids = {f[k] : k \in 1..n}
  BY <1>1 DEF ToSet
<1>4. f[i] = f[j]
  OBVIOUS
<1> HIDE DEF n, ids, f
<1>5. f \in Surjection(1..n, ids)
  <2>1. f = [k \in 1..n |-> concepts[k].id]
    BY DEF f, n
  <2>2. f \in [1..n -> ids]
    BY <1>3, <2>1
  <2>3. \A y \in ids : \E k \in 1..n : f[k] = y
    BY <1>3
  <2> QED
    BY <2>2, <2>3 DEF Surjection
<1>6. IsFiniteSet(1..n) /\ Cardinality(1..n) = n
  BY <1>1, FS_Interval
<1>7. f \in Injection(1..n, ids)
  BY <1>2, <1>5, <1>6, FS_SurjSameCardinalityImpliesInj
<1>8. i \in 1..n /\ j \in 1..n
  BY DEF n
<1> QED
  BY <1>4, <1>7, <1>8 DEF Injection, IsInjective

\* Each topic repeats late and asks its own questions.
LEMMA TopicsFit ==
  ASSUME NEW C, NEW S, NEW concepts \in Seq(C), NEW answer, Pooled(C, answer, S), NEW count \in Nat
  PROVE  QuestionsFit(concepts, answer, count)
<1> DEFINE n == Len(concepts)
<1>1. n \in Nat /\ DOMAIN concepts = 1..n /\ \A k \in 1..n : concepts[k] \in C
  OBVIOUS
<1> HIDE DEF n
<1>2. ASSUME NEW c \in ToSet(concepts), NEW found, found = Lookup(concepts, answer, c),
             NEW pool, pool = QuestionsFor(found), NEW out, out = Assemble(found, count)
      PROVE  /\ IsInjective(pool) => \A i, j \in 1..count : i < j /\ out[i] = out[j] => j - i >= Len(pool)
             /\ KeysDiffer(concepts) => ToSet(out) \subseteq ToSet(QuestionsFor(MergeGenerated(answer, c)))
  <2> DEFINE byId == MergeGenerated(answer, concepts[Max(WithId(concepts, c.id))])
             shadow == WithId(concepts, <<c.label>>)
             byLabel == MergeGenerated(answer, IF shadow = {} THEN c ELSE concepts[Max(shadow)])
  <2>1. found = IF byId # <<>> THEN byId ELSE byLabel
    BY <1>2 DEF Lookup, WithId
  <2>2. PICK k \in 1..n : concepts[k] = c
    BY <1>1, <1>2 DEF ToSet
  <2>3. c \in C
    BY <1>1, <2>2
  <2>4. WithId(concepts, c.id) \in SUBSET (1..n) /\ k \in WithId(concepts, c.id)
    BY <1>1, <2>2 DEF WithId
  <2>5. PICK top \in 1..n : top = Max(WithId(concepts, c.id)) /\ concepts[top].id = c.id
    <3>1. Max(WithId(concepts, c.id)) \in WithId(concepts, c.id)
      BY <1>1, <2>4, GreatestOf
    <3> QED
      BY <2>4, <3>1 DEF WithId
  <2>6. byId \in Seq(S)
    BY <1>1, <1>2, <2>5 DEF Pooled
  <2>7. shadow \in SUBSET (1..n)
    BY <1>1 DEF WithId
  <2>8. ASSUME shadow # {} PROVE Max(shadow) \in shadow
    BY <1>1, <2>7, <2>8, GreatestOf
  <2>9. byLabel \in Seq(S)
    <3>1. CASE shadow = {}
      BY <1>2, <2>3, <3>1 DEF Pooled
    <3>2. CASE shadow # {}
      BY <1>1, <2>7, <2>8, <3>2 DEF Pooled
    <3> QED
      BY <3>1, <3>2
  <2>10. ASSUME KeysDiffer(concepts) PROVE found = MergeGenerated(answer, c)
    <3>1. top = k
      BY <1>1, <2>2, <2>5, <2>10, IdsTellApart DEF KeysDiffer, n
    <3>2. byId = MergeGenerated(answer, c)
      BY <2>2, <2>5, <3>1
    <3>3. byLabel = MergeGenerated(answer, c)
      <4>1. CASE shadow = {}
        BY <4>1
      <4>2. CASE shadow # {}
        <5>1. Max(shadow) \in 1..n /\ concepts[Max(shadow)].id = <<c.label>>
          BY <2>7, <2>8, <4>2 DEF WithId
        <5>2. concepts[Max(shadow)] \in ToSet(concepts)
          BY <1>1, <5>1 DEF ToSet
        <5>3. concepts[Max(shadow)] = c
          BY <1>2, <2>10, <5>1, <5>2 DEF KeysDiffer
        <5> QED
          BY <4>2, <5>3
      <4> QED
        BY <4>1, <4>2
    <3> HIDE DEF byId, byLabel
    <3> QED
      BY <2>1, <3>2, <3>3
  <2> HIDE DEF byId, byLabel
  <2>11. found \in Seq(S)
    BY <2>1, <2>6, <2>9
  <2> DEFINE U == S \cup {"core", "mechanism", "wrong", "apply"}
  <2>12. pool \in Seq(U) /\ pool # <<>>
    <3>1. Templates \in Seq(U) /\ Templates # <<>>
      BY DEF Templates
    <3>2. found \in Seq(U)
      BY <2>11
    <3> QED
      BY <1>2, <3>1, <3>2 DEF QuestionsFor
  <2> HIDE DEF U
  <2> DEFINE d == Len(pool)
  <2>13. d \in Nat /\ d > 0 /\ DOMAIN pool = 1..d
    BY <2>12
  <2>14. out = [i \in 1..count |-> pool[((i - 1) % Len(pool)) + 1]]
    BY <1>2 DEF Assemble
  <2> HIDE DEF d
  <2>15. \A i \in 1..count : out[i] = pool[((i - 1) % d) + 1] /\ i - 1 \in Nat
    BY <2>14 DEF d
  <2>16. \A x \in Nat : x % d \in 0..(d - 1)
    BY <2>13, DivMod
  <2>17. \A i \in 1..count : ((i - 1) % d) + 1 \in 1..d
    <3> SUFFICES ASSUME NEW i \in 1..count PROVE ((i - 1) % d) + 1 \in 1..d
      OBVIOUS
    <3>1. PICK x \in 0..(d - 1) : x = (i - 1) % d
      BY <2>15, <2>16
    <3> QED
      BY <2>13, <3>1
  <2>18. ASSUME IsInjective(pool), NEW i \in 1..count, NEW j \in 1..count, i < j, out[i] = out[j]
         PROVE  j - i >= d
    <3>1. PICK x \in 0..(d - 1), y \in 0..(d - 1) : x = (i - 1) % d /\ y = (j - 1) % d
      BY <2>15, <2>16
    <3>2. x + 1 \in 1..d /\ y + 1 \in 1..d
      BY <2>13, <3>1
    <3>3. x + 1 = y + 1
      BY <2>13, <2>15, <2>18, <3>1, <3>2 DEF IsInjective
    <3>4. x = y
      BY <3>1, <3>3
    <3>5. PICK a \in Nat, b \in Nat : a = i - 1 /\ b = j - 1 /\ a < b
      BY <2>15, <2>18
    <3>6. a % d = b % d
      BY <3>1, <3>4, <3>5
    <3>7. b - a >= d
      BY <2>13, <3>5, <3>6, SameRest
    <3> QED
      BY <3>5, <3>7
  <2>19. ASSUME KeysDiffer(concepts) PROVE ToSet(out) \subseteq ToSet(QuestionsFor(MergeGenerated(answer, c)))
    <3>1. pool = QuestionsFor(MergeGenerated(answer, c))
      BY <1>2, <2>10, <2>19
    <3>2. DOMAIN out = 1..count
      BY <2>14
    <3>3. \A i \in 1..count : out[i] \in {pool[m] : m \in 1..d}
      BY <2>15, <2>17
    <3> QED
      BY <2>13, <3>1, <3>2, <3>3 DEF ToSet
  <2> QED
    BY <2>18, <2>19 DEF d
<1> QED
  BY <1>2 DEF QuestionsFit

\* A topic repeats a question only after its whole pool was asked, and where the keys of concepts differ
\* it asks its own, whatever the rows of the documents and the answer of the generator are
\* (_questions_for and build_exam).
THEOREM TopicsAskTheirOwn ==
  ASSUME NEW D, NEW L, NEW S, NEW rows \in Seq(RowOver(D, L, S)), NEW edges, NEW answer \in [L -> Seq(S)],
         NEW count \in Nat
  PROVE  QuestionsFit(MergeDocumentConcepts(rows, edges).concepts, answer, count)
<1>1. PICK C : Pooled(C, answer, S) /\ MergeDocumentConcepts(rows, edges).concepts \in Seq(C)
  BY ConceptsFit
<1>2. PICK concepts \in Seq(C) : concepts = MergeDocumentConcepts(rows, edges).concepts
  BY <1>1
<1> QED
  BY <1>1, <1>2, TopicsFit

-----------------------------------------------------------------------------
(* The checks of a batch.                                                  *)

QuestionOver(D, E, C) == [declared : D, edges : Seq(E), nodes : SUBSET C, concepts : SUBSET C, leak : BOOLEAN]

\* the results that have a status
Having(result, status) == {i \in DOMAIN result : result[i] = status}

\* How often a status is among results.
LEMMA SummaryCounts ==
  ASSUME NEW results, NEW c \in Q!Criterion, NEW s \in Q!Status
  PROVE  Q!Summarize(results)[c][s] = Cardinality(Having(results[c], s))
BY DEF Having, Q!Summarize, Q!Count, Q!Cardinality, Cardinality

\* A question of a known level is judged by one check only.
LEMMA JudgedOnce ==
  ASSUME NEW q, NEW graph
  PROVE  Cardinality({c \in {"QG-01", "QG-02", "QG-03"} : Q!Judge(q, c, graph) # "skip"}) =
           IF q.declared \in Q!Level THEN 1 ELSE 0
<1> DEFINE s == {c \in {"QG-01", "QG-02", "QG-03"} : Q!Judge(q, c, graph) # "skip"}
<1>1. \A test \in BOOLEAN : Q!Passes(test) # "skip"
  BY DEF Q!Passes
<1>2. /\ Q!Judge(q, "QG-01", graph) # "skip" <=> q.declared = "recall"
      /\ Q!Judge(q, "QG-02", graph) # "skip" <=> q.declared = "balanced"
      /\ Q!Judge(q, "QG-03", graph) # "skip" <=> q.declared = "deep"
  BY DEF Q!Judge, Q!Passes
<1>3. CASE q.declared = "recall"
  <2>1. s = {"QG-01"}
    BY <1>2, <1>3
  <2> QED
    BY <1>3, <2>1, FS_Singleton DEF Q!Level
<1>4. CASE q.declared = "balanced"
  <2>1. s = {"QG-02"}
    BY <1>2, <1>4
  <2> QED
    BY <1>4, <2>1, FS_Singleton DEF Q!Level
<1>5. CASE q.declared = "deep"
  <2>1. s = {"QG-03"}
    BY <1>2, <1>5
  <2> QED
    BY <1>5, <2>1, FS_Singleton DEF Q!Level
<1>6. CASE q.declared \notin Q!Level
  <2>1. s = {}
    BY <1>2, <1>6 DEF Q!Level
  <2> QED
    BY <1>6, <2>1, FS_EmptySet
<1> QED
  BY <1>3, <1>4, <1>5, <1>6 DEF Q!Level

\* When fewer than twenty questions agree with what they declare, all of them do.
LEMMA AllAgree ==
  ASSUME NEW n \in Nat, n < 20, NEW s \in SUBSET (1..n), 100 * Cardinality(s) >= 95 * n
  PROVE  s = 1..n
<1>1. IsFiniteSet(1..n) /\ Cardinality(1..n) = n
  <2>1. PICK a \in Int, b \in Int : a = 1 /\ b = n
    OBVIOUS
  <2>2. IsFiniteSet(a..b) /\ Cardinality(a..b) = IF a > b THEN 0 ELSE b - a + 1
    BY FS_Interval
  <2>3. (IF a > b THEN 0 ELSE b - a + 1) = n
    BY <2>1
  <2> QED
    BY <2>1, <2>2, <2>3
<1>2. Cardinality(s) <= n /\ (n = Cardinality(s) => s = 1..n)
  BY <1>1, FS_Subset
<1>3. IsFiniteSet(s)
  BY <1>1, FS_Subset
<1>4. PICK m \in Nat : m = Cardinality(s)
  BY <1>3, FS_CardinalityType
<1>5. m = n
  BY <1>2, <1>4
<1> QED
  BY <1>2, <1>4, <1>5

\* In a batch of fewer than twenty, no question slips through an agreement that passes, and every question
\* of a known level is judged exactly once, whatever the questions and the graph are (run_qg_checks).
THEOREM ChecksAgree ==
  ASSUME NEW D, NEW E, NEW C, NEW batch \in Seq(QuestionOver(D, E, C)), NEW graph
  PROVE  Q!GatesAgree(batch, graph)
<1> DEFINE n == Len(batch)
           results == Q!RunQgChecks(batch, graph)
           agreed == {i \in DOMAIN batch : batch[i].declared = Q!ClassifyDifficulty(batch[i])}
<1>1. n \in Nat /\ DOMAIN batch = 1..n /\ \A i \in 1..n : batch[i].edges \in Seq(E)
  <2>1. n \in Nat /\ DOMAIN batch = 1..n
    OBVIOUS
  <2>2. ASSUME NEW i \in 1..n PROVE batch[i].edges \in Seq(E)
    <3>1. batch[i] \in QuestionOver(D, E, C)
      BY <2>1
    <3> QED
      BY <3>1 DEF QuestionOver
  <2> QED
    BY <2>1, <2>2
<1> HIDE DEF n
<1>2. \A i \in 1..n : Len(batch[i].edges) \in Nat /\ (Len(batch[i].edges) > 0 => batch[i].edges # <<>>)
  <2> SUFFICES ASSUME NEW i \in 1..n, NEW path \in Seq(E), path = batch[i].edges
               PROVE  Len(path) \in Nat /\ (Len(path) > 0 => path # <<>>)
    BY <1>1
  <2> QED
    OBVIOUS
<1>3. ASSUME Q!Summarize(results)["QG-04"]["pass"] = 1, n < 20
      PROVE  agreed = 1..n
  <2>1. Q!Summarize(results)["QG-04"]["pass"] =
          Cardinality(Having(results["QG-04"], "pass"))
    BY SummaryCounts DEF Q!Criterion, Q!Status
  <2>2. Q!Agreement(batch) = "pass"
    <3> SUFFICES ASSUME Q!Agreement(batch) # "pass" PROVE FALSE
      OBVIOUS
    <3>1. results["QG-04"] = <<Q!Agreement(batch)>>
      BY DEF Q!RunQgChecks, Q!Criterion
    <3> HIDE DEF results
    <3>2. DOMAIN results["QG-04"] = {1} /\ results["QG-04"][1] = Q!Agreement(batch)
      BY <3>1
    <3>3. Having(results["QG-04"], "pass") = {}
      BY <3>2 DEF Having
    <3>4. Cardinality(Having(results["QG-04"], "pass")) = 0
      BY <3>3, FS_EmptySet
    <3>5. Q!Summarize(results)["QG-04"]["pass"] = 0
      BY <2>1, <3>4
    <3>6. Q!Summarize(results)["QG-04"]["pass"] = 1
      BY <1>3
    <3> QED
      BY <3>5, <3>6
  <2>3. batch # <<>> /\ 100 * Cardinality(agreed) >= 95 * n
    <3>1. Q!Count(batch, LAMBDA q : q.declared = Q!ClassifyDifficulty(q)) = Cardinality(agreed)
      BY DEF Q!Count, Q!Cardinality, Cardinality
    <3> HIDE DEF agreed
    <3>2. batch # <<>>
      BY <2>2 DEF Q!Agreement
    <3>3. Q!Passes(100 * Cardinality(agreed) >= 95 * n) = "pass"
      BY <2>2, <3>1, <3>2 DEF Q!Agreement, n
    <3> QED
      BY <3>2, <3>3 DEF Q!Passes
  <2> HIDE DEF results
  <2>4. agreed \in SUBSET (1..n)
    BY <1>1
  <2> HIDE DEF agreed
  <2> QED
    BY <1>1, <1>3, <2>3, <2>4, AllAgree
<1>4. ASSUME Q!Summarize(results)["QG-04"]["pass"] = 1, n < 20
      PROVE  /\ Q!Summarize(results)["QG-03"]["fail"] = 0
             /\ \A i \in 1..n :
                  /\ batch[i].declared \in Q!Level
                  /\ batch[i].declared = "balanced" => batch[i].edges # <<>>
  <2>1. \A i \in 1..n : batch[i].declared = Q!ClassifyDifficulty(batch[i])
    BY <1>1, <1>3, <1>4
  <2>2. \A i \in 1..n : /\ batch[i].declared \in Q!Level
                        /\ batch[i].declared = "balanced" => batch[i].edges # <<>>
                        /\ batch[i].declared = "deep" => Len(batch[i].edges) >= 2
    <3> SUFFICES ASSUME NEW i \in 1..n, NEW q, q = batch[i]
                 PROVE  /\ q.declared \in Q!Level
                        /\ q.declared = "balanced" => q.edges # <<>>
                        /\ q.declared = "deep" => Len(q.edges) >= 2
      OBVIOUS
    <3>1. q.declared = Q!ClassifyDifficulty(q)
      BY <2>1
    <3>2. PICK m \in Nat : m = Len(q.edges) /\ (m > 0 => q.edges # <<>>)
      BY <1>2
    <3>3. q.declared = IF m >= 2 THEN "deep" ELSE IF m = 1 THEN "balanced" ELSE "recall"
      BY <3>1, <3>2 DEF Q!ClassifyDifficulty
    <3>4. m >= 2 \/ m = 1 \/ m = 0
      OBVIOUS
    <3>5. CASE m >= 2
      BY <3>2, <3>3, <3>5 DEF Q!Level
    <3>6. CASE m = 1
      BY <3>2, <3>3, <3>6 DEF Q!Level
    <3>7. CASE m = 0
      BY <3>2, <3>3, <3>7 DEF Q!Level
    <3> QED
      BY <3>4, <3>5, <3>6, <3>7
  <2>3. \A i \in 1..n : Q!Judge(batch[i], "QG-03", graph) # "fail"
    BY <2>2 DEF Q!Judge, Q!Passes
  <2>4. results["QG-03"] = [i \in 1..n |-> Q!Judge(batch[i], "QG-03", graph)]
    <3>1. results["QG-03"] = [i \in DOMAIN batch |-> Q!Judge(batch[i], "QG-03", graph)]
      BY DEF Q!RunQgChecks, Q!Criterion
    <3> HIDE DEF results
    <3> QED
      BY <1>1, <3>1
  <2> HIDE DEF results
  <2>5. Q!Summarize(results)["QG-03"]["fail"] =
          Cardinality(Having(results["QG-03"], "fail"))
    BY SummaryCounts DEF Q!Criterion, Q!Status
  <2>6. Having(results["QG-03"], "fail") = {}
    BY <2>3, <2>4 DEF Having
  <2> QED
    BY <2>2, <2>5, <2>6, FS_EmptySet
<1>5. ASSUME NEW i \in 1..n
      PROVE  Cardinality({c \in {"QG-01", "QG-02", "QG-03"} : results[c][i] # "skip"}) =
               IF batch[i].declared \in Q!Level THEN 1 ELSE 0
  <2>1. \A c \in {"QG-01", "QG-02", "QG-03"} : results[c] = [k \in DOMAIN batch |-> Q!Judge(batch[k], c, graph)]
    BY DEF Q!RunQgChecks, Q!Criterion
  <2> HIDE DEF results
  <2>2. {c \in {"QG-01", "QG-02", "QG-03"} : results[c][i] # "skip"} =
          {c \in {"QG-01", "QG-02", "QG-03"} : Q!Judge(batch[i], c, graph) # "skip"}
    BY <1>1, <2>1
  <2>3. PICK q : q = batch[i]
    OBVIOUS
  <2>4. Cardinality({c \in {"QG-01", "QG-02", "QG-03"} : Q!Judge(q, c, graph) # "skip"}) =
          IF q.declared \in Q!Level THEN 1 ELSE 0
    BY JudgedOnce
  <2> QED
    BY <2>2, <2>3, <2>4
<1> QED
  BY <1>1, <1>4, <1>5 DEF Q!GatesAgree, Q!Cardinality, Cardinality, n

-----------------------------------------------------------------------------
(* What a generation rests on.                                             *)

\* The chunks retrieved are the first of the different hits.
LEMMA Retrieved ==
  ASSUME NEW searches, NEW max
  PROVE  /\ Q!Joined(searches) = Joined(searches)
         /\ Q!RetrieveChunks(searches, max) =
              SubSeq(Distinct(Joined(searches)), 1,
                     IF Len(Distinct(Joined(searches))) < max THEN Len(Distinct(Joined(searches))) ELSE max)
BY DEF Q!RetrieveChunks, Distinct, Q!Joined, Joined, Q!FoldLeft, FoldLeft, Q!MapThenFoldSet, MapThenFoldSet,
       Q!Max, Max, Q!ToSet, ToSet

\* The first elements of a sequence.
LEMMA FirstElements ==
  ASSUME NEW A, NEW s \in Seq(A), NEW m \in 0..Len(s)
  PROVE  /\ Len(SubSeq(s, 1, m)) = m /\ DOMAIN SubSeq(s, 1, m) = 1..m
         /\ \A i \in 1..m : SubSeq(s, 1, m)[i] = s[i]
         /\ \A i \in 1..m : i \in 1..Len(s)
OBVIOUS

\* What a draft is estimated.
LEMMA HarderIsHigher ==
  ASSUME NEW r, NEW t, NEW depth \in Nat,
         Q!EstimateEds(Q!LevelOf(r), depth) < Q!EstimateEds(Q!LevelOf(t), depth)
  PROVE  Q!LevelOf(r) # "high" /\ Q!LevelOf(t) # "low"
<1>1. PICK k, l : k = Q!LevelOf(r) /\ l = Q!LevelOf(t)
  OBVIOUS
<1>2. k \in {"low", "medium", "high"} /\ l \in {"low", "medium", "high"}
  BY <1>1 DEF Q!LevelOf
<1>3. Q!EstimateEds(k, depth) < Q!EstimateEds(l, depth)
  BY <1>1
<1>4. k # "high"
  BY <1>2, <1>3 DEF Q!EstimateEds, Q!Base
<1>5. l # "low"
  BY <1>2, <1>3 DEF Q!EstimateEds, Q!Base
<1> QED
  BY <1>1, <1>4, <1>5

\* The chunks a generation rests on are different, in the order found, and cut only at the limit, and a
\* harder draft is estimated higher, for any hits, answers of the model and depths (retrieve_chunks and
\* build_candidates).
THEOREM GenerationIsFit ==
  ASSUME NEW A, NEW searches \in Seq(Seq(A)), NEW max \in Nat, NEW raws, NEW depth \in Nat
  PROVE  Q!GenerationFits(searches, max, raws, depth)
<1>1. PICK hits \in Seq(A) : hits = Joined(searches)
  BY JoinedFits
<1>2. PICK d \in Seq(A) : d = Distinct(hits) /\ InOrder(hits, Len(hits), d)
  BY DistinctKeeps
<1>3. Len(d) \in Nat /\ DOMAIN d = 1..Len(d)
  OBVIOUS
<1>4. PICK m \in 0..Len(d) : m = (IF Len(d) < max THEN Len(d) ELSE max)
  <2> DEFINE least(l) == IF l < max THEN l ELSE max
  <2>1. \A l \in Nat : least(l) \in 0..l
    OBVIOUS
  <2> HIDE DEF least
  <2>2. least(Len(d)) \in 0..Len(d)
    BY <1>3, <2>1
  <2>3. \E m \in 0..Len(d) : m = least(Len(d))
    BY <2>2
  <2> QED
    BY <2>3 DEF least
<1>5. PICK chunks : chunks = SubSeq(d, 1, m)
  OBVIOUS
<1>6. Q!RetrieveChunks(searches, max) = chunks /\ Q!Joined(searches) = hits
  BY <1>1, <1>2, <1>4, <1>5, Retrieved
<1>7. /\ Len(chunks) = m /\ DOMAIN chunks = 1..m /\ \A i \in 1..m : chunks[i] = d[i]
      /\ \A i \in 1..m : i \in 1..Len(d)
  <2>1. /\ Len(SubSeq(d, 1, m)) = m /\ DOMAIN SubSeq(d, 1, m) = 1..m
        /\ \A i \in 1..m : SubSeq(d, 1, m)[i] = d[i]
        /\ \A i \in 1..m : i \in 1..Len(d)
    BY FirstElements
  <2> QED
    BY <1>5, <2>1
<1>8. IsInjective(chunks)
  <2>1. IsInjective(d)
    BY <1>2 DEF InOrder
  <2>2. \A i, j \in 1..m : d[i] = d[j] => i = j
    BY <1>3, <1>7, <2>1 DEF IsInjective
  <2> QED
    BY <1>7, <2>2 DEF IsInjective
<1>9. \A i, j \in DOMAIN chunks : i < j => FirstAt(hits, chunks[i]) < FirstAt(hits, chunks[j])
  <2>1. \A i, j \in 1..Len(d) : i < j => FirstAt(hits, d[i]) < FirstAt(hits, d[j])
    BY <1>2, <1>3 DEF InOrder
  <2> QED
    BY <1>7, <2>1
<1>10. ToSet(hits) \subseteq ToSet(chunks) \/ Len(chunks) = max
  <2>1. CASE m = max
    BY <1>7, <2>1
  <2>2. CASE m = Len(d)
    <3> SUFFICES ASSUME NEW k \in 1..Len(hits) PROVE hits[k] \in ToSet(chunks)
      <4>1. DOMAIN hits = 1..Len(hits)
        OBVIOUS
      <4> QED
        BY <4>1 DEF ToSet
    <3>1. hits[k] \in ToSet(d)
      BY <1>2 DEF InOrder
    <3>2. PICK i \in 1..m : hits[k] = d[i]
      BY <1>3, <2>2, <3>1 DEF ToSet
    <3> QED
      BY <1>7, <3>2 DEF ToSet
  <2> QED
    BY <1>4, <2>1, <2>2
<1>11. ASSUME NEW candidates, candidates = Q!BuildCandidates(raws, chunks, depth),
              NEW i \in DOMAIN candidates, NEW j \in DOMAIN candidates, candidates[i].eds < candidates[j].eds
       PROVE  candidates[i].level # "high" /\ candidates[j].level # "low"
  <2>1. PICK valid : candidates = [k \in DOMAIN valid |->
          [level |-> Q!LevelOf(valid[k]), eds |-> Q!EstimateEds(Q!LevelOf(valid[k]), depth), status |-> "draft",
           concepts |-> valid[k].concepts, sources |-> chunks]]
    BY <1>11 DEF Q!BuildCandidates
  <2>2. PICK r, t : r = valid[i] /\ t = valid[j]
    OBVIOUS
  <2>3. /\ candidates[i].level = Q!LevelOf(r) /\ candidates[j].level = Q!LevelOf(t)
        /\ candidates[i].eds = Q!EstimateEds(Q!LevelOf(r), depth)
        /\ candidates[j].eds = Q!EstimateEds(Q!LevelOf(t), depth)
    BY <1>11, <2>1, <2>2
  <2>4. Q!EstimateEds(Q!LevelOf(r), depth) < Q!EstimateEds(Q!LevelOf(t), depth)
    BY <1>11, <2>3
  <2> QED
    BY <2>3, <2>4, HarderIsHigher
<1>12. Q!IsInjective(chunks)
  BY <1>8 DEF Q!IsInjective, IsInjective
<1>13. \A i, j \in DOMAIN chunks :
         i < j => Q!Min({k \in DOMAIN hits : hits[k] = chunks[i]}) < Q!Min({k \in DOMAIN hits : hits[k] = chunks[j]})
  BY <1>9 DEF FirstAt, Q!Min, Min
<1>14. Q!ToSet(hits) \subseteq Q!ToSet(chunks) \/ Len(chunks) = max
  BY <1>10 DEF Q!ToSet, ToSet
<1> QED
  BY <1>6, <1>11, <1>12, <1>13, <1>14 DEF Q!GenerationFits

-----------------------------------------------------------------------------
(* The state machine that builds the inputs.                               *)

Nodes == {1, 2, 3}
Edges == {1}
Extensions == {"x", "y"}
Names == {"c", "d", "e", "x"}
Documents == {"d1", "d2"}
Texts == {"q1", "q2", "q3", "q4", "q5", "q6", "q7", "q8", "g1", "g2", "g3"}
Pair == Names \X Names
Declared == {"recall", "balanced", "deep", "medium"}

\* The parts of a subject, for the subjects of Scoring and of questions.
PartsFit ==
  /\ subject = "evals" => parts \in Seq(VerdictOver(Nodes, Edges, Extensions))
  /\ subject = "scores" => parts \in Seq(0..100)
  /\ subject = "claims" => parts \in Seq(RawClaimOver(Names, Names))
  /\ subject = "concepts" => parts \in Seq({"concept"})
  /\ subject = "rows" => parts \in Seq(RowOver(Documents, Labels, Texts))
  /\ subject = "batch" => parts \in Seq(QuestionOver(Declared, Pair, Names))

\* The verdicts the inputs are built of.
LEMMA VerdictsFit == Verdicts \in SUBSET VerdictOver(Nodes, Edges, Extensions)
<1> DEFINE S == [nodes : {{}, {1}, {1, 2, 3}}, edges : {{}, {1}}, extensions : {{}, {"x", "y"}}, recitation : {2, 8},
                 answered : {TRUE}, adequate : {FALSE}, probe : {TRUE}]
           T == {Verdict({1, 2}, {1}, {}, 0, TRUE, TRUE, FALSE), Verdict({2}, {}, {}, 5, TRUE, TRUE, TRUE),
                 Verdict({}, {}, {}, 5, FALSE, FALSE, TRUE), Verdict({2}, {}, {}, 10, FALSE, FALSE, FALSE)}
<1>1. \A v \in S : v \in VerdictOver(Nodes, Edges, Extensions)
  <2> SUFFICES ASSUME NEW v \in S PROVE v \in VerdictOver(Nodes, Edges, Extensions)
    OBVIOUS
  <2>1. v.nodes \in SUBSET {1, 2, 3}
    <3>1. v.nodes \in {{}, {1}, {1, 2, 3}}
      OBVIOUS
    <3> QED
      BY <3>1
  <2>2. v.edges \in SUBSET {1}
    <3>1. v.edges \in {{}, {1}}
      OBVIOUS
    <3> QED
      BY <3>1
  <2>3. v.extensions \in SUBSET {"x", "y"}
    <3>1. v.extensions \in {{}, {"x", "y"}}
      OBVIOUS
    <3> QED
      BY <3>1
  <2>4. v.recitation \in 0..10
    <3>1. v.recitation \in {2, 8}
      OBVIOUS
    <3> QED
      BY <3>1
  <2>5. v.answered \in BOOLEAN /\ v.adequate \in BOOLEAN /\ v.probe \in BOOLEAN
    OBVIOUS
  <2>6. v = [nodes |-> v.nodes, edges |-> v.edges, extensions |-> v.extensions, recitation |-> v.recitation,
             answered |-> v.answered, adequate |-> v.adequate, probe |-> v.probe]
    OBVIOUS
  <2> QED
    BY <2>1, <2>2, <2>3, <2>4, <2>5, <2>6 DEF VerdictOver, Nodes, Edges, Extensions
<1>2. Verdict({1, 2}, {1}, {}, 0, TRUE, TRUE, FALSE) \in VerdictOver(Nodes, Edges, Extensions)
  BY DEF Verdict, VerdictOver, Nodes, Edges, Extensions
<1>3. Verdict({2}, {}, {}, 5, TRUE, TRUE, TRUE) \in VerdictOver(Nodes, Edges, Extensions)
  BY DEF Verdict, VerdictOver, Nodes, Edges, Extensions
<1>4. Verdict({}, {}, {}, 5, FALSE, FALSE, TRUE) \in VerdictOver(Nodes, Edges, Extensions)
  BY DEF Verdict, VerdictOver, Nodes, Edges, Extensions
<1>5. Verdict({2}, {}, {}, 10, FALSE, FALSE, FALSE) \in VerdictOver(Nodes, Edges, Extensions)
  BY DEF Verdict, VerdictOver, Nodes, Edges, Extensions
<1>6. \A v \in T : v \in VerdictOver(Nodes, Edges, Extensions)
  BY <1>2, <1>3, <1>4, <1>5
<1>7. Verdicts = S \cup T
  BY DEF Verdicts
<1> HIDE DEF S, T
<1> QED
  BY <1>1, <1>6, <1>7

\* The claims the inputs are built of.
LEMMA ClaimsFit == Claims \in SUBSET RawClaimOver(Names, Names)
<1> DEFINE S == [text : {TRUE}, concepts : {<<"c">>, <<"c", "d">>, <<"d", "e", "x">>}, causal : BOOLEAN,
                 confidence : {2, 4, 8}, says : {{}}]
           T == {Claim(FALSE, <<"c">>, TRUE, 8, {"c"}), Claim(TRUE, <<>>, TRUE, 12, {"e"}),
                 Claim(TRUE, <<"c", "c">>, FALSE, 3, {}), Claim(TRUE, <<"x">>, FALSE, -1, {"d"})}
<1>1. \A v \in S : v \in RawClaimOver(Names, Names)
  <2> SUFFICES ASSUME NEW v \in S PROVE v \in RawClaimOver(Names, Names)
    OBVIOUS
  <2>1. v.concepts \in Seq(Names)
    <3>1. <<"c">> \in Seq(Names)
      BY DEF Names
    <3>2. <<"c", "d">> \in Seq(Names)
      BY DEF Names
    <3>3. <<"d", "e", "x">> \in Seq(Names)
      BY DEF Names
    <3>4. v.concepts \in {<<"c">>, <<"c", "d">>, <<"d", "e", "x">>}
      OBVIOUS
    <3> QED
      BY <3>1, <3>2, <3>3, <3>4
  <2>2. v.confidence \in Int
    <3>1. v.confidence \in {2, 4, 8}
      OBVIOUS
    <3> QED
      BY <3>1
  <2>3. v.text \in BOOLEAN /\ v.causal \in BOOLEAN /\ v.says = {}
    OBVIOUS
  <2>4. v = [text |-> v.text, concepts |-> v.concepts, causal |-> v.causal, confidence |-> v.confidence,
             says |-> v.says]
    OBVIOUS
  <2> QED
    BY <2>1, <2>2, <2>3, <2>4 DEF RawClaimOver
<1>2. Claim(FALSE, <<"c">>, TRUE, 8, {"c"}) \in RawClaimOver(Names, Names)
  BY DEF Claim, RawClaimOver, Names
<1>3. Claim(TRUE, <<>>, TRUE, 12, {"e"}) \in RawClaimOver(Names, Names)
  BY DEF Claim, RawClaimOver, Names
<1>4. Claim(TRUE, <<"c", "c">>, FALSE, 3, {}) \in RawClaimOver(Names, Names)
  BY DEF Claim, RawClaimOver, Names
<1>5. Claim(TRUE, <<"x">>, FALSE, -1, {"d"}) \in RawClaimOver(Names, Names)
  BY DEF Claim, RawClaimOver, Names
<1>6. \A v \in T : v \in RawClaimOver(Names, Names)
  BY <1>2, <1>3, <1>4, <1>5
<1>7. Claims = S \cup T
  BY DEF Claims
<1> HIDE DEF S, T
<1> QED
  BY <1>1, <1>6, <1>7

\* The rows the inputs are built of.
LEMMA ConceptRowsFit == ConceptRows \in SUBSET RowOver(Documents, Labels, Texts)
<1>1. ASSUME NEW a \in Seq(Texts), NEW b \in Seq(Texts), NEW doc \in Documents, NEW label \in Labels, NEW text \in BOOLEAN
      PROVE  Row(doc, label, text, Bank(a, b)) \in RowOver(Documents, Labels, Texts)
  <2>1. Bank(a, b) \in [Tier -> Seq(Texts)]
    BY DEF Bank
  <2> QED
    BY <2>1 DEF Row, RowOver
<1>2. <<>> \in Seq(Texts)
  OBVIOUS
<1>3. \A x \in Texts : <<x>> \in Seq(Texts)
  OBVIOUS
<1>4. <<"q1", "q2">> \in Seq(Texts) /\ <<"q3", "q2", "q4", "q5">> \in Seq(Texts)
  BY DEF Texts
<1>5. <<"q1">> \in Seq(Texts) /\ <<"q6">> \in Seq(Texts) /\ <<"q7">> \in Seq(Texts) /\ <<"q8">> \in Seq(Texts)
  BY <1>3 DEF Texts
<1>6. {"d1", "d2"} \subseteq Documents /\ {"c", "c++", "d"} \subseteq Labels
  BY DEF Documents, Labels
<1>7. Row("d1", "c", FALSE, Bank(<<"q1", "q2">>, <<>>)) \in RowOver(Documents, Labels, Texts)
  BY <1>1, <1>2, <1>4, <1>6
<1>8. Row("d2", "c", TRUE, Bank(<<"q3", "q2", "q4", "q5">>, <<"q1">>)) \in RowOver(Documents, Labels, Texts)
  BY <1>1, <1>4, <1>5, <1>6
<1>9. Row("d1", "c++", TRUE, Bank(<<"q6">>, <<"q7">>)) \in RowOver(Documents, Labels, Texts)
  BY <1>1, <1>5, <1>6
<1>10. Row("d2", "d", FALSE, Bank(<<>>, <<>>)) \in RowOver(Documents, Labels, Texts)
  BY <1>1, <1>2, <1>6
<1>11. Row("d1", "d", TRUE, Bank(<<>>, <<"q8">>)) \in RowOver(Documents, Labels, Texts)
  BY <1>1, <1>2, <1>5, <1>6
<1> QED
  BY <1>7, <1>8, <1>9, <1>10, <1>11 DEF ConceptRows

\* The questions the inputs are built of.
LEMMA GeneratedFit == GeneratedQuestions \in SUBSET QuestionOver(Declared, Pair, Names)
<1> DEFINE N == SUBSET Names
<1>1. ASSUME NEW declared \in Declared, NEW edges \in Seq(Pair), NEW nodes \in N, NEW leak \in BOOLEAN
      PROVE  Question(declared, edges, nodes, leak) \in QuestionOver(Declared, Pair, Names)
  <2>1. {} \in SUBSET Names
    OBVIOUS
  <2> QED
    BY <2>1 DEF Question, QuestionOver
<1>2. <<>> \in Seq(Pair)
  OBVIOUS
<1>3. <<"c", "d">> \in Pair /\ <<"d", "e">> \in Pair
  BY DEF Pair, Names
<1>4. \A p, q \in Pair : <<p>> \in Seq(Pair) /\ <<p, q>> \in Seq(Pair)
  OBVIOUS
<1>5. <<<<"c", "d">>>> \in Seq(Pair) /\ <<<<"d", "e">>>> \in Seq(Pair) /\ <<<<"c", "d">>, <<"d", "e">>>> \in Seq(Pair)
  BY <1>3, <1>4
<1>6. {"c"} \in N /\ {"c", "d"} \in N /\ {"d", "x"} \in N /\ {"c", "d", "e"} \in N
  BY DEF Names
<1>d. "recall" \in Declared /\ "balanced" \in Declared /\ "deep" \in Declared /\ "medium" \in Declared
  BY DEF Declared
<1> HIDE DEF N
<1>7. Question("recall", <<>>, {"c"}, FALSE) \in QuestionOver(Declared, Pair, Names)
  BY <1>1, <1>2, <1>5, <1>6, <1>d
<1>8. Question("recall", <<<<"c", "d">>>>, {"c", "d"}, FALSE) \in QuestionOver(Declared, Pair, Names)
  BY <1>1, <1>2, <1>5, <1>6, <1>d
<1>9. Question("recall", <<>>, {"c", "d"}, FALSE) \in QuestionOver(Declared, Pair, Names)
  BY <1>1, <1>2, <1>5, <1>6, <1>d
<1>10. Question("balanced", <<<<"c", "d">>>>, {"c", "d"}, FALSE) \in QuestionOver(Declared, Pair, Names)
  BY <1>1, <1>2, <1>5, <1>6, <1>d
<1>11. Question("balanced", <<>>, {"c", "d"}, FALSE) \in QuestionOver(Declared, Pair, Names)
  BY <1>1, <1>2, <1>5, <1>6, <1>d
<1>12. Question("balanced", <<<<"d", "e">>>>, {"d", "x"}, TRUE) \in QuestionOver(Declared, Pair, Names)
  BY <1>1, <1>2, <1>5, <1>6, <1>d
<1>13. Question("deep", <<<<"c", "d">>, <<"d", "e">>>>, {"c", "d", "e"}, TRUE) \in QuestionOver(Declared, Pair, Names)
  BY <1>1, <1>2, <1>5, <1>6, <1>d
<1>14. Question("deep", <<<<"c", "d">>>>, {"c", "d", "e"}, FALSE) \in QuestionOver(Declared, Pair, Names)
  BY <1>1, <1>2, <1>5, <1>6, <1>d
<1>15. Question("medium", <<<<"c", "d">>>>, {"c"}, FALSE) \in QuestionOver(Declared, Pair, Names)
  BY <1>1, <1>2, <1>5, <1>6, <1>d
<1> QED
  BY <1>7, <1>8, <1>9, <1>10, <1>11, <1>12, <1>13, <1>14, <1>15 DEF GeneratedQuestions

\* The parts are of their subject's kind.
LEMMA PartsAlwaysFit == Spec => []PartsFit
<1>1. Init => PartsFit
  BY DEF Init, PartsFit
<1>2. PartsFit /\ [Next]_vars => PartsFit'
  <2> SUFFICES ASSUME PartsFit, Grow PROVE PartsFit'
    BY DEF Next, PartsFit, vars
  <2>1. PICK p \in Part[subject] : parts' = Append(parts, p)
    BY DEF Grow
  <2>2. subject' = subject
    BY DEF Grow
  <2>3. ASSUME subject = "evals" PROVE parts' \in Seq(VerdictOver(Nodes, Edges, Extensions))
    <3>1. p \in Verdicts
      BY <2>1, <2>3 DEF Part
    <3>2. p \in VerdictOver(Nodes, Edges, Extensions)
      BY <3>1, VerdictsFit
    <3> QED
      BY <2>1, <2>3, <3>2 DEF PartsFit
  <2>4. ASSUME subject = "scores" PROVE parts' \in Seq(0..100)
    <3>1. p \in AgentScores
      BY <2>1, <2>4 DEF Part
    <3>2. p \in 0..100
      BY <3>1 DEF AgentScores
    <3> QED
      BY <2>1, <2>4, <3>2 DEF PartsFit
  <2>5. ASSUME subject = "claims" PROVE parts' \in Seq(RawClaimOver(Names, Names))
    <3>1. p \in Claims
      BY <2>1, <2>5 DEF Part
    <3>2. p \in RawClaimOver(Names, Names)
      BY <3>1, ClaimsFit
    <3> QED
      BY <2>1, <2>5, <3>2 DEF PartsFit
  <2>6. ASSUME subject = "concepts" PROVE parts' \in Seq({"concept"})
    <3>1. p \in {"concept"}
      BY <2>1, <2>6 DEF Part
    <3> QED
      BY <2>1, <2>6, <3>1 DEF PartsFit
  <2>7. ASSUME subject = "rows" PROVE parts' \in Seq(RowOver(Documents, Labels, Texts))
    <3>1. p \in ConceptRows
      BY <2>1, <2>7 DEF Part
    <3>2. p \in RowOver(Documents, Labels, Texts)
      BY <3>1, ConceptRowsFit
    <3> QED
      BY <2>1, <2>7, <3>2 DEF PartsFit
  <2>8. ASSUME subject = "batch" PROVE parts' \in Seq(QuestionOver(Declared, Pair, Names))
    <3>1. p \in GeneratedQuestions
      BY <2>1, <2>8 DEF Part
    <3>2. p \in QuestionOver(Declared, Pair, Names)
      BY <3>1, GeneratedFit
    <3> QED
      BY <2>1, <2>8, <3>2 DEF PartsFit
  <2> QED
    BY <2>2, <2>3, <2>4, <2>5, <2>6, <2>7, <2>8 DEF PartsFit
<1> QED
  BY <1>1, <1>2, PTL DEF Spec

\* The scores of every input fit: following up never costs points, every agent of a cohort is counted
\* once, coverage is what is claimed in all, further claims never hurt, and a session lies between its turns.
THEOREM ScoresFitHolds == Spec => []ScoresFit
<1>1. PartsFit => ScoresFit
  <2> SUFFICES ASSUME PartsFit PROVE ScoresFit
    OBVIOUS
  <2>1. ASSUME subject = "evals", NEW path \in ExpectedPaths, NEW followups \in 0..2
        PROVE  FollowUpsNeverHurt(path, parts, followups) /\ ProbesFollowed(path, parts, followups)
    <3>1. parts \in Seq(VerdictOver(Nodes, Edges, Extensions))
      BY <2>1 DEF PartsFit
    <3>2. IsFiniteSet(Nodes) /\ IsFiniteSet(Edges) /\ IsFiniteSet(Extensions)
      <4>1. Nodes = {1} \cup {2} \cup {3} /\ Edges = {1} /\ Extensions = {"x"} \cup {"y"}
        BY DEF Nodes, Edges, Extensions
      <4> QED
        BY <4>1, FS_Singleton, FS_Union
    <3>3. path \in PathType /\ followups \in Nat
      BY DEF ExpectedPaths, PathType
    <3>4. FollowUpsNeverHurt(path, parts, followups)
      BY <3>1, <3>2, <3>3, AnotherFollowUpNeverHurts
    <3>5. ProbesFollowed(path, parts, followups)
      BY <3>1, <3>3, EveryProbeIsFollowed
    <3> QED
      BY <3>4, <3>5
  <2>2. ASSUME subject = "scores", parts # <<>> PROVE CohortCounted(parts)
    BY <2>2, CohortIsCounted DEF PartsFit
  <2>3. ASSUME subject = "claims", NEW asked \in Asked, NEW store \in Stores, NEW reached \in BOOLEAN,
               NEW claims, claims = Extract(parts, asked, reached)
        PROVE  /\ CoverageAddsUp(claims, asked) /\ ClaimsNeverHurt(claims, asked, store)
               /\ SessionBetweenTurns([i \in DOMAIN claims |-> ScoreTurn(<<claims[i]>>, asked, store)])
    <3>1. parts \in Seq(RawClaimOver(Names, Names))
      BY <2>3 DEF PartsFit
    <3>2. asked \in Seq(Names)
      <4>1. <<>> \in Seq(Names)
        OBVIOUS
      <4>2. <<"c", "d">> \in Seq(Names)
        BY DEF Names
      <4>3. <<"c", "d", "e">> \in Seq(Names)
        BY DEF Names
      <4>4. asked \in {<<>>, <<"c", "d">>, <<"c", "d", "e">>}
        BY DEF Asked
      <4> QED
        BY <4>1, <4>2, <4>3, <4>4
    <3>3. claims \in Seq(ClaimOver(Names, Names))
      BY <2>3, <3>1, <3>2, ExtractFits
    <3>4. CoverageAddsUp(claims, asked)
      BY <3>3, CoverageIsTheSum
    <3>5. ClaimsNeverHurt(claims, asked, store)
      BY <3>3, FurtherClaimsNeverHurt
    <3>6. store.depth \in Int
      BY DEF Stores, Store
    <3> DEFINE Turn(i) == ScoreTurn(<<claims[i]>>, asked, store)
               n == Len(claims)
    <3>7. n \in Nat /\ DOMAIN claims = 1..n /\ \A i \in 1..n : claims[i] \in ClaimOver(Names, Names)
      BY <3>3
    <3> HIDE DEF n
    <3>8. \A i \in 1..n : Turn(i) \in Scores
      <4> SUFFICES ASSUME NEW i \in 1..n PROVE Turn(i) \in Scores
        OBVIOUS
      <4>1. <<claims[i]>> \in Seq(ClaimOver(Names, Names))
        BY <3>7
      <4> QED
        BY <3>2, <3>6, <4>1, ScoresAreNumbers
    <3> HIDE DEF Turn
    <3>9. [i \in 1..n |-> Turn(i)] \in Seq(Scores)
      BY <3>7, <3>8
    <3>10. SessionBetweenTurns([i \in DOMAIN claims |-> Turn(i)])
      BY <3>7, <3>9, SessionIsBetween
    <3> QED
      BY <3>4, <3>5, <3>10 DEF Turn
  <2> QED
    BY <2>1, <2>2, <2>3 DEF ScoresFit
<1> QED
  BY <1>1, PartsAlwaysFit, PTL

\* Of every input questions are shared out completely and proportionally and each topic asks its own, the
\* checks of a batch agree with one another, and a generation rests on different chunks in order.
THEOREM QuestionsSharedHolds == Spec => []QuestionsShared
<1>1. PartsFit => QuestionsShared
  <2> SUFFICES ASSUME PartsFit PROVE QuestionsShared
    OBVIOUS
  <2>1. ASSUME subject = "concepts", NEW count \in 0..12, NEW mode \in {"front", "even", "back"}, parts # <<>>
        PROVE  SharesFair(Len(parts), count, mode)
    <3>1. parts \in Seq({"concept"})
      BY <2>1 DEF PartsFit
    <3>2. PICK n \in Nat \ {0} : n = Len(parts)
      BY <2>1, <3>1
    <3>3. count \in Nat
      OBVIOUS
    <3>4. SharesFair(n, count, mode)
      BY <3>3, SharesAreFair
    <3> QED
      BY <3>2, <3>4
  <2>2. ASSUME subject = "rows", NEW answer \in Answers
        PROVE  QuestionsFit(MergeDocumentConcepts(parts, <<>>).concepts, answer, 5)
    <3>1. parts \in Seq(RowOver(Documents, Labels, Texts))
      BY <2>2 DEF PartsFit
    <3>2. answer \in [Labels -> Seq(Texts)]
      <4>1. <<>> \in Seq(Texts) /\ <<"g1", "g2">> \in Seq(Texts) /\ <<"g1", "g1", "g3">> \in Seq(Texts)
        BY DEF Texts
      <4>2. {<<>>, <<"g1", "g2">>, <<"g1", "g1", "g3">>} \subseteq Seq(Texts)
        BY <4>1
      <4>3. answer \in [Labels -> {<<>>, <<"g1", "g2">>, <<"g1", "g1", "g3">>}]
        BY DEF Answers
      <4> QED
        BY <4>2, <4>3
    <3>3. 5 \in Nat
      OBVIOUS
    <3> QED
      BY <3>1, <3>2, <3>3, TopicsAskTheirOwn
  <2>3. ASSUME subject = "batch", NEW graph \in CourseGraphs PROVE Q!GatesAgree(parts, graph)
    <3>1. parts \in Seq(QuestionOver(Declared, Pair, Names))
      BY <2>3 DEF PartsFit
    <3> QED
      BY <3>1, ChecksAgree
  <2>4. ASSUME NEW first \in Hits, NEW second \in Hits, NEW depth \in {0, 3, 7}
        PROVE  Q!GenerationFits(<<first, second>>, 3, parts, depth)
    <3> DEFINE Chunks == {"k1", "k2", "k3", "k4"}
    <3>1. Hits \in SUBSET Seq(Chunks)
      <4>1. <<>> \in Seq(Chunks) /\ <<"k1", "k2">> \in Seq(Chunks) /\ <<"k2", "k1">> \in Seq(Chunks)
        OBVIOUS
      <4>2. <<"k3", "k2", "k4">> \in Seq(Chunks)
        OBVIOUS
      <4> QED
        BY <4>1, <4>2 DEF Hits
    <3> HIDE DEF Chunks
    <3>2. first \in Seq(Chunks) /\ second \in Seq(Chunks)
      BY <3>1
    <3>3. <<first, second>> \in Seq(Seq(Chunks))
      BY <3>2
    <3>4. depth \in Nat /\ 3 \in Nat
      OBVIOUS
    <3> QED
      BY <3>3, <3>4, GenerationIsFit
  <2> QED
    BY <2>1, <2>2, <2>3, <2>4 DEF QuestionsShared
<1> QED
  BY <1>1, PartsAlwaysFit, PTL
=============================================================================
