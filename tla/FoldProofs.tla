------------------------------ MODULE FoldProofs ------------------------------
(***************************************************************************)
(* Induction over data, in the form the other proofs use it.  It rests on  *)
(* one fact, that a set of natural numbers has a least element; from it    *)
(* come the folds over sequences, and recursion and induction over the     *)
(* subsets of a finite set.                                                *)
(***************************************************************************)
EXTENDS Integers, FiniteSetsExt, FiniteSetTheorems, WellFoundedInduction, NaturalsInduction, TLAPS

\* A set of natural numbers that is not empty has a least element.
LEMMA LeastNumber ==
  ASSUME NEW T \in SUBSET Nat, T # {}
  PROVE  \E k \in T : \A l \in T : k <= l
  <1> DEFINE R == OpToRel(<, Nat)
  <1>1. IsWellFoundedOn(R, Nat)
    BY NatLessThanWellFounded
  <1>3. \A k, l \in Nat : l < k => <<l, k>> \in R
    BY DEF OpToRel
  <1> HIDE DEF R
  <1>2. PICK k \in T : \A l \in T : ~(<<l, k>> \in R)
    BY <1>1, WFMin
  <1>4. ASSUME NEW l \in T
        PROVE  k <= l
    <2>1. k \in Nat /\ l \in Nat
      OBVIOUS
    <2>2. ~(l < k)
      BY <1>2, <1>3, <2>1
    <2> QED BY <2>1, <2>2
  <1> QED BY <1>4

\* Numbers 0..n that are closed under successor are all of 0..n.
LEMMA Climb ==
  ASSUME NEW n \in Nat, NEW T, 0 \in T, \A k \in 0..(n - 1) : k \in T => k + 1 \in T
  PROVE  0..n \subseteq T
  <1> SUFFICES ASSUME (0..n) \ T # {}
               PROVE  FALSE
    OBVIOUS
  <1>1. (0..n) \ T \in SUBSET Nat
    OBVIOUS
  <1>2. PICK k \in (0..n) \ T : \A l \in (0..n) \ T : k <= l
    BY <1>1, LeastNumber
  <1>3. k # 0 /\ k - 1 \in 0..(n - 1) /\ k - 1 \in 0..n
    BY <1>2
  <1>4. k - 1 \in T
    BY <1>2, <1>3
  <1>5. (k - 1) + 1 = k
    BY <1>2
  <1> QED BY <1>2, <1>3, <1>4, <1>5

\* g is the recursion the fold of the community modules defines, within X.
IsFold(g, X, n, base, F) ==
  /\ g \in [SUBSET (1..n) -> X]
  /\ \A s \in SUBSET (1..n) :
       g[s] = IF s = {} THEN base ELSE F[<<g[s \ {Max(s)}], Max(s)>>]

\* There is such a recursion.
LEMMA FoldDefined ==
  ASSUME NEW X, NEW base \in X, NEW n \in Nat, NEW F \in [X \X (1..n) -> X]
  PROVE  \E g : IsFold(g, X, n, base, F)
  <1> DEFINE Upto(m, g) == \A s \in SUBSET (1..m) :
                             g[s] = IF s = {} THEN base ELSE F[<<g[s \ {Max(s)}], Max(s)>>]
             T == {m \in 0..n : \E g \in [SUBSET (1..m) -> X] : Upto(m, g)}
  <1>1. 0 \in T
    <2> DEFINE g == [s \in SUBSET (1..0) |-> base]
    <2>1. g \in [SUBSET (1..0) -> X]
      OBVIOUS
    <2>2. \A s \in SUBSET (1..0) : s = {}
      OBVIOUS
    <2>3. Upto(0, g)
      BY <2>2
    <2> HIDE DEF g, Upto
    <2>4. \E f \in [SUBSET (1..0) -> X] : Upto(0, f)
      BY <2>1, <2>3
    <2>5. 0 \in 0..n
      OBVIOUS
    <2> QED BY <2>4, <2>5
  <1>2. ASSUME NEW m \in 0..(n - 1), m \in T
        PROVE  m + 1 \in T
    <2>1. PICK g \in [SUBSET (1..m) -> X] : Upto(m, g)
      BY <1>2
    <2> DEFINE h == [s \in SUBSET (1..(m + 1)) |->
                       IF m + 1 \in s THEN F[<<g[s \ {m + 1}], m + 1>>] ELSE g[s]]
    <2>2. m + 1 \in 1..n /\ m \in Nat
      OBVIOUS
    <2>3. ASSUME NEW s \in SUBSET (1..(m + 1))
          PROVE  /\ s \ {m + 1} \in SUBSET (1..m)
                 /\ m + 1 \notin s => s \in SUBSET (1..m)
                 /\ m + 1 \in s => Max(s) = m + 1
      <3>1. s \ {m + 1} \in SUBSET (1..m) /\ (m + 1 \notin s => s \in SUBSET (1..m))
        BY <2>2
      <3>2. ASSUME m + 1 \in s
            PROVE  Max(s) = m + 1
        <4>1. \A y \in s : y <= m + 1 /\ y \in Nat
          BY <2>2
        <4>2. \A x \in s : (\A y \in s : x >= y) => x = m + 1
          BY <2>2, <3>2, <4>1
        <4>3. \A y \in s : m + 1 >= y
          BY <2>2, <4>1
        <4> QED BY <3>2, <4>2, <4>3 DEF Max
      <3> QED BY <3>1, <3>2
    <2>4. h \in [SUBSET (1..(m + 1)) -> X]
      BY <2>2, <2>3
    <2>5. ASSUME NEW s \in SUBSET (1..(m + 1))
          PROVE  h[s] = IF s = {} THEN base ELSE F[<<h[s \ {Max(s)}], Max(s)>>]
      <3>1. CASE m + 1 \in s
        <4>1. s \ {m + 1} \in SUBSET (1..(m + 1))
          OBVIOUS
        <4>2. h[s \ {m + 1}] = g[s \ {m + 1}]
          BY <4>1
        <4> QED BY <2>3, <3>1, <4>2
      <3>2. CASE m + 1 \notin s
        <4>1. s \in SUBSET (1..m) /\ h[s] = g[s]
          BY <2>3, <3>2
        <4>2. s \ {Max(s)} \in SUBSET (1..(m + 1)) /\ m + 1 \notin s \ {Max(s)}
          BY <3>2
        <4>3. h[s \ {Max(s)}] = g[s \ {Max(s)}]
          BY <4>2
        <4> HIDE DEF h
        <4> QED BY <2>1, <4>1, <4>3
      <3> QED BY <3>1, <3>2
    <2> HIDE DEF h
    <2>6. Upto(m + 1, h)
      BY <2>5
    <2> HIDE DEF Upto
    <2>7. \E f \in [SUBSET (1..(m + 1)) -> X] : Upto(m + 1, f)
      BY <2>4, <2>6
    <2> QED BY <2>2, <2>7
  <1> HIDE DEF T
  <1>3. n \in T
    <2>1. 0..n \subseteq T
      BY <1>1, <1>2, Climb
    <2>2. n \in 0..n
      OBVIOUS
    <2> QED BY <2>1, <2>2
  <1>4. PICK g \in [SUBSET (1..n) -> X] : Upto(n, g)
    BY <1>3 DEF T
  <1>5. IsFold(g, X, n, base, F)
    BY <1>4 DEF IsFold
  <1> QED BY <1>5

\* A set of numbers 1..n that is not empty has a largest element.
LEMMA MaxIn ==
  ASSUME NEW n \in Nat, NEW s \in SUBSET (1..n), s # {}
  PROVE  Max(s) \in s
  <1> DEFINE T == {n - k : k \in s}
  <1>1. T \in SUBSET Nat /\ T # {}
    <2>1. \A k \in s : k \in 1..n
      OBVIOUS
    <2>2. \A k \in 1..n : n - k \in Nat
      OBVIOUS
    <2>3. T # {}
      OBVIOUS
    <2> QED BY <2>1, <2>2, <2>3
  <1>2. PICK m \in T : \A l \in T : m <= l
    BY <1>1, LeastNumber
  <1>3. PICK k \in s : m = n - k
    BY <1>2
  <1>4. ASSUME NEW y \in s
        PROVE  k >= y
    <2>1. n - y \in T /\ y \in 1..n /\ k \in 1..n
      OBVIOUS
    <2>2. n - k <= n - y
      BY <1>2, <1>3, <2>1
    <2> QED BY <2>1, <2>2
  <1> QED BY <1>4 DEF Max

\* What every step of a fold keeps, the fold keeps.
LEMMA FoldStays ==
  ASSUME NEW X, NEW base \in X, NEW n \in Nat, NEW F \in [X \X (1..n) -> X], NEW iter,
         iter[{}] = base,
         \A k \in 1..n : iter[1..(k - 1)] \in X => iter[1..k] = F[<<iter[1..(k - 1)], k>>]
  PROVE  iter[1..n] \in X
  <1> DEFINE T == {k \in 0..n : iter[1..k] \in X}
  <1>1. 0 \in T
    <2>1. 1..0 = {}
      OBVIOUS
    <2> QED BY <2>1
  <1>2. ASSUME NEW k \in 0..(n - 1), k \in T
        PROVE  k + 1 \in T
    <2>1. k + 1 \in 1..n /\ (k + 1) - 1 = k /\ k + 1 \in 0..n
      OBVIOUS
    <2>2. iter[1..(k + 1)] = F[<<iter[1..k], k + 1>>]
      BY <1>2, <2>1
    <2>3. <<iter[1..k], k + 1>> \in X \X (1..n)
      BY <1>2, <2>1
    <2> QED BY <2>1, <2>2, <2>3
  <1> HIDE DEF T
  <1>3. 0..n \subseteq T
    BY <1>1, <1>2, Climb
  <1>4. n \in 0..n
    OBVIOUS
  <1> QED BY <1>3, <1>4 DEF T

\* The last of 1..k.
LEMMA LastNumber ==
  ASSUME NEW k \in Nat \ {0}
  PROVE  Max(1..k) = k /\ (1..k) \ {k} = 1..(k - 1) /\ 1..k # {}
  <1>1. k \in 1..k /\ \A y \in 1..k : k >= y
    OBVIOUS
  <1>2. \A x \in 1..k : (\A y \in 1..k : x >= y) => x = k
    BY <1>1
  <1>3. Max(1..k) = k
    BY <1>1, <1>2 DEF Max
  <1> QED BY <1>1, <1>3

\* A smaller set has fewer elements.
LEMMA FewerElements ==
  ASSUME NEW all, IsFiniteSet(all), NEW S \in SUBSET all, NEW R \in SUBSET S, R # S
  PROVE  /\ Cardinality(S) \in 0..Cardinality(all) /\ Cardinality(R) \in Nat
         /\ Cardinality(R) < Cardinality(S)
  <1>1. IsFiniteSet(S) /\ Cardinality(S) <= Cardinality(all)
    BY FS_Subset
  <1>2. IsFiniteSet(R) /\ Cardinality(R) <= Cardinality(S) /\ Cardinality(R) # Cardinality(S)
    BY <1>1, FS_Subset
  <1>3. Cardinality(S) \in Nat /\ Cardinality(R) \in Nat /\ Cardinality(all) \in Nat
    BY <1>1, <1>2, FS_CardinalityType
  <1> QED BY <1>1, <1>2, <1>3

\* What holds of a set when it holds of every smaller one holds of every
\* subset of a finite set.
LEMMA SubsetInduction ==
  ASSUME NEW all, IsFiniteSet(all), NEW T,
         \A S \in SUBSET all : (\A R \in SUBSET S : R # S => R \in T) => S \in T
  PROVE  \A S \in SUBSET all : S \in T
  <1> SUFFICES ASSUME NEW S \in SUBSET all, S \notin T
               PROVE  FALSE
    OBVIOUS
  <1> DEFINE Sizes == {Cardinality(R) : R \in {Q \in SUBSET all : Q \notin T}}
  <1>1. Sizes \in SUBSET Nat
    <2>1. \A R \in SUBSET all : Cardinality(R) \in Nat
      BY FS_Subset, FS_CardinalityType
    <2> QED BY <2>1
  <1>2. PICK m \in Sizes : \A l \in Sizes : m <= l
    <2>1. Sizes # {}
      OBVIOUS
    <2> QED BY <1>1, <2>1, LeastNumber
  <1>3. PICK R \in SUBSET all : R \notin T /\ m = Cardinality(R)
    OBVIOUS
  <1>4. PICK Q \in SUBSET R : Q # R /\ Q \notin T
    BY <1>3
  <1>5. Cardinality(Q) \in Nat /\ Cardinality(R) \in Nat /\ Cardinality(Q) < Cardinality(R)
    BY <1>4, FewerElements
  <1>6. Cardinality(Q) \in Sizes
    BY <1>4
  <1> QED BY <1>2, <1>3, <1>5, <1>6

\* A leads from every subset of all that is not empty to a smaller one.
Descends(A, all) ==
  /\ A \in [SUBSET all -> SUBSET all]
  /\ \A S \in SUBSET all : S # {} => A[S] \in SUBSET S /\ A[S] # S

\* g is the recursion to the sets A and B lead to, within X.
IsRecursion(g, all, X, base, A, B, H) ==
  /\ g \in [SUBSET all -> X]
  /\ \A S \in SUBSET all : g[S] = IF S = {} THEN base ELSE H[<<g[A[S]], g[B[S]], S>>]

\* There is such a recursion.
LEMMA SubsetRecursion ==
  ASSUME NEW all, IsFiniteSet(all), NEW X, NEW base \in X,
         NEW A, Descends(A, all), NEW B, Descends(B, all),
         NEW H \in [X \X X \X SUBSET all -> X]
  PROVE  \E g : IsRecursion(g, all, X, base, A, B, H)
  <1> DEFINE n == Cardinality(all)
             Right(g, S) == g[S] = IF S = {} THEN base ELSE H[<<g[A[S]], g[B[S]], S>>]
             Upto(m, g) == \A S \in SUBSET all : Cardinality(S) <= m => Right(g, S)
             T == {m \in 0..n : \E g \in [SUBSET all -> X] : Upto(m, g)}
  <1>0. A \in [SUBSET all -> SUBSET all] /\ B \in [SUBSET all -> SUBSET all]
    BY DEF Descends
  <1>1. n \in Nat /\ \A S \in SUBSET all : Cardinality(S) \in Nat /\ Cardinality(S) <= n
    BY FS_Subset, FS_CardinalityType
  <1>2. \A S \in SUBSET all : Cardinality(S) = 0 => S = {}
    BY FS_Subset, FS_EmptySet
  <1>3. \A S \in SUBSET all : S # {} => /\ Cardinality(A[S]) < Cardinality(S)
                                        /\ Cardinality(B[S]) < Cardinality(S)
    BY FewerElements DEF Descends
  <1> HIDE DEF n
  <1>4. 0 \in T
    <2> DEFINE g == [S \in SUBSET all |-> base]
    <2>1. g \in [SUBSET all -> X]
      OBVIOUS
    <2>2. Upto(0, g)
      BY <1>1, <1>2
    <2> HIDE DEF g, Upto
    <2>3. \E f \in [SUBSET all -> X] : Upto(0, f)
      BY <2>1, <2>2
    <2> QED BY <1>1, <2>3
  <1>5. ASSUME NEW m \in 0..(n - 1), m \in T
        PROVE  m + 1 \in T
    <2>1. PICK g \in [SUBSET all -> X] : Upto(m, g)
      BY <1>5
    <2> DEFINE h == [S \in SUBSET all |->
                       IF Cardinality(S) <= m \/ S = {} THEN g[S] ELSE H[<<g[A[S]], g[B[S]], S>>]]
    <2>2. h \in [SUBSET all -> X]
      BY <1>0
    <2>3. \A S \in SUBSET all : Cardinality(S) <= m => h[S] = g[S]
      OBVIOUS
    <2>4. \A S \in SUBSET all : Cardinality(S) > m /\ S # {} => h[S] = H[<<g[A[S]], g[B[S]], S>>]
      BY <1>1
    <2> HIDE DEF h
    <2>5. ASSUME NEW S \in SUBSET all, Cardinality(S) <= m + 1
          PROVE  Right(h, S)
      <3>1. CASE S = {}
        <4>1. Cardinality(S) = 0 /\ 0 <= m
          BY <1>1, <3>1, FS_EmptySet
        <4>2. h[S] = g[S] /\ Right(g, S)
          BY <2>1, <2>3, <4>1
        <4> QED BY <3>1, <4>2
      <3>2. CASE S # {}
        <4>1. /\ Cardinality(A[S]) <= m /\ Cardinality(B[S]) <= m
              /\ A[S] \in SUBSET all /\ B[S] \in SUBSET all
          BY <1>0, <1>1, <1>3, <2>5, <3>2
        <4>2. h[A[S]] = g[A[S]] /\ h[B[S]] = g[B[S]]
          BY <2>3, <4>1
        <4>3. h[S] = H[<<g[A[S]], g[B[S]], S>>]
          <5>1. CASE Cardinality(S) <= m
            <6>1. h[S] = g[S] /\ Right(g, S)
              BY <2>1, <2>3, <5>1
            <6> QED BY <3>2, <6>1
          <5>2. CASE ~(Cardinality(S) <= m)
            <6>1. Cardinality(S) > m
              BY <1>1, <5>2
            <6> QED BY <2>4, <3>2, <6>1
          <5> QED BY <5>1, <5>2
        <4> QED BY <3>2, <4>2, <4>3
      <3> QED BY <3>1, <3>2
    <2> HIDE DEF Right
    <2>6. Upto(m + 1, h)
      BY <2>5
    <2> HIDE DEF Upto
    <2>7. \E f \in [SUBSET all -> X] : Upto(m + 1, f)
      BY <2>2, <2>6
    <2>8. m + 1 \in 0..n
      BY <1>1
    <2> QED BY <2>7, <2>8
  <1> HIDE DEF T
  <1>6. n \in T
    <2>1. 0..n \subseteq T
      BY <1>1, <1>4, <1>5, Climb
    <2> QED BY <1>1, <2>1
  <1>7. PICK g \in [SUBSET all -> X] : Upto(n, g)
    BY <1>6 DEF T
  <1>8. \A S \in SUBSET all : Right(g, S)
    BY <1>1, <1>7
  <1> QED BY <1>8 DEF IsRecursion
=============================================================================
