------------------------------ MODULE Sums_proofs ------------------------------
(***************************************************************************)
(* Facts about natural numbers and finite sums that the other proofs need. *)
(* Induction is over sets of numbers, which needs no operator parameter.   *)
(***************************************************************************)
EXTENDS Sums, FiniteSetTheorems, WellFoundedInduction, TLAPS

\* A set of natural numbers that has an element has a least one.
LEMMA LeastNatural ==
    ASSUME NEW S \in SUBSET Nat, S # {}
    PROVE  \E m \in S : \A k \in S : m <= k
<1> DEFINE R == OpToRel(<, Nat)
<1>1. IsWellFoundedOn(R, Nat)
  BY NatLessThanWellFounded, Zenon
<1>2. \A a, b \in Nat : a < b => <<a, b>> \in R
  BY DEF OpToRel
<1> HIDE DEF R
<1>3. PICK m \in S : \A k \in S : ~(<<k, m>> \in R)
  BY <1>1, WFMin
<1>4. \A k \in S : m <= k
  <2> SUFFICES ASSUME NEW k \in S PROVE m <= k
    OBVIOUS
  <2>1. k \in Nat /\ m \in Nat
    OBVIOUS
  <2>2. ~(k < m)
    BY <1>2, <1>3, <2>1
  <2> QED
    BY <2>1, <2>2
<1> QED
  BY <1>4

\* A set of natural numbers that has an element and a bound has a greatest element.
LEMMA GreatestNatural ==
    ASSUME NEW S \in SUBSET Nat, S # {}, NEW m \in Nat, \A k \in S : k <= m
    PROVE  \E g \in S : \A k \in S : g >= k
<1> DEFINE U == {u \in Nat : \A k \in S : k <= u}
<1>1. U \in SUBSET Nat /\ m \in U
  OBVIOUS
<1>2. PICK g \in U : \A u \in U : g <= u
  <2> HIDE DEF U
  <2> QED
    BY <1>1, LeastNatural
<1>3. g \in Nat /\ \A k \in S : k <= g
  BY <1>2
<1>4. g \in S
  <2> SUFFICES ASSUME g \notin S PROVE FALSE
    OBVIOUS
  <2>1. \A k \in S : k < g
    BY <1>3
  <2>2. g - 1 \in Nat /\ ~(g <= g - 1)
    <3>1. PICK k \in S : TRUE
      OBVIOUS
    <3>2. k \in Nat /\ k < g
      BY <2>1, <3>1
    <3> QED
      BY <1>3, <3>2
  <2>3. \A k \in S : k <= g - 1
    BY <1>3, <2>1
  <2> QED
    BY <1>2, <2>2, <2>3
<1> QED
  BY <1>3, <1>4

\* Induction over the natural numbers, for a set of them.
LEMMA SetInduction ==
    ASSUME NEW T \in SUBSET Nat, 0 \in T, \A n \in T : n + 1 \in T
    PROVE  T = Nat
<1> SUFFICES ASSUME Nat \ T # {} PROVE FALSE
  OBVIOUS
<1>1. PICK m \in Nat \ T : \A k \in Nat \ T : m <= k
  BY LeastNatural
<1>2. m # 0 /\ m - 1 \in Nat /\ m - 1 < m
  BY <1>1
<1>3. m - 1 \in T
  BY <1>1, <1>2
<1>4. (m - 1) + 1 \in T
  BY <1>3
<1> QED
  BY <1>2, <1>4

-----------------------------------------------------------------------------
(* Total is a fold that takes the elements of the domain in some fixed      *)
(* order.  Its intermediate sums are the same in every order.               *)

\* g is the fold of Total(f): the sums over the subsets of the domain, the
\* elements taken in the fixed order.
Folds(g, f) ==
    g = [s \in SUBSET DOMAIN f |->
            IF s = {} THEN 0
            ELSE f[CHOOSE x \in s : TRUE] + g[s \ {CHOOSE x \in s : TRUE}]]

\* g gives the sums over the subsets of the domain, in every order.
IsSum(g, f) ==
    /\ g \in [SUBSET DOMAIN f -> Nat]
    /\ g[{}] = 0
    /\ \A s \in SUBSET DOMAIN f : \A x \in s : g[s] = f[x] + g[s \ {x}]

\* A finite set without an element of it has one element less.
LEMMA OneLess ==
    ASSUME NEW s, IsFiniteSet(s), NEW x \in s
    PROVE  /\ IsFiniteSet(s \ {x})
           /\ Cardinality(s) \in Nat \ {0}
           /\ Cardinality(s \ {x}) \in Nat
           /\ Cardinality(s) = Cardinality(s \ {x}) + 1
<1>1. IsFiniteSet(s \ {x}) /\ Cardinality(s \ {x}) = Cardinality(s) - 1
  BY FS_RemoveElement
<1>2. Cardinality(s) \in Nat /\ Cardinality(s \ {x}) \in Nat
  BY <1>1, FS_CardinalityType
<1>3. Cardinality(s) # 0
  BY FS_EmptySet
<1> QED
  BY <1>1, <1>2, <1>3

\* What holds of the empty set, and of a set when it holds of the set without any
\* one of its elements, holds of all subsets of a finite set.
LEMMA SubsetInduction ==
    ASSUME NEW S, IsFiniteSet(S), NEW P \in SUBSET SUBSET S, {} \in P,
           \A s \in SUBSET S : s # {} /\ (\A x \in s : s \ {x} \in P) => s \in P
    PROVE  P = SUBSET S
<1> DEFINE T == {n \in Nat : \A s \in SUBSET S : Cardinality(s) = n => s \in P}
<1>1. 0 \in T
  BY FS_Subset, FS_EmptySet
<1>2. ASSUME NEW n \in T PROVE n + 1 \in T
  <2>1. n \in Nat /\ \A s \in SUBSET S : Cardinality(s) = n => s \in P
    OBVIOUS
  <2> HIDE DEF T
  <2>2. SUFFICES ASSUME NEW s \in SUBSET S, Cardinality(s) = n + 1 PROVE s \in P
    BY <2>1 DEF T
  <2>3. IsFiniteSet(s)
    BY FS_Subset
  <2>4. s # {}
    <3>1. Cardinality({}) = 0 /\ n + 1 # 0
      BY <2>1, FS_EmptySet
    <3> QED
      BY <2>2, <3>1
  <2>5. ASSUME NEW x \in s PROVE s \ {x} \in P
    <3>1. Cardinality(s \ {x}) \in Nat /\ Cardinality(s) = Cardinality(s \ {x}) + 1
      BY <2>3, OneLess
    <3>2. Cardinality(s \ {x}) = n
      BY <2>1, <2>2, <3>1
    <3>3. s \ {x} \in SUBSET S
      OBVIOUS
    <3> QED
      BY <2>1, <3>2, <3>3
  <2> QED
    BY <2>4, <2>5
<1>3. T = Nat
  <2> HIDE DEF T
  <2>1. T \in SUBSET Nat
    BY DEF T
  <2> QED
    BY <1>1, <1>2, <2>1, SetInduction
<1>4. \A s \in SUBSET S : Cardinality(s) \in Nat
  BY FS_Subset, FS_CardinalityType
<1> QED
  BY <1>3, <1>4

\* The fold of Total exists for a finite domain: sets of at most n elements have
\* one, for every n.
LEMMA FoldExists ==
    ASSUME NEW S, IsFiniteSet(S), NEW f \in [S -> Nat]
    PROVE  \E g : Folds(g, f)
<1> DEFINE Pick(s) == CHOOSE x \in s : TRUE
           UpTo(n) == {s \in SUBSET S : Cardinality(s) <= n}
           Fold(g, n) == \A s \in UpTo(n) :
                            g[s] = IF s = {} THEN 0 ELSE f[Pick(s)] + g[s \ {Pick(s)}]
           T == {n \in Nat : \E g \in [UpTo(n) -> Nat] : Fold(g, n)}
<1>1. \A s \in SUBSET S : s # {} => Pick(s) \in s
  OBVIOUS
<1> HIDE DEF Pick
<1>2. 0 \in T
  <2> DEFINE g == [s \in UpTo(0) |-> 0]
  <2>1. g \in [UpTo(0) -> Nat]
    OBVIOUS
  <2>2. \A s \in UpTo(0) : s = {}
    BY FS_Subset, FS_CardinalityType, FS_EmptySet
  <2>3. Fold(g, 0)
    BY <2>2
  <2> QED
    BY <2>1, <2>3
<1>3. ASSUME NEW n \in T PROVE n + 1 \in T
  <2>1. PICK g \in [UpTo(n) -> Nat] : Fold(g, n)
    OBVIOUS
  <2> DEFINE h == [s \in UpTo(n + 1) |->
                      IF s \in UpTo(n) THEN g[s]
                      ELSE f[Pick(s)] + g[s \ {Pick(s)}]]
  <2>2. \A s \in UpTo(n + 1) : s # {} =>
            Pick(s) \in s /\ Pick(s) \in S /\ s \ {Pick(s)} \in UpTo(n)
    <3> SUFFICES ASSUME NEW s \in UpTo(n + 1), s # {}
                 PROVE  Pick(s) \in s /\ Pick(s) \in S /\ s \ {Pick(s)} \in UpTo(n)
      OBVIOUS
    <3>1. Pick(s) \in s /\ s \in SUBSET S
      BY <1>1
    <3>2. /\ Cardinality(s \ {Pick(s)}) \in Nat
          /\ Cardinality(s) = Cardinality(s \ {Pick(s)}) + 1
      <4>1. IsFiniteSet(s)
        BY <3>1, FS_Subset
      <4> HIDE DEF UpTo, T
      <4> QED
        BY <3>1, <4>1, OneLess
    <3>3. Cardinality(s) <= n + 1 /\ n \in Nat
      OBVIOUS
    <3>4. Cardinality(s \ {Pick(s)}) <= n
      BY <3>2, <3>3
    <3>5. s \ {Pick(s)} \in UpTo(n)
      BY <3>1, <3>4
    <3> QED
      BY <3>1, <3>5
  <2>3. {} \in UpTo(n)
    BY FS_EmptySet
  <2>4. \A s \in UpTo(n) : s \in UpTo(n + 1)
    <3> SUFFICES ASSUME NEW s \in UpTo(n) PROVE Cardinality(s) <= n + 1
      OBVIOUS
    <3>1. Cardinality(s) \in Nat
      BY FS_Subset, FS_CardinalityType
    <3> QED
      BY <3>1
  <2> HIDE DEF UpTo
  <2>5. h \in [UpTo(n + 1) -> Nat]
    <3> SUFFICES ASSUME NEW s \in UpTo(n + 1), s \notin UpTo(n)
                 PROVE  f[Pick(s)] + g[s \ {Pick(s)}] \in Nat
      OBVIOUS
    <3>1. f[Pick(s)] \in Nat /\ g[s \ {Pick(s)}] \in Nat
      BY <2>2, <2>3
    <3> QED
      BY <3>1
  <2>6. Fold(h, n + 1)
    <3> SUFFICES ASSUME NEW s \in UpTo(n + 1)
                 PROVE  h[s] = IF s = {} THEN 0 ELSE f[Pick(s)] + h[s \ {Pick(s)}]
      OBVIOUS
    <3>1. CASE s \in UpTo(n)
      <4>1. h[s] = g[s]
        BY <3>1
      <4>2. s # {} => s \ {Pick(s)} \in UpTo(n) /\ s \ {Pick(s)} \in UpTo(n + 1)
        BY <2>2, <2>4
      <4>3. s # {} => h[s \ {Pick(s)}] = g[s \ {Pick(s)}]
        BY <4>2
      <4> QED
        BY <2>1, <3>1, <4>1, <4>3
    <3>2. CASE s \notin UpTo(n)
      <4>1. s # {}
        BY <2>3, <3>2
      <4>2. s \ {Pick(s)} \in UpTo(n) /\ s \ {Pick(s)} \in UpTo(n + 1)
        BY <2>2, <2>4, <4>1
      <4>3. h[s \ {Pick(s)}] = g[s \ {Pick(s)}]
        BY <4>2
      <4> QED
        BY <3>2, <4>1, <4>3
    <3> QED
      BY <3>1, <3>2
  <2>7. n + 1 \in Nat
    OBVIOUS
  <2> HIDE DEF h, Fold
  <2> QED
    BY <2>5, <2>6, <2>7
<1>4. Cardinality(S) \in T
  <2> HIDE DEF T
  <2>1. T \in SUBSET Nat
    BY DEF T
  <2>2. T = Nat
    BY <1>2, <1>3, <2>1, SetInduction
  <2> QED
    BY <2>2, FS_CardinalityType
<1>5. PICK g \in [UpTo(Cardinality(S)) -> Nat] : Fold(g, Cardinality(S))
  BY <1>4
<1>6. UpTo(Cardinality(S)) = SUBSET S
  BY FS_Subset
<1>8. g = [s \in SUBSET S |-> IF s = {} THEN 0 ELSE f[Pick(s)] + g[s \ {Pick(s)}]]
  BY <1>5, <1>6
<1> QED
  BY <1>8 DEF Folds, Pick

\* The fold of Total gives the sums in every order: exchange two elements.
LEMMA FoldIsSum ==
    ASSUME NEW S, IsFiniteSet(S), NEW f \in [S -> Nat], NEW g, Folds(g, f)
    PROVE  IsSum(g, f)
<1> DEFINE Pick(s) == CHOOSE x \in s : TRUE
           Typed == {s \in SUBSET S : g[s] \in Nat}
           Free == {s \in SUBSET S : \A x \in s : g[s] = f[x] + g[s \ {x}]}
<1>1. /\ g = [s \in SUBSET S |-> g[s]]
      /\ g[{}] = 0
      /\ \A s \in SUBSET S : s # {} =>
            Pick(s) \in s /\ g[s] = f[Pick(s)] + g[s \ {Pick(s)}]
  <2>1. g = [s \in SUBSET S |->
                IF s = {} THEN 0 ELSE f[Pick(s)] + g[s \ {Pick(s)}]]
    BY DEF Folds
  <2>2. \A s \in SUBSET S : s # {} => Pick(s) \in s
    OBVIOUS
  <2> HIDE DEF Pick
  <2> QED
    BY <2>1, <2>2
<1> HIDE DEF Pick
<1>2. Typed = SUBSET S
  <2>1. {} \in Typed
    BY <1>1
  <2>2. ASSUME NEW s \in SUBSET S, s # {}, \A x \in s : s \ {x} \in Typed
        PROVE  s \in Typed
    <3>1. Pick(s) \in s /\ g[s] = f[Pick(s)] + g[s \ {Pick(s)}]
      BY <1>1, <2>2
    <3>2. g[s \ {Pick(s)}] \in Nat /\ f[Pick(s)] \in Nat
      BY <2>2, <3>1
    <3> QED
      BY <3>1, <3>2
  <2>3. Typed \in SUBSET SUBSET S
    OBVIOUS
  <2> HIDE DEF Typed
  <2> QED
    BY <2>1, <2>2, <2>3, SubsetInduction
<1>3. \A s \in SUBSET S : g[s] \in Nat
  BY <1>2
<1>4. Free = SUBSET S
  <2>1. {} \in Free
    OBVIOUS
  <2>2. ASSUME NEW s \in SUBSET S, s # {}, \A x \in s : s \ {x} \in Free
        PROVE  s \in Free
    <3> DEFINE y == Pick(s)
    <3>1. y \in s /\ g[s] = f[y] + g[s \ {y}]
      BY <1>1, <2>2
    <3> HIDE DEF y
    <3>2. SUFFICES ASSUME NEW x \in s, x # y PROVE g[s] = f[x] + g[s \ {x}]
      BY <3>1
    <3>3. (s \ {x}) \ {y} = (s \ {y}) \ {x}
      OBVIOUS
    <3>4. /\ g[s \ {y}] = f[x] + g[(s \ {y}) \ {x}]
          /\ g[s \ {x}] = f[y] + g[(s \ {x}) \ {y}]
      BY <2>2, <3>1, <3>2
    <3>5. f[x] \in Nat /\ f[y] \in Nat
      BY <3>1
    <3>6. g[(s \ {y}) \ {x}] \in Nat
      BY <1>3
    <3> QED
      BY <3>1, <3>3, <3>4, <3>5, <3>6
  <2>3. Free \in SUBSET SUBSET S
    OBVIOUS
  <2> HIDE DEF Free
  <2> QED
    BY <2>1, <2>2, <2>3, SubsetInduction
<1>5. \A s \in SUBSET S : \A x \in s : g[s] = f[x] + g[s \ {x}]
  BY <1>4
<1> QED
  BY <1>1, <1>3, <1>5 DEF IsSum

\* Total of a function with a finite domain is the sum over the whole domain.
LEMMA TotalIsSum ==
    ASSUME NEW S, IsFiniteSet(S), NEW f \in [S -> Nat]
    PROVE  \E g : IsSum(g, f) /\ Total(f) = g[S]
<1> DEFINE g == CHOOSE h : Folds(h, f)
<1>1. Total(f) = g[DOMAIN f]
  BY DEF Total, MapThenSumSet, MapThenFoldSet, Folds
<1>2. Folds(g, f)
  BY FoldExists
<1> HIDE DEF g
<1>3. IsSum(g, f)
  BY <1>2, FoldIsSum
<1> QED
  BY <1>1, <1>3

\* Sums over one set of two functions on it, the first below the second.
LEMMA SumsOrdered ==
    ASSUME NEW S, NEW f \in [S -> Nat], NEW g, IsSum(g, f),
           NEW R, NEW h \in [R -> Nat], NEW k, IsSum(k, h),
           NEW U, IsFiniteSet(U), U \subseteq S, U \subseteq R,
           \A x \in U : f[x] <= h[x]
    PROVE  g[U] <= k[U]
<1> DEFINE P == {s \in SUBSET U : g[s] <= k[s]}
<1>1. /\ \A s \in SUBSET S : g[s] \in Nat /\ \A x \in s : g[s] = f[x] + g[s \ {x}]
      /\ \A s \in SUBSET R : k[s] \in Nat /\ \A x \in s : k[s] = h[x] + k[s \ {x}]
      /\ g[{}] = 0 /\ k[{}] = 0
  BY DEF IsSum
<1>2. {} \in P
  BY <1>1
<1>3. ASSUME NEW s \in SUBSET U, s # {}, \A x \in s : s \ {x} \in P
      PROVE  s \in P
  <2>1. PICK x \in s : TRUE
    BY <1>3
  <2>2. g[s \ {x}] <= k[s \ {x}] /\ f[x] <= h[x]
    BY <1>3, <2>1
  <2>3. g[s] = f[x] + g[s \ {x}] /\ k[s] = h[x] + k[s \ {x}]
    BY <1>1, <2>1
  <2>4. {f[x], h[x], g[s \ {x}], k[s \ {x}]} \subseteq Nat
    <3>1. s \ {x} \in SUBSET S /\ s \ {x} \in SUBSET R
      OBVIOUS
    <3>2. x \in S /\ x \in R
      OBVIOUS
    <3> QED
      BY <1>1, <3>1, <3>2
  <2>5. g[s] <= k[s]
    BY <2>2, <2>3, <2>4
  <2> QED
    BY <2>5
<1>4. P \in SUBSET SUBSET U
  OBVIOUS
<1>5. P = SUBSET U
  <2> HIDE DEF P
  <2> QED
    BY <1>2, <1>3, <1>4, SubsetInduction
<1> QED
  BY <1>5

\* Sums over one set of two functions that agree on it.
LEMMA SumsAgree ==
    ASSUME NEW S, NEW f \in [S -> Nat], NEW g, IsSum(g, f),
           NEW R, NEW h \in [R -> Nat], NEW k, IsSum(k, h),
           NEW U, IsFiniteSet(U), U \subseteq S, U \subseteq R,
           \A x \in U : f[x] = h[x]
    PROVE  g[U] = k[U]
<1>1. \A x \in U : f[x] \in Nat /\ f[x] <= h[x] /\ h[x] <= f[x]
  <2> SUFFICES ASSUME NEW x \in U
               PROVE  f[x] \in Nat /\ f[x] <= h[x] /\ h[x] <= f[x]
    OBVIOUS
  <2>1. f[x] \in Nat /\ f[x] = h[x]
    OBVIOUS
  <2> QED
    BY <2>1
<1>2. g[U] <= k[U]
  BY <1>1, SumsOrdered
<1>3. k[U] <= g[U]
  BY <1>1, SumsOrdered
<1>4. g[U] \in Nat /\ k[U] \in Nat
  BY DEF IsSum
<1> QED
  BY <1>2, <1>3, <1>4

-----------------------------------------------------------------------------
(* What the proofs use of sums.                                             *)

\* A sum is a natural number, and no value exceeds it.
LEMMA TotalType ==
    ASSUME NEW S, IsFiniteSet(S), NEW f \in [S -> Nat]
    PROVE  Total(f) \in Nat /\ \A x \in S : f[x] <= Total(f)
<1>1. PICK g : IsSum(g, f) /\ Total(f) = g[S]
  BY TotalIsSum
<1>2. /\ \A s \in SUBSET S : g[s] \in Nat
      /\ \A x \in S : g[S] = f[x] + g[S \ {x}]
  BY <1>1 DEF IsSum
<1>3. ASSUME NEW x \in S PROVE f[x] <= Total(f)
  <2>1. f[x] \in Nat /\ g[S \ {x}] \in Nat /\ Total(f) = f[x] + g[S \ {x}]
    BY <1>1, <1>2
  <2> QED
    BY <2>1
<1> QED
  BY <1>1, <1>2, <1>3

\* A sum of smaller values is no greater.
LEMMA TotalMonotone ==
    ASSUME NEW S, IsFiniteSet(S), NEW f \in [S -> Nat], NEW h \in [S -> Nat],
           \A x \in S : f[x] <= h[x]
    PROVE  Total(f) <= Total(h)
<1>1. PICK g : IsSum(g, f) /\ Total(f) = g[S]
  BY TotalIsSum
<1>2. PICK k : IsSum(k, h) /\ Total(h) = k[S]
  BY TotalIsSum
<1>3. g[S] <= k[S]
  BY <1>1, <1>2, SumsOrdered
<1> QED
  BY <1>1, <1>2, <1>3

\* One element can be taken out of a sum.
LEMMA TotalWithout ==
    ASSUME NEW S, IsFiniteSet(S), NEW f \in [S -> Nat], NEW x \in S
    PROVE  /\ Total([y \in S \ {x} |-> f[y]]) \in Nat
           /\ Total(f) = f[x] + Total([y \in S \ {x} |-> f[y]])
<1> DEFINE R == S \ {x}
           h == [y \in R |-> f[y]]
<1>1. IsFiniteSet(R) /\ h \in [R -> Nat] /\ \A y \in R : f[y] = h[y]
  BY FS_RemoveElement
<1>2. R \subseteq S /\ R \subseteq R
  OBVIOUS
<1> HIDE DEF h
<1>3. PICK g : IsSum(g, f) /\ Total(f) = g[S]
  BY TotalIsSum
<1>4. g[S] = f[x] + g[R]
  BY <1>3 DEF IsSum
<1> HIDE DEF R
<1>5. PICK k : IsSum(k, h) /\ Total(h) = k[R]
  BY <1>1, TotalIsSum
<1>6. g[R] = k[R]
  BY <1>1, <1>2, <1>3, <1>5, SumsAgree
<1>7. Total(h) \in Nat
  BY <1>1, TotalType
<1>8. Total(h) \in Nat /\ Total(f) = f[x] + Total(h)
  BY <1>3, <1>4, <1>5, <1>6, <1>7
<1> QED
  BY <1>8 DEF h, R

\* A sum of zeros is zero.
LEMMA TotalZero ==
    ASSUME NEW S, IsFiniteSet(S), NEW f \in [S -> Nat], \A x \in S : f[x] = 0
    PROVE  Total(f) = 0
<1>1. PICK g : IsSum(g, f) /\ Total(f) = g[S]
  BY TotalIsSum
<1> DEFINE P == {s \in SUBSET S : g[s] = 0}
<1>2. /\ g[{}] = 0
      /\ \A s \in SUBSET S : \A x \in s : g[s] = f[x] + g[s \ {x}]
  BY <1>1 DEF IsSum
<1>3. {} \in P
  BY <1>2
<1>4. ASSUME NEW s \in SUBSET S, s # {}, \A x \in s : s \ {x} \in P
      PROVE  s \in P
  <2>1. PICK x \in s : TRUE
    BY <1>4
  <2>2. g[s] = 0 + 0
    BY <1>2, <1>4, <2>1
  <2> QED
    BY <2>2
<1>5. P \in SUBSET SUBSET S
  OBVIOUS
<1>6. P = SUBSET S
  <2> HIDE DEF P
  <2> QED
    BY <1>3, <1>4, <1>5, SubsetInduction
<1> QED
  BY <1>1, <1>6

\* A changed value changes the sum by as much.
LEMMA TotalChanged ==
    ASSUME NEW S, IsFiniteSet(S), NEW f \in [S -> Nat], NEW h \in [S -> Nat],
           NEW x \in S, \A y \in S \ {x} : h[y] = f[y]
    PROVE  /\ Total(f) \in Nat /\ Total(h) \in Nat
           /\ Total(h) + f[x] = Total(f) + h[x]
<1> DEFINE r(a) == Total([y \in S \ {x} |-> a[y]])
<1>1. [y \in S \ {x} |-> f[y]] = [y \in S \ {x} |-> h[y]]
  OBVIOUS
<1>2. r(f) = r(h)
  BY <1>1
<1>3. /\ r(f) \in Nat /\ Total(f) = f[x] + r(f)
      /\ r(h) \in Nat /\ Total(h) = h[x] + r(h)
  BY TotalWithout
<1> HIDE DEF r
<1>4. f[x] \in Nat /\ h[x] \in Nat
  OBVIOUS
<1> QED
  BY <1>2, <1>3, <1>4

\* The sum over a set with one more element.
LEMMA TotalWith ==
    ASSUME NEW S, IsFiniteSet(S), NEW f \in [S -> Nat],
           NEW x, x \notin S, NEW h \in [S \cup {x} -> Nat],
           \A y \in S : h[y] = f[y]
    PROVE  /\ IsFiniteSet(S \cup {x})
           /\ Total(f) \in Nat /\ Total(h) = Total(f) + h[x]
<1>1. IsFiniteSet(S \cup {x})
  BY FS_AddElement
<1>2. f = [y \in (S \cup {x}) \ {x} |-> h[y]]
  OBVIOUS
<1>3. x \in S \cup {x} /\ h[x] \in Nat
  OBVIOUS
<1>4. Total(f) \in Nat /\ Total(h) = h[x] + Total(f)
  BY <1>1, <1>2, <1>3, TotalWithout
<1> QED
  BY <1>1, <1>3, <1>4
================================================================================
