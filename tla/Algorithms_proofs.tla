--------------------------- MODULE Algorithms_proofs ---------------------------
(***************************************************************************)
(* Policy and Listing do what the reference definitions say on every       *)
(* input: patterns, values, policies, arguments and lists of any length.   *)
(***************************************************************************)
EXTENDS Algorithms, Sums_proofs, SequenceTheorems

\* An input of one of the four kinds.
IsCase == case \in GlobCases \cup RuleCases \cup PathCases \cup RowCases

\* The input does not change.
LEMMA CaseKept == Spec => []IsCase
<1>1. Init => IsCase
  BY DEF Init, IsCase
<1>2. IsCase /\ [Next]_case => IsCase'
  BY DEF IsCase, Next
<1> QED
  BY <1>1, <1>2, PTL DEF Spec

\* An input is of the kind that its field about names.
LEMMA Kinds ==
    ASSUME IsCase
    PROVE  /\ case.about = "glob" => case \in GlobCases
           /\ case.about = "rules" => case \in RuleCases
           /\ case.about = "path" => case \in PathCases
           /\ case.about = "rows" => case \in RowCases
<1>1. case \in GlobCases => case.about = "glob"
  BY DEF GlobCases
<1>2. case \in RuleCases => case.about = "rules"
  BY DEF RuleCases
<1>3. case \in PathCases => case.about = "path"
  BY DEF PathCases
<1>4. case \in RowCases => case.about = "rows"
  BY DEF RowCases
<1> QED
  BY <1>1, <1>2, <1>3, <1>4 DEF IsCase

\* Bounded texts are sequences.
LEMMA TextsAreSequences ==
    ASSUME NEW S, NEW n \in Nat
    PROVE  Texts(S, n) \subseteq Seq(S)
<1> SUFFICES ASSUME NEW k \in 0..n, NEW t \in [1..k -> S] PROVE t \in Seq(S)
  BY DEF Texts
<1> QED
  OBVIOUS

-----------------------------------------------------------------------------
(* Rules.                                                                    *)

\* Some rule of a policy with this action matches.
Some(config, input, action) ==
    \E i \in DOMAIN config.rules :
        config.rules[i].action = action /\ matches(config.rules[i].match, input)

\* Evaluate asks only whether there are such rules.
LEMMA EvaluateBySome ==
    ASSUME NEW config, NEW input
    PROVE  Evaluate(config, input) =
              IF Some(config, input, "deny") THEN "deny"
              ELSE IF Some(config, input, "require-approval") THEN "require-approval"
              ELSE config.defaults
  BY DEF Evaluate, Some

\* For policies of any length, a request that some deny rule matches is denied, the
\* order of the rules does not matter to Evaluate, and what Load accepts never yields a
\* third outcome.
THEOREM DenyNeverShadowed == Spec => []DenyIsNotShadowed
<1>1. ASSUME IsCase PROVE DenyIsNotShadowed
  <2> SUFFICES ASSUME case.about = "rules" PROVE DenyIsNotShadowed
    BY DEF DenyIsNotShadowed
  <2> DEFINE config == case.config
             input == case.input
             r == config.rules
             Ordered(p) == [config EXCEPT !.rules = [i \in 1..Len(r) |-> r[p[i]]]]
  <2>1. /\ config \in [version: {1}, defaults: {"deny", "require-approval", "allow"},
                       rules: Texts(Rules, MaxRules)]
        /\ r \in Seq(Rules)
    BY <1>1, Kinds, AlgorithmsAssumption, TextsAreSequences DEF RuleCases
  <2>2. ASSUME NEW p \in Orders(Len(r)) PROVE Evaluate(config, input) = Evaluate(Ordered(p), input)
    <3> DEFINE c == Ordered(p)
    <3>1. /\ c.rules = [i \in 1..Len(r) |-> r[p[i]]]
          /\ c.defaults = config.defaults
      BY <2>1
    <3>2. DOMAIN r = 1..Len(r) /\ DOMAIN c.rules = 1..Len(r)
      BY <2>1, <3>1
    <3>3. /\ \A i \in 1..Len(r) : p[i] \in 1..Len(r)
          /\ \A k \in 1..Len(r) : \E i \in 1..Len(r) : p[i] = k
      BY <2>2 DEF Orders
    <3>4. ASSUME NEW action PROVE Some(config, input, action) <=> Some(c, input, action)
      <4> HIDE DEF c, input, config
      <4>1. \A i \in 1..Len(r) : c.rules[i] = r[p[i]]
        BY <3>1
      <4>2. ASSUME NEW i \in 1..Len(r), r[i].action = action, matches(r[i].match, input)
            PROVE  Some(c, input, action)
        <5>1. PICK k \in 1..Len(r) : p[k] = i
          BY <3>3
        <5> QED
          BY <3>2, <4>1, <4>2, <5>1 DEF Some
      <4>3. ASSUME NEW i \in 1..Len(r), c.rules[i].action = action,
                   matches(c.rules[i].match, input)
            PROVE  Some(config, input, action)
        BY <3>2, <3>3, <4>1, <4>3 DEF Some
      <4> QED
        BY <3>2, <4>2, <4>3 DEF Some
    <3> HIDE DEF c, config, input
    <3>5. Evaluate(config, input) = Evaluate(c, input)
      BY <3>1, <3>4, EvaluateBySome
    <3> QED
      BY <3>5 DEF c
  <2>3. ASSUME Loadable(config) PROVE Evaluate(config, input) \in {"deny", "require-approval"}
    BY <2>3, EvaluateBySome DEF Loadable, validAction
  <2>4. ASSUME \E i \in DOMAIN r : r[i].action = "deny" /\ matches(r[i].match, input)
        PROVE  Evaluate(config, input) = "deny"
    BY <2>4, EvaluateBySome DEF Some
  <2> QED
    BY <2>2, <2>3, <2>4 DEF DenyIsNotShadowed
<1> QED
  BY <1>1, CaseKept, PTL

-----------------------------------------------------------------------------
(* Lists and retention.                                                      *)

\* The text order respects the seconds.
LEMMA TextsBySecond ==
    ASSUME NEW a \in Nat, NEW b \in Nat, ~TextLess(Formatted(a), Formatted(b))
    PROVE  b \div 4 <= a \div 4
<1> DEFINE x == Formatted(a)
           y == Formatted(b)
<1>1. /\ a \div 4 \in Nat /\ b \div 4 \in Nat
  OBVIOUS
<1>2. /\ Len(x) \in Nat /\ Len(x) >= 1 /\ x[1] = a \div 4
      /\ Len(y) \in Nat /\ Len(y) >= 1 /\ y[1] = b \div 4
  BY <1>1 DEF Formatted
<1> HIDE DEF x, y
<1>3. x[1] < y[1] => TextLess(x, y)
  BY <1>2 DEF TextLess
<1> QED
  BY <1>1, <1>2, <1>3 DEF x, y

\* What the first rows of a list are: no more than asked for, all of them when they
\* are not cut, and none that is left out is of a later second.
LEMMA FirstRows ==
    ASSUME NEW rows, IsFiniteSet(rows), \A r \in rows : r.created \in Nat,
           NEW n \in Nat, NEW kept \in FirstOf(rows, n)
    PROVE  /\ kept \subseteq rows /\ IsFiniteSet(kept)
           /\ Cardinality(rows) \in Nat /\ Cardinality(kept) \in Nat
           /\ Cardinality(kept) = IF Cardinality(rows) < n THEN Cardinality(rows) ELSE n
           /\ \A k \in kept, r \in rows \ kept : Second(r) <= Second(k)
<1> DEFINE size == IF Cardinality(rows) < n THEN Cardinality(rows) ELSE n
<1>1. /\ kept \in SUBSET rows /\ Cardinality(kept) = size
      /\ \A k \in kept, r \in rows \ kept :
            ~TextLess(Formatted(k.created), Formatted(r.created))
  BY DEF FirstOf, kSubset
<1>2. IsFiniteSet(kept) /\ Cardinality(rows) \in Nat /\ Cardinality(kept) \in Nat
  BY <1>1, FS_Subset, FS_CardinalityType
<1>3. ASSUME NEW k \in kept, NEW r \in rows \ kept PROVE Second(r) <= Second(k)
  <2>1. k.created \in Nat /\ r.created \in Nat
    BY <1>1
  <2>2. r.created \div 4 <= k.created \div 4
    BY <1>1, <2>1, TextsBySecond
  <2> QED
    BY <2>2 DEF Second
<1> QED
  BY <1>1, <1>2, <1>3

\* The rows of an input are finitely many.
LEMMA RowsFinite ==
    ASSUME case \in RowCases
    PROVE  /\ IsFiniteSet(Rows)
           /\ \A r \in Rows : r.created \in Nat
           /\ case.retain \in Nat /\ case.olderThan \in Nat
<1>1. /\ case.of \in [Ids -> [created: 0..MaxTime, class: {"pending", "unapproved", "other"}]]
      /\ case.retain \in Nat /\ case.olderThan \in Nat /\ MaxTime \in Nat
  BY AlgorithmsAssumption DEF RowCases
<1> DEFINE Row(i) == [id |-> i, created |-> case.of[i].created, class |-> case.of[i].class]
           f == [i \in Ids |-> Row(i)]
<1>2. Rows = {f[i] : i \in Ids}
  BY DEF Rows
<1>3. IsFiniteSet({f[i] : i \in Ids})
  <2>1. f \in Surjection(Ids, {f[i] : i \in Ids})
    BY DEF Surjection
  <2> HIDE DEF f
  <2> QED
    BY <2>1, AlgorithmsAssumption, FS_Surjection
<1>4. \A r \in Rows : r.created \in Nat
  BY <1>1 DEF Rows
<1> QED
  BY <1>1, <1>2, <1>3, <1>4

\* For lists of any length, pruning keeps the newest unapproved rows to the second, no
\* more than configured and none too old, and deletes a young one only for the count.
THEOREM NewestKept == Spec => []PruningKeepsTheNewest
<1>1. ASSUME IsCase PROVE PruningKeepsTheNewest
  <2> DEFINE U == {r \in Rows : r.class = "unapproved"}
             n == case.retain
             old == case.olderThan
  <2>1. SUFFICES ASSUME case.about = "rows", NEW gone \in PruneSelections(Rows, old, n)
                 PROVE  /\ Cardinality(U \ gone) <= n
                        /\ \A k \in U \ gone : k.created >= old
                        /\ \A g \in gone, k \in U \ gone : Second(g) <= Second(k)
                        /\ \A g \in gone : \/ g.created < old
                                            \/ Cardinality({r \in U : Second(r) >= Second(g)}) > n
    BY DEF PruningKeepsTheNewest
  <2>2. case \in RowCases
    BY <1>1, <2>1, Kinds
  <2>3. IsFiniteSet(U) /\ (\A r \in U : r.created \in Nat) /\ n \in Nat /\ old \in Nat
    BY <2>2, RowsFinite, FS_Subset
  <2>4. PICK kept \in FirstOf(U, n) : gone = {r \in U : r \notin kept \/ r.created < old}
    BY <2>1 DEF PruneSelections
  <2> HIDE DEF U, n, old
  <2>5. /\ kept \subseteq U /\ IsFiniteSet(kept)
        /\ Cardinality(U) \in Nat /\ Cardinality(kept) \in Nat
        /\ Cardinality(kept) = IF Cardinality(U) < n THEN Cardinality(U) ELSE n
        /\ \A k \in kept, r \in U \ kept : Second(r) <= Second(k)
    BY <2>3, <2>4, FirstRows
  <2>6. U \ gone = {r \in kept : ~(r.created < old)}
    BY <2>4, <2>5
  <2>7. Cardinality(U \ gone) <= n
    <3>1. Cardinality(U \ gone) <= Cardinality(kept) /\ Cardinality(U \ gone) \in Nat
      BY <2>5, <2>6, FS_Subset, FS_CardinalityType
    <3> QED
      BY <2>3, <2>5, <3>1
  <2>8. ASSUME NEW k \in U \ gone PROVE k.created >= old
    BY <2>3, <2>6
  <2>9. ASSUME NEW r \in U PROVE Second(r) \in Nat
    BY <2>3 DEF Second
  <2>10. ASSUME NEW g \in gone, NEW k \in U \ gone PROVE Second(g) <= Second(k)
    <3>1. CASE g \notin kept
      BY <2>4, <2>5, <2>6, <3>1
    <3>2. CASE g \in kept
      <4>1. /\ g.created < old /\ k.created >= old
            /\ g.created \in Nat /\ k.created \in Nat
        BY <2>3, <2>4, <2>8, <3>2
      <4> QED
        BY <2>3, <4>1 DEF Second
    <3> QED
      BY <3>1, <3>2
  <2>11. ASSUME NEW g \in gone, ~(g.created < old)
         PROVE  Cardinality({r \in U : Second(r) >= Second(g)}) > n
    <3> DEFINE W == {r \in U : Second(r) >= Second(g)}
    <3>1. g \in U /\ g \notin kept
      BY <2>4, <2>11
    <3>2. kept \cup {g} \subseteq W
      BY <2>5, <2>9, <3>1
    <3>3. IsFiniteSet(W) /\ W \subseteq U
      BY <2>3, FS_Subset
    <3> HIDE DEF W
    <3>4. /\ IsFiniteSet(kept \cup {g})
          /\ Cardinality(kept \cup {g}) = Cardinality(kept) + 1
      BY <2>5, <3>1, FS_AddElement
    <3>5. /\ Cardinality(W) \in Nat /\ Cardinality(kept \cup {g}) <= Cardinality(W)
          /\ Cardinality(W) <= Cardinality(U)
      BY <2>3, <3>2, <3>3, FS_Subset, FS_CardinalityType
    <3>6. Cardinality(W) > n
      BY <2>3, <2>5, <3>4, <3>5
    <3> QED
      BY <3>6 DEF W
  <2> QED
    BY <2>7, <2>8, <2>10, <2>11
<1> QED
  BY <1>1, CaseKept, PTL

\* For lists of any length, a list that is cut shows the newest requests to the second,
\* and a prefix that selects a request is unambiguous when the list is not cut.
THEOREM NewestShown == Spec => []ListsShowTheNewest
<1>1. ASSUME IsCase PROVE ListsShowTheNewest
  <2> DEFINE Asked(h) == {r \in Rows : h \/ r.class = "pending"}
             n == case.retain
  <2>1. SUFFICES ASSUME case.about = "rows", NEW h \in BOOLEAN, NEW listed \in recent(Rows, n, h)
                 PROVE  /\ listed \subseteq Asked(h)
                        /\ \A l \in listed, r \in Asked(h) \ listed : Second(r) <= Second(l)
                        /\ \A prefix \in {i[1] : i \in Ids}, r \in Rows :
                              r \in selectRequest(listed, prefix) /\ Cardinality(Asked(h)) <= n =>
                                  \A q \in Asked(h) : q.id[1] = prefix => q = r
    BY DEF ListsShowTheNewest
  <2> DEFINE S == Asked(h)
  <2>2. case \in RowCases
    BY <1>1, <2>1, Kinds
  <2>3. IsFiniteSet(S) /\ (\A r \in S : r.created \in Nat) /\ n \in Nat
    BY <2>2, RowsFinite, FS_Subset
  <2>4. listed \in FirstOf(S, n)
    BY <2>1 DEF recent
  <2> HIDE DEF S, n
  <2>5. /\ listed \subseteq S /\ IsFiniteSet(listed)
        /\ Cardinality(S) \in Nat /\ Cardinality(listed) \in Nat
        /\ Cardinality(listed) = IF Cardinality(S) < n THEN Cardinality(S) ELSE n
        /\ \A l \in listed, r \in S \ listed : Second(r) <= Second(l)
    BY <2>3, <2>4, FirstRows
  <2>6. ASSUME NEW prefix, NEW r, r \in selectRequest(listed, prefix), Cardinality(S) <= n,
               NEW q \in S, q.id[1] = prefix
        PROVE  q = r
    <3>1. Cardinality(listed) = Cardinality(S)
      BY <2>3, <2>5, <2>6
    <3>2. listed = S
      BY <2>3, <2>5, <3>1, FS_Subset
    <3> DEFINE found == {x \in listed : x.id[1] = prefix}
    <3>3. r \in found /\ Cardinality(found) = 1
      BY <2>6 DEF selectRequest
    <3>4. IsFiniteSet(found)
      BY <2>5, FS_Subset
    <3>5. q \in found
      BY <2>6, <3>2
    <3> HIDE DEF found
    <3>6. PICK x : found = {x}
      BY <3>3, <3>4, FS_Singleton
    <3> QED
      BY <3>3, <3>5, <3>6
  <2> QED
    BY <2>5, <2>6 DEF S
<1> QED
  BY <1>1, CaseKept, PTL
-----------------------------------------------------------------------------
(* Recursion over 0..n: what is defined from the value before exists.        *)

\* Induction up to n.
LEMMA UpTo ==
    ASSUME NEW n \in Nat, NEW T, 0 \in T, \A i \in 1..n : i - 1 \in T => i \in T
    PROVE  \A i \in 0..n : i \in T
<1> DEFINE U == {k \in Nat : k <= n => k \in T}
<1>1. 0 \in U
  OBVIOUS
<1>2. ASSUME NEW k \in U PROVE k + 1 \in U
  <2>1. k \in Nat /\ k + 1 \in Nat
    OBVIOUS
  <2>2. ASSUME k + 1 <= n PROVE k + 1 \in T
    <3>1. k \in T
      BY <2>1, <2>2
    <3>2. k + 1 \in 1..n /\ (k + 1) - 1 = k
      BY <2>1, <2>2
    <3> QED
      BY <3>1, <3>2
  <2> QED
    BY <2>1, <2>2
<1>3. U = Nat
  <2>1. U \in SUBSET Nat
    OBVIOUS
  <2> HIDE DEF U
  <2> QED
    BY <1>1, <1>2, <2>1, SetInduction
<1>4. \A i \in 0..n : i \in Nat /\ i <= n
  OBVIOUS
<1> QED
  BY <1>3, <1>4

\* A function whose values follow from the value before exists.
LEMMA Recursion ==
    ASSUME NEW A, NEW a \in A, NEW n \in Nat, NEW G \in [1..n -> [A -> A]]
    PROVE  \E f \in [0..n -> A] : f[0] = a /\ \A i \in 1..n : f[i] = G[i][f[i - 1]]
<1> DEFINE Solves(f, k) == /\ f \in [0..k -> A] /\ f[0] = a
                           /\ \A i \in 1..k : f[i] = G[i][f[i - 1]]
           T == {k \in 0..n : \E f : Solves(f, k)}
<1>1. 0 \in T
  <2>1. Solves([i \in 0..0 |-> a], 0)
    OBVIOUS
  <2> HIDE DEF Solves
  <2> QED
    BY <2>1
<1>2. ASSUME NEW k \in 1..n, k - 1 \in T PROVE k \in T
  <2>1. PICK f : Solves(f, k - 1)
    BY <1>2
  <2> DEFINE g == [i \in 0..k |-> IF i = k THEN G[k][f[k - 1]] ELSE f[i]]
  <2>2. f[k - 1] \in A /\ G[k] \in [A -> A] /\ G[k][f[k - 1]] \in A
    BY <2>1
  <2>3. g \in [0..k -> A]
    BY <2>1, <2>2
  <2>4. g[0] = a
    BY <2>1
  <2>5. ASSUME NEW i \in 1..k PROVE g[i] = G[i][g[i - 1]]
    <3>1. CASE i = k
      BY <3>1
    <3>2. CASE i # k
      <4>1. i \in 1..(k - 1) /\ i - 1 # k /\ i - 1 \in 0..k
        BY <3>2
      <4> QED
        BY <2>1, <3>2, <4>1
    <3> QED
      BY <3>1, <3>2
  <2>6. Solves(g, k)
    BY <2>3, <2>4, <2>5
  <2> HIDE DEF Solves
  <2> QED
    BY <2>6
<1>3. n \in T
  <2> HIDE DEF T
  <2>1. \A i \in 0..n : i \in T
    BY <1>1, <1>2, UpTo
  <2> QED
    BY <2>1
<1> QED
  BY <1>3

-----------------------------------------------------------------------------
(* Paths.                                                                    *)

\* Paths of any length.
Paths == Seq(Components)

\* One step of Clean.
Cleaned(before, x) ==
    IF x = "." THEN before ELSE IF x = ".." THEN Up(before) ELSE Append(before, x)

\* The directory of a path is a path.
LEMMA UpIsPath == ASSUME NEW p \in Paths PROVE Up(p) \in Paths
  BY DEF Up, Paths

\* Clean makes paths of paths.
LEMMA CleanedIsPath ==
    ASSUME NEW p \in Paths, NEW x \in Components PROVE Cleaned(p, x) \in Paths
  BY UpIsPath DEF Cleaned, Paths

\* Clean goes through a path component by component.
LEMMA CleanSteps ==
    ASSUME NEW p \in Paths
    PROVE  /\ CleanUpTo(p) \in [0..Len(p) -> Paths]
           /\ CleanUpTo(p)[0] = <<>>
           /\ \A i \in 1..Len(p) : CleanUpTo(p)[i] = Cleaned(CleanUpTo(p)[i - 1], p[i])
<1> DEFINE n == Len(p)
           E(f) == [i \in 0..n |-> IF i = 0 THEN <<>>
                                   ELSE IF p[i] = "." THEN f[i - 1]
                                   ELSE IF p[i] = ".." THEN Up(f[i - 1])
                                   ELSE Append(f[i - 1], p[i])]
           c == CleanUpTo(p)
           G == [i \in 1..n |-> [q \in Paths |-> Cleaned(q, p[i])]]
<1>1. n \in Nat /\ <<>> \in Paths /\ \A i \in 1..n : p[i] \in Components
  BY DEF Paths
<1>2. G \in [1..n -> [Paths -> Paths]]
  BY <1>1, CleanedIsPath
<1>3. PICK h \in [0..n -> Paths] : h[0] = <<>> /\ \A i \in 1..n : h[i] = G[i][h[i - 1]]
  <2> HIDE DEF G, n
  <2> QED
    BY <1>1, <1>2, Recursion
<1>4. ASSUME NEW i \in 1..n PROVE h[i] = Cleaned(h[i - 1], p[i])
  <2>1. i - 1 \in 0..n
    BY <1>1
  <2>2. h[i - 1] \in Paths
    BY <2>1
  <2>3. G[i] = [q \in Paths |-> Cleaned(q, p[i])]
    OBVIOUS
  <2>4. G[i][h[i - 1]] = Cleaned(h[i - 1], p[i])
    BY <2>2, <2>3, Zenon
  <2> QED
    BY <1>3, <2>4
<1>5. h = E(h)
  <2>1. ASSUME NEW i \in 0..n PROVE h[i] = E(h)[i]
    <3>1. CASE i = 0
      BY <1>3, <3>1
    <3>2. CASE i \in 1..n
      <4>1. i # 0 /\ h[i] = Cleaned(h[i - 1], p[i])
        BY <1>4, <3>2
      <4>2. E(h)[i] = IF p[i] = "." THEN h[i - 1]
                      ELSE IF p[i] = ".." THEN Up(h[i - 1])
                      ELSE Append(h[i - 1], p[i])
        BY <4>1
      <4> HIDE DEF E
      <4> QED
        BY <4>1, <4>2 DEF Cleaned
    <3> QED
      BY <1>1, <3>1, <3>2
  <2> QED
    BY <2>1
<1>6. c = CHOOSE f : f = E(f)
  BY DEF CleanUpTo
<1>7. c = E(c)
  BY <1>5, <1>6
<1> HIDE DEF c
<1>a. \A i \in 0..n : c[i] = E(c)[i]
  BY <1>7
<1>8. /\ c[0] = <<>>
      /\ \A i \in 1..n : c[i] = Cleaned(c[i - 1], p[i])
  BY <1>1, <1>a DEF Cleaned
<1>9. \A i \in 0..n : i \in {k \in 0..n : c[k] \in Paths}
  <2> DEFINE T == {k \in 0..n : c[k] \in Paths}
  <2>1. 0 \in T
    BY <1>1, <1>8
  <2>2. ASSUME NEW i \in 1..n, i - 1 \in T PROVE i \in T
    BY <1>1, <1>8, <2>2, CleanedIsPath
  <2> HIDE DEF T, n
  <2>3. \A i \in 0..n : i \in T
    BY <1>1, <2>1, <2>2, UpTo
  <2> QED
    BY <2>3 DEF T
<1>10. c \in [0..n -> Paths]
  <2>1. c = [i \in 0..n |-> c[i]]
    BY <1>7
  <2> QED
    BY <1>9, <2>1
<1> QED
  BY <1>8, <1>10 DEF c

\* Links lead to paths.
LEMMA FollowIsPath == ASSUME NEW p \in Paths PROVE Follow(p) \in Paths
  BY AlgorithmsAssumption DEF Follow, Paths

\* Links are followed component by component.
LEMMA FollowSteps ==
    ASSUME NEW p \in Paths
    PROVE  /\ FollowUpTo(p) \in [0..Len(p) -> Paths]
           /\ FollowUpTo(p)[0] = <<>>
           /\ \A i \in 1..Len(p) :
                 FollowUpTo(p)[i] = Follow(Append(FollowUpTo(p)[i - 1], p[i]))
<1> DEFINE n == Len(p)
           E(f) == [i \in 0..n |-> IF i = 0 THEN <<>> ELSE Follow(Append(f[i - 1], p[i]))]
           c == FollowUpTo(p)
           G == [i \in 1..n |-> [q \in Paths |-> Follow(Append(q, p[i]))]]
<1>1. n \in Nat /\ <<>> \in Paths /\ \A i \in 1..n : p[i] \in Components
  BY DEF Paths
<1>a. \A q \in Paths : \A i \in 1..n : Follow(Append(q, p[i])) \in Paths
  <2>1. \A q \in Paths : \A i \in 1..n : Append(q, p[i]) \in Paths
    BY <1>1 DEF Paths
  <2> QED
    BY <2>1, FollowIsPath
<1>2. G \in [1..n -> [Paths -> Paths]]
  BY <1>a
<1>3. PICK h \in [0..n -> Paths] : h[0] = <<>> /\ \A i \in 1..n : h[i] = G[i][h[i - 1]]
  <2> HIDE DEF G, n
  <2> QED
    BY <1>1, <1>2, Recursion
<1>4. ASSUME NEW i \in 1..n PROVE h[i] = Follow(Append(h[i - 1], p[i]))
  <2>1. i - 1 \in 0..n
    BY <1>1
  <2>2. h[i - 1] \in Paths
    BY <2>1
  <2>3. G[i] = [q \in Paths |-> Follow(Append(q, p[i]))]
    OBVIOUS
  <2>4. G[i][h[i - 1]] = Follow(Append(h[i - 1], p[i]))
    BY <2>2, <2>3, Zenon
  <2> QED
    BY <1>3, <2>4
<1>5. h = E(h)
  BY <1>1, <1>3, <1>4
<1>6. c = CHOOSE f : f = E(f)
  BY DEF FollowUpTo
<1>7. c = E(c)
  BY <1>5, <1>6
<1> HIDE DEF c
<1>8. /\ c[0] = <<>>
      /\ \A i \in 1..n : c[i] = Follow(Append(c[i - 1], p[i]))
  BY <1>1, <1>7
<1>9. \A i \in 0..n : i \in {k \in 0..n : c[k] \in Paths}
  <2> DEFINE T == {k \in 0..n : c[k] \in Paths}
  <2>1. 0 \in T
    BY <1>1, <1>8
  <2>2. ASSUME NEW i \in 1..n, i - 1 \in T PROVE i \in T
    BY <1>1, <1>a, <1>8, <2>2
  <2> HIDE DEF T, n
  <2>3. \A i \in 0..n : i \in T
    BY <1>1, <2>1, <2>2, UpTo
  <2> QED
    BY <2>3 DEF T
<1>10. c \in [0..n -> Paths]
  <2>1. c = [i \in 0..n |-> c[i]]
    BY <1>7
  <2> QED
    BY <1>9, <2>1
<1> QED
  BY <1>8, <1>10 DEF c

\* Where a walk is.
Positions == [at: Paths, linked: BOOLEAN, lost: BOOLEAN]

\* One step of a walk.
Step(w, x) ==
    CASE x = "." -> w
      [] x = ".." -> [w EXCEPT !.at = Up(w.at), !.lost = w.lost \/ w.linked]
      [] OTHER -> [at |-> Follow(Append(w.at, x)),
                   linked |-> w.linked \/ Append(w.at, x) \in DOMAIN Links,
                   lost |-> w.lost \/ ~Present(Append(w.at, x))]

\* A step leads to a position, by the component that is taken.
LEMMA StepIsPosition ==
    ASSUME NEW w \in Positions, NEW x \in Components
    PROVE  /\ Step(w, x) \in Positions
           /\ x = "." => Step(w, x) = w
           /\ x = ".." => /\ Step(w, x).at = Up(w.at) /\ Step(w, x).linked = w.linked
                          /\ Step(w, x).lost = (w.lost \/ w.linked)
           /\ x \notin {".", ".."} =>
                 /\ Step(w, x).at = Follow(Append(w.at, x))
                 /\ Step(w, x).linked = (w.linked \/ Append(w.at, x) \in DOMAIN Links)
                 /\ Step(w, x).lost = (w.lost \/ ~Present(Append(w.at, x)))
<1>1. w.at \in Paths /\ w.linked \in BOOLEAN /\ w.lost \in BOOLEAN
  BY DEF Positions
<1>2. Up(w.at) \in Paths /\ Follow(Append(w.at, x)) \in Paths
  <2>1. Append(w.at, x) \in Paths
    BY <1>1 DEF Paths
  <2> QED
    BY <1>1, <2>1, UpIsPath, FollowIsPath
<1>3. CASE x = "."
  BY <1>3 DEF Step
<1>4. CASE x = ".."
  <2>1. Step(w, x) = [w EXCEPT !.at = Up(w.at), !.lost = w.lost \/ w.linked]
    BY <1>4 DEF Step
  <2>2. Step(w, x) = [at |-> Up(w.at), linked |-> w.linked, lost |-> w.lost \/ w.linked]
    BY <2>1 DEF Positions
  <2> QED
    BY <1>1, <1>2, <1>4, <2>2 DEF Positions
<1>5. CASE x \notin {".", ".."}
  <2>1. Step(w, x) = [at |-> Follow(Append(w.at, x)),
                      linked |-> w.linked \/ Append(w.at, x) \in DOMAIN Links,
                      lost |-> w.lost \/ ~Present(Append(w.at, x))]
    BY <1>5 DEF Step
  <2> QED
    BY <1>1, <1>2, <1>5, <2>1 DEF Positions
<1> QED
  BY <1>3, <1>4, <1>5

\* A walk goes component by component.
LEMMA WalkSteps ==
    ASSUME NEW d \in Paths, NEW p \in Paths
    PROVE  /\ Walk(d, p) \in [0..Len(p) -> Positions]
           /\ Walk(d, p)[0] = [at |-> d, linked |-> FALSE, lost |-> FALSE]
           /\ \A i \in 1..Len(p) : Walk(d, p)[i] = Step(Walk(d, p)[i - 1], p[i])
<1> DEFINE n == Len(p)
           first == [at |-> d, linked |-> FALSE, lost |-> FALSE]
           E(f) == [i \in 0..n |-> IF i = 0 THEN first ELSE Step(f[i - 1], p[i])]
           c == Walk(d, p)
           G == [i \in 1..n |-> [q \in Positions |-> Step(q, p[i])]]
<1>1. n \in Nat /\ first \in Positions /\ \A i \in 1..n : p[i] \in Components
  BY DEF Paths, Positions
<1>2. G \in [1..n -> [Positions -> Positions]]
  BY <1>1, StepIsPosition
<1> HIDE DEF first
<1>3. PICK h \in [0..n -> Positions] : h[0] = first /\ \A i \in 1..n : h[i] = G[i][h[i - 1]]
  <2>1. n \in Nat /\ first \in Positions
    BY <1>1
  <2> HIDE DEF G, n
  <2> QED
    BY <1>2, <2>1, Recursion
<1>4. ASSUME NEW i \in 1..n PROVE h[i] = Step(h[i - 1], p[i])
  <2>1. i - 1 \in 0..n
    BY <1>1
  <2>2. h[i - 1] \in Positions
    BY <2>1
  <2>3. G[i] = [q \in Positions |-> Step(q, p[i])]
    OBVIOUS
  <2>4. G[i][h[i - 1]] = Step(h[i - 1], p[i])
    BY <2>2, <2>3, Zenon
  <2> QED
    BY <1>3, <2>4
<1>5. h = E(h)
  BY <1>1, <1>3, <1>4
<1>6. c = CHOOSE f : f = E(f)
  BY DEF Walk, Step, first
<1>7. c = E(c)
  BY <1>5, <1>6
<1> HIDE DEF c
<1>8. /\ c[0] = first
      /\ \A i \in 1..n : c[i] = Step(c[i - 1], p[i])
  BY <1>1, <1>7
<1>9. \A i \in 0..n : i \in {k \in 0..n : c[k] \in Positions}
  <2> DEFINE T == {k \in 0..n : c[k] \in Positions}
  <2>1. 0 \in T
    BY <1>1, <1>8
  <2>2. ASSUME NEW i \in 1..n, i - 1 \in T PROVE i \in T
    BY <1>1, <1>8, <2>2, StepIsPosition
  <2> HIDE DEF T, n
  <2>3. \A i \in 0..n : i \in T
    BY <1>1, <2>1, <2>2, UpTo
  <2> QED
    BY <2>3 DEF T
<1>10. c \in [0..n -> Positions]
  <2>1. c = [i \in 0..n |-> c[i]]
    BY <1>7
  <2> QED
    BY <1>9, <2>1
<1> QED
  BY <1>8, <1>10 DEF c, first

\* Every part of the path exists and is not a link.
Unlinked(p) == \A k \in 1..Len(p) : SubSeq(p, 1, k) \in Files \ DOMAIN Links

\* Such a path leads to itself.
LEMMA UnlinkedStays ==
    ASSUME NEW p \in Paths, Unlinked(p)
    PROVE  Exists(p) /\ FollowUpTo(p)[Len(p)] = p
<1> DEFINE n == Len(p)
           f == FollowUpTo(p)
           T == {i \in 0..n : f[i] = SubSeq(p, 1, i)}
<1>1. n \in Nat /\ f[0] = <<>> /\ \A i \in 1..n : f[i] = Follow(Append(f[i - 1], p[i]))
  BY FollowSteps DEF Paths
<1>2. \A i \in 1..n : Append(SubSeq(p, 1, i - 1), p[i]) = SubSeq(p, 1, i)
  BY DEF Paths
<1>3. \A i \in 1..n : Follow(SubSeq(p, 1, i)) = SubSeq(p, 1, i) /\ SubSeq(p, 1, i) \in Files
  BY DEF Unlinked, Follow
<1> HIDE DEF f
<1>4. 0 \in T
  <2>1. SubSeq(p, 1, 0) = <<>>
    BY SubSeqEmpty
  <2>2. f[0] = SubSeq(p, 1, 0) /\ 0 \in 0..n
    BY <1>1, <2>1
  <2> QED
    BY <2>2
<1>5. ASSUME NEW i \in 1..n, i - 1 \in T PROVE i \in T
  <2>1. f[i - 1] = SubSeq(p, 1, i - 1) /\ i \in 0..n
    BY <1>1, <1>5
  <2>2. f[i] = Follow(Append(f[i - 1], p[i]))
    BY <1>1
  <2>3. f[i] = Follow(SubSeq(p, 1, i))
    BY <1>2, <2>1, <2>2
  <2>4. f[i] = SubSeq(p, 1, i)
    BY <1>3, <2>3
  <2> QED
    BY <2>1, <2>4
<1>6. \A i \in 0..n : i \in T
  <2> HIDE DEF T, n
  <2> QED
    BY <1>1, <1>4, <1>5, UpTo
<1>7. \A i \in 0..n : f[i] = SubSeq(p, 1, i)
  BY <1>6
<1>8. ASSUME NEW i \in 1..n PROVE Present(Append(f[i - 1], p[i]))
  <2>1. i - 1 \in 0..n
    BY <1>1
  <2>2. Append(f[i - 1], p[i]) = SubSeq(p, 1, i)
    BY <1>2, <1>7, <2>1
  <2>3. Present(SubSeq(p, 1, i))
    BY <1>3 DEF Present
  <2> QED
    BY <2>2, <2>3
<1>9. SubSeq(p, 1, n) = p
  BY DEF Paths
<1> QED
  BY <1>1, <1>7, <1>8, <1>9 DEF Exists, f

\* A component more leads on from where the path leads.
LEMMA FollowAppend ==
    ASSUME NEW p \in Paths, NEW x \in Components
    PROVE  LET q == Append(p, x)
               end == FollowUpTo(p)[Len(p)]
           IN  /\ FollowUpTo(q)[Len(q)] = Follow(Append(end, x))
               /\ Exists(p) /\ Present(Append(end, x)) => Exists(q)
<1> DEFINE q == Append(p, x)
           n == Len(p)
           f == FollowUpTo(p)
           g == FollowUpTo(q)
           T == {i \in 0..n : g[i] = f[i]}
<1>1. /\ q \in Paths /\ n \in Nat /\ Len(q) = n + 1 /\ q[n + 1] = x
      /\ \A i \in 1..n : q[i] = p[i]
  BY DEF Paths
<1>2. /\ f[0] = <<>> /\ \A i \in 1..n : f[i] = Follow(Append(f[i - 1], p[i]))
      /\ g[0] = <<>> /\ \A i \in 1..(n + 1) : g[i] = Follow(Append(g[i - 1], q[i]))
  <2> HIDE DEF q
  <2> QED
    BY <1>1, FollowSteps
<1> HIDE DEF f, g, q
<1>3. 0 \in T
  BY <1>1, <1>2
<1>4. ASSUME NEW i \in 1..n, i - 1 \in T PROVE i \in T
  <2>1. i \in 1..(n + 1)
    BY <1>1
  <2> QED
    BY <1>1, <1>2, <1>4, <2>1
<1>5. \A i \in 0..n : i \in T
  <2> HIDE DEF T, n
  <2> QED
    BY <1>1, <1>3, <1>4, UpTo
<1>6. \A i \in 0..n : g[i] = f[i]
  BY <1>5
<1>7. g[n + 1] = Follow(Append(f[n], x))
  <2>1. n + 1 \in 1..(n + 1) /\ (n + 1) - 1 = n /\ n \in 0..n
    BY <1>1
  <2> QED
    BY <1>1, <1>2, <1>6, <2>1
<1>8. ASSUME Exists(p), Present(Append(f[n], x)) PROVE Exists(q)
  <2> SUFFICES ASSUME NEW i \in 1..(n + 1) PROVE Present(Append(g[i - 1], q[i]))
    BY <1>1 DEF Exists, g
  <2>1. CASE i = n + 1
    <3>1. i - 1 = n /\ n \in 0..n
      BY <1>1, <2>1
    <3> QED
      BY <1>1, <1>6, <1>8, <2>1, <3>1
  <2>2. CASE i \in 1..n
    <3>1. i - 1 \in 0..n
      BY <1>1, <2>2
    <3>2. Present(Append(f[i - 1], p[i]))
      BY <1>8, <2>2 DEF Exists, f
    <3> QED
      BY <1>1, <1>6, <2>2, <3>1, <3>2
  <2> QED
    BY <1>1, <2>1, <2>2
<1> QED
  BY <1>1, <1>7, <1>8 DEF f, g, q

\* The parts of a path are those of a longer one.
LEMMA PartOfPath ==
    ASSUME NEW p \in Paths, NEW n \in 0..Len(p), NEW k \in 1..n
    PROVE  /\ SubSeq(p, 1, n) \in Paths /\ Len(SubSeq(p, 1, n)) = n
           /\ SubSeq(SubSeq(p, 1, n), 1, k) = SubSeq(p, 1, k)
<1>1. SubSeq(p, 1, n) \in Paths /\ Len(SubSeq(p, 1, n)) = n
  BY DEF Paths
<1>2. SubSeq(SubSeq(p, 1, n), 1, k) \in Seq(Components) /\ SubSeq(p, 1, k) \in Seq(Components)
  BY DEF Paths
<1>3. Len(SubSeq(SubSeq(p, 1, n), 1, k)) = k /\ Len(SubSeq(p, 1, k)) = k
  BY DEF Paths
<1>4. \A i \in 1..k : SubSeq(SubSeq(p, 1, n), 1, k)[i] = SubSeq(p, 1, k)[i]
  BY DEF Paths
<1> QED
  BY <1>1, <1>2, <1>3, <1>4, SeqEqual

\* The directory of a path without links has none.
LEMMA UnlinkedUp ==
    ASSUME NEW p \in Paths, Unlinked(p)
    PROVE  Unlinked(Up(p))
<1>1. CASE p = <<>>
  BY <1>1 DEF Up, Unlinked
<1>2. CASE p # <<>>
  <2> DEFINE n == Len(p) - 1
  <2>1. n \in 0..Len(p) /\ Up(p) = SubSeq(p, 1, n)
    BY <1>2 DEF Up, Paths
  <2> HIDE DEF n
  <2> SUFFICES ASSUME NEW k \in 1..Len(Up(p))
               PROVE  SubSeq(Up(p), 1, k) \in Files \ DOMAIN Links
    BY DEF Unlinked
  <2>2. Len(Up(p)) = n
    BY <2>1 DEF Paths
  <2>3. SubSeq(Up(p), 1, k) = SubSeq(p, 1, k) /\ k \in 1..Len(p)
    BY <2>1, <2>2, PartOfPath DEF Paths
  <2> QED
    BY <2>3 DEF Unlinked
<1> QED
  BY <1>1, <1>2

\* Nor has what is in such a directory and is no link.
LEMMA UnlinkedAppend ==
    ASSUME NEW p \in Paths, NEW x \in Components, Unlinked(p),
           Append(p, x) \in Files \ DOMAIN Links
    PROVE  Unlinked(Append(p, x))
<1> DEFINE q == Append(p, x)
<1>1. q \in Paths /\ Len(q) = Len(p) + 1 /\ Len(p) \in Nat
  BY DEF Paths
<1> SUFFICES ASSUME NEW k \in 1..Len(q) PROVE SubSeq(q, 1, k) \in Files \ DOMAIN Links
  BY DEF Unlinked
<1>2. CASE k = Len(q)
  <2>1. SubSeq(q, 1, k) = q
    BY <1>1, <1>2, SubSeqFull DEF Paths
  <2> QED
    BY <2>1
<1>3. CASE k # Len(q)
  <2>1. k \in 1..Len(p)
    BY <1>1, <1>3
  <2>2. SubSeq(q, 1, k) = SubSeq(p, 1, k)
    <3>1. SubSeq(q, 1, k) \in Seq(Components) /\ SubSeq(p, 1, k) \in Seq(Components)
      BY <1>1, <2>1 DEF Paths
    <3>2. Len(SubSeq(q, 1, k)) = k /\ Len(SubSeq(p, 1, k)) = k
      BY <1>1, <2>1 DEF Paths
    <3>3. \A i \in 1..k : SubSeq(q, 1, k)[i] = SubSeq(p, 1, k)[i]
      BY <1>1, <2>1 DEF Paths
    <3> QED
      BY <3>1, <3>2, <3>3, SeqEqual
  <2> QED
    BY <2>1, <2>2 DEF Unlinked
<1> QED
  BY <1>2, <1>3

\* What a cleaned path has to do with where the kernel is: as long as the kernel is
\* not lost the path exists and leads there, and before the first link it is the
\* very path, so that Clean may cut its last component.
Agrees(w, q) ==
    ~w.lost => /\ Exists(q)
               /\ FollowUpTo(q)[Len(q)] = w.at
               /\ ~w.linked => q = w.at /\ Unlinked(q)

\* A component more keeps them in agreement.
LEMMA AgreesStep ==
    ASSUME NEW w \in Positions, NEW q \in Paths, NEW x \in Components, Agrees(w, q)
    PROVE  Agrees(Step(w, x), Cleaned(q, x))
<1> DEFINE v == Step(w, x)
<1>1. w.at \in Paths /\ w.linked \in BOOLEAN /\ w.lost \in BOOLEAN
  BY DEF Positions
<1>2. CASE x = "."
  BY <1>2, StepIsPosition DEF Cleaned
<1>3. CASE x = ".."
  <2>1. v.at = Up(w.at) /\ v.linked = w.linked /\ v.lost = (w.lost \/ w.linked)
    BY <1>3, StepIsPosition
  <2>2. Cleaned(q, x) = Up(q)
    BY <1>3 DEF Cleaned
  <2> HIDE DEF v
  <2>3. ASSUME ~v.lost PROVE /\ Exists(Up(q)) /\ FollowUpTo(Up(q))[Len(Up(q))] = v.at
                             /\ Up(q) = v.at /\ Unlinked(Up(q))
    <3>1. ~w.lost /\ ~w.linked
      BY <1>1, <2>1, <2>3
    <3>2. q = w.at /\ Unlinked(q)
      BY <3>1 DEF Agrees
    <3>3. Up(q) \in Paths /\ Unlinked(Up(q))
      BY <3>2, UpIsPath, UnlinkedUp
    <3>4. Exists(Up(q)) /\ FollowUpTo(Up(q))[Len(Up(q))] = Up(q)
      BY <3>3, UnlinkedStays
    <3> QED
      BY <2>1, <3>2, <3>3, <3>4
  <2> QED
    BY <2>2, <2>3 DEF Agrees, v
<1>4. CASE x \notin {".", ".."}
  <2>1. /\ v.at = Follow(Append(w.at, x))
        /\ v.linked = (w.linked \/ Append(w.at, x) \in DOMAIN Links)
        /\ v.lost = (w.lost \/ ~Present(Append(w.at, x)))
    BY <1>4, StepIsPosition
  <2>2. Cleaned(q, x) = Append(q, x)
    BY <1>4 DEF Cleaned
  <2> HIDE DEF v
  <2>3. ASSUME ~v.lost
        PROVE  /\ Exists(Append(q, x))
               /\ FollowUpTo(Append(q, x))[Len(Append(q, x))] = v.at
    <3>1. ~w.lost /\ Present(Append(w.at, x))
      BY <1>1, <2>1, <2>3
    <3>2. Exists(q) /\ FollowUpTo(q)[Len(q)] = w.at
      BY <3>1 DEF Agrees
    <3> QED
      BY <2>1, <3>1, <3>2, FollowAppend
  <2>4. ASSUME ~v.lost, ~v.linked PROVE Append(q, x) = v.at /\ Unlinked(Append(q, x))
    <3>1. /\ ~w.lost /\ ~w.linked
          /\ Append(w.at, x) \in Files \ DOMAIN Links
      BY <1>1, <2>1, <2>4 DEF Present
    <3>2. q = w.at /\ Unlinked(q)
      BY <3>1 DEF Agrees
    <3>3. Unlinked(Append(q, x))
      BY <3>1, <3>2, UnlinkedAppend
    <3>4. v.at = Append(w.at, x)
      BY <2>1, <3>1 DEF Follow
    <3> QED
      BY <3>2, <3>3, <3>4
  <2> QED
    BY <2>2, <2>3, <2>4 DEF Agrees, v
<1> QED
  BY <1>2, <1>3, <1>4

\* Clean leaves a directory without dots as it is.
LEMMA CleanPrefix ==
    ASSUME NEW d \in Paths, \A k \in 1..Len(d) : d[k] \notin {".", ".."}, NEW p \in Paths
    PROVE  CleanUpTo(d \o p)[Len(d)] = d
<1> DEFINE n == Len(d)
           q == d \o p
           c == CleanUpTo(q)
           T == {i \in 0..n : c[i] = SubSeq(d, 1, i)}
<1>1. q \in Paths /\ n \in Nat /\ \A i \in 1..n : i \in 1..Len(q) /\ q[i] = d[i]
  BY DEF Paths
<1>2. c[0] = <<>> /\ \A i \in 1..n : c[i] = Cleaned(c[i - 1], d[i])
  <2> HIDE DEF q, n
  <2> QED
    BY <1>1, CleanSteps
<1> HIDE DEF c
<1>3. 0 \in T
  <2>1. SubSeq(d, 1, 0) = <<>>
    BY SubSeqEmpty
  <2>2. c[0] = SubSeq(d, 1, 0) /\ 0 \in 0..n
    BY <1>1, <1>2, <2>1
  <2> QED
    BY <2>2
<1>4. ASSUME NEW i \in 1..n, i - 1 \in T PROVE i \in T
  <2>1. c[i - 1] = SubSeq(d, 1, i - 1) /\ i \in 0..n
    BY <1>1, <1>4
  <2>2. c[i] = Append(c[i - 1], d[i])
    BY <1>2 DEF Cleaned
  <2>3. Append(SubSeq(d, 1, i - 1), d[i]) = SubSeq(d, 1, i)
    BY DEF Paths
  <2> QED
    BY <2>1, <2>2, <2>3
<1>5. \A i \in 0..n : i \in T
  <2> HIDE DEF T, n
  <2> QED
    BY <1>1, <1>3, <1>4, UpTo
<1>6. c[n] = SubSeq(d, 1, n)
  BY <1>1, <1>5
<1>7. SubSeq(d, 1, n) = d
  BY SubSeqFull DEF Paths
<1> QED
  BY <1>6, <1>7 DEF c

\* The kernel's walk from a directory and the cleaned path agree at every component.
LEMMA WalkAgrees ==
    ASSUME NEW d \in Paths, \A k \in 1..Len(d) : d[k] \notin {".", ".."}, Unlinked(d),
           NEW p \in Paths
    PROVE  Agrees(Walk(d, p)[Len(p)], Clean(d \o p)) /\ Clean(d \o p) \in Paths
<1> DEFINE m == Len(d)
           n == Len(p)
           q == d \o p
           c == CleanUpTo(q)
           w == Walk(d, p)
           T == {i \in 0..n : Agrees(w[i], c[m + i])}
<1>1. /\ q \in Paths /\ m \in Nat /\ n \in Nat /\ Len(q) = m + n
      /\ \A i \in 1..n : m + i \in 1..Len(q) /\ q[m + i] = p[i] /\ p[i] \in Components
  BY DEF Paths
<1>2. /\ c \in [0..(m + n) -> Paths] /\ c[m] = d
      /\ \A i \in 1..n : c[m + i] = Cleaned(c[m + (i - 1)], p[i])
  <2>1. /\ c \in [0..Len(q) -> Paths]
        /\ \A i \in 1..Len(q) : c[i] = Cleaned(c[i - 1], q[i])
    <3> HIDE DEF q
    <3> QED
      BY <1>1, CleanSteps
  <2>2. c[m] = d
    BY CleanPrefix
  <2> HIDE DEF c, q
  <2>3. ASSUME NEW i \in 1..n PROVE c[m + i] = Cleaned(c[m + (i - 1)], p[i])
    <3>1. (m + i) - 1 = m + (i - 1)
      BY <1>1
    <3> QED
      BY <1>1, <2>1, <3>1
  <2> QED
    BY <1>1, <2>1, <2>2, <2>3
<1>3. /\ w \in [0..n -> Positions] /\ w[0] = [at |-> d, linked |-> FALSE, lost |-> FALSE]
      /\ \A i \in 1..n : w[i] = Step(w[i - 1], p[i])
  BY WalkSteps
<1> HIDE DEF c, w, q
<1>4. 0 \in T
  <2>1. Exists(d) /\ FollowUpTo(d)[Len(d)] = d
    BY UnlinkedStays
  <2>2. w[0].at = d
    BY <1>3
  <2>3. c[m + 0] = d /\ 0 \in 0..n
    BY <1>1, <1>2
  <2>4. Agrees(w[0], d)
    BY <2>1, <2>2 DEF Agrees
  <2> QED
    BY <2>3, <2>4
<1>5. ASSUME NEW i \in 1..n, i - 1 \in T PROVE i \in T
  <2>1. /\ w[i - 1] \in Positions /\ c[m + (i - 1)] \in Paths /\ p[i] \in Components
        /\ Agrees(w[i - 1], c[m + (i - 1)]) /\ i \in 0..n
    BY <1>1, <1>2, <1>3, <1>5
  <2>2. Agrees(Step(w[i - 1], p[i]), Cleaned(c[m + (i - 1)], p[i]))
    BY <2>1, AgreesStep
  <2>3. Agrees(w[i], c[m + i])
    BY <1>2, <1>3, <2>2
  <2> QED
    BY <2>1, <2>3
<1>6. \A i \in 0..n : i \in T
  <2> HIDE DEF T, n
  <2> QED
    BY <1>1, <1>4, <1>5, UpTo
<1>7. Agrees(w[n], c[m + n])
  BY <1>1, <1>6
<1>8. Clean(q) = c[m + n] /\ c[m + n] \in Paths
  BY <1>1, <1>2 DEF Clean, c
<1> QED
  BY <1>7, <1>8 DEF w, q

\* For arguments and working directories of any length and any set of files and links,
\* a path rule sees the file that the kernel reaches.
THEOREM PathRulesSee == Spec => []PathRulesSeeTheFile
<1>1. ASSUME IsCase PROVE PathRulesSeeTheFile
  <2> DEFINE arg == case.argument
             d == IF arg.absolute THEN <<>> ELSE case.cwd
             w == Walk(d, arg.path)[Len(arg.path)]
             input == [executable |-> <<>>, cwd |-> case.cwd, argv |-> <<arg>>, uid |-> 0]
             value == [absolute |-> arg.absolute, path |-> arg.path]
  <2> SUFFICES ASSUME case.about = "path", ~w.lost, arg.absolute \/ arg.path # <<>>
               PROVE  /\ w.at \in policyPaths(input)
                      /\ \A p \in PathPatterns : glob(p, Text(w.at)) =>
                            matches([Anything EXCEPT !.path = p], input)
    BY DEF PathRulesSeeTheFile
  <2>1. case.cwd \in Cwds /\ arg.absolute \in BOOLEAN /\ arg.path \in Paths
    BY <1>1, Kinds, AlgorithmsAssumption, TextsAreSequences DEF PathCases, Paths
  <2>2. /\ d \in Paths /\ Unlinked(d)
        /\ \A k \in 1..Len(d) : d[k] \notin {".", ".."}
    <3>1. CASE arg.absolute
      <4>1. d = <<>> /\ d \in Paths /\ Len(d) = 0
        BY <3>1 DEF Paths
      <4> HIDE DEF d
      <4>2. 1..Len(d) = {}
        BY <4>1
      <4> QED
        BY <4>1, <4>2 DEF Unlinked
    <3>2. CASE ~arg.absolute
      BY <2>1, <3>2, AlgorithmsAssumption DEF Paths, Unlinked
    <3> QED
      BY <3>1, <3>2
  <2> DEFINE q == Clean(d \o arg.path)
  <2>3. Agrees(w, q) /\ q \in Paths
    <3> HIDE DEF d, arg
    <3> QED
      BY <2>1, <2>2, WalkAgrees
  <2>4. EvalSymlinks(q) = w.at
    <3> HIDE DEF q, w
    <3> QED
      BY <2>3 DEF Agrees, EvalSymlinks
  <2>5. Canonical(case.cwd, value) = EvalSymlinks(q)
    <3>1. <<>> \o arg.path = arg.path
      BY <2>1, ConcatEmptySeq DEF Paths
    <3> QED
      BY <3>1 DEF Canonical
  <2>6. value \in Candidates(arg)
    BY DEF Candidates
  <2>7. w.at \in policyPaths(input)
    <3> HIDE DEF value, w, q, arg
    <3>1. input.cwd = case.cwd /\ input.argv[1] = arg /\ 1 \in DOMAIN input.argv
      OBVIOUS
    <3> HIDE DEF input
    <3> QED
      BY <2>4, <2>5, <2>6, <3>1 DEF policyPaths
  <2>8. ASSUME NEW p \in PathPatterns, glob(p, Text(w.at))
        PROVE  matches([Anything EXCEPT !.path = p], input)
    <3> DEFINE m == [Anything EXCEPT !.path = p]
    <3>1. m.executable = Unset /\ m.argv = Unset /\ m.requesterUid = Unset /\ m.path = p
      BY DEF Anything
    <3> HIDE DEF m, w, input
    <3>2. \E u \in policyPaths(input) : glob(m.path, Text(u))
      BY <2>7, <2>8, <3>1
    <3>3. matches(m, input)
      BY <3>1, <3>2 DEF matches
    <3> QED
      BY <3>3 DEF m
  <2> QED
    BY <2>7, <2>8
<1> QED
  BY <1>1, CaseKept, PTL

-----------------------------------------------------------------------------
(* Recursion and induction from n + 1 down to 1.                             *)

\* How each value of a function follows from the two values after.
BackSteps(A, n) == [1..n -> [A \X A -> A]]

\* The function begins with a and follows the steps G.
Follows(f, a, n, G) ==
    f[n + 1] = a /\ \A i \in 1..n : f[i] = G[i][<<f[i + 1], f[i + 2]>>]

\* A function whose values follow from the two values after exists.
LEMMA BackRecursion ==
    ASSUME NEW A, NEW a \in A, NEW n \in Nat, NEW G \in BackSteps(A, n)
    PROVE  \E f \in [1..(n + 2) -> A] : Follows(f, a, n, G)
<1> DEFINE B == A \X A
           H == [k \in 1..n |-> [s \in B |-> <<G[n + 1 - k][s], s[1]>>]]
<1>1. \A i \in 1..n : \A s \in B : G[i][s] \in A
  BY DEF BackSteps
<1>2. H \in [1..n -> [B -> B]]
  <2>1. \A k \in 1..n : n + 1 - k \in 1..n
    OBVIOUS
  <2>2. \A k \in 1..n : \A s \in B : <<G[n + 1 - k][s], s[1]>> \in B
    BY <1>1, <2>1
  <2> HIDE DEF B
  <2> QED
    BY <2>2
<1> DEFINE first == <<a, a>>
<1>3. first \in B
  OBVIOUS
<1>4. PICK h \in [0..n -> B] : h[0] = first /\ \A k \in 1..n : h[k] = H[k][h[k - 1]]
  <2> HIDE DEF B, H, first
  <2> QED
    BY <1>2, <1>3, Recursion, SMTT(60)
<1>5. ASSUME NEW k \in 1..n
      PROVE  h[k][1] = G[n + 1 - k][h[k - 1]] /\ h[k][2] = h[k - 1][1]
  <2>1. k - 1 \in 0..n /\ h[k - 1] \in B
    OBVIOUS
  <2>2. H[k] = [s \in B |-> <<G[n + 1 - k][s], s[1]>>]
    OBVIOUS
  <2> HIDE DEF B
  <2>3. H[k][h[k - 1]] = <<G[n + 1 - k][h[k - 1]], h[k - 1][1]>>
    BY <2>1, <2>2, Zenon
  <2>4. h[k] = <<G[n + 1 - k][h[k - 1]], h[k - 1][1]>>
    BY <1>4, <2>3
  <2> QED
    BY <2>4
<1> DEFINE f == [i \in 1..(n + 2) |-> IF i = n + 2 THEN a ELSE h[n + 1 - i][1]]
<1>6. f \in [1..(n + 2) -> A]
  <2>1. \A i \in 1..(n + 2) : i # n + 2 => h[n + 1 - i][1] \in A
    OBVIOUS
  <2> QED
    BY <2>1
<1>7. f[n + 1] = a
  BY <1>4
<1>8. ASSUME NEW i \in 1..n PROVE f[i] = G[i][<<f[i + 1], f[i + 2]>>]
  <2> DEFINE k == n + 1 - i
  <2>1. k \in 1..n /\ n + 1 - k = i /\ k - 1 = n - i /\ k - 1 \in 0..n
    OBVIOUS
  <2>2. f[i] = h[k][1] /\ f[i + 1] = h[k - 1][1]
    BY <2>1
  <2>3. f[i + 2] = h[k - 1][2]
    <3>1. CASE i = n
      BY <1>4, <2>1, <3>1
    <3>2. CASE i # n
      <4>1. k - 1 \in 1..n /\ (k - 1) - 1 = n + 1 - (i + 2) /\ i + 2 \in 1..(n + 2) /\ i + 2 # n + 2
        BY <3>2
      <4>2. f[i + 2] = h[n + 1 - (i + 2)][1]
        BY <4>1
      <4>3. h[k - 1][2] = h[(k - 1) - 1][1]
        BY <1>5, <4>1
      <4> QED
        BY <4>1, <4>2, <4>3
    <3> QED
      BY <3>1, <3>2
  <2>4. h[k - 1] = <<h[k - 1][1], h[k - 1][2]>>
    BY <2>1
  <2>5. h[k][1] = G[i][h[k - 1]]
    BY <1>5, <2>1
  <2> HIDE DEF f, k
  <2> QED
    BY <2>2, <2>3, <2>4, <2>5
<1> HIDE DEF f
<1> QED
  BY <1>6, <1>7, <1>8 DEF Follows

\* Induction down from n + 1, from the two numbers after.
LEMMA DownFrom ==
    ASSUME NEW n \in Nat, NEW T, n + 1 \in T,
           \A i \in 1..n : i + 1 \in T /\ (i < n => i + 2 \in T) => i \in T
    PROVE  \A i \in 1..(n + 1) : i \in T
<1> DEFINE U == {k \in 0..n : n + 1 - k \in T /\ (0 < k => n + 2 - k \in T)}
<1>1. 0 \in U
  OBVIOUS
<1>2. ASSUME NEW k \in 1..n, k - 1 \in U PROVE k \in U
  <2> DEFINE i == n + 1 - k
  <2>1. /\ i \in 1..n /\ i + 1 = n + 1 - (k - 1) /\ i + 1 = n + 2 - k
        /\ i < n => 0 < k - 1 /\ i + 2 = n + 2 - (k - 1)
    OBVIOUS
  <2>2. i + 1 \in T /\ (i < n => i + 2 \in T)
    BY <1>2, <2>1
  <2>3. i \in T
    BY <2>1, <2>2
  <2> QED
    BY <2>1, <2>2, <2>3
<1>3. \A k \in 0..n : k \in U
  <2> HIDE DEF U
  <2> QED
    BY <1>1, <1>2, UpTo
<1>4. ASSUME NEW i \in 1..(n + 1) PROVE i \in T
  <2>1. n + 1 - i \in 0..n /\ n + 1 - (n + 1 - i) = i
    OBVIOUS
  <2>2. n + 1 - i \in U
    BY <1>3, <2>1
  <2> QED
    BY <2>1, <2>2
<1> QED
  BY <1>4

-----------------------------------------------------------------------------
(* Patterns.                                                                 *)

\* What glob translates a pattern to.
TokenSet == PatternChars \cup {".*", "[^/]*", "[^/]", "other"}

\* The translation of one character that does not begin two stars.
Token(x) ==
    IF x = "*" THEN "[^/]*" ELSE IF x = "?" THEN "[^/]" ELSE IF x = "u" THEN "other" ELSE x

\* Two stars begin at position i.
TwoStars(p, i) == p[i] = "*" /\ i < Len(p) /\ p[i + 1] = "*"

\* One step of the loop of glob, from what the next two positions are translated to.
Translated(p, i, one, two) ==
    IF TwoStars(p, i) THEN <<".*">> \o two ELSE <<Token(p[i])>> \o one

\* Patterns are translated to tokens.
LEMMA TranslatedIsText ==
    ASSUME NEW p \in Seq(PatternChars), NEW i \in 1..Len(p),
           NEW one \in Seq(TokenSet), NEW two \in Seq(TokenSet)
    PROVE  Translated(p, i, one, two) \in Seq(TokenSet)
<1>1. Token(p[i]) \in TokenSet /\ ".*" \in TokenSet
  BY DEF Token, TokenSet
<1>2. <<Token(p[i])>> \in Seq(TokenSet) /\ <<".*">> \in Seq(TokenSet)
  BY <1>1
<1> HIDE DEF TokenSet
<1>3. <<Token(p[i])>> \o one \in Seq(TokenSet) /\ <<".*">> \o two \in Seq(TokenSet)
  BY <1>2, ConcatProperties
<1> QED
  BY <1>3 DEF Translated

\* The translation goes from the end of the pattern to its beginning.
LEMMA TokensSteps ==
    ASSUME NEW p \in Seq(PatternChars)
    PROVE  /\ tokensFrom(p)[Len(p) + 1] = <<>>
           /\ \A i \in 1..Len(p) :
                 tokensFrom(p)[i] = Translated(p, i, tokensFrom(p)[i + 1], tokensFrom(p)[i + 2])
           /\ \A i \in 1..(Len(p) + 1) : tokensFrom(p)[i] \in Seq(TokenSet)
<1> DEFINE n == Len(p)
           A == Seq(TokenSet)
           none == <<>>
           c == tokensFrom(p)
           E(f) == [i \in 1..(n + 1) |->
                       IF i > n THEN <<>>
                       ELSE IF p[i] = "*" /\ i < n /\ p[i + 1] = "*" THEN <<".*">> \o f[i + 2]
                       ELSE IF p[i] = "*" THEN <<"[^/]*">> \o f[i + 1]
                       ELSE IF p[i] = "?" THEN <<"[^/]">> \o f[i + 1]
                       ELSE IF p[i] = "u" THEN <<"other">> \o f[i + 1]
                       ELSE <<p[i]>> \o f[i + 1]]
           G == [i \in 1..n |-> [s \in A \X A |-> Translated(p, i, s[1], s[2])]]
<1>1. n \in Nat /\ none \in A
  OBVIOUS
<1>2. G \in BackSteps(A, n)
  <2>1. \A i \in 1..n : \A s \in A \X A : Translated(p, i, s[1], s[2]) \in A
    BY TranslatedIsText
  <2> HIDE DEF A
  <2> QED
    BY <2>1 DEF BackSteps
<1>3. PICK g \in [1..(n + 2) -> A] : Follows(g, none, n, G)
  <2> HIDE DEF G, A, n, none
  <2> QED
    BY <1>1, <1>2, BackRecursion
<1> DEFINE h == [i \in 1..(n + 1) |-> g[i]]
<1>4. ASSUME NEW i \in 1..n
      PROVE  g[i] = Translated(p, i, g[i + 1], g[i + 2])
  <2>1. g[i + 1] \in A /\ g[i + 2] \in A
    BY <1>1
  <2>2. G[i] = [s \in A \X A |-> Translated(p, i, s[1], s[2])]
    OBVIOUS
  <2> DEFINE s == <<g[i + 1], g[i + 2]>>
  <2> HIDE DEF A
  <2>3. s \in A \X A /\ s[1] = g[i + 1] /\ s[2] = g[i + 2]
    BY <2>1
  <2> HIDE DEF s
  <2>4. G[i][s] = Translated(p, i, s[1], s[2])
    BY <2>2, <2>3, Zenon
  <2>5. g[i] = G[i][s]
    BY <1>3 DEF s, Follows
  <2> QED
    BY <2>3, <2>4, <2>5
<1>5. \A f : \A i \in 1..n : E(f)[i] = Translated(p, i, f[i + 1], f[i + 2])
  <2> SUFFICES ASSUME NEW f, NEW i \in 1..n
               PROVE  E(f)[i] = Translated(p, i, f[i + 1], f[i + 2])
    OBVIOUS
  <2>1. i \in 1..(n + 1) /\ ~(i > n)
    BY <1>1
  <2>2. E(f)[i] = IF p[i] = "*" /\ i < n /\ p[i + 1] = "*" THEN <<".*">> \o f[i + 2]
                  ELSE IF p[i] = "*" THEN <<"[^/]*">> \o f[i + 1]
                  ELSE IF p[i] = "?" THEN <<"[^/]">> \o f[i + 1]
                  ELSE IF p[i] = "u" THEN <<"other">> \o f[i + 1]
                  ELSE <<p[i]>> \o f[i + 1]
    BY <2>1
  <2> HIDE DEF E
  <2> QED
    BY <2>2 DEF Translated, TwoStars, Token
<1>6. \A f : E(f)[n + 1] = <<>>
  BY <1>1
<1>7. h = E(h)
  <2>1. ASSUME NEW i \in 1..n PROVE h[i] = E(h)[i]
    <3>1. h[i] = g[i] /\ h[i + 1] = g[i + 1] /\ (i < n => h[i + 2] = g[i + 2])
      BY <1>1
    <3>2. Translated(p, i, h[i + 1], h[i + 2]) = Translated(p, i, g[i + 1], g[i + 2])
      BY <3>1 DEF Translated, TwoStars
    <3>3. E(h)[i] = Translated(p, i, h[i + 1], h[i + 2])
      BY <1>5
    <3> QED
      BY <1>4, <3>1, <3>2, <3>3
  <2>2. h[n + 1] = E(h)[n + 1]
    BY <1>1, <1>3, <1>6 DEF Follows
  <2>3. ASSUME NEW i \in 1..(n + 1) PROVE h[i] = E(h)[i]
    <3>1. i = n + 1 \/ i \in 1..n
      BY <1>1
    <3> HIDE DEF E, h
    <3> QED
      BY <2>1, <2>2, <3>1
  <2> QED
    BY <2>3
<1>8. c = CHOOSE f : f = E(f)
  BY DEF tokensFrom
<1>9. c = E(c)
  BY <1>7, <1>8
<1> HIDE DEF c, E
<1>10. c[n + 1] = <<>> /\ \A i \in 1..n : c[i] = Translated(p, i, c[i + 1], c[i + 2])
  BY <1>5, <1>6, <1>9
<1>11. \A i \in 1..(n + 1) : c[i] \in A
  <2> DEFINE T == {i \in 1..(n + 1) : c[i] \in A}
  <2>1. n + 1 \in T
    <3>1. c[n + 1] \in A /\ n + 1 \in 1..(n + 1)
      BY <1>1, <1>10
    <3> QED
      BY <3>1
  <2>2. ASSUME NEW i \in 1..n, i + 1 \in T, i < n => i + 2 \in T PROVE i \in T
    <3>1. CASE TwoStars(p, i)
      <4>1. c[i + 2] \in A /\ c[i + 1] \in A
        BY <2>2, <3>1 DEF TwoStars
      <4>2. c[i] \in A
        BY <1>10, <4>1, TranslatedIsText
      <4> QED
        BY <1>1, <4>2
    <3>2. CASE ~TwoStars(p, i)
      <4>1. c[i + 1] \in A
        BY <2>2
      <4>2. c[i] = Translated(p, i, c[i + 1], <<>>)
        BY <1>10, <3>2 DEF Translated
      <4>3. c[i] \in A
        BY <1>1, <4>1, <4>2, TranslatedIsText
      <4> QED
        BY <1>1, <4>3
    <3> QED
      BY <3>1, <3>2
  <2> HIDE DEF T, n
  <2>3. \A i \in 1..(n + 1) : i \in T
    BY <1>1, <2>1, <2>2, DownFrom
  <2> QED
    BY <2>3 DEF T
<1> QED
  BY <1>10, <1>11 DEF c

\* One step of the reference, from where the rest of the pattern matches.
Placed(p, v, i, one, two) ==
    IF TwoStars(p, i) THEN {j \in 1..(Len(v) + 1) : \E e \in two : j <= e}
    ELSE IF p[i] = "*"
         THEN {j \in 1..(Len(v) + 1) : \E e \in one :
                  j <= e /\ \A k \in j..(e - 1) : v[k] # "/"}
    ELSE {j \in 1..Len(v) :
            /\ IF p[i] = "?" THEN v[j] # "/" ELSE v[j] = p[i]
            /\ j + 1 \in one}

\* The reference goes from the end of the pattern to its beginning, too.
LEMMA PlacesSteps ==
    ASSUME NEW p \in Seq(PatternChars), NEW v \in Seq(ValueChars)
    PROVE  /\ Places(p, v)[Len(p) + 1] = {Len(v) + 1}
           /\ \A i \in 1..Len(p) :
                 Places(p, v)[i] = Placed(p, v, i, Places(p, v)[i + 1], Places(p, v)[i + 2])
<1> DEFINE n == Len(p)
           ends == Len(v) + 1
           A == SUBSET (1..ends)
           last == {ends}
           c == Places(p, v)
           E(f) == [i \in 1..(n + 1) |->
                       IF i > n THEN last
                       ELSE IF p[i] = "*" /\ i < n /\ p[i + 1] = "*"
                            THEN {j \in 1..ends : \E e \in f[i + 2] : j <= e}
                       ELSE IF p[i] = "*"
                            THEN {j \in 1..ends : \E e \in f[i + 1] :
                                     j <= e /\ \A k \in j..(e - 1) : v[k] # "/"}
                       ELSE {j \in 1..Len(v) :
                               /\ IF p[i] = "?" THEN v[j] # "/" ELSE v[j] = p[i]
                               /\ j + 1 \in f[i + 1]}]
           G == [i \in 1..n |-> [s \in A \X A |-> Placed(p, v, i, s[1], s[2])]]
<1>1. n \in Nat /\ last \in A
  OBVIOUS
<1>2. G \in BackSteps(A, n)
  <2>1. \A i \in 1..n : \A s \in A \X A : Placed(p, v, i, s[1], s[2]) \in A
    <3>1. 1..Len(v) \subseteq 1..ends
      OBVIOUS
    <3> QED
      BY <3>1 DEF Placed
  <2> HIDE DEF A
  <2> QED
    BY <2>1 DEF BackSteps
<1>3. PICK g \in [1..(n + 2) -> A] : Follows(g, last, n, G)
  <2> HIDE DEF G, A, n, last
  <2> QED
    BY <1>1, <1>2, BackRecursion
<1> DEFINE h == [i \in 1..(n + 1) |-> g[i]]
<1>4. ASSUME NEW i \in 1..n
      PROVE  g[i] = Placed(p, v, i, g[i + 1], g[i + 2])
  <2> DEFINE s == <<g[i + 1], g[i + 2]>>
  <2> HIDE DEF A
  <2>1. g[i + 1] \in A /\ g[i + 2] \in A
    BY <1>1
  <2>2. G[i] = [x \in A \X A |-> Placed(p, v, i, x[1], x[2])]
    OBVIOUS
  <2>3. s \in A \X A /\ s[1] = g[i + 1] /\ s[2] = g[i + 2]
    BY <2>1
  <2> HIDE DEF s
  <2>4. G[i][s] = Placed(p, v, i, s[1], s[2])
    BY <2>2, <2>3, Zenon
  <2>5. g[i] = G[i][s]
    BY <1>3 DEF s, Follows
  <2> QED
    BY <2>3, <2>4, <2>5
<1> HIDE DEF A, G, last
<1>5. ASSUME NEW f, NEW i \in 1..n
      PROVE  E(f)[i] = Placed(p, v, i, f[i + 1], f[i + 2])
  <2>1. i \in 1..(n + 1) /\ ~(i > n)
    BY <1>1
  <2>2. E(f)[i] = IF p[i] = "*" /\ i < n /\ p[i + 1] = "*"
                  THEN {j \in 1..ends : \E e \in f[i + 2] : j <= e}
                  ELSE IF p[i] = "*"
                       THEN {j \in 1..ends : \E e \in f[i + 1] :
                                j <= e /\ \A k \in j..(e - 1) : v[k] # "/"}
                  ELSE {j \in 1..Len(v) :
                          /\ IF p[i] = "?" THEN v[j] # "/" ELSE v[j] = p[i]
                          /\ j + 1 \in f[i + 1]}
    BY <2>1, Zenon
  <2> HIDE DEF E
  <2> QED
    BY <2>2, Zenon DEF Placed, TwoStars
<1>6. ASSUME NEW f PROVE E(f)[n + 1] = last
  <2>1. n + 1 \in 1..(n + 1) /\ n + 1 > n
    BY <1>1
  <2> QED
    BY <2>1, Zenon
<1>7. h = E(h)
  <2>1. ASSUME NEW i \in 1..n PROVE h[i] = E(h)[i]
    <3>1. h[i] = g[i] /\ h[i + 1] = g[i + 1] /\ (i < n => h[i + 2] = g[i + 2])
      BY <1>1
    <3> HIDE DEF h
    <3>2. Placed(p, v, i, h[i + 1], h[i + 2]) = Placed(p, v, i, g[i + 1], g[i + 2])
      BY <3>1, Zenon DEF Placed, TwoStars
    <3>3. E(h)[i] = Placed(p, v, i, h[i + 1], h[i + 2])
      BY <1>5
    <3> HIDE DEF E
    <3> QED
      BY <1>4, <3>1, <3>2, <3>3
  <2>2. h[n + 1] = E(h)[n + 1]
    <3>1. h[n + 1] = last
      BY <1>1, <1>3 DEF Follows
    <3> HIDE DEF h
    <3>2. E(h)[n + 1] = last
      BY <1>6
    <3> QED
      BY <3>1, <3>2
  <2>3. ASSUME NEW i \in 1..(n + 1) PROVE h[i] = E(h)[i]
    <3>1. i = n + 1 \/ i \in 1..n
      BY <1>1
    <3> HIDE DEF E, h
    <3> QED
      BY <2>1, <2>2, <3>1
  <2> QED
    BY <2>3, Zenon
<1>8. c = CHOOSE f : f = E(f)
  BY DEF Places, last
<1>9. c = E(c)
  <2> HIDE DEF E, h
  <2> QED
    BY <1>7, <1>8
<1> HIDE DEF c
<1>10. c[n + 1] = last /\ \A i \in 1..n : c[i] = Placed(p, v, i, c[i + 1], c[i + 2])
  <2>1. E(c)[n + 1] = last /\ \A i \in 1..n : E(c)[i] = Placed(p, v, i, c[i + 1], c[i + 2])
    BY <1>5, <1>6
  <2> HIDE DEF E
  <2> QED
    BY <1>9, <2>1
<1> QED
  BY <1>10 DEF c, last

\* The tokens t match the value from position j on.
Matched(v, t, j) ==
    \E cut \in [0..Len(t) -> 0..Len(v)] :
        /\ cut[0] = j - 1 /\ cut[Len(t)] = Len(v)
        /\ \A k \in 1..Len(t) : /\ cut[k - 1] <= cut[k]
                                /\ Fits(t[k], SubSeq(v, cut[k - 1] + 1, cut[k]))

\* No token matches the end.
LEMMA MatchedEnd ==
    ASSUME NEW v \in Seq(ValueChars), NEW j \in 1..(Len(v) + 1)
    PROVE  Matched(v, <<>>, j) <=> j = Len(v) + 1
<1>1. Len(v) \in Nat /\ Len(<<>>) = 0
  OBVIOUS
<1>2. ASSUME Matched(v, <<>>, j) PROVE j = Len(v) + 1
  BY <1>1, <1>2 DEF Matched
<1>3. ASSUME j = Len(v) + 1 PROVE Matched(v, <<>>, j)
  <2> DEFINE cut == [k \in 0..0 |-> Len(v)]
  <2>1. cut \in [0..0 -> 0..Len(v)] /\ cut[0] = j - 1 /\ cut[0] = Len(v)
    BY <1>1, <1>3
  <2>2. 1..0 = {}
    OBVIOUS
  <2> HIDE DEF cut
  <2> QED
    BY <1>1, <2>1, <2>2 DEF Matched
<1> QED
  BY <1>2, <1>3

\* A first token takes a piece of the value and leaves the rest to the others.
LEMMA MatchedFirst ==
    ASSUME NEW v \in Seq(ValueChars), NEW j \in 1..(Len(v) + 1),
           NEW S, NEW x \in S, NEW t \in Seq(S)
    PROVE  Matched(v, <<x>> \o t, j) <=>
              \E e \in j..(Len(v) + 1) : Fits(x, SubSeq(v, j, e - 1)) /\ Matched(v, t, e)
<1> DEFINE u == <<x>> \o t
           n == Len(t)
           V == Len(v)
<1>1. /\ V \in Nat /\ n \in Nat /\ Len(u) = n + 1 /\ u[1] = x
      /\ \A k \in 1..n : u[k + 1] = t[k]
  OBVIOUS
<1> HIDE DEF u, n, V
<1>2. ASSUME Matched(v, u, j)
      PROVE  \E e \in j..(V + 1) : Fits(x, SubSeq(v, j, e - 1)) /\ Matched(v, t, e)
  <2>1. PICK cut \in [0..(n + 1) -> 0..V] :
           /\ cut[0] = j - 1 /\ cut[n + 1] = V
           /\ \A k \in 1..(n + 1) : /\ cut[k - 1] <= cut[k]
                                    /\ Fits(u[k], SubSeq(v, cut[k - 1] + 1, cut[k]))
    BY <1>1, <1>2 DEF Matched, V
  <2> DEFINE e == cut[1] + 1
             rest == [k \in 0..n |-> cut[k + 1]]
  <2>2. 1 \in 1..(n + 1) /\ 1 \in 0..(n + 1) /\ 1 - 1 = 0
    BY <1>1
  <2>3. cut[1] \in 0..V /\ cut[0] <= cut[1] /\ Fits(u[1], SubSeq(v, cut[0] + 1, cut[1]))
    BY <2>1, <2>2
  <2>4. e \in j..(V + 1) /\ cut[0] + 1 = j /\ e - 1 = cut[1]
    BY <1>1, <2>1, <2>3 DEF V
  <2>5. Fits(x, SubSeq(v, j, e - 1))
    BY <1>1, <2>3, <2>4
  <2>6. rest \in [0..n -> 0..V] /\ rest[0] = e - 1 /\ rest[n] = V
    BY <1>1, <2>1, <2>4
  <2>7. ASSUME NEW k \in 1..n
        PROVE  rest[k - 1] <= rest[k] /\ Fits(t[k], SubSeq(v, rest[k - 1] + 1, rest[k]))
    <3>1. k + 1 \in 1..(n + 1) /\ (k + 1) - 1 = k /\ k - 1 \in 0..n /\ k \in 0..n
      BY <1>1
    <3>2. rest[k - 1] = cut[k] /\ rest[k] = cut[k + 1]
      BY <1>1, <3>1
    <3>3. cut[k] <= cut[k + 1] /\ Fits(u[k + 1], SubSeq(v, cut[k] + 1, cut[k + 1]))
      BY <2>1, <3>1
    <3> QED
      BY <1>1, <3>2, <3>3
  <2> HIDE DEF rest, e
  <2>8. Matched(v, t, e)
    BY <2>6, <2>7 DEF Matched, n, V
  <2> QED
    BY <2>4, <2>5, <2>8
<1>3. ASSUME NEW e \in j..(V + 1), Fits(x, SubSeq(v, j, e - 1)), Matched(v, t, e)
      PROVE  Matched(v, u, j)
  <2>1. PICK rest \in [0..n -> 0..V] :
           /\ rest[0] = e - 1 /\ rest[n] = V
           /\ \A k \in 1..n : /\ rest[k - 1] <= rest[k]
                              /\ Fits(t[k], SubSeq(v, rest[k - 1] + 1, rest[k]))
    BY <1>3 DEF Matched, n, V
  <2> DEFINE cut == [k \in 0..(n + 1) |-> IF k = 0 THEN j - 1 ELSE rest[k - 1]]
  <2>2. j - 1 \in 0..V /\ (j - 1) + 1 = j /\ j - 1 <= e - 1
    BY <1>1 DEF V
  <2>3. cut \in [0..(n + 1) -> 0..V]
    BY <1>1, <2>1, <2>2
  <2>4. cut[0] = j - 1 /\ cut[n + 1] = V /\ cut[1] = e - 1
    BY <1>1, <2>1
  <2>5. ASSUME NEW k \in 1..(n + 1)
        PROVE  cut[k - 1] <= cut[k] /\ Fits(u[k], SubSeq(v, cut[k - 1] + 1, cut[k]))
    <3>1. CASE k = 1
      <4>1. cut[k - 1] = j - 1 /\ cut[k] = e - 1 /\ u[k] = x
        BY <1>1, <2>4, <3>1
      <4> HIDE DEF cut
      <4> QED
        BY <1>3, <2>2, <4>1
    <3>2. CASE k # 1
      <4>1. /\ k - 1 \in 1..n /\ (k - 1) + 1 = k /\ k # 0 /\ k - 1 # 0
            /\ k \in 0..(n + 1) /\ k - 1 \in 0..(n + 1)
        BY <1>1, <3>2
      <4>2. cut[k] = rest[k - 1] /\ cut[k - 1] = rest[(k - 1) - 1]
        BY <4>1
      <4>3. u[k] = t[k - 1]
        BY <1>1, <4>1
      <4> HIDE DEF cut
      <4> QED
        BY <2>1, <4>1, <4>2, <4>3
    <3> QED
      BY <3>1, <3>2
  <2> HIDE DEF cut
  <2> QED
    BY <1>1, <2>3, <2>4, <2>5 DEF Matched, V
<1> QED
  BY <1>2, <1>3 DEF u, V

\* Which pieces of a value the tokens take.
LEMMA FitsPieces ==
    ASSUME NEW v \in Seq(ValueChars), NEW j \in 1..(Len(v) + 1), NEW e \in j..(Len(v) + 1)
    PROVE  LET piece == SubSeq(v, j, e - 1)
           IN  /\ Fits(".*", piece)
               /\ Fits("[^/]*", piece) <=> \A k \in j..(e - 1) : v[k] # "/"
               /\ Fits("[^/]", piece) <=> e = j + 1 /\ v[j] # "/"
               /\ \A x : x \notin {".*", "[^/]*", "[^/]"} =>
                     (Fits(x, piece) <=> e = j + 1 /\ v[j] = x)
<1> DEFINE piece == SubSeq(v, j, e - 1)
<1>1. /\ piece \in Seq(ValueChars) /\ Len(piece) = e - j /\ e - j \in Nat
      /\ DOMAIN piece = 1..(e - j)
      /\ \A i \in 1..(e - j) : piece[i] = v[j + i - 1] /\ piece[i] \in ValueChars
  OBVIOUS
<1> HIDE DEF piece
<1>2. Fits(".*", piece)
  <2>1. \A i \in DOMAIN piece : piece[i] # "n"
    BY <1>1, AlgorithmsAssumption
  <2> QED
    BY <2>1 DEF Fits
<1>3. Fits("[^/]*", piece) <=> \A k \in j..(e - 1) : v[k] # "/"
  <2>1. Fits("[^/]*", piece) <=> \A i \in DOMAIN piece : piece[i] # "/"
    BY DEF Fits
  <2>2. ASSUME NEW k \in j..(e - 1) PROVE \E i \in 1..(e - j) : piece[i] = v[k]
    <3>1. k - j + 1 \in 1..(e - j) /\ j + (k - j + 1) - 1 = k
      OBVIOUS
    <3> QED
      BY <1>1, <3>1
  <2>3. ASSUME NEW i \in 1..(e - j) PROVE \E k \in j..(e - 1) : piece[i] = v[k]
    <3>1. j + i - 1 \in j..(e - 1)
      OBVIOUS
    <3> QED
      BY <1>1, <3>1
  <2> QED
    BY <1>1, <2>1, <2>2, <2>3
<1>4. Len(piece) = 1 <=> e = j + 1
  BY <1>1
<1>5. e = j + 1 => piece[1] = v[j]
  BY <1>1
<1>6. Fits("[^/]", piece) <=> e = j + 1 /\ v[j] # "/"
  <2>1. Fits("[^/]", piece) <=> Len(piece) = 1 /\ piece[1] # "/"
    BY DEF Fits
  <2> QED
    BY <1>4, <1>5, <2>1
<1>7. ASSUME NEW x, x \notin {".*", "[^/]*", "[^/]"}
      PROVE  Fits(x, piece) <=> e = j + 1 /\ v[j] = x
  <2>1. Fits(x, piece) <=> piece = <<x>>
    BY <1>7 DEF Fits
  <2>2. piece = <<x>> <=> Len(piece) = 1 /\ piece[1] = x
    <3>1. ASSUME Len(piece) = 1, piece[1] = x PROVE piece = <<x>>
      <4>a. x \in ValueChars
        <5>1. 1 \in 1..(e - j)
          BY <1>1, <3>1
        <5> QED
          BY <1>1, <3>1, <5>1
      <4>1. <<x>> \in Seq(ValueChars) /\ Len(<<x>>) = 1 /\ <<x>>[1] = x
        BY <4>a
      <4>2. \A i \in 1..1 : piece[i] = <<x>>[i]
        BY <3>1, <4>1
      <4> QED
        BY <1>1, <3>1, <4>1, <4>2, SeqEqual
    <3>2. ASSUME piece = <<x>> PROVE Len(piece) = 1 /\ piece[1] = x
      BY <3>2
    <3> QED
      BY <3>1, <3>2
  <2> QED
    BY <1>4, <1>5, <2>1, <2>2
<1> QED
  BY <1>2, <1>3, <1>6, <1>7 DEF piece

\* At every position of the pattern the reference and the translation agree.
LEMMA PlacesMatched ==
    ASSUME NEW p \in Seq(PatternChars), NEW v \in Seq(ValueChars)
    PROVE  Places(p, v)[1] = {j \in 1..(Len(v) + 1) : Matched(v, tokens(p), j)}
<1> DEFINE n == Len(p)
           ends == Len(v) + 1
           f == tokensFrom(p)
           g == Places(p, v)
           At(i) == {j \in 1..ends : Matched(v, f[i], j)}
           T == {i \in 1..(n + 1) : g[i] = At(i)}
<1>1. n \in Nat /\ ends \in Nat /\ \A i \in 1..n : p[i] \in PatternChars
  OBVIOUS
<1>2. /\ f[n + 1] = <<>> /\ \A i \in 1..(n + 1) : f[i] \in Seq(TokenSet)
      /\ \A i \in 1..n : f[i] = Translated(p, i, f[i + 1], f[i + 2])
  BY TokensSteps
<1>3. /\ g[n + 1] = {ends}
      /\ \A i \in 1..n : g[i] = Placed(p, v, i, g[i + 1], g[i + 2])
  BY PlacesSteps
<1> HIDE DEF f, g
<1>4. n + 1 \in T
  <2>1. \A j \in 1..ends : Matched(v, f[n + 1], j) <=> j = ends
    BY <1>2, MatchedEnd
  <2>2. At(n + 1) = {ends}
    BY <1>1, <2>1
  <2>3. n + 1 \in 1..(n + 1)
    BY <1>1
  <2> HIDE DEF At
  <2> QED
    BY <1>3, <2>2, <2>3
<1>5. ASSUME NEW i \in 1..n, i + 1 \in T, i < n => i + 2 \in T PROVE i \in T
  <2>a. i \in 1..(n + 1) /\ i + 1 \in 1..(n + 1) /\ f[i + 1] \in Seq(TokenSet)
    BY <1>1, <1>2
  <2>b. g[i + 1] = At(i + 1)
    BY <1>5
  <2>1. CASE TwoStars(p, i)
    <3>1. i + 2 \in T /\ i + 2 \in 1..(n + 1)
      BY <1>1, <1>5, <2>1 DEF TwoStars
    <3>2. g[i + 2] = At(i + 2) /\ f[i + 2] \in Seq(TokenSet)
      BY <1>2, <3>1
    <3>3. g[i] = {j \in 1..ends : \E e \in g[i + 2] : j <= e}
      BY <1>3, <2>1, Zenon DEF Placed
    <3>4. f[i] = <<".*">> \o f[i + 2] /\ ".*" \in TokenSet
      BY <1>2, <2>1 DEF Translated, TokenSet
    <3>5. ASSUME NEW j \in 1..ends
          PROVE  (\E e \in g[i + 2] : j <= e) <=> Matched(v, f[i], j)
      <4>1. Matched(v, f[i], j) <=>
               \E e \in j..ends : Fits(".*", SubSeq(v, j, e - 1)) /\ Matched(v, f[i + 2], e)
        BY <3>2, <3>4, MatchedFirst
      <4>2. \A e \in j..ends : Fits(".*", SubSeq(v, j, e - 1))
        BY FitsPieces
      <4>3. \A e : e \in j..ends <=> e \in 1..ends /\ j <= e
        BY <1>1
      <4> QED
        BY <3>2, <4>1, <4>2, <4>3
    <3>6. g[i] = At(i)
      BY <3>3, <3>5, Zenon
    <3> QED
      BY <2>a, <3>6
  <2>2. CASE ~TwoStars(p, i)
    <3>1. f[i] = <<Token(p[i])>> \o f[i + 1] /\ Token(p[i]) \in TokenSet
      BY <1>1, <1>2, <2>2 DEF Translated, Token, TokenSet
    <3>2. ASSUME NEW j \in 1..ends
          PROVE  Matched(v, f[i], j) <=>
                    \E e \in j..ends : /\ Fits(Token(p[i]), SubSeq(v, j, e - 1))
                                       /\ e \in g[i + 1]
      <4>1. Matched(v, f[i], j) <=>
               \E e \in j..ends : /\ Fits(Token(p[i]), SubSeq(v, j, e - 1))
                                  /\ Matched(v, f[i + 1], e)
        BY <2>a, <3>1, MatchedFirst
      <4>2. \A e \in j..ends : e \in g[i + 1] <=> Matched(v, f[i + 1], e)
        BY <1>1, <2>b
      <4> QED
        BY <4>1, <4>2
    <3>a. g[i + 1] \subseteq 1..ends
      BY <2>b
    <3>3. CASE p[i] = "*"
      <4>1. g[i] = {j \in 1..ends : \E e \in g[i + 1] :
                       j <= e /\ \A k \in j..(e - 1) : v[k] # "/"}
        BY <1>3, <2>2, <3>3, Zenon DEF Placed
      <4>2. Token(p[i]) = "[^/]*"
        BY <3>3 DEF Token
      <4>3. ASSUME NEW j \in 1..ends
            PROVE  (\E e \in g[i + 1] : j <= e /\ \A k \in j..(e - 1) : v[k] # "/")
                      <=> Matched(v, f[i], j)
        <5>1. \A e \in j..ends : Fits("[^/]*", SubSeq(v, j, e - 1))
                                    <=> \A k \in j..(e - 1) : v[k] # "/"
          BY FitsPieces
        <5>2. \A e \in g[i + 1] : e \in j..ends <=> j <= e
          BY <1>1, <3>a
        <5>3. \A e \in j..ends : j <= e
          BY <1>1
        <5>4. Matched(v, f[i], j) <=>
                 \E e \in j..ends : Fits("[^/]*", SubSeq(v, j, e - 1)) /\ e \in g[i + 1]
          BY <3>2, <4>2
        <5> QED
          BY <5>1, <5>2, <5>3, <5>4, Zenon
      <4>4. g[i] = At(i)
        BY <4>1, <4>3, Zenon
      <4> QED
        BY <2>a, <4>4
    <3>4. CASE p[i] # "*"
      <4> DEFINE One(j) == IF p[i] = "?" THEN v[j] # "/" ELSE v[j] = p[i]
      <4>1. g[i] = {j \in 1..Len(v) : One(j) /\ j + 1 \in g[i + 1]}
        BY <1>3, <2>2, <3>4, Zenon DEF Placed
      <4>2. ASSUME NEW j \in 1..ends, NEW e \in j..ends
            PROVE  Fits(Token(p[i]), SubSeq(v, j, e - 1)) <=> e = j + 1 /\ One(j)
        <5>1. CASE p[i] = "?"
          <6>1. Token(p[i]) = "[^/]"
            BY <5>1 DEF Token
          <6>2. Fits("[^/]", SubSeq(v, j, e - 1)) <=> e = j + 1 /\ v[j] # "/"
            BY FitsPieces
          <6> QED
            BY <5>1, <6>1, <6>2
        <5>2. CASE p[i] # "?"
          <6>1. /\ Token(p[i]) = p[i]
                /\ p[i] \notin {".*", "[^/]*", "[^/]"}
            BY <1>1, <3>4, <5>2, AlgorithmsAssumption DEF Token
          <6>2. Fits(p[i], SubSeq(v, j, e - 1)) <=> e = j + 1 /\ v[j] = p[i]
            BY <6>1, FitsPieces
          <6> QED
            BY <5>2, <6>1, <6>2
        <5> QED
          BY <5>1, <5>2
      <4> HIDE DEF One
      <4>3. ASSUME NEW j \in 1..ends
            PROVE  (j \in 1..Len(v) /\ One(j) /\ j + 1 \in g[i + 1]) <=> Matched(v, f[i], j)
        <5>1. j \in 1..Len(v) <=> j + 1 \in j..ends
          BY <1>1
        <5> QED
          BY <3>2, <4>2, <5>1
      <4>4. 1..Len(v) \subseteq 1..ends
        BY <1>1
      <4>5. g[i] = At(i)
        BY <4>1, <4>3, <4>4, Zenon
      <4> QED
        BY <2>a, <4>5
    <3> QED
      BY <3>3, <3>4
  <2> QED
    BY <2>1, <2>2
<1>6. \A i \in 1..(n + 1) : i \in T
  <2> HIDE DEF T, n
  <2> QED
    BY <1>1, <1>4, <1>5, DownFrom
<1>7. g[1] = At(1)
  BY <1>1, <1>6
<1> QED
  BY <1>7 DEF g, f, tokens

\* For patterns and values of any length over any ASCII characters, a glob matches
\* exactly what its pattern means.
THEOREM GlobsMeanPatterns == Spec => []GlobMeansPattern
<1>1. ASSUME IsCase PROVE GlobMeansPattern
  <2> DEFINE p == case.pattern
             v == case.value
  <2> SUFFICES ASSUME case.about = "glob" PROVE glob(p, v) <=> 1 \in Places(p, v)[1]
    BY DEF GlobMeansPattern
  <2>1. p \in Seq(PatternChars) /\ v \in Seq(ValueChars)
    BY <1>1, Kinds, AlgorithmsAssumption, TextsAreSequences DEF GlobCases
  <2> HIDE DEF p, v
  <2>2. glob(p, v) <=> Matched(v, tokens(p), 1)
    BY DEF glob, Matched
  <2>3. 1 \in 1..(Len(v) + 1)
    BY <2>1
  <2> QED
    BY <2>1, <2>2, <2>3, PlacesMatched
<1> QED
  BY <1>1, CaseKept, PTL

================================================================================
