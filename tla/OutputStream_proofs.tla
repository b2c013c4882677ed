------------------------- MODULE OutputStream_proofs --------------------------
(***************************************************************************)
(* What is stored of a command's output, what the CLI prints of it and the *)
(* exit code it returns, for any number of streams, buffers and limits of  *)
(* any size, any number of failed store calls and restarts.                *)
(***************************************************************************)
EXTENDS OutputStream, Sums_proofs

-----------------------------------------------------------------------------
(* The inductive invariant.                                                 *)

Holds(s) == drain[s] \in {"append", "update"}
RowsOf(s) == {c \in chunks : c.stream = s}
Pending(s) == IF Holds(s) THEN Size(buffer[s]) ELSE 0
Frontier(s) == IF Holds(s) THEN buffer[s].from ELSE taken[s]

\* A drain holds what it read last; one drain at a time is between its insert and
\* its update, and no more is stored once output was cut.  The drains have ended
\* when the outcome is stored.
DrainSound ==
    /\ \A s \in Streams : Holds(s) => /\ buffer[s].from <= buffer[s].to
                                      /\ buffer[s].to = taken[s]
    /\ \A s \in Streams : drain[s] = "update" =>
          ~truncated /\ \A r \in Streams : drain[r] = "update" => r = s
    /\ Ended \/ restarts > 0 => \A s \in Streams : drain[s] = "done"
    /\ \A s \in Streams : taken[s] <= written[s]

\* The rows have different sequence numbers, all taken; no reader is beyond them.
TableSound ==
    /\ IsFiniteSet(chunks)
    /\ \A c \in chunks : c.seq < sequence /\ c.from < c.to /\ c.to <= taken[c.stream]
    /\ \A c, d \in chunks : c.seq = d.seq => c = d
    /\ next <= sequence /\ after <= sequence

\* What was read of a stream is stored or held, unless it was reported or failed.
Accounted ==
    /\ \A s \in Streams : SizeOf(RowsOf(s)) + Pending(s) <= taken[s]
    /\ faults = 0 /\ restarts = 0 /\ ~truncated =>
          \A s \in Streams : SizeOf(RowsOf(s)) + Pending(s) = taken[s]

\* The rows of a stream follow each other, and what is stored next follows them.
PrefixSound ==
    faults = 0 =>
        /\ \A c \in chunks : c.from > 0 =>
              \E d \in chunks : d.stream = c.stream /\ d.seq < c.seq /\ d.to = c.from
        /\ ~truncated => \A s \in Streams : drain[s] # "done" /\ Frontier(s) > 0 =>
              \E d \in chunks : d.stream = s /\ d.to = Frontier(s)

\* The counter is the size of the table, but for the row of a drain that has yet to
\* update it.
CapSound ==
    faults = 0 =>
        /\ SizeOf(chunks) <= PersistedBytes
        /\ restarts = 0 /\ Captured => counted = SizeOf(chunks)
        /\ restarts = 0 => \A s \in Streams : drain[s] = "update" =>
              SizeOf(chunks) = counted + LastOf(s)

\* The stored outcome is the command's, or none at all because the daemon ended.
OutcomeSound ==
    /\ waiter # "wait" => command # "running"
    /\ Ended => waiter = "finished"
    /\ outcome \in {"none", "-", command}
    /\ restarts = 0 => outcome \in {"none", command}

\* A finished event tells the outcome and the truncation of an ended request.
Tells(e) ==
    /\ Ended /\ e.truncated = truncated
    /\ e.outcome \in {outcome, "-"}
    /\ faults = 0 => e.outcome = outcome

\* A stream ends with its one finished or error event; its output events are rows.
\* A CLI that is not watching has no stream.
WireSound ==
    /\ client # "watching" => wire = <<>> /\ watch = "none"
    /\ \A i \in 1..Len(wire) :
          /\ wire[i].type \in {"output", "error", "finished"}
          /\ wire[i].type = "output" => wire[i].body \in chunks
          /\ wire[i].type # "output" => i = Len(wire) /\ watch = "none"
          /\ wire[i].type = "finished" => Tells(wire[i])

\* The CLI returns what the finished event told it.
CodeSound ==
    /\ client = "finished" => /\ Ended /\ told = truncated
                              /\ code \in {Returned(outcome), "error"}
                              /\ faults = 0 => code = Returned(outcome)
    /\ client # "finished" => code \in {"none", "error"}

Sent(d, n) == \E j \in 1..n : wire[j].type = "output" /\ wire[j].body = d

\* Before a row that is under way come all the rows that the CLI has not had and
\* that were stored before it; the handler has sent all of them up to its place.
NoGap ==
    /\ \A i \in 1..Len(wire) : wire[i].type = "output" =>
          \A d \in chunks : next <= d.seq /\ d.seq < wire[i].body.seq => Sent(d, i - 1)
    /\ watch # "none" => \A d \in chunks : next <= d.seq /\ d.seq < after =>
                                               Sent(d, Len(wire))

\* The inductive invariant.
OutputInv ==
    /\ TypeOK /\ DrainSound /\ TableSound
    /\ Accounted /\ PrefixSound /\ CapSound
    /\ OutcomeSound /\ WireSound /\ CodeSound
    /\ NoGap /\ PrintedOnce

-----------------------------------------------------------------------------
(* Events.                                                                  *)

\* What the three kinds of events carry.
LEMMA EventFields ==
    /\ \A c \in Row : Output(c) \in Event /\ Output(c).type = "output" /\ Output(c).body = c
    /\ Broken \in Event /\ Broken.type = "error"
    /\ truncated \in BOOLEAN =>
          \A how \in Exits : /\ FinishedEvent(how) \in Event
                             /\ FinishedEvent(how).type = "finished"
                             /\ FinishedEvent(how).truncated = truncated
                             /\ FinishedEvent(how).outcome = how
BY DEF Output, Broken, FinishedEvent, Event

\* An output event carries a row, a finished event an outcome.
LEMMA EventKinds ==
    ASSUME NEW e \in Event
    PROVE  /\ e.type \in {"output", "error", "finished"}
           /\ e.type = "output" => e.body \in Row
           /\ e.type = "finished" => e.truncated \in BOOLEAN /\ e.outcome \in Exits
<1>1. CASE e \in [type : {"output"}, body : Row]
  BY <1>1
<1>2. CASE e = Broken
  BY <1>2 DEF Broken
<1>3. CASE e \in [type : {"finished"}, truncated : BOOLEAN, outcome : Exits]
  BY <1>3
<1> QED
  BY <1>1, <1>2, <1>3 DEF Event

-----------------------------------------------------------------------------
(* The stored order of rows.                                                *)

\* A finite set of rows with different sequence numbers.
Table(S) ==
    /\ IsFiniteSet(S) /\ S \subseteq Row
    /\ \A c, d \in S : c.seq = d.seq => c = d

Rank(c, S) == Cardinality({d \in S : d.seq < c.seq})

\* The ranks are the numbers below the size of the table, each once, and follow the
\* sequence numbers.
LEMMA Ranks ==
    ASSUME NEW S, Table(S)
    PROVE  /\ Cardinality(S) \in Nat
           /\ \A c \in S : Rank(c, S) \in 0..(Cardinality(S) - 1)
           /\ \A c, d \in S : c.seq < d.seq => Rank(c, S) < Rank(d, S)
           /\ \A k \in 0..(Cardinality(S) - 1) : \E c \in S : Rank(c, S) = k
<1> DEFINE n == Cardinality(S)
           Below(c) == {d \in S : d.seq < c.seq}
<1>1. IsFiniteSet(S) /\ n \in Nat /\ \A c \in S : c.seq \in Nat
  BY FS_CardinalityType DEF Table, Row
<1>2. ASSUME NEW c \in S
      PROVE  /\ IsFiniteSet(Below(c)) /\ Rank(c, S) \in Nat /\ c \notin Below(c)
             /\ Cardinality(Below(c) \cup {c}) = Rank(c, S) + 1
             /\ IsFiniteSet(Below(c) \cup {c})
  <2>1. IsFiniteSet(Below(c))
    BY <1>1, FS_Subset
  <2>2. c \notin Below(c)
    BY <1>1
  <2> HIDE DEF Below
  <2>3. Cardinality(Below(c)) \in Nat
    BY <2>1, FS_CardinalityType
  <2>4. IsFiniteSet(Below(c) \cup {c}) /\ Cardinality(Below(c) \cup {c}) = Cardinality(Below(c)) + 1
    BY <2>1, <2>2, FS_AddElement
  <2> QED
    BY <2>1, <2>2, <2>3, <2>4 DEF Rank, Below
<1>3. ASSUME NEW c \in S PROVE Rank(c, S) \in 0..(n - 1)
  <2>1. Below(c) \cup {c} \in SUBSET S
    OBVIOUS
  <2> HIDE DEF Below
  <2>2. Cardinality(Below(c) \cup {c}) <= n
    BY <1>1, <2>1, FS_Subset
  <2> QED
    BY <1>1, <1>2, <2>2
<1>4. ASSUME NEW c \in S, NEW d \in S, c.seq < d.seq PROVE Rank(c, S) < Rank(d, S)
  <2>1. \A x \in S : x.seq < c.seq => x.seq < d.seq
    BY <1>1, <1>4
  <2>2. Below(c) \cup {c} \in SUBSET Below(d)
    BY <1>4, <2>1
  <2>3. Cardinality(Below(d)) = Rank(d, S)
    BY DEF Rank
  <2> HIDE DEF Below
  <2>4. Cardinality(Below(c) \cup {c}) <= Cardinality(Below(d))
    BY <1>2, <2>2, FS_Subset
  <2>5. Rank(c, S) \in Nat /\ Rank(d, S) \in Nat
        /\ Cardinality(Below(c) \cup {c}) = Rank(c, S) + 1
    BY <1>2
  <2> QED
    BY <2>3, <2>4, <2>5
<1>5. ASSUME NEW k \in 0..(n - 1) PROVE \E c \in S : Rank(c, S) = k
  <2> DEFINE r == [c \in S |-> Rank(c, S)]
             K == 0..(n - 1)
  <2>1. r \in [S -> K]
    BY <1>3
  <2>2. \A c, d \in S : r[c] = r[d] => c = d
    <3> SUFFICES ASSUME NEW c \in S, NEW d \in S, Rank(c, S) = Rank(d, S) PROVE c = d
      OBVIOUS
    <3>1. ~(c.seq < d.seq) /\ ~(d.seq < c.seq)
      <4>1. Rank(c, S) \in Nat /\ Rank(d, S) \in Nat
        BY <1>2
      <4>2. ~(Rank(c, S) < Rank(d, S)) /\ ~(Rank(d, S) < Rank(c, S))
        BY <4>1
      <4> QED
        BY <1>4, <4>2
    <3>2. c.seq = d.seq
      BY <1>1, <3>1
    <3> QED
      BY <3>2 DEF Table
  <2>3. r \in Injection(S, K)
    BY <2>1, <2>2 DEF Injection, IsInjective
  <2>4. IsFiniteSet(K) /\ Cardinality(K) = n
    BY <1>1, FS_Interval
  <2> HIDE DEF r, K
  <2>5. r \in Surjection(S, K)
    BY <2>3, <2>4, FS_Injection
  <2>6. \E c \in S : r[c] = k
    BY <2>5 DEF Surjection, K
  <2> QED
    BY <2>6 DEF r
<1> QED
  BY <1>1, <1>3, <1>4, <1>5

\* The stored order puts the row of rank k at position k + 1.
LEMMA StoredOrder ==
    ASSUME NEW S, Table(S)
    PROVE  LET q == ByStoredOrder(S)
               n == Cardinality(S)
           IN  /\ n \in Nat /\ q \in [1..n -> S] /\ q \in Seq(S) /\ Len(q) = n
               /\ \A i \in 1..n : Rank(q[i], S) = i - 1
               /\ \A c \in S : Rank(c, S) + 1 \in 1..n /\ q[Rank(c, S) + 1] = c
<1> DEFINE q == ByStoredOrder(S)
           n == Cardinality(S)
<1>1. n \in Nat /\ \A c \in S : Rank(c, S) \in 0..(n - 1) /\ c.seq \in Nat
  BY Ranks DEF Table, Row
<1>2. \A c, d \in S : Rank(c, S) = Rank(d, S) => c = d
  <2> SUFFICES ASSUME NEW c \in S, NEW d \in S, Rank(c, S) = Rank(d, S) PROVE c = d
    OBVIOUS
  <2>1. ~(Rank(c, S) < Rank(d, S)) /\ ~(Rank(d, S) < Rank(c, S))
    BY <1>1
  <2>2. ~(c.seq < d.seq) /\ ~(d.seq < c.seq)
    BY <2>1, Ranks
  <2>3. c.seq = d.seq
    BY <1>1, <2>2
  <2> QED
    BY <2>3 DEF Table
<1>3. q = [i \in 1..n |-> CHOOSE c \in S : Rank(c, S) = i - 1]
  BY DEF ByStoredOrder, Rank
<1>4. ASSUME NEW i \in 1..n PROVE q[i] \in S /\ Rank(q[i], S) = i - 1
  <2>1. i - 1 \in 0..(n - 1)
    BY <1>1
  <2>2. \E c \in S : Rank(c, S) = i - 1
    BY <2>1, Ranks
  <2>3. q[i] = CHOOSE c \in S : Rank(c, S) = i - 1
    BY <1>3
  <2> HIDE DEF q
  <2> QED
    BY <2>2, <2>3
<1> HIDE DEF q
<1>5. q \in [1..n -> S]
  BY <1>3, <1>4
<1>6. q \in Seq(S) /\ Len(q) = n
  BY <1>1, <1>5
<1>7. ASSUME NEW c \in S PROVE Rank(c, S) + 1 \in 1..n /\ q[Rank(c, S) + 1] = c
  <2>1. Rank(c, S) + 1 \in 1..n /\ (Rank(c, S) + 1) - 1 = Rank(c, S)
    BY <1>1
  <2>2. q[Rank(c, S) + 1] \in S /\ Rank(q[Rank(c, S) + 1], S) = Rank(c, S)
    BY <1>4, <2>1
  <2> QED
    BY <1>2, <2>1, <2>2
<1> QED
  BY <1>1, <1>4, <1>5, <1>6, <1>7 DEF q

\* A row above all others is the last one of the stored order.
LEMMA StoredLast ==
    ASSUME NEW S, NEW c, Table(S \cup {c}), \A d \in S : d.seq < c.seq
    PROVE  ByStoredOrder(S \cup {c}) = Append(ByStoredOrder(S), c)
<1> DEFINE T == S \cup {c}
           q == ByStoredOrder(S)
           p == ByStoredOrder(T)
           n == Cardinality(S)
<1>1. Table(S) /\ IsFiniteSet(S) /\ c.seq \in Nat
  BY FS_Subset DEF Table, Row
<1>2. c \notin S
  BY <1>1
<1>3. n \in Nat /\ Cardinality(T) = n + 1
  BY <1>1, <1>2, FS_AddElement, FS_CardinalityType
<1>4. \A d \in S : Rank(d, T) = Rank(d, S)
  <2> SUFFICES ASSUME NEW d \in S PROVE {x \in T : x.seq < d.seq} = {x \in S : x.seq < d.seq}
    BY DEF Rank
  <2>1. d.seq \in Nat /\ d.seq < c.seq
    BY <1>1 DEF Table, Row
  <2>2. ~(c.seq < d.seq)
    BY <1>1, <2>1
  <2> QED
    BY <2>2
<1>5. Rank(c, T) = n
  <2>1. ~(c.seq < c.seq)
    BY <1>1
  <2>2. {x \in T : x.seq < c.seq} = S
    BY <2>1
  <2> QED
    BY <2>2 DEF Rank
<1>6. /\ q \in [1..n -> S] /\ q \in Seq(S) /\ Len(q) = n
      /\ \A i \in 1..n : Rank(q[i], S) = i - 1
  BY <1>1, StoredOrder
<1>7. /\ p \in Seq(T) /\ Len(p) = n + 1
      /\ \A d \in T : p[Rank(d, T) + 1] = d
  BY <1>3, StoredOrder
<1>8. p[n + 1] = c
  BY <1>5, <1>7
<1>9. ASSUME NEW i \in 1..n PROVE p[i] = q[i]
  <2>1. q[i] \in S /\ Rank(q[i], T) = i - 1
    BY <1>4, <1>6
  <2>2. p[(i - 1) + 1] = q[i]
    BY <1>7, <2>1
  <2>3. (i - 1) + 1 = i
    BY <1>3
  <2> QED
    BY <2>2, <2>3
<1> HIDE DEF p, q, n, T
<1>10. /\ p \in Seq(T) /\ Append(q, c) \in Seq(T)
       /\ Len(p) = n + 1 /\ Len(Append(q, c)) = n + 1
       /\ \A i \in 1..(n + 1) : p[i] = Append(q, c)[i]
  <2>1. q \in Seq(T) /\ c \in T
    BY <1>6 DEF T
  <2> QED
    BY <1>3, <1>6, <1>7, <1>8, <1>9, <2>1
<1>11. p = Append(q, c)
  BY <1>3, <1>10
<1> QED
  BY <1>11 DEF p, q, T

\* OutputAfter returns the rows from n on up to some row, in their order, and leaves
\* none out between them.
LEMMA BatchSound ==
    ASSUME Table(chunks), NEW n \in Nat
    PROVE  LET b == Batch(n)
           IN  /\ b \in Seq(chunks) /\ Len(b) \in Nat
               /\ \A i \in 1..Len(b) :
                     /\ b[i] \in chunks /\ b[i].seq \in Nat /\ n <= b[i].seq
                     /\ \A d \in chunks : n <= d.seq /\ d.seq < b[i].seq =>
                           \E j \in 1..(i - 1) : b[j] = d
<1> DEFINE S == {c \in chunks : c.seq >= n}
           rows == ByStoredOrder(S)
           K == {k \in 0..Len(rows) :
                    k <= 1 \/ SizeOf({rows[i] : i \in 1..k}) <= LiveBytes}
           k == Max(K)
           b == SubSeq(rows, 1, k)
<1>1. Table(S) /\ \A c \in chunks : c.seq \in Nat
  BY FS_Subset DEF Table, Row
<1>2. Batch(n) = b
  BY DEF Batch
<1> HIDE DEF S
<1>3. /\ rows \in Seq(S) /\ Len(rows) = Cardinality(S) /\ Cardinality(S) \in Nat
      /\ \A i \in 1..Len(rows) : Rank(rows[i], S) = i - 1
      /\ \A c \in S : Rank(c, S) + 1 \in 1..Len(rows) /\ rows[Rank(c, S) + 1] = c
  BY <1>1, StoredOrder
<1> HIDE DEF rows
<1>4. K \in SUBSET Nat /\ 0 \in K /\ Len(rows) \in Nat /\ \A x \in K : x <= Len(rows)
  BY <1>3
<1>5. k \in 0..Len(rows)
  <2> HIDE DEF K
  <2>1. \E g \in K : \A x \in K : g >= x
    BY <1>4, GreatestNatural
  <2>2. k \in K
    BY <2>1 DEF Max
  <2> QED
    BY <1>4, <2>2 DEF K
<1> HIDE DEF k, K
<1>6. b \in Seq(S) /\ Len(b) = k /\ \A i \in 1..k : b[i] = rows[i]
  BY <1>3, <1>5
<1>7. S \subseteq chunks /\ \A c \in S : n <= c.seq
  BY <1>1 DEF S
<1>8. b \in Seq(chunks)
  BY <1>6, <1>7
<1> HIDE DEF b
<1>9. ASSUME NEW i \in 1..k, NEW d \in chunks, n <= d.seq, d.seq < b[i].seq
      PROVE  \E j \in 1..(i - 1) : b[j] = d
  <2>1. d \in S /\ b[i] \in S /\ b[i] = rows[i] /\ i \in 1..Len(rows)
    BY <1>1, <1>3, <1>5, <1>6, <1>9 DEF S
  <2>2. Rank(d, S) < Rank(b[i], S)
    BY <1>1, <1>9, <2>1, Ranks
  <2>3. Rank(d, S) \in Nat /\ Rank(b[i], S) = i - 1
    BY <1>1, <1>3, <2>1, Ranks
  <2> DEFINE j == Rank(d, S) + 1
  <2>4. j \in 1..(i - 1) /\ j \in 1..k
    BY <1>5, <2>2, <2>3
  <2>5. rows[j] = d
    BY <1>3, <2>1
  <2> QED
    BY <1>6, <2>4, <2>5
<1>10. ASSUME NEW i \in 1..k
       PROVE  b[i] \in chunks /\ b[i].seq \in Nat /\ n <= b[i].seq
  <2>1. b[i] \in S
    BY <1>5, <1>6
  <2> QED
    BY <1>1, <1>7, <2>1
<1> QED
  BY <1>2, <1>5, <1>6, <1>8, <1>9, <1>10

-----------------------------------------------------------------------------
(* The size of a set of rows.                                               *)

\* Rows of a positive size.
Sized(S) == IsFiniteSet(S) /\ \A c \in S : Size(c) \in Nat

\* SizeOf adds up the sizes of the rows as Total does.
LEMMA SizeIsTotal ==
    ASSUME NEW S, Sized(S)
    PROVE  SizeOf(S) = Total([x \in S |-> Size(x)])
<1> DEFINE Pick(s) == CHOOSE x \in s : TRUE
           f == [x \in S |-> Size(x)]
           Adds(g) == g = [s \in SUBSET S |->
                              IF s = {} THEN 0 ELSE Size(Pick(s)) + g[s \ {Pick(s)}]]
           k == CHOOSE g : Adds(g)
<1>1. SizeOf(S) = k[S]
  BY DEF SizeOf, MapThenSumSet, MapThenFoldSet
<1>2. f \in [S -> Nat] /\ IsFiniteSet(S) /\ \A x \in S : f[x] = Size(x)
  BY DEF Sized
<1>3. \A s \in SUBSET S : s # {} => Pick(s) \in S
  OBVIOUS
<1>4. ASSUME NEW g PROVE Adds(g) <=> Folds(g, f)
  <2> DEFINE F == [s \in SUBSET S |-> IF s = {} THEN 0 ELSE Size(Pick(s)) + g[s \ {Pick(s)}]]
             G == [s \in SUBSET S |-> IF s = {} THEN 0 ELSE f[Pick(s)] + g[s \ {Pick(s)}]]
  <2>1. DOMAIN f = S
    OBVIOUS
  <2>2. Folds(g, f) <=> g = G
    BY <2>1 DEF Folds
  <2> HIDE DEF Pick, f
  <2>3. F = G
    BY <1>2, <1>3
  <2> QED
    BY <2>2, <2>3
<1> HIDE DEF f, Adds
<1>5. Adds(k)
  BY <1>2, <1>4, FoldExists
<1> HIDE DEF k
<1>6. IsSum(k, f)
  BY <1>2, <1>4, <1>5, FoldIsSum
<1>7. PICK g : IsSum(g, f) /\ Total(f) = g[S]
  BY <1>2, TotalIsSum
<1>8. k[S] = g[S]
  BY <1>2, <1>6, <1>7, SumsAgree
<1> QED
  BY <1>1, <1>7, <1>8 DEF f

\* The size of rows is a number; it grows by the size of a row that is added, and
\* no row gives none.
LEMMA SizeWith ==
    ASSUME NEW S, Sized(S), NEW c, c \notin S, Size(c) \in Nat
    PROVE  SizeOf(S) \in Nat /\ SizeOf(S \cup {c}) = SizeOf(S) + Size(c)
<1> DEFINE f == [x \in S |-> Size(x)]
           h == [x \in S \cup {c} |-> Size(x)]
<1>1. /\ IsFiniteSet(S) /\ f \in [S -> Nat] /\ h \in [S \cup {c} -> Nat]
      /\ h[c] = Size(c) /\ \A x \in S : h[x] = f[x]
  BY DEF Sized
<1> HIDE DEF f, h
<1>2. Total(f) \in Nat /\ Total(h) = Total(f) + h[c]
  BY <1>1, TotalWith
<1>3. Sized(S \cup {c})
  BY FS_AddElement DEF Sized
<1> QED
  BY <1>1, <1>2, <1>3, SizeIsTotal DEF f, h

\* The size of no row and of one.
LEMMA SizeFew ==
    /\ SizeOf({}) = 0
    /\ \A c : Size(c) \in Nat => SizeOf({c}) = Size(c)
<1>1. SizeOf({}) = 0
  <2> DEFINE f == [x \in {} |-> Size(x)]
  <2>1. f \in [{} -> Nat] /\ \A x \in {} : f[x] = 0
    OBVIOUS
  <2> HIDE DEF f
  <2>2. Total(f) = 0
    BY <2>1, FS_EmptySet, TotalZero
  <2>3. Sized({})
    BY FS_EmptySet DEF Sized
  <2> QED
    BY <2>2, <2>3, SizeIsTotal DEF f
<1>2. ASSUME NEW c, Size(c) \in Nat PROVE SizeOf({c}) = Size(c)
  <2>1. Sized({}) /\ c \notin {}
    BY FS_EmptySet DEF Sized
  <2>2. SizeOf({} \cup {c}) = SizeOf({}) + Size(c)
    BY <1>2, <2>1, SizeWith
  <2>3. {} \cup {c} = {c}
    OBVIOUS
  <2> QED
    BY <1>1, <1>2, <2>2, <2>3
<1> QED
  BY <1>1, <1>2

\* The size of a finite set of rows is a number.
LEMMA SizeType ==
    ASSUME NEW S, Sized(S)
    PROVE  SizeOf(S) \in Nat
<1>1. [x \in S |-> Size(x)] \in [S -> Nat] /\ IsFiniteSet(S)
  BY DEF Sized
<1> QED
  BY <1>1, TotalType, SizeIsTotal

-----------------------------------------------------------------------------
(* Types.                                                                   *)

\* A pipe is read up to the end of what was written or of the buffer.
LEMMA ReadUpTo ==
    ASSUME TypeOK, DrainSound, NEW s \in Streams, taken[s] < written[s]
    PROVE  LET upto == Min({written[s], taken[s] + BufferBytes})
           IN  upto \in 0..MaxWritten /\ taken[s] < upto /\ upto <= written[s]
<1> DEFINE S == {written[s], taken[s] + BufferBytes}
<1>1. {written[s], taken[s], BufferBytes, MaxWritten} \subseteq Nat /\ BufferBytes > 0
      /\ written[s] <= MaxWritten
  BY OutputAssumption DEF TypeOK
<1>2. \E m \in S : \A k \in S : m <= k
  BY <1>1
<1>3. Min(S) \in S /\ \A k \in S : Min(S) <= k
  BY <1>2 DEF Min
<1> QED
  BY <1>1, <1>3

\* What is kept of n bytes is no more than those and than the cap leaves.
LEMMA KeptBounded ==
    ASSUME counted \in Nat, NEW n \in Nat, NEW kept \in Kept(n)
    PROVE  /\ kept \in Nat /\ kept <= n
           /\ counted <= PersistedBytes => counted + kept <= PersistedBytes
<1> DEFINE room == IF counted > PersistedBytes THEN 0 ELSE PersistedBytes - counted
           S == {n, room}
<1>1. /\ PersistedBytes \in Nat /\ room \in Nat
      /\ counted <= PersistedBytes => room = PersistedBytes - counted
  BY OutputAssumption DEF ValidOutput
<1>2. kept \in {Min(S), 0}
  BY DEF Kept
<1> HIDE DEF room
<1>3. \E m \in S : \A k \in S : m <= k
  <2>1. CASE n <= room
    BY <1>1, <2>1
  <2>2. CASE room <= n
    BY <1>1, <2>2
  <2> QED
    BY <1>1, <2>1, <2>2
<1>4. Min(S) \in S /\ \A k \in S : Min(S) <= k
  BY <1>3 DEF Min
<1>5. Min(S) \in Nat /\ Min(S) <= n /\ Min(S) <= room
  BY <1>1, <1>4
<1>6. kept \in Nat /\ kept <= n /\ kept <= room
  <2> HIDE DEF S
  <2> QED
    BY <1>1, <1>2, <1>5
<1> QED
  BY <1>1, <1>6

\* An interval is a record of two numbers.
LEMMA Interval ==
    ASSUME NEW b \in [from : Nat, to : Nat], NEW n \in Nat
    PROVE  /\ [b EXCEPT !.from = n] \in [from : Nat, to : Nat]
           /\ [b EXCEPT !.from = n].from = n /\ [b EXCEPT !.from = n].to = b.to
OBVIOUS

\* What the types say of the numbers.
LEMMA Numbers ==
    ASSUME TypeOK
    PROVE  /\ drain \in [Streams -> {"read", "append", "update", "done"}]
           /\ \A s \in Streams : /\ taken[s] \in Nat /\ written[s] \in Nat
                                 /\ buffer[s].from \in Nat /\ buffer[s].to \in Nat
           /\ {restarts, faults, sequence, next, after, counted} \subseteq Nat
           /\ \A c \in chunks : /\ c \in Row /\ c.stream \in Streams
                                /\ c.seq \in Nat /\ c.from \in Nat /\ c.to \in Nat
<1>1. /\ drain \in [Streams -> {"read", "append", "update", "done"}]
      /\ buffer \in [Streams -> [from : Nat, to : Nat]]
      /\ taken \in [Streams -> 0..MaxWritten] /\ written \in [Streams -> 0..MaxWritten]
      /\ restarts \in 0..MaxRestarts /\ faults \in 0..MaxFaults
      /\ {sequence, counted, next, after} \subseteq Nat /\ chunks \in SUBSET Row
  BY DEF TypeOK
<1>2. \A s \in Streams : buffer[s].from \in Nat /\ buffer[s].to \in Nat
  BY <1>1
<1>3. \A s \in Streams : taken[s] \in Nat /\ written[s] \in Nat
  BY <1>1
<1>4. \A c \in chunks : /\ c \in Row /\ c.stream \in Streams
                        /\ c.seq \in Nat /\ c.from \in Nat /\ c.to \in Nat
  BY <1>1 DEF Row
<1> QED
  BY <1>1, <1>2, <1>3, <1>4

\* A failed store call is counted.
LEMMA FaultStep ==
    ASSUME TypeOK, Fault
    PROVE  faults' \in 0..MaxFaults /\ faults' # 0
BY OutputAssumption DEF Fault, TypeOK

NewRow(s, kept) ==
    [seq |-> sequence, stream |-> s, from |-> buffer[s].from, to |-> buffer[s].from + kept]

\* The two ways in which a drain leaves the insert: with a chunk, some or none of
\* which is stored, and with a chunk that is dropped.
Keeps(s, kept) ==
    /\ ~truncated /\ faults' = faults
    /\ drain' = [drain EXCEPT ![s] = "update"]
    /\ chunks' = IF kept > 0 THEN chunks \cup {NewRow(s, kept)} ELSE chunks
    /\ buffer' \in [Streams -> [from : Nat, to : Nat]]
    /\ buffer'[s].from = buffer[s].from + kept /\ buffer'[s].to = buffer[s].to
    /\ \A r \in Streams \ {s} : buffer'[r] = buffer[r]
Drops(s) ==
    /\ (truncated /\ faults' = faults) \/ Fault
    /\ drain' = [drain EXCEPT ![s] = "read"]
    /\ UNCHANGED <<buffer, chunks>>

\* What AppendInsert does, in these terms.
LEMMA InsertCases ==
    ASSUME TypeOK, DrainSound, NEW s \in Streams, AppendInsert(s)
    PROVE  /\ drain[s] = "append" /\ Captured /\ sequence' = sequence + 1
           /\ UNCHANGED <<written, command, waiter, taken, counted, truncated, outcome,
                          watch, after, wire, client, next, printed, told, code, restarts>>
           /\ buffer[s] \in [from : Nat, to : Nat] /\ Size(buffer[s]) \in Nat
           /\ \/ Drops(s)
              \/ \E kept \in Nat : /\ kept \in Kept(Size(buffer[s])) /\ Keeps(s, kept)
                                   /\ kept <= Size(buffer[s]) /\ NewRow(s, kept) \in Row
<1> DEFINE b == buffer[s]
<1>1. /\ drain[s] = "append" /\ Captured /\ sequence' = sequence + 1
      /\ UNCHANGED <<written, command, waiter, taken, counted, truncated, outcome,
                     watch, after, wire, client, next, printed, told, code, restarts>>
  BY DEF AppendInsert, commandVars, watchVars, clientVars
<1>2. /\ buffer \in [Streams -> [from : Nat, to : Nat]] /\ sequence \in Nat
      /\ drain \in [Streams -> {"read", "append", "update", "done"}]
  BY DEF TypeOK
<1>3. b \in [from : Nat, to : Nat] /\ b.from <= b.to /\ Size(b) \in Nat
  BY <1>1, <1>2 DEF DrainSound, Holds, Size
<1>4. CASE /\ ~truncated
           /\ \E kept \in Kept(Size(b)) :
                /\ chunks' = IF kept > 0 THEN chunks \cup {NewRow(s, kept)} ELSE chunks
                /\ buffer' = [buffer EXCEPT ![s].from = @ + kept]
           /\ drain' = [drain EXCEPT ![s] = "update"]
           /\ UNCHANGED faults
  <2>1. PICK kept \in Kept(Size(b)) :
            /\ chunks' = IF kept > 0 THEN chunks \cup {NewRow(s, kept)} ELSE chunks
            /\ buffer' = [buffer EXCEPT ![s].from = @ + kept]
    BY <1>4
  <2>2. kept \in Nat /\ kept <= Size(b) /\ b.from \in Nat /\ b.from + kept \in Nat
    BY <1>3, KeptBounded DEF TypeOK
  <2>3. NewRow(s, kept) \in Row
    BY <1>2, <2>2 DEF NewRow, Row
  <2> DEFINE cut == [b EXCEPT !.from = b.from + kept]
  <2>4. buffer' = [buffer EXCEPT ![s] = cut]
    BY <2>1
  <2>5. cut \in [from : Nat, to : Nat] /\ cut.from = b.from + kept /\ cut.to = b.to
    BY <1>3, <2>2, Interval
  <2> HIDE DEF cut
  <2>6. /\ buffer' \in [Streams -> [from : Nat, to : Nat]] /\ buffer'[s] = cut
        /\ \A r \in Streams \ {s} : buffer'[r] = buffer[r]
    BY <1>2, <2>4, <2>5
  <2>7. Keeps(s, kept)
    BY <1>4, <2>1, <2>5, <2>6 DEF Keeps
  <2> HIDE DEF b
  <2> QED
    BY <1>1, <1>3, <2>2, <2>3, <2>7 DEF b
<1>5. CASE Drops(s)
  BY <1>1, <1>3, <1>5
<1> QED
  BY <1>4, <1>5 DEF AppendInsert, NewRow, Drops

\* The rows have sizes.
LEMMA RowsSized ==
    ASSUME TypeOK, TableSound, NEW S \in SUBSET chunks
    PROVE  Sized(S)
<1>1. IsFiniteSet(S)
  BY FS_Subset DEF TableSound
<1>2. ASSUME NEW c \in S PROVE Size(c) \in Nat
  <2>1. c.from \in Nat /\ c.to \in Nat /\ c.from < c.to
    BY DEF TypeOK, TableSound, Row
  <2> QED
    BY <2>1 DEF Size
<1> QED
  BY <1>1, <1>2 DEF Sized

\* The rows are a table.
LEMMA RowsTable ==
    ASSUME TypeOK, TableSound, NEW S \in SUBSET chunks
    PROVE  Table(S)
<1>1. IsFiniteSet(S)
  BY FS_Subset DEF TableSound
<1> QED
  BY <1>1 DEF Table, TypeOK, TableSound

\* What the CLI does with the next event.
LEMMA ReceiveCases ==
    ASSUME ClientReceives
    PROVE  LET e == Head(wire)
           IN  /\ client = "watching" /\ wire # <<>> /\ wire' = Tail(wire)
               /\ UNCHANGED <<outcome, chunks, truncated, sequence, watch, after, faults,
                              restarts>>
               /\ e.type = "output" =>
                     /\ UNCHANGED <<client, told, code>>
                     /\ \/ e.body.seq < next /\ UNCHANGED <<next, printed>>
                        \/ /\ ~(e.body.seq < next) /\ next' = e.body.seq + 1
                           /\ printed' = Append(printed, e.body)
               /\ e.type = "finished" =>
                     /\ client' = "finished" /\ told' = e.truncated
                     /\ code' = Returned(e.outcome) /\ UNCHANGED <<next, printed>>
               /\ e.type = "error" =>
                     client' = "dialing" /\ UNCHANGED <<next, printed, told, code>>
<1> DEFINE e == Head(wire)
<1>1. /\ client = "watching" /\ wire # <<>> /\ wire' = Tail(wire)
      /\ UNCHANGED <<outcome, chunks, truncated, sequence, watch, after, faults, restarts>>
  BY DEF ClientReceives, drainVars, tableVars, watchVars
<1>2. CASE e.type = "output"
  BY <1>1, <1>2 DEF ClientReceives
<1>3. CASE e.type = "finished"
  BY <1>1, <1>3 DEF ClientReceives
<1>4. CASE e.type = "error"
  BY <1>1, <1>4 DEF ClientReceives
<1> QED
  BY <1>1, <1>2, <1>3, <1>4

\* What WatchOutput sends: a batch of rows, after which it has its new place.
LEMMA WatchBatch ==
    ASSUME TypeOK, TableSound, WatchOutput
    PROVE  \E b \in Seq(chunks) :
              /\ wire' = wire \o [i \in 1..Len(b) |-> Output(b[i])]
              /\ after' \in Nat /\ watch' \in {"output", "status"}
              /\ after <= after' /\ after' <= sequence
              /\ \A i \in 1..Len(b) :
                    \A d \in chunks : after <= d.seq /\ d.seq < b[i].seq =>
                        \E j \in 1..(i - 1) : b[j] = d
              /\ \A d \in chunks : after <= d.seq /\ d.seq < after' =>
                    \E j \in 1..Len(b) : b[j] = d
<1> DEFINE b == Batch(after)
<1>1. Table(chunks) /\ after \in Nat /\ sequence \in Nat /\ after <= sequence
  BY RowsTable DEF TypeOK, TableSound
<1>2. /\ b \in Seq(chunks) /\ Len(b) \in Nat
      /\ \A i \in 1..Len(b) :
            /\ b[i] \in chunks /\ b[i].seq \in Nat /\ after <= b[i].seq
            /\ \A d \in chunks : after <= d.seq /\ d.seq < b[i].seq =>
                  \E j \in 1..(i - 1) : b[j] = d
  BY <1>1, BatchSound
<1>3. /\ wire' = wire \o [i \in 1..Len(b) |-> Output(b[i])]
      /\ after' = IF b = <<>> THEN after ELSE Last(b).seq + 1
      /\ watch' \in {"output", "status"}
  BY DEF WatchOutput
<1> HIDE DEF b
<1>4. CASE b = <<>>
  <2>1. after' = after
    BY <1>3, <1>4
  <2>2. \A d \in chunks : ~(after <= d.seq /\ d.seq < after)
    BY <1>1 DEF TypeOK, Row
  <2>3. after' \in Nat /\ after <= after' /\ after' <= sequence
    BY <1>1, <2>1
  <2>4. \A d \in chunks : after <= d.seq /\ d.seq < after' => \E j \in 1..Len(b) : b[j] = d
    BY <2>1, <2>2
  <2> QED
    BY <1>2, <1>3, <2>3, <2>4
<1>5. CASE b # <<>>
  <2> DEFINE n == Len(b)
  <2>1. n \in 1..Len(b) /\ after' = b[n].seq + 1
    BY <1>2, <1>3, <1>5 DEF Last
  <2>2. b[n] \in chunks /\ b[n].seq \in Nat /\ after <= b[n].seq /\ b[n].seq < sequence
    BY <1>2, <2>1 DEF TableSound
  <2> HIDE DEF n
  <2>3. after' \in Nat /\ after <= after' /\ after' <= sequence
    BY <1>1, <2>1, <2>2
  <2>4. ASSUME NEW d \in chunks, after <= d.seq, d.seq < after'
        PROVE  \E j \in 1..Len(b) : b[j] = d
    <3>1. d.seq \in Nat
      BY DEF TypeOK, Row
    <3>2. CASE d.seq = b[n].seq
      BY <2>1, <2>2, <3>2 DEF TableSound
    <3>3. CASE d.seq < b[n].seq
      <4>1. PICK j \in 1..(n - 1) : b[j] = d
        BY <1>2, <2>1, <2>4, <3>3
      <4>2. j \in 1..Len(b)
        BY <1>2, <2>1
      <4> QED
        BY <4>1, <4>2
    <3> QED
      BY <2>1, <2>2, <2>4, <3>1, <3>2, <3>3
  <2> QED
    BY <1>2, <1>3, <2>3, <2>4
<1> QED
  BY <1>4, <1>5

\* Every step keeps the types.
LEMMA TypeStep ==
    ASSUME TypeOK, DrainSound, TableSound, OutcomeSound, WireSound, [Next]_vars
    PROVE  TypeOK'
<1> USE DEF commandVars, drainVars, tableVars, watchVars, clientVars
<1>1. ASSUME NEW s \in Streams, CommandWrites(s) PROVE TypeOK'
  <2>1. written[s] \in 0..MaxWritten /\ written[s] < MaxWritten /\ MaxWritten \in Nat
    BY <1>1, OutputAssumption DEF CommandWrites, TypeOK
  <2>2. written' \in [Streams -> 0..MaxWritten]
    BY <1>1, <2>1 DEF CommandWrites, TypeOK
  <2> QED
    BY <1>1, <2>2 DEF CommandWrites, TypeOK
<1>2. CASE CommandExits
  BY <1>2 DEF CommandExits, TypeOK
<1>3. CASE WaitReturns
  BY <1>3 DEF WaitReturns, TypeOK
<1>4. CASE Finish
  <2>1. outcome' \in Exits \cup {"none"}
    BY <1>4 DEF Finish, TypeOK, OutcomeSound
  <2>2. faults' \in 0..MaxFaults
    BY <1>4, FaultStep DEF Finish, TypeOK
  <2> QED
    BY <1>4, <2>1, <2>2 DEF Finish, TypeOK
<1>5. ASSUME NEW s \in Streams, DrainRead(s) PROVE TypeOK'
  <2> DEFINE upto == Min({written[s], taken[s] + BufferBytes})
  <2>1. upto \in 0..MaxWritten
    BY <1>5, ReadUpTo DEF DrainRead
  <2>2. /\ buffer' = [buffer EXCEPT ![s] = [from |-> taken[s], to |-> upto]]
        /\ taken' = [taken EXCEPT ![s] = upto]
        /\ drain' = [drain EXCEPT ![s] = "append"]
    BY <1>5 DEF DrainRead
  <2> HIDE DEF upto
  <2>3. taken' \in [Streams -> 0..MaxWritten]
    BY <2>1, <2>2 DEF TypeOK
  <2>4. buffer' \in [Streams -> [from : Nat, to : Nat]]
    <3>1. [from |-> taken[s], to |-> upto] \in [from : Nat, to : Nat]
      BY <2>1 DEF TypeOK
    <3> QED
      BY <2>2, <3>1 DEF TypeOK
  <2> QED
    BY <1>5, <2>2, <2>3, <2>4 DEF DrainRead, TypeOK
<1>6. ASSUME NEW s \in Streams, DrainEnds(s) PROVE TypeOK'
  BY <1>6 DEF DrainEnds, TypeOK
<1>7. ASSUME NEW s \in Streams, AppendInsert(s) PROVE TypeOK'
  <2>1. sequence' \in Nat
    <3>1. sequence' = sequence + 1
      BY <1>7, InsertCases
    <3>2. sequence \in Nat
      BY DEF TypeOK
    <3> QED
      BY <3>1, <3>2
  <2>2. CASE Drops(s)
    <3>1. faults' \in 0..MaxFaults
      BY <2>2, FaultStep DEF Drops, TypeOK
    <3>2. drain' \in [Streams -> {"read", "append", "update", "done"}]
      BY <2>2 DEF Drops, TypeOK
    <3> QED
      BY <1>7, <2>1, <2>2, <3>1, <3>2, InsertCases DEF Drops, TypeOK
  <2>3. ASSUME NEW kept \in Nat, Keeps(s, kept), NewRow(s, kept) \in Row PROVE TypeOK'
    <3>1. chunks' \in SUBSET Row
      BY <2>3 DEF Keeps, TypeOK
    <3>2. drain' \in [Streams -> {"read", "append", "update", "done"}]
      BY <2>3 DEF Keeps, TypeOK
    <3>3. buffer' \in [Streams -> [from : Nat, to : Nat]] /\ faults' = faults
      BY <2>3 DEF Keeps
    <3> QED
      BY <1>7, <2>1, <3>1, <3>2, <3>3, InsertCases DEF TypeOK
  <2> QED
    BY <1>7, <2>2, <2>3, InsertCases
<1>8. ASSUME NEW s \in Streams, AppendUpdate(s) PROVE TypeOK'
  <2>1. counted' \in Nat
    <3>1. LastOf(s) \in Nat
      BY RowsSized, SizeType DEF LastOf
    <3>2. counted \in Nat /\ (counted' = counted + LastOf(s) \/ counted' = counted)
      BY <1>8 DEF AppendUpdate, TypeOK
    <3> QED
      BY <3>1, <3>2
  <2>2. truncated' \in BOOLEAN
    <3>1. truncated \in BOOLEAN
      BY DEF TypeOK
    <3>2. truncated' = (Size(buffer[s]) > 0) \/ truncated' = truncated
      BY <1>8, Zenon DEF AppendUpdate
    <3>3. (Size(buffer[s]) > 0) \in BOOLEAN
      OBVIOUS
    <3> QED
      BY <3>1, <3>2, <3>3
  <2>3. faults' \in 0..MaxFaults
    BY <1>8, FaultStep DEF AppendUpdate, TypeOK
  <2>4. drain' \in [Streams -> {"read", "append", "update", "done"}]
    BY <1>8 DEF AppendUpdate, TypeOK
  <2> QED
    BY <1>8, <2>1, <2>2, <2>3, <2>4 DEF AppendUpdate, TypeOK
<1>9. CASE WatchOutput
  <2>1. PICK b \in Seq(chunks) :
            /\ wire' = wire \o [i \in 1..Len(b) |-> Output(b[i])]
            /\ after' \in Nat /\ watch' \in {"output", "status"}
    BY <1>9, WatchBatch
  <2>2. [i \in 1..Len(b) |-> Output(b[i])] \in Seq(Event)
    <3>1. \A i \in 1..Len(b) : Output(b[i]) \in Event
      BY EventFields DEF TypeOK
    <3> QED
      BY <3>1
  <2>3. wire' \in Seq(Event)
    BY <2>1, <2>2 DEF TypeOK
  <2> QED
    BY <1>9, <2>1, <2>3 DEF WatchOutput, TypeOK
<1>10. CASE WatchStatus
  <2>1. wire' \in Seq(Event)
    <3>1. CASE wire' = wire
      BY <3>1 DEF TypeOK
    <3>2. ASSUME NEW how \in Exits, wire' = Append(wire, FinishedEvent(how))
          PROVE  wire' \in Seq(Event)
      <4>1. FinishedEvent(how) \in Event
        BY EventFields DEF TypeOK
      <4> QED
        BY <3>2, <4>1 DEF TypeOK
    <3> QED
      BY <1>10, <3>1, <3>2 DEF WatchStatus, TypeOK, Ended, Exits
  <2>2. faults' \in 0..MaxFaults
    BY <1>10, FaultStep DEF WatchStatus, TypeOK
  <2> QED
    BY <1>10, <2>1, <2>2 DEF WatchStatus, TypeOK
<1>11. CASE WatchFails
  <2>1. wire' \in Seq(Event) /\ faults' \in 0..MaxFaults
    BY <1>11, FaultStep, EventFields DEF WatchFails, TypeOK
  <2> QED
    BY <1>11, <2>1 DEF WatchFails, TypeOK
<1>12. CASE ClientDials
  BY <1>12 DEF ClientDials, TypeOK
<1>13. CASE ClientReceives
  <2> DEFINE e == Head(wire)
  <2>1. e \in Event /\ wire' = Tail(wire) /\ wire' \in Seq(Event)
    BY <1>13 DEF ClientReceives, TypeOK
  <2>2. e.type \in {"output", "error", "finished"}
    BY <2>1, EventKinds
  <2>3. /\ next' \in Nat /\ printed' \in Seq(Row) /\ told' \in BOOLEAN
        /\ code' \in {"none", "0", "n", "error"}
        /\ client' \in {"dialing", "watching", "finished", "gone"}
    <3>1. CASE e.type = "output"
      <4>1. e.body \in Row /\ e.body.seq \in Nat
        BY <2>1, <3>1, EventKinds DEF Row
      <4>2. /\ UNCHANGED <<client, told, code>>
            /\ \/ UNCHANGED <<next, printed>>
               \/ next' = e.body.seq + 1 /\ printed' = Append(printed, e.body)
        BY <1>13, <3>1, ReceiveCases
      <4>3. next \in Nat /\ printed \in Seq(Row) /\ told \in BOOLEAN
        BY DEF TypeOK
      <4> HIDE DEF e
      <4>4. next' \in Nat /\ printed' \in Seq(Row)
        BY <4>1, <4>2, <4>3
      <4> QED
        BY <4>2, <4>3, <4>4 DEF TypeOK
    <3>2. CASE e.type = "finished"
      <4>1. e.truncated \in BOOLEAN /\ e.outcome \in Exits
        BY <2>1, <3>2, EventKinds
      <4>2. Returned(e.outcome) \in {"0", "n", "error"}
        BY <4>1 DEF Returned, Exits
      <4> QED
        BY <1>13, <3>2, <4>1, <4>2, ReceiveCases DEF TypeOK
    <3>3. CASE e.type = "error"
      BY <1>13, <3>3, ReceiveCases DEF TypeOK
    <3> QED
      BY <2>2, <3>1, <3>2, <3>3
  <2> QED
    BY <1>13, <2>1, <2>3 DEF ClientReceives, TypeOK
<1>14. CASE ClientGivesUp
  BY <1>14 DEF ClientGivesUp, TypeOK
<1>15. CASE Restart
  <2>1. restarts' \in 0..MaxRestarts
    BY <1>15, OutputAssumption DEF Restart, TypeOK
  <2>2. buffer' \in [Streams -> [from : Nat, to : Nat]]
    BY <1>15 DEF Restart, Empty
  <2>3. wire' \in Seq(Event)
    BY <1>15 DEF Restart
  <2> QED
    BY <1>15, <2>1, <2>2, <2>3 DEF Restart, TypeOK, Exits
<1>16. CASE UNCHANGED vars
  BY <1>16 DEF vars, TypeOK
<1> QED
  BY <1>1, <1>2, <1>3, <1>4, <1>5, <1>6, <1>7, <1>8, <1>9, <1>10, <1>11, <1>12, <1>13,
     <1>14, <1>15, <1>16 DEF Next, Drain, Watch

-----------------------------------------------------------------------------
(* The drains and the table.                                                *)

\* What a step does that is not one of a drain and not a restart.
Quiet ==
    /\ UNCHANGED <<taken, drain, buffer, chunks, counted, truncated, sequence, restarts>>
    /\ faults' = faults \/ faults' # 0
    /\ \A s \in Streams : written[s] <= written'[s]
    /\ outcome' = outcome \/ \A s \in Streams : drain[s] = "done"

\* The steps that change what is read or stored.
LEMMA StepKinds ==
    ASSUME TypeOK, [Next]_vars
    PROVE  \/ \E s \in Streams :
                  DrainRead(s) \/ DrainEnds(s) \/ AppendInsert(s) \/ AppendUpdate(s)
           \/ Restart
           \/ Quiet
<1> USE DEF commandVars, drainVars, tableVars, watchVars, clientVars
<1>1. \A s \in Streams : written[s] \in Nat /\ written[s] <= written[s]
  BY DEF TypeOK
<1>2. ASSUME NEW s \in Streams, CommandWrites(s) PROVE Quiet
  <2>1. \A r \in Streams : written[r] <= written'[r]
    <3>1. written \in [Streams -> 0..MaxWritten] /\ written' = [written EXCEPT ![s] = @ + 1]
      BY <1>2 DEF CommandWrites, TypeOK
    <3>2. ASSUME NEW r \in Streams PROVE written[r] <= written'[r]
      <4>1. written[r] \in Nat /\ (written'[r] = written[r] + 1 \/ written'[r] = written[r])
        BY <3>1
      <4> QED
        BY <4>1
    <3> QED
      BY <3>2
  <2> QED
    BY <1>2, <2>1 DEF CommandWrites, Quiet
<1>3. CASE CommandExits \/ WaitReturns
  BY <1>1, <1>3 DEF CommandExits, WaitReturns, Quiet
<1>4. CASE Finish
  BY <1>1, <1>4, FaultStep DEF Finish, Quiet
<1>5. CASE WatchOutput \/ ClientDials \/ ClientReceives \/ ClientGivesUp
  BY <1>1, <1>5 DEF WatchOutput, ClientDials, ClientReceives, ClientGivesUp, Quiet
<1>6. CASE WatchStatus \/ WatchFails
  BY <1>1, <1>6, FaultStep DEF WatchStatus, WatchFails, Quiet
<1>7. CASE UNCHANGED vars
  BY <1>1, <1>7 DEF vars, Quiet
<1> QED
  BY <1>2, <1>3, <1>4, <1>5, <1>6, <1>7 DEF Next, Drain, Watch

\* What AppendUpdate does.
LEMMA UpdateCases ==
    ASSUME TypeOK, NEW s \in Streams, AppendUpdate(s)
    PROVE  /\ drain[s] = "update" /\ drain' = [drain EXCEPT ![s] = "read"]
           /\ UNCHANGED <<written, taken, buffer, sequence, chunks, outcome, watch, after, wire,
                          client, next, printed, told, code, restarts>>
           /\ \/ /\ counted' = counted + LastOf(s) /\ truncated' = (Size(buffer[s]) > 0)
                 /\ faults' = faults
              \/ UNCHANGED <<counted, truncated>> /\ faults' # 0
<1>1. /\ drain[s] = "update" /\ drain' = [drain EXCEPT ![s] = "read"]
      /\ UNCHANGED <<written, taken, buffer, sequence, chunks, outcome, watch, after, wire,
                     client, next, printed, told, code, restarts>>
  BY DEF AppendUpdate, commandVars, watchVars, clientVars
<1>2. \/ /\ counted' = counted + LastOf(s) /\ truncated' = (Size(buffer[s]) > 0)
         /\ faults' = faults
      \/ Fault /\ UNCHANGED <<counted, truncated>>
  BY Zenon DEF AppendUpdate
<1> QED
  BY <1>1, <1>2, FaultStep, Zenon

\* What DrainRead does.
LEMMA ReadCases ==
    ASSUME TypeOK, DrainSound, NEW s \in Streams, DrainRead(s)
    PROVE  /\ drain[s] = "read" /\ drain' = [drain EXCEPT ![s] = "append"]
           /\ UNCHANGED <<written, sequence, chunks, counted, truncated, outcome, watch, after,
                          wire, client, next, printed, told, code, faults, restarts>>
           /\ \A r \in Streams \ {s} : taken'[r] = taken[r] /\ buffer'[r] = buffer[r]
           /\ buffer'[s].from = taken[s] /\ buffer'[s].to = taken'[s]
           /\ taken[s] \in Nat /\ taken'[s] \in Nat
           /\ taken[s] < taken'[s] /\ taken'[s] <= written[s]
<1> DEFINE upto == Min({written[s], taken[s] + BufferBytes})
<1>1. /\ upto \in 0..MaxWritten /\ taken[s] < upto /\ upto <= written[s]
  BY ReadUpTo DEF DrainRead
<1>2. /\ buffer' = [buffer EXCEPT ![s] = [from |-> taken[s], to |-> upto]]
      /\ taken' = [taken EXCEPT ![s] = upto]
      /\ drain[s] = "read" /\ drain' = [drain EXCEPT ![s] = "append"]
      /\ UNCHANGED <<written, sequence, chunks, counted, truncated, outcome, watch, after,
                     wire, client, next, printed, told, code, faults, restarts>>
  BY DEF DrainRead, commandVars, tableVars, watchVars, clientVars
<1> HIDE DEF upto
<1>3. /\ taken'[s] = upto /\ buffer'[s] = [from |-> taken[s], to |-> upto]
      /\ \A r \in Streams \ {s} : taken'[r] = taken[r] /\ buffer'[r] = buffer[r]
  BY <1>2 DEF TypeOK
<1>4. taken[s] \in Nat /\ upto \in Nat
  BY <1>1 DEF TypeOK
<1> QED
  BY <1>1, <1>2, <1>3, <1>4

\* The drains keep to their protocol.
LEMMA DrainStep ==
    ASSUME TypeOK, TypeOK', DrainSound, [Next]_vars
    PROVE  DrainSound'
<1>1. /\ drain \in [Streams -> {"read", "append", "update", "done"}]
      /\ \A s \in Streams : /\ taken[s] \in Nat /\ written[s] \in Nat
                            /\ buffer[s].from \in Nat /\ buffer[s].to \in Nat
      /\ restarts \in Nat
  BY Numbers
<1>2. ASSUME NEW s \in Streams, DrainRead(s) PROVE DrainSound'
  <2>1. \A r \in Streams : Holds(r)' => buffer'[r].from <= buffer'[r].to /\ buffer'[r].to = taken'[r]
    BY <1>1, <1>2, ReadCases DEF DrainSound, Holds
  <2>2. \A r \in Streams : drain'[r] = "update" => drain[r] = "update"
    BY <1>1, <1>2, ReadCases
  <2>3. \A r \in Streams : taken'[r] <= written'[r]
    BY <1>1, <1>2, ReadCases DEF DrainSound
  <2>4. ~(Ended \/ restarts > 0) /\ Ended' = Ended /\ restarts' = restarts
    BY <1>2, ReadCases DEF DrainSound, Ended
  <2> QED
    BY <1>2, <2>1, <2>2, <2>3, <2>4, ReadCases DEF DrainSound
<1>3. ASSUME NEW s \in Streams, DrainEnds(s) PROVE DrainSound'
  <2>1. /\ drain' = [drain EXCEPT ![s] = "done"]
        /\ UNCHANGED <<taken, buffer, written, truncated, outcome, restarts>>
    BY <1>3 DEF DrainEnds, commandVars, tableVars
  <2> QED
    BY <1>1, <2>1 DEF DrainSound, Holds, Ended
<1>4. ASSUME NEW s \in Streams, AppendInsert(s) PROVE DrainSound'
  <2>1. /\ drain[s] = "append" /\ Captured
        /\ UNCHANGED <<taken, written, truncated, outcome, restarts>>
    BY <1>4, InsertCases
  <2>2. ~(Ended \/ restarts > 0) /\ Ended' = Ended /\ restarts' = restarts
    BY <2>1 DEF DrainSound, Ended
  <2>3. CASE Drops(s)
    BY <1>1, <2>1, <2>2, <2>3 DEF Drops, DrainSound, Holds
  <2>4. ASSUME NEW kept \in Nat, Keeps(s, kept), kept <= Size(buffer[s]) PROVE DrainSound'
    <3>1. buffer'[s].from <= buffer'[s].to /\ buffer'[s].to = taken'[s]
      <4>1. /\ buffer[s].from <= buffer[s].to /\ buffer[s].to = taken[s]
        BY <2>1 DEF DrainSound, Holds
      <4> QED
        BY <1>1, <2>1, <2>4, <4>1 DEF Keeps, Size
    <3>2. \A r \in Streams : Holds(r)' => buffer'[r].from <= buffer'[r].to /\ buffer'[r].to = taken'[r]
      BY <1>1, <2>1, <2>4, <3>1 DEF Keeps, DrainSound, Holds
    <3>3. \A r \in Streams : drain'[r] = "update" => r = s
      BY <1>1, <2>1, <2>4 DEF Keeps, Captured
    <3>4. ~truncated'
      BY <2>1, <2>4 DEF Keeps
    <3> QED
      BY <2>1, <2>2, <3>2, <3>3, <3>4 DEF DrainSound
  <2> QED
    BY <1>4, <2>3, <2>4, InsertCases
<1>5. ASSUME NEW s \in Streams, AppendUpdate(s) PROVE DrainSound'
  <2>1. \A r \in Streams : drain'[r] # "update"
    BY <1>1, <1>5, UpdateCases DEF DrainSound
  <2>2. \A r \in Streams : Holds(r)' => Holds(r)
    BY <1>1, <1>5, UpdateCases DEF Holds
  <2>3. ~(Ended \/ restarts > 0) /\ Ended' = Ended /\ restarts' = restarts
    BY <1>5, UpdateCases DEF DrainSound, Ended
  <2>4. UNCHANGED <<buffer, taken, written>>
    BY <1>5, UpdateCases
  <2> QED
    BY <2>1, <2>2, <2>3, <2>4 DEF DrainSound
<1>6. CASE Restart
  <2>1. /\ \A s \in Streams : drain'[s] = "done"
        /\ UNCHANGED <<written, taken>>
    BY <1>6 DEF Restart
  <2> QED
    BY <2>1 DEF DrainSound, Holds
<1>7. CASE Quiet
  <2>1. \A s \in Streams : taken'[s] <= written'[s]
    <3> SUFFICES ASSUME NEW s \in Streams PROVE taken'[s] <= written'[s]
      OBVIOUS
    <3>1. taken'[s] = taken[s] /\ taken[s] <= written[s] /\ written[s] <= written'[s]
      BY <1>7 DEF Quiet, DrainSound
    <3>2. written'[s] \in Nat
      BY DEF TypeOK
    <3> QED
      BY <1>1, <3>1, <3>2
  <2>2. Ended' \/ restarts' > 0 => \A s \in Streams : drain'[s] = "done"
    BY <1>7 DEF Quiet, DrainSound, Ended
  <2> QED
    BY <1>7, <2>1, <2>2 DEF Quiet, DrainSound, Holds
<1> QED
  BY <1>2, <1>3, <1>4, <1>5, <1>6, <1>7, StepKinds

\* A new row has a sequence number above all others.
LEMMA TableStep ==
    ASSUME TypeOK, TypeOK', DrainSound, TableSound, WireSound, [Next]_vars
    PROVE  TableSound'
<1> DEFINE RowsSound ==
              /\ IsFiniteSet(chunks)
              /\ \A c \in chunks : c.seq < sequence /\ c.from < c.to /\ c.to <= taken[c.stream]
              /\ \A c, d \in chunks : c.seq = d.seq => c = d
           PlacesSound == next <= sequence /\ after <= sequence
<1>1. TableSound <=> RowsSound /\ PlacesSound
  BY DEF TableSound
<1>2. TableSound' <=> RowsSound' /\ PlacesSound'
  BY DEF TableSound
<1>3. /\ chunks \in SUBSET Row /\ {sequence, next, after} \subseteq Nat
      /\ \A c \in chunks : /\ c.seq \in Nat /\ c.from \in Nat /\ c.to \in Nat
                           /\ c.stream \in Streams
      /\ \A s \in Streams : taken[s] \in Nat
  BY Numbers DEF TypeOK
<1>4. CASE UNCHANGED <<chunks, sequence, taken>>
  <2>1. RowsSound'
    BY <1>1, <1>4
  <2>2. PlacesSound'
    <3>1. CASE WatchOutput
      <4>1. after' <= sequence /\ next' = next
        BY <3>1, WatchBatch DEF WatchOutput, clientVars
      <4> QED
        BY <1>1, <1>4, <4>1
    <3>2. CASE ClientDials
      BY <1>1, <1>4, <3>2 DEF ClientDials
    <3>3. CASE ClientReceives
      <4> DEFINE e == Head(wire)
      <4>1. e.type = "output" => e.body.seq < sequence /\ e.body.seq \in Nat
        <5>1. wire # <<>> /\ wire \in Seq(Event)
          BY <3>3 DEF ClientReceives, TypeOK
        <5>2. 1 \in 1..Len(wire) /\ e = wire[1]
          BY <5>1
        <5> QED
          BY <1>1, <1>3, <5>2 DEF WireSound
      <4>2. next' = next \/ (e.type = "output" /\ next' = e.body.seq + 1)
        <5>1. e.type \in {"output", "error", "finished"}
          BY <3>3, EventKinds DEF ClientReceives, TypeOK
        <5> QED
          BY <3>3, <5>1, ReceiveCases
      <4>3. after' = after
        BY <3>3, ReceiveCases
      <4> HIDE DEF e
      <4> QED
        BY <1>1, <1>3, <1>4, <4>1, <4>2, <4>3
    <3>4. CASE UNCHANGED <<next, after>>
      BY <1>1, <1>4, <3>4
    <3> QED
      BY <3>1, <3>2, <3>3, <3>4
      DEF Next, vars, watchVars, clientVars, Drain, Watch, CommandWrites, CommandExits,
          WaitReturns, Finish, DrainRead, DrainEnds, AppendInsert, AppendUpdate, WatchStatus,
          WatchFails, ClientGivesUp, Restart
  <2> QED
    BY <1>2, <2>1, <2>2
<1>5. ASSUME NEW s \in Streams, DrainRead(s) PROVE TableSound'
  <2>1. UNCHANGED <<chunks, sequence, next, after>>
    BY <1>5, ReadCases
  <2>2. \A r \in Streams : taken[r] <= taken'[r] /\ taken'[r] \in Nat
    <3> SUFFICES ASSUME NEW r \in Streams PROVE taken[r] <= taken'[r] /\ taken'[r] \in Nat
      OBVIOUS
    <3>1. CASE r = s
      BY <1>5, <3>1, ReadCases
    <3>2. CASE r # s
      BY <1>3, <1>5, <3>2, ReadCases
    <3> QED
      BY <3>1, <3>2
  <2>3. ASSUME NEW c \in chunks PROVE c.to <= taken'[c.stream]
    <3>1. c.to <= taken[c.stream] /\ c.to \in Nat /\ c.stream \in Streams
      BY <1>1, <1>3
    <3>2. taken[c.stream] \in Nat /\ taken'[c.stream] \in Nat /\ taken[c.stream] <= taken'[c.stream]
      BY <1>3, <2>2, <3>1
    <3> QED
      BY <3>1, <3>2
  <2> QED
    BY <2>1, <2>3 DEF TableSound
<1>6. ASSUME NEW s \in Streams, AppendInsert(s) PROVE TableSound'
  <2>1. sequence' = sequence + 1 /\ UNCHANGED <<taken, next, after>>
    BY <1>6, InsertCases
  <2>2. PlacesSound'
    BY <1>1, <1>3, <2>1
  <2>3. \A c \in chunks : c.seq < sequence'
    BY <1>1, <1>3, <2>1
  <2>4. CASE chunks' = chunks
    BY <1>1, <2>1, <2>2, <2>3, <2>4 DEF TableSound
  <2>5. ASSUME NEW kept \in Nat, kept > 0, kept <= Size(buffer[s]), NewRow(s, kept) \in Row,
               chunks' = chunks \cup {NewRow(s, kept)}
        PROVE  TableSound'
    <3> DEFINE row == NewRow(s, kept)
    <3>1. row.seq = sequence /\ row.stream = s /\ row.from = buffer[s].from
          /\ row.to = buffer[s].from + kept
      BY DEF NewRow
    <3>2. buffer[s].from \in Nat /\ buffer[s].to \in Nat /\ buffer[s].to = taken[s]
      BY <1>6, InsertCases DEF DrainSound, Holds
    <3>3. row.seq < sequence' /\ row.from < row.to /\ row.to <= taken[row.stream]
      BY <1>3, <2>1, <2>5, <3>1, <3>2 DEF Size
    <3>4. \A c \in chunks : c.seq # row.seq
      BY <1>1, <1>3, <3>1
    <3>5. IsFiniteSet(chunks')
      BY <1>1, <2>5, FS_AddElement
    <3> HIDE DEF row
    <3>6. chunks' = chunks \cup {row}
      BY <2>5 DEF row
    <3>7. \A c \in chunks' : c.seq < sequence' /\ c.from < c.to /\ c.to <= taken'[c.stream]
      BY <1>1, <2>1, <2>3, <3>3, <3>6
    <3>8. \A c, d \in chunks' : c.seq = d.seq => c = d
      BY <1>1, <3>4, <3>6
    <3> QED
      BY <1>2, <2>2, <3>5, <3>7, <3>8
  <2> QED
    BY <1>6, <2>4, <2>5, InsertCases DEF Drops, Keeps
<1>7. ASSUME NEW s \in Streams, DrainEnds(s) \/ AppendUpdate(s)
      PROVE  UNCHANGED <<chunks, sequence, taken>>
  BY <1>7 DEF DrainEnds, AppendUpdate, tableVars
<1>8. Restart \/ Quiet => UNCHANGED <<chunks, sequence, taken>>
  BY DEF Restart, Quiet, tableVars
<1> QED
  BY <1>4, <1>5, <1>6, <1>7, <1>8, StepKinds

-----------------------------------------------------------------------------
(* What is stored.                                                          *)

\* An insert stores as many bytes as it keeps, of its own stream, in the row with
\* the last sequence number.
LEMMA Stores ==
    ASSUME TypeOK, TableSound, NEW s \in Streams, NEW kept \in Nat, Keeps(s, kept),
           NewRow(s, kept) \in Row, sequence' = sequence + 1
    PROVE  /\ SizeOf(chunks) \in Nat /\ SizeOf(chunks') = SizeOf(chunks) + kept
           /\ SizeOf(RowsOf(s)) \in Nat /\ SizeOf(RowsOf(s)') = SizeOf(RowsOf(s)) + kept
           /\ \A r \in Streams \ {s} : RowsOf(r)' = RowsOf(r)
           /\ LastOf(s)' = kept
<1> DEFINE row == NewRow(s, kept)
           Later(S) == {c \in S : c.stream = s /\ c.seq = sequence}
<1>1. /\ row.seq = sequence /\ row.stream = s /\ row.from = buffer[s].from
      /\ row.to = buffer[s].from + kept
  BY DEF NewRow
<1>2. row.from \in Nat /\ Size(row) = kept
  <2>1. row.from \in Nat /\ row.to = row.from + kept
    BY <1>1 DEF Row
  <2> QED
    BY <2>1 DEF Size
<1>3. \A c \in chunks : c.seq # sequence
  <2> SUFFICES ASSUME NEW c \in chunks PROVE c.seq # sequence
    OBVIOUS
  <2>1. c.seq \in Nat /\ sequence \in Nat /\ c.seq < sequence
    BY DEF TypeOK, TableSound, Row
  <2> QED
    BY <2>1
<1>4. RowsOf(s) \in SUBSET chunks /\ row \notin chunks /\ row \notin RowsOf(s)
  BY <1>1, <1>3 DEF RowsOf
<1>5. Sized(chunks) /\ Sized(RowsOf(s))
  BY <1>4, RowsSized
<1>6. SizeOf(chunks) \in Nat /\ SizeOf(RowsOf(s)) \in Nat
  BY <1>5, SizeType
<1>7. LastOf(s)' = SizeOf(Later(chunks'))
  <2>1. sequence' - 1 = sequence
    BY DEF TypeOK
  <2> QED
    BY <2>1 DEF LastOf
<1>8. Later(chunks) = {}
  BY <1>3
<1>9. CASE kept = 0
  <2>1. chunks' = chunks /\ \A r \in Streams : RowsOf(r)' = RowsOf(r)
    BY <1>9 DEF Keeps, RowsOf
  <2>2. LastOf(s)' = 0
    BY <1>7, <1>8, <2>1, SizeFew
  <2> QED
    BY <1>6, <1>9, <2>1, <2>2
<1>10. CASE kept > 0
  <2> HIDE DEF row
  <2>1. chunks' = chunks \cup {row}
    BY <1>10 DEF Keeps, row
  <2>2. RowsOf(s)' = RowsOf(s) \cup {row}
    BY <1>1, <2>1 DEF RowsOf
  <2>3. \A r \in Streams \ {s} : RowsOf(r)' = RowsOf(r)
    BY <1>1, <2>1 DEF RowsOf
  <2>4. Later(chunks') = {row}
    BY <1>1, <1>8, <2>1
  <2>5. SizeOf({row}) = kept
    BY <1>2, SizeFew
  <2>6. SizeOf(chunks \cup {row}) = SizeOf(chunks) + kept
    BY <1>2, <1>4, <1>5, SizeWith
  <2>7. SizeOf(RowsOf(s) \cup {row}) = SizeOf(RowsOf(s)) + kept
    BY <1>2, <1>4, <1>5, SizeWith
  <2> QED
    BY <1>6, <1>7, <2>1, <2>2, <2>3, <2>4, <2>5, <2>6, <2>7
<1> QED
  BY <1>9, <1>10

\* What a drain holds is stored, cut and reported, or dropped with a failure.
LEMMA AccountedStep ==
    ASSUME TypeOK, TypeOK', DrainSound, TableSound, Accounted, [Next]_vars
    PROVE  Accounted'
<1>1. /\ drain \in [Streams -> {"read", "append", "update", "done"}]
      /\ \A r \in Streams : taken[r] \in Nat
      /\ \A r \in Streams : buffer[r].from \in Nat /\ buffer[r].to \in Nat
  BY Numbers
<1>2. \A r \in Streams : SizeOf(RowsOf(r)) \in Nat
  <2> SUFFICES ASSUME NEW r \in Streams PROVE SizeOf(RowsOf(r)) \in Nat
    OBVIOUS
  <2>1. RowsOf(r) \in SUBSET chunks
    BY DEF RowsOf
  <2> QED
    BY <2>1, RowsSized, SizeType
<1>3. \A r \in Streams : Pending(r) \in Nat
  BY <1>1 DEF Pending, DrainSound, Size
<1>4. ASSUME NEW s \in Streams, DrainRead(s) PROVE Accounted'
  <2>1. \A r \in Streams : RowsOf(r)' = RowsOf(r)
    BY <1>4, ReadCases DEF RowsOf
  <2>2. \A r \in Streams : Pending(r)' = Pending(r) + (taken'[r] - taken[r]) /\ taken'[r] \in Nat
    <3> SUFFICES ASSUME NEW r \in Streams
                 PROVE  Pending(r)' = Pending(r) + (taken'[r] - taken[r]) /\ taken'[r] \in Nat
      OBVIOUS
    <3>1. CASE r = s
      <4>1. Pending(s) = 0 /\ Pending(s)' = taken'[s] - taken[s]
        BY <1>1, <1>4, ReadCases DEF Pending, Holds, Size
      <4> QED
        BY <1>4, <3>1, <4>1, ReadCases
    <3>2. CASE r # s
      <4>1. drain'[r] = drain[r] /\ buffer'[r] = buffer[r] /\ taken'[r] = taken[r]
        BY <1>1, <1>4, <3>2, ReadCases
      <4>2. Pending(r)' = Pending(r)
        BY <4>1 DEF Pending, Holds
      <4> QED
        BY <1>1, <1>3, <4>1, <4>2
    <3> QED
      BY <3>1, <3>2
  <2>3. UNCHANGED <<faults, restarts, truncated>>
    BY <1>4, ReadCases
  <2>4. ASSUME NEW r \in Streams
        PROVE  /\ SizeOf(RowsOf(r)') + Pending(r)' <= taken'[r]
               /\ (faults = 0 /\ restarts = 0 /\ ~truncated) =>
                     SizeOf(RowsOf(r)') + Pending(r)' = taken'[r]
    <3>1. /\ SizeOf(RowsOf(r)) + Pending(r) <= taken[r]
          /\ (faults = 0 /\ restarts = 0 /\ ~truncated) =>
                SizeOf(RowsOf(r)) + Pending(r) = taken[r]
      BY DEF Accounted
    <3>2. SizeOf(RowsOf(r)') = SizeOf(RowsOf(r))
      BY <2>1
    <3> QED
      BY <1>1, <1>2, <1>3, <2>2, <3>1, <3>2
  <2> QED
    BY <2>3, <2>4 DEF Accounted
<1>5. ASSUME NEW s \in Streams,
             UNCHANGED <<chunks, taken, buffer>>,
             drain' = [drain EXCEPT ![s] = "read"] \/ drain' = [drain EXCEPT ![s] = "done"],
             (faults' = 0 /\ restarts' = 0 /\ ~truncated') =>
                 faults = 0 /\ restarts = 0 /\ ~truncated /\ Pending(s) = 0
      PROVE  Accounted'
  <2>1. \A r \in Streams : RowsOf(r)' = RowsOf(r)
    BY <1>5 DEF RowsOf
  <2>2. Pending(s)' = 0 /\ \A r \in Streams \ {s} : Pending(r)' = Pending(r)
    BY <1>1, <1>5 DEF Pending, Holds
  <2>3. ASSUME NEW r \in Streams
        PROVE  /\ SizeOf(RowsOf(r)') + Pending(r)' <= taken'[r]
               /\ (faults' = 0 /\ restarts' = 0 /\ ~truncated') =>
                     SizeOf(RowsOf(r)') + Pending(r)' = taken'[r]
    <3>1. /\ SizeOf(RowsOf(r)) + Pending(r) <= taken[r]
          /\ (faults = 0 /\ restarts = 0 /\ ~truncated) =>
                SizeOf(RowsOf(r)) + Pending(r) = taken[r]
      BY DEF Accounted
    <3>2. SizeOf(RowsOf(r)') = SizeOf(RowsOf(r)) /\ taken'[r] = taken[r]
      BY <1>5, <2>1
    <3>3. CASE r = s
      BY <1>1, <1>2, <1>3, <1>5, <2>2, <3>1, <3>2, <3>3
    <3>4. CASE r # s
      BY <1>1, <1>2, <1>3, <1>5, <2>2, <3>1, <3>2, <3>4
    <3> QED
      BY <3>3, <3>4
  <2> QED
    BY <2>3 DEF Accounted
<1>6. ASSUME NEW s \in Streams, DrainEnds(s) PROVE Accounted'
  <2>1. /\ drain[s] = "read" /\ drain' = [drain EXCEPT ![s] = "done"]
        /\ UNCHANGED <<chunks, taken, buffer, faults, restarts, truncated>>
    BY <1>6 DEF DrainEnds, tableVars
  <2>2. Pending(s) = 0
    BY <2>1 DEF Pending, Holds
  <2> QED
    BY <1>5, <2>1, <2>2
<1>7. ASSUME NEW s \in Streams, AppendInsert(s) PROVE Accounted'
  <2>1. UNCHANGED <<taken, truncated, restarts>> /\ drain[s] = "append" /\ sequence' = sequence + 1
    BY <1>7, InsertCases
  <2>2. CASE Drops(s)
    <3>1. /\ UNCHANGED <<chunks, buffer>> /\ drain' = [drain EXCEPT ![s] = "read"]
          /\ truncated \/ faults' # 0
      BY <2>2, FaultStep DEF Drops
    <3> QED
      BY <1>5, <2>1, <3>1
  <2>3. ASSUME NEW kept \in Nat, Keeps(s, kept), kept <= Size(buffer[s]), NewRow(s, kept) \in Row
        PROVE  Accounted'
    <3>1. /\ SizeOf(RowsOf(s)') = SizeOf(RowsOf(s)) + kept
          /\ \A r \in Streams \ {s} : RowsOf(r)' = RowsOf(r)
      BY <2>1, <2>3, Stores
    <3>2. Pending(s)' + kept = Pending(s) /\ Pending(s)' \in Nat
      <4>1. Pending(s) = buffer[s].to - buffer[s].from
        BY <2>1 DEF Pending, Holds, Size
      <4>2. Pending(s)' = buffer'[s].to - buffer'[s].from
        BY <1>1, <2>3 DEF Pending, Holds, Size, Keeps
      <4>3. buffer'[s].from = buffer[s].from + kept /\ buffer'[s].to = buffer[s].to
        BY <2>3 DEF Keeps
      <4>4. kept <= Pending(s)
        BY <2>3, <4>1 DEF Size
      <4> QED
        BY <1>1, <1>3, <4>1, <4>2, <4>3, <4>4
    <3>3. \A r \in Streams \ {s} : Pending(r)' = Pending(r)
      BY <1>1, <2>3 DEF Pending, Holds, Keeps
    <3>4. UNCHANGED faults
      BY <2>3 DEF Keeps
    <3>5. ASSUME NEW r \in Streams
          PROVE  SizeOf(RowsOf(r)') + Pending(r)' = SizeOf(RowsOf(r)) + Pending(r)
      <4>1. CASE r = s
        BY <1>2, <1>3, <3>1, <3>2, <4>1
      <4>2. CASE r # s
        BY <3>1, <3>3, <4>2
      <4> QED
        BY <4>1, <4>2
    <3> QED
      BY <2>1, <3>4, <3>5 DEF Accounted
  <2> QED
    BY <1>7, <2>2, <2>3, InsertCases
<1>8. ASSUME NEW s \in Streams, AppendUpdate(s) PROVE Accounted'
  <2>1. /\ drain[s] = "update" /\ drain' = [drain EXCEPT ![s] = "read"]
        /\ UNCHANGED <<chunks, taken, buffer, restarts>>
    BY <1>8, UpdateCases
  <2>2. ~truncated
    BY <2>1 DEF DrainSound
  <2>3. faults' = 0 /\ ~truncated' => faults = 0 /\ ~(Size(buffer[s]) > 0)
    BY <1>8, UpdateCases
  <2>4. Pending(s) = Size(buffer[s])
    BY <2>1 DEF Pending, Holds
  <2>5. ~(Pending(s) > 0) => Pending(s) = 0
    BY <1>3
  <2> QED
    BY <1>5, <2>1, <2>2, <2>3, <2>4, <2>5
<1>9. CASE Restart
  <2>1. /\ restarts' # 0 /\ UNCHANGED <<chunks, taken>>
        /\ \A r \in Streams : Pending(r)' = 0 /\ RowsOf(r)' = RowsOf(r)
    BY <1>9, Numbers DEF Restart, tableVars, Pending, Holds, RowsOf
  <2>2. ASSUME NEW r \in Streams PROVE SizeOf(RowsOf(r)') + Pending(r)' <= taken'[r]
    <3>1. SizeOf(RowsOf(r)) + Pending(r) <= taken[r]
      BY DEF Accounted
    <3>2. SizeOf(RowsOf(r)') = SizeOf(RowsOf(r)) /\ Pending(r)' = 0 /\ taken'[r] = taken[r]
      BY <2>1
    <3> QED
      BY <1>1, <1>2, <1>3, <3>1, <3>2
  <2> QED
    BY <2>1, <2>2 DEF Accounted
<1>10. CASE Quiet
  <2>1. \A r \in Streams : Pending(r)' = Pending(r) /\ RowsOf(r)' = RowsOf(r)
    BY <1>10 DEF Quiet, Pending, Holds, RowsOf
  <2> QED
    BY <1>10, <2>1 DEF Quiet, Accounted
<1> QED
  BY <1>4, <1>6, <1>7, <1>8, <1>9, <1>10, StepKinds

\* A failure stays counted.
LEMMA FaultsGrow ==
    ASSUME TypeOK, DrainSound, [Next]_vars, faults' = 0
    PROVE  faults = 0
<1>1. ASSUME NEW s \in Streams, DrainRead(s) \/ DrainEnds(s) PROVE faults' = faults
  BY <1>1 DEF DrainRead, DrainEnds
<1>2. ASSUME NEW s \in Streams, AppendInsert(s) PROVE faults' = faults
  BY <1>2, InsertCases, FaultStep DEF Drops, Keeps
<1>3. ASSUME NEW s \in Streams, AppendUpdate(s) PROVE faults' = faults
  BY <1>3, UpdateCases
<1>4. Restart => faults' = faults
  BY DEF Restart
<1>5. Quiet => faults' = faults
  BY DEF Quiet
<1> QED
  BY <1>1, <1>2, <1>3, <1>4, <1>5, StepKinds

\* A row continues the stored prefix of its stream.
LEMMA PrefixStep ==
    ASSUME TypeOK, TypeOK', DrainSound, TableSound, PrefixSound, [Next]_vars
    PROVE  PrefixSound'
<1> DEFINE Linked == \A c \in chunks : c.from > 0 =>
                        \E d \in chunks : d.stream = c.stream /\ d.seq < c.seq /\ d.to = c.from
           At(s) == drain[s] # "done" /\ Frontier(s) > 0 =>
                        \E d \in chunks : d.stream = s /\ d.to = Frontier(s)
<1>1. SUFFICES ASSUME faults' = 0
               PROVE  Linked' /\ (~truncated' => \A r \in Streams : At(r)')
  BY DEF PrefixSound
<1>2. faults = 0
  BY <1>1, FaultsGrow
<1>3. Linked /\ (~truncated => \A r \in Streams : At(r))
  BY <1>2 DEF PrefixSound
<1>4. /\ drain \in [Streams -> {"read", "append", "update", "done"}]
      /\ \A r \in Streams : /\ taken[r] \in Nat
                            /\ buffer[r].from \in Nat /\ buffer[r].to \in Nat
  BY Numbers
<1>keep. ASSUME NEW r \in Streams, At(r), chunks \subseteq chunks',
             drain'[r] # "done" => drain[r] # "done" /\ Frontier(r)' = Frontier(r)
      PROVE  At(r)'
  <2>1. SUFFICES ASSUME drain'[r] # "done", Frontier(r)' > 0
                 PROVE  \E d \in chunks' : d.stream = r /\ d.to = Frontier(r)'
    OBVIOUS
  <2>2. Frontier(r) > 0 /\ drain[r] # "done"
    BY <1>keep, <2>1
  <2>3. PICK d \in chunks : d.stream = r /\ d.to = Frontier(r)
    BY <1>keep, <2>2
  <2> QED
    BY <1>keep, <2>1, <2>3
<1>5. ASSUME NEW s \in Streams, DrainRead(s)
      PROVE  Linked' /\ (~truncated' => \A r \in Streams : At(r)')
  <2>1. UNCHANGED <<chunks, truncated>>
    BY <1>5, ReadCases
  <2>2. \A r \in Streams : Frontier(r)' = Frontier(r) /\ (drain'[r] # "done" => drain[r] # "done")
    BY <1>4, <1>5, ReadCases DEF Frontier, Holds
  <2>3. Linked'
    BY <1>3, <2>1
  <2> HIDE DEF Linked, At
  <2> QED
    BY <1>3, <1>keep, <2>1, <2>2, <2>3
<1>6. ASSUME NEW s \in Streams, DrainEnds(s)
      PROVE  Linked' /\ (~truncated' => \A r \in Streams : At(r)')
  <2>1. UNCHANGED <<chunks, truncated, taken, buffer>> /\ drain' = [drain EXCEPT ![s] = "done"]
    BY <1>6 DEF DrainEnds, tableVars
  <2>2. \A r \in Streams : drain'[r] # "done" => drain[r] # "done" /\ Frontier(r)' = Frontier(r)
    BY <1>4, <2>1 DEF Frontier, Holds
  <2>3. Linked'
    BY <1>3, <2>1
  <2> HIDE DEF Linked, At
  <2> QED
    BY <1>3, <1>keep, <2>1, <2>2, <2>3
<1>7. ASSUME NEW s \in Streams, AppendInsert(s)
      PROVE  Linked' /\ (~truncated' => \A r \in Streams : At(r)')
  <2>1. truncated' = truncated /\ taken' = taken /\ drain[s] = "append"
    BY <1>7, InsertCases
  <2>2. CASE Drops(s)
    BY <1>1, <1>3, <2>1, <2>2, FaultStep DEF Drops
  <2>3. ASSUME NEW kept \in Nat, Keeps(s, kept) PROVE Linked' /\ \A r \in Streams : At(r)'
    <3>1. \A r \in Streams \ {s} : /\ Frontier(r)' = Frontier(r)
                                   /\ drain'[r] # "done" => drain[r] # "done"
      BY <1>4, <2>1, <2>3 DEF Keeps, Frontier, Holds
    <3>2. Frontier(s)' = buffer[s].from + kept /\ Frontier(s) = buffer[s].from
      BY <1>4, <2>1, <2>3 DEF Keeps, Frontier, Holds
    <3>3. \A r \in Streams : At(r)
      BY <1>3, <2>3 DEF Keeps
    <3>4. CASE kept = 0
      <4>1. chunks' = chunks /\ Frontier(s)' = Frontier(s)
        BY <1>4, <2>3, <3>2, <3>4 DEF Keeps
      <4>2. \A r \in Streams : /\ Frontier(r)' = Frontier(r)
                               /\ drain'[r] # "done" => drain[r] # "done"
        BY <2>1, <3>1, <4>1
      <4>3. ASSUME NEW r \in Streams PROVE At(r)'
        <5> HIDE DEF At
        <5> QED
          BY <1>keep, <3>3, <4>1, <4>2
      <4>4. Linked'
        BY <1>3, <4>1
      <4> QED
        BY <4>3, <4>4
    <3>5. CASE kept > 0
      <4> DEFINE row == NewRow(s, kept)
      <4>1. /\ row.seq = sequence /\ row.stream = s /\ row.from = Frontier(s)
            /\ row.to = Frontier(s)'
        BY <3>2 DEF NewRow
      <4>2. chunks' = chunks \cup {row}
        BY <2>3, <3>5 DEF Keeps
      <4> HIDE DEF row
      <4>3. row.from > 0 => \E d \in chunks : d.stream = s /\ d.to = row.from
        BY <2>1, <3>3, <4>1
      <4>4. \A d \in chunks : d.seq < row.seq
        BY <4>1 DEF TableSound
      <4>5. Linked'
        BY <1>3, <4>1, <4>2, <4>3, <4>4
      <4>6. At(s)'
        BY <4>1, <4>2
      <4>7. ASSUME NEW r \in Streams \ {s} PROVE At(r)'
        <5>1. At(r) /\ Frontier(r)' = Frontier(r) /\ (drain'[r] # "done" => drain[r] # "done")
          BY <3>1, <3>3
        <5> HIDE DEF At
        <5> QED
          BY <1>keep, <4>2, <5>1
      <4> QED
        BY <4>5, <4>6, <4>7
    <3> QED
      BY <3>4, <3>5
  <2> QED
    BY <1>7, <2>2, <2>3, InsertCases
<1>8. ASSUME NEW s \in Streams, AppendUpdate(s)
      PROVE  Linked' /\ (~truncated' => \A r \in Streams : At(r)')
  <2>1. /\ drain[s] = "update" /\ drain' = [drain EXCEPT ![s] = "read"]
        /\ UNCHANGED <<chunks, taken, buffer>>
        /\ ~truncated' => ~(Size(buffer[s]) > 0)
    BY <1>1, <1>8, UpdateCases
  <2>2. ~truncated /\ buffer[s].from <= buffer[s].to /\ buffer[s].to = taken[s]
    BY <2>1 DEF DrainSound, Holds
  <2>3. ~truncated' => buffer[s].from = taken[s]
    BY <1>4, <2>1, <2>2 DEF Size
  <2>4. ~truncated' => \A r \in Streams : /\ Frontier(r)' = Frontier(r)
                                          /\ drain'[r] # "done" => drain[r] # "done"
    BY <1>4, <2>1, <2>3 DEF Frontier, Holds
  <2>5. Linked'
    BY <1>3, <2>1
  <2>6. ASSUME ~truncated', NEW r \in Streams PROVE At(r)'
    <3>1. At(r) /\ Frontier(r)' = Frontier(r) /\ (drain'[r] # "done" => drain[r] # "done")
      BY <1>3, <2>2, <2>4, <2>6
    <3> HIDE DEF At
    <3> QED
      BY <1>keep, <2>1, <3>1
  <2> QED
    BY <2>5, <2>6
<1>9. CASE Restart
  BY <1>3, <1>9 DEF Restart, tableVars
<1>10. CASE Quiet
  <2>1. UNCHANGED <<chunks, truncated, drain>> /\ \A r \in Streams : Frontier(r)' = Frontier(r)
    BY <1>10 DEF Quiet, Frontier, Holds
  <2> QED
    BY <1>3, <2>1
<1> QED
  BY <1>5, <1>6, <1>7, <1>8, <1>9, <1>10, StepKinds

\* The counter is read, and the row inserted, while no other row is to be counted.
LEMMA CapStep ==
    ASSUME TypeOK, TypeOK', DrainSound, TableSound, CapSound, [Next]_vars
    PROVE  CapSound'
<1> DEFINE Cap == SizeOf(chunks) <= PersistedBytes
           Even == restarts = 0 /\ Captured => counted = SizeOf(chunks)
           Owes(s) == restarts = 0 /\ drain[s] = "update" => SizeOf(chunks) = counted + LastOf(s)
<1>1. SUFFICES ASSUME faults' = 0
               PROVE  Cap' /\ Even' /\ \A r \in Streams : Owes(r)'
  BY DEF CapSound
<1>2. faults = 0
  BY <1>1, FaultsGrow
<1>3. Cap /\ Even /\ \A r \in Streams : Owes(r)
  BY <1>2 DEF CapSound
<1>4. drain \in [Streams -> {"read", "append", "update", "done"}]
  BY DEF TypeOK
<1>5. ASSUME UNCHANGED <<chunks, counted, sequence, restarts>>,
             \A r \in Streams : drain'[r] = "update" <=> drain[r] = "update"
      PROVE  Cap' /\ Even' /\ \A r \in Streams : Owes(r)'
  <2>1. Captured' = Captured /\ \A r \in Streams : LastOf(r)' = LastOf(r)
    BY <1>5 DEF Captured, LastOf
  <2> QED
    BY <1>3, <1>5, <2>1
<1>6. ASSUME NEW s \in Streams, DrainRead(s) PROVE Cap' /\ Even' /\ \A r \in Streams : Owes(r)'
  <2>1. UNCHANGED <<chunks, counted, sequence, restarts>>
    BY <1>6, ReadCases
  <2>2. \A r \in Streams : drain'[r] = "update" <=> drain[r] = "update"
    BY <1>4, <1>6, ReadCases
  <2> QED
    BY <1>5, <2>1, <2>2
<1>7. ASSUME NEW s \in Streams, DrainEnds(s) PROVE Cap' /\ Even' /\ \A r \in Streams : Owes(r)'
  <2>1. /\ UNCHANGED <<chunks, counted, sequence, restarts>>
        /\ drain[s] = "read" /\ drain' = [drain EXCEPT ![s] = "done"]
    BY <1>7 DEF DrainEnds, tableVars
  <2>2. \A r \in Streams : drain'[r] = "update" <=> drain[r] = "update"
    BY <1>4, <2>1
  <2> QED
    BY <1>5, <2>1, <2>2
<1>8. ASSUME NEW s \in Streams, AppendInsert(s) PROVE Cap' /\ Even' /\ \A r \in Streams : Owes(r)'
  <2>1. /\ UNCHANGED <<counted, restarts>> /\ drain[s] = "append" /\ Captured
        /\ sequence' = sequence + 1
    BY <1>8, InsertCases
  <2>2. restarts = 0 /\ counted = SizeOf(chunks)
    <3>1. ~(restarts > 0) /\ restarts \in Nat
      BY <2>1, Numbers DEF DrainSound
    <3> QED
      BY <1>3, <2>1, <3>1
  <2>3. CASE Drops(s)
    <3>1. chunks' = chunks /\ \A r \in Streams : drain'[r] # "update"
      BY <1>4, <2>1, <2>3 DEF Drops, Captured
    <3> QED
      BY <1>3, <2>1, <2>2, <3>1
  <2>4. ASSUME NEW kept \in Nat, kept \in Kept(Size(buffer[s])), Size(buffer[s]) \in Nat,
               Keeps(s, kept), NewRow(s, kept) \in Row
        PROVE  Cap' /\ Even' /\ \A r \in Streams : Owes(r)'
    <3>1. /\ SizeOf(chunks) \in Nat /\ SizeOf(chunks') = SizeOf(chunks) + kept
          /\ LastOf(s)' = kept
      BY <2>1, <2>4, Stores
    <3>2. counted + kept <= PersistedBytes
      BY <1>3, <2>2, <2>4, Numbers, KeptBounded
    <3>3. drain'[s] = "update" /\ \A r \in Streams : drain'[r] = "update" => r = s
      BY <1>4, <2>1, <2>4 DEF Keeps, Captured
    <3>4. ~Captured'
      BY <3>3 DEF Captured
    <3> QED
      BY <2>1, <2>2, <3>1, <3>2, <3>3, <3>4
  <2> QED
    BY <1>8, <2>3, <2>4, InsertCases
<1>9. ASSUME NEW s \in Streams, AppendUpdate(s) PROVE Cap' /\ Even' /\ \A r \in Streams : Owes(r)'
  <2>1. /\ drain[s] = "update" /\ UNCHANGED <<chunks, restarts>>
        /\ counted' = counted + LastOf(s)
    BY <1>1, <1>9, UpdateCases
  <2>2. \A r \in Streams : drain'[r] # "update"
    BY <1>4, <1>9, UpdateCases DEF DrainSound
  <2>3. restarts = 0 => SizeOf(chunks) = counted'
    BY <1>3, <2>1
  <2> QED
    BY <1>3, <2>1, <2>2, <2>3
<1>10. CASE Restart
  <2>1. restarts' # 0 /\ chunks' = chunks
    BY <1>10, Numbers DEF Restart, tableVars
  <2> QED
    BY <1>3, <2>1
<1>11. CASE Quiet
  BY <1>5, <1>11 DEF Quiet
<1> QED
  BY <1>6, <1>7, <1>8, <1>9, <1>10, <1>11, StepKinds

-----------------------------------------------------------------------------
(* The end of the request and its readers.                                  *)

\* A step of the command or of the daemon that no reader takes part in: it may store
\* a row, under the next sequence number.
Behind ==
    /\ UNCHANGED <<watch, after, wire, client, next, printed, told, code, restarts>>
    /\ chunks \subseteq chunks' /\ \A d \in chunks' \ chunks : d.seq = sequence

Reads ==
    \/ WatchOutput \/ WatchStatus \/ WatchFails
    \/ ClientDials \/ ClientReceives \/ ClientGivesUp

\* Every step is one of these.
LEMMA ReaderKinds ==
    ASSUME TypeOK, DrainSound, [Next]_vars
    PROVE  Behind \/ Reads \/ Restart
<1>1. ASSUME NEW s \in Streams, CommandWrites(s) PROVE Behind
  BY <1>1 DEF CommandWrites, Behind, tableVars, watchVars, clientVars
<1>2. ASSUME NEW s \in Streams, DrainRead(s) PROVE Behind
  BY <1>2 DEF DrainRead, Behind, tableVars, watchVars, clientVars
<1>3. ASSUME NEW s \in Streams, DrainEnds(s) PROVE Behind
  BY <1>3 DEF DrainEnds, Behind, tableVars, watchVars, clientVars
<1>4. ASSUME NEW s \in Streams, AppendInsert(s) PROVE Behind
  <2>1. UNCHANGED <<watch, after, wire, client, next, printed, told, code, restarts>>
    BY <1>4, InsertCases
  <2>2. CASE chunks' = chunks
    BY <2>1, <2>2 DEF Behind
  <2>3. ASSUME NEW kept \in Nat, chunks' = chunks \cup {NewRow(s, kept)} PROVE Behind
    BY <2>1, <2>3 DEF Behind, NewRow
  <2> QED
    BY <1>4, <2>2, <2>3, InsertCases DEF Drops, Keeps
<1>5. ASSUME NEW s \in Streams, AppendUpdate(s) PROVE Behind
  BY <1>5 DEF AppendUpdate, Behind, watchVars, clientVars
<1>6. CommandExits \/ WaitReturns \/ Finish => Behind
  BY DEF CommandExits, WaitReturns, Finish, Behind, tableVars, watchVars, clientVars
<1>7. UNCHANGED vars => Behind
  BY DEF vars, Behind, tableVars, watchVars, clientVars
<1> QED
  BY <1>1, <1>2, <1>3, <1>4, <1>5, <1>6, <1>7 DEF Next, Drain, Watch, Reads

\* What readers leave alone.
LEMMA ReadsOnly ==
    ASSUME Reads
    PROVE  UNCHANGED <<command, waiter, drain, outcome, chunks, truncated, sequence, restarts>>
<1>1. WatchOutput => UNCHANGED <<command, waiter, drain, outcome, chunks, truncated, sequence,
                                 restarts>>
  BY DEF WatchOutput, commandVars, drainVars, tableVars
<1>2. WatchStatus \/ WatchFails =>
         UNCHANGED <<command, waiter, drain, outcome, chunks, truncated, sequence, restarts>>
  BY DEF WatchStatus, WatchFails, commandVars, drainVars, tableVars
<1>3. ClientDials \/ ClientGivesUp =>
         UNCHANGED <<command, waiter, drain, outcome, chunks, truncated, sequence, restarts>>
  BY DEF ClientDials, ClientGivesUp, commandVars, drainVars, tableVars
<1>4. ClientReceives => UNCHANGED <<command, waiter, drain, outcome, chunks, truncated,
                                    sequence, restarts>>
  BY DEF ClientReceives, commandVars, drainVars, tableVars
<1> QED
  BY <1>1, <1>2, <1>3, <1>4 DEF Reads

\* The outcome is stored once, after the command has ended.
LEMMA OutcomeStep ==
    ASSUME TypeOK, TypeOK', DrainSound, OutcomeSound, [Next]_vars
    PROVE  OutcomeSound'
<1>1. CASE UNCHANGED <<command, waiter, outcome, restarts>>
  BY <1>1 DEF OutcomeSound, Ended
<1>2. ASSUME NEW s \in Streams, CommandWrites(s) \/ Drain(s)
      PROVE  UNCHANGED <<command, waiter, outcome, restarts>>
  <2>1. CASE CommandWrites(s)
    BY <2>1 DEF CommandWrites
  <2>2. CASE DrainRead(s) \/ DrainEnds(s)
    BY <2>2 DEF DrainRead, DrainEnds, commandVars
  <2>3. CASE AppendInsert(s)
    BY <2>3, InsertCases
  <2>4. CASE AppendUpdate(s)
    BY <2>4 DEF AppendUpdate, commandVars
  <2> QED
    BY <1>2, <2>1, <2>2, <2>3, <2>4 DEF Drain
<1>3. CASE CommandExits
  <2>1. command = "running" /\ command' \in Exits /\ UNCHANGED <<waiter, outcome, restarts>>
    BY <1>3 DEF CommandExits
  <2>2. waiter = "wait" /\ outcome = "none"
    BY <2>1 DEF OutcomeSound, Ended
  <2> QED
    BY <2>1, <2>2 DEF OutcomeSound, Ended
<1>4. CASE WaitReturns
  BY <1>4 DEF WaitReturns, commandVars, OutcomeSound, Ended
<1>5. CASE Finish
  <2>1. waiter = "drains" /\ waiter' = "finished" /\ UNCHANGED <<command, restarts>>
        /\ outcome' \in {command, outcome}
    BY <1>5 DEF Finish, commandVars
  <2> QED
    BY <2>1 DEF OutcomeSound, Ended
<1>6. CASE Restart
  <2>1. /\ waiter' = "finished" /\ restarts' # 0
        /\ command' = IF command = "running" THEN "-" ELSE command
        /\ outcome' = IF Ended THEN outcome ELSE "-"
    BY <1>6, Numbers DEF Restart
  <2>2. outcome \in {"none", "-", command} /\ (Ended => command # "running")
    BY DEF OutcomeSound, Ended
  <2> QED
    BY <2>1, <2>2 DEF OutcomeSound, Ended, Exits
<1>7. CASE Reads
  BY <1>1, <1>7, ReadsOnly
<1>8. CASE UNCHANGED vars
  BY <1>1, <1>8 DEF vars, commandVars
<1> QED
  BY <1>1, <1>2, <1>3, <1>4, <1>5, <1>6, <1>7, <1>8 DEF Next, Watch, Reads

\* What is stored of the end of a request, and whether output was cut, stays.
LEMMA EndStays ==
    ASSUME TypeOK, DrainSound, OutcomeSound, [Next]_vars, Ended
    PROVE  outcome' = outcome /\ truncated' = truncated
<1>1. /\ waiter = "finished" /\ \A s \in Streams : drain[s] = "done"
  BY DEF OutcomeSound, DrainSound
<1>2. ASSUME NEW s \in Streams, CommandWrites(s) \/ Drain(s)
      PROVE  outcome' = outcome /\ truncated' = truncated
  <2>1. ~DrainRead(s) /\ ~DrainEnds(s) /\ ~AppendInsert(s) /\ ~AppendUpdate(s)
    BY <1>1 DEF DrainRead, DrainEnds, AppendInsert, AppendUpdate
  <2> QED
    BY <1>2, <2>1 DEF Drain, CommandWrites, tableVars
<1>3. ~WaitReturns /\ ~Finish
  BY <1>1 DEF WaitReturns, Finish
<1>4. CommandExits \/ Restart \/ UNCHANGED vars => outcome' = outcome /\ truncated' = truncated
  BY DEF CommandExits, Restart, vars, tableVars
<1> QED
  BY <1>2, <1>3, <1>4, ReadsOnly DEF Next, Watch, Reads

\* What is under way after an event or a batch was sent, and after one was received.
LEMMA WireSends ==
    ASSUME wire \in Seq(Event), NEW e \in Event, wire' = Append(wire, e)
    PROVE  /\ Len(wire) \in Nat /\ Len(wire') = Len(wire) + 1
           /\ wire'[Len(wire) + 1] = e
           /\ \A i \in 1..Len(wire) : wire'[i] = wire[i]
OBVIOUS

LEMMA WireBatches ==
    ASSUME wire \in Seq(Event), chunks \in SUBSET Row, NEW b \in Seq(chunks),
           wire' = wire \o [i \in 1..Len(b) |-> Output(b[i])]
    PROVE  /\ Len(wire) \in Nat /\ Len(b) \in Nat /\ Len(wire') = Len(wire) + Len(b)
           /\ \A i \in 1..Len(wire) : wire'[i] = wire[i]
           /\ \A j \in 1..Len(b) : wire'[Len(wire) + j] = Output(b[j]) /\ b[j] \in chunks
           /\ \A i \in 1..Len(wire') : i > Len(wire) => i - Len(wire) \in 1..Len(b)
<1> DEFINE t == [i \in 1..Len(b) |-> Output(b[i])]
<1>1. Len(b) \in Nat /\ \A j \in 1..Len(b) : b[j] \in chunks
  OBVIOUS
<1>2. t \in Seq(Event) /\ Len(t) = Len(b)
  <2>1. \A j \in 1..Len(b) : Output(b[j]) \in Event
    BY <1>1, EventFields
  <2>2. t \in [1..Len(b) -> Event]
    BY <2>1
  <2> QED
    BY <1>1, <2>2
<1>3. \A j \in 1..Len(b) : t[j] = Output(b[j])
  OBVIOUS
<1> HIDE DEF t
<1>4. wire' = wire \o t
  BY DEF t
<1> QED
  BY <1>1, <1>2, <1>3, <1>4

LEMMA WireReceives ==
    ASSUME wire \in Seq(Event), wire # <<>>, wire' = Tail(wire)
    PROVE  /\ Len(wire) \in Nat /\ 1 \in 1..Len(wire) /\ Len(wire') = Len(wire) - 1
           /\ Head(wire) = wire[1]
           /\ \A i \in 1..Len(wire') : /\ i + 1 \in 1..Len(wire) /\ wire'[i] = wire[i + 1]
                                       /\ i + 1 = Len(wire) => i = Len(wire')
           /\ 1 = Len(wire) => wire' = <<>>
OBVIOUS

\* An event that was sent stays true, and the last one stays the last.
LEMMA WireStep ==
    ASSUME TypeOK, TypeOK', DrainSound, TableSound, OutcomeSound, WireSound, [Next]_vars
    PROVE  WireSound'
<1> DEFINE Fits(e) == /\ e.type \in {"output", "error", "finished"}
                      /\ e.type = "output" => e.body \in chunks
                      /\ e.type = "finished" => Tells(e)
           Final(i) == wire[i].type # "output" => i = Len(wire) /\ watch = "none"
<1>1. SUFFICES /\ client' # "watching" => wire' = <<>> /\ watch' = "none"
               /\ \A i \in 1..Len(wire') : Fits(wire[i])' /\ Final(i)'
  BY DEF WireSound
<1>2. /\ client # "watching" => wire = <<>> /\ watch = "none"
      /\ \A i \in 1..Len(wire) : Fits(wire[i]) /\ Final(i)
  BY DEF WireSound
<1>3. wire \in Seq(Event) /\ Len(wire) \in Nat /\ chunks \in SUBSET Row /\ truncated \in BOOLEAN
  BY DEF TypeOK
<1>4. chunks \subseteq chunks'
  BY ReaderKinds, ReadsOnly DEF Behind, Restart, tableVars
<1>5. ASSUME NEW e, Fits(e) PROVE Fits(e)'
  BY <1>4, <1>5, EndStays, FaultsGrow DEF Tells, Ended
<1>6. CASE Behind
  <2>1. UNCHANGED <<watch, wire, client>>
    BY <1>6 DEF Behind
  <2>2. ASSUME NEW i \in 1..Len(wire') PROVE Fits(wire[i])' /\ Final(i)'
    <3>1. PICK e : e = wire[i] /\ e = wire'[i]
      BY <2>1
    <3>2. Fits(e) /\ Final(i)
      BY <1>2, <2>1, <3>1
    <3> QED
      BY <1>5, <2>1, <3>1, <3>2
  <2> QED
    BY <1>2, <2>1, <2>2
<1>7. CASE client' # "watching" /\ wire' = <<>> /\ watch' = "none"
  BY <1>7
<1>8. CASE WatchOutput
  <2>1. watch = "output" /\ client' = client
    BY <1>8 DEF WatchOutput, clientVars
  <2>2. PICK b \in Seq(chunks) : wire' = wire \o [i \in 1..Len(b) |-> Output(b[i])]
    BY <1>8, WatchBatch
  <2>3. ASSUME NEW i \in 1..Len(wire') PROVE Fits(wire[i])' /\ Final(i)'
    <3>1. CASE i \in 1..Len(wire)
      <4>1. PICK e : e = wire[i] /\ e = wire'[i]
        BY <1>3, <2>2, <3>1, WireBatches
      <4>2. Fits(e) /\ e.type = "output"
        BY <1>2, <2>1, <3>1, <4>1
      <4> QED
        BY <1>5, <4>1, <4>2
    <3>2. CASE i > Len(wire)
      <4>1. PICK j \in 1..Len(b) : i = Len(wire) + j
        BY <1>3, <2>2, <2>3, <3>2, WireBatches
      <4>2. PICK c \in chunks : wire'[i] = Output(c)
        BY <1>3, <2>2, <4>1, WireBatches
      <4> QED
        BY <1>3, <1>4, <4>2, EventFields
    <3> QED
      BY <1>3, <2>3, <3>1, <3>2, WireBatches, <2>2
  <2> QED
    BY <1>2, <2>1, <2>3
<1>9. ASSUME NEW e \in Event, watch # "none", wire' = Append(wire, e), watch' = "none",
             client' = client, e.type # "output", Fits(e)'
      PROVE  /\ client' # "watching" => wire' = <<>> /\ watch' = "none"
             /\ \A i \in 1..Len(wire') : Fits(wire[i])' /\ Final(i)'
  <2>1. ASSUME NEW i \in 1..Len(wire') PROVE Fits(wire[i])' /\ Final(i)'
    <3>1. CASE i \in 1..Len(wire)
      <4>1. PICK f : f = wire[i] /\ f = wire'[i]
        BY <1>3, <1>9, <3>1, WireSends
      <4>2. Fits(f) /\ f.type = "output"
        BY <1>2, <1>9, <3>1, <4>1
      <4> QED
        BY <1>5, <4>1, <4>2
    <3>2. CASE i = Len(wire) + 1
      <4>1. wire'[i] = e /\ i = Len(wire')
        BY <1>3, <1>9, <3>2, WireSends
      <4> QED
        BY <1>9, <4>1
    <3> QED
      BY <1>3, <1>9, <2>1, <3>1, <3>2, WireSends
  <2> QED
    BY <1>2, <1>9, <2>1
<1>10. CASE WatchStatus
  <2>1. watch = "status" /\ UNCHANGED <<client, outcome, truncated>>
    BY <1>10 DEF WatchStatus, clientVars, tableVars
  <2>2. ASSUME NEW how \in Exits, Ended, wire' = Append(wire, FinishedEvent(how)),
               watch' = "none", how \in {outcome, "-"}, faults' = 0 => how = outcome
        PROVE  /\ client' # "watching" => wire' = <<>> /\ watch' = "none"
               /\ \A i \in 1..Len(wire') : Fits(wire[i])' /\ Final(i)'
    <3>1. PICK e \in Event : /\ e = FinishedEvent(how) /\ e.type = "finished"
                             /\ e.truncated = truncated /\ e.outcome = how
      BY <1>3, EventFields
    <3>2. Fits(e)'
      BY <2>1, <2>2, <3>1 DEF Tells, Ended
    <3> HIDE DEF Fits, Final
    <3> QED
      BY <1>9, <2>1, <2>2, <3>1, <3>2
  <2>3. CASE wire' = wire /\ watch' = "output"
    <3>1. ASSUME NEW i \in 1..Len(wire') PROVE Fits(wire[i])' /\ Final(i)'
      <4>1. PICK e : e = wire[i] /\ e = wire'[i]
        BY <2>3
      <4>2. Fits(e) /\ e.type = "output"
        BY <1>2, <2>1, <2>3, <4>1
      <4> QED
        BY <1>5, <4>1, <4>2
    <3> QED
      BY <1>2, <2>1, <3>1
  <2>4. Ended => outcome \in Exits
    BY DEF TypeOK, Ended
  <2>5. \/ wire' = wire /\ watch' = "output"
        \/ \E how \in Exits : /\ Ended /\ wire' = Append(wire, FinishedEvent(how))
                              /\ watch' = "none" /\ how \in {outcome, "-"}
                              /\ faults' = 0 => how = outcome
    <3>1. CASE ~Ended
      BY <1>10, <3>1 DEF WatchStatus
    <3>2. CASE Ended /\ watch' = "none" /\ wire' = Append(wire, FinishedEvent(outcome))
      BY <2>4, <3>2
    <3>3. CASE /\ Ended /\ watch' = "none" /\ Fault
               /\ wire' = Append(wire, FinishedEvent(IF outcome = "0" THEN "0" ELSE "-"))
      <4>1. (IF outcome = "0" THEN "0" ELSE "-") \in Exits \cap {outcome, "-"}
        BY DEF Exits
      <4> QED
        BY <3>3, <4>1, FaultStep
    <3> QED
      BY <1>10, <3>1, <3>2, <3>3 DEF WatchStatus
  <2> HIDE DEF Fits, Final
  <2> QED
    BY <2>2, <2>3, <2>5
<1>11. CASE WatchFails
  <2>1. /\ watch # "none" /\ wire' = Append(wire, Broken) /\ watch' = "none"
        /\ client' = client
    BY <1>11 DEF WatchFails, clientVars
  <2>2. Broken \in Event /\ Broken.type = "error"
    BY EventFields
  <2>3. PICK e \in Event : e = Broken /\ e.type = "error"
    BY <2>2
  <2>4. Fits(e)'
    BY <2>3
  <2> HIDE DEF Fits, Final
  <2> QED
    BY <1>9, <2>1, <2>3, <2>4
<1>12. CASE ClientDials
  <2>1. client = "dialing" /\ client' = "watching" /\ wire' = wire
    BY <1>12 DEF ClientDials
  <2> QED
    BY <1>2, <2>1
<1>13. CASE ClientReceives
  <2>1. client = "watching" /\ wire # <<>> /\ wire' = Tail(wire) /\ watch' = watch
    BY <1>13, ReceiveCases
  <2>2. ASSUME NEW i \in 1..Len(wire') PROVE Fits(wire[i])' /\ Final(i)'
    <3>1. PICK e : e = wire[i + 1] /\ e = wire'[i]
      BY <1>3, <2>1, WireReceives
    <3>2. i + 1 \in 1..Len(wire)
      BY <1>3, <2>1, WireReceives
    <3>3. Fits(e) /\ Final(i + 1)
      BY <1>2, <3>1, <3>2
    <3>4. i + 1 = Len(wire) => i = Len(wire')
      BY <1>3, <2>1, WireReceives
    <3>5. Fits(e)'
      BY <1>5, <3>3
    <3>6. Final(i)'
      <4>1. SUFFICES ASSUME wire'[i].type # "output" PROVE i = Len(wire') /\ watch' = "none"
        OBVIOUS
      <4>2. i + 1 = Len(wire) /\ watch = "none"
        BY <3>1, <3>3, <4>1
      <4> QED
        BY <2>1, <3>4, <4>2
    <3> QED
      BY <3>1, <3>5, <3>6
  <2>3. client' # "watching" => wire' = <<>> /\ watch' = "none"
    <3>1. SUFFICES ASSUME client' # "watching" PROVE wire' = <<>> /\ watch' = "none"
      OBVIOUS
    <3>2. /\ 1 \in 1..Len(wire) /\ Head(wire) = wire[1]
          /\ 1 = Len(wire) => wire' = <<>>
      BY <1>3, <2>1, WireReceives
    <3>3. wire[1].type # "output"
      BY <1>13, <2>1, <3>1, <3>2, ReceiveCases
    <3>4. 1 = Len(wire) /\ watch = "none"
      BY <1>2, <3>2, <3>3
    <3> QED
      BY <2>1, <3>2, <3>4
  <2> QED
    BY <2>2, <2>3
<1>14. ClientGivesUp \/ Restart => client' # "watching" /\ wire' = <<>> /\ watch' = "none"
  BY DEF ClientGivesUp, Restart
<1> QED
  BY <1>6, <1>7, <1>8, <1>10, <1>11, <1>12, <1>13, <1>14, ReaderKinds DEF Reads

\* The CLI returns what an event told it, and that stays true.
LEMMA CodeStep ==
    ASSUME TypeOK, DrainSound, OutcomeSound, WireSound, CodeSound, [Next]_vars
    PROVE  CodeSound'
<1> DEFINE Knows == /\ Ended /\ told = truncated
                    /\ code \in {Returned(outcome), "error"}
                    /\ faults = 0 => code = Returned(outcome)
<1>1. SUFFICES /\ client' = "finished" => Knows'
               /\ client' # "finished" => code' \in {"none", "error"}
  BY DEF CodeSound
<1>2. /\ client = "finished" => Knows
      /\ client # "finished" => code \in {"none", "error"}
  BY DEF CodeSound
<1>3. Ended => outcome' = outcome /\ truncated' = truncated
  BY EndStays
<1>4. CASE UNCHANGED <<told, code>> /\ (client' = "finished" <=> client = "finished")
  <2>1. client = "finished" => Knows'
    BY <1>2, <1>3, <1>4, FaultsGrow DEF Ended, Returned
  <2> QED
    BY <1>2, <1>4, <2>1
<1>5. Behind \/ WatchOutput \/ WatchStatus \/ WatchFails \/ ClientDials \/ Restart =>
         UNCHANGED <<told, code>> /\ (client' = "finished" <=> client = "finished")
  BY DEF Behind, WatchOutput, WatchStatus, WatchFails, ClientDials, Restart, clientVars
<1>6. CASE ClientGivesUp
  BY <1>6 DEF ClientGivesUp
<1>7. CASE ClientReceives
  <2>1. wire \in Seq(Event) /\ wire # <<>> /\ client = "watching" /\ wire' = Tail(wire)
    BY <1>7, ReceiveCases DEF TypeOK
  <2>2. PICK e : e = Head(wire) /\ e = wire[1] /\ 1 \in 1..Len(wire)
    BY <2>1, WireReceives
  <2>3. e.type \in {"output", "error", "finished"} /\ (e.type = "finished" => Tells(e))
    BY <2>2 DEF WireSound
  <2>4. CASE e.type = "output"
    BY <1>4, <1>7, <2>1, <2>2, <2>4, ReceiveCases
  <2>5. CASE e.type = "error"
    BY <1>4, <1>7, <2>1, <2>2, <2>5, ReceiveCases
  <2>6. CASE e.type = "finished"
    <3>1. /\ client' = "finished" /\ told' = e.truncated /\ code' = Returned(e.outcome)
          /\ UNCHANGED <<outcome, truncated, faults>>
      BY <1>7, <2>2, <2>6, ReceiveCases
    <3>2. Tells(e)
      BY <2>3, <2>6
    <3> QED
      BY <3>1, <3>2 DEF Tells, Ended, Returned
  <2> QED
    BY <2>3, <2>4, <2>5, <2>6
<1> QED
  BY <1>4, <1>5, <1>6, <1>7, ReaderKinds DEF Reads

\* No row is sent before one that the CLI lacks and that was stored earlier.
LEMMA GapStep ==
    ASSUME TypeOK, TypeOK', DrainSound, TableSound, WireSound, NoGap, [Next]_vars
    PROVE  NoGap'
<1> DEFINE Before(i) == wire[i].type = "output" =>
                           \A d \in chunks : next <= d.seq /\ d.seq < wire[i].body.seq =>
                               Sent(d, i - 1)
           Upto == watch # "none" => \A d \in chunks : next <= d.seq /\ d.seq < after =>
                                        Sent(d, Len(wire))
<1>1. SUFFICES (\A i \in 1..Len(wire') : Before(i)') /\ Upto'
  BY DEF NoGap
<1>2. (\A i \in 1..Len(wire) : Before(i)) /\ Upto
  BY DEF NoGap
<1>3. /\ wire \in Seq(Event) /\ Len(wire) \in Nat /\ chunks \in SUBSET Row
      /\ next \in Nat /\ after \in Nat /\ sequence \in Nat
      /\ \A d \in chunks : d.seq \in Nat /\ d.seq < sequence
      /\ next <= sequence /\ after <= sequence
  BY DEF TypeOK, TableSound, Row
<1>4. CASE Behind
  <2>1. UNCHANGED <<watch, after, wire, next>>
    BY <1>4 DEF Behind
  <2>2. \A d, n : Sent(d, n)' <=> Sent(d, n)
    BY <2>1 DEF Sent
  <2>3. ASSUME NEW d \in chunks', NEW n \in Nat, d.seq < n, n <= sequence PROVE d \in chunks
    BY <1>3, <1>4, <2>3 DEF Behind
  <2>4. ASSUME NEW i \in 1..Len(wire') PROVE Before(i)'
    <3>1. SUFFICES ASSUME wire[i].type = "output", NEW d \in chunks', next <= d.seq,
                          d.seq < wire[i].body.seq
                   PROVE  Sent(d, i - 1)
      BY <2>1, <2>2
    <3>2. wire[i].body \in chunks
      BY <2>1, <3>1 DEF WireSound
    <3>3. wire[i].body.seq \in Nat /\ wire[i].body.seq <= sequence
      BY <1>3, <3>2
    <3>4. d \in chunks
      BY <2>3, <3>1, <3>3
    <3> QED
      BY <1>2, <2>1, <3>1, <3>4
  <2>5. Upto'
    <3>1. SUFFICES ASSUME watch # "none", NEW d \in chunks', next <= d.seq, d.seq < after
                   PROVE  Sent(d, Len(wire))
      BY <2>1 DEF Sent
    <3>2. d \in chunks
      BY <1>3, <2>3, <3>1
    <3> QED
      BY <1>2, <3>1, <3>2
  <2> QED
    BY <2>4, <2>5
<1>5. CASE WatchOutput
  <2>1. watch = "output" /\ UNCHANGED <<next, chunks>>
    BY <1>5 DEF WatchOutput, clientVars, tableVars
  <2>2. PICK b \in Seq(chunks) :
              /\ wire' = wire \o [i \in 1..Len(b) |-> Output(b[i])]
              /\ after' \in Nat
              /\ \A i \in 1..Len(b) :
                    \A d \in chunks : after <= d.seq /\ d.seq < b[i].seq =>
                        \E j \in 1..(i - 1) : b[j] = d
              /\ \A d \in chunks : after <= d.seq /\ d.seq < after' =>
                    \E j \in 1..Len(b) : b[j] = d
    BY <1>5, WatchBatch
  <2>3. /\ Len(b) \in Nat /\ Len(wire') = Len(wire) + Len(b)
        /\ \A i \in 1..Len(wire) : wire'[i] = wire[i]
        /\ \A j \in 1..Len(b) : wire'[Len(wire) + j] = Output(b[j]) /\ b[j] \in chunks
        /\ \A i \in 1..Len(wire') : i > Len(wire) => i - Len(wire) \in 1..Len(b)
    BY <1>3, <2>2, WireBatches
  <2>4. ASSUME NEW d \in chunks, NEW n \in 0..Len(wire), Sent(d, n), NEW m \in Nat, n <= m
        PROVE  Sent(d, m)'
    <3>1. PICK j \in 1..n : wire[j].type = "output" /\ wire[j].body = d
      BY <2>4 DEF Sent
    <3>2. j \in 1..m /\ j \in 1..Len(wire)
      BY <1>3, <2>4
    <3> QED
      BY <2>3, <3>1, <3>2 DEF Sent
  <2>5. ASSUME NEW d \in chunks, NEW j \in 1..Len(b), b[j] = d, NEW m \in Nat, Len(wire) + j <= m
        PROVE  Sent(d, m)'
    <3>1. Len(wire) + j \in 1..m
      BY <1>3, <2>3, <2>5
    <3>2. wire'[Len(wire) + j] = Output(d) /\ d \in Row
      BY <1>3, <2>3, <2>5
    <3>3. Output(d).type = "output" /\ Output(d).body = d
      BY <3>2, EventFields
    <3> QED
      BY <3>1, <3>2, <3>3 DEF Sent
  <2>6. ASSUME NEW d \in chunks, next <= d.seq, d.seq < after PROVE Sent(d, Len(wire))
    BY <1>2, <2>1, <2>6
  <2>7. ASSUME NEW i \in 1..Len(wire') PROVE Before(i)'
    <3>1. SUFFICES ASSUME wire'[i].type = "output", NEW d \in chunks, next <= d.seq,
                          d.seq < wire'[i].body.seq
                   PROVE  Sent(d, i - 1)'
      BY <2>1
    <3>2. i - 1 \in Nat /\ i \in Nat
      BY <2>7, <1>3, <2>3
    <3>3. CASE i \in 1..Len(wire)
      <4>1. Sent(d, i - 1) /\ i - 1 \in 0..Len(wire)
        BY <1>2, <1>3, <2>3, <3>1, <3>3
      <4> QED
        BY <2>4, <3>2, <4>1
    <3>4. CASE i > Len(wire) /\ d.seq < after
      <4>1. Sent(d, Len(wire)) /\ Len(wire) \in 0..Len(wire) /\ Len(wire) <= i - 1
        BY <1>3, <2>6, <3>1, <3>2, <3>4
      <4> QED
        BY <2>4, <3>2, <4>1
    <3>5. CASE i > Len(wire) /\ after <= d.seq
      <4>0. i - Len(wire) \in 1..Len(b) /\ i = Len(wire) + (i - Len(wire))
        BY <1>3, <2>3, <3>2, <3>5
      <4>1. PICK k \in 1..Len(b) : i = Len(wire) + k
        BY <4>0
      <4>2. wire'[i] = Output(b[k]) /\ b[k] \in Row
        BY <1>3, <2>3, <4>1
      <4>3. wire'[i].body = b[k]
        BY <4>2, EventFields
      <4>4. PICK j \in 1..(k - 1) : b[j] = d
        BY <2>2, <3>1, <3>5, <4>3
      <4>5. j \in 1..Len(b) /\ Len(wire) + j <= i - 1
        BY <1>3, <2>3, <4>1
      <4> QED
        BY <2>5, <3>2, <4>4, <4>5
    <3> QED
      BY <1>3, <3>2, <3>3, <3>4, <3>5
  <2>8. Upto'
    <3>1. PICK m \in Nat : m = Len(wire') /\ m = Len(wire) + Len(b)
      BY <1>3, <2>3
    <3>2. SUFFICES ASSUME NEW d \in chunks, next <= d.seq, d.seq < after'
                   PROVE  Sent(d, m)'
      BY <2>1, <3>1 DEF Sent
    <3>3. CASE d.seq < after
      <4>1. PICK n \in 0..Len(wire) : n = Len(wire)
        BY <1>3
      <4>2. Sent(d, n) /\ n <= m
        BY <1>3, <2>3, <2>6, <3>1, <3>2, <3>3, <4>1
      <4> QED
        BY <2>4, <4>2
    <3>4. CASE after <= d.seq
      <4>1. PICK j \in 1..Len(b) : b[j] = d
        BY <2>2, <3>2, <3>4
      <4>2. Len(wire) + j <= m
        BY <1>3, <2>3, <3>1
      <4> QED
        BY <2>5, <4>1, <4>2
    <3> QED
      BY <1>3, <3>3, <3>4
  <2> QED
    BY <2>7, <2>8
<1>6. ASSUME NEW e \in Event, wire' = Append(wire, e), watch' = "none", e.type # "output",
             UNCHANGED <<chunks, next>>
      PROVE  (\A i \in 1..Len(wire') : Before(i)') /\ Upto'
  <2>1. /\ Len(wire') = Len(wire) + 1 /\ wire'[Len(wire) + 1] = e
        /\ \A i \in 1..Len(wire) : wire'[i] = wire[i]
    BY <1>3, <1>6, WireSends
  <2>2. ASSUME NEW i \in 1..Len(wire') PROVE Before(i)'
    <3>1. SUFFICES ASSUME wire'[i].type = "output", NEW d \in chunks, next <= d.seq,
                          d.seq < wire'[i].body.seq
                   PROVE  Sent(d, i - 1)'
      BY <1>6
    <3>2. i \in 1..Len(wire)
      BY <1>3, <1>6, <2>1, <2>2, <3>1
    <3>3. Sent(d, i - 1)
      BY <1>2, <2>1, <3>1, <3>2
    <3>4. PICK j \in 1..(i - 1) : wire[j].type = "output" /\ wire[j].body = d
      BY <3>3 DEF Sent
    <3>5. wire'[j] = wire[j]
      BY <1>3, <2>1, <3>2
    <3> QED
      BY <3>4, <3>5 DEF Sent
  <2> QED
    BY <1>6, <2>2
<1>7. CASE WatchStatus
  <2>1. UNCHANGED <<chunks, next, after>> /\ watch = "status"
    BY <1>7 DEF WatchStatus, tableVars, clientVars
  <2>2. CASE wire' = wire
    BY <1>2, <2>1, <2>2 DEF Sent
  <2>3. ASSUME NEW how \in Exits, watch' = "none", wire' = Append(wire, FinishedEvent(how))
        PROVE  (\A i \in 1..Len(wire') : Before(i)') /\ Upto'
    <3>1. truncated \in BOOLEAN
      BY DEF TypeOK
    <3>2. PICK e \in Event : e = FinishedEvent(how) /\ e.type = "finished"
      BY <3>1, EventFields
    <3> HIDE DEF Before, Upto
    <3> QED
      BY <1>6, <2>1, <2>3, <3>2
  <2>4. \/ wire' = wire
        \/ watch' = "none" /\ \E how \in Exits : wire' = Append(wire, FinishedEvent(how))
    <3>1. Ended => outcome \in Exits
      BY DEF TypeOK, Ended
    <3>2. (IF outcome = "0" THEN "0" ELSE "-") \in Exits
      BY DEF Exits
    <3> QED
      BY <1>7, <3>1, <3>2 DEF WatchStatus
  <2> HIDE DEF Before, Upto
  <2> QED
    BY <2>2, <2>3, <2>4
<1>8. CASE WatchFails
  <2>1. wire' = Append(wire, Broken) /\ watch' = "none" /\ UNCHANGED <<chunks, next>>
    BY <1>8 DEF WatchFails, tableVars, clientVars
  <2>2. PICK e \in Event : e = Broken /\ e.type = "error"
    BY EventFields
  <2> HIDE DEF Before, Upto
  <2> QED
    BY <1>6, <2>1, <2>2
<1>9. CASE ClientDials
  <2>1. wire = <<>> /\ wire' = wire /\ after' = next /\ next' = next /\ chunks' = chunks
    BY <1>9 DEF ClientDials, tableVars, WireSound
  <2>2. \A d \in chunks : ~(next <= d.seq /\ d.seq < next)
    BY <1>3
  <2> QED
    BY <2>1, <2>2
<1>10. CASE ClientReceives
  <2>1. /\ client = "watching" /\ wire # <<>> /\ wire' = Tail(wire)
        /\ UNCHANGED <<chunks, watch, after>>
    BY <1>10, ReceiveCases
  <2>2. /\ 1 \in 1..Len(wire) /\ Head(wire) = wire[1] /\ Len(wire') = Len(wire) - 1
        /\ \A i \in 1..Len(wire') : i + 1 \in 1..Len(wire) /\ wire'[i] = wire[i + 1]
    BY <1>3, <2>1, WireReceives
  <2>3. /\ next' \in Nat /\ next <= next'
        /\ wire[1].type = "output" => wire[1].body.seq < next'
    <3>1. wire[1].type \in {"output", "error", "finished"}
      BY <2>2 DEF WireSound
    <3>2. wire[1].type # "output" => next' = next
      BY <1>10, <2>2, <3>1, ReceiveCases
    <3>3. wire[1].type = "output" => wire[1].body.seq \in Nat
      BY <1>3, <2>2 DEF WireSound
    <3>4. wire[1].type = "output" =>
             \/ wire[1].body.seq < next /\ next' = next
             \/ ~(wire[1].body.seq < next) /\ next' = wire[1].body.seq + 1
      BY <1>10, <2>2, ReceiveCases
    <3> QED
      BY <1>3, <3>2, <3>3, <3>4
  <2>4. ASSUME NEW d \in chunks, next' <= d.seq, NEW n \in 0..Len(wire), Sent(d, n), n > 0
        PROVE  Sent(d, n - 1)'
    <3>1. PICK j \in 1..n : wire[j].type = "output" /\ wire[j].body = d
      BY <2>4 DEF Sent
    <3>2. j # 1
      BY <1>3, <2>3, <2>4, <3>1
    <3>3. j - 1 \in 1..(n - 1) /\ j - 1 \in 1..Len(wire') /\ (j - 1) + 1 = j
      BY <1>3, <2>2, <2>4, <3>2
    <3>4. wire'[j - 1] = wire[j]
      BY <2>2, <3>3
    <3> QED
      BY <3>1, <3>3, <3>4 DEF Sent
  <2>5. ASSUME NEW d \in chunks, next' <= d.seq PROVE next <= d.seq
    BY <1>3, <2>3, <2>5
  <2>6. ASSUME NEW i \in 1..Len(wire') PROVE Before(i)'
    <3>1. SUFFICES ASSUME wire'[i].type = "output", NEW d \in chunks, next' <= d.seq,
                          d.seq < wire'[i].body.seq
                   PROVE  Sent(d, i - 1)'
      BY <2>1
    <3>2. i \in Nat /\ i > 0 /\ i + 1 \in 1..Len(wire) /\ wire'[i] = wire[i + 1]
      BY <1>3, <2>2, <2>6
    <3>3. Sent(d, (i + 1) - 1)
      BY <1>2, <2>5, <3>1, <3>2
    <3>4. (i + 1) - 1 = i /\ i \in 0..Len(wire)
      BY <1>3, <3>2
    <3> QED
      BY <2>4, <3>1, <3>2, <3>3, <3>4
  <2>7. Upto'
    <3>1. PICK n \in 0..Len(wire) : n = Len(wire) /\ n > 0 /\ n - 1 = Len(wire')
      BY <1>3, <2>2
    <3>2. SUFFICES ASSUME watch # "none", NEW d \in chunks, next' <= d.seq, d.seq < after
                   PROVE  Sent(d, n - 1)'
      BY <2>1, <3>1 DEF Sent
    <3>3. Sent(d, n)
      BY <1>2, <2>5, <3>1, <3>2
    <3> QED
      BY <2>4, <3>1, <3>2, <3>3
  <2> QED
    BY <2>6, <2>7
<1>11. ClientGivesUp \/ Restart => wire' = <<>> /\ watch' = "none"
  BY DEF ClientGivesUp, Restart
<1>12. wire' = <<>> /\ watch' = "none" => (\A i \in 1..Len(wire') : Before(i)') /\ Upto'
  OBVIOUS
<1> QED
  BY <1>4, <1>5, <1>7, <1>8, <1>9, <1>10, <1>11, <1>12, ReaderKinds DEF Reads

\* The CLI prints the row that follows the ones it has printed, or none.
LEMMA PrintedStep ==
    ASSUME TypeOK, DrainSound, TableSound, WireSound, NoGap, PrintedOnce, [Next]_vars
    PROVE  PrintedOnce'
<1> DEFINE Had == {c \in chunks : c.seq < next}
<1>1. printed = ByStoredOrder(Had)
  BY DEF PrintedOnce
<1>2. SUFFICES printed' = ByStoredOrder(Had')
  BY DEF PrintedOnce
<1>3. next \in Nat /\ sequence \in Nat /\ next <= sequence
      /\ \A c \in chunks : c.seq \in Nat
  BY Numbers DEF TableSound
<1>4. CASE UNCHANGED <<printed, next, chunks>>
  BY <1>1, <1>4
<1>5. CASE Behind
  <2>1. UNCHANGED <<printed, next>> /\ chunks \subseteq chunks'
        /\ \A d \in chunks' \ chunks : d.seq = sequence
    BY <1>5 DEF Behind
  <2>2. Had' = Had
    BY <1>3, <2>1
  <2> QED
    BY <1>1, <2>1, <2>2
<1>6. CASE ClientReceives
  <2>1. /\ wire \in Seq(Event) /\ wire # <<>> /\ wire' = Tail(wire) /\ chunks' = chunks
    BY <1>6, ReceiveCases DEF TypeOK
  <2>2. PICK e : e = Head(wire) /\ e = wire[1] /\ 1 \in 1..Len(wire)
    BY <2>1, WireReceives
  <2>3. e.type \in {"output", "error", "finished"} /\ (e.type = "output" => e.body \in chunks)
    BY <2>2 DEF WireSound
  <2>4. \/ UNCHANGED <<next, printed>>
        \/ /\ e.type = "output" /\ ~(e.body.seq < next)
           /\ next' = e.body.seq + 1 /\ printed' = Append(printed, e.body)
    BY <1>6, <2>2, <2>3, ReceiveCases
  <2>5. ASSUME e.type = "output", ~(e.body.seq < next), next' = e.body.seq + 1,
               printed' = Append(printed, e.body)
        PROVE  printed' = ByStoredOrder(Had')
    <3>1. PICK c \in chunks : c = e.body
      BY <2>3, <2>5
    <3>2. c.seq \in Nat /\ next <= c.seq
      BY <1>3, <2>5, <3>1
    <3>3. ASSUME NEW d \in chunks, next <= d.seq, d.seq < c.seq PROVE FALSE
      <4>1. Sent(d, 1 - 1)
        BY <2>2, <2>5, <3>1, <3>3 DEF NoGap
      <4> QED
        BY <4>1 DEF Sent
    <3>4. \A d \in chunks : d.seq = c.seq => d = c
      BY <3>1 DEF TableSound
    <3>5. ASSUME NEW d \in chunks PROVE d.seq < c.seq + 1 <=> d.seq < next \/ d = c
      <4>1. d.seq \in Nat
        BY <1>3
      <4>2. CASE d = c
        BY <3>2, <4>2
      <4>3. CASE d # c
        <5>1. d.seq # c.seq /\ ~(next <= d.seq /\ d.seq < c.seq)
          BY <3>3, <3>4, <4>3
        <5> QED
          BY <1>3, <3>2, <4>1, <4>3, <5>1
      <4> QED
        BY <4>2, <4>3
    <3>6. Had' = {d \in chunks : d.seq < c.seq + 1}
      BY <2>1, <2>5, <3>1
    <3>7. Had' = Had \cup {c}
      BY <3>5, <3>6
    <3>8. \A d \in Had : d.seq < c.seq
      BY <1>3, <3>2
    <3>9. Had \cup {c} \in SUBSET chunks
      OBVIOUS
    <3> HIDE DEF Had
    <3>10. Table(Had \cup {c})
      BY <3>9, RowsTable
    <3>11. ByStoredOrder(Had \cup {c}) = Append(ByStoredOrder(Had), c)
      BY <3>8, <3>10, StoredLast
    <3> QED
      BY <1>1, <2>5, <3>1, <3>7, <3>11
  <2> QED
    BY <1>4, <2>1, <2>4, <2>5
<1>7. WatchOutput \/ WatchStatus \/ WatchFails \/ ClientDials \/ ClientGivesUp \/ Restart =>
         UNCHANGED <<printed, next, chunks>>
  BY DEF WatchOutput, WatchStatus, WatchFails, ClientDials, ClientGivesUp, Restart,
         tableVars, clientVars
<1> QED
  BY <1>4, <1>5, <1>6, <1>7, ReaderKinds DEF Reads

-----------------------------------------------------------------------------
(* The theorems.                                                            *)

\* Nothing is stored or under way at first.
LEMMA InitSound ==
    ASSUME Init PROVE OutputInv
<1>1. /\ written = [s \in Streams |-> 0] /\ taken = [s \in Streams |-> 0]
      /\ drain = [s \in Streams |-> "read"] /\ buffer = [s \in Streams |-> Empty]
  BY DEF Init
<1>2. /\ command = "running" /\ waiter = "wait" /\ outcome = "none"
      /\ sequence = 0 /\ chunks = {} /\ counted = 0 /\ truncated = FALSE
  BY DEF Init
<1>3. /\ watch = "none" /\ after = 0 /\ wire = <<>>
      /\ client = "dialing" /\ next = 0 /\ printed = <<>> /\ told = FALSE /\ code = "none"
      /\ faults = 0 /\ restarts = 0
  BY DEF Init
<1>4. \A s \in Streams : RowsOf(s) = {} /\ Pending(s) = 0 /\ Frontier(s) = 0
  BY <1>1, <1>2 DEF RowsOf, Pending, Frontier, Holds
<1>5. TypeOK
  <2>1. /\ written \in [Streams -> 0..MaxWritten] /\ taken \in [Streams -> 0..MaxWritten]
        /\ faults \in 0..MaxFaults /\ restarts \in 0..MaxRestarts
    BY <1>1, <1>3, OutputAssumption
  <2>2. buffer \in [Streams -> [from : Nat, to : Nat]]
    BY <1>1 DEF Empty
  <2>3. drain \in [Streams -> {"read", "append", "update", "done"}]
    BY <1>1
  <2>4. wire \in Seq(Event) /\ printed \in Seq(Row)
    BY <1>3
  <2>5. /\ command \in Exits \cup {"running"} /\ outcome \in Exits \cup {"none"}
        /\ waiter \in {"wait", "drains", "finished"} /\ chunks \in SUBSET Row
        /\ {sequence, counted, next, after} \subseteq Nat
    BY <1>2, <1>3
  <2>6. {truncated, told} \subseteq BOOLEAN
    BY <1>2, <1>3, Zenon
  <2>7. /\ watch \in {"none", "output", "status"} /\ code \in {"none", "0", "n", "error"}
        /\ client \in {"dialing", "watching", "finished", "gone"}
    BY <1>3
  <2> QED
    BY <2>1, <2>2, <2>3, <2>4, <2>5, <2>6, <2>7 DEF TypeOK
<1>6. DrainSound
  BY <1>1, <1>2, <1>3 DEF DrainSound, Holds, Ended
<1>7. TableSound
  BY <1>2, <1>3, FS_EmptySet DEF TableSound
<1>8. Accounted
  BY <1>1, <1>4, SizeFew DEF Accounted
<1>9. PrefixSound
  BY <1>2, <1>4 DEF PrefixSound
<1>10. CapSound
  <2>1. SizeOf(chunks) = 0
    BY <1>2, SizeFew
  <2>2. \A s \in Streams : drain[s] # "update"
    BY <1>1
  <2> QED
    BY <1>2, <2>1, <2>2, OutputAssumption DEF CapSound, ValidOutput
<1>11. OutcomeSound /\ CodeSound
  BY <1>2, <1>3 DEF OutcomeSound, CodeSound, Ended
<1>12. WireSound /\ NoGap
  BY <1>3 DEF WireSound, NoGap
<1>13. PrintedOnce
  <2>1. {c \in chunks : c.seq < next} = {}
    BY <1>2
  <2>2. ByStoredOrder({}) = <<>>
    <3>1. Cardinality({}) = 0
      BY FS_EmptySet
    <3> QED
      BY <3>1 DEF ByStoredOrder
  <2> QED
    BY <1>3, <2>1, <2>2 DEF PrintedOnce
<1> QED
  BY <1>5, <1>6, <1>7, <1>8, <1>9, <1>10, <1>11, <1>12, <1>13 DEF OutputInv

\* The inductive invariant holds whatever the order of the command, the two drains,
\* the handler, the CLI, failed store calls and restarts.
THEOREM OutputCorrect == Spec => []OutputInv
<1>1. Init => OutputInv
  BY InitSound
<1>2. OutputInv /\ [Next]_vars => OutputInv'
  <2>1. SUFFICES ASSUME OutputInv, [Next]_vars PROVE OutputInv'
    OBVIOUS
  <2>2. /\ TypeOK /\ DrainSound /\ TableSound /\ Accounted /\ PrefixSound /\ CapSound
        /\ OutcomeSound /\ WireSound /\ CodeSound /\ NoGap /\ PrintedOnce
    BY <2>1 DEF OutputInv
  <2>3. TypeOK'
    BY <2>1, <2>2, TypeStep
  <2>4. DrainSound' /\ TableSound' /\ OutcomeSound'
    BY <2>1, <2>2, <2>3, DrainStep, TableStep, OutcomeStep
  <2>5. Accounted' /\ PrefixSound' /\ CapSound'
    BY <2>1, <2>2, <2>3, AccountedStep, PrefixStep, CapStep
  <2>6. WireSound' /\ CodeSound'
    BY <2>1, <2>2, <2>3, WireStep, CodeStep
  <2>7. NoGap' /\ PrintedOnce'
    BY <2>1, <2>2, <2>3, GapStep, PrintedStep
  <2> QED
    BY <2>3, <2>4, <2>5, <2>6, <2>7 DEF OutputInv
<1> QED
  BY <1>1, <1>2, PTL DEF Spec

\* Across failed streams, restarts and batches the CLI prints the stored chunks from
\* the first one on, each once and in order: runCommand's nextSequence and Watch's
\* after_sequence never skip or repeat a row of AppendOutput.
THEOREM RowsPrintedOnce == Spec => []PrintedOnce
<1>1. OutputInv => PrintedOnce
  BY DEF OutputInv
<1> QED
  BY <1>1, OutputCorrect, PTL

\* What AppendOutput stores of a stream is a prefix of what its drain read, however
\* the two drains interleave, unless a store call failed.
THEOREM StoresAPrefix == Spec => []PrefixStored
<1>1. ASSUME OutputInv PROVE PrefixStored
  <2>1. TypeOK /\ TableSound /\ Accounted /\ PrefixSound
    BY <1>1 DEF OutputInv
  <2>2. SUFFICES ASSUME faults = 0, NEW s \in Streams
                 PROVE  /\ \A c \in RowsOf(s) : c.from > 0 =>
                              \E d \in RowsOf(s) : d.seq < c.seq /\ d.to = c.from
                        /\ SizeOf(RowsOf(s)) <= taken[s]
    BY DEF PrefixStored, RowsOf
  <2>3. \A c \in RowsOf(s) : c.from > 0 =>
           \E d \in RowsOf(s) : d.seq < c.seq /\ d.to = c.from
    BY <2>1, <2>2 DEF PrefixSound, RowsOf
  <2>4. SizeOf(RowsOf(s)) \in Nat /\ taken[s] \in Nat
    <3>1. RowsOf(s) \in SUBSET chunks
      BY DEF RowsOf
    <3> QED
      BY <2>1, <3>1, RowsSized, SizeType, Numbers
  <2>5. Pending(s) \in Nat
    <3>1. DrainSound
      BY <1>1 DEF OutputInv
    <3> QED
      BY <2>1, <3>1, Numbers DEF Pending, Size, DrainSound
  <2>6. SizeOf(RowsOf(s)) + Pending(s) <= taken[s]
    BY <2>1 DEF Accounted
  <2> QED
    BY <2>3, <2>4, <2>5, <2>6
<1> QED
  BY <1>1, OutputCorrect, PTL

\* What AppendOutput stores stays within PersistedBytes although it inserts the row
\* and updates the counter in two statements, unless a store call failed.
THEOREM StaysWithinTheCap == Spec => []CapHolds
<1>1. OutputInv => CapHolds
  BY DEF OutputInv, CapSound, CapHolds
<1> QED
  BY <1>1, OutputCorrect, PTL

\* A CLI that runCommand does not tell of truncation has every byte that the drains
\* read in the table, unless a store call failed or the daemon restarted.
THEOREM LossReported == Spec => []LossIsReported
<1>1. ASSUME OutputInv PROVE LossIsReported
  <2>1. TypeOK /\ DrainSound /\ TableSound /\ Accounted /\ CodeSound
    BY <1>1 DEF OutputInv
  <2>2. SUFFICES ASSUME client = "finished", ~told, faults = 0, restarts = 0,
                        NEW s \in Streams
                 PROVE  SizeOf(RowsOf(s)) = taken[s]
    BY DEF LossIsReported, RowsOf
  <2>3. Ended /\ ~truncated
    BY <2>1, <2>2 DEF CodeSound
  <2>4. Pending(s) = 0
    BY <2>1, <2>3 DEF DrainSound, Pending, Holds
  <2>5. SizeOf(RowsOf(s)) + Pending(s) = taken[s]
    BY <2>1, <2>2, <2>3 DEF Accounted
  <2>6. SizeOf(RowsOf(s)) \in Nat
    <3>1. RowsOf(s) \in SUBSET chunks
      BY DEF RowsOf
    <3> QED
      BY <2>1, <3>1, RowsSized, SizeType
  <2> QED
    BY <2>4, <2>5, <2>6
<1> QED
  BY <1>1, OutputCorrect, PTL

\* runCommand returns the exit code of the command: zero only for zero, and exactly
\* the command's code unless a store call failed or the daemon restarted.
THEOREM ExitCodeKept == Spec => []ExitCodeIsTheCommands
<1>1. ASSUME OutputInv PROVE ExitCodeIsTheCommands
  <2>1. TypeOK /\ OutcomeSound /\ CodeSound
    BY <1>1 DEF OutputInv
  <2>2. ASSUME client = "finished" PROVE outcome \in {"-", command} /\ Ended
    BY <2>1, <2>2 DEF CodeSound, OutcomeSound, Ended
  <2>3. ASSUME code \in {"0", "n"} PROVE code = command
    <3>1. client = "finished"
      BY <2>1, <2>3 DEF CodeSound
    <3>2. code = Returned(outcome)
      BY <2>1, <2>3, <3>1 DEF CodeSound
    <3> QED
      BY <2>2, <2>3, <3>1, <3>2 DEF Returned
  <2>4. ASSUME client = "finished", faults = 0, restarts = 0
        PROVE  code = IF command = "-" THEN "error" ELSE command
    <3>1. code = Returned(outcome) /\ outcome = command
      BY <2>1, <2>4 DEF CodeSound, OutcomeSound, Ended
    <3> QED
      BY <3>1 DEF Returned
  <2> QED
    BY <2>3, <2>4 DEF ExitCodeIsTheCommands
<1> QED
  BY <1>1, OutputCorrect, PTL
===============================================================================
