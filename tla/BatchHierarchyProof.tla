-------------------------- MODULE BatchHierarchyProof --------------------------
(***************************************************************************)
(* The batch analysis comes to what the streaming one does, for every      *)
(* trace and both geometries.  Between them stands a description of a      *)
(* level that neither computes: the distance of a reference is the number  *)
(* of distinct lines of its set since its line's last visit.  Observing    *)
(* the lines as they come gives it, and so does counting positions in a    *)
(* tree, set after set.  What the tree's walks do is proved of the recency *)
(* index (FenwickRecencyProof), and what a histogram sums to of the        *)
(* streaming analysis (StreamingHierarchyProof).                           *)
(***************************************************************************)
EXTENDS BatchHierarchy, FiniteSetTheorems, FunctionTheorems, SequenceTheorems,
        WellFoundedInduction, TLAPS

Fenwick == INSTANCE FenwickRecencyProof WITH
    MaxWord <- MaxLines, Keys <- {}, Floors <- {}, SlotLimits <- {},
    slots <- <<>>, capacity <- 0, next_slot <- 0, active_count <- 0, floor <- 0,
    slot_limit <- 0, distance <- {}, failed <- FALSE, tree <- <<>>

Streaming == INSTANCE StreamingHierarchyProof WITH
    Blocks <- {}, MaxSpan <- 1, RootCounts <- {}, SourceLimits <- {}, LineLimits <- {},
    EventLimits <- {}, options <- 0, roots <- 0, stage <- 0, failure <- 0, budget <- 0,
    unroller <- 0, active <- 0, pending <- 0, delivery <- 0, collected <- 0,
    completed <- 0, coverage <- 0

-----------------------------------------------------------------------------
(* Positions in program order.                                              *)

\* The index's assumptions hold of the batch's tree, and the names the two
\* modules share agree.
LEMMA TreeAssumption == Fenwick!FenwickAssumption
  BY BatchAssumption, FS_EmptySet
     DEF BatchAssumption, Fenwick!FenwickAssumption, Fenwick!IsFiniteSet, IsFiniteSet

LEMMA CountsAgree ==
    \A S : /\ Fenwick!Cardinality(S) = Cardinality(S)
           /\ Fenwick!IsFiniteSet(S) <=> IsFiniteSet(S)
  BY DEF Fenwick!Cardinality, Cardinality, Fenwick!IsFiniteSet, IsFiniteSet

LEMMA SmallestNumber ==
    ASSUME NEW S \in SUBSET Nat, S # {}
    PROVE  \E n \in S : \A m \in S : n <= m
  BY TreeAssumption, Fenwick!SmallestNumber

LEMMA SameBits == LowBit = Fenwick!LowBit
  BY DEF LowBit, Fenwick!LowBit

LEMMA PrefixSums ==
    ASSUME MaxLines \in Nat, NEW cap \in 0..MaxLines, NEW slot \in 0..cap,
           NEW K, IsFiniteSet(K), NEW table, \A k \in K : table[k] \in Nat \ {0},
           NEW t, Fenwick!Tallies(t, K, table, cap)
    PROVE  prefix_sum(t, slot) = Cardinality(Fenwick!UpTo(K, table, slot))
  <1>1. prefix_sum(t, slot) = Fenwick!tree_prefix_sum(t, slot)
    BY SameBits DEF prefix_sum, Fenwick!tree_prefix_sum
  <1> QED
    BY <1>1, TreeAssumption, CountsAgree, Fenwick!PrefixSumCounts

LEMMA Paths ==
    ASSUME MaxLines \in Nat, NEW cap \in 0..MaxLines, NEW slot \in 1..cap
    PROVE  Path(slot, cap) = Fenwick!UpdatePath(slot, cap)
  <1> DEFINE A(f) == f = [p \in 1..cap |->
                             {p} \cup (IF p + LowBit[p] > cap THEN {} ELSE f[p + LowBit[p]])]
             B(f) == f = [p \in 1..cap |->
                             {p} \cup (IF LowBit[p] > cap - p THEN {} ELSE f[p + LowBit[p]])]
  <1>1. \A p \in 1..cap : p + LowBit[p] > cap <=> LowBit[p] > cap - p
    <2> SUFFICES ASSUME NEW p \in 1..cap
                 PROVE  p + LowBit[p] > cap <=> LowBit[p] > cap - p
      OBVIOUS
    <2>1. p \in 1..MaxLines
      OBVIOUS
    <2>2. LowBit[p] \in 1..p
      BY <2>1, SameBits, TreeAssumption, Fenwick!LowBitBounds
    <2> QED
      BY <2>2
  <1>2. \A f : A(f) <=> B(f)
    <2> SUFFICES ASSUME NEW f PROVE A(f) <=> B(f)
      OBVIOUS
    <2>1. [p \in 1..cap |-> {p} \cup (IF p + LowBit[p] > cap THEN {} ELSE f[p + LowBit[p]])]
            = [p \in 1..cap |-> {p} \cup (IF LowBit[p] > cap - p THEN {} ELSE f[p + LowBit[p]])]
      BY <1>1, Zenon
    <2> QED
      BY <2>1, Zenon
  <1>3. (CHOOSE f : A(f)) = (CHOOSE f : B(f))
    <2> HIDE DEF A, B
    <2> QED
      BY <1>2
  <1>4. Path(slot, cap) = (CHOOSE f : A(f))[slot]
    BY DEF Path
  <1>5. Fenwick!UpdatePath(slot, cap) = (CHOOSE f : B(f))[slot]
    BY SameBits DEF Fenwick!UpdatePath
  <1> QED
    BY <1>3, <1>4, <1>5
(* A function on 1 .. n is a sequence of length n.                          *)
LEMMA Listed ==
    ASSUME NEW n \in Nat, NEW S, NEW f \in [1..n -> S]
    PROVE  f \in Seq(S) /\ Len(f) = n /\ DOMAIN f = 1..n
  <1>1. f \in UNION {[1..m -> S] : m \in Nat}
    OBVIOUS
  <1>2. f \in Seq(S)
    BY <1>1, SeqDef
  <1> QED
    BY <1>2, LenProperties

LEMMA TalliesAreCounts ==
    ASSUME NEW cap \in Nat, NEW K, IsFiniteSet(K), NEW table,
           NEW t, Fenwick!Tallies(t, K, table, cap)
    PROVE  t \in [1..cap -> Nat] /\ Len(t) = cap
  <1>1. \A s \in 1..cap : Cardinality(Fenwick!Covered(K, table, s)) \in Nat
    BY FS_Subset, FS_CardinalityType DEF Fenwick!Covered
  <1>2. t = [s \in 1..cap |-> Cardinality(Fenwick!Covered(K, table, s))]
    BY CountsAgree DEF Fenwick!Tallies
  <1>3. t \in [1..cap -> Nat]
    BY <1>1, <1>2
  <1> QED
    BY <1>3, Listed

LEMMA Additions ==
    ASSUME MaxLines \in Nat, NEW cap \in 0..MaxLines, NEW slot \in 1..cap,
           NEW t \in [1..cap -> Nat], NEW delta \in Int
    PROVE  add(t, slot, delta) = Fenwick!update(t, slot, cap, delta)
  <1>1. Len(t) = cap /\ DOMAIN t = 1..cap
    BY Listed
  <1>2. Path(slot, Len(t)) = Fenwick!UpdatePath(slot, cap)
    BY <1>1, Paths
  <1>3. \A p \in 1..cap : t[p] \in Nat
    OBVIOUS
  <1>4. add(t, slot, delta)
          = [p \in 1..cap |-> t[p] + (IF p \in Fenwick!UpdatePath(slot, cap) THEN delta ELSE 0)]
    BY <1>1, <1>2 DEF add
  <1>5. Fenwick!update(t, slot, cap, delta)
          = [p \in 1..cap |-> IF p \in Fenwick!UpdatePath(slot, cap) THEN t[p] + delta ELSE t[p]]
    BY <1>1 DEF Fenwick!update
  <1> QED
    BY <1>3, <1>4, <1>5

(* The tree after a line moved to a new position, or came to its first,     *)
(* tallies the positions after it.                                          *)
LEMMA MoveTallies ==
    ASSUME MaxLines \in Nat, NEW cap \in 0..MaxLines, NEW K, IsFiniteSet(K),
           NEW table, \A k \in K : table[k] \in 1..cap,
           NEW t, Fenwick!Tallies(t, K, table, cap),
           NEW k, NEW slot \in 1..cap, NEW entered,
           entered[k] = slot, \A j \in K \ {k} : entered[j] = table[j]
    PROVE  Fenwick!Tallies(add(IF k \in K THEN add(t, table[k], -1) ELSE t, slot, 1),
                           K \cup {k}, entered, cap)
  <1> DEFINE without == IF k \in K THEN add(t, table[k], -1) ELSE t
  <1>1. IsFiniteSet(K \ {k})
    BY FS_Subset
  <1>2. Fenwick!Tallies(without, K \ {k}, table, cap)
    <2>1. CASE k \in K
      <3>1. t \in [1..cap -> Nat] /\ table[k] \in 1..cap /\ -1 \in Int
        BY <2>1, TalliesAreCounts
      <3>2. add(t, table[k], -1) = Fenwick!update(t, table[k], cap, -1)
        BY <3>1, Additions
      <3>3. Fenwick!Tallies(Fenwick!update(t, table[k], cap, -1), K \ {k}, table, cap)
        BY <2>1, <3>1, TreeAssumption, CountsAgree, Fenwick!LeavingTallies
      <3> QED
        BY <2>1, <3>2, <3>3
    <2>2. CASE k \notin K
      <3>1. K \ {k} = K /\ without = t
        BY <2>2
      <3> QED
        BY <3>1
    <2> QED
      BY <2>1, <2>2
  <1> HIDE DEF without
  <1>3. add(without, slot, 1) = Fenwick!update(without, slot, cap, 1)
    BY <1>1, <1>2, TalliesAreCounts, Additions
  <1>4. Fenwick!Tallies(Fenwick!update(without, slot, cap, 1), (K \ {k}) \cup {k}, entered, cap)
    BY <1>1, <1>2, TreeAssumption, CountsAgree, Fenwick!EnteringTallies
  <1>5. (K \ {k}) \cup {k} = K \cup {k}
    OBVIOUS
  <1> QED
    BY <1>3, <1>4, <1>5 DEF without

LEMMA EmptyTallies ==
    ASSUME NEW cap \in Nat, NEW table
    PROVE  Fenwick!Tallies(EmptyTree(cap), {}, table, cap)
  <1>1. \A s \in 1..cap : Fenwick!Covered({}, table, s) = {}
    BY DEF Fenwick!Covered
  <1>2. Cardinality({}) = 0
    BY FS_EmptySet
  <1>3. EmptyTree(cap) = [s \in 1..cap |-> Cardinality(Fenwick!Covered({}, table, s))]
    BY <1>1, <1>2 DEF EmptyTree
  <1> QED
    BY <1>3, CountsAgree DEF Fenwick!Tallies

-----------------------------------------------------------------------------
(* Positions in program order.                                              *)

Earlier(S, i) == {j \in S : j < i}

(* The n-th position of a set has n - 1 before it, and every position of    *)
(* the set is one of them.                                                  *)
LEMMA AscendingOrders ==
    ASSUME NEW S \in SUBSET Nat, IsFiniteSet(S)
    PROVE  /\ Cardinality(S) \in Nat
           /\ Ascending(S) \in [1..Cardinality(S) -> S]
           /\ \A x \in S : \E n \in 1..Cardinality(S) : Ascending(S)[n] = x
           /\ \A i, j \in 1..Cardinality(S) : i < j => Ascending(S)[i] < Ascending(S)[j]
           /\ \A n \in 1..Cardinality(S) : Cardinality(Earlier(S, Ascending(S)[n])) = n - 1
  <1> DEFINE N == Cardinality(S)
             f == Ascending(S)
             rank == [x \in S |-> Cardinality(Earlier(S, x)) + 1]
  <1>1. N \in Nat /\ IsFiniteSet(1..N) /\ Cardinality(1..N) = N
    BY FS_CardinalityType, FS_Interval
  <1>2. \A x \in S : IsFiniteSet(Earlier(S, x)) /\ Cardinality(Earlier(S, x)) \in Nat
    BY FS_Subset, FS_CardinalityType DEF Earlier
  <1>3. ASSUME NEW x \in S, NEW U \in SUBSET S, Earlier(S, x) \cup {x} \subseteq U
        PROVE  Cardinality(Earlier(S, x)) + 1 <= Cardinality(U)
    <2>1. x \notin Earlier(S, x)
      BY DEF Earlier
    <2>2. IsFiniteSet(U)
      BY FS_Subset
    <2>3. Cardinality(Earlier(S, x) \cup {x}) = Cardinality(Earlier(S, x)) + 1
      BY <1>2, <2>1, FS_AddElement
    <2>4. Cardinality(Earlier(S, x) \cup {x}) <= Cardinality(U)
      BY <1>3, <2>2, FS_Subset
    <2> QED
      BY <2>3, <2>4
  <1>4. ASSUME NEW x \in S, NEW y \in S, x < y PROVE rank[x] < rank[y]
    <2>0. \A j \in S : j \in Nat
      OBVIOUS
    <2>1. Earlier(S, x) \cup {x} \subseteq Earlier(S, y) /\ Earlier(S, y) \in SUBSET S
      <3>1. \A j \in S : j < x => j < y
        BY <1>4, <2>0
      <3> QED
        BY <1>4, <3>1 DEF Earlier
    <2>2. Cardinality(Earlier(S, x)) + 1 <= Cardinality(Earlier(S, y))
      BY <1>3, <2>1
    <2> QED
      BY <1>2, <2>2
  <1>5. \A x \in S : rank[x] \in 1..N
    <2> SUFFICES ASSUME NEW x \in S PROVE rank[x] \in 1..N
      OBVIOUS
    <2>1. Earlier(S, x) \cup {x} \subseteq S
      BY DEF Earlier
    <2>2. Cardinality(Earlier(S, x)) + 1 <= N
      BY <1>3, <2>1
    <2> HIDE DEF N
    <2> QED
      BY <1>1, <1>2, <2>2
  <1>6. rank \in [S -> 1..N]
    BY <1>5
  <1>7. \A x \in S : rank[x] = Cardinality(Earlier(S, x)) + 1
    OBVIOUS
  <1> HIDE DEF rank
  <1>8. \A x, y \in S : rank[x] = rank[y] => x = y
    <2> SUFFICES ASSUME NEW x \in S, NEW y \in S, rank[x] = rank[y], x # y PROVE FALSE
      OBVIOUS
    <2>1. x < y \/ y < x
      OBVIOUS
    <2>2. rank[x] < rank[y] \/ rank[y] < rank[x]
      BY <1>4, <2>1
    <2>3. rank[x] \in Nat /\ rank[y] \in Nat
      BY <1>5
    <2> QED
      BY <2>2, <2>3
  <1>9. rank \in Injection(S, 1..N)
    BY <1>6, <1>8 DEF Injection, IsInjective
  <1>10. rank \in Surjection(S, 1..N)
    <2> HIDE DEF N
    <2>1. Cardinality(S) = Cardinality(1..N)
      BY <1>1 DEF N
    <2> QED
      BY <1>1, <1>9, <2>1, FS_Injection
  <1>11. ASSUME NEW n \in 1..N PROVE f[n] \in S /\ rank[f[n]] = n
    <2>1. PICK x \in S : rank[x] = n
      BY <1>10 DEF Surjection
    <2>2. f[n] = CHOOSE i \in S : Cardinality({j \in S : j < i}) = n - 1
      BY DEF Ascending
    <2>3. Cardinality({j \in S : j < x}) = n - 1
      <3>1. Cardinality(Earlier(S, x)) = n - 1
        BY <1>2, <1>7, <2>1
      <3> QED
        BY <3>1 DEF Earlier
    <2>4. f[n] \in S /\ Cardinality({j \in S : j < f[n]}) = n - 1
      <3> HIDE DEF f
      <3> QED
        BY <2>2, <2>3
    <2>5. Cardinality(Earlier(S, f[n])) = n - 1
      BY <2>4 DEF Earlier
    <2> HIDE DEF f, N
    <2>6. n \in Nat
      BY <1>1
    <2>7. rank[f[n]] = (n - 1) + 1
      BY <1>7, <2>4, <2>5, Zenon
    <2> QED
      BY <2>4, <2>6, <2>7
  <1>12. DOMAIN f = 1..N /\ f = [n \in 1..N |-> f[n]]
    <2> DEFINE nth(n) == CHOOSE i \in S : Cardinality({j \in S : j < i}) = n - 1
    <2>1. f = [n \in 1..N |-> nth(n)]
      BY DEF Ascending
    <2> HIDE DEF nth, f
    <2> QED
      BY <2>1
  <1> HIDE DEF f
  <1>13. f \in [1..N -> S]
    BY <1>11, <1>12
  <1>14. ASSUME NEW x \in S PROVE \E n \in 1..N : f[n] = x
    <2>1. rank[x] \in 1..N
      BY <1>6
    <2>2. f[rank[x]] \in S /\ rank[f[rank[x]]] = rank[x]
      BY <1>11, <2>1
    <2> QED
      BY <1>8, <2>1, <2>2
  <1> HIDE DEF N
  <1>15. ASSUME NEW i \in 1..N, NEW j \in 1..N, i < j PROVE f[i] < f[j]
    <2>1. f[i] \in S /\ f[j] \in S /\ rank[f[i]] = i /\ rank[f[j]] = j
      BY <1>11
    <2>2. f[i] # f[j] /\ ~(f[j] < f[i])
      <3>1. f[j] < f[i] => rank[f[j]] < rank[f[i]]
        BY <1>4, <2>1
      <3> QED
        BY <1>1, <1>15, <2>1, <3>1
    <2>3. f[i] \in Nat /\ f[j] \in Nat
      BY <2>1
    <2> QED
      BY <2>2, <2>3
  <1>16. \A n \in 1..N : Cardinality(Earlier(S, f[n])) = n - 1
    <2> SUFFICES ASSUME NEW n \in 1..N PROVE Cardinality(Earlier(S, f[n])) = n - 1
      OBVIOUS
    <2>1. f[n] \in S /\ rank[f[n]] = n
      BY <1>11
    <2>2. /\ rank[f[n]] = Cardinality(Earlier(S, f[n])) + 1
          /\ Cardinality(Earlier(S, f[n])) \in Nat
      BY <1>2, <1>7, <2>1
    <2> QED
      BY <2>1, <2>2
  <1> QED
    BY <1>1, <1>13, <1>14, <1>15, <1>16 DEF N, f

-----------------------------------------------------------------------------
(* A level described: f is the lines it is asked for, in program order.     *)

\* The lines of a set among the first n.
Visited(f, g, n, s) == {f[k] : k \in {m \in 1..n : SetOf(g, f[m]) = s}}

\* Those visited after the last visit of b, among the first n.
After(f, g, n, b) ==
    {f[k] : k \in {m \in 1..n : /\ SetOf(g, f[m]) = SetOf(g, b)
                                /\ \A j \in 1..n : f[j] = b => j < m}}

DistanceAt(f, g, i) ==
    IF \E j \in 1..i - 1 : f[j] = f[i] THEN {Cardinality(After(f, g, i - 1, f[i]))}
    ELSE {}

RowAt(f, g, i) ==
    [outcome |-> OutcomeOf(DistanceAt(f, g, i), g), distance |-> DistanceAt(f, g, i)]

Rows(f, g) == [i \in DOMAIN f |-> RowAt(f, g, i)]

\* The answers a level can give.
IsRow(row) ==
    \/ row.outcome = "ColdMiss" /\ row.distance = {}
    \/ row.outcome \in {"Hit", "ReplacementMiss"} /\ \E d \in Nat : row.distance = {d}

Outcomes(row, D, outcome) == {i \in D : row[i].outcome = outcome}
AtDistance(row, D, d) == {i \in D : d \in row[i].distance}
Distances(row, D) == UNION {row[i].distance : i \in D}

\* The counts of a level that has answered the positions D.
CountsMatch(lev, row, D) ==
    /\ lev.hits = Cardinality(Outcomes(row, D, "Hit"))
    /\ lev.cold_misses = Cardinality(Outcomes(row, D, "ColdMiss"))
    /\ lev.replacement_misses = Cardinality(Outcomes(row, D, "ReplacementMiss"))
    /\ lev.histogram = [d \in Distances(row, D) |-> Cardinality(AtDistance(row, D, d))]

LEMMA RowCases ==
    ASSUME NEW N \in Nat, NEW f \in [1..N -> Nat], NEW g, g.ways \in Nat, NEW i \in 1..N
    PROVE  /\ IsRow(Rows(f, g)[i])
           /\ Rows(f, g)[i] = RowAt(f, g, i)
           /\ Rows(f, g)[i].outcome = "ColdMiss" <=> ~ \E j \in 1..i - 1 : f[j] = f[i]
  <1> DEFINE distance == DistanceAt(f, g, i)
  <1>1. Rows(f, g)[i] = RowAt(f, g, i)
    BY DEF Rows
  <1>2. CASE ~ \E j \in 1..i - 1 : f[j] = f[i]
    <2>1. distance = {}
      BY <1>2 DEF DistanceAt
    <2>2. OutcomeOf(distance, g) = "ColdMiss"
      BY <2>1 DEF OutcomeOf
    <2> QED
      BY <1>1, <1>2, <2>1, <2>2 DEF RowAt, IsRow
  <1>3. CASE \E j \in 1..i - 1 : f[j] = f[i]
    <2> DEFINE K == {m \in 1..i - 1 : /\ SetOf(g, f[m]) = SetOf(g, f[i])
                                      /\ \A j \in 1..i - 1 : f[j] = f[i] => j < m}
    <2>1. IsFiniteSet(K) /\ After(f, g, i - 1, f[i]) = {f[k] : k \in K}
      <3>1. IsFiniteSet(1..i - 1)
        BY FS_Interval
      <3>2. K \subseteq 1..i - 1
        OBVIOUS
      <3>3. IsFiniteSet(K)
        BY <3>1, <3>2, FS_Subset
      <3> QED
        BY <3>3 DEF After
    <2> HIDE DEF K
    <2>2. IsFiniteSet(After(f, g, i - 1, f[i]))
      <3>1. [k \in K |-> f[k]] \in Surjection(K, {f[k] : k \in K})
        BY DEF Surjection
      <3> QED
        BY <2>1, <3>1, FS_Surjection
    <2> DEFINE d == Cardinality(After(f, g, i - 1, f[i]))
    <2>3. d \in Nat /\ distance = {d}
      BY <1>3, <2>2, FS_CardinalityType DEF DistanceAt
    <2> HIDE DEF d
    <2>4. OutcomeOf(distance, g) = IF d < g.ways THEN "Hit" ELSE "ReplacementMiss"
      BY <2>3 DEF OutcomeOf
    <2> QED
      BY <1>1, <1>3, <2>3, <2>4 DEF RowAt, IsRow
  <1> QED
    BY <1>2, <1>3

\* One more answer adds to the counts what it says.
LEMMA CountsGrow ==
    ASSUME NEW D, IsFiniteSet(D), NEW i, i \notin D, NEW row, IsRow(row[i]),
           NEW lev, CountsMatch(lev, row, D), NEW next,
           next.hits = lev.hits + One(row[i].outcome = "Hit"),
           next.cold_misses = lev.cold_misses + One(row[i].outcome = "ColdMiss"),
           next.replacement_misses =
              lev.replacement_misses + One(row[i].outcome = "ReplacementMiss"),
           next.histogram = Counted(lev.histogram, row[i].distance)
    PROVE  CountsMatch(next, row, D \cup {i})
  <1> DEFINE E == D \cup {i}
  <1>1. ASSUME NEW A, NEW B, A \subseteq D, NEW more \in BOOLEAN,
               B = IF more THEN A \cup {i} ELSE A
        PROVE  Cardinality(B) = Cardinality(A) + One(more) /\ Cardinality(A) \in Nat
    <2>1. IsFiniteSet(A) /\ i \notin A /\ Cardinality(A) \in Nat
      BY <1>1, FS_Subset, FS_CardinalityType
    <2>2. Cardinality(A \cup {i}) = Cardinality(A) + 1
      BY <2>1, FS_AddElement
    <2> QED
      BY <1>1, <2>1, <2>2 DEF One
  <1>2. ASSUME NEW outcome
        PROVE  Cardinality(Outcomes(row, E, outcome))
                  = Cardinality(Outcomes(row, D, outcome)) + One(row[i].outcome = outcome)
    <2>1. /\ Outcomes(row, D, outcome) \subseteq D
          /\ Outcomes(row, E, outcome) = IF row[i].outcome = outcome
                                         THEN Outcomes(row, D, outcome) \cup {i}
                                         ELSE Outcomes(row, D, outcome)
      BY DEF Outcomes
    <2>2. (row[i].outcome = outcome) \in BOOLEAN
      OBVIOUS
    <2> QED
      BY <1>1, <2>1, <2>2
  <1>3. next.histogram = [d \in Distances(row, E) |-> Cardinality(AtDistance(row, E, d))]
    <2> DEFINE h == lev.histogram
               c(d) == Cardinality(AtDistance(row, D, d))
               e(d) == Cardinality(AtDistance(row, E, d))
    <2>1. h = [d \in Distances(row, D) |-> c(d)]
      BY DEF CountsMatch
    <2>2. DOMAIN h \cup row[i].distance = Distances(row, E)
      BY <2>1 DEF Distances
    <2>3. ASSUME NEW d
          PROVE  /\ e(d) = c(d) + (IF d \in row[i].distance THEN 1 ELSE 0)
                 /\ c(d) \in Nat /\ (d \notin Distances(row, D) => c(d) = 0)
      <3>1. /\ AtDistance(row, D, d) \subseteq D
            /\ AtDistance(row, E, d) = IF d \in row[i].distance
                                       THEN AtDistance(row, D, d) \cup {i}
                                       ELSE AtDistance(row, D, d)
        BY DEF AtDistance
      <3>2. (d \in row[i].distance) \in BOOLEAN
        OBVIOUS
      <3>3. e(d) = c(d) + One(d \in row[i].distance) /\ c(d) \in Nat
        BY <1>1, <3>1, <3>2
      <3>4. d \notin Distances(row, D) => AtDistance(row, D, d) = {}
        BY DEF Distances, AtDistance
      <3> QED
        BY <3>3, <3>4, FS_EmptySet DEF One
    <2>4. Counted(h, row[i].distance)
             = [d \in Distances(row, E) |->
                  (IF d \in DOMAIN h THEN h[d] ELSE 0)
                  + (IF d \in row[i].distance THEN 1 ELSE 0)]
      BY <2>2 DEF Counted
    <2>5. ASSUME NEW d
          PROVE  (IF d \in DOMAIN h THEN h[d] ELSE 0)
                    + (IF d \in row[i].distance THEN 1 ELSE 0) = e(d)
      <3>1. CASE d \in DOMAIN h
        <4>1. h[d] = c(d)
          <5> HIDE DEF c, h
          <5> QED
            BY <2>1, <3>1
        <4> HIDE DEF c, e, h
        <4> QED
          BY <3>1, <4>1, <2>3
      <3>2. CASE d \notin DOMAIN h
        <4>1. d \notin Distances(row, D)
          <5> HIDE DEF c, h
          <5> QED
            BY <2>1, <3>2
        <4> HIDE DEF c, e, h
        <4> QED
          BY <3>2, <4>1, <2>3
      <3> QED
        BY <3>1, <3>2
    <2> HIDE DEF h, c, e
    <2>6. Counted(h, row[i].distance) = [d \in Distances(row, E) |-> e(d)]
      BY <2>4, <2>5, Zenon
    <2> QED
      BY <2>6 DEF h, e
  <1> QED
    BY <1>2, <1>3 DEF CountsMatch

LEMMA CountsOfNone ==
    ASSUME NEW row, NEW lev, lev.hits = 0, lev.cold_misses = 0, lev.replacement_misses = 0,
           lev.histogram = [d \in {} |-> 0]
    PROVE  CountsMatch(lev, row, {})
  <1>1. \A outcome : Outcomes(row, {}, outcome) = {}
    BY DEF Outcomes
  <1>2. Distances(row, {}) = {}
    BY DEF Distances
  <1>3. [d \in {} |-> Cardinality(AtDistance(row, {}, d))] = [d \in {} |-> 0]
    OBVIOUS
  <1> QED
    BY <1>1, <1>2, <1>3, FS_EmptySet DEF CountsMatch

-----------------------------------------------------------------------------
(* Observing the lines as they come.                                        *)

HistoriesAre(lev, f, g, n) ==
    \A s : /\ DOMAIN HistoryOf(lev, s) = Visited(f, g, n, s)
           /\ \A b \in Visited(f, g, n, s) : HistoryOf(lev, s)[b] = After(f, g, n, b)

Describes(lev, f, g, n) ==
    /\ HistoriesAre(lev, f, g, n)
    /\ CountsMatch(lev, Rows(f, g), 1..n)

LEMMA VisitedGrows ==
    ASSUME NEW f, NEW g, NEW n \in Nat, NEW s
    PROVE  Visited(f, g, n + 1, s)
              = IF SetOf(g, f[n + 1]) = s THEN Visited(f, g, n, s) \cup {f[n + 1]}
                                          ELSE Visited(f, g, n, s)
  <1>1. 1..n + 1 = (1..n) \cup {n + 1}
    OBVIOUS
  <1> QED
    BY <1>1 DEF Visited

LEMMA AfterGrows ==
    ASSUME NEW f, NEW g, NEW n \in Nat, NEW c
    PROVE  After(f, g, n + 1, c)
              = IF c = f[n + 1] THEN {}
                ELSE IF SetOf(g, f[n + 1]) = SetOf(g, c) THEN After(f, g, n, c) \cup {f[n + 1]}
                ELSE After(f, g, n, c)
  <1> DEFINE K(n_) == {m \in 1..n_ : /\ SetOf(g, f[m]) = SetOf(g, c)
                                     /\ \A j \in 1..n_ : f[j] = c => j < m}
  <1>1. 1..n + 1 = (1..n) \cup {n + 1} /\ n + 1 \notin 1..n
    OBVIOUS
  <1>2. CASE c = f[n + 1]
    <2>1. K(n + 1) = {}
      BY <1>2
    <2> QED
      BY <1>2, <2>1 DEF After
  <1>3. CASE c # f[n + 1]
    <2>1. \A m \in 1..n + 1 : (\A j \in 1..n + 1 : f[j] = c => j < m)
                                <=> (\A j \in 1..n : f[j] = c => j < m)
      BY <1>1, <1>3
    <2>2. \A j \in 1..n : j < n + 1
      OBVIOUS
    <2>3. K(n + 1) = IF SetOf(g, f[n + 1]) = SetOf(g, c) THEN K(n) \cup {n + 1} ELSE K(n)
      BY <1>1, <2>1, <2>2
    <2>4. After(f, g, n + 1, c) = {f[k] : k \in K(n + 1)} /\ After(f, g, n, c) = {f[k] : k \in K(n)}
      BY DEF After
    <2> HIDE DEF K
    <2> QED
      BY <1>3, <2>3, <2>4
  <1> QED
    BY <1>2, <1>3

LEMMA ObservedHistory ==
    ASSUME NEW lev, NEW g, NEW b, NEW t
    PROVE  HistoryOf(observe(lev, g, b), t)
              = IF t = SetOf(g, b) THEN Touched(HistoryOf(lev, t), b) ELSE HistoryOf(lev, t)
  <1> DEFINE s == SetOf(g, b)
             after == observe(lev, g, b).sets
  <1>1. after = [u \in DOMAIN lev.sets \cup {s} |->
                    IF u = s THEN Touched(HistoryOf(lev, s), b) ELSE lev.sets[u]]
    BY DEF observe
  <1>2. HistoryOf(observe(lev, g, b), t) = IF t \in DOMAIN after THEN after[t] ELSE Unseen
    BY DEF HistoryOf
  <1> HIDE DEF after
  <1>3. CASE t = s
    BY <1>1, <1>2, <1>3
  <1>4. CASE t # s
    BY <1>1, <1>2, <1>4 DEF HistoryOf
  <1> QED
    BY <1>3, <1>4

\* The next line's distance is the one described, and the description goes on.
LEMMA Observing ==
    ASSUME NEW N \in Nat, NEW f \in [1..N -> Nat], NEW g, g.ways \in Nat,
           NEW n \in 0..N - 1, NEW lev, Describes(lev, f, g, n)
    PROVE  /\ ReuseDistance(lev, g, f[n + 1]) = RowAt(f, g, n + 1).distance
           /\ Outcome(lev, g, f[n + 1]) = RowAt(f, g, n + 1).outcome
           /\ Describes(observe(lev, g, f[n + 1]), f, g, n + 1)
  <1> DEFINE b == f[n + 1]
             s == SetOf(g, b)
             next == observe(lev, g, b)
             row == Rows(f, g)
  <1>1. n \in Nat /\ (n + 1) - 1 = n /\ n + 1 \in 1..N /\ n + 1 \notin 1..n /\ 1..n + 1 = (1..n) \cup {n + 1}
    OBVIOUS
  <1>2. \A t : /\ DOMAIN HistoryOf(lev, t) = Visited(f, g, n, t)
               /\ \A c \in Visited(f, g, n, t) : HistoryOf(lev, t)[c] = After(f, g, n, c)
    BY DEF Describes, HistoriesAre
  <1>3. b \in Visited(f, g, n, s) <=> \E j \in 1..n : f[j] = b
    BY DEF Visited
  <1>4. ReuseDistance(lev, g, b) = DistanceAt(f, g, n + 1)
    <2>1. DistanceAt(f, g, n + 1) = IF \E j \in 1..n : f[j] = b THEN {Cardinality(After(f, g, n, b))}
                                    ELSE {}
      BY <1>1 DEF DistanceAt
    <2>2. ReuseDistance(lev, g, b) = IF b \in Visited(f, g, n, s)
                                     THEN {Cardinality(HistoryOf(lev, s)[b])} ELSE {}
      BY <1>2 DEF ReuseDistance, Distance
    <2> QED
      BY <1>2, <1>3, <2>1, <2>2
  <1>5. row[n + 1] = RowAt(f, g, n + 1) /\ IsRow(row[n + 1])
    BY <1>1, RowCases
  <1>6. /\ RowAt(f, g, n + 1).distance = ReuseDistance(lev, g, b)
        /\ RowAt(f, g, n + 1).outcome = OutcomeOf(ReuseDistance(lev, g, b), g)
    BY <1>4 DEF RowAt
  <1>7. CountsMatch(next, row, 1..n + 1)
    <2>1. /\ next.hits = lev.hits + One(row[n + 1].outcome = "Hit")
          /\ next.cold_misses = lev.cold_misses + One(row[n + 1].outcome = "ColdMiss")
          /\ next.replacement_misses =
                lev.replacement_misses + One(row[n + 1].outcome = "ReplacementMiss")
          /\ next.histogram = Counted(lev.histogram, row[n + 1].distance)
      BY <1>5, <1>6 DEF observe
    <2>2. IsFiniteSet(1..n) /\ CountsMatch(lev, row, 1..n)
      BY FS_Interval DEF Describes
    <2> HIDE DEF next, row
    <2>3. CountsMatch(next, row, (1..n) \cup {n + 1})
      BY <1>1, <1>5, <2>1, <2>2, CountsGrow
    <2> QED
      BY <1>1, <2>3
  <1>8. HistoriesAre(next, f, g, n + 1)
    <2> SUFFICES ASSUME NEW t
                 PROVE  /\ DOMAIN HistoryOf(next, t) = Visited(f, g, n + 1, t)
                        /\ \A c \in Visited(f, g, n + 1, t) :
                              HistoryOf(next, t)[c] = After(f, g, n + 1, c)
      BY DEF HistoriesAre
    <2>1. HistoryOf(next, t) = IF t = s THEN Touched(HistoryOf(lev, t), b) ELSE HistoryOf(lev, t)
      BY ObservedHistory
    <2>2. Visited(f, g, n + 1, t) = IF s = t THEN Visited(f, g, n, t) \cup {b} ELSE Visited(f, g, n, t)
      <3>1. n \in Nat
        BY <1>1
      <3>2. \A u : Visited(f, g, n + 1, u) = IF SetOf(g, f[n + 1]) = u
                                              THEN Visited(f, g, n, u) \cup {f[n + 1]}
                                              ELSE Visited(f, g, n, u)
        BY <3>1, VisitedGrows
      <3> QED
        BY <3>2
    <2>3. \A c \in Visited(f, g, n, t) : SetOf(g, c) = t
      BY DEF Visited
    <2>4. \A c : After(f, g, n + 1, c) = IF c = b THEN {}
                                         ELSE IF s = SetOf(g, c) THEN After(f, g, n, c) \cup {b}
                                         ELSE After(f, g, n, c)
      BY <1>1, AfterGrows
    <2>5. CASE t = s
      <3>1. /\ DOMAIN HistoryOf(next, t) = Visited(f, g, n, t) \cup {b}
            /\ \A c \in Visited(f, g, n, t) \cup {b} :
                  HistoryOf(next, t)[c] = IF c = b THEN {} ELSE HistoryOf(lev, t)[c] \cup {b}
        BY <1>2, <2>1, <2>5 DEF Touched
      <3>2. ASSUME NEW c \in Visited(f, g, n, t) \cup {b}
            PROVE  HistoryOf(next, t)[c] = After(f, g, n + 1, c)
        <4>1. s = SetOf(g, c)
          BY <2>3, <2>5
        <4>2. CASE c = b
          BY <2>4, <3>1, <4>2
        <4>3. CASE c # b
          <5>1. HistoryOf(lev, t)[c] = After(f, g, n, c)
            BY <1>2, <4>3
          <5> QED
            BY <2>4, <3>1, <4>1, <4>3, <5>1
        <4> QED
          BY <4>2, <4>3
      <3>3. Visited(f, g, n + 1, t) = Visited(f, g, n, t) \cup {b}
        BY <2>2, <2>5
      <3> QED
        BY <3>1, <3>2, <3>3
    <2>6. CASE t # s
      <3>1. \A c \in Visited(f, g, n, t) : c # b /\ s # SetOf(g, c)
        BY <2>3, <2>6
      <3>2. /\ HistoryOf(next, t) = HistoryOf(lev, t)
            /\ Visited(f, g, n + 1, t) = Visited(f, g, n, t)
            /\ \A c \in Visited(f, g, n, t) : After(f, g, n + 1, c) = After(f, g, n, c)
        BY <2>1, <2>2, <2>4, <2>6, <3>1
      <3> QED
        BY <1>2, <3>2
    <2> QED
      BY <2>5, <2>6
  <1> QED
    BY <1>6, <1>7, <1>8 DEF Describes, Outcome

LEMMA ColdDescribes ==
    ASSUME NEW f, NEW g
    PROVE  Describes(ColdLevel, f, g, 0)
  <1>1. 1..0 = {}
    OBVIOUS
  <1>2. CountsMatch(ColdLevel, Rows(f, g), {})
    <2>1. /\ ColdLevel.hits = 0 /\ ColdLevel.cold_misses = 0 /\ ColdLevel.replacement_misses = 0
          /\ ColdLevel.histogram = [d \in {} |-> 0]
      BY DEF ColdLevel
    <2> QED
      BY <2>1, CountsOfNone
  <1>3. HistoriesAre(ColdLevel, f, g, 0)
    <2>1. \A s : DOMAIN HistoryOf(ColdLevel, s) = {}
      BY DEF HistoryOf, ColdLevel, Unseen
    <2>2. \A s : Visited(f, g, 0, s) = {}
      BY <1>1 DEF Visited
    <2> QED
      BY <2>1, <2>2 DEF HistoriesAre
  <1> QED
    BY <1>1, <1>2, <1>3 DEF Describes

-----------------------------------------------------------------------------
(* Both levels described: f is the task's lines.                            *)

Misses(f) == {i \in DOMAIN f : Rows(f, L1)[i].outcome # "Hit"}

\* The LLC's lines.
Lower(f) == [j \in 1..Cardinality(Misses(f)) |-> f[Ascending(Misses(f))[j]]]

\* How many of them come from the first n lines.
Reached(f, n) == Cardinality({i \in Misses(f) : i <= n})

EventAt(f, i) ==
    LET upper == Rows(f, L1)[i]
        answer == Rows(Lower(f), LLC)[Reached(f, i)]
    IN  [l1 |-> upper,
         llc |-> IF upper.outcome = "Hit" THEN {} ELSE {answer},
         first_service |-> IF upper.outcome = "Hit" THEN "L1"
                           ELSE IF answer.outcome = "Hit" THEN "LLC"
                           ELSE "Memory"]

LEMMA MissesFacts ==
    ASSUME NEW N \in Nat, NEW f \in [1..N -> Nat]
    PROVE  /\ Misses(f) \in SUBSET (1..N) /\ Misses(f) \in SUBSET Nat
           /\ IsFiniteSet(Misses(f)) /\ Cardinality(Misses(f)) \in 0..N
           /\ Ascending(Misses(f)) \in [1..Cardinality(Misses(f)) -> Misses(f)]
           /\ Lower(f) \in [1..Cardinality(Misses(f)) -> Nat]
           /\ \A j \in 1..Cardinality(Misses(f)) : Lower(f)[j] = f[Ascending(Misses(f))[j]]
  <1> DEFINE M == Misses(f)
             order == Ascending(M)
             n == Cardinality(M)
  <1>1. M \in SUBSET (1..N) /\ M \in SUBSET Nat
    BY DEF Misses
  <1>2. IsFiniteSet(1..N) /\ Cardinality(1..N) = N
    BY FS_Interval
  <1>3. IsFiniteSet(M) /\ n \in 0..N
    <2> HIDE DEF M
    <2>1. IsFiniteSet(M) /\ Cardinality(M) <= Cardinality(1..N)
      BY <1>1, <1>2, FS_Subset
    <2>2. Cardinality(M) \in Nat
      BY <2>1, FS_CardinalityType
    <2> QED
      BY <1>2, <2>1, <2>2
  <1>4. order \in [1..n -> M]
    <2> HIDE DEF M
    <2> QED
      BY <1>1, <1>3, AscendingOrders
  <1>5. Lower(f) = [j \in 1..n |-> f[order[j]]]
    BY DEF Lower
  <1> HIDE DEF M, order, n
  <1>6. \A j \in 1..n : order[j] \in 1..N /\ f[order[j]] \in Nat
    BY <1>1, <1>4
  <1>7. Lower(f) \in [1..n -> Nat] /\ \A j \in 1..n : Lower(f)[j] = f[order[j]]
    BY <1>5, <1>6
  <1> QED
    BY <1>1, <1>3, <1>4, <1>7 DEF M, order, n

\* A line the L1 misses is the next the LLC is asked for, and only such a line.
LEMMA ReachedGrows ==
    ASSUME NEW N \in Nat, NEW f \in [1..N -> Nat], NEW n \in 0..N - 1
    PROVE  /\ Reached(f, 0) = 0 /\ Reached(f, N) = Cardinality(Misses(f))
           /\ Reached(f, n) \in Nat
           /\ Reached(f, n) <= Cardinality(Misses(f))
           /\ n + 1 \notin Misses(f) => Reached(f, n + 1) = Reached(f, n)
           /\ n + 1 \in Misses(f) =>
                 /\ Reached(f, n + 1) = Reached(f, n) + 1
                 /\ Reached(f, n + 1) \in 1..Cardinality(Misses(f))
                 /\ Ascending(Misses(f))[Reached(f, n + 1)] = n + 1
                 /\ Lower(f)[Reached(f, n + 1)] = f[n + 1]
  <1> DEFINE M == Misses(f)
             U(m) == {i \in M : i <= m}
  <1>1. M \in SUBSET (1..N) /\ M \in SUBSET Nat /\ IsFiniteSet(M) /\ Cardinality(M) \in Nat
    BY MissesFacts
  <1>2. n \in Nat /\ n + 1 \in 1..N
    OBVIOUS
  <1> HIDE DEF M
  <1>3. U(0) = {} /\ U(N) = M
    <2>1. \A i \in M : ~(i <= 0) /\ i <= N
      BY <1>1
    <2> QED
      BY <2>1
  <1>4. \A m : IsFiniteSet(U(m)) /\ Cardinality(U(m)) \in Nat /\ Cardinality(U(m)) <= Cardinality(M)
    <2> SUFFICES ASSUME NEW m
                 PROVE IsFiniteSet(U(m)) /\ Cardinality(U(m)) \in Nat
                       /\ Cardinality(U(m)) <= Cardinality(M)
      OBVIOUS
    <2>1. U(m) \subseteq M
      OBVIOUS
    <2> HIDE DEF U
    <2> QED
      BY <1>1, <2>1, FS_Subset, FS_CardinalityType
  <1>5. U(n + 1) = IF n + 1 \in M THEN U(n) \cup {n + 1} ELSE U(n)
    <2>1. \A i \in M : i <= n + 1 <=> i <= n \/ i = n + 1
      BY <1>1, <1>2
    <2> QED
      BY <2>1, <1>2
  <1>6. n + 1 \notin U(n) /\ Earlier(M, n + 1) = U(n)
    <2>1. \A i \in M : i < n + 1 <=> i <= n
      BY <1>1, <1>2
    <2> QED
      BY <1>2, <2>1 DEF Earlier
  <1>7. \A m : Reached(f, m) = Cardinality(U(m))
    BY DEF Reached, M
  <1> HIDE DEF U
  <1>8. n + 1 \in M => Cardinality(U(n + 1)) = Cardinality(U(n)) + 1
    BY <1>4, <1>5, <1>6, FS_AddElement
  <1>9. ASSUME n + 1 \in M
        PROVE  /\ Reached(f, n + 1) \in 1..Cardinality(M)
               /\ Ascending(M)[Reached(f, n + 1)] = n + 1
    <2>1. PICK j \in 1..Cardinality(M) : Ascending(M)[j] = n + 1
      BY <1>1, <1>9, AscendingOrders
    <2>2. Cardinality(Earlier(M, Ascending(M)[j])) = j - 1
      BY <1>1, AscendingOrders
    <2>3. Cardinality(U(n)) = j - 1
      BY <1>6, <2>1, <2>2
    <2>4. Reached(f, n + 1) = j
      BY <1>1, <1>7, <1>8, <1>9, <2>3
    <2> QED
      BY <2>1, <2>4
  <1>10. \A j \in 1..Cardinality(M) : Lower(f)[j] = f[Ascending(M)[j]]
    BY MissesFacts DEF M
  <1>11. Reached(f, 0) = 0 /\ Reached(f, N) = Cardinality(M)
    BY <1>3, <1>7, FS_EmptySet
  <1>12. n + 1 \in M => Reached(f, n + 1) = Reached(f, n) + 1
    BY <1>7, <1>8
  <1>13. n + 1 \notin M => Reached(f, n + 1) = Reached(f, n)
    BY <1>5, <1>7
  <1>14. Reached(f, n) \in Nat /\ Reached(f, n) <= Cardinality(M)
    BY <1>4, <1>7
  <1>15. n + 1 \in M => Lower(f)[Reached(f, n + 1)] = f[n + 1]
    BY <1>9, <1>10
  <1> QED
    BY <1>9, <1>11, <1>12, <1>13, <1>14, <1>15 DEF M

LEMMA AppendListed ==
    ASSUME NEW S, NEW n \in Nat, NEW s \in [1..n -> S], NEW e
    PROVE  /\ Len(Append(s, e)) = n + 1
           /\ Append(s, e) = [i \in 1..n + 1 |-> IF i = n + 1 THEN e ELSE s[i]]
  <1> DEFINE T == S \cup {e}
  <1>1. s \in [1..n -> T] /\ e \in T
    OBVIOUS
  <1> HIDE DEF T
  <1>2. s \in Seq(T) /\ Len(s) = n
    BY <1>1, Listed
  <1>3. Append(s, e) \in Seq(T) /\ Len(Append(s, e)) = n + 1
    BY <1>1, <1>2
  <1>4. \A i \in 1..n + 1 : Append(s, e)[i] = IF i = n + 1 THEN e ELSE s[i]
    BY <1>1, <1>2
  <1>5. Append(s, e) \in [1..n + 1 -> T]
    BY <1>3, LenProperties
  <1> QED
    BY <1>3, <1>4, <1>5

-----------------------------------------------------------------------------
(* The streaming analysis is as described.                                  *)

Start == [l1 |-> ColdLevel, llc |-> ColdLevel, events |-> <<>>]

\* What observing the first n lines comes to.
StreamedTo(s, f, n) ==
    /\ Describes(s.l1, f, L1, n)
    /\ Describes(s.llc, Lower(f), LLC, Reached(f, n))
    /\ s.events = [i \in 1..n |-> EventAt(f, i)]

LEMMA FollowedStep ==
    ASSUME NEW N \in Nat, NEW f \in [1..N -> Nat], NEW n \in 0..N - 1,
           NEW s, StreamedTo(s, f, n)
    PROVE  StreamedTo(Followed(s, f[n + 1]), f, n + 1)
  <1> DEFINE b == f[n + 1]
             next == Followed(s, b)
             row == RowAt(f, L1, n + 1)
             q == Lower(f)
             r == Reached(f, n)
             M == Cardinality(Misses(f))
  <1>1. L1.ways \in Nat /\ LLC.ways \in Nat
    BY BatchAssumption
  <1>2. n \in Nat /\ n + 1 \in 1..N
    OBVIOUS
  <1>3. /\ ReuseDistance(s.l1, L1, b) = row.distance
        /\ Outcome(s.l1, L1, b) = row.outcome
        /\ Describes(observe(s.l1, L1, b), f, L1, n + 1)
    BY <1>1, Observing DEF StreamedTo
  <1>4. Rows(f, L1)[n + 1] = row
    BY <1>1, <1>2, RowCases
  <1>5. row = [outcome |-> Outcome(s.l1, L1, b), distance |-> ReuseDistance(s.l1, L1, b)]
    BY <1>3 DEF RowAt
  <1>6. n + 1 \in Misses(f) <=> row.outcome # "Hit"
    BY <1>2, <1>4 DEF Misses
  <1>7. /\ r \in Nat /\ r <= M
        /\ n + 1 \notin Misses(f) => Reached(f, n + 1) = r
        /\ n + 1 \in Misses(f) => /\ Reached(f, n + 1) = r + 1 /\ r + 1 \in 1..M
                                  /\ q[r + 1] = b
    BY ReachedGrows
  <1>8. M \in Nat /\ q \in [1..M -> Nat]
    BY MissesFacts
  <1>9. Describes(s.llc, q, LLC, r)
    BY DEF StreamedTo
  <1> DEFINE event == [l1 |-> row,
                       llc |-> IF row.outcome = "Hit" THEN {}
                               ELSE {[outcome |-> Outcome(s.llc, LLC, b),
                                      distance |-> ReuseDistance(s.llc, LLC, b)]},
                       first_service |-> IF row.outcome = "Hit" THEN "L1"
                                         ELSE IF Outcome(s.llc, LLC, b) = "Hit" THEN "LLC"
                                         ELSE "Memory"]
  <1>10. /\ next.l1 = observe(s.l1, L1, b)
         /\ next.llc = IF row.outcome = "Hit" THEN s.llc ELSE observe(s.llc, LLC, b)
         /\ next.events = Append(s.events, event)
    BY <1>3, <1>5 DEF Followed
  <1>11. Describes(next.llc, q, LLC, Reached(f, n + 1)) /\ event = EventAt(f, n + 1)
    <2>1. CASE row.outcome = "Hit"
      <3>1. next.llc = s.llc /\ Reached(f, n + 1) = r
        BY <1>6, <1>7, <1>10, <2>1
      <3>2. event = [l1 |-> row, llc |-> {}, first_service |-> "L1"]
        BY <2>1
      <3>3. EventAt(f, n + 1) = [l1 |-> row, llc |-> {}, first_service |-> "L1"]
        BY <1>4, <2>1 DEF EventAt
      <3> HIDE DEF event, next, r
      <3> QED
        BY <1>9, <3>1, <3>2, <3>3
    <2>2. CASE row.outcome # "Hit"
      <3>1. Reached(f, n + 1) = r + 1 /\ r + 1 \in 1..M /\ q[r + 1] = b
        BY <1>6, <1>7, <2>2
      <3>2. r \in 0..M - 1
        BY <1>7, <1>8, <3>1
      <3>3. /\ ReuseDistance(s.llc, LLC, b) = RowAt(q, LLC, r + 1).distance
            /\ Outcome(s.llc, LLC, b) = RowAt(q, LLC, r + 1).outcome
            /\ Describes(observe(s.llc, LLC, b), q, LLC, r + 1)
        <4> HIDE DEF q, r, M, b
        <4>1. /\ ReuseDistance(s.llc, LLC, q[r + 1]) = RowAt(q, LLC, r + 1).distance
              /\ Outcome(s.llc, LLC, q[r + 1]) = RowAt(q, LLC, r + 1).outcome
              /\ Describes(observe(s.llc, LLC, q[r + 1]), q, LLC, r + 1)
          BY <1>1, <1>8, <1>9, <3>2, Observing
        <4> QED
          BY <3>1, <4>1
      <3>4. Rows(q, LLC)[r + 1] = RowAt(q, LLC, r + 1)
        <4> HIDE DEF q, r, M
        <4>1. r + 1 \in DOMAIN q
          BY <1>8, <3>1
        <4> QED
          BY <4>1 DEF Rows
      <3>5. RowAt(q, LLC, r + 1) = [outcome |-> Outcome(s.llc, LLC, b),
                                    distance |-> ReuseDistance(s.llc, LLC, b)]
        BY <3>3 DEF RowAt
      <3>6. EventAt(f, n + 1)
               = [l1 |-> row, llc |-> {Rows(q, LLC)[r + 1]},
                  first_service |-> IF Rows(q, LLC)[r + 1].outcome = "Hit" THEN "LLC"
                                    ELSE "Memory"]
        BY <1>4, <2>2, <3>1 DEF EventAt
      <3>7. event = EventAt(f, n + 1)
        <4> DEFINE answer == [outcome |-> Outcome(s.llc, LLC, b),
                              distance |-> ReuseDistance(s.llc, LLC, b)]
        <4>1. Rows(q, LLC)[r + 1] = answer
          BY <3>4, <3>5
        <4>2. event = [l1 |-> row, llc |-> {answer},
                       first_service |-> IF answer.outcome = "Hit" THEN "LLC" ELSE "Memory"]
          BY <2>2
        <4> HIDE DEF answer, event, row, q, r
        <4> QED
          BY <3>6, <4>1, <4>2
      <3>8. next.llc = observe(s.llc, LLC, b)
        BY <1>10, <2>2
      <3> HIDE DEF event, next, r
      <3> QED
        BY <3>1, <3>3, <3>7, <3>8
    <2> QED
      BY <2>1, <2>2
  <1>12. next.events = [i \in 1..n + 1 |-> EventAt(f, i)]
    <2> DEFINE S == {EventAt(f, i) : i \in 1..n}
    <2>1. s.events = [i \in 1..n |-> EventAt(f, i)] /\ s.events \in [1..n -> S]
      BY DEF StreamedTo
    <2> HIDE DEF event, S
    <2>2. Append(s.events, event) = [i \in 1..n + 1 |-> IF i = n + 1 THEN event ELSE s.events[i]]
      BY <1>2, <2>1, AppendListed
    <2>3. ASSUME NEW i \in 1..n + 1
          PROVE  (IF i = n + 1 THEN event ELSE s.events[i]) = EventAt(f, i)
      <3>1. i = n + 1 \/ i \in 1..n
        BY <1>2
      <3> QED
        BY <1>11, <2>1, <3>1
    <2>4. Append(s.events, event) = [i \in 1..n + 1 |-> EventAt(f, i)]
      BY <2>2, <2>3
    <2> HIDE DEF next
    <2> QED
      BY <1>10, <2>4
  <1> HIDE DEF next
  <1>13. StreamedTo(next, f, n + 1)
    BY <1>3, <1>10, <1>11, <1>12 DEF StreamedTo
  <1> QED
    BY <1>13 DEF next

\* h follows the first n lines.
Follows(h, f, n) ==
    h = [m \in 0..n |-> IF m = 0 THEN Start ELSE Followed(h[m - 1], f[m])]

LEMMA FollowsExists ==
    ASSUME NEW N \in Nat, NEW f
    PROVE  \E h : Follows(h, f, N)
  <1> DEFINE F == {n \in 0..N : ~ \E h : Follows(h, f, n)}
  <1> SUFFICES ASSUME F # {} PROVE FALSE
    OBVIOUS
  <1>1. PICK n \in F : \A m \in F : n <= m
    <2>1. F \in SUBSET Nat
      OBVIOUS
    <2> HIDE DEF F
    <2> QED
      BY <2>1, SmallestNumber
  <1>2. n \in 0..N
    OBVIOUS
  <1>3. CASE n = 0
    <2> DEFINE h == [m \in 0..0 |-> Start]
    <2>1. \A m \in 0..0 : m = 0
      OBVIOUS
    <2>2. h = [m \in 0..0 |-> IF m = 0 THEN Start ELSE Followed(h[m - 1], f[m])]
      BY <2>1, Zenon
    <2>3. Follows(h, f, 0)
      <3> HIDE DEF h
      <3> QED
        BY <2>2 DEF Follows
    <2> QED
      BY <1>3, <2>3
  <1>4. CASE n # 0
    <2>1. n - 1 \in 0..N /\ n - 1 < n
      BY <1>2, <1>4
    <2>2. n - 1 \notin F
      BY <1>1, <1>2, <2>1
    <2>3. PICK h : Follows(h, f, n - 1)
      BY <2>1, <2>2
    <2> DEFINE new == [m \in 0..n |-> IF m = n THEN Followed(h[n - 1], f[n]) ELSE h[m]]
    <2>4. h = [m \in 0..n - 1 |-> IF m = 0 THEN Start ELSE Followed(h[m - 1], f[m])]
      BY <2>3 DEF Follows
    <2>5. ASSUME NEW m \in 0..n
          PROVE  new[m] = IF m = 0 THEN Start ELSE Followed(new[m - 1], f[m])
      <3>1. CASE m = n
        <4>1. n - 1 \in 0..n /\ n - 1 # n
          BY <1>2, <1>4
        <4>2. new[n - 1] = h[n - 1]
          BY <4>1
        <4>3. new[m] = Followed(h[n - 1], f[n])
          BY <3>1
        <4> QED
          BY <1>4, <3>1, <4>2, <4>3
      <3>2. CASE m # n
        <4>1. m \in 0..n - 1 /\ (m # 0 => m - 1 \in 0..n /\ m - 1 # n)
          BY <1>2, <3>2
        <4>2. new[m] = h[m] /\ (m # 0 => new[m - 1] = h[m - 1])
          BY <3>2, <4>1
        <4> HIDE DEF new
        <4> QED
          BY <2>4, <4>1, <4>2
      <3> QED
        BY <3>1, <3>2
    <2>6. Follows(new, f, n)
      <3>1. new = [m \in 0..n |-> new[m]]
        OBVIOUS
      <3> HIDE DEF new
      <3>2. new = [m \in 0..n |-> IF m = 0 THEN Start ELSE Followed(new[m - 1], f[m])]
        BY <2>5, <3>1
      <3> QED
        BY <3>2 DEF Follows
    <2> QED
      BY <2>6
  <1> QED
    BY <1>3, <1>4

LEMMA FollowsDescribes ==
    ASSUME NEW N \in Nat, NEW f \in [1..N -> Nat], NEW h, Follows(h, f, N)
    PROVE  StreamedTo(h[N], f, N)
  <1> DEFINE F == {n \in 0..N : ~StreamedTo(h[n], f, n)}
  <1>1. \A n \in 0..N : h[n] = IF n = 0 THEN Start ELSE Followed(h[n - 1], f[n])
    BY DEF Follows
  <1>2. StreamedTo(Start, f, 0)
    <2>1. Reached(f, 0) = 0
      <3>1. {i \in Misses(f) : i <= 0} = {}
        BY MissesFacts
      <3> QED
        BY <3>1, FS_EmptySet DEF Reached
    <2>2. <<>> = [i \in 1..0 |-> EventAt(f, i)]
      OBVIOUS
    <2> QED
      BY <2>1, <2>2, ColdDescribes DEF StreamedTo, Start
  <1>3. ASSUME F # {} PROVE FALSE
    <2>1. PICK n \in F : \A m \in F : n <= m
      <3>1. F \in SUBSET Nat
        OBVIOUS
      <3> HIDE DEF F
      <3> QED
        BY <1>3, <3>1, SmallestNumber
    <2>2. n # 0
      BY <1>1, <1>2, <2>1
    <2>3. n - 1 \in 0..N - 1 /\ (n - 1) + 1 = n /\ ~(n <= n - 1) /\ n - 1 \in 0..N
      BY <2>1, <2>2
    <2>4. StreamedTo(h[n - 1], f, n - 1)
      BY <2>1, <2>3
    <2>5. StreamedTo(Followed(h[n - 1], f[n]), f, n)
      <3>1. StreamedTo(Followed(h[n - 1], f[(n - 1) + 1]), f, (n - 1) + 1)
        <4> DEFINE m == n - 1
        <4>1. m \in 0..N - 1 /\ StreamedTo(h[m], f, m)
          BY <2>3, <2>4
        <4> HIDE DEF m
        <4>2. StreamedTo(Followed(h[m], f[m + 1]), f, m + 1)
          BY <4>1, FollowedStep
        <4> QED
          BY <4>2 DEF m
      <3> QED
        BY <2>3, <3>1
    <2> QED
      BY <1>1, <2>1, <2>2, <2>5
  <1> QED
    BY <1>3

LEMMA StreamedIsDescribed ==
    ASSUME NEW N \in Nat, trace \in [1..N -> Nat]
    PROVE  StreamedTo(Streamed, trace, N)
  <1> DEFINE after == CHOOSE h : Follows(h, trace, N)
  <1>1. Len(trace) = N
    BY Listed
  <1>2. Streamed = after[N]
    BY <1>1 DEF Streamed, Follows, Start
  <1>3. Follows(after, trace, N)
    BY FollowsExists
  <1> QED
    BY <1>2, <1>3, FollowsDescribes

-----------------------------------------------------------------------------
(* Counting positions in a tree: one cache set.                             *)

OfSet(f, g, s) == {i \in DOMAIN f : SetOf(g, f[i]) = s}
SetRows(f, g, s) == Ascending(OfSet(f, g, s))

\* What a line's visit at position idx answers and does.
Told(tree, last, b, idx) ==
    IF b \in DOMAIN last THEN {prefix_sum(tree, idx - 1) - prefix_sum(tree, last[b])} ELSE {}
Grown(tree, last, b, idx) ==
    add(IF b \in DOMAIN last THEN add(tree, last[b], -1) ELSE tree, idx, 1)
Seen(last, b, idx) == [c \in DOMAIN last \cup {b} |-> IF c = b THEN idx ELSE last[c]]
NoneSeen == [c \in {} |-> 0]

\* The first idx - 1 lines of set s have been analysed: the tree counts the
\* last visit of each.
SetInv(f, g, s, idx, tree, last) ==
    LET rows == SetRows(f, g, s)
    IN  /\ idx \in 1..Len(rows)
        /\ DOMAIN last = {f[rows[p]] : p \in 1..idx - 1}
        /\ \A b \in DOMAIN last :
              /\ last[b] \in 1..idx - 1
              /\ f[rows[last[b]]] = b
              /\ \A p \in 1..idx - 1 : f[rows[p]] = b => p <= last[b]
        /\ Fenwick!Tallies(tree, DOMAIN last, last, Len(rows))

LEMMA SetRowsFacts ==
    ASSUME NEW N \in Nat, NEW f \in [1..N -> Nat], NEW g, NEW s
    PROVE  LET rows == SetRows(f, g, s)
               n == Len(rows)
           IN  /\ n \in 0..N /\ n = Cardinality(OfSet(f, g, s))
               /\ \A p \in 1..n : rows[p] \in 1..N /\ SetOf(g, f[rows[p]]) = s
               /\ \A i \in OfSet(f, g, s) : \E p \in 1..n : rows[p] = i
               /\ \A p, q \in 1..n : p < q <=> rows[p] < rows[q]
  <1> DEFINE S == OfSet(f, g, s)
             rows == SetRows(f, g, s)
             n == Cardinality(S)
  <1>1. S \in SUBSET (1..N) /\ S \in SUBSET Nat
    BY DEF OfSet
  <1>2. \A i \in 1..N : i \in S <=> SetOf(g, f[i]) = s
    BY DEF OfSet
  <1> HIDE DEF S
  <1>3. IsFiniteSet(S) /\ n \in Nat /\ n <= N
    <2>1. IsFiniteSet(1..N) /\ Cardinality(1..N) = N
      BY FS_Interval
    <2>2. IsFiniteSet(S) /\ Cardinality(S) <= Cardinality(1..N)
      BY <1>1, <2>1, FS_Subset
    <2> QED
      BY <2>1, <2>2, FS_CardinalityType
  <1>4. /\ rows \in [1..n -> S]
        /\ \A x \in S : \E p \in 1..n : rows[p] = x
        /\ \A p, q \in 1..n : p < q => rows[p] < rows[q]
    BY <1>1, <1>3, AscendingOrders DEF SetRows, S
  <1> HIDE DEF rows, n
  <1>5. Len(rows) = n
    BY <1>3, <1>4, Listed
  <1>6. \A p \in 1..n : rows[p] \in 1..N /\ SetOf(g, f[rows[p]]) = s
    BY <1>1, <1>2, <1>4
  <1>7. ASSUME NEW p \in 1..n, NEW q \in 1..n, rows[p] < rows[q] PROVE p < q
    <2>1. rows[p] \in Nat /\ rows[q] \in Nat /\ ~(rows[q] < rows[p]) /\ rows[p] # rows[q]
      BY <1>6, <1>7
    <2>2. ~(q < p) /\ p # q
      BY <1>4, <2>1
    <2> QED
      BY <1>3, <2>2
  <1>8. n \in 0..N
    BY <1>3
  <1>9. \A i \in S : \E p \in 1..n : rows[p] = i
    BY <1>4
  <1>10. \A p, q \in 1..n : p < q <=> rows[p] < rows[q]
    BY <1>4, <1>7
  <1> QED
    BY <1>5, <1>6, <1>8, <1>9, <1>10 DEF rows, n, S

\* The lines of the set before the idx-th are the first idx - 1.
LEMMA EarlierLines ==
    ASSUME NEW N \in Nat, NEW f \in [1..N -> Nat], NEW g, NEW s
    PROVE  LET rows == SetRows(f, g, s)
           IN  \A idx \in 1..Len(rows) : \A j \in OfSet(f, g, s) :
                  j < rows[idx] => \E p \in 1..idx - 1 : rows[p] = j
  <1> DEFINE rows == SetRows(f, g, s)
             n == Len(rows)
  <1>1. /\ n \in 0..N
        /\ \A p \in 1..n : rows[p] \in 1..N
        /\ \A i \in OfSet(f, g, s) : \E p \in 1..n : rows[p] = i
        /\ \A p, q \in 1..n : p < q <=> rows[p] < rows[q]
    BY SetRowsFacts
  <1> HIDE DEF rows
  <1>2. ASSUME NEW idx \in 1..n, NEW j \in OfSet(f, g, s), j < rows[idx]
        PROVE  \E p \in 1..idx - 1 : rows[p] = j
    <2>1. PICK p \in 1..n : rows[p] = j
      BY <1>1
    <2>2. p < idx
      BY <1>1, <1>2, <2>1
    <2>3. p \in 1..idx - 1
      BY <1>1, <2>2
    <2> QED
      BY <2>1, <2>3
  <1> QED
    BY <1>2 DEF rows

\* What the tree answers is the distance described.
LEMMA NewerIsDistance ==
    ASSUME MaxLines \in Nat, NEW N \in 0..MaxLines, NEW f \in [1..N -> Nat], NEW g, NEW s,
           NEW idx, NEW tree, NEW last, SetInv(f, g, s, idx, tree, last)
    PROVE  LET i == SetRows(f, g, s)[idx]
               b == f[i]
           IN  /\ i \in 1..N
               /\ IsFiniteSet(DOMAIN last)
               /\ DistanceAt(f, g, i) = Told(tree, last, b, idx)
  <1> DEFINE rows == SetRows(f, g, s)
             n == Len(rows)
             i == rows[idx]
             b == f[i]
             K == DOMAIN last
             A == After(f, g, i - 1, b)
  <1>1. /\ n \in 0..N
        /\ \A p \in 1..n : rows[p] \in 1..N /\ SetOf(g, f[rows[p]]) = s
        /\ \A p, q \in 1..n : p < q <=> rows[p] < rows[q]
    BY SetRowsFacts
  <1>2. /\ idx \in 1..n
        /\ K = {f[rows[p]] : p \in 1..idx - 1}
        /\ \A c \in K : /\ last[c] \in 1..idx - 1 /\ f[rows[last[c]]] = c
                        /\ \A p \in 1..idx - 1 : f[rows[p]] = c => p <= last[c]
        /\ Fenwick!Tallies(tree, K, last, n)
    BY DEF SetInv
  <1>3. ASSUME NEW j \in 1..i - 1, SetOf(g, f[j]) = s
        PROVE  \E p \in 1..idx - 1 : rows[p] = j
    <2>1. i \in 1..N /\ j < i
      BY <1>1, <1>2
    <2>2. j \in OfSet(f, g, s)
      BY <1>3, <2>1 DEF OfSet
    <2> HIDE <1>3
    <2> QED
      BY <1>2, <2>1, <2>2, EarlierLines, SMTT(30)
  <1> HIDE DEF rows
  <1>0. n \in Nat /\ n <= N /\ idx \in Nat /\ idx - 1 \in 0..n
    BY <1>1, <1>2
  <1>11. \A c \in K : last[c] \in Nat \ {0} /\ last[c] <= idx - 1 /\ last[c] \in 0..n
    <2> HIDE DEF K, n
    <2> SUFFICES ASSUME NEW c \in K
                 PROVE  last[c] \in Nat \ {0} /\ last[c] <= idx - 1 /\ last[c] \in 0..n
      OBVIOUS
    <2>1. last[c] \in 1..idx - 1
      BY <1>2
    <2> QED
      BY <1>0, <2>1
  <1>4. i \in 1..N /\ SetOf(g, b) = s
    BY <1>1, <1>2
  <1>5. ASSUME NEW p \in 1..idx - 1 PROVE p \in 1..n /\ rows[p] \in 1..i - 1
    <2>1. p \in 1..n /\ p < idx
      BY <1>1, <1>2
    <2>2. rows[p] < i /\ rows[p] \in 1..N
      BY <1>1, <1>2, <2>1
    <2> QED
      BY <1>4, <2>1, <2>2
  <1>6. IsFiniteSet(K)
    <2> DEFINE m == [p \in 1..idx - 1 |-> f[rows[p]]]
    <2>1. IsFiniteSet(1..idx - 1)
      BY <1>1, <1>2, FS_Interval
    <2>2. m \in Surjection(1..idx - 1, K)
      BY <1>2 DEF Surjection
    <2> HIDE DEF m, K
    <2> QED
      BY <2>1, <2>2, FS_Surjection
  <1>7. b \in K <=> \E j \in 1..i - 1 : f[j] = b
    <2>1. ASSUME b \in K PROVE \E j \in 1..i - 1 : f[j] = b
      BY <1>2, <1>5, <2>1
    <2>2. ASSUME NEW j \in 1..i - 1, f[j] = b PROVE b \in K
      <3>1. PICK p \in 1..idx - 1 : rows[p] = j
        BY <1>3, <1>4, <2>2
      <3> QED
        BY <1>2, <2>2, <3>1
    <2> QED
      BY <2>1, <2>2
  <1>8. ASSUME b \in K
        PROVE  Cardinality(A) = prefix_sum(tree, idx - 1) - prefix_sum(tree, last[b])
    <2> DEFINE U == Fenwick!UpTo(K, last, last[b])
    <2>1. \A c \in K : last[c] \in Nat \ {0}
      BY <1>11
    <2>2. n \in 0..MaxLines /\ idx - 1 \in 0..n /\ last[b] \in 0..n
      <3> HIDE DEF n, K
      <3>1. MaxLines \in Nat /\ N \in Nat /\ N <= MaxLines
        OBVIOUS
      <3> QED
        BY <1>0, <1>8, <1>11, <3>1
    <2>3. /\ prefix_sum(tree, idx - 1) = Cardinality(Fenwick!UpTo(K, last, idx - 1))
          /\ prefix_sum(tree, last[b]) = Cardinality(U)
      <3> HIDE DEF K, n, b
      <3> QED
        BY <1>2, <1>6, <2>1, <2>2, PrefixSums
    <2>4. Fenwick!UpTo(K, last, idx - 1) = K
      <3>1. \A c \in K : last[c] <= idx - 1
        BY <1>1, <1>2, SMTT(30)
      <3> QED
        BY <3>1 DEF Fenwick!UpTo
    <2>5. U \subseteq K /\ \A c \in K : c \in U <=> last[c] <= last[b]
      BY DEF Fenwick!UpTo
    <2>6. ASSUME NEW c \in K, c \notin U PROVE c \in A
      <3>1. last[c] \in 1..idx - 1 /\ last[b] \in 1..idx - 1 /\ last[b] < last[c]
        <4>1. ~(last[c] <= last[b])
          BY <2>5, <2>6
        <4>2. last[c] \in 1..idx - 1 /\ last[b] \in 1..idx - 1
          BY <1>2, <1>8
        <4> QED
          BY <4>1, <4>2
      <3> DEFINE m == rows[last[c]]
      <3>2. m \in 1..i - 1 /\ last[c] \in 1..n /\ SetOf(g, f[m]) = s /\ f[m] = c
        BY <1>1, <1>2, <1>5, <3>1
      <3>3. ASSUME NEW j \in 1..i - 1, f[j] = b PROVE j < m
        <4>1. PICK p \in 1..idx - 1 : rows[p] = j
          BY <1>3, <1>4, <3>3
        <4>2. p <= last[b] /\ p \in 1..n
          BY <1>2, <1>5, <1>8, <3>3, <4>1
        <4>3. p < last[c]
          BY <3>1, <4>2
        <4> QED
          BY <1>1, <3>2, <4>1, <4>2, <4>3
      <3> HIDE DEF m
      <3> QED
        BY <1>4, <3>2, <3>3 DEF After
    <2>7. ASSUME NEW c \in A PROVE c \in K /\ c \notin U
      <3>1. PICK m \in 1..i - 1 : /\ c = f[m] /\ SetOf(g, f[m]) = s
                                  /\ \A j \in 1..i - 1 : f[j] = b => j < m
        BY <1>4 DEF After
      <3>2. PICK p \in 1..idx - 1 : rows[p] = m
        BY <1>3, <3>1
      <3>3. c \in K
        BY <1>2, <3>1, <3>2
      <3>4. last[b] \in 1..idx - 1 /\ f[rows[last[b]]] = b
        BY <1>2, <1>8
      <3>5. rows[last[b]] < rows[p] /\ last[b] \in 1..n /\ p \in 1..n
        BY <1>5, <3>1, <3>2, <3>4
      <3>6. last[b] < p
        BY <1>1, <3>5
      <3>7. p <= last[c] /\ last[c] \in 1..idx - 1
        BY <1>2, <3>1, <3>2, <3>3
      <3>8. ~(last[c] <= last[b])
        BY <3>4, <3>6, <3>7
      <3> QED
        BY <2>5, <3>3, <3>8
    <2>8. A = K \ U
      BY <2>6, <2>7
    <2> HIDE DEF A, K, U
    <2>9. /\ Cardinality(K \ U) = Cardinality(K) - Cardinality(K \cap U)
          /\ K \cap U = U
      BY <1>6, <2>5, FS_Difference
    <2> QED
      BY <2>3, <2>4, <2>8, <2>9
  <1>9. DistanceAt(f, g, i) = IF \E j \in 1..i - 1 : f[j] = b THEN {Cardinality(A)} ELSE {}
    BY DEF DistanceAt
  <1>10. DistanceAt(f, g, i)
            = IF b \in K THEN {prefix_sum(tree, idx - 1) - prefix_sum(tree, last[b])} ELSE {}
    <2> HIDE DEF A, K, b, i
    <2> QED
      BY <1>7, <1>8, <1>9
  <1> QED
    BY <1>4, <1>6, <1>10 DEF rows, Told

LEMMA SetBegins ==
    ASSUME NEW N \in Nat, NEW f \in [1..N -> Nat], NEW g, NEW s, OfSet(f, g, s) # {}
    PROVE  SetInv(f, g, s, 1, EmptyTree(Len(SetRows(f, g, s))), NoneSeen)
  <1> DEFINE rows == SetRows(f, g, s)
             n == Len(rows)
             none == [c \in {} |-> 0]
  <1>1. n \in Nat /\ \A i \in OfSet(f, g, s) : \E p \in 1..n : rows[p] = i
    BY SetRowsFacts
  <1>2. 1 \in 1..n /\ 1..1 - 1 = {}
    <2>1. PICK p \in 1..n : TRUE
      BY <1>1
    <2> HIDE DEF n
    <2> QED
      BY <1>1, <2>1
  <1>3. DOMAIN none = {}
    OBVIOUS
  <1>4. Fenwick!Tallies(EmptyTree(n), {}, none, n)
    <2> HIDE DEF n, none
    <2> QED
      BY <1>1, EmptyTallies
  <1> QED
    BY <1>2, <1>3, <1>4 DEF SetInv, NoneSeen

LEMMA SetGoesOn ==
    ASSUME MaxLines \in Nat, NEW N \in 0..MaxLines, NEW f \in [1..N -> Nat], NEW g, NEW s,
           NEW idx, NEW tree, NEW last, SetInv(f, g, s, idx, tree, last),
           idx # Len(SetRows(f, g, s))
    PROVE  LET b == f[SetRows(f, g, s)[idx]]
           IN  SetInv(f, g, s, idx + 1, Grown(tree, last, b, idx), Seen(last, b, idx))
  <1> DEFINE rows == SetRows(f, g, s)
             n == Len(rows)
             b == f[rows[idx]]
             K == DOMAIN last
             next == [c \in K \cup {b} |-> IF c = b THEN idx ELSE last[c]]
             moved == add(IF b \in K THEN add(tree, last[b], -1) ELSE tree, idx, 1)
  <1>1. n \in 0..N
    BY SetRowsFacts
  <1>2. /\ idx \in 1..n
        /\ K = {f[rows[p]] : p \in 1..idx - 1}
        /\ \A c \in K : /\ last[c] \in 1..idx - 1 /\ f[rows[last[c]]] = c
                        /\ \A p \in 1..idx - 1 : f[rows[p]] = c => p <= last[c]
        /\ Fenwick!Tallies(tree, K, last, n)
    BY DEF SetInv
  <1>3. IsFiniteSet(K)
    BY NewerIsDistance
  <1> HIDE DEF rows
  <1>4. n \in 0..MaxLines /\ idx \in Nat /\ idx + 1 \in 1..n /\ (idx + 1) - 1 = idx
    <2>1. MaxLines \in Nat /\ N \in Nat /\ N <= MaxLines /\ n \in Nat /\ n <= N
      BY <1>1
    <2>2. idx # n
      BY DEF rows
    <2> HIDE DEF n
    <2> QED
      BY <1>2, <2>1, <2>2
  <1>5. 1..idx = (1..idx - 1) \cup {idx}
    BY <1>4, <1>2
  <1>6. K \cup {b} = {f[rows[p]] : p \in 1..idx}
    BY <1>2, <1>5
  <1>7. DOMAIN next = K \cup {b} /\ next[b] = idx /\ \A c \in K \ {b} : next[c] = last[c]
    OBVIOUS
  <1>8. Fenwick!Tallies(moved, K \cup {b}, next, n)
    <2>1. \A c \in K : last[c] \in 1..n
      <3> SUFFICES ASSUME NEW c \in K PROVE last[c] \in 1..n
        OBVIOUS
      <3> HIDE DEF n, K
      <3>1. last[c] \in 1..idx - 1
        BY <1>2
      <3>2. idx \in 1..n /\ n \in Nat
        BY <1>1, <1>2
      <3> QED
        BY <3>1, <3>2
    <2>2. idx \in 1..n /\ Fenwick!Tallies(tree, K, last, n)
      BY <1>2
    <2> HIDE DEF n, b, K, next
    <2>3. Fenwick!Tallies(add(IF b \in K THEN add(tree, last[b], -1) ELSE tree, idx, 1),
                          K \cup {b}, next, n)
      <3>1. IsFiniteSet(K) /\ MaxLines \in Nat /\ n \in 0..MaxLines
        BY <1>3, <1>4
      <3>2. next[b] = idx /\ \A c \in K \ {b} : next[c] = last[c]
        BY <1>7
      <3> QED
        BY <2>1, <2>2, <3>1, <3>2, MoveTallies, Zenon
    <2> QED
      BY <2>3
  <1>9. ASSUME NEW c \in K \cup {b}
        PROVE  /\ next[c] \in 1..idx /\ f[rows[next[c]]] = c
               /\ \A p \in 1..idx : f[rows[p]] = c => p <= next[c]
    <2>1. CASE c = b
      <3>1. next[c] = idx
        BY <1>7, <2>1
      <3> HIDE DEF next
      <3> QED
        BY <1>4, <1>2, <2>1, <3>1
    <2>2. CASE c # b
      <3>1. c \in K /\ next[c] = last[c]
        BY <1>7, <1>9, <2>2
      <3>2. /\ last[c] \in 1..idx - 1 /\ f[rows[last[c]]] = c
            /\ \A p \in 1..idx - 1 : f[rows[p]] = c => p <= last[c]
        BY <1>2, <3>1
      <3>3. last[c] \in 1..idx
        BY <1>4, <3>2
      <3>4. ASSUME NEW p \in 1..idx, f[rows[p]] = c PROVE p <= last[c]
        <4>1. p # idx
          BY <2>2, <3>4
        <4>2. p \in 1..idx - 1
          BY <1>5, <4>1
        <4> QED
          BY <3>2, <3>4, <4>2
      <3> HIDE DEF next
      <3> QED
        BY <3>1, <3>2, <3>3, <3>4
    <2> QED
      BY <2>1, <2>2
  <1> HIDE DEF next, moved, b
  <1>10. SetInv(f, g, s, idx + 1, moved, next)
    <2>1. DOMAIN next = {f[rows[p]] : p \in 1..(idx + 1) - 1}
      BY <1>4, <1>6, <1>7
    <2>2. \A c \in DOMAIN next :
             /\ next[c] \in 1..(idx + 1) - 1 /\ f[rows[next[c]]] = c
             /\ \A p \in 1..(idx + 1) - 1 : f[rows[p]] = c => p <= next[c]
      BY <1>4, <1>7, <1>9
    <2>3. Fenwick!Tallies(moved, DOMAIN next, next, n)
      BY <1>7, <1>8
    <2> QED
      BY <1>4, <2>1, <2>2, <2>3 DEF SetInv, rows
  <1> QED
    BY <1>10 DEF next, moved, b, rows, Grown, Seen

-----------------------------------------------------------------------------
(* Counting positions in a tree: set after set.                             *)

IsGeometry(g) == g.sets \in Nat \ {0} /\ g.ways \in Nat

Smallest(T) == CHOOSE s \in T : \A t \in T : s <= t

\* The input positions that have their answer: sets still to do are T, and the
\* smallest of them has answered its first k lines.
AnsweredIn(f, g, T, k) ==
    {i \in DOMAIN f : SetOf(g, f[i]) \notin T}
        \cup (IF T = {} THEN {} ELSE {SetRows(f, g, Smallest(T))[p] : p \in 1..k})

\* The tree at work: a set's first line finds an empty one.
TreeAt(f, g, s, idx, pos) ==
    IF idx = 1 THEN EmptyTree(Len(SetRows(f, g, s))) ELSE pos

LevelInv(f, g, T, idx, pos, last, lev) ==
    /\ T \subseteq SetsOf(f, g)
    /\ T # {} =>
          SetInv(f, g, Smallest(T), idx, TreeAt(f, g, Smallest(T), idx, pos), last)
    /\ DOMAIN lev.accesses = DOMAIN f
    /\ \A i \in AnsweredIn(f, g, T, idx - 1) : lev.accesses[i] = Rows(f, g)[i]
    /\ CountsMatch(lev, Rows(f, g), AnsweredIn(f, g, T, idx - 1))

LEMMA SmallestIsIn ==
    ASSUME NEW N \in Nat, NEW f \in [1..N -> Nat], NEW g, IsGeometry(g),
           NEW T, T \subseteq SetsOf(f, g), T # {}
    PROVE  Smallest(T) \in T /\ OfSet(f, g, Smallest(T)) # {}
  <1>1. \A i \in 1..N : SetOf(g, f[i]) \in Nat
    BY DEF SetOf, IsGeometry
  <1>2. SetsOf(f, g) = {SetOf(g, f[i]) : i \in 1..N}
    BY DEF SetsOf
  <1>3. T \in SUBSET Nat
    BY <1>1, <1>2
  <1>4. \E s \in T : \A t \in T : s <= t
    BY <1>3, SmallestNumber
  <1>5. Smallest(T) \in T
    BY <1>4 DEF Smallest
  <1>6. PICK i \in 1..N : SetOf(g, f[i]) = Smallest(T)
    BY <1>2, <1>5
  <1> QED
    BY <1>5, <1>6 DEF OfSet

LEMMA AnsweredNext ==
    ASSUME NEW f, NEW g, NEW T, T # {}, NEW idx, idx \in Nat \ {0}
    PROVE  AnsweredIn(f, g, T, idx)
              = AnsweredIn(f, g, T, idx - 1) \cup {SetRows(f, g, Smallest(T))[idx]}
  <1> DEFINE rows == SetRows(f, g, Smallest(T))
  <1>1. 1..idx = (1..idx - 1) \cup {idx}
    OBVIOUS
  <1> HIDE DEF rows
  <1>2. {rows[p] : p \in 1..idx} = {rows[p] : p \in 1..idx - 1} \cup {rows[idx]}
    BY <1>1
  <1> QED
    BY <1>2 DEF AnsweredIn, rows

LEMMA AnsweredGrows ==
    ASSUME NEW N \in Nat, NEW f \in [1..N -> Nat], NEW g, NEW T, T # {},
           Smallest(T) \in T, NEW idx, idx \in 1..Len(SetRows(f, g, Smallest(T)))
    PROVE  LET s == Smallest(T)
               rows == SetRows(f, g, s)
               D == AnsweredIn(f, g, T, idx - 1)
           IN  /\ D \subseteq 1..N /\ rows[idx] \in 1..N /\ rows[idx] \notin D
               /\ idx = Len(rows) => AnsweredIn(f, g, T \ {s}, 0) = D \cup {rows[idx]}
  <1> DEFINE s == Smallest(T)
             rows == SetRows(f, g, s)
             n == Len(rows)
             Out == {i \in 1..N : SetOf(g, f[i]) \notin T}
  <1>1. /\ n \in 0..N
        /\ \A p \in 1..n : rows[p] \in 1..N /\ SetOf(g, f[rows[p]]) = s
        /\ \A i \in OfSet(f, g, s) : \E p \in 1..n : rows[p] = i
        /\ \A p, q \in 1..n : p < q <=> rows[p] < rows[q]
    BY SetRowsFacts
  <1>2. \A m : AnsweredIn(f, g, T, m) = Out \cup {rows[p] : p \in 1..m}
    BY DEF AnsweredIn
  <1>12. s \in T
    OBVIOUS
  <1>3. AnsweredIn(f, g, T \ {s}, 0) = {i \in 1..N : SetOf(g, f[i]) \notin T \ {s}}
    <2>1. 1..0 = {}
      OBVIOUS
    <2>2. \A r : {r[p] : p \in 1..0} = {}
      BY <2>1
    <2> QED
      BY <2>2 DEF AnsweredIn
  <1>11. idx \in 1..n
    OBVIOUS
  <1> HIDE DEF rows, s
  <1>4. idx \in Nat /\ idx \in 1..n /\ (idx + 1) - 1 = idx /\ 1..idx = (1..idx - 1) \cup {idx}
    BY <1>1, <1>11
  <1>5. rows[idx] \in 1..N /\ rows[idx] \notin Out
    BY <1>1, <1>4, <1>12
  <1>6. ASSUME NEW p \in 1..idx - 1 PROVE rows[p] # rows[idx] /\ rows[p] \in 1..N
    <2>1. p \in 1..n /\ p < idx
      BY <1>1, <1>4
    <2>2. rows[p] < rows[idx] /\ rows[p] \in 1..N
      BY <1>1, <1>4, <2>1
    <2> QED
      BY <1>5, <2>2
  <1>7. AnsweredIn(f, g, T, idx - 1) = Out \cup {rows[p] : p \in 1..idx - 1}
    BY <1>2
  <1>8. AnsweredIn(f, g, T, idx - 1) \subseteq 1..N
    BY <1>6, <1>7
  <1>10. ASSUME idx = n
         PROVE  AnsweredIn(f, g, T \ {s}, 0) = AnsweredIn(f, g, T, idx - 1) \cup {rows[idx]}
    <2>1. AnsweredIn(f, g, T, idx - 1) \cup {rows[idx]} = Out \cup {rows[p] : p \in 1..n}
      BY <1>4, <1>7, <1>10
    <2>2. {rows[p] : p \in 1..n} = OfSet(f, g, s)
      <3>1. OfSet(f, g, s) = {i \in 1..N : SetOf(g, f[i]) = s}
        BY DEF OfSet
      <3> QED
        BY <1>1, <3>1
    <2>3. {i \in 1..N : SetOf(g, f[i]) \notin T \ {s}} = Out \cup OfSet(f, g, s)
      BY <1>12 DEF OfSet
    <2> QED
      BY <1>3, <2>1, <2>2, <2>3
  <1>13. rows[idx] \notin AnsweredIn(f, g, T, idx - 1)
    BY <1>5, <1>6, <1>7
  <1> QED
    BY <1>5, <1>8, <1>10, <1>13 DEF rows, s

\* A level after one more answer.
Answers(next, lev, i, row) ==
    /\ next.accesses = [lev.accesses EXCEPT ![i] = row]
    /\ next.hits = lev.hits + One(row.outcome = "Hit")
    /\ next.cold_misses = lev.cold_misses + One(row.outcome = "ColdMiss")
    /\ next.replacement_misses =
          lev.replacement_misses + One(row.outcome = "ReplacementMiss")
    /\ next.histogram = Counted(lev.histogram, row.distance)

\* The answer of the next line, and the counts with it.
LEMMA LineAnswered ==
    ASSUME NEW N \in Nat, NEW f \in [1..N -> Nat], NEW g, IsGeometry(g),
           NEW D \in SUBSET (1..N), NEW i, i \in 1..N, i \notin D,
           NEW lev, DOMAIN lev.accesses = 1..N,
           \A j \in D : lev.accesses[j] = Rows(f, g)[j], CountsMatch(lev, Rows(f, g), D),
           NEW next, Answers(next, lev, i, RowAt(f, g, i))
    PROVE  /\ DOMAIN next.accesses = 1..N
           /\ \A j \in D \cup {i} : next.accesses[j] = Rows(f, g)[j]
           /\ CountsMatch(next, Rows(f, g), D \cup {i})
  <1> DEFINE row == Rows(f, g)
  <1>1. IsRow(row[i]) /\ row[i] = RowAt(f, g, i)
    BY RowCases DEF IsGeometry
  <1>0. IsFiniteSet(D)
    <2>1. IsFiniteSet(1..N) /\ D \subseteq 1..N
      BY FS_Interval
    <2> QED
      BY <2>1, FS_Subset
  <1> HIDE DEF row
  <1>2. CountsMatch(lev, row, D)
    BY DEF row
  <1>3. /\ next.accesses = [lev.accesses EXCEPT ![i] = row[i]]
        /\ next.hits = lev.hits + One(row[i].outcome = "Hit")
        /\ next.cold_misses = lev.cold_misses + One(row[i].outcome = "ColdMiss")
        /\ next.replacement_misses =
              lev.replacement_misses + One(row[i].outcome = "ReplacementMiss")
        /\ next.histogram = Counted(lev.histogram, row[i].distance)
    BY <1>1 DEF Answers
  <1>4. CountsMatch(next, row, D \cup {i})
    BY <1>1, <1>2, <1>3, <1>0, CountsGrow
  <1>5. DOMAIN next.accesses = 1..N
    BY <1>3
  <1>6. \A j \in D \cup {i} : next.accesses[j] = row[j]
    <2>1. next.accesses[i] = row[i]
      BY <1>3
    <2>2. ASSUME NEW j \in D, j # i PROVE next.accesses[j] = row[j]
      <3>1. lev.accesses[j] = row[j]
        BY DEF row
      <3>2. j \in 1..N /\ next.accesses[j] = lev.accesses[j]
        BY <1>3, <2>2
      <3> QED
        BY <3>1, <3>2
    <2> QED
      BY <2>1, <2>2
  <1> QED
    BY <1>4, <1>5, <1>6 DEF row

\* A set is about to begin.
LEMMA LevelTurns ==
    ASSUME NEW N \in Nat, NEW f \in [1..N -> Nat], NEW g, IsGeometry(g),
           NEW T, T \subseteq SetsOf(f, g), NEW lev, DOMAIN lev.accesses = 1..N,
           \A i \in AnsweredIn(f, g, T, 0) : lev.accesses[i] = Rows(f, g)[i],
           CountsMatch(lev, Rows(f, g), AnsweredIn(f, g, T, 0)), NEW pos
    PROVE  LevelInv(f, g, T, 1, pos, NoneSeen, lev)
  <1> DEFINE s == Smallest(T)
             rows == SetRows(f, g, s)
  <1>1. ASSUME T # {}
        PROVE  SetInv(f, g, s, 1, TreeAt(f, g, s, 1, pos), NoneSeen)
    <2>1. OfSet(f, g, s) # {}
      BY <1>1, SmallestIsIn
    <2> HIDE DEF s
    <2>2. SetInv(f, g, s, 1, EmptyTree(Len(rows)), NoneSeen)
      BY <2>1, SetBegins
    <2> QED
      BY <2>2 DEF TreeAt
  <1>2. 1 - 1 = 0
    OBVIOUS
  <1> QED
    BY <1>1, <1>2 DEF LevelInv

\* Where a level with sets to do stands.
LEMMA LevelStands ==
    ASSUME NEW N \in Nat, NEW f \in [1..N -> Nat], NEW g, IsGeometry(g),
           NEW T, T # {}, NEW idx, NEW pos, NEW last,
           NEW lev, LevelInv(f, g, T, idx, pos, last, lev)
    PROVE  LET s == Smallest(T)
               rows == SetRows(f, g, s)
               D == AnsweredIn(f, g, T, idx - 1)
           IN  /\ T \subseteq SetsOf(f, g) /\ s \in T /\ idx \in 1..Len(rows)
               /\ SetInv(f, g, s, idx, TreeAt(f, g, s, idx, pos), last)
               /\ DOMAIN lev.accesses = 1..N
               /\ \A j \in D : lev.accesses[j] = Rows(f, g)[j]
               /\ CountsMatch(lev, Rows(f, g), D)
               /\ D \subseteq 1..N /\ rows[idx] \in 1..N /\ rows[idx] \notin D
               /\ idx = Len(rows) => AnsweredIn(f, g, T \ {s}, 0) = D \cup {rows[idx]}
  <1> DEFINE s == Smallest(T)
             rows == SetRows(f, g, s)
             D == AnsweredIn(f, g, T, idx - 1)
  <1>1. /\ T \subseteq SetsOf(f, g)
        /\ SetInv(f, g, s, idx, TreeAt(f, g, s, idx, pos), last)
        /\ DOMAIN lev.accesses = 1..N
        /\ \A j \in D : lev.accesses[j] = Rows(f, g)[j]
        /\ CountsMatch(lev, Rows(f, g), D)
    BY DEF LevelInv
  <1>2. s \in T
    BY <1>1, SmallestIsIn
  <1>3. idx \in 1..Len(rows)
    BY <1>1 DEF SetInv
  <1>4. D \subseteq 1..N /\ rows[idx] \in 1..N /\ rows[idx] \notin D
    BY <1>2, <1>3, AnsweredGrows
  <1>5. idx = Len(rows) => AnsweredIn(f, g, T \ {s}, 0) = D \cup {rows[idx]}
    BY <1>2, <1>3, AnsweredGrows
  <1> QED
    BY <1>1, <1>2, <1>3, <1>4, <1>5

LEMMA LineDistance ==
    ASSUME MaxLines \in Nat, NEW N \in 0..MaxLines, NEW f \in [1..N -> Nat], NEW g,
           IsGeometry(g), NEW T, T # {}, NEW idx, NEW pos, NEW last,
           NEW lev, LevelInv(f, g, T, idx, pos, last, lev)
    PROVE  LET s == Smallest(T)
               i == SetRows(f, g, s)[idx]
           IN  DistanceAt(f, g, i) = Told(TreeAt(f, g, s, idx, pos), last, f[i], idx)
  <1> DEFINE s == Smallest(T)
             tree == TreeAt(f, g, s, idx, pos)
  <1>1. N \in Nat
    OBVIOUS
  <1>2. SetInv(f, g, s, idx, tree, last)
    BY <1>1, LevelStands
  <1> HIDE DEF s, tree
  <1>3. DistanceAt(f, g, SetRows(f, g, s)[idx])
           = Told(tree, last, f[SetRows(f, g, s)[idx]], idx)
    BY <1>2, NewerIsDistance
  <1> QED
    BY <1>3 DEF s, tree

\* Where one more line leaves the level.
Advances(f, g, T, idx, pos, last, next, later) ==
    LET s == Smallest(T)
        rows == SetRows(f, g, s)
        b == f[rows[idx]]
    IN  /\ idx = Len(rows) => LevelInv(f, g, T \ {s}, 1, later, NoneSeen, next)
        /\ idx # Len(rows) =>
              LevelInv(f, g, T, idx + 1, Grown(TreeAt(f, g, s, idx, pos), last, b, idx),
                       Seen(last, b, idx), next)

LEMMA LineAnalyzed ==
    ASSUME MaxLines \in Nat, NEW N \in 0..MaxLines, NEW f \in [1..N -> Nat], NEW g,
           IsGeometry(g), NEW T, T # {}, NEW idx, NEW pos, NEW last,
           NEW lev, LevelInv(f, g, T, idx, pos, last, lev), NEW next, NEW later,
           Answers(next, lev, SetRows(f, g, Smallest(T))[idx],
                   RowAt(f, g, SetRows(f, g, Smallest(T))[idx]))
    PROVE  Advances(f, g, T, idx, pos, last, next, later)
  <1> DEFINE s == Smallest(T)
             rows == SetRows(f, g, s)
             i == rows[idx]
             b == f[i]
             tree == TreeAt(f, g, s, idx, pos)
             D == AnsweredIn(f, g, T, idx - 1)
             grown == Grown(tree, last, b, idx)
             seen == Seen(last, b, idx)
  <1>0. N \in Nat
    OBVIOUS
  <1>1. T \subseteq SetsOf(f, g) /\ SetInv(f, g, s, idx, tree, last)
    BY <1>0, LevelStands
  <1>2. /\ DOMAIN lev.accesses = 1..N
        /\ \A j \in D : lev.accesses[j] = Rows(f, g)[j]
        /\ CountsMatch(lev, Rows(f, g), D)
    BY DEF LevelInv
  <1>3. s \in T /\ idx \in 1..Len(rows)
    BY <1>0, LevelStands
  <1>4. D \subseteq 1..N /\ i \in 1..N /\ i \notin D
    BY <1>0, LevelStands
  <1>8. AnsweredIn(f, g, T, idx) = D \cup {i}
    <2>1. Len(rows) \in 0..N
      BY <1>0, SetRowsFacts
    <2>2. idx \in Nat \ {0}
      <3> HIDE DEF rows
      <3> QED
        BY <1>0, <1>3, <2>1
    <2> QED
      BY <2>2, AnsweredNext
  <1>9. idx = Len(rows) => AnsweredIn(f, g, T \ {s}, 0) = D \cup {i}
    BY <1>0, LevelStands
  <1>5. Answers(next, lev, i, RowAt(f, g, i))
    OBVIOUS
  <1> HIDE DEF s, tree, D
  <1>6. ASSUME idx # Len(rows) PROVE SetInv(f, g, s, idx + 1, grown, seen)
    BY <1>0, <1>1, <1>6, SetGoesOn
  <1> HIDE DEF rows, i, grown, seen
  <1>7. /\ idx = Len(rows) => LevelInv(f, g, T \ {s}, 1, later, NoneSeen, next)
        /\ idx # Len(rows) => LevelInv(f, g, T, idx + 1, grown, seen, next)
    <2>1. /\ DOMAIN next.accesses = 1..N
          /\ \A j \in D \cup {i} : next.accesses[j] = Rows(f, g)[j]
          /\ CountsMatch(next, Rows(f, g), D \cup {i})
      <3>1. D \in SUBSET (1..N) /\ i \in 1..N /\ i \notin D
        BY <1>4
      <3> QED
        BY <1>0, <1>2, <1>5, <3>1, LineAnswered
    <2>2. ASSUME idx = Len(rows)
          PROVE  LevelInv(f, g, T \ {s}, 1, later, NoneSeen, next)
      <3> DEFINE U == T \ {s}
      <3>1. U \subseteq SetsOf(f, g) /\ AnsweredIn(f, g, U, 0) = D \cup {i}
        BY <1>1, <1>9, <2>2
      <3> HIDE DEF U
      <3>2. LevelInv(f, g, U, 1, later, NoneSeen, next)
        BY <1>0, <2>1, <3>1, LevelTurns
      <3> QED
        BY <3>2 DEF U
    <2>3. ASSUME idx # Len(rows) PROVE LevelInv(f, g, T, idx + 1, grown, seen, next)
      <3>1. AnsweredIn(f, g, T, (idx + 1) - 1) = D \cup {i} /\ idx + 1 # 1
        BY <1>3, <1>8, <2>3
      <3>2. SetInv(f, g, s, idx + 1,
                   TreeAt(f, g, s, idx + 1, grown), seen)
        BY <1>6, <2>3, <3>1 DEF TreeAt
      <3> QED
        BY <1>1, <2>1, <3>1, <3>2 DEF LevelInv, s, rows
    <2> QED
      BY <2>2, <2>3
  <1> QED
    BY <1>7 DEF Advances, s, rows, i, tree, grown, seen

-----------------------------------------------------------------------------
(* The steps of a level.                                                    *)

LEMMA Geometries == MaxLines \in Nat /\ IsGeometry(L1) /\ IsGeometry(LLC) /\ IsGeometry(Geometry)
  BY BatchAssumption DEF BatchAssumption, IsGeometry, Geometry

LevelAtWork == LevelInv(mappings, Geometry, todo, index, positions, last_seen, level)

LEMMA AnalyzeLineWorks ==
    ASSUME NEW N \in 0..MaxLines, mappings \in [1..N -> Nat], AnalyzeLine, LevelAtWork
    PROVE  LevelInv(mappings, Geometry, todo', index', positions', last_seen', level')
  <1> DEFINE g == Geometry
             s == Smallest(todo)
             rows == SetRows(mappings, g, s)
             i == rows[index]
             b == mappings[i]
             tree == TreeAt(mappings, g, s, index, positions)
             distance == Told(tree, last_seen, b, index)
  <1>1. todo # {} /\ stage \in {"L1", "LLC"}
    BY DEF AnalyzeLine
  <1>2. s = CurrentSet /\ rows = LinesOf(s)
    BY DEF Smallest, CurrentSet, LinesOf, SetRows, OfSet
  <1>3. tree = Tree
    BY <1>2 DEF TreeAt, Tree
  <1>4. Moved(b) = Grown(tree, last_seen, b, index)
    BY <1>3 DEF Moved, Grown
  <1>5. (IF b \in DOMAIN last_seen THEN {Newer(b)} ELSE {}) = distance
    BY <1>3 DEF Newer, Told
  <1> HIDE DEF tree
  <1>6. level' = Recorded(i, distance, OutcomeOf(distance, g))
    BY <1>2, <1>5 DEF AnalyzeLine
  <1>7. /\ index = Len(rows) =>
              todo' = todo \ {s} /\ index' = 1 /\ positions' = <<>> /\ last_seen' = NoneSeen
        /\ index # Len(rows) =>
              /\ todo' = todo /\ index' = index + 1 /\ positions' = Moved(b)
              /\ last_seen' = Seen(last_seen, b, index)
    BY <1>2 DEF AnalyzeLine, Seen, NoneSeen
  <1>8. IsGeometry(g) /\ MaxLines \in Nat
    BY Geometries
  <1>9. LevelInv(mappings, g, todo, index, positions, last_seen, level)
    BY DEF LevelAtWork
  <1> HIDE DEF g
  <1>10. DistanceAt(mappings, g, i) = distance
    BY <1>1, <1>8, <1>9, LineDistance DEF tree
  <1>11. Answers(level', level, i, RowAt(mappings, g, i))
    <2> HIDE DEF distance, i
    <2> QED
      BY <1>6, <1>10 DEF Recorded, Answers, RowAt
  <1>14. Advances(mappings, g, todo, index, positions, last_seen, level', positions')
    BY <1>1, <1>8, <1>9, <1>11, LineAnalyzed
  <1>12. ASSUME index = Len(rows)
         PROVE  LevelInv(mappings, g, todo \ {s}, 1, positions', NoneSeen, level')
    BY <1>12, <1>14 DEF Advances
  <1>13. ASSUME index # Len(rows)
         PROVE  LevelInv(mappings, g, todo, index + 1, Moved(b), Seen(last_seen, b, index),
                         level')
    BY <1>4, <1>13, <1>14 DEF Advances, tree
  <1> HIDE DEF s, rows, i, b
  <1> QED
    BY <1>7, <1>12, <1>13 DEF g

-----------------------------------------------------------------------------
(* What the counts of a finished level add up to.                           *)

LEMMA StreamingAgrees ==
    /\ Streaming!HierarchyAssumption
    /\ \A S : Streaming!IsFiniteSet(S) <=> IsFiniteSet(S)
    /\ \A f, s : Streaming!SumFunctionOnSet(f, s) = SumFunctionOnSet(f, s)
  <1>1. Streaming!HierarchyAssumption
    BY BatchAssumption DEF BatchAssumption, Streaming!HierarchyAssumption
  <1>2. \A S : Streaming!IsFiniteSet(S) <=> IsFiniteSet(S)
    BY DEF Streaming!IsFiniteSet, IsFiniteSet
  <1>3. \A f, s : Streaming!SumFunctionOnSet(f, s) = SumFunctionOnSet(f, s)
    BY DEF Streaming!SumFunctionOnSet, SumFunctionOnSet, Streaming!FoldFunctionOnSet,
           FoldFunctionOnSet, Streaming!MapThenFoldSet, MapThenFoldSet
  <1> QED
    BY <1>1, <1>2, <1>3

LEMMA DisjointUnion ==
    ASSUME NEW A, NEW B, IsFiniteSet(A), IsFiniteSet(B), A \cap B = {}
    PROVE  /\ IsFiniteSet(A \cup B) /\ Cardinality(A) \in Nat /\ Cardinality(B) \in Nat
           /\ Cardinality(A \cup B) = Cardinality(A) + Cardinality(B)
  <1>1. IsFiniteSet(A \cup B) /\ Cardinality(A) \in Nat /\ Cardinality(B) \in Nat
    BY FS_Union, FS_CardinalityType
  <1>2. Cardinality(A \cup B) = Cardinality(A) + Cardinality(B) - Cardinality(A \cap B)
    BY FS_Union
  <1>3. Cardinality(A \cap B) = 0
    BY FS_EmptySet
  <1> QED
    BY <1>1, <1>2, <1>3

\* Every answer is one of the three outcomes.
LEMMA OutcomesAddUp ==
    ASSUME NEW D, IsFiniteSet(D), NEW row, \A i \in D : IsRow(row[i])
    PROVE  LET hits == Cardinality(Outcomes(row, D, "Hit"))
               cold == Cardinality(Outcomes(row, D, "ColdMiss"))
               moved == Cardinality(Outcomes(row, D, "ReplacementMiss"))
           IN  /\ hits \in Nat /\ cold \in Nat /\ moved \in Nat
               /\ hits + cold + moved = Cardinality(D)
               /\ Cardinality({i \in D : row[i].distance # {}}) = hits + moved
               /\ Cardinality({i \in D : row[i].outcome # "Hit"}) = cold + moved
  <1> DEFINE H == Outcomes(row, D, "Hit")
             C == Outcomes(row, D, "ColdMiss")
             R == Outcomes(row, D, "ReplacementMiss")
  <1>1. IsFiniteSet(H) /\ IsFiniteSet(C) /\ IsFiniteSet(R)
    <2>1. H \subseteq D /\ C \subseteq D /\ R \subseteq D
      BY DEF Outcomes
    <2> HIDE DEF H, C, R
    <2> QED
      BY <2>1, FS_Subset
  <1>2. H \cap R = {} /\ (H \cup R) \cap C = {} /\ C \cap R = {}
    BY DEF Outcomes
  <1>3. \A i \in D : /\ row[i].outcome \in {"Hit", "ColdMiss", "ReplacementMiss"}
                     /\ row[i].distance # {} <=> row[i].outcome # "ColdMiss"
    BY DEF IsRow
  <1>4. /\ (H \cup R) \cup C = D
        /\ {i \in D : row[i].distance # {}} = H \cup R
        /\ {i \in D : row[i].outcome # "Hit"} = C \cup R
    BY <1>3 DEF Outcomes
  <1> HIDE DEF H, C, R
  <1>5. /\ IsFiniteSet(H \cup R)
        /\ Cardinality(H) \in Nat /\ Cardinality(R) \in Nat
        /\ Cardinality(H \cup R) = Cardinality(H) + Cardinality(R)
    BY <1>1, <1>2, DisjointUnion
  <1>6. Cardinality(C \cup R) = Cardinality(C) + Cardinality(R) /\ Cardinality(C) \in Nat
    BY <1>1, <1>2, DisjointUnion
  <1>7. Cardinality(D) = Cardinality(H \cup R) + Cardinality(C)
    BY <1>1, <1>2, <1>4, <1>5, DisjointUnion
  <1>8. Cardinality(H) + Cardinality(C) + Cardinality(R) = Cardinality(D)
    BY <1>5, <1>6, <1>7
  <1>9. /\ Cardinality({i \in D : row[i].distance # {}}) = Cardinality(H) + Cardinality(R)
        /\ Cardinality({i \in D : row[i].outcome # "Hit"}) = Cardinality(C) + Cardinality(R)
    BY <1>4, <1>5, <1>6
  <1> QED
    BY <1>5, <1>6, <1>8, <1>9 DEF H, C, R

\* A histogram of distances sums to the answers that have one.
LEMMA HistogramAddsUp ==
    ASSUME NEW D, IsFiniteSet(D), NEW row, \A i \in D : IsRow(row[i]),
           NEW h, h = [d \in Distances(row, D) |-> Cardinality(AtDistance(row, D, d))]
    PROVE  SumFunction(h) = Cardinality({i \in D : row[i].distance # {}})
  <1> DEFINE X == Distances(row, D)
             Within(r) == {i \in D : row[i].distance \cap r # {}}
             F == {r \in SUBSET X : SumFunctionOnSet(h, r) # Cardinality(Within(r))}
  <1>1. \A i \in D : row[i].distance = {} \/ \E d \in Nat : row[i].distance = {d}
    BY DEF IsRow
  <1>2. IsFiniteSet(X)
    <2> DEFINE S == {row[i].distance : i \in D}
    <2>1. [i \in D |-> row[i].distance] \in Surjection(D, S)
      BY DEF Surjection
    <2>2. IsFiniteSet(S)
      <3> HIDE DEF S
      <3> QED
        BY <2>1, FS_Surjection
    <2>3. \A d : IsFiniteSet({d})
      BY FS_Singleton
    <2>4. \A s \in S : IsFiniteSet(s)
      BY <1>1, <2>3, FS_EmptySet
    <2>5. X = UNION S
      BY DEF Distances
    <2> HIDE DEF S, X
    <2> QED
      BY <2>2, <2>4, <2>5, FS_UNION
  <1>3. \A d \in X : h[d] = Cardinality(AtDistance(row, D, d)) /\ h[d] \in Nat
    <2>1. \A d : AtDistance(row, D, d) \subseteq D
      BY DEF AtDistance
    <2>2. \A d : Cardinality(AtDistance(row, D, d)) \in Nat
      BY <2>1, FS_Subset, FS_CardinalityType
    <2> QED
      BY <2>2
  <1>4. DOMAIN h = X
    OBVIOUS
  <1>5. ASSUME F # {} PROVE FALSE
    <2>1. \A r \in SUBSET X : IsFiniteSet(r)
      BY <1>2, FS_Subset
    <2>2. PICK r \in F : \A q \in F : q \subseteq r => q = r
      <3>1. \A q \in F : Streaming!IsFiniteSet(q)
        BY <2>1, StreamingAgrees
      <3> HIDE DEF F
      <3> QED
        BY <1>5, <3>1, StreamingAgrees, Streaming!SmallestSet
    <2>3. r \in SUBSET X /\ SumFunctionOnSet(h, r) # Cardinality(Within(r))
      OBVIOUS
    <2>4. r # {}
      <3>1. Within({}) = {}
        OBVIOUS
      <3>2. SumFunctionOnSet(h, {}) = 0
        BY StreamingAgrees, Streaming!SumOfNone
      <3> HIDE DEF Within
      <3> QED
        BY <2>3, <3>1, <3>2, FS_EmptySet
    <2>5. PICK d \in r : TRUE
      BY <2>4
    <2> DEFINE q == r \ {d}
    <2>6. SumFunctionOnSet(h, q) = Cardinality(Within(q))
      <3>1. q \notin F /\ q \in SUBSET X
        BY <2>2, <2>3, <2>5
      <3> QED
        BY <3>1
    <2>7. SumFunctionOnSet(h, r) = h[d] + SumFunctionOnSet(h, q)
      <3>1. IsFiniteSet(r) /\ \A i \in r : h[i] \in Nat
        BY <1>3, <2>1, <2>3
      <3> HIDE DEF F, X
      <3> QED
        BY <2>5, <3>1, StreamingAgrees, Streaming!SumWithout
    <2> DEFINE A == AtDistance(row, D, d)
    <2>8. Within(r) = A \cup Within(q) /\ A \cap Within(q) = {}
      <3>1. A \cap Within(q) = {}
        BY <1>1 DEF AtDistance
      <3>2. Within(r) = A \cup Within(q)
        BY <1>1, <2>5 DEF AtDistance
      <3> QED
        BY <3>1, <3>2
    <2>9. IsFiniteSet(A) /\ IsFiniteSet(Within(q))
      BY FS_Subset DEF AtDistance
    <2>10. h[d] = Cardinality(A)
      BY <1>3, <2>3, <2>5
    <2> HIDE DEF A, q, Within, F, X
    <2>11. /\ Cardinality(A \cup Within(q)) = Cardinality(A) + Cardinality(Within(q))
      BY <2>8, <2>9, DisjointUnion
    <2> QED
      BY <2>3, <2>6, <2>7, <2>8, <2>10, <2>11
  <1>6. Within(X) = {i \in D : row[i].distance # {}}
    BY <1>1 DEF Distances
  <1>7. SumFunctionOnSet(h, X) = Cardinality(Within(X))
    BY <1>5
  <1>8. SumFunction(h) = SumFunctionOnSet(h, X)
    BY <1>4 DEF SumFunction, SumFunctionOnSet
  <1> HIDE DEF X, Within
  <1> QED
    BY <1>6, <1>7, <1>8

\* Each line is cold once, at its first visit.
LEMMA ColdCountsLines ==
    ASSUME NEW N \in Nat, NEW f \in [1..N -> Nat], NEW g, IsGeometry(g)
    PROVE  Cardinality(Range(f)) = Cardinality(Outcomes(Rows(f, g), 1..N, "ColdMiss"))
  <1> DEFINE C == Outcomes(Rows(f, g), 1..N, "ColdMiss")
             first == [i \in C |-> f[i]]
  <1>1. \A i \in 1..N : i \in C <=> ~ \E j \in 1..i - 1 : f[j] = f[i]
    <2> SUFFICES ASSUME NEW i \in 1..N
                 PROVE  i \in C <=> ~ \E j \in 1..i - 1 : f[j] = f[i]
      OBVIOUS
    <2>1. Rows(f, g)[i].outcome = "ColdMiss" <=> ~ \E j \in 1..i - 1 : f[j] = f[i]
      BY RowCases DEF IsGeometry
    <2> QED
      BY <2>1 DEF Outcomes
  <1>2. C \subseteq 1..N
    BY DEF Outcomes
  <1> HIDE DEF C
  <1>3. IsFiniteSet(C)
    <2>1. IsFiniteSet(1..N)
      BY FS_Interval
    <2> QED
      BY <1>2, <2>1, FS_Subset
  <1>4. Range(f) = {f[i] : i \in 1..N}
    BY DEF Range
  <1>5. first \in [C -> Range(f)]
    BY <1>2, <1>4
  <1>6. ASSUME NEW i \in C, NEW j \in C, f[i] = f[j], i < j PROVE FALSE
    <2>1. i \in 1..j - 1 /\ j \in 1..N
      BY <1>2, <1>6
    <2> QED
      BY <1>1, <1>6, <2>1
  <1>7. \A i, j \in C : first[i] = first[j] => i = j
    <2> SUFFICES ASSUME NEW i \in C, NEW j \in C, f[i] = f[j], i # j PROVE FALSE
      OBVIOUS
    <2>1. i < j \/ j < i
      BY <1>2
    <2> QED
      BY <1>6, <2>1
  <1>8. ASSUME NEW y \in Range(f) PROVE \E i \in C : first[i] = y
    <2> DEFINE V == {i \in 1..N : f[i] = y}
    <2>1. V \in SUBSET Nat /\ V # {}
      BY <1>4
    <2>2. PICK i \in V : \A m \in V : i <= m
      <3> HIDE DEF V
      <3> QED
        BY <2>1, SmallestNumber
    <2>3. i \in 1..N /\ f[i] = y
      OBVIOUS
    <2>4. ASSUME NEW j \in 1..i - 1, f[j] = f[i] PROVE FALSE
      <3>1. j \in V /\ j < i
        BY <2>3, <2>4
      <3> QED
        BY <2>2, <2>3, <3>1
    <2>5. i \in C
      BY <1>1, <2>3, <2>4
    <2> QED
      BY <2>3, <2>5
  <1>9. first \in Bijection(C, Range(f))
    BY <1>5, <1>7, <1>8 DEF Bijection, Injection, Surjection, IsInjective
  <1>10. ExistsBijection(C, Range(f))
    BY <1>9 DEF ExistsBijection
  <1>11. Cardinality(C) = Cardinality(Range(f))
    BY <1>3, <1>10, FS_Bijection
  <1> QED
    BY <1>11 DEF C

\* A level that has answered all of its references.
Completed(f, g, lev) ==
    /\ DOMAIN lev.accesses = DOMAIN f
    /\ \A i \in DOMAIN f : lev.accesses[i] = Rows(f, g)[i]
    /\ CountsMatch(lev, Rows(f, g), DOMAIN f)

LEMMA LevelCompletes ==
    ASSUME NEW N \in Nat, NEW f \in [1..N -> Nat], NEW g, NEW idx, NEW pos, NEW last,
           NEW lev, LevelInv(f, g, {}, idx, pos, last, lev)
    PROVE  Completed(f, g, lev)
  <1>1. AnsweredIn(f, g, {}, idx - 1) = DOMAIN f
    BY DEF AnsweredIn
  <1> QED
    BY <1>1 DEF LevelInv, Completed

\* What its counts come to.
AddsUp(f, g, lev, N) ==
    /\ lev.hits \in Nat /\ lev.cold_misses \in Nat /\ lev.replacement_misses \in Nat
    /\ lev.hits + lev.cold_misses + lev.replacement_misses = N
    /\ SumFunction(lev.histogram) = lev.hits + lev.replacement_misses
    /\ Cardinality(Range(f)) = lev.cold_misses
    /\ Cardinality({i \in 1..N : Rows(f, g)[i].outcome # "Hit"})
          = lev.cold_misses + lev.replacement_misses

LEMMA CompletedAddsUp ==
    ASSUME NEW N \in Nat, NEW f \in [1..N -> Nat], NEW g, IsGeometry(g),
           NEW lev, Completed(f, g, lev)
    PROVE  AddsUp(f, g, lev, N)
  <1> DEFINE row == Rows(f, g)
             D == 1..N
             h == lev.histogram
  <1>1. /\ lev.hits = Cardinality(Outcomes(row, D, "Hit"))
        /\ lev.cold_misses = Cardinality(Outcomes(row, D, "ColdMiss"))
        /\ lev.replacement_misses = Cardinality(Outcomes(row, D, "ReplacementMiss"))
        /\ h = [d \in Distances(row, D) |-> Cardinality(AtDistance(row, D, d))]
    BY DEF Completed, CountsMatch
  <1>2. \A i \in D : IsRow(row[i])
    BY RowCases DEF IsGeometry
  <1>3. IsFiniteSet(D) /\ Cardinality(D) = N
    BY FS_Interval
  <1>4. Cardinality(Range(f)) = lev.cold_misses
    BY <1>1, ColdCountsLines
  <1> HIDE DEF row, D, h
  <1>5. SumFunction(h) = Cardinality({i \in D : row[i].distance # {}})
    BY <1>1, <1>2, <1>3, HistogramAddsUp, SMTT(30)
  <1>6. /\ lev.hits \in Nat /\ lev.cold_misses \in Nat /\ lev.replacement_misses \in Nat
        /\ lev.hits + lev.cold_misses + lev.replacement_misses = Cardinality(D)
        /\ Cardinality({i \in D : row[i].distance # {}}) = lev.hits + lev.replacement_misses
        /\ Cardinality({i \in D : row[i].outcome # "Hit"})
              = lev.cold_misses + lev.replacement_misses
    <2> DEFINE hits == Cardinality(Outcomes(row, D, "Hit"))
               cold == Cardinality(Outcomes(row, D, "ColdMiss"))
               moved == Cardinality(Outcomes(row, D, "ReplacementMiss"))
    <2>1. /\ hits \in Nat /\ cold \in Nat /\ moved \in Nat
          /\ hits + cold + moved = Cardinality(D)
      BY <1>2, <1>3, OutcomesAddUp
    <2>2. /\ Cardinality({i \in D : row[i].distance # {}}) = hits + moved
          /\ Cardinality({i \in D : row[i].outcome # "Hit"}) = cold + moved
      BY <1>2, <1>3, OutcomesAddUp
    <2>3. lev.hits = hits /\ lev.cold_misses = cold /\ lev.replacement_misses = moved
      BY <1>1
    <2> HIDE DEF hits, cold, moved
    <2> QED
      BY <2>1, <2>2, <2>3
  <1> QED
    BY <1>3, <1>4, <1>5, <1>6 DEF row, D, h, AddsUp

\* A level that starts has answered nothing.
LEMMA LevelStarts ==
    ASSUME NEW N \in Nat, NEW f \in [1..N -> Nat], NEW g, IsGeometry(g)
    PROVE  LevelInv(f, g, SetsOf(f, g), 1, <<>>, NoneSeen, Pending(N))
  <1> DEFINE T == SetsOf(f, g)
             lev == Pending(N)
  <1>1. AnsweredIn(f, g, T, 0) = {}
    BY DEF AnsweredIn, SetsOf
  <1>2. DOMAIN lev.accesses = 1..N
    BY DEF Pending
  <1>3. lev.hits = 0 /\ lev.cold_misses = 0 /\ lev.replacement_misses = 0
        /\ lev.histogram = [d \in {} |-> 0]
    BY DEF Pending
  <1> HIDE DEF T, lev
  <1>4. CountsMatch(lev, Rows(f, g), {})
    BY <1>3, CountsOfNone
  <1>5. CountsMatch(lev, Rows(f, g), AnsweredIn(f, g, T, 0))
    BY <1>1, <1>4
  <1>6. \A i \in AnsweredIn(f, g, T, 0) : lev.accesses[i] = Rows(f, g)[i]
    BY <1>1
  <1>7. T \subseteq SetsOf(f, g)
    BY DEF T
  <1>8. LevelInv(f, g, T, 1, <<>>, NoneSeen, lev)
    BY <1>2, <1>5, <1>6, <1>7, LevelTurns
  <1> QED
    BY <1>8 DEF T, lev

\* The checks of a finished level do not fire.
LEMMA ChecksHold ==
    ASSUME NEW N \in Nat, mappings \in [1..N -> Nat], Completed(mappings, Geometry, level)
    PROVE  LevelChecks
  <1> DEFINE g == Geometry
  <1>1. IsGeometry(g)
    BY Geometries
  <1>2. Completed(mappings, g, level)
    OBVIOUS
  <1> HIDE DEF g
  <1>3. AddsUp(mappings, g, level, N)
    BY <1>1, <1>2, CompletedAddsUp
  <1>4. Len(mappings) = N
    BY Listed
  <1> QED
    BY <1>3, <1>4 DEF LevelChecks, AddsUp

\* What a finished L1 forwards.
LEMMA Forwards ==
    ASSUME NEW N \in Nat, trace \in [1..N -> Nat], mappings = trace,
           Completed(trace, L1, level)
    PROVE  /\ ForwardedRows = Ascending(Misses(trace))
           /\ Len(ForwardedRows) = Cardinality(Misses(trace))
           /\ [j \in 1..Len(ForwardedRows) |-> mappings[ForwardedRows[j]]] = Lower(trace)
           /\ Len(Lower(trace)) = Cardinality(Misses(trace))
  <1>1. {i \in DOMAIN mappings : level.accesses[i].outcome # "Hit"} = Misses(trace)
    BY DEF Completed, Misses
  <1>2. ForwardedRows = Ascending(Misses(trace))
    BY <1>1 DEF ForwardedRows
  <1>3. /\ Cardinality(Misses(trace)) \in Nat
        /\ Ascending(Misses(trace)) \in [1..Cardinality(Misses(trace)) -> Misses(trace)]
        /\ Lower(trace) \in [1..Cardinality(Misses(trace)) -> Nat]
    BY MissesFacts
  <1>4. Len(ForwardedRows) = Cardinality(Misses(trace))
    BY <1>2, <1>3, Listed
  <1>5. Len(Lower(trace)) = Cardinality(Misses(trace))
    BY <1>3, Listed
  <1> QED
    BY <1>2, <1>4, <1>5 DEF Lower

-----------------------------------------------------------------------------
(* The inductive invariant: what is known at each stage of a task.          *)

LinesKnown == Len(trace) \in 0..MaxLines /\ trace \in [1..Len(trace) -> Nat]

L1Known ==
    /\ Completed(trace, L1, l1)
    /\ forwarded = Ascending(Misses(trace))
    /\ mappings = Lower(trace)

\* The first n lines have been paired.
Paired(n) ==
    /\ events = [i \in 1..n |-> EventAt(trace, i)]
    /\ llc_index = Reached(trace, n)

TaskInv ==
    /\ LinesKnown
    /\ stage \in {"L1", "LLC", "pair", "done"}
    /\ stage = "L1" => mappings = trace
    /\ stage # "L1" => L1Known
    /\ stage \in {"L1", "LLC"} => LevelAtWork /\ events = <<>> /\ llc_index = 0
    /\ stage \in {"pair", "done"} => Completed(mappings, LLC, level)
    /\ stage = "pair" => \E n \in 0..Len(trace) : Paired(n)
    /\ stage = "done" => Paired(Len(trace))

\* The level at work has at most MaxLines lines.
LEMMA LinesOfLevel ==
    ASSUME TaskInv
    PROVE  \E N \in 0..MaxLines : mappings \in [1..N -> Nat]
  <1>1. Len(trace) \in 0..MaxLines /\ trace \in [1..Len(trace) -> Nat] /\ MaxLines \in Nat
    BY Geometries DEF TaskInv, LinesKnown
  <1>2. CASE stage = "L1"
    BY <1>1, <1>2 DEF TaskInv
  <1>3. CASE stage # "L1"
    <2>1. Len(trace) \in Nat
      BY <1>1
    <2>2. Cardinality(Misses(trace)) \in 0..Len(trace)
      BY <1>1, <2>1, MissesFacts
    <2>3. Lower(trace) \in [1..Cardinality(Misses(trace)) -> Nat]
      BY <1>1, <2>1, MissesFacts
    <2>4. Cardinality(Misses(trace)) \in 0..MaxLines
      BY <1>1, <2>2
    <2> QED
      BY <1>3, <2>3, <2>4 DEF TaskInv, L1Known
  <1> QED
    BY <1>2, <1>3

LEMMA TaskInit == Init => TaskInv
  <1> SUFFICES ASSUME Init PROVE TaskInv
    OBVIOUS
  <1>1. PICK n \in 0..MaxLines : trace \in [1..n -> Blocks]
    BY DEF Init
  <1>2. n \in Nat /\ n \in 0..MaxLines /\ trace \in [1..n -> Nat]
    <2>1. Blocks \subseteq Nat
      BY BatchAssumption DEF BatchAssumption
    <2>2. trace \in [1..n -> Nat]
      BY <1>1, <2>1
    <2> QED
      BY <1>1, <2>2, Geometries
  <1>3. Len(trace) = n
    BY <1>2, Listed
  <1>4. LinesKnown
    BY <1>2, <1>3 DEF LinesKnown
  <1>5. IsGeometry(L1)
    BY Geometries
  <1>6. LevelInv(trace, L1, SetsOf(trace, L1), 1, <<>>, NoneSeen, Pending(n))
    BY <1>2, <1>5, LevelStarts
  <1>7. LevelAtWork
    BY <1>3, <1>6 DEF Init, LevelAtWork, Geometry, NoneSeen
  <1> QED
    BY <1>4, <1>7 DEF Init, TaskInv

LEMMA TaskAnalyzes ==
    ASSUME TaskInv, AnalyzeLine
    PROVE  TaskInv'
  <1>1. PICK N \in 0..MaxLines : mappings \in [1..N -> Nat]
    BY LinesOfLevel
  <1>2. stage \in {"L1", "LLC"} /\ UNCHANGED <<trace, stage, mappings, forwarded, l1, events, llc_index>>
    BY DEF AnalyzeLine
  <1>3. LevelAtWork
    BY <1>2 DEF TaskInv
  <1>4. LevelInv(mappings, Geometry, todo', index', positions', last_seen', level')
    BY <1>1, <1>3, AnalyzeLineWorks
  <1>5. Geometry' = Geometry
    BY <1>2 DEF Geometry
  <1>6. LevelAtWork'
    BY <1>2, <1>4, <1>5 DEF LevelAtWork
  <1>7. LinesKnown'
    BY <1>2 DEF TaskInv, LinesKnown
  <1>8. stage # "L1" => L1Known'
    BY <1>2 DEF TaskInv, L1Known
  <1> QED
    BY <1>2, <1>6, <1>7, <1>8 DEF TaskInv

LEMMA TaskFinishesL1 ==
    ASSUME TaskInv, FinishL1
    PROVE  TaskInv'
  <1> DEFINE N == Len(trace)
             lower == Lower(trace)
             n == Cardinality(Misses(trace))
  <1>1. N \in Nat /\ trace \in [1..N -> Nat] /\ LinesKnown
    BY Geometries DEF TaskInv, LinesKnown
  <1>2. stage = "L1" /\ todo = {} /\ UNCHANGED <<trace, events, llc_index>>
    BY DEF FinishL1
  <1>3. mappings = trace /\ LevelAtWork /\ events = <<>> /\ llc_index = 0 /\ Geometry = L1
    BY <1>2 DEF TaskInv, Geometry
  <1>4. LevelInv(trace, L1, {}, index, positions, last_seen, level)
    BY <1>2, <1>3 DEF LevelAtWork
  <1>5. Completed(trace, L1, level)
    BY <1>1, <1>4, LevelCompletes
  <1>6. LevelChecks
    BY <1>1, <1>3, <1>5, ChecksHold
  <1>7. /\ ForwardedRows = Ascending(Misses(trace))
        /\ [j \in 1..Len(ForwardedRows) |-> mappings[ForwardedRows[j]]] = lower
        /\ Len(lower) = n
    BY <1>1, <1>3, <1>5, Forwards
  <1>8. /\ l1' = level /\ forwarded' = Ascending(Misses(trace)) /\ stage' = "LLC"
        /\ StartLevel(lower, LLC)
    BY <1>6, <1>7 DEF FinishL1
  <1>9. n \in Nat /\ lower \in [1..n -> Nat]
    <2>1. Cardinality(Misses(trace)) \in 0..N
      BY <1>1, MissesFacts
    <2>2. Lower(trace) \in [1..Cardinality(Misses(trace)) -> Nat]
      BY <1>1, MissesFacts
    <2> QED
      BY <1>1, <2>1, <2>2
  <1>10. IsGeometry(LLC)
    BY Geometries
  <1> HIDE DEF lower, n
  <1>11. LevelInv(lower, LLC, SetsOf(lower, LLC), 1, <<>>, NoneSeen, Pending(n))
    BY <1>9, <1>10, LevelStarts
  <1>12. /\ mappings' = lower /\ todo' = SetsOf(lower, LLC) /\ index' = 1
         /\ positions' = <<>> /\ last_seen' = NoneSeen /\ level' = Pending(n)
    BY <1>7, <1>8 DEF StartLevel, NoneSeen
  <1>13. Geometry' = LLC
    BY <1>8 DEF Geometry
  <1>14. LevelAtWork'
    BY <1>11, <1>12, <1>13 DEF LevelAtWork
  <1>15. L1Known'
    BY <1>2, <1>5, <1>8, <1>12 DEF L1Known, lower
  <1>16. LinesKnown'
    BY <1>1, <1>2 DEF LinesKnown
  <1> QED
    BY <1>2, <1>3, <1>8, <1>14, <1>15, <1>16 DEF TaskInv

LEMMA TaskFinishesLlc ==
    ASSUME TaskInv, FinishLlc
    PROVE  TaskInv'
  <1>1. PICK N \in 0..MaxLines : mappings \in [1..N -> Nat]
    BY LinesOfLevel
  <1>2. /\ stage = "LLC" /\ todo = {}
        /\ UNCHANGED <<trace, mappings, forwarded, level, l1, events, llc_index>>
    BY DEF FinishLlc
  <1>3. LevelAtWork /\ events = <<>> /\ llc_index = 0 /\ Geometry = LLC /\ L1Known /\ LinesKnown
    BY <1>2 DEF TaskInv, Geometry
  <1>4. N \in Nat
    BY <1>1, Geometries
  <1>5. LevelInv(mappings, LLC, {}, index, positions, last_seen, level)
    BY <1>2, <1>3 DEF LevelAtWork
  <1>6. Completed(mappings, LLC, level)
    BY <1>1, <1>4, <1>5, LevelCompletes
  <1>7. LevelChecks
    BY <1>1, <1>3, <1>4, <1>6, ChecksHold
  <1>8. stage' = "pair"
    BY <1>7 DEF FinishLlc
  <1>9. Paired(0) /\ 0 \in 0..Len(trace)
    <2>1. Len(trace) \in Nat /\ trace \in [1..Len(trace) -> Nat]
      BY <1>3, Geometries DEF LinesKnown
    <2>2. Reached(trace, 0) = 0
      <3>1. Misses(trace) \in SUBSET (1..Len(trace))
        BY <2>1, MissesFacts
      <3>2. {i \in Misses(trace) : i <= 0} = {}
        BY <2>1, <3>1
      <3> QED
        BY <3>2, FS_EmptySet DEF Reached
    <2>3. events = [i \in 1..0 |-> EventAt(trace, i)]
      BY <1>3
    <2> QED
      BY <1>3, <2>1, <2>2, <2>3 DEF Paired
  <1>10. Paired(0)' /\ LinesKnown' /\ L1Known' /\ Completed(mappings, LLC, level)'
    BY <1>2, <1>3, <1>6, <1>9 DEF Paired, LinesKnown, L1Known
  <1>11. 0 \in 0..Len(trace')
    BY <1>2, <1>9
  <1> QED
    BY <1>8, <1>10, <1>11 DEF TaskInv

\* One row paired.
LEMMA RowPaired ==
    ASSUME LinesKnown, NEW n, n \in 0..Len(trace) - 1, Paired(n),
           events' = Append(events, EventAt(trace, n + 1)),
           llc_index' = Reached(trace, n + 1), UNCHANGED trace
    PROVE  \E m \in 0..Len(trace) : Paired(m)'
  <1>1. Len(trace) \in Nat /\ n \in Nat /\ n + 1 \in 0..Len(trace)
    BY Geometries DEF LinesKnown
  <1> DEFINE S == {EventAt(trace, i) : i \in 1..n}
  <1>2. events = [i \in 1..n |-> EventAt(trace, i)]
    BY DEF Paired
  <1>3. events \in [1..n -> S]
    BY <1>2
  <1> HIDE DEF S
  <1>4. Append(events, EventAt(trace, n + 1))
           = [i \in 1..n + 1 |-> IF i = n + 1 THEN EventAt(trace, n + 1) ELSE events[i]]
    BY <1>1, <1>3, AppendListed
  <1>5. \A i \in 1..n + 1 : i # n + 1 => i \in 1..n
    BY <1>1
  <1>6. Append(events, EventAt(trace, n + 1)) = [i \in 1..n + 1 |-> EventAt(trace, i)]
    BY <1>2, <1>4, <1>5
  <1>7. Paired(n + 1)'
    BY <1>6 DEF Paired
  <1> QED
    BY <1>1, <1>7

LEMMA PairedLength ==
    ASSUME LinesKnown, NEW n, n \in 0..Len(trace), Paired(n)
    PROVE  Len(events) = n /\ n \in Nat /\ Len(trace) \in Nat
  <1>1. n \in Nat /\ Len(trace) \in Nat
    BY Geometries DEF LinesKnown
  <1> DEFINE S == {EventAt(trace, i) : i \in 1..n}
  <1>2. events = [i \in 1..n |-> EventAt(trace, i)]
    BY DEF Paired
  <1>3. events \in [1..n -> S]
    BY <1>2
  <1> HIDE DEF S
  <1> QED
    BY <1>1, <1>3, Listed

\* Where pairing stands: the next row is not beyond the trace.
LEMMA NextRow ==
    ASSUME TaskInv, stage = "pair", Row <= Len(trace)
    PROVE  \E n \in 0..Len(trace) - 1 :
              /\ Paired(n) /\ Row = n + 1
              /\ l1.accesses[n + 1] = Rows(trace, L1)[n + 1]
              /\ n + 1 \in Misses(trace) <=> l1.accesses[n + 1].outcome # "Hit"
  <1>1. LinesKnown /\ L1Known
    BY DEF TaskInv
  <1>2. PICK n \in 0..Len(trace) : Paired(n)
    BY DEF TaskInv
  <1>3. Len(events) = n /\ n \in Nat /\ Len(trace) \in Nat
    BY <1>1, <1>2, PairedLength
  <1>4. Row = n + 1
    BY <1>3 DEF Row
  <1>5. n \in 0..Len(trace) - 1 /\ n + 1 \in 1..Len(trace)
    BY <1>3, <1>4
  <1>6. DOMAIN trace = 1..Len(trace)
    BY <1>1 DEF LinesKnown
  <1>7. l1.accesses[n + 1] = Rows(trace, L1)[n + 1]
    BY <1>1, <1>5, <1>6 DEF L1Known, Completed
  <1>8. n + 1 \in Misses(trace) <=> l1.accesses[n + 1].outcome # "Hit"
    BY <1>5, <1>6, <1>7 DEF Misses
  <1> QED
    BY <1>2, <1>4, <1>5, <1>7, <1>8

\* What pairing leaves alone.
LEMMA PairingKeeps ==
    ASSUME TaskInv, stage = "pair", stage' = "pair",
           UNCHANGED <<trace, mappings, forwarded, level, l1>>,
           \E m \in 0..Len(trace) : Paired(m)'
    PROVE  TaskInv'
  <1>1. LinesKnown' /\ L1Known' /\ Completed(mappings, LLC, level)'
    BY DEF TaskInv, LinesKnown, L1Known
  <1>2. \E m \in 0..Len(trace') : Paired(m)'
    OBVIOUS
  <1> QED
    BY <1>1, <1>2 DEF TaskInv

LEMMA TaskPairsHit ==
    ASSUME TaskInv, PairHit
    PROVE  TaskInv'
  <1>1. /\ stage = "pair" /\ Row <= Len(trace) /\ l1.accesses[Row].outcome = "Hit"
        /\ events' = Append(events, [l1 |-> l1.accesses[Row], llc |-> {},
                                     first_service |-> "L1"])
        /\ UNCHANGED <<trace, stage, mappings, forwarded, level, l1, llc_index>>
    BY DEF PairHit
  <1>2. LinesKnown
    BY DEF TaskInv
  <1>3. PICK n \in 0..Len(trace) - 1 :
              /\ Paired(n) /\ Row = n + 1
              /\ l1.accesses[n + 1] = Rows(trace, L1)[n + 1]
              /\ n + 1 \in Misses(trace) <=> l1.accesses[n + 1].outcome # "Hit"
    BY <1>1, NextRow
  <1>4. n + 1 \notin Misses(trace)
    BY <1>1, <1>3
  <1>5. EventAt(trace, n + 1) = [l1 |-> l1.accesses[Row], llc |-> {}, first_service |-> "L1"]
    BY <1>1, <1>3 DEF EventAt
  <1>6. Len(trace) \in Nat /\ trace \in [1..Len(trace) -> Nat]
    BY <1>2, Geometries DEF LinesKnown
  <1>7. Reached(trace, n + 1) = Reached(trace, n)
    BY <1>4, <1>6, ReachedGrows
  <1>8. llc_index' = Reached(trace, n + 1)
    BY <1>1, <1>3, <1>7 DEF Paired
  <1>9. events' = Append(events, EventAt(trace, n + 1))
    BY <1>1, <1>5
  <1>10. \E m \in 0..Len(trace) : Paired(m)'
    BY <1>1, <1>2, <1>3, <1>8, <1>9, RowPaired
  <1> QED
    BY <1>1, <1>10, PairingKeeps

LEMMA TaskPairsMiss ==
    ASSUME TaskInv, PairMiss
    PROVE  TaskInv'
  <1> DEFINE answer == level.accesses[llc_index + 1]
  <1>1. /\ stage = "pair" /\ Row <= Len(trace) /\ l1.accesses[Row].outcome # "Hit"
        /\ UNCHANGED <<trace, mappings, forwarded, level, l1>>
    BY DEF PairMiss
  <1>2. LinesKnown /\ L1Known
    BY <1>1 DEF TaskInv
  <1>3. PICK n \in 0..Len(trace) - 1 :
              /\ Paired(n) /\ Row = n + 1
              /\ l1.accesses[n + 1] = Rows(trace, L1)[n + 1]
              /\ n + 1 \in Misses(trace) <=> l1.accesses[n + 1].outcome # "Hit"
    BY <1>1, NextRow
  <1>4. n + 1 \in Misses(trace)
    BY <1>1, <1>3
  <1>5. Len(trace) \in Nat /\ trace \in [1..Len(trace) -> Nat]
    BY <1>2, Geometries DEF LinesKnown
  <1> DEFINE k == Reached(trace, n + 1)
  <1>6. k = Reached(trace, n) + 1
    BY <1>4, <1>5, ReachedGrows
  <1>7. k \in 1..Cardinality(Misses(trace)) /\ Ascending(Misses(trace))[k] = n + 1
    BY <1>4, <1>5, ReachedGrows
  <1> HIDE DEF k
  <1>8. llc_index + 1 = k
    BY <1>3, <1>6 DEF Paired
  <1>9. /\ Cardinality(Misses(trace)) \in 0..Len(trace)
        /\ forwarded \in [1..Cardinality(Misses(trace)) -> Misses(trace)]
    BY <1>2, <1>5, MissesFacts DEF L1Known
  <1>10. Len(forwarded) = Cardinality(Misses(trace))
    BY <1>5, <1>9, Listed
  <1>11. llc_index = Reached(trace, n) /\ Reached(trace, n) \in Nat
    BY <1>3, <1>5, ReachedGrows DEF Paired
  <1>12. llc_index < Len(forwarded) /\ forwarded[llc_index + 1] = Row
    BY <1>2, <1>3, <1>7, <1>8, <1>9, <1>10, <1>11 DEF L1Known
  <1>13. /\ events' = Append(events,
                      [l1 |-> l1.accesses[Row], llc |-> {answer},
                       first_service |-> IF answer.outcome = "Hit" THEN "LLC"
                                         ELSE "Memory"])
         /\ llc_index' = llc_index + 1 /\ stage' = stage
    BY <1>12 DEF PairMiss
  <1>14. answer = Rows(Lower(trace), LLC)[k]
    <2>1. mappings = Lower(trace) /\ DOMAIN mappings = 1..Cardinality(Misses(trace))
      BY <1>2, <1>5, MissesFacts DEF L1Known
    <2>2. Completed(mappings, LLC, level)
      BY <1>1 DEF TaskInv
    <2> QED
      BY <1>7, <1>8, <2>1, <2>2 DEF Completed
  <1>15. EventAt(trace, n + 1) = [l1 |-> l1.accesses[Row], llc |-> {answer},
                       first_service |-> IF answer.outcome = "Hit" THEN "LLC"
                                         ELSE "Memory"]
    BY <1>1, <1>3, <1>14 DEF EventAt, k
  <1>16. events' = Append(events, EventAt(trace, n + 1))
    BY <1>13, <1>15
  <1>17. llc_index' = Reached(trace, n + 1)
    BY <1>8, <1>13 DEF k
  <1>18. \E m \in 0..Len(trace) : Paired(m)'
    BY <1>1, <1>2, <1>3, <1>16, <1>17, RowPaired
  <1> QED
    BY <1>1, <1>13, <1>18, PairingKeeps

-----------------------------------------------------------------------------
(* The counts of who served the lines.                                      *)

\* The LLC's line that a missed line is.
LEMMA ReachedAt ==
    ASSUME NEW N \in Nat, NEW f \in [1..N -> Nat], NEW i, i \in Misses(f)
    PROVE  /\ Reached(f, i) \in 1..Cardinality(Misses(f))
           /\ Ascending(Misses(f))[Reached(f, i)] = i
  <1> DEFINE m == i - 1
  <1>1. i \in 1..N
    BY MissesFacts
  <1>2. m \in 0..N - 1 /\ m + 1 = i
    BY <1>1
  <1> HIDE DEF m
  <1>3. m + 1 \in Misses(f)
    BY <1>2
  <1>4. Reached(f, m + 1) \in 1..Cardinality(Misses(f))
    BY <1>2, <1>3, ReachedGrows
  <1>5. Ascending(Misses(f))[Reached(f, m + 1)] = m + 1
    BY <1>2, <1>3, ReachedGrows
  <1> QED
    BY <1>2, <1>4, <1>5

\* The missed lines are the LLC's lines, one for one.
LEMMA MissesAreLower ==
    ASSUME NEW N \in Nat, NEW f \in [1..N -> Nat],
           NEW K, K \subseteq 1..Cardinality(Misses(f))
    PROVE  Cardinality({i \in Misses(f) : Reached(f, i) \in K}) = Cardinality(K)
  <1> DEFINE M == Misses(f)
             order == Ascending(M)
             n == Cardinality(M)
             U == {i \in M : Reached(f, i) \in K}
             r == [i \in U |-> Reached(f, i)]
  <1>1. M \in SUBSET Nat /\ IsFiniteSet(M) /\ n \in Nat
    BY MissesFacts
  <1>2. \A i \in M : order[Reached(f, i)] = i /\ Reached(f, i) \in 1..n
    BY ReachedAt
  <1> HIDE DEF M
  <1>3. /\ order \in [1..n -> M]
        /\ \A p, q \in 1..n : p < q => order[p] < order[q]
    BY <1>1, AscendingOrders
  <1> HIDE DEF order, n
  <1>4. \A p, q \in 1..n : order[p] = order[q] => p = q
    <2> SUFFICES ASSUME NEW p \in 1..n, NEW q \in 1..n, order[p] = order[q], p # q
                 PROVE  FALSE
      OBVIOUS
    <2>1. p < q \/ q < p
      BY <1>1
    <2>2. order[p] \in Nat /\ order[q] \in Nat
      BY <1>1, <1>3
    <2> QED
      BY <1>3, <2>1, <2>2
  <1>5. r \in [U -> K]
    OBVIOUS
  <1>6. \A i, j \in U : r[i] = r[j] => i = j
    BY <1>2
  <1>7. ASSUME NEW k \in K PROVE \E i \in U : r[i] = k
    <2>1. k \in 1..n
      BY DEF n, M
    <2>2. order[k] \in M
      BY <1>3, <2>1
    <2>3. order[Reached(f, order[k])] = order[k] /\ Reached(f, order[k]) \in 1..n
      BY <1>2, <2>2
    <2>4. Reached(f, order[k]) = k
      BY <1>4, <2>1, <2>3
    <2> QED
      BY <2>2, <2>4
  <1>8. r \in Bijection(U, K)
    BY <1>5, <1>6, <1>7 DEF Bijection, Injection, Surjection, IsInjective
  <1>9. ExistsBijection(U, K)
    BY <1>8 DEF ExistsBijection
  <1>10. IsFiniteSet(U)
    <2>1. U \subseteq M
      OBVIOUS
    <2> HIDE DEF U
    <2> QED
      BY <1>1, <2>1, FS_Subset
  <1> HIDE DEF U, r
  <1>11. Cardinality(U) = Cardinality(K)
    BY <1>9, <1>10, FS_Bijection
  <1> QED
    BY <1>11 DEF U, M

\* The checks of the service counts do not fire.
LEMMA ServiceHolds ==
    ASSUME LinesKnown, L1Known, Completed(mappings, LLC, level), Paired(Len(trace))
    PROVE  ServiceChecks /\ llc_index = Len(forwarded)
  <1> DEFINE N == Len(trace)
             M == Misses(trace)
             n == Cardinality(M)
             lower == Lower(trace)
             up == Rows(trace, L1)
             down == Rows(lower, LLC)
             Served(service) == {i \in 1..N : events[i].first_service = service}
             K == {j \in 1..n : down[j].outcome = "Hit"}
             R == {j \in 1..n : down[j].outcome # "Hit"}
  <1>1. N \in Nat /\ trace \in [1..N -> Nat]
    BY Geometries DEF LinesKnown
  <1>2. IsGeometry(L1) /\ IsGeometry(LLC)
    BY Geometries
  <1>3. M \in SUBSET (1..N) /\ n \in 0..N
    BY <1>1, MissesFacts
  <1>4. lower \in [1..n -> Nat] /\ Ascending(M) \in [1..n -> M]
    BY <1>1, MissesFacts
  <1>5. n \in Nat
    BY <1>1, <1>3
  <1>6. Len(forwarded) = n
    BY <1>4, <1>5, Listed DEF L1Known
  <1>7. Completed(trace, L1, l1) /\ Completed(lower, LLC, level)
    BY DEF L1Known
  <1>8. AddsUp(trace, L1, l1, N)
    <2> HIDE DEF N
    <2> QED
      BY <1>1, <1>2, <1>7, CompletedAddsUp
  <1>9. AddsUp(lower, LLC, level, n)
    <2> HIDE DEF n, lower
    <2> QED
      BY <1>2, <1>4, <1>5, <1>7, CompletedAddsUp
  <1>10. M = {i \in 1..N : up[i].outcome # "Hit"}
    BY <1>1 DEF Misses
  <1>11. n = l1.cold_misses + l1.replacement_misses
    BY <1>8, <1>10 DEF AddsUp
  <1>12. Cardinality(R) = level.cold_misses + level.replacement_misses
    BY <1>9 DEF AddsUp
  <1>13. Cardinality(K) = level.hits
    <2>1. K = Outcomes(down, 1..n, "Hit")
      BY DEF Outcomes
    <2>2. DOMAIN lower = 1..n
      BY <1>4
    <2> QED
      BY <1>7, <2>1, <2>2 DEF Completed, CountsMatch
  <1>14. l1.hits = Cardinality({i \in 1..N : up[i].outcome = "Hit"})
    BY <1>1, <1>7 DEF Completed, CountsMatch, Outcomes
  <1>15. events = [i \in 1..N |-> EventAt(trace, i)]
    BY DEF Paired
  <1>16. \A i \in 1..N : events[i].first_service
            = IF up[i].outcome = "Hit" THEN "L1"
              ELSE IF down[Reached(trace, i)].outcome = "Hit" THEN "LLC" ELSE "Memory"
    BY <1>15 DEF EventAt
  <1>17. \A i \in M : Reached(trace, i) \in 1..n
    BY <1>1, ReachedAt
  <1>18. \A service : ServedBy(service) = Cardinality(Served(service))
    BY <1>15 DEF ServedBy
  <1> HIDE DEF N, M, n, lower, up, down
  <1>19. Served("L1") = {i \in 1..N : up[i].outcome = "Hit"}
    BY <1>16
  <1>20. Served("LLC") = {i \in M : Reached(trace, i) \in K}
    BY <1>3, <1>10, <1>16, <1>17
  <1>21. Served("Memory") = {i \in M : Reached(trace, i) \in R}
    BY <1>3, <1>10, <1>16, <1>17
  <1> HIDE DEF Served
  <1>22. K \subseteq 1..n /\ R \subseteq 1..n
    OBVIOUS
  <1> HIDE DEF K, R
  <1>23. Cardinality({i \in M : Reached(trace, i) \in K}) = Cardinality(K)
    BY <1>1, <1>22, MissesAreLower DEF M, n
  <1>24. Cardinality({i \in M : Reached(trace, i) \in R}) = Cardinality(R)
    BY <1>1, <1>22, MissesAreLower DEF M, n
  <1>25. ServedBy("L1") = l1.hits
    BY <1>14, <1>18, <1>19
  <1>26. ServedBy("LLC") = level.hits
    BY <1>13, <1>18, <1>20, <1>23
  <1>27. ServedBy("Memory") = level.cold_misses + level.replacement_misses
    BY <1>12, <1>18, <1>21, <1>24
  <1>28. /\ l1.hits \in Nat /\ l1.cold_misses \in Nat /\ l1.replacement_misses \in Nat
         /\ l1.hits + l1.cold_misses + l1.replacement_misses = N
    BY <1>8 DEF AddsUp
  <1>29. /\ level.hits \in Nat /\ level.cold_misses \in Nat /\ level.replacement_misses \in Nat
         /\ level.hits + level.cold_misses + level.replacement_misses = n
    BY <1>9 DEF AddsUp
  <1>30. ServedBy("L1") + ServedBy("LLC") + ServedBy("Memory") = N
    <2>1. level.hits + (level.cold_misses + level.replacement_misses)
             = l1.cold_misses + l1.replacement_misses
      BY <1>11, <1>29
    <2>2. l1.hits + (l1.cold_misses + l1.replacement_misses) = N
      BY <1>28
    <2>3. l1.hits + level.hits + (level.cold_misses + level.replacement_misses)
             = l1.hits + (level.hits + (level.cold_misses + level.replacement_misses))
      BY <1>28, <1>29
    <2> QED
      BY <1>25, <1>26, <1>27, <2>1, <2>2, <2>3
  <1>31. ServiceChecks
    BY <1>6, <1>11, <1>25, <1>26, <1>27, <1>30 DEF ServiceChecks, N
  <1>32. Reached(trace, N) = n
    <2>1. \A i \in M : i <= N
      BY <1>1, <1>3
    <2>2. {i \in M : i <= N} = M
      BY <2>1
    <2> QED
      BY <2>2 DEF Reached, M, n
  <1> QED
    BY <1>6, <1>31, <1>32 DEF Paired, N

LEMMA TaskFinishes ==
    ASSUME TaskInv, FinishTask
    PROVE  TaskInv'
  <1>1. /\ stage = "pair" /\ Row > Len(trace)
        /\ UNCHANGED <<trace, mappings, forwarded, level, l1, events, llc_index>>
    BY DEF FinishTask
  <1>2. LinesKnown /\ L1Known /\ Completed(mappings, LLC, level)
    BY <1>1 DEF TaskInv
  <1>3. PICK n \in 0..Len(trace) : Paired(n)
    BY <1>1 DEF TaskInv
  <1>4. Len(events) = n /\ n \in Nat /\ Len(trace) \in Nat
    BY <1>2, <1>3, PairedLength
  <1>5. n = Len(trace)
    BY <1>1, <1>3, <1>4 DEF Row
  <1>6. Paired(Len(trace))
    BY <1>3, <1>5
  <1>7. stage' = "done"
    BY <1>2, <1>6, ServiceHolds DEF FinishTask
  <1>8. LinesKnown' /\ L1Known' /\ Completed(mappings, LLC, level)' /\ Paired(Len(trace))'
    BY <1>1, <1>2, <1>6 DEF LinesKnown, L1Known, Paired
  <1> QED
    BY <1>7, <1>8 DEF TaskInv

-----------------------------------------------------------------------------
(* The theorems.                                                            *)

LEMMA TaskStep ==
    ASSUME TaskInv, [Next]_vars
    PROVE  TaskInv'
  <1>1. CASE AnalyzeLine
    BY <1>1, TaskAnalyzes
  <1>2. CASE FinishL1
    BY <1>2, TaskFinishesL1
  <1>3. CASE FinishLlc
    BY <1>3, TaskFinishesLlc
  <1>4. CASE PairHit
    BY <1>4, TaskPairsHit
  <1>5. CASE PairMiss
    BY <1>5, TaskPairsMiss
  <1>6. CASE FinishTask
    BY <1>6, TaskFinishes
  <1>7. CASE UNCHANGED vars
    <2>1. UNCHANGED <<trace, stage, mappings, events, llc_index>>
      BY <1>7 DEF vars
    <2>2. /\ LinesKnown => LinesKnown'
          /\ L1Known => L1Known'
          /\ LevelAtWork => LevelAtWork'
          /\ Completed(mappings, LLC, level) => Completed(mappings, LLC, level)'
      BY <1>7 DEF vars, LinesKnown, L1Known, LevelAtWork, Geometry
    <2>3. \A n : Paired(n) => Paired(n)'
      BY <2>1 DEF Paired
    <2>4. \A n \in 0..Len(trace) : n \in 0..Len(trace')
      BY <2>1
    <2>5. stage = "pair" => \E n \in 0..Len(trace') : Paired(n)'
      BY <2>3, <2>4 DEF TaskInv
    <2>6. stage = "done" => Paired(Len(trace))'
      BY <2>1 DEF TaskInv, Paired
    <2> QED
      BY <2>1, <2>2, <2>5, <2>6 DEF TaskInv
  <1> QED
    BY <1>1, <1>2, <1>3, <1>4, <1>5, <1>6, <1>7 DEF Next

(* Working the cache sets one after another, each with its own tree, a      *)
(* level has answered at every moment exactly what program order would have *)
(* answered for the lines it is through with, and its counts are those      *)
(* answers' (analyze_set in batch_csrd.cpp; no run checks this invariant by *)
(* itself: the theorems after it rest on it).                               *)
THEOREM TaskCorrect == Spec => []TaskInv
  <1>1. Init => TaskInv
    BY TaskInit
  <1>2. TaskInv /\ [Next]_vars => TaskInv'
    BY TaskStep
  <1> QED
    BY <1>1, <1>2, PTL DEF Spec

(* The batch analysis never fails: no level's summary disagrees with its    *)
(* answers, every L1 miss finds its own LLC row, no row is left over, and   *)
(* the service counts taken on different paths agree, whatever the task and *)
(* the geometries.                                                          *)
THEOREM RowsAlwaysPair == Spec => []RowsPair
  <1>1. TaskInv => RowsPair
    BY DEF TaskInv, RowsPair
  <1> QED
    BY <1>1, TaskCorrect, PTL

LEMMA CountsAreSame ==
    ASSUME NEW batch, NEW streaming, NEW row, NEW D,
           CountsMatch(batch, row, D), CountsMatch(streaming, row, D)
    PROVE  SameCounts(batch, streaming)
  BY DEF CountsMatch, SameCounts

LEMMA DoneMatches == TaskInv => BatchMatchesStreaming
  <1> SUFFICES ASSUME TaskInv, stage = "done"
               PROVE  /\ events = Streamed.events
                      /\ SameCounts(l1, Streamed.l1)
                      /\ SameCounts(level, Streamed.llc)
    BY DEF BatchMatchesStreaming
  <1> DEFINE N == Len(trace)
             n == Cardinality(Misses(trace))
             s == Streamed
  <1>1. LinesKnown /\ L1Known /\ Completed(mappings, LLC, level) /\ Paired(N)
    BY DEF TaskInv
  <1>2. N \in Nat /\ trace \in [1..N -> Nat]
    BY <1>1, Geometries DEF LinesKnown
  <1> HIDE DEF N
  <1>3. StreamedTo(s, trace, N)
    BY <1>2, StreamedIsDescribed
  <1>4. Reached(trace, N) = n
    <2>1. Misses(trace) \in SUBSET (1..N)
      BY <1>2, MissesFacts
    <2>2. \A i \in Misses(trace) : i <= N
      BY <1>2, <2>1
    <2>3. {i \in Misses(trace) : i <= N} = Misses(trace)
      BY <2>2
    <2> QED
      BY <2>3 DEF Reached
  <1>5. Lower(trace) \in [1..n -> Nat]
    BY <1>2, MissesFacts
  <1> HIDE DEF s, n
  <1>6. events = s.events
    BY <1>1, <1>3 DEF Paired, StreamedTo
  <1>7. CountsMatch(l1, Rows(trace, L1), 1..N) /\ CountsMatch(s.l1, Rows(trace, L1), 1..N)
    BY <1>1, <1>2, <1>3 DEF L1Known, Completed, StreamedTo, Describes
  <1>8. /\ CountsMatch(level, Rows(Lower(trace), LLC), 1..n)
        /\ CountsMatch(s.llc, Rows(Lower(trace), LLC), 1..n)
    BY <1>1, <1>3, <1>4, <1>5 DEF L1Known, Completed, StreamedTo, Describes
  <1>9. SameCounts(l1, s.l1) /\ SameCounts(level, s.llc)
    BY <1>7, <1>8, CountsAreSame
  <1> QED
    BY <1>6, <1>9 DEF s

(* The batch analysis and the streaming one come to the same events, in     *)
(* program order, and to the same counts at both levels, for every task and *)
(* every pair of geometries (the equality the tests sample).                *)
THEOREM BatchIsStreaming == Spec => []BatchMatchesStreaming
  BY TaskCorrect, DoneMatches, PTL
=============================================================================
