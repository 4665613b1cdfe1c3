----------------------- MODULE StreamingHierarchyProof -----------------------
(***************************************************************************)
(* Theorems about one streaming analysis, for every geometry, every        *)
(* module, every limit and however it ends.  The inductive invariant is    *)
(* IInv, the conjunction of the parts below.  What an observation of one   *)
(* cache level leaves behind comes first; its histogram is summed by the   *)
(* library's SumFunctionOnSet, a recursive function over the subsets of    *)
(* its indices, and a fact about sums is proved from a smallest set that   *)
(* would refute it.                                                        *)
(***************************************************************************)
EXTENDS HierarchyRefinement, Integers, Functions, FiniteSetTheorems, WellFoundedInduction,
        SequenceTheorems, TLAPS

-----------------------------------------------------------------------------
(* Sums over finite sets of indices.                                        *)

\* The index a sum takes next.
Pick(s) == CHOOSE i \in s : TRUE

\* g sums f over every subset of s.
Sums(g, f, s) ==
    g = [r \in SUBSET s |-> IF r = {} THEN 0 ELSE f[Pick(r)] + g[r \ {Pick(r)}]]

(* A family of finite sets that is not empty has a member none of whose     *)
(* members' proper subsets is in the family.                                *)
LEMMA SmallestSet ==
    ASSUME NEW F, F # {}, \A s \in F : IsFiniteSet(s)
    PROVE  \E s \in F : \A t \in F : t \subseteq s => t = s
  <1> DEFINE All == UNION F
             R == StrictSubsetOrdering(All)
  <1>1. F \subseteq FiniteSubsetsOf(All)
    BY DEF FiniteSubsetsOf
  <1>2. IsWellFoundedOn(R, FiniteSubsetsOf(All))
    BY FS_StrictSubsetOrderingWellFounded
  <1> HIDE DEF R
  <1>3. PICK s \in F : \A t \in F : <<t, s>> \notin R
    BY <1>1, <1>2, WFMin
  <1>4. ASSUME NEW t \in F, t \subseteq s, t # s PROVE FALSE
    <2>1. <<t, s>> \in R
      BY <1>4, <1>1 DEF R, StrictSubsetOrdering
    <2> QED
      BY <2>1, <1>3
  <1> QED
    BY <1>3, <1>4

LEMMA PickIsIn == ASSUME NEW s, s # {} PROVE Pick(s) \in s
  BY DEF Pick

LEMMA SumsAt ==
    ASSUME NEW f, NEW s, NEW g, Sums(g, f, s), NEW r \in SUBSET s
    PROVE  g[r] = IF r = {} THEN 0 ELSE f[Pick(r)] + g[r \ {Pick(r)}]
  BY DEF Sums

LEMMA SumsAgree ==
    ASSUME NEW f, NEW s, NEW t, NEW g, NEW h, Sums(g, f, s), Sums(h, f, t),
           NEW r \in SUBSET (s \cap t), IsFiniteSet(r)
    PROVE  g[r] = h[r]
  <1> DEFINE F == {q \in SUBSET r : g[q] # h[q]}
  <1> SUFFICES ASSUME F # {} PROVE FALSE
    OBVIOUS
  <1>1. \A q \in F : IsFiniteSet(q)
    BY FS_Subset
  <1>2. PICK q \in F : \A p \in F : p \subseteq q => p = q
    <2> HIDE DEF F
    <2> QED
      BY <1>1, SmallestSet
  <1>3. /\ g[q] = IF q = {} THEN 0 ELSE f[Pick(q)] + g[q \ {Pick(q)}]
        /\ h[q] = IF q = {} THEN 0 ELSE f[Pick(q)] + h[q \ {Pick(q)}]
    BY SumsAt
  <1>4. q # {}
    BY <1>3
  <1>5. q \ {Pick(q)} \notin F
    BY <1>4, <1>2, PickIsIn
  <1> QED
    BY <1>3, <1>4, <1>5

LEMMA SumsExist ==
    ASSUME NEW f, NEW S, IsFiniteSet(S)
    PROVE  \E g : Sums(g, f, S)
  <1> DEFINE F == {s \in SUBSET S : ~ \E g : Sums(g, f, s)}
  <1> SUFFICES ASSUME F # {} PROVE FALSE
    OBVIOUS
  <1>1. \A q \in F : IsFiniteSet(q)
    BY FS_Subset
  <1>2. PICK s \in F : \A p \in F : p \subseteq s => p = s
    <2> HIDE DEF F
    <2> QED
      BY <1>1, SmallestSet
  <1> DEFINE G(q) == CHOOSE g : Sums(g, f, q)
             sum == [r \in SUBSET s |-> IF r = {} THEN 0
                                        ELSE f[Pick(r)] + G(r \ {Pick(r)})[r \ {Pick(r)}]]
  <1>3. ASSUME NEW q \in SUBSET s, q # s PROVE Sums(G(q), f, q)
    BY <1>3, <1>2
  <1>4. ASSUME NEW q \in SUBSET s, q # s PROVE G(q)[q] = sum[q]
    <2>1. G(q)[q] = IF q = {} THEN 0 ELSE f[Pick(q)] + G(q)[q \ {Pick(q)}]
      <3> HIDE DEF G
      <3> QED
        BY <1>3, <1>4, SumsAt
    <2>2. CASE q = {}
      BY <2>1, <2>2
    <2>3. CASE q # {}
      <3> DEFINE p == q \ {Pick(q)}
      <3>1. p \in SUBSET s /\ p # s /\ p \in SUBSET (p \cap q)
        BY <2>3, PickIsIn
      <3>2. IsFiniteSet(p)
        BY <3>1, <1>2, FS_Subset
      <3>3. Sums(G(p), f, p) /\ Sums(G(q), f, q)
        BY <3>1, <1>3, <1>4
      <3>4. G(p)[p] = G(q)[p]
        <4> HIDE DEF G, p
        <4> QED
          BY <3>1, <3>2, <3>3, SumsAgree
      <3> QED
        BY <2>1, <2>3, <3>4
    <2> QED
      BY <2>2, <2>3
  <1>5. ASSUME NEW r \in SUBSET s, r # {}
        PROVE  sum[r] = f[Pick(r)] + sum[r \ {Pick(r)}]
    <2>1. r \ {Pick(r)} \in SUBSET s /\ r \ {Pick(r)} # s
      BY <1>5, PickIsIn
    <2> QED
      BY <1>4, <1>5, <2>1
  <1>6. \A r \in SUBSET s : sum[r] = IF r = {} THEN 0 ELSE f[Pick(r)] + sum[r \ {Pick(r)}]
    <2>1. sum[{}] = 0
      OBVIOUS
    <2> HIDE DEF sum
    <2> QED
      BY <1>5, <2>1
  <1>7. sum = [r \in SUBSET s |-> IF r = {} THEN 0 ELSE f[Pick(r)] + sum[r \ {Pick(r)}]]
    <2>1. DOMAIN sum = SUBSET s /\ sum = [r \in DOMAIN sum |-> sum[r]]
      OBVIOUS
    <2> HIDE DEF sum
    <2> QED
      BY <1>6, <2>1
  <1> QED
    BY <1>7, <1>2 DEF Sums

LEMMA SumIsSum ==
    ASSUME NEW f, NEW s
    PROVE  SumFunctionOnSet(f, s) = (CHOOSE g : Sums(g, f, s))[s]
  BY DEF SumFunctionOnSet, FoldFunctionOnSet, MapThenFoldSet, Sums, Pick

(* A sum is the next index's value and the sum of the rest.                 *)
LEMMA SumStep ==
    ASSUME NEW f, NEW s, IsFiniteSet(s)
    PROVE  SumFunctionOnSet(f, s) =
              IF s = {} THEN 0 ELSE f[Pick(s)] + SumFunctionOnSet(f, s \ {Pick(s)})
  <1> DEFINE r == s \ {Pick(s)}
             g == CHOOSE g : Sums(g, f, s)
             h == CHOOSE h : Sums(h, f, r)
  <1>1. IsFiniteSet(r)
    BY FS_Subset
  <1>2. Sums(g, f, s) /\ Sums(h, f, r)
    BY <1>1, SumsExist
  <1>3. SumFunctionOnSet(f, s) = g[s] /\ SumFunctionOnSet(f, r) = h[r]
    BY SumIsSum
  <1>4. g[r] = h[r]
    <2> HIDE DEF g, h
    <2> QED
      BY <1>1, <1>2, SumsAgree
  <1>5. g[s] = IF s = {} THEN 0 ELSE f[Pick(s)] + g[r]
    BY <1>2 DEF Sums
  <1> QED
    BY <1>3, <1>4, <1>5

LEMMA SumOfNone == ASSUME NEW f PROVE SumFunctionOnSet(f, {}) = 0
  BY SumStep, FS_EmptySet

(* The sum of natural numbers is one.                                       *)
LEMMA SumIsNat ==
    ASSUME NEW f, NEW s, IsFiniteSet(s), \A i \in s : f[i] \in Nat
    PROVE  SumFunctionOnSet(f, s) \in Nat
  <1> DEFINE F == {r \in SUBSET s : SumFunctionOnSet(f, r) \notin Nat}
  <1> SUFFICES ASSUME F # {} PROVE FALSE
    OBVIOUS
  <1>1. PICK r \in F : \A q \in F : q \subseteq r => q = r
    <2>1. \A q \in F : IsFiniteSet(q)
      BY FS_Subset
    <2> HIDE DEF F
    <2> QED
      BY <2>1, SmallestSet
  <1>2. IsFiniteSet(r)
    BY FS_Subset
  <1>3. r # {}
    BY SumOfNone
  <1>4. SumFunctionOnSet(f, r \ {Pick(r)}) \in Nat /\ f[Pick(r)] \in Nat
    BY <1>1, <1>3, PickIsIn
  <1> QED
    BY <1>2, <1>3, <1>4, SumStep

(* Any index may be taken out of a sum.                                     *)
LEMMA SumWithout ==
    ASSUME NEW f, NEW s, IsFiniteSet(s), \A i \in s : f[i] \in Nat, NEW i \in s
    PROVE  SumFunctionOnSet(f, s) = f[i] + SumFunctionOnSet(f, s \ {i})
  <1> DEFINE Holds(r, j) == SumFunctionOnSet(f, r) = f[j] + SumFunctionOnSet(f, r \ {j})
             F == {r \in SUBSET s : \E j \in r : ~Holds(r, j)}
  <1> SUFFICES ASSUME F # {} PROVE FALSE
    OBVIOUS
  <1>1. PICK r \in F : \A q \in F : q \subseteq r => q = r
    <2>1. \A q \in F : IsFiniteSet(q)
      BY FS_Subset
    <2> HIDE DEF F
    <2> QED
      BY <2>1, SmallestSet
  <1>2. PICK j \in r : ~Holds(r, j)
    OBVIOUS
  <1> DEFINE p == Pick(r)
  <1>3. IsFiniteSet(r) /\ IsFiniteSet(r \ {p}) /\ IsFiniteSet((r \ {p}) \ {j})
    BY FS_Subset
  <1>4. p \in r
    BY <1>2, PickIsIn
  <1>5. Holds(r, p)
    BY <1>2, <1>3, SumStep
  <1> HIDE DEF p
  <1>6. p # j
    BY <1>2, <1>5
  <1>7. \A q \in SUBSET r : q # r => \A k \in q : Holds(q, k)
    <2> HIDE DEF Holds
    <2> QED
      BY <1>1
  <1>8. Holds(r \ {p}, j) /\ Holds(r \ {j}, p)
    <2> HIDE DEF Holds
    <2> QED
      BY <1>4, <1>6, <1>7
  <1>9. SumFunctionOnSet(f, (r \ {p}) \ {j}) \in Nat /\ f[p] \in Nat /\ f[j] \in Nat
    BY <1>3, <1>4, SumIsNat
  <1>10. (r \ {p}) \ {j} = (r \ {j}) \ {p}
    OBVIOUS
  <1> HIDE DEF F
  <1> QED
    BY <1>2, <1>5, <1>8, <1>9, <1>10

(* A sum depends on the values at its indices only.                         *)
LEMMA SumSame ==
    ASSUME NEW f, NEW g, NEW s, IsFiniteSet(s), \A i \in s : f[i] = g[i]
    PROVE  SumFunctionOnSet(f, s) = SumFunctionOnSet(g, s)
  <1> DEFINE F == {r \in SUBSET s : SumFunctionOnSet(f, r) # SumFunctionOnSet(g, r)}
  <1> SUFFICES ASSUME F # {} PROVE FALSE
    OBVIOUS
  <1>1. PICK r \in F : \A q \in F : q \subseteq r => q = r
    <2>1. \A q \in F : IsFiniteSet(q)
      BY FS_Subset
    <2> HIDE DEF F
    <2> QED
      BY <2>1, SmallestSet
  <1>2. IsFiniteSet(r)
    BY FS_Subset
  <1>3. r # {}
    BY SumOfNone
  <1>4. SumFunctionOnSet(f, r \ {Pick(r)}) = SumFunctionOnSet(g, r \ {Pick(r)})
        /\ f[Pick(r)] = g[Pick(r)]
    BY <1>1, <1>3, PickIsIn
  <1> QED
    BY <1>2, <1>3, <1>4, SumStep

(* Changing one value, or adding an index, changes the sum by as much.      *)
LEMMA SumChanged ==
    ASSUME NEW f, NEW g, NEW s, NEW i, IsFiniteSet(s),
           \A j \in s : f[j] \in Nat, g[i] \in Nat,
           \A j \in s : j # i => g[j] = f[j]
    PROVE  SumFunctionOnSet(g, s \cup {i}) + (IF i \in s THEN f[i] ELSE 0)
              = SumFunctionOnSet(f, s) + g[i]
  <1> DEFINE rest == s \ {i}
  <1>1. IsFiniteSet(rest) /\ IsFiniteSet(s \cup {i})
    BY FS_Subset, FS_AddElement
  <1>2. SumFunctionOnSet(g, rest) = SumFunctionOnSet(f, rest)
    BY <1>1, SumSame
  <1>3. SumFunctionOnSet(f, rest) \in Nat
    BY <1>1, SumIsNat
  <1>4. SumFunctionOnSet(g, s \cup {i}) = g[i] + SumFunctionOnSet(g, rest)
    <2>1. \A j \in s \cup {i} : g[j] \in Nat
      OBVIOUS
    <2>2. (s \cup {i}) \ {i} = rest
      OBVIOUS
    <2> QED
      BY <1>1, <2>1, <2>2, SumWithout
  <1>5. CASE i \in s
    <2>1. SumFunctionOnSet(f, s) = f[i] + SumFunctionOnSet(f, rest)
      BY <1>5, SumWithout
    <2> QED
      BY <1>2, <1>3, <1>4, <1>5, <2>1
  <1>6. CASE i \notin s
    <2>1. rest = s
      BY <1>6
    <2> HIDE DEF rest
    <2> QED
      BY <1>2, <1>3, <1>4, <1>6, <2>1
  <1> QED
    BY <1>5, <1>6

(* Counting one more at an index adds one to the sum.                       *)
LEMMA SumCounted ==
    ASSUME NEW f, NEW g, NEW s, NEW i, IsFiniteSet(s),
           \A j \in s : f[j] \in Nat,
           g[i] = (IF i \in s THEN f[i] ELSE 0) + 1,
           \A j \in s : j # i => g[j] = f[j]
    PROVE  SumFunctionOnSet(g, s \cup {i}) = SumFunctionOnSet(f, s) + 1
  <1>1. g[i] \in Nat /\ (i \in s => f[i] \in Nat)
    OBVIOUS
  <1>2. SumFunctionOnSet(g, s \cup {i}) + (IF i \in s THEN f[i] ELSE 0)
           = SumFunctionOnSet(f, s) + g[i]
    BY <1>1, SumChanged
  <1>3. SumFunctionOnSet(f, s) \in Nat
    BY SumIsNat
  <1>4. SumFunctionOnSet(g, s \cup {i}) \in Nat
    <2>1. \A j \in s \cup {i} : g[j] \in Nat
      BY <1>1
    <2>2. IsFiniteSet(s \cup {i})
      BY FS_AddElement
    <2> QED
      BY <2>1, <2>2, SumIsNat
  <1> QED
    BY <1>1, <1>2, <1>3, <1>4

(* A sum is the sum over a part of its indices and the sum over the rest.   *)
LEMMA SumSplit ==
    ASSUME NEW f, NEW s, IsFiniteSet(s), \A i \in s : f[i] \in Nat, NEW t \in SUBSET s
    PROVE  SumFunctionOnSet(f, s) = SumFunctionOnSet(f, t) + SumFunctionOnSet(f, s \ t)
  <1> DEFINE F == {r \in SUBSET t : SumFunctionOnSet(f, s)
                                       # SumFunctionOnSet(f, r) + SumFunctionOnSet(f, s \ r)}
  <1> SUFFICES ASSUME F # {} PROVE FALSE
    OBVIOUS
  <1>1. PICK r \in F : \A q \in F : q \subseteq r => q = r
    <2>1. \A q \in F : IsFiniteSet(q)
      BY FS_Subset
    <2> HIDE DEF F
    <2> QED
      BY <2>1, SmallestSet
  <1>2. SumFunctionOnSet(f, s) \in Nat
    BY SumIsNat
  <1>3. r # {}
    <2>1. s \ {} = s
      OBVIOUS
    <2> QED
      BY <1>2, <2>1, SumOfNone
  <1>4. PICK i \in r : TRUE
    BY <1>3
  <1> DEFINE q == r \ {i}
  <1>5. SumFunctionOnSet(f, s) = SumFunctionOnSet(f, q) + SumFunctionOnSet(f, s \ q)
    BY <1>1
  <1>6. IsFiniteSet(r) /\ IsFiniteSet(q) /\ IsFiniteSet(s \ q) /\ IsFiniteSet(s \ r)
    BY FS_Subset
  <1>7. SumFunctionOnSet(f, r) = f[i] + SumFunctionOnSet(f, q)
    BY <1>6, SumWithout
  <1>8. SumFunctionOnSet(f, s \ q) = f[i] + SumFunctionOnSet(f, s \ r)
    <2>1. (s \ q) \ {i} = s \ r /\ i \in s \ q
      OBVIOUS
    <2> QED
      BY <1>6, <2>1, SumWithout
  <1>9. SumFunctionOnSet(f, q) \in Nat /\ SumFunctionOnSet(f, s \ r) \in Nat /\ f[i] \in Nat
    BY <1>6, SumIsNat
  <1>10. SumFunctionOnSet(f, s) # SumFunctionOnSet(f, r) + SumFunctionOnSet(f, s \ r)
    OBVIOUS
  <1> HIDE DEF F, q
  <1> QED
    BY <1>5, <1>7, <1>8, <1>9, <1>10

-----------------------------------------------------------------------------
(* One cache level.                                                         *)

(* An observation adds its block to what the level has seen, and no other.  *)
LEMMA ObserveSees ==
    ASSUME NEW level, NEW geometry, NEW block
    PROVE  BlocksSeen(observe(level, geometry, block)) = BlocksSeen(level) \cup {block}
  <1> DEFINE s == SetOf(geometry, block)
             history == HistoryOf(level, s)
             after == observe(level, geometry, block).sets
  <1>1. after = [t \in DOMAIN level.sets \cup {s} |->
                    IF t = s THEN Touched(history, block) ELSE level.sets[t]]
    BY DEF observe
  <1>2. DOMAIN Touched(history, block) = DOMAIN history \cup {block}
    BY DEF Touched
  <1>3. /\ s \in DOMAIN level.sets => history = level.sets[s]
        /\ s \notin DOMAIN level.sets => DOMAIN history = {}
    BY DEF HistoryOf, Unseen
  <1> HIDE DEF s, history, after
  <1>4. /\ DOMAIN after = DOMAIN level.sets \cup {s}
        /\ DOMAIN after[s] = DOMAIN history \cup {block}
        /\ \A t \in DOMAIN level.sets : t # s => after[t] = level.sets[t]
    BY <1>1, <1>2
  <1>5. ASSUME NEW x \in BlocksSeen(level)
        PROVE  \E t \in DOMAIN after : x \in DOMAIN after[t]
    <2>1. PICK t \in DOMAIN level.sets : x \in DOMAIN level.sets[t]
      BY <1>5 DEF BlocksSeen
    <2>2. CASE t = s
      BY <2>1, <2>2, <1>3, <1>4
    <2>3. CASE t # s
      BY <2>1, <2>3, <1>4
    <2> QED
      BY <2>2, <2>3
  <1>6. \E t \in DOMAIN after : block \in DOMAIN after[t]
    BY <1>4
  <1>7. ASSUME NEW t \in DOMAIN after, NEW x \in DOMAIN after[t], x # block
        PROVE  x \in BlocksSeen(level)
    <2>1. CASE t = s
      BY <2>1, <1>3, <1>4, <1>7 DEF BlocksSeen
    <2>2. CASE t # s
      BY <2>2, <1>4, <1>7 DEF BlocksSeen
    <2> QED
      BY <2>1, <2>2
  <1>8. BlocksSeen(observe(level, geometry, block)) = UNION {DOMAIN after[t] : t \in DOMAIN after}
    BY DEF BlocksSeen, after
  <1> QED
    BY <1>5, <1>6, <1>7, <1>8

(* Only a block the level has seen can hit.                                 *)
LEMMA HitWasSeen ==
    ASSUME NEW level, NEW geometry, NEW block, Outcome(level, geometry, block) = "Hit"
    PROVE  block \in BlocksSeen(level)
  <1> DEFINE s == SetOf(geometry, block)
  <1>1. ReuseDistance(level, geometry, block) # {}
    BY DEF Outcome, OutcomeOf
  <1>2. block \in DOMAIN HistoryOf(level, s)
    BY <1>1 DEF ReuseDistance, Distance
  <1>3. s \in DOMAIN level.sets /\ block \in DOMAIN level.sets[s]
    BY <1>2 DEF HistoryOf, Unseen
  <1> QED
    BY <1>3 DEF BlocksSeen

\* A set's history holds blocks of that set, and every block's newer blocks
\* are others of the same set.
HistoriesSound(level, geometry) ==
    \A s \in DOMAIN level.sets : \A k \in DOMAIN level.sets[s] :
        /\ SetOf(geometry, k) = s
        /\ level.sets[s][k] \subseteq DOMAIN level.sets[s] \ {k}

HitDistances(histogram, geometry) == {d \in DOMAIN histogram : d < geometry.ways}

\* A histogram of natural numbers, which adds up to the finite reuses.
HistogramSound(level, geometry) ==
    LET h == level.histogram
        hits == HitDistances(h, geometry)
    IN  /\ IsFiniteSet(DOMAIN h)
        /\ \A d \in DOMAIN h : d \in Nat /\ h[d] \in Nat \ {0} /\ d < level.unique_lines
        /\ SumFunctionOnSet(h, hits) = level.hits
        /\ SumFunctionOnSet(h, DOMAIN h \ hits) = level.replacement_misses

CountsSound(level) ==
    /\ level.lookups \in Nat /\ level.hits \in Nat
    /\ level.cold_misses \in Nat /\ level.replacement_misses \in Nat
    /\ level.hits + level.cold_misses + level.replacement_misses = level.lookups
    /\ IsFiniteSet(BlocksSeen(level))
    /\ level.unique_lines = Cardinality(BlocksSeen(level))
    /\ level.unique_lines = level.cold_misses

LevelSound(level, geometry) ==
    /\ HistoriesSound(level, geometry)
    /\ HistogramSound(level, geometry)
    /\ CountsSound(level)

LEMMA ColdLevelSound ==
    ASSUME NEW geometry, geometry.ways \in Nat
    PROVE  LevelSound(ColdLevel, geometry)
  <1>1. BlocksSeen(ColdLevel) = {}
    BY DEF BlocksSeen, ColdLevel
  <1>2. HistoriesSound(ColdLevel, geometry)
    BY DEF HistoriesSound, ColdLevel
  <1>3. CountsSound(ColdLevel)
    <2>1. IsFiniteSet({}) /\ Cardinality({}) = 0
      BY FS_EmptySet
    <2> QED
      BY <1>1, <2>1, SMTT(30) DEF CountsSound, ColdLevel
  <1>4. HistogramSound(ColdLevel, geometry)
    <2> DEFINE h == ColdLevel.histogram
    <2>1. DOMAIN h = {} /\ ColdLevel.hits = 0 /\ ColdLevel.replacement_misses = 0
      BY DEF ColdLevel
    <2>2. HitDistances(h, geometry) = {}
      BY <2>1 DEF HitDistances
    <2> QED
      BY <2>1, <2>2, FS_EmptySet, SumOfNone DEF HistogramSound
  <1> QED
    BY <1>2, <1>3, <1>4 DEF LevelSound

\* What an observation answers: nothing on a first visit, else one number
\* below the count of distinct lines.
LEMMA DistanceBounded ==
    ASSUME NEW level, NEW geometry, NEW block, LevelSound(level, geometry)
    PROVE  \/ /\ ReuseDistance(level, geometry, block) = {}
              /\ block \notin BlocksSeen(level)
           \/ /\ \E d \in Nat : /\ ReuseDistance(level, geometry, block) = {d}
                                /\ d < level.unique_lines
              /\ block \in BlocksSeen(level)
  <1> DEFINE s == SetOf(geometry, block)
             history == HistoryOf(level, s)
  <1>1. CASE block \in DOMAIN history
    <2>1. s \in DOMAIN level.sets /\ history = level.sets[s]
      BY <1>1 DEF HistoryOf, Unseen
    <2> HIDE DEF history
    <2>2. block \in BlocksSeen(level)
      BY <1>1, <2>1 DEF BlocksSeen
    <2>3. history[block] \subseteq BlocksSeen(level) \ {block}
      BY <1>1, <2>1 DEF LevelSound, HistoriesSound, BlocksSeen
    <2>4. IsFiniteSet(BlocksSeen(level))
      BY DEF LevelSound, CountsSound
    <2>5. /\ IsFiniteSet(BlocksSeen(level) \ {block})
          /\ Cardinality(BlocksSeen(level) \ {block}) = Cardinality(BlocksSeen(level)) - 1
      BY <2>2, <2>4, FS_RemoveElement
    <2>6. /\ Cardinality(history[block]) \in Nat
          /\ Cardinality(history[block]) <= Cardinality(BlocksSeen(level)) - 1
      BY <2>3, <2>5, FS_Subset, FS_CardinalityType
    <2>7. Cardinality(history[block]) < level.unique_lines
      BY <2>4, <2>6, FS_CardinalityType DEF LevelSound, CountsSound
    <2>8. ReuseDistance(level, geometry, block) = {Cardinality(history[block])}
      BY <1>1 DEF ReuseDistance, Distance, history
    <2> QED
      BY <2>2, <2>6, <2>7, <2>8
  <1>2. CASE block \notin DOMAIN history
    <2>1. ReuseDistance(level, geometry, block) = {}
      BY <1>2 DEF ReuseDistance, Distance
    <2>2. ASSUME NEW t \in DOMAIN level.sets, block \in DOMAIN level.sets[t]
          PROVE  FALSE
      <3>1. t = s
        BY <2>2 DEF LevelSound, HistoriesSound
      <3> QED
        BY <2>2, <3>1, <1>2 DEF HistoryOf
    <2>3. block \notin BlocksSeen(level)
      BY <2>2 DEF BlocksSeen
    <2> QED
      BY <2>1, <2>3
  <1> QED
    BY <1>1, <1>2

LEMMA ObserveKeepsHistories ==
    ASSUME NEW level, NEW geometry, NEW block, HistoriesSound(level, geometry)
    PROVE  HistoriesSound(observe(level, geometry, block), geometry)
  <1> DEFINE s == SetOf(geometry, block)
             history == HistoryOf(level, s)
             after == observe(level, geometry, block).sets
  <1>1. after = [t \in DOMAIN level.sets \cup {s} |->
                    IF t = s THEN Touched(history, block) ELSE level.sets[t]]
    BY DEF observe
  <1>2. ASSUME NEW k \in DOMAIN history
        PROVE  SetOf(geometry, k) = s /\ history[k] \subseteq DOMAIN history \ {k}
    BY <1>2 DEF HistoryOf, Unseen, HistoriesSound
  <1> HIDE DEF history, after
  <1>3. /\ DOMAIN Touched(history, block) = DOMAIN history \cup {block}
        /\ \A k \in DOMAIN history \cup {block} :
              Touched(history, block)[k] = IF k = block THEN {} ELSE history[k] \cup {block}
    BY DEF Touched
  <1>4. ASSUME NEW t \in DOMAIN after, NEW k \in DOMAIN after[t]
        PROVE  SetOf(geometry, k) = t /\ after[t][k] \subseteq DOMAIN after[t] \ {k}
    <2>1. CASE t = s
      <3>1. after[t] = Touched(history, block)
        BY <2>1, <1>1, <1>4
      <3>2. CASE k = block
        BY <3>1, <3>2, <2>1, <1>3
      <3>3. CASE k # block
        <4>1. k \in DOMAIN history
          BY <3>1, <3>3, <1>3, <1>4
        <4>2. after[t][k] = history[k] \cup {block}
          BY <3>1, <3>3, <4>1, <1>3
        <4> QED
          BY <2>1, <3>1, <3>3, <4>1, <4>2, <1>2, <1>3
      <3> QED
        BY <3>2, <3>3
    <2>2. CASE t # s
      <3>1. t \in DOMAIN level.sets /\ after[t] = level.sets[t]
        BY <2>2, <1>1, <1>4
      <3> QED
        BY <3>1, <1>4 DEF HistoriesSound
    <2> QED
      BY <2>1, <2>2
  <1> QED
    BY <1>4 DEF HistoriesSound, after

\* The three ways an observation can go.
LEMMA OutcomeCases ==
    ASSUME NEW level, NEW geometry, NEW block, LevelSound(level, geometry),
           geometry.ways \in Nat
    PROVE  \/ /\ Outcome(level, geometry, block) = "ColdMiss"
              /\ ReuseDistance(level, geometry, block) = {}
              /\ block \notin BlocksSeen(level)
           \/ /\ block \in BlocksSeen(level)
              /\ \E d \in Nat :
                    /\ ReuseDistance(level, geometry, block) = {d}
                    /\ d < level.unique_lines
                    /\ \/ d < geometry.ways /\ Outcome(level, geometry, block) = "Hit"
                       \/ d >= geometry.ways
                          /\ Outcome(level, geometry, block) = "ReplacementMiss"
  <1>1. CASE ReuseDistance(level, geometry, block) = {}
    <2>1. block \notin BlocksSeen(level)
      BY <1>1, DistanceBounded
    <2> QED
      BY <1>1, <2>1 DEF Outcome, OutcomeOf
  <1>2. CASE ReuseDistance(level, geometry, block) # {}
    <2>1. PICK d \in Nat : ReuseDistance(level, geometry, block) = {d} /\ d < level.unique_lines
      BY <1>2, DistanceBounded
    <2>2. block \in BlocksSeen(level)
      BY <1>2, DistanceBounded
    <2>3. CASE d < geometry.ways
      <3>1. Outcome(level, geometry, block) = "Hit"
        BY <2>1, <2>3 DEF Outcome, OutcomeOf
      <3> QED
        BY <2>1, <2>2, <2>3, <3>1
    <2>4. CASE d >= geometry.ways
      <3>1. Outcome(level, geometry, block) = "ReplacementMiss"
        BY <2>1, <2>4 DEF Outcome, OutcomeOf
      <3> QED
        BY <2>1, <2>2, <2>4, <3>1
    <2> QED
      BY <2>3, <2>4
  <1> QED
    BY <1>1, <1>2

LEMMA ObserveCounts ==
    ASSUME NEW level, NEW geometry, NEW block
    PROVE  LET after == observe(level, geometry, block)
               outcome == Outcome(level, geometry, block)
           IN  /\ after.lookups = level.lookups + 1
               /\ after.hits = level.hits + (IF outcome = "Hit" THEN 1 ELSE 0)
               /\ after.cold_misses = level.cold_misses + (IF outcome = "ColdMiss" THEN 1 ELSE 0)
               /\ after.replacement_misses =
                     level.replacement_misses + (IF outcome = "ReplacementMiss" THEN 1 ELSE 0)
               /\ after.unique_lines = level.unique_lines + (IF outcome = "ColdMiss" THEN 1 ELSE 0)
               /\ after.histogram =
                     Counted(level.histogram, ReuseDistance(level, geometry, block))
  BY DEF observe, Outcome, One

LEMMA ObserveKeepsCounts ==
    ASSUME NEW level, NEW geometry, NEW block, LevelSound(level, geometry),
           geometry.ways \in Nat
    PROVE  CountsSound(observe(level, geometry, block))
  <1> DEFINE after == observe(level, geometry, block)
             outcome == Outcome(level, geometry, block)
  <1>1. /\ after.lookups = level.lookups + 1
        /\ after.hits = level.hits + (IF outcome = "Hit" THEN 1 ELSE 0)
        /\ after.cold_misses = level.cold_misses + (IF outcome = "ColdMiss" THEN 1 ELSE 0)
        /\ after.replacement_misses =
              level.replacement_misses + (IF outcome = "ReplacementMiss" THEN 1 ELSE 0)
        /\ after.unique_lines = level.unique_lines + (IF outcome = "ColdMiss" THEN 1 ELSE 0)
    BY ObserveCounts
  <1>2. BlocksSeen(after) = BlocksSeen(level) \cup {block}
    BY ObserveSees
  <1>3. CountsSound(level)
    BY DEF LevelSound
  <1>4. IsFiniteSet(BlocksSeen(level)) /\ Cardinality(BlocksSeen(level)) \in Nat
    BY <1>3, FS_CardinalityType DEF CountsSound
  <1>5. /\ IsFiniteSet(BlocksSeen(after))
        /\ Cardinality(BlocksSeen(after))
              = Cardinality(BlocksSeen(level))
                 + (IF block \in BlocksSeen(level) THEN 0 ELSE 1)
    <2>1. CASE block \in BlocksSeen(level)
      <3>1. BlocksSeen(level) \cup {block} = BlocksSeen(level)
        BY <2>1
      <3> QED
        BY <1>2, <1>4, <2>1, <3>1
    <2>2. CASE block \notin BlocksSeen(level)
      <3>1. /\ IsFiniteSet(BlocksSeen(level) \cup {block})
            /\ Cardinality(BlocksSeen(level) \cup {block}) = Cardinality(BlocksSeen(level)) + 1
        BY <1>4, <2>2, FS_AddElement
      <3> QED
        BY <1>2, <2>2, <3>1
    <2> QED
      BY <2>1, <2>2
  <1>6. \/ outcome = "ColdMiss" /\ block \notin BlocksSeen(level)
        \/ outcome = "Hit" /\ block \in BlocksSeen(level)
        \/ outcome = "ReplacementMiss" /\ block \in BlocksSeen(level)
    BY OutcomeCases
  <1> HIDE DEF after, outcome
  <1>7. /\ level.lookups \in Nat /\ level.hits \in Nat
        /\ level.cold_misses \in Nat /\ level.replacement_misses \in Nat
        /\ level.hits + level.cold_misses + level.replacement_misses = level.lookups
        /\ level.unique_lines = Cardinality(BlocksSeen(level))
        /\ level.unique_lines = level.cold_misses
    BY <1>3 DEF CountsSound
  <1>8. /\ after.lookups \in Nat /\ after.hits \in Nat
        /\ after.cold_misses \in Nat /\ after.replacement_misses \in Nat
        /\ after.hits + after.cold_misses + after.replacement_misses = after.lookups
        /\ after.unique_lines = Cardinality(BlocksSeen(after))
        /\ after.unique_lines = after.cold_misses
    BY <1>1, <1>4, <1>5, <1>6, <1>7
  <1>9. CountsSound(after)
    BY <1>5, <1>8 DEF CountsSound
  <1> QED
    BY <1>9 DEF after

LEMMA ObserveKeepsHistogram ==
    ASSUME NEW level, NEW geometry, NEW block, LevelSound(level, geometry),
           geometry.ways \in Nat
    PROVE  HistogramSound(observe(level, geometry, block), geometry)
  <1> DEFINE after == observe(level, geometry, block)
             outcome == Outcome(level, geometry, block)
             distance == ReuseDistance(level, geometry, block)
             h == level.histogram
             new == after.histogram
  <1>1. /\ after.hits = level.hits + (IF outcome = "Hit" THEN 1 ELSE 0)
        /\ after.replacement_misses =
              level.replacement_misses + (IF outcome = "ReplacementMiss" THEN 1 ELSE 0)
        /\ after.unique_lines = level.unique_lines + (IF outcome = "ColdMiss" THEN 1 ELSE 0)
        /\ new = Counted(h, distance)
    BY ObserveCounts
  <1>2. /\ IsFiniteSet(DOMAIN h)
        /\ \A d \in DOMAIN h : d \in Nat /\ h[d] \in Nat \ {0} /\ d < level.unique_lines
        /\ SumFunctionOnSet(h, HitDistances(h, geometry)) = level.hits
        /\ SumFunctionOnSet(h, DOMAIN h \ HitDistances(h, geometry)) = level.replacement_misses
    BY DEF LevelSound, HistogramSound
  <1>3. level.unique_lines \in Nat /\ level.hits \in Nat /\ level.replacement_misses \in Nat
    BY DEF LevelSound, CountsSound
  <1>4. CASE distance = {}
    <2>1. outcome = "ColdMiss"
      BY <1>4, OutcomeCases
    <2>2. DOMAIN new = DOMAIN h /\ \A d \in DOMAIN h : new[d] = h[d]
      BY <1>1, <1>2, <1>4 DEF Counted
    <2>3. HitDistances(new, geometry) = HitDistances(h, geometry)
      BY <2>2 DEF HitDistances
    <2>4. IsFiniteSet(HitDistances(h, geometry)) /\ IsFiniteSet(DOMAIN h \ HitDistances(h, geometry))
      BY <1>2, FS_Subset DEF HitDistances
    <2>5. /\ SumFunctionOnSet(new, HitDistances(h, geometry)) = SumFunctionOnSet(h, HitDistances(h, geometry))
          /\ SumFunctionOnSet(new, DOMAIN h \ HitDistances(h, geometry))
                = SumFunctionOnSet(h, DOMAIN h \ HitDistances(h, geometry))
      <3>1. \A d \in HitDistances(h, geometry) : new[d] = h[d]
        BY <2>2 DEF HitDistances
      <3> HIDE DEF new, h
      <3> QED
        BY <2>2, <2>4, <3>1, SumSame
    <2> HIDE DEF new, h, after, outcome
    <2> QED
      BY <1>1, <1>2, <1>3, <2>1, <2>2, <2>3, <2>5 DEF HistogramSound, new, after
  <1>5. ASSUME NEW d \in Nat, distance = {d}, d < level.unique_lines
        PROVE  HistogramSound(after, geometry)
    <2> DEFINE hits == HitDistances(h, geometry)
               rest == DOMAIN h \ hits
    <2>1. /\ DOMAIN new = DOMAIN h \cup {d}
          /\ new[d] = (IF d \in DOMAIN h THEN h[d] ELSE 0) + 1
          /\ \A e \in DOMAIN h : e # d => new[e] = h[e]
      <3>1. /\ DOMAIN new = DOMAIN h \cup {d}
            /\ \A e \in DOMAIN h \cup {d} : new[e] = (IF e \in DOMAIN h THEN h[e] ELSE 0)
                                              + (IF e \in {d} THEN 1 ELSE 0)
        BY <1>1, <1>5 DEF Counted
      <3> HIDE DEF new, h
      <3> QED
        BY <1>2, <3>1
    <2>2. outcome = IF d < geometry.ways THEN "Hit" ELSE "ReplacementMiss"
      BY <1>5, OutcomeCases
    <2>3. after.unique_lines = level.unique_lines
      BY <1>1, <1>3, <2>2
    <2>4. IsFiniteSet(DOMAIN new) /\ IsFiniteSet(hits) /\ IsFiniteSet(rest)
      BY <1>2, <2>1, FS_AddElement, FS_Subset DEF HitDistances
    <2> HIDE DEF new, h, after, outcome, distance
    <2>5. \A e \in DOMAIN new : e \in Nat /\ new[e] \in Nat \ {0} /\ e < after.unique_lines
      BY <1>2, <1>5, <2>1, <2>3
    <2>6. \A e \in DOMAIN h : h[e] \in Nat
      BY <1>2
    <2>8. CASE d < geometry.ways
      <3>1. HitDistances(new, geometry) = hits \cup {d} /\ DOMAIN new \ (hits \cup {d}) = rest
        BY <2>1, <2>8 DEF HitDistances
      <3>2. d \in hits <=> d \in DOMAIN h
        BY <2>8 DEF HitDistances
      <3>3. SumFunctionOnSet(new, hits \cup {d}) = SumFunctionOnSet(h, hits) + 1
        <4>1. /\ \A j \in hits : h[j] \in Nat
              /\ \A j \in hits : j # d => new[j] = h[j]
              /\ new[d] = (IF d \in hits THEN h[d] ELSE 0) + 1
          BY <2>1, <2>6, <3>2 DEF HitDistances
        <4> HIDE DEF hits, rest
        <4> QED
          BY <2>4, <4>1, SumCounted
      <3>4. SumFunctionOnSet(new, rest) = SumFunctionOnSet(h, rest)
        <4>1. \A j \in rest : new[j] = h[j]
          BY <2>1, <2>8 DEF HitDistances
        <4> HIDE DEF rest
        <4> QED
          BY <2>4, <4>1, SumSame
      <3>5. /\ SumFunctionOnSet(h, hits) = level.hits
            /\ SumFunctionOnSet(h, rest) = level.replacement_misses
            /\ d \in DOMAIN h => h[d] \in Nat
        BY <1>2
      <3>6. after.hits = level.hits + 1 /\ after.replacement_misses = level.replacement_misses
        BY <1>1, <1>3, <2>2, <2>8
      <3> HIDE DEF hits, rest
      <3> QED
        BY <2>4, <2>5, <3>1, <3>3, <3>4, <3>5, <3>6 DEF HistogramSound, new
    <2>9. CASE ~(d < geometry.ways)
      <3>1. HitDistances(new, geometry) = hits /\ DOMAIN new \ hits = rest \cup {d}
        BY <2>1, <2>9 DEF HitDistances
      <3>2. d \in rest <=> d \in DOMAIN h
        BY <2>9 DEF HitDistances
      <3>3. SumFunctionOnSet(new, rest \cup {d}) = SumFunctionOnSet(h, rest) + 1
        <4>1. /\ \A j \in rest : h[j] \in Nat
              /\ \A j \in rest : j # d => new[j] = h[j]
              /\ new[d] = (IF d \in rest THEN h[d] ELSE 0) + 1
          BY <2>1, <2>6, <3>2 DEF HitDistances
        <4> HIDE DEF hits, rest
        <4> QED
          BY <2>4, <4>1, SumCounted
      <3>4. SumFunctionOnSet(new, hits) = SumFunctionOnSet(h, hits)
        <4>1. \A j \in hits : new[j] = h[j]
          BY <2>1, <2>9 DEF HitDistances
        <4> HIDE DEF hits
        <4> QED
          BY <2>4, <4>1, SumSame
      <3>5. /\ SumFunctionOnSet(h, hits) = level.hits
            /\ SumFunctionOnSet(h, rest) = level.replacement_misses
            /\ d \in DOMAIN h => h[d] \in Nat
        BY <1>2
      <3>6. after.replacement_misses = level.replacement_misses + 1 /\ after.hits = level.hits
        BY <1>1, <1>3, <2>2, <2>9
      <3> HIDE DEF hits, rest
      <3> QED
        BY <2>4, <2>5, <3>1, <3>3, <3>4, <3>5, <3>6 DEF HistogramSound, new
    <2> QED
      BY <2>8, <2>9 DEF after
  <1> QED
    BY <1>4, <1>5, DistanceBounded

LEMMA ObserveKeepsSound ==
    ASSUME NEW level, NEW geometry, NEW block, LevelSound(level, geometry),
           geometry.ways \in Nat
    PROVE  LevelSound(observe(level, geometry, block), geometry)
  <1>1. HistoriesSound(observe(level, geometry, block), geometry)
    BY ObserveKeepsHistories DEF LevelSound
  <1> QED
    BY <1>1, ObserveKeepsCounts, ObserveKeepsHistogram DEF LevelSound

-----------------------------------------------------------------------------
(* Sequences that only grow, whatever they hold.                            *)

IsSequence(s) == \E S : s \in Seq(S)

LEMMA SequenceLength ==
    ASSUME NEW s, IsSequence(s)
    PROVE  Len(s) \in Nat /\ DOMAIN s = 1..Len(s)
  BY DEF IsSequence

LEMMA EmptySequence == IsSequence(<<>>) /\ Len(<<>>) = 0 /\ DOMAIN <<>> = {}
  BY DEF IsSequence

LEMMA Appended ==
    ASSUME NEW s, NEW e, IsSequence(s)
    PROVE  /\ IsSequence(Append(s, e))
           /\ Len(Append(s, e)) = Len(s) + 1
           /\ \A i \in 1..Len(s) : Append(s, e)[i] = s[i]
           /\ Append(s, e)[Len(s) + 1] = e
  <1>1. PICK S : s \in Seq(S)
    BY DEF IsSequence
  <1> DEFINE T == S \cup {e}
  <1>2. s \in Seq(T) /\ e \in T
    BY <1>1, SeqMonotonic
  <1> QED
    BY <1>2, AppendProperties DEF IsSequence

(* One more number at the end of a sequence adds it to the sum.             *)
LEMMA SumAppended ==
    ASSUME NEW n \in Nat, NEW f, NEW g, DOMAIN f = 1..n, DOMAIN g = 1..n + 1,
           \A i \in 1..n : f[i] \in Nat /\ g[i] = f[i], g[n + 1] \in Nat
    PROVE  SumFunction(g) = SumFunction(f) + g[n + 1] /\ SumFunction(f) \in Nat
  <1>1. IsFiniteSet(1..n)
    BY FS_Interval
  <1>2. SumFunctionOnSet(f, 1..n) \in Nat
    BY <1>1, SumIsNat
  <1>3. SumFunctionOnSet(g, 1..n) = SumFunctionOnSet(f, 1..n)
    <2>1. \A i \in 1..n : g[i] = f[i]
      OBVIOUS
    <2> QED
      BY <1>1, <2>1, SumSame
  <1>4. SumFunctionOnSet(g, 1..n + 1)
           = g[n + 1] + SumFunctionOnSet(g, (1..n + 1) \ {n + 1})
    <2> DEFINE s == 1..n + 1
               last == n + 1
    <2>1. IsFiniteSet(s)
      BY FS_Interval
    <2>2. last \in s /\ \A i \in s : g[i] \in Nat
      OBVIOUS
    <2>3. SumFunctionOnSet(g, s) = g[last] + SumFunctionOnSet(g, s \ {last})
      <3> HIDE DEF s, last
      <3> QED
        BY <2>1, <2>2, SumWithout
    <2> QED
      BY <2>3
  <1>5. (1..n + 1) \ {n + 1} = 1..n
    OBVIOUS
  <1>6. /\ SumFunction(g) = SumFunctionOnSet(g, 1..n + 1)
        /\ SumFunction(f) = SumFunctionOnSet(f, 1..n)
    BY DEF SumFunction
  <1> DEFINE before == SumFunctionOnSet(f, 1..n)
             after == SumFunctionOnSet(g, 1..n + 1)
             last == g[n + 1]
  <1>7. before \in Nat /\ last \in Nat /\ after = last + before
    BY <1>2, <1>3, <1>4, <1>5
  <1> HIDE DEF before, after, last
  <1>8. after = before + last /\ before \in Nat
    BY <1>7
  <1> QED
    BY <1>6, <1>8 DEF before, after, last

-----------------------------------------------------------------------------
(* The parts of the invariant.                                              *)

Coverages == [source : Nat, resolved : Nat, rejected : Nat, lines : Nat]

ActiveShape ==
    /\ DOMAIN active = DOMAIN ColdTask
    /\ active.source_accesses \in Nat /\ active.modeled_accesses \in Nat
    /\ active.l1_first_hit_count \in Nat /\ active.llc_first_hit_count \in Nat
    /\ active.all_cache_misses \in Nat /\ active.next_span_ordinal \in Nat

\* The types of the state, the task's two levels apart.
Shape ==
    /\ options \in [event_sink : BOOLEAN, event_limit : Nat, statistics_sink : BOOLEAN,
                    sources : Nat, lines : Nat, absolute : BOOLEAN]
    /\ roots \in Nat \ {0}
    /\ budget \in [sources : Nat, lines : Nat]
    /\ unroller \in [ordinal : Nat, coverage : Coverages, before : Coverages]
    /\ ActiveShape
    /\ pending \in [block : Nat, span : Nat, last : Nat]
    /\ delivery \in [emitted_events : Nat, events_truncated : BOOLEAN]
    /\ IsSequence(collected) /\ IsSequence(completed)
    /\ coverage \in Coverages

\* Both levels are sound and have seen the same blocks.
Levels ==
    /\ LevelSound(active.l1, L1) /\ LevelSound(active.llc, LLC)
    /\ SameFootprint

\* The task's own counters are those of its levels.
ServiceCounted ==
    /\ active.modeled_accesses = active.l1.lookups
    /\ active.l1_first_hit_count = active.l1.hits
    /\ active.llc_first_hit_count = active.llc.hits
    /\ active.all_cache_misses = active.llc.cold_misses + active.llc.replacement_misses
    /\ active.llc.lookups = active.l1.cold_misses + active.l1.replacement_misses

\* Producer and task are at the same access and the same line of it, and every
\* access before it has given at least one line.
Position ==
    /\ InTask => unroller.ordinal = active.source_accesses
    /\ stage = "task" =>
          /\ active.source_accesses <= active.modeled_accesses
          /\ active.source_accesses = 0 => active.modeled_accesses = 0
    /\ stage = "mapping" =>
          /\ active.source_accesses # 0
          /\ active.source_accesses <= active.modeled_accesses + One(pending.span = 0)
          /\ pending.span = active.next_span_ordinal
          /\ pending.block \in Blocks /\ pending.last \in Blocks
          /\ pending.block <= pending.last

-----------------------------------------------------------------------------
(* What the initial state and the steps are, field by field.                *)

LEMMA Geometries == L1.ways \in Nat /\ LLC.ways \in Nat
  BY HierarchyAssumption DEF HierarchyAssumption

LEMMA ColdTaskFields ==
    /\ ColdTask.l1 = ColdLevel /\ ColdTask.llc = ColdLevel
    /\ ColdTask.source_accesses = 0 /\ ColdTask.modeled_accesses = 0
    /\ ColdTask.l1_first_hit_count = 0 /\ ColdTask.llc_first_hit_count = 0
    /\ ColdTask.all_cache_misses = 0 /\ ColdTask.next_span_ordinal = 0
    /\ ColdLevel.lookups = 0 /\ ColdLevel.hits = 0
    /\ ColdLevel.cold_misses = 0 /\ ColdLevel.replacement_misses = 0
  BY DEF ColdTask, ColdLevel

LEMMA ObservedFields ==
    ASSUME ActiveShape
    PROVE  /\ DOMAIN Observed = DOMAIN ColdTask
           /\ Observed.l1 = observe(active.l1, L1, b)
           /\ Observed.llc = IF l1_outcome = "Hit" THEN active.llc
                             ELSE observe(active.llc, LLC, b)
           /\ Observed.source_accesses = active.source_accesses
           /\ Observed.modeled_accesses = active.modeled_accesses + 1
           /\ Observed.l1_first_hit_count =
                 active.l1_first_hit_count + (IF first_service = "L1" THEN 1 ELSE 0)
           /\ Observed.llc_first_hit_count =
                 active.llc_first_hit_count + (IF first_service = "LLC" THEN 1 ELSE 0)
           /\ Observed.all_cache_misses =
                 active.all_cache_misses + (IF first_service = "Memory" THEN 1 ELSE 0)
           /\ Observed.next_span_ordinal = active.next_span_ordinal + 1
  BY DEF ActiveShape, ColdTask, Observed, One

\* The task after it accepted an access.
Accepted == [active EXCEPT !.source_accesses = @ + 1, !.next_span_ordinal = 0]

LEMMA AcceptedFields ==
    ASSUME ActiveShape
    PROVE  /\ DOMAIN Accepted = DOMAIN ColdTask
           /\ Accepted.l1 = active.l1 /\ Accepted.llc = active.llc
           /\ Accepted.source_accesses = active.source_accesses + 1
           /\ Accepted.modeled_accesses = active.modeled_accesses
           /\ Accepted.l1_first_hit_count = active.l1_first_hit_count
           /\ Accepted.llc_first_hit_count = active.llc_first_hit_count
           /\ Accepted.all_cache_misses = active.all_cache_misses
           /\ Accepted.next_span_ordinal = 0
  BY DEF ActiveShape, ColdTask, Accepted

\* The task changes in three ways only.
LEMMA ActiveSteps ==
    ASSUME [Next]_vars
    PROVE  \/ active' = active
           \/ active' = ColdTask
           \/ active' = Accepted
           \/ active' = Observed
  <1>1. ASSUME NEW excluded \in BOOLEAN, BeginTask(excluded)
        PROVE  active' = active \/ active' = ColdTask
    BY <1>1 DEF BeginTask
  <1>2. ASSUME NEW first, NEW last, AccessResolved(first, last)
        PROVE  active' = active \/ active' = Accepted
    BY <1>2 DEF AccessResolved, Accepted
  <1>3. CASE Produce
    BY <1>2, <1>3 DEF Produce, TraversalFails, SourceBudgetExhausted, AccessRejected
  <1>4. CASE ObserveLine
    BY <1>4 DEF ObserveLine
  <1>5. CASE LineBudgetExhausted \/ EndTask \/ Return \/ UNCHANGED vars
    BY <1>5 DEF LineBudgetExhausted, EndTask, Return, vars
  <1> QED
    BY <1>1, <1>3, <1>4, <1>5 DEF Next

LEMMA ActiveShapeKept == ASSUME ActiveShape, [Next]_vars PROVE ActiveShape'
  <1>1. CASE active' = active
    BY <1>1 DEF ActiveShape
  <1>2. CASE active' = ColdTask
    BY <1>2, ColdTaskFields DEF ActiveShape
  <1>3. CASE active' = Accepted
    <2> HIDE DEF Accepted
    <2> QED
      BY <1>3, AcceptedFields DEF ActiveShape
  <1>4. CASE active' = Observed
    BY <1>4, ObservedFields DEF ActiveShape
  <1> QED
    BY <1>1, <1>2, <1>3, <1>4, ActiveSteps

-----------------------------------------------------------------------------
(* The task.                                                                *)

\* The level that serves a line is the one whose lookup hit.
LEMMA ServiceCases ==
    ASSUME ActiveShape, Levels
    PROVE  \/ l1_outcome = "Hit" /\ first_service = "L1"
           \/ l1_outcome # "Hit" /\ llc_outcome = "Hit" /\ first_service = "LLC"
           \/ l1_outcome # "Hit" /\ llc_outcome # "Hit" /\ first_service = "Memory"
  BY DEF first_service

LEMMA LevelsKept == ASSUME ActiveShape, Levels, [Next]_vars PROVE Levels'
  <1>1. CASE active' = active
    BY <1>1 DEF Levels, SameFootprint
  <1>2. CASE active' = ColdTask
    <2>1. active'.l1 = ColdLevel /\ active'.llc = ColdLevel
      BY <1>2, ColdTaskFields
    <2>2. LevelSound(ColdLevel, L1) /\ LevelSound(ColdLevel, LLC)
      BY Geometries, ColdLevelSound
    <2> QED
      BY <2>1, <2>2 DEF Levels, SameFootprint
  <1>3. CASE active' = Accepted
    <2>1. active'.l1 = active.l1 /\ active'.llc = active.llc
      BY <1>3, AcceptedFields
    <2> QED
      BY <2>1 DEF Levels, SameFootprint
  <1>4. CASE active' = Observed
    <2>1. /\ active'.l1 = observe(active.l1, L1, b)
          /\ active'.llc = IF l1_outcome = "Hit" THEN active.llc
                           ELSE observe(active.llc, LLC, b)
      BY <1>4, ObservedFields
    <2>2. LevelSound(active.l1, L1) /\ LevelSound(active.llc, LLC)
          /\ BlocksSeen(active.l1) = BlocksSeen(active.llc)
      BY DEF Levels, SameFootprint
    <2>3. LevelSound(active'.l1, L1)
      BY <2>1, <2>2, Geometries, ObserveKeepsSound
    <2>4. BlocksSeen(active'.l1) = BlocksSeen(active.l1) \cup {b}
      BY <2>1, ObserveSees
    <2>5. CASE l1_outcome = "Hit"
      <3>1. b \in BlocksSeen(active.l1)
        BY <2>5, HitWasSeen DEF l1_outcome
      <3> QED
        BY <2>1, <2>2, <2>3, <2>4, <2>5, <3>1 DEF Levels, SameFootprint
    <2>6. CASE l1_outcome # "Hit"
      <3>1. LevelSound(active'.llc, LLC)
        BY <2>1, <2>2, <2>6, Geometries, ObserveKeepsSound
      <3>2. BlocksSeen(active'.llc) = BlocksSeen(active.llc) \cup {b}
        BY <2>1, <2>6, ObserveSees
      <3> QED
        BY <2>2, <2>3, <2>4, <3>1, <3>2 DEF Levels, SameFootprint
    <2> QED
      BY <2>5, <2>6
  <1> QED
    BY <1>1, <1>2, <1>3, <1>4, ActiveSteps

LEMMA LevelCountsAreNatural ==
    ASSUME Levels
    PROVE  /\ active.l1.lookups \in Nat /\ active.l1.hits \in Nat
           /\ active.l1.cold_misses \in Nat /\ active.l1.replacement_misses \in Nat
           /\ active.llc.lookups \in Nat /\ active.llc.hits \in Nat
           /\ active.llc.cold_misses \in Nat /\ active.llc.replacement_misses \in Nat
  BY DEF Levels, LevelSound, CountsSound

\* One lookup of a level counts once, under its outcome.
LEMMA LookupCounts ==
    ASSUME NEW level, NEW geometry, NEW block, LevelSound(level, geometry),
           geometry.ways \in Nat
    PROVE  LET after == observe(level, geometry, block)
           IN  /\ after.lookups = level.lookups + 1
               /\ \/ /\ Outcome(level, geometry, block) = "Hit"
                     /\ after.hits = level.hits + 1
                     /\ after.cold_misses + after.replacement_misses
                           = level.cold_misses + level.replacement_misses
                  \/ /\ Outcome(level, geometry, block) # "Hit"
                     /\ after.hits = level.hits
                     /\ after.cold_misses + after.replacement_misses
                           = level.cold_misses + level.replacement_misses + 1
  <1> DEFINE after == observe(level, geometry, block)
             outcome == Outcome(level, geometry, block)
  <1>1. /\ after.lookups = level.lookups + 1
        /\ after.hits = level.hits + (IF outcome = "Hit" THEN 1 ELSE 0)
        /\ after.cold_misses = level.cold_misses + (IF outcome = "ColdMiss" THEN 1 ELSE 0)
        /\ after.replacement_misses =
              level.replacement_misses + (IF outcome = "ReplacementMiss" THEN 1 ELSE 0)
    BY ObserveCounts
  <1>2. outcome \in {"ColdMiss", "Hit", "ReplacementMiss"}
    BY OutcomeCases
  <1>3. /\ level.lookups \in Nat /\ level.hits \in Nat
        /\ level.cold_misses \in Nat /\ level.replacement_misses \in Nat
    BY DEF LevelSound, CountsSound
  <1> HIDE DEF after, outcome
  <1>4. /\ after.lookups = level.lookups + 1
        /\ \/ /\ outcome = "Hit"
              /\ after.hits = level.hits + 1
              /\ after.cold_misses + after.replacement_misses
                    = level.cold_misses + level.replacement_misses
           \/ /\ outcome # "Hit"
              /\ after.hits = level.hits
              /\ after.cold_misses + after.replacement_misses
                    = level.cold_misses + level.replacement_misses + 1
    BY <1>1, <1>2, <1>3
  <1> QED
    BY <1>4 DEF after, outcome

LEMMA ServiceCountedKept ==
    ASSUME ActiveShape, Levels, ServiceCounted, [Next]_vars
    PROVE  ServiceCounted'
  <1>1. CASE active' = active
    BY <1>1 DEF ServiceCounted
  <1>2. CASE active' = ColdTask
    BY <1>2, ColdTaskFields DEF ServiceCounted
  <1>3. CASE active' = Accepted
    BY <1>3, AcceptedFields DEF ServiceCounted
  <1>4. CASE active' = Observed
    <2> DEFINE l1 == observe(active.l1, L1, b)
               llc == observe(active.llc, LLC, b)
    <2>1. /\ active'.l1 = l1
          /\ active'.llc = IF l1_outcome = "Hit" THEN active.llc ELSE llc
          /\ active'.modeled_accesses = active.modeled_accesses + 1
          /\ active'.l1_first_hit_count =
                active.l1_first_hit_count + (IF first_service = "L1" THEN 1 ELSE 0)
          /\ active'.llc_first_hit_count =
                active.llc_first_hit_count + (IF first_service = "LLC" THEN 1 ELSE 0)
          /\ active'.all_cache_misses =
                active.all_cache_misses + (IF first_service = "Memory" THEN 1 ELSE 0)
      BY <1>4, ObservedFields
    <2>2. LevelSound(active.l1, L1) /\ LevelSound(active.llc, LLC)
      BY DEF Levels
    <2>3. /\ l1.lookups = active.l1.lookups + 1
          /\ \/ /\ l1_outcome = "Hit"
                /\ l1.hits = active.l1.hits + 1
                /\ l1.cold_misses + l1.replacement_misses
                      = active.l1.cold_misses + active.l1.replacement_misses
             \/ /\ l1_outcome # "Hit"
                /\ l1.hits = active.l1.hits
                /\ l1.cold_misses + l1.replacement_misses
                      = active.l1.cold_misses + active.l1.replacement_misses + 1
      BY <2>2, Geometries, LookupCounts DEF l1_outcome
    <2>4. /\ llc.lookups = active.llc.lookups + 1
          /\ \/ /\ llc_outcome = "Hit"
                /\ llc.hits = active.llc.hits + 1
                /\ llc.cold_misses + llc.replacement_misses
                      = active.llc.cold_misses + active.llc.replacement_misses
             \/ /\ llc_outcome # "Hit"
                /\ llc.hits = active.llc.hits
                /\ llc.cold_misses + llc.replacement_misses
                      = active.llc.cold_misses + active.llc.replacement_misses + 1
      BY <2>2, Geometries, LookupCounts DEF llc_outcome
    <2> HIDE DEF l1, llc
    <2>5. CASE l1_outcome = "Hit"
      <3>1. first_service = "L1"
        BY <2>5, ServiceCases
      <3>2. /\ active.l1_first_hit_count \in Nat /\ active.llc_first_hit_count \in Nat
            /\ active.all_cache_misses \in Nat
        BY DEF ActiveShape
      <3> QED
        BY <2>1, <2>3, <2>5, <3>1, <3>2, LevelCountsAreNatural DEF ServiceCounted
    <2>6. CASE l1_outcome # "Hit" /\ llc_outcome = "Hit"
      <3>1. first_service = "LLC"
        BY <2>6, ServiceCases
      <3>2. /\ active.l1_first_hit_count \in Nat /\ active.llc_first_hit_count \in Nat
            /\ active.all_cache_misses \in Nat
        BY DEF ActiveShape
      <3> QED
        BY <2>1, <2>3, <2>4, <2>6, <3>1, <3>2, LevelCountsAreNatural DEF ServiceCounted
    <2>7. CASE l1_outcome # "Hit" /\ llc_outcome # "Hit"
      <3>1. first_service = "Memory"
        BY <2>7, ServiceCases
      <3>2. /\ active.l1_first_hit_count \in Nat /\ active.llc_first_hit_count \in Nat
            /\ active.all_cache_misses \in Nat
        BY DEF ActiveShape
      <3> QED
        BY <2>1, <2>3, <2>4, <2>7, <3>1, <3>2, LevelCountsAreNatural DEF ServiceCounted
    <2> QED
      BY <2>5, <2>6, <2>7
  <1> QED
    BY <1>1, <1>2, <1>3, <1>4, ActiveSteps

-----------------------------------------------------------------------------
(* Types and positions.                                                     *)

LEMMA InitShape == Init => Shape
  <1> SUFFICES ASSUME Init PROVE Shape
    OBVIOUS
  <1>1. ActiveShape
    BY ColdTaskFields DEF Init, ActiveShape
  <1>2. /\ options \in [event_sink : BOOLEAN, event_limit : Nat, statistics_sink : BOOLEAN,
                        sources : Nat, lines : Nat, absolute : BOOLEAN]
        /\ roots \in Nat \ {0}
    BY HierarchyAssumption DEF Init, HierarchyAssumption
  <1>3. NoCoverage \in Coverages
    BY DEF NoCoverage, Coverages
  <1>4. unroller \in [ordinal : Nat, coverage : Coverages, before : Coverages]
    BY <1>3 DEF Init
  <1>5. /\ budget \in [sources : Nat, lines : Nat]
        /\ pending \in [block : Nat, span : Nat, last : Nat]
        /\ delivery \in [emitted_events : Nat, events_truncated : BOOLEAN]
    BY DEF Init, NoLines
  <1>6. IsSequence(collected) /\ IsSequence(completed)
    BY EmptySequence DEF Init
  <1> QED
    BY <1>1, <1>2, <1>3, <1>4, <1>5, <1>6 DEF Shape, Init

LEMMA ChargedFields ==
    ASSUME Shape
    PROVE  /\ Charged.ordinal = unroller.ordinal + 1
           /\ Charged.before = unroller.before
           /\ Charged.coverage.source = unroller.coverage.source + 1
           /\ Charged.coverage.resolved = unroller.coverage.resolved
           /\ Charged.coverage.rejected = unroller.coverage.rejected
           /\ Charged.coverage.lines = unroller.coverage.lines
           /\ Charged \in [ordinal : Nat, coverage : Coverages, before : Coverages]
  <1> DEFINE counted == [unroller.coverage EXCEPT !.source = @ + 1]
  <1>1. unroller \in [ordinal : Nat, coverage : Coverages, before : Coverages]
    BY DEF Shape
  <1>2. /\ counted.source = unroller.coverage.source + 1
        /\ counted.resolved = unroller.coverage.resolved
        /\ counted.rejected = unroller.coverage.rejected
        /\ counted.lines = unroller.coverage.lines
        /\ counted \in Coverages
    BY <1>1 DEF Coverages
  <1>3. Charged = [unroller EXCEPT !.ordinal = unroller.ordinal + 1, !.coverage = counted]
    BY <1>1 DEF Charged
  <1> HIDE DEF counted
  <1>4. /\ Charged.ordinal = unroller.ordinal + 1
        /\ Charged.before = unroller.before
        /\ Charged.coverage = counted
    BY <1>1, <1>3
  <1>5. Charged = [ordinal |-> unroller.ordinal + 1, coverage |-> counted,
                   before |-> unroller.before]
    BY <1>1, <1>3
  <1>6. unroller.ordinal + 1 \in Nat /\ unroller.before \in Coverages
    BY <1>1
  <1>7. Charged \in [ordinal : Nat, coverage : Coverages, before : Coverages]
    BY <1>2, <1>5, <1>6
  <1> HIDE DEF Charged
  <1> QED
    BY <1>2, <1>4, <1>7

\* The task summary's coverage, added to the module's.
LEMMA CoverageArithmetic ==
    ASSUME NEW c \in Coverages, NEW d \in Coverages
    PROVE  /\ DOMAIN Plus(c, d) = {"source", "resolved", "rejected", "lines"}
           /\ DOMAIN Minus(c, d) = {"source", "resolved", "rejected", "lines"}
           /\ Plus(c, d) \in Coverages
           /\ \A field \in {"source", "resolved", "rejected", "lines"} :
                 /\ Plus(c, d)[field] = c[field] + d[field]
                 /\ Minus(c, d)[field] = c[field] - d[field]
  <1>1. DOMAIN c = {"source", "resolved", "rejected", "lines"}
    BY DEF Coverages
  <1>2. /\ Plus(c, d) = [x \in DOMAIN c |-> c[x] + d[x]]
        /\ Minus(c, d) = [x \in DOMAIN c |-> c[x] - d[x]]
    BY DEF Plus, Minus, Combined
  <1>3. \A field \in DOMAIN c : c[field] + d[field] \in Nat
    BY <1>1 DEF Coverages
  <1>4. Plus(c, d) \in Coverages
    <2>1. /\ c.source + d.source \in Nat /\ c.resolved + d.resolved \in Nat
          /\ c.rejected + d.rejected \in Nat /\ c.lines + d.lines \in Nat
      BY DEF Coverages
    <2>2. Plus(c, d) = [source |-> c.source + d.source, resolved |-> c.resolved + d.resolved,
                        rejected |-> c.rejected + d.rejected, lines |-> c.lines + d.lines]
      BY <1>1, <1>2
    <2> QED
      BY <2>1, <2>2 DEF Coverages
  <1> QED
    BY <1>1, <1>2, <1>4

\* An observed line either ends the analysis or takes the mapping one line on.
LEMMA ObserveSteps ==
    ASSUME Shape, ObserveLine
    PROVE  /\ stage = "mapping" /\ budget.lines < options.lines
           /\ budget' \in [sources : Nat, lines : Nat]
           /\ budget'.sources = budget.sources /\ budget'.lines = budget.lines + 1
           /\ UNCHANGED <<options, roots, unroller, completed, coverage>>
           /\ \/ /\ stage' = "failed"
                 /\ failure' = "sink" \/ (failure' = "provenance" /\ ~ProvenanceAgrees)
                 /\ UNCHANGED <<pending, delivery, collected>>
              \/ /\ active' = Observed /\ failure' = failure
                 /\ \/ /\ pending.block = pending.last
                       /\ stage' = "task" /\ pending' = NoLines
                    \/ /\ pending.block # pending.last
                       /\ stage' = "mapping"
                       /\ pending' \in [block : Nat, span : Nat, last : Nat]
                       /\ pending'.block = pending.block + 1
                       /\ pending'.span = pending.span + 1
                       /\ pending'.last = pending.last
                 /\ \/ Undelivered
                    \/ Delivered
  <1>1. /\ stage = "mapping" /\ budget.lines < options.lines
        /\ UNCHANGED <<options, roots, unroller, completed, coverage>>
    BY DEF ObserveLine, LineAllowed, fixed
  <1>2. /\ budget' \in [sources : Nat, lines : Nat]
        /\ budget'.sources = budget.sources /\ budget'.lines = budget.lines + 1
    BY DEF ObserveLine, LineCharged, Shape
  <1>3. CASE ~ProvenanceAgrees
    BY <1>1, <1>2, <1>3 DEF ObserveLine, Fail
  <1>4. CASE ProvenanceAgrees /\ SinkThrows
    BY <1>1, <1>2, <1>4 DEF SinkThrows, Fail
  <1>5. CASE ProvenanceAgrees /\ active' = Observed /\ (Undelivered \/ Delivered)
    <2>1. Advance
      BY <1>5 DEF Undelivered, Delivered
    <2>2. pending \in [block : Nat, span : Nat, last : Nat]
      BY DEF Shape
    <2>3. /\ failure' = failure
          /\ \/ /\ pending.block = pending.last
                /\ stage' = "task" /\ pending' = NoLines
             \/ /\ pending.block # pending.last
                /\ stage' = "mapping"
                /\ pending' \in [block : Nat, span : Nat, last : Nat]
                /\ pending'.block = pending.block + 1
                /\ pending'.span = pending.span + 1
                /\ pending'.last = pending.last
      <3>1. CASE pending.block = pending.last
        BY <2>1, <3>1 DEF Advance
      <3>2. CASE pending.block # pending.last
        <4>1. pending' = [pending EXCEPT !.block = pending.block + 1, !.span = pending.span + 1]
              /\ stage' = "mapping" /\ failure' = failure
          BY <1>1, <2>1, <3>2 DEF Advance
        <4>2. pending' = [block |-> pending.block + 1, span |-> pending.span + 1,
                          last |-> pending.last]
          BY <2>2, <4>1
        <4>3. pending.block + 1 \in Nat /\ pending.span + 1 \in Nat /\ pending.last \in Nat
          BY <2>2
        <4> QED
          BY <3>2, <4>1, <4>2, <4>3
      <3> QED
        BY <3>1, <3>2
    <2> QED
      BY <1>1, <1>2, <1>5, <2>3
  <1> QED
    BY <1>3, <1>4, <1>5 DEF ObserveLine

\* What happens to the event of the line.
LEMMA UndeliveredFields ==
    ASSUME Shape, Undelivered
    PROVE  /\ options.event_sink => LimitReached
           /\ delivery' \in [emitted_events : Nat, events_truncated : BOOLEAN]
           /\ delivery'.emitted_events = delivery.emitted_events
           /\ options.event_sink => delivery'.events_truncated
           /\ ~options.event_sink => delivery'.events_truncated = delivery.events_truncated
           /\ collected' = collected
  <1>1. delivery \in [emitted_events : Nat, events_truncated : BOOLEAN]
        /\ options.event_sink \in BOOLEAN
    BY DEF Shape
  <1> DEFINE mark == options.event_sink \/ delivery.events_truncated
  <1>2. delivery' = [delivery EXCEPT !.events_truncated = mark]
    BY DEF Undelivered
  <1>3. mark \in BOOLEAN
    BY <1>1
  <1>4. delivery' \in [emitted_events : Nat, events_truncated : BOOLEAN]
        /\ delivery'.events_truncated = mark /\ delivery'.emitted_events = delivery.emitted_events
    <2> HIDE DEF mark
    <2> QED
      BY <1>1, <1>2, <1>3
  <1>5. (options.event_sink => LimitReached) /\ collected' = collected
    BY DEF Undelivered
  <1> QED
    BY <1>1, <1>4, <1>5, Zenon

LEMMA DeliveredFields ==
    ASSUME Shape, Delivered
    PROVE  /\ options.event_sink /\ ~LimitReached
           /\ delivery' \in [emitted_events : Nat, events_truncated : BOOLEAN]
           /\ delivery'.emitted_events = delivery.emitted_events + 1
           /\ delivery'.events_truncated = delivery.events_truncated
           /\ IsSequence(collected')
           /\ Len(collected') = Len(collected) + 1
           /\ \A i \in 1..Len(collected) : collected'[i] = collected[i]
           /\ collected'[Len(collected) + 1] = Event
  <1>1. delivery \in [emitted_events : Nat, events_truncated : BOOLEAN]
    BY DEF Shape
  <1>2. delivery' = [delivery EXCEPT !.emitted_events = delivery.emitted_events + 1]
        /\ options.event_sink /\ ~LimitReached
    BY DEF Delivered
  <1>3. /\ IsSequence(collected')
        /\ Len(collected') = Len(collected) + 1
        /\ \A i \in 1..Len(collected) : collected'[i] = collected[i]
        /\ collected'[Len(collected) + 1] = Event
    BY Appended DEF Delivered, Shape
  <1> QED
    BY <1>1, <1>2, <1>3

\* A task's summary counts its own accesses.
LEMMA SummaryFields ==
    /\ Summary.source_accesses = active.source_accesses
    /\ Summary.modeled_accesses = active.modeled_accesses
    /\ Summary.l1 = LevelSummary(active.l1) /\ Summary.llc = LevelSummary(active.llc)
    /\ Summary.l1_first_hit_count = active.l1_first_hit_count
    /\ Summary.llc_first_hit_count = active.llc_first_hit_count
    /\ Summary.all_cache_misses = active.all_cache_misses
    /\ Summary.coverage = [TaskCoverage EXCEPT !.lines = active.modeled_accesses]
  BY DEF Summary

\* The producer's totals split at the start of the task; nothing was rejected.
CoverageSplit ==
    stage # "failed" =>
        /\ Complete(unroller.coverage) /\ unroller.coverage.lines = 0
        /\ Complete(coverage)
        /\ InTask =>
              /\ Complete(unroller.before) /\ unroller.before.lines = 0
              /\ unroller.before.source = coverage.source
              /\ unroller.coverage.source = unroller.before.source + active.source_accesses
        /\ ~InTask => unroller.coverage.source = coverage.source

LEMMA TaskCoverageFields ==
    ASSUME Shape, CoverageSplit, stage = "task"
    PROVE  /\ TaskCoverage.source = active.source_accesses
           /\ TaskCoverage.resolved = active.source_accesses
           /\ TaskCoverage.rejected = 0 /\ TaskCoverage.lines = 0
           /\ Summary.coverage \in Coverages
           /\ Summary.coverage.source = active.source_accesses
           /\ Summary.coverage.resolved = active.source_accesses
           /\ Summary.coverage.rejected = 0
           /\ Summary.coverage.lines = active.modeled_accesses
  <1> DEFINE c == unroller.coverage
             d == unroller.before
  <1>1. c \in Coverages /\ d \in Coverages
    BY DEF Shape
  <1>2. /\ c.rejected = 0 /\ c.source = c.resolved /\ c.lines = 0
        /\ d.rejected = 0 /\ d.source = d.resolved /\ d.lines = 0
        /\ c.source = d.source + active.source_accesses
    BY DEF CoverageSplit, Complete, InTask
  <1>3. active.source_accesses \in Nat /\ active.modeled_accesses \in Nat
    BY DEF Shape, ActiveShape
  <1> HIDE DEF c, d
  <1>4. /\ DOMAIN Minus(c, d) = {"source", "resolved", "rejected", "lines"}
        /\ Minus(c, d).source = c.source - d.source
        /\ Minus(c, d).resolved = c.resolved - d.resolved
        /\ Minus(c, d).rejected = c.rejected - d.rejected
        /\ Minus(c, d).lines = c.lines - d.lines
    BY <1>1, CoverageArithmetic
  <1>5. TaskCoverage = Minus(c, d)
    BY DEF TaskCoverage, c, d
  <1>6. /\ DOMAIN TaskCoverage = {"source", "resolved", "rejected", "lines"}
        /\ TaskCoverage.source = active.source_accesses
        /\ TaskCoverage.resolved = active.source_accesses
        /\ TaskCoverage.rejected = 0 /\ TaskCoverage.lines = 0
    BY <1>1, <1>2, <1>3, <1>4, <1>5 DEF Coverages
  <1>7. TaskCoverage = [x \in DOMAIN TaskCoverage |-> TaskCoverage[x]]
    BY <1>5 DEF Minus, Combined
  <1>8. Summary.coverage = [source |-> active.source_accesses, resolved |-> active.source_accesses,
                            rejected |-> 0, lines |-> active.modeled_accesses]
    <2> HIDE DEF TaskCoverage
    <2> QED
      BY <1>6, <1>7, SummaryFields
  <1> QED
    BY <1>3, <1>6, <1>8 DEF Coverages

-----------------------------------------------------------------------------
(* The parts are kept.                                                      *)

LEMMA ShapeKept == ASSUME Shape, CoverageSplit, [Next]_vars PROVE Shape'
  <1>1. ActiveShape'
    BY ActiveShapeKept DEF Shape
  <1>2. ASSUME NEW excluded \in BOOLEAN, BeginTask(excluded) PROVE Shape'
    <2>1. unroller' = [unroller EXCEPT !.ordinal = 0, !.before = unroller.coverage]
      BY <1>2 DEF BeginTask
    <2>2. unroller' \in [ordinal : Nat, coverage : Coverages, before : Coverages]
      BY <2>1 DEF Shape
    <2> QED
      BY <1>1, <1>2, <2>2 DEF BeginTask, fixed, Shape
  <1>3. CASE TraversalFails \/ SourceBudgetExhausted \/ LineBudgetExhausted \/ Return
    BY <1>1, <1>3 DEF TraversalFails, SourceBudgetExhausted, LineBudgetExhausted, Return, fixed, Shape
  <1>4. ASSUME budget' = SourceCharged PROVE budget' \in [sources : Nat, lines : Nat]
    BY <1>4 DEF SourceCharged, Shape
  <1>5. CASE AccessRejected
    <2>1. unroller' = [Charged EXCEPT !.coverage.rejected = Charged.coverage.rejected + 1]
          /\ budget' = SourceCharged
      BY <1>5 DEF AccessRejected
    <2> DEFINE counted == [Charged.coverage EXCEPT !.rejected = Charged.coverage.rejected + 1]
    <2>2. counted \in Coverages
      BY ChargedFields DEF Coverages
    <2>3. unroller' = [Charged EXCEPT !.coverage = counted]
      BY <2>1, ChargedFields
    <2>4. unroller' \in [ordinal : Nat, coverage : Coverages, before : Coverages]
      <3> HIDE DEF counted
      <3> QED
        BY <2>2, <2>3, ChargedFields
    <2> QED
      BY <1>1, <1>4, <1>5, <2>1, <2>4 DEF AccessRejected, fixed, Shape
  <1>6. ASSUME NEW first \in Blocks, NEW last \in Blocks, AccessResolved(first, last)
        PROVE  Shape'
    <2>1. unroller' = [Charged EXCEPT !.coverage.resolved = Charged.coverage.resolved + 1]
          /\ budget' = SourceCharged
      BY <1>6 DEF AccessResolved
    <2> DEFINE counted == [Charged.coverage EXCEPT !.resolved = Charged.coverage.resolved + 1]
    <2>2. counted \in Coverages
      BY ChargedFields DEF Coverages
    <2>3. unroller' = [Charged EXCEPT !.coverage = counted]
      BY <2>1, ChargedFields
    <2>4. unroller' \in [ordinal : Nat, coverage : Coverages, before : Coverages]
      <3> HIDE DEF counted
      <3> QED
        BY <2>2, <2>3, ChargedFields
    <2>5. pending' \in [block : Nat, span : Nat, last : Nat]
      BY <1>6, HierarchyAssumption DEF AccessResolved, Shape, HierarchyAssumption
    <2> QED
      BY <1>1, <1>4, <1>6, <2>1, <2>4, <2>5 DEF AccessResolved, fixed, Shape
  <1>7. CASE ObserveLine
    <2>1. budget' \in [sources : Nat, lines : Nat] /\ UNCHANGED <<options, roots, unroller, completed, coverage>>
      BY <1>7, ObserveSteps
    <2>2. pending' \in [block : Nat, span : Nat, last : Nat]
      BY <1>7, ObserveSteps DEF NoLines, Shape
    <2>3. delivery' \in [emitted_events : Nat, events_truncated : BOOLEAN]
      BY <1>7, ObserveSteps, UndeliveredFields, DeliveredFields DEF Shape
    <2>4. IsSequence(collected')
      BY <1>7, ObserveSteps, UndeliveredFields, DeliveredFields DEF Shape
    <2> QED
      BY <1>1, <2>1, <2>2, <2>3, <2>4 DEF Shape
  <1>8. CASE EndTask
    <2>1. \/ completed' = completed /\ coverage' = coverage
          \/ completed' = Append(completed, Summary) /\ coverage' = Plus(coverage, Summary.coverage)
      BY <1>8 DEF EndTask, TaskCompleted, StatisticsSinkThrows
    <2>2. stage = "task"
      BY <1>8 DEF EndTask
    <2>3. IsSequence(completed')
      <3>1. IsSequence(completed)
        BY DEF Shape
      <3>2. IsSequence(Append(completed, Summary))
        BY <3>1, Appended
      <3> QED
        BY <2>1, <3>1, <3>2
    <2>4. coverage' \in Coverages
      BY <2>1, <2>2, CoverageArithmetic, TaskCoverageFields DEF Shape
    <2> QED
      BY <1>1, <1>8, <2>3, <2>4 DEF EndTask, fixed, Shape
  <1>9. CASE UNCHANGED vars
    BY <1>1, <1>9 DEF vars, Shape
  <1> QED
    BY <1>2, <1>3, <1>5, <1>6, <1>7, <1>8, <1>9 DEF Next, Produce

\* The access that is resolved moves both ends of the callback by one.
LEMMA ResolvedSteps ==
    ASSUME Shape, Position, NEW first, NEW last, AccessResolved(first, last)
    PROVE  /\ stage = "task" /\ budget.sources < options.sources
           /\ budget'.sources = budget.sources + 1 /\ budget'.lines = budget.lines
           /\ unroller'.ordinal = unroller.ordinal + 1
           /\ unroller'.before = unroller.before
           /\ unroller'.coverage.source = unroller.coverage.source + 1
           /\ unroller'.coverage.resolved = unroller.coverage.resolved + 1
           /\ unroller'.coverage.rejected = unroller.coverage.rejected
           /\ unroller'.coverage.lines = unroller.coverage.lines
           /\ UNCHANGED <<options, roots, delivery, collected, completed, coverage>>
           /\ \/ stage' = "failed" /\ failure' = "basis"
              \/ /\ stage' = "mapping" /\ failure' = failure
                 /\ active' = Accepted
                 /\ pending' = [block |-> first, span |-> 0, last |-> last]
  <1>1. /\ stage = "task" /\ budget.sources < options.sources
        /\ UNCHANGED <<options, roots, delivery, collected, completed, coverage>>
    BY DEF AccessResolved, SourceAllowed, fixed
  <1>2. budget'.sources = budget.sources + 1 /\ budget'.lines = budget.lines
    BY DEF AccessResolved, SourceCharged, Shape
  <1>3. unroller.ordinal = active.source_accesses
    BY <1>1 DEF Position, InTask
  <1>4. \/ stage' = "failed" /\ failure' = "basis"
        \/ /\ stage' = "mapping" /\ failure' = failure
           /\ active' = Accepted
           /\ pending' = [block |-> first, span |-> 0, last |-> last]
    BY <1>3 DEF AccessResolved, Fail, Accepted
  <1> DEFINE counted == [Charged.coverage EXCEPT !.resolved = Charged.coverage.resolved + 1]
  <1>5. /\ counted.source = unroller.coverage.source + 1
        /\ counted.resolved = unroller.coverage.resolved + 1
        /\ counted.rejected = unroller.coverage.rejected
        /\ counted.lines = unroller.coverage.lines
    BY ChargedFields DEF Coverages
  <1>6. unroller' = [Charged EXCEPT !.coverage = counted]
    BY ChargedFields DEF AccessResolved
  <1>7. /\ unroller'.ordinal = unroller.ordinal + 1
        /\ unroller'.before = unroller.before
        /\ unroller'.coverage = counted
    <2> HIDE DEF counted
    <2> QED
      BY <1>6, ChargedFields
  <1> HIDE DEF counted
  <1> QED
    BY <1>1, <1>2, <1>4, <1>5, <1>7

LEMMA PositionKept ==
    ASSUME Shape, Levels, ServiceCounted, Position, [Next]_vars
    PROVE  Position'
  <1>1. ASSUME stage' \notin {"task", "mapping"} PROVE Position'
    BY <1>1 DEF Position, InTask
  <1>2. ASSUME NEW excluded \in BOOLEAN, BeginTask(excluded) PROVE Position'
    <2>1. CASE excluded
      BY <1>1, <1>2, <2>1 DEF BeginTask, Fail
    <2>2. CASE ~excluded
      <3>1. stage' = "task" /\ active' = ColdTask
        BY <1>2, <2>2 DEF BeginTask
      <3>2. unroller'.ordinal = 0
        BY <1>2 DEF BeginTask, Shape
      <3> QED
        BY <3>1, <3>2, ColdTaskFields DEF Position, InTask
    <2> QED
      BY <2>1, <2>2
  <1>3. CASE TraversalFails \/ SourceBudgetExhausted \/ AccessRejected \/ LineBudgetExhausted
    BY <1>1, <1>3 DEF TraversalFails, SourceBudgetExhausted, AccessRejected, LineBudgetExhausted, Fail
  <1>4. ASSUME NEW first \in Blocks, NEW last \in Blocks, first <= last,
               AccessResolved(first, last)
        PROVE  Position'
    <2>1. CASE stage' = "failed"
      BY <1>1, <2>1
    <2>2. CASE stage' # "failed"
      <3>1. /\ stage = "task" /\ stage' = "mapping" /\ active' = Accepted
            /\ unroller'.ordinal = unroller.ordinal + 1
            /\ pending' = [block |-> first, span |-> 0, last |-> last]
        BY <1>4, <2>2, ResolvedSteps
      <3>2. /\ active'.source_accesses = active.source_accesses + 1
            /\ active'.modeled_accesses = active.modeled_accesses
            /\ active'.next_span_ordinal = 0
        BY <3>1, AcceptedFields DEF Shape
      <3>3. /\ active.source_accesses <= active.modeled_accesses
            /\ unroller.ordinal = active.source_accesses
            /\ active.source_accesses \in Nat /\ active.modeled_accesses \in Nat
        BY <3>1 DEF Position, InTask, Shape, ActiveShape
      <3>4. /\ pending'.block = first /\ pending'.span = 0 /\ pending'.last = last
        BY <3>1
      <3> QED
        BY <1>4, <3>1, <3>2, <3>3, <3>4 DEF Position, InTask, One
    <2> QED
      BY <2>1, <2>2
  <1>5. CASE ObserveLine
    <2>1. CASE stage' = "failed"
      BY <1>1, <2>1
    <2>2. CASE stage' # "failed"
      <3>1. /\ stage = "mapping" /\ active' = Observed /\ unroller' = unroller
            /\ \/ /\ pending.block = pending.last
                  /\ stage' = "task"
               \/ /\ pending.block # pending.last
                  /\ stage' = "mapping"
                  /\ pending'.block = pending.block + 1
                  /\ pending'.span = pending.span + 1
                  /\ pending'.last = pending.last
        BY <1>5, <2>2, ObserveSteps
      <3>2. /\ active'.source_accesses = active.source_accesses
            /\ active'.modeled_accesses = active.modeled_accesses + 1
            /\ active'.next_span_ordinal = active.next_span_ordinal + 1
        BY <3>1, ObservedFields DEF Shape
      <3>3. /\ active.source_accesses # 0
            /\ active.source_accesses <= active.modeled_accesses + 1
            /\ unroller.ordinal = active.source_accesses
            /\ pending.span = active.next_span_ordinal
            /\ pending.block \in Blocks /\ pending.last \in Blocks
            /\ pending.block <= pending.last
            /\ active.source_accesses \in Nat /\ active.modeled_accesses \in Nat
            /\ pending.span \in Nat /\ pending.block \in Nat /\ pending.last \in Nat
        BY <3>1 DEF Position, InTask, Shape, ActiveShape, One
      <3>4. pending.block # pending.last => pending.block + 1 \in Blocks
        <4>1. pending.block # pending.last => pending.block + 1 \in pending.block..pending.last
          BY <3>3
        <4> QED
          BY <3>3, <4>1, HierarchyAssumption DEF HierarchyAssumption
      <3> QED
        BY <3>1, <3>2, <3>3, <3>4 DEF Position, InTask, One
    <2> QED
      BY <2>1, <2>2
  <1>6. CASE EndTask
    <2>1. stage' \in {"between", "failed"}
      BY <1>6 DEF EndTask, TaskCompleted, StatisticsSinkThrows, Fail
    <2> QED
      BY <1>1, <2>1
  <1>7. CASE Return
    <2>1. stage' \in {"returned", "failed"}
      BY <1>7 DEF Return, Fail
    <2> QED
      BY <1>1, <2>1
  <1>8. CASE UNCHANGED vars
    BY <1>8 DEF vars, Position, InTask
  <1> QED
    BY <1>2, <1>3, <1>4, <1>5, <1>6, <1>7, <1>8 DEF Next, Produce

-----------------------------------------------------------------------------
(* The checks at the end of a task and of the module.                       *)

LEMMA CoverageSplitKept ==
    ASSUME Shape, Position, CoverageSplit, [Next]_vars
    PROVE  CoverageSplit'
  <1>1. ASSUME stage' = "failed" PROVE CoverageSplit'
    BY <1>1 DEF CoverageSplit
  <1>2. ASSUME NEW excluded \in BOOLEAN, BeginTask(excluded) PROVE CoverageSplit'
    <2>1. CASE excluded
      BY <1>1, <1>2, <2>1 DEF BeginTask, Fail
    <2>2. CASE ~excluded
      <3>1. /\ stage = "between" /\ stage' = "task" /\ active' = ColdTask /\ coverage' = coverage
            /\ unroller' = [unroller EXCEPT !.ordinal = 0, !.before = unroller.coverage]
        BY <1>2, <2>2 DEF BeginTask
      <3>2. unroller'.coverage = unroller.coverage /\ unroller'.before = unroller.coverage
        BY <3>1 DEF Shape
      <3>3. unroller.coverage.source \in Nat
        BY DEF Shape, Coverages
      <3> QED
        BY <3>1, <3>2, <3>3, ColdTaskFields DEF CoverageSplit, InTask, Complete
    <2> QED
      BY <2>1, <2>2
  <1>3. CASE TraversalFails \/ SourceBudgetExhausted \/ AccessRejected \/ LineBudgetExhausted
    BY <1>1, <1>3 DEF TraversalFails, SourceBudgetExhausted, AccessRejected, LineBudgetExhausted, Fail
  <1>4. ASSUME NEW first \in Blocks, NEW last \in Blocks, AccessResolved(first, last)
        PROVE  CoverageSplit'
    <2>1. CASE stage' = "failed"
      BY <1>1, <2>1
    <2>2. CASE stage' # "failed"
      <3>1. /\ stage = "task" /\ stage' = "mapping" /\ active' = Accepted
            /\ coverage' = coverage /\ unroller'.before = unroller.before
            /\ unroller'.coverage.source = unroller.coverage.source + 1
            /\ unroller'.coverage.resolved = unroller.coverage.resolved + 1
            /\ unroller'.coverage.rejected = unroller.coverage.rejected
            /\ unroller'.coverage.lines = unroller.coverage.lines
        BY <1>4, <2>2, ResolvedSteps
      <3>2. active'.source_accesses = active.source_accesses + 1
        BY <3>1, AcceptedFields DEF Shape
      <3>3. /\ unroller.coverage.source \in Nat /\ unroller.before.source \in Nat
            /\ active.source_accesses \in Nat
        BY DEF Shape, ActiveShape, Coverages
      <3>4. /\ Complete(unroller.coverage) /\ unroller.coverage.lines = 0
            /\ Complete(coverage)
            /\ Complete(unroller.before) /\ unroller.before.lines = 0
            /\ unroller.before.source = coverage.source
            /\ unroller.coverage.source = unroller.before.source + active.source_accesses
        BY <3>1 DEF CoverageSplit, InTask
      <3> QED
        BY <3>1, <3>2, <3>3, <3>4 DEF CoverageSplit, InTask, Complete
    <2> QED
      BY <2>1, <2>2
  <1>5. CASE ObserveLine
    <2>1. CASE stage' = "failed"
      BY <1>1, <2>1
    <2>2. CASE stage' # "failed"
      <3>1. /\ stage = "mapping" /\ active' = Observed /\ unroller' = unroller
            /\ coverage' = coverage /\ stage' \in {"task", "mapping"}
        BY <1>5, <2>2, ObserveSteps
      <3>2. active'.source_accesses = active.source_accesses
        BY <3>1, ObservedFields DEF Shape
      <3> QED
        BY <3>1, <3>2 DEF CoverageSplit, InTask
    <2> QED
      BY <2>1, <2>2
  <1>6. CASE EndTask
    <2>1. CASE stage' = "failed"
      BY <1>1, <2>1
    <2>2. CASE stage' # "failed"
      <3>1. /\ stage = "task" /\ stage' = "between" /\ unroller' = unroller
            /\ coverage' = Plus(coverage, Summary.coverage)
        BY <1>6, <2>2 DEF EndTask, TaskCompleted, StatisticsSinkThrows, Fail
      <3>2. /\ Summary.coverage \in Coverages /\ coverage \in Coverages
            /\ Summary.coverage.source = active.source_accesses
            /\ Summary.coverage.resolved = active.source_accesses
            /\ Summary.coverage.rejected = 0
        BY <3>1, TaskCoverageFields DEF Shape
      <3>3. /\ coverage'.source = coverage.source + active.source_accesses
            /\ coverage'.resolved = coverage.resolved + active.source_accesses
            /\ coverage'.rejected = coverage.rejected + 0
        BY <3>1, <3>2, CoverageArithmetic
      <3>4. coverage.rejected \in Nat
        BY <3>2 DEF Coverages
      <3> QED
        BY <3>1, <3>3, <3>4 DEF CoverageSplit, InTask, Complete
    <2> QED
      BY <2>1, <2>2
  <1>7. CASE Return
    <2>1. /\ stage = "between" /\ stage' \in {"returned", "failed"}
          /\ unroller' = unroller /\ coverage' = coverage
      BY <1>7 DEF Return, Fail
    <2> QED
      BY <2>1 DEF CoverageSplit, InTask
  <1>8. CASE UNCHANGED vars
    BY <1>8 DEF vars, CoverageSplit, InTask
  <1> QED
    BY <1>2, <1>3, <1>4, <1>5, <1>6, <1>7, <1>8 DEF Next, Produce

\* The two sums a level's summary is checked against.
LEMMA LevelConservesSum ==
    ASSUME NEW level, NEW geometry, LevelSound(level, geometry)
    PROVE  LevelConserves(level)
  <1> DEFINE h == level.histogram
             hits == HitDistances(h, geometry)
  <1>1. /\ IsFiniteSet(DOMAIN h) /\ \A d \in DOMAIN h : h[d] \in Nat
        /\ SumFunctionOnSet(h, hits) = level.hits
        /\ SumFunctionOnSet(h, DOMAIN h \ hits) = level.replacement_misses
    BY DEF LevelSound, HistogramSound
  <1>2. hits \in SUBSET DOMAIN h
    BY DEF HitDistances
  <1>3. Total(h) = SumFunctionOnSet(h, DOMAIN h)
    BY DEF Total, FoldFunction, SumFunctionOnSet
  <1>4. SumFunctionOnSet(h, DOMAIN h) = SumFunctionOnSet(h, hits) + SumFunctionOnSet(h, DOMAIN h \ hits)
    <2> HIDE DEF h, hits
    <2> QED
      BY <1>1, <1>2, SumSplit
  <1>5. /\ level.hits \in Nat /\ level.cold_misses \in Nat /\ level.replacement_misses \in Nat
        /\ level.hits + level.cold_misses + level.replacement_misses = level.lookups
        /\ level.unique_lines = level.cold_misses
    BY DEF LevelSound, CountsSound
  <1>6. Total(h) = level.hits + level.replacement_misses
    BY <1>1, <1>3, <1>4
  <1> QED
    BY <1>5, <1>6 DEF LevelConserves

LEMMA LevelSummaryFields ==
    ASSUME NEW level
    PROVE  /\ LevelSummary(level).lookups = level.lookups
           /\ LevelSummary(level).hits = level.hits
           /\ LevelSummary(level).misses = level.cold_misses + level.replacement_misses
           /\ LevelSummary(level).cold_misses = level.cold_misses
           /\ LevelSummary(level).replacement_misses = level.replacement_misses
           /\ LevelSummary(level).unique_lines = level.unique_lines
           /\ LevelSummary(level).histogram = level.histogram
  BY DEF LevelSummary

LEMMA TaskChecksPass ==
    ASSUME Shape, Levels, ServiceCounted, CoverageSplit, stage = "task"
    PROVE  TaskChecks
  <1>1. LevelConserves(active.l1) /\ LevelConserves(active.llc)
    BY LevelConservesSum DEF Levels
  <1>2. /\ active.l1.hits + active.l1.cold_misses + active.l1.replacement_misses = active.l1.lookups
        /\ active.llc.hits + active.llc.cold_misses + active.llc.replacement_misses = active.llc.lookups
    BY DEF Levels, LevelSound, CountsSound
  <1>3. ServiceConserves(Summary)
    <2>1. \A level \in {Summary.l1, Summary.llc} :
             /\ level.cold_misses + level.replacement_misses = level.misses
             /\ level.hits + level.misses = level.lookups
      BY <1>2, SummaryFields, LevelSummaryFields, LevelCountsAreNatural
    <2>2. Complete(Summary.coverage)
      BY TaskCoverageFields DEF Complete
    <2>3. /\ Summary.source_accesses = Summary.coverage.source
          /\ Summary.modeled_accesses = Summary.coverage.lines
      BY TaskCoverageFields, SummaryFields
    <2>4. /\ Summary.llc.lookups = Summary.l1.misses
          /\ Summary.modeled_accesses = Summary.l1.lookups
          /\ Summary.l1_first_hit_count = Summary.l1.hits
          /\ Summary.llc_first_hit_count = Summary.llc.hits
          /\ Summary.all_cache_misses = Summary.llc.misses
      BY SummaryFields, LevelSummaryFields DEF ServiceCounted
    <2>5. /\ Summary.l1_first_hit_count + Summary.llc_first_hit_count + Summary.all_cache_misses
                = Summary.modeled_accesses
          /\ Summary.llc_first_hit_count + Summary.all_cache_misses = Summary.llc.lookups
      BY <1>2, SummaryFields, LevelSummaryFields, LevelCountsAreNatural DEF ServiceCounted
    <2> QED
      BY <2>1, <2>2, <2>3, <2>4, <2>5 DEF ServiceConserves
  <1>4. Complete(TaskCoverage) /\ TaskCoverage.source = active.source_accesses /\ TaskCoverage.lines = 0
    BY TaskCoverageFields DEF Complete
  <1> QED
    BY <1>1, <1>3, <1>4 DEF TaskChecks

LEMMA ModuleChecksPass ==
    ASSUME CoverageSplit, stage = "between"
    PROVE  ModuleChecks
  BY DEF CoverageSplit, InTask, ModuleChecks, Complete

LEMMA ProvenanceAgreesAlways ==
    ASSUME Shape, Position, stage = "mapping"
    PROVE  ProvenanceAgrees
  BY DEF Shape, ActiveShape, Position, InTask, ProvenanceAgrees

LEMMA ChecksNeverFireKept ==
    ASSUME Shape, Levels, ServiceCounted, Position, CoverageSplit, ChecksNeverFire, [Next]_vars
    PROVE  ChecksNeverFire'
  <1>1. ASSUME failure' = failure PROVE ChecksNeverFire'
    BY <1>1 DEF ChecksNeverFire
  <1>2. ASSUME NEW excluded \in BOOLEAN, BeginTask(excluded) PROVE ChecksNeverFire'
    BY <1>1, <1>2 DEF BeginTask, Fail, ChecksNeverFire
  <1>3. CASE TraversalFails \/ SourceBudgetExhausted \/ AccessRejected \/ LineBudgetExhausted
    BY <1>3 DEF TraversalFails, SourceBudgetExhausted, AccessRejected, LineBudgetExhausted, Fail,
                ChecksNeverFire
  <1>4. ASSUME NEW first \in Blocks, NEW last \in Blocks, AccessResolved(first, last)
        PROVE  ChecksNeverFire'
    BY <1>1, <1>4, ResolvedSteps DEF ChecksNeverFire
  <1>5. CASE ObserveLine
    BY <1>1, <1>5, ObserveSteps, ProvenanceAgreesAlways DEF ChecksNeverFire
  <1>6. CASE EndTask
    <2>1. TaskChecks
      BY <1>6, TaskChecksPass DEF EndTask
    <2> QED
      BY <1>1, <1>6, <2>1 DEF EndTask, TaskCompleted, StatisticsSinkThrows, Fail, ChecksNeverFire
  <1>7. CASE Return
    <2>1. ModuleChecks
      BY <1>7, ModuleChecksPass DEF Return
    <2> QED
      BY <1>1, <1>7, <2>1 DEF Return
  <1>8. CASE UNCHANGED vars
    BY <1>1, <1>8 DEF vars
  <1> QED
    BY <1>2, <1>3, <1>4, <1>5, <1>6, <1>7, <1>8 DEF Next, Produce

-----------------------------------------------------------------------------
(* The finished tasks.                                                      *)

LEMMA SumOverAppended ==
    ASSUME NEW s, NEW e, IsSequence(s), NEW f, NEW g,
           DOMAIN f = DOMAIN s, DOMAIN g = DOMAIN Append(s, e),
           \A i \in DOMAIN s : f[i] \in Nat /\ g[i] = f[i], g[Len(s) + 1] \in Nat
    PROVE  SumFunction(g) = SumFunction(f) + g[Len(s) + 1] /\ SumFunction(f) \in Nat
  <1> DEFINE n == Len(s)
  <1>1. n \in Nat /\ DOMAIN s = 1..n
    BY SequenceLength
  <1>2. DOMAIN Append(s, e) = 1..n + 1
    BY Appended, SequenceLength
  <1> HIDE DEF n
  <1>3. DOMAIN f = 1..n /\ DOMAIN g = 1..n + 1
    BY <1>1, <1>2
  <1>4. (\A i \in 1..n : f[i] \in Nat /\ g[i] = f[i]) /\ g[n + 1] \in Nat
    BY <1>1 DEF n
  <1>5. SumFunction(g) = SumFunction(f) + g[n + 1] /\ SumFunction(f) \in Nat
    BY <1>1, <1>3, <1>4, SumAppended
  <1> QED
    BY <1>5 DEF n

LEMMA SumOverNone == ASSUME NEW f, DOMAIN f = {} PROVE SumFunction(f) = 0
  BY SumOfNone DEF SumFunction

\* What the artifact writer requires of a summary, and its types.
SummarySound(task) ==
    /\ task.source_accesses \in Nat /\ task.modeled_accesses \in Nat
    /\ task.coverage \in Coverages
    /\ ValidLevel(task.l1, L1) /\ ValidLevel(task.llc, LLC)
    /\ task.llc.unique_lines <= task.l1.unique_lines
    /\ task.source_accesses <= task.modeled_accesses
    /\ task.source_accesses = 0 => task.modeled_accesses = 0
    /\ ServiceConserves(task)

LEMMA LevelSummaryValid ==
    ASSUME NEW level, NEW geometry, LevelSound(level, geometry)
    PROVE  ValidLevel(LevelSummary(level), geometry)
  <1> DEFINE h == level.histogram
             hits == {d \in DOMAIN h : d < geometry.ways}
  <1>1. /\ \A d \in DOMAIN h : h[d] \in Nat \ {0} /\ d < level.unique_lines
        /\ SumFunctionOnSet(h, hits) = level.hits
        /\ SumFunctionOnSet(h, DOMAIN h \ hits) = level.replacement_misses
        /\ level.unique_lines = level.cold_misses
    BY DEF LevelSound, HistogramSound, CountsSound, HitDistances
  <1>2. /\ LevelSummary(level).histogram = h
        /\ LevelSummary(level).unique_lines = level.unique_lines
        /\ LevelSummary(level).hits = level.hits
        /\ LevelSummary(level).cold_misses = level.cold_misses
        /\ LevelSummary(level).replacement_misses = level.replacement_misses
    BY LevelSummaryFields
  <1>3. \A d \in DOMAIN h : h[d] > 0
    BY <1>1
  <1> QED
    BY <1>1, <1>2, <1>3 DEF ValidLevel

LEMMA SummaryIsSound ==
    ASSUME Shape, Levels, ServiceCounted, Position, CoverageSplit, stage = "task"
    PROVE  SummarySound(Summary)
  <1>1. Summary.source_accesses \in Nat /\ Summary.modeled_accesses \in Nat
    BY SummaryFields DEF Shape, ActiveShape
  <1>2. Summary.coverage \in Coverages
    BY TaskCoverageFields
  <1>3. ValidLevel(Summary.l1, L1) /\ ValidLevel(Summary.llc, LLC)
    BY SummaryFields, LevelSummaryValid DEF Levels
  <1>4. Summary.llc.unique_lines <= Summary.l1.unique_lines
    <2>1. active.llc.unique_lines = active.l1.unique_lines /\ active.l1.unique_lines \in Nat
      BY DEF Levels, SameFootprint, LevelSound, CountsSound
    <2> QED
      BY <2>1, SummaryFields, LevelSummaryFields
  <1>5. /\ Summary.source_accesses <= Summary.modeled_accesses
        /\ Summary.source_accesses = 0 => Summary.modeled_accesses = 0
    BY SummaryFields DEF Position
  <1>6. ServiceConserves(Summary)
    BY TaskChecksPass DEF TaskChecks
  <1> QED
    BY <1>1, <1>2, <1>3, <1>4, <1>5, <1>6 DEF SummarySound

CoverageFields == {"source", "resolved", "rejected", "lines"}

\* Every finished task has a sound summary, and they add up to the coverage.
TasksSound ==
    /\ \A i \in DOMAIN completed : SummarySound(completed[i])
    /\ Len(completed) <= roots
    /\ InTask => Len(completed) < roots
    /\ stage = "returned" => Len(completed) = roots
    /\ \A field \in CoverageFields :
          coverage[field] = OverTasks(LAMBDA t : t.coverage[field])

\* A task is finished by adding its summary to the others.
LEMMA EndSteps ==
    ASSUME Shape, Levels, ServiceCounted, Position, CoverageSplit, EndTask
    PROVE  /\ stage = "task"
           /\ UNCHANGED <<options, roots, budget, unroller, active, pending, delivery, collected>>
           /\ \/ /\ stage' = "failed" /\ failure' = "sink"
                 /\ UNCHANGED <<completed, coverage>>
              \/ /\ stage' = "between" /\ failure' = failure
                 /\ completed' = Append(completed, Summary)
                 /\ coverage' = Plus(coverage, Summary.coverage)
                 /\ IsSequence(completed')
                 /\ Len(completed') = Len(completed) + 1
                 /\ DOMAIN completed' = DOMAIN completed \cup {Len(completed) + 1}
                 /\ Len(completed) + 1 \notin DOMAIN completed
                 /\ \A i \in DOMAIN completed : completed'[i] = completed[i]
                 /\ completed'[Len(completed) + 1] = Summary
  <1>1. stage = "task" /\ UNCHANGED <<options, roots, budget, unroller, active, pending, delivery, collected>>
    BY DEF EndTask, fixed
  <1>2. TaskChecks
    BY <1>1, TaskChecksPass
  <1>3. \/ stage' = "failed" /\ failure' = "sink" /\ UNCHANGED <<completed, coverage>>
        \/ /\ stage' = "between" /\ failure' = failure
           /\ completed' = Append(completed, Summary)
           /\ coverage' = Plus(coverage, Summary.coverage)
    BY <1>2 DEF EndTask, TaskCompleted, StatisticsSinkThrows, Fail
  <1>4. IsSequence(completed)
    BY DEF Shape
  <1>5. /\ IsSequence(Append(completed, Summary))
        /\ Len(Append(completed, Summary)) = Len(completed) + 1
        /\ \A i \in 1..Len(completed) : Append(completed, Summary)[i] = completed[i]
        /\ Append(completed, Summary)[Len(completed) + 1] = Summary
    BY <1>4, Appended
  <1>6. /\ Len(completed) \in Nat /\ DOMAIN completed = 1..Len(completed)
        /\ DOMAIN Append(completed, Summary) = 1..Len(completed) + 1
    BY <1>4, <1>5, SequenceLength
  <1>7. /\ 1..Len(completed) + 1 = (1..Len(completed)) \cup {Len(completed) + 1}
        /\ Len(completed) + 1 \notin 1..Len(completed)
    BY <1>6
  <1> QED
    BY <1>1, <1>3, <1>5, <1>6, <1>7

LEMMA TasksSoundKept ==
    ASSUME Shape, Levels, ServiceCounted, Position, CoverageSplit, TasksSound, [Next]_vars
    PROVE  TasksSound'
  <1>1. ASSUME UNCHANGED <<completed, coverage, roots>>,
               InTask' => InTask \/ Len(completed) < roots,
               stage' = "returned" => Len(completed) = roots
        PROVE  TasksSound'
    BY <1>1 DEF TasksSound, SummarySound, OverTasks
  <1>2. ASSUME NEW excluded \in BOOLEAN, BeginTask(excluded) PROVE TasksSound'
    <2>1. /\ UNCHANGED <<completed, coverage, roots>> /\ Len(completed) < roots
          /\ stage' # "returned"
      BY <1>2 DEF BeginTask, Fail, fixed
    <2> QED
      BY <1>1, <2>1
  <1>3. CASE TraversalFails \/ SourceBudgetExhausted \/ AccessRejected \/ LineBudgetExhausted
    <2>1. UNCHANGED <<completed, coverage, roots>> /\ stage' = "failed"
      BY <1>3 DEF TraversalFails, SourceBudgetExhausted, AccessRejected, LineBudgetExhausted, Fail, fixed
    <2> QED
      BY <1>1, <2>1 DEF InTask
  <1>4. ASSUME NEW first \in Blocks, NEW last \in Blocks, AccessResolved(first, last)
        PROVE  TasksSound'
    <2>1. UNCHANGED <<completed, coverage, roots>> /\ stage = "task" /\ stage' # "returned"
      BY <1>4, ResolvedSteps
    <2> QED
      BY <1>1, <2>1 DEF InTask
  <1>5. CASE ObserveLine
    <2>1. UNCHANGED <<completed, coverage, roots>> /\ stage = "mapping" /\ stage' # "returned"
      BY <1>5, ObserveSteps
    <2> QED
      BY <1>1, <2>1 DEF InTask
  <1>6. CASE EndTask
    <2>1. CASE stage' = "failed"
      <3>1. UNCHANGED <<completed, coverage, roots>>
        BY <1>6, <2>1, EndSteps
      <3> QED
        BY <1>1, <2>1, <3>1 DEF InTask
    <2>2. CASE stage' # "failed"
      <3>1. /\ stage = "task" /\ stage' = "between" /\ roots' = roots
            /\ completed' = Append(completed, Summary)
            /\ coverage' = Plus(coverage, Summary.coverage)
            /\ Len(completed') = Len(completed) + 1
            /\ DOMAIN completed' = DOMAIN completed \cup {Len(completed) + 1}
            /\ Len(completed) + 1 \notin DOMAIN completed
            /\ \A i \in DOMAIN completed : completed'[i] = completed[i]
            /\ completed'[Len(completed) + 1] = Summary
        BY <1>6, <2>2, EndSteps
      <3>2. SummarySound(Summary)
        BY <3>1, SummaryIsSound
      <3>3. \A i \in DOMAIN completed' : SummarySound(completed'[i])
        BY <3>1, <3>2 DEF TasksSound
      <3>4. Len(completed') <= roots'
        <4>1. Len(completed) < roots /\ Len(completed) \in Nat /\ roots \in Nat
          BY <3>1, SequenceLength DEF TasksSound, InTask, Shape
        <4> QED
          BY <3>1, <4>1
      <3>5. ASSUME NEW field \in CoverageFields
            PROVE  coverage'[field] = SumFunction([i \in DOMAIN completed' |-> completed'[i].coverage[field]])
        <4> DEFINE f == [i \in DOMAIN completed |-> completed[i].coverage[field]]
                   g == [i \in DOMAIN completed' |-> completed'[i].coverage[field]]
        <4>1. coverage[field] = SumFunction(f)
          BY DEF TasksSound, OverTasks
        <4>2. \A i \in DOMAIN completed : f[i] \in Nat
          BY DEF TasksSound, SummarySound, Coverages, CoverageFields
        <4>3. /\ DOMAIN f = DOMAIN completed /\ DOMAIN g = DOMAIN Append(completed, Summary)
              /\ \A i \in DOMAIN completed : g[i] = f[i]
              /\ g[Len(completed) + 1] = Summary.coverage[field]
          BY <3>1
        <4>4. Summary.coverage[field] \in Nat
          BY <3>2 DEF SummarySound, Coverages, CoverageFields
        <4>5. IsSequence(completed)
          BY DEF Shape
        <4>6. coverage'[field] = coverage[field] + Summary.coverage[field]
          BY <3>1, <3>2, CoverageArithmetic DEF Shape, SummarySound, CoverageFields
        <4> HIDE DEF f, g
        <4>7. SumFunction(g) = SumFunction(f) + Summary.coverage[field]
          BY <4>2, <4>3, <4>4, <4>5, SumOverAppended
        <4> QED
          BY <4>1, <4>6, <4>7 DEF g
      <3>6. \A field \in CoverageFields :
               coverage'[field] = SumFunction([i \in DOMAIN completed' |-> completed'[i].coverage[field]])
        BY <3>5
      <3> QED
        BY <3>1, <3>3, <3>4, <3>6 DEF TasksSound, OverTasks, InTask, SummarySound
    <2> QED
      BY <2>1, <2>2
  <1>7. CASE Return
    <2>1. UNCHANGED <<completed, coverage, roots>> /\ Len(completed) = roots
          /\ stage' \in {"returned", "failed"}
      BY <1>7 DEF Return, Fail, fixed
    <2> QED
      BY <1>1, <2>1 DEF InTask
  <1>8. CASE UNCHANGED vars
    <2>1. UNCHANGED <<completed, coverage, roots, stage>>
      BY <1>8 DEF vars
    <2> QED
      BY <1>1, <2>1 DEF InTask, TasksSound
  <1> QED
    BY <1>2, <1>3, <1>4, <1>5, <1>6, <1>7, <1>8 DEF Next, Produce

-----------------------------------------------------------------------------
(* The module's budget.                                                     *)

LEMMA BudgetChargedKept ==
    ASSUME Shape, Levels, ServiceCounted, Position, CoverageSplit, TasksSound, BudgetCharged,
           [Next]_vars
    PROVE  BudgetCharged'
  <1> DEFINE Lines(tasks) == SumFunction([i \in DOMAIN tasks |-> tasks[i].modeled_accesses])
             Sources(tasks) == SumFunction([i \in DOMAIN tasks |-> tasks[i].source_accesses])
  <1>1. BudgetCharged <=>
          (stage # "failed" =>
             /\ budget.lines = Lines(completed) + (IF InTask THEN active.modeled_accesses ELSE 0)
             /\ budget.sources = Sources(completed) + (IF InTask THEN active.source_accesses ELSE 0)
             /\ budget.sources = unroller.coverage.source)
    BY DEF BudgetCharged, OverTasks
  <1>2. BudgetCharged' <=>
          (stage' # "failed" =>
             /\ budget'.lines = Lines(completed') + (IF InTask' THEN active'.modeled_accesses ELSE 0)
             /\ budget'.sources = Sources(completed') + (IF InTask' THEN active'.source_accesses ELSE 0)
             /\ budget'.sources = unroller'.coverage.source)
    BY DEF BudgetCharged, OverTasks
  <1>3. Lines(completed) \in Nat /\ Sources(completed) \in Nat
    <2>1. IsFiniteSet(DOMAIN completed)
      BY SequenceLength, FS_Interval DEF Shape
    <2> DEFINE f == [i \in DOMAIN completed |-> completed[i].modeled_accesses]
               g == [i \in DOMAIN completed |-> completed[i].source_accesses]
    <2>2. \A i \in DOMAIN completed : f[i] \in Nat /\ g[i] \in Nat
      BY DEF TasksSound, SummarySound
    <2>3. DOMAIN f = DOMAIN completed /\ DOMAIN g = DOMAIN completed
      OBVIOUS
    <2> HIDE DEF f, g
    <2>4. SumFunction(f) \in Nat /\ SumFunction(g) \in Nat
      BY <2>1, <2>2, <2>3, SumIsNat DEF SumFunction
    <2> QED
      BY <2>4 DEF f, g
  <1>4. /\ active.modeled_accesses \in Nat /\ active.source_accesses \in Nat
        /\ budget.lines \in Nat /\ budget.sources \in Nat
        /\ unroller.coverage.source \in Nat
    BY DEF Shape, ActiveShape, Coverages
  <1> HIDE DEF Lines, Sources
  <1>5. ASSUME UNCHANGED <<completed, budget>>, unroller'.coverage.source = unroller.coverage.source,
               stage # "failed",
               InTask' => InTask /\ active'.modeled_accesses = active.modeled_accesses
                                 /\ active'.source_accesses = active.source_accesses,
               InTask => InTask'
        PROVE  BudgetCharged'
    BY <1>1, <1>2, <1>5
  <1>6. ASSUME stage' = "failed" PROVE BudgetCharged'
    BY <1>2, <1>6
  <1>7. ASSUME NEW excluded \in BOOLEAN, BeginTask(excluded) PROVE BudgetCharged'
    <2>1. CASE excluded
      BY <1>6, <1>7, <2>1 DEF BeginTask, Fail
    <2>2. CASE ~excluded
      <3>1. /\ stage = "between" /\ stage' = "task" /\ active' = ColdTask
            /\ UNCHANGED <<completed, budget>>
            /\ unroller' = [unroller EXCEPT !.ordinal = 0, !.before = unroller.coverage]
        BY <1>7, <2>2 DEF BeginTask
      <3>2. unroller'.coverage.source = unroller.coverage.source
        BY <3>1 DEF Shape
      <3> QED
        BY <1>1, <1>2, <1>3, <3>1, <3>2, ColdTaskFields DEF InTask
    <2> QED
      BY <2>1, <2>2
  <1>8. CASE TraversalFails \/ SourceBudgetExhausted \/ AccessRejected \/ LineBudgetExhausted
    BY <1>6, <1>8 DEF TraversalFails, SourceBudgetExhausted, AccessRejected, LineBudgetExhausted, Fail
  <1>9. ASSUME NEW first \in Blocks, NEW last \in Blocks, AccessResolved(first, last)
        PROVE  BudgetCharged'
    <2>1. CASE stage' = "failed"
      BY <1>6, <2>1
    <2>2. CASE stage' # "failed"
      <3>1. /\ stage = "task" /\ stage' = "mapping" /\ active' = Accepted
            /\ completed' = completed
            /\ budget'.sources = budget.sources + 1 /\ budget'.lines = budget.lines
            /\ unroller'.coverage.source = unroller.coverage.source + 1
        BY <1>9, <2>2, ResolvedSteps
      <3>2. /\ active'.source_accesses = active.source_accesses + 1
            /\ active'.modeled_accesses = active.modeled_accesses
        BY <3>1, AcceptedFields DEF Shape
      <3> QED
        BY <1>1, <1>2, <1>3, <1>4, <3>1, <3>2 DEF InTask
    <2> QED
      BY <2>1, <2>2
  <1>10. CASE ObserveLine
    <2>1. CASE stage' = "failed"
      BY <1>6, <2>1
    <2>2. CASE stage' # "failed"
      <3>1. /\ stage = "mapping" /\ stage' \in {"task", "mapping"} /\ active' = Observed
            /\ completed' = completed /\ unroller' = unroller
            /\ budget'.sources = budget.sources /\ budget'.lines = budget.lines + 1
        BY <1>10, <2>2, ObserveSteps
      <3>2. /\ active'.source_accesses = active.source_accesses
            /\ active'.modeled_accesses = active.modeled_accesses + 1
        BY <3>1, ObservedFields DEF Shape
      <3> QED
        BY <1>1, <1>2, <1>3, <1>4, <3>1, <3>2 DEF InTask
    <2> QED
      BY <2>1, <2>2
  <1>11. CASE EndTask
    <2>1. CASE stage' = "failed"
      BY <1>6, <2>1
    <2>2. CASE stage' # "failed"
      <3>1. /\ stage = "task" /\ stage' = "between"
            /\ UNCHANGED <<budget, unroller, active>>
            /\ completed' = Append(completed, Summary)
            /\ DOMAIN completed' = DOMAIN completed \cup {Len(completed) + 1}
            /\ Len(completed) + 1 \notin DOMAIN completed
            /\ \A i \in DOMAIN completed : completed'[i] = completed[i]
            /\ completed'[Len(completed) + 1] = Summary
        BY <1>11, <2>2, EndSteps
      <3>2. Lines(completed') = Lines(completed) + active.modeled_accesses
        <4> DEFINE f == [i \in DOMAIN completed |-> completed[i].modeled_accesses]
                   g == [i \in DOMAIN completed' |-> completed'[i].modeled_accesses]
        <4>1. /\ DOMAIN f = DOMAIN completed /\ DOMAIN g = DOMAIN Append(completed, Summary)
              /\ \A i \in DOMAIN completed : g[i] = f[i]
              /\ g[Len(completed) + 1] = active.modeled_accesses
          BY <3>1, SummaryFields
        <4>2. \A i \in DOMAIN completed : f[i] \in Nat
          BY DEF TasksSound, SummarySound
        <4>3. IsSequence(completed)
          BY DEF Shape
        <4> HIDE DEF f, g
        <4>4. SumFunction(g) = SumFunction(f) + active.modeled_accesses
          BY <1>4, <4>1, <4>2, <4>3, SumOverAppended
        <4> QED
          BY <4>4 DEF f, g, Lines
      <3>3. Sources(completed') = Sources(completed) + active.source_accesses
        <4> DEFINE f == [i \in DOMAIN completed |-> completed[i].source_accesses]
                   g == [i \in DOMAIN completed' |-> completed'[i].source_accesses]
        <4>1. /\ DOMAIN f = DOMAIN completed /\ DOMAIN g = DOMAIN Append(completed, Summary)
              /\ \A i \in DOMAIN completed : g[i] = f[i]
              /\ g[Len(completed) + 1] = active.source_accesses
          BY <3>1, SummaryFields
        <4>2. \A i \in DOMAIN completed : f[i] \in Nat
          BY DEF TasksSound, SummarySound
        <4>3. IsSequence(completed)
          BY DEF Shape
        <4> HIDE DEF f, g
        <4>4. SumFunction(g) = SumFunction(f) + active.source_accesses
          BY <1>4, <4>1, <4>2, <4>3, SumOverAppended, SMTT(30)
        <4> QED
          BY <4>4 DEF f, g, Sources
      <3> QED
        BY <1>1, <1>2, <1>3, <1>4, <3>1, <3>2, <3>3 DEF InTask
    <2> QED
      BY <2>1, <2>2
  <1>12. CASE Return
    <2>1. CASE stage' = "failed"
      BY <1>6, <2>1
    <2>2. CASE stage' # "failed"
      BY <1>5, <1>12, <2>2 DEF Return, Fail, InTask
    <2> QED
      BY <2>1, <2>2
  <1>13. CASE UNCHANGED vars
    BY <1>5, <1>6, <1>13 DEF vars, InTask
  <1> QED
    BY <1>7, <1>8, <1>9, <1>10, <1>11, <1>12, <1>13 DEF Next, Produce

LEMMA TypeOKKept ==
    ASSUME Shape, Levels, ServiceCounted, Position, CoverageSplit, TasksSound, TypeOK, [Next]_vars
    PROVE  TypeOK'
  <1>1. budget'.sources \in Nat /\ budget'.lines \in Nat /\ options \in [event_sink : BOOLEAN, event_limit : Nat, statistics_sink : BOOLEAN,
                    sources : Nat, lines : Nat, absolute : BOOLEAN]
    BY ShapeKept DEF Shape
  <1>2. Len(completed)' <= roots'
    BY TasksSoundKept DEF TasksSound
  <1> DEFINE Stages == {"between", "task", "mapping", "returned", "failed"}
             Failures == {"none", "expansion", "exclusions", "traversal", "budget",
                          "resolution", "basis", "ordinals", "provenance", "sink", "logic"}
  <1>3. /\ stage' \in Stages /\ failure' \in Failures /\ ((failure' = "none") <=> (stage' # "failed"))
    <2>1. /\ stage \in Stages /\ failure \in Failures /\ ((failure = "none") <=> (stage # "failed"))
      BY DEF TypeOK
    <2>2. ASSUME NEW excluded \in BOOLEAN, BeginTask(excluded)
          PROVE  /\ stage' \in Stages /\ failure' \in Failures
                 /\ ((failure' = "none") <=> (stage' # "failed"))
      BY <2>1, <2>2 DEF BeginTask, Fail
    <2>3. CASE TraversalFails \/ SourceBudgetExhausted \/ AccessRejected \/ LineBudgetExhausted
      BY <2>1, <2>3 DEF TraversalFails, SourceBudgetExhausted, AccessRejected, LineBudgetExhausted, Fail
    <2>4. ASSUME NEW first \in Blocks, NEW last \in Blocks, AccessResolved(first, last)
          PROVE  /\ stage' \in Stages /\ failure' \in Failures
                 /\ ((failure' = "none") <=> (stage' # "failed"))
      BY <2>1, <2>4, ResolvedSteps
    <2>5. CASE ObserveLine
      BY <2>1, <2>5, ObserveSteps
    <2>6. CASE EndTask
      BY <2>1, <2>6, EndSteps
    <2>7. CASE Return
      BY <2>1, <2>7 DEF Return, Fail
    <2>8. CASE UNCHANGED vars
      BY <2>1, <2>8 DEF vars
    <2> QED
      BY <2>2, <2>3, <2>4, <2>5, <2>6, <2>7, <2>8 DEF Next, Produce
  <1>4. /\ budget' \in [sources : 0..options'.sources, lines : 0..options'.lines]
        /\ pending'.block \in Blocks \cup {0} /\ pending'.last \in Blocks \cup {0}
    <2>1. /\ budget \in [sources : 0..options.sources, lines : 0..options.lines]
          /\ pending.block \in Blocks \cup {0} /\ pending.last \in Blocks \cup {0}
      BY DEF TypeOK
    <2>2. CASE UNCHANGED <<options, budget, pending>>
      BY <2>1, <2>2
    <2>3. CASE AccessRejected
      <3>1. budget.sources < options.sources /\ budget' = SourceCharged /\ UNCHANGED <<options, pending>>
        BY <2>3 DEF AccessRejected, SourceAllowed, fixed
      <3> QED
        BY <1>1, <2>1, <3>1 DEF SourceCharged
    <2>4. ASSUME NEW first \in Blocks, NEW last \in Blocks, AccessResolved(first, last)
          PROVE  /\ budget' \in [sources : 0..options'.sources, lines : 0..options'.lines]
                 /\ pending'.block \in Blocks \cup {0} /\ pending'.last \in Blocks \cup {0}
      <3>1. budget.sources < options.sources /\ budget' = SourceCharged /\ options' = options
        BY <2>4 DEF AccessResolved, SourceAllowed, fixed
      <3>2. pending' = pending \/ pending' = [block |-> first, span |-> 0, last |-> last]
        BY <2>4 DEF AccessResolved
      <3>3. budget' \in [sources : 0..options'.sources, lines : 0..options'.lines]
        BY <1>1, <2>1, <3>1 DEF SourceCharged
      <3> QED
        BY <2>1, <3>2, <3>3
    <2>5. CASE ObserveLine
      <3>1. /\ stage = "mapping" /\ budget.lines < options.lines /\ options' = options
            /\ budget' = [budget EXCEPT !.lines = budget.lines + 1]
            /\ \/ pending' = pending \/ pending' = NoLines
               \/ /\ pending.block # pending.last
                  /\ pending'.block = pending.block + 1
                  /\ pending'.last = pending.last
        BY <2>5, ObserveSteps DEF ObserveLine, LineCharged
      <3>2. budget' \in [sources : 0..options'.sources, lines : 0..options'.lines]
        BY <1>1, <2>1, <3>1
      <3>3. pending.block # pending.last => pending.block + 1 \in Blocks
        <4>1. pending.block \in Blocks /\ pending.last \in Blocks /\ pending.block <= pending.last
              /\ pending.block \in Nat /\ pending.last \in Nat
          BY <3>1 DEF Position, Shape
        <4>2. pending.block # pending.last => pending.block + 1 \in pending.block..pending.last
          BY <4>1
        <4> QED
          BY <4>1, <4>2, HierarchyAssumption DEF HierarchyAssumption
      <3>4. NoLines.block = 0 /\ NoLines.last = 0
        BY DEF NoLines
      <3> QED
        BY <2>1, <3>1, <3>2, <3>3, <3>4
    <2>6. ASSUME NEW excluded \in BOOLEAN, BeginTask(excluded)
          PROVE  UNCHANGED <<options, budget, pending>>
      BY <2>6 DEF BeginTask, fixed
    <2>7. CASE TraversalFails \/ SourceBudgetExhausted \/ LineBudgetExhausted \/ EndTask \/ Return
      BY <2>2, <2>7 DEF TraversalFails, SourceBudgetExhausted, LineBudgetExhausted, EndTask, Return, fixed
    <2>8. CASE UNCHANGED vars
      BY <2>2, <2>8 DEF vars
    <2> QED
      BY <2>2, <2>3, <2>4, <2>5, <2>6, <2>7, <2>8 DEF Next, Produce
  <1> QED
    BY <1>2, <1>3, <1>4 DEF TypeOK

-----------------------------------------------------------------------------
(* The event sink.                                                          *)

EventCount ==
    stage # "failed" /\ options.event_sink =>
        /\ Len(collected) = Smaller(options.event_limit, budget.lines)
        /\ delivery.emitted_events = Len(collected)
        /\ delivery.events_truncated = (budget.lines > options.event_limit)

EventOrder ==
    \A i \in DOMAIN collected :
        /\ ValidEvent(collected[i])
        /\ IF i = 1 THEN collected[i].ordinal = 0 /\ collected[i].span = 0
           ELSE FollowsInOrder(collected[i - 1], collected[i])

NothingDropped == stage # "failed" /\ options.event_sink /\ budget.lines <= options.event_limit

\* Where the last event stands: just before the line the task comes to next.
LastEvent ==
    LET n == Len(collected)
        last == collected[n]
        this == Len(completed) + 1
    IN  NothingDropped =>
        /\ stage = "between" \/ (stage = "task" /\ unroller.ordinal = 0) =>
              (n > 0 => last.task < this)
        /\ stage = "task" /\ unroller.ordinal > 0 =>
              n > 0 /\ last.task = this /\ last.ordinal = unroller.ordinal - 1
        /\ stage = "mapping" /\ pending.span = 0 /\ unroller.ordinal = 1 =>
              (n > 0 => last.task < this)
        /\ stage = "mapping" /\ pending.span = 0 /\ unroller.ordinal > 1 =>
              n > 0 /\ last.task = this /\ last.ordinal = unroller.ordinal - 2
        /\ stage = "mapping" /\ pending.span > 0 =>
              /\ n > 0 /\ last.task = this /\ last.ordinal = unroller.ordinal - 1
              /\ last.span = pending.span - 1 /\ last.block = pending.block - 1

\* A new event says what the task is about to count.
LEMMA EventFields ==
    /\ Event.task = Len(completed) + 1 /\ Event.ordinal = unroller.ordinal - 1
    /\ Event.span = pending.span /\ Event.block = pending.block
    /\ Event.first_service = first_service
  BY DEF Event, b

LEMMA EventValid == ValidEvent(Event)
  <1> DEFINE d1 == ReuseDistance(active.l1, L1, b)
             d2 == ReuseDistance(active.llc, LLC, b)
             o1 == [outcome |-> l1_outcome, distance |-> d1]
             o2 == [outcome |-> llc_outcome, distance |-> d2]
  <1>1. l1_outcome = OutcomeOf(d1, L1) /\ llc_outcome = OutcomeOf(d2, LLC)
    BY DEF l1_outcome, llc_outcome, Outcome
  <1>2. \A d, geometry : OutcomeOf(d, geometry) = "ColdMiss" <=> d = {}
    BY DEF OutcomeOf
  <1>3. ValidObservation(o1) /\ ValidObservation(o2)
    BY <1>1, <1>2 DEF ValidObservation
  <1>4. /\ Event.l1 = o1
        /\ Event.llc = IF l1_outcome = "Hit" THEN {} ELSE {o2}
        /\ Event.first_service = IF l1_outcome = "Hit" THEN "L1"
                                 ELSE IF llc_outcome = "Hit" THEN "LLC" ELSE "Memory"
    BY DEF Event, first_service
  <1>5. o1.outcome = l1_outcome /\ o2.outcome = llc_outcome
    OBVIOUS
  <1> HIDE DEF o1, o2
  <1> QED
    BY <1>3, <1>4, <1>5 DEF ValidEvent

\* What an observed line does to the event stream.
LEMMA StreamSteps ==
    ASSUME Shape, EventCount, ObserveLine, stage' # "failed", options.event_sink
    PROVE  /\ \/ /\ budget.lines >= options.event_limit
                 /\ collected' = collected /\ delivery'.events_truncated = TRUE
                 /\ delivery'.emitted_events = delivery.emitted_events
              \/ /\ budget.lines < options.event_limit
                 /\ collected' = Append(collected, Event)
                 /\ delivery'.emitted_events = delivery.emitted_events + 1
                 /\ delivery'.events_truncated = delivery.events_truncated
           /\ stage = "mapping" /\ budget'.lines = budget.lines + 1
           /\ budget.lines \in Nat /\ options.event_limit \in Nat
           /\ options' = options
  <1>1. /\ stage = "mapping" /\ budget'.lines = budget.lines + 1 /\ options' = options
        /\ Undelivered \/ Delivered
    BY ObserveSteps
  <1>2. /\ budget.lines \in Nat /\ options.event_limit \in Nat
        /\ delivery.emitted_events = Smaller(options.event_limit, budget.lines)
    BY <1>1 DEF EventCount, Shape
  <1>3. LimitReached <=> budget.lines >= options.event_limit
    BY <1>2 DEF LimitReached, Smaller
  <1>4. CASE Undelivered
    <2>1. delivery'.events_truncated \in BOOLEAN /\ delivery'.events_truncated
          /\ delivery'.emitted_events = delivery.emitted_events /\ collected' = collected
          /\ LimitReached
      BY <1>4, UndeliveredFields
    <2> QED
      BY <1>1, <1>2, <1>3, <2>1
  <1>5. CASE Delivered
    BY <1>1, <1>2, <1>3, <1>5, DeliveredFields DEF Delivered
  <1> QED
    BY <1>1, <1>4, <1>5

\* Every other step leaves the sink alone.
LEMMA SinkUntouched ==
    ASSUME [Next]_vars, ~ObserveLine
    PROVE  UNCHANGED <<options, delivery, collected>>
  <1>1. ASSUME NEW excluded, BeginTask(excluded)
        PROVE  UNCHANGED <<options, delivery, collected>>
    BY <1>1 DEF BeginTask, fixed
  <1>2. CASE TraversalFails \/ SourceBudgetExhausted \/ AccessRejected
    BY <1>2 DEF TraversalFails, SourceBudgetExhausted, AccessRejected, fixed
  <1>3. ASSUME NEW first, NEW last, AccessResolved(first, last)
        PROVE  UNCHANGED <<options, delivery, collected>>
    BY <1>3 DEF AccessResolved, fixed
  <1>4. CASE LineBudgetExhausted \/ EndTask \/ Return \/ UNCHANGED vars
    BY <1>4 DEF LineBudgetExhausted, EndTask, Return, fixed, vars
  <1> QED
    BY <1>1, <1>2, <1>3, <1>4 DEF Next, Produce

\* A line is charged when it is observed, and otherwise not; failing is final.
LEMMA LinesUntouched ==
    ASSUME Shape, [Next]_vars, ~ObserveLine
    PROVE  budget'.lines = budget.lines
  <1>1. ASSUME NEW excluded, BeginTask(excluded)
        PROVE  budget' = budget
    BY <1>1 DEF BeginTask
  <1>2. CASE TraversalFails \/ SourceBudgetExhausted
    BY <1>2 DEF TraversalFails, SourceBudgetExhausted
  <1>3. SourceCharged.lines = budget.lines
    BY DEF SourceCharged, Shape
  <1>4. CASE AccessRejected
    BY <1>3, <1>4 DEF AccessRejected
  <1>5. ASSUME NEW first, NEW last, AccessResolved(first, last)
        PROVE  budget'.lines = budget.lines
    BY <1>3, <1>5 DEF AccessResolved
  <1>6. CASE LineBudgetExhausted \/ EndTask \/ Return \/ UNCHANGED vars
    BY <1>6 DEF LineBudgetExhausted, EndTask, Return, vars
  <1> QED
    BY <1>1, <1>2, <1>4, <1>5, <1>6 DEF Next, Produce

LEMMA FailureIsFinal == ASSUME [Next]_vars, stage = "failed" PROVE stage' = "failed"
  BY DEF Next, BeginTask, Produce, TraversalFails, SourceBudgetExhausted, AccessRejected,
         AccessResolved, LineBudgetExhausted, ObserveLine, EndTask, Return, vars

LEMMA EventCountKept ==
    ASSUME Shape, EventCount, [Next]_vars
    PROVE  EventCount'
  <1> SUFFICES ASSUME stage' # "failed", options'.event_sink
      PROVE  /\ Len(collected') = Smaller(options'.event_limit, budget'.lines)
             /\ delivery'.emitted_events = Len(collected')
             /\ delivery'.events_truncated = (budget'.lines > options'.event_limit)
    BY DEF EventCount
  <1>1. stage # "failed"
    BY FailureIsFinal
  <1>2. CASE ObserveLine
    <2>1. options' = options
      BY <1>2, ObserveSteps
    <2>2. /\ Len(collected) = Smaller(options.event_limit, budget.lines)
          /\ delivery.emitted_events = Len(collected)
          /\ delivery.events_truncated = (budget.lines > options.event_limit)
      BY <1>1, <2>1 DEF EventCount
    <2>3. Len(Append(collected, Event)) = Len(collected) + 1
      BY Appended DEF Shape
    <2>4. /\ budget'.lines = budget.lines + 1
          /\ budget.lines \in Nat /\ options.event_limit \in Nat
      BY <1>2, <2>1, StreamSteps
    <2>5. CASE /\ budget.lines >= options.event_limit
               /\ collected' = collected /\ delivery'.events_truncated = TRUE
               /\ delivery'.emitted_events = delivery.emitted_events
      <3>1. budget'.lines > options'.event_limit
        BY <2>1, <2>4, <2>5
      <3>2. /\ Len(collected') = Smaller(options'.event_limit, budget'.lines)
            /\ delivery'.emitted_events = Len(collected')
        BY <2>1, <2>2, <2>4, <2>5 DEF Smaller
      <3> QED
        BY <2>5, <3>1, <3>2, Zenon
    <2>6. CASE /\ budget.lines < options.event_limit
               /\ collected' = Append(collected, Event)
               /\ delivery'.emitted_events = delivery.emitted_events + 1
               /\ delivery'.events_truncated = delivery.events_truncated
      <3>1. ~(budget'.lines > options'.event_limit) /\ ~(budget.lines > options.event_limit)
        BY <2>1, <2>4, <2>6
      <3>2. /\ Len(collected') = Smaller(options'.event_limit, budget'.lines)
            /\ delivery'.emitted_events = Len(collected')
        BY <2>1, <2>2, <2>3, <2>4, <2>6 DEF Smaller
      <3>3. (budget'.lines > options'.event_limit) = (budget.lines > options.event_limit)
        BY <2>1, <2>4, <3>1, SMT
      <3>4. delivery'.events_truncated = (budget.lines > options.event_limit)
        BY <2>2, <2>6, Zenon
      <3> QED
        BY <3>2, <3>3, <3>4, Zenon
    <2> QED
      BY <1>2, <2>1, <2>5, <2>6, StreamSteps
  <1>3. CASE ~ObserveLine
    <2>1. UNCHANGED <<options, delivery, collected>> /\ budget'.lines = budget.lines
      BY <1>3, SinkUntouched, LinesUntouched
    <2> QED
      BY <1>1, <2>1 DEF EventCount
  <1> QED
    BY <1>2, <1>3

\* Events belong to the finished tasks and the open one.
EventTasks ==
    stage # "failed" =>
        \A i \in DOMAIN collected :
            collected[i].task \in 1..(Len(completed) + (IF InTask THEN 1 ELSE 0))

LEMMA EventTasksKept ==
    ASSUME Shape, Levels, ServiceCounted, Position, CoverageSplit, EventTasks, [Next]_vars
    PROVE  EventTasks'
  <1> SUFFICES ASSUME stage' # "failed" PROVE EventTasks'
    BY DEF EventTasks
  <1>1. stage # "failed"
    BY FailureIsFinal
  <1>2. Len(completed) \in Nat
    BY SequenceLength DEF Shape
  <1> DEFINE Last(done, s) == Len(done) + (IF s \in {"task", "mapping"} THEN 1 ELSE 0)
  <1>3. \A i \in DOMAIN collected : collected[i].task \in 1..Last(completed, stage)
    BY <1>1 DEF EventTasks, InTask
  <1>4. (\A i \in DOMAIN collected' : collected'[i].task \in 1..Last(completed', stage'))
           => EventTasks'
    BY DEF EventTasks, InTask
  <1>5. ASSUME NEW n \in Nat, Last(completed, stage) = n, Last(completed', stage') \in {n, n + 1},
               collected' = collected
        PROVE  EventTasks'
    <2> HIDE DEF Last
    <2> QED
      BY <1>3, <1>4, <1>5
  <1>6. ASSUME NEW excluded \in BOOLEAN, BeginTask(excluded), ~ObserveLine PROVE EventTasks'
    <2>1. /\ stage = "between" /\ stage' = "task" /\ completed' = completed
          /\ collected' = collected
      BY <1>6 DEF BeginTask, Fail
    <2> QED
      BY <1>2, <1>5, <2>1
  <1>7. CASE TraversalFails \/ SourceBudgetExhausted \/ AccessRejected \/ LineBudgetExhausted
    BY <1>7 DEF TraversalFails, SourceBudgetExhausted, AccessRejected, LineBudgetExhausted, Fail
  <1>8. ASSUME NEW first \in Blocks, NEW last \in Blocks, AccessResolved(first, last)
        PROVE  EventTasks'
    <2>1. /\ stage = "task" /\ stage' = "mapping" /\ completed' = completed
          /\ collected' = collected
      BY <1>8, ResolvedSteps
    <2> QED
      BY <1>2, <1>5, <2>1
  <1>9. CASE ObserveLine
    <2>1. /\ completed' = completed /\ stage = "mapping" /\ stage' \in {"task", "mapping"}
          /\ Undelivered \/ Delivered
      BY <1>9, ObserveSteps
    <2>2. CASE Undelivered
      BY <1>2, <1>5, <2>1, <2>2, UndeliveredFields
    <2>3. CASE Delivered
      <3> DEFINE n == Len(collected)
      <3>1. n \in Nat /\ DOMAIN collected = 1..n
        BY SequenceLength DEF Shape
      <3>2. /\ DOMAIN collected' = 1..n + 1 /\ collected'[n + 1].task = Len(completed) + 1
            /\ \A i \in 1..n : collected'[i] = collected[i]
        BY <2>3, DeliveredFields, SequenceLength, EventFields
      <3>3. Last(completed, stage) = Len(completed) + 1
            /\ Last(completed', stage') = Len(completed) + 1
        BY <2>1
      <3> HIDE DEF n, Last
      <3>4. ASSUME NEW i \in DOMAIN collected'
            PROVE  collected'[i].task \in 1..Last(completed', stage')
        <4>1. CASE i = n + 1
          BY <1>2, <3>2, <3>3, <4>1
        <4>2. CASE i # n + 1
          <5>1. i \in 1..n
            BY <3>1, <3>2, <4>2
          <5> QED
            BY <1>3, <3>1, <3>2, <3>3, <5>1
        <4> QED
          BY <4>1, <4>2
      <3> QED
        BY <1>4, <3>4
    <2> QED
      BY <2>1, <2>2, <2>3
  <1>10. CASE EndTask
    <2>1. /\ stage = "task" /\ stage' = "between" /\ Len(completed') = Len(completed) + 1
          /\ collected' = collected
      BY <1>10, EndSteps
    <2> QED
      BY <1>2, <1>5, <2>1
  <1>11. CASE Return
    <2>1. /\ stage = "between" /\ stage' = "returned" /\ completed' = completed
          /\ collected' = collected
      BY <1>11 DEF Return, Fail
    <2> QED
      BY <1>2, <1>5, <2>1
  <1>12. CASE UNCHANGED vars
    <2>1. stage' = stage /\ completed' = completed /\ collected' = collected
      BY <1>12 DEF vars
    <2> QED
      BY <1>2, <1>5, <2>1
  <1> QED
    BY <1>6, <1>7, <1>8, <1>9, <1>10, <1>11, <1>12 DEF Next, Produce

\* The task and the ordinal a position is at, step by step.
LEMMA LastEventKept ==
    ASSUME Shape, Levels, ServiceCounted, Position, CoverageSplit, EventCount, EventTasks,
           LastEvent, [Next]_vars
    PROVE  LastEvent'
  <1> SUFFICES ASSUME NothingDropped' PROVE LastEvent'
    BY DEF LastEvent
  <1>1. stage # "failed" /\ stage' # "failed" /\ options'.event_sink
        /\ budget'.lines <= options'.event_limit
    BY FailureIsFinal DEF NothingDropped
  <1>2. ASSUME ~ObserveLine
        PROVE  NothingDropped /\ collected' = collected
    BY <1>1, <1>2, SinkUntouched, LinesUntouched DEF NothingDropped
  <1>3. /\ Len(collected) \in Nat /\ Len(completed) \in Nat
        /\ unroller.ordinal \in Nat /\ pending.span \in Nat
    BY SequenceLength DEF Shape
  <1>4. ASSUME NEW excluded \in BOOLEAN, BeginTask(excluded), ~ObserveLine PROVE LastEvent'
    <2>1. /\ stage = "between" /\ stage' = "task" /\ completed' = completed
          /\ unroller'.ordinal = 0
      BY <1>1, <1>4 DEF BeginTask, Fail, Shape
    <2> QED
      BY <1>2, <1>4, <2>1 DEF LastEvent
  <1>5. CASE TraversalFails \/ SourceBudgetExhausted \/ AccessRejected \/ LineBudgetExhausted
    BY <1>1, <1>5 DEF TraversalFails, SourceBudgetExhausted, AccessRejected, LineBudgetExhausted, Fail
  <1>6. ASSUME NEW first \in Blocks, NEW last \in Blocks, AccessResolved(first, last), ~ObserveLine
        PROVE  LastEvent'
    <2>1. /\ stage = "task" /\ stage' = "mapping" /\ completed' = completed
          /\ unroller'.ordinal = unroller.ordinal + 1
          /\ pending' = [block |-> first, span |-> 0, last |-> last]
      BY <1>1, <1>6, ResolvedSteps
    <2>2. pending'.span = 0
      BY <2>1
    <2>3. CASE unroller.ordinal = 0
      BY <1>2, <1>3, <1>6, <2>1, <2>2, <2>3 DEF LastEvent
    <2>4. CASE unroller.ordinal # 0
      BY <1>2, <1>3, <1>6, <2>1, <2>2, <2>4 DEF LastEvent
    <2> QED
      BY <2>3, <2>4
  <1>7. CASE ObserveLine
    <2>1. /\ completed' = completed /\ unroller' = unroller /\ stage = "mapping"
          /\ \/ stage' = "task"
             \/ /\ stage' = "mapping"
                /\ pending'.block = pending.block + 1
                /\ pending'.span = pending.span + 1
      BY <1>1, <1>7, ObserveSteps
    <2>2. unroller.ordinal # 0
      BY <2>1 DEF Position, InTask
    <2>3. collected' = Append(collected, Event)
      <3>1. options' = options
        BY <1>7, ObserveSteps
      <3>2. options.event_sink
        BY <1>1, <3>1, Zenon
      <3>3. /\ budget'.lines = budget.lines + 1 /\ budget.lines \in Nat
            /\ options.event_limit \in Nat
            /\ budget.lines >= options.event_limit \/ collected' = Append(collected, Event)
        BY <1>1, <1>7, <3>2, StreamSteps
      <3> QED
        BY <1>1, <3>1, <3>3
    <2>4. Len(collected') = Len(collected) + 1 /\ collected'[Len(collected) + 1] = Event
      BY <2>3, Appended DEF Shape
    <2>5. pending.block \in Nat
      BY DEF Shape
    <2> DEFINE last == collected'[Len(collected')]
    <2>6. /\ last.task = Len(completed) + 1 /\ last.ordinal = unroller.ordinal - 1
          /\ last.span = pending.span /\ last.block = pending.block
          /\ Len(collected') > 0
      BY <1>3, <2>4, EventFields
    <2> HIDE DEF last
    <2>7. CASE stage' = "task"
      <3>1. last.task = Len(completed') + 1 /\ last.ordinal = unroller'.ordinal - 1
        BY <2>1, <2>6
      <3> QED
        BY <1>3, <2>1, <2>2, <2>6, <2>7, <3>1 DEF LastEvent, last
    <2>8. CASE stage' = "mapping"
      <3>1. /\ last.task = Len(completed') + 1 /\ last.ordinal = unroller'.ordinal - 1
            /\ last.span = pending'.span - 1 /\ last.block = pending'.block - 1
            /\ pending'.span > 0
        BY <1>3, <2>1, <2>5, <2>6, <2>8, SMTT(30)
      <3> QED
        BY <2>6, <2>8, <3>1 DEF LastEvent, last
    <2> QED
      BY <2>1, <2>7, <2>8
  <1>8. CASE EndTask /\ ~ObserveLine
    <2>1. /\ stage = "task" /\ stage' = "between" /\ Len(completed') = Len(completed) + 1
      BY <1>1, <1>8, EndSteps
    <2>2. Len(collected) > 0 => collected[Len(collected)].task \in 1..Len(completed) + 1
      <3>1. Len(collected) > 0 => Len(collected) \in DOMAIN collected
        BY <1>3, SequenceLength DEF Shape
      <3> QED
        BY <2>1, <3>1 DEF EventTasks, InTask
    <2>3. Len(collected) > 0 => collected[Len(collected)].task < Len(completed) + 1 + 1
      BY <1>3, <2>2
    <2> QED
      BY <1>2, <1>8, <2>1, <2>3 DEF LastEvent
  <1>9. CASE Return
    <2>1. stage' = "returned"
      BY <1>1, <1>9 DEF Return, Fail
    <2> QED
      BY <2>1 DEF LastEvent
  <1>10. CASE UNCHANGED vars /\ ~ObserveLine
    BY <1>2, <1>10 DEF vars, LastEvent
  <1> QED
    BY <1>4, <1>5, <1>6, <1>7, <1>8, <1>9, <1>10 DEF Next, Produce

\* The next event follows the last one.
LEMMA EventFollows ==
    ASSUME Shape, Position, NothingDropped, LastEvent, stage = "mapping"
    PROVE  LET n == Len(collected)
           IN  IF n = 0 THEN Event.ordinal = 0 /\ Event.span = 0
               ELSE FollowsInOrder(collected[n], Event)
  <1>1. /\ Len(collected) \in Nat /\ Len(completed) \in Nat
        /\ unroller.ordinal \in Nat \ {0} /\ pending.span \in Nat /\ pending.block \in Nat
    BY SequenceLength DEF Shape, Position, InTask
  <1> DEFINE last == collected[Len(collected)]
  <1>2. CASE pending.span > 0
    <2>1. /\ last.task = Len(completed) + 1 /\ last.ordinal = unroller.ordinal - 1
          /\ last.span = pending.span - 1 /\ last.block = pending.block - 1
          /\ Len(collected) > 0
      BY <1>2 DEF LastEvent
    <2>2. FollowsInOrder(last, Event)
      <3> HIDE DEF last
      <3> QED
        BY <1>1, <2>1, EventFields DEF FollowsInOrder
    <2> QED
      BY <1>1, <2>1, <2>2
  <1>3. CASE pending.span = 0 /\ unroller.ordinal > 1
    <2>1. /\ last.task = Len(completed) + 1 /\ last.ordinal = unroller.ordinal - 2
          /\ Len(collected) > 0
      BY <1>3 DEF LastEvent
    <2>2. FollowsInOrder(last, Event)
      <3> HIDE DEF last
      <3> QED
        BY <1>1, <1>3, <2>1, EventFields DEF FollowsInOrder
    <2> QED
      BY <1>1, <2>1, <2>2
  <1>4. CASE pending.span = 0 /\ unroller.ordinal = 1
    <2>1. Len(collected) > 0 => last.task < Len(completed) + 1
      BY <1>4 DEF LastEvent
    <2>2. Event.ordinal = 0 /\ Event.span = 0 /\ Event.task = Len(completed) + 1
      BY <1>4, EventFields
    <2>3. Len(collected) > 0 => FollowsInOrder(last, Event)
      <3> HIDE DEF last
      <3> QED
        BY <1>1, <2>1, <2>2 DEF FollowsInOrder
    <2> QED
      BY <1>1, <2>2, <2>3
  <1> QED
    BY <1>1, <1>2, <1>3, <1>4

LEMMA EventOrderKept ==
    ASSUME Shape, Position, EventCount, EventOrder, LastEvent, [Next]_vars,
           stage # "failed"
    PROVE  EventOrder'
  <1>1. CASE collected' = collected
    BY <1>1 DEF EventOrder
  <1>2. CASE collected' # collected
    <2>1. ObserveLine
      BY <1>2, SinkUntouched
    <2>2. stage' # "failed" /\ stage = "mapping"
      BY <1>2, <2>1, ObserveSteps
    <2>3. options.event_sink
      BY <1>2, <2>1, <2>2, ObserveSteps, UndeliveredFields, DeliveredFields
    <2>4. collected' = Append(collected, Event) /\ budget.lines < options.event_limit
          /\ budget.lines \in Nat /\ options.event_limit \in Nat
      BY <1>2, <2>1, <2>2, <2>3, StreamSteps
    <2>5. NothingDropped
      BY <2>2, <2>3, <2>4 DEF NothingDropped
    <2> DEFINE n == Len(collected)
    <2>6. n \in Nat /\ DOMAIN collected = 1..n
      BY SequenceLength DEF Shape
    <2>7. /\ DOMAIN collected' = 1..n + 1 /\ collected'[n + 1] = Event
          /\ \A i \in 1..n : collected'[i] = collected[i]
      BY <2>4, Appended, SequenceLength DEF Shape
    <2>8. IF n = 0 THEN Event.ordinal = 0 /\ Event.span = 0
          ELSE FollowsInOrder(collected[n], Event)
      BY <2>2, <2>5, EventFollows
    <2> HIDE DEF n
    <2>9. ASSUME NEW i \in DOMAIN collected'
          PROVE  /\ ValidEvent(collected'[i])
                 /\ IF i = 1 THEN collected'[i].ordinal = 0 /\ collected'[i].span = 0
                    ELSE FollowsInOrder(collected'[i - 1], collected'[i])
      <3>1. CASE i = n + 1
        <4>1. i # 1 => n \in 1..n /\ i - 1 = n /\ n # 0
          BY <2>6, <3>1
        <4>2. i = 1 => n = 0
          BY <2>6, <3>1
        <4> QED
          BY <2>7, <2>8, <3>1, <4>1, <4>2, EventValid
      <3>2. CASE i # n + 1
        <4>1. i \in 1..n /\ (i # 1 => i - 1 \in 1..n)
          BY <2>6, <2>7, <3>2
        <4> QED
          BY <2>6, <2>7, <4>1 DEF EventOrder
      <3> QED
        BY <3>1, <3>2
    <2> QED
      BY <2>9 DEF EventOrder
  <1> QED
    BY <1>1, <1>2

-----------------------------------------------------------------------------
(* The events of a task, counted by the level that served them.             *)

ServedBy(events, task, level) ==
    Cardinality({i \in DOMAIN events :
                    events[i].task = task /\ events[i].first_service = level})

CountedAs(task, number) ==
    /\ ServedBy(collected, number, "L1") = task.l1_first_hit_count
    /\ ServedBy(collected, number, "LLC") = task.llc_first_hit_count
    /\ ServedBy(collected, number, "Memory") = task.all_cache_misses

\* While nothing was dropped, the events say what the counters say.
EventsServed ==
    NothingDropped =>
        /\ \A i \in DOMAIN completed : CountedAs(completed[i], i)
        /\ InTask => CountedAs(active, Len(completed) + 1)

LEMMA ServedAppended ==
    ASSUME NEW events, IsSequence(events), NEW e, NEW task, NEW level
    PROVE  /\ ServedBy(events, task, level) \in Nat
           /\ ServedBy(Append(events, e), task, level) =
                 ServedBy(events, task, level)
                    + (IF e.task = task /\ e.first_service = level THEN 1 ELSE 0)
  <1> DEFINE n == Len(events)
             after == Append(events, e)
             S == {i \in DOMAIN events : events[i].task = task /\ events[i].first_service = level}
             T == {i \in DOMAIN after : after[i].task = task /\ after[i].first_service = level}
  <1>1. n \in Nat /\ DOMAIN events = 1..n
    BY SequenceLength
  <1>2. /\ DOMAIN after = 1..n + 1 /\ after[n + 1] = e
        /\ \A i \in 1..n : after[i] = events[i]
    BY Appended, SequenceLength
  <1>3. IsFiniteSet(S) /\ Cardinality(S) \in Nat
    <2>1. IsFiniteSet(1..n)
      BY <1>1, FS_Interval
    <2>2. S \subseteq 1..n
      BY <1>1
    <2> HIDE DEF S, n
    <2> QED
      BY <2>1, <2>2, FS_Subset, FS_CardinalityType
  <1>4. n + 1 \notin S
    BY <1>1
  <1> HIDE DEF after
  <1>5. /\ ServedBy(events, task, level) = Cardinality(S)
        /\ ServedBy(after, task, level) = Cardinality(T)
    BY DEF ServedBy
  <1>6. CASE e.task = task /\ e.first_service = level
    <2>1. T = S \cup {n + 1}
      BY <1>1, <1>2, <1>6
    <2>2. Cardinality(T) = Cardinality(S) + 1
      <3> HIDE DEF S, T
      <3> QED
        BY <1>3, <1>4, <2>1, FS_AddElement
    <2> HIDE DEF S, T
    <2> QED
      BY <1>3, <1>6, <1>5, <2>2 DEF after
  <1>7. CASE ~(e.task = task /\ e.first_service = level)
    <2>1. T = S
      BY <1>1, <1>2, <1>7
    <2> HIDE DEF S, T
    <2> QED
      BY <1>3, <1>7, <1>5, <2>1 DEF after
  <1> QED
    BY <1>6, <1>7

\* A task that has not begun has no events.
LEMMA NoneServed ==
    ASSUME NEW task, NEW level, \A i \in DOMAIN collected : collected[i].task # task
    PROVE  ServedBy(collected, task, level) = 0
  <1>1. {i \in DOMAIN collected :
            collected[i].task = task /\ collected[i].first_service = level} = {}
    OBVIOUS
  <1> QED
    BY <1>1, FS_EmptySet DEF ServedBy

LEMMA EventsServedKept ==
    ASSUME Shape, Levels, ServiceCounted, Position, CoverageSplit, EventCount, EventTasks,
           EventsServed, [Next]_vars
    PROVE  EventsServed'
  <1> SUFFICES ASSUME NothingDropped' PROVE EventsServed'
    BY DEF EventsServed
  <1>1. stage # "failed" /\ stage' # "failed" /\ options'.event_sink
        /\ budget'.lines <= options'.event_limit
    BY FailureIsFinal DEF NothingDropped
  <1>2. ASSUME ~ObserveLine
        PROVE  NothingDropped /\ collected' = collected
    BY <1>1, <1>2, SinkUntouched, LinesUntouched DEF NothingDropped
  <1>3. Len(completed) \in Nat /\ DOMAIN completed = 1..Len(completed)
    BY SequenceLength DEF Shape
  <1>4. ASSUME NEW excluded \in BOOLEAN, BeginTask(excluded), ~ObserveLine PROVE EventsServed'
    <2>1. /\ stage = "between" /\ stage' = "task" /\ completed' = completed
          /\ active' = ColdTask
      BY <1>1, <1>4 DEF BeginTask, Fail
    <2> DEFINE n == Len(completed) + 1
    <2>2. \A i \in DOMAIN collected : collected[i].task # n
      BY <1>1, <1>3, <2>1 DEF EventTasks, InTask
    <2>3. /\ ServedBy(collected, n, "L1") = 0 /\ ServedBy(collected, n, "LLC") = 0
          /\ ServedBy(collected, n, "Memory") = 0
      BY <2>2, NoneServed
    <2>4. n' = n
      BY <2>1
    <2> HIDE DEF n
    <2>5. collected' = collected /\ NothingDropped
      BY <1>2, <1>4
    <2>6. /\ active'.l1_first_hit_count = 0 /\ active'.llc_first_hit_count = 0
          /\ active'.all_cache_misses = 0
      BY <2>1, ColdTaskFields
    <2>7. CountedAs(active, n)'
      BY <2>3, <2>4, <2>5, <2>6 DEF CountedAs
    <2>8. \A i \in DOMAIN completed' : CountedAs(completed[i], i)'
      BY <2>1, <2>5 DEF EventsServed, CountedAs
    <2> QED
      BY <2>7, <2>8 DEF EventsServed, n
  <1>5. CASE TraversalFails \/ SourceBudgetExhausted \/ AccessRejected \/ LineBudgetExhausted
    BY <1>1, <1>5 DEF TraversalFails, SourceBudgetExhausted, AccessRejected, LineBudgetExhausted, Fail
  <1>6. ASSUME NEW first \in Blocks, NEW last \in Blocks, AccessResolved(first, last), ~ObserveLine
        PROVE  EventsServed'
    <2>1. /\ stage = "task" /\ stage' = "mapping" /\ completed' = completed
          /\ active' = Accepted
      BY <1>1, <1>6, ResolvedSteps
    <2>2. /\ active'.l1_first_hit_count = active.l1_first_hit_count
          /\ active'.llc_first_hit_count = active.llc_first_hit_count
          /\ active'.all_cache_misses = active.all_cache_misses
      BY <2>1, AcceptedFields DEF Shape
    <2> QED
      BY <1>2, <1>6, <2>1, <2>2 DEF EventsServed, CountedAs, InTask
  <1>7. CASE ObserveLine
    <2>1. /\ completed' = completed /\ stage = "mapping" /\ stage' \in {"task", "mapping"}
          /\ options' = options /\ active' = Observed
      BY <1>1, <1>7, ObserveSteps
    <2>2. options.event_sink
      BY <1>1, <2>1, Zenon
    <2>3. /\ budget'.lines = budget.lines + 1 /\ budget.lines \in Nat
          /\ options.event_limit \in Nat
          /\ budget.lines >= options.event_limit \/ collected' = Append(collected, Event)
      BY <1>1, <1>7, <2>2, StreamSteps
    <2>4. collected' = Append(collected, Event) /\ budget.lines <= options.event_limit
      BY <1>1, <2>1, <2>3
    <2>5. NothingDropped
      BY <1>1, <2>2, <2>4 DEF NothingDropped
    <2> DEFINE n == Len(completed) + 1
    <2>6. \A task, level :
             /\ ServedBy(collected, task, level) \in Nat
             /\ ServedBy(collected', task, level) = ServedBy(collected, task, level)
                   + (IF n = task /\ first_service = level THEN 1 ELSE 0)
      BY <2>4, ServedAppended, EventFields DEF Shape
    <2>7. \A task, level : n # task =>
             ServedBy(collected', task, level) = ServedBy(collected, task, level)
      BY <2>6
    <2>8. \A i \in DOMAIN completed : CountedAs(completed[i], i)'
      <3>1. \A i \in DOMAIN completed : i # n
        BY <1>3
      <3> HIDE DEF n
      <3> QED
        BY <2>1, <2>5, <2>7, <3>1 DEF EventsServed, CountedAs
    <2>9. /\ active'.l1_first_hit_count =
                active.l1_first_hit_count + (IF first_service = "L1" THEN 1 ELSE 0)
          /\ active'.llc_first_hit_count =
                active.llc_first_hit_count + (IF first_service = "LLC" THEN 1 ELSE 0)
          /\ active'.all_cache_misses =
                active.all_cache_misses + (IF first_service = "Memory" THEN 1 ELSE 0)
      BY <2>1, ObservedFields DEF Shape
    <2>10. CountedAs(active, n)
      BY <2>1, <2>5 DEF EventsServed, InTask
    <2> HIDE DEF n
    <2>11. /\ ServedBy(collected', n, "L1") = active'.l1_first_hit_count
           /\ ServedBy(collected', n, "LLC") = active'.llc_first_hit_count
           /\ ServedBy(collected', n, "Memory") = active'.all_cache_misses
      BY <2>6, <2>9, <2>10 DEF CountedAs
    <2> QED
      BY <2>1, <2>8, <2>11 DEF EventsServed, CountedAs, n
  <1>8. CASE EndTask /\ ~ObserveLine
    <2>1. /\ stage = "task" /\ stage' = "between"
          /\ DOMAIN completed' = DOMAIN completed \cup {Len(completed) + 1}
          /\ \A i \in DOMAIN completed : completed'[i] = completed[i]
          /\ completed'[Len(completed) + 1] = Summary
      BY <1>1, <1>8, EndSteps
    <2>2. collected' = collected /\ NothingDropped
      BY <1>2, <1>8
    <2>3. CountedAs(active, Len(completed) + 1)
      BY <2>1, <2>2 DEF EventsServed, InTask
    <2>4. CountedAs(Summary, Len(completed) + 1)
      BY <2>3, SummaryFields DEF CountedAs
    <2>5. \A i \in DOMAIN completed' : CountedAs(completed'[i], i)
      BY <2>1, <2>2, <2>4 DEF EventsServed
    <2>6. \A i \in DOMAIN completed' : CountedAs(completed[i], i)'
      BY <2>2, <2>5 DEF CountedAs
    <2> QED
      BY <2>1, <2>6 DEF EventsServed, InTask
  <1>9. CASE Return /\ ~ObserveLine
    <2>1. stage' = "returned" /\ completed' = completed
      BY <1>1, <1>9 DEF Return, Fail
    <2> QED
      BY <1>2, <1>9, <2>1 DEF EventsServed, CountedAs, InTask
  <1>10. CASE UNCHANGED vars /\ ~ObserveLine
    BY <1>2, <1>10 DEF vars, EventsServed, CountedAs, InTask
  <1> QED
    BY <1>4, <1>5, <1>6, <1>7, <1>8, <1>9, <1>10 DEF Next, Produce

-----------------------------------------------------------------------------
(* All of it together.                                                      *)

IInv ==
    /\ Shape /\ Levels /\ ServiceCounted /\ Position /\ CoverageSplit
    /\ TasksSound /\ BudgetCharged /\ TypeOK /\ ChecksNeverFire
    /\ EventCount /\ EventTasks /\ EventsServed /\ LastEvent
    /\ stage # "failed" => EventOrder

LEMMA InitIInv == Init => IInv
  <1> SUFFICES ASSUME Init PROVE IInv
    OBVIOUS
  <1>1. Shape
    BY InitShape
  <1>2. stage = "between" /\ failure = "none" /\ active = ColdTask /\ ~InTask
        /\ completed = <<>> /\ collected = <<>>
    BY DEF Init, InTask
  <1>3. Levels
    BY <1>2, ColdTaskFields, ColdLevelSound, Geometries DEF Levels, SameFootprint
  <1>4. ServiceCounted
    BY <1>2, ColdTaskFields DEF ServiceCounted
  <1>5. Position
    BY <1>2 DEF Position, InTask
  <1>6. CoverageSplit
    BY <1>2 DEF Init, CoverageSplit, NoCoverage, Complete, InTask
  <1>7. \A f : DOMAIN f = DOMAIN completed => SumFunction(f) = 0
    BY <1>2, EmptySequence, SumOverNone
  <1>8. /\ OverTasks(LAMBDA t : t.modeled_accesses) = 0
        /\ OverTasks(LAMBDA t : t.source_accesses) = 0
    BY <1>7 DEF OverTasks
  <1>9. TasksSound
    <2>1. DOMAIN completed = {} /\ Len(completed) = 0
      BY <1>2, EmptySequence
    <2>2. \A field \in CoverageFields : coverage[field] = 0
      BY DEF Init, NoCoverage, CoverageFields
    <2>3. ASSUME NEW field \in CoverageFields
          PROVE  coverage[field] = SumFunction([i \in DOMAIN completed |-> completed[i].coverage[field]])
      BY <1>7, <2>2
    <2>4. stage # "returned" /\ roots \in Nat \ {0}
      BY <1>1, <1>2 DEF Shape
    <2> QED
      BY <1>2, <2>1, <2>3, <2>4 DEF TasksSound, OverTasks
  <1>10. BudgetCharged
    <2>1. budget.lines = 0 /\ budget.sources = 0 /\ unroller.coverage.source = 0
      BY DEF Init, NoCoverage
    <2> QED
      BY <1>2, <1>8, <2>1 DEF BudgetCharged
  <1>11. TypeOK
    <2>1. Len(completed) <= roots
      BY <1>9 DEF TasksSound
    <2>2. pending.block = 0 /\ pending.last = 0
      BY DEF Init, NoLines
    <2>3. budget \in [sources : 0..options.sources, lines : 0..options.lines]
      BY <1>1 DEF Init, Shape
    <2> QED
      BY <1>2, <2>1, <2>2, <2>3 DEF TypeOK
  <1>12. ChecksNeverFire
    BY <1>2 DEF ChecksNeverFire
  <1>13. DOMAIN collected = {} /\ Len(collected) = 0 /\ DOMAIN completed = {}
    BY <1>2, EmptySequence
  <1>14. EventCount
    <2>1. /\ delivery.emitted_events = 0 /\ delivery.events_truncated = FALSE
          /\ budget.lines = 0
      BY DEF Init
    <2>2. options.event_limit \in Nat
      BY <1>1 DEF Shape
    <2>3. ~(budget.lines > options.event_limit)
          /\ Len(collected) = Smaller(options.event_limit, budget.lines)
      BY <1>13, <2>1, <2>2 DEF Smaller
    <2>4. FALSE = (budget.lines > options.event_limit)
      BY <2>1, <2>2
    <2>5. delivery.events_truncated = (budget.lines > options.event_limit)
      BY <2>1, <2>4, Zenon
    <2> QED
      BY <1>13, <2>1, <2>3, <2>5, Zenon DEF EventCount
  <1>15. EventTasks /\ EventsServed /\ EventOrder
    BY <1>2, <1>13 DEF EventTasks, EventsServed, EventOrder
  <1>16. LastEvent
    BY <1>2, <1>13 DEF LastEvent
  <1> QED
    BY <1>1, <1>3, <1>4, <1>5, <1>6, <1>9, <1>10, <1>11, <1>12, <1>14, <1>15, <1>16 DEF IInv

LEMMA NextIInv == IInv /\ [Next]_vars => IInv'
  <1> SUFFICES ASSUME IInv, [Next]_vars PROVE IInv'
    OBVIOUS
  <1> USE DEF IInv
  <1>1. Shape' /\ Levels' /\ ServiceCounted' /\ Position' /\ CoverageSplit'
    BY ShapeKept, LevelsKept, ServiceCountedKept, PositionKept, CoverageSplitKept DEF Shape
  <1>2. TasksSound' /\ BudgetCharged' /\ TypeOK' /\ ChecksNeverFire'
    BY TasksSoundKept, BudgetChargedKept, TypeOKKept, ChecksNeverFireKept
  <1>3. EventCount' /\ EventTasks' /\ EventsServed' /\ LastEvent'
    BY EventCountKept, EventTasksKept, EventsServedKept, LastEventKept
  <1>4. stage' # "failed" => EventOrder'
    BY EventOrderKept, FailureIsFinal
  <1> QED
    BY <1>1, <1>2, <1>3, <1>4

LEMMA IInvHolds == Spec => []IInv
  BY InitIInv, NextIInv, PTL DEF Spec

-----------------------------------------------------------------------------
(* What follows.                                                            *)

LEMMA IInvImplies ==
    ASSUME IInv
    PROVE  EventsDescribeRun /\ EventsAddUp /\ ResultIsValid
  <1>1. EventsDescribeRun
    BY DEF IInv, EventCount, EventOrder, EventsDescribeRun
  <1>2. ASSUME stage = "returned", options.event_sink, ~delivery.events_truncated
        PROVE  \A i \in DOMAIN completed : CountedAs(completed[i], i)
    <2>1. /\ delivery.events_truncated = (budget.lines > options.event_limit)
          /\ budget.lines \in Nat /\ options.event_limit \in Nat
      BY <1>2 DEF IInv, EventCount, Shape
    <2>2. ~(budget.lines > options.event_limit)
      BY <1>2, <2>1, Zenon
    <2>3. NothingDropped
      BY <1>2, <2>1, <2>2 DEF NothingDropped
    <2> QED
      BY <2>3 DEF IInv, EventsServed
  <1>3. EventsAddUp
    BY <1>2 DEF EventsAddUp, CountedAs, ServedBy
  <1>4. ResultIsValid
    <2> SUFFICES ASSUME stage = "returned" PROVE ResultIsValid
      BY DEF ResultIsValid
    <2>1. /\ \A i \in DOMAIN completed : SummarySound(completed[i])
          /\ Len(completed) = roots
          /\ \A field \in CoverageFields :
                coverage[field] = SumFunction([i \in DOMAIN completed |-> completed[i].coverage[field]])
      BY DEF IInv, TasksSound, OverTasks
    <2>2. Complete(coverage)
      BY DEF IInv, CoverageSplit
    <2>3. DOMAIN coverage = CoverageFields
      BY DEF IInv, Shape, Coverages, CoverageFields
    <2> QED
      BY <2>1, <2>2, <2>3 DEF ResultIsValid, SummarySound, OverTasks
  <1> QED
    BY <1>1, <1>3, <1>4

-----------------------------------------------------------------------------
(* The stages, failures and positions are as typed, and neither limit of    *)
(* the budget is ever exceeded (TraceEmissionBudget).                       *)
THEOREM Types == Spec => []TypeOK
  <1>1. IInv => TypeOK
    BY DEF IInv
  <1> QED
    BY <1>1, IInvHolds, PTL

(* The two levels of the active task have seen the same blocks at every     *)
(* point of every analysis, whatever their geometries: a block's first L1   *)
(* lookup misses, and a miss is what observe_line forwards.                 *)
THEOREM LevelsShareFootprint == Spec => []SameFootprint
  <1>1. IInv => SameFootprint
    BY DEF IInv, Levels
  <1> QED
    BY <1>1, IInvHolds, PTL

(* None of the std::logic_error checks of summarize_streaming_level,        *)
(* finalize_hierarchy_service, finish() and the module's end ever throws,   *)
(* nor does the task ever see provenance that is not the producer's.        *)
THEOREM LogicErrorsAreUnreachable == Spec => []ChecksNeverFire
  <1>1. IInv => ChecksNeverFire
    BY DEF IInv
  <1> QED
    BY <1>1, IInvHolds, PTL

(* At every point the module's budget has lent exactly the sources and the  *)
(* lines that the finished tasks and the open one have modelled, and LLC    *)
(* forwarding never charges a line twice.                                   *)
THEOREM BudgetIsAccountedFor == Spec => []BudgetCharged
  <1>1. IInv => BudgetCharged
    BY DEF IInv
  <1> QED
    BY <1>1, IInvHolds, PTL

(* The event sink receives the first event_limit line references of the     *)
(* module in source and span order, each valid, and the truncation mark     *)
(* exactly when one was left out (HierarchyEventDelivery).                  *)
THEOREM SinkSeesRunInOrder == Spec => []EventsDescribeRun
  <1>1. IInv => EventsDescribeRun
    BY IInvImplies
  <1> QED
    BY <1>1, IInvHolds, PTL

(* Events nothing was cut from add up, task by task, to the service counts  *)
(* of the result.                                                           *)
THEOREM EventsMatchSummaries == Spec => []EventsAddUp
  <1>1. IInv => EventsAddUp
    BY IInvImplies
  <1> QED
    BY <1>1, IInvHolds, PTL

(* A result the analysis returns is one the validation of the artifact      *)
(* writer accepts (validate_level and the checks of the task summary).      *)
THEOREM ReturnedResultIsValid == Spec => []ResultIsValid
  <1>1. IInv => ResultIsValid
    BY IInvImplies
  <1> QED
    BY <1>1, IInvHolds, PTL

-----------------------------------------------------------------------------
(* The analysis implements the LRU hierarchy.  A history in which "newer    *)
(* than" is a total order has one block for each number of newer blocks;    *)
(* the blocks with fewer newer ones than there are ways are the lines an    *)
(* LRU set holds, in its order.                                             *)
-----------------------------------------------------------------------------
(* Histories.                                                               *)

Ordered(h) ==
    /\ IsFiniteSet(DOMAIN h)
    /\ \A k \in DOMAIN h : h[k] \subseteq DOMAIN h \ {k}
    /\ \A j, k \in DOMAIN h : j # k => j \in h[k] \/ k \in h[j]
    /\ \A j, k \in DOMAIN h : j \in h[k] => h[j] \subseteq h[k]

LEMMA UnseenOrdered == Ordered(Unseen) /\ DOMAIN Unseen = {} /\ Cardinality(DOMAIN Unseen) = 0
  BY FS_EmptySet DEF Ordered, Unseen

LEMMA TouchedFields ==
    ASSUME NEW h, NEW block
    PROVE  /\ DOMAIN Touched(h, block) = DOMAIN h \cup {block}
           /\ Touched(h, block)[block] = {}
           /\ \A k \in DOMAIN h : k # block => Touched(h, block)[k] = h[k] \cup {block}
  BY DEF Touched

LEMMA TouchedOrdered ==
    ASSUME NEW h, NEW block, Ordered(h)
    PROVE  Ordered(Touched(h, block))
  <1> DEFINE new == Touched(h, block)
  <1>1. /\ DOMAIN new = DOMAIN h \cup {block}
        /\ new[block] = {}
        /\ \A k \in DOMAIN h : k # block => new[k] = h[k] \cup {block}
    BY TouchedFields
  <1> HIDE DEF new
  <1>2. IsFiniteSet(DOMAIN new)
    BY <1>1, FS_AddElement DEF Ordered
  <1>3. \A k \in DOMAIN new : new[k] \subseteq DOMAIN new \ {k}
    BY <1>1 DEF Ordered
  <1>4. \A j, k \in DOMAIN new : j # k => j \in new[k] \/ k \in new[j]
    BY <1>1 DEF Ordered
  <1>5. \A j, k \in DOMAIN new : j \in new[k] => new[j] \subseteq new[k]
    BY <1>1 DEF Ordered
  <1> QED
    BY <1>2, <1>3, <1>4, <1>5 DEF Ordered, new

\* The number of newer blocks.
Rank(h, k) == Cardinality(h[k])

LEMMA RankBounded ==
    ASSUME NEW h, Ordered(h), NEW k \in DOMAIN h
    PROVE  /\ IsFiniteSet(h[k]) /\ Rank(h, k) \in Nat
           /\ Cardinality(DOMAIN h) \in Nat /\ Rank(h, k) < Cardinality(DOMAIN h)
  <1>1. IsFiniteSet(DOMAIN h) /\ h[k] \subseteq DOMAIN h /\ h[k] # DOMAIN h
    BY DEF Ordered
  <1> QED
    BY <1>1, FS_Subset, FS_CardinalityType DEF Rank

LEMMA RankOrders ==
    ASSUME NEW h, Ordered(h), NEW j \in DOMAIN h, NEW k \in DOMAIN h
    PROVE  /\ j \in h[k] <=> Rank(h, j) < Rank(h, k)
           /\ Rank(h, j) = Rank(h, k) => j = k
  <1>1. ASSUME NEW x \in DOMAIN h, NEW y \in DOMAIN h, x \in h[y]
        PROVE  Rank(h, x) < Rank(h, y)
    <2>1. h[x] \subseteq h[y] /\ h[x] # h[y]
      BY <1>1 DEF Ordered
    <2>2. IsFiniteSet(h[y])
      BY RankBounded
    <2> QED
      BY <2>1, <2>2, FS_Subset, FS_CardinalityType DEF Rank
  <1>2. Rank(h, j) \in Nat /\ Rank(h, k) \in Nat
    BY RankBounded
  <1>3. j # k => j \in h[k] \/ k \in h[j]
    BY DEF Ordered
  <1>4. (j \in h[k] => Rank(h, j) < Rank(h, k)) /\ (k \in h[j] => Rank(h, k) < Rank(h, j))
    BY <1>1
  <1> QED
    BY <1>2, <1>3, <1>4

\* Every number below the population is somebody's rank.
LEMMA RankOnto ==
    ASSUME NEW h, Ordered(h), NEW r \in Nat, r < Cardinality(DOMAIN h)
    PROVE  \E k \in DOMAIN h : Rank(h, k) = r
  <1> DEFINE n == Cardinality(DOMAIN h)
             T == 0..n - 1
             f == [k \in DOMAIN h |-> Rank(h, k)]
  <1>1. IsFiniteSet(DOMAIN h) /\ n \in Nat
    BY FS_CardinalityType DEF Ordered
  <1>2. IsFiniteSet(T) /\ Cardinality(T) = n
    <2>1. 0 \in Int /\ n - 1 \in Int /\ n - 1 - 0 + 1 = n
      BY <1>1
    <2>2. Cardinality(T) = IF 0 > n - 1 THEN 0 ELSE n - 1 - 0 + 1
      BY <2>1, FS_Interval
    <2>3. IsFiniteSet(T)
      BY <2>1, FS_Interval
    <2> HIDE DEF T, n
    <2> QED
      BY <1>1, <2>1, <2>2, <2>3
  <1>3. f \in Injection(DOMAIN h, T)
    <2>1. \A k \in DOMAIN h : Rank(h, k) \in T
      BY RankBounded
    <2>2. \A j, k \in DOMAIN h : Rank(h, j) = Rank(h, k) => j = k
      BY RankOrders
    <2> QED
      BY <2>1, <2>2 DEF Injection, IsInjective
  <1>4. f \in Surjection(DOMAIN h, T)
    <2> HIDE DEF f, T
    <2> QED
      BY <1>2, <1>3, FS_Injection DEF n
  <1>5. r \in T
    BY <1>1
  <1> QED
    BY <1>4, <1>5 DEF Surjection

\* An observation makes everything it overtakes one older.
LEMMA TouchedRanks ==
    ASSUME NEW h, NEW block, Ordered(h)
    PROVE  /\ Rank(Touched(h, block), block) = 0
           /\ \A k \in DOMAIN h : k # block =>
                 Rank(Touched(h, block), k) = Rank(h, k) + (IF block \in h[k] THEN 0 ELSE 1)
  <1>1. Rank(Touched(h, block), block) = 0
    BY TouchedFields, FS_EmptySet DEF Rank
  <1>2. ASSUME NEW k \in DOMAIN h, k # block
        PROVE  Rank(Touched(h, block), k) = Rank(h, k) + (IF block \in h[k] THEN 0 ELSE 1)
    <2>1. Touched(h, block)[k] = h[k] \cup {block}
      BY <1>2 DEF Touched
    <2>2. IsFiniteSet(h[k]) /\ Rank(h, k) \in Nat
      BY RankBounded
    <2>3. CASE block \in h[k]
      <3>1. h[k] \cup {block} = h[k]
        BY <2>3
      <3> QED
        BY <2>1, <2>2, <2>3, <3>1 DEF Rank
    <2>4. CASE block \notin h[k]
      BY <2>1, <2>2, <2>4, FS_AddElement DEF Rank
    <2> QED
      BY <2>3, <2>4
  <1> QED
    BY <1>1, <1>2

-----------------------------------------------------------------------------
(* The lines of a set.                                                      *)

LinesOf(h, ways) ==
    [i \in 1..Smaller(ways, Cardinality(DOMAIN h)) |->
        CHOOSE x \in DOMAIN h : Cardinality(h[x]) = i - 1]

LEMMA LinesFields ==
    ASSUME NEW h, Ordered(h), NEW ways \in Nat
    PROVE  /\ LinesOf(h, ways) \in Seq(DOMAIN h)
           /\ Len(LinesOf(h, ways)) = Smaller(ways, Cardinality(DOMAIN h))
           /\ DOMAIN LinesOf(h, ways) = 1..Len(LinesOf(h, ways))
           /\ Len(LinesOf(h, ways)) \in Nat
           /\ \A i \in 1..Len(LinesOf(h, ways)) :
                 LinesOf(h, ways)[i] \in DOMAIN h /\ Rank(h, LinesOf(h, ways)[i]) = i - 1
           /\ \A x \in DOMAIN h : Rank(h, x) < ways =>
                 /\ Rank(h, x) + 1 \in 1..Len(LinesOf(h, ways))
                 /\ LinesOf(h, ways)[Rank(h, x) + 1] = x
  <1> DEFINE n == Cardinality(DOMAIN h)
             m == Smaller(ways, n)
             lines == LinesOf(h, ways)
  <1>1. n \in Nat
    BY FS_CardinalityType DEF Ordered
  <1>2. m \in Nat /\ m <= n /\ m <= ways /\ (m = n \/ m = ways)
    BY <1>1 DEF Smaller
  <1>3. lines = [i \in 1..m |-> CHOOSE x \in DOMAIN h : Rank(h, x) = i - 1]
    BY DEF LinesOf, Rank
  <1> HIDE DEF m, lines
  <1>4. ASSUME NEW i \in 1..m
        PROVE  lines[i] \in DOMAIN h /\ Rank(h, lines[i]) = i - 1
    <2>1. i - 1 \in Nat /\ i - 1 < n
      BY <1>1, <1>2
    <2>2. \E x \in DOMAIN h : Rank(h, x) = i - 1
      BY <2>1, RankOnto
    <2> QED
      BY <1>3, <2>2
  <1>5. lines \in Seq(DOMAIN h) /\ Len(lines) = m /\ DOMAIN lines = 1..m
    <2>1. DOMAIN lines = 1..m /\ lines = [i \in 1..m |-> lines[i]]
      BY <1>3
    <2>2. lines \in [1..m -> DOMAIN h]
      BY <1>4, <2>1
    <2> QED
      BY <1>2, <2>1, <2>2
  <1>6. ASSUME NEW x \in DOMAIN h, Rank(h, x) < ways
        PROVE  Rank(h, x) + 1 \in 1..m /\ lines[Rank(h, x) + 1] = x
    <2>1. Rank(h, x) \in Nat /\ Rank(h, x) < n
      BY RankBounded
    <2>2. PICK j \in 1..m : j = Rank(h, x) + 1
      BY <1>1, <1>2, <1>6, <2>1
    <2>3. lines[j] \in DOMAIN h /\ Rank(h, lines[j]) = j - 1
      BY <1>4
    <2>4. Rank(h, lines[j]) = Rank(h, x)
      BY <2>1, <2>2, <2>3
    <2>5. lines[j] = x
      BY <2>3, <2>4, RankOrders
    <2> QED
      BY <2>2, <2>5
  <1> QED
    BY <1>2, <1>4, <1>5, <1>6 DEF m, lines

\* A line is resident if fewer blocks are newer than there are ways.
LEMMA LinesHold ==
    ASSUME NEW h, Ordered(h), NEW ways \in Nat, NEW x
    PROVE  (\E i \in DOMAIN LinesOf(h, ways) : LinesOf(h, ways)[i] = x)
              <=> x \in DOMAIN h /\ Rank(h, x) < ways
  <1> DEFINE lines == LinesOf(h, ways)
             n == Cardinality(DOMAIN h)
  <1>1. n \in Nat
    BY FS_CardinalityType DEF Ordered
  <1>2. ASSUME NEW i \in DOMAIN lines, lines[i] = x
        PROVE  x \in DOMAIN h /\ Rank(h, x) < ways
    <2>1. /\ i \in 1..Len(lines) /\ Len(lines) \in Nat /\ Len(lines) = Smaller(ways, n)
          /\ lines[i] \in DOMAIN h /\ Rank(h, lines[i]) = i - 1
      BY LinesFields
    <2> HIDE DEF lines, n
    <2> QED
      BY <1>1, <1>2, <2>1 DEF Smaller
  <1>3. ASSUME x \in DOMAIN h, Rank(h, x) < ways
        PROVE  \E i \in DOMAIN lines : lines[i] = x
    <2>1. /\ lines \in Seq(DOMAIN h)
          /\ Rank(h, x) + 1 \in 1..Len(lines) /\ lines[Rank(h, x) + 1] = x
      BY <1>3, LinesFields
    <2> HIDE DEF lines
    <2> QED
      BY <2>1
  <1> QED
    BY <1>2, <1>3

\* A list is the lines of a history if it puts each rank in its place.
LEMMA LinesAre ==
    ASSUME NEW h, Ordered(h), NEW ways \in Nat, NEW S, NEW s \in Seq(S),
           Len(s) = Smaller(ways, Cardinality(DOMAIN h)),
           \A i \in 1..Len(s) : s[i] \in DOMAIN h /\ Rank(h, s[i]) = i - 1
    PROVE  s = LinesOf(h, ways)
  <1> DEFINE lines == LinesOf(h, ways)
  <1>1. /\ lines \in Seq(DOMAIN h) /\ Len(lines) = Len(s)
        /\ \A i \in 1..Len(s) : lines[i] \in DOMAIN h /\ Rank(h, lines[i]) = i - 1
    BY LinesFields
  <1> HIDE DEF lines
  <1>2. \A i \in 1..Len(s) : s[i] = lines[i]
    <2> TAKE i \in 1..Len(s)
    <2>1. /\ s[i] \in DOMAIN h /\ lines[i] \in DOMAIN h
          /\ Rank(h, s[i]) = Rank(h, lines[i])
      BY <1>1
    <2> QED
      BY <2>1, RankOrders
  <1>3. s \in Seq(S \cup DOMAIN h) /\ lines \in Seq(S \cup DOMAIN h)
    BY <1>1, SeqMonotonic
  <1>4. s = lines
    BY <1>1, <1>2, <1>3, SeqEqual
  <1> QED
    BY <1>4 DEF lines

\* A hit moves the line to the front.
LEMMA MovedLines ==
    ASSUME NEW h, Ordered(h), NEW ways \in Nat \ {0}, NEW x \in DOMAIN h, Rank(h, x) < ways
    PROVE  Lru!Moved(LinesOf(h, ways), x) = LinesOf(Touched(h, x), ways)
  <1> DEFINE lines == LinesOf(h, ways)
             n == Cardinality(DOMAIN h)
             m == Len(lines)
             p == Rank(h, x) + 1
             front == SubSeq(lines, 1, p - 1)
             back == SubSeq(lines, p + 1, m)
             rest == front \o back
             new == <<x>> \o rest
             after == Touched(h, x)
  <1>1. /\ lines \in Seq(DOMAIN h) /\ m = Smaller(ways, n) /\ DOMAIN lines = 1..m /\ m \in Nat
        /\ \A i \in 1..m : lines[i] \in DOMAIN h /\ Rank(h, lines[i]) = i - 1
        /\ p \in 1..m /\ lines[p] = x
    BY LinesFields
  <1>2. Lru!Moved(lines, x) = new
    <2>1. \A i \in DOMAIN lines : lines[i] = x => i = p
      <3> TAKE i \in DOMAIN lines
      <3>1. i \in 1..m /\ p \in 1..m
        BY <1>1
      <3>2. Rank(h, lines[i]) = i - 1
        BY <1>1, <3>1
      <3> QED
        BY <3>1, <3>2
    <2>2. (CHOOSE i \in DOMAIN lines : lines[i] = x) = p
      BY <1>1, <2>1
    <2> HIDE DEF lines, p
    <2> QED
      BY <2>2 DEF Lru!Moved, Lru!RemoveAt
  <1> HIDE DEF lines, p, m
  <1>3. /\ front \in Seq(DOMAIN h) /\ Len(front) = p - 1
        /\ \A i \in 1..p - 1 : front[i] = lines[i]
    <2>1. 1 \in Int /\ p - 1 \in Int /\ \A i \in 1..p - 1 : lines[i] \in DOMAIN h
      BY <1>1
    <2>2. /\ front \in Seq(DOMAIN h) /\ Len(front) = IF 1 <= p - 1 THEN p - 1 - 1 + 1 ELSE 0
          /\ \A i \in 1..p - 1 - 1 + 1 : front[i] = lines[1 + i - 1]
      BY <2>1, SubSeqProperties
    <2> HIDE DEF front
    <2>3. p \in Nat /\ p >= 1 /\ p - 1 - 1 + 1 = p - 1
      BY <1>1
    <2>4. \A i \in 1..p - 1 : 1 + i - 1 = i
      OBVIOUS
    <2>5. \A i \in 1..p - 1 : front[i] = lines[i]
      BY <2>2, <2>3, <2>4
    <2> QED
      BY <2>2, <2>3, <2>5
  <1>4. /\ back \in Seq(DOMAIN h) /\ Len(back) = m - p
        /\ \A i \in 1..m - p : back[i] = lines[p + i]
    <2>1. p + 1 \in Int /\ m \in Int /\ \A i \in p + 1..m : lines[i] \in DOMAIN h
      BY <1>1
    <2>2. /\ back \in Seq(DOMAIN h) /\ Len(back) = IF p + 1 <= m THEN m - (p + 1) + 1 ELSE 0
          /\ \A i \in 1..m - (p + 1) + 1 : back[i] = lines[p + 1 + i - 1]
      BY <2>1, SubSeqProperties
    <2> HIDE DEF back
    <2> QED
      BY <1>1, <2>2
  <1> HIDE DEF front, back
  <1>5. /\ rest \in Seq(DOMAIN h) /\ Len(rest) = m - 1
        /\ \A i \in 1..m - 1 : rest[i] = IF i <= p - 1 THEN lines[i] ELSE lines[i + 1]
    <2>1. /\ rest \in Seq(DOMAIN h) /\ Len(rest) = Len(front) + Len(back)
          /\ \A i \in 1..Len(front) + Len(back) :
                rest[i] = IF i <= Len(front) THEN front[i] ELSE back[i - Len(front)]
      BY <1>3, <1>4, ConcatProperties
    <2> HIDE DEF rest
    <2>2. ASSUME NEW i \in 1..m - 1
          PROVE  rest[i] = IF i <= p - 1 THEN lines[i] ELSE lines[i + 1]
      <3>1. CASE i <= p - 1
        BY <1>1, <1>3, <1>4, <2>1, <3>1
      <3>2. CASE ~(i <= p - 1)
        <4>1. /\ i - (p - 1) \in 1..m - p /\ i \in 1..Len(front) + Len(back)
              /\ p + (i - (p - 1)) = i + 1 /\ i - Len(front) = i - (p - 1)
              /\ ~(i <= Len(front))
          BY <1>1, <1>3, <1>4, <3>2
        <4>2. rest[i] = back[i - (p - 1)] /\ back[i - (p - 1)] = lines[p + (i - (p - 1))]
          BY <1>4, <2>1, <4>1
        <4> QED
          BY <3>2, <4>1, <4>2
      <3> QED
        BY <3>1, <3>2
    <2> QED
      BY <1>1, <1>3, <1>4, <2>1, <2>2
  <1> HIDE DEF rest
  <1>6. /\ new \in Seq(DOMAIN h) /\ Len(new) = m /\ new[1] = x
        /\ \A i \in 2..m : new[i] = IF i <= p THEN lines[i - 1] ELSE lines[i]
    <2>1. <<x>> \in Seq(DOMAIN h) /\ Len(<<x>>) = 1 /\ <<x>>[1] = x
      OBVIOUS
    <2>2. /\ new \in Seq(DOMAIN h) /\ Len(new) = 1 + Len(rest)
          /\ \A i \in 1..1 + Len(rest) : new[i] = IF i <= 1 THEN <<x>>[i] ELSE rest[i - 1]
      BY <1>5, <2>1, ConcatProperties
    <2> HIDE DEF new
    <2>3. ASSUME NEW i \in 2..m
          PROVE  new[i] = IF i <= p THEN lines[i - 1] ELSE lines[i]
      <3>1. /\ i - 1 \in 1..m - 1 /\ i \in 1..1 + Len(rest) /\ ~(i <= 1)
            /\ (i - 1 <= p - 1 <=> i <= p) /\ i - 1 + 1 = i
        BY <1>1, <1>5
      <3>2. new[i] = rest[i - 1]
        BY <2>2, <3>1
      <3> QED
        BY <1>5, <3>1, <3>2
    <2>4. new[1] = x /\ Len(new) = m
      BY <1>1, <1>5, <2>1, <2>2
    <2> QED
      BY <2>2, <2>3, <2>4
  <1> HIDE DEF new
  <1>7. Ordered(after) /\ DOMAIN after = DOMAIN h
    <2>1. DOMAIN after = DOMAIN h \cup {x}
      BY TouchedFields
    <2> QED
      BY <2>1, TouchedOrdered
  <1>8. ASSUME NEW i \in 1..m
        PROVE  new[i] \in DOMAIN after /\ Rank(after, new[i]) = i - 1
    <2>1. CASE i = 1
      BY <1>6, <1>7, <2>1, TouchedRanks
    <2>2. CASE i # 1 /\ i <= p
      <3>1. i \in 2..m /\ i - 1 \in 1..m /\ i - 1 - 1 = i - 2 /\ i - 1 # p
        BY <1>1, <2>2
      <3> DEFINE y == lines[i - 1]
      <3>2. new[i] = y /\ y \in DOMAIN h /\ Rank(h, y) = i - 2
        BY <1>1, <1>6, <2>2, <3>1
      <3> HIDE DEF y
      <3>3. Rank(h, x) = p - 1
        BY <1>1, RankBounded DEF p
      <3>4. y # x /\ x \notin h[y]
        BY <1>1, <2>2, <3>1, <3>2, <3>3, RankOrders
      <3>5. Rank(after, y) = Rank(h, y) + 1
        BY <3>2, <3>4, TouchedRanks
      <3> QED
        BY <1>7, <2>2, <3>2, <3>5
    <2>3. CASE i # 1 /\ ~(i <= p)
      <3>1. i \in 2..m
        BY <1>1, <2>3
      <3> DEFINE y == lines[i]
      <3>2. new[i] = y /\ y \in DOMAIN h /\ Rank(h, y) = i - 1
        BY <1>1, <1>6, <2>3, <3>1
      <3> HIDE DEF y
      <3>3. Rank(h, x) = p - 1
        BY <1>1, RankBounded DEF p
      <3>4. y # x /\ x \in h[y]
        BY <1>1, <2>3, <3>1, <3>2, <3>3, RankOrders
      <3>5. Rank(after, y) = Rank(h, y) + 0
        BY <3>2, <3>4, TouchedRanks
      <3> QED
        BY <1>7, <2>3, <3>2, <3>5
    <2> QED
      BY <2>1, <2>2, <2>3
  <1>9. new = LinesOf(after, ways)
    <2>1. Len(new) = Smaller(ways, Cardinality(DOMAIN after))
      BY <1>1, <1>6, <1>7
    <2> HIDE DEF after
    <2> QED
      BY <1>6, <1>7, <1>8, <2>1, LinesAre
  <1> QED
    BY <1>2, <1>9 DEF new, lines

\* A miss brings the line in at the front, over the last of a full set.
LEMMA FilledLines ==
    ASSUME NEW h, Ordered(h), NEW ways \in Nat \ {0}, NEW x,
           ~(x \in DOMAIN h /\ Rank(h, x) < ways)
    PROVE  Lru!Filled(LinesOf(h, ways), ways, x) = LinesOf(Touched(h, x), ways)
  <1> DEFINE lines == LinesOf(h, ways)
             n == Cardinality(DOMAIN h)
             after == Touched(h, x)
             m == Smaller(ways, Cardinality(DOMAIN after))
             S == DOMAIN h \cup {x}
             kept == IF Len(lines) = ways THEN SubSeq(lines, 1, Len(lines) - 1) ELSE lines
             new == <<x>> \o kept
  <1>1. /\ lines \in Seq(DOMAIN h) /\ Len(lines) = Smaller(ways, n) /\ Len(lines) \in Nat
        /\ \A i \in 1..Len(lines) : lines[i] \in DOMAIN h /\ Rank(h, lines[i]) = i - 1
    BY LinesFields
  <1>2. n \in Nat /\ IsFiniteSet(DOMAIN h)
    BY FS_CardinalityType DEF Ordered
  <1>3. Lru!Filled(lines, ways, x) = new
    BY DEF Lru!Filled, Lru!Front
  <1>4. Ordered(after) /\ DOMAIN after = S
    BY TouchedOrdered, TouchedFields
  <1>5. /\ m \in Nat /\ m - 1 \in 0..Len(lines) /\ m >= 1
        /\ (Len(lines) = ways => m = Len(lines)) /\ (Len(lines) # ways => m = Len(lines) + 1)
    <2>1. CASE x \in DOMAIN h
      <3>1. DOMAIN after = DOMAIN h
        BY <1>4, <2>1
      <3>2. ways <= Rank(h, x) /\ Rank(h, x) < n /\ Rank(h, x) \in Nat
        BY <2>1, RankBounded
      <3>3. ways < n
        BY <1>2, <3>2
      <3> HIDE DEF lines, after, n
      <3> QED
        BY <1>1, <3>1, <3>3, <1>2 DEF Smaller, n
    <2>2. CASE x \notin DOMAIN h
      <3>1. Cardinality(DOMAIN after) = n + 1
        BY <1>2, <1>4, <2>2, FS_AddElement
      <3> HIDE DEF lines, after, n
      <3> QED
        BY <1>1, <1>2, <3>1 DEF Smaller
    <2> QED
      BY <2>1, <2>2
  <1> HIDE DEF lines, m, after, n
  <1>6. kept \in Seq(DOMAIN h) /\ Len(kept) = m - 1 /\ \A i \in 1..m - 1 : kept[i] = lines[i]
    <2>1. CASE Len(lines) = ways
      <3> DEFINE front == SubSeq(lines, 1, Len(lines) - 1)
      <3>1. /\ front \in Seq(DOMAIN h)
            /\ Len(front) = IF 1 <= Len(lines) - 1 THEN Len(lines) - 1 - 1 + 1 ELSE 0
            /\ \A i \in 1..Len(lines) - 1 - 1 + 1 : front[i] = lines[1 + i - 1]
        <4>1. 1 \in Int /\ Len(lines) - 1 \in Int /\ \A i \in 1..Len(lines) - 1 : lines[i] \in DOMAIN h
          BY <1>1
        <4> QED
          BY <4>1, SubSeqProperties
      <3>2. kept = front
        BY <2>1
      <3> HIDE DEF front, kept
      <3>3. Len(lines) - 1 - 1 + 1 = m - 1 /\ (\A i \in 1..m - 1 : 1 + i - 1 = i)
        BY <1>1, <1>5, <2>1
      <3>4. \A i \in 1..m - 1 : front[i] = lines[i]
        BY <3>1, <3>3
      <3>5. Len(front) = m - 1
        BY <1>5, <2>1, <3>1, <3>3
      <3> QED
        BY <3>1, <3>2, <3>4, <3>5
    <2>2. CASE Len(lines) # ways
      <3>1. kept = lines /\ Len(lines) = m - 1
        BY <1>1, <1>5, <2>2
      <3> HIDE DEF kept
      <3> QED
        BY <1>1, <3>1
    <2> QED
      BY <2>1, <2>2
  <1> HIDE DEF kept
  <1>7. /\ new \in Seq(S) /\ Len(new) = m /\ new[1] = x
        /\ \A i \in 2..m : new[i] = lines[i - 1]
    <2>1. <<x>> \in Seq(S) /\ Len(<<x>>) = 1 /\ <<x>>[1] = x
      OBVIOUS
    <2>2. kept \in Seq(S)
      BY <1>6, SeqMonotonic
    <2>3. /\ new \in Seq(S) /\ Len(new) = 1 + Len(kept)
          /\ \A i \in 1..1 + Len(kept) : new[i] = IF i <= 1 THEN <<x>>[i] ELSE kept[i - 1]
      BY <2>1, <2>2, ConcatProperties
    <2> HIDE DEF new, S
    <2>4. ASSUME NEW i \in 2..m
          PROVE  new[i] = lines[i - 1]
      <3>1. i - 1 \in 1..m - 1 /\ i \in 1..1 + Len(kept) /\ ~(i <= 1)
        BY <1>5, <1>6
      <3> QED
        BY <1>6, <2>3, <3>1
    <2>5. new[1] = x /\ Len(new) = m
      BY <1>5, <1>6, <2>1, <2>3
    <2> QED
      BY <2>3, <2>4, <2>5
  <1> HIDE DEF new
  <1>8. ASSUME NEW i \in 1..m
        PROVE  new[i] \in DOMAIN after /\ Rank(after, new[i]) = i - 1
    <2>1. CASE i = 1
      BY <1>4, <1>7, <2>1, TouchedRanks DEF after
    <2>2. CASE i # 1
      <3>1. i \in 2..m /\ i - 1 \in 1..Len(lines) /\ i - 1 - 1 = i - 2
        BY <1>1, <1>5, <2>2
      <3> DEFINE y == lines[i - 1]
      <3>2. new[i] = y /\ y \in DOMAIN h /\ Rank(h, y) = i - 2
        BY <1>1, <1>7, <3>1
      <3> HIDE DEF y
      <3>3. i - 2 < ways
        BY <1>1, <1>2, <3>1 DEF Smaller
      <3>4. y # x /\ x \notin h[y]
        <4>1. y # x
          BY <3>2, <3>3
        <4>2. ASSUME x \in h[y] PROVE FALSE
          <5>1. x \in DOMAIN h
            BY <3>2, <4>2 DEF Ordered
          <5>2. Rank(h, x) < Rank(h, y) /\ Rank(h, x) \in Nat
            BY <3>2, <4>2, <5>1, RankOrders, RankBounded
          <5> QED
            BY <3>1, <3>2, <3>3, <5>1, <5>2
        <4> QED
          BY <4>1, <4>2
      <3>5. Rank(after, y) = Rank(h, y) + 1
        BY <3>2, <3>4, TouchedRanks DEF after
      <3> QED
        BY <1>4, <3>1, <3>2, <3>5
    <2> QED
      BY <2>1, <2>2
  <1>9. new = LinesOf(after, ways)
    <2>1. /\ Len(new) = Smaller(ways, Cardinality(DOMAIN after)) /\ new \in Seq(S)
          /\ \A i \in 1..Len(new) : new[i] \in DOMAIN after /\ Rank(after, new[i]) = i - 1
      BY <1>7, <1>8 DEF m
    <2> HIDE DEF S
    <2> QED
      BY <1>4, <2>1, LinesAre
  <1> QED
    BY <1>3, <1>9 DEF new, lines, after

-----------------------------------------------------------------------------
(* Levels.                                                                  *)

HistoriesOrdered(level) == \A s \in DOMAIN level.sets : Ordered(level.sets[s])

LEMMA HistoryOrdered ==
    ASSUME NEW level, HistoriesOrdered(level), NEW s
    PROVE  Ordered(HistoryOf(level, s))
  BY UnseenOrdered DEF HistoriesOrdered, HistoryOf

LEMMA ObservedHistory ==
    ASSUME NEW level, NEW geometry, NEW x, NEW s
    PROVE  HistoryOf(observe(level, geometry, x), s) =
              IF s = SetOf(geometry, x) THEN Touched(HistoryOf(level, s), x)
              ELSE HistoryOf(level, s)
  <1> DEFINE t == SetOf(geometry, x)
             after == observe(level, geometry, x).sets
  <1>1. after = [r \in DOMAIN level.sets \cup {t} |->
                    IF r = t THEN Touched(HistoryOf(level, t), x) ELSE level.sets[r]]
    BY DEF observe
  <1> HIDE DEF t, after
  <1>2. /\ DOMAIN after = DOMAIN level.sets \cup {t} /\ after[t] = Touched(HistoryOf(level, t), x)
        /\ \A r \in DOMAIN level.sets : r # t => after[r] = level.sets[r]
    BY <1>1
  <1>3. HistoryOf(observe(level, geometry, x), s) = IF s \in DOMAIN after THEN after[s] ELSE Unseen
    BY DEF HistoryOf, after
  <1>4. HistoryOf(level, s) = IF s \in DOMAIN level.sets THEN level.sets[s] ELSE Unseen
    BY DEF HistoryOf
  <1> QED
    BY <1>2, <1>3, <1>4 DEF t

LEMMA ObserveOrdered ==
    ASSUME NEW level, HistoriesOrdered(level), NEW geometry, NEW x
    PROVE  HistoriesOrdered(observe(level, geometry, x))
  <1> DEFINE after == observe(level, geometry, x)
  <1>1. ASSUME NEW s \in DOMAIN after.sets
        PROVE  Ordered(after.sets[s])
    <2>1. after.sets[s] = HistoryOf(after, s)
      BY <1>1 DEF HistoryOf
    <2>2. Ordered(HistoryOf(level, s)) /\ Ordered(Touched(HistoryOf(level, s), x))
      BY HistoryOrdered, TouchedOrdered
    <2> HIDE DEF after
    <2>3. HistoryOf(after, s) = Touched(HistoryOf(level, s), x) \/ HistoryOf(after, s) = HistoryOf(level, s)
      BY ObservedHistory DEF after
    <2> QED
      BY <2>1, <2>2, <2>3
  <1> QED
    BY <1>1 DEF HistoriesOrdered

\* A level whose geometry is one the analysis accepts.
IsGeometry(geometry) == geometry.sets \in Nat \ {0} /\ geometry.ways \in Nat \ {0}

LEMMA SetInRange ==
    ASSUME NEW geometry, IsGeometry(geometry), NEW x \in Nat
    PROVE  SetOf(geometry, x) \in 0..geometry.sets - 1
  <1> DEFINE n == geometry.sets
  <1>1. n \in Nat /\ n > 0
    BY DEF IsGeometry
  <1> HIDE DEF n
  <1>2. x % n \in 0..n - 1
    BY <1>1
  <1> QED
    BY <1>2 DEF SetOf, n

LEMMA LruFields ==
    ASSUME NEW level, NEW geometry
    PROVE  /\ LruLevel(level, geometry).resident =
                 [s \in 0..geometry.sets - 1 |-> LinesOf(HistoryOf(level, s), geometry.ways)]
           /\ LruLevel(level, geometry).ever_seen = BlocksSeen(level)
           /\ LruLevel(level, geometry).hits = level.hits
           /\ LruLevel(level, geometry).cold = level.cold_misses
           /\ LruLevel(level, geometry).replacement = level.replacement_misses
  BY DEF LruLevel, ResidentLines, LinesOf

LEMMA ColdLevelIsEmpty ==
    ASSUME NEW geometry, IsGeometry(geometry)
    PROVE  LruLevel(ColdLevel, geometry) = Lru!EmptyLevel(geometry)
  <1> DEFINE n == geometry.sets
             w == geometry.ways
  <1>1. BlocksSeen(ColdLevel) = {}
    BY DEF BlocksSeen, ColdLevel
  <1>2. \A s : HistoryOf(ColdLevel, s) = Unseen
    BY DEF HistoryOf, ColdLevel
  <1>3. LinesOf(Unseen, w) = <<>>
    <2>1. Len(LinesOf(Unseen, w)) = 0 /\ LinesOf(Unseen, w) \in Seq(DOMAIN Unseen)
      <3>1. w \in Nat
        BY DEF IsGeometry
      <3> HIDE DEF w
      <3>2. Smaller(w, 0) = 0
        BY <3>1 DEF Smaller
      <3> QED
        BY <3>1, <3>2, UnseenOrdered, LinesFields
    <2> QED
      BY <2>1, EmptySeq
  <1>4. [s \in 0..n - 1 |-> ResidentLines(ColdLevel, geometry, s)] = [s \in 0..n - 1 |-> <<>>]
    <2>1. \A s : ResidentLines(ColdLevel, geometry, s) = LinesOf(HistoryOf(ColdLevel, s), w)
      BY DEF ResidentLines, LinesOf
    <2> QED
      BY <1>2, <1>3, <2>1
  <1> QED
    BY <1>1, <1>4 DEF LruLevel, Lru!EmptyLevel, ColdLevel

\* The LRU set holds a block exactly if its distance says it hits.
LEMMA ResidentIsHit ==
    ASSUME NEW level, NEW geometry, IsGeometry(geometry), NEW x \in Nat,
           HistoriesOrdered(level)
    PROVE  LET h == HistoryOf(level, SetOf(geometry, x))
           IN  /\ Lru!Resident(LruLevel(level, geometry), geometry, x)
                     <=> x \in DOMAIN h /\ Rank(h, x) < geometry.ways
               /\ Outcome(level, geometry, x) = "Hit"
                     <=> x \in DOMAIN h /\ Rank(h, x) < geometry.ways
  <1> DEFINE s == SetOf(geometry, x)
             h == HistoryOf(level, s)
             lines == LinesOf(h, geometry.ways)
  <1>1. geometry.ways \in Nat /\ Ordered(h)
    BY HistoryOrdered DEF IsGeometry
  <1>2. LruLevel(level, geometry).resident[s] = lines
    <2>1. s \in 0..geometry.sets - 1
      BY SetInRange
    <2> DEFINE resident == LruLevel(level, geometry).resident
    <2>2. resident = [t \in 0..geometry.sets - 1 |-> LinesOf(HistoryOf(level, t), geometry.ways)]
      BY LruFields
    <2> HIDE DEF s, resident
    <2>3. resident[s] = LinesOf(HistoryOf(level, s), geometry.ways)
      BY <2>1, <2>2
    <2> QED
      BY <2>3 DEF resident
  <1>3. Lru!SetOf(geometry, x) = s
    BY DEF Lru!SetOf, SetOf
  <1>4. Lru!Resident(LruLevel(level, geometry), geometry, x) <=> \E i \in DOMAIN lines : lines[i] = x
    <2> HIDE DEF lines, s
    <2>1. Lru!Resident(LruLevel(level, geometry), geometry, x)
             <=> x \in Lru!ToSet(LruLevel(level, geometry).resident[s])
      BY <1>3 DEF Lru!Resident
    <2> QED
      BY <1>2, <2>1 DEF Lru!ToSet
  <1>5. (\E i \in DOMAIN lines : lines[i] = x) <=> x \in DOMAIN h /\ Rank(h, x) < geometry.ways
    <2> HIDE DEF h
    <2> QED
      BY <1>1, LinesHold
  <1>6. Outcome(level, geometry, x) = "Hit" <=> x \in DOMAIN h /\ Rank(h, x) < geometry.ways
    <2>1. ReuseDistance(level, geometry, x) = IF x \in DOMAIN h THEN {Rank(h, x)} ELSE {}
      BY DEF ReuseDistance, Distance, Rank
    <2> HIDE DEF h
    <2> QED
      BY <2>1 DEF Outcome, OutcomeOf
  <1> QED
    BY <1>4, <1>5, <1>6

\* An observation is a demand.
LEMMA ObserveIsDemand ==
    ASSUME NEW level, NEW geometry, IsGeometry(geometry), NEW x \in Nat,
           HistoriesOrdered(level), LevelSound(level, geometry)
    PROVE  LruLevel(observe(level, geometry, x), geometry)
              = Lru!Demand(LruLevel(level, geometry), geometry, x)
  <1> DEFINE s == SetOf(geometry, x)
             n == geometry.sets
             w == geometry.ways
             h == HistoryOf(level, s)
             before == LruLevel(level, geometry)
             after == LruLevel(observe(level, geometry, x), geometry)
             demanded == Lru!Demand(before, geometry, x)
             resident == Lru!Resident(before, geometry, x)
             outcome == Outcome(level, geometry, x)
  <1>1. s \in 0..n - 1 /\ Lru!SetOf(geometry, x) = s
    BY SetInRange DEF Lru!SetOf, SetOf
  <1>2. /\ resident <=> x \in DOMAIN h /\ Rank(h, x) < w
        /\ outcome = "Hit" <=> x \in DOMAIN h /\ Rank(h, x) < w
    BY ResidentIsHit
  <1>3. before.resident[s] = LinesOf(h, w)
    <2> DEFINE residents == before.resident
    <2>1. residents = [t \in 0..n - 1 |-> LinesOf(HistoryOf(level, t), w)]
      BY LruFields
    <2> HIDE DEF s, n, residents
    <2>2. residents[s] = LinesOf(HistoryOf(level, s), w)
      BY <1>1, <2>1
    <2> QED
      BY <2>2 DEF residents
  <1>4. w \in Nat \ {0} /\ Ordered(h)
    BY HistoryOrdered DEF IsGeometry
  <1>5. Lru!Promoted(before, geometry, x) = LinesOf(Touched(h, x), w)
    <2>1. Lru!Promoted(before, geometry, x) =
             IF resident THEN Lru!Moved(before.resident[s], x)
             ELSE Lru!Filled(before.resident[s], w, x)
      BY <1>1 DEF Lru!Promoted
    <2>2. CASE resident
      <3>1. x \in DOMAIN h /\ Rank(h, x) < w
        BY <1>2, <2>2
      <3> HIDE DEF h, before, s, w, resident
      <3> QED
        BY <1>3, <1>4, <2>1, <2>2, <3>1, MovedLines
    <2>3. CASE ~resident
      <3>1. ~(x \in DOMAIN h /\ Rank(h, x) < w)
        BY <1>2, <2>3
      <3> HIDE DEF h, before, s, w, resident
      <3> QED
        BY <1>3, <1>4, <2>1, <2>3, <3>1, FilledLines
    <2> QED
      BY <2>2, <2>3
  <1>6. after.resident = [before.resident EXCEPT ![s] = LinesOf(Touched(h, x), w)]
    <2>1. after.resident = [t \in 0..n - 1 |-> LinesOf(HistoryOf(observe(level, geometry, x), t), w)]
      BY LruFields
    <2>2. before.resident = [t \in 0..n - 1 |-> LinesOf(HistoryOf(level, t), w)]
      BY LruFields
    <2>3. ASSUME NEW t \in 0..n - 1
          PROVE  HistoryOf(observe(level, geometry, x), t) =
                    IF t = s THEN Touched(h, x) ELSE HistoryOf(level, t)
      BY ObservedHistory
    <2> HIDE DEF after, before, h, s, w, n
    <2> QED
      BY <1>1, <2>1, <2>2, <2>3, ZenonT(60)
  <1>7. after.ever_seen = before.ever_seen \cup {x} /\ before.ever_seen = BlocksSeen(level)
    <2> DEFINE new == observe(level, geometry, x)
    <2>1. BlocksSeen(new) = BlocksSeen(level) \cup {x}
      BY ObserveSees
    <2> HIDE DEF new
    <2>2. LruLevel(new, geometry).ever_seen = BlocksSeen(new) /\ before.ever_seen = BlocksSeen(level)
      BY LruFields
    <2> QED
      BY <2>1, <2>2 DEF new
  <1>8. /\ outcome = "ColdMiss" <=> x \notin BlocksSeen(level)
        /\ outcome = "ReplacementMiss" <=> x \in BlocksSeen(level) /\ outcome # "Hit"
    <2>1. \/ outcome = "ColdMiss" /\ x \notin BlocksSeen(level)
          \/ x \in BlocksSeen(level) /\ (outcome = "Hit" \/ outcome = "ReplacementMiss")
      BY <1>4, OutcomeCases
    <2> HIDE DEF outcome
    <2> QED
      BY <2>1
  <1>9. /\ after.hits = before.hits + (IF resident THEN 1 ELSE 0)
        /\ after.cold = before.cold + (IF x \in before.ever_seen THEN 0 ELSE 1)
        /\ after.replacement = before.replacement
              + (IF x \in before.ever_seen /\ ~resident THEN 1 ELSE 0)
    <2>1. /\ after.hits = before.hits + (IF outcome = "Hit" THEN 1 ELSE 0)
          /\ after.cold = before.cold + (IF outcome = "ColdMiss" THEN 1 ELSE 0)
          /\ after.replacement = before.replacement + (IF outcome = "ReplacementMiss" THEN 1 ELSE 0)
      <3> DEFINE new == observe(level, geometry, x)
      <3>1. /\ new.hits = level.hits + (IF outcome = "Hit" THEN 1 ELSE 0)
            /\ new.cold_misses = level.cold_misses + (IF outcome = "ColdMiss" THEN 1 ELSE 0)
            /\ new.replacement_misses =
                  level.replacement_misses + (IF outcome = "ReplacementMiss" THEN 1 ELSE 0)
        BY ObserveCounts
      <3> HIDE DEF new, outcome
      <3>2. LET mapped == LruLevel(new, geometry)
            IN  /\ mapped.hits = new.hits /\ mapped.cold = new.cold_misses
                /\ mapped.replacement = new.replacement_misses
        BY LruFields
      <3>3. /\ before.hits = level.hits /\ before.cold = level.cold_misses
            /\ before.replacement = level.replacement_misses
        BY LruFields
      <3> QED
        BY <3>1, <3>2, <3>3 DEF new
    <2> HIDE DEF after, before, outcome, resident, h
    <2>2. (outcome = "Hit" <=> resident)
      BY <1>2
    <2> QED
      BY <1>7, <1>8, <2>1, <2>2
  <1>10. after = [resident |-> after.resident, ever_seen |-> after.ever_seen,
                  hits |-> after.hits, cold |-> after.cold, replacement |-> after.replacement]
    BY DEF LruLevel
  <1>11. demanded = [resident |-> [before.resident EXCEPT ![s] = Lru!Promoted(before, geometry, x)],
                     ever_seen |-> before.ever_seen \cup {x},
                     hits |-> before.hits + (IF resident THEN 1 ELSE 0),
                     cold |-> before.cold + (IF x \in before.ever_seen THEN 0 ELSE 1),
                     replacement |-> before.replacement
                        + (IF x \in before.ever_seen /\ ~resident THEN 1 ELSE 0)]
    BY <1>1 DEF Lru!Demand
  <1> HIDE DEF after, before, demanded, resident, s, h
  <1>12. after = demanded
    BY <1>5, <1>6, <1>7, <1>9, <1>10, <1>11
  <1> QED
    BY <1>12 DEF after, before, demanded

-----------------------------------------------------------------------------
(* The analysis.                                                            *)

ActiveOrdered == HistoriesOrdered(active.l1) /\ HistoriesOrdered(active.llc)

LEMMA AcceptedGeometries == IsGeometry(L1) /\ IsGeometry(LLC)
  BY HierarchyAssumption DEF HierarchyAssumption, IsGeometry

LEMMA ColdTaskOrdered == HistoriesOrdered(ColdTask.l1) /\ HistoriesOrdered(ColdTask.llc)
  <1>1. HistoriesOrdered(ColdLevel)
    BY DEF HistoriesOrdered, ColdLevel
  <1> QED
    BY <1>1, ColdTaskFields

LEMMA ActiveOrderedKept == ASSUME ActiveShape, ActiveOrdered, [Next]_vars PROVE ActiveOrdered'
  <1>1. CASE active' = active
    BY <1>1 DEF ActiveOrdered
  <1>2. CASE active' = ColdTask
    BY <1>2, ColdTaskOrdered DEF ActiveOrdered
  <1>3. CASE active' = Accepted
    <2>1. active'.l1 = active.l1 /\ active'.llc = active.llc
      BY <1>3, AcceptedFields
    <2> QED
      BY <2>1 DEF ActiveOrdered
  <1>4. CASE active' = Observed
    <2>1. /\ active'.l1 = observe(active.l1, L1, b)
          /\ active'.llc = active.llc \/ active'.llc = observe(active.llc, LLC, b)
      BY <1>4, ObservedFields
    <2>2. HistoriesOrdered(observe(active.l1, L1, b)) /\ HistoriesOrdered(observe(active.llc, LLC, b))
      BY ObserveOrdered DEF ActiveOrdered
    <2>3. HistoriesOrdered(active'.l1) /\ HistoriesOrdered(active'.llc)
      BY <2>1, <2>2 DEF ActiveOrdered
    <2> QED
      BY <2>3 DEF ActiveOrdered
  <1> QED
    BY <1>1, <1>2, <1>3, <1>4, ActiveSteps

RefinementInv == IInv /\ ActiveOrdered

\* What a step does to the mapped state.
LEMMA MappedSteps ==
    ASSUME IInv, [Next]_vars
    PROVE  \/ /\ ~TaskOpen /\ TaskOpen' /\ active' = ColdTask /\ completed' = completed
           \/ /\ TaskOpen /\ ~TaskOpen' /\ active' = active
              /\ completed' = Append(completed, Summary)
           \/ /\ TaskOpen /\ TaskOpen' /\ active' = Observed /\ completed' = completed
              /\ pending.block \in Blocks
           \/ /\ TaskOpen <=> TaskOpen'
              /\ active' = active \/ active' = Accepted
              /\ completed' = completed
  <1>1. /\ Shape /\ Levels /\ ServiceCounted /\ Position /\ CoverageSplit
        /\ stage # "failed" => failure = "none"
    BY DEF IInv, TypeOK
  <1>2. ASSUME NEW excluded, BeginTask(excluded)
        PROVE  /\ completed' = completed /\ ~TaskOpen
               /\ \/ ~TaskOpen' /\ active' = active
                  \/ TaskOpen' /\ active' = ColdTask
    <2>1. stage = "between" /\ failure = "none" /\ completed' = completed
      BY <1>1, <1>2 DEF BeginTask
    <2>2. \/ stage' = "failed" /\ failure' = "exclusions" /\ active' = active
          \/ stage' = "task" /\ active' = ColdTask
      BY <1>2 DEF BeginTask, Fail
    <2> QED
      BY <2>1, <2>2 DEF TaskOpen, InTask
  <1>3. CASE TraversalFails \/ SourceBudgetExhausted \/ LineBudgetExhausted
    <2>1. /\ active' = active /\ completed' = completed /\ stage' = "failed"
          /\ stage # "failed"
          /\ IF stage \in {"task", "mapping"} THEN failure' \in {"traversal", "budget"}
             ELSE failure' = "expansion"
      BY <1>3 DEF TraversalFails, SourceBudgetExhausted, LineBudgetExhausted, Fail
    <2> QED
      BY <1>1, <2>1 DEF TaskOpen, InTask
  <1>4. CASE AccessRejected
    <2>1. /\ active' = active /\ completed' = completed /\ stage = "task"
          /\ failure' = "resolution"
      BY <1>4 DEF AccessRejected, Fail
    <2> QED
      BY <2>1 DEF TaskOpen, InTask
  <1>5. ASSUME NEW first, NEW last, AccessResolved(first, last)
        PROVE  /\ TaskOpen /\ TaskOpen' /\ completed' = completed
               /\ active' = active \/ active' = Accepted
    <2>1. /\ stage = "task" /\ completed' = completed
          /\ \/ stage' = "failed" /\ failure' = "basis"
             \/ stage' = "mapping"
      BY <1>1, <1>5, ResolvedSteps
    <2>2. active' = active \/ active' = Accepted
      BY <1>5 DEF AccessResolved, Accepted
    <2> QED
      BY <2>1, <2>2 DEF TaskOpen, InTask
  <1>6. CASE ObserveLine
    <2>1. /\ stage = "mapping" /\ completed' = completed
          /\ \/ stage' = "failed" /\ failure' \in {"sink", "provenance"}
             \/ stage' \in {"task", "mapping"}
      BY <1>1, <1>6, ObserveSteps
    <2>2. ProvenanceAgrees /\ pending.block \in Blocks
      BY <1>1, <2>1, ProvenanceAgreesAlways DEF Position
    <2>3. active' = Observed
      BY <1>6, <2>2 DEF ObserveLine
    <2> QED
      BY <2>1, <2>2, <2>3 DEF TaskOpen, InTask
  <1>7. CASE EndTask
    <2>1. /\ stage = "task" /\ active' = active
          /\ \/ stage' = "failed" /\ failure' = "sink" /\ completed' = completed
             \/ /\ stage' = "between" /\ failure' = failure
                /\ completed' = Append(completed, Summary)
      BY <1>1, <1>7, EndSteps
    <2> QED
      BY <1>1, <2>1 DEF TaskOpen, InTask
  <1>8. CASE Return
    <2>1. /\ stage = "between" /\ active' = active /\ completed' = completed
          /\ \/ stage' = "returned" /\ failure' = failure
             \/ stage' = "failed" /\ failure' = "logic"
      BY <1>8 DEF Return, Fail
    <2> QED
      BY <1>1, <2>1 DEF TaskOpen, InTask
  <1>9. CASE UNCHANGED vars
    BY <1>9 DEF vars, TaskOpen, InTask
  <1> QED
    BY <1>2, <1>3, <1>4, <1>5, <1>6, <1>7, <1>8, <1>9 DEF Next, Produce

MappedCompleted == [i \in DOMAIN completed |-> ServedCounts(completed[i])]

LEMMA MappedAppend ==
    ASSUME Shape, completed' = Append(completed, Summary)
    PROVE  MappedCompleted' = Append(MappedCompleted, ServedCounts(active))
  <1> DEFINE n == Len(completed)
             more == Append(completed, Summary)
             mapped == MappedCompleted
             e == ServedCounts(active)
  <1>1. n \in Nat /\ DOMAIN completed = 1..n
    BY SequenceLength DEF Shape
  <1>2. IsSequence(more) /\ Len(more) = n + 1 /\ more[n + 1] = Summary
        /\ \A i \in 1..n : more[i] = completed[i]
    BY Appended DEF Shape
  <1>3. DOMAIN more = 1..n + 1
    BY <1>1, <1>2, SequenceLength
  <1>4. ServedCounts(Summary) = e
    BY SummaryFields DEF ServedCounts
  <1>5. mapped = [i \in 1..n |-> ServedCounts(completed[i])]
    BY <1>1 DEF MappedCompleted
  <1>6. MappedCompleted' = [i \in 1..n + 1 |-> ServedCounts(more[i])]
    <2>1. MappedCompleted' = [i \in DOMAIN more |-> ServedCounts(more[i])]
      BY DEF MappedCompleted
    <2> HIDE DEF more
    <2> QED
      BY <1>3, <2>1
  <1> HIDE DEF n, more, mapped, e
  <1>7. mapped \in Seq(Range(mapped)) /\ Len(mapped) = n
    <2>1. mapped = [i \in 1..n |-> mapped[i]] /\ \A i \in 1..n : mapped[i] \in Range(mapped)
      BY <1>5 DEF Range
    <2> QED
      BY <1>1, <2>1
  <1>8. Append(mapped, e) = [i \in 1..n + 1 |-> IF i = n + 1 THEN e ELSE mapped[i]]
    <2> DEFINE longer == Append(mapped, e)
    <2>1. IsSequence(mapped)
      BY <1>7 DEF IsSequence
    <2>2. /\ IsSequence(longer) /\ Len(longer) = n + 1 /\ longer[n + 1] = e
          /\ \A i \in 1..n : longer[i] = mapped[i]
      BY <1>7, <2>1, Appended
    <2> HIDE DEF longer
    <2>3. DOMAIN longer = 1..n + 1 /\ longer = [i \in 1..n + 1 |-> longer[i]]
      <3>1. PICK S : longer \in Seq(S)
        BY <2>2 DEF IsSequence
      <3> QED
        BY <2>2, <3>1
    <2>4. \A i \in 1..n + 1 : longer[i] = IF i = n + 1 THEN e ELSE mapped[i]
      BY <1>1, <2>2
    <2> QED
      BY <2>3, <2>4 DEF longer
  <1>9. \A i \in 1..n + 1 : ServedCounts(more[i]) = IF i = n + 1 THEN e ELSE mapped[i]
    <2> TAKE i \in 1..n + 1
    <2>1. CASE i = n + 1
      BY <1>2, <1>4, <2>1
    <2>2. CASE i # n + 1
      <3>1. i \in 1..n
        BY <1>1, <2>2
      <3> QED
        BY <1>2, <1>5, <2>2, <3>1
    <2> QED
      BY <2>1, <2>2
  <1> QED
    BY <1>6, <1>8, <1>9 DEF mapped, e

\* An observed line is a reference to the LRU caches.
LEMMA ObservedIsReference ==
    ASSUME RefinementInv, b \in Blocks, TaskOpen, TaskOpen', active' = Observed,
           completed' = completed
    PROVE  Lru!Reference(b)
  <1> DEFINE l1 == LruLevel(active.l1, L1)
             llc == LruLevel(active.llc, LLC)
  <1>1. /\ ActiveShape /\ Levels /\ ActiveOrdered
        /\ LevelSound(active.l1, L1) /\ LevelSound(active.llc, LLC)
    BY DEF RefinementInv, IInv, Shape, Levels
  <1>2. b \in Nat
    BY HierarchyAssumption DEF HierarchyAssumption
  <1>3. /\ active'.l1 = observe(active.l1, L1, b)
        /\ active'.llc = IF l1_outcome = "Hit" THEN active.llc
                         ELSE observe(active.llc, LLC, b)
    BY <1>1, ObservedFields
  <1>4. /\ Lru!Resident(l1, L1, b) <=> l1_outcome = "Hit"
        /\ Lru!Resident(llc, LLC, b) <=> llc_outcome = "Hit"
    BY <1>1, <1>2, AcceptedGeometries, ResidentIsHit DEF ActiveOrdered, l1_outcome, llc_outcome
  <1>5. LruLevel(active'.l1, L1) = Lru!Demand(l1, L1, b)
    BY <1>1, <1>2, <1>3, AcceptedGeometries, ObserveIsDemand DEF ActiveOrdered
  <1>6. LruLevel(active'.llc, LLC) =
           IF Lru!Resident(l1, L1, b) THEN llc ELSE Lru!Demand(llc, LLC, b)
    <2>1. CASE l1_outcome = "Hit"
      BY <1>3, <1>4, <2>1
    <2>2. CASE l1_outcome # "Hit"
      <3>1. active'.llc = observe(active.llc, LLC, b)
        BY <1>3, <2>2
      <3>2. LruLevel(active'.llc, LLC) = Lru!Demand(llc, LLC, b)
        BY <1>1, <1>2, <3>1, AcceptedGeometries, ObserveIsDemand DEF ActiveOrdered
      <3> HIDE DEF l1, llc
      <3> QED
        BY <1>4, <2>2, <3>2
    <2> QED
      BY <2>1, <2>2
  <1>7. ServedCounts(active') = [ServedCounts(active) EXCEPT ![first_service] = @ + 1]
    <2>1. /\ active'.l1_first_hit_count =
                active.l1_first_hit_count + (IF first_service = "L1" THEN 1 ELSE 0)
          /\ active'.llc_first_hit_count =
                active.llc_first_hit_count + (IF first_service = "LLC" THEN 1 ELSE 0)
          /\ active'.all_cache_misses =
                active.all_cache_misses + (IF first_service = "Memory" THEN 1 ELSE 0)
      BY <1>1, ObservedFields
    <2>2. /\ active.l1_first_hit_count \in Nat /\ active.llc_first_hit_count \in Nat
          /\ active.all_cache_misses \in Nat
      BY <1>1 DEF ActiveShape
    <2>3. first_service = "L1" \/ first_service = "LLC" \/ first_service = "Memory"
      BY <1>1, ServiceCases
    <2> QED
      BY <2>1, <2>2, <2>3 DEF ServedCounts
  <1>8. Lru!ServiceLevel(b) = first_service
    BY <1>4 DEF Lru!ServiceLevel, first_service
  <1>9. MappedCompleted' = MappedCompleted
    BY DEF MappedCompleted
  <1> QED
    BY <1>5, <1>6, <1>7, <1>8, <1>9 DEF Lru!Reference, MappedCompleted

LEMMA InitRefines == Init => Lru!Init
  <1> SUFFICES ASSUME Init PROVE Lru!Init
    OBVIOUS
  <1>1. stage = "between" /\ failure = "none" /\ active = ColdTask /\ completed = <<>>
    BY DEF Init
  <1>2. TaskOpen = FALSE
    BY <1>1 DEF TaskOpen, InTask
  <1>3. LruLevel(active.l1, L1) = Lru!EmptyLevel(L1) /\ LruLevel(active.llc, LLC) = Lru!EmptyLevel(LLC)
    BY <1>1, ColdTaskFields, ColdLevelIsEmpty, AcceptedGeometries
  <1>4. ServedCounts(active) = Lru!NothingServed
    BY <1>1, ColdTaskFields DEF ServedCounts, Lru!NothingServed
  <1>5. [i \in DOMAIN completed |-> ServedCounts(completed[i])] = <<>>
    BY <1>1, EmptySequence
  <1> QED
    BY <1>2, <1>3, <1>4, <1>5 DEF Lru!Init

LEMMA StepRefines == RefinementInv /\ [Next]_vars => [Lru!Next]_(Lru!vars)
  <1> SUFFICES ASSUME RefinementInv, [Next]_vars PROVE Lru!Next \/ UNCHANGED Lru!vars
    OBVIOUS
  <1>1. IInv /\ Shape /\ ActiveShape
    BY DEF RefinementInv, IInv, Shape
  <1>2. CASE ~TaskOpen /\ TaskOpen' /\ active' = ColdTask /\ completed' = completed
    <2>1. LruLevel(active'.l1, L1) = Lru!EmptyLevel(L1) /\ LruLevel(active'.llc, LLC) = Lru!EmptyLevel(LLC)
      BY <1>2, ColdTaskFields, ColdLevelIsEmpty, AcceptedGeometries
    <2>2. ServedCounts(active') = Lru!NothingServed
      BY <1>2, ColdTaskFields DEF ServedCounts, Lru!NothingServed
    <2>3. Lru!StartTask
      BY <1>2, <2>1, <2>2 DEF Lru!StartTask
    <2> QED
      BY <2>3 DEF Lru!Next
  <1>3. CASE TaskOpen /\ ~TaskOpen' /\ active' = active /\ completed' = Append(completed, Summary)
    <2>1. MappedCompleted' = Append(MappedCompleted, ServedCounts(active))
      BY <1>1, <1>3, MappedAppend
    <2>2. Lru!FinishTask
      BY <1>3, <2>1 DEF Lru!FinishTask, MappedCompleted
    <2> QED
      BY <2>2 DEF Lru!Next
  <1>4. CASE /\ TaskOpen /\ TaskOpen' /\ active' = Observed /\ completed' = completed
             /\ pending.block \in Blocks
    <2>1. b \in Blocks /\ Lru!Reference(b)
      BY <1>4, ObservedIsReference DEF b
    <2> QED
      BY <2>1 DEF Lru!Next
  <1>5. CASE /\ TaskOpen <=> TaskOpen'
             /\ active' = active \/ active' = Accepted
             /\ completed' = completed
    <2>1. /\ active'.l1 = active.l1 /\ active'.llc = active.llc
          /\ ServedCounts(active') = ServedCounts(active)
      <3>1. CASE active' = active
        BY <3>1
      <3>2. CASE active' = Accepted
        BY <1>1, <3>2, AcceptedFields DEF ServedCounts
      <3> QED
        BY <1>5, <3>1, <3>2
    <2>2. TaskOpen' = TaskOpen
      BY <1>5, Zenon DEF TaskOpen
    <2> QED
      BY <1>5, <2>1, <2>2 DEF Lru!vars
  <1> QED
    BY <1>1, <1>2, <1>3, <1>4, <1>5, MappedSteps

-----------------------------------------------------------------------------
(* What follows.                                                            *)

(* Every line reference is served by the level that two set-associative LRU *)
(* caches, emptied at each task and coupled by L1 misses only, would serve  *)
(* it from, and the summaries count just that, for every module and every   *)
(* geometry: the streaming analysis implements the LRU hierarchy.           *)
THEOREM AnalysisServesLikeLru == Spec => ServesLikeLru
  <1>1. Init => RefinementInv
    BY InitIInv, ColdTaskOrdered DEF Init, RefinementInv, ActiveOrdered
  <1>2. RefinementInv /\ [Next]_vars => RefinementInv'
    BY NextIInv, ActiveOrderedKept DEF RefinementInv, IInv, Shape
  <1>3. Init => Lru!Init
    BY InitRefines
  <1>4. RefinementInv /\ [Next]_vars => [Lru!Next]_(Lru!vars)
    BY StepRefines
  <1> QED
    BY <1>1, <1>2, <1>3, <1>4, PTL DEF Spec, ServesLikeLru, Lru!Spec
=============================================================================
