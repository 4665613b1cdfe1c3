-------------------------- MODULE FenwickRecencyProof --------------------------
(***************************************************************************)
(* Theorems about the recency index with its Fenwick tree, for every key   *)
(* set, floor, ceiling and word size.  What the two walks do is a question *)
(* about the lowest one-bit of a slot; it is answered by halving.  The     *)
(* walks are recursive functions: each is the one function that solves its *)
(* recursion, shown by a least (or greatest) slot where it would differ.   *)
(***************************************************************************)
EXTENDS FenwickRecency, FiniteSetTheorems, WellFoundedInduction, TLAPS

-----------------------------------------------------------------------------
(* Slots and their lowest bits.                                             *)

LEMMA SmallestNumber ==
    ASSUME NEW S \in SUBSET Nat, S # {}
    PROVE  \E n \in S : \A m \in S : n <= m
  <1>1. PICK n \in S : \A m \in S : <<m, n>> \notin OpToRel(<, Nat)
    BY NatLessThanWellFounded, WFMin
  <1>2. \A m \in S : ~(m < n)
    BY <1>1 DEF OpToRel
  <1> QED
    BY <1>2

LEMMA Halves ==
    ASSUME NEW s \in Nat \ {0}
    PROVE  \/ s % 2 = 1
           \/ s % 2 = 0 /\ \E h \in Nat \ {0} : s = 2 * h /\ s \div 2 = h /\ h < s
  <1>1. s = (2 * (s \div 2)) + (s % 2) /\ s % 2 \in 0..1 /\ s \div 2 \in Nat
    OBVIOUS
  <1> QED
    BY <1>1

\* g is the lowest bit of every slot up to n.
Bits(n, g) == g = [s \in 1..n |-> IF s % 2 = 1 THEN 1 ELSE 2 * g[s \div 2]]

LEMMA BitsExist ==
    ASSUME NEW n \in Nat
    PROVE  \E g : Bits(n, g)
  <1> DEFINE F == {m \in Nat : ~ \E g : Bits(m, g)}
  <1> SUFFICES ASSUME F # {} PROVE FALSE
    OBVIOUS
  <1>1. PICK m \in F : \A l \in F : m <= l
    BY SmallestNumber
  <1>2. m # 0
    <2>1. Bits(0, [s \in 1..0 |-> 0])
      BY DEF Bits
    <2> QED
      BY <1>1, <2>1
  <1>3. m - 1 \in Nat /\ m - 1 \notin F
    BY <1>1, <1>2
  <1>4. PICK g : Bits(m - 1, g)
    BY <1>3
  <1> DEFINE new == [s \in 1..m |-> IF s % 2 = 1 THEN 1 ELSE 2 * g[s \div 2]]
  <1>5. ASSUME NEW s \in 1..m, s % 2 # 1
        PROVE  new[s \div 2] = g[s \div 2]
    <2>1. PICK h \in Nat \ {0} : s \div 2 = h /\ h < s
      BY <1>5, Halves
    <2>2. h \in 1..m /\ h \in 1..m - 1
      BY <1>1, <1>2, <2>1
    <2>3. new[h] = IF h % 2 = 1 THEN 1 ELSE 2 * g[h \div 2]
      BY <2>2
    <2>4. g[h] = IF h % 2 = 1 THEN 1 ELSE 2 * g[h \div 2]
      BY <1>4, <2>2 DEF Bits
    <2> QED
      BY <2>1, <2>3, <2>4
  <1>6. Bits(m, new)
    <2>1. \A s \in 1..m : (IF s % 2 = 1 THEN 1 ELSE 2 * g[s \div 2])
                        = (IF s % 2 = 1 THEN 1 ELSE 2 * new[s \div 2])
      BY <1>5
    <2>2. new = [s \in 1..m |-> IF s % 2 = 1 THEN 1 ELSE 2 * new[s \div 2]]
      BY <2>1
    <2> HIDE DEF new
    <2> QED
      BY <2>2 DEF Bits
  <1> QED
    BY <1>1, <1>6

LEMMA LowBitAt ==
    ASSUME MaxWord \in Nat, NEW s \in 1..MaxWord
    PROVE  LowBit[s] = IF s % 2 = 1 THEN 1 ELSE 2 * LowBit[s \div 2]
  <1>1. LowBit = CHOOSE g : Bits(MaxWord, g)
    BY DEF LowBit, Bits
  <1>2. Bits(MaxWord, LowBit)
    BY <1>1, BitsExist
  <1> HIDE DEF LowBit
  <1> QED
    BY <1>2 DEF Bits

\* An odd slot's lowest bit is one, an even slot's twice that of its half.
LEMMA LowBitHalves ==
    ASSUME MaxWord \in Nat, NEW s \in 1..MaxWord
    PROVE  \/ s % 2 = 1 /\ LowBit[s] = 1
           \/ s % 2 = 0 /\ \E h \in 1..MaxWord : s = 2 * h /\ h < s /\ LowBit[s] = 2 * LowBit[h]
  <1>1. CASE s % 2 = 1
    BY <1>1, LowBitAt
  <1>2. CASE s % 2 # 1
    <2>1. PICK h \in Nat \ {0} : s % 2 = 0 /\ s = 2 * h /\ s \div 2 = h /\ h < s
      BY <1>2, Halves
    <2>2. LowBit[s] = 2 * LowBit[h] /\ h \in 1..MaxWord
      BY <1>2, <2>1, LowBitAt
    <2> QED
      BY <2>1, <2>2
  <1> QED
    BY <1>1, <1>2

LEMMA LowBitBounds ==
    ASSUME MaxWord \in Nat, NEW s \in 1..MaxWord
    PROVE  LowBit[s] \in 1..s
  <1> DEFINE F == {m \in 1..MaxWord : LowBit[m] \notin 1..m}
  <1> SUFFICES ASSUME F # {} PROVE FALSE
    OBVIOUS
  <1>1. PICK m \in F : \A l \in F : m <= l
    <2>1. F \in SUBSET Nat
      OBVIOUS
    <2> QED
      BY <2>1, SmallestNumber
  <1>2. CASE m % 2 = 1 /\ LowBit[m] = 1
    BY <1>1, <1>2
  <1>3. CASE \E h \in 1..MaxWord : m = 2 * h /\ h < m /\ LowBit[m] = 2 * LowBit[h]
    <2>1. PICK h \in 1..MaxWord : m = 2 * h /\ h < m /\ LowBit[m] = 2 * LowBit[h]
      BY <1>3
    <2>2. LowBit[h] \in 1..h
      BY <1>1, <2>1
    <2>3. LowBit[m] \in 1..m
      BY <2>1, <2>2
    <2> QED
      BY <1>1, <2>3
  <1> QED
    BY <1>1, <1>2, <1>3, LowBitHalves

\* The slots a partial sum counts.
Covers(s, slot) == s - LowBit[s] < slot /\ slot <= s

\* A later sum that covers a slot covers the next one on its path, and the
\* other way round.
LEMMA CoversNext ==
    ASSUME MaxWord \in Nat, NEW s \in 1..MaxWord, NEW p \in 1..s - 1
    PROVE  Covers(s, p) <=> Covers(s, p + LowBit[p])
  <1> DEFINE Keeps(t, q) ==
                /\ t - LowBit[t] < q => q + LowBit[q] <= t
                /\ q <= t - LowBit[t] => q + LowBit[q] <= t - LowBit[t] \/ q + LowBit[q] > t
             F == {t \in 1..MaxWord : \E q \in 1..t - 1 : ~Keeps(t, q)}
  <1>1. ASSUME F # {} PROVE FALSE
    <2>1. F \in SUBSET Nat
      OBVIOUS
    <2>2. PICK t \in F : \A u \in F : t <= u
      BY <1>1, <2>1, SmallestNumber
    <2>3. PICK q \in 1..t - 1 : ~Keeps(t, q)
      BY <2>2
    <2> DEFINE lt == LowBit[t]
               lq == LowBit[q]
    <2>4. t \in 1..MaxWord /\ q \in 1..MaxWord /\ lt \in 1..t /\ lq \in 1..q
      BY <2>2, <2>3, LowBitBounds
    <2>5. CASE t % 2 = 1
      <3>1. lt = 1
        BY <2>4, <2>5, LowBitHalves
      <3>2. CASE q % 2 = 1
        <4>1. lq = 1
          BY <2>4, <3>2, LowBitHalves
        <4>2. q + 1 # t
          BY <2>4, <2>5, <3>2
        <4> HIDE DEF lt, lq
        <4>3. /\ t - lt < q => q + lq <= t
              /\ q <= t - lt => q + lq <= t - lt \/ q + lq > t
          BY <2>3, <2>4, <3>1, <4>1, <4>2
        <4> QED
          BY <2>3, <4>3 DEF lt, lq
      <3>3. CASE q % 2 = 0
        <4>1. PICK h \in 1..MaxWord : q = 2 * h /\ lq = 2 * LowBit[h]
          BY <2>4, <3>3, LowBitHalves
        <4>2. LowBit[h] \in Nat
          BY LowBitBounds
        <4> DEFINE lh == LowBit[h]
        <4> HIDE DEF lt, lq, lh
        <4>3. lq = 2 * lh /\ lh \in Nat
          BY <4>1, <4>2 DEF lh
        <4>4. q + lq # t
          BY <2>4, <2>5, <4>1, <4>3
        <4>5. /\ t - lt < q => q + lq <= t
              /\ q <= t - lt => q + lq <= t - lt \/ q + lq > t
          BY <2>3, <2>4, <3>1, <4>3, <4>4
        <4> QED
          BY <2>3, <4>5 DEF lt, lq
      <3> QED
        BY <2>4, <3>2, <3>3
    <2>6. CASE t % 2 = 0
      <3>1. PICK h \in 1..MaxWord : t = 2 * h /\ h < t /\ lt = 2 * LowBit[h]
        BY <2>4, <2>6, LowBitHalves
      <3>2. LowBit[h] \in 1..h
        BY LowBitBounds
      <3> DEFINE lh == LowBit[h]
      <3>3. CASE q % 2 = 1
        <4>1. lq = 1
          BY <2>4, <3>3, LowBitHalves
        <4> HIDE DEF lt, lq, lh
        <4>2. lt = 2 * lh /\ lh \in 1..h
          BY <3>1, <3>2 DEF lh
        <4>3. q # t - lt
          BY <2>4, <3>1, <3>3, <4>2
        <4>4. /\ t - lt < q => q + lq <= t
              /\ q <= t - lt => q + lq <= t - lt \/ q + lq > t
          BY <2>3, <2>4, <4>1, <4>3
        <4> QED
          BY <2>3, <4>4 DEF lt, lq
      <3>4. CASE q % 2 = 0
        <4>1. PICK i \in 1..MaxWord : q = 2 * i /\ lq = 2 * LowBit[i]
          BY <2>4, <3>4, LowBitHalves
        <4> DEFINE li == LowBit[i]
        <4>2. li \in 1..i
          BY LowBitBounds
        <4>3. i \in 1..h - 1
          BY <2>3, <3>1, <4>1
        <4>4. Keeps(h, i)
          BY <2>2, <3>1, <4>3
        <4>5. /\ h - lh < i => i + li <= h
              /\ i <= h - lh => i + li <= h - lh \/ i + li > h
          BY <4>4
        <4> HIDE DEF lt, lq, lh, li
        <4>6. lt = 2 * lh /\ lq = 2 * li /\ lh \in 1..h /\ li \in 1..i
          BY <3>1, <3>2, <4>1, <4>2 DEF lh, li
        <4>7. /\ t - lt < q => q + lq <= t
              /\ q <= t - lt => q + lq <= t - lt \/ q + lq > t
          BY <3>1, <4>1, <4>5, <4>6
        <4> QED
          BY <2>3, <4>7 DEF lt, lq
      <3> QED
        BY <2>4, <3>3, <3>4
    <2> QED
      BY <2>4, <2>5, <2>6
  <1>2. Keeps(s, p)
    BY <1>1
  <1> DEFINE ls == LowBit[s]
             lp == LowBit[p]
  <1>3. ls \in 1..s /\ lp \in 1..p
    BY LowBitBounds
  <1>4. /\ s - ls < p => p + lp <= s
        /\ p <= s - ls => p + lp <= s - ls \/ p + lp > s
    BY <1>2
  <1> HIDE DEF ls, lp
  <1>5. (s - ls < p /\ p <= s) <=> (s - ls < p + lp /\ p + lp <= s)
    BY <1>3, <1>4
  <1> QED
    BY <1>5 DEF Covers, ls, lp

-----------------------------------------------------------------------------
(* What the tree says: each sum counts the keys of K it covers.             *)

Covered(K, table, s) == {k \in K : Covers(s, table[k])}

Tallies(t, K, table, cap) ==
    t = [s \in 1..cap |-> Cardinality(Covered(K, table, s))]

UpTo(K, table, slot) == {k \in K : table[k] <= slot}

\* The keys at or below a slot are the ones its sum covers and the ones at or
\* below the next slot of the walk.
LEMMA SumSplits ==
    ASSUME MaxWord \in Nat, NEW s \in 1..MaxWord,
           NEW K, IsFiniteSet(K), NEW table, \A k \in K : table[k] \in Nat
    PROVE  /\ s - LowBit[s] \in 0..s - 1
           /\ Cardinality(UpTo(K, table, s))
                = Cardinality(Covered(K, table, s)) + Cardinality(UpTo(K, table, s - LowBit[s]))
  <1> DEFINE lower == s - LowBit[s]
             U == UpTo(K, table, s)
             C == Covered(K, table, s)
             L == UpTo(K, table, s - LowBit[s])
  <1>1. lower \in 0..s - 1
    BY LowBitBounds
  <1>2. U = C \cup L /\ C \cap L = {}
    <2> HIDE DEF lower
    <2>1. ASSUME NEW k \in K
          PROVE  /\ table[k] <= s <=> (lower < table[k] /\ table[k] <= s) \/ table[k] <= lower
                 /\ ~((lower < table[k] /\ table[k] <= s) /\ table[k] <= lower)
      BY <1>1
    <2> QED
      BY <2>1 DEF UpTo, Covered, Covers, lower
  <1>3. IsFiniteSet(C) /\ IsFiniteSet(L)
    BY FS_Subset DEF UpTo, Covered
  <1> HIDE DEF U, C, L
  <1>4. Cardinality(U) = Cardinality(C) + Cardinality(L) - Cardinality(C \cap L)
    BY <1>2, <1>3, FS_Union
  <1>5. Cardinality(C) \in Nat /\ Cardinality(L) \in Nat /\ Cardinality(C \cap L) = 0
    BY <1>2, <1>3, FS_CardinalityType, FS_EmptySet
  <1>6. Cardinality(U) = Cardinality(C) + Cardinality(L)
    BY <1>4, <1>5
  <1> QED
    BY <1>1, <1>6 DEF U, C, L

\* f is a solution of the downward walk's recursion.
Walks(f, t, slot) ==
    f = [s \in 0..slot |-> IF s = 0 THEN 0 ELSE t[s] + f[s - LowBit[s]]]

LEMMA WalksAgree ==
    ASSUME MaxWord \in Nat, NEW slot \in 0..MaxWord, NEW t, NEW f, NEW g,
           Walks(f, t, slot), Walks(g, t, slot), NEW s \in 0..slot
    PROVE  f[s] = g[s]
  <1> DEFINE F == {u \in 0..slot : f[u] # g[u]}
  <1> SUFFICES ASSUME F # {} PROVE FALSE
    OBVIOUS
  <1>1. PICK u \in F : \A v \in F : u <= v
    <2>1. F \in SUBSET Nat
      OBVIOUS
    <2> QED
      BY <2>1, SmallestNumber
  <1>2. u \in 0..slot /\ f[u] # g[u]
    BY <1>1
  <1>3. /\ f[u] = IF u = 0 THEN 0 ELSE t[u] + f[u - LowBit[u]]
        /\ g[u] = IF u = 0 THEN 0 ELSE t[u] + g[u - LowBit[u]]
    BY <1>2 DEF Walks
  <1>4. u # 0
    BY <1>2, <1>3
  <1>5. LowBit[u] \in 1..u
    BY <1>2, <1>4, LowBitBounds
  <1> DEFINE v == u - LowBit[u]
  <1>6. v \in 0..slot /\ v < u
    BY <1>2, <1>5
  <1>7. v \notin F
    BY <1>1, <1>2, <1>6
  <1> QED
    BY <1>2, <1>3, <1>4, <1>6, <1>7

\* A prefix sum is the number of keys at or below its slot.
LEMMA PrefixSumCounts ==
    ASSUME MaxWord \in Nat, NEW cap \in 0..MaxWord, NEW slot \in 0..cap,
           NEW K, IsFiniteSet(K), NEW table, \A k \in K : table[k] \in Nat \ {0},
           NEW t, Tallies(t, K, table, cap)
    PROVE  tree_prefix_sum(t, slot) = Cardinality(UpTo(K, table, slot))
  <1> DEFINE total == CHOOSE f : Walks(f, t, slot)
             T == [s \in 0..slot |-> Cardinality(UpTo(K, table, s))]
  <1>1. tree_prefix_sum(t, slot) = total[slot]
    BY DEF tree_prefix_sum, Walks
  <1>2. ASSUME NEW s \in 0..slot
        PROVE  T[s] = IF s = 0 THEN 0 ELSE t[s] + T[s - LowBit[s]]
    <2>1. CASE s = 0
      <3>1. UpTo(K, table, 0) = {}
        BY DEF UpTo
      <3> QED
        BY <2>1, <3>1, FS_EmptySet
    <2>2. CASE s # 0
      <3>1. s \in 1..MaxWord /\ s \in 1..cap
        BY <2>2
      <3>2. /\ s - LowBit[s] \in 0..s - 1
            /\ Cardinality(UpTo(K, table, s))
                 = Cardinality(Covered(K, table, s)) + Cardinality(UpTo(K, table, s - LowBit[s]))
        BY <3>1, SumSplits
      <3>3. s - LowBit[s] \in 0..slot
        BY <3>2
      <3>4. t[s] = Cardinality(Covered(K, table, s))
        BY <3>1 DEF Tallies
      <3> QED
        BY <2>2, <3>2, <3>3, <3>4
    <2> QED
      BY <2>1, <2>2
  <1>3. Walks(T, t, slot)
    <2>1. T = [s \in 0..slot |-> T[s]]
      OBVIOUS
    <2> HIDE DEF T
    <2>2. T = [s \in 0..slot |-> IF s = 0 THEN 0 ELSE t[s] + T[s - LowBit[s]]]
      BY <1>2, <2>1
    <2> QED
      BY <2>2 DEF Walks
  <1>4. Walks(total, t, slot)
    BY <1>3
  <1>5. total[slot] = T[slot]
    <2> HIDE DEF total, T
    <2> QED
      BY <1>3, <1>4, WalksAgree
  <1> QED
    BY <1>1, <1>5

\* f is a solution of the upward walk's recursion.
Climbs(f, cap) ==
    f = [s \in 1..cap |->
            {s} \cup (IF LowBit[s] > cap - s THEN {} ELSE f[s + LowBit[s]])]

LEMMA ClimbsAgree ==
    ASSUME MaxWord \in Nat, NEW cap \in 0..MaxWord, NEW f, NEW g,
           Climbs(f, cap), Climbs(g, cap), NEW s \in 1..cap
    PROVE  f[s] = g[s]
  <1> DEFINE F == {n \in 0..cap : \E u \in 1..cap : u + n = cap /\ f[u] # g[u]}
  <1>1. ASSUME F # {} PROVE FALSE
    <2>1. F \in SUBSET Nat
      OBVIOUS
    <2>2. PICK n \in F : \A m \in F : n <= m
      BY <1>1, <2>1, SmallestNumber
    <2>3. PICK u \in 1..cap : u + n = cap /\ f[u] # g[u]
      BY <2>2
    <2>4. /\ f[u] = {u} \cup (IF LowBit[u] > cap - u THEN {} ELSE f[u + LowBit[u]])
          /\ g[u] = {u} \cup (IF LowBit[u] > cap - u THEN {} ELSE g[u + LowBit[u]])
      BY <2>3 DEF Climbs
    <2>5. ~(LowBit[u] > cap - u)
      BY <2>3, <2>4
    <2>6. LowBit[u] \in 1..u
      BY <2>3, LowBitBounds
    <2> DEFINE v == u + LowBit[u]
    <2>7. v \in 1..cap /\ cap - v \in 0..cap /\ cap - v < n /\ v + (cap - v) = cap
      BY <2>3, <2>5, <2>6
    <2>8. f[v] # g[v]
      BY <2>3, <2>4, <2>5
    <2>9. cap - v \in F
      BY <2>7, <2>8
    <2> QED
      BY <2>2, <2>7, <2>9
  <1>2. cap - s \in 0..cap /\ s + (cap - s) = cap
    OBVIOUS
  <1>3. cap - s \notin F
    BY <1>1
  <1> QED
    BY <1>2, <1>3

\* An update walks over exactly the sums that cover its slot.
LEMMA UpdatePathCovers ==
    ASSUME MaxWord \in Nat, NEW cap \in 0..MaxWord, NEW slot \in 1..cap
    PROVE  UpdatePath(slot, cap) = {s \in 1..cap : Covers(s, slot)}
  <1> DEFINE path == CHOOSE f : Climbs(f, cap)
             P == [p \in 1..cap |-> {s \in 1..cap : Covers(s, p)}]
  <1>1. UpdatePath(slot, cap) = path[slot]
    BY DEF UpdatePath, Climbs
  <1>2. ASSUME NEW p \in 1..cap
        PROVE  P[p] = {p} \cup (IF LowBit[p] > cap - p THEN {} ELSE P[p + LowBit[p]])
    <2> DEFINE lp == LowBit[p]
    <2>1. lp \in 1..p
      BY LowBitBounds
    <2>2. Covers(p, p)
      BY <2>1 DEF Covers
    <2>3. ASSUME NEW s \in 1..cap, s < p PROVE ~Covers(s, p) /\ ~Covers(s, p + lp)
      <3> HIDE DEF lp
      <3> QED
        BY <2>1, <2>3 DEF Covers
    <2>4. ASSUME NEW s \in 1..cap, p < s PROVE Covers(s, p) <=> Covers(s, p + lp)
      <3>1. s \in 1..MaxWord /\ p \in 1..s - 1
        BY <2>4
      <3> QED
        BY <3>1, CoversNext
    <2>5. ~Covers(p, p + lp)
      <3> HIDE DEF lp
      <3> QED
        BY <2>1 DEF Covers
    <2>6. P[p] = {p} \cup {s \in 1..cap : Covers(s, p + lp)}
      <3>1. ASSUME NEW s \in 1..cap
            PROVE  Covers(s, p) <=> s = p \/ Covers(s, p + lp)
        <4>1. s = p \/ s < p \/ p < s
          OBVIOUS
        <4> HIDE DEF lp
        <4> QED
          BY <4>1, <2>2, <2>3, <2>4
      <3> QED
        BY <3>1
    <2>7. CASE lp > cap - p
      <3>1. \A s \in 1..cap : ~Covers(s, p + lp)
        <4> HIDE DEF lp
        <4> QED
          BY <2>1, <2>7 DEF Covers
      <3> QED
        BY <2>6, <2>7, <3>1
    <2>8. CASE ~(lp > cap - p)
      <3>1. p + lp \in 1..cap
        <4> HIDE DEF lp
        <4> QED
          BY <2>1, <2>8
      <3>2. P[p + lp] = {s \in 1..cap : Covers(s, p + lp)}
        BY <3>1
      <3> QED
        BY <2>6, <2>8, <3>2
    <2> QED
      BY <2>7, <2>8
  <1>3. Climbs(P, cap)
    <2>1. P = [p \in 1..cap |-> P[p]]
      OBVIOUS
    <2> HIDE DEF P
    <2>2. P = [p \in 1..cap |->
                 {p} \cup (IF LowBit[p] > cap - p THEN {} ELSE P[p + LowBit[p]])]
      BY <1>2, <2>1
    <2> QED
      BY <2>2 DEF Climbs
  <1>4. Climbs(path, cap)
    BY <1>3
  <1>5. path[slot] = P[slot]
    <2> HIDE DEF path, P
    <2> QED
      BY <1>3, <1>4, ClimbsAgree
  <1> QED
    BY <1>1, <1>5

\* A key leaving the table leaves every sum that covers its slot.
LEMMA LeavingTallies ==
    ASSUME MaxWord \in Nat, NEW cap \in 0..MaxWord, NEW K, IsFiniteSet(K),
           NEW table, NEW k \in K, table[k] \in 1..cap,
           NEW t, Tallies(t, K, table, cap)
    PROVE  Tallies(update(t, table[k], cap, -1), K \ {k}, table, cap)
  <1> DEFINE without == update(t, table[k], cap, -1)
  <1>1. UpdatePath(table[k], cap) = {s \in 1..cap : Covers(s, table[k])}
    BY UpdatePathCovers
  <1>2. without = [s \in 1..cap |-> IF Covers(s, table[k]) THEN t[s] + (-1) ELSE t[s]]
    BY <1>1 DEF update, Tallies
  <1>3. ASSUME NEW s \in 1..cap
        PROVE  without[s] = Cardinality(Covered(K \ {k}, table, s))
    <2> DEFINE C == Covered(K, table, s)
    <2>1. t[s] = Cardinality(C) /\ IsFiniteSet(C)
      BY FS_Subset DEF Tallies, Covered
    <2>2. Covered(K \ {k}, table, s) = C \ {k} /\ (k \in C <=> Covers(s, table[k]))
      BY DEF Covered
    <2> HIDE DEF C, without
    <2>3. Cardinality(C \ {k}) = IF k \in C THEN Cardinality(C) - 1 ELSE Cardinality(C)
      BY <2>1, FS_RemoveElement
    <2>4. Cardinality(C) \in Nat
      BY <2>1, FS_CardinalityType
    <2> QED
      BY <1>2, <2>1, <2>2, <2>3, <2>4
  <1>4. without = [s \in 1..cap |-> without[s]]
    BY <1>2
  <1> HIDE DEF without
  <1> QED
    BY <1>3, <1>4 DEF Tallies, without

\* A key entering the table enters every sum that covers its slot.
LEMMA EnteringTallies ==
    ASSUME MaxWord \in Nat, NEW cap \in 0..MaxWord, NEW K, IsFiniteSet(K),
           NEW table, NEW k, k \notin K, NEW slot \in 1..cap,
           NEW t, Tallies(t, K, table, cap),
           NEW entered, entered[k] = slot, \A j \in K : entered[j] = table[j]
    PROVE  Tallies(update(t, slot, cap, 1), K \cup {k}, entered, cap)
  <1> DEFINE with == update(t, slot, cap, 1)
  <1>1. UpdatePath(slot, cap) = {s \in 1..cap : Covers(s, slot)}
    BY UpdatePathCovers
  <1>2. with = [s \in 1..cap |-> IF Covers(s, slot) THEN t[s] + 1 ELSE t[s]]
    BY <1>1 DEF update, Tallies
  <1>3. ASSUME NEW s \in 1..cap
        PROVE  with[s] = Cardinality(Covered(K \cup {k}, entered, s))
    <2> DEFINE C == Covered(K, table, s)
    <2>1. t[s] = Cardinality(C) /\ IsFiniteSet(C) /\ k \notin C
      BY FS_Subset DEF Tallies, Covered
    <2>2. Covered(K \cup {k}, entered, s) = IF Covers(s, slot) THEN C \cup {k} ELSE C
      BY DEF Covered
    <2> HIDE DEF C, with
    <2>3. Cardinality(C \cup {k}) = Cardinality(C) + 1
      BY <2>1, FS_AddElement
    <2> QED
      BY <1>2, <2>1, <2>2, <2>3
  <1>4. with = [s \in 1..cap |-> with[s]]
    BY <1>2
  <1> HIDE DEF with
  <1> QED
    BY <1>3, <1>4 DEF Tallies, with

\* Keys packed into slots 1 .. count fill them: so a range of slots holds as
\* many keys as it has slots up to count.
LEMMA PackedRange ==
    ASSUME NEW K, IsFiniteSet(K), NEW table \in [K -> 1..Cardinality(K)],
           \A i, j \in K : table[i] = table[j] => i = j,
           NEW a \in Nat, NEW b \in Nat, b <= Cardinality(K)
    PROVE  Cardinality({k \in K : a < table[k] /\ table[k] <= b})
              = IF a < b THEN b - a ELSE 0
  <1> DEFINE count == Cardinality(K)
             R == {k \in K : a < table[k] /\ table[k] <= b}
             S == a + 1..b
             f == [k \in R |-> table[k]]
  <1>1. count \in Nat
    BY FS_CardinalityType
  <1>2. \A s \in 1..count : \E k \in K : table[k] = s
    <2>1. table \in Injection(K, 1..count)
      BY DEF Injection, IsInjective
    <2>2. IsFiniteSet(1..count) /\ Cardinality(1..count) = count
      BY <1>1, FS_Interval
    <2>3. table \in Surjection(K, 1..count)
      BY <2>1, <2>2, FS_Injection
    <2> QED
      BY <2>3 DEF Surjection
  <1>3. f \in Bijection(R, S)
    <2>1. \A k \in K : table[k] \in Nat
      BY <1>1
    <2>2. f \in [R -> S]
      BY <1>1, <2>1
    <2>3. f \in Injection(R, S)
      BY <2>2 DEF Injection, IsInjective
    <2>4. ASSUME NEW s \in S PROVE \E k \in R : f[k] = s
      <3>1. s \in 1..count /\ a < s /\ s <= b
        BY <1>1
      <3>2. PICK k \in K : table[k] = s
        BY <1>2, <3>1
      <3> QED
        BY <3>1, <3>2
    <2>5. f \in Surjection(R, S)
      BY <2>2, <2>4 DEF Surjection
    <2> QED
      BY <2>3, <2>5 DEF Bijection
  <1>4. IsFiniteSet(R)
    BY FS_Subset
  <1>5. Cardinality(S) = Cardinality(R)
    <2> HIDE DEF R, S, f
    <2> QED
      BY <1>3, <1>4, FS_Bijection DEF ExistsBijection
  <1>6. Cardinality(S) = IF a + 1 > b THEN 0 ELSE b - (a + 1) + 1
    BY FS_Interval
  <1> QED
    BY <1>5, <1>6

\* The rebuilt tree is the tree of a packed table.
LEMMA RebuiltTallies ==
    ASSUME MaxWord \in Nat, NEW cap \in 0..MaxWord, NEW K, IsFiniteSet(K),
           NEW table \in [K -> 1..Cardinality(K)],
           \A i, j \in K : table[i] = table[j] => i = j
    PROVE  Tallies(Rebuilt(cap, Cardinality(K)), K, table, cap)
  <1> DEFINE count == Cardinality(K)
  <1>1. count \in Nat
    BY FS_CardinalityType
  <1>2. ASSUME NEW s \in 1..cap
        PROVE  Rebuilt(cap, count)[s] = Cardinality(Covered(K, table, s))
    <2> DEFINE lower == s - LowBit[s]
               b == IF s < count THEN s ELSE count
    <2>1. Rebuilt(cap, count)[s] = IF lower < count THEN b - lower ELSE 0
      BY DEF Rebuilt
    <2>2. lower \in 0..s - 1
      BY LowBitBounds
    <2>3. Covered(K, table, s) = {k \in K : lower < table[k] /\ table[k] <= b}
      <3>1. \A k \in K : table[k] \in 1..count
        OBVIOUS
      <3> HIDE DEF lower
      <3>2. \A k \in K : lower < table[k] /\ table[k] <= s
                            <=> lower < table[k] /\ table[k] <= b
        BY <1>1, <3>1
      <3> QED
        BY <3>2 DEF Covered, Covers, lower
    <2>4. b \in Nat /\ b <= count /\ lower \in Nat
      BY <1>1, <2>2
    <2>5. (lower < count) <=> (lower < b)
      <3> HIDE DEF lower
      <3> QED
        BY <1>1, <2>2
    <2>6. Cardinality({k \in K : lower < table[k] /\ table[k] <= b})
            = IF lower < b THEN b - lower ELSE 0
      <3> HIDE DEF lower, b
      <3> QED
        BY <2>4, PackedRange
    <2> QED
      BY <2>1, <2>3, <2>5, <2>6
  <1>3. Rebuilt(cap, count) = [s \in 1..cap |-> Rebuilt(cap, count)[s]]
    BY DEF Rebuilt
  <1> HIDE DEF count
  <1>4. Tallies(Rebuilt(cap, count), K, table, cap)
    BY <1>2, <1>3 DEF Tallies
  <1> QED
    BY <1>4 DEF count

-----------------------------------------------------------------------------
(* The index under the tree.  What is proved about RecencyIndex is cited of *)
(* an instance of its proofs; the names the two instances share agree.      *)

IndexProof == INSTANCE RecencyIndexProof

LEMMA AssumptionHolds == IndexProof!IndexAssumption
  BY FenwickAssumption
     DEF FenwickAssumption, IndexProof!IndexAssumption, IndexProof!IsFiniteSet, IsFiniteSet

LEMMA CountsAgree ==
    \A S : /\ IndexProof!Cardinality(S) = Cardinality(S)
           /\ Index!Cardinality(S) = Cardinality(S)
           /\ IndexProof!IsFiniteSet(S) <=> IsFiniteSet(S)
  BY DEF IndexProof!Cardinality, Index!Cardinality, Cardinality,
         IndexProof!IsFiniteSet, IsFiniteSet

LEMMA SettlingAgrees ==
    /\ Index!NeedsCompaction <=> IndexProof!NeedsCompaction
    /\ Index!Fits <=> IndexProof!Fits
    /\ Index!SettledSlots = IndexProof!SettledSlots
    /\ Index!SettledCapacity = IndexProof!SettledCapacity
    /\ Index!SettledNext = IndexProof!SettledNext
  <1>1. Index!NeedsCompaction <=> IndexProof!NeedsCompaction
    BY DEF Index!NeedsCompaction, IndexProof!NeedsCompaction
  <1>2. \A a, b : Index!Larger(a, b) = IndexProof!Larger(a, b)
    BY DEF Index!Larger, IndexProof!Larger
  <1>3. \A t, s : Index!prefix_sum(t, s) = IndexProof!prefix_sum(t, s)
    BY CountsAgree DEF Index!prefix_sum, IndexProof!prefix_sum,
                       Index!AtOrBefore, IndexProof!AtOrBefore
  <1>4. Index!SettledNext = IndexProof!SettledNext
    BY <1>1 DEF Index!SettledNext, IndexProof!SettledNext
  <1>5. Index!SettledCapacity = IndexProof!SettledCapacity
    BY <1>1, <1>2 DEF Index!SettledCapacity, IndexProof!SettledCapacity
  <1>6. Index!SettledSlots = IndexProof!SettledSlots
    BY <1>1, <1>3 DEF Index!SettledSlots, IndexProof!SettledSlots
  <1>7. Index!CompactionFits <=> IndexProof!CompactionFits
    BY <1>2 DEF Index!CompactionFits, IndexProof!CompactionFits
  <1>8. Index!Fits <=> IndexProof!Fits
    BY <1>1, <1>4, <1>7 DEF Index!Fits, IndexProof!Fits
  <1> QED
    BY <1>1, <1>4, <1>5, <1>6, <1>8

LEMMA StepsAgree ==
    /\ Index!Init <=> IndexProof!Init
    /\ [Index!Next]_(Index!vars) <=> [IndexProof!Next]_(IndexProof!vars)
    /\ Index!TypeOK <=> IndexProof!TypeOK
  <1>1. Index!Init <=> IndexProof!Init
    BY DEF Index!Init, IndexProof!Init
  <1>2. (UNCHANGED Index!vars) <=> (UNCHANGED IndexProof!vars)
    BY DEF Index!vars, IndexProof!vars, Index!config, IndexProof!config
  <1>3. Index!TypeOK <=> IndexProof!TypeOK
    BY DEF Index!TypeOK, IndexProof!TypeOK
  <1>4. \A k : Index!Settle(k) <=> IndexProof!Settle(k)
    BY SettlingAgrees DEF Index!Settle, IndexProof!Settle, Index!config, IndexProof!config
  <1>5. \A t, s : Index!prefix_sum(t, s) = IndexProof!prefix_sum(t, s)
    BY CountsAgree DEF Index!prefix_sum, IndexProof!prefix_sum,
                       Index!AtOrBefore, IndexProof!AtOrBefore
  <1>6. \A k : Index!ObserveFirst(k) <=> IndexProof!ObserveFirst(k)
    BY <1>4, SettlingAgrees DEF Index!ObserveFirst, IndexProof!ObserveFirst
  <1>7. \A k : Index!ObserveAgain(k) <=> IndexProof!ObserveAgain(k)
    BY <1>4, <1>5, SettlingAgrees DEF Index!ObserveAgain, IndexProof!ObserveAgain
  <1>8. \A k : Index!ObserveFails(k) <=> IndexProof!ObserveFails(k)
    BY SettlingAgrees DEF Index!ObserveFails, IndexProof!ObserveFails,
                          Index!config, IndexProof!config
  <1>9. Index!Next <=> IndexProof!Next
    BY <1>6, <1>7, <1>8 DEF Index!Next, IndexProof!Next
  <1>10. [Index!Next]_(Index!vars) <=> [IndexProof!Next]_(IndexProof!vars)
    BY <1>2, <1>9
  <1> QED
    BY <1>1, <1>3, <1>10

\* What holds of the index holds under the tree.
IndexInv == IndexProof!IInv

LEMMA IndexKeepsInv ==
    /\ Index!Init => IndexInv
    /\ IndexInv /\ [Index!Next]_(Index!vars) => IndexInv'
  <1>1. Index!Init => IndexInv
    BY AssumptionHolds, StepsAgree, IndexProof!InitIInv DEF IndexInv
  <1>2. IndexInv /\ [Index!Next]_(Index!vars) => IndexInv'
    <2>1. (IndexInv /\ [IndexProof!Next]_(IndexProof!vars)) => IndexInv'
      BY AssumptionHolds, IndexProof!StepIInv DEF IndexInv
    <2> QED
      BY <2>1, StepsAgree
  <1> QED
    BY <1>1, <1>2

\* The table and the settled table, in the terms of this module.
LEMMA TableFacts ==
    ASSUME IndexInv
    PROVE  /\ MaxWord \in Nat
           /\ IsFiniteSet(DOMAIN slots)
           /\ active_count = Cardinality(DOMAIN slots)
           /\ slots \in [DOMAIN slots -> Nat \ {0}]
           /\ \A i, j \in DOMAIN slots : slots[i] = slots[j] => i = j
           /\ \A k \in DOMAIN slots : slots[k] \in 1..capacity
           /\ capacity \in 0..MaxWord
           /\ DOMAIN slots \subseteq Keys
  <1>1. IndexProof!TypeOK /\ IndexProof!SlotsConsistent /\ IndexProof!StorageBounded
    BY DEF IndexInv, IndexProof!IInv
  <1>2. MaxWord \in Nat
    BY FenwickAssumption DEF FenwickAssumption
  <1>3. IsFiniteSet(DOMAIN slots)
    BY <1>1, FenwickAssumption, FS_Subset DEF FenwickAssumption, IndexProof!TypeOK
  <1>4. active_count = Cardinality(DOMAIN slots)
    BY <1>1, CountsAgree DEF IndexProof!SlotsConsistent
  <1>5. /\ slots \in [DOMAIN slots -> Nat \ {0}]
        /\ capacity \in Nat /\ next_slot \in Nat
        /\ DOMAIN slots \subseteq Keys
    BY <1>1 DEF IndexProof!TypeOK
  <1>6. capacity + 1 <= MaxWord
    BY <1>1 DEF IndexProof!StorageBounded
  <1>7. /\ \A i, j \in DOMAIN slots : slots[i] = slots[j] => i = j
        /\ \A k \in DOMAIN slots : slots[k] < next_slot
        /\ next_slot <= capacity + 1
    BY <1>1 DEF IndexProof!SlotsConsistent, IndexProof!StorageBounded
  <1>8. \A k \in DOMAIN slots : slots[k] \in 1..capacity
    <2> SUFFICES ASSUME NEW k \in DOMAIN slots PROVE slots[k] \in 1..capacity
      OBVIOUS
    <2>1. slots[k] \in Nat \ {0} /\ slots[k] < next_slot
      BY <1>5, <1>7
    <2> QED
      BY <1>5, <1>7, <2>1
  <1> QED
    BY <1>2, <1>3, <1>4, <1>5, <1>6, <1>7, <1>8

LEMMA SettledFacts ==
    ASSUME IndexInv, Index!Fits
    PROVE  /\ Index!SettledSlots \in [DOMAIN slots -> Nat \ {0}]
           /\ \A i, j \in DOMAIN slots :
                 Index!SettledSlots[i] = Index!SettledSlots[j] => i = j
           /\ \A k \in DOMAIN slots : Index!SettledSlots[k] \in 1..Index!SettledCapacity
           /\ Index!SettledCapacity \in 0..MaxWord
           /\ Index!SettledNext \in 1..Index!SettledCapacity
           /\ Index!NeedsCompaction =>
                 Index!SettledSlots \in [DOMAIN slots -> 1..Cardinality(DOMAIN slots)]
  <1> DEFINE D == DOMAIN slots
             S == Index!SettledSlots
             cap == Index!SettledCapacity
             next == Index!SettledNext
  <1>1. IndexProof!IInv /\ IndexProof!Fits
    BY SettlingAgrees DEF IndexInv
  <1>2. IndexProof!TypeOK /\ IndexProof!SlotsConsistent
    BY <1>1 DEF IndexProof!IInv
  <1>3. /\ S \in [D -> Nat \ {0}]
        /\ \A i, j \in D : S[i] < S[j] <=> slots[i] < slots[j]
        /\ \A k \in D : S[k] < next
        /\ next \in Nat \ {0} /\ cap \in Nat \ {0}
        /\ next <= cap /\ cap + 1 <= MaxWord
    BY <1>1, AssumptionHolds, SettlingAgrees, IndexProof!SettledTable
  <1>4. S \in [D -> Nat \ {0}]
    BY <1>3
  <1> HIDE DEF S, cap, next
  <1>5. \A k \in D : S[k] \in 1..cap
    <2> SUFFICES ASSUME NEW k \in D PROVE S[k] \in 1..cap
      OBVIOUS
    <2>1. S[k] \in Nat \ {0} /\ S[k] < next
      BY <1>3
    <2> QED
      BY <1>3, <2>1
  <1>6. \A i, j \in D : S[i] = S[j] => i = j
    <2> SUFFICES ASSUME NEW i \in D, NEW j \in D, S[i] = S[j] PROVE i = j
      OBVIOUS
    <2>1. slots[i] \in Nat /\ slots[j] \in Nat /\ S[i] \in Nat
      BY <1>3, TableFacts
    <2>2. ~(slots[i] < slots[j]) /\ ~(slots[j] < slots[i])
      BY <1>3, <2>1
    <2>3. slots[i] = slots[j]
      BY <2>1, <2>2
    <2> QED
      BY <2>3, TableFacts
  <1>7. ASSUME Index!NeedsCompaction
        PROVE  S \in [D -> 1..Cardinality(D)]
    <2>1. \A k \in D : IndexProof!prefix_sum(slots, slots[k]) \in 1..active_count
      BY <1>2, AssumptionHolds, IndexProof!RankPacks
    <2>2. S = [k \in D |-> IndexProof!prefix_sum(slots, slots[k])]
      BY <1>7, SettlingAgrees DEF S, IndexProof!SettledSlots
    <2> QED
      BY <2>1, <2>2, TableFacts
  <1>8. cap \in 0..MaxWord /\ next \in 1..cap
    BY <1>3, TableFacts
  <1> QED
    BY <1>4, <1>5, <1>6, <1>7, <1>8 DEF S, cap, next

\* The inductive invariant: the index's, and a tree that tallies the table.
FInv == IndexInv /\ Tallies(tree, DOMAIN slots, slots, capacity)

\* A compaction leaves a tree that tallies the renumbered table.
LEMMA SettledTreeTallies ==
    ASSUME FInv, Index!Fits
    PROVE  Tallies(SettledTree, DOMAIN slots, Index!SettledSlots, Index!SettledCapacity)
  <1>1. CASE Index!NeedsCompaction
    <2>1. SettledTree = Rebuilt(Index!SettledCapacity, Cardinality(DOMAIN slots))
      BY <1>1, TableFacts DEF SettledTree, FInv
    <2> DEFINE S == Index!SettledSlots
               cap == Index!SettledCapacity
    <2>2. /\ S \in [DOMAIN slots -> 1..Cardinality(DOMAIN slots)]
          /\ \A i, j \in DOMAIN slots : S[i] = S[j] => i = j
          /\ cap \in 0..MaxWord
      BY <1>1, SettledFacts DEF FInv
    <2>3. MaxWord \in Nat /\ IsFiniteSet(DOMAIN slots)
      BY TableFacts DEF FInv
    <2> HIDE DEF S, cap
    <2>4. Tallies(Rebuilt(cap, Cardinality(DOMAIN slots)), DOMAIN slots, S, cap)
      BY <2>2, <2>3, RebuiltTallies
    <2> QED
      BY <2>1, <2>4 DEF S, cap
  <1>2. CASE ~Index!NeedsCompaction
    BY <1>2 DEF SettledTree, Index!SettledSlots, Index!SettledCapacity, FInv
  <1> QED
    BY <1>1, <1>2

\* The tree of an observation's table without the key being moved.
LEMMA WithoutTallies ==
    ASSUME FInv, Index!Fits, NEW k \in DOMAIN slots
    PROVE  Tallies(update(SettledTree, Index!SettledSlots[k], Index!SettledCapacity, -1),
                   DOMAIN slots \ {k}, Index!SettledSlots, Index!SettledCapacity)
  <1> DEFINE S == Index!SettledSlots
             cap == Index!SettledCapacity
  <1>1. /\ S[k] \in 1..cap /\ cap \in 0..MaxWord /\ MaxWord \in Nat
        /\ IsFiniteSet(DOMAIN slots)
        /\ Tallies(SettledTree, DOMAIN slots, S, cap)
    BY SettledFacts, SettledTreeTallies, TableFacts DEF FInv
  <1> HIDE DEF S, cap
  <1>2. Tallies(update(SettledTree, S[k], cap, -1), DOMAIN slots \ {k}, S, cap)
    BY <1>1, LeavingTallies
  <1> QED
    BY <1>2 DEF S, cap

\* Entering k, whether it was in the table or not, tallies the new table.
LEMMA SettleTallies ==
    ASSUME FInv, Index!Fits, NEW k \in Keys, Index!Settle(k),
           tree' = MovedTree(IF k \in DOMAIN slots THEN Index!SettledSlots[k] ELSE 0)
    PROVE  Tallies(tree, DOMAIN slots, slots, capacity)'
  <1> DEFINE S == Index!SettledSlots
             cap == Index!SettledCapacity
             next == Index!SettledNext
             K == DOMAIN slots \ {k}
             without == IF k \in DOMAIN slots THEN update(SettledTree, S[k], cap, -1)
                                              ELSE SettledTree
  <1>1. Tallies(without, K, S, cap)
    <2>1. CASE k \in DOMAIN slots
      BY <2>1, WithoutTallies
    <2>2. CASE k \notin DOMAIN slots
      <3>1. K = DOMAIN slots
        BY <2>2
      <3> QED
        BY <2>2, <3>1, SettledTreeTallies
    <2> QED
      BY <2>1, <2>2
  <1>2. tree' = update(without, next, cap, 1)
    <2>1. k \in DOMAIN slots => S[k] # 0
      BY SettledFacts DEF FInv
    <2> QED
      BY <2>1 DEF MovedTree
  <1>3. /\ slots' = [j \in DOMAIN slots \cup {k} |-> IF j = k THEN next ELSE S[j]]
        /\ capacity' = cap
    BY DEF Index!Settle
  <1>4. /\ DOMAIN slots' = K \cup {k} /\ k \notin K
        /\ slots'[k] = next /\ \A j \in K : slots'[j] = S[j]
    BY <1>3
  <1>5. /\ cap \in 0..MaxWord /\ next \in 1..cap /\ MaxWord \in Nat /\ IsFiniteSet(K)
    BY SettledFacts, TableFacts, FS_Subset DEF FInv
  <1> HIDE DEF S, cap, next, K, without
  <1>6. Tallies(update(without, next, cap, 1), K \cup {k}, slots', cap)
    BY <1>1, <1>4, <1>5, EnteringTallies
  <1>7. Tallies(tree', DOMAIN slots', slots', capacity')
    BY <1>2, <1>3, <1>4, <1>6
  <1> QED
    BY <1>7 DEF Tallies, Covered, Covers

\* The distance read off the tree is the one the index counts.
LEMMA TreeAnswers ==
    ASSUME FInv, Index!Fits, NEW k \in DOMAIN slots
    PROVE  tree_prefix_sum(SettledTree, Index!SettledSlots[k])
              = Index!prefix_sum(Index!SettledSlots, Index!SettledSlots[k])
  <1> DEFINE S == Index!SettledSlots
             cap == Index!SettledCapacity
  <1>1. /\ S \in [DOMAIN slots -> Nat \ {0}]
        /\ S[k] \in 1..cap /\ cap \in 0..MaxWord /\ MaxWord \in Nat
        /\ IsFiniteSet(DOMAIN slots)
        /\ Tallies(SettledTree, DOMAIN slots, S, cap)
    BY SettledFacts, SettledTreeTallies, TableFacts DEF FInv
  <1> HIDE DEF S, cap
  <1>2. tree_prefix_sum(SettledTree, S[k]) = Cardinality(UpTo(DOMAIN slots, S, S[k]))
    BY <1>1, PrefixSumCounts
  <1>3. Index!prefix_sum(S, S[k]) = Cardinality(UpTo(DOMAIN slots, S, S[k]))
    BY <1>1, CountsAgree DEF Index!prefix_sum, Index!AtOrBefore, UpTo
  <1> QED
    BY <1>2, <1>3 DEF S

\* Each step of the tree's index is a step of the index that counts.
LEMMA StepOfIndex ==
    ASSUME FInv, [Next]_vars
    PROVE  [Index!Next]_(Index!vars)
  <1>1. ASSUME NEW k \in Keys, ObserveFirst(k) PROVE Index!ObserveFirst(k)
    BY <1>1 DEF ObserveFirst, Index!ObserveFirst
  <1>2. ASSUME NEW k \in Keys, ObserveAgain(k) PROVE Index!ObserveAgain(k)
    <2>1. Index!Fits /\ k \in DOMAIN slots
      BY <1>2 DEF ObserveAgain
    <2>2. distance' = {active_count - tree_prefix_sum(SettledTree, Index!SettledSlots[k])}
      BY <1>2 DEF ObserveAgain
    <2> QED
      BY <1>2, <2>1, <2>2, TreeAnswers DEF ObserveAgain, Index!ObserveAgain
  <1>3. ASSUME NEW k \in Keys, ObserveFails(k) PROVE Index!ObserveFails(k)
    BY <1>3 DEF ObserveFails
  <1>4. CASE UNCHANGED vars
    BY <1>4 DEF vars, Index!vars, Index!config
  <1> QED
    BY <1>1, <1>2, <1>3, <1>4 DEF Next, Index!Next

LEMMA StepFInv ==
    ASSUME FInv, [Next]_vars
    PROVE  FInv'
  <1>1. IndexInv'
    BY StepOfIndex, IndexKeepsInv DEF FInv
  <1>2. ASSUME NEW k \in Keys, ObserveFirst(k)
        PROVE  Tallies(tree, DOMAIN slots, slots, capacity)'
    BY <1>2, SettleTallies DEF ObserveFirst
  <1>3. ASSUME NEW k \in Keys, ObserveAgain(k)
        PROVE  Tallies(tree, DOMAIN slots, slots, capacity)'
    BY <1>3, SettleTallies DEF ObserveAgain
  <1>4. ASSUME UNCHANGED <<tree, slots, capacity>>
        PROVE  Tallies(tree, DOMAIN slots, slots, capacity)'
    BY <1>4 DEF FInv, Tallies, Covered, Covers
  <1>5. ASSUME NEW k \in Keys, ObserveFails(k)
        PROVE  UNCHANGED <<tree, slots, capacity>>
    BY <1>5 DEF ObserveFails, Index!ObserveFails
  <1>6. (UNCHANGED vars) => UNCHANGED <<tree, slots, capacity>>
    BY DEF vars
  <1>7. Tallies(tree, DOMAIN slots, slots, capacity)'
    BY <1>2, <1>3, <1>4, <1>5, <1>6 DEF Next
  <1> QED
    BY <1>1, <1>7 DEF FInv

LEMMA InitFInv == Init => FInv
  <1> SUFFICES ASSUME Init PROVE FInv
    OBVIOUS
  <1>1. IndexInv
    BY IndexKeepsInv DEF Init
  <1>2. tree = [s \in 1..capacity |-> 0] /\ DOMAIN slots = {}
    BY DEF Init, Index!Init
  <1>3. \A s \in 1..capacity : Covered({}, slots, s) = {}
    BY DEF Covered
  <1>4. Tallies(tree, DOMAIN slots, slots, capacity)
    BY <1>2, <1>3, FS_EmptySet DEF Tallies
  <1> QED
    BY <1>1, <1>4 DEF FInv

LEMMA AlwaysFInv == Spec => []FInv
  <1>1. FInv /\ [Next]_vars => FInv'
    BY StepFInv
  <1> QED
    BY InitFInv, <1>1, PTL DEF Spec

-----------------------------------------------------------------------------
(* The tree has one sum for every slot of the storage, and no sum exceeds   *)
(* the population.                                                          *)
THEOREM TreeIsTyped == Spec => []TypeOK
  <1>1. FInv => TypeOK
    <2> SUFFICES ASSUME FInv PROVE TypeOK
      OBVIOUS
    <2>1. Index!TypeOK
      BY StepsAgree DEF FInv, IndexInv, IndexProof!IInv
    <2>2. tree = [s \in 1..capacity |-> tree[s]]
      BY DEF FInv, Tallies
    <2>3. ASSUME NEW s \in 1..capacity PROVE tree[s] \in 0..active_count
      <3>1. tree[s] = Cardinality(Covered(DOMAIN slots, slots, s))
        BY DEF FInv, Tallies
      <3>2. Covered(DOMAIN slots, slots, s) \in SUBSET DOMAIN slots
        BY DEF Covered
      <3> QED
        BY <3>1, <3>2, TableFacts, FS_Subset, FS_CardinalityType DEF FInv
    <2> QED
      BY <2>1, <2>2, <2>3 DEF TypeOK
  <1> QED
    BY <1>1, AlwaysFInv, PTL

(* Whatever is observed, and however often the index compacts, each partial *)
(* sum of the tree is the count of its own range of slots.                  *)
THEOREM TreeFollowsTable == Spec => []TreeSumsSlots
  <1>1. FInv => TreeSumsSlots
    <2> SUFFICES ASSUME FInv, NEW s \in 1..capacity
                 PROVE  tree[s] = Cardinality({k \in DOMAIN slots :
                                     slots[k] > s - LowBit[s] /\ slots[k] <= s})
      BY DEF TreeSumsSlots
    <2>1. tree[s] = Cardinality(Covered(DOMAIN slots, slots, s))
      BY DEF FInv, Tallies
    <2>2. s \in 1..MaxWord /\ MaxWord \in Nat
      BY TableFacts DEF FInv
    <2>3. LowBit[s] \in 1..s
      BY <2>2, LowBitBounds
    <2>4. ASSUME NEW k \in DOMAIN slots
          PROVE  slots[k] > s - LowBit[s] <=> s - LowBit[s] < slots[k]
      <3> DEFINE lower == s - LowBit[s]
      <3>1. lower \in Nat /\ slots[k] \in Nat
        BY <2>3, TableFacts DEF FInv
      <3> HIDE DEF lower
      <3>2. slots[k] > lower <=> lower < slots[k]
        BY <3>1
      <3> QED
        BY <3>2 DEF lower
    <2>5. Covered(DOMAIN slots, slots, s)
            = {k \in DOMAIN slots : slots[k] > s - LowBit[s] /\ slots[k] <= s}
      BY <2>4 DEF Covered, Covers
    <2> QED
      BY <2>1, <2>5
  <1> QED
    BY <1>1, AlwaysFInv, PTL

(* Neither assertion of update() can fire, in any reachable index and for   *)
(* any key observed next.                                                   *)
THEOREM AssertionsNeverFire == Spec => []UpdateAssertionsHold
  <1>1. FInv => UpdateAssertionsHold
    <2> SUFFICES ASSUME FInv, Index!Fits PROVE UpdateAssertionsHold
      BY DEF UpdateAssertionsHold
    <2> DEFINE S == Index!SettledSlots
               cap == Index!SettledCapacity
               next == Index!SettledNext
               D == DOMAIN slots
    <2>1. /\ MaxWord \in Nat /\ cap \in 0..MaxWord /\ next \in 1..cap
          /\ IsFiniteSet(D) /\ active_count = Cardinality(D) /\ Cardinality(D) \in Nat
          /\ \A k \in D : S[k] \in 1..cap
      BY SettledFacts, TableFacts, FS_CardinalityType DEF FInv
    <2>2. Tallies(SettledTree, D, S, cap)
      BY SettledTreeTallies
    <2>3. ASSUME NEW k \in D
          PROVE  Tallies(update(SettledTree, S[k], cap, -1), D \ {k}, S, cap)
      BY <2>3, WithoutTallies
    <2> HIDE DEF S, cap, next, D
    <2>4. UpdatePath(next, cap) \subseteq 1..cap
      BY <2>1, UpdatePathCovers
    <2>5. ASSUME NEW s \in 1..cap
          PROVE  SettledTree[s] \in Nat /\ SettledTree[s] <= active_count
      <3>1. SettledTree[s] = Cardinality(Covered(D, S, s))
        BY <2>2 DEF Tallies
      <3>2. Covered(D, S, s) \in SUBSET D
        BY DEF Covered
      <3> QED
        BY <2>1, <3>1, <3>2, FS_Subset, FS_CardinalityType
    <2>6. ASSUME NEW k \in D, NEW s \in UpdatePath(S[k], cap)
          PROVE  SettledTree[s] > 0
      <3>1. s \in 1..cap /\ Covers(s, S[k])
        BY <2>1, UpdatePathCovers
      <3>2. SettledTree[s] = Cardinality(Covered(D, S, s)) /\ k \in Covered(D, S, s)
        BY <2>2, <3>1 DEF Tallies, Covered
      <3>3. IsFiniteSet(Covered(D, S, s))
        BY <2>1, FS_Subset DEF Covered
      <3> QED
        BY <2>5, <3>1, <3>2, <3>3, FS_EmptySet
    <2>7. ASSUME NEW k \in D, NEW s \in 1..cap
          PROVE  update(SettledTree, S[k], cap, -1)[s] < active_count
      <3>1. update(SettledTree, S[k], cap, -1)[s] = Cardinality(Covered(D \ {k}, S, s))
        BY <2>3 DEF Tallies
      <3>2. IsFiniteSet(D \ {k}) /\ Cardinality(D \ {k}) = Cardinality(D) - 1
        BY <2>1, FS_RemoveElement
      <3>3. Covered(D \ {k}, S, s) \in SUBSET (D \ {k})
        BY DEF Covered
      <3>4. /\ Cardinality(Covered(D \ {k}, S, s)) <= Cardinality(D \ {k})
            /\ Cardinality(Covered(D \ {k}, S, s)) \in Nat
        BY <3>2, <3>3, FS_Subset, FS_CardinalityType
      <3> QED
        BY <2>1, <3>1, <3>2, <3>4
    <2>8. \A s \in UpdatePath(next, cap) : SettledTree[s] < active_count + 1
      BY <2>1, <2>4, <2>5
    <2>9. \A k \in D : \A s \in UpdatePath(next, cap) :
             update(SettledTree, S[k], cap, -1)[s] < active_count
      BY <2>4, <2>7
    <2> QED
      BY <2>6, <2>8, <2>9 DEF UpdateAssertionsHold, S, cap, next, D
  <1> QED
    BY <1>1, AlwaysFInv, PTL

(* The index with its tree implements the index that counts slots directly, *)
(* and so, by IndexRefinesOrder, the recency order: walks over partial sums *)
(* give the distance, compaction or not.                                    *)
THEOREM TreeRefinesIndex == Spec => RefinesIndex
  <1>1. Init => Index!Init
    BY DEF Init
  <1>2. FInv /\ [Next]_vars => [Index!Next]_(Index!vars)
    BY StepOfIndex
  <1> QED
    BY <1>1, <1>2, AlwaysFInv, PTL DEF Spec, RefinesIndex, Index!Spec

(* End to end: observing through the tree answers, step by step, with the   *)
(* number of distinct keys observed since, as the recency order defines it. *)
THEOREM TreeAnswersByRecency == Spec => IndexProof!RefinesOrder
  <1>1. Init => IndexProof!Init
    BY StepsAgree DEF Init
  <1>2. FInv /\ [Next]_vars => [IndexProof!Next]_(IndexProof!vars)
    BY StepOfIndex, StepsAgree
  <1>3. IndexProof!Spec => IndexProof!RefinesOrder
    BY AssumptionHolds, IndexProof!IndexRefinesOrder
  <1> QED
    BY <1>1, <1>2, <1>3, AlwaysFInv, PTL DEF Spec, IndexProof!Spec
=============================================================================
