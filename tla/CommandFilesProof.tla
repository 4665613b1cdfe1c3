---------------------------- MODULE CommandFilesProof ----------------------------
(***************************************************************************)
(* Theorems about the files of a command.  Reading a cache configuration,  *)
(* for every document, word size and byte unit: ReadInv says that what was *)
(* read is what the document has, as far as it was read.  ValidInv says of *)
(* every check that was passed what it means for the caches as a whole,    *)
(* and of the walk that is under way that every set of caches feeding      *)
(* itself that its first cache is in contains the cache it is at, so that  *)
(* a walk that comes to memory began in none.                              *)
(*                                                                         *)
(* Publishing documents, for every number of them: none of the promises is *)
(* inductive, as whether a backup is still there depends on how far the    *)
(* publish loop, the rollback and the clean-up have got.  PublicationInv   *)
(* says that, one conjunct per concern.                                    *)
(***************************************************************************)
EXTENDS CacheConfiguration, ArtifactPublish, FiniteSetTheorems, TLAPS

-----------------------------------------------------------------------------
(* Powers of two, counted as sets of subsets.                               *)
LEMMA SubsetsOfBoth ==
    ASSUME NEW A, NEW B, A \cap B = {}
    PROVE  ExistsBijection((SUBSET A) \X (SUBSET B), SUBSET (A \cup B))
  <1> DEFINE Pairs == (SUBSET A) \X (SUBSET B)
             f == [p \in Pairs |-> p[1] \cup p[2]]
  <1>1. f \in [Pairs -> SUBSET (A \cup B)]
    OBVIOUS
  <1>2. \A p \in Pairs : p = <<p[1], p[2]>> /\ p[1] \subseteq A /\ p[2] \subseteq B
    OBVIOUS
  <1>9. \A p \in Pairs : p[1] = f[p] \cap A /\ p[2] = f[p] \cap B
    <2> SUFFICES ASSUME NEW p \in Pairs PROVE p[1] = f[p] \cap A /\ p[2] = f[p] \cap B
      OBVIOUS
    <2>1. f[p] = p[1] \cup p[2]
      OBVIOUS
    <2> QED
      BY <1>2, <2>1, Zenon
  <1>3. \A p, q \in Pairs : f[p] = f[q] => p = q
    <2> SUFFICES ASSUME NEW p \in Pairs, NEW q \in Pairs, f[p] = f[q] PROVE p = q
      OBVIOUS
    <2> HIDE DEF f
    <2>1. /\ p[1] = f[p] \cap A /\ q[1] = f[q] \cap A
          /\ p[2] = f[p] \cap B /\ q[2] = f[q] \cap B
      BY <1>9, Zenon
    <2>2. p = <<p[1], p[2]>> /\ q = <<q[1], q[2]>>
      BY <1>2
    <2>3. <<p[1], p[2]>> = <<q[1], q[2]>>
      BY <2>1, f[p] = f[q], Zenon
    <2> QED
      BY <2>2, <2>3, Zenon
  <1>4. ASSUME NEW T \in SUBSET (A \cup B) PROVE \E p \in Pairs : f[p] = T
    <2>1. <<T \cap A, T \cap B>> \in Pairs /\ f[<<T \cap A, T \cap B>>] = (T \cap A) \cup (T \cap B)
      OBVIOUS
    <2> QED
      BY <2>1
  <1>5. f \in Bijection(Pairs, SUBSET (A \cup B))
    BY <1>1, <1>3, <1>4 DEF Bijection, Injection, Surjection, IsInjective
  <1> QED
    BY <1>5 DEF ExistsBijection

LEMMA PowerOfSum ==
    ASSUME NEW a \in Nat, NEW b \in Nat
    PROVE  2 ^ (a + b) = 2 ^ a * 2 ^ b
  <1> DEFINE A == 1 .. a  B == a + 1 .. a + b
  <1>1. IsFiniteSet(A) /\ Cardinality(A) = a /\ IsFiniteSet(B) /\ Cardinality(B) = b
    BY FS_Interval
  <1>2. A \cap B = {} /\ A \cup B = 1 .. a + b
    <2>1. \A n : n \in A <=> n \in Int /\ 1 <= n /\ n <= a
      OBVIOUS
    <2>2. \A n : n \in B <=> n \in Int /\ a < n /\ n <= a + b
      OBVIOUS
    <2>3. \A n : n \in 1 .. a + b <=> n \in Int /\ 1 <= n /\ n <= a + b
      OBVIOUS
    <2> HIDE DEF A, B
    <2>4. \A n \in Int : /\ ~(n <= a /\ a < n)
                         /\ 1 <= n /\ n <= a + b <=> (1 <= n /\ n <= a) \/ (a < n /\ n <= a + b)
      OBVIOUS
    <2> QED
      BY <2>1, <2>2, <2>3, <2>4, Zenon
  <1> HIDE DEF A, B
  <1>3. IsFiniteSet(A \cup B) /\ Cardinality(A \cup B) = a + b
    <2>1. \A n \in Nat : IsFiniteSet(1 .. n) /\ Cardinality(1 .. n) = n
      BY FS_Interval
    <2>2. a + b \in Nat
      OBVIOUS
    <2> QED
      BY <1>2, <2>1, <2>2, Zenon
  <1>4. /\ IsFiniteSet(SUBSET A) /\ Cardinality(SUBSET A) = 2 ^ a
        /\ IsFiniteSet(SUBSET B) /\ Cardinality(SUBSET B) = 2 ^ b
        /\ Cardinality(SUBSET (A \cup B)) = 2 ^ (a + b)
    BY <1>1, <1>3, FS_SUBSET
  <1> DEFINE P == (SUBSET A) \X (SUBSET B)
  <1>5. IsFiniteSet(P) /\ Cardinality(P) = 2 ^ a * 2 ^ b
    BY <1>4, FS_Product
  <1>6. ExistsBijection(P, SUBSET (A \cup B))
    BY <1>2, SubsetsOfBoth
  <1> HIDE DEF P
  <1> QED
    BY <1>4, <1>5, <1>6, FS_Bijection

LEMMA PowerExceeds ==
    ASSUME NEW k \in Nat
    PROVE  2 ^ k \in Nat /\ k < 2 ^ k
  <1> DEFINE S == 1 .. k  T == (SUBSET S) \ {{}}
             f == [i \in S |-> {i}]
  <1>1. IsFiniteSet(S) /\ Cardinality(S) = k
    BY FS_Interval
  <1>2. f \in Injection(S, T)
    BY DEF Injection, IsInjective
  <1> HIDE DEF S, f
  <1>3. IsFiniteSet(SUBSET S) /\ Cardinality(SUBSET S) = 2 ^ k
    BY <1>1, FS_SUBSET
  <1>4. Cardinality(SUBSET S) \in Nat
    BY <1>3, FS_CardinalityType
  <1>5. IsFiniteSet(T) /\ Cardinality(T) = 2 ^ k - 1
    BY <1>3, FS_RemoveElement
  <1> HIDE DEF T
  <1>6. k <= 2 ^ k - 1
    BY <1>1, <1>2, <1>5, FS_Injection
  <1> QED
    BY <1>3, <1>4, <1>6

LEMMA PowerGrows ==
    ASSUME NEW a \in Nat, NEW b \in Nat
    PROVE  a <= b <=> 2 ^ a <= 2 ^ b
  <1>1. ASSUME a <= b PROVE 2 ^ a <= 2 ^ b
    <2>1. b - a \in Nat /\ b = a + (b - a)
      BY <1>1
    <2>2. 2 ^ b = 2 ^ a * 2 ^ (b - a)
      BY <2>1, PowerOfSum
    <2>3. 2 ^ a \in Nat /\ 2 ^ (b - a) \in Nat /\ 2 ^ (b - a) > 0
      BY <2>1, PowerExceeds
    <2> DEFINE A == 2 ^ a  D == 2 ^ (b - a)
    <2> HIDE DEF A, D
    <2>4. A \in Nat /\ D \in Nat /\ D > 0 => A <= A * D
      BY Z3
    <2> QED
      BY <2>2, <2>3, <2>4 DEF A, D
  <1>2. ASSUME b < a PROVE 2 ^ b < 2 ^ a
    <2>1. a - b \in Nat /\ a = b + (a - b) /\ a - b > 0
      BY <1>2
    <2>2. 2 ^ a = 2 ^ b * 2 ^ (a - b)
      BY <2>1, PowerOfSum
    <2>3. 2 ^ b \in Nat /\ 2 ^ b > 0 /\ 2 ^ (a - b) \in Nat /\ 2 ^ (a - b) > 1
      BY <1>2, <2>1, PowerExceeds
    <2> DEFINE B == 2 ^ b  D == 2 ^ (a - b)
    <2> HIDE DEF B, D
    <2>4. B \in Nat /\ B > 0 /\ D \in Nat /\ D > 1 => B < B * D
      BY Z3
    <2> QED
      BY <2>2, <2>3, <2>4 DEF B, D
  <1>3. 2 ^ a \in Nat /\ 2 ^ b \in Nat
    BY PowerExceeds
  <1> QED
    BY <1>1, <1>2, <1>3

LEMMA PowersArePowers ==
    ASSUME NEW k \in Nat
    PROVE  is_power_of_two(2 ^ k)
  <1>1. 2 ^ k \in Nat /\ k < 2 ^ k
    BY PowerExceeds
  <1>2. k \in 0 .. 2 ^ k /\ 2 ^ k # 0
    BY <1>1
  <1> QED
    BY <1>2 DEF is_power_of_two

\* A power of two that is a word has its exponent among the identifiers.
LEMMA IsPower ==
    ASSUME NEW n \in 0 .. MaxWord
    PROVE  is_power_of_two(n) <=> \E k \in 0 .. MaxId : n = 2 ^ k
  <1>1. ASSUME is_power_of_two(n) PROVE \E k \in 0 .. MaxId : n = 2 ^ k
    <2>1. PICK k \in 0 .. n : 2 ^ k = n
      BY <1>1 DEF is_power_of_two
    <2>2. k \in Nat /\ MaxId \in Nat
      BY WordAssumption
    <2>3. 2 ^ k < 2 ^ MaxId /\ 2 ^ MaxId \in Nat /\ 2 ^ k \in Nat
      BY <2>1, <2>2, WordAssumption, PowerExceeds
    <2>4. k <= MaxId
      BY <2>2, <2>3, PowerGrows
    <2> QED
      BY <2>1, <2>2, <2>4
  <1>2. ASSUME NEW k \in 0 .. MaxId, n = 2 ^ k PROVE is_power_of_two(n)
    <2>1. k \in Nat
      BY WordAssumption
    <2> QED
      BY <1>2, <2>1, PowersArePowers
  <1> QED
    BY <1>1, <1>2

LEMMA Quotients ==
    /\ \A s, l \in Nat : l > 0 /\ s % l = 0 => s = l * (s \div l)
    /\ \A s, l \in Nat : l > 0 => s \div l \in Nat /\ s \div l <= s
    /\ \A l, c \in Nat : l > 0 => (l * c) % l = 0 /\ (l * c) \div l = c
  <1>1. \A s, l \in Nat : l > 0 /\ s % l = 0 => s = l * (s \div l)
    BY Z3
  <1>2. \A s, l \in Nat : l > 0 => s \div l \in Nat /\ s \div l <= s
    BY Z3
  <1>3. \A l, c \in Nat : l > 0 => (l * c) % l = 0 /\ (l * c) \div l = c
    BY Z3
  <1> QED
    BY <1>1, <1>2, <1>3, Zenon

\* The checks of a geometry, one after the other, say what its three powers are.
LEMMA GeometryIsSets ==
    ASSUME NEW cache, cache.size_bytes \in 0 .. MaxWord, cache.line_size \in 0 .. MaxWord,
           cache.associativity \in 0 .. MaxWord
    PROVE  GeometryFits(cache) <=> SetsOfLines(cache)
  <1> DEFINE s == cache.size_bytes  l == cache.line_size  w == cache.associativity
             c == s \div l
  <1>1. s \in Nat /\ l \in Nat /\ w \in Nat /\ s <= MaxWord /\ MaxWord \in Nat /\ MaxId \in Nat
    BY WordAssumption
  <1>2. ASSUME GeometryFits(cache) PROVE SetsOfLines(cache)
    <2>1. /\ l > 0 /\ s % l = 0
          /\ is_power_of_two(l) /\ is_power_of_two(c) /\ is_power_of_two(w)
          /\ w <= c
      BY <1>1, <1>2 DEF GeometryFits
    <2>2. s = l * c /\ c \in 0 .. MaxWord
      <3>1. s = l * c
        BY <1>1, <2>1, Quotients
      <3>2. c \in Nat /\ c <= s
        BY <1>1, <2>1, Quotients
      <3> HIDE DEF s, c
      <3> QED
        BY <1>1, <3>1, <3>2
    <2>3. PICK i \in 0 .. MaxId : l = 2 ^ i
      BY <2>1, IsPower
    <2>4. PICK j \in 0 .. MaxId : w = 2 ^ j
      BY <2>1, IsPower
    <2> HIDE DEF c
    <2>5. PICK m \in 0 .. MaxId : c = 2 ^ m
      BY <2>1, <2>2, IsPower
    <2> HIDE DEF s, l, w
    <2>6. i \in Nat /\ j \in Nat /\ m \in Nat
      BY <1>1
    <2>7. j <= m
      BY <2>1, <2>4, <2>5, <2>6, PowerGrows
    <2>8. s = 2 ^ (i + m)
      BY <2>2, <2>3, <2>5, <2>6, PowerOfSum
    <2>9. m - j \in 0 .. MaxId /\ i + m = i + j + (m - j)
      BY <1>1, <2>6, <2>7
    <2> QED
      BY <2>3, <2>4, <2>8, <2>9 DEF SetsOfLines, s, l, w
  <1>3. ASSUME SetsOfLines(cache) PROVE GeometryFits(cache)
    <2>1. PICK i \in 0 .. MaxId, j \in 0 .. MaxId, k \in 0 .. MaxId :
             l = 2 ^ i /\ w = 2 ^ j /\ s = 2 ^ (i + j + k)
      BY <1>3 DEF SetsOfLines
    <2>2. i \in Nat /\ j \in Nat /\ k \in Nat /\ j + k \in Nat /\ i + j + k = i + (j + k)
      BY <1>1
    <2>3. s = l * 2 ^ (j + k)
      BY <2>1, <2>2, PowerOfSum
    <2>4. 2 ^ (j + k) \in Nat /\ l > 0 /\ w > 0 /\ 2 ^ (j + k) > 0
      BY <2>1, <2>2, PowerExceeds
    <2>5. s % l = 0 /\ c = 2 ^ (j + k)
      <3> DEFINE p == 2 ^ (j + k)
      <3> HIDE DEF p
      <3>1. p \in Nat /\ s = l * p
        BY <2>3, <2>4 DEF p
      <3> HIDE DEF s, l
      <3> QED
        BY <1>1, <2>4, <3>1, Quotients DEF p
    <2>6. w <= c
      BY <2>1, <2>2, <2>5, PowerGrows
    <2>7. s # 0
      <3>1. s > 0
        BY <2>1, <2>2, PowerExceeds
      <3> QED
        BY <3>1
    <2>8. is_power_of_two(l) /\ is_power_of_two(c) /\ is_power_of_two(w)
      BY <2>1, <2>2, <2>5, PowersArePowers
    <2> QED
      BY <2>4, <2>5, <2>6, <2>7, <2>8, <1>1 DEF GeometryFits
  <1> QED
    BY <1>2, <1>3

-----------------------------------------------------------------------------
(* What the parts of a document hold, once they fit.                        *)
LEMMA BranchesBelow ==
    ASSUME NEW nodes, NEW node \in nodes
    PROVE  /\ node \in Below(nodes)
           /\ node.is = "map" => \A k \in DOMAIN node.f : node.f[k] \in Below(nodes)
           /\ node.is = "sequence" => \A i \in DOMAIN node.s : node.s[i] \in Below(nodes)
  <1>1. Branches(node) \subseteq Below(nodes) /\ nodes \subseteq Below(nodes)
    BY DEF Below
  <1>2. node.is = "map" => Branches(node) = {node.f[k] : k \in DOMAIN node.f}
    BY DEF Branches
  <1>3. node.is = "sequence" => Branches(node) = {node.s[i] : i \in DOMAIN node.s}
    BY DEF Branches
  <1> QED
    BY <1>1, <1>2, <1>3

LEMMA SequenceNodes ==
    ASSUME NEW node, IsNode(node), node.is = "sequence"
    PROVE  Len(node.s) \in Nat /\ DOMAIN node.s = 1 .. Len(node.s)
  BY DEF IsNode

Digits(node) == \A k \in DOMAIN node.f : node.f[k].is \in {"number", "bytes"} => node.f[k].n \in Nat

LEMMA RootHolds ==
    ASSUME document \in Documents, RootFits
    PROVE  /\ document.f.schema_version.n \in Nat /\ Cores.f.count.n \in Nat
           /\ Len(Mappings) \in Nat /\ DOMAIN Mappings = 1 .. Len(Mappings)
           /\ Len(Caches) \in Nat /\ DOMAIN Caches = 1 .. Len(Caches)
           /\ \A i \in DOMAIN Mappings : CoreFits(Mappings[i]) => Digits(Mappings[i])
           /\ \A i \in DOMAIN Caches : CacheFits(Caches[i]) => Digits(Caches[i])
  <1> DEFINE D1 == Below({document})  D2 == Below(D1)  D3 == Below(D2)  D4 == Below(D3)
  <1>1. /\ document.is = "map"
        /\ {"schema_version", "cores", "caches"} \subseteq DOMAIN document.f
        /\ document.f.schema_version.is = "number"
        /\ Cores.is = "map" /\ {"count", "mapping"} \subseteq DOMAIN Cores.f
        /\ Cores.f.count.is = "number"
        /\ Cores.f.mapping.is = "sequence" /\ document.f.caches.is = "sequence"
    BY DEF RootFits, RootKeys, MapFits, Legible
  <1>2. document \in {document}
    OBVIOUS
  <1>3. /\ document.f.schema_version \in D1 /\ Cores \in D1 /\ document.f.caches \in D1
    BY <1>1, <1>2, BranchesBelow DEF Cores
  <1>4. Cores.f.count \in D2 /\ Cores.f.mapping \in D2
    BY <1>1, <1>3, BranchesBelow
  <1>5. \A node \in D4 : IsNode(node)
    BY DocumentAssumption
  <1>6. D1 \subseteq D2 /\ D2 \subseteq D3 /\ D3 \subseteq D4
    BY BranchesBelow
  <1>7. \A i \in DOMAIN Mappings : Mappings[i] \in D3
    BY <1>1, <1>4, BranchesBelow DEF Mappings
  <1>8. \A i \in DOMAIN Caches : Caches[i] \in D2
    BY <1>1, <1>3, BranchesBelow DEF Caches
  <1>9. \A node \in D3 : node.is = "map" => \A k \in DOMAIN node.f : node.f[k] \in D4
    BY BranchesBelow
  <1> HIDE DEF D1, D2, D3, D4
  <1>10. /\ IsNode(document.f.schema_version) /\ IsNode(Cores.f.count)
         /\ IsNode(Cores.f.mapping) /\ IsNode(document.f.caches)
    BY <1>3, <1>4, <1>5, <1>6
  <1>11. document.f.schema_version.n \in Nat /\ Cores.f.count.n \in Nat
    BY <1>1, <1>10 DEF IsNode
  <1>12. /\ Len(Mappings) \in Nat /\ DOMAIN Mappings = 1 .. Len(Mappings)
         /\ Len(Caches) \in Nat /\ DOMAIN Caches = 1 .. Len(Caches)
    BY <1>1, <1>10, SequenceNodes DEF Mappings, Caches
  <1>13. \A node \in D3 : node.is = "map" => Digits(node)
    BY <1>5, <1>9 DEF Digits, IsNode
  <1>14. \A i \in DOMAIN Mappings : CoreFits(Mappings[i]) => Digits(Mappings[i])
    BY <1>7, <1>13 DEF CoreFits, Fits, MapFits
  <1>15. \A i \in DOMAIN Caches : CacheFits(Caches[i]) => Digits(Caches[i])
    BY <1>6, <1>8, <1>13 DEF CacheFits, Fits, MapFits
  <1> QED
    BY <1>11, <1>12, <1>14, <1>15

LEMMA CoreRead ==
    ASSUME NEW node, CoreFits(node), Digits(node)
    PROVE  /\ Parsed(node, CoreFields, <<>>) = [id |-> node.f.id.n, l1 |-> node.f.l1.t]
           /\ node.f.id.n \in Nat
  <1>1. /\ DOMAIN CoreFields = {"id", "l1"} /\ CoreFields["id"] = "id" /\ CoreFields["l1"] = "text"
    BY DEF CoreFields
  <1>2. DOMAIN node.f = {"id", "l1"}
    BY <1>1 DEF CoreFits, Fits, MapFits
  <1>3. node.f["id"].is = "number" /\ node.f.id.n \in Nat
    BY <1>1, <1>2 DEF CoreFits, Fits, Legible, Digits
  <1>4. Value("id", node.f["id"]) = node.f.id.n /\ Value("text", node.f["l1"]) = node.f.l1.t
    BY DEF Value
  <1>5. Parsed(node, CoreFields, <<>>)
           = [k \in {"id", "l1"} |-> Value(CoreFields[k], node.f[k])]
    BY <1>1, <1>2 DEF Parsed
  <1> QED
    BY <1>1, <1>3, <1>4, <1>5

Measured(cache) ==
    /\ cache.size_bytes \in 0 .. MaxWord /\ cache.line_size \in 0 .. MaxWord
    /\ cache.associativity \in 0 .. MaxWord
    /\ cache.private_to \subseteq Nat

LEMMA BytesAreWords ==
    ASSUME NEW node, IsByteQuantity(node), node.n \in Nat
    PROVE  byte_quantity(node) \in 0 .. MaxWord
  <1> DEFINE n == node.n  u == Units[Unit(node)]
  <1>1. n \in Nat /\ u \in Nat /\ u > 0 /\ MaxWord \in Nat /\ n <= MaxWord \div u
    BY WordAssumption DEF IsByteQuantity
  <1> HIDE DEF n, u
  <1>2. n * u \in 0 .. MaxWord
    BY <1>1, Z3
  <1> QED
    BY <1>2 DEF byte_quantity, n, u

LEMMA CacheRead ==
    ASSUME NEW node, CacheFits(node), Digits(node)
    PROVE  LET cache == Parsed(node, CacheFields, CacheDefaults)
           IN  /\ Measured(cache)
               /\ cache.size_bytes = byte_quantity(node.f.size_bytes)
  <1> DEFINE cache == Parsed(node, CacheFields, CacheDefaults)
  <1>1. /\ {"size_bytes", "line_size", "associativity", "private_to"} \subseteq DOMAIN CacheFields
        /\ CacheFields["size_bytes"] = "bytes" /\ CacheFields["line_size"] = "bytes"
        /\ CacheFields["associativity"] = "number" /\ CacheFields["private_to"] = "owner"
    BY DEF CacheFields
  <1>2. /\ CacheDefaults["line_size"] = DefaultLine /\ CacheDefaults["associativity"] = DefaultWays
        /\ CacheDefaults["private_to"] = {}
    BY DEF CacheDefaults
  <1>3. "size_bytes" \in DOMAIN node.f /\ \A k \in DOMAIN node.f : Legible(CacheFields[k], node.f[k])
    BY DEF CacheFits, Fits, MapFits
  <1>4. \A k \in DOMAIN CacheFields :
           cache[k] = IF k \in DOMAIN node.f THEN Value(CacheFields[k], node.f[k])
                                             ELSE CacheDefaults[k]
    BY DEF Parsed
  <1> HIDE DEF cache
  <1>5. \A k \in DOMAIN node.f : Legible("bytes", node.f[k]) =>
           Value("bytes", node.f[k]) = byte_quantity(node.f[k])
           /\ byte_quantity(node.f[k]) \in 0 .. MaxWord
    <2> SUFFICES ASSUME NEW k \in DOMAIN node.f, Legible("bytes", node.f[k])
                 PROVE  /\ Value("bytes", node.f[k]) = byte_quantity(node.f[k])
                        /\ byte_quantity(node.f[k]) \in 0 .. MaxWord
      OBVIOUS
    <2>1. IsByteQuantity(node.f[k]) /\ node.f[k].n \in Nat
      BY DEF Legible, Digits, IsByteQuantity
    <2> QED
      BY <2>1, BytesAreWords DEF Value
  <1>6. \A k \in DOMAIN node.f : Legible("number", node.f[k]) =>
           Value("number", node.f[k]) \in 0 .. MaxWord
    <2> SUFFICES ASSUME NEW k \in DOMAIN node.f, Legible("number", node.f[k])
                 PROVE  Value("number", node.f[k]) \in 0 .. MaxWord
      OBVIOUS
    <2>1. node.f[k].n \in Nat /\ node.f[k].n <= MaxWord
      BY DEF Legible, Digits
    <2> QED
      BY <2>1, WordAssumption DEF Value
  <1>7. \A k \in DOMAIN node.f : Legible("owner", node.f[k]) =>
           Value("owner", node.f[k]) \subseteq Nat
    BY DEF Legible, Value, Digits
  <1>8. cache["size_bytes"] = byte_quantity(node.f["size_bytes"])
    BY <1>1, <1>3, <1>4, <1>5
  <1>9. cache["size_bytes"] \in 0 .. MaxWord /\ cache["line_size"] \in 0 .. MaxWord
    BY <1>1, <1>2, <1>3, <1>4, <1>5, WordAssumption
  <1>10. cache["associativity"] \in 0 .. MaxWord
    BY <1>1, <1>2, <1>3, <1>4, <1>6, WordAssumption
  <1>11. cache["private_to"] \subseteq Nat
    BY <1>1, <1>2, <1>3, <1>4, <1>7
  <1> QED
    BY <1>8, <1>9, <1>10, <1>11 DEF Measured, cache

-----------------------------------------------------------------------------
(* What has been read of the document.                                      *)
AfterWalks == {"select", "accepted"}
AfterMapping == {"walks"} \cup AfterWalks
AfterNexts == {"mapping"} \cup AfterMapping
AfterNames == {"nexts"} \cup AfterNexts
AfterHead == {"names"} \cup AfterNames
AfterMemory == {"head"} \cup AfterHead
AfterCaches == {"memory"} \cup AfterMemory
AfterCores == {"caches"} \cup AfterCaches
AfterRoot == {"cores"} \cup AfterCores

\* Items of a part that are done.
Done(part, after, total) ==
    IF stage = part THEN index ELSE IF stage \in after THEN total ELSE 0

CoresDone == Done("cores", AfterCores, Len(Mappings))
CachesDone == Done("caches", AfterCaches, Len(Caches))

IsConfig ==
    config = [schema_version |-> config.schema_version, num_cores |-> config.num_cores,
              core_mappings |-> config.core_mappings, caches |-> config.caches,
              memory |-> config.memory]

ReadInv ==
    /\ document \in Documents /\ IsConfig
    /\ stage \in AfterRoot \cup {"root", "refused"} /\ index \in Nat
    /\ stage \in {"root", "cores"} => config.caches = <<>>
    /\ stage \in {"root", "cores", "caches", "memory"} => config.memory.name = ""
    /\ stage \in {"memory", "head"} => index = 0
    /\ stage = "root" => config.core_mappings = <<>> /\ index = 0
    /\ stage \in AfterRoot =>
          /\ RootFits
          /\ config.schema_version = document.f.schema_version.n
          /\ config.num_cores = Cores.f.count.n
          /\ CoresDone <= Len(Mappings)
          /\ config.core_mappings =
                [i \in 1 .. CoresDone |-> Parsed(Mappings[i], CoreFields, <<>>)]
          /\ \A i \in 1 .. CoresDone : CoreFits(Mappings[i])
          /\ CachesDone <= Len(Caches)
          /\ config.caches =
                [i \in 1 .. CachesDone |-> Parsed(Caches[i], CacheFields, CacheDefaults)]
          /\ \A i \in 1 .. CachesDone : CacheFits(Caches[i])

LEMMA FollowsFacts ==
    /\ Follows["cores"] = "caches" /\ Follows["caches"] = "memory"
    /\ Follows["names"] = "nexts" /\ Follows["nexts"] = "mapping"
    /\ Follows["mapping"] = "walks" /\ Follows["walks"] = "select"
  <1> DEFINE place(s) == CHOOSE i \in DOMAIN Stages : Stages[i] = s
  <1>1. /\ DOMAIN Stages = 1 .. 10 /\ Len(Stages) = 10
        /\ Stages[1] = "root" /\ Stages[2] = "cores" /\ Stages[3] = "caches"
        /\ Stages[4] = "memory" /\ Stages[5] = "head" /\ Stages[6] = "names"
        /\ Stages[7] = "nexts" /\ Stages[8] = "mapping" /\ Stages[9] = "walks"
        /\ Stages[10] = "select"
    BY DEF Stages
  <1>2. \A i \in 1 .. 10 : i = 1 \/ i = 2 \/ i = 3 \/ i = 4 \/ i = 5 \/ i = 6 \/ i = 7 \/ i = 8
                           \/ i = 9 \/ i = 10
    OBVIOUS
  <1>3. /\ place("cores") = 2 /\ place("caches") = 3 /\ place("names") = 6 /\ place("nexts") = 7
        /\ place("mapping") = 8 /\ place("walks") = 9
    BY <1>1, <1>2
  <1>4. {"cores", "caches", "names", "nexts", "mapping", "walks"} \subseteq
           {Stages[i] : i \in 1 .. Len(Stages) - 1}
    <2>1. {2, 3, 6, 7, 8, 9} \subseteq 1 .. Len(Stages) - 1
      BY <1>1
    <2> QED
      BY <1>1, <2>1
  <1>5. \A s \in {Stages[i] : i \in 1 .. Len(Stages) - 1} : Follows[s] = Stages[place(s) + 1]
    BY DEF Follows
  <1>6. /\ 2 + 1 = 3 /\ 3 + 1 = 4 /\ 6 + 1 = 7 /\ 7 + 1 = 8 /\ 8 + 1 = 9 /\ 9 + 1 = 10
    OBVIOUS
  <1> HIDE DEF place
  <1> QED
    BY <1>1, <1>3, <1>4, <1>5, <1>6

LEMMA LongerByOne ==
    ASSUME NEW n \in Nat, NEW s, s = [i \in 1 .. n |-> s[i]], NEW e
    PROVE  Append(s, e) = [i \in 1 .. n + 1 |-> IF i = n + 1 THEN e ELSE s[i]]
  <1> DEFINE S == {s[i] : i \in 1 .. n} \cup {e}
  <1>1. s \in Seq(S)
    <2>1. s \in [1 .. n -> S]
      OBVIOUS
    <2> HIDE DEF S
    <2> QED
      BY <2>1
  <1>2. Len(s) = n
    BY <1>1
  <1>3. e \in S
    OBVIOUS
  <1> HIDE DEF S
  <1> QED
    BY <1>1, <1>2, <1>3

Progress ==
    /\ stage = "cores" => CoresDone = index /\ CachesDone = 0
    /\ stage = "caches" => CoresDone = Len(Mappings) /\ CachesDone = index
    /\ stage \in AfterCaches => CoresDone = Len(Mappings) /\ CachesDone = Len(Caches)

LEMMA ProgressHolds == Progress /\ Progress'
  BY DEF Progress, CoresDone, CachesDone, Done, AfterCores, AfterCaches, AfterMemory, AfterHead,
         AfterNames, AfterNexts, AfterMapping, AfterWalks

LEMMA InitRead == ConfigurationInit => ReadInv
  <1> SUFFICES ASSUME NEW file \in Documents, Starts(file) PROVE ReadInv
    BY DEF ConfigurationInit
  <1>1. /\ document \in Documents /\ stage = "root" /\ index = 0
        /\ config.caches = <<>> /\ config.core_mappings = <<>> /\ config.memory.name = ""
        /\ IsConfig
    BY DEF Starts, IsConfig
  <1>2. "root" \notin AfterRoot
    BY DEF AfterRoot, AfterCores, AfterCaches,
           AfterMemory, AfterHead, AfterNames, AfterNexts, AfterMapping, AfterWalks
  <1>3. index \in Nat
    BY <1>1
  <1> QED
    BY <1>1, <1>2, <1>3, Zenon DEF ReadInv

\* Past the reading nothing that was read changes.
LEMMA ReadStays ==
    ASSUME ReadInv, UNCHANGED <<document, config>>, stage \in AfterCaches,
           stage' \in AfterMemory \cup {"refused"}, index' \in Nat, stage' = "head" => index' = 0
    PROVE  ReadInv'
  <1> USE DEF AfterRoot, AfterCores, AfterCaches, AfterMemory, AfterHead, AfterNames, AfterNexts,
              AfterMapping, AfterWalks
  <1>1. /\ stage \in AfterCaches /\ stage \in AfterRoot
        /\ CoresDone = Len(Mappings) /\ CachesDone = Len(Caches)
    BY ProgressHolds DEF Progress
  <1>2. stage' # "refused" => /\ stage' \in AfterCaches
                              /\ CoresDone' = Len(Mappings)' /\ CachesDone' = Len(Caches)'
    BY ProgressHolds DEF Progress
  <1>3. Mappings' = Mappings /\ Caches' = Caches /\ RootFits' = RootFits /\ Cores' = Cores
    BY DEF Mappings, Caches, Cores, RootFits
  <1>4. Len(Mappings)' = Len(Mappings) /\ Len(Caches)' = Len(Caches)
    BY <1>3
  <1> QED
    BY <1>1, <1>2, <1>3, <1>4 DEF ReadInv, IsConfig

LEMMA ReadStep == ReadInv /\ [ConfigurationNext]_configuration_vars => ReadInv'
  <1> SUFFICES ASSUME ReadInv, [ConfigurationNext]_configuration_vars PROVE ReadInv'
    OBVIOUS
  <1> USE DEF AfterRoot, AfterCores, AfterCaches, AfterMemory, AfterHead, AfterNames, AfterNexts,
              AfterMapping, AfterWalks
  <1>0. ASSUME document' = document
        PROVE  /\ Mappings' = Mappings /\ Caches' = Caches /\ RootFits' = RootFits
               /\ Cores' = Cores /\ Len(Mappings)' = Len(Mappings) /\ Len(Caches)' = Len(Caches)
    BY <1>0 DEF Mappings, Caches, Cores, RootFits
  <1>1. CASE ReadRoot
    <2>1. /\ stage = "root" /\ stage' = "cores" /\ RootFits /\ document' = document
          /\ index' = index /\ index = 0
          /\ config' = [config EXCEPT !.schema_version = document.f.schema_version.n,
                                      !.num_cores = Cores.f.count.n]
          /\ config.caches = <<>> /\ config.core_mappings = <<>> /\ config.memory.name = ""
      BY <1>1 DEF ReadRoot, Reading, ReadInv
    <2>2. /\ IsConfig' /\ config'.schema_version = document.f.schema_version.n
          /\ config'.num_cores = Cores.f.count.n /\ config'.caches = <<>>
          /\ config'.core_mappings = <<>> /\ config'.memory.name = ""
      BY <2>1 DEF IsConfig, ReadInv
    <2>3. CoresDone' = 0 /\ CachesDone' = 0
      BY <2>1, ProgressHolds DEF Progress
    <2>4. Len(Mappings) \in Nat /\ Len(Caches) \in Nat
      BY <2>1, RootHolds DEF ReadInv
    <2>5. <<>> = [i \in 1 .. 0 |-> Parsed(Mappings[i], CoreFields, <<>>)]
      OBVIOUS
    <2>6. <<>> = [i \in 1 .. 0 |-> Parsed(Caches[i], CacheFields, CacheDefaults)]
      OBVIOUS
    <2>7. 1 .. 0 = {} /\ \A n \in Nat : 0 <= n
      OBVIOUS
    <2> QED
      BY <1>0, <2>1, <2>2, <2>3, <2>4, <2>5, <2>6, <2>7 DEF ReadInv
  <1>2. CASE parse_core
    <2>1. /\ stage = "cores" /\ stage' = "cores" /\ document' = document
          /\ index < Len(Mappings) /\ index' = index + 1 /\ CoreFits(Mappings[index + 1])
          /\ config' = [config EXCEPT !.core_mappings =
                           Append(@, Parsed(Mappings[index + 1], CoreFields, <<>>))]
      BY <1>2 DEF parse_core, Reading
    <2>2. RootFits /\ index \in Nat /\ stage \in AfterRoot
      BY <2>1 DEF ReadInv
    <2>3. Len(Mappings) \in Nat /\ Len(Caches) \in Nat
      BY <2>2, RootHolds DEF ReadInv
    <2>4. CoresDone = index /\ CoresDone' = index + 1 /\ CachesDone = 0 /\ CachesDone' = 0
      BY <2>1, ProgressHolds DEF Progress
    <2>5. /\ IsConfig' /\ config'.schema_version = config.schema_version
          /\ config'.num_cores = config.num_cores /\ config'.caches = config.caches
          /\ config'.memory = config.memory
          /\ config'.core_mappings =
                Append(config.core_mappings, Parsed(Mappings[index + 1], CoreFields, <<>>))
      BY <2>1 DEF IsConfig, ReadInv
    <2>6. config.core_mappings = [i \in 1 .. index |-> Parsed(Mappings[i], CoreFields, <<>>)]
      BY <2>2, <2>4 DEF ReadInv
    <2>7. config.core_mappings = [i \in 1 .. index |-> config.core_mappings[i]]
      BY <2>6
    <2>8. config'.core_mappings = [i \in 1 .. index + 1 |->
             IF i = index + 1 THEN Parsed(Mappings[index + 1], CoreFields, <<>>)
                              ELSE config.core_mappings[i]]
      BY <2>2, <2>5, <2>7, LongerByOne
    <2>9. config'.core_mappings = [i \in 1 .. index + 1 |-> Parsed(Mappings[i], CoreFields, <<>>)]
      BY <2>2, <2>6, <2>8
    <2>10. \A i \in 1 .. index + 1 : CoreFits(Mappings[i])
      <3>1. \A i \in 1 .. index : CoreFits(Mappings[i])
        BY <2>2, <2>4, Zenon DEF ReadInv
      <3>2. \A i \in 1 .. index + 1 : i = index + 1 \/ i \in 1 .. index
        BY <2>2
      <3> QED
        BY <2>1, <3>1, <3>2, Zenon
    <2>11. index + 1 \in Nat /\ index + 1 <= Len(Mappings)
      BY <2>1, <2>2, <2>3
    <2> QED
      BY <1>0, <2>1, <2>2, <2>4, <2>5, <2>9, <2>10, <2>11, Zenon DEF ReadInv
  <1>3. CASE parse_cache
    <2>1. /\ stage = "caches" /\ stage' = "caches" /\ document' = document
          /\ index < Len(Caches) /\ index' = index + 1 /\ CacheFits(Caches[index + 1])
          /\ config' = [config EXCEPT !.caches =
                           Append(@, Parsed(Caches[index + 1], CacheFields, CacheDefaults))]
      BY <1>3 DEF parse_cache, Reading
    <2>2. RootFits /\ index \in Nat /\ stage \in AfterRoot
      BY <2>1 DEF ReadInv
    <2>3. Len(Mappings) \in Nat /\ Len(Caches) \in Nat
      BY <2>2, RootHolds DEF ReadInv
    <2>4. /\ CoresDone = Len(Mappings) /\ CoresDone' = Len(Mappings)'
          /\ CachesDone = index /\ CachesDone' = index + 1
      BY <2>1, ProgressHolds DEF Progress
    <2>5. /\ IsConfig' /\ config'.schema_version = config.schema_version
          /\ config'.num_cores = config.num_cores /\ config'.core_mappings = config.core_mappings
          /\ config'.memory = config.memory
          /\ config'.caches =
                Append(config.caches, Parsed(Caches[index + 1], CacheFields, CacheDefaults))
      BY <2>1 DEF IsConfig, ReadInv
    <2>6. config.caches = [i \in 1 .. index |-> Parsed(Caches[i], CacheFields, CacheDefaults)]
      BY <2>2, <2>4 DEF ReadInv
    <2>7. config.caches = [i \in 1 .. index |-> config.caches[i]]
      BY <2>6
    <2>8. config'.caches = [i \in 1 .. index + 1 |->
             IF i = index + 1 THEN Parsed(Caches[index + 1], CacheFields, CacheDefaults)
                              ELSE config.caches[i]]
      BY <2>2, <2>5, <2>7, LongerByOne
    <2>9. config'.caches = [i \in 1 .. index + 1 |-> Parsed(Caches[i], CacheFields, CacheDefaults)]
      BY <2>2, <2>6, <2>8
    <2>10. \A i \in 1 .. index + 1 : CacheFits(Caches[i])
      <3>1. \A i \in 1 .. index : CacheFits(Caches[i])
        BY <2>2, <2>4, Zenon DEF ReadInv
      <3>2. \A i \in 1 .. index + 1 : i = index + 1 \/ i \in 1 .. index
        BY <2>2
      <3> QED
        BY <2>1, <3>1, <3>2, Zenon
    <2>11. index + 1 \in Nat /\ index + 1 <= Len(Caches)
      BY <2>1, <2>2, <2>3
    <2> QED
      BY <1>0, <2>1, <2>2, <2>4, <2>5, <2>9, <2>10, <2>11, Zenon DEF ReadInv
  <1>4. CASE ReadMemory
    <2>1. /\ stage = "memory" /\ stage' = "head" /\ document' = document /\ index' = index
          /\ config' = [config EXCEPT !.memory =
                           Parsed(document.f.memory, MemoryFields, MemoryDefaults)]
      BY <1>4 DEF ReadMemory, Reading
    <2>2. /\ IsConfig' /\ config'.schema_version = config.schema_version
          /\ config'.num_cores = config.num_cores /\ config'.core_mappings = config.core_mappings
          /\ config'.caches = config.caches
      BY <2>1 DEF IsConfig, ReadInv
    <2>3. /\ CoresDone = Len(Mappings) /\ CoresDone' = Len(Mappings)'
          /\ CachesDone = Len(Caches) /\ CachesDone' = Len(Caches)'
      BY <2>1, ProgressHolds DEF Progress
    <2> QED
      BY <1>0, <2>1, <2>2, <2>3 DEF ReadInv
  <1>5. CASE ValidateHead
    BY <1>5, ReadStays DEF ValidateHead, Validating, ReadInv
  <1>6. CASE ValidateItem
    <2>1. /\ stage \in {"names", "nexts", "mapping"} /\ stage' = stage
          /\ UNCHANGED <<document, config>> /\ index' = index + 1
      BY <1>6 DEF ValidateItem, Validating
    <2>2. index \in Nat
      BY DEF ReadInv
    <2>3. index' \in Nat
      BY <2>1, <2>2
    <2> QED
      BY <2>1, <2>3, ReadStays
  <1>7. CASE Hop \/ WalkEnds
    <2>1. /\ stage = "walks" /\ stage' = stage
          /\ UNCHANGED <<document, config>> /\ (index' = index \/ index' = index + 1)
      BY <1>7 DEF Hop, WalkEnds, Validating
    <2>2. index \in Nat
      BY DEF ReadInv
    <2>3. index' \in Nat
      BY <2>1, <2>2
    <2> QED
      BY <2>1, <2>3, ReadStays
  <1>8. CASE NextPart
    <2>1. /\ index = Count /\ stage' = Follows[stage] /\ index' = 0
          /\ UNCHANGED <<document, config>>
      BY <1>8 DEF NextPart
    <2>2. CASE stage = "cores"
      <3>1. stage' = "caches" /\ index = Len(Mappings)
        BY <2>1, <2>2, FollowsFacts DEF Count
      <3>2. CoresDone = Len(Mappings) /\ CachesDone = 0 /\ CoresDone' = Len(Mappings)' /\ CachesDone' = 0
        BY <2>1, <2>2, <3>1, ProgressHolds DEF Progress
      <3> QED
        BY <1>0, <2>1, <2>2, <3>1, <3>2 DEF ReadInv, IsConfig
    <2>3. CASE stage = "caches"
      <3>1. stage' = "memory" /\ index = Len(Caches)
        BY <2>1, <2>3, FollowsFacts DEF Count
      <3>2. /\ CoresDone = Len(Mappings) /\ CachesDone = Len(Caches)
            /\ CoresDone' = Len(Mappings)' /\ CachesDone' = Len(Caches)'
        BY <2>1, <2>3, <3>1, ProgressHolds DEF Progress
      <3> QED
        BY <1>0, <2>1, <2>3, <3>1, <3>2 DEF ReadInv, IsConfig
    <2>4. CASE stage \in {"names", "nexts", "mapping", "walks"}
      BY <2>1, <2>4, FollowsFacts, ReadStays
    <2> QED
      BY <1>8, <2>2, <2>3, <2>4 DEF NextPart
  <1>9. CASE select_analysis_hierarchy
    BY <1>9, ReadStays DEF select_analysis_hierarchy, ReadInv
  <1>10. CASE Refuse
    BY <1>10 DEF Refuse, ReadInv, IsConfig
  <1>11. CASE UNCHANGED configuration_vars
    <2>1. UNCHANGED <<document, config, stage, index>>
      BY <1>11 DEF configuration_vars
    <2>2. CoresDone' = CoresDone /\ CachesDone' = CachesDone
      BY <1>0, <2>1 DEF CoresDone, CachesDone, Done
    <2> QED
      BY <1>0, <2>1, <2>2 DEF ReadInv, IsConfig
  <1> QED
    BY <1>1, <1>2, <1>3, <1>4, <1>5, <1>6, <1>7, <1>8, <1>9, <1>10, <1>11 DEF ConfigurationNext

\* A configuration that was read has numbers where there should be numbers.
Readable ==
    /\ Len(config.caches) \in Nat /\ DOMAIN config.caches = 1 .. Len(config.caches)
    /\ config.caches = [i \in 1 .. Len(config.caches) |-> config.caches[i]]
    /\ Len(config.core_mappings) \in Nat
    /\ DOMAIN config.core_mappings = 1 .. Len(config.core_mappings)
    /\ config.num_cores \in Nat
    /\ \A i \in DOMAIN config.caches : Measured(config.caches[i])
    /\ \A i \in DOMAIN config.core_mappings :
          LET mapping == config.core_mappings[i]
          IN  mapping.id \in Nat /\ mapping = [id |-> mapping.id, l1 |-> mapping.l1]

LEMMA ReadIsReadable ==
    ASSUME ReadInv, stage \in AfterCaches
    PROVE  /\ Readable
           /\ \A i \in DOMAIN config.caches :
                 config.caches[i].size_bytes = byte_quantity(Caches[i].f.size_bytes)
  <1> DEFINE m == Len(Mappings)  n == Len(Caches)
  <1>1. CoresDone = m /\ CachesDone = n /\ stage \in AfterRoot /\ stage \in AfterCores
    BY ProgressHolds DEF Progress, AfterRoot, AfterCores
  <1>2. /\ RootFits /\ document \in Documents /\ config.num_cores = Cores.f.count.n
        /\ config.core_mappings = [i \in 1 .. m |-> Parsed(Mappings[i], CoreFields, <<>>)]
        /\ \A i \in 1 .. m : CoreFits(Mappings[i])
        /\ config.caches = [i \in 1 .. n |-> Parsed(Caches[i], CacheFields, CacheDefaults)]
        /\ \A i \in 1 .. n : CacheFits(Caches[i])
    BY <1>1, Zenon DEF ReadInv
  <1>3. /\ config.num_cores \in Nat /\ m \in Nat /\ n \in Nat
        /\ \A i \in 1 .. m : Digits(Mappings[i])
        /\ \A i \in 1 .. n : Digits(Caches[i])
    BY <1>2, RootHolds
  <1> HIDE DEF m, n
  <1>4. /\ Len(config.caches) = n /\ DOMAIN config.caches = 1 .. n
        /\ Len(config.core_mappings) = m /\ DOMAIN config.core_mappings = 1 .. m
    <2>1. ASSUME NEW s, NEW k \in Nat, DOMAIN s = 1 .. k, s = [i \in 1 .. k |-> s[i]]
          PROVE  Len(s) = k
      <3>1. s \in Seq({s[i] : i \in 1 .. k})
        <4>1. s \in [1 .. k -> {s[i] : i \in 1 .. k}]
          BY <2>1
        <4> QED
          BY <4>1
      <3> QED
        BY <2>1, <3>1
    <2>2. /\ DOMAIN config.caches = 1 .. n /\ config.caches = [i \in 1 .. n |-> config.caches[i]]
          /\ DOMAIN config.core_mappings = 1 .. m
          /\ config.core_mappings = [i \in 1 .. m |-> config.core_mappings[i]]
      BY <1>2
    <2> QED
      BY <1>3, <2>1, <2>2
  <1>5. \A i \in 1 .. n : /\ Measured(config.caches[i])
                          /\ config.caches[i].size_bytes = byte_quantity(Caches[i].f.size_bytes)
    <2> SUFFICES ASSUME NEW i \in 1 .. n
                 PROVE  /\ Measured(config.caches[i])
                        /\ config.caches[i].size_bytes = byte_quantity(Caches[i].f.size_bytes)
      OBVIOUS
    <2>1. config.caches[i] = Parsed(Caches[i], CacheFields, CacheDefaults)
      BY <1>2
    <2> QED
      BY <1>2, <1>3, <2>1, CacheRead
  <1>6. \A i \in 1 .. m :
           /\ config.core_mappings[i] = [id |-> Mappings[i].f.id.n, l1 |-> Mappings[i].f.l1.t]
           /\ Mappings[i].f.id.n \in Nat
    <2> SUFFICES ASSUME NEW i \in 1 .. m
                 PROVE  /\ config.core_mappings[i] = [id |-> Mappings[i].f.id.n, l1 |-> Mappings[i].f.l1.t]
                        /\ Mappings[i].f.id.n \in Nat
      OBVIOUS
    <2>1. config.core_mappings[i] = Parsed(Mappings[i], CoreFields, <<>>)
      BY <1>2
    <2> QED
      BY <1>2, <1>3, <2>1, CoreRead
  <1>7. \A i \in 1 .. m : LET mapping == config.core_mappings[i]
                          IN  mapping.id \in Nat /\ mapping = [id |-> mapping.id, l1 |-> mapping.l1]
    <2> SUFFICES ASSUME NEW i \in 1 .. m
                 PROVE  LET mapping == config.core_mappings[i]
                        IN  mapping.id \in Nat /\ mapping = [id |-> mapping.id, l1 |-> mapping.l1]
      OBVIOUS
    <2> DEFINE mapping == config.core_mappings[i]  id == Mappings[i].f.id.n  l1 == Mappings[i].f.l1.t
    <2>1. mapping = [id |-> id, l1 |-> l1] /\ id \in Nat
      BY <1>6
    <2> HIDE DEF mapping, id, l1
    <2>2. mapping.id \in Nat /\ mapping = [id |-> mapping.id, l1 |-> mapping.l1]
      BY <2>1
    <2> QED
      BY <2>2 DEF mapping
  <1>8. config.caches = [i \in 1 .. n |-> config.caches[i]]
    BY <1>2
  <1> QED
    BY <1>3, <1>4, <1>5, <1>7, <1>8 DEF Readable

-----------------------------------------------------------------------------
(* What each check asks of an item, said without its turn.                  *)
UniqueNames(n) ==
    \A i, j \in 1 .. n : i # j => config.caches[i].name # config.caches[j].name

CacheSound(i) ==
    /\ config.caches[i].name \notin {"", Memory} /\ config.caches[i].role # ""
    /\ config.caches[i].next # ""
    /\ config.caches[i].private_to \subseteq 0 .. config.num_cores - 1
    /\ SetsOfLines(config.caches[i])

NextSound(i) == config.caches[i].next \in {Memory} \cup Names

UniqueIds(n) ==
    \A i, j \in 1 .. n : i # j => config.core_mappings[i].id # config.core_mappings[j].id

MappingSound(i) ==
    /\ config.core_mappings[i].id < config.num_cores
    /\ \E k \in DOMAIN config.caches :
          /\ config.caches[k].name = config.core_mappings[i].l1
          /\ config.caches[k].role = "L1"
          /\ config.caches[k].private_to = {config.core_mappings[i].id}

Closed(F) ==
    /\ F \subseteq DOMAIN config.caches
    /\ \A i \in F : \E j \in F : config.caches[i].next = config.caches[j].name

LEMMA FindsCache ==
    ASSUME Readable, UniqueNames(Len(config.caches)), NEW k \in DOMAIN config.caches
    PROVE  find_cache_config(config.caches[k].name) = config.caches[k]
  <1> DEFINE name == config.caches[k].name
             IsFirst(i) == /\ config.caches[i].name = name
                           /\ \A j \in 1 .. i - 1 : config.caches[j].name # name
  <1>1. \A i \in DOMAIN config.caches : config.caches[i].name = name => i = k
    BY DEF Readable, UniqueNames
  <1>2. \A j \in 1 .. k - 1 : config.caches[j].name # name
    <2>1. \A j \in 1 .. k - 1 : j \in DOMAIN config.caches /\ j # k
      BY DEF Readable
    <2> QED
      BY <1>1, <2>1
  <1> HIDE DEF name
  <1>3. k = CHOOSE i \in DOMAIN config.caches : IsFirst(i)
    BY <1>1, <1>2 DEF name
  <1> QED
    BY <1>3 DEF find_cache_config, name

LEMMA NameCheck ==
    ASSUME Readable, index \in Nat, index < Len(config.caches), UniqueNames(index)
    PROVE  NameFits <=> CacheSound(index + 1) /\ UniqueNames(index + 1)
  <1> DEFINE n == index + 1  item == config.caches[n]
             earlier == {config.caches[i].name : i \in 1 .. index}
  <1>1. n \in DOMAIN config.caches /\ Item = item
    BY DEF Readable, Item
  <1>2. NamesOf(SubSeq(config.caches, 1, index)) = earlier
    <2>1. config.caches \in Seq({config.caches[i] : i \in DOMAIN config.caches})
      <3> DEFINE c == config.caches  k == Len(config.caches)
      <3>2. c = [i \in 1 .. k |-> c[i]] /\ DOMAIN c = 1 .. k
        BY DEF Readable
      <3> HIDE DEF c, k
      <3>1. c \in [1 .. k -> {c[i] : i \in DOMAIN c}]
        BY <3>2
      <3> USE DEF c, k
      <3> QED
        BY <3>1 DEF Readable
    <2>2. /\ DOMAIN SubSeq(config.caches, 1, index) = 1 .. index
          /\ \A i \in 1 .. index : SubSeq(config.caches, 1, index)[i] = config.caches[i]
      BY <2>1
    <2> QED
      BY <2>2 DEF NamesOf
  <1>3. (\A core \in item.private_to : core < config.num_cores)
           <=> item.private_to \subseteq 0 .. config.num_cores - 1
    <2>1. item.private_to \subseteq Nat /\ config.num_cores \in Nat
      BY <1>1 DEF Readable, Measured
    <2> HIDE DEF item
    <2> QED
      BY <2>1
  <1>4. GeometryFits(item) <=> SetsOfLines(item)
    BY <1>1, GeometryIsSets DEF Readable, Measured
  <1>5. item.name \notin earlier <=> UniqueNames(n)
    <2>1. \A i \in 1 .. n : i \in 1 .. index \/ i = n
      OBVIOUS
    <2>2. \A i \in 1 .. index : i \in 1 .. n /\ i # n
      OBVIOUS
    <2> QED
      BY <2>1, <2>2 DEF UniqueNames
  <1> HIDE DEF n
  <1> QED
    BY <1>1, <1>2, <1>3, <1>4, <1>5, Zenon DEF NameFits, CacheSound, n

LEMMA MappingCheck ==
    ASSUME Readable, UniqueNames(Len(config.caches)), index \in Nat,
           index < Len(config.core_mappings), UniqueIds(index)
    PROVE  MappingFits <=> MappingSound(index + 1) /\ UniqueIds(index + 1)
  <1> DEFINE n == index + 1  mapping == config.core_mappings[n]
  <1>1. n \in DOMAIN config.core_mappings
    BY DEF Readable
  <1>2. (\A i \in 1 .. index : config.core_mappings[i].id # mapping.id) <=> UniqueIds(n)
    <2>1. \A i \in 1 .. n : i \in 1 .. index \/ i = n
      OBVIOUS
    <2>2. \A i \in 1 .. index : i \in 1 .. n /\ i # n
      OBVIOUS
    <2> QED
      BY <2>1, <2>2 DEF UniqueIds
  <1>3. (/\ mapping.l1 \in Names /\ find_cache_config(mapping.l1).role = "L1"
         /\ find_cache_config(mapping.l1).private_to = {mapping.id})
        <=> \E k \in DOMAIN config.caches :
               /\ config.caches[k].name = mapping.l1 /\ config.caches[k].role = "L1"
               /\ config.caches[k].private_to = {mapping.id}
    <2>1. mapping.l1 \in Names <=> \E k \in DOMAIN config.caches : config.caches[k].name = mapping.l1
      BY DEF Names, NamesOf
    <2>2. \A k \in DOMAIN config.caches : config.caches[k].name = mapping.l1
             => find_cache_config(mapping.l1) = config.caches[k]
      <3> SUFFICES ASSUME NEW k \in DOMAIN config.caches, config.caches[k].name = mapping.l1
                   PROVE  find_cache_config(mapping.l1) = config.caches[k]
        OBVIOUS
      <3>1. find_cache_config(config.caches[k].name) = config.caches[k]
        BY FindsCache
      <3> QED
        BY <3>1
    <2> HIDE DEF mapping
    <2> QED
      BY <2>1, <2>2
  <1> HIDE DEF n
  <1> QED
    BY <1>2, <1>3, Zenon DEF MappingFits, MappingSound, n

\* As many cores as numbers below n: each number once means every number, and
\* every number means each once.
EveryNumber(n, ids) == \A core \in 0 .. n - 1 : \E i \in 1 .. n : ids[i] = core
EachOnce(n, ids) == /\ \A i \in 1 .. n : ids[i] < n
                    /\ \A i, j \in 1 .. n : i # j => ids[i] # ids[j]

LEMMA EveryNumberOnce ==
    ASSUME NEW n \in Nat, NEW ids \in [1 .. n -> Nat]
    PROVE  EveryNumber(n, ids) <=> EachOnce(n, ids)
  <1> DEFINE S == 1 .. n  T == 0 .. n - 1
  <1>1. IsFiniteSet(S) /\ Cardinality(S) = n
    BY FS_Interval
  <1>2. IsFiniteSet(T) /\ Cardinality(T) = n
    <2>1. 0 \in Int /\ n - 1 \in Int
      OBVIOUS
    <2>2. IsFiniteSet(T) /\ Cardinality(T) = IF 0 > n - 1 THEN 0 ELSE n - 1 - 0 + 1
      BY <2>1, FS_Interval
    <2> QED
      BY <2>2
  <1>3. ASSUME \A core \in T : \E i \in S : ids[i] = core
        PROVE  /\ \A i \in S : ids[i] \in T
               /\ \A i, j \in S : i # j => ids[i] # ids[j]
    <2> DEFINE g == [core \in T |-> CHOOSE i \in S : ids[i] = core]
    <2>1. \A core \in T : g[core] \in S /\ ids[g[core]] = core
      BY <1>3
    <2>2. g \in [T -> S]
      BY <2>1
    <2> HIDE DEF g, S, T
    <2>3. g \in Injection(T, S)
      BY <2>1, <2>2 DEF Injection, IsInjective
    <2>4. g \in Surjection(T, S)
      BY <1>1, <1>2, <2>3, FS_Injection
    <2>5. \A i \in S : \E core \in T : g[core] = i
      BY <2>4 DEF Surjection
    <2> QED
      BY <2>1, <2>5
  <1>4. ASSUME \A i \in S : ids[i] \in T, \A i, j \in S : i # j => ids[i] # ids[j]
        PROVE  \A core \in T : \E i \in S : ids[i] = core
    <2> DEFINE f == [i \in S |-> ids[i]]
    <2>1. f \in [S -> T] /\ \A i \in S : f[i] = ids[i]
      BY <1>4
    <2> HIDE DEF f, S, T
    <2>2. f \in Injection(S, T)
      BY <1>4, <2>1 DEF Injection, IsInjective
    <2>3. f \in Surjection(S, T)
      BY <1>1, <1>2, <2>2, FS_Injection
    <2> QED
      BY <2>1, <2>3 DEF Surjection
  <1>5. \A i \in S : ids[i] \in T <=> ids[i] < n
    OBVIOUS
  <1> QED
    BY <1>3, <1>4, <1>5 DEF EveryNumber, EachOnce

LEMMA CoresMapped ==
    ASSUME Readable, MappingCountFits
    PROVE  (\A core \in 0 .. config.num_cores - 1 :
               \E i \in DOMAIN config.core_mappings : config.core_mappings[i].id = core)
           <=> /\ UniqueIds(Len(config.core_mappings))
               /\ \A i \in DOMAIN config.core_mappings :
                     config.core_mappings[i].id < config.num_cores
  <1> DEFINE n == config.num_cores  mappings == config.core_mappings
             ids == [i \in 1 .. n |-> mappings[i].id]
  <1>1. /\ n \in Nat /\ Len(mappings) = n /\ DOMAIN mappings = 1 .. n
        /\ \A i \in 1 .. n : ids[i] = mappings[i].id
    BY DEF Readable, MappingCountFits
  <1>2. ids \in [1 .. n -> Nat]
    BY <1>1 DEF Readable
  <1>3. UniqueIds(n) <=> \A i, j \in 1 .. n : i # j => ids[i] # ids[j]
    BY <1>1, Zenon DEF UniqueIds
  <1> HIDE DEF ids, n, mappings
  <1>4. EveryNumber(n, ids) <=> EachOnce(n, ids)
    BY <1>1, <1>2, EveryNumberOnce
  <1>5. (\A core \in 0 .. n - 1 : \E i \in DOMAIN mappings : mappings[i].id = core)
           <=> \A core \in 0 .. n - 1 : \E i \in 1 .. n : ids[i] = core
    BY <1>1
  <1>6. (\A i \in DOMAIN mappings : mappings[i].id < n) <=> \A i \in 1 .. n : ids[i] < n
    BY <1>1
  <1>7. (\A core \in 0 .. n - 1 : \E i \in DOMAIN mappings : mappings[i].id = core)
           <=> /\ UniqueIds(Len(mappings))
               /\ \A i \in DOMAIN mappings : mappings[i].id < n
    BY <1>1, <1>3, <1>4, <1>5, <1>6, Zenon DEF EveryNumber, EachOnce
  <1> QED
    BY <1>7 DEF n, mappings

-----------------------------------------------------------------------------
(* The whole of a configuration, from what each check asks.                 *)
Acyclic == \A F : Closed(F) => F = {}

AllFit ==
    /\ HeadFits
    /\ UniqueNames(Len(config.caches))
    /\ \A i \in DOMAIN config.caches : CacheSound(i) /\ NextSound(i)
    /\ MappingCountFits /\ UniqueIds(Len(config.core_mappings))
    /\ \A i \in DOMAIN config.core_mappings : MappingSound(i)
    /\ Acyclic

Selectable(i, j) ==
    /\ Analysed(config.caches[i], config.caches[j])
    /\ [id |-> 0, l1 |-> config.caches[i].name] \in
          {config.core_mappings[n] : n \in DOMAIN config.core_mappings}

LEMMA ChainsReachMemory ==
    ASSUME Readable
    PROVE  ReachesMemory <=>
              /\ UniqueNames(Len(config.caches))
              /\ \A i \in DOMAIN config.caches : NextSound(i) /\ config.caches[i].name # Memory
              /\ Memory # ""
              /\ Acyclic
  <1>1. DOMAIN config.caches = 1 .. Len(config.caches)
    BY DEF Readable
  <1>2. (\A i, j \in DOMAIN config.caches :
            i # j => config.caches[i].name # config.caches[j].name)
        <=> UniqueNames(Len(config.caches))
    BY <1>1, Zenon DEF UniqueNames
  <1>3. {config.caches[i].next : i \in DOMAIN config.caches} \subseteq Names \cup {Memory}
        <=> \A i \in DOMAIN config.caches : NextSound(i)
    BY DEF NextSound
  <1>4. Memory \notin Names \cup {""}
        <=> Memory # "" /\ \A i \in DOMAIN config.caches : config.caches[i].name # Memory
    BY DEF Names, NamesOf
  <1>5. (\A F \in (SUBSET DOMAIN config.caches) \ {{}} :
            \E i \in F : \A j \in F : config.caches[i].next # config.caches[j].name)
        <=> Acyclic
    BY DEF Acyclic, Closed
  <1> QED
    BY <1>2, <1>3, <1>4, <1>5, Zenon DEF ReachesMemory

LEMMA CoresApart ==
    ASSUME Readable, UniqueNames(Len(config.caches))
    PROVE  CoresAreApart <=>
              /\ MappingCountFits /\ UniqueIds(Len(config.core_mappings))
              /\ \A i \in DOMAIN config.core_mappings : MappingSound(i)
  <1> DEFINE caches == config.caches  mappings == config.core_mappings  n == config.num_cores
             Own(core, k, i) == /\ caches[k].private_to = {core} /\ caches[k].role = "L1"
                                /\ mappings[i] = [id |-> core, l1 |-> caches[k].name]
  <1>1. ASSUME CoresAreApart
        PROVE  /\ MappingCountFits /\ UniqueIds(Len(mappings))
               /\ \A i \in DOMAIN mappings : MappingSound(i)
    <2>1. PICK L1Of \in [0 .. n - 1 -> DOMAIN caches] :
             /\ \A core \in DOMAIN L1Of : \E i \in DOMAIN mappings : Own(core, L1Of[core], i)
             /\ Len(mappings) = n
      BY <1>1 DEF CoresAreApart
    <2>2. MappingCountFits
      BY <2>1 DEF MappingCountFits
    <2>3. \A core \in 0 .. n - 1 : \E k \in DOMAIN caches, i \in DOMAIN mappings : Own(core, k, i)
      BY <2>1
    <2>4. \A core \in 0 .. n - 1 : \E i \in DOMAIN mappings : mappings[i].id = core
      <3> SUFFICES ASSUME NEW core \in 0 .. n - 1
                   PROVE  \E i \in DOMAIN mappings : mappings[i].id = core
        OBVIOUS
      <3>1. PICK k \in DOMAIN caches, i \in DOMAIN mappings : Own(core, k, i)
        BY <2>3
      <3>2. mappings[i].id = core
        BY <3>1
      <3> QED
        BY <3>2
    <2>5. UniqueIds(Len(mappings)) /\ \A i \in DOMAIN mappings : mappings[i].id < n
      BY <2>2, <2>4, CoresMapped
    <2>6. ASSUME NEW i \in DOMAIN mappings PROVE MappingSound(i)
      <3>1. mappings[i].id \in 0 .. n - 1
        <4>1. mappings[i].id \in Nat /\ n \in Nat /\ mappings[i].id < n
          BY <2>5 DEF Readable
        <4> QED
          BY <4>1
      <3>2. PICK k \in DOMAIN caches, j \in DOMAIN mappings : Own(mappings[i].id, k, j)
        BY <2>3, <3>1
      <3>3. mappings[j].id = mappings[i].id
        BY <3>2
      <3>4. j = i
        BY <2>5, <3>3 DEF UniqueIds, Readable
      <3>5. mappings[i].l1 = caches[k].name
        BY <3>2, <3>4
      <3> QED
        BY <2>5, <3>2, <3>5 DEF MappingSound
    <2> QED
      BY <2>2, <2>5, <2>6
  <1>2. ASSUME MappingCountFits, UniqueIds(Len(mappings)), \A i \in DOMAIN mappings : MappingSound(i)
        PROVE  CoresAreApart
    <2>1. \A core \in 0 .. n - 1 : \E i \in DOMAIN mappings : mappings[i].id = core
      BY <1>2, CoresMapped DEF MappingSound
    <2>2. ASSUME NEW core \in 0 .. n - 1
          PROVE  \E k \in DOMAIN caches : \E i \in DOMAIN mappings : Own(core, k, i)
      <3>1. PICK i \in DOMAIN mappings : mappings[i].id = core
        BY <2>1
      <3>2. PICK k \in DOMAIN caches : /\ caches[k].name = mappings[i].l1 /\ caches[k].role = "L1"
                                       /\ caches[k].private_to = {mappings[i].id}
        BY <1>2 DEF MappingSound
      <3>3. mappings[i] = [id |-> mappings[i].id, l1 |-> mappings[i].l1]
        BY DEF Readable
      <3>4. Own(core, k, i)
        BY <3>1, <3>2, <3>3
      <3> QED
        BY <3>4
    <2> DEFINE L1Of == [core \in 0 .. n - 1 |->
                           CHOOSE k \in DOMAIN caches : \E i \in DOMAIN mappings : Own(core, k, i)]
    <2>3. /\ L1Of \in [0 .. n - 1 -> DOMAIN caches]
          /\ \A core \in DOMAIN L1Of : \E i \in DOMAIN mappings : Own(core, L1Of[core], i)
      BY <2>2
    <2> HIDE DEF L1Of
    <2>4. \A core \in DOMAIN L1Of :
             /\ caches[L1Of[core]].private_to = {core}
             /\ caches[L1Of[core]].role = "L1"
             /\ \E i \in DOMAIN mappings : mappings[i] = [id |-> core, l1 |-> caches[L1Of[core]].name]
      BY <2>3
    <2>5. Len(mappings) = n
      BY <1>2 DEF MappingCountFits
    <2> QED
      BY <2>3, <2>4, <2>5, Zenon DEF CoresAreApart
  <1> QED
    BY <1>1, <1>2

LEMMA SoundMeansFit ==
    ASSUME Readable
    PROVE  Sound <=> AllFit /\ \E i, j \in DOMAIN config.caches : Selectable(i, j)
  <1>1. ASSUME Sound PROVE AllFit /\ \E i, j \in DOMAIN config.caches : Selectable(i, j)
    <2>1. /\ config.schema_version = 1 /\ config.num_cores > 0
          /\ ReachesMemory /\ CoresAreApart
          /\ \A i \in DOMAIN config.caches :
                /\ SetsOfLines(config.caches[i])
                /\ config.caches[i].name # "" /\ config.caches[i].role # ""
                /\ config.caches[i].private_to \subseteq 0 .. config.num_cores - 1
          /\ \E i, j \in DOMAIN config.caches : Selectable(i, j)
      BY <1>1, Zenon DEF Sound, Selectable
    <2>2. /\ UniqueNames(Len(config.caches)) /\ Memory # "" /\ Acyclic
          /\ \A i \in DOMAIN config.caches : NextSound(i) /\ config.caches[i].name # Memory
      BY <2>1, ChainsReachMemory
    <2>3. /\ MappingCountFits /\ UniqueIds(Len(config.core_mappings))
          /\ \A i \in DOMAIN config.core_mappings : MappingSound(i)
      BY <2>1, <2>2, CoresApart
    <2>4. \A i \in DOMAIN config.caches : config.caches[i].next # ""
      BY <2>1, <2>2 DEF NextSound, Names, NamesOf
    <2>5. \A i \in DOMAIN config.caches : CacheSound(i) /\ NextSound(i)
      BY <2>1, <2>2, <2>4 DEF CacheSound
    <2>6. config.num_cores # 0
      <3>1. config.num_cores > 0
        BY <2>1, Zenon
      <3> QED
        BY <3>1
    <2>7. config.caches # <<>>
      <3>1. \E i \in DOMAIN config.caches : TRUE
        BY <2>1, Zenon
      <3> QED
        BY <3>1
    <2> QED
      BY <2>1, <2>2, <2>3, <2>5, <2>6, <2>7, Zenon DEF AllFit, HeadFits
  <1>2. ASSUME AllFit, \E i, j \in DOMAIN config.caches : Selectable(i, j) PROVE Sound
    <2>1. CoresAreApart
      BY <1>2, CoresApart DEF AllFit
    <2>2. ReachesMemory
      BY <1>2, ChainsReachMemory DEF AllFit, CacheSound, HeadFits
    <2>3. config.schema_version = 1 /\ config.num_cores # 0
      BY <1>2 DEF AllFit, HeadFits
    <2>4. config.num_cores > 0
      BY <2>3 DEF Readable
    <2> QED
      BY <1>2, <2>1, <2>2, <2>3, <2>4, Zenon DEF AllFit, CacheSound, Sound, Selectable
  <1> QED
    BY <1>1, <1>2

LEMMA SelectionCheck ==
    ASSUME Readable, AllFit
    PROVE  /\ SelectionFits <=> \E i, j \in DOMAIN config.caches : Selectable(i, j)
           /\ SelectionFits => Analysed(find_cache_config(L1.name), find_cache_config(L1.next))
  <1> DEFINE caches == config.caches  mappings == config.core_mappings
  <1>1. \A k \in DOMAIN caches : find_cache_config(caches[k].name) = caches[k]
    BY FindsCache DEF AllFit
  <1>2. PICK p \in DOMAIN mappings : mappings[p].id = 0
    <2>1. 0 \in 0 .. config.num_cores - 1
      <3>1. config.num_cores \in Nat /\ config.num_cores # 0
        BY DEF Readable, AllFit, HeadFits
      <3> QED
        BY <3>1
    <2>2. \A i \in DOMAIN mappings : mappings[i].id < config.num_cores
      BY DEF AllFit, MappingSound
    <2> QED
      BY <2>1, <2>2, CoresMapped DEF AllFit
  <1>3. \A i \in DOMAIN mappings : mappings[i].id = 0 => i = p
    BY <1>2 DEF AllFit, UniqueIds, Readable
  <1>4. PICK k \in DOMAIN caches : caches[k].name = mappings[p].l1 /\ caches[k].role = "L1"
                                   /\ caches[k].private_to = {0}
    BY <1>2 DEF AllFit, MappingSound
  <1>5. mappings[p] = [id |-> 0, l1 |-> caches[k].name]
    BY <1>2, <1>4 DEF Readable
  <1>6. L1 = caches[k]
    <2> DEFINE S == {config.core_mappings[i] : i \in DOMAIN config.core_mappings}
    <2>1. mappings[p] \in S /\ \A m \in S : m.id = 0 => m = mappings[p]
      BY <1>3
    <2> HIDE DEF S
    <2>2. (CHOOSE m \in S : m.id = 0) = mappings[p]
      BY <1>2, <2>1
    <2>3. L1 = find_cache_config((CHOOSE m \in S : m.id = 0).l1)
      BY DEF L1, S
    <2> QED
      BY <1>1, <1>4, <2>2, <2>3
  <1>7. \A i, j \in DOMAIN caches : i # j => caches[i].name # caches[j].name
    BY DEF AllFit, UniqueNames, Readable
  <1>8. \A i \in DOMAIN caches : caches[i].name # Memory
    BY DEF AllFit, CacheSound
  <1>9. ASSUME SelectionFits
        PROVE  /\ \E i, j \in DOMAIN caches : Selectable(i, j)
               /\ Analysed(find_cache_config(L1.name), find_cache_config(L1.next))
    <2>1. PICK j \in DOMAIN caches : caches[j].name = L1.next
      BY <1>6, <1>9 DEF SelectionFits, AllFit, NextSound, Names, NamesOf
    <2>2. find_cache_config(L1.next) = caches[j]
      BY <1>1, <2>1
    <2>3. Analysed(caches[k], caches[j])
      BY <1>4, <1>6, <1>9, <2>1, <2>2 DEF SelectionFits, Analysed
    <2>4. Selectable(k, j)
      BY <1>5, <2>3 DEF Selectable
    <2> QED
      BY <1>1, <1>6, <2>2, <2>3, <2>4
  <1>10. ASSUME NEW i \in DOMAIN caches, NEW j \in DOMAIN caches, Selectable(i, j)
         PROVE  SelectionFits
    <2>1. PICK q \in DOMAIN mappings : mappings[q] = [id |-> 0, l1 |-> caches[i].name]
      BY <1>10 DEF Selectable
    <2>2. mappings[q].id = 0 /\ mappings[q].l1 = caches[i].name
      BY <2>1
    <2>3. q = p /\ caches[i].name = caches[k].name
      BY <1>3, <1>4, <2>2
    <2>4. i = k
      BY <1>7, <2>3
    <2>5. Analysed(caches[k], caches[j])
      BY <1>10, <2>4 DEF Selectable
    <2>6. find_cache_config(L1.next) = caches[j]
      BY <1>1, <1>6, <2>5 DEF Analysed
    <2>7. L1.next # Memory
      BY <1>6, <1>8, <2>5 DEF Analysed
    <2> QED
      BY <1>6, <2>5, <2>6, <2>7 DEF SelectionFits, Analysed
  <1> QED
    BY <1>9, <1>10

-----------------------------------------------------------------------------
(* How far the checks have come, and what they have found.                  *)
NamesFit(n) == UniqueNames(n) /\ \A i \in 1 .. n : CacheSound(i)
NextsFit(n) == \A i \in 1 .. n : NextSound(i)
MappingsFit(n) == UniqueIds(n) /\ \A i \in 1 .. n : MappingSound(i)

\* No walk that has ended began in a cycle; the one under way, and what it has
\* left behind, are in every cycle that its first cache is in.
WalksFit ==
    /\ index <= Len(config.caches)
    /\ \A F : Closed(F) => \A i \in F : i > index
    /\ visited \subseteq Names
    /\ \A v \in visited : \E i \in DOMAIN config.caches :
          config.caches[i].name = v /\ config.caches[i].next \in visited \cup {current}
    /\ index < Len(config.caches) =>
          /\ current \in Names
          /\ \A F : Closed(F) /\ index + 1 \in F => \E j \in F : config.caches[j].name = current

ValidInv ==
    /\ stage \in {"root", "cores", "caches", "memory", "head", "names", "nexts", "mapping"} =>
          visited = {}
    /\ stage \in AfterHead => HeadFits
    /\ stage \in {"names", "nexts"} => index <= Len(config.caches)
    /\ stage = "mapping" => index <= Len(config.core_mappings)
    /\ \A n \in Nat :
          /\ \/ stage = "names" /\ n = index
             \/ stage \in AfterNames /\ n = Len(config.caches)
             => NamesFit(n)
          /\ \/ stage = "nexts" /\ n = index
             \/ stage \in AfterNexts /\ n = Len(config.caches)
             => NextsFit(n)
          /\ \/ stage = "mapping" /\ n = index
             \/ stage \in AfterMapping /\ n = Len(config.core_mappings)
             => MappingsFit(n)
    /\ stage \in AfterMapping => MappingCountFits
    /\ stage = "walks" => WalksFit
    /\ stage \in AfterWalks => Acyclic
    /\ stage = "accepted" =>
          /\ \E i, j \in DOMAIN config.caches : Selectable(i, j)
          /\ Analysed(find_cache_config(selected[1]), find_cache_config(selected[2]))
    /\ stage = "refused" => ~Sound

LEMMA FindingsStay ==
    ASSUME config' = config
    PROVE  /\ HeadFits' <=> HeadFits
           /\ MappingCountFits' <=> MappingCountFits
           /\ \A n : /\ NamesFit(n)' <=> NamesFit(n)
                     /\ NextsFit(n)' <=> NextsFit(n)
                     /\ MappingsFit(n)' <=> MappingsFit(n)
           /\ \A F : Closed(F)' <=> Closed(F)
           /\ Acyclic' <=> Acyclic
           /\ Sound' <=> Sound
           /\ Names' = Names /\ Memory' = Memory
  <1>1. Names' = Names /\ Memory' = Memory
    BY DEF Names, NamesOf, Memory
  <1>2. HeadFits' <=> HeadFits
    BY DEF HeadFits, Memory
  <1>3. MappingCountFits' <=> MappingCountFits
    BY DEF MappingCountFits
  <1>4. \A F : Closed(F)' <=> Closed(F)
    BY DEF Closed
  <1>5. Acyclic' <=> Acyclic
    BY DEF Acyclic, Closed
  <1>6. \A n : NamesFit(n)' <=> NamesFit(n)
    BY DEF NamesFit, UniqueNames, CacheSound, Memory, SetsOfLines
  <1>7. \A n : NextsFit(n)' <=> NextsFit(n)
    BY DEF NextsFit, NextSound, Names, NamesOf, Memory
  <1>8. \A n : MappingsFit(n)' <=> MappingsFit(n)
    BY DEF MappingsFit, UniqueIds, MappingSound
  <1>9. Sound' <=> Sound
    BY DEF Sound, ReachesMemory, CoresAreApart, SetsOfLines, Analysed, Names, NamesOf, Memory
  <1> QED
    BY <1>1, <1>2, <1>3, <1>4, <1>5, <1>6, <1>7, <1>8, <1>9

LEMMA InitValid == ConfigurationInit => ValidInv
  BY DEF ConfigurationInit, Starts, ValidInv, AfterHead, AfterNames, AfterNexts, AfterMapping,
         AfterWalks

LEMMA AllFitParts ==
    ASSUME ReadInv, ValidInv, stage \in AfterWalks
    PROVE  Readable /\ AllFit
  <1> USE DEF AfterHead, AfterNames, AfterNexts, AfterMapping, AfterWalks
  <1>1. Readable
    BY ReadIsReadable DEF AfterMemory, AfterCaches
  <1>2. Len(config.caches) \in Nat /\ Len(config.core_mappings) \in Nat
    BY <1>1 DEF Readable
  <1>3. /\ NamesFit(Len(config.caches)) /\ NextsFit(Len(config.caches))
        /\ MappingsFit(Len(config.core_mappings))
        /\ HeadFits /\ MappingCountFits /\ Acyclic
    BY <1>2, Zenon DEF ValidInv
  <1> QED
    BY <1>1, <1>3 DEF Readable, AllFit, NamesFit, NextsFit, MappingsFit

\* A refusal has found something that is wrong.
LEMMA RefusalIsDue ==
    ASSUME ReadInv, ValidInv, Refuse
    PROVE  ~Sound
  <1> USE DEF AfterHead, AfterNames, AfterNexts, AfterMapping, AfterWalks
  <1>1. CASE stage \in {"root", "cores"}
    <2>1. config.caches = <<>>
      BY <1>1 DEF ReadInv
    <2>2. DOMAIN config.caches = {}
      BY <2>1
    <2> QED
      BY <2>2, Zenon DEF Sound
  <1>2. CASE stage \in {"caches", "memory"}
    <2>1. Memory = ""
      BY <1>2 DEF ReadInv, Memory
    <2> QED
      BY <2>1 DEF Sound, ReachesMemory
  <1>3. ASSUME stage \in AfterMemory, Sound PROVE FALSE
    <2>1. Readable
      BY <1>3, ReadIsReadable DEF AfterCaches
    <2>2. AllFit /\ \E i, j \in DOMAIN config.caches : Selectable(i, j)
      BY <1>3, <2>1, SoundMeansFit
    <2> DEFINE K == Len(config.caches)  M == Len(config.core_mappings)
    <2>3. /\ K \in Nat /\ DOMAIN config.caches = 1 .. K
          /\ M \in Nat /\ DOMAIN config.core_mappings = 1 .. M
      BY <2>1 DEF Readable
    <2>4. index \in Nat
      BY DEF ReadInv
    <2>5. CASE stage = "head" /\ ~HeadFits
      BY <2>2, <2>5 DEF AllFit
    <2>6. CASE stage = "names" /\ index < K /\ ~NameFits
      <3>1. NamesFit(index)
        BY <2>4, <2>6, Zenon DEF ValidInv
      <3>2. ~(CacheSound(index + 1) /\ UniqueNames(index + 1))
        BY <2>1, <2>4, <2>6, <3>1, NameCheck DEF NamesFit
      <3>3. index + 1 \in DOMAIN config.caches
        BY <2>3, <2>4, <2>6
      <3>4. CacheSound(index + 1)
        BY <2>2, <3>3, Zenon DEF AllFit
      <3>5. UniqueNames(index + 1)
        <4>1. UniqueNames(K)
          BY <2>2, Zenon DEF AllFit
        <4>2. 1 .. index + 1 \subseteq 1 .. K
          BY <2>3, <2>4, <2>6
        <4> QED
          BY <4>1, <4>2, Zenon DEF UniqueNames
      <3> QED
        BY <3>2, <3>4, <3>5
    <2>7. CASE stage = "nexts" /\ index < K /\ ~NextFits
      <3>1. index + 1 \in DOMAIN config.caches
        BY <2>3, <2>4, <2>7
      <3>2. NextSound(index + 1)
        BY <2>2, <3>1, Zenon DEF AllFit
      <3> QED
        BY <2>7, <3>2, Zenon DEF NextFits, NextSound, Item
    <2>8. CASE stage = "mapping" /\ ~MappingCountFits
      BY <2>2, <2>8 DEF AllFit
    <2>9. CASE stage = "mapping" /\ index < M /\ ~MappingFits
      <3>1. MappingsFit(index)
        BY <2>4, <2>9, Zenon DEF ValidInv
      <3>2. ~(MappingSound(index + 1) /\ UniqueIds(index + 1))
        BY <2>1, <2>2, <2>4, <2>9, <3>1, MappingCheck DEF MappingsFit, AllFit
      <3>3. index + 1 \in DOMAIN config.core_mappings
        BY <2>3, <2>4, <2>9
      <3>4. MappingSound(index + 1)
        BY <2>2, <3>3, Zenon DEF AllFit
      <3>5. UniqueIds(index + 1)
        <4>1. UniqueIds(M)
          BY <2>2, Zenon DEF AllFit
        <4>2. 1 .. index + 1 \subseteq 1 .. M
          BY <2>3, <2>4, <2>9
        <4> QED
          BY <4>1, <4>2, Zenon DEF UniqueIds
      <3> QED
        BY <3>2, <3>4, <3>5
    <2>10. CASE stage = "walks" /\ index < K /\ Returned
      <3> DEFINE F == {i \in DOMAIN config.caches : config.caches[i].name \in visited}
      <3>1. WalksFit /\ current \in visited
        BY <2>10 DEF ValidInv, Returned
      <3>2. \A i, j \in DOMAIN config.caches : config.caches[i].name = config.caches[j].name => i = j
        BY <2>2, <2>3 DEF AllFit, UniqueNames
      <3>3. ASSUME NEW i \in F PROVE \E j \in F : config.caches[i].next = config.caches[j].name
        <4>1. PICK k \in DOMAIN config.caches : /\ config.caches[k].name = config.caches[i].name
                                                /\ config.caches[k].next \in visited \cup {current}
          BY <3>1 DEF WalksFit
        <4>2. config.caches[i].next \in visited
          BY <3>1, <3>2, <4>1
        <4>3. config.caches[i].next \in Names
          BY <3>1, <4>2 DEF WalksFit
        <4> QED
          BY <4>2, <4>3 DEF Names, NamesOf
      <3>4. Closed(F)
        BY <3>3 DEF Closed
      <3>5. F # {}
        <4>1. current \in Names
          BY <3>1 DEF WalksFit
        <4> QED
          BY <3>1, <4>1 DEF Names, NamesOf
      <3> HIDE DEF F
      <3> QED
        BY <2>2, <3>4, <3>5 DEF AllFit, Acyclic
    <2>11. CASE stage = "select" /\ ~SelectionFits
      BY <2>1, <2>2, <2>11, SelectionCheck
    <2> QED
      BY <1>3, <2>5, <2>6, <2>7, <2>8, <2>9, <2>10, <2>11 DEF Refuse, AfterMemory
  <1> QED
    BY <1>1, <1>2, <1>3 DEF Refuse, AfterMemory

LEMMA FitNext ==
    ASSUME NEW n \in Nat
    PROVE  /\ NamesFit(n + 1) <=> NamesFit(n) /\ CacheSound(n + 1) /\ UniqueNames(n + 1)
           /\ NextsFit(n + 1) <=> NextsFit(n) /\ NextSound(n + 1)
           /\ MappingsFit(n + 1) <=> MappingsFit(n) /\ MappingSound(n + 1) /\ UniqueIds(n + 1)
           /\ NamesFit(0) /\ NextsFit(0) /\ MappingsFit(0)
  <1>1. /\ \A i \in 1 .. n + 1 : i \in 1 .. n \/ i = n + 1
        /\ \A i \in 1 .. n : i \in 1 .. n + 1
        /\ n + 1 \in 1 .. n + 1 /\ 1 .. 0 = {}
    OBVIOUS
  <1>2. NamesFit(n + 1) <=> NamesFit(n) /\ CacheSound(n + 1) /\ UniqueNames(n + 1)
    BY <1>1, Zenon DEF NamesFit, UniqueNames
  <1>3. NextsFit(n + 1) <=> NextsFit(n) /\ NextSound(n + 1)
    BY <1>1, Zenon DEF NextsFit
  <1>4. MappingsFit(n + 1) <=> MappingsFit(n) /\ MappingSound(n + 1) /\ UniqueIds(n + 1)
    BY <1>1, Zenon DEF MappingsFit, UniqueIds
  <1>5. NamesFit(0) /\ NextsFit(0) /\ MappingsFit(0)
    BY <1>1, Zenon DEF NamesFit, UniqueNames, NextsFit, MappingsFit, UniqueIds
  <1> QED
    BY <1>2, <1>3, <1>4, <1>5, Zenon

LEMMA ItemStep ==
    ASSUME ReadInv, ValidInv, ValidateItem
    PROVE  ValidInv'
  <1> USE DEF AfterHead, AfterNames, AfterNexts, AfterMapping, AfterWalks
  <1>1. /\ stage \in {"names", "nexts", "mapping"} /\ stage' = stage /\ config' = config
        /\ visited' = visited /\ index' = index + 1
    BY DEF ValidateItem, Validating
  <1>2. Readable
    BY <1>1, ReadIsReadable DEF AfterMemory, AfterCaches
  <1>3. index \in Nat
    BY DEF ReadInv
  <1> DEFINE K == Len(config.caches)  M == Len(config.core_mappings)
  <1>4. K \in Nat /\ M \in Nat /\ K' = K /\ M' = M
    BY <1>1, <1>2 DEF Readable
  <1>5. /\ stage = "names" => NamesFit(index)
        /\ stage \in AfterNames => NamesFit(K)
        /\ stage = "nexts" => NextsFit(index)
        /\ stage \in AfterNexts => NextsFit(K)
        /\ stage = "mapping" => MappingsFit(index)
    BY <1>1, <1>3, <1>4, Zenon DEF ValidInv
  <1> HIDE DEF K, M
  <1>6. stage = "names" => index < K /\ NamesFit(index + 1)
    <2> SUFFICES ASSUME stage = "names" PROVE index < K /\ NamesFit(index + 1)
      OBVIOUS
    <2>1. index < K /\ NameFits
      BY DEF ValidateItem, Validating, K
    <2>2. CacheSound(index + 1) /\ UniqueNames(index + 1)
      BY <1>2, <1>3, <1>5, <2>1, NameCheck DEF NamesFit, K
    <2> QED
      BY <1>3, <1>5, <2>1, <2>2, FitNext
  <1>7. stage = "nexts" => index < K /\ NextsFit(index + 1)
    <2> SUFFICES ASSUME stage = "nexts" PROVE index < K /\ NextsFit(index + 1)
      OBVIOUS
    <2>1. index < K /\ NextFits
      BY DEF ValidateItem, Validating, K
    <2>2. NextSound(index + 1)
      BY <2>1, Zenon DEF NextFits, NextSound, Item
    <2> QED
      BY <1>3, <1>5, <2>1, <2>2, FitNext
  <1>8. stage = "mapping" => index < M /\ MappingsFit(index + 1)
    <2> SUFFICES ASSUME stage = "mapping" PROVE index < M /\ MappingsFit(index + 1)
      OBVIOUS
    <2>1. index < M /\ MappingFits
      BY DEF ValidateItem, Validating, M
    <2>2. UniqueNames(Len(config.caches))
      BY <1>5 DEF NamesFit, K
    <2>3. MappingSound(index + 1) /\ UniqueIds(index + 1)
      BY <1>2, <1>3, <1>5, <2>1, <2>2, MappingCheck DEF MappingsFit, M
    <2> QED
      BY <1>3, <1>5, <2>1, <2>3, FitNext
  <1>9. \A n : /\ NamesFit(n)' <=> NamesFit(n)
               /\ NextsFit(n)' <=> NextsFit(n)
               /\ MappingsFit(n)' <=> MappingsFit(n)
    BY <1>1, FindingsStay
  <1>10. HeadFits /\ HeadFits' /\ visited' = {}
    BY <1>1, FindingsStay DEF ValidInv
  <1>11. /\ stage = "names" => index' <= K /\ NamesFit(index + 1)
         /\ stage = "nexts" => index' <= K /\ NextsFit(index + 1)
         /\ stage = "mapping" => index' <= M /\ MappingsFit(index + 1)
    BY <1>1, <1>3, <1>4, <1>6, <1>7, <1>8
  <1>13. stage' \notin AfterMapping /\ stage' # "walks" /\ stage' \notin AfterWalks
         /\ stage' # "accepted" /\ stage' # "refused"
    BY <1>1
  <1>14. /\ stage' \in {"names", "nexts"} => index' <= Len(config'.caches)
         /\ stage' = "mapping" => index' <= Len(config'.core_mappings)
    BY <1>1, <1>11 DEF K, M
  <1>15. \A n \in Nat :
            /\ \/ stage' = "names" /\ n = index'
               \/ stage' \in AfterNames /\ n = Len(config'.caches)
               => NamesFit(n)'
            /\ \/ stage' = "nexts" /\ n = index'
               \/ stage' \in AfterNexts /\ n = Len(config'.caches)
               => NextsFit(n)'
            /\ \/ stage' = "mapping" /\ n = index'
               \/ stage' \in AfterMapping /\ n = Len(config'.core_mappings)
               => MappingsFit(n)'
    <2> SUFFICES ASSUME NEW n \in Nat
                 PROVE  /\ \/ stage' = "names" /\ n = index'
                           \/ stage' \in AfterNames /\ n = Len(config'.caches)
                           => NamesFit(n)'
                        /\ \/ stage' = "nexts" /\ n = index'
                           \/ stage' \in AfterNexts /\ n = Len(config'.caches)
                           => NextsFit(n)'
                        /\ \/ stage' = "mapping" /\ n = index'
                           \/ stage' \in AfterMapping /\ n = Len(config'.core_mappings)
                           => MappingsFit(n)'
      BY Zenon
    <2>1. /\ stage' = "names" /\ n = index' => NamesFit(n)
          /\ stage' = "nexts" /\ n = index' => NextsFit(n)
          /\ stage' = "mapping" /\ n = index' => MappingsFit(n)
      BY <1>1, <1>11
    <2>2. /\ stage' \in AfterNames /\ n = Len(config'.caches) => NamesFit(n)
          /\ stage' \in AfterNexts /\ n = Len(config'.caches) => NextsFit(n)
          /\ stage' \notin AfterMapping
      BY <1>1, <1>5 DEF K
    <2> QED
      BY <1>9, <2>1, <2>2, Zenon
  <1>16. /\ stage' \in {"root", "cores", "caches", "memory", "head", "names", "nexts", "mapping"} => visited' = {}
         /\ stage' \in AfterHead => HeadFits'
    BY <1>10
  <1> QED
    BY <1>13, <1>14, <1>15, <1>16, Zenon DEF ValidInv

\* Nothing that was found of the items changes in a walk or behind it.
LEMMA FoundStays ==
    ASSUME ReadInv, ValidInv, config' = config, stage \in AfterMapping, stage' \in AfterMapping,
           stage' = "walks" => WalksFit', stage' \in AfterWalks => Acyclic,
           stage' = "accepted" =>
              /\ \E i, j \in DOMAIN config'.caches : Selectable(i, j)'
              /\ Analysed(find_cache_config(selected[1]), find_cache_config(selected[2]))'
    PROVE  ValidInv'
  <1> USE DEF AfterHead, AfterNames, AfterNexts, AfterMapping, AfterWalks
  <1>1. Readable
    BY ReadIsReadable DEF AfterMemory, AfterCaches
  <1>2. Len(config.caches) \in Nat /\ Len(config.core_mappings) \in Nat
    BY <1>1 DEF Readable
  <1>3. /\ NamesFit(Len(config.caches)) /\ NextsFit(Len(config.caches))
        /\ MappingsFit(Len(config.core_mappings)) /\ HeadFits /\ MappingCountFits
    BY <1>2, Zenon DEF ValidInv
  <1>4. \A n \in Nat :
           /\ n = Len(config'.caches) => NamesFit(n)' /\ NextsFit(n)'
           /\ n = Len(config'.core_mappings) => MappingsFit(n)'
    BY <1>3, FindingsStay
  <1>5. HeadFits' /\ MappingCountFits' /\ (stage' \in AfterWalks => Acyclic')
    BY <1>3, FindingsStay
  <1>6. /\ stage' \notin {"root", "cores", "caches", "memory", "head", "names", "nexts", "mapping"}
        /\ stage' \in AfterNames /\ stage' \in AfterNexts /\ stage' \in AfterHead
        /\ stage' # "refused"
    OBVIOUS
  <1>7. /\ stage' # "names" /\ stage' # "nexts" /\ stage' # "mapping"
        /\ stage' \notin {"names", "nexts"}
    OBVIOUS
  <1> QED
    BY <1>4, <1>5, <1>6, <1>7, Zenon DEF ValidInv

LEMMA HopStep ==
    ASSUME ReadInv, ValidInv, Hop
    PROVE  ValidInv'
  <1> DEFINE caches == config.caches
  <1>1. /\ stage = "walks" /\ stage' = "walks" /\ index' = index /\ config' = config
        /\ index < Len(caches) /\ MoreToWalk
        /\ visited' = visited \cup {current} /\ current' = find_cache_config(current).next
    BY DEF Hop, Validating
  <1>2. Readable
    BY <1>1, ReadIsReadable DEF AfterMemory, AfterCaches, AfterHead, AfterNames, AfterNexts, AfterMapping
  <1>3. WalksFit
    BY <1>1 DEF ValidInv
  <1>4. Len(caches) \in Nat /\ DOMAIN caches = 1 .. Len(caches)
    BY <1>2 DEF Readable
  <1>5. NamesFit(Len(caches)) /\ NextsFit(Len(caches))
    BY <1>1, <1>4, Zenon DEF ValidInv, AfterNames, AfterNexts, AfterMapping
  <1>6. PICK k \in DOMAIN caches : caches[k].name = current
    BY <1>1, <1>3 DEF WalksFit, Names, NamesOf
  <1>7. find_cache_config(current) = caches[k]
    <2>1. find_cache_config(caches[k].name) = caches[k]
      BY <1>2, <1>5, FindsCache DEF NamesFit
    <2> QED
      BY <1>6, <2>1
  <1>8. caches[k].next = current' /\ current' \in Names
    BY <1>1, <1>4, <1>5, <1>7 DEF MoreToWalk, NextsFit, NextSound
  <1>9. \A i, j \in DOMAIN caches : caches[i].name = caches[j].name => i = j
    BY <1>4, <1>5 DEF NamesFit, UniqueNames
  <1>10. visited' \subseteq Names
    BY <1>1, <1>3 DEF WalksFit
  <1>11. \A v \in visited' : \E i \in DOMAIN caches :
            caches[i].name = v /\ caches[i].next \in visited' \cup {current'}
    <2>1. \A v \in visited : \E i \in DOMAIN caches :
             caches[i].name = v /\ caches[i].next \in visited \cup {current}
      BY <1>3 DEF WalksFit
    <2> QED
      BY <1>1, <1>6, <1>8, <2>1
  <1>12. ASSUME NEW F, Closed(F), index + 1 \in F
         PROVE  \E j \in F : caches[j].name = current'
    <2>1. PICK j \in F : caches[j].name = current
      BY <1>1, <1>3, <1>12 DEF WalksFit
    <2>2. j = k
      BY <1>6, <1>9, <1>12, <2>1 DEF Closed
    <2> QED
      BY <1>8, <1>12, <2>1, <2>2 DEF Closed
  <1>13. Names' = Names /\ \A F : Closed(F)' <=> Closed(F)
    BY <1>1, FindingsStay
  <1>14. index <= Len(caches) /\ \A F : Closed(F) => \A i \in F : i > index
    BY <1>3 DEF WalksFit
  <1>15. WalksFit'
    BY <1>1, <1>8, <1>10, <1>11, <1>12, <1>13, <1>14 DEF WalksFit
  <1> QED
    BY <1>1, <1>15, FoundStays DEF AfterMapping, AfterWalks

\* A walk that has come to memory began in no cycle.
LEMMA WalkEndsStep ==
    ASSUME ReadInv, ValidInv, WalkEnds
    PROVE  ValidInv'
  <1> DEFINE caches == config.caches
  <1>1. /\ stage = "walks" /\ stage' = "walks" /\ index' = index + 1 /\ config' = config
        /\ index < Len(caches) /\ ~MoreToWalk
        /\ visited' = {} /\ current' = StartAt(index + 1)
    BY DEF WalkEnds, Validating
  <1>2. Readable
    BY <1>1, ReadIsReadable DEF AfterMemory, AfterCaches, AfterHead, AfterNames, AfterNexts, AfterMapping
  <1>3. WalksFit
    BY <1>1 DEF ValidInv
  <1>4. Len(caches) \in Nat /\ DOMAIN caches = 1 .. Len(caches) /\ index \in Nat
    BY <1>2 DEF Readable, ReadInv
  <1>5. NamesFit(Len(caches)) /\ NextsFit(Len(caches))
    BY <1>1, <1>4, Zenon DEF ValidInv, AfterNames, AfterNexts, AfterMapping
  <1>6. PICK k \in DOMAIN caches : caches[k].name = current
    BY <1>1, <1>3 DEF WalksFit, Names, NamesOf
  <1>7. caches[k].next = Memory
    <2>1. find_cache_config(caches[k].name) = caches[k]
      BY <1>2, <1>5, FindsCache DEF NamesFit
    <2> QED
      BY <1>1, <1>6, <2>1 DEF MoreToWalk
  <1>8. \A i, j \in DOMAIN caches : caches[i].name = caches[j].name => i = j
    BY <1>4, <1>5 DEF NamesFit, UniqueNames
  <1>9. \A i \in DOMAIN caches : caches[i].name # Memory
    BY <1>4, <1>5 DEF NamesFit, CacheSound
  <1>10. ASSUME NEW F, Closed(F), index + 1 \in F
         PROVE  FALSE
    <2>1. PICK j \in F : caches[j].name = current
      BY <1>1, <1>3, <1>10 DEF WalksFit
    <2>2. j = k
      BY <1>6, <1>8, <1>10, <2>1 DEF Closed
    <2> QED
      BY <1>7, <1>9, <1>10, <2>1, <2>2 DEF Closed
  <1>11. \A F : Closed(F) => \A i \in F : i > index + 1
    <2> SUFFICES ASSUME NEW F, Closed(F), NEW i \in F PROVE i > index + 1
      OBVIOUS
    <2>1. i \in Nat /\ i > index /\ i # index + 1
      BY <1>3, <1>4, <1>10 DEF WalksFit, Closed
    <2> QED
      BY <1>4, <2>1
  <1>12. ASSUME index + 1 < Len(caches)
         PROVE  /\ current' \in Names
                /\ \A F : index + 1 + 1 \in F => \E j \in F : caches[j].name = current'
    <2>1. current' = caches[index + 1 + 1].name
      BY <1>1, <1>12 DEF StartAt
    <2>2. index + 1 + 1 \in DOMAIN caches
      BY <1>4, <1>12
    <2> QED
      BY <2>1, <2>2 DEF Names, NamesOf
  <1>13. Names' = Names /\ \A F : Closed(F)' <=> Closed(F)
    BY <1>1, FindingsStay
  <1>14. index + 1 <= Len(caches)
    BY <1>1, <1>4
  <1>15. WalksFit'
    BY <1>1, <1>11, <1>12, <1>13, <1>14 DEF WalksFit
  <1> QED
    BY <1>1, <1>15, FoundStays DEF AfterMapping, AfterWalks

\* Until the checks begin there is nothing to find.
LEMMA NothingFound ==
    ASSUME stage' \in {"root", "cores", "caches", "memory", "head"}, visited' = {}
    PROVE  ValidInv'
  <1>1. /\ stage' \notin AfterHead /\ stage' \notin AfterNames /\ stage' \notin AfterNexts
        /\ stage' \notin AfterMapping /\ stage' \notin AfterWalks
        /\ stage' # "names" /\ stage' # "nexts" /\ stage' # "mapping" /\ stage' # "walks"
        /\ stage' # "accepted" /\ stage' # "refused"
    BY DEF AfterHead, AfterNames, AfterNexts, AfterMapping, AfterWalks
  <1>2. stage' \notin {"names", "nexts"}
    BY <1>1
  <1> QED
    BY <1>1, <1>2, Zenon DEF ValidInv

LEMMA ReadingFindsNothing ==
    ASSUME ValidInv, ReadRoot \/ parse_core \/ parse_cache \/ ReadMemory
    PROVE  ValidInv'
  <1>1. /\ stage \in {"root", "cores", "caches", "memory"} /\ visited' = visited
        /\ stage' \in {"root", "cores", "caches", "memory", "head"}
    BY DEF ReadRoot, parse_core, parse_cache, ReadMemory, Reading
  <1>2. visited' = {}
    BY <1>1 DEF ValidInv
  <1> QED
    BY <1>1, <1>2, NothingFound

\* The checks of the names begin with nothing checked.
LEMMA HeadStep ==
    ASSUME ReadInv, ValidInv, ValidateHead
    PROVE  ValidInv'
  <1> USE DEF AfterHead, AfterNames, AfterNexts, AfterMapping, AfterWalks
  <1>1. /\ stage = "head" /\ stage' = "names" /\ config' = config /\ HeadFits
        /\ index' = index /\ visited' = visited
    BY DEF ValidateHead, Validating
  <1>2. index = 0 /\ visited' = {}
    BY <1>1 DEF ReadInv, ValidInv
  <1>3. Len(config.caches) \in Nat
    BY <1>1, ReadIsReadable DEF AfterMemory, AfterCaches, Readable
  <1>4. NamesFit(0)' /\ HeadFits'
    BY <1>1, FitNext, FindingsStay
  <1>5. \A n \in Nat : n = index' => NamesFit(n)'
    BY <1>1, <1>2, <1>4
  <1>6. index' <= Len(config'.caches)
    BY <1>1, <1>2, <1>3
  <1>7. stage' # "nexts" /\ stage' # "mapping" /\ stage' # "walks" /\ stage' # "accepted"
        /\ stage' # "refused" /\ stage' \notin AfterNames
    BY <1>1
  <1> QED
    BY <1>1, <1>2, <1>4, <1>5, <1>6, <1>7, Zenon DEF ValidInv

\* A part is followed by the next when all its items have been checked.
LEMMA NextPartStep ==
    ASSUME ReadInv, ValidInv, NextPart
    PROVE  ValidInv'
  <1> USE DEF AfterHead, AfterNames, AfterNexts, AfterMapping, AfterWalks
  <1>1. /\ stage \in {"cores", "caches", "names", "nexts", "mapping", "walks"}
        /\ stage = "mapping" => MappingCountFits
        /\ stage' = Follows[stage] /\ index' = 0 /\ index = Count
        /\ config' = config /\ visited' = visited
        /\ stage' = "walks" => current' = StartAt(0)
    BY DEF NextPart
  <1>2. CASE stage \in {"cores", "caches"}
    <2>1. stage' \in {"caches", "memory"}
      BY <1>1, <1>2, FollowsFacts
    <2>2. visited' = {}
      BY <1>1, <1>2 DEF ValidInv
    <2> QED
      BY <2>1, <2>2, NothingFound
  <1> DEFINE K == Len(config.caches)  M == Len(config.core_mappings)
  <1>3. ASSUME stage \in {"names", "nexts", "mapping", "walks"}
        PROVE  Readable /\ K \in Nat /\ M \in Nat /\ HeadFits
    BY <1>3, ReadIsReadable DEF AfterMemory, AfterCaches, Readable, ValidInv
  <1>4. \A n : /\ NamesFit(n)' <=> NamesFit(n)
               /\ NextsFit(n)' <=> NextsFit(n)
               /\ MappingsFit(n)' <=> MappingsFit(n)
    BY <1>1, FindingsStay
  <1>5. NextsFit(0) /\ MappingsFit(0)
    BY FitNext
  <1>6. CASE stage = "names"
    <2>1. stage' = "nexts" /\ index = K /\ visited' = {} /\ index' <= K
      BY <1>1, <1>3, <1>6, FollowsFacts DEF Count, ValidInv
    <2>2. NamesFit(K)
      BY <1>3, <1>6, <2>1, Zenon DEF ValidInv
    <2>3. HeadFits'
      BY <1>1, <1>3, <1>6, FindingsStay
    <2>4. \A n \in Nat : n = index' => NextsFit(n)'
      BY <1>1, <1>4, <1>5
    <2>5. \A n \in Nat : n = Len(config'.caches) => NamesFit(n)'
      BY <1>1, <1>4, <2>2
    <2>6. /\ stage' \notin AfterNexts /\ stage' \notin AfterMapping /\ stage' \notin AfterWalks
          /\ stage' # "names" /\ stage' # "mapping" /\ stage' # "walks" /\ stage' # "accepted"
          /\ stage' # "refused"
      BY <2>1
    <2> QED
      BY <1>1, <2>1, <2>3, <2>4, <2>5, <2>6, Zenon DEF ValidInv
  <1>7. CASE stage = "nexts"
    <2>1. stage' = "mapping" /\ index = K /\ visited' = {} /\ index' <= M
      BY <1>1, <1>3, <1>7, FollowsFacts DEF Count, ValidInv
    <2>2. NamesFit(K) /\ NextsFit(K)
      BY <1>3, <1>7, <2>1, Zenon DEF ValidInv
    <2>3. HeadFits'
      BY <1>1, <1>3, <1>7, FindingsStay
    <2>4. \A n \in Nat : n = index' => MappingsFit(n)'
      BY <1>1, <1>4, <1>5
    <2>5. \A n \in Nat : n = Len(config'.caches) => NamesFit(n)' /\ NextsFit(n)'
      BY <1>1, <1>4, <2>2
    <2>6. /\ stage' \notin AfterMapping /\ stage' \notin AfterWalks
          /\ stage' # "names" /\ stage' # "nexts" /\ stage' # "walks" /\ stage' # "accepted"
          /\ stage' # "refused" /\ stage' \notin {"names", "nexts"}
      BY <2>1
    <2> QED
      BY <1>1, <2>1, <2>3, <2>4, <2>5, <2>6, Zenon DEF ValidInv
  <1>8. CASE stage = "mapping"
    <2>1. stage' = "walks" /\ index = M /\ visited' = {} /\ current' = StartAt(0)
      BY <1>1, <1>8, FollowsFacts DEF Count, ValidInv
    <2>2. NamesFit(K) /\ NextsFit(K) /\ MappingsFit(M)
      BY <1>3, <1>8, <2>1, Zenon DEF ValidInv
    <2>3. HeadFits' /\ MappingCountFits'
      BY <1>1, <1>3, <1>8, FindingsStay
    <2>4. /\ \A n \in Nat : n = Len(config'.caches) => NamesFit(n)' /\ NextsFit(n)'
          /\ \A n \in Nat : n = Len(config'.core_mappings) => MappingsFit(n)'
      BY <1>1, <1>4, <2>2
    <2>5. DOMAIN config.caches = 1 .. K
      BY <1>3, <1>8 DEF Readable
    <2>6. \A F : Closed(F) => \A i \in F : i > 0
      BY <1>3, <1>8, <2>5 DEF Closed
    <2>7. ASSUME 0 < K
          PROVE  /\ current' \in Names
                 /\ \A F : 0 + 1 \in F => \E j \in F : config.caches[j].name = current'
      <3>1. current' = config.caches[1].name /\ 1 \in DOMAIN config.caches
        BY <1>3, <1>8, <2>1, <2>5, <2>7 DEF StartAt
      <3> QED
        BY <3>1 DEF Names, NamesOf
    <2>8. Names' = Names /\ \A F : Closed(F)' <=> Closed(F)
      BY <1>1, FindingsStay
    <2>9. WalksFit'
      BY <1>1, <1>3, <1>8, <2>1, <2>6, <2>7, <2>8 DEF WalksFit
    <2>10. /\ stage' \notin AfterWalks /\ stage' # "names" /\ stage' # "nexts"
           /\ stage' # "mapping" /\ stage' # "accepted" /\ stage' # "refused"
           /\ stage' \notin {"names", "nexts"}
      BY <2>1
    <2> QED
      BY <1>1, <2>1, <2>3, <2>4, <2>9, <2>10, Zenon DEF ValidInv
  <1>9. CASE stage = "walks"
    <2>1. stage' = "select" /\ index = K
      BY <1>1, <1>9, FollowsFacts DEF Count
    <2>2. \A F : Closed(F) => \A i \in F : i > K
      BY <1>9, <2>1 DEF ValidInv, WalksFit
    <2>3. DOMAIN config.caches = 1 .. K
      BY <1>3, <1>9 DEF Readable
    <2>4. Acyclic
      <3> SUFFICES ASSUME NEW F, Closed(F), NEW i \in F PROVE FALSE
        BY DEF Acyclic
      <3>1. i \in 1 .. K /\ i > K
        BY <2>2, <2>3 DEF Closed
      <3> QED
        BY <1>3, <1>9, <3>1
    <2> QED
      BY <1>1, <1>9, <2>1, <2>4, FoundStays
  <1> QED
    BY <1>1, <1>2, <1>6, <1>7, <1>8, <1>9

LEMMA SelectStep ==
    ASSUME ReadInv, ValidInv, select_analysis_hierarchy
    PROVE  ValidInv'
  <1> USE DEF AfterMapping, AfterWalks
  <1>1. /\ stage = "select" /\ stage' = "accepted" /\ config' = config /\ SelectionFits
        /\ selected' = <<L1.name, L1.next>>
    BY DEF select_analysis_hierarchy
  <1>2. Readable /\ AllFit
    BY <1>1, AllFitParts
  <1>3. /\ \E i, j \in DOMAIN config.caches : Selectable(i, j)
        /\ Analysed(find_cache_config(L1.name), find_cache_config(L1.next))
    BY <1>1, <1>2, SelectionCheck
  <1>4. \E i, j \in DOMAIN config'.caches : Selectable(i, j)'
    BY <1>1, <1>3 DEF Selectable, Analysed, Memory
  <1>5. Analysed(find_cache_config(selected[1]), find_cache_config(selected[2]))'
    <2>1. selected'[1] = L1.name /\ selected'[2] = L1.next
      BY <1>1
    <2>2. \A name : find_cache_config(name)' = find_cache_config(name)
      BY <1>1 DEF find_cache_config
    <2>3. /\ find_cache_config(selected[1])' = find_cache_config(L1.name)
          /\ find_cache_config(selected[2])' = find_cache_config(L1.next)
      BY <1>1, <2>1 DEF find_cache_config
    <2>4. \A l1, llc : Analysed(l1, llc)' <=> Analysed(l1, llc)
      BY <1>1 DEF Analysed, Memory
    <2> QED
      BY <1>1, <1>3, <2>3 DEF Analysed, Memory
  <1>6. Acyclic
    BY <1>2 DEF AllFit
  <1> QED
    BY <1>1, <1>4, <1>5, <1>6, FoundStays

LEMMA RefuseStep ==
    ASSUME ReadInv, ValidInv, Refuse
    PROVE  ValidInv'
  <1>1. stage' = "refused" /\ config' = config
    BY DEF Refuse
  <1>2. ~Sound'
    BY <1>1, RefusalIsDue, FindingsStay
  <1>3. /\ stage' \notin AfterHead /\ stage' \notin AfterNames /\ stage' \notin AfterNexts
        /\ stage' \notin AfterMapping /\ stage' \notin AfterWalks
        /\ stage' # "names" /\ stage' # "nexts" /\ stage' # "mapping" /\ stage' # "walks"
        /\ stage' # "accepted" /\ stage' \notin {"names", "nexts"}
        /\ stage' \notin {"root", "cores", "caches", "memory", "head", "names", "nexts",
                          "mapping"}
    BY <1>1 DEF AfterHead, AfterNames, AfterNexts, AfterMapping, AfterWalks
  <1> QED
    BY <1>2, <1>3, Zenon DEF ValidInv

LEMMA ValidStep == ReadInv /\ ValidInv /\ [ConfigurationNext]_configuration_vars => ValidInv'
  <1> SUFFICES ASSUME ReadInv, ValidInv, [ConfigurationNext]_configuration_vars
               PROVE  ValidInv'
    OBVIOUS
  <1>1. CASE UNCHANGED configuration_vars
    <2>1. /\ document' = document /\ config' = config /\ stage' = stage /\ index' = index
          /\ current' = current /\ visited' = visited /\ selected' = selected
      BY <1>1 DEF configuration_vars
    <2>2. /\ HeadFits' <=> HeadFits
          /\ MappingCountFits' <=> MappingCountFits
          /\ Acyclic' <=> Acyclic
          /\ Sound' <=> Sound
          /\ Names' = Names
          /\ \A F : Closed(F)' <=> Closed(F)
      BY <2>1, FindingsStay
    <2>3. \A n : /\ NamesFit(n)' <=> NamesFit(n)
                 /\ NextsFit(n)' <=> NextsFit(n)
                 /\ MappingsFit(n)' <=> MappingsFit(n)
      BY <2>1, FindingsStay
    <2>4. stage = "walks" => WalksFit'
      BY <2>1, <2>2 DEF ValidInv, WalksFit
    <2>5. stage = "accepted" =>
             /\ (\E i, j \in DOMAIN config.caches : Selectable(i, j))'
             /\ Analysed(find_cache_config(selected[1]), find_cache_config(selected[2]))'
      <3> SUFFICES ASSUME stage = "accepted"
                   PROVE  /\ (\E i, j \in DOMAIN config.caches : Selectable(i, j))'
                          /\ Analysed(find_cache_config(selected[1]),
                                      find_cache_config(selected[2]))'
        OBVIOUS
      <3>1. /\ \E i, j \in DOMAIN config.caches : Selectable(i, j)
            /\ Analysed(find_cache_config(selected[1]), find_cache_config(selected[2]))
        BY DEF ValidInv
      <3>2. /\ find_cache_config(selected[1])' = find_cache_config(selected[1])
            /\ find_cache_config(selected[2])' = find_cache_config(selected[2])
        BY <2>1 DEF find_cache_config
      <3> QED
        BY <2>1, <3>1, <3>2 DEF Selectable, Analysed, Memory
    <2>6. \A n \in Nat :
             /\ \/ stage' = "names" /\ n = index'
                \/ stage' \in AfterNames /\ n = Len(config'.caches)
                => NamesFit(n)'
             /\ \/ stage' = "nexts" /\ n = index'
                \/ stage' \in AfterNexts /\ n = Len(config'.caches)
                => NextsFit(n)'
             /\ \/ stage' = "mapping" /\ n = index'
                \/ stage' \in AfterMapping /\ n = Len(config'.core_mappings)
                => MappingsFit(n)'
      <3>1. \A n \in Nat :
               /\ \/ stage = "names" /\ n = index
                  \/ stage \in AfterNames /\ n = Len(config.caches)
                  => NamesFit(n)
               /\ \/ stage = "nexts" /\ n = index
                  \/ stage \in AfterNexts /\ n = Len(config.caches)
                  => NextsFit(n)
               /\ \/ stage = "mapping" /\ n = index
                  \/ stage \in AfterMapping /\ n = Len(config.core_mappings)
                  => MappingsFit(n)
        BY Zenon DEF ValidInv
      <3> QED
        BY <2>1, <2>3, <3>1
    <2> QED
      BY <2>1, <2>2, <2>4, <2>5, <2>6 DEF ValidInv
  <1>2. CASE ReadRoot \/ parse_core \/ parse_cache \/ ReadMemory
    BY <1>2, ReadingFindsNothing
  <1>3. CASE ValidateHead
    BY <1>3, HeadStep
  <1>4. CASE ValidateItem
    BY <1>4, ItemStep
  <1>5. CASE Hop
    BY <1>5, HopStep
  <1>6. CASE WalkEnds
    BY <1>6, WalkEndsStep
  <1>7. CASE NextPart
    BY <1>7, NextPartStep
  <1>8. CASE select_analysis_hierarchy
    BY <1>8, SelectStep
  <1>9. CASE Refuse
    BY <1>9, RefuseStep
  <1> QED
    BY <1>1, <1>2, <1>3, <1>4, <1>5, <1>6, <1>7, <1>8, <1>9 DEF ConfigurationNext

-----------------------------------------------------------------------------
\* A walk leaves no more caches behind it than there are.
LEMMA VisitedAreCaches ==
    ASSUME Readable, visited \subseteq Names
    PROVE  Cardinality(visited) <= Len(config.caches)
  <1> DEFINE K == Len(config.caches)  name == [i \in 1 .. K |-> config.caches[i].name]
  <1>1. K \in Nat /\ DOMAIN config.caches = 1 .. K
    BY DEF Readable
  <1>2. IsFiniteSet(1 .. K) /\ Cardinality(1 .. K) = K
    BY <1>1, FS_Interval
  <1>3. name \in Surjection(1 .. K, Names)
    BY <1>1 DEF Names, NamesOf, Surjection
  <1>4. IsFiniteSet(Names) /\ Cardinality(Names) <= K
    <2> HIDE DEF K, name
    <2> QED
      BY <1>2, <1>3, FS_Surjection
  <1>5. IsFiniteSet(visited) /\ Cardinality(visited) <= Cardinality(Names)
    BY <1>4, FS_Subset
  <1>6. Cardinality(visited) \in Nat /\ Cardinality(Names) \in Nat
    BY <1>4, <1>5, FS_CardinalityType
  <1> QED
    BY <1>1, <1>4, <1>5, <1>6

LEMMA WhatIsFoundIsSound == ReadInv /\ ValidInv => ConfigurationIsSound
  <1> SUFFICES ASSUME ReadInv, ValidInv PROVE ConfigurationIsSound
    OBVIOUS
  <1> USE DEF AfterMapping, AfterWalks
  <1>1. ASSUME stage = "accepted"
        PROVE  /\ Sound
               /\ \A i \in DOMAIN config.caches :
                     config.caches[i].size_bytes =
                        Caches[i].f.size_bytes.n * Units[Unit(Caches[i].f.size_bytes)]
               /\ Analysed(find_cache_config(selected[1]), find_cache_config(selected[2]))
    <2>1. Readable /\ AllFit
      BY <1>1, AllFitParts
    <2>2. Sound
      BY <1>1, <2>1, SoundMeansFit DEF ValidInv
    <2>3. \A i \in DOMAIN config.caches :
             config.caches[i].size_bytes = byte_quantity(Caches[i].f.size_bytes)
      BY <1>1, ReadIsReadable DEF AfterCaches, AfterMemory, AfterHead, AfterNames, AfterNexts
    <2> QED
      BY <1>1, <2>2, <2>3 DEF byte_quantity, ValidInv
  <1>2. ASSUME stage = "walks", index < Len(config.caches)
        PROVE  current \in Names /\ Cardinality(visited) <= Len(config.caches)
    <2>1. WalksFit
      BY <1>2 DEF ValidInv
    <2>2. Readable
      BY <1>2, ReadIsReadable DEF AfterCaches, AfterMemory, AfterHead, AfterNames, AfterNexts
    <2> QED
      BY <1>2, <2>1, <2>2, VisitedAreCaches DEF WalksFit
  <1>3. stage = "refused" => ~Sound
    BY DEF ValidInv
  <1> QED
    BY <1>1, <1>2, <1>3 DEF ConfigurationIsSound

\* Whatever documents there are, of any size and any shape a YAML file has: a
\* configuration that is analysed is sound, one that is refused is not, the sizes are
\* those written, and the walk that looks for cycles comes upon caches only, each at
\* most once (parse_cache_config, validate_cache_config, select_analysis_hierarchy).
THEOREM ConfigurationsAreSound == ConfigurationSpec => []ConfigurationIsSound
  <1>1. ConfigurationInit => ReadInv /\ ValidInv
    BY InitRead, InitValid
  <1>2. ReadInv /\ ValidInv /\ [ConfigurationNext]_configuration_vars => (ReadInv /\ ValidInv)'
    BY ReadStep, ValidStep
  <1> QED
    BY <1>1, <1>2, WhatIsFoundIsSound, PTL DEF ConfigurationSpec

-----------------------------------------------------------------------------
(* Publishing the documents of a command.                                   *)

\* How far publication has come.
Published ==
    /\ phase = "validate" => at = 1 /\ directory = {} /\ reported = {}
    /\ phase \in {"validate", "stage", "publish"} =>
         ~failing /\ published = {i \in Items : phase = "publish" /\ i < at}
    /\ phase = "rollback" => failing
    /\ N \in published => ~failing /\ published = Items
    /\ phase \in {"clean", "finish", "returned"} /\ ~failing => published = Items
    /\ phase = "threw" /\ ~failing /\ reported # {} => published = Items
    /\ phase = "returned" => ~failing

\* What the targets hold.
Targets ==
    \A i \in Items :
        /\ i \notin published => target[i] = initially[i]
        /\ i \in published /\ ~failing => target[i] = "new"
        /\ target[i] # "new" => target[i] = initially[i]

\* Which files have a backup.
Backups ==
    \A i \in Items :
        /\ i \in staged => i \in directory
        /\ phase = "publish" \/ (phase = "stage" /\ i < at) =>
             i \in directory /\ (initially[i] = "old" => i \in previous \cap has_previous)
        /\ i \in has_previous => initially[i] = "old"
        /\ i \in published /\ initially[i] = "old" => i \in has_previous
        /\ i \in published /\ initially[i] = "old" /\ target[i] = "new" /\ ~Committed =>
             i \in previous

\* Which published files the rollback could not restore.
Retained ==
    \A i \in Items :
        /\ phase = "rollback" /\ i \in published => i \in directory
        /\ failing /\ target[i] = "new" /\ phase = "rollback" /\ i > at =>
             i \in preserve_backup
        /\ failing /\ target[i] = "new" /\ phase \in {"clean", "finish", "threw"} =>
             i \in preserve_backup
        /\ i \in preserve_backup => i \in directory \cap reported

\* How far cleaning up has come.
Cleaned ==
    \A i \in directory :
        /\ phase = "clean" /\ i < at => i \in reported
        /\ phase \in {"finish", "returned", "threw"} => i \in reported

PublicationInv == TypeOK /\ Published /\ Targets /\ Backups /\ Retained /\ Cleaned

Promises ==
    /\ TypeOK /\ ResultComesLast /\ NothingLost
    /\ HandledFailureRestores /\ OutcomeTellsState

-----------------------------------------------------------------------------
(* The items are an interval that ends at N.                                *)
LEMMA ItemsFacts ==
    /\ 1 \in Items /\ N \in Items
    /\ \A i \in Items : i \in Nat /\ 1 <= i /\ i <= N
    /\ \A i \in Items : i # N => i + 1 \in Items
    /\ \A i \in Items : i # 1 => i - 1 \in Items
BY ArtifactAssumption, SMT DEF Items

(* The invariant holds initially.                                           *)
LEMMA InitIsPublicationInv == Init => PublicationInv
<1> SUFFICES ASSUME Init PROVE PublicationInv
  OBVIOUS
<1> USE ItemsFacts DEF Init
<1>1. TypeOK
  <2>1. target \in [Items -> {"absent", "old", "new"}]
    BY SMT
  <2>2. failing \in BOOLEAN
    BY Zenon
  <2> QED BY <2>1, <2>2, Zenon DEF TypeOK
<1>2. Published
  BY SMT DEF Published
<1>3. Targets
  BY SMT DEF Targets
<1>4. Backups
  BY SMT DEF Backups, Committed
<1>5. Retained /\ Cleaned
  BY SMT DEF Retained, Cleaned
<1> QED BY <1>1, <1>2, <1>3, <1>4, <1>5 DEF PublicationInv

(* Every step preserves the invariant.                                      *)
LEMMA StepKeepsPublicationInv == PublicationInv /\ [Next]_vars => PublicationInv'
<1> SUFFICES ASSUME PublicationInv, [Next]_vars PROVE PublicationInv'
  OBVIOUS
<1> USE ItemsFacts DEF disk, memory, PublicationInv
<1>1. CASE RejectPaths
  BY <1>1, SMT DEF RejectPaths,
     TypeOK, Published, Targets, Backups, Retained, Cleaned, Committed
<1>2. CASE AcceptPaths
  BY <1>2, SMT DEF AcceptPaths,
     TypeOK, Published, Targets, Backups, Retained, Cleaned, Committed
<1>3. CASE MakeDirectory
  BY <1>3, SMT DEF MakeDirectory,
     TypeOK, Published, Targets, Backups, Retained, Cleaned, Committed
<1>4. CASE WriteDocument
  BY <1>4, SMT DEF WriteDocument,
     TypeOK, Published, Targets, Backups, Retained, Cleaned, Committed
<1>5. CASE LinkPrevious
  <2>1. TypeOK'
    BY <1>5, SMT DEF TypeOK, LinkPrevious, Proceed
  <2>2. Published'
    BY <1>5, SMT DEF TypeOK, Published, LinkPrevious, Proceed
  <2>3. Targets'
    BY <1>5, SMT DEF TypeOK, Published, Targets, LinkPrevious, Proceed
  <2>4. Backups'
    <3> SUFFICES ASSUME NEW i \in Items PROVE Backups!(i)'
      BY DEF Backups
    <3>1. phase = "stage" /\ at \in Items /\ published = {} /\ published' = {}
      BY <1>5, SMT DEF TypeOK, Published, LinkPrevious
    <3>2. phase' = "publish" \/ (phase' = "stage" /\ i < at') => i < at \/ i = at
      BY <1>5, <3>1, SMT DEF LinkPrevious, Proceed
    <3>3. at \in directory /\ target = initially
      BY <1>5, <3>1, SMT DEF TypeOK, Targets, Backups, LinkPrevious
    <3>4. previous \subseteq previous' /\ has_previous \subseteq has_previous'
      BY <1>5, SMT DEF LinkPrevious
    <3>5. initially[at] = "old" => at \in previous' \cap has_previous'
      BY <1>5, <3>3, SMT DEF LinkPrevious
    <3>6. i \in has_previous' => initially[i] = "old"
      BY <1>5, <3>1, <3>3, SMT DEF TypeOK, Backups, LinkPrevious
    <3> QED
      BY <1>5, <3>1, <3>2, <3>3, <3>4, <3>5, <3>6, SMT DEF Backups, LinkPrevious
  <2>5. Retained'
    BY <1>5, SMT DEF TypeOK, Published, Targets, Backups, Retained, LinkPrevious, Proceed
  <2>6. Cleaned'
    BY <1>5, SMT DEF TypeOK, Published, Retained, Cleaned, LinkPrevious, Proceed
  <2> QED BY <2>1, <2>2, <2>3, <2>4, <2>5, <2>6 DEF PublicationInv
<1>6. CASE StagingFails
  BY <1>6, SMT DEF StagingFails, Abort,
     TypeOK, Published, Targets, Backups, Retained, Cleaned, Committed
<1>7. CASE Publish
  BY <1>7, SMT DEF Publish, Proceed,
     TypeOK, Published, Targets, Backups, Retained, Cleaned, Committed
<1>8. CASE PublishFails
  BY <1>8, SMT DEF PublishFails, Abort,
     TypeOK, Published, Targets, Backups, Retained, Cleaned, Committed
<1>9. CASE LeaveUnpublished
  BY <1>9, SMT DEF LeaveUnpublished, Backwards,
     TypeOK, Published, Targets, Backups, Retained, Cleaned, Committed
<1>10. CASE Restore
  BY <1>10, SMT DEF Restore, Backwards,
     TypeOK, Published, Targets, Backups, Retained, Cleaned, Committed
<1>11. CASE RestoreFails
  BY <1>11, SMT DEF RestoreFails, Backwards,
     TypeOK, Published, Targets, Backups, Retained, Cleaned, Committed
<1>12. CASE KeepStaging
  BY <1>12, SMT DEF KeepStaging, Proceed, ToClean,
     TypeOK, Published, Targets, Backups, Retained, Cleaned, Committed
<1>13. CASE RemoveStaging
  BY <1>13, SMT DEF RemoveStaging, Proceed, ToClean,
     TypeOK, Published, Targets, Backups, Retained, Cleaned, Committed
<1>14. CASE RemoveStagingFails
  BY <1>14, SMT DEF RemoveStagingFails, Proceed, ToClean,
     TypeOK, Published, Targets, Backups, Retained, Cleaned, Committed
<1>15. CASE Finish
  BY <1>15, SMT DEF Finish,
     TypeOK, Published, Targets, Backups, Retained, Cleaned, Committed
<1>16. CASE Crash
  BY <1>16, SMT DEF Crash,
     TypeOK, Published, Targets, Backups, Retained, Cleaned, Committed
<1>17. CASE UNCHANGED vars
  BY <1>17, SMT DEF vars,
     TypeOK, Published, Targets, Backups, Retained, Cleaned, Committed
<1> QED BY <1>1, <1>2, <1>3, <1>4, <1>5, <1>6, <1>7, <1>8, <1>9,
           <1>10, <1>11, <1>12, <1>13, <1>14, <1>15, <1>16, <1>17 DEF Next

-----------------------------------------------------------------------------
(* The invariant implies every promise.                                     *)
LEMMA PublicationInvPromises == PublicationInv => Promises
<1> SUFFICES ASSUME PublicationInv PROVE Promises
  OBVIOUS
<1> USE ItemsFacts DEF PublicationInv
<1>1. ResultComesLast
  <2>1. target[N] = "new" => N \in published
    BY SMT DEF TypeOK, Targets
  <2> QED BY <2>1, SMT DEF ResultComesLast, Published, Targets
<1>2. NothingLost
  BY SMT DEF NothingLost, TypeOK, Targets, Backups
<1>3. HandledFailureRestores
  <2> SUFFICES ASSUME phase = "threw", failing, NEW i \in Items, target[i] # initially[i]
               PROVE  /\ i \in reported /\ i \in directory
                      /\ initially[i] = "old" => i \in previous
    BY DEF HandledFailureRestores
  <2>1. target[i] = "new" /\ i \in published
    BY SMT DEF Targets
  <2>2. i \in preserve_backup
    BY <2>1, SMT DEF Retained
  <2>3. ~Committed
    BY DEF Committed
  <2> QED BY <2>1, <2>2, <2>3, SMT DEF Retained, Backups
<1>4. OutcomeTellsState
  <2>1. phase = "returned" \/ (phase = "threw" /\ ~failing /\ reported # {}) =>
          \A i \in Items : target[i] = "new"
    BY SMT DEF Published, Targets
  <2>2. phase \in {"returned", "threw"} => directory \subseteq reported
    BY SMT DEF Cleaned
  <2> QED BY <2>1, <2>2 DEF OutcomeTellsState
<1> QED BY <1>1, <1>2, <1>3, <1>4 DEF Promises

(* For every number of artifacts and every failure of a file-system call:   *)
(* RESULT is in place only with all the others, no file that existed before *)
(* is lost, a handled failure restores what it does not report, completion  *)
(* means everything is in place and no staging directory stays unmentioned. *)
THEOREM PublicationKeepsPromises ==
    Spec => [](/\ TypeOK /\ ResultComesLast /\ NothingLost
               /\ HandledFailureRestores /\ OutcomeTellsState)
<1>1. Spec => []PublicationInv
  BY InitIsPublicationInv, StepKeepsPublicationInv, PTL DEF Spec
<1>2. PublicationInv => /\ TypeOK /\ ResultComesLast /\ NothingLost
              /\ HandledFailureRestores /\ OutcomeTellsState
  BY PublicationInvPromises DEF Promises
<1> QED BY <1>1, <1>2, PTL

(* A reader who finds the new RESULT finds every other new document, at     *)
(* each instant and after any crash.                                        *)
THEOREM ResultIsLast == Spec => []ResultComesLast
BY PublicationKeepsPromises, PTL

(* An exception out of the publication leaves each target as it was, unless *)
(* restoring it failed, and then the backup is kept and named.              *)
THEOREM FailureRestores == Spec => []HandledFailureRestores
BY PublicationKeepsPromises, PTL

(* A publication that returns has put every document in place, and a        *)
(* staging directory that outlives the call is named in its exception.      *)
THEOREM OutcomeIsTold == Spec => []OutcomeTellsState
BY PublicationKeepsPromises, PTL
================================================================================
