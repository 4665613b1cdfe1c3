-------------------------- MODULE RecencyIndexProof -------------------------
(***************************************************************************)
(* Proofs about the recency index for every key set, floor, ceiling and    *)
(* word size: its invariants, and that it implements the recency order.    *)
(***************************************************************************)
EXTENDS RecencyIndex, FiniteSetTheorems, TLAPS

IInv == TypeOK /\ SlotsConsistent /\ StorageBounded

-----------------------------------------------------------------------------
(* The table is as finite as the keys, so its counts are natural numbers.   *)
LEMMA TableFinite ==
    ASSUME TypeOK
    PROVE  /\ IsFiniteSet(DOMAIN slots)
           /\ Cardinality(DOMAIN slots) \in Nat
           /\ \A S \in SUBSET DOMAIN slots :
                 IsFiniteSet(S) /\ Cardinality(S) \in Nat
  <1>1. IsFiniteSet(DOMAIN slots)
    BY FS_Subset, IndexAssumption DEF IndexAssumption, TypeOK
  <1>2. \A S \in SUBSET DOMAIN slots : IsFiniteSet(S) /\ Cardinality(S) \in Nat
    BY <1>1, FS_Subset, FS_CardinalityType
  <1> QED
    BY <1>1, <1>2

(* Renumbering by rank keeps the order of the slots and packs them into     *)
(* 1 .. active_count.                                                       *)
LEMMA RankPacks ==
    ASSUME TypeOK, SlotsConsistent
    PROVE  /\ \A k \in DOMAIN slots : prefix_sum(slots, slots[k]) \in 1..active_count
           /\ \A j, k \in DOMAIN slots :
                 slots[j] < slots[k]
                    <=> prefix_sum(slots, slots[j]) < prefix_sum(slots, slots[k])
  <1> DEFINE Rank(k) == prefix_sum(slots, slots[k])
  <1>1. ASSUME NEW k \in DOMAIN slots
        PROVE  Rank(k) \in 1..active_count
    <2>1. AtOrBefore(slots, slots[k]) \in SUBSET DOMAIN slots
      BY DEF AtOrBefore
    <2>2. k \in AtOrBefore(slots, slots[k])
      BY <1>1 DEF AtOrBefore, TypeOK
    <2>3. Rank(k) \in Nat /\ Rank(k) # 0
      BY <2>1, <2>2, TableFinite, FS_EmptySet DEF prefix_sum
    <2>4. Rank(k) <= active_count
      BY <2>1, TableFinite, FS_Subset DEF prefix_sum, SlotsConsistent
    <2> QED
      BY <2>3, <2>4 DEF TypeOK
  <1>2. ASSUME NEW j \in DOMAIN slots, NEW k \in DOMAIN slots,
               slots[j] < slots[k]
        PROVE  Rank(j) < Rank(k)
    <2> DEFINE J == AtOrBefore(slots, slots[j])
               K == AtOrBefore(slots, slots[k])
    <2>1. slots[j] \in Nat /\ slots[k] \in Nat
      BY DEF TypeOK
    <2>2. J \subseteq K
      BY <1>2, <2>1 DEF AtOrBefore, TypeOK
    <2>3. k \in K /\ k \notin J
      BY <1>2, <2>1 DEF AtOrBefore
    <2>4. IsFiniteSet(K) /\ Cardinality(K) \in Nat /\ Cardinality(J) \in Nat
      BY TableFinite DEF AtOrBefore
    <2>5. Cardinality(J) <= Cardinality(K) /\ Cardinality(J) # Cardinality(K)
      BY <2>2, <2>3, <2>4, FS_Subset
    <2> QED
      BY <2>4, <2>5 DEF prefix_sum
  <1>3. ASSUME NEW j \in DOMAIN slots, NEW k \in DOMAIN slots,
               Rank(j) < Rank(k)
        PROVE  slots[j] < slots[k]
    <2>1. slots[j] \in Nat /\ slots[k] \in Nat /\ Rank(j) \in Nat /\ Rank(k) \in Nat
      BY <1>1 DEF TypeOK
    <2>2. slots[j] # slots[k]
      BY <1>3, <2>1
    <2>3. ~(slots[k] < slots[j])
      BY <1>2, <1>3, <2>1
    <2> QED
      BY <2>1, <2>2, <2>3
  <1> QED
    BY <1>1, <1>2, <1>3

(* The table an observation works on: same keys, same order, every slot     *)
(* before the one the observation is about to use, and that one in storage. *)
LEMMA SettledTable ==
    ASSUME IInv, Fits
    PROVE  /\ SettledSlots \in [DOMAIN slots -> Nat \ {0}]
           /\ \A j, k \in DOMAIN slots :
                 SettledSlots[j] < SettledSlots[k] <=> slots[j] < slots[k]
           /\ \A k \in DOMAIN slots : SettledSlots[k] < SettledNext
           /\ SettledNext \in Nat \ {0}
           /\ SettledCapacity \in Nat \ {0}
           /\ SettledNext <= SettledCapacity
           /\ SettledCapacity <= slot_limit
           /\ SettledCapacity + 1 <= MaxWord
           /\ SettledCapacity <= Larger(floor, active_count + active_count)
  <1>1. CASE NeedsCompaction
    <2>1. SettledSlots = [k \in DOMAIN slots |-> prefix_sum(slots, slots[k])]
      BY <1>1 DEF SettledSlots
    <2>2. /\ SettledNext = active_count + 1
          /\ SettledCapacity = Larger(floor, active_count + active_count)
      BY <1>1 DEF SettledNext, SettledCapacity
    <2>3. /\ active_count + active_count <= slot_limit
          /\ SettledCapacity + 1 <= MaxWord
      BY <1>1, <2>2 DEF Fits, CompactionFits
    <2>4. active_count \in Nat /\ floor \in Nat \ {0} /\ slot_limit \in Nat
          /\ capacity \in Nat \ {0} /\ next_slot \in Nat /\ MaxWord \in Nat
      BY IndexAssumption DEF IInv, TypeOK, IndexAssumption
    <2>5. floor <= slot_limit
      BY <2>4 DEF IInv, StorageBounded
    <2>6. active_count + 1 <= Larger(floor, active_count + active_count)
      BY <2>4 DEF Larger
    <2>7. \A k \in DOMAIN slots : prefix_sum(slots, slots[k]) \in 1..active_count
      BY RankPacks DEF IInv
    <2> QED
      BY <2>1, <2>2, <2>3, <2>4, <2>5, <2>6, <2>7, RankPacks DEF Larger, IInv
  <1>2. CASE ~NeedsCompaction
    <2>1. SettledSlots = slots /\ SettledNext = next_slot /\ SettledCapacity = capacity
      BY <1>2 DEF SettledSlots, SettledNext, SettledCapacity
    <2> QED
      BY <1>2, <2>1 DEF NeedsCompaction, IInv, TypeOK, SlotsConsistent, StorageBounded
  <1> QED
    BY <1>1, <1>2

(* An observation that fits keeps the invariant, whether the key is new or  *)
(* known and whether or not the index compacted first.                      *)
LEMMA SettleKeepsTable ==
    ASSUME IInv, Fits, NEW k \in Keys, Settle(k),
           active_count' = Cardinality(DOMAIN slots')
    PROVE  /\ DOMAIN slots' = DOMAIN slots \cup {k}
           /\ slots' \in [DOMAIN slots' -> Nat \ {0}]
           /\ active_count <= active_count'
           /\ active_count' \in Nat
           /\ SlotsConsistent'
           /\ StorageBounded'
  <1> DEFINE D == DOMAIN slots \cup {k}
  <1>1. slots' = [j \in D |-> IF j = k THEN SettledNext ELSE SettledSlots[j]]
    BY DEF Settle
  <1>2. DOMAIN slots' = D
    BY <1>1
  <1>3. slots' \in [D -> Nat \ {0}]
    BY <1>1, SettledTable
  <1>4. /\ active_count = Cardinality(DOMAIN slots)
        /\ active_count \in Nat /\ active_count' \in Nat
        /\ active_count <= active_count'
    <2>1. IsFiniteSet(DOMAIN slots) /\ Cardinality(DOMAIN slots) \in Nat
      BY TableFinite DEF IInv
    <2>2. Cardinality(D) \in Nat /\ Cardinality(DOMAIN slots) <= Cardinality(D)
      <3>1. Cardinality(D) = IF k \in DOMAIN slots THEN Cardinality(DOMAIN slots)
                                                   ELSE Cardinality(DOMAIN slots) + 1
        BY <2>1, FS_AddElement
      <3> HIDE DEF D
      <3> QED
        BY <2>1, <3>1
    <2> QED
      BY <1>2, <2>1, <2>2 DEF IInv, SlotsConsistent
  <1>5. capacity' = SettledCapacity /\ next_slot' = SettledNext + 1
        /\ floor' = floor /\ slot_limit' = slot_limit
    BY DEF Settle, config
  <1>6. \A i, j \in D : slots'[i] = slots'[j] => i = j
    <2>1. ASSUME NEW i \in D, NEW j \in D, slots'[i] = slots'[j], i # k, j # k
          PROVE  i = j
      <3>1. i \in DOMAIN slots /\ j \in DOMAIN slots
        BY <2>1
      <3>2. SettledSlots[i] = SettledSlots[j]
        BY <1>1, <2>1
      <3>3. SettledSlots[i] \in Nat /\ SettledSlots[j] \in Nat
            /\ slots[i] \in Nat /\ slots[j] \in Nat
        BY <3>1, SettledTable DEF IInv, TypeOK
      <3>4. slots[i] = slots[j]
        BY <3>1, <3>2, <3>3, SettledTable
      <3> QED
        BY <3>1, <3>4 DEF IInv, SlotsConsistent
    <2>2. ASSUME NEW i \in D, i # k
          PROVE  slots'[i] < slots'[k]
      BY <1>1, <2>2, SettledTable
    <2>3. \A i \in D : slots'[i] \in Nat
      BY <1>3
    <2> QED
      BY <2>1, <2>2, <2>3
  <1>7. \A j \in D : slots'[j] < next_slot'
    BY <1>1, <1>5, SettledTable
  <1>8. SlotsConsistent'
    BY <1>2, <1>5, <1>6, <1>7, SettledTable DEF SlotsConsistent
  <1>9. StorageBounded'
    <2>1. floor \in Nat /\ floor <= slot_limit /\ slot_limit \in Nat
      BY DEF IInv, TypeOK, StorageBounded
    <2>2. Larger(floor, active_count + active_count)
            <= Larger(floor, active_count' + active_count')
      BY <1>4, <2>1 DEF Larger
    <2>3. Larger(floor, active_count + active_count) \in Nat
          /\ Larger(floor, active_count' + active_count') \in Nat
      BY <1>4, <2>1 DEF Larger
    <2>4. Larger(floor, active_count + active_count)' =
            Larger(floor, active_count' + active_count')
      BY <1>5 DEF Larger
    <2> QED
      BY <1>5, <2>1, <2>2, <2>3, <2>4, SettledTable DEF StorageBounded
  <1> QED
    BY <1>2, <1>3, <1>4, <1>8, <1>9

LEMMA FirstKeepsIInv ==
    ASSUME IInv, NEW k \in Keys, ObserveFirst(k)
    PROVE  IInv'
  <1>1. Fits /\ Settle(k) /\ k \notin DOMAIN slots
    BY DEF ObserveFirst
  <1>2. DOMAIN slots' = DOMAIN slots \cup {k}
    BY <1>1 DEF Settle
  <1>3. active_count' = Cardinality(DOMAIN slots')
    BY <1>1, <1>2, TableFinite, FS_AddElement
       DEF IInv, SlotsConsistent, ObserveFirst
  <1>4. TypeOK'
    <2>1. slots' \in [DOMAIN slots' -> Nat \ {0}] /\ DOMAIN slots' \subseteq Keys
      BY <1>1, <1>2, <1>3, SettleKeepsTable DEF IInv, TypeOK
    <2>2. capacity' \in Nat \ {0} /\ next_slot' \in Nat \ {0}
      BY <1>1, SettledTable DEF Settle
    <2> QED
      BY <1>1, <1>3, <2>1, <2>2, SettleKeepsTable
         DEF TypeOK, IInv, Settle, config, ObserveFirst
  <1> QED
    BY <1>1, <1>3, <1>4, SettleKeepsTable DEF IInv

LEMMA AgainKeepsIInv ==
    ASSUME IInv, NEW k \in Keys, ObserveAgain(k)
    PROVE  IInv'
  <1>1. Fits /\ Settle(k) /\ k \in DOMAIN slots
    BY DEF ObserveAgain
  <1>2. DOMAIN slots' = DOMAIN slots
    BY <1>1 DEF Settle
  <1>3. active_count' = Cardinality(DOMAIN slots')
    BY <1>2 DEF IInv, SlotsConsistent, ObserveAgain
  <1>4. TypeOK'
    <2>1. slots' \in [DOMAIN slots' -> Nat \ {0}] /\ DOMAIN slots' \subseteq Keys
      BY <1>1, <1>2, <1>3, SettleKeepsTable DEF IInv, TypeOK
    <2>2. capacity' \in Nat \ {0} /\ next_slot' \in Nat \ {0}
      BY <1>1, SettledTable DEF Settle
    <2>3. distance' \subseteq Nat /\ \A a, b \in distance' : a = b
      <3> DEFINE n == prefix_sum(SettledSlots, SettledSlots[k])
      <3>1. distance' = {active_count - n}
        BY DEF ObserveAgain
      <3>2. DOMAIN SettledSlots = DOMAIN slots
        BY <1>1, SettledTable
      <3>3. AtOrBefore(SettledSlots, SettledSlots[k]) \in SUBSET DOMAIN slots
        BY <3>2 DEF AtOrBefore
      <3>4. n \in Nat /\ n <= active_count /\ active_count \in Nat
        BY <3>3, TableFinite, FS_Subset DEF prefix_sum, IInv, SlotsConsistent, TypeOK
      <3> QED
        BY <3>1, <3>4
    <2> QED
      BY <1>1, <1>3, <2>1, <2>2, <2>3, SettleKeepsTable
         DEF TypeOK, IInv, Settle, config, ObserveAgain
  <1> QED
    BY <1>1, <1>3, <1>4, SettleKeepsTable DEF IInv

LEMMA InitIInv == Init => IInv
  <1> SUFFICES ASSUME Init PROVE IInv
    OBVIOUS
  <1>1. slots = [k \in {} |-> 0] /\ DOMAIN slots = {}
    BY DEF Init
  <1>2. TypeOK
    <2>1. failed \in BOOLEAN
      BY DEF Init
    <2>2. /\ floor \in Nat \ {0} /\ slot_limit \in Nat /\ capacity \in Nat \ {0}
          /\ next_slot \in Nat \ {0} /\ active_count \in Nat
      BY IndexAssumption DEF Init, IndexAssumption
    <2>3. DOMAIN slots \subseteq Keys /\ slots \in [DOMAIN slots -> Nat \ {0}]
      BY <1>1
    <2>4. distance \subseteq Nat /\ \A a, b \in distance : a = b
      BY DEF Init
    <2> QED
      BY <2>1, <2>2, <2>3, <2>4 DEF TypeOK
  <1>3. SlotsConsistent
    BY <1>1, IndexAssumption, FS_EmptySet DEF Init, SlotsConsistent, IndexAssumption
  <1>4. StorageBounded
    BY IndexAssumption DEF Init, StorageBounded, IndexAssumption, Larger
  <1> QED
    BY <1>2, <1>3, <1>4 DEF IInv

LEMMA StepIInv == IInv /\ [Next]_vars => IInv'
  <1> SUFFICES ASSUME IInv, [Next]_vars PROVE IInv'
    OBVIOUS
  <1>1. ASSUME NEW k \in Keys, ObserveFirst(k) PROVE IInv'
    BY <1>1, FirstKeepsIInv
  <1>2. ASSUME NEW k \in Keys, ObserveAgain(k) PROVE IInv'
    BY <1>2, AgainKeepsIInv
  <1>3. ASSUME NEW k \in Keys, ObserveFails(k) PROVE IInv'
    BY <1>3 DEF ObserveFails, IInv, TypeOK, SlotsConsistent, StorageBounded,
                config, Larger
  <1>4. CASE UNCHANGED vars
    BY <1>4 DEF vars, IInv, TypeOK, SlotsConsistent, StorageBounded, Larger
  <1> QED
    BY <1>1, <1>2, <1>3, <1>4 DEF Next

(* Every reachable index is well typed, gives each key a slot of its own    *)
(* behind the cursor, counts its keys right, and keeps its storage within   *)
(* twice the distinct keys and within the ceiling: for every key set, floor *)
(* and ceiling a caller may construct it with.                              *)
THEOREM IndexInvariant == Spec => [](TypeOK /\ SlotsConsistent /\ StorageBounded)
  <1>1. Init => IInv
    BY InitIInv
  <1>2. IInv /\ [Next]_vars => IInv'
    BY StepIInv
  <1>3. IInv => TypeOK /\ SlotsConsistent /\ StorageBounded
    BY DEF IInv
  <1> QED
    BY <1>1, <1>2, <1>3, PTL DEF Spec

(* What a compaction leaves is less than twice the distinct keys, or the    *)
(* floor: however long the trace, the table stays the size of its keys.     *)
THEOREM StorageFollowsKeys == Spec => []StorageBounded
  BY IndexInvariant, PTL

-----------------------------------------------------------------------------
(* The distance read off the settled table counts the keys in higher slots. *)
LEMMA DistanceCountsNewer ==
    ASSUME IInv, Fits, NEW k \in DOMAIN slots
    PROVE  active_count - prefix_sum(SettledSlots, SettledSlots[k])
              = Cardinality({j \in DOMAIN slots : slots[j] > slots[k]})
  <1> DEFINE D == DOMAIN slots
             A == AtOrBefore(slots, slots[k])
             N == {j \in D : slots[j] > slots[k]}
  <1>1. \A j \in D : slots[j] \in Nat /\ SettledSlots[j] \in Nat
    BY SettledTable DEF IInv, TypeOK
  <1>2. DOMAIN SettledSlots = D
    BY SettledTable
  <1>3. \A j \in D : SettledSlots[j] <= SettledSlots[k] <=> slots[j] <= slots[k]
    BY <1>1, SettledTable
  <1>4. AtOrBefore(SettledSlots, SettledSlots[k]) = A
    BY <1>2, <1>3 DEF AtOrBefore
  <1>5. N = D \ A /\ D \cap A = A
    BY <1>1 DEF AtOrBefore
  <1>6. IsFiniteSet(D) /\ Cardinality(D) \in Nat /\ Cardinality(A) \in Nat
    BY <1>5, TableFinite DEF IInv
  <1>7. Cardinality(N) = Cardinality(D) - Cardinality(A)
    BY <1>5, <1>6, FS_Difference
  <1> QED
    BY <1>4, <1>7 DEF prefix_sum, IInv, SlotsConsistent

(* Taking the highest slot makes k newer than every other key and changes   *)
(* no other pair, also when the slots were renumbered underneath.           *)
LEMMA SettleTouches ==
    ASSUME IInv, Fits, NEW k \in Keys, Settle(k)
    PROVE  NewerBySlot' = Order!Touched(NewerBySlot, k)
  <1> DEFINE D == DOMAIN slots \cup {k}
             newer == NewerBySlot
  <1>1. slots' = [j \in D |-> IF j = k THEN SettledNext ELSE SettledSlots[j]]
        /\ DOMAIN slots' = D
    BY DEF Settle
  <1>2. \A j \in D : slots'[j] \in Nat /\ slots'[j] <= SettledNext
    BY <1>1, SettledTable
  <1>3. \A j \in DOMAIN slots : slots[j] \in Nat /\ SettledSlots[j] \in Nat
    BY SettledTable DEF IInv, TypeOK
  <1>4. DOMAIN newer = DOMAIN slots
    BY DEF NewerBySlot
  <1>5. ASSUME NEW j \in D
        PROVE  {i \in D : slots'[i] > slots'[j]}
                 = IF j = k THEN {} ELSE newer[j] \cup {k}
    <2>1. CASE j = k
      BY <1>1, <1>2, <2>1
    <2>2. CASE j # k
      <3>1. j \in DOMAIN slots /\ slots'[j] = SettledSlots[j]
        BY <1>1, <2>2
      <3>2. newer[j] = {i \in DOMAIN slots : slots[i] > slots[j]}
        BY <3>1 DEF NewerBySlot
      <3>3. slots'[k] > slots'[j]
        BY <1>1, <1>2, <3>1, SettledTable
      <3>4. ASSUME NEW i \in DOMAIN slots, i # k
            PROVE  slots'[i] > slots'[j] <=> slots[i] > slots[j]
        <4>1. slots'[i] = SettledSlots[i]
          BY <1>1, <3>4
        <4>2. SettledSlots[j] < SettledSlots[i] <=> slots[j] < slots[i]
          BY <3>1, SettledTable
        <4> QED
          BY <1>3, <3>1, <4>1, <4>2
      <3> QED
        BY <2>2, <3>2, <3>3, <3>4
    <2> QED
      BY <2>1, <2>2
  <1>6. NewerBySlot' = [j \in D |-> {i \in D : slots'[i] > slots'[j]}]
    BY <1>1 DEF NewerBySlot
  <1>7. Order!Touched(NewerBySlot, k) = [j \in D |-> IF j = k THEN {} ELSE newer[j] \cup {k}]
    BY <1>4 DEF Order!Touched
  <1> HIDE DEF D, newer
  <1> QED
    BY <1>5, <1>6, <1>7

(* The instance's cardinality is the one of this module.                    *)
LEMMA OrderCardinality == \A S : Order!Cardinality(S) = Cardinality(S)
  BY DEF Order!Cardinality, Cardinality

(* The index implements the recency order: every observation answers with   *)
(* the number of distinct keys observed since, whatever the floor and the   *)
(* ceiling, and a compaction or a failed observation is invisible.          *)
THEOREM IndexRefinesOrder == Spec => RefinesOrder
  <1>1. Init => Order!Init
    <2> SUFFICES ASSUME Init PROVE Order!Init
      OBVIOUS
    <2>1. DOMAIN slots = {}
      BY DEF Init
    <2>2. NewerBySlot = [k \in {} |-> {}]
      BY <2>1 DEF NewerBySlot
    <2> QED
      BY <2>2 DEF Init, Order!Init, Order!Unseen
  <1>2. IInv /\ [Next]_vars => [Order!Next]_Order!vars
    <2> SUFFICES ASSUME IInv, [Next]_vars PROVE [Order!Next]_Order!vars
      OBVIOUS
    <2>1. DOMAIN NewerBySlot = DOMAIN slots
      BY DEF NewerBySlot
    <2>2. ASSUME NEW k \in Keys, ObserveFirst(k) PROVE Order!Observe(k)
      <3>1. Fits /\ Settle(k) /\ k \notin DOMAIN slots /\ distance' = {}
        BY <2>2 DEF ObserveFirst
      <3> QED
        BY <2>1, <3>1, SettleTouches DEF Order!Observe, Order!Distance
    <2>3. ASSUME NEW k \in Keys, ObserveAgain(k) PROVE Order!Observe(k)
      <3>1. Fits /\ Settle(k) /\ k \in DOMAIN slots
            /\ distance' = {active_count - prefix_sum(SettledSlots, SettledSlots[k])}
        BY <2>3 DEF ObserveAgain
      <3>2. NewerBySlot[k] = {j \in DOMAIN slots : slots[j] > slots[k]}
        BY <3>1 DEF NewerBySlot
      <3> QED
        BY <2>1, <3>1, <3>2, SettleTouches, DistanceCountsNewer, OrderCardinality
           DEF Order!Observe, Order!Distance
    <2>4. ASSUME NEW k \in Keys, ObserveFails(k) PROVE UNCHANGED Order!vars
      BY <2>4 DEF ObserveFails, Order!vars, NewerBySlot
    <2>5. CASE UNCHANGED vars
      BY <2>5 DEF vars, Order!vars, NewerBySlot
    <2> QED
      BY <2>2, <2>3, <2>4, <2>5 DEF Next, Order!Next
  <1>3. Spec => []IInv
    BY InitIInv, StepIInv, PTL DEF Spec
  <1> QED
    BY <1>1, <1>2, <1>3, PTL DEF Spec, RefinesOrder, Order!Spec
=============================================================================
