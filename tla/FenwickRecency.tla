--------------------------- MODULE FenwickRecency ---------------------------
(***************************************************************************)
(* The recency index with its Fenwick tree: every count is a walk over     *)
(* partial sums, every observation updates the sums along a path, and a    *)
(* compaction rebuilds the tree from the population count alone.           *)
(***************************************************************************)
EXTENDS Integers, FiniteSets

CONSTANTS Keys, Floors, SlotLimits, MaxWord      \* as in RecencyIndex

\* What RecencyIndex assumes of them.
ASSUME FenwickAssumption ==
    /\ IsFiniteSet(Keys)
    /\ Floors \subseteq Nat
    /\ MaxWord \in Nat
    /\ SlotLimits \subseteq 0..MaxWord
    /\ \A least \in Floors, limit \in SlotLimits : least <= limit => least < MaxWord

VARIABLES slots, capacity, next_slot, active_count, floor, slot_limit,
          distance, failed,                      \* as in RecencyIndex
          tree       \* tree[s]: the keys with slots in s - LowBit(s) + 1 .. s

config == <<floor, slot_limit>>
vars == <<slots, capacity, next_slot, active_count, floor, slot_limit,
          distance, failed, tree>>

\* The index with the tree abstracted to the counts it stands for.
Index == INSTANCE RecencyIndex

-----------------------------------------------------------------------------
\* slot & (~slot + 1): the largest power of two that divides the slot.
LowBit[s \in 1..MaxWord] == IF s % 2 = 1 THEN 1 ELSE 2 * LowBit[s \div 2]

\* Mutant: the slot itself is left out.
tree_prefix_sum_exclusive(t, slot) ==
    LET total[s \in 0..slot] == IF s = 0 THEN 0 ELSE t[s] + total[s - LowBit[s]]
    IN  total[slot - 1]

\* Walks down from a slot: the sums add up to the count of slots at or below.
tree_prefix_sum(t, slot) ==
    LET total[s \in 0..slot] == IF s = 0 THEN 0 ELSE t[s] + total[s - LowBit[s]]
    IN  total[slot]

\* Mutant: the walk stops one step short of the capacity.
UpdatePath_stops_short(slot, cap) ==
    LET path[s \in 1..cap] ==
            {s} \cup (IF LowBit[s] >= cap - s THEN {} ELSE path[s + LowBit[s]])
    IN  IF slot <= cap THEN path[slot] ELSE {}

\* The sums an update of a slot walks over.  The walk stops when the next step
\* would pass the capacity, compared so that the addition cannot wrap.
UpdatePath(slot, cap) ==
    LET path[s \in 1..cap] ==
            {s} \cup (IF LowBit[s] > cap - s THEN {} ELSE path[s + LowBit[s]])
    IN  IF slot <= cap THEN path[slot] ELSE {}

update(t, slot, cap, change) ==
    [s \in DOMAIN t |-> IF s \in UpdatePath(slot, cap) THEN t[s] + change ELSE t[s]]

\* Mutant: sums reaching past the population are not cut off.
Rebuilt_uncut(cap, count) ==
    [s \in 1..cap |-> LET lower == s - LowBit[s]
                      IN  IF lower < count THEN s - lower ELSE 0]

\* The tree of a packed population: ones in slots 1..count, zeros above.
Rebuilt(cap, count) ==
    [s \in 1..cap |-> LET lower == s - LowBit[s]
                      IN  IF lower < count
                          THEN (IF s < count THEN s ELSE count) - lower
                          ELSE 0]

-----------------------------------------------------------------------------
Init ==
    /\ Index!Init
    /\ tree = [s \in 1..floor |-> 0]

SettledTree ==
    IF Index!NeedsCompaction
    THEN Rebuilt(Index!SettledCapacity, active_count)
    ELSE tree

\* The tree after the key at `previous`, if any, moved to the next slot.
MovedTree(previous) ==
    LET cap == Index!SettledCapacity
        without == IF previous = 0 THEN SettledTree
                                   ELSE update(SettledTree, previous, cap, -1)
    IN  update(without, Index!SettledNext, cap, 1)

ObserveFirst(k) ==
    /\ ~failed /\ Index!Fits
    /\ k \notin DOMAIN slots
    /\ distance' = {}
    /\ active_count' = active_count + 1
    /\ tree' = MovedTree(0)
    /\ Index!Settle(k)

ObserveAgain(k) ==
    /\ ~failed /\ Index!Fits
    /\ k \in DOMAIN slots
    /\ LET previous == Index!SettledSlots[k]
       IN  /\ distance' = {active_count - tree_prefix_sum(SettledTree, previous)}
           /\ tree' = MovedTree(previous)
    /\ UNCHANGED active_count
    /\ Index!Settle(k)

ObserveFails(k) ==
    /\ Index!ObserveFails(k)
    /\ UNCHANGED tree

Next == \E k \in Keys : ObserveFirst(k) \/ ObserveAgain(k) \/ ObserveFails(k)

Spec == Init /\ [][Next]_vars

-----------------------------------------------------------------------------
TypeOK ==
    /\ Index!TypeOK
    /\ tree \in [1..capacity -> 0..active_count]

(* Every partial sum covers exactly its own range of slots: updates and     *)
(* rebuilds never drift apart from the slot table they summarise.           *)
TreeSumsSlots ==
    \A s \in 1..capacity :
        tree[s] = Cardinality({k \in DOMAIN slots :
                                  slots[k] > s - LowBit[s] /\ slots[k] <= s})

(* update() asserts count < active_count_ on insertion and count > 0 on     *)
(* removal.  Neither can fire: before the new slot is entered every sum on  *)
(* its path counts fewer keys than the (already incremented) population,    *)
(* and every sum on the path of a key being moved still counts that key.    *)
UpdateAssertionsHold ==
    (~failed /\ Index!Fits) =>
        LET cap == Index!SettledCapacity
            entering == UpdatePath(Index!SettledNext, cap)
        IN  /\ Keys \ DOMAIN slots # {} =>
                 \A s \in entering : SettledTree[s] < active_count + 1
            /\ \A k \in DOMAIN slots :
                 LET leaving == UpdatePath(Index!SettledSlots[k], cap)
                     without == update(SettledTree, Index!SettledSlots[k], cap, -1)
                 IN  /\ \A s \in leaving : SettledTree[s] > 0
                     /\ \A s \in entering : without[s] < active_count

(* The tree is invisible: sums read and updated by index arithmetic give    *)
(* the answers of the index that counts slots directly.                     *)
RefinesIndex == Index!Spec
=============================================================================
