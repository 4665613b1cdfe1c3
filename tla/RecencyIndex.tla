---------------------------- MODULE RecencyIndex ----------------------------
(***************************************************************************)
(* The recency index of the reuse-distance engine: each key's last         *)
(* observation is a slot of a bounded array, and an index that runs out of *)
(* slots compacts itself before it looks the next key up.  The partial     *)
(* sums the code keeps in a Fenwick tree are counts of slots here; module  *)
(* FenwickRecency carries the tree itself.                                 *)
(***************************************************************************)
EXTENDS Naturals, FiniteSets

CONSTANTS
    Keys,            \* identities a caller may observe
    Floors,          \* capacity floors a caller may construct with
    SlotLimits,      \* slot ceilings a caller may construct with
    MaxWord          \* the largest value of an unsigned word

ASSUME IndexAssumption ==
    /\ IsFiniteSet(Keys)
    /\ Floors \subseteq Nat
    /\ MaxWord \in Nat
    /\ SlotLimits \subseteq 0..MaxWord
    /\ \A floor \in Floors, limit \in SlotLimits : floor <= limit => floor < MaxWord

VARIABLES
    slots,           \* key -> the slot of its last observation
    capacity,        \* usable slots 1..capacity
    next_slot,       \* the slot of the next observation
    active_count,    \* number of keys in slots
    floor,           \* constructor argument: the least capacity
    slot_limit,      \* constructor argument: the greatest capacity
    distance,        \* the last answer: {} for a first visit, else {n}
    failed           \* an observation threw; the caller drops the instance

config == <<floor, slot_limit>>
vars == <<slots, capacity, next_slot, active_count, floor, slot_limit,
          distance, failed>>

Larger(a, b) == IF a > b THEN a ELSE b

\* Keys whose last observation is at or before slot s.
AtOrBefore(table, s) == {k \in DOMAIN table : table[k] <= s}

prefix_sum(table, s) == Cardinality(AtOrBefore(table, s))

-----------------------------------------------------------------------------
\* The constructor refuses a zero floor and a floor above the ceiling.
Init ==
    /\ floor \in Floors
    /\ slot_limit \in SlotLimits
    /\ floor # 0
    /\ floor <= slot_limit
    /\ slots = [k \in {} |-> 0]
    /\ capacity = floor
    /\ next_slot = 1
    /\ active_count = 0
    /\ distance = {}
    /\ failed = FALSE

NeedsCompaction == next_slot > capacity

\* Mutant: the check forgets that the population is doubled.
CompactionFits_undoubled ==
    /\ active_count <= slot_limit
    /\ Larger(floor, active_count + active_count) + 1 <= MaxWord

\* Checked arithmetic of a compaction: the doubled population must not exceed
\* the slot ceiling, and the storage needs one more element, the sentinel.
CompactionFits ==
    /\ active_count + active_count <= slot_limit
    /\ Larger(floor, active_count + active_count) + 1 <= MaxWord

\* The table an observation looks its key up in: renumbered 1, 2, ... in slot
\* order when the index had to compact, as it stands otherwise.
SettledSlots ==
    IF NeedsCompaction
    THEN [k \in DOMAIN slots |-> prefix_sum(slots, slots[k])]
    ELSE slots

SettledCapacity ==
    IF NeedsCompaction
    THEN Larger(floor, active_count + active_count)
    ELSE capacity

SettledNext == IF NeedsCompaction THEN active_count + 1 ELSE next_slot

Fits ==
    /\ NeedsCompaction => CompactionFits
    /\ SettledNext + 1 <= MaxWord

\* What every successful observation of k leaves behind.
Settle(k) ==
    /\ slots' = [j \in DOMAIN slots \cup {k} |->
                    IF j = k THEN SettledNext ELSE SettledSlots[j]]
    /\ capacity' = SettledCapacity
    /\ next_slot' = SettledNext + 1
    /\ UNCHANGED <<config, failed>>

ObserveFirst(k) ==
    /\ ~failed /\ Fits
    /\ k \notin DOMAIN slots
    /\ distance' = {}
    /\ active_count' = active_count + 1
    /\ Settle(k)

\* Mutant: the key's slot is looked up before the index compacts.
ObserveAgain_stale_lookup(k) ==
    /\ ~failed /\ Fits
    /\ k \in DOMAIN slots
    /\ distance' = {active_count - prefix_sum(SettledSlots, slots[k])}
    /\ UNCHANGED active_count
    /\ Settle(k)

ObserveAgain(k) ==
    /\ ~failed /\ Fits
    /\ k \in DOMAIN slots
    /\ distance' = {active_count - prefix_sum(SettledSlots, SettledSlots[k])}
    /\ UNCHANGED active_count
    /\ Settle(k)

\* The checked additions come before the first assignment, so a failed
\* observation leaves the index as it was.
ObserveFails(k) ==
    /\ ~failed /\ ~Fits
    /\ failed' = TRUE
    /\ UNCHANGED <<slots, capacity, next_slot, active_count, config, distance>>

Next == \E k \in Keys : ObserveFirst(k) \/ ObserveAgain(k) \/ ObserveFails(k)

Spec == Init /\ [][Next]_vars

-----------------------------------------------------------------------------
TypeOK ==
    /\ DOMAIN slots \subseteq Keys
    /\ slots \in [DOMAIN slots -> Nat \ {0}]
    /\ capacity \in Nat \ {0}
    /\ next_slot \in Nat \ {0}
    /\ active_count \in Nat
    /\ floor \in Nat \ {0}
    /\ slot_limit \in Nat
    /\ distance \subseteq Nat
    /\ \A a, b \in distance : a = b
    /\ failed \in BOOLEAN

(* No two keys share a slot, every used slot is behind the cursor and the   *)
(* population count is the size of the table.                               *)
SlotsConsistent ==
    /\ \A j, k \in DOMAIN slots : slots[j] = slots[k] => j = k
    /\ \A k \in DOMAIN slots : slots[k] < next_slot
    /\ active_count = Cardinality(DOMAIN slots)

(* Storage is proportional to the distinct keys and never to the length of  *)
(* the trace, and it respects the ceiling (tests: "RepeatedCompactionsKeep- *)
(* FixedDomainStorageBounded", "SlotCeilingDoesNotLimitTotalReferences").   *)
(* The cursor passes its end by the one slot that asks for a compaction.    *)
StorageBounded ==
    /\ next_slot <= capacity + 1
    /\ capacity <= slot_limit
    /\ capacity <= Larger(floor, active_count + active_count)
    /\ floor <= slot_limit
    /\ capacity + 1 <= MaxWord

(* The abstract order: newer keys are the ones in higher slots.             *)
NewerBySlot == [k \in DOMAIN slots |-> {j \in DOMAIN slots : slots[j] > slots[k]}]

Order == INSTANCE RecencyOrder WITH newer <- NewerBySlot

(* Slots, renumbering and arithmetic never show: the index answers as the   *)
(* recency order does, a compaction in the middle of an observation or not. *)
RefinesOrder == Order!Spec
=============================================================================
