---------------------------- MODULE RecencyOrder ----------------------------
(***************************************************************************)
(* What a recency index promises, with no slots, no capacity and no clock: *)
(* an observation answers with the number of distinct keys observed since  *)
(* the key's last observation, and makes the key the most recent.          *)
(***************************************************************************)
EXTENDS Recency

CONSTANT Keys        \* the opaque identities an index may be asked about

VARIABLES
    newer,           \* the recency history
    distance         \* the last answer: {} for a first visit, else {n}

vars == <<newer, distance>>

Init ==
    /\ newer = Unseen
    /\ distance = {}

Observe(k) ==
    /\ distance' = Distance(newer, k)
    /\ newer' = Touched(newer, k)

Next == \E k \in Keys : Observe(k)

Spec == Init /\ [][Next]_vars
=============================================================================
