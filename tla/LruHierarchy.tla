----------------------------- MODULE LruHierarchy -----------------------------
(***************************************************************************)
(* What the hierarchy analysis stands for: two real set-associative LRU    *)
(* caches in a row, emptied at the start of every task.  Resident lines    *)
(* only, no reuse distances; the test oracle's explicit LRU simulation.    *)
(***************************************************************************)
EXTENDS Naturals, Sequences, SequencesExt

CONSTANTS Blocks,    \* memory blocks of one cache line
          L1, LLC    \* geometries: [sets, ways]

VARIABLES
    running,         \* a task is being analysed
    l1, llc,         \* the two levels
    served,          \* references of the current task, by the level serving them
    completed        \* served, of every finished task

vars == <<running, l1, llc, served, completed>>

SetOf(geometry, b) == b % geometry.sets

EmptyLevel(geometry) ==
    [resident |-> [s \in 0..geometry.sets - 1 |-> <<>>],   \* most recent first
     ever_seen |-> {},
     hits |-> 0, cold |-> 0, replacement |-> 0]

Resident(level, geometry, b) ==
    b \in ToSet(level.resident[SetOf(geometry, b)])

\* lookup: a resident line moves to the front.
Moved(lines, b) ==
    LET resident == CHOOSE i \in DOMAIN lines : lines[i] = b
    IN  <<b>> \o RemoveAt(lines, resident)

\* fill: a line comes in at the front, over the least recent one of a full set.
Filled(lines, ways, b) ==
    <<b>> \o (IF Len(lines) = ways THEN Front(lines) ELSE lines)

Promoted(level, geometry, b) ==
    LET lines == level.resident[SetOf(geometry, b)]
    IN  IF Resident(level, geometry, b) THEN Moved(lines, b)
        ELSE Filled(lines, geometry.ways, b)

\* lookup, and fill after a miss.
Demand(level, geometry, b) ==
    [resident |-> [level.resident EXCEPT ![SetOf(geometry, b)] =
                      Promoted(level, geometry, b)],
     ever_seen |-> level.ever_seen \cup {b},
     hits |-> level.hits + (IF Resident(level, geometry, b) THEN 1 ELSE 0),
     cold |-> level.cold + (IF b \in level.ever_seen THEN 0 ELSE 1),
     replacement |-> level.replacement +
        (IF b \in level.ever_seen /\ ~Resident(level, geometry, b) THEN 1 ELSE 0)]

ServiceLevel(b) ==
    IF Resident(l1, L1, b) THEN "L1"
    ELSE IF Resident(llc, LLC, b) THEN "LLC" ELSE "Memory"

NothingServed == [level \in {"L1", "LLC", "Memory"} |-> 0]

-----------------------------------------------------------------------------
Init ==
    /\ running = FALSE
    /\ l1 = EmptyLevel(L1) /\ llc = EmptyLevel(LLC)
    /\ served = NothingServed
    /\ completed = <<>>

StartTask ==
    /\ ~running
    /\ running' = TRUE
    /\ l1' = EmptyLevel(L1) /\ llc' = EmptyLevel(LLC)
    /\ served' = NothingServed
    /\ UNCHANGED completed

\* Every reference asks the L1; the LLC is asked only when the L1 misses.
Reference(b) ==
    /\ running
    /\ l1' = Demand(l1, L1, b)
    /\ llc' = IF Resident(l1, L1, b) THEN llc ELSE Demand(llc, LLC, b)
    /\ served' = [served EXCEPT ![ServiceLevel(b)] = @ + 1]
    /\ UNCHANGED <<running, completed>>

FinishTask ==
    /\ running
    /\ running' = FALSE
    /\ completed' = Append(completed, served)
    /\ UNCHANGED <<l1, llc, served>>

Next == StartTask \/ FinishTask \/ \E b \in Blocks : Reference(b)

Spec == Init /\ [][Next]_vars
=============================================================================
