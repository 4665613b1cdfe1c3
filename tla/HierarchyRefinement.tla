-------------------------- MODULE HierarchyRefinement --------------------------
(***************************************************************************)
(* The streaming analysis decides hits from reuse distances alone; the LRU *)
(* hierarchy decides them from resident lines.  Under the mapping below    *)
(* the first implements the second.                                        *)
(***************************************************************************)
EXTENDS StreamingHierarchy

\* The lines of a set an LRU cache would hold, most recent first: the line
\* with i - 1 newer lines is in position i, as far as there are ways.
ResidentLines(level, geometry, s) ==
    LET history == HistoryOf(level, s)
    IN  [i \in 1..Smaller(geometry.ways, Cardinality(DOMAIN history)) |->
            CHOOSE x \in DOMAIN history : Cardinality(history[x]) = i - 1]

LruLevel(level, geometry) ==
    [resident |-> [s \in 0..geometry.sets - 1 |-> ResidentLines(level, geometry, s)],
     ever_seen |-> BlocksSeen(level),
     hits |-> level.hits, cold |-> level.cold_misses,
     replacement |-> level.replacement_misses]

ServedCounts(task) ==
    [level \in {"L1", "LLC", "Memory"} |->
        CASE level = "L1"  -> task.l1_first_hit_count
          [] level = "LLC" -> task.llc_first_hit_count
          [] OTHER         -> task.all_cache_misses]

\* A task that failed half way stays open for ever; an analysis that refuses
\* to start a task has none open.
TaskOpen == InTask \/ failure \in {"traversal", "budget", "resolution", "basis",
                                   "sink", "ordinals", "provenance"}

Lru == INSTANCE LruHierarchy WITH
    running <- TaskOpen,
    l1 <- LruLevel(active.l1, L1),
    llc <- LruLevel(active.llc, LLC),
    served <- ServedCounts(active),
    completed <- [i \in DOMAIN completed |-> ServedCounts(completed[i])]

(* Every reference is served by the level that two LRU caches, emptied at   *)
(* each task and coupled by L1 misses only, would serve it from, and the    *)
(* summaries count just that (sections 6 to 8 of the model contract).       *)
ServesLikeLru == Lru!Spec
=============================================================================
