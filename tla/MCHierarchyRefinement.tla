------------------------ MODULE MCHierarchyRefinement ------------------------
(* Long tasks without diagnostics: seven line references over five blocks   *)
(* and two tasks, with a two-way L1 so that the recency order inside a set  *)
(* decides what stays.                                                      *)
EXTENDS HierarchyRefinement

MCBlocks == 0..4
OneSetTwoWays == [sets |-> 1, ways |-> 2]
TwoSetsTwoWays == [sets |-> 2, ways |-> 2]
MCRootCounts == {2}
MCLimits == {7}
NoEvents == {0}
=============================================================================
