--------------------------- MODULE MCBatchHierarchy ---------------------------
(* Every trace of up to six lines over four blocks.  With one two-way set    *)
(* above two one-way sets the levels sort the lines differently; six lines  *)
(* in one set make a tree with a node over four positions.                  *)
EXTENDS BatchHierarchy

MCBlocks == 0..3
OneSetTwoWays == [sets |-> 1, ways |-> 2]
TwoSetsOneWay == [sets |-> 2, ways |-> 1]
=============================================================================
