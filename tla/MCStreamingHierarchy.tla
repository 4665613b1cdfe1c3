------------------------- MODULE MCStreamingHierarchy -------------------------
(* Whole modules: two roots, every option, failures anywhere.  The L1 has   *)
(* two sets of one way and the LLC one set of two ways, so the levels       *)
(* decode the same block differently, and five line references over four    *)
(* blocks suffice for every outcome at both levels: 0 1 2 0 replaces in     *)
(* both, 0 2 0 hits the LLC, and 1 0 2 1 hits an L1 line the LLC evicted.   *)
EXTENDS StreamingHierarchy

MCBlocks == 0..3
TwoSetsOneWay == [sets |-> 2, ways |-> 1]
OneSetTwoWays == [sets |-> 1, ways |-> 2]
MCRootCounts == {2}
MCSources == {4}
MCLines == {5}
MCEvents == {0, 3, 5}
=============================================================================
