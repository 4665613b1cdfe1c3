--------------------------- MODULE MCRecencyIndex ---------------------------
(* Four keys, floors around the interesting ones (1, the default's role of  *)
(* a larger floor, and an invalid 0) and ceilings low enough that doubling  *)
(* the population overflows them, with a word small enough to bite as well. *)
EXTENDS RecencyIndex, TLC

CONSTANTS k1, k2, k3, k4

KeySymmetry == Permutations({k1, k2, k3, k4})
MCFloors == 0..3
MCSlotLimits == {1, 2, 4, 5, 7, 8}
=============================================================================
