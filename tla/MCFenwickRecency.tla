-------------------------- MODULE MCFenwickRecency --------------------------
(* Five keys with a floor of one make the storage grow through capacities    *)
(* 1, 2, 4, 6, 8 and 10, so paths of one to four sums, walks that stop   *)
(* exactly at the capacity and capacities that are no power of two occur.    *)
EXTENDS FenwickRecency, TLC

CONSTANTS k1, k2, k3, k4, k5

KeySymmetry == Permutations({k1, k2, k3, k4, k5})
MCFloors == 1..3
MCSlotLimits == {3, 7, 16}
=============================================================================
