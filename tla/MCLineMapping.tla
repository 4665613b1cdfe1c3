---------------------------- MODULE MCLineMapping ----------------------------
(* Every access of up to eleven bytes in a four-bit address space, with      *)
(* objects that start at zero, at a distance from the address, and so high  *)
(* that the offset overflows first; lines of 1, 2, 4 and 8 bytes, and       *)
(* geometries a configuration must not have.                                *)
EXTENDS LineMapping

MCAddresses == 0..15
MCOffsets == {0, 3, 8, 15}
MCSizes == 0..11 \cup {15}
MCGeometries ==
    [line_size : {1, 2, 4, 8}, line_count : {4}, associativity : {2}]
    \cup {[line_size |-> 3, line_count |-> 4, associativity |-> 2],
          [line_size |-> 4, line_count |-> 2, associativity |-> 4],
          [line_size |-> 0, line_count |-> 4, associativity |-> 1]}
=============================================================================
