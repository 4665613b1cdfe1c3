------------------------------- MODULE Recency -------------------------------
(***************************************************************************)
(* Recency histories as values: for every key seen, the keys observed      *)
(* after its last observation.  A reuse distance is the size of that set.  *)
(***************************************************************************)
EXTENDS Naturals, FiniteSets

Unseen == [k \in {} |-> {}]

\* k becomes the most recent key: nothing is newer than it, and it is newer
\* than every other key.
Touched(history, k) ==
    [j \in DOMAIN history \cup {k} |-> IF j = k THEN {} ELSE history[j] \cup {k}]

\* The answer to an observation of k: {} on a first visit, {n} otherwise.
Distance(history, k) ==
    IF k \in DOMAIN history THEN {Cardinality(history[k])} ELSE {}
=============================================================================
