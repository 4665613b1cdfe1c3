------------------------------ MODULE ExactCsrd ------------------------------
(***************************************************************************)
(* One cache level of the reuse-distance engine, as a value: a recency     *)
(* history per touched cache set, never forgotten, and the counts of the   *)
(* level's input stream.  The level holds no resident lines: an outcome is *)
(* read off the distance.                                                  *)
(*                                                                         *)
(* Every checked addition of the code raises a count that is at most the   *)
(* number of line references, which the emission budget keeps within one   *)
(* word: none can overflow, and none is modelled as failing.               *)
(***************************************************************************)
EXTENDS Recency

SetOf(geometry, b) == b % geometry.sets

ColdLevel ==
    [sets |-> [s \in {} |-> Unseen],          \* touched set -> its history
     lookups |-> 0, hits |-> 0, cold_misses |-> 0, replacement_misses |-> 0,
     unique_lines |-> 0,
     histogram |-> [d \in {} |-> 0]]          \* finite distance -> references

HistoryOf(level, s) == IF s \in DOMAIN level.sets THEN level.sets[s] ELSE Unseen

ReuseDistance(level, geometry, b) ==
    Distance(HistoryOf(level, SetOf(geometry, b)), b)

\* Mutant: a distance equal to the associativity still hits.
OutcomeOf_inclusive(distance, geometry) ==
    IF distance = {} THEN "ColdMiss"
    ELSE IF \A d \in distance : d <= geometry.ways THEN "Hit"
    ELSE "ReplacementMiss"

OutcomeOf(distance, geometry) ==
    IF distance = {} THEN "ColdMiss"
    ELSE IF \A d \in distance : d < geometry.ways THEN "Hit"
    ELSE "ReplacementMiss"

Outcome(level, geometry, b) ==
    OutcomeOf(ReuseDistance(level, geometry, b), geometry)

Counted(histogram, distance) ==
    [d \in DOMAIN histogram \cup distance |->
        (IF d \in DOMAIN histogram THEN histogram[d] ELSE 0)
      + (IF d \in distance THEN 1 ELSE 0)]

One(condition) == IF condition THEN 1 ELSE 0

observe(level, geometry, b) ==
    LET s == SetOf(geometry, b)
        distance == ReuseDistance(level, geometry, b)
        outcome == OutcomeOf(distance, geometry)
    IN  [sets |-> [t \in DOMAIN level.sets \cup {s} |->
                      IF t = s THEN Touched(HistoryOf(level, s), b)
                               ELSE level.sets[t]],
         lookups |-> level.lookups + 1,
         hits |-> level.hits + One(outcome = "Hit"),
         cold_misses |-> level.cold_misses + One(outcome = "ColdMiss"),
         replacement_misses |->
            level.replacement_misses + One(outcome = "ReplacementMiss"),
         unique_lines |-> level.unique_lines + One(outcome = "ColdMiss"),
         histogram |-> Counted(level.histogram, distance)]

BlocksSeen(level) == UNION {DOMAIN level.sets[s] : s \in DOMAIN level.sets}
=============================================================================
