---------------------------- MODULE BatchHierarchy ----------------------------
(***************************************************************************)
(* The batch analysis of one task: all of its line references are known.   *)
(* A level sorts them by cache set and works set after set, each with a    *)
(* tree over the positions of that set's references; the L1 misses, in     *)
(* program order, are the input of the LLC; a last pass over the L1        *)
(* references pairs them with the LLC's answers.  The streaming analysis   *)
(* (ExactCsrd) has to come to the same events and counts.                  *)
(***************************************************************************)
EXTENDS ExactCsrd, Integers, Sequences, Functions

CONSTANTS
    Blocks, MaxLines,                    \* the traces: lines of a task
    L1, LLC                              \* geometries: [sets, ways]

ASSUME BatchAssumption ==
    /\ Blocks \subseteq Nat /\ MaxLines \in Nat
    /\ \A geometry \in {L1, LLC} :
          geometry.sets \in Nat \ {0} /\ geometry.ways \in Nat \ {0}

VARIABLES
    trace,           \* block numbers of the task's line references
    stage,           \* "L1", "LLC", "pair", "done" or "failed"
    mappings,        \* input of the level at work
    forwarded,       \* positions in the trace the LLC's mappings came from
    todo,            \* cache sets still to be analysed
    index,           \* position in the current set's lines
    positions,       \* FenwickTree over those positions
    last_seen,       \* block -> its last position in the set
    level,           \* BatchCsrdResult of the level at work
    l1,              \* the finished L1's result and summary
    events,          \* rows paired so far
    llc_index        \* LLC rows used by them

vars == <<trace, stage, mappings, forwarded, todo, index, positions, last_seen,
          level, l1, events, llc_index>>

-----------------------------------------------------------------------------
(* FenwickTree                                                              *)

LowBit[p \in 1..MaxLines] == IF p % 2 = 1 THEN 1 ELSE 2 * LowBit[p \div 2]

EmptyTree(size) == [p \in 1..size |-> 0]

Path(position, size) ==
    LET path[p \in 1..size] ==
            {p} \cup (IF p + LowBit[p] > size THEN {} ELSE path[p + LowBit[p]])
    IN  path[position]

add(tree, position, delta) ==
    [p \in DOMAIN tree |->
        tree[p] + (IF p \in Path(position, Len(tree)) THEN delta ELSE 0)]

prefix_sum(tree, position) ==
    LET total[p \in 0..position] == IF p = 0 THEN 0 ELSE tree[p] + total[p - LowBit[p]]
    IN  total[position]

-----------------------------------------------------------------------------
SetsOf(lines, geometry) == {SetOf(geometry, lines[i]) : i \in DOMAIN lines}

Pending(rows) ==
    [accesses |-> [i \in 1..rows |-> [outcome |-> "ColdMiss", distance |-> {}]],
     hits |-> 0, cold_misses |-> 0, replacement_misses |-> 0,
     histogram |-> [d \in {} |-> 0]]

Geometry == IF stage = "L1" THEN L1 ELSE LLC

\* Sets are worked through in ascending order (std::map); only the sets that
\* have references are.
CurrentSet == CHOOSE s \in todo : \A t \in todo : s <= t

\* Positions in program order: the n-th has n - 1 before it.
Ascending(S) ==
    [n \in 1..Cardinality(S) |->
        CHOOSE i \in S : Cardinality({j \in S : j < i}) = n - 1]

\* Input indices of a set's lines, in order.
LinesOf(s) == Ascending({i \in DOMAIN mappings : SetOf(Geometry, mappings[i]) = s})

StartLevel(lines, geometry) ==
    /\ mappings' = lines
    /\ todo' = SetsOf(lines, geometry)
    /\ index' = 1
    /\ positions' = <<>>
    /\ last_seen' = [b \in {} |-> 0]
    /\ level' = Pending(Len(lines))

Init ==
    /\ trace \in UNION {[1..n -> Blocks] : n \in 0..MaxLines}
    /\ stage = "L1"
    /\ mappings = trace
    /\ forwarded = <<>>
    /\ todo = SetsOf(trace, L1)
    /\ index = 1
    /\ positions = <<>>
    /\ last_seen = [b \in {} |-> 0]
    /\ level = Pending(Len(trace))
    /\ l1 = Pending(0)
    /\ events = <<>>
    /\ llc_index = 0

-----------------------------------------------------------------------------
Tree == IF index = 1 THEN EmptyTree(Len(LinesOf(CurrentSet))) ELSE positions

\* Lines of the set seen between the two visits.  Positions up to the previous
\* one count it as well, so it drops out of the difference.
Newer(b) == prefix_sum(Tree, index - 1) - prefix_sum(Tree, last_seen[b])

Recorded(row, distance, outcome) ==
    [accesses |-> [level.accesses EXCEPT ![row] =
                      [outcome |-> outcome, distance |-> distance]],
     hits |-> level.hits + One(outcome = "Hit"),
     cold_misses |-> level.cold_misses + One(outcome = "ColdMiss"),
     replacement_misses |->
        level.replacement_misses + One(outcome = "ReplacementMiss"),
     histogram |-> Counted(level.histogram, distance)]

\* Mutant: the line stays counted at its previous position.
Moved_twice(b) == add(Tree, index, 1)

Moved(b) ==
    add(IF b \in DOMAIN last_seen THEN add(Tree, last_seen[b], -1) ELSE Tree,
        index, 1)

\* analyze_set, one line; after the last one the next set begins afresh.
AnalyzeLine ==
    /\ stage \in {"L1", "LLC"} /\ todo # {}
    /\ LET rows == LinesOf(CurrentSet)
           b == mappings[rows[index]]
           distance == IF b \in DOMAIN last_seen THEN {Newer(b)} ELSE {}
       IN  /\ level' = Recorded(rows[index], distance, OutcomeOf(distance, Geometry))
           /\ IF index = Len(rows)
              THEN /\ todo' = todo \ {CurrentSet}
                   /\ index' = 1 /\ positions' = <<>>
                   /\ last_seen' = [c \in {} |-> 0]
              ELSE /\ index' = index + 1
                   /\ positions' = Moved(b)
                   /\ last_seen' = [c \in DOMAIN last_seen \cup {b} |->
                                       IF c = b THEN index ELSE last_seen[c]]
                   /\ UNCHANGED todo
    /\ UNCHANGED <<trace, stage, mappings, forwarded, l1, events, llc_index>>

\* summarize_hierarchy_level's checks.
LevelChecks ==
    /\ level.hits + level.cold_misses + level.replacement_misses = Len(mappings)
    /\ SumFunction(level.histogram) = level.hits + level.replacement_misses
    /\ Cardinality(Range(mappings)) = level.cold_misses

\* Mutant: what hits the L1 is forwarded as well.
ForwardedRows_all == [i \in 1..Len(mappings) |-> i]

ForwardedRows ==
    Ascending({i \in DOMAIN mappings : level.accesses[i].outcome # "Hit"})

\* The L1 is done: its misses, mapped again, are the LLC's input.
FinishL1 ==
    /\ stage = "L1" /\ todo = {}
    /\ IF LevelChecks
       THEN /\ l1' = level
            /\ forwarded' = ForwardedRows
            /\ StartLevel([j \in 1..Len(ForwardedRows) |-> mappings[ForwardedRows[j]]], LLC)
            /\ stage' = "LLC"
       ELSE /\ stage' = "failed"
            /\ UNCHANGED <<mappings, forwarded, todo, index, positions, last_seen,
                           level, l1>>
    /\ UNCHANGED <<trace, events, llc_index>>

FinishLlc ==
    /\ stage = "LLC" /\ todo = {}
    /\ stage' = IF LevelChecks THEN "pair" ELSE "failed"
    /\ UNCHANGED <<trace, mappings, forwarded, todo, index, positions, last_seen,
                   level, l1, events, llc_index>>

-----------------------------------------------------------------------------
Row == Len(events) + 1

\* aggregate_hierarchy_task, one L1 row: a miss takes the next LLC row, which
\* must be there and of the same reference.
PairHit ==
    /\ stage = "pair" /\ Row <= Len(trace)
    /\ l1.accesses[Row].outcome = "Hit"
    /\ events' = Append(events, [l1 |-> l1.accesses[Row], llc |-> {},
                                 first_service |-> "L1"])
    /\ UNCHANGED <<trace, stage, mappings, forwarded, todo, index, positions,
                   last_seen, level, l1, llc_index>>

PairMiss ==
    /\ stage = "pair" /\ Row <= Len(trace)
    /\ l1.accesses[Row].outcome # "Hit"
    /\ IF llc_index < Len(forwarded) /\ forwarded[llc_index + 1] = Row
       THEN LET answer == level.accesses[llc_index + 1]
            IN  /\ events' = Append(events,
                      [l1 |-> l1.accesses[Row], llc |-> {answer},
                       first_service |-> IF answer.outcome = "Hit" THEN "LLC"
                                         ELSE "Memory"])
                /\ llc_index' = llc_index + 1
                /\ UNCHANGED stage
       ELSE stage' = "failed" /\ UNCHANGED <<events, llc_index>>
    /\ UNCHANGED <<trace, mappings, forwarded, todo, index, positions, last_seen,
                   level, l1>>

ServedBy(service) == Cardinality({i \in DOMAIN events : events[i].first_service = service})

\* finalize_hierarchy_service's checks of the counts taken on different paths.
ServiceChecks ==
    /\ Len(forwarded) = l1.cold_misses + l1.replacement_misses
    /\ ServedBy("L1") = l1.hits
    /\ ServedBy("LLC") = level.hits
    /\ ServedBy("Memory") = level.cold_misses + level.replacement_misses
    /\ ServedBy("L1") + ServedBy("LLC") + ServedBy("Memory") = Len(trace)

FinishTask ==
    /\ stage = "pair" /\ Row > Len(trace)
    /\ stage' = IF llc_index = Len(forwarded) /\ ServiceChecks THEN "done" ELSE "failed"
    /\ UNCHANGED <<trace, mappings, forwarded, todo, index, positions, last_seen,
                   level, l1, events, llc_index>>

Next ==
    \/ AnalyzeLine
    \/ FinishL1 \/ FinishLlc
    \/ PairHit \/ PairMiss \/ FinishTask

Spec == Init /\ [][Next]_vars

-----------------------------------------------------------------------------
(* The streaming analysis of the same trace, as a fold of ExactCsrd.        *)

\* Both levels after one more line, and the event it gives.
Followed(s, b) ==
    LET upper == Outcome(s.l1, L1, b)
        lower == Outcome(s.llc, LLC, b)
    IN  [l1 |-> observe(s.l1, L1, b),
         llc |-> IF upper = "Hit" THEN s.llc ELSE observe(s.llc, LLC, b),
         events |-> Append(s.events,
            [l1 |-> [outcome |-> upper, distance |-> ReuseDistance(s.l1, L1, b)],
             llc |-> IF upper = "Hit" THEN {}
                     ELSE {[outcome |-> lower,
                            distance |-> ReuseDistance(s.llc, LLC, b)]},
             first_service |-> IF upper = "Hit" THEN "L1"
                               ELSE IF lower = "Hit" THEN "LLC"
                               ELSE "Memory"])]

Streamed ==
    LET after[n \in 0..Len(trace)] ==
            IF n = 0 THEN [l1 |-> ColdLevel, llc |-> ColdLevel, events |-> <<>>]
            ELSE Followed(after[n - 1], trace[n])
    IN  after[Len(trace)]

SameCounts(batch, streaming) ==
    /\ batch.hits = streaming.hits
    /\ batch.cold_misses = streaming.cold_misses
    /\ batch.replacement_misses = streaming.replacement_misses
    /\ batch.histogram = streaming.histogram

TypeOK ==
    /\ stage \in {"L1", "LLC", "pair", "done", "failed"}
    /\ DOMAIN level.accesses = DOMAIN mappings
    /\ llc_index \in 0..Len(forwarded)
    /\ Len(events) <= Len(trace)
    /\ \A p \in DOMAIN positions : positions[p] \in 0..LowBit[p]
    /\ \A b \in DOMAIN last_seen : last_seen[b] \in 1 .. index - 1

(* Working set after set over a whole trace gives the events, in program    *)
(* order, and the counts of observing the lines as they come (the batch     *)
(* analysis is what the tests hold the streaming one against).              *)
BatchMatchesStreaming ==
    stage = "done" =>
        /\ events = Streamed.events
        /\ SameCounts(l1, Streamed.l1)
        /\ SameCounts(level, Streamed.llc)

(* "hierarchy missing LLC row", "leftover LLC rows", "paired row provenance *)
(* disagrees" and the conservation checks are never thrown: the rows the    *)
(* L1 forwarded and the rows it later asks for are the same, in order.      *)
RowsPair == stage # "failed"
=============================================================================
