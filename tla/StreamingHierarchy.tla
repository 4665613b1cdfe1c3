-------------------------- MODULE StreamingHierarchy --------------------------
(***************************************************************************)
(* One streaming analysis of a module: the producer walks the tasks and    *)
(* resolves accesses, each access is split into cache lines, and every     *)
(* line is pushed through the two cache levels of the active task, all in  *)
(* nested callbacks of one thread.  A module-wide budget, a module-wide    *)
(* event limit and an optional event sink cut across the tasks; the first  *)
(* exception abandons the whole analysis.                                  *)
(***************************************************************************)
EXTENDS ExactCsrd, Integers, Sequences, Functions

CONSTANTS
    Blocks,          \* consecutive line-sized memory blocks
    MaxSpan,         \* most lines one access touches
    L1, LLC,         \* geometries: [sets, ways], of equal line size
    RootCounts,      \* how many analysed roots a module may have (at least one)
    SourceLimits, LineLimits, EventLimits      \* option values

ASSUME HierarchyAssumption ==
    /\ Blocks \subseteq Nat
    /\ \A first, last \in Blocks : first..last \subseteq Blocks
    /\ MaxSpan \in Nat \ {0}
    /\ \A geometry \in {L1, LLC} :
          geometry.sets \in Nat \ {0} /\ geometry.ways \in Nat \ {0}
    /\ RootCounts \subseteq Nat \ {0} /\ SourceLimits \subseteq Nat
    /\ LineLimits \subseteq Nat /\ EventLimits \subseteq Nat

VARIABLES
    options,         \* the caller's: event_sink, event_limit, statistics_sink,
                     \* sources, lines, and whether the linked objects have
                     \* absolute addresses
    roots,           \* tasks of the module
    stage,           \* "between" tasks, in a "task", "mapping" one access's lines,
                     \* "returned" or "failed"
    failure,         \* why the analysis threw
    budget,          \* TraceEmissionBudget: sources and lines consumed
    unroller,        \* producer: next ordinal, coverage, coverage at task start
    active,          \* StreamingHierarchyTask
    pending,         \* the next line of the access being mapped
    delivery,        \* HierarchyEventDelivery: emitted_events, events_truncated
    collected,       \* what the event sink received
    completed,       \* result.tasks
    coverage         \* result.coverage

vars == <<options, roots, stage, failure, budget, unroller, active, pending,
          delivery, collected, completed, coverage>>

-----------------------------------------------------------------------------
ColdTask ==
    [l1 |-> ColdLevel, llc |-> ColdLevel,
     source_accesses |-> 0, modeled_accesses |-> 0,
     l1_first_hit_count |-> 0, llc_first_hit_count |-> 0, all_cache_misses |-> 0,
     next_span_ordinal |-> 0]

NoLines == [block |-> 0, span |-> 0, last |-> 0]

NoCoverage == [source |-> 0, resolved |-> 0, rejected |-> 0, lines |-> 0]

Complete(c) == c.rejected = 0 /\ c.source = c.resolved

Combined(f, g, op(_, _)) == [x \in DOMAIN f |-> op(f[x], g[x])]
Plus(c, d) == Combined(c, d, LAMBDA x, y : x + y)
Minus(c, d) == Combined(c, d, LAMBDA x, y : x - y)

fixed == <<options, roots>>

Fail(reason) == stage' = "failed" /\ failure' = reason

\* analyze_streaming_hierarchy refuses a limit with no sink to apply it to.
Init ==
    /\ options \in [event_sink : BOOLEAN, event_limit : EventLimits,
                    statistics_sink : BOOLEAN, sources : SourceLimits, lines : LineLimits, absolute : BOOLEAN]
    /\ ~options.event_sink => options.event_limit = 0
    /\ roots \in RootCounts
    /\ stage = "between" /\ failure = "none"
    /\ budget = [sources |-> 0, lines |-> 0]
    /\ unroller = [ordinal |-> 0, coverage |-> NoCoverage, before |-> NoCoverage]
    /\ active = ColdTask
    /\ pending = NoLines
    /\ delivery = [emitted_events |-> 0, events_truncated |-> FALSE]
    /\ collected = <<>>
    /\ completed = <<>>
    /\ coverage = NoCoverage

-----------------------------------------------------------------------------
\* Mutant: source ordinals run on into the next task.
BeginTask_ordinals_run_on(excluded) ==
    /\ stage = "between" /\ Len(completed) < roots
    /\ unroller' = [unroller EXCEPT !.before = unroller.coverage]
    /\ IF excluded
       THEN Fail("exclusions") /\ UNCHANGED active
       ELSE stage' = "task" /\ active' = ColdTask /\ UNCHANGED failure
    /\ UNCHANGED <<fixed, budget, pending, delivery, collected, completed, coverage>>

\* Mutant: the LLC stays warm from one task to the next.
BeginTask_warm_llc(excluded) ==
    /\ stage = "between" /\ Len(completed) < roots
    /\ unroller' = [unroller EXCEPT !.ordinal = 0, !.before = unroller.coverage]
    /\ IF excluded
       THEN Fail("exclusions") /\ UNCHANGED active
       ELSE /\ stage' = "task"
            /\ active' = [ColdTask EXCEPT !.llc = active.llc]
            /\ UNCHANGED failure
    /\ UNCHANGED <<fixed, budget, pending, delivery, collected, completed, coverage>>

\* The producer starts a root: ordinals restart, and the consumer replaces its
\* task by a cold one unless opaque calls were cut out of the body.
BeginTask(excluded) ==
    /\ stage = "between" /\ Len(completed) < roots
    /\ unroller' = [unroller EXCEPT !.ordinal = 0, !.before = unroller.coverage]
    /\ IF excluded
       THEN Fail("exclusions") /\ UNCHANGED active
       ELSE stage' = "task" /\ active' = ColdTask /\ UNCHANGED failure
    /\ UNCHANGED <<fixed, budget, pending, delivery, collected, completed, coverage>>

\* Expanding the calls, before the first task, and walking the loops of a task
\* have budgets and errors of their own.
TraversalFails ==
    /\ stage = "task" \/ (stage = "between" /\ completed = <<>>)
    /\ Fail(IF stage = "task" THEN "traversal" ELSE "expansion")
    /\ UNCHANGED <<fixed, budget, unroller, active, pending, delivery, collected,
                   completed, coverage>>

\* TraceEmissionBudget: inclusive limits, charged for the whole module.
SourceAllowed == budget.sources < options.sources
SourceCharged == [budget EXCEPT !.sources = @ + 1]

\* One visited access: the budget is charged before the ordinal is given and the
\* access resolved.
Charged == [unroller EXCEPT !.ordinal = @ + 1, !.coverage.source = @ + 1]

SourceBudgetExhausted ==
    /\ stage = "task"
    /\ ~SourceAllowed
    /\ Fail("budget")
    /\ UNCHANGED <<fixed, budget, unroller, active, pending, delivery, collected,
                   completed, coverage>>

AccessRejected ==
    /\ stage = "task"
    /\ SourceAllowed
    /\ budget' = SourceCharged
    /\ unroller' = [Charged EXCEPT !.coverage.rejected = @ + 1]
    /\ Fail("resolution")
    /\ UNCHANGED <<fixed, active, pending, delivery, collected, completed, coverage>>

\* A resolved access reaches the task, which insists on absolute addresses and
\* consecutive ordinals and then maps the lines first .. last.
AccessResolved(first, last) ==
    /\ stage = "task"
    /\ SourceAllowed
    /\ budget' = SourceCharged
    /\ unroller' = [Charged EXCEPT !.coverage.resolved = @ + 1]
    /\ IF options.absolute /\ unroller.ordinal = active.source_accesses
       THEN /\ active' = [active EXCEPT !.source_accesses = @ + 1,
                                        !.next_span_ordinal = 0]
            /\ pending' = [block |-> first, span |-> 0, last |-> last]
            /\ stage' = "mapping"
            /\ UNCHANGED failure
       ELSE /\ Fail(IF options.absolute THEN "ordinals" ELSE "basis")
            /\ UNCHANGED <<active, pending>>
    /\ UNCHANGED <<fixed, delivery, collected, completed, coverage>>

-----------------------------------------------------------------------------
(* observe_line *)

b == pending.block

l1_outcome == Outcome(active.l1, L1, b)
llc_outcome == Outcome(active.llc, LLC, b)

\* Only an L1 miss asks the LLC.
first_service ==
    IF l1_outcome = "Hit" THEN "L1"
    ELSE IF llc_outcome = "Hit" THEN "LLC" ELSE "Memory"

Observed ==
    [active EXCEPT
        !.l1 = observe(@, L1, b),
        !.llc = IF l1_outcome = "Hit" THEN @ ELSE observe(@, LLC, b),
        !.l1_first_hit_count = @ + One(first_service = "L1"),
        !.llc_first_hit_count = @ + One(first_service = "LLC"),
        !.all_cache_misses = @ + One(first_service = "Memory"),
        !.modeled_accesses = @ + 1,
        !.next_span_ordinal = @ + 1]

Event ==
    [task |-> Len(completed) + 1,
     ordinal |-> unroller.ordinal - 1,
     span |-> pending.span,
     block |-> b,
     l1 |-> [outcome |-> l1_outcome, distance |-> ReuseDistance(active.l1, L1, b)],
     llc |-> IF l1_outcome = "Hit" THEN {}
             ELSE {[outcome |-> llc_outcome,
                    distance |-> ReuseDistance(active.llc, LLC, b)]},
     first_service |-> first_service]

LineAllowed == budget.lines < options.lines

\* Mutant: a reference forwarded to the LLC is charged again.
LineCharged_with_forwarding ==
    [budget EXCEPT !.lines = @ + 1 + One(l1_outcome # "Hit")]

LineCharged == [budget EXCEPT !.lines = @ + 1]

\* Mutant: an exhausted budget waits instead of throwing.
LineBudgetExhausted_waits ==
    /\ stage = "mapping"
    /\ ~LineAllowed
    /\ UNCHANGED vars

\* The line budget is charged before the line is observed.
LineBudgetExhausted ==
    /\ stage = "mapping"
    /\ ~LineAllowed
    /\ Fail("budget")
    /\ UNCHANGED <<fixed, budget, unroller, active, pending, delivery, collected,
                   completed, coverage>>

ProvenanceAgrees ==
    /\ unroller.ordinal - 1 = active.source_accesses - 1
    /\ pending.span = active.next_span_ordinal

\* Mapping goes on with the access's next line, or back to the producer.
Advance ==
    /\ UNCHANGED failure
    /\ IF pending.block = pending.last
       THEN stage' = "task" /\ pending' = NoLines
       ELSE /\ pending' = [pending EXCEPT !.block = @ + 1, !.span = @ + 1]
            /\ UNCHANGED stage

LimitReached == delivery.emitted_events = options.event_limit

\* Mutant: a dropped event leaves no mark.
Undelivered_unmarked ==
    /\ options.event_sink => LimitReached
    /\ UNCHANGED <<delivery, collected>>
    /\ Advance

\* Nothing to deliver: no sink, or the limit is used up and the event is dropped.
Undelivered ==
    /\ options.event_sink => LimitReached
    /\ delivery' = [delivery EXCEPT !.events_truncated = options.event_sink \/ @]
    /\ UNCHANGED collected
    /\ Advance

Delivered ==
    /\ options.event_sink /\ ~LimitReached
    /\ collected' = Append(collected, Event)
    /\ delivery' = [delivery EXCEPT !.emitted_events = @ + 1]
    /\ Advance

\* Mutant: the sink's exception is swallowed.
SinkThrows_swallowed ==
    /\ options.event_sink /\ ~LimitReached
    /\ UNCHANGED <<delivery, collected>>
    /\ Advance

SinkThrows ==
    /\ options.event_sink /\ ~LimitReached
    /\ Fail("sink")
    /\ UNCHANGED <<pending, delivery, collected>>

ObserveLine ==
    /\ stage = "mapping"
    /\ LineAllowed
    /\ budget' = LineCharged
    /\ IF ProvenanceAgrees
       THEN /\ active' = Observed
            /\ Undelivered \/ Delivered \/ SinkThrows
       ELSE /\ Fail("provenance")
            /\ UNCHANGED <<active, pending, delivery, collected>>
    /\ UNCHANGED <<fixed, unroller, completed, coverage>>

-----------------------------------------------------------------------------
(* The end of a task: summaries, runtime checks, transfer of the result.    *)

Total(histogram) == FoldFunction(+, 0, histogram)

\* summarize_streaming_level's checks of one level's counts.
LevelConserves(level) ==
    /\ level.hits + level.cold_misses + level.replacement_misses = level.lookups
    /\ Total(level.histogram) = level.hits + level.replacement_misses
    /\ level.unique_lines = level.cold_misses

LevelSummary(level) ==
    [lookups |-> level.lookups, hits |-> level.hits,
     misses |-> level.cold_misses + level.replacement_misses,
     cold_misses |-> level.cold_misses,
     replacement_misses |-> level.replacement_misses,
     unique_lines |-> level.unique_lines, histogram |-> level.histogram]

\* Coverage of the task so far, as the producer reports it at the end.
TaskCoverage == Minus(unroller.coverage, unroller.before)

Summary ==
    [source_accesses |-> active.source_accesses,
     modeled_accesses |-> active.modeled_accesses,
     l1 |-> LevelSummary(active.l1), llc |-> LevelSummary(active.llc),
     l1_first_hit_count |-> active.l1_first_hit_count,
     llc_first_hit_count |-> active.llc_first_hit_count,
     all_cache_misses |-> active.all_cache_misses,
     coverage |-> [TaskCoverage EXCEPT !.lines = active.modeled_accesses]]

\* finalize_hierarchy_service's checks of a task summary.
ServiceConserves(task) ==
    /\ \A level \in {task.l1, task.llc} :
          /\ level.cold_misses + level.replacement_misses = level.misses
          /\ level.hits + level.misses = level.lookups
    /\ task.llc.lookups = task.l1.misses
    /\ task.modeled_accesses = task.l1.lookups
    /\ task.l1_first_hit_count = task.l1.hits
    /\ task.llc_first_hit_count = task.llc.hits
    /\ task.all_cache_misses = task.llc.misses
    /\ task.l1_first_hit_count + task.llc_first_hit_count + task.all_cache_misses
          = task.modeled_accesses
    /\ task.llc_first_hit_count + task.all_cache_misses = task.llc.lookups
    /\ Complete(task.coverage)
    /\ task.source_accesses = task.coverage.source
    /\ task.modeled_accesses = task.coverage.lines

\* Every check finish() makes before it lets the summary out.
TaskChecks ==
    /\ Complete(TaskCoverage)
    /\ TaskCoverage.source = active.source_accesses
    /\ TaskCoverage.lines = 0
    /\ LevelConserves(active.l1) /\ LevelConserves(active.llc)
    /\ ServiceConserves(Summary)

TaskCompleted ==
    /\ completed' = Append(completed, Summary)
    /\ coverage' = Plus(coverage, Summary.coverage)
    /\ stage' = "between"
    /\ UNCHANGED failure

\* The statistics sink runs on the finished summary, before it is stored.
StatisticsSinkThrows ==
    /\ options.statistics_sink
    /\ Fail("sink")
    /\ UNCHANGED <<completed, coverage>>

EndTask ==
    /\ stage = "task"
    /\ IF TaskChecks
       THEN TaskCompleted \/ StatisticsSinkThrows
       ELSE Fail("logic") /\ UNCHANGED <<completed, coverage>>
    /\ UNCHANGED <<fixed, budget, unroller, active, pending, delivery, collected>>

\* After the last task the producer's own totals must agree with the result's.
ModuleChecks ==
    /\ Complete(unroller.coverage)
    /\ unroller.coverage.lines = 0
    /\ unroller.coverage.source = coverage.source
    /\ unroller.coverage.resolved = coverage.resolved
    /\ unroller.coverage.rejected = coverage.rejected

Return ==
    /\ stage = "between" /\ Len(completed) = roots
    /\ IF ModuleChecks THEN stage' = "returned" /\ UNCHANGED failure
                       ELSE Fail("logic")
    /\ UNCHANGED <<fixed, budget, unroller, active, pending, delivery, collected,
                   completed, coverage>>

Produce ==
    \/ TraversalFails
    \/ SourceBudgetExhausted
    \/ AccessRejected
    \/ \E first, last \in Blocks :
          /\ first <= last /\ last - first < MaxSpan
          /\ AccessResolved(first, last)

Next ==
    \/ \E excluded \in BOOLEAN : BeginTask(excluded)
    \/ Produce
    \/ LineBudgetExhausted
    \/ ObserveLine
    \/ EndTask
    \/ Return

\* One thread runs the analysis to its end; the module's loops are finite and
\* the callbacks return or throw.
Spec == Init /\ [][Next]_vars
FairSpec == Spec /\ WF_vars(Next)

-----------------------------------------------------------------------------
TypeOK ==
    /\ stage \in {"between", "task", "mapping", "returned", "failed"}
    /\ failure \in {"none", "expansion", "exclusions", "traversal", "budget",
                    "resolution", "basis", "ordinals", "provenance", "sink", "logic"}
    /\ (failure = "none") <=> (stage # "failed")
    /\ budget \in [sources : 0..options.sources, lines : 0..options.lines]
    /\ Len(completed) <= roots
    /\ pending.block \in Blocks \cup {0} /\ pending.last \in Blocks \cup {0}

InTask == stage \in {"task", "mapping"}

\* A count summed over the finished tasks.
OverTasks(count(_)) ==
    SumFunction([i \in DOMAIN completed |-> count(completed[i])])

(* The consistency checks the program throws std::logic_error on, and the   *)
(* provenance and ordinal checks between producer and task, never fire:     *)
(* counters that travel on separate paths through the callbacks agree.      *)
ChecksNeverFire == failure \notin {"logic", "provenance", "ordinals"}

(* "One module budget charges sources and source-to-L1 lines, never LLC     *)
(* forwarding twice": what the budget has lent, across task boundaries, is  *)
(* exactly what the tasks have modelled, and the producer has charged.      *)
BudgetCharged ==
    stage # "failed" =>
        /\ budget.lines = OverTasks(LAMBDA t : t.modeled_accesses)
                            + (IF InTask THEN active.modeled_accesses ELSE 0)
        /\ budget.sources = OverTasks(LAMBDA t : t.source_accesses)
                            + (IF InTask THEN active.source_accesses ELSE 0)
        /\ budget.sources = unroller.coverage.source

(* Every block's first L1 lookup misses and so reaches the LLC: the two     *)
(* levels of a task have seen the same blocks, whatever their geometries.   *)
SameFootprint == BlocksSeen(active.l1) = BlocksSeen(active.llc)

-----------------------------------------------------------------------------
\* The rules validate_hierarchy_events imposes on a collected event.
ValidObservation(o) == o.outcome = "ColdMiss" <=> o.distance = {}

ValidEvent(e) ==
    /\ ValidObservation(e.l1)
    /\ \A o \in e.llc : ValidObservation(o)
    /\ e.llc = {} <=> e.l1.outcome = "Hit"
    /\ e.first_service =
          IF e.l1.outcome = "Hit" THEN "L1"
          ELSE IF \E o \in e.llc : o.outcome = "Hit" THEN "LLC" ELSE "Memory"

FollowsInOrder(e, f) ==
    \/ f.task > e.task /\ f.ordinal = 0 /\ f.span = 0
    \/ f.task = e.task /\ f.ordinal = e.ordinal /\ f.span = e.span + 1
                       /\ f.block > e.block
    \/ f.task = e.task /\ f.ordinal = e.ordinal + 1 /\ f.span = 0

Smaller(m, n) == IF m < n THEN m ELSE n

(* The diagnostics a sink received are what the event validation accepts:   *)
(* the first event_limit references of the module in source and span order, *)
(* and the truncation mark exactly when a reference was left out.           *)
EventsDescribeRun ==
    stage # "failed" /\ options.event_sink =>
        /\ Len(collected) = Smaller(options.event_limit, budget.lines)
        /\ delivery.emitted_events = Len(collected)
        /\ delivery.events_truncated = (budget.lines > options.event_limit)
        /\ \A i \in DOMAIN collected :
              /\ ValidEvent(collected[i])
              /\ IF i = 1 THEN collected[i].ordinal = 0 /\ collected[i].span = 0
                 ELSE FollowsInOrder(collected[i - 1], collected[i])

(* "An event limit ... never shortens analysis or changes summary counters": *)
(* events that were not cut off add up to the summaries, task by task.       *)
EventsAddUp ==
    stage = "returned" /\ options.event_sink /\ ~delivery.events_truncated =>
        \A i \in DOMAIN completed :
            LET served(level) ==
                    Cardinality({j \in DOMAIN collected :
                        collected[j].task = i /\ collected[j].first_service = level})
            IN  /\ served("L1") = completed[i].l1_first_hit_count
                /\ served("LLC") = completed[i].llc_first_hit_count
                /\ served("Memory") = completed[i].all_cache_misses

-----------------------------------------------------------------------------
\* The rules validate_level imposes on a level of a result.
ValidLevel(level, geometry) ==
    LET hits == {d \in DOMAIN level.histogram : d < geometry.ways}
    IN  /\ \A d \in DOMAIN level.histogram :
              level.histogram[d] > 0 /\ d < level.unique_lines
        /\ SumFunctionOnSet(level.histogram, hits) = level.hits
        /\ SumFunctionOnSet(level.histogram, DOMAIN level.histogram \ hits)
              = level.replacement_misses
        /\ level.unique_lines = level.cold_misses

(* A returned result has a summary of every task, in order, that the result *)
(* validation of the artifact writer accepts: no distance reaches the       *)
(* number of distinct lines, the LLC saw no line the L1 did not, and the    *)
(* module's coverage is the sum of the tasks' and complete.                 *)
ResultIsValid ==
    stage = "returned" =>
        /\ Len(completed) = roots
        /\ \A i \in DOMAIN completed :
              LET task == completed[i]
              IN  /\ ValidLevel(task.l1, L1) /\ ValidLevel(task.llc, LLC)
                  /\ task.llc.unique_lines <= task.l1.unique_lines
                  /\ task.source_accesses <= task.modeled_accesses
                  /\ task.source_accesses = 0 => task.modeled_accesses = 0
                  /\ ServiceConserves(task)
        /\ Complete(coverage)
        /\ \A field \in DOMAIN coverage :
              coverage[field] = OverTasks(LAMBDA t : t.coverage[field])

(* Every analysis returns or throws: the budget bounds what an endless      *)
(* stream of accesses could make it do.                                     *)
Ends == <>(stage \in {"returned", "failed"})
=============================================================================
