# YARDA: specifications of the reuse-distance and cache-hierarchy analyzer

YARDA reads a loop-and-access description of a program (a MAP module), the
addresses of its objects (ELF) and a cache configuration, and reports for every
analysed task how often the L1 and the last-level cache (LLC) serve a reference.
It never simulates cache contents: a level keeps, per set, the *recency order* of
the lines seen and derives hit or miss from the reuse distance. The program is
C++17 and single-threaded; its difficulty lies in long sequences (compaction and
renumbering after thousands of accesses), in nested callbacks that keep the same
count at several places, in budgets and sinks that cut an analysis short, and in
publishing several files that must agree when any system call can fail.

Paths below are relative to `src/backend/`.

## 1. Inventory

| component | code | state it keeps | operations | what makes it correct |
|---|---|---|---|---|
| recency index | `src/cache/rd/recency_index.*` | key-to-slot map, Fenwick tree, capacity, cursor, population | `observe` (with compaction, point update, prefix sum) | answers the number of distinct newer keys, whatever compactions happened; storage follows distinct keys, not trace length |
| exact CSRD level | `src/cache/rd/exact_csrd.cpp` | an index per set, hit/miss counts, histogram | `observe` | hit iff fewer distinct lines than ways intervened in that set |
| streaming hierarchy | `src/cache/streaming/*` | current task (two levels, counters), finished tasks, event delivery | `begin_task`, `accept`, `observe_line`, `finish` | every reference is served from the level an LRU hierarchy would serve it from; summaries, events and coverage agree |
| task access stream | `src/trace/output/task_access_stream.cpp`, `trace/execution/unroller.cpp` | ordinals, coverage totals | walks roots, resolves accesses, calls the sinks | one ordinal per visited access, restarting per task; first failure ends everything |
| work budgets | `src/trace/execution/emission_budget.cpp`, `expansion_budget.hpp` | consumed counts | `consume_*` | inclusive limits, one charge per unit of work, shared by the module |
| line mapping, addresses | `src/cache/mapping/*`, `trace/output/resolved_mapping.cpp` | none | split an access into lines, decode a set | lines are consecutive and cover exactly the accessed bytes |
| validation of outputs | `src/cache/output/*_validation.cpp`, `hierarchy/hierarchy_service_summary.cpp` | none | accept or refuse a result or an event list | accepts everything the analysis returns |
| artifact publication | `src/cli/artifact_output.cpp`, called by `hierarchy_command.cpp` | staged items, files on disk | stage, rename, roll back, clean | all or nothing while the process lives; RESULT last; no previous file lost |
| trace execution | `src/trace/execution/prepared_trace.cpp`, `loop_iteration.cpp` | prepared nodes, loop values | walk loops within the loop budgets | visits what the nested loops would, exact at the edges of 64 bits |
| access resolution | `src/trace/access/*`, `trace/layout/*`, `trace/index/*` | one cached plan per access node | index expression to byte range | a cached plan resolves like a fresh one, and names the bytes of the element asked for |
| call expansion | `src/trace/module/calls.cpp`, `call_substitution.cpp`, `task_scope.cpp`, `schema.cpp` | recursion set, depth, node budget | inline calls with simultaneous substitution | terminates, respects limits, captures no name of the caller by a formal |
| instruction model | `src/trace/module/instruction_counts.cpp`, `instruction_model.cpp`, `cli/ir_report.cpp` | finished and active functions | count functions, include callees | counts what the expanded body runs, or reports an overflow |
| batch analysis | `src/cache/rd/batch_csrd.cpp`, `cache/hierarchy/*` | a Fenwick tree per set | whole trace at once | same outcomes as streaming |
| telemetry | `src/cache/output/analysis_telemetry*.cpp` | accumulated stage times, start | `finish_stage`, `snapshot` | nested intervals are not counted twice; a correct run is not refused |
| command line | `src/cli/options.cpp` | options so far | one argument at a time, checks at the end | the last value of a repeated option counts, analyses add up, and the order of different options does not matter |
| analysis command | `src/cli/hierarchy_command.cpp`, `main.cpp` | the step reached | hash, parse, stream, publish | an error keeps its source and nothing is published |
| cache configuration | `src/cache/config/*`, `hierarchy_model.cpp` | none | read, validate, select two levels | what is accepted can be analysed |
| ELF reader | `src/elf/*` | regions and symbols so far | sections, segments, symbols, binding | regions are the loaded data of the image; an object is bound to the one place its name means |
| JSON documents | `src/cache/output/*_json.cpp`, `cli/json_output.cpp` | none | format | |
| legacy Python analysis, experiments | `*.py`, `experiments/` | none across runs | approximate analysis, plots, batch scripts | |

How they interact: one thread. The CLI hashes and parses the inputs, then calls
`analyze_streaming_hierarchy`. That hands three callbacks to the task access
stream (the *producer*). For each root the producer calls `begin_task`, then walks
the loops; each visited access charges the source budget, is resolved, and calls
`access`. The consumer maps the access to lines; each line charges the line budget
and calls `observe_line`, which asks the L1, asks the LLC if the L1 missed, counts,
and may call the user's event sink. `end_task` reconciles the producer's coverage
with the consumer's counters. Any exception at any depth abandons the analysis.
Only after a result is serialised does the CLI publish the files.

## 2. Modules

| module | what it is | code |
|---|---|---|
| `Recency`, `RecencyOrder` | abstract specification: a relation "newer than" on the keys seen; an observation answers how many keys are newer, then makes its key the newest | contract of `observe`, `recency_index.hpp` |
| `RecencyIndex` | slots, capacity doubling, renumbering, checked limits; partial sums are counts of slots | `recency_index.cpp` |
| `FenwickRecency` | the same with the actual tree, its update paths and its rebuild | `recency_index.cpp` |
| `ExactCsrd` | one cache level as an operator: per-set recency, outcome, summary, histogram | `exact_csrd.cpp`, `address.cpp` |
| `LruHierarchy` | abstract specification: an explicit two-level LRU with resident lines | `tests/cache/oracle/hierarchy_lru_oracle.cpp` |
| `StreamingHierarchy` | one whole analysis: producer, consumer, budgets, sinks, failures | `cache/streaming/*`, `task_access_stream.cpp`, `unroller.cpp` |
| `HierarchyRefinement` | `StreamingHierarchy` with the LRU stacks added as a mapping, to show it implements `LruHierarchy` | |
| `ArtifactPublish` | staging, renames, rollback, cleanup and crashes | `artifact_output.cpp` |
| `PreparedTrace` | walking the loops of a task: nodes prepared when first reached, slots for loop values, trip counts on machine words, loop budgets | `prepared_trace.cpp`, `loop_iteration.cpp`, `prepared_index.cpp`, `expansion_budget.hpp` |
| `LoopSemantics` | reference semantics: nested loops over names and unbounded integers, and the comparison | |
| `LineMapping` | one access cut into cache lines on unsigned words | `line_mapping.cpp`, `address.cpp` |
| `BatchHierarchy` | the batch analysis of one task, compared with `ExactCsrd` | `batch_csrd.cpp`, `cache/hierarchy/*` |
| `CallExpansion` | replacing calls by the bodies they run: roles and scopes, the stack of callees, budgets, substitution of names and objects, the checks of bound arrays | `calls.cpp`, `call_substitution.cpp`, `task_scope.cpp`, `schema.cpp`, `affine_expression.cpp` |
| `CallSemantics` | reference semantics: the loops a body runs and the accesses it makes, calls included, by name environments; what can be reached, how deep, at what cost | |
| `InstructionCounts` | counting instructions over inlined callees, each counted once | `instruction_counts.cpp`, `instruction_model.cpp` |
| `CountedExpansion` | both on one document, in the command's order | `hierarchy_command.cpp`, `ir_report.cpp` |
| `AccessLayout` | offsets of elements, by strides and by field paths, on machine words; the prepared form of both | `trace/layout/*` |
| `ElfImage` | an image read header by header, then its symbols bound to names | `elf/*` |
| `AccessPlan` | one access node resolved over and over, with the plan it keeps | `access_resolver.cpp`, `prepared_access.cpp` |
| `AccessMeaning` | reference semantics: the bytes an element or a path names, and the comparison | |
| `CommandLine` | `parse_options`, argument by argument | `options.cpp` |
| `AnalysisCommand` | the command after its options: stages and their clocks, the callbacks of the stream, exceptions on their way out | `hierarchy_command.cpp`, `analysis_telemetry*.cpp`, `task_access_support.hpp`, `main.cpp` |
| `CacheConfiguration` | reading, validating and selecting a cache configuration | `yaml_config_parser.cpp`, `cache_config.cpp`, `hierarchy_model.cpp` |
| `RecencyIndexProof`, `FenwickRecencyProof` | theorems about the index, about its tree, and from the tree to the recency order | |
| `StreamingHierarchyProof` | theorems about one level (`ExactCsrd`), the whole analysis, and that it implements the LRU hierarchy | |
| `BatchHierarchyProof` | theorems about `BatchHierarchy`, by way of the description of a level that both analyses meet | |
| `PreparedTraceProof` | theorems about `PreparedTrace` | |
| `CommandFilesProof` | theorems about the files around a run: `CacheConfiguration`, `ArtifactPublish` | |
| `AccessProof` | theorems about `AccessLayout`, `ElfImage`, `AccessPlan` and `LineMapping` | |
| `CommandProof` | theorems about `CommandLine`, `AnalysisCommand` and `CallExpansion` | |
| `MC*` | constants for TLC | |

Layers, from abstract to detailed:

    RecencyOrder  <-- RecencyIndex  <-- FenwickRecency
    LruHierarchy  <-- StreamingHierarchy (over ExactCsrd, over Recency)
    LoopSemantics <-- PreparedTrace
    ExactCsrd     <-- BatchHierarchy
    CallSemantics <-- CallExpansion, InstructionCounts   (CountedExpansion runs both)
    ElfImage, AccessLayout  -- used by -->  AccessPlan;  AccessMeaning <-- AccessPlan
    CommandLine             -- used by -->  AnalysisCommand

`ExactCsrd` uses the operators of `Recency`, the ones `RecencyIndex` is shown to
implement, so the hierarchy does not carry slots again.

### Correspondence of state and actions

* `RecencyIndex`: `slots`, `capacity`, `next_slot`, `active_count` are the members
  of the class; `floor` and `slot_limit` its constructor arguments. `observe` is one
  call and one action, split by its outcome: `ObserveFirst`, `ObserveAgain`,
  `ObserveFails`. The compaction a call may begin with is part of the action (the
  `Settled...` operators give the table the lookup sees). Arithmetic is bounded by
  `MaxWord`, the largest `size_t`.
* `FenwickRecency` adds `tree`. `UpdatePath` is the set of nodes the loop of
  `update` visits, its break at the capacity included; the assertions inside that
  loop are stated of every update the index could make next.
* `StreamingHierarchy`: `unroller` is the producer's ordinal, coverage and coverage
  at the start of the task; `active` is the `StreamingHierarchyTask`; `pending` is
  the loop of `for_each_cache_line` between two calls of its sink; `delivery`,
  `completed`, `coverage` are the result so far; `collected` is what a user's event
  sink was given. Because everything is nested callbacks, `stage` says how deep the
  program is. Each callback is one action: `BeginTask`, `AccessResolved`,
  `ObserveLine`, `EndTask`, `Return`; failures are `SourceBudgetExhausted`,
  `LineBudgetExhausted`, `AccessRejected`, `TraversalFails`, and the alternatives of
  the callbacks in which a check or a sink throws. The module's text is not
  modelled: any access may come next, and any may be the last of its task.
* `ArtifactPublish`: what is on disk (`target`, `directory`, `staged`,
  `previous`) is separate from what the process knows (`has_previous`,
  `published`, `preserve_backup`), so a crash keeps the first and forgets the
  second. Each file-system call is an action and each has a failing alternative.

* `PreparedTrace`: `frames` is the call stack of `execute_node` (a frame per running
  loop: its value, iteration and place in the body), `values` the slot vector,
  `prepared` what `prepare_node` left in the nodes that were reached (a loop's slot,
  and the slot each name in scope was bound to). One action per thing the recursion
  does: `VisitAccess`, `EnterLoop`, `NextIteration`, `LeaveLoop`, and the ways it
  throws (`LoopRejected`, `SinkThrows`, the budget in `EnterLoop`, the overflow in
  `NextIteration`). `log` is what the sink and the budget saw. An index is an affine
  expression; how its text is parsed is left out. The reference semantics needs
  recursive operators and is in a module of its own, so that `PreparedTrace` stays
  one that can be proved about.
* `LineMapping`: the local variables of `for_each_cache_line` by name; one action is
  one turn of its loop. The empty object name and the empty sink are not inputs.
* `BatchHierarchy`: one turn of `analyze_set`'s loop is `AnalyzeLine` (a set's tree
  and its map of last visits start empty); `FinishL1` and `FinishLlc` summarise a
  level and check it; `PairHit`, `PairMiss`, `FinishTask` are the loop and the end of
  `aggregate_hierarchy_task`. A reference is its position in the trace, so the
  provenance check compares positions.
* `CallExpansion`: `frames` is the recursion of `append_expanded_node` (a frame per
  callee, with its body after substitution), `expanded` the output. A body is the
  sequence of its nodes, a loop being what stands between its `Open` and its
  `Close`; a loop is charged after its body, as in the code. An `Open` has the loop's
  variable, start and bound, which `substitute_call_node` leaves as they are in the
  callee while it puts the actuals into the nodes below. Text of expressions is an
  affine form over names. One action per thing that can happen to a node
  (`KeepNode`, `OpenLoop`, `EnterCall`, the refusals in the order of the checks).
* `InstructionCounts`: `counting` is the recursion of `Expansion::count`, `completed`
  its memo. An overflow is a refusal of the whole report, which the command turns
  into an unavailable one (`RefuseCount`).
* `ElfImage`: `ReadSection`, `ReadHeader`, `AppendLoad`, `ReadSymbol`, `BindSymbol`
  are one turn of the five loops. `AccessPlan`: `prepared` is the cached
  `PreparedAccessPlan`; a step resolves the node with the next index values. An
  object is a base and a size; a structured type is a tree of records.
* `CommandLine`: `Options` by field; an argument is read by the action of its kind, in
  the order of the `else if` chain, and may come again. `given`, a history, keeps all
  values read for each flag; no guard of the code's argument loop looks at it. What `main` no longer knows after parsing (which
  options were written) is dropped by `Dispatch`.
* `AnalysisCommand`: `step` is the place in `run_hierarchy_command`, `started` and
  `callback` the start times held by the two callers of `finish_stage`. The clock may
  go on, stand still or be set back at every reading. `thrown` is what was thrown,
  `error` what travels; `Unwind` is the way through the catch clauses.
* `CacheConfiguration`: a configuration document is a tree with its faults, taken from
  the constant `Documents`; `stage` and `index` are the place in `parse_root` and
  `validate_cache_config`; `Hop` is one turn of the walk along `next`.

## 3. What is checked

| run | bounds | question |
|---|---|---|
| `recency_index` | 4 keys, floors 0..3, slot limits 1 to 8, word of 8 | is compaction invisible; is storage bounded; are refused calls harmless |
| `fenwick_recency` | 5 keys, word of 16 | does the tree answer as a scan of the slots would |
| `streaming_hierarchy` | 2 tasks, 4 blocks, 4 source and 5 line charges, accesses of up to 2 lines, event limits 0, 3, 5, every sink combination | are counters, coverage, budget, events and result consistent however the run ends |
| `hierarchy_refinement` | 2 tasks, 5 blocks, 7 references, two-way L1, two-set LLC | does distance-against-ways serve each reference as LRU does |
| `artifact_publish` | 3 documents | what survives any failure and any crash |
| `prepared_trace` | 3-bit integers, two-level nests with starts -4, -1, 3, bounds -4, 0, 3, steps -4 to 3, limits 3 and 7, 0, 9 and 40; a bound that leaves the word; no loops at all | are the accesses visited, with the index values, and the loops charged, as written; do names bound once mean the running loops |
| `batch_hierarchy` | 4 blocks, traces of up to 6 lines | is the batch analysis the streaming one |
| `call_expansion` | 3-bit coefficients, 4-bit counts, modules of three functions, reports of four, node limits 4 and 20, depth limits 1 and 3; triangular loops in caller and callee whose variables, bounds and formals share names or not | do expanded bodies do what calls mean, are refusals justified, do counts agree |
| `access_plan` | 5-bit words, 4-bit addresses; images with two sections and two symbols, or up to two load segments and two thread-local templates; arrays and nested records, right and wrong, two accesses with indices from -2 to 8 | does a cached plan answer like a fresh one; do answers name the right bytes; are regions and symbols those of the image |
| `analysis_command` | lines of up to 7 arguments (an argument that repeats a flag counts twice), 3 callbacks, a clock of 3 readings | do the last values decide, is correct telemetry accepted, do errors keep their source |
| `cache_configuration` | up to 2 cores, 3 caches, words up to 127, core numbers up to 15 | can every accepted configuration be analysed; does the walk end |
| `line_mapping` | 4-bit addresses, accesses of up to 11 bytes (and 15), lines of 1 to 8 bytes, invalid geometries | do the lines partition the access; is only what does not fit refused |

Why these bounds are enough for the cases of interest: five keys make the tree
deep enough (capacity up to 10, nodes of length 8) for a node that covers a range
cut by the number of active slots, and let the index compact repeatedly and grow
between compactions. In the streaming run the L1 has two sets and the LLC one, so
the levels decode a block differently; within five lines each level shows a hit, a
cold and a replacement miss, an access that spans two lines can be cut between
them by the budget, and an event limit of 3 is passed in either task. Seven
references over five blocks let a line be evicted from both levels and return.
Three documents are the most the CLI publishes (EVENTS, TELEMETRY, RESULT); the
theorem removes that bound. Three-bit integers make a loop from -4 to 3 span more than
half of the range, let bounds computed in an outer loop leave it, and let the last
step of a loop jump past its end; the nest reuses its outer name in an inner loop
and has a second root, which starts with no slots. Six lines in one set make a tree
with a node over four positions, and a level above with one set and one below with
two sort the lines differently. Four-bit addresses let every line end meet the last
address and the last offset.

Runs with `CHECK_DEADLOCK FALSE` describe operations that really end: an analysis
that returned or threw, a publication that returned, threw or died, an index whose
observation threw.

The properties:

* `RefinesOrder`, `RefinesIndex`, `ServesLikeLru` are refinements: the abstract
  specification is the property.
* `StorageBounded` (with the cursor at most one slot behind the storage, which a missed compaction breaks), `TreeSumsSlots`, `UpdateAssertionsHold` are the index's invariants; the last says the two `assert`s of `update` hold.
* `ChecksNeverFire`: the `std::logic_error`s and the provenance checks, which
  compare counts kept on separate paths, cannot fire. `BudgetCharged` ties the
  module-wide budget to the work of all tasks. `SameFootprint`: both levels of a
  task have seen the same blocks. `EventsDescribeRun` and `EventsAddUp`: what a sink
  was given is a prefix of the run in order, marked truncated exactly when it is
  one, and otherwise adds up to the summaries. `ResultIsValid`: the writer's
  validation accepts what the analysis returns.
* `Ends` (liveness): every analysis returns or throws. It assumes weak fairness of
  the whole next-state relation and nothing else: a single thread that can take a
  step takes one. Callbacks of the user are assumed to return or throw.
* `VisitsAsWritten`: the walk's accesses, their index values and its loop entries are
  a prefix of the reference walk, and all of it at the end. `FailsForCause`: it gives
  up only where the reference has no meaning or exceeds a limit.
  `BindingsCurrent`: at every visit a node sees the loops that run around it, the
  nearest of a name, by the values they have now, although slots are handed out and
  names bound once. `LoopValuesFit`: the overflow check of the loop value never fires.
  `WorkCharged`: what was reserved is the sum over loop entries, stays in the limits,
  bounds the visits of each node and is used up.
* `BatchMatchesStreaming`: same events in program order, same counts and histograms.
  `RowsPair`: none of the batch path's `std::logic_error`s is thrown.
* `LinesPartitionAccess`: no byte is missed or in two lines, no line is without one.
  `MappingsTraceBack`: block numbers are consecutive, object offsets keep the
  distance of the addresses. `RefusedForCause`: an access is refused only if one of
  its bytes has no address or no offset, or the geometry is invalid.
* `ExpansionMeansCalls`: the expanded body of every root runs the loops and makes the
  accesses, with the objects and the index values, that the calls mean when arguments
  are evaluated in the caller and every loop binds a variable of its own. It is claimed
  of modules with `NamesSeparated`: loop variables are not formals, endpoints name
  enclosing loops of their function only, no actual of a function names a loop variable
  of one it reaches, and no name a callee leaves unbound is a loop variable of its
  caller. The first keeps an index of a loop from being
  replaced, the second lets endpoints stay as they are, the third keeps actuals from
  capture, and the last keeps a free name of the callee free; that the producer names loops so is said by
  `docs/map-affine-indices-v1.md` (lines 127 to 130) and `backend/README.md` (lines 181
  to 187), and each clause is needed: without any of them the run finds a module whose
  expansion means something else. Modules without it are in the run, for the other
  properties. `ExpansionRefusedForCause`: a refusal names a recursion, a misfit or a
  limit that is really there. `ExpansionBounded`: charges cover the output, limits
  hold at every step, no function stands inside itself. `CountsMeanCalls`: the
  counts of a root are the sums over its tree of calls, whichever callee was counted
  first.
* `PlanIsInvisible`: with a plan left by an earlier visit the answer, a refusal
  included, is that of a fresh resolution. `AccessNamesItsBytes`: the range is where
  the element stands in the object. `RegionsAreData`: the regions of the segments
  cover exactly the loaded bytes outside thread-local templates, each once.
  `ObjectsAreSymbols`: a bound object is where all its symbols say.
* `LastValuesDecide`: a line is accepted exactly when it fits (`LineFits`), and the
  options are then the last value of each flag and the analyses asked for
  (`OptionsOfLine`); a refused line does not fit. So neither the order of different
  flags nor a legible value replaced later matters (`backend/README.md`, line 275),
  with one exception stated in `LineFits`: empty names before the module are passed
  over, and a second name is refused.
  `TelemetryAccepted`: unless the clock was set back, what has been measured at any
  moment fits into the time passed, so the snapshot is not refused.
  `ErrorsKeepTheirSource`: type and origin of an exception survive, except that JSON
  errors of the walk are reported as a malformed module.
* `ConfigurationIsSound`: in an accepted configuration every chain reaches memory,
  geometries decode, and the two levels selected can be simulated; what is refused is
  not like that. `ReadingEnds` (liveness): every document is accepted or refused,
  cyclic chains of caches included; weak fairness of the whole next-state relation
  again says only that the one thread does not stop.
* `ResultComesLast`: a new RESULT on disk implies all documents are new.
  `NothingLost`: in every state, a crashed one too, each previous file is its
  target or its backup link. `HandledFailureRestores`: after an exception, each
  target is as before unless its restore failed, and then its directory is kept and
  named. `OutcomeTellsState`: a normal return means all
  published; a directory left behind by a live process is named in the exception.

The type invariants (`TypeOK`) of `RecencyIndex`, `FenwickRecency`,
`StreamingHierarchy`, `ArtifactPublish` and `LineMapping` are part of what is proved
below; the others document the shape of the state and are not among the properties of
the runs.

Every property is known to fail on at least one plausible mutation of the code; the
mutated definitions stand beside the originals, marked `Mutant`.

## 4. What is proved

With TLAPS, for every value of the constants that the named assumptions allow. The
assumptions are type facts: limits and geometries are natural numbers, a geometry has
at least one set and one way, keys are finitely many, the blocks between two blocks
are blocks (`IndexAssumption`, `FenwickAssumption`, `HierarchyAssumption`,
`MappingAssumption`, `ExpansionAssumption`, `TraceAssumption`, `LimitAssumption`,
`ArgumentAssumption`, `WordAssumption`: the exponent of a word is an identifier, `MaxWord < 2 ^ MaxId`;
`DocumentAssumption`: numbers in a document are numbers, sequences are sequences;
`ProgramAssumption`: a document's nodes are finitely many and each stands at one place
of its tree). TLC evaluates each on the run of its module.

**How sums and recursive functions are proved about.** The library's induction theorems
cannot be instantiated, but its theorem that a non-empty subset of a well-founded
order has a minimal element is first-order. So an induction is written as *no smallest
counterexample*: the set of failing subsets (`SmallestSet`) or numbers
(`SmallestNumber`) has a minimal member, whose predecessor does not fail, and one
unfolding of the definition contradicts that. A recursive function, and a fold of the
community modules, is the `CHOOSE` of a solution of its equation; a solution is
exhibited in closed form and shown to be the only one in the same way. This carries the
histogram's sum, the lowest bit, the tree's two walks, and the sum over stages.

Recency index and tree.

* `IndexInvariant`, `StorageFollowsKeys`: `TypeOK`, `SlotsConsistent` (keys have
  slots of their own behind the cursor) and `StorageBounded` are inductive together. The work is in the renumbering: the rank of
  a slot among the used slots is injective, at least 1 and at most the population,
  lemmas about cardinality of initial segments.
* `IndexRefinesOrder`: the index implements `RecencyOrder` with "newer" defined as "in
  a higher slot". Renumbering keeps the order of slots, and population minus the rank of
  a key counts the keys in higher slots.
* `TreeFollowsTable`, `TreeIsTyped`, `AssertionsNeverFire`: in every reachable state
  node `p` of the tree holds the number of occupied slots in the range behind its lowest
  bit. The lowest bit is defined by halving (`FenwickRecency`); from it come the facts
  about ranges the walks rest on: a range ends where the next of `prefix_sum` begins,
  and the update walk from a slot meets exactly the nodes whose range has the slot
  (`Covers`, `CoversNext`). The tree that `rebuild` makes of a packed table is the one
  that updates would have made. With it, neither `assert` of `update` can fail.
* `TreeRefinesIndex`: hence the module with the tree implements the module that counts
  slots, and, by the theorem about that one, `TreeAnswersByRecency`: the recency order.

Streaming analysis.

* `LevelsShareFootprint`, `LogicErrorsAreUnreachable`, `BudgetIsAccountedFor`,
  `SinkSeesRunInOrder`, `EventsMatchSummaries`, `ReturnedResultIsValid`: the six
  invariants of `StreamingHierarchy`, for every geometry, module and limit and however
  the run ends. None is inductive. The invariant `IInv` has a part for each place that
  keeps a count of its own: the two levels (`LevelSound`: histories are total orders, the
  histogram sums to the hits and replacement misses, misses and blocks agree), the
  service counters against the levels (`ServiceCounted`), the producer's ordinal and
  coverage against the consumer's (`Position`, `CoverageSplit`), finished tasks
  (`TasksSound`), the budget (`BudgetCharged`), and the events against both
  (`EventCount`, `EventTasks`, `EventsServed`, `LastEvent`, `EventOrder`). `LLC`
  references are `L1` misses, so what one level counts the next must count: this is why
  the parts are inductive only together.
* `AnalysisServesLikeLru`: the analysis implements `LruHierarchy`. In a history whose
  "newer than" is a total order, each block has a rank, one block for each rank; the
  blocks of rank below the ways, in order, are the lines of an LRU set. A hit moves its
  block to the front, a miss fills the front and drops the last. So a distance below
  the ways *is* residence, for any number of sets and ways at both levels.

Batch analysis.

* `TaskCorrect`, `RowsAlwaysPair`, `BatchIsStreaming`: the invariants of `BatchHierarchy`,
  for every task and every pair of geometries. The batch analysis counts positions in a
  tree and goes set after set; the streaming one keeps recency relations and goes
  through the trace. Neither refers to the other, so a third thing stands between them: the
  *row* of a reference (`RowAt`), whose distance is the number of distinct lines of its set
  since its line's last visit, and the count of rows (`CountsMatch`).
  `StreamedIsDescribed`: observing the first `n` lines gives the rows of the first `n`
  (`HistoriesAre`: what is newer than a line is what came after it).
  `AnalyzeLineWorks`: within a set the tree marks the last visit of each line seen
  (`SetInv`), so the difference of two prefix sums is that number (`NewerIsDistance`, on the
  tree lemmas of `FenwickRecencyProof`), and a level with sets still to do has the rows and
  the counts of the positions it is through with (`LevelInv`, `AnsweredIn`). The sets
  partition the positions, so with no set left it has all rows, in whatever order
  (`LevelCompletes`). The checks of a level then are facts about counting rows
  (`CompletedAddsUp`: outcomes, distances and first visits), and pairing is the fact that
  the `n`-th miss of the L1 is the `n`-th line of the LLC (`ReachedGrows`, `MissesAreLower`).
  `TaskInv` says which of this holds at which stage; it was checked by TLC with up to five
  lines before it was proved.

Around the analysis.

* `PublicationKeepsPromises`, `ResultIsLast`, `FailureRestores`, `OutcomeIsTold`:
  the invariants of `ArtifactPublish` for any number of documents.
  They are not inductive: the argument needs `PublicationInv`, which says for each phase
  which items have been staged, renamed, restored or cleaned (`Published`), what each target
  then holds (`Targets`), that an unreleased backup link exists for each item that had a
  previous file (`Backups`), and what was kept and reported (`Retained`, `Cleaned`).
* `LinesCoverAccess`, `LinesTraceBack`, `RefusalHasCause`: the invariants of
  `LineMapping`, for any word and line size. The strengthening says of every line handed
  out which block it is and that it starts there (`Mapped`), and of the cursor that it
  stands at the next unmapped byte, at the start of the next block (`Cursor`). The
  arithmetic is four lemmas on division with remainder; that lines are powers of two is
  not needed.
* `PlanNeverShows`: `PlanIsInvisible` for every node, image, word size and sequence of
  index values. What is kept was left by an access of the node that resolved (`PlanInv`).
  A path is walked once with the row that left the plan and once with the later one:
  `OneSegment` says that a segment the first walk passed is passed by the second with the
  amount of the step the plan has for it, or is refused and the step has no amount;
  `WalksAgree` carries that along the path. Assumed of the inputs is that JSON arrays are
  arrays and sizes integers. `AccessesStayInside`: so a planned access, too, lies in its
  object (`AccessInObject`, the part of `AccessNamesItsBytes` that needs no reference
  semantics).
* `ObjectsHaveTheirSymbols`: `ObjectsAreSymbols` for every image. `SymbolsInv` follows the
  symbols through the table, the sort and the binding as a set, `ObjectsInv` the names
  bound so far. Stating it for all images showed that the sort had been modelled as one
  fixed order where the code leaves symbols of one address and name in any order.
* `RegionsCoverData`: `RegionsAreData` for every image. A segment is cut at every place
  where file data, memory or a thread-local block in it ends or begins, so that a part
  between neighbouring cuts is wholly in a block or wholly outside all of them
  (`PartOfByte`, from `Neighbours`: of the cuts around a byte there is a last before and
  a first behind it). `RegionsInv` follows the headers read and the regions made as sets
  (`HeadersHeld`, `OfLoads`); sorting puts each where as many stand before it as are less
  (`RankOrders`), and a region is told by its segment and its address
  (`RegionsDistinct`). That ranges do not leave the file or the address space
  (`HeaderFits`) is what makes the extents a segment claims those it has.
* `ExpansionStaysBounded`: `ExpansionBounded` for every module and all limits. The
  strengthening says that frames have names, that the output is a sequence whose charged
  nodes are finitely many and no more than the budget lent, and that the stack fits
  (`StackFits`); nodes have no type, so the argument holds whatever the bodies are.
* `LineMeansItsArguments`: `LastValuesDecide` for any set of arguments and lines of any
  length, flags repeated or not. `LineInv` says what each option means of the values read
  so far (`PathsFollow`, `ModeFollows`, ...) and that all of them are legible; one more
  argument changes the last value of its own flag only (`OneMore`, `OthersFollow`).
  The checks behind the last argument are then those of `LineFits` (`ConsistentIsFitting`),
  and an argument refused on the way leaves a line that does not fit, whatever was to
  follow (`RefusedArgumentDoesNotFit`). Stating it for all arguments showed that the
  reference operator `Asked` had been a `CASE` with overlapping guards, whose value TLA+
  leaves open; it is a chain of conditions now.
* `TelemetryIsAccepted`: `TelemetryAccepted` for every clock that does not fall, every
  number of callbacks. `MeasureInv`: stages behind the current one have been measured and
  none before it (`StagesBehind`), what was measured ended before what is under way
  started (`TimeFits`). Its first part holds even if the clock falls, its second is what
  a fall breaks.
* `BindingsAreCurrent`, `LoopValuesAlwaysFit`, `WorkIsCharged`: `BindingsCurrent`,
  `LoopValuesFit` and `WorkCharged` for every program that is a tree, every word size and
  all limits. `WalkInv` has a part for each. The running loops are a path of the tree,
  none twice (`StackInv`), so each has a frame of its own. No two loops share a slot and a
  node's bound scope is that of the loop it stands in with the loop's own name added
  (`TableInv`); a running loop's slot holds its value and its scope has the loops around
  it (`FrameBound`), however often the vector grew in between. `ValuesInv` says of each
  frame that the value of its *last* iteration is a word; at the entry it follows from the
  trip count (`LastValueFits`: on two's complement words the unsigned distance is the
  true one, and its quotient by the step, rounded up, ends before the bound), and an
  iteration takes from it what it adds to the value (`NextValueFits`). The budget needs a
  balance (`WorkInv`): the entries of a node and the iterations still to come of the
  frames of its loop (`Left`) are together what its loop has reserved (`Balanced`). With
  no frame of the loop on the stack nothing is still to come, which is why a walk that
  ends has used everything up.
* `ConfigurationsAreSound`: `ConfigurationIsSound` for every document. `ReadInv`: what
  has been read is what the document has. `ValidInv`: every check that was passed has
  established a part of what the caches as a whole must be (`NamesFit`, `NextsFit`,
  `MappingsFit`), and a refusal contradicts one. The walks are the heart of it
  (`WalksFit`). A set of caches is `Closed` if each refers to one of the set; soundness
  asks that no such set exists, while the code follows one chain at a time. Every
  closed set with the walk's first cache contains the cache the walk is at, so a walk
  that comes to memory began in none; and the caches behind a walk that has returned,
  each followed by one of them, are a closed set. That the cores are as many as
  their mappings and every mapping has another core gives every core an L1
  (`EveryNumberOnce`). `make_cache_geometry` asks for powers of two, soundness for whole
  sets (`GeometryIsSets`): a quotient of powers of two is one, which, as `^` has no
  recursion the provers know, is proved by counting subsets (`PowerOfSum`).
* `ErrorsArriveAsThrown`: `ErrorsKeepTheirSource` for all types of exceptions. In flight
  an exception differs from what was thrown only by the wrapping of a callback
  (`InFlight`), which one of the walk never has.

Only model-checked: `Ends` and `ReadingEnds` (liveness is out of the prover's reach);
`VisitsAsWritten`, `FailsForCause`, `ExpansionMeansCalls`,
`ExpansionRefusedForCause` and `CountsMeanCalls`, whose references are RECURSIVE
operators, which take the provers' arithmetic away, and for the same reason the bytes in
`AccessNamesItsBytes`.

## 5. Not modelled

What LLVM's object reader and yaml-cpp do to bytes, JSON layout, hashing and the older
modes that print a block trace (`mapped_trace.cpp`, `trace.cpp`, `cache_line.cpp`,
`task_mapping_json.cpp`) hold no state between steps; the last are formatting over the
resolver and the walk that are modelled. The frontend that produces MAP files is a
separate repository. Inputs that change between hashing and reading are outside the
program's contract. The reuse profile and the legacy Python analysis are approximate
by design and have no specification to compare them with. Host fields and timestamps of
telemetry, opcodes of instruction counts and the recency index's optional work counters
are data no decision depends on. `CommandLine` leaves the text of numbers out: a value
is legible or not.

`substitute_call_node` (`call_substitution.cpp`, lines 213 to 219) goes into the body of a
callee's loop and leaves its variable and its endpoints alone, and the reader renames
nothing. The model does the same, but what an expansion means is claimed only where the
names are separated, as the producer of MAP files separates them: in a module written
otherwise an actual can be captured by a loop of the callee, and an endpoint that names a
formal is left unbound. The documents say so, and no property contradicts them.

## 6. Plan

Written in this order, because the first rows are what every reported number
rests on: recency index, its tree, one level, the hierarchy, publication, line
mapping, the loop walk, the batch analysis; then what comes before them, call expansion,
access resolution and the images, the command and its configuration. Next:

1. The batch analysis over several tasks, so that it can be compared with a whole
   streaming analysis.
