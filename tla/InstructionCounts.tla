--------------------------- MODULE InstructionCounts ---------------------------
(***************************************************************************)
(* Static and dynamic instruction counts of the analysis roots, with the   *)
(* inline callees' counts multiplied in.  A function is counted once and   *)
(* remembered; a function being counted has a frame.  The opcodes of a     *)
(* block are one number, phi left out; text and identity fields are not    *)
(* modelled.                                                               *)
(***************************************************************************)
EXTENDS Integers, Sequences, FiniteSets, SequencesExt

CONSTANTS
    Reports,             \* inputs: modules as sequences of functions with IR counts
    CountBits            \* width of a counter

VARIABLES
    report,              \* the module
    root,                \* index of the function looked at
    counting,            \* functions being counted, innermost last
    completed,           \* name -> its counts
    total, counted,      \* totals and roots reported so far
    count_stage          \* "reading", "counting", "exact" or "error"

count_vars == <<report, root, counting, completed, total, counted, count_stage>>

NoCounts == [static |-> 0, dynamic |-> 0]

CountStarts(input) ==
    /\ report = input
    /\ root = 1
    /\ counting = <<>>
    /\ completed = [n \in {} |-> NoCounts]
    /\ total = NoCounts /\ counted = <<>>
    /\ count_stage = "reading"

CountInit == \E input \in Reports : CountStarts(input)

FitsCounter(n) == n < 2^CountBits

analyzed(f) == "analyze" \in f.roles
inlined(f) == "inline" \in f.roles

Definitions(name) == {i \in DOMAIN report : report[i].name = name}
Definition(name) == report[CHOOSE i \in Definitions(name) : TRUE]

ReportReadable ==
    /\ \A i, j \in DOMAIN report : report[i].name = report[j].name => i = j
    /\ \A i \in DOMAIN report : ~(analyzed(report[i]) /\ inlined(report[i]))

ReadReport ==
    /\ count_stage = "reading"
    /\ count_stage' = IF ReportReadable THEN "counting" ELSE "error"
    /\ UNCHANGED <<report, root, counting, completed, total, counted>>

-----------------------------------------------------------------------------
\* Version 1 reports name no call targets, so they may not have calls.
FunctionReadable(f) ==
    /\ f.version \in {1, 2} /\ f.exact /\ ~f.region
    /\ f.blocks # <<>>
    /\ \A a, b \in DOMAIN f.blocks : f.blocks[a].id = f.blocks[b].id => a = b
    /\ \A b \in DOMAIN f.blocks :
          /\ f.version = 1 => f.blocks[b].call_opcodes = 0
          /\ f.version = 2 => Len(f.blocks[b].sites) = f.blocks[b].call_opcodes
    /\ \A b \in DOMAIN f.blocks : \A s \in DOMAIN f.blocks[b].sites :
          f.blocks[b].sites[s].callee # ""

\* Counts of the function itself, phi instructions not counted.
OwnCounts(f) ==
    [static |-> MapThenSumSet(LAMBDA b : f.blocks[b].instructions, DOMAIN f.blocks),
     dynamic |-> MapThenSumSet(LAMBDA b : f.blocks[b].instructions * f.blocks[b].executions,
                               DOMAIN f.blocks)]

Countable(c) == FitsCounter(c.static) /\ FitsCounter(c.dynamic)

\* Call sites in block order, with how often their block runs.
CallSites(f) ==
    FlattenSeq([b \in DOMAIN f.blocks |->
        [s \in DOMAIN f.blocks[b].sites |->
            [callee |-> f.blocks[b].sites[s].callee, expand |-> f.blocks[b].sites[s].inline,
             executions |-> f.blocks[b].executions]]])

\* Mutant: the static instructions of a callee are multiplied as well.
Included_all(target, source, executions) ==
    [static |-> target.static + source.static * executions,
     dynamic |-> target.dynamic + source.dynamic * executions]

Included(target, source, executions) ==
    [static |-> target.static + source.static,
     dynamic |-> target.dynamic + source.dynamic * executions]

-----------------------------------------------------------------------------
Annotated == \E i \in DOMAIN report : analyzed(report[i])
IsRoot(f) == IF Annotated THEN analyzed(f) ELSE ~inlined(f)

AtRoot == count_stage = "counting" /\ counting = <<>> /\ root <= Len(report)
Root == report[root]
Current == counting[Len(counting)]
Visiting == count_stage = "counting" /\ counting # <<>>
Site == Current.calls[Current.next]
AtSite == Visiting /\ Current.next <= Len(Current.calls)

Active == {counting[i].name : i \in DOMAIN counting}

SkipRoot ==
    /\ AtRoot /\ ~IsRoot(Root)
    /\ root' = root + 1
    /\ UNCHANGED <<report, counting, completed, total, counted, count_stage>>

\* The call site says inline exactly when an inline function is defined.
SiteConsistent ==
    Site.expand <=> Definitions(Site.callee) # {} /\ inlined(Definition(Site.callee))

SkipCall ==
    /\ AtSite /\ SiteConsistent /\ ~Site.expand
    /\ counting' = [counting EXCEPT ![Len(counting)].next = @ + 1]
    /\ UNCHANGED <<report, root, completed, total, counted, count_stage>>

\* Functions to count next: the root, or the callee where the current one stands.
Wanted == (IF AtRoot /\ IsRoot(Root) THEN {Root.name} ELSE {})
          \cup (IF AtSite /\ SiteConsistent /\ Site.expand THEN {Site.callee} ELSE {})

Readable(name) ==
    FunctionReadable(Definition(name)) /\ Countable(OwnCounts(Definition(name)))

ReadFunction(name) ==
    /\ name \in Wanted /\ name \notin DOMAIN completed
    /\ name \notin Active /\ Readable(name)
    /\ counting' = Append(counting, [name |-> name, next |-> 1,
                                     calls |-> CallSites(Definition(name)),
                                     counts |-> OwnCounts(Definition(name))])
    /\ UNCHANGED <<report, root, completed, total, counted, count_stage>>

WithCallee == Included(Current.counts, completed[Site.callee], Site.executions)
WithRoot == Included(total, completed[Root.name], 1)

AddCallee ==
    /\ AtSite /\ Wanted \cap DOMAIN completed # {} /\ Countable(WithCallee)
    /\ counting' = [counting EXCEPT ![Len(counting)].next = @ + 1,
                                    ![Len(counting)].counts = WithCallee]
    /\ UNCHANGED <<report, root, completed, total, counted, count_stage>>

Remembered(name, counts) ==
    [n \in DOMAIN completed \cup {name} |-> IF n = name THEN counts ELSE completed[n]]

FinishFunction ==
    /\ Visiting /\ ~AtSite
    /\ completed' = Remembered(Current.name, Current.counts)
    /\ counting' = SubSeq(counting, 1, Len(counting) - 1)
    /\ UNCHANGED <<report, root, total, counted, count_stage>>

AddRoot ==
    /\ AtRoot /\ Wanted \cap DOMAIN completed # {} /\ Countable(WithRoot)
    /\ total' = WithRoot
    /\ counted' = Append(counted, Root.name)
    /\ root' = root + 1
    /\ UNCHANGED <<report, counting, completed, count_stage>>

Overflows ==
    /\ Wanted \cap DOMAIN completed # {}
    /\ ~Countable(IF AtRoot THEN WithRoot ELSE WithCallee)

\* Whatever is wrong ends the counting; the command reports it and goes on.
RefuseCount ==
    /\ \/ AtSite /\ ~SiteConsistent
       \/ \E name \in Wanted \ DOMAIN completed : name \in Active \/ ~Readable(name)
       \/ Overflows
    /\ count_stage' = "error"
    /\ UNCHANGED <<report, root, counting, completed, total, counted>>

Report ==
    /\ count_stage = "counting" /\ counting = <<>> /\ root > Len(report)
    /\ count_stage' = IF counted = <<>> THEN "error" ELSE "exact"
    /\ UNCHANGED <<report, root, counting, completed, total, counted>>

CountNext ==
    \/ ReadReport \/ SkipRoot \/ SkipCall \/ (\E name \in Wanted : ReadFunction(name))
    \/ AddCallee \/ FinishFunction \/ AddRoot \/ RefuseCount \/ Report

CountSpec == CountInit /\ [][CountNext]_count_vars
-----------------------------------------------------------------------------
(* What the counts mean: the tree of inline calls, written out.             *)

RECURSIVE TreeCounts(_, _)

\* Counts of a function and everything inlined in it, depth being enough to
\* reach the leaves of an acyclic module.
TreeCounts(name, depth) ==
    LET f == Definition(name)
        sites == SelectSeq(CallSites(f), LAMBDA site : site.expand)
        Callee(i) == TreeCounts(sites[i].callee, depth - 1)
    IN  IF depth = 0 THEN NoCounts
        ELSE [static |-> OwnCounts(f).static
                          + MapThenSumSet(LAMBDA i : Callee(i).static, DOMAIN sites),
              dynamic |-> OwnCounts(f).dynamic
                          + MapThenSumSet(LAMBDA i : Callee(i).dynamic * sites[i].executions,
                                          DOMAIN sites)]

\* Every function remembered has the counts of its whole call tree, every block
\* multiplied by the executions of the blocks around it; an exact report adds up
\* its roots, and none of its numbers has wrapped (Expansion::count, include).
CountsMeanCalls ==
    /\ \A name \in DOMAIN completed :
          completed[name] = TreeCounts(name, Len(report) + 1) /\ Countable(completed[name])
    /\ count_stage = "exact" =>
          /\ counted # <<>>
          /\ total.static = MapThenSumSet(LAMBDA i : completed[counted[i]].static, DOMAIN counted)
          /\ total.dynamic = MapThenSumSet(LAMBDA i : completed[counted[i]].dynamic, DOMAIN counted)
          /\ {counted[i] : i \in DOMAIN counted} =
                {f.name : f \in {report[i] : i \in {j \in DOMAIN report : IsRoot(report[j])}}}
=============================================================================
