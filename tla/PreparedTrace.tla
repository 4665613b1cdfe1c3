---------------------------- MODULE PreparedTrace ----------------------------
(***************************************************************************)
(* Walking the loops of a task.  Nodes are prepared when they are first    *)
(* reached: a loop gets a slot in a growing vector of loop values, and the *)
(* index expressions of a node are bound to the slots of the loops around  *)
(* it, once, for every later visit.  Trip counts come from unsigned word   *)
(* arithmetic, and every loop entry is charged to two budgets.             *)
(***************************************************************************)
EXTENDS Integers, Sequences, FiniteSets, Functions

CONSTANTS
    Bits,            \* width of a machine word
    Programs,        \* nodes: id -> node, roots: the top-level nodes in order
    SingleLimits, CumulativeLimits       \* option values

Half == 2^(Bits - 1)
Word == -Half .. Half - 1                \* std::int64_t

ASSUME TraceAssumption ==
    /\ Bits \in Nat \ {0, 1}
    /\ SingleLimits \subseteq Nat /\ CumulativeLimits \subseteq Nat

\* Nodes are those of a document: finitely many, each at one place of it.
IsTree(nodes, roots) ==
    LET loops == {n \in DOMAIN nodes : nodes[n].kind = "Loop"}
    IN  /\ IsFiniteSet(DOMAIN nodes) /\ roots \in Seq(DOMAIN nodes)
        /\ \A i, j \in DOMAIN roots : roots[i] = roots[j] => i = j
        /\ \A m \in loops :
              /\ nodes[m].step \in Word /\ nodes[m].body \in Seq(DOMAIN nodes)
              /\ \A c \in DOMAIN nodes[m].body :
                    /\ \A i \in DOMAIN roots : nodes[m].body[c] # roots[i]
                    /\ \A n \in loops : \A d \in DOMAIN nodes[n].body :
                          nodes[m].body[c] = nodes[n].body[d] => m = n /\ c = d

ASSUME ProgramAssumption == \A p \in Programs : IsTree(p.nodes, p.roots)

VARIABLES
    program, limits,                     \* inputs
    root,            \* index of the top-level node being walked
    prepared,        \* reached node -> its slot (loops) and the scope it was bound in
    values,          \* slot -> current value of its loop
    frames,          \* the running loops, outermost first
    loop_iterations, \* ExpansionBudget: iterations reserved so far
    log,             \* what happened: accesses visited and loops entered
    stage, failure   \* "walking", "done" or "failed", and why

vars == <<program, limits, root, prepared, values, frames, loop_iterations,
          log, stage, failure>>

inputs == <<program, limits>>

Init ==
    /\ program \in Programs
    /\ limits \in [single : SingleLimits, cumulative : CumulativeLimits]
    /\ root = 1
    /\ prepared = [n \in {} |-> 0]
    /\ values = <<>>
    /\ frames = <<>>
    /\ loop_iterations = 0
    /\ log = <<>>
    /\ stage = IF program.roots = <<>> THEN "done" ELSE "walking"
    /\ failure = "none"

-----------------------------------------------------------------------------
(* loop_iteration.cpp, on two's complement words.                           *)

Unsigned(i) == i % (2 * Half)

positive_distance(lower, upper) ==
    IF lower < 0 /\ upper >= 0
    THEN Unsigned(Unsigned(Unsigned(-(lower + 1)) + 1) + Unsigned(upper))
    ELSE Unsigned(upper - lower)

step_magnitude(step) == Unsigned(Unsigned(-(step + 1)) + 1)

ceil_divide(dividend, divisor) ==
    dividend \div divisor + (IF dividend % divisor # 0 THEN 1 ELSE 0)

loop_iteration_count(start, bound, step) ==
    IF step > 0 /\ start < bound
    THEN ceil_divide(positive_distance(start, bound), Unsigned(step))
    ELSE IF step < 0 /\ start > bound
    THEN ceil_divide(positive_distance(bound, start), step_magnitude(step))
    ELSE 0

-----------------------------------------------------------------------------
Top == frames[Len(frames)]
Body(n) == program.nodes[n].body

\* The node the walk stands before, if the running body has one left.
BodyEnds == frames # <<>> /\ Top.child > Len(Body(Top.node))
Current == IF frames = <<>> THEN program.roots[root] ELSE Body(Top.node)[Top.child]
IsLoop(n) == program.nodes[n].kind = "Loop"

FrameOf(variable, innermost) ==
    CHOOSE i \in DOMAIN frames :
        /\ program.nodes[frames[i].node].var = variable
        /\ \A j \in DOMAIN frames :
              program.nodes[frames[j].node].var = variable =>
                  IF innermost THEN j <= i ELSE j >= i

Variables == {program.nodes[frames[i].node].var : i \in DOMAIN frames}

\* Mutant: a name is looked up from the outside in.
Scope_outermost == [v \in Variables |-> prepared[frames[FrameOf(v, FALSE)].node].slot]

\* LoopScope: the slot of the nearest running loop of each name.
Scope == [v \in Variables |-> prepared[frames[FrameOf(v, TRUE)].node].slot]

\* prepare_node: nothing happens to a node that was reached before.
IsNew == Current \notin DOMAIN prepared

Binding == IF IsNew THEN [slot |-> Len(values) + 1, scope |-> Scope]
                    ELSE prepared[Current]

Prepared == [n \in DOMAIN prepared \cup {Current} |->
                IF n = Current THEN Binding ELSE prepared[n]]

PreparedValues == IF IsNew /\ IsLoop(Current) THEN Append(values, 0) ELSE values

\* The value of an affine expression, {} when a name is not bound to a slot or
\* the sum does not fit a word.  Sums are taken in words of twice the width,
\* which are wide enough here to be exact.
Evaluate(expression) ==
    IF DOMAIN expression.terms \subseteq DOMAIN Binding.scope
    THEN Word \cap
         {expression.constant
            + SumFunction([v \in DOMAIN expression.terms |->
                  expression.terms[v] * PreparedValues[Binding.scope[v]]])}
    ELSE {}

Fail(reason) == stage' = "failed" /\ failure' = reason

\* On to the next node of the running body, or to the next top-level node, which
\* starts with nothing prepared.
StepOver ==
    /\ UNCHANGED failure
    /\ IF frames # <<>>
       THEN /\ frames' = [frames EXCEPT ![Len(frames)].child = @ + 1]
            /\ prepared' = Prepared /\ values' = PreparedValues
            /\ UNCHANGED <<root, stage>>
       ELSE /\ root' = root + 1
            /\ prepared' = [n \in {} |-> 0] /\ values' = <<>>
            /\ stage' = IF root = Len(program.roots) THEN "done" ELSE stage
            /\ UNCHANGED frames

-----------------------------------------------------------------------------
Ready == stage = "walking" /\ ~BodyEnds

\* An access goes to the sink with the values of its indices.
VisitAccess ==
    /\ Ready /\ ~IsLoop(Current)
    /\ log' = Append(log,
                [node |-> Current,
                 at |-> [i \in DOMAIN program.nodes[Current].indices |->
                            Evaluate(program.nodes[Current].indices[i])]])
    /\ StepOver
    /\ UNCHANGED <<inputs, loop_iterations>>

SinkThrows ==
    /\ Ready /\ ~IsLoop(Current)
    /\ Fail("sink")
    /\ UNCHANGED <<inputs, root, prepared, values, frames, loop_iterations, log>>

Starts == Evaluate(program.nodes[Current].start)
Bounds == Evaluate(program.nodes[Current].bound)
Step == program.nodes[Current].step

LoopRejected ==
    /\ Ready /\ IsLoop(Current)
    /\ Starts = {} \/ Bounds = {} \/ Step = 0
    /\ Fail(IF Starts = {} \/ Bounds = {} THEN "unresolved" ELSE "step")
    /\ UNCHANGED <<inputs, root, prepared, values, frames, loop_iterations, log>>

\* Mutant: the cumulative limit is not looked at.
BudgetAllows_single_only(count) == count <= limits.single

\* Mutant: a loop of as many iterations as are allowed is refused.
BudgetAllows_exclusive(count) ==
    /\ count < limits.single
    /\ count <= limits.cumulative - loop_iterations

\* consume_loop_iterations' inclusive limits.
BudgetAllows(count) ==
    /\ count <= limits.single
    /\ count <= limits.cumulative - loop_iterations

\* A loop is charged at every entry, for all its iterations, before its body
\* runs.  A loop of no iterations is charged nothing and passed over.
EnterLoop ==
    /\ Ready /\ IsLoop(Current) /\ Step # 0
    /\ \E start \in Starts, bound \in Bounds :
          LET count == loop_iteration_count(start, bound, Step)
          IN  IF ~BudgetAllows(count)
              THEN /\ Fail("budget")
                   /\ UNCHANGED <<root, prepared, values, frames, loop_iterations, log>>
              ELSE /\ loop_iterations' = loop_iterations + count
                   /\ log' = Append(log, [node |-> Current, count |-> count])
                   /\ IF count = 0 THEN StepOver
                      ELSE /\ frames' = Append(frames,
                                 [node |-> Current, value |-> start, count |-> count,
                                  iteration |-> 0, child |-> 1])
                           /\ prepared' = Prepared
                           /\ values' = [PreparedValues EXCEPT ![Binding.slot] = start]
                           /\ UNCHANGED <<root, stage, failure>>
    /\ UNCHANGED inputs

\* Mutant: one iteration more.
MoreIterations_one_more == Top.iteration < Top.count

MoreIterations == Top.iteration + 1 < Top.count

\* The value moves on with checked arithmetic, and only if it is needed.
NextIteration ==
    /\ stage = "walking" /\ BodyEnds /\ MoreIterations
    /\ LET value == Top.value + program.nodes[Top.node].step
       IN  IF value \notin Word
           THEN Fail("overflow") /\ UNCHANGED <<values, frames>>
           ELSE /\ frames' = [frames EXCEPT ![Len(frames)].value = value,
                                            ![Len(frames)].iteration = @ + 1,
                                            ![Len(frames)].child = 1]
                /\ values' = [values EXCEPT ![prepared[Top.node].slot] = value]
                /\ UNCHANGED <<stage, failure>>
    /\ UNCHANGED <<inputs, root, prepared, loop_iterations, log>>

\* The body has run as often as it should: the loop is over, and the walk goes
\* on behind it.
LeaveLoop ==
    /\ stage = "walking" /\ BodyEnds /\ ~MoreIterations
    /\ IF Len(frames) > 1
       THEN /\ frames' = [SubSeq(frames, 1, Len(frames) - 1)
                             EXCEPT ![Len(frames) - 1].child = @ + 1]
            /\ UNCHANGED <<root, prepared, values, stage>>
       ELSE /\ frames' = <<>>
            /\ root' = root + 1
            /\ prepared' = [n \in {} |-> 0] /\ values' = <<>>
            /\ stage' = IF root = Len(program.roots) THEN "done" ELSE stage
    /\ UNCHANGED <<inputs, loop_iterations, log, failure>>

Next == VisitAccess \/ SinkThrows \/ LoopRejected \/ EnterLoop \/ NextIteration \/ LeaveLoop

Spec == Init /\ [][Next]_vars

-----------------------------------------------------------------------------
(* At its first visit and at every later one a node sees the loops that run *)
(* around it, the nearest of a name, by the values they have now: slots are *)
(* handed out as nodes are reached and names are bound once, but neither    *)
(* can be told.                                                             *)
BindingsCurrent ==
    Ready =>
        /\ DOMAIN Binding.scope = Variables
        /\ \A v \in Variables :
              PreparedValues[Binding.scope[v]] = frames[FrameOf(v, TRUE)].value

(* "loop iteration value overflows" is never thrown: as many iterations as  *)
(* word arithmetic counts are as many as stay on the near side of the bound. *)
LoopValuesFit == failure # "overflow"

Entries(n) == {i \in DOMAIN log : log[i].node = n}
Reserved(n) ==
    SumFunction([i \in Entries(n) |-> log[i].count])

(* "loop_iterations_expanded is the sum of loop trip counts reserved at     *)
(* each dynamic entry, including empty loops and repeated inner-loop        *)
(* entries" (docs/cache-hierarchy-artifacts-v1.md): over all tasks the      *)
(* limits hold, no node is reached more often than its loop has reserved,   *)
(* and a walk that gets to the end has used up what it reserved.            *)
WorkCharged ==
    LET loops == {n \in DOMAIN program.nodes : IsLoop(n)}
    IN  /\ loop_iterations = SumFunction([n \in loops |-> Reserved(n)])
        /\ loop_iterations <= limits.cumulative
        /\ \A n \in loops : \A i \in Entries(n) : log[i].count <= limits.single
        /\ \A m \in loops : \A n \in Range(Body(m)) :
              /\ Cardinality(Entries(n)) <= Reserved(m)
              /\ stage = "done" => Cardinality(Entries(n)) = Reserved(m)
=============================================================================
