----------------------------- MODULE LoopSemantics -----------------------------
(***************************************************************************)
(* What a task's loops mean: names, lexical scopes and unbounded integers, *)
(* with no slots, no preparation, no words and no budgets.  The prepared   *)
(* walk is compared with it step by step.                                  *)
(***************************************************************************)
EXTENDS PreparedTrace, SequencesExt

\* An expression in an environment; the program's words cannot hold every value.
Meaning(expression, env) ==
    IF DOMAIN expression.terms \subseteq DOMAIN env
    THEN Word \cap {expression.constant
                      + SumFunction([v \in DOMAIN expression.terms |->
                            expression.terms[v] * env[v]])}
    ELSE {}

\* How many of start, start + step, ... come before the bound.
Trips(start, bound, step) ==
    Cardinality({k \in 0 .. 2 * Half :
        IF step > 0 THEN start + k * step < bound ELSE start + k * step > bound})

Stuck == [node |-> 0]

\* First s, then t, unless s got stuck.
Then(s, t) == IF s # <<>> /\ Last(s) = Stuck THEN s ELSE s \o t

Bound(env, variable, value) ==
    [v \in DOMAIN env \cup {variable} |-> IF v = variable THEN value ELSE env[v]]

RECURSIVE Walk(_, _), WalkAll(_, _), Iterate(_, _, _, _)

WalkAll(nodes, env) ==
    IF nodes = <<>> THEN <<>>
    ELSE Then(Walk(Head(nodes), env), WalkAll(Tail(nodes), env))

Iterate(loop, env, value, trips) ==
    IF trips = 0 THEN <<>>
    ELSE Then(WalkAll(loop.body, Bound(env, loop.var, value)),
              Iterate(loop, env, value + loop.step, trips - 1))

Walk(n, env) ==
    LET node == program.nodes[n]
    IN  IF node.kind = "Access"
        THEN <<[node |-> n, at |-> [i \in DOMAIN node.indices |->
                                        Meaning(node.indices[i], env)]]>>
        ELSE IF node.step = 0 \/ {} \in {Meaning(node.start, env), Meaning(node.bound, env)}
        THEN <<Stuck>>
        ELSE LET start == CHOOSE x \in Meaning(node.start, env) : TRUE
                 bound == CHOOSE x \in Meaning(node.bound, env) : TRUE
                 trips == Trips(start, bound, node.step)
             IN  <<[node |-> n, count |-> trips]>> \o Iterate(node, env, start, trips)

Reference == WalkAll(program.roots, [v \in {} |-> 0])

-----------------------------------------------------------------------------
\* A node's place in the walk: the frames stand on nested loops.
TypeOK ==
    /\ stage \in {"walking", "done", "failed"}
    /\ (failure = "none") <=> (stage # "failed")
    /\ loop_iterations \in 0 .. limits.cumulative
    /\ values \in Seq(Word)
    /\ \A n \in DOMAIN prepared :
          /\ IsLoop(n) => prepared[n].slot \in DOMAIN values
          /\ \A v \in DOMAIN prepared[n].scope : prepared[n].scope[v] \in DOMAIN values
    /\ \A i \in DOMAIN frames :
          /\ frames[i].iteration < frames[i].count
          /\ frames[i].node \in DOMAIN prepared
          /\ i > 1 => frames[i].node = Body(frames[i - 1].node)[frames[i - 1].child]

(* Preparing a node once, binding it to slots and growing the slots while   *)
(* loops run does not show: accesses and loop entries come in the order and *)
(* with the index values that nested loops over names would give them.      *)
VisitsAsWritten ==
    /\ IsPrefix(log, Reference)
    /\ stage = "done" => log = Reference

(* The walk gives up only where the program means nothing or where exact    *)
(* arithmetic exceeds a limit.                                              *)
FailsForCause ==
    LET next == Reference[Len(log) + 1]
    IN  /\ failure \in {"unresolved", "step"} => next = Stuck
        /\ failure = "budget" =>
              \/ next.count > limits.single
              \/ loop_iterations + next.count > limits.cumulative
=============================================================================
