---------------------------- MODULE CallSemantics ----------------------------
(***************************************************************************)
(* What the calls of a MAP module mean: arguments are evaluated where the  *)
(* call stands and passed by value, pointers by identity, a loop binds its *)
(* variable in its own body only, on unbounded integers and with no budget.*)
(* The expansion is compared with it.                                      *)
(***************************************************************************)
EXTENDS CallExpansion

\* An environment gives every name its value, as a set that is empty when the
\* value cannot be expressed, and the most a form of it can have added up.
\* Free names, and the variable of the loop at each depth, have values so far apart
\* that forms within the word differ when their values do.
Atom(n) == [value |-> {2^(Bits * n)}, magnitude |-> 1]

Free == [v \in Variables |-> Atom(CHOOSE i \in DOMAIN Names : Names[i] = v)]

Enclosing(body, i) ==
    {j \in 1 .. i - 1 : /\ body[j].type = "Open"
                        /\ \A k \in j .. i - 1 :
                              Marks("Open", body, j, k) > Marks("Close", body, j, k)}

\* The names where node i stands, env outside its body, which depth loops enclose.
Scope(body, i, env, depth) ==
    LET loops == Enclosing(body, i)
        Binding(v) == {j \in loops : body[j].var = v}
    IN  [v \in Variables |->
            IF Binding(v) = {} THEN env[v]
            ELSE Atom(Len(Names) + depth + Cardinality({j \in loops : j <= Max(Binding(v))}))]

Abs(n) == IF n < 0 THEN -n ELSE n
Used(e) == {v \in Variables : e.terms[v] # 0}
The(S) == CHOOSE x \in S : TRUE

Evaluated(e, env) ==
    [value |-> IF e.exact /\ \A v \in Used(e) : env[v].value # {}
               THEN {e.constant + MapThenSumSet(LAMBDA v : e.terms[v] * The(env[v].value),
                                                Used(e))}
               ELSE {},
     magnitude |-> Abs(e.constant)
                     + MapThenSumSet(LAMBDA v : Abs(e.terms[v]) * env[v].magnitude, Used(e))]

EvaluatedAll(es, env) == [i \in DOMAIN es |-> Evaluated(es[i], env)]

FirstSize(sizes) == IF \A i \in DOMAIN sizes : sizes[i] = NoSize THEN NoSize
                    ELSE SelectSeq(sizes, LAMBDA s : s # NoSize)[1]

SizeOf(object) == IF object \in DOMAIN module.objects
                  THEN module.objects[object].elem_size ELSE NoSize
ShapeOf(object) == IF object \in DOMAIN module.objects
                   THEN module.objects[object].shape ELSE NoShape

\* The dimensions that say how far apart two rows are.
RowDimensions(node) ==
    LET shape == IF node.shape # NoShape THEN Shape(node.shape) ELSE Shape(ShapeOf(node.object))
        count == Rows(IF node.field_path = NoFieldPath THEN Len(node.indices)
                                                       ELSE node.field_path)
    IN  IF count <= Len(shape) THEN SubSeq(shape, Len(shape) - count + 1, Len(shape))
                               ELSE <<>>

AccessMeaning(node, env, object_ids) ==
    LET object == ActualObject(node.object, object_ids)
    IN  [type |-> node.type, object |-> object,
         at |-> EvaluatedAll(node.indices, env),
         rows |-> RowDimensions(node),
         elem_size |-> FirstSize(<<node.elem_size, SizeOf(node.object), SizeOf(object)>>)]

CallMeaning(node, env, object_ids) ==
    [type |-> "Call", callee |-> node.callee,
     at |-> EvaluatedAll(node.args, env),
     objects |-> [i \in DOMAIN node.arg_objects |->
                     ActualObject(node.arg_objects[i], object_ids)]]

Endpoints(node) == <<node.start, node.bound>>

LoopMeaning(node, env) == [type |-> "Open", at |-> EvaluatedAll(Endpoints(node), env)]

RECURSIVE Runs(_, _, _, _)

Does(node, env, depth, object_ids) ==
    CASE IsAccess(node) -> <<AccessMeaning(node, env, object_ids)>>
      [] IsOpaque(node) -> <<CallMeaning(node, env, object_ids)>>
      [] node.type = "Open" -> <<LoopMeaning(node, env)>>
      [] node.type = "Close" -> <<[type |-> "Close"]>>
      [] OTHER ->
            LET f == Callee(node.callee)
                Position(p) == CHOOSE i \in DOMAIN f.params : f.params[i] = p
                Source(o) == CHOOSE i \in DOMAIN f.params : o = Formal(f.name, f.params[i])
            IN  Runs(f.body,
                     [v \in Variables |-> IF v \in {f.params[i] : i \in DOMAIN f.params}
                                          THEN Evaluated(node.args[Position(v)], env)
                                          ELSE Free[v]],
                     depth,
                     [o \in {Formal(f.name, f.params[i]) : i \in DOMAIN node.arg_objects} |->
                          ActualObject(node.arg_objects[Source(o)], object_ids)])

Runs(body, env, depth, object_ids) ==
    FlattenSeq([i \in DOMAIN body |->
        Does(body[i], Scope(body, i, env, depth),
             depth + Cardinality(Enclosing(body, i)), object_ids)])

NoBindings == [o \in {} |-> NoObject]
Reported == SelectSeq(module.functions, Selected)

\* A value agrees unless it was given up, for a form that outgrew the word.
ValuesAgree(got, meant) ==
    /\ DOMAIN got = DOMAIN meant
    /\ \A i \in DOMAIN got :
          \/ got[i].value = meant[i].value
          \/ got[i].value = {} /\ ~InWord(meant[i].magnitude)

RowsAgree(got, meant) == meant = <<>> \/ got = meant

Agrees(got, meant) ==
    /\ got.type = meant.type
    /\ got.type \in {"Array", "Scalar"} =>
          /\ got.object = meant.object /\ got.elem_size = meant.elem_size
          /\ ValuesAgree(got.at, meant.at) /\ RowsAgree(got.rows, meant.rows)
    /\ got.type = "Open" => ValuesAgree(got.at, meant.at)
    /\ got.type = "Call" =>
          /\ got.callee = meant.callee /\ got.objects = meant.objects
          /\ ValuesAgree(got.at, meant.at)

-----------------------------------------------------------------------------
FunctionNames == {module.functions[i].name : i \in DOMAIN module.functions}

CallsOf(name) ==
    LET body == Callee(name).body
    IN  {body[i] : i \in {j \in DOMAIN body : body[j].type = "Call"}}

Inlined(name) ==
    {call.callee : call \in {c \in CallsOf(name) : ~IsOpaque(c)}} \cap FunctionNames

Expanded == {f.name : f \in {module.functions[i] : i \in
                {j \in DOMAIN module.functions : task_mode => Selected(module.functions[j])}}}

RECURSIVE Closure(_)
Closure(S) == LET more == S \cup UNION {Inlined(f) : f \in S}
              IN  IF more = S THEN S ELSE Closure(more)

Reachable == Closure(Expanded)
Recursive == \E f \in Reachable : f \in Closure(Inlined(f))

-----------------------------------------------------------------------------
Parameters(f) == {f.params[i] : i \in DOMAIN f.params}
LoopVariables(f) == {f.body[i].var : i \in {j \in DOMAIN f.body : f.body[j].type = "Open"}}

UsedBy(forms) == UNION {Used(forms[i]) : i \in DOMAIN forms}
NamesIn(node) == IF IsAccess(node) THEN UsedBy(node.indices)
                 ELSE IF node.type = "Call" THEN UsedBy(node.args)
                 ELSE IF node.type = "Open" THEN UsedBy(Endpoints(node)) ELSE {}

LoopNames(f, i) == {f.body[j].var : j \in Enclosing(f.body, i)}
Unbound(f) ==
    UNION {NamesIn(f.body[i]) \ LoopNames(f, i) : i \in DOMAIN f.body} \ Parameters(f)
Passed(f) == UNION {UsedBy(c.args) : c \in {d \in CallsOf(f.name) : ~IsOpaque(d)}}

\* What a module must keep to: endpoints over the variables of the loops around them
\* in their function, loops apart from the parameters of their function, and from
\* the names that come into it: by what a caller passes down, by what a callee
\* leaves free.  A caller and a callee may still name their loops alike.
NamesSeparated ==
    \A name \in Reachable :
       LET f == Callee(name)
       IN  /\ LoopVariables(f) \cap Parameters(f) = {}
           /\ \A i \in DOMAIN f.body :
                 f.body[i].type = "Open" => NamesIn(f.body[i]) \subseteq LoopNames(f, i)
           /\ \A g \in Closure(Inlined(name)) :
                 /\ LoopVariables(Callee(g)) \cap Passed(f) = {}
                 /\ LoopVariables(f) \cap Unbound(Callee(g)) = {}

\* Where loops are named apart, as the producer names them, the expansion of a root
\* does what calling its callees does, node by node: an index and an end of a loop
\* mean the same number, an access the same object, element width and row pitch, a
\* call that is kept the same arguments; an index is given up only when its
\* coefficients could not be kept (expand_module, substitute_call_node).
ExpansionMeansCalls ==
    stage = "done" /\ NamesSeparated =>
        /\ Len(result) = Len(Reported)
        /\ \A r \in DOMAIN result :
              LET got == Runs(result[r].body, Free, 0, NoBindings)
                  meant == Runs(Reported[r].body, Free, 0, NoBindings)
              IN  /\ result[r].name = Reported[r].name
                  /\ \A i \in DOMAIN result[r].body :
                        result[r].body[i].type = "Call" => IsOpaque(result[r].body[i])
                  /\ Len(got) = Len(meant)
                  /\ \A i \in DOMAIN got : Agrees(got[i], meant[i])

-----------------------------------------------------------------------------
RECURSIVE CallDepth(_), Cost(_)

CallDepth(name) == Max({0} \cup {1 + CallDepth(g) : g \in Inlined(name)})

Cost(name) ==
    LET body == Callee(name).body
        NodeCost(i) == IF body[i].type = "Open" THEN 0
                       ELSE IF body[i].type # "Call" \/ IsOpaque(body[i]) THEN 1
                       ELSE 1 + Cost(body[i].callee)
    IN  MapThenSumSet(NodeCost, DOMAIN body)

\* Work of an expansion that would go to its end.
TotalCost == MapThenSumSet(Cost, Expanded)
DeepestCall == Max({CallDepth(f) : f \in Expanded})

\* A module is refused only for what it says: its call graph from the expanded
\* functions has a cycle, or calls something that is not there or takes other
\* arguments, or is deeper or larger than the limits; and one that is returned
\* has none of these faults and cost what its tree counts
\* (append_expanded_node, ExpansionBudget).
ExpansionRefusedForCause ==
    LET unknown == \E f \in Reachable : \E c \in CallsOf(f) : c.callee \notin FunctionNames
        misfit == \E f \in Reachable : \E c \in CallsOf(f) :
                      /\ c.callee \in FunctionNames /\ ~IsOpaque(c)
                      /\ \/ Len(c.args) # Len(Callee(c.callee).params)
                         \/ c.has_arg_objects /\ Len(c.arg_objects) # Len(c.args)
        sound == ~unknown /\ ~Recursive
    IN  stage \in {"failed", "done"} /\ failure # "module" =>
            /\ failure = "target" => unknown
            /\ failure = "recursion" => Recursive
            /\ failure = "arity" => misfit
            /\ failure = "nodes" /\ sound => TotalCost > limits.nodes
            /\ failure = "depth" /\ sound => DeepestCall > limits.depth
            /\ failure = "rootless" => Reported = <<>>
            /\ stage = "done" =>
                  /\ sound /\ ~misfit
                  /\ TotalCost = expanded_nodes /\ DeepestCall <= limits.depth

=============================================================================
