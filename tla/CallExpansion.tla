---------------------------- MODULE CallExpansion ----------------------------
(***************************************************************************)
(* Replacing the calls of a MAP module by the bodies they run.  A body is  *)
(* the sequence of its nodes, a loop being the nodes between its Open and  *)
(* its Close, with its variable, start and bound on the Open; a call in    *)
(* progress is a frame with the callee's body, its actual arguments and    *)
(* objects already substituted.  Names, steps of loops and the text of     *)
(* expressions are data: an expression is an affine form over names, or    *)
(* inexact.                                                                *)
(***************************************************************************)
EXTENDS Integers, Sequences, FiniteSets, SequencesExt

CONSTANTS
    Modules,                       \* inputs: functions, object metadata, version
    Names,                         \* parameters and variables, in text order
    Bits,                          \* width of a coefficient
    NodeLimits, DepthLimits        \* ExpansionLimits

ASSUME ExpansionAssumption ==
    /\ NodeLimits \subseteq Nat /\ DepthLimits \subseteq Nat
    /\ Bits \in Nat \ {0}

VARIABLES
    module, task_mode, limits,     \* inputs: expand_task_calls or expand_calls
    function,                      \* the function being expanded
    frames,                        \* its body and the calls under way in it
    expanded,                      \* its nodes so far
    result,                        \* finished roots
    expanded_nodes,                \* ExpansionBudget
    stage, failure

vars == <<module, task_mode, limits, function, frames, expanded, result,
          expanded_nodes, stage, failure>>

inputs == <<module, task_mode, limits>>

Starts(input) ==
    /\ module = input
    /\ task_mode \in BOOLEAN
    /\ limits \in [nodes : NodeLimits, depth : DepthLimits]
    /\ function = 0
    /\ frames = <<>> /\ expanded = <<>> /\ result = <<>>
    /\ expanded_nodes = 0
    /\ stage = "reading" /\ failure = "none"

Init == \E input \in Modules : Starts(input)

-----------------------------------------------------------------------------
(* Affine forms over machine words.                                         *)

Variables == {Names[i] : i \in DOMAIN Names}
InWord(n) == n \in -(2^(Bits - 1)) .. 2^(Bits - 1) - 1

Inexact == [exact |-> FALSE, constant |-> 0, terms |-> [v \in Variables |-> 0]]
Lone(name) == [exact |-> TRUE, constant |-> 0,
               terms |-> [v \in Variables |-> IF v = name THEN 1 ELSE 0]]

\* target + coefficient * source, unless a product or a sum leaves the word.
add_affine_expression(target, source, coefficient) ==
    LET sum == [exact |-> TRUE,
                constant |-> target.constant + coefficient * source.constant,
                terms |-> [v \in Variables |->
                              target.terms[v] + coefficient * source.terms[v]]]
        fits(a, b) == InWord(coefficient * a) /\ InWord(b)
    IN  IF /\ target.exact /\ source.exact
           /\ fits(source.constant, sum.constant)
           /\ \A v \in Variables : fits(source.terms[v], sum.terms[v])
        THEN sum ELSE Inexact

\* Mutant: one name after the other, through the arguments already put in.
substitute_name_in_turn(name, mapping) ==
    LET Rest(form, v) == [form EXCEPT !.terms[v] = 0]
        Step(form, v) == IF v \notin DOMAIN mapping \/ form.terms[v] = 0 THEN form
                         ELSE add_affine_expression(Rest(form, v), mapping[v], form.terms[v])
    IN  IF ~name.exact THEN name ELSE FoldLeft(Step, name, Names)

\* The actual of every name at once; a form that cannot be built is kept as a
\* text nobody can evaluate.
substitute_name(name, mapping) ==
    LET Actual(v) == IF v \in DOMAIN mapping THEN mapping[v] ELSE Lone(v)
        Step(result_, v) == IF name.terms[v] = 0 THEN result_
                            ELSE add_affine_expression(result_, Actual(v), name.terms[v])
    IN  IF ~name.exact THEN name
        ELSE FoldLeft(Step, [name EXCEPT !.terms = [v \in Variables |-> 0]], Names)

-----------------------------------------------------------------------------
(* Objects.  A formal pointer parameter is an object of its own until a     *)
(* call binds it.  No extent is zero, so NoShape is no shape.               *)

NoObject == <<"", "">>
Formal(callee, parameter) == <<callee, parameter>>
NoShape == <<0>>
NoSize == 0
NoType == ""
NoFieldPath == -1

Shape(shape) == IF shape = NoShape THEN <<>> ELSE shape

apply_object_metadata(node, metadata, replace_shape) ==
    [node EXCEPT
        !.shape = IF /\ node.type = "Array" /\ metadata.shape # NoShape
                     /\ replace_shape \/ node.shape = NoShape
                  THEN metadata.shape ELSE @,
        !.elem_size = IF @ = NoSize THEN metadata.elem_size ELSE @]

IsAccess(node) == node.type \in {"Array", "Scalar"}

enrich_node(node) ==
    IF IsAccess(node) /\ node.object \in DOMAIN module.objects
    THEN apply_object_metadata(node, module.objects[node.object], FALSE)
    ELSE node

Compatible(a, b, missing) == missing \in {a, b} \/ a = b

\* The last count dimensions of two shapes are there and equal.
validate_row_dimensions(formal, actual, count) ==
    /\ Len(formal) >= count /\ Len(actual) >= count
    /\ \A k \in 0 .. count - 1 : formal[Len(formal) - k] = actual[Len(actual) - k]

Rows(n) == IF n = 0 THEN 0 ELSE n - 1

FieldBindingFits(node, actual) ==
    node.object \in DOMAIN module.objects =>
        LET formal == module.objects[node.object]
        IN  /\ Compatible(formal.elem_type, actual.elem_type, NoType)
            /\ Compatible(formal.elem_size, actual.elem_size, NoSize)
            /\ IF node.field_path = 0
               THEN Shape(formal.shape) = Shape(actual.shape)
               ELSE validate_row_dimensions(Shape(formal.shape), Shape(actual.shape),
                                            Rows(node.field_path))

ElementBindingFits(node, actual) ==
    /\ Compatible(node.elem_size, actual.elem_size, NoSize)
    /\ node.shape # NoShape \/ node.object \in DOMAIN module.objects =>
           validate_row_dimensions(Shape(node.shape), Shape(actual.shape),
                                   Rows(Len(node.indices)))

validate_array_binding(node, actual) ==
    IF node.field_path # NoFieldPath THEN FieldBindingFits(node, actual)
                                     ELSE ElementBindingFits(node, actual)

\* Metadata of the actual object, where a call binds one that has metadata.
IsDescribed(node, object_ids) ==
    /\ IsAccess(node) /\ node.object \in DOMAIN object_ids
    /\ object_ids[node.object] \in DOMAIN module.objects

Misfits(node, object_ids) ==
    /\ node.type = "Array" /\ IsDescribed(node, object_ids)
    /\ ~validate_array_binding(node, module.objects[object_ids[node.object]])

ActualObject(object, object_ids) ==
    IF object \in DOMAIN object_ids THEN object_ids[object] ELSE object

ActualAccess(node, names, object_ids) ==
    LET described == IF IsDescribed(node, object_ids)
                     THEN apply_object_metadata(
                              node, module.objects[object_ids[node.object]], TRUE)
                     ELSE node
    IN  [described EXCEPT
            !.object = ActualObject(@, object_ids),
            !.indices = [i \in DOMAIN @ |-> substitute_name(@[i], names)]]

ActualCall(node, names, object_ids) ==
    [node EXCEPT
        !.args = [i \in DOMAIN @ |-> substitute_name(@[i], names)],
        !.arg_objects = [i \in DOMAIN @ |-> ActualObject(@[i], object_ids)]]

\* A loop keeps its variable, its start and its bound, whatever the call passes.
substitute_call_node(node, names, object_ids) ==
    CASE IsAccess(node) -> ActualAccess(node, names, object_ids)
      [] node.type = "Call" -> ActualCall(node, names, object_ids)
      [] OTHER -> node

-----------------------------------------------------------------------------
(* Functions, roles and task identities.                                    *)

is_analyzed(f) == "analyze" \in f.roles
is_inline(f) == "inline" \in f.roles

Callees(name) == {i \in DOMAIN module.functions : module.functions[i].name = name}
Callee(name) == module.functions[CHOOSE i \in Callees(name) : TRUE]

analysis_task_id(f) == IF f.region THEN "region:" \o f.name \o ":APE_ANALYZE" ELSE f.name

HasRoles == \E i \in DOMAIN module.functions : module.functions[i].roles # {}

\* Expanded functions that are reported; the legacy mode without roles reports all.
Selected(f) == is_analyzed(f) \/ (~task_mode /\ ~HasRoles)

validate_task_scopes ==
    /\ \A i \in DOMAIN module.functions :
          module.functions[i].region =>
              /\ task_mode
              /\ is_analyzed(module.functions[i]) /\ ~is_inline(module.functions[i])
    /\ task_mode =>
          \A i, j \in {k \in DOMAIN module.functions : is_analyzed(module.functions[k])} :
              analysis_task_id(module.functions[i]) = analysis_task_id(module.functions[j]) => i = j

Readable ==
    /\ module.version_supported
    /\ \A i \in DOMAIN module.functions : module.functions[i].name # ""
    /\ \A i, j \in DOMAIN module.functions :
          module.functions[i].name = module.functions[j].name => i = j
    /\ \A i \in DOMAIN module.functions :
          task_mode => ~(is_analyzed(module.functions[i]) /\ is_inline(module.functions[i]))
    /\ validate_task_scopes

-----------------------------------------------------------------------------
Fail(cause) ==
    /\ stage' = "failed" /\ failure' = cause
    /\ UNCHANGED <<inputs, function, frames, expanded, result>>

\* The module is rejected before anything is expanded.
RejectModule ==
    /\ stage = "reading" /\ ~Readable
    /\ Fail("module")
    /\ UNCHANGED expanded_nodes

ReadModule ==
    /\ stage = "reading" /\ Readable
    /\ stage' = "expanding"
    /\ function' = 1
    /\ UNCHANGED <<inputs, frames, expanded, result, expanded_nodes, failure>>

HasFunction == stage = "expanding" /\ function <= Len(module.functions)
Root == module.functions[function]

SkipFunction ==
    /\ HasFunction /\ frames = <<>> /\ task_mode /\ ~Selected(Root)
    /\ function' = function + 1
    /\ UNCHANGED <<inputs, frames, expanded, result, expanded_nodes, stage, failure>>

StartFunction ==
    /\ HasFunction /\ frames = <<>> /\ (task_mode => Selected(Root))
    /\ frames' = <<[name |-> Root.name, at |-> 1, misfits |-> {},
                    body |-> [i \in DOMAIN Root.body |-> enrich_node(Root.body[i])]]>>
    /\ expanded' = <<>>
    /\ UNCHANGED <<inputs, function, result, expanded_nodes, stage, failure>>

Top == frames[Len(frames)]
Ended == Top.at > Len(Top.body)
Node == Top.body[Top.at]
Stack == {frames[i].name : i \in DOMAIN frames}

\* Mutant: the root counts as a call.
Depth_with_root == Len(frames)

Depth == Len(frames) - 1

Marks(type, body, from, to) == Cardinality({i \in from .. to : body[i].type = type})

\* Nodes of the child that starts here, to the end of its loop if it is one.
ChildNodes ==
    LET Closes(to) == Marks("Open", Top.body, Top.at, to) = Marks("Close", Top.body, Top.at, to)
        to == CHOOSE to \in Top.at .. Len(Top.body) :
                  Closes(to) /\ \A earlier \in Top.at .. to - 1 : ~Closes(earlier)
    IN  IF Node.type = "Open" THEN Top.at .. to ELSE {Top.at}

Advanced == [frames EXCEPT ![Len(frames)].at = @ + 1]

\* A whole child is substituted before any of it is expanded.
MisfitAhead == ChildNodes \cap Top.misfits # {}

Expanding == stage = "expanding" /\ frames # <<>> /\ ~Ended
Handles(type) == Expanding /\ Node.type = type /\ ~MisfitAhead

RefuseBinding ==
    /\ Expanding /\ MisfitAhead
    /\ Fail("binding")
    /\ UNCHANGED expanded_nodes

NodeAllowed == expanded_nodes < limits.nodes

\* Nodes that go to the output as they are: a loop is charged after its body.
IsOpaque(node) ==
    node.type = "Call" /\ task_mode /\ Callees(node.callee) # {} /\ ~is_inline(Callee(node.callee))
IsKept(node) == node.type = "Close" \/ IsAccess(node) \/ IsOpaque(node)

KeepNode ==
    /\ Expanding /\ ~MisfitAhead /\ IsKept(Node) /\ NodeAllowed
    /\ expanded_nodes' = expanded_nodes + 1
    /\ expanded' = Append(expanded, Node)
    /\ frames' = Advanced
    /\ UNCHANGED <<inputs, function, result, stage, failure>>

OpenLoop ==
    /\ Handles("Open")
    /\ expanded' = Append(expanded, Node)
    /\ frames' = Advanced
    /\ UNCHANGED <<inputs, function, result, expanded_nodes, stage, failure>>

RefuseTarget ==
    /\ Handles("Call") /\ Callees(Node.callee) = {}
    /\ Fail("target")
    /\ UNCHANGED expanded_nodes

\* A call that is expanded: the checks follow in this order.
Inlines == Handles("Call") /\ Callees(Node.callee) # {} /\ ~IsOpaque(Node)

\* Mutant: only a call of a function by itself counts.
IsRecursive_direct_only == Node.callee = Top.name

IsRecursive == Node.callee \in Stack

RefuseRecursion ==
    /\ Inlines /\ IsRecursive
    /\ Fail("recursion")
    /\ UNCHANGED expanded_nodes

RefuseDepth ==
    /\ Inlines /\ ~IsRecursive /\ Depth + 1 > limits.depth
    /\ Fail("depth")
    /\ UNCHANGED expanded_nodes

Enterable == Inlines /\ ~IsRecursive /\ Depth + 1 <= limits.depth

NodesExhausted ==
    /\ Enterable \/ (Expanding /\ ~MisfitAhead /\ IsKept(Node))
    /\ ~NodeAllowed
    /\ Fail("nodes")
    /\ UNCHANGED expanded_nodes

ArityFits ==
    /\ Len(Node.args) = Len(Callee(Node.callee).params)
    /\ Node.has_arg_objects => Len(Node.arg_objects) = Len(Node.args)

RefuseArity ==
    /\ Enterable /\ NodeAllowed /\ ~ArityFits
    /\ expanded_nodes' = expanded_nodes + 1
    /\ Fail("arity")

ParameterAt(params, name) == CHOOSE i \in DOMAIN params : params[i] = name

ActualNames(params, args) ==
    [p \in {params[i] : i \in DOMAIN params} |-> args[ParameterAt(params, p)]]

ActualObjects(callee, params, arg_objects) ==
    [o \in {Formal(callee, params[i]) : i \in DOMAIN arg_objects} |->
        arg_objects[ParameterAt(params, o[2])]]

EnterCall ==
    /\ Enterable /\ NodeAllowed /\ ArityFits
    /\ LET f == Callee(Node.callee)
           names == ActualNames(f.params, Node.args)
           object_ids == ActualObjects(f.name, f.params, Node.arg_objects)
           body == [i \in DOMAIN f.body |-> enrich_node(f.body[i])]
       IN  frames' = Append(Advanced,
               [name |-> f.name, at |-> 1,
                misfits |-> {i \in DOMAIN body : Misfits(body[i], object_ids)},
                body |-> [i \in DOMAIN body |->
                             substitute_call_node(body[i], names, object_ids)]])
    /\ expanded_nodes' = expanded_nodes + 1
    /\ UNCHANGED <<inputs, function, expanded, result, stage, failure>>

LeaveCall ==
    /\ stage = "expanding" /\ Len(frames) > 1 /\ Ended
    /\ frames' = SubSeq(frames, 1, Len(frames) - 1)
    /\ UNCHANGED <<inputs, function, expanded, result, expanded_nodes, stage, failure>>

\* A legacy helper is expanded like a root and then dropped.
FinishFunction ==
    /\ stage = "expanding" /\ Len(frames) = 1 /\ Ended
    /\ result' = IF Selected(Root)
                 THEN Append(result, [name |-> Root.name, body |-> expanded]) ELSE result
    /\ frames' = <<>> /\ expanded' = <<>>
    /\ function' = function + 1
    /\ UNCHANGED <<inputs, expanded_nodes, stage, failure>>

RefuseRootless ==
    /\ stage = "expanding" /\ ~HasFunction /\ task_mode /\ result = <<>>
    /\ Fail("rootless")
    /\ UNCHANGED expanded_nodes

Return ==
    /\ stage = "expanding" /\ ~HasFunction /\ (task_mode => result # <<>>)
    /\ stage' = "done"
    /\ UNCHANGED <<inputs, function, frames, expanded, result, expanded_nodes, failure>>

Next ==
    \/ RejectModule \/ ReadModule \/ SkipFunction \/ StartFunction
    \/ RefuseBinding \/ KeepNode \/ OpenLoop \/ RefuseTarget \/ RefuseRecursion
    \/ RefuseDepth \/ NodesExhausted \/ RefuseArity \/ EnterCall \/ LeaveCall
    \/ FinishFunction \/ RefuseRootless \/ Return

Spec == Init /\ [][Next]_vars

-----------------------------------------------------------------------------
Charged == {i \in DOMAIN expanded : expanded[i].type # "Open"}

\* What was charged covers what the current function has produced, a loop counting
\* when it is closed, and stays within its limit; no function stands on the call
\* stack twice, and the stack is no deeper than allowed (ExpansionBudget, the
\* stack of append_expanded_node).
ExpansionBounded ==
    /\ Cardinality(Charged) <= expanded_nodes /\ expanded_nodes <= limits.nodes
    /\ frames # <<>> => Depth <= limits.depth
    /\ \A i, j \in DOMAIN frames : frames[i].name = frames[j].name => i = j
=============================================================================
