----------------------------- MODULE AccessLayout -----------------------------
(***************************************************************************)
(* Byte range of one access inside its object, from the element shape of   *)
(* the node or from the fields and indices of its path.  A layout that has *)
(* been resolved once leaves a plan, a list of displacements, from which   *)
(* later index rows are resolved.                                          *)
(*                                                                         *)
(* A checked value is a set with the value, or empty when it left the      *)
(* word.  A missing size is 0, which is refused like one.                  *)
(***************************************************************************)
EXTENDS Integers, Sequences, FiniteSets, SequencesExt

CONSTANTS Bits                     \* width of a machine word

ASSUME LayoutAssumption == Bits \in Nat \ {0}

Word == -(2^(Bits - 1)) .. 2^(Bits - 1) - 1

Times(A, B) == {a * b : a \in A, b \in B} \cap Word
Plus(A, B) == {a + b : a \in A, b \in B} \cap Word

Product(n, dims) == FoldLeft(LAMBDA p, d : Times(p, {d}), {n}, dims)

\* Amounts added up one by one; none once a sum has left the word.
Total(amounts) ==
    LET sum[n \in 0 .. Len(amounts)] == IF n = 0 THEN {0} ELSE Plus(sum[n - 1], amounts[n])
    IN  sum[Len(amounts)]

Rank(node) == Len(node.indices)

-----------------------------------------------------------------------------
(* Elements of a shape, in row-major order.                                 *)

\* Elements between two values of index p: only the last Rank - 1 dimensions count.
Pitch(node, p) ==
    Product(1, SubSeq(node.shape, Len(node.shape) - Rank(node) + 1 + p, Len(node.shape)))

ShapeFits(node) ==
    \/ Rank(node) = 0 /\ node.type = "Scalar"
    \/ Rank(node) = 1
    \/ Rank(node) > 1 /\ Len(node.shape) \in {Rank(node) - 1, Rank(node)}

\* Strides are empty sets where they overflow; such a plan is never kept.
ElementSteps(node) ==
    [p \in DOMAIN node.indices |-> [index |-> p, stride |-> Pitch(node, p), dimension |-> 0]]

linear_index(node, row) ==
    Total([p \in DOMAIN node.indices |-> Times({row[p]}, Pitch(node, p))])

prepare_legacy_access(node, row) ==
    IF ShapeFits(node) /\ node.elem_size > 0
    THEN [range |-> {[offset |-> o, size |-> node.elem_size] :
                        o \in Times(linear_index(node, row), {node.elem_size})},
          plan |-> [structured |-> FALSE, width |-> node.elem_size, extent |-> 0,
                    steps |-> ElementSteps(node)]]
    ELSE [range |-> {}]

-----------------------------------------------------------------------------
(* Fields and indices of a path.                                            *)

IsType(metadata) ==
    metadata.elem_size > 0 /\ \A d \in DOMAIN metadata.shape : metadata.shape[d] > 0

type_state(metadata) ==
    [shape |-> metadata.shape, type |-> metadata.elem_type, size |-> metadata.elem_size]

type_extent(state) == Product(state.size, state.shape)

FieldsAt(structs, state, segment) ==
    {f \in DOMAIN structs[state.type].fields :
        structs[state.type].fields[f].index = segment.index}

\* The first field with the index of the segment is the one, and has its name.
FirstField(structs, state, segment) ==
    structs[state.type].fields[Min(FieldsAt(structs, state, segment))]

FindsField(structs, state, segment) ==
    /\ state.shape = <<>> /\ state.type \in DOMAIN structs
    /\ structs[state.type].size = state.size
    /\ FieldsAt(structs, state, segment) # {}
    /\ FirstField(structs, state, segment).name = segment.name

FieldFits(field, state) ==
    /\ field.offset >= 0 /\ field.size > 0
    /\ field.size <= state.size /\ field.offset <= state.size - field.size
    /\ IsType(field) /\ type_extent(type_state(field)) = {field.size}

Refused == [valid |-> FALSE]

\* A walk along the path: the type reached, the offset and the plan so far.
Advance(walk, state, amount, step) ==
    IF Plus(walk.offset, amount) = {} THEN Refused
    ELSE [valid |-> TRUE, state |-> state, offset |-> Plus(walk.offset, amount),
          steps |-> Append(walk.steps, step), used |-> walk.used + (IF step.index = 0 THEN 0 ELSE 1)]

select_field(structs, segment, walk) ==
    IF ~FindsField(structs, walk.state, segment) THEN Refused
    ELSE LET field == FirstField(structs, walk.state, segment)
         IN  IF ~FieldFits(field, walk.state) THEN Refused
             ELSE Advance(walk, type_state(field), {field.offset},
                          [index |-> 0, stride |-> {field.offset}, dimension |-> 0])

InDimension(index, dims) == dims # <<>> /\ index \in 0 .. dims[1] - 1

select_index(index, walk) ==
    IF ~InDimension(index, walk.state.shape) THEN Refused
    ELSE LET stride == Product(walk.state.size, Tail(walk.state.shape))
         IN  Advance(walk, [walk.state EXCEPT !.shape = Tail(@)], Times({index}, stride),
                     [index |-> walk.used + 1, stride |-> stride,
                      dimension |-> walk.state.shape[1]])

\* An index segment repeats the expression of the node's next index.
IndexSegmentFits(node, segment, walk) ==
    /\ segment.kind = "index" /\ walk.used < Rank(node)
    /\ segment.value = node.indices[walk.used + 1]

select(node, row, structs, segment, walk) ==
    IF ~walk.valid THEN walk
    ELSE IF segment.kind = "field" THEN select_field(structs, segment, walk)
    ELSE IF IndexSegmentFits(node, segment, walk) THEN select_index(row[walk.used + 1], walk)
    ELSE Refused

PathStart(object) ==
    [valid |-> TRUE, state |-> type_state(object), offset |-> {0}, steps |-> <<>>, used |-> 0]

\* Where the path leads, segment by segment.
PathEnd(node, row, objects, structs) ==
    LET walk[n \in 0 .. Len(node.access_path)] ==
            IF n = 0 THEN PathStart(objects[node.object])
            ELSE select(node, row, structs, node.access_path[n], walk[n - 1])
    IN  walk[Len(node.access_path)]

PathResolves(node, leaf, object) ==
    /\ IsType(object) /\ object.kind # "pointer" /\ type_extent(type_state(object)) # {}
    /\ leaf.valid /\ leaf.used = Rank(node) /\ leaf.state.shape = <<>>

resolve_path(node, row, objects, structs) ==
    LET leaf == PathEnd(node, row, objects, structs)
        object == objects[node.object]
        extent == CHOOSE e \in type_extent(type_state(object)) : TRUE
        size == leaf.state.size
    IN  IF /\ PathResolves(node, leaf, object)
           /\ \E end \in Plus(leaf.offset, {size}) : end <= extent
        THEN [range |-> {[offset |-> o, size |-> size] : o \in leaf.offset},
              plan |-> [structured |-> TRUE, width |-> size, extent |-> extent,
                        steps |-> leaf.steps]]
        ELSE [range |-> {}]

has_field_path(node) ==
    \E i \in DOMAIN node.access_path : node.access_path[i].kind = "field"

prepare(node, row, objects, structs) ==
    IF has_field_path(node) THEN resolve_path(node, row, objects, structs)
                            ELSE prepare_legacy_access(node, row)

-----------------------------------------------------------------------------
\* Amount added by one displacement of a plan; none if a structured index is not
\* in its dimension.
\* Mutant: the dimension is not looked at again.
StepAmount_unchecked(plan, step, row) ==
    IF step.index = 0 THEN step.stride ELSE Times({row[step.index]}, step.stride)

StepAmount(plan, step, row) ==
    IF step.index = 0 THEN step.stride
    ELSE IF plan.structured /\ row[step.index] \notin 0 .. step.dimension - 1 THEN {}
    ELSE Times({row[step.index]}, step.stride)

PlannedOffset(plan, row) ==
    Total([s \in DOMAIN plan.steps |-> StepAmount(plan, plan.steps[s], row)])

\* PreparedLayout::resolve: the same arithmetic without the metadata.
resolve(plan, row) ==
    LET offset == PlannedOffset(plan, row)
        bytes == IF plan.structured THEN offset ELSE Times(offset, {plan.width})
        ends == Plus(offset, {plan.width})
    IN  {[offset |-> o, size |-> plan.width] :
            o \in {b \in bytes : plan.structured => \E end \in ends : end <= plan.extent}}
=============================================================================
