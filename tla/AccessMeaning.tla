----------------------------- MODULE AccessMeaning -----------------------------
(***************************************************************************)
(* What the indices and the path of an access mean, without plan and       *)
(* without machine words, and the property that a resolved access means it.*)
(***************************************************************************)
EXTENDS AccessPlan

\* The bytes an access names, in integers without bound: the value of each index
\* times the elements below it, and the fields on the way.  Empty when the path
\* goes nowhere.
ElementBytes(row) ==
    LET n == Rank(node)
        Dim(p) == node.shape[Len(node.shape) - n + 1 + p]
        Horner(o, p) == o * (IF p = 1 THEN 1 ELSE Dim(p - 1)) + row[p]
    IN  IF ~ShapeFits(node) \/ node.elem_size <= 0 THEN {}
        ELSE {[from |-> FoldLeft(Horner, 0, [p \in 1 .. n |-> p]) * node.elem_size,
               size |-> node.elem_size]}

\* All leaves of a type with the field names and index values that lead to them.
RECURSIVE Leaves(_, _)
Leaves(type, depth) ==
    LET Below(step, inner, by) ==
            {[at |-> <<step>> \o leaf.at, from |-> by + leaf.from, size |-> leaf.size] :
                leaf \in inner}
        element == [type EXCEPT !.shape = Tail(type.shape)]
        pitch == FoldLeft(LAMBDA a, b : a * b, type.elem_size, Tail(type.shape))
        fields == access.structs[type.elem_type].fields
    IN  IF type.shape # <<>>
        THEN UNION {Below(<<"", i>>, Leaves(element, depth), i * pitch) : i \in 0 .. type.shape[1] - 1}
        ELSE {[at |-> <<>>, from |-> 0, size |-> type.elem_size]}
             \cup IF depth = 0 \/ type.elem_type \notin DOMAIN access.structs THEN {}
                  ELSE UNION {Below(<<fields[f].name, 0>>, Leaves(fields[f], depth - 1),
                                    fields[f].offset) : f \in DOMAIN fields}

\* The path with the values of its indices in place.
NamedPath(row) ==
    LET Before(s) == Cardinality({t \in 1 .. s : node.access_path[t].kind = "index"})
    IN  [s \in DOMAIN node.access_path |->
            IF node.access_path[s].kind = "field" THEN <<node.access_path[s].name, 0>>
            ELSE <<"", row[Before(s)]>>]

PathBytes(row) ==
    LET indexed == Cardinality({s \in DOMAIN node.access_path :
                                   node.access_path[s].kind = "index"})
    IN  IF indexed # Len(row) THEN {}
        ELSE {[from |-> leaf.from, size |-> leaf.size] :
                leaf \in {l \in Leaves(access.objects[node.object], Len(node.access_path)) :
                             l.at = NamedPath(row)}}

\* A resolved access has the bytes its node names, all of them in the object the
\* image has for it and at that object's addresses, and in a range of addresses
\* that does not wrap (prepare_legacy_access, resolve_path, PreparedLayout::resolve).
AccessNamesItsBytes ==
    /\ AccessInObject
    /\ \A got \in last.outcome.at :
          LET row == evaluate_numeric(last.values)
          IN  [from |-> got.offset, size |-> got.size] \in
                  IF has_field_path(node) THEN PathBytes(row) ELSE ElementBytes(row)
=============================================================================
