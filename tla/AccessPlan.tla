------------------------------ MODULE AccessPlan ------------------------------
(***************************************************************************)
(* Resolving one access node again and again, as its loops run: object,    *)
(* operation and layout are looked up the first time and kept in the node  *)
(* once an access has succeeded; later accesses use what was kept.  The    *)
(* addresses are those of an image that has been read.                     *)
(***************************************************************************)
EXTENDS AccessLayout, ElfImage

CONSTANTS
    Accesses,                      \* nodes with the metadata of their module
    Indices,                       \* words an index may evaluate to
    AccessLimit                    \* bound: accesses of one node in a run

\* Paths, indices and fields are JSON arrays, sizes are integers.
ASSUME AccessAssumption ==
    \A a \in Accesses :
        /\ Len(a.node.access_path) \in Nat /\ Len(a.node.indices) \in Nat
        /\ DOMAIN a.node.indices = 1 .. Len(a.node.indices)
        /\ a.node.elem_size \in Int
        /\ \A id \in DOMAIN a.objects : a.objects[id].elem_size \in Int
        /\ \A s \in DOMAIN a.structs :
              LET fields == a.structs[s].fields
              IN  /\ Len(fields) \in Nat /\ DOMAIN fields = 1 .. Len(fields)
                  /\ \A f \in DOMAIN fields : fields[f].elem_size \in Int

VARIABLES
    access,                        \* node, objects (metadata), structs
    prepared,                      \* no plan, or the one kept
    coverage,                      \* TraceCoverage
    last,                          \* values and outcome of the last access
    access_stage                   \* "walking" or "failed"

access_vars == <<access, prepared, coverage, last, access_stage>>

NoPlan == {}
NoOutcome == [verdict |-> "none", at |-> {}]

AccessStarts(input) ==
    /\ access = input
    /\ prepared = NoPlan
    /\ coverage = [source |-> 0, resolved |-> 0, rejected |-> 0]
    /\ last = [values |-> <<>>, outcome |-> NoOutcome]
    /\ access_stage = "walking"

node == access.node

\* The value of an index is a set, empty if it depends on more than the loops; it
\* leaves a zero in the row and is refused later.
evaluate_numeric(values) ==
    [i \in DOMAIN values |-> IF values[i] = {} THEN 0 ELSE CHOOSE v \in values[i] : TRUE]
Exact(values) == \A i \in DOMAIN values : values[i] # {}

-----------------------------------------------------------------------------
IsGlobal == node.object[1] = "global"

\* What is looked at before the indices.
NodeRefusal ==
    IF ~IsGlobal THEN "unsupported"
    ELSE IF node.type = "Scalar" /\ node.indices # <<>> THEN "unresolved"
    ELSE IF node.op = "missing" THEN "unresolved"
    ELSE IF node.op \notin {"load", "store"} THEN "unsupported"
    ELSE "none"

object_kind == access.objects[node.object].kind

KindRefusal ==
    IF node.object \notin DOMAIN access.objects THEN "unresolved"
    ELSE IF object_kind = "" THEN "unresolved"
    ELSE IF object_kind \notin {"array", "scalar", "struct"} THEN "unsupported"
    ELSE "none"

\* Mutant: the range may start in the object and end behind it.
ExceedsObject_at_start(range, object) == range.offset >= object.size

ExceedsObject(range, object) ==
    range.offset >= object.size \/ range.size > object.size - range.offset

InAddressSpace(range, object) ==
    /\ IsAddress(object.base + range.offset)
    /\ IsAddress(object.base + range.offset + range.size - 1)

Ok(range, object, operation, basis) ==
    [offset |-> range.offset, size |-> range.size, address |-> object.base + range.offset,
     operation |-> operation, basis |-> basis]

\* The byte range against the object, planned or looked up now.
Ranged(ranges, bound) ==
    IF ranges = {} THEN "unresolved"
    ELSE LET range == CHOOSE r \in ranges : TRUE
         IN  IF range.offset < 0 \/ range.size <= 0 \/ bound = {} THEN "unresolved"
             ELSE LET object == CHOOSE o \in bound : TRUE
                  IN  IF ExceedsObject(range, object) \/ ~InAddressSpace(range, object)
                      THEN "unresolved"
                      ELSE "resolved"

Binding == {objects[id] : id \in {node.object} \cap DOMAIN objects}
Basis == IF image_relative THEN "ImageRelative" ELSE "Absolute"

Layout(values) == prepare(node, evaluate_numeric(values), access.objects, access.structs)

\* The first time everything is looked up, and kept only if the access resolves.
FirstRefusal(values) ==
    IF NodeRefusal # "none" THEN NodeRefusal
    ELSE IF ~Exact(values) THEN "unsupported"
    ELSE IF KindRefusal # "none" THEN KindRefusal
    ELSE Ranged(Layout(values).range, Binding)

Candidate(values) ==
    [object |-> CHOOSE o \in Binding : TRUE, operation |-> node.op, basis |-> Basis,
     layout |-> Layout(values).plan]

PlannedRefusal(plan, values) ==
    IF ~Exact(values) THEN "unsupported"
    ELSE Ranged(resolve(plan.layout, evaluate_numeric(values)), {plan.object})

Refusal(kept, values) ==
    IF kept = NoPlan THEN FirstRefusal(values)
    ELSE PlannedRefusal(CHOOSE plan \in kept : TRUE, values)

\* resolve_access: the access itself, or why it is refused.
Outcome(kept, values) ==
    IF Refusal(kept, values) # "resolved"
    THEN [verdict |-> Refusal(kept, values), at |-> {}]
    ELSE LET plan == IF kept = NoPlan THEN Candidate(values) ELSE CHOOSE p \in kept : TRUE
             ranges == IF kept = NoPlan THEN Layout(values).range
                       ELSE resolve(plan.layout, evaluate_numeric(values))
             range == CHOOSE r \in ranges : TRUE
         IN  [verdict |-> "resolved",
              at |-> {Ok(range, plan.object, plan.operation, plan.basis)}]

Walking == elf_stage = "bound" /\ access_stage = "walking" /\ coverage.source < AccessLimit

Rows == [DOMAIN node.indices -> {{v} : v \in Indices} \cup {{}}]

Resolves(values) ==
    /\ Walking /\ Refusal(prepared, values) = "resolved"
    /\ last' = [values |-> values, outcome |-> Outcome(prepared, values)]
    /\ prepared' = IF prepared = NoPlan THEN {Candidate(values)} ELSE prepared
    /\ coverage' = [coverage EXCEPT !.source = @ + 1, !.resolved = @ + 1]
    /\ UNCHANGED <<access, access_stage>>

\* The first access refused ends the analysis.
Rejects(values) ==
    /\ Walking /\ Refusal(prepared, values) # "resolved"
    /\ last' = [values |-> values, outcome |-> Outcome(prepared, values)]
    /\ coverage' = [coverage EXCEPT !.source = @ + 1, !.rejected = @ + 1]
    /\ access_stage' = "failed"
    /\ UNCHANGED <<access, prepared>>

LinkStarts(input) == AccessStarts(input.access) /\ ElfStarts(input.image)

LinkInit == \E a \in Accesses, i \in Images : LinkStarts([access |-> a, image |-> i])

LinkNext ==
    \/ ElfNext /\ UNCHANGED access_vars
    \/ \E values \in Rows : (Resolves(values) \/ Rejects(values)) /\ UNCHANGED elf_vars

LinkSpec == LinkInit /\ [][LinkNext]_<<access_vars, elf_vars>>
-----------------------------------------------------------------------------
\* Whatever was resolved before, an access gets the range, the operation and the
\* refusal it would get if nothing had been kept (PreparedAccess, resolve_access):
\* the checks a plan skips are those that cannot turn out otherwise.
PlanIsInvisible ==
    last.outcome # NoOutcome => last.outcome = Outcome(NoPlan, last.values)

\* A resolved access is inside the object the image has for it, at that object's
\* addresses and in a range of addresses that does not wrap (resolve_access).
AccessInObject ==
    \A got \in last.outcome.at :
        LET object == objects[node.object]
        IN  /\ node.object \in DOMAIN objects
            /\ got.size > 0
            /\ got.address - object.base = got.offset
            /\ Bytes(got.address, got.size) \subseteq Bytes(object.base, object.size)
            /\ Bytes(got.address, got.size) \subseteq 0 .. 2^AddressBits - 1
            /\ got.operation = node.op
            /\ got.basis = "ImageRelative" <=> image.type = "DYN"
=============================================================================
