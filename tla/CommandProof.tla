----------------------------- MODULE CommandProof -----------------------------
(***************************************************************************)
(* Theorems about two machines that share no state.  First the bounds of a *)
(* call expansion, for every module, every limit and whatever the bodies   *)
(* hold: nothing is assumed of nodes, the argument is about the stack of   *)
(* calls, the node budget and the output growing together.  Then one       *)
(* command, for every set of arguments, every clock and every stream of    *)
(* callbacks.                                                              *)
(***************************************************************************)
EXTENDS CallExpansion, AnalysisCommand, FiniteSetTheorems, WellFoundedInduction, TLAPS

-----------------------------------------------------------------------------
(* Call expansion.                                                         *)

(* A sequence of whatever values: nodes and frames have no type of their own. *)
IsSequence(s) == \E S : s \in Seq(S)

(* Appending keeps a sequence one and adds its last element.                *)
LEMMA Appending ==
    ASSUME NEW s, IsSequence(s), NEW e
    PROVE  /\ IsSequence(Append(s, e))
           /\ Len(s) \in Nat /\ Len(Append(s, e)) = Len(s) + 1
           /\ DOMAIN s = 1 .. Len(s)
           /\ DOMAIN Append(s, e) = 1 .. Len(s) + 1
           /\ \A i \in 1 .. Len(s) : Append(s, e)[i] = s[i]
           /\ Append(s, e)[Len(s) + 1] = e
  <1>1. PICK S : s \in Seq(S)
    BY DEF IsSequence
  <1> DEFINE T == S \cup {e}
  <1>2. s \in Seq(T) /\ e \in T
    BY <1>1
  <1> HIDE DEF T
  <1>3. Append(s, e) \in Seq(T)
    BY <1>2
  <1> QED
    BY <1>2, <1>3 DEF IsSequence

(* So does replacing one element.                                           *)
LEMMA Replacing ==
    ASSUME NEW s, IsSequence(s), NEW n \in DOMAIN s, NEW e
    PROVE  /\ IsSequence([s EXCEPT ![n] = e])
           /\ Len([s EXCEPT ![n] = e]) = Len(s)
           /\ DOMAIN [s EXCEPT ![n] = e] = DOMAIN s
  <1>1. PICK S : s \in Seq(S)
    BY DEF IsSequence
  <1> DEFINE T == S \cup {e}
             r == [s EXCEPT ![n] = e]
  <1>2. s \in Seq(T) /\ e \in T
    BY <1>1
  <1> HIDE DEF T
  <1>3. r \in Seq(T)
    BY <1>2
  <1>4. DOMAIN r = DOMAIN s
    OBVIOUS
  <1>5. Len(r) = Len(s)
    BY <1>2, <1>3, <1>4
  <1> QED
    BY <1>3, <1>4, <1>5 DEF IsSequence

(* A prefix of a sequence.                                                  *)
LEMMA Shortening ==
    ASSUME NEW s, IsSequence(s), NEW n \in Nat, n <= Len(s)
    PROVE  /\ IsSequence(SubSeq(s, 1, n))
           /\ Len(SubSeq(s, 1, n)) = n
           /\ DOMAIN SubSeq(s, 1, n) = 1 .. n
           /\ \A i \in 1 .. n : i \in DOMAIN s /\ SubSeq(s, 1, n)[i] = s[i]
  <1>1. PICK S : s \in Seq(S)
    BY DEF IsSequence
  <1>2. SubSeq(s, 1, n) \in Seq(S)
    BY <1>1
  <1> QED
    BY <1>1, <1>2 DEF IsSequence

-----------------------------------------------------------------------------
(* The charged nodes of an output that grows by one node.                   *)

ChargedOf(nodes) == {i \in DOMAIN nodes : nodes[i].type # "Open"}

LEMMA ChargedGrows ==
    ASSUME NEW nodes, IsSequence(nodes), NEW node,
           IsFiniteSet(ChargedOf(nodes))
    PROVE  /\ IsFiniteSet(ChargedOf(Append(nodes, node)))
           /\ Cardinality(ChargedOf(Append(nodes, node))) <= Cardinality(ChargedOf(nodes)) + 1
           /\ node.type = "Open" => ChargedOf(Append(nodes, node)) = ChargedOf(nodes)
  <1> DEFINE grown == Append(nodes, node)
             last == Len(nodes) + 1
  <1>1. /\ Len(nodes) \in Nat /\ DOMAIN nodes = 1 .. Len(nodes)
        /\ DOMAIN grown = 1 .. last
        /\ \A i \in 1 .. Len(nodes) : grown[i] = nodes[i]
        /\ grown[last] = node
    BY Appending
  <1> HIDE DEF grown
  <1>2. last \notin ChargedOf(nodes)
    BY <1>1 DEF ChargedOf
  <1>3. \A i \in 1 .. last : i = last \/ i \in 1 .. Len(nodes)
    BY <1>1
  <1>4. ChargedOf(grown) \subseteq ChargedOf(nodes) \cup {last}
    BY <1>1, <1>3 DEF ChargedOf
  <1>5. /\ IsFiniteSet(ChargedOf(nodes) \cup {last})
        /\ Cardinality(ChargedOf(nodes) \cup {last}) = Cardinality(ChargedOf(nodes)) + 1
    BY <1>2, FS_AddElement
  <1>6. /\ IsFiniteSet(ChargedOf(grown))
        /\ Cardinality(ChargedOf(grown)) <= Cardinality(ChargedOf(nodes) \cup {last})
    BY <1>4, <1>5, FS_Subset
  <1>7. ASSUME node.type = "Open"
        PROVE  ChargedOf(grown) = ChargedOf(nodes)
    BY <1>1, <1>3, <1>7 DEF ChargedOf
  <1> QED
    BY <1>5, <1>6, <1>7 DEF grown

-----------------------------------------------------------------------------
(* The inductive invariant.                                                 *)

Budget ==
    /\ limits.nodes \in Nat /\ limits.depth \in Nat
    /\ expanded_nodes \in Nat /\ expanded_nodes <= limits.nodes

Output ==
    /\ IsSequence(expanded)
    /\ IsFiniteSet(ChargedOf(expanded))
    /\ Cardinality(ChargedOf(expanded)) <= expanded_nodes

\* The names of a stack of frames differ, and it holds at most depth calls and a root.
StackFits(stack, depth) ==
    /\ IsSequence(stack)
    /\ \A i \in DOMAIN stack : "name" \in DOMAIN stack[i]
    /\ stack # <<>> => Len(stack) - 1 <= depth
    /\ \A i, j \in DOMAIN stack : stack[i].name = stack[j].name => i = j

IInv == Budget /\ Output /\ StackFits(frames, limits.depth)

(* Going to the next node of the body on top changes no name.               *)
LEMMA AdvancedFits ==
    ASSUME StackFits(frames, limits.depth), frames # <<>>
    PROVE  /\ StackFits(Advanced, limits.depth)
           /\ Len(Advanced) = Len(frames) /\ DOMAIN Advanced = DOMAIN frames
           /\ \A i \in DOMAIN frames : Advanced[i].name = frames[i].name
  <1> DEFINE n == Len(frames)
             top == [frames[n] EXCEPT !.at = frames[n].at + 1]
  <1>1. n \in Nat /\ DOMAIN frames = 1 .. n /\ n \in DOMAIN frames
    BY DEF StackFits, IsSequence
  <1>2. Advanced = [frames EXCEPT ![n] = top]
    BY <1>1 DEF Advanced
  <1>3. DOMAIN top = DOMAIN frames[n]
    OBVIOUS
  <1>4. "name" \in DOMAIN frames[n]
    BY <1>1 DEF StackFits
  <1>5. top.name = frames[n].name
    BY <1>4
  <1> HIDE DEF top
  <1>6. IsSequence(Advanced) /\ Len(Advanced) = n /\ DOMAIN Advanced = DOMAIN frames
    BY <1>1, <1>2, Replacing DEF StackFits
  <1>7. ASSUME NEW i \in DOMAIN frames
        PROVE  Advanced[i].name = frames[i].name /\ "name" \in DOMAIN Advanced[i]
    <2>1. CASE i = n
      BY <2>1, <1>1, <1>2, <1>3, <1>4, <1>5
    <2>2. CASE i # n
      BY <2>2, <1>2, <1>7 DEF StackFits
    <2> QED
      BY <2>1, <2>2
  <1>8. n - 1 <= limits.depth
    BY DEF StackFits
  <1>9. ASSUME NEW i \in DOMAIN Advanced, NEW j \in DOMAIN Advanced,
               Advanced[i].name = Advanced[j].name
        PROVE  i = j
    <2>1. frames[i].name = frames[j].name
      BY <1>6, <1>7, <1>9
    <2> QED
      BY <2>1, <1>6 DEF StackFits
  <1> QED
    BY <1>6, <1>7, <1>8, <1>9 DEF StackFits

(* A call that is entered is of a function that does not stand on the stack. *)
LEMMA CalleeIsNew ==
    ASSUME Enterable
    PROVE  /\ Callee(Node.callee).name = Node.callee
           /\ \A i \in DOMAIN frames : frames[i].name # Node.callee
  <1>1. Callees(Node.callee) # {} /\ Node.callee \notin Stack
    BY DEF Enterable, Inlines, IsRecursive
  <1>2. PICK i \in Callees(Node.callee) : Callee(Node.callee) = module.functions[i]
    BY <1>1 DEF Callee
  <1> QED
    BY <1>1, <1>2 DEF Callees, Stack

(* A frame of another function is added on top.                             *)
LEMMA PushedFits ==
    ASSUME NEW stack, NEW depth \in Nat, StackFits(stack, depth), Len(stack) <= depth,
           NEW frame, "name" \in DOMAIN frame,
           \A i \in DOMAIN stack : stack[i].name # frame.name
    PROVE  StackFits(Append(stack, frame), depth)
  <1> DEFINE pushed == Append(stack, frame)
             last == Len(stack) + 1
  <1>1. /\ IsSequence(pushed) /\ Len(stack) \in Nat /\ Len(pushed) = last
        /\ DOMAIN stack = 1 .. Len(stack) /\ DOMAIN pushed = 1 .. last
        /\ \A i \in 1 .. Len(stack) : pushed[i] = stack[i]
        /\ pushed[last] = frame
    BY Appending DEF StackFits
  <1> HIDE DEF pushed
  <1>2. \A i \in DOMAIN pushed : i = last \/ i \in DOMAIN stack
    BY <1>1
  <1>3. \A i \in DOMAIN pushed : "name" \in DOMAIN pushed[i]
    BY <1>1, <1>2 DEF StackFits
  <1>4. Len(pushed) - 1 <= depth
    BY <1>1
  <1>5. ASSUME NEW i \in DOMAIN pushed, NEW j \in DOMAIN pushed,
               pushed[i].name = pushed[j].name
        PROVE  i = j
    <2>1. CASE i = last /\ j = last
      BY <2>1
    <2>2. CASE i \in DOMAIN stack /\ j \in DOMAIN stack
      BY <2>2, <1>1, <1>5 DEF StackFits
    <2>3. CASE i = last /\ j \in DOMAIN stack
      BY <2>3, <1>1, <1>5
    <2>4. CASE i \in DOMAIN stack /\ j = last
      BY <2>4, <1>1, <1>5
    <2> QED
      BY <2>1, <2>2, <2>3, <2>4, <1>2
  <1> QED
    BY <1>1, <1>3, <1>4, <1>5 DEF StackFits, pushed

-----------------------------------------------------------------------------
LEMMA EmptySequence == IsSequence(<<>>)
  <1>1. <<>> \in Seq({})
    OBVIOUS
  <1> QED
    BY <1>1 DEF IsSequence

LEMMA EmptyStackFits == ASSUME NEW depth PROVE StackFits(<<>>, depth)
  BY EmptySequence DEF StackFits

LEMMA EmptyOutput == IsFiniteSet(ChargedOf(<<>>)) /\ Cardinality(ChargedOf(<<>>)) = 0
  <1>1. ChargedOf(<<>>) = {}
    BY DEF ChargedOf
  <1> QED
    BY <1>1, FS_EmptySet

LEMMA InvariantHoldsAtFirst == Init => IInv
  <1> SUFFICES ASSUME Init PROVE IInv
    OBVIOUS
  <1>1. PICK input \in Modules : Starts(input)
    BY DEF Init
  <1>2. /\ limits.nodes \in Nat /\ limits.depth \in Nat
        /\ frames = <<>> /\ expanded = <<>> /\ expanded_nodes = 0
    BY <1>1, ExpansionAssumption DEF Starts
  <1>3. Budget
    BY <1>2 DEF Budget
  <1>4. Output
    BY <1>2, EmptyOutput, EmptySequence DEF Output
  <1> QED
    BY <1>2, <1>3, <1>4, EmptyStackFits DEF IInv

(* Steps that leave the budget, the output and the stack alone.             *)
LEMMA QuietSteps ==
    ASSUME IInv, UNCHANGED <<limits, frames, expanded, expanded_nodes>>
    PROVE  IInv'
  BY DEF IInv, Budget, Output

(* A node is charged and goes to the output.                                *)
LEMMA KeepNodeKeeps == ASSUME IInv, KeepNode PROVE IInv'
  <1>1. /\ Budget /\ Output /\ StackFits(frames, limits.depth)
        /\ frames # <<>> /\ limits' = limits /\ frames' = Advanced
        /\ expanded' = Append(expanded, Node)
        /\ expanded_nodes' = expanded_nodes + 1 /\ expanded_nodes < limits.nodes
    BY DEF IInv, KeepNode, Expanding, NodeAllowed, inputs
  <1>2. Budget'
    BY <1>1 DEF Budget
  <1>3. IsSequence(expanded')
    BY <1>1, Appending DEF Output
  <1>4. /\ IsFiniteSet(ChargedOf(expanded'))
        /\ Cardinality(ChargedOf(expanded')) <= Cardinality(ChargedOf(expanded)) + 1
    BY <1>1, ChargedGrows DEF Output
  <1>5. /\ Cardinality(ChargedOf(expanded)) \in Nat
        /\ Cardinality(ChargedOf(expanded')) \in Nat
    BY <1>1, <1>4, FS_CardinalityType DEF Output
  <1>6. Output'
    BY <1>1, <1>3, <1>4, <1>5 DEF Output, Budget
  <1>7. StackFits(frames', limits'.depth)
    BY <1>1, AdvancedFits
  <1> QED
    BY <1>2, <1>6, <1>7 DEF IInv

(* The head of a loop goes to the output before the loop is charged.        *)
LEMMA OpenLoopKeeps == ASSUME IInv, OpenLoop PROVE IInv'
  <1>1. /\ Budget /\ Output /\ StackFits(frames, limits.depth)
        /\ frames # <<>> /\ limits' = limits /\ frames' = Advanced
        /\ expanded' = Append(expanded, Node) /\ Node.type = "Open"
        /\ expanded_nodes' = expanded_nodes
    BY DEF IInv, OpenLoop, Handles, Expanding, inputs
  <1>2. Budget'
    BY <1>1 DEF Budget
  <1>3. IsSequence(expanded')
    BY <1>1, Appending DEF Output
  <1>4. ChargedOf(expanded') = ChargedOf(expanded)
    BY <1>1, ChargedGrows DEF Output
  <1>5. Output'
    BY <1>1, <1>3, <1>4 DEF Output
  <1>6. StackFits(frames', limits'.depth)
    BY <1>1, AdvancedFits
  <1> QED
    BY <1>2, <1>5, <1>6 DEF IInv

(* A call is charged and its callee pushed: new on the stack, and not too deep. *)
LEMMA EnterCallKeeps == ASSUME IInv, EnterCall PROVE IInv'
  <1> DEFINE f == Callee(Node.callee)
  <1>1. /\ Budget /\ Output /\ StackFits(frames, limits.depth)
        /\ frames # <<>> /\ limits' = limits /\ expanded' = expanded
        /\ expanded_nodes' = expanded_nodes + 1 /\ expanded_nodes < limits.nodes
        /\ Enterable /\ Depth + 1 <= limits.depth
    BY DEF IInv, EnterCall, Enterable, Inlines, Handles, Expanding, NodeAllowed, inputs
  <1>2. PICK misfits, body :
            frames' = Append(Advanced, [name |-> f.name, at |-> 1, misfits |-> misfits, body |-> body])
    BY DEF EnterCall
  <1> DEFINE frame == [name |-> f.name, at |-> 1, misfits |-> misfits, body |-> body]
  <1>3. Budget'
    BY <1>1 DEF Budget
  <1>4. Output'
    <2>1. Cardinality(ChargedOf(expanded)) \in Nat
      BY <1>1, FS_CardinalityType DEF Output
    <2> QED
      BY <1>1, <2>1 DEF Output, Budget
  <1>5. "name" \in DOMAIN frame /\ frame.name = f.name
    OBVIOUS
  <1>6. \A i \in DOMAIN frames : frames[i].name # f.name
    BY <1>1, CalleeIsNew
  <1>7. /\ StackFits(Advanced, limits.depth)
        /\ Len(Advanced) = Len(frames) /\ DOMAIN Advanced = DOMAIN frames
        /\ \A i \in DOMAIN frames : Advanced[i].name = frames[i].name
    BY <1>1, AdvancedFits
  <1>8. Len(Advanced) <= limits.depth
    <2>1. Len(frames) \in Nat
      BY <1>1 DEF StackFits, IsSequence
    <2> QED
      BY <1>1, <1>7, <2>1 DEF Depth, Budget
  <1> HIDE DEF frame, f
  <1>9. \A i \in DOMAIN Advanced : Advanced[i].name # frame.name
    BY <1>5, <1>6, <1>7
  <1>10. StackFits(Append(Advanced, frame), limits.depth)
    BY <1>1, <1>5, <1>7, <1>8, <1>9, PushedFits DEF Budget
  <1>11. StackFits(frames', limits'.depth)
    BY <1>1, <1>2, <1>10 DEF frame
  <1> QED
    BY <1>3, <1>4, <1>11 DEF IInv

(* The frame on top is dropped.                                             *)
LEMMA LeaveCallKeeps == ASSUME IInv, LeaveCall PROVE IInv'
  <1>1. /\ Budget /\ Output /\ StackFits(frames, limits.depth)
        /\ limits' = limits /\ expanded' = expanded /\ expanded_nodes' = expanded_nodes
        /\ Len(frames) > 1 /\ frames' = SubSeq(frames, 1, Len(frames) - 1)
    BY DEF IInv, LeaveCall, inputs
  <1> DEFINE n == Len(frames) - 1
  <1>2. Len(frames) \in Nat /\ n \in Nat /\ n <= Len(frames)
    BY <1>1 DEF StackFits, IsSequence
  <1>3. /\ IsSequence(frames') /\ Len(frames') = n
        /\ DOMAIN frames' = 1 .. n
        /\ \A i \in 1 .. n : i \in DOMAIN frames /\ frames'[i] = frames[i]
    BY <1>1, <1>2, Shortening DEF StackFits
  <1>4. frames # <<>>
    BY <1>1
  <1>5. n - 1 <= limits.depth
    BY <1>1, <1>2, <1>4 DEF StackFits, Budget
  <1>6. StackFits(frames', limits.depth)
    BY <1>1, <1>3, <1>5 DEF StackFits
  <1> QED
    BY <1>1, <1>6 DEF IInv, Budget, Output

(* Roots come and go; the budget of the module goes on.                     *)
LEMMA StartFunctionKeeps == ASSUME IInv, StartFunction PROVE IInv'
  <1>1. /\ Budget
        /\ limits' = limits /\ expanded' = <<>> /\ expanded_nodes' = expanded_nodes
    BY DEF IInv, StartFunction, inputs
  <1>2. PICK body : frames' = <<[name |-> Root.name, at |-> 1, misfits |-> {}, body |-> body]>>
    BY DEF StartFunction
  <1>3. Output'
    BY <1>1, EmptyOutput, EmptySequence DEF Output, Budget
  <1> DEFINE frame == [name |-> Root.name, at |-> 1, misfits |-> {}, body |-> body]
  <1>4. "name" \in DOMAIN frame
    OBVIOUS
  <1> HIDE DEF frame
  <1>5. StackFits(<<>>, limits.depth) /\ Len(<<>>) <= limits.depth /\ DOMAIN <<>> = {}
    BY <1>1, EmptyStackFits DEF Budget
  <1>6. StackFits(Append(<<>>, frame), limits.depth)
    BY <1>1, <1>4, <1>5, PushedFits DEF Budget
  <1>7. Append(<<>>, frame) = <<frame>>
    OBVIOUS
  <1>8. StackFits(frames', limits'.depth)
    BY <1>1, <1>2, <1>6, <1>7 DEF frame
  <1> QED
    BY <1>1, <1>3, <1>8 DEF IInv, Budget

LEMMA FinishFunctionKeeps == ASSUME IInv, FinishFunction PROVE IInv'
  <1>1. /\ Budget
        /\ limits' = limits /\ expanded' = <<>> /\ frames' = <<>>
        /\ expanded_nodes' = expanded_nodes
    BY DEF IInv, FinishFunction, inputs
  <1>2. Output'
    BY <1>1, EmptyOutput, EmptySequence DEF Output, Budget
  <1> QED
    BY <1>1, <1>2, EmptyStackFits DEF IInv, Budget

(* A call whose arguments do not fit has been charged when it is refused.   *)
LEMMA RefuseArityKeeps == ASSUME IInv, RefuseArity PROVE IInv'
  <1>1. /\ Budget /\ Output /\ StackFits(frames, limits.depth)
        /\ limits' = limits /\ frames' = frames /\ expanded' = expanded
        /\ expanded_nodes' = expanded_nodes + 1 /\ expanded_nodes < limits.nodes
    BY DEF IInv, RefuseArity, Fail, NodeAllowed, inputs
  <1>2. Cardinality(ChargedOf(expanded)) \in Nat
    BY <1>1, FS_CardinalityType DEF Output
  <1> QED
    BY <1>1, <1>2 DEF IInv, Budget, Output

LEMMA InvariantIsKept == IInv /\ [Next]_vars => IInv'
  <1> SUFFICES ASSUME IInv, [Next]_vars PROVE IInv'
    OBVIOUS
  <1>1. CASE KeepNode
    BY <1>1, KeepNodeKeeps
  <1>2. CASE OpenLoop
    BY <1>2, OpenLoopKeeps
  <1>3. CASE EnterCall
    BY <1>3, EnterCallKeeps
  <1>4. CASE LeaveCall
    BY <1>4, LeaveCallKeeps
  <1>5. CASE StartFunction
    BY <1>5, StartFunctionKeeps
  <1>6. CASE FinishFunction
    BY <1>6, FinishFunctionKeeps
  <1>7. CASE RefuseArity
    BY <1>7, RefuseArityKeeps
  <1>8. CASE ReadModule \/ SkipFunction \/ Return
    <2>1. UNCHANGED <<limits, frames, expanded, expanded_nodes>>
      BY <1>8 DEF ReadModule, SkipFunction, Return, inputs
    <2> QED
      BY <2>1, QuietSteps
  <1>9. CASE \/ RejectModule \/ RefuseBinding \/ RefuseTarget \/ RefuseRecursion
             \/ RefuseDepth \/ NodesExhausted \/ RefuseRootless
    <2>1. UNCHANGED <<limits, frames, expanded, expanded_nodes>>
      BY <1>9 DEF RejectModule, RefuseBinding, RefuseTarget, RefuseRecursion, RefuseDepth,
                  NodesExhausted, RefuseRootless, Fail, inputs
    <2> QED
      BY <2>1, QuietSteps
  <1>10. CASE UNCHANGED vars
    BY <1>10, QuietSteps DEF vars
  <1> QED
    BY <1>1, <1>2, <1>3, <1>4, <1>5, <1>6, <1>7, <1>8, <1>9, <1>10 DEF Next

LEMMA InvariantBounds == IInv => ExpansionBounded
  <1> SUFFICES ASSUME IInv PROVE ExpansionBounded
    OBVIOUS
  <1>1. Charged = ChargedOf(expanded)
    BY DEF Charged, ChargedOf
  <1> QED
    BY <1>1 DEF IInv, Budget, Output, StackFits, ExpansionBounded, Depth

(* In every expansion, of any module within any limits: what the current     *)
(* function has produced was charged, the node and depth limits hold, and no *)
(* function is expanded inside itself (append_expanded_node).                *)
THEOREM ExpansionStaysBounded == Spec => []ExpansionBounded
  <1>1. Spec => []IInv
    BY InvariantHoldsAtFirst, InvariantIsKept, PTL DEF Spec
  <1>2. IInv => ExpansionBounded
    BY InvariantBounds
  <1> QED
    BY <1>1, <1>2, PTL

-----------------------------------------------------------------------------
(* What the options say of the arguments read so far, part by part.         *)

Texts == {a.value : a \in Arguments} \cup {NoPath, DefaultLimit, "0", "element"}
Modes == {"legacy", "mapping", "hierarchy-rd", "ir-instructions"}

GivenType == given \in [Flags -> Seq(Texts)]

OptionsType ==
    options \in [mode : Modes, ir_instructions : BOOLEAN, paths : [PathFlags -> Texts],
                 limits : [LimitFlags -> Texts], event_limit : Texts,
                 granularity : Texts, granularity_explicit : BOOLEAN]

PathsFollow == \A f \in PathFlags : options.paths[f] = Path(Latest(f, ""))
LimitsFollow == \A f \in LimitFlags : options.limits[f] = Latest(f, DefaultLimit)

ModeFollows ==
    /\ options.mode = Asked
    /\ options.ir_instructions <=> "ir-instructions" \in Analyses

EventLimitFollows ==
    /\ options.event_limit = Latest("--event-limit", "0")
    /\ event_limit_explicit <=> IsGiven("--event-limit")

GranularityFollows ==
    /\ options.granularity = Latest("--granularity", "element")
    /\ options.granularity_explicit <=> IsGiven("--granularity")

HierarchyFollows == hierarchy_options <=> \E f \in Flags : IsGiven(f) /\ IsHierarchyOption(f)

\* What LineFits asks of the values and is seen while reading, and what is assumed
\* of every value.
ValuesFit ==
    /\ \A f \in Flags : \A i \in DOMAIN given[f] :
          Legible(f, given[f][i]) /\ given[f][i] # NoPath
    /\ \A i \in DOMAIN given["MAP"] : i < Len(given["MAP"]) => given["MAP"][i] = ""
    /\ Analyses \subseteq Exclusive \cup {"ir-instructions"}
    /\ ~(Exclusive \subseteq Analyses)

LineRead ==
    /\ GivenType /\ OptionsType /\ ValuesFit /\ PathsFollow /\ LimitsFollow /\ ModeFollows
    /\ EventLimitFollows /\ GranularityFollows /\ HierarchyFollows

LineInv ==
    /\ options_stage \in {"parsing", "accepted", "refused", "help", "dispatched"}
    /\ options_stage \in {"parsing", "accepted"} => LineRead
    /\ options_stage = "accepted" => Consistent
    /\ options_stage = "refused" => ~LineFits

LEMMA FlagsOfLine ==
    /\ PathFlags \subseteq Flags /\ LimitFlags \subseteq Flags
    /\ {"MAP", "--cache", "--elf", "--export", "--telemetry", "--export-events"} \subseteq PathFlags
    /\ {"--analysis", "--event-limit", "--granularity", "--mode"} \subseteq Flags
    /\ PathFlags \cap LimitFlags = {}
    /\ {"--analysis", "--event-limit", "--granularity", "--mode"}
          \cap (PathFlags \cup LimitFlags) = {}
  BY DEF Flags, PathFlags, LimitFlags, Documents, LoopLimits, EmissionLimits

-----------------------------------------------------------------------------
LEMMA InitLine == OptionsInit => LineInv
  <1> SUFFICES ASSUME OptionsInit PROVE LineInv
    OBVIOUS
  <1>1. given = NothingGiven /\ options = Options /\ hierarchy_options = FALSE
        /\ event_limit_explicit = FALSE /\ options_stage = "parsing"
    BY DEF OptionsInit
  <1>2. GivenType /\ \A f \in Flags : given[f] = <<>> /\ ~IsGiven(f)
    BY <1>1 DEF GivenType, NothingGiven, IsGiven
  <1>3. Analyses = {}
    BY <1>2, FlagsOfLine DEF Analyses, Range
  <1>4. OptionsType
    BY <1>1 DEF OptionsType, Options, Modes, Texts
  <1>5. ValuesFit
    <2>1. \A f \in Flags : DOMAIN given[f] = {}
      BY <1>2
    <2>2. Analyses \subseteq Exclusive \cup {"ir-instructions"} /\ ~(Exclusive \subseteq Analyses)
      BY <1>3 DEF Exclusive
    <2> QED
      BY <2>1, <2>2, FlagsOfLine, Zenon DEF ValuesFit
  <1>6. PathsFollow /\ LimitsFollow /\ HierarchyFollows
    BY <1>1, <1>2, FlagsOfLine
       DEF PathsFollow, LimitsFollow, HierarchyFollows, Options, Latest, Path
  <1>7. ModeFollows /\ EventLimitFollows /\ GranularityFollows
    BY <1>1, <1>2, <1>3, FlagsOfLine
       DEF ModeFollows, Asked, EventLimitFollows, GranularityFollows, Options, Latest
  <1> QED
    BY <1>1, <1>2, <1>4, <1>5, <1>6, <1>7 DEF LineInv, LineRead

\* What one more argument does to the line.
LEMMA OneMore ==
    ASSUME GivenType, NEW a \in Arguments, Reads(a)
    PROVE  /\ GivenType'
           /\ a.flag \in Flags /\ a.value \in Texts /\ a.value # NoPath
           /\ \A f \in Flags : IsGiven(f)' <=> IsGiven(f) \/ f = a.flag
           /\ \A d : \A f \in Flags : Latest(f, d)' = IF f = a.flag THEN a.value ELSE Latest(f, d)
           /\ \A f \in Flags : f # a.flag => given'[f] = given[f]
           /\ LET n == Len(given[a.flag])
              IN  /\ n \in Nat /\ DOMAIN given[a.flag] = 1 .. n
                  /\ DOMAIN given'[a.flag] = 1 .. n + 1 /\ Len(given'[a.flag]) = n + 1
                  /\ given'[a.flag][n + 1] = a.value
                  /\ \A i \in 1 .. n : given'[a.flag][i] = given[a.flag][i]
           /\ Analyses' = IF a.flag = "--analysis" THEN Analyses \cup {a.value} ELSE Analyses
  <1>1. a.flag \in Flags /\ a.value \in Texts /\ a.value # NoPath
    BY ArgumentAssumption DEF ArgumentAssumption, Texts, NoPath
  <1>2. given' = [given EXCEPT ![a.flag] = Append(@, a.value)]
    BY DEF Reads
  <1> DEFINE old == given[a.flag]
             new == Append(old, a.value)
             n == Len(old)
  <1>3. old \in Seq(Texts)
    BY <1>1 DEF GivenType
  <1>4. /\ new \in Seq(Texts) /\ n \in Nat /\ DOMAIN old = 1 .. n
        /\ DOMAIN new = 1 .. n + 1 /\ Len(new) = n + 1
        /\ new[n + 1] = a.value /\ \A i \in 1 .. n : new[i] = old[i]
    BY <1>1, <1>3
  <1>5. given' = [given EXCEPT ![a.flag] = new]
    BY <1>2
  <1> HIDE DEF new
  <1>6. GivenType' /\ given'[a.flag] = new
        /\ \A f \in Flags : f # a.flag => given'[f] = given[f]
    BY <1>1, <1>4, <1>5 DEF GivenType
  <1>7. new # <<>>
    BY <1>4
  <1>8. \A f \in Flags : IsGiven(f)' <=> IsGiven(f) \/ f = a.flag
    BY <1>6, <1>7 DEF IsGiven
  <1>9. Last(new) = a.value
    BY <1>4 DEF Last
  <1>10. \A d : \A f \in Flags : Latest(f, d)' = IF f = a.flag THEN a.value ELSE Latest(f, d)
    BY <1>6, <1>8, <1>9, Zenon DEF Latest, IsGiven
  <1>11. Analyses' = IF a.flag = "--analysis" THEN Analyses \cup {a.value} ELSE Analyses
    <2>1. CASE a.flag = "--analysis"
      <3>1. Analyses' = {new[i] : i \in 1 .. n + 1}
        BY <1>4, <1>6, <2>1 DEF Analyses, Range
      <3>2. Analyses = {old[i] : i \in 1 .. n}
        BY <1>4, <2>1 DEF Analyses, Range
      <3>3. \A i : i \in 1 .. n + 1 <=> i \in 1 .. n \/ i = n + 1
        BY <1>4
      <3>4. ASSUME NEW x PROVE x \in Analyses' <=> x \in Analyses \/ x = a.value
        <4>1. x \in Analyses' <=> \E i \in 1 .. n + 1 : x = new[i]
          BY <3>1
        <4>2. x \in Analyses <=> \E i \in 1 .. n : x = old[i]
          BY <3>2
        <4> HIDE DEF old, n
        <4> QED
          BY <1>4, <3>3, <4>1, <4>2, Zenon
      <3> QED
        BY <2>1, <3>4
    <2>2. CASE a.flag # "--analysis"
      BY <1>6, <2>2, FlagsOfLine DEF Analyses
    <2> QED
      BY <2>1, <2>2
  <1> QED
    BY <1>1, <1>4, <1>6, <1>8, <1>10, <1>11

LEMMA ModeIsAnAnalysis ==
    ASSUME LineRead, options.mode \in Exclusive
    PROVE  options.mode \in Analyses
  BY DEF LineRead, ModeFollows, Asked, Exclusive

\* Behind an accepted argument the values still fit, and the flags of a hierarchy
\* are still known.
LEMMA ReadsKeepsValues ==
    ASSUME LineRead, NEW a \in Arguments, Reads(a), ~BadArgument(a)
    PROVE  GivenType' /\ ValuesFit' /\ HierarchyFollows'
  <1>1. GivenType /\ ValuesFit
    BY DEF LineRead
  <1>2. GivenType'
    BY <1>1, OneMore
  <1> DEFINE n == Len(given[a.flag])
  <1>3. /\ n \in Nat /\ DOMAIN given[a.flag] = 1 .. n
        /\ DOMAIN given'[a.flag] = 1 .. n + 1 /\ Len(given'[a.flag]) = n + 1
        /\ given'[a.flag][n + 1] = a.value
        /\ \A i \in 1 .. n : given'[a.flag][i] = given[a.flag][i]
        /\ \A f \in Flags : f # a.flag => given'[f] = given[f]
        /\ a.flag \in Flags /\ a.value # NoPath
    BY <1>1, OneMore
  <1>4. Legible(a.flag, a.value)
    BY DEF BadArgument
  <1>5. ASSUME NEW f \in Flags, NEW i \in DOMAIN given'[f]
        PROVE  Legible(f, given'[f][i]) /\ given'[f][i] # NoPath
    <2>1. CASE f # a.flag
      <3>1. given'[f] = given[f]
        BY <1>3, <2>1
      <3> QED
        BY <1>1, <1>5, <3>1 DEF ValuesFit
    <2>2. CASE f = a.flag /\ i \in 1 .. n
      BY <1>1, <1>3, <2>2 DEF ValuesFit
    <2>3. CASE f = a.flag /\ i = n + 1
      BY <1>3, <1>4, <2>3
    <2> QED
      BY <1>3, <1>5, <2>1, <2>2, <2>3
  <1>6. ASSUME NEW i \in DOMAIN given'["MAP"], i < Len(given'["MAP"])
        PROVE  given'["MAP"][i] = ""
    <2>1. CASE a.flag # "MAP"
      BY <1>1, <1>3, <1>6, <2>1, FlagsOfLine DEF ValuesFit
    <2>2. CASE a.flag = "MAP"
      <3>1. options.paths["MAP"] = NoPath
        BY <2>2 DEF BadArgument
      <3>2. Path(Latest("MAP", "")) = NoPath
        BY <3>1, FlagsOfLine DEF LineRead, PathsFollow
      <3>3. i \in 1 .. n
        BY <1>3, <1>6, <2>2
      <3>4. CASE i < n
        BY <1>1, <1>3, <2>2, <3>3, <3>4 DEF ValuesFit
      <3>5. CASE i = n
        <4>1. IsGiven("MAP")
          BY <1>3, <2>2, <3>3 DEF IsGiven
        <4>2. Latest("MAP", "") = given["MAP"][n]
          BY <2>2, <4>1 DEF Latest, Last
        <4>3. given["MAP"][n] # NoPath
          BY <1>1, <1>3, <2>2, <3>3, <3>5 DEF ValuesFit
        <4>4. given["MAP"][n] = ""
          BY <3>2, <4>2, <4>3 DEF Path
        <4> QED
          BY <1>3, <2>2, <3>3, <3>5, <4>4
      <3>6. i < n \/ i = n
        <4> HIDE DEF n
        <4> QED
          BY <1>3, <3>3
      <3> QED
        BY <3>4, <3>5, <3>6
    <2> QED
      BY <2>1, <2>2
  <1>7. /\ Analyses' \subseteq Exclusive \cup {"ir-instructions"}
        /\ ~(Exclusive \subseteq Analyses')
    <2>1. CASE a.flag # "--analysis"
      BY <1>1, <2>1, OneMore DEF ValuesFit
    <2>2. CASE a.flag = "--analysis"
      <3>1. Analyses' = Analyses \cup {a.value}
        BY <1>1, <2>2, OneMore
      <3>2. a.value \in Exclusive \cup {"ir-instructions"}
        BY <1>4, <2>2 DEF Legible
      <3>3. a.value \in Exclusive /\ options.mode \in Exclusive => options.mode = a.value
        BY <2>2 DEF BadArgument
      <3>4. options.mode = Asked
        BY DEF LineRead, ModeFollows
      <3>5. Exclusive \cap Analyses \subseteq {a.value} \/ a.value \notin Exclusive
        BY <1>1, <3>3, <3>4 DEF Asked, Exclusive, ValuesFit
      <3> QED
        BY <1>1, <3>1, <3>2, <3>5 DEF ValuesFit, Exclusive
    <2> QED
      BY <2>1, <2>2
  <1>8. ValuesFit'
    BY <1>5, <1>6, <1>7 DEF ValuesFit
  <1>9. HierarchyFollows'
    <2>1. hierarchy_options' <=> (hierarchy_options \/ IsHierarchyOption(a.flag))
      BY DEF Reads
    <2>2. \A f \in Flags : IsGiven(f)' <=> IsGiven(f) \/ f = a.flag
      BY <1>1, OneMore
    <2>3. hierarchy_options <=> \E f \in Flags : IsGiven(f) /\ IsHierarchyOption(f)
      BY DEF LineRead, HierarchyFollows
    <2>4. (\E f \in Flags : IsGiven(f)' /\ IsHierarchyOption(f))
             <=> ((\E f \in Flags : IsGiven(f) /\ IsHierarchyOption(f)) \/ IsHierarchyOption(a.flag))
      BY <1>3, <2>2
    <2> QED
      BY <2>1, <2>3, <2>4 DEF HierarchyFollows, IsHierarchyOption
  <1> QED
    BY <1>2, <1>8, <1>9

\* What an argument with another flag leaves as it was.
LEMMA OthersFollow ==
    ASSUME LineRead, NEW a \in Arguments, Reads(a)
    PROVE  /\ (options'.paths = options.paths /\ a.flag \notin PathFlags) => PathsFollow'
           /\ (options'.limits = options.limits /\ a.flag \notin LimitFlags) => LimitsFollow'
           /\ (/\ options'.mode = options.mode /\ a.flag # "--analysis"
               /\ options'.ir_instructions = options.ir_instructions) => ModeFollows'
           /\ (/\ options'.event_limit = options.event_limit /\ a.flag # "--event-limit"
               /\ event_limit_explicit' = event_limit_explicit) => EventLimitFollows'
           /\ (/\ options'.granularity = options.granularity /\ a.flag # "--granularity"
               /\ options'.granularity_explicit = options.granularity_explicit)
                 => GranularityFollows'
  <1>1. GivenType
    BY DEF LineRead
  <1>2. /\ \A f \in Flags : f # a.flag => (IsGiven(f)' <=> IsGiven(f))
        /\ \A d : \A f \in Flags : f # a.flag => Latest(f, d)' = Latest(f, d)
        /\ a.flag # "--analysis" => Analyses' = Analyses
    BY <1>1, OneMore
  <1>3. ASSUME options'.paths = options.paths, a.flag \notin PathFlags
        PROVE  PathsFollow'
    BY <1>2, <1>3, FlagsOfLine DEF LineRead, PathsFollow, Path
  <1>4. ASSUME options'.limits = options.limits, a.flag \notin LimitFlags
        PROVE  LimitsFollow'
    BY <1>2, <1>4, FlagsOfLine DEF LineRead, LimitsFollow
  <1>5. ASSUME options'.mode = options.mode, a.flag # "--analysis",
               options'.ir_instructions = options.ir_instructions
        PROVE  ModeFollows'
    BY <1>2, <1>5 DEF LineRead, ModeFollows, Asked
  <1>6. ASSUME options'.event_limit = options.event_limit, a.flag # "--event-limit",
               event_limit_explicit' = event_limit_explicit
        PROVE  EventLimitFollows'
    BY <1>2, <1>6, FlagsOfLine DEF LineRead, EventLimitFollows
  <1>7. ASSUME options'.granularity = options.granularity, a.flag # "--granularity",
               options'.granularity_explicit = options.granularity_explicit
        PROVE  GranularityFollows'
    BY <1>2, <1>7, FlagsOfLine DEF LineRead, GranularityFollows
  <1> QED
    BY <1>3, <1>4, <1>5, <1>6, <1>7

LEMMA ReadAnalysisKeeps ==
    ASSUME LineRead, NEW a \in Arguments, ReadAnalysis(a)
    PROVE  LineRead'
  <1>1. /\ Reads(a) /\ a.flag = "--analysis" /\ ~BadArgument(a)
        /\ event_limit_explicit' = event_limit_explicit
    BY DEF ReadAnalysis
  <1>2. GivenType' /\ ValuesFit' /\ HierarchyFollows'
    BY <1>1, ReadsKeepsValues
  <1>3. /\ a.value \in Exclusive \cup {"ir-instructions"}
        /\ a.value \in Exclusive /\ options.mode \in Exclusive => options.mode = a.value
    BY <1>1 DEF BadArgument, Legible
  <1> DEFINE mode == ModeWith(options.mode, a.value)
             ir == options.ir_instructions \/ a.value = "ir-instructions"
  <1>4. options' = [options EXCEPT !.mode = mode, !.ir_instructions = ir]
    BY DEF ReadAnalysis
  <1>5. OptionsType
    BY DEF LineRead
  <1>6. mode \in Modes /\ ir \in BOOLEAN
    BY <1>3, <1>5 DEF OptionsType, ModeWith, Modes, Exclusive
  <1>7. /\ Analyses' = Analyses \cup {a.value}
        /\ options.mode = Asked /\ (options.ir_instructions <=> "ir-instructions" \in Analyses)
    BY <1>1, OneMore DEF LineRead, ModeFollows
  <1>8. (ir <=> "ir-instructions" \in Analyses') /\ mode = Asked'
    <2>1. ir <=> "ir-instructions" \in Analyses'
      BY <1>7
    <2>2. mode = IF a.value \in Exclusive \/ options.mode = "legacy" THEN a.value
                 ELSE options.mode
      BY DEF ModeWith
    <2>3. Asked' = IF "hierarchy-rd" \in Analyses' THEN "hierarchy-rd"
                   ELSE IF "mapping" \in Analyses' THEN "mapping"
                   ELSE IF "ir-instructions" \in Analyses' THEN "ir-instructions" ELSE "legacy"
      BY DEF Asked
    <2>4. Asked = IF "hierarchy-rd" \in Analyses THEN "hierarchy-rd"
                  ELSE IF "mapping" \in Analyses THEN "mapping"
                  ELSE IF "ir-instructions" \in Analyses THEN "ir-instructions" ELSE "legacy"
      BY DEF Asked
    <2> HIDE DEF mode, ir
    <2>5. CASE a.value \in Exclusive
      <3>1. ~(Exclusive \subseteq Analyses')
        BY <1>2 DEF ValuesFit
      <3> QED
        BY <1>7, <2>1, <2>2, <2>3, <2>5, <3>1 DEF Exclusive
    <2>6. CASE a.value = "ir-instructions"
      BY <1>7, <2>1, <2>2, <2>3, <2>4, <2>6 DEF Exclusive
    <2> QED
      BY <1>3, <2>1, <2>5, <2>6
  <1> HIDE DEF mode, ir
  <1>9. /\ options'.mode = mode /\ options'.ir_instructions = ir
        /\ options'.paths = options.paths /\ options'.limits = options.limits
        /\ options'.event_limit = options.event_limit
        /\ options'.granularity = options.granularity
        /\ options'.granularity_explicit = options.granularity_explicit
        /\ OptionsType'
    BY <1>4, <1>5, <1>6 DEF OptionsType
  <1>10. a.flag \notin PathFlags \cup LimitFlags \cup {"--event-limit", "--granularity"}
    BY <1>1, FlagsOfLine
  <1>11. PathsFollow' /\ LimitsFollow' /\ EventLimitFollows' /\ GranularityFollows'
    BY <1>1, <1>9, <1>10, OthersFollow
  <1>12. ModeFollows'
    BY <1>8, <1>9 DEF ModeFollows
  <1> QED
    BY <1>2, <1>9, <1>11, <1>12 DEF LineRead

LEMMA ReadPathKeeps ==
    ASSUME LineRead, NEW a \in Arguments, ReadPath(a)
    PROVE  LineRead'
  <1>1. /\ Reads(a) /\ a.flag \in PathFlags /\ ~BadArgument(a)
        /\ event_limit_explicit' = event_limit_explicit
    BY DEF ReadPath
  <1>2. GivenType' /\ ValuesFit' /\ HierarchyFollows'
    BY <1>1, ReadsKeepsValues
  <1> DEFINE path == Path(a.value)
             paths == [options.paths EXCEPT ![a.flag] = path]
  <1>3. options' = [options EXCEPT !.paths[a.flag] = path]
    BY DEF ReadPath
  <1>4. OptionsType /\ GivenType
    BY DEF LineRead
  <1>5. path \in Texts
    BY DEF Path, Texts
  <1> HIDE DEF path
  <1>6. options' = [options EXCEPT !.paths = paths]
    BY <1>3, <1>4 DEF OptionsType
  <1>7. /\ paths \in [PathFlags -> Texts]
        /\ \A f \in PathFlags : paths[f] = IF f = a.flag THEN path ELSE options.paths[f]
    BY <1>1, <1>4, <1>5 DEF OptionsType
  <1> HIDE DEF paths
  <1>8. /\ options'.mode = options.mode /\ options'.ir_instructions = options.ir_instructions
        /\ options'.paths = paths
        /\ options'.limits = options.limits /\ options'.event_limit = options.event_limit
        /\ options'.granularity = options.granularity
        /\ options'.granularity_explicit = options.granularity_explicit
        /\ OptionsType'
    BY <1>4, <1>6, <1>7 DEF OptionsType
  <1>9. a.flag \notin LimitFlags \cup {"--analysis", "--event-limit", "--granularity"}
    BY <1>1, FlagsOfLine
  <1>10. LimitsFollow' /\ ModeFollows' /\ EventLimitFollows' /\ GranularityFollows'
    BY <1>1, <1>8, <1>9, OthersFollow
  <1>11. PathsFollow'
    <2>1. \A f \in PathFlags : Latest(f, "")' = IF f = a.flag THEN a.value ELSE Latest(f, "")
      <3>1. \A d : \A f \in Flags : Latest(f, d)' = IF f = a.flag THEN a.value ELSE Latest(f, d)
        BY <1>1, <1>4, OneMore
      <3> QED
        BY <3>1, FlagsOfLine, Zenon
    <2>2. \A f \in PathFlags : options.paths[f] = Path(Latest(f, ""))
      BY DEF LineRead, PathsFollow
    <2>3. ASSUME NEW f \in PathFlags PROVE paths[f] = Path(Latest(f, "")')
      BY <1>7, <2>1, <2>2 DEF path, Path
    <2> QED
      BY <1>8, <2>3 DEF PathsFollow, Path
  <1> QED
    BY <1>2, <1>8, <1>10, <1>11 DEF LineRead

LEMMA ReadLimitKeeps ==
    ASSUME LineRead, NEW a \in Arguments, ReadLimit(a)
    PROVE  LineRead'
  <1>1. /\ Reads(a) /\ a.flag \in LimitFlags /\ ~BadArgument(a)
        /\ event_limit_explicit' = event_limit_explicit
    BY DEF ReadLimit
  <1>2. GivenType' /\ ValuesFit' /\ HierarchyFollows'
    BY <1>1, ReadsKeepsValues
  <1> DEFINE given_limits == [options.limits EXCEPT ![a.flag] = a.value]
  <1>3. OptionsType /\ GivenType
    BY DEF LineRead
  <1>4. options' = [options EXCEPT !.limits = given_limits]
    BY <1>3 DEF ReadLimit, OptionsType
  <1>5. /\ given_limits \in [LimitFlags -> Texts]
        /\ \A f \in LimitFlags : given_limits[f] = IF f = a.flag THEN a.value ELSE options.limits[f]
    BY <1>1, <1>3 DEF OptionsType, Texts
  <1> HIDE DEF given_limits
  <1>6. /\ options'.mode = options.mode /\ options'.ir_instructions = options.ir_instructions
        /\ options'.limits = given_limits
        /\ options'.paths = options.paths /\ options'.event_limit = options.event_limit
        /\ options'.granularity = options.granularity
        /\ options'.granularity_explicit = options.granularity_explicit
        /\ OptionsType'
    BY <1>3, <1>4, <1>5 DEF OptionsType
  <1>7. a.flag \notin PathFlags \cup {"--analysis", "--event-limit", "--granularity"}
    BY <1>1, FlagsOfLine
  <1>8. PathsFollow' /\ ModeFollows' /\ EventLimitFollows' /\ GranularityFollows'
    BY <1>1, <1>6, <1>7, OthersFollow
  <1>9. LimitsFollow'
    <2>1. \A f \in LimitFlags :
             Latest(f, DefaultLimit)' = IF f = a.flag THEN a.value ELSE Latest(f, DefaultLimit)
      BY <1>1, <1>3, OneMore, FlagsOfLine
    <2> QED
      BY <1>5, <1>6, <2>1 DEF LineRead, LimitsFollow
  <1> QED
    BY <1>2, <1>6, <1>8, <1>9 DEF LineRead

LEMMA ReadEventLimitKeeps ==
    ASSUME LineRead, NEW a \in Arguments, ReadEventLimit(a)
    PROVE  LineRead'
  <1>1. /\ Reads(a) /\ a.flag = "--event-limit" /\ ~BadArgument(a)
        /\ event_limit_explicit' = TRUE
        /\ options' = [options EXCEPT !.event_limit = a.value]
    BY DEF ReadEventLimit
  <1>2. GivenType' /\ ValuesFit' /\ HierarchyFollows'
    BY <1>1, ReadsKeepsValues
  <1>3. OptionsType /\ GivenType /\ a.value \in Texts
    BY DEF LineRead, Texts
  <1>4. /\ options'.mode = options.mode /\ options'.ir_instructions = options.ir_instructions
        /\ options'.paths = options.paths /\ options'.limits = options.limits
        /\ options'.event_limit = a.value
        /\ options'.granularity = options.granularity
        /\ options'.granularity_explicit = options.granularity_explicit
        /\ OptionsType'
    BY <1>1, <1>3 DEF OptionsType
  <1>5. a.flag \notin PathFlags \cup LimitFlags \cup {"--analysis", "--granularity"}
    BY <1>1, FlagsOfLine
  <1>6. PathsFollow' /\ LimitsFollow' /\ ModeFollows' /\ GranularityFollows'
    BY <1>1, <1>4, <1>5, OthersFollow
  <1>7. EventLimitFollows'
    BY <1>1, <1>3, <1>4, OneMore, FlagsOfLine DEF EventLimitFollows
  <1> QED
    BY <1>2, <1>4, <1>6, <1>7 DEF LineRead

LEMMA ReadGranularityKeeps ==
    ASSUME LineRead, NEW a \in Arguments, ReadGranularity(a)
    PROVE  LineRead'
  <1>1. /\ Reads(a) /\ a.flag = "--granularity" /\ ~BadArgument(a)
        /\ event_limit_explicit' = event_limit_explicit
        /\ options' = [options EXCEPT !.granularity = a.value, !.granularity_explicit = TRUE]
    BY DEF ReadGranularity
  <1>2. GivenType' /\ ValuesFit' /\ HierarchyFollows'
    BY <1>1, ReadsKeepsValues
  <1>3. OptionsType /\ GivenType /\ a.value \in Texts
    BY DEF LineRead, Texts
  <1>4. /\ options'.mode = options.mode /\ options'.ir_instructions = options.ir_instructions
        /\ options'.paths = options.paths /\ options'.limits = options.limits
        /\ options'.event_limit = options.event_limit
        /\ options'.granularity = a.value /\ options'.granularity_explicit
        /\ OptionsType'
    BY <1>1, <1>3 DEF OptionsType
  <1>5. a.flag \notin PathFlags \cup LimitFlags \cup {"--analysis", "--event-limit"}
    BY <1>1, FlagsOfLine
  <1>6. PathsFollow' /\ LimitsFollow' /\ ModeFollows' /\ EventLimitFollows'
    BY <1>1, <1>4, <1>5, OthersFollow
  <1>7. GranularityFollows'
    BY <1>1, <1>3, <1>4, OneMore, FlagsOfLine DEF GranularityFollows
  <1> QED
    BY <1>2, <1>4, <1>6, <1>7 DEF LineRead

LEMMA ReadModeKeeps ==
    ASSUME LineRead, NEW a \in Arguments, ReadMode(a)
    PROVE  LineRead'
  <1>1. /\ Reads(a) /\ a.flag = "--mode" /\ ~BadArgument(a)
        /\ options' = options /\ event_limit_explicit' = event_limit_explicit
    BY DEF ReadMode
  <1>2. GivenType' /\ ValuesFit' /\ HierarchyFollows' /\ OptionsType'
    BY <1>1, ReadsKeepsValues DEF LineRead, OptionsType
  <1>3. a.flag \notin PathFlags \cup LimitFlags
                       \cup {"--analysis", "--event-limit", "--granularity"}
    BY <1>1, FlagsOfLine
  <1>4. /\ PathsFollow' /\ LimitsFollow' /\ ModeFollows' /\ EventLimitFollows'
        /\ GranularityFollows'
    BY <1>1, <1>3, OthersFollow
  <1> QED
    BY <1>2, <1>4 DEF LineRead

-----------------------------------------------------------------------------
(* What the options mean at the end of the line.                            *)

LEMMA OptionsMean ==
    ASSUME LineRead
    PROVE  /\ \A f \in PathFlags : Has(f) <=> Provides(f)
           /\ options.paths["--export"] = "-" <=> Latest("--export", "") = "-"
           /\ options.mode = Asked
           /\ event_limit_explicit <=> IsGiven("--event-limit")
           /\ options.granularity_explicit <=> IsGiven("--granularity")
           /\ options.granularity = "cache-line" <=> Latest("--granularity", "") = "cache-line"
           /\ hierarchy_options <=> \E f \in Flags : IsGiven(f) /\ IsHierarchyOption(f)
  <1>1. GivenType /\ ValuesFit
    BY DEF LineRead
  <1>2. ASSUME NEW f \in PathFlags PROVE Latest(f, "") # NoPath
    <2>1. CASE ~IsGiven(f)
      BY <2>1 DEF Latest, NoPath
    <2>2. CASE IsGiven(f)
      <3>1. given[f] \in Seq(Texts) /\ given[f] # <<>>
        BY <1>1, <1>2, <2>2, FlagsOfLine DEF GivenType, IsGiven
      <3>2. Len(given[f]) \in DOMAIN given[f]
        BY <3>1
      <3> QED
        BY <1>1, <1>2, <2>2, <3>2, FlagsOfLine DEF Latest, Last, ValuesFit
    <2> QED
      BY <2>1, <2>2
  <1>3. ASSUME NEW f \in PathFlags
        PROVE  /\ Has(f) <=> Provides(f)
               /\ options.paths[f] = "-" <=> Latest(f, "") = "-"
    BY <1>2 DEF LineRead, PathsFollow, Path, Has, Provides, NoPath
  <1>4. options.granularity = "cache-line" <=> Latest("--granularity", "") = "cache-line"
    BY DEF LineRead, GranularityFollows, Latest
  <1> QED
    BY <1>3, <1>4, FlagsOfLine
       DEF LineRead, ModeFollows, EventLimitFollows, GranularityFollows, HierarchyFollows

\* The checks at the end of a line pass exactly when it fits.
LEMMA ConsistentIsFitting ==
    ASSUME LineRead
    PROVE  Consistent <=> LineFits
  <1> USE OptionsMean, FlagsOfLine
  <1>1. options.mode \in Modes
    BY DEF LineRead, OptionsType
  <1>2. ValuesFit
    BY DEF LineRead
  <1>3. IsGiven("--event-limit") => hierarchy_options
    BY DEF IsHierarchyOption
  <1>4. Has("--export") => options.paths["--export"] # ""
    BY DEF LineRead, PathsFollow, Path, NoPath
  <1>5. ASSUME Consistent PROVE LineFits
    <2>1. hierarchy_options => options.mode = "hierarchy-rd"
      BY <1>5 DEF Consistent, Hierarchy
    <2>2. /\ options.mode # "ir-instructions" /\ options.mode # "legacy" => Has("--elf")
          /\ options.mode = "hierarchy-rd" => Has("--export") /\ options.paths["--export"] # "-"
          /\ options.mode = "hierarchy-rd" /\ event_limit_explicit => Has("--export-events")
      BY <1>5 DEF Consistent, Hierarchy, artifact_path
    <2>3. /\ options.mode = "ir-instructions" =>
                ~Has("--elf") /\ ~Has("--cache") /\ ~options.granularity_explicit
          /\ Has("--elf") => Has("--cache")
          /\ Has("--elf") /\ options.granularity_explicit => options.granularity = "cache-line"
      BY <1>5 DEF Consistent
    <2>4. options.granularity = "cache-line" => Has("--cache")
      <3>1. options.granularity = "cache-line" => options.granularity_explicit
        BY DEF LineRead, GranularityFollows, Latest
      <3> QED
        BY <1>5, <2>3, <3>1 DEF Consistent
    <2>5. Has("MAP")
      BY <1>5 DEF Consistent
    <2> QED
      BY <1>1, <1>2, <1>3, <2>1, <2>2, <2>3, <2>4, <2>5 DEF LineFits, ValuesFit, Exclusive
  <1>6. ASSUME LineFits PROVE Consistent
    <2>1. Has("MAP") /\ (hierarchy_options => Hierarchy)
      BY <1>6 DEF LineFits, Hierarchy
    <2>2. CASE options.mode = "ir-instructions"
      BY <1>6, <2>1, <2>2 DEF LineFits, Consistent
    <2>3. CASE options.mode # "ir-instructions"
      <3>1. options.mode # "legacy" => Has("--elf")
        BY <1>1, <1>6, <2>3 DEF LineFits, Modes, Exclusive
      <3>2. Hierarchy => /\ Has("--export") /\ artifact_path(options.paths["--export"])
                         /\ event_limit_explicit => Has("--export-events")
        BY <1>4, <1>6 DEF LineFits, Hierarchy, artifact_path
      <3>3. Has("--elf") => /\ Has("--cache")
                            /\ options.granularity_explicit => options.granularity = "cache-line"
        BY <1>6 DEF LineFits
      <3>4. options.granularity = "cache-line" => Has("--cache")
        BY <1>6 DEF LineFits
      <3> QED
        BY <2>1, <2>3, <3>1, <3>2, <3>3, <3>4 DEF Consistent
    <2> QED
      BY <2>2, <2>3
  <1> QED
    BY <1>5, <1>6

\* The options are those of the line, whole.
LEMMA OptionsAreOfLine ==
    ASSUME LineRead
    PROVE  options = OptionsOfLine
  <1>1. OptionsType
    BY DEF LineRead
  <1> DEFINE p == [f \in PathFlags |-> Path(Latest(f, ""))]
             l == [f \in LimitFlags |-> Latest(f, DefaultLimit)]
  <1>2. options.paths = p
    BY <1>1 DEF OptionsType, LineRead, PathsFollow
  <1>3. options.limits = l
    BY <1>1 DEF OptionsType, LineRead, LimitsFollow
  <1>4. options.ir_instructions = ("ir-instructions" \in Analyses)
    <2>1. options.ir_instructions \in BOOLEAN
      BY <1>1 DEF OptionsType
    <2>2. options.ir_instructions <=> "ir-instructions" \in Analyses
      BY DEF LineRead, ModeFollows
    <2>3. CASE "ir-instructions" \in Analyses
      BY <2>1, <2>2, <2>3
    <2>4. CASE "ir-instructions" \notin Analyses
      BY <2>1, <2>2, <2>4
    <2> QED
      BY <2>3, <2>4
  <1>5. options.granularity_explicit = IsGiven("--granularity")
    <2>1. options.granularity_explicit \in BOOLEAN
      BY <1>1 DEF OptionsType
    <2>2. options.granularity_explicit <=> IsGiven("--granularity")
      BY DEF LineRead, GranularityFollows
    <2> QED
      BY <2>1, <2>2, Zenon DEF IsGiven
  <1>6. /\ options.mode = Asked /\ options.event_limit = Latest("--event-limit", "0")
        /\ options.granularity = Latest("--granularity", "element")
    BY DEF LineRead, ModeFollows, EventLimitFollows, GranularityFollows
  <1>7. options = [mode |-> options.mode, ir_instructions |-> options.ir_instructions,
                   paths |-> options.paths, limits |-> options.limits,
                   event_limit |-> options.event_limit, granularity |-> options.granularity,
                   granularity_explicit |-> options.granularity_explicit]
    BY <1>1 DEF OptionsType
  <1>8. OptionsOfLine = [mode |-> Asked, ir_instructions |-> "ir-instructions" \in Analyses,
                         paths |-> p, limits |-> l,
                         event_limit |-> Latest("--event-limit", "0"),
                         granularity |-> Latest("--granularity", "element"),
                         granularity_explicit |-> IsGiven("--granularity")]
    BY DEF OptionsOfLine
  <1> HIDE DEF p, l
  <1> QED
    BY <1>2, <1>3, <1>4, <1>5, <1>6, <1>7, <1>8, Zenon

\* A line that is refused at an argument does not fit, whatever would follow.
LEMMA RefusedArgumentDoesNotFit ==
    ASSUME LineRead, NEW a \in Arguments, RefuseArgument(a)
    PROVE  ~LineFits'
  <1>1. Reads(a) /\ BadArgument(a) /\ GivenType
    BY DEF RefuseArgument, LineRead
  <1> DEFINE n == Len(given[a.flag])
  <1>2. /\ n \in Nat /\ DOMAIN given[a.flag] = 1 .. n
        /\ DOMAIN given'[a.flag] = 1 .. n + 1 /\ Len(given'[a.flag]) = n + 1
        /\ given'[a.flag][n + 1] = a.value
        /\ \A i \in 1 .. n : given'[a.flag][i] = given[a.flag][i]
        /\ a.flag \in Flags
        /\ Analyses' = IF a.flag = "--analysis" THEN Analyses \cup {a.value} ELSE Analyses
    BY <1>1, OneMore
  <1>3. CASE ~Legible(a.flag, a.value)
    <2>1. n + 1 \in DOMAIN given'[a.flag]
      BY <1>2
    <2>2. LineFits' => \A f \in Flags : \A i \in DOMAIN given'[f] : Legible(f, given'[f][i])
      BY DEF LineFits
    <2> QED
      BY <1>2, <1>3, <2>1, <2>2
  <1>4. CASE a.flag = "MAP" /\ options.paths["MAP"] # NoPath
    <2>1. Path(Latest("MAP", "")) # NoPath
      BY <1>4, FlagsOfLine DEF LineRead, PathsFollow
    <2>2. IsGiven("MAP") /\ Last(given["MAP"]) # ""
      BY <2>1 DEF Latest, Path
    <2>3. n \in 1 .. n
      <3>1. given["MAP"] \in Seq(Texts) /\ given["MAP"] # <<>>
        BY <1>1, <2>2, FlagsOfLine DEF GivenType, IsGiven
      <3> QED
        BY <1>2, <1>4, <3>1
    <2>4. given'["MAP"][n] # ""
      BY <1>2, <1>4, <2>2, <2>3 DEF Last
    <2>5. LineFits' => \A i \in DOMAIN given'["MAP"] :
                          i < Len(given'["MAP"]) => given'["MAP"][i] = ""
      BY DEF LineFits
    <2>6. n \in DOMAIN given'["MAP"] /\ n < Len(given'["MAP"])
      BY <1>2, <1>4, <2>3
    <2> QED
      BY <2>4, <2>5, <2>6
  <1>5. CASE a.flag = "--analysis" /\ a.value \in Exclusive
             /\ options.mode \in Exclusive /\ options.mode # a.value
    <2>1. options.mode \in Analyses
      BY <1>5, ModeIsAnAnalysis
    <2>2. Exclusive \subseteq Analyses'
      BY <1>2, <1>5, <2>1 DEF Exclusive
    <2> QED
      BY <2>2 DEF LineFits
  <1> QED
    BY <1>1, <1>3, <1>4, <1>5 DEF BadArgument

LEMMA LineStays ==
    ASSUME UNCHANGED <<given, options, hierarchy_options, event_limit_explicit>>
    PROVE  /\ LineRead => LineRead'
           /\ Consistent => Consistent'
           /\ LineFits' => LineFits
  <1>1. LineRead => LineRead'
    BY DEF LineRead, GivenType, OptionsType, ValuesFit, PathsFollow, LimitsFollow, ModeFollows,
           EventLimitFollows, GranularityFollows, HierarchyFollows, Analyses, Asked, Latest,
           IsGiven
  <1>2. Consistent => Consistent'
    BY DEF Consistent, Has, Hierarchy
  <1>3. LineFits' => LineFits
    BY DEF LineFits, Provides, Latest, IsGiven, Analyses, Asked
  <1> QED
    BY <1>1, <1>2, <1>3

LEMMA StepLine ==
    ASSUME LineInv, [CommandNext]_<<option_vars, command_vars>>
    PROVE  LineInv'
  <1>1. ASSUME UNCHANGED option_vars PROVE LineInv'
    BY <1>1, LineStays DEF option_vars, LineInv
  <1>2. ASSUME options_stage = "parsing", NEW a \in Arguments,
               \/ ReadAnalysis(a) \/ ReadPath(a) \/ ReadLimit(a)
               \/ ReadEventLimit(a) \/ ReadGranularity(a) \/ ReadMode(a)
        PROVE  LineInv'
    <2>1. LineRead
      BY <1>2 DEF LineInv
    <2>2. options_stage' = options_stage
      BY <1>2 DEF ReadAnalysis, ReadPath, ReadLimit, ReadEventLimit, ReadGranularity, ReadMode
    <2>3. LineRead'
      BY <1>2, <2>1, ReadAnalysisKeeps, ReadPathKeeps, ReadLimitKeeps,
         ReadEventLimitKeeps, ReadGranularityKeeps, ReadModeKeeps
    <2> QED
      BY <1>2, <2>2, <2>3 DEF LineInv
  <1>3. ASSUME NEW a \in Arguments, Help(a) PROVE LineInv'
    BY <1>3 DEF Help, LineInv
  <1>4. ASSUME NEW a \in Arguments, RefuseArgument(a) PROVE LineInv'
    <2>1. options_stage = "parsing" /\ options_stage' = "refused"
      BY <1>4 DEF RefuseArgument, Reads
    <2>2. ~LineFits'
      BY <1>4, <2>1, RefusedArgumentDoesNotFit DEF LineInv
    <2> QED
      BY <2>1, <2>2 DEF LineInv
  <1>5. ASSUME EndOfLine PROVE LineInv'
    <2>1. /\ LineRead /\ UNCHANGED <<given, options, hierarchy_options, event_limit_explicit>>
          /\ options_stage' = IF Consistent THEN "accepted" ELSE "refused"
      BY <1>5 DEF EndOfLine, LineInv
    <2>2. CASE Consistent
      BY <2>1, <2>2, LineStays DEF LineInv
    <2>3. CASE ~Consistent
      <3>1. ~LineFits'
        BY <2>1, <2>3, ConsistentIsFitting, LineStays
      <3> QED
        BY <2>1, <2>3, <3>1 DEF LineInv
    <2> QED
      BY <2>2, <2>3
  <1>6. ASSUME OptionsNext PROVE LineInv'
    <2>1. ASSUME NEW a \in Arguments,
                 \/ ReadAnalysis(a) \/ ReadPath(a) \/ ReadLimit(a)
                 \/ ReadEventLimit(a) \/ ReadGranularity(a) \/ ReadMode(a)
          PROVE  options_stage = "parsing"
      BY <2>1 DEF ReadAnalysis, ReadPath, ReadLimit, ReadEventLimit, ReadGranularity,
                  ReadMode, Reads
    <2> QED
      BY <1>2, <1>3, <1>4, <1>5, <1>6, <2>1 DEF OptionsNext, MayFollow
  <1>7. ASSUME Dispatch PROVE LineInv'
    BY <1>7 DEF Dispatch, LineInv
  <1>8. ASSUME \/ DoUntimed \/ StartStage \/ FinishStage \/ StartCallback
               \/ FinishCallback \/ RefuseInterval \/ TakeSnapshot \/ RefuseSnapshot
               \/ Publish \/ Unwind \/ \E kind \in Kinds : Throw(kind)
        PROVE  UNCHANGED option_vars
    BY <1>8 DEF DoUntimed, StartStage, FinishStage, StartCallback, FinishCallback,
                RefuseInterval, TakeSnapshot, RefuseSnapshot, Publish, Unwind, Throw, Raise
  <1>9. CASE UNCHANGED <<option_vars, command_vars>>
    BY <1>1, <1>9
  <1> QED
    BY <1>1, <1>6, <1>7, <1>8, <1>9 DEF CommandNext

(* Of every line of any length, options given once or again, in any order:  *)
(* it is accepted exactly when it fits, and the options are then the last   *)
(* values on it.                                                            *)
THEOREM LineMeansItsArguments == CommandSpec => []LastValuesDecide
  <1>1. CommandInit => LineInv
    BY InitLine DEF CommandInit
  <1>2. LineInv /\ [CommandNext]_<<option_vars, command_vars>> => LineInv'
    BY StepLine
  <1>3. LineInv => LastValuesDecide
    BY ConsistentIsFitting, OptionsAreOfLine DEF LineInv, LastValuesDecide
  <1> QED
    BY <1>1, <1>2, <1>3, PTL DEF CommandSpec

-----------------------------------------------------------------------------
(* What becomes of an exception.  While it is on its way it differs from    *)
(* the one thrown only by the wrapping of a callback, which the walk never  *)
(* has; nothing is published before the last step.                          *)

InFlight ==
    /\ thrown = [from |-> thrown.from, kind |-> thrown.kind, wrapped |-> FALSE]
    /\ error = [from |-> thrown.from, kind |-> thrown.kind, wrapped |-> error.wrapped]
    /\ error.wrapped \in BOOLEAN
    /\ thrown.from = "walk" => ~error.wrapped

ErrorInv ==
    /\ step \in 0 .. 11
    /\ step # 10 => published = <<>>
    /\ step = 0 => thrown = NoError
    /\ step \in 1 .. 9 /\ thrown # NoError => InFlight
    /\ ErrorsKeepTheirSource

LEMMA NineSteps ==
    /\ Len(Steps) = 9 /\ DOMAIN Steps = 1 .. 9
    /\ Steps[1] = "hash" /\ Steps[2] = "ParseMap" /\ Steps[3] = "ParseCache"
    /\ Steps[4] = "ParseElf" /\ Steps[5] = "select" /\ Steps[6] = "ResolveAndStream"
    /\ Steps[7] = "SerializeResult" /\ Steps[8] = "snapshot" /\ Steps[9] = "publish"
  BY DEF Steps

\* Every exception raised under way is one in flight.
LEMMA RaisedInFlight ==
    ASSUME NEW from, NEW kind, Raise(from, kind), from = "walk" => ~(InStream /\ callback # Idle)
    PROVE  /\ InFlight'
           /\ UNCHANGED <<step, published>>
  <1> DEFINE wrapped == InStream /\ callback # Idle
  <1>1. /\ thrown' = [from |-> from, kind |-> kind, wrapped |-> FALSE]
        /\ error' = [thrown' EXCEPT !.wrapped = wrapped]
        /\ UNCHANGED <<step, published>>
    BY DEF Raise
  <1>2. wrapped \in BOOLEAN
    BY DEF InStream, At, Running
  <1>3. from = "walk" => ~wrapped
    OBVIOUS
  <1> HIDE DEF wrapped
  <1>4. error' = [from |-> from, kind |-> kind, wrapped |-> wrapped]
    BY <1>1
  <1>5. thrown'.from = from /\ thrown'.kind = kind /\ error'.wrapped = wrapped
    BY <1>1, <1>4
  <1>6. InFlight'
    BY <1>1, <1>2, <1>3, <1>4, <1>5 DEF InFlight
  <1> QED
    BY <1>1, <1>6

\* The clause that catches it gives back what was thrown, or the malformed module.
LEMMA CaughtAsThrown ==
    ASSUME InFlight
    PROVE  Caught(error) = IF thrown.from = "walk" /\ thrown.kind = "json" THEN Relabelled
                                                                           ELSE thrown
  <1>1. error.from = thrown.from /\ error.kind = thrown.kind
    BY DEF InFlight
  <1>2. CASE error.wrapped
    <2>1. [error EXCEPT !.wrapped = FALSE] = thrown
      BY DEF InFlight
    <2>2. thrown.from # "walk"
      BY <1>2 DEF InFlight
    <2> QED
      BY <1>2, <2>1, <2>2 DEF Caught
  <1>3. CASE ~error.wrapped
    <2>1. error.wrapped = FALSE
      BY <1>3 DEF InFlight
    <2>2. error = thrown
      BY <2>1 DEF InFlight
    <2> QED
      BY <1>1, <1>3, <2>2 DEF Caught
  <1> QED
    BY <1>2, <1>3

LEMMA StepError ==
    ASSUME ErrorInv, [CommandNext]_<<option_vars, command_vars>>
    PROVE  ErrorInv'
  <1> USE NineSteps
  <1>0. /\ step \in 0 .. 11 /\ (step # 10 => published = <<>>)
        /\ (step = 0 => thrown = NoError)
        /\ (step \in 1 .. 9 /\ thrown # NoError => InFlight)
        /\ ErrorsKeepTheirSource
    BY DEF ErrorInv
  <1>1. ASSUME UNCHANGED <<step, thrown, error, published>> PROVE ErrorInv'
    BY <1>0, <1>1 DEF ErrorInv, ErrorsKeepTheirSource, InFlight
  <1>2. ASSUME UNCHANGED <<thrown, error, published>>, step # 11, step' # 11, step' \in 0 .. 10,
               step = 10 => step' = 10, step' # 0,
               step' \in 1 .. 9 => thrown = NoError
        PROVE  ErrorInv'
    BY <1>0, <1>2 DEF ErrorInv, ErrorsKeepTheirSource
  <1>3. ASSUME NEW from, NEW kind, Raise(from, kind), step \in 1 .. 9,
               from = "walk" => ~(InStream /\ callback # Idle)
        PROVE  ErrorInv'
    BY <1>0, <1>3, RaisedInFlight DEF ErrorInv, ErrorsKeepTheirSource
  <1>4. ASSUME \/ OptionsNext /\ UNCHANGED command_vars
               \/ UNCHANGED <<option_vars, command_vars>> \/ StartStage \/ StartCallback \/ FinishCallback
        PROVE  ErrorInv'
    BY <1>1, <1>4 DEF command_vars, StartStage, StartCallback, FinishCallback
  <1>5. CASE Dispatch
    <2>1. step = 0 /\ step' \in {1, 10} /\ UNCHANGED <<thrown, error, published>>
      BY <1>5 DEF Dispatch
    <2> QED
      BY <1>0, <1>2, <2>1
  <1>6. ASSUME DoUntimed \/ FinishStage \/ TakeSnapshot PROVE ErrorInv'
    <2>1. /\ step \in 1 .. 8 /\ thrown = NoError /\ step' = step + 1
          /\ UNCHANGED <<thrown, error, published>>
      BY <1>6 DEF DoUntimed, FinishStage, TakeSnapshot, StageEnds, At, Running, Timed
    <2> QED
      BY <1>2, <2>1
  <1>7. CASE Publish
    <2>1. step = 9 /\ step' = 10
      BY <1>7 DEF Publish, At, Running
    <2> QED
      BY <2>1 DEF ErrorInv, ErrorsKeepTheirSource
  <1>8. CASE Unwind
    <2>1. /\ step \in 1 .. 9 /\ InFlight /\ published = <<>> /\ step' = 11
          /\ error' = Caught(error) /\ UNCHANGED <<thrown, published>>
      BY <1>0, <1>8 DEF Unwind
    <2>2. Caught(error) = IF thrown.from = "walk" /\ thrown.kind = "json" THEN Relabelled
                                                                          ELSE thrown
      BY <2>1, CaughtAsThrown
    <2>3. Relabelled' = Relabelled
      BY DEF Relabelled
    <2> QED
      BY <2>1, <2>2, <2>3 DEF ErrorInv, ErrorsKeepTheirSource
  <1>9. CASE RefuseInterval
    <2>1. step \in 1 .. 9 /\ Raise("telemetry", "invalid_argument")
      BY <1>9 DEF RefuseInterval, StageEnds, InStream, At, Running
    <2> QED
      BY <1>3, <2>1
  <1>10. CASE RefuseSnapshot
    <2>1. step \in 1 .. 9 /\ Raise("telemetry", "invalid_argument")
      BY <1>10 DEF RefuseSnapshot, At, Running
    <2> QED
      BY <1>3, <2>1
  <1>11. ASSUME NEW kind \in Kinds, Throw(kind) PROVE ErrorInv'
    <2>1. step \in 1 .. 9 /\ Raise(Thrower, kind)
      BY <1>11 DEF Throw, Running
    <2>2. Thrower = "walk" => ~(InStream /\ callback # Idle)
      BY DEF Thrower
    <2> QED
      BY <1>3, <2>1, <2>2
  <1> QED
    BY <1>4, <1>5, <1>6, <1>7, <1>8, <1>9, <1>10, <1>11 DEF CommandNext

(* An exception keeps its type and its origin all the way to the user, but  *)
(* for the walk's own trouble with JSON, reported as a malformed module;    *)
(* and a command that ends by one has published nothing.                    *)
THEOREM ErrorsArriveAsThrown == CommandSpec => []ErrorsKeepTheirSource
  <1>1. CommandInit => ErrorInv
    BY NineSteps DEF CommandInit, ErrorInv, ErrorsKeepTheirSource
  <1>2. ErrorInv /\ [CommandNext]_<<option_vars, command_vars>> => ErrorInv'
    BY StepError
  <1>3. ErrorInv => ErrorsKeepTheirSource
    BY DEF ErrorInv
  <1> QED
    BY <1>1, <1>2, <1>3, PTL DEF CommandSpec

-----------------------------------------------------------------------------
(* The time of the five exclusive stages, a sum the library takes in an     *)
(* order it does not say: no subset of them, a smallest one included, can   *)
(* have another sum than the terms of its members.                          *)

\* The index a sum takes next.
Pick(s) == CHOOSE i \in s : TRUE

\* g sums f over every subset of s.
Sums(g, f, s) ==
    g = [r \in SUBSET s |-> IF r = {} THEN 0 ELSE f[Pick(r)] + g[r \ {Pick(r)}]]

Term(f, s, r) == IF s \in r THEN f[s] ELSE 0

Terms(f, r) ==
    Term(f, "ParseMap", r) + Term(f, "ParseCache", r) + Term(f, "ParseElf", r)
        + Term(f, "ResolveAndStream", r) + Term(f, "SerializeResult", r)

LEMMA TermsStep ==
    ASSUME NEW f, \A s \in Timed : f[s] \in Int, NEW r \in SUBSET Timed, r # {}
    PROVE  Terms(f, r) = f[Pick(r)] + Terms(f, r \ {Pick(r)})
  <1>1. Pick(r) \in r
    BY DEF Pick
  <1> DEFINE p == Pick(r)
  <1> HIDE DEF p
  <1>2. p \in r /\ p = Pick(r)
    BY <1>1 DEF p
  <1>3. \A s \in Timed : /\ f[s] \in Int /\ Term(f, s, r) \in Int
                         /\ Term(f, s, r \ {p}) = IF s = p THEN 0 ELSE Term(f, s, r)
                         /\ s = p => Term(f, s, r) = f[p]
    BY <1>2 DEF Term
  <1>4. p \in Timed
    BY <1>2
  <1> QED
    BY <1>2, <1>3, <1>4 DEF Timed, Terms

LEMMA SumOfStages ==
    ASSUME NEW f, \A s \in Timed : f[s] \in Int
    PROVE  SumFunctionOnSet(f, Timed) = f["ParseMap"] + f["ParseCache"] + f["ParseElf"]
                                            + f["ResolveAndStream"] + f["SerializeResult"]
  <1> DEFINE W == [r \in SUBSET Timed |-> Terms(f, r)]
             g == CHOOSE g : Sums(g, f, Timed)
             F == {q \in SUBSET Timed : g[q] # Terms(f, q)}
             R == StrictSubsetOrdering(Timed)
  <1>1. SumFunctionOnSet(f, Timed) = g[Timed]
    BY DEF SumFunctionOnSet, FoldFunctionOnSet, MapThenFoldSet, Sums, Pick
  <1>2. Terms(f, {}) = 0
    BY DEF Terms, Term
  <1>3. Sums(W, f, Timed)
    <2>1. \A r \in SUBSET Timed :
             Terms(f, r) = IF r = {} THEN 0 ELSE f[Pick(r)] + Terms(f, r \ {Pick(r)})
      BY <1>2, TermsStep
    <2>2. \A r \in SUBSET Timed : W[r \ {Pick(r)}] = Terms(f, r \ {Pick(r)})
      OBVIOUS
    <2> QED
      BY <2>1, <2>2 DEF Sums
  <1>4. Sums(g, f, Timed)
    BY <1>3
  <1>5. \A r \in SUBSET Timed : g[r] = IF r = {} THEN 0 ELSE f[Pick(r)] + g[r \ {Pick(r)}]
    BY <1>4 DEF Sums
  <1>6. F = {}
    <2> SUFFICES ASSUME F # {} PROVE FALSE
      OBVIOUS
    <2>1. IsFiniteSet(Timed)
      <3>1. Timed = ((({"ParseMap"} \cup {"ParseCache"}) \cup {"ParseElf"})
                         \cup {"ResolveAndStream"}) \cup {"SerializeResult"}
        BY DEF Timed
      <3> QED
        BY <3>1, FS_Singleton, FS_Union
    <2>2. FiniteSubsetsOf(Timed) = SUBSET Timed
      BY <2>1, FS_Subset DEF FiniteSubsetsOf
    <2>3. IsWellFoundedOn(R, SUBSET Timed)
      BY <2>2, FS_StrictSubsetOrderingWellFounded
    <2>4. F \subseteq SUBSET Timed
      OBVIOUS
    <2>5. PICK q \in F : \A t \in F : <<t, q>> \notin R
      <3> HIDE DEF F, R
      <3> QED
        BY <2>3, <2>4, WFMin
    <2>6. q # {}
      BY <1>2, <1>5
    <2>7. Pick(q) \in q
      BY <2>6 DEF Pick
    <2>8. q \ {Pick(q)} \notin F
      <3>1. <<q \ {Pick(q)}, q>> \in R
        BY <2>7 DEF StrictSubsetOrdering
      <3> QED
        BY <2>5, <3>1
    <2>9. g[q \ {Pick(q)}] = Terms(f, q \ {Pick(q)})
      BY <2>8
    <2> QED
      <3> HIDE DEF g
      <3> QED
        BY <2>5, <2>6, <2>9, <1>5, TermsStep
  <1>7. g[Timed] = Terms(f, Timed)
    BY <1>6
  <1> HIDE DEF g
  <1> QED
    BY <1>1, <1>7 DEF Terms, Term, Timed

-----------------------------------------------------------------------------
(* The measurements of a command.  Every stage behind the current one has   *)
(* been measured and none before it; unless the clock fell, what has been   *)
(* measured ends before what is under way starts, so that the stages fit    *)
(* one behind the other into the time since the start, and the callbacks    *)
(* one behind the other into the stream.                                    *)

Under == step \in 1 .. 9

MeasureType ==
    /\ clock \in Nat /\ backwards \in BOOLEAN /\ started_at \in Nat /\ callbacks \in Nat
    /\ started \in Nat \cup {Idle} /\ callback \in Nat \cup {Idle}
    /\ stage_times \in [Stages -> Nat \cup {Unmeasured}]

Fresh ==
    /\ stage_times = Nothing /\ clock = 0 /\ ~backwards
    /\ started = Idle /\ callback = Idle /\ callbacks = 0 /\ thrown = NoError

UnderWay ==
    /\ options_stage = "dispatched"
    /\ started # Idle => Steps[step] \in Timed
    /\ callback # Idle => started # Idle /\ step = 6
    /\ callbacks > 0 => step > 6 \/ (step = 6 /\ started # Idle)
    /\ step > 6 => callbacks >= 2

StagesBehind ==
    /\ \A i \in 1 .. 9 : Steps[i] \in Timed => (stage_times[Steps[i]] = Unmeasured <=> i >= step)
    /\ stage_times["HierarchyAnalysis"] = Unmeasured <=> callbacks = 0

Time(s) == IF stage_times[s] = Unmeasured THEN 0 ELSE stage_times[s]

Passed == Time("ParseMap") + Time("ParseCache") + Time("ParseElf")
              + Time("ResolveAndStream") + Time("SerializeResult")

\* When what is under way started, or would start now.
Since == IF started = Idle THEN clock ELSE started
StreamSince == IF callback = Idle THEN clock ELSE callback

TimeFits ==
    /\ started_at <= Since /\ Since <= clock
    /\ Passed <= Since - started_at
    /\ callback # Idle => started <= callback /\ callback <= clock
    /\ step = 6 /\ started # Idle => Time("HierarchyAnalysis") <= StreamSince - started
    /\ step > 6 => Time("HierarchyAnalysis") <= Time("ResolveAndStream")
    /\ thrown.from # "telemetry"

MeasureInv ==
    /\ step \in 0 .. 11 /\ MeasureType
    /\ step = 0 => Fresh
    /\ Under => UnderWay
    /\ Under /\ Collecting => StagesBehind
    /\ Under /\ Collecting /\ ~backwards => TimeFits

LEMMA StagesDiffer ==
    /\ \A i, j \in 1 .. 9 : Steps[i] = Steps[j] => i = j
    /\ \A i \in 1 .. 9 : Steps[i] # "HierarchyAnalysis"
    /\ Timed \subseteq Stages /\ "HierarchyAnalysis" \in Stages /\ "HierarchyAnalysis" \notin Timed
    /\ \A i \in 1 .. 9 : Steps[i] \in Timed <=> i \in {2, 3, 4, 6, 7}
  <1>1. \A i, j \in 1 .. 9 : Steps[i] = Steps[j] => i = j
    BY NineSteps
  <1>2. \A i \in 1 .. 9 : Steps[i] # "HierarchyAnalysis"
    BY NineSteps
  <1>3. \A i \in 1 .. 9 : Steps[i] \in Timed <=> i \in {2, 3, 4, 6, 7}
    BY NineSteps DEF Timed
  <1> QED
    BY <1>1, <1>2, <1>3 DEF Stages, Timed

LEMMA ClockRead ==
    ASSUME NEW t \in 0 .. ClockLimit, now_ns(t), clock \in Nat, backwards \in BOOLEAN
    PROVE  /\ t \in Nat /\ clock' \in Nat /\ backwards' \in BOOLEAN
           /\ Collecting => clock' = t /\ (~backwards' => ~backwards /\ clock <= t)
  <1>1. t \in Nat
    BY LimitAssumption
  <1>2. CASE Collecting
    <2>1. clock' = t /\ backwards' = (backwards \/ t < clock)
      BY <1>2 DEF now_ns
    <2>2. backwards' \in BOOLEAN
      BY <2>1
    <2>3. ~backwards' => ~backwards /\ ~(t < clock)
      BY <2>1
    <2> QED
      BY <1>1, <2>1, <2>2, <2>3
  <1>3. CASE ~Collecting
    BY <1>1, <1>3 DEF now_ns, clock_vars
  <1> QED
    BY <1>2, <1>3

LEMMA CollectingStays == ASSUME UNCHANGED options PROVE Collecting' <=> Collecting
  BY DEF Collecting

LEMMA TimesAreNat ==
    ASSUME MeasureType, NEW s \in Stages
    PROVE  Time(s) \in Nat
  BY DEF MeasureType, Time, Unmeasured

\* A step that measures nothing and starts nothing.
LEMMA Waits ==
    ASSUME MeasureInv, step # 0,
           UNCHANGED <<options, options_stage, step, clock, backwards, started_at, stage_times,
                       started, callback, callbacks>>,
           thrown' = thrown \/ thrown'.from # "telemetry"
    PROVE  MeasureInv'
  <1>1. Collecting' <=> Collecting
    BY CollectingStays
  <1>2. MeasureType'
    BY DEF MeasureInv, MeasureType
  <1>3. Under' => UnderWay'
    BY DEF MeasureInv, Under, UnderWay
  <1>4. Under' /\ Collecting' => StagesBehind'
    BY <1>1 DEF MeasureInv, Under, StagesBehind
  <1>5. Under' /\ Collecting' /\ ~backwards' => TimeFits'
    <2>1. TimeFits => TimeFits'
      BY DEF TimeFits, Since, StreamSince, Passed, Time
    <2> QED
      BY <1>1, <2>1 DEF MeasureInv, Under
  <1> QED
    BY <1>2, <1>3, <1>4, <1>5 DEF MeasureInv

LEMMA StartStageMeasures ==
    ASSUME MeasureInv, StartStage
    PROVE  MeasureInv'
  <1> USE DEF Idle
  <1>1. PICK t \in 0 .. ClockLimit : now_ns(t) /\ started' = t
    BY DEF StartStage
  <1>2. /\ Running /\ Steps[step] \in Timed /\ started = Idle
        /\ UNCHANGED <<options, options_stage, step, started_at, stage_times, callback,
                       callbacks, thrown>>
    BY DEF StartStage, option_vars
  <1>3. MeasureType /\ step \in 1 .. 9
    BY <1>2, NineSteps DEF MeasureInv, Running
  <1>4. /\ t \in Nat /\ clock' \in Nat /\ backwards' \in BOOLEAN
        /\ Collecting => clock' = t /\ (~backwards' => ~backwards /\ clock <= t)
    BY <1>1, <1>3, ClockRead DEF MeasureType
  <1>5. Collecting' <=> Collecting
    BY <1>2, CollectingStays
  <1>6. MeasureType'
    BY <1>1, <1>2, <1>3, <1>4 DEF MeasureType
  <1>7. UnderWay /\ UnderWay'
    BY <1>1, <1>2, <1>3 DEF MeasureInv, Under, UnderWay
  <1>8. Collecting' => StagesBehind'
    BY <1>2, <1>3, <1>5 DEF MeasureInv, Under, StagesBehind
  <1>9. ASSUME Collecting', ~backwards' PROVE TimeFits'
    <2>1. TimeFits /\ clock' = t /\ clock <= t
      BY <1>3, <1>4, <1>5, <1>9 DEF MeasureInv, Under
    <2>2. callback = Idle /\ Since = clock /\ Since' = t /\ StreamSince' = t
      BY <1>1, <1>2, <1>4, <1>7, <2>1 DEF UnderWay, Since, StreamSince
    <2>3. Passed' = Passed /\ Passed \in Nat
      <3>1. \A s \in Stages : Time(s) \in Nat /\ Time(s)' = Time(s)
        BY <1>2, <1>3, TimesAreNat DEF Time
      <3> QED
        BY <3>1 DEF Passed, Stages, Timed
    <2>4. step = 6 => Time("HierarchyAnalysis")' = 0
      <3>1. step = 6 => callbacks = 0
        BY <1>2, <1>3, <1>7 DEF UnderWay, MeasureType
      <3> QED
        BY <1>2, <1>3, <1>5, <1>9, <3>1 DEF MeasureInv, Under, StagesBehind, Time
    <2>5. step > 6 => Time("HierarchyAnalysis")' <= Time("ResolveAndStream")'
      BY <1>2, <2>1 DEF TimeFits, Time
    <2>6. started_at \in Nat /\ clock \in Nat
      BY <1>3 DEF MeasureType
    <2> QED
      BY <1>1, <1>2, <1>4, <2>1, <2>2, <2>3, <2>4, <2>5, <2>6 DEF TimeFits
  <1> QED
    BY <1>2, <1>3, <1>6, <1>7, <1>8, <1>9 DEF MeasureInv

\* A stage is measured once, so its interval is all its time.
LEMMA StageMeasured ==
    ASSUME MeasureType, NEW t \in Nat, NEW x \in Timed, stage_times[x] = Unmeasured,
           Collecting, started \in Nat, started <= t,
           stage_times' = Measured(x, started, t)
    PROVE  /\ stage_times' = [stage_times EXCEPT ![x] = t - started]
           /\ t - started \in Nat
           /\ Passed' = Passed + (t - started)
           /\ Time("HierarchyAnalysis")' = Time("HierarchyAnalysis")
           /\ x = "ResolveAndStream" => Time("ResolveAndStream")' = t - started
           /\ x # "ResolveAndStream" => Time("ResolveAndStream")' = Time("ResolveAndStream")
  <1> DEFINE d == t - started
  <1>1. d \in Nat /\ d # Unmeasured
    BY DEF Unmeasured
  <1>2. stage_times' = [stage_times EXCEPT ![x] = d]
    <2>1. stage_times' = [stage_times EXCEPT ![x] = 0 + (t - started)]
      BY DEF Measured
    <2>2. 0 + (t - started) = t - started
      OBVIOUS
    <2> QED
      BY <2>1, <2>2
  <1> HIDE DEF d
  <1>3. \A s \in Stages : Time(s)' = IF s = x THEN d ELSE Time(s)
    BY <1>1, <1>2 DEF Time, MeasureType
  <1>4. \A s \in Stages : Time(s) \in Nat
    BY TimesAreNat
  <1>5. x \in Stages /\ Time(x) = 0
    BY StagesDiffer DEF Time
  <1>6. Passed' = Passed + d
    BY <1>1, <1>3, <1>4, <1>5 DEF Passed, Stages, Timed
  <1>7. Time("HierarchyAnalysis")' = Time("HierarchyAnalysis")
    BY <1>3, StagesDiffer
  <1>8. /\ x = "ResolveAndStream" => Time("ResolveAndStream")' = d
        /\ x # "ResolveAndStream" => Time("ResolveAndStream")' = Time("ResolveAndStream")
    BY <1>3 DEF Stages, Timed
  <1> QED
    BY <1>1, <1>2, <1>6, <1>7, <1>8 DEF d

LEMMA FinishStageMeasures ==
    ASSUME MeasureInv, FinishStage
    PROVE  MeasureInv'
  <1> USE DEF Idle
  <1>1. PICK t \in 0 .. ClockLimit : /\ now_ns(t) /\ Forward(started, t)
                                     /\ stage_times' = Measured(Steps[step], started, t)
    BY DEF FinishStage
  <1>2. /\ Running /\ Steps[step] \in Timed /\ started # Idle /\ started' = Idle
        /\ Steps[step] = "ResolveAndStream" => StreamEnds
        /\ step' = step + 1
        /\ UNCHANGED <<options, options_stage, started_at, callback, callbacks, thrown>>
    BY DEF FinishStage, StageEnds, option_vars
  <1>3. MeasureType /\ step \in 1 .. 9
    BY <1>2, NineSteps DEF MeasureInv, Running
  <1>4. /\ t \in Nat /\ clock' \in Nat /\ backwards' \in BOOLEAN
        /\ Collecting => clock' = t /\ (~backwards' => ~backwards /\ clock <= t)
    BY <1>1, <1>3, ClockRead DEF MeasureType
  <1>5. Collecting' <=> Collecting
    BY <1>2, CollectingStays
  <1>6. step \in {2, 3, 4, 6, 7} /\ started \in Nat
    BY <1>2, <1>3, StagesDiffer DEF MeasureType
  <1>7. UnderWay
    BY <1>3 DEF MeasureInv, Under
  <1>8. callback = Idle /\ (step = 6 => callbacks >= 2)
    BY <1>2, <1>6, <1>7, NineSteps DEF UnderWay, StreamEnds
  <1>9. step' > 6 => callbacks' >= 2
    BY <1>2, <1>6, <1>7, <1>8 DEF UnderWay
  <1>10. callbacks > 0 => step' > 6
    BY <1>2, <1>6, <1>7 DEF UnderWay
  <1>11. UnderWay'
    BY <1>2, <1>7, <1>8, <1>9, <1>10 DEF UnderWay
  <1>12. ASSUME Collecting
         PROVE  /\ stage_times' = [stage_times EXCEPT ![Steps[step]] = t - started]
                /\ t - started \in Nat
                /\ Passed' = Passed + (t - started)
                /\ Time("HierarchyAnalysis")' = Time("HierarchyAnalysis")
                /\ step = 6 => Time("ResolveAndStream")' = t - started
                /\ step # 6 => Time("ResolveAndStream")' = Time("ResolveAndStream")
    <2>1. started <= t
      BY <1>1, <1>12 DEF Forward
    <2>2. stage_times[Steps[step]] = Unmeasured
      BY <1>2, <1>3, <1>12 DEF MeasureInv, Under, StagesBehind
    <2>3. step = 6 <=> Steps[step] = "ResolveAndStream"
      BY <1>3, StagesDiffer, NineSteps
    <2> QED
      BY <1>1, <1>2, <1>3, <1>4, <1>6, <1>12, <2>1, <2>2, <2>3, StageMeasured
  <1>13. MeasureType'
    <2>1. CASE Collecting
      BY <1>2, <1>3, <1>4, <1>12, <2>1 DEF MeasureType
    <2>2. CASE ~Collecting
      BY <1>1, <1>2, <1>3, <1>4, <2>2 DEF MeasureType, Measured
    <2> QED
      BY <2>1, <2>2
  <1>14. ASSUME Collecting' PROVE StagesBehind'
    <2>1. /\ StagesBehind /\ stage_times' = [stage_times EXCEPT ![Steps[step]] = t - started]
          /\ t - started \in Nat
      BY <1>3, <1>5, <1>12, <1>14 DEF MeasureInv, Under
    <2>2. stage_times \in [Stages -> Nat \cup {Unmeasured}]
      BY <1>3 DEF MeasureType
    <2>3. stage_times'["HierarchyAnalysis"] = stage_times["HierarchyAnalysis"]
      BY <1>3, <2>1, <2>2, StagesDiffer
    <2>4. ASSUME NEW i \in 1 .. 9, Steps[i] \in Timed
          PROVE  stage_times'[Steps[i]] = Unmeasured <=> i >= step'
      <3>1. CASE i = step
        BY <1>2, <1>3, <2>1, <2>2, <3>1, StagesDiffer DEF Unmeasured
      <3>2. CASE i # step
        <4>1. stage_times'[Steps[i]] = stage_times[Steps[i]]
          BY <1>3, <2>1, <2>2, <2>4, <3>2, StagesDiffer
        <4>2. stage_times[Steps[i]] = Unmeasured <=> i >= step
          BY <2>1, <2>4 DEF StagesBehind
        <4> QED
          BY <1>2, <1>3, <3>2, <4>1, <4>2
      <3> QED
        BY <3>1, <3>2
    <2> QED
      BY <1>2, <2>1, <2>3, <2>4 DEF StagesBehind
  <1>15. ASSUME Collecting', ~backwards' PROVE TimeFits'
    <2>1. TimeFits /\ clock' = t /\ clock <= t
      BY <1>3, <1>4, <1>5, <1>15 DEF MeasureInv, Under
    <2>2. Since = started /\ Since' = t /\ StreamSince = clock
      BY <1>2, <1>6, <1>8, <2>1 DEF Since, StreamSince
    <2>3. Passed \in Nat /\ Time("HierarchyAnalysis") \in Nat /\ Time("ResolveAndStream") \in Nat
      <3>1. \A s \in Stages : Time(s) \in Nat
        BY <1>3, TimesAreNat
      <3> QED
        BY <3>1 DEF Passed, Stages, Timed
    <2>4. started_at \in Nat /\ clock \in Nat
      BY <1>3 DEF MeasureType
    <2>5. /\ Passed' = Passed + (t - started)
          /\ Time("HierarchyAnalysis")' = Time("HierarchyAnalysis")
          /\ step = 6 => Time("ResolveAndStream")' = t - started
          /\ step # 6 => Time("ResolveAndStream")' = Time("ResolveAndStream")
      BY <1>5, <1>12, <1>15
    <2>6. /\ started_at <= started /\ started <= clock /\ Passed <= started - started_at
          /\ step = 6 => Time("HierarchyAnalysis") <= clock - started
          /\ step > 6 => Time("HierarchyAnalysis") <= Time("ResolveAndStream")
          /\ thrown.from # "telemetry"
      BY <1>2, <1>6, <2>1, <2>2 DEF TimeFits
    <2>7. started_at' <= Since' /\ Since' <= clock' /\ Passed' <= Since' - started_at'
      BY <1>2, <1>4, <1>6, <2>1, <2>2, <2>3, <2>4, <2>5, <2>6
    <2>8. step' > 6 => Time("HierarchyAnalysis")' <= Time("ResolveAndStream")'
      BY <1>2, <1>4, <1>6, <2>1, <2>3, <2>4, <2>5, <2>6
    <2> QED
      BY <1>2, <1>8, <2>6, <2>7, <2>8 DEF TimeFits
  <1> QED
    BY <1>2, <1>3, <1>11, <1>13, <1>14, <1>15 DEF MeasureInv

LEMMA StartCallbackMeasures ==
    ASSUME MeasureInv, StartCallback
    PROVE  MeasureInv'
  <1> USE DEF Idle
  <1>1. PICK t \in 0 .. ClockLimit : now_ns(t) /\ callback' = t
    BY DEF StartCallback
  <1>2. /\ Running /\ Steps[step] = "ResolveAndStream" /\ started # Idle /\ callback = Idle
        /\ UNCHANGED <<options, options_stage, step, started_at, stage_times, started,
                       callbacks, thrown>>
    BY DEF StartCallback, InStream, At, option_vars
  <1>3. MeasureType /\ step = 6
    BY <1>2, NineSteps DEF MeasureInv, Running
  <1>4. /\ t \in Nat /\ clock' \in Nat /\ backwards' \in BOOLEAN
        /\ Collecting => clock' = t /\ (~backwards' => ~backwards /\ clock <= t)
    BY <1>1, <1>3, ClockRead DEF MeasureType
  <1>5. Collecting' <=> Collecting
    BY <1>2, CollectingStays
  <1>6. MeasureType'
    BY <1>1, <1>2, <1>3, <1>4 DEF MeasureType
  <1>7. UnderWay /\ UnderWay'
    BY <1>1, <1>2, <1>3 DEF MeasureInv, Under, UnderWay
  <1>8. Collecting' => StagesBehind'
    BY <1>2, <1>3, <1>5 DEF MeasureInv, Under, StagesBehind
  <1>9. ASSUME Collecting', ~backwards' PROVE TimeFits'
    <2>1. TimeFits /\ clock' = t /\ clock <= t
      BY <1>3, <1>4, <1>5, <1>9 DEF MeasureInv, Under
    <2>2. Since = started /\ Since' = started /\ StreamSince = clock /\ StreamSince' = t
      BY <1>1, <1>2, <1>4, <2>1 DEF Since, StreamSince
    <2>3. \A s \in Stages : Time(s) \in Nat /\ Time(s)' = Time(s)
      BY <1>2, <1>3, TimesAreNat DEF Time
    <2>4. Passed' = Passed
      BY <2>3 DEF Passed, Stages, Timed
    <2>5. /\ Time("HierarchyAnalysis")' = Time("HierarchyAnalysis")
          /\ Time("HierarchyAnalysis") \in Nat
      BY <2>3, StagesDiffer
    <2>6. started_at \in Nat /\ clock \in Nat /\ started \in Nat
      BY <1>2, <1>3 DEF MeasureType
    <2> QED
      BY <1>1, <1>2, <1>3, <1>4, <2>1, <2>2, <2>4, <2>5, <2>6 DEF TimeFits
  <1> QED
    BY <1>2, <1>3, <1>6, <1>7, <1>8, <1>9 DEF MeasureInv

LEMMA FinishCallbackMeasures ==
    ASSUME MeasureInv, FinishCallback
    PROVE  MeasureInv'
  <1> USE DEF Idle
  <1> DEFINE H == "HierarchyAnalysis"
  <1>1. PICK t \in 0 .. ClockLimit : /\ now_ns(t) /\ Forward(callback, t)
                                     /\ stage_times' = Measured(H, callback, t)
    BY DEF FinishCallback, CallbackStart
  <1>2. /\ Running /\ Steps[step] = "ResolveAndStream" /\ started # Idle /\ callback # Idle
        /\ callback' = Idle /\ callbacks' = callbacks + 1
        /\ UNCHANGED <<options, options_stage, step, started_at, started, thrown>>
    BY DEF FinishCallback, InStream, At, option_vars
  <1>3. MeasureType /\ step = 6 /\ callback \in Nat /\ started \in Nat
    BY <1>2, NineSteps DEF MeasureInv, Running, MeasureType
  <1>4. /\ t \in Nat /\ clock' \in Nat /\ backwards' \in BOOLEAN
        /\ Collecting => clock' = t /\ (~backwards' => ~backwards /\ clock <= t)
    BY <1>1, <1>3, ClockRead DEF MeasureType
  <1>5. Collecting' <=> Collecting
    BY <1>2, CollectingStays
  <1>6. UnderWay /\ UnderWay'
    BY <1>2, <1>3 DEF MeasureInv, Under, UnderWay
  <1>7. \A s \in Stages : Time(s) \in Nat
    BY <1>3, TimesAreNat
  <1>8. ASSUME Collecting
        PROVE  /\ stage_times' = [stage_times EXCEPT ![H] = Time(H) + (t - callback)]
               /\ t - callback \in Nat
    BY <1>1, <1>3, <1>4, <1>8 DEF Forward, Measured, Time
  <1>9. MeasureType'
    <2>1. CASE Collecting
      <3>1. Time(H) + (t - callback) \in Nat
        BY <1>7, <1>8, <2>1, StagesDiffer
      <3> QED
        BY <1>2, <1>3, <1>4, <1>8, <2>1, <3>1 DEF MeasureType
    <2>2. CASE ~Collecting
      BY <1>1, <1>2, <1>3, <1>4, <2>2 DEF MeasureType, Measured
    <2> QED
      BY <2>1, <2>2
  <1>10. ASSUME Collecting PROVE \A s \in Stages \ {H} : stage_times'[s] = stage_times[s]
    BY <1>3, <1>8, <1>10 DEF MeasureType
  <1>11. ASSUME Collecting
         PROVE  stage_times'[H] # Unmeasured /\ Time(H)' = Time(H) + (t - callback)
    <2>1. Time(H) + (t - callback) \in Nat
      BY <1>7, <1>8, <1>11, StagesDiffer
    <2>2. stage_times'[H] = Time(H) + (t - callback)
      BY <1>3, <1>8, <1>11, StagesDiffer DEF MeasureType
    <2>3. stage_times'[H] # Unmeasured
      BY <2>1, <2>2 DEF Unmeasured
    <2>4. Time(H)' = stage_times'[H]
      BY <2>3 DEF Time
    <2> QED
      BY <2>2, <2>3, <2>4
  <1>12. ASSUME Collecting' PROVE StagesBehind'
    <2>1. StagesBehind
      BY <1>3, <1>5, <1>12 DEF MeasureInv, Under
    <2>2. callbacks' # 0
      BY <1>2, <1>3 DEF MeasureType
    <2>3. \A i \in 1 .. 9 : Steps[i] \in Timed => stage_times'[Steps[i]] = stage_times[Steps[i]]
      BY <1>5, <1>10, <1>12, StagesDiffer
    <2> QED
      BY <1>2, <1>5, <1>11, <1>12, <2>1, <2>2, <2>3 DEF StagesBehind
  <1>13. ASSUME Collecting', ~backwards' PROVE TimeFits'
    <2>1. TimeFits /\ clock' = t /\ clock <= t /\ Collecting
      BY <1>3, <1>4, <1>5, <1>13 DEF MeasureInv, Under
    <2>2. Since = started /\ Since' = started /\ StreamSince = callback /\ StreamSince' = t
      BY <1>2, <1>3, <1>4, <2>1 DEF Since, StreamSince
    <2>3. \A s \in Timed : Time(s)' = Time(s)
      BY <1>10, <2>1, StagesDiffer DEF Time
    <2>4. Passed' = Passed
      BY <2>3 DEF Passed, Timed
    <2>5. Time(H)' = Time(H) + (t - callback) /\ Time(H) \in Nat
      BY <1>7, <1>11, <2>1, StagesDiffer
    <2>6. started_at \in Nat /\ clock \in Nat
      BY <1>3 DEF MeasureType
    <2>7. Time(H) <= callback - started
      BY <1>2, <1>3, <2>1, <2>2 DEF TimeFits
    <2>8. Time(H)' <= t - started
      BY <1>3, <1>4, <2>5, <2>7
    <2> QED
      BY <1>2, <1>3, <1>4, <2>1, <2>2, <2>4, <2>6, <2>8 DEF TimeFits
  <1> QED
    BY <1>2, <1>3, <1>6, <1>9, <1>12, <1>13 DEF MeasureInv

\* A clock that does not fall refuses no interval.
LEMMA IntervalsRunForward ==
    ASSUME MeasureInv, RefuseInterval
    PROVE  MeasureInv'
  <1> USE DEF Idle
  <1>1. PICK t \in 0 .. ClockLimit :
           /\ now_ns(t)
           /\ \/ StageEnds /\ ~Forward(started, t)
              \/ InStream /\ callback # Idle /\ ~Forward(callback, t)
    BY DEF RefuseInterval, CallbackStart
  <1>2. /\ Running /\ started # Idle
        /\ UNCHANGED <<options, options_stage, step, started_at, stage_times, started, callback,
                       callbacks>>
    BY <1>1 DEF RefuseInterval, Raise, StageEnds, InStream, At, option_vars
  <1>3. MeasureType /\ step \in 1 .. 9 /\ started \in Nat
    BY <1>2, NineSteps DEF MeasureInv, Running, MeasureType
  <1>4. /\ t \in Nat /\ clock' \in Nat /\ backwards' \in BOOLEAN
        /\ Collecting => clock' = t /\ (~backwards' => ~backwards /\ clock <= t)
    BY <1>1, <1>3, ClockRead DEF MeasureType
  <1>5. Collecting' <=> Collecting
    BY <1>2, CollectingStays
  <1>6. MeasureType'
    BY <1>2, <1>3, <1>4 DEF MeasureType
  <1>7. UnderWay'
    BY <1>2, <1>3 DEF MeasureInv, Under, UnderWay
  <1>8. Collecting' => StagesBehind'
    BY <1>2, <1>3, <1>5 DEF MeasureInv, Under, StagesBehind
  <1>9. ASSUME Collecting, ~backwards' PROVE FALSE
    <2>1. TimeFits /\ clock <= t
      BY <1>3, <1>4, <1>9 DEF MeasureInv, Under
    <2>2. started_at \in Nat /\ clock \in Nat /\ callback \in Nat \cup {-1}
      BY <1>3 DEF MeasureType
    <2>3. started_at <= started /\ started <= t
      BY <1>2, <1>3, <1>4, <2>1, <2>2 DEF TimeFits, Since
    <2>4. callback # Idle => started_at <= callback /\ callback <= t
      BY <1>3, <1>4, <2>1, <2>2, <2>3 DEF TimeFits
    <2> QED
      BY <1>1, <2>3, <2>4 DEF Forward
  <1> QED
    BY <1>2, <1>3, <1>5, <1>6, <1>7, <1>8, <1>9 DEF MeasureInv

\* Where the stages are all behind, a clock that did not fall accepts them.
LEMMA MeasurementsAccepted ==
    ASSUME MeasureInv, step = 8, Collecting, ~backwards, NEW t \in Nat, clock <= t
    PROVE  started_at <= t /\ validate_analysis_telemetry(t - started_at)
  <1>1. MeasureType /\ UnderWay /\ StagesBehind /\ TimeFits
    BY DEF MeasureInv, Under
  <1>2. started = Idle /\ Since = clock
    BY <1>1, StagesDiffer DEF UnderWay, Since
  <1>3. callbacks # 0
    BY <1>1 DEF UnderWay, MeasureType
  <1>4. \A s \in Stages : stage_times[s] # Unmeasured
    <2>1. \A i \in {2, 3, 4, 6, 7} : stage_times[Steps[i]] # Unmeasured
      BY <1>1, StagesDiffer DEF StagesBehind
    <2>2. stage_times["HierarchyAnalysis"] # Unmeasured
      BY <1>1, <1>3 DEF StagesBehind
    <2> QED
      BY <2>1, <2>2, NineSteps DEF Stages, Timed
  <1>5. \A s \in Stages : stage_times[s] \in Nat /\ Time(s) = stage_times[s]
    BY <1>1, <1>4 DEF Time, MeasureType
  <1>6. ExclusiveTime = Passed
    <2>1. \A s \in Timed : stage_times[s] \in Int /\ Time(s) = stage_times[s]
      BY <1>5, StagesDiffer
    <2>2. SumFunctionOnSet(stage_times, Timed) =
              stage_times["ParseMap"] + stage_times["ParseCache"] + stage_times["ParseElf"]
                  + stage_times["ResolveAndStream"] + stage_times["SerializeResult"]
      BY <2>1, SumOfStages
    <2> QED
      BY <2>1, <2>2 DEF ExclusiveTime, Passed, Timed
  <1>7. Passed \in Nat
    BY <1>5 DEF Passed, Stages, Timed
  <1>8. started_at <= clock /\ Passed <= clock - started_at
    BY <1>1, <1>2 DEF TimeFits
  <1>9. stage_times["HierarchyAnalysis"] <= stage_times["ResolveAndStream"]
    BY <1>1, <1>5 DEF TimeFits, Stages, Timed
  <1>10. started_at \in Nat /\ clock \in Nat
    BY <1>1 DEF MeasureType
  <1>11. started_at <= t /\ Passed <= t - started_at
    BY <1>7, <1>8, <1>10
  <1> QED
    BY <1>4, <1>6, <1>9, <1>11 DEF validate_analysis_telemetry

LEMMA SnapshotMeasures ==
    ASSUME MeasureInv, TakeSnapshot \/ RefuseSnapshot
    PROVE  MeasureInv'
  <1> USE DEF Idle
  <1>1. PICK t \in 0 .. ClockLimit :
           /\ now_ns(t)
           /\ \/ TakeSnapshot
              \/ RefuseSnapshot /\ Collecting
                    /\ (t < started_at \/ ~validate_analysis_telemetry(t - started_at))
    BY DEF TakeSnapshot, RefuseSnapshot
  <1>2. /\ Running /\ Steps[step] = "snapshot"
        /\ step' \in {step, step + 1}
        /\ UNCHANGED <<options, options_stage, started_at, stage_times, started, callback,
                       callbacks>>
        /\ RefuseSnapshot => step' = step
        /\ TakeSnapshot => step' = step + 1 /\ thrown' = thrown
    BY DEF TakeSnapshot, RefuseSnapshot, Raise, At, option_vars
  <1>3. MeasureType /\ step = 8 /\ UnderWay
    BY <1>2, NineSteps DEF MeasureInv, Under, Running
  <1>4. /\ t \in Nat /\ clock' \in Nat /\ backwards' \in BOOLEAN
        /\ Collecting => clock' = t /\ (~backwards' => ~backwards /\ clock <= t)
    BY <1>1, <1>3, ClockRead DEF MeasureType
  <1>5. Collecting' <=> Collecting
    BY <1>2, CollectingStays
  <1>6. MeasureType'
    BY <1>2, <1>3, <1>4 DEF MeasureType
  <1>7. started = Idle /\ callback = Idle /\ callbacks >= 2
    BY <1>3, StagesDiffer DEF UnderWay
  <1>8. UnderWay'
    BY <1>2, <1>3, <1>7 DEF UnderWay
  <1>9. ASSUME Collecting' PROVE StagesBehind'
    <2>1. StagesBehind
      BY <1>3, <1>5, <1>9 DEF MeasureInv, Under
    <2>2. \A i \in 1 .. 9 : Steps[i] \in Timed => (i >= step' <=> i >= step)
      BY <1>2, <1>3, StagesDiffer
    <2> QED
      BY <1>2, <2>1, <2>2 DEF StagesBehind
  <1>10. ASSUME Collecting', ~backwards' PROVE TimeFits'
    <2>1. TimeFits /\ clock' = t /\ clock <= t /\ ~backwards /\ Collecting
      BY <1>3, <1>4, <1>5, <1>10 DEF MeasureInv, Under
    <2>2. TakeSnapshot
      BY <1>1, <1>3, <1>4, <2>1, MeasurementsAccepted DEF MeasureType
    <2>3. thrown' = thrown
      BY <1>2, <2>2
    <2>4. \A s \in Stages : Time(s) \in Nat /\ Time(s)' = Time(s)
      BY <1>2, <1>3, TimesAreNat DEF Time
    <2>5. Passed' = Passed /\ Passed \in Nat
      BY <2>4 DEF Passed, Stages, Timed
    <2>6. /\ Time("HierarchyAnalysis")' = Time("HierarchyAnalysis")
          /\ Time("ResolveAndStream")' = Time("ResolveAndStream")
      BY <2>4 DEF Stages, Timed
    <2>7. Since = clock /\ Since' = t
      BY <1>2, <1>7, <2>1 DEF Since
    <2>8. started_at \in Nat /\ clock \in Nat
      BY <1>3 DEF MeasureType
    <2> QED
      BY <1>2, <1>3, <1>4, <1>7, <2>1, <2>3, <2>5, <2>6, <2>7, <2>8 DEF TimeFits
  <1> QED
    BY <1>2, <1>3, <1>6, <1>8, <1>9, <1>10 DEF MeasureInv

LEMMA DispatchMeasures ==
    ASSUME MeasureInv, Dispatch
    PROVE  MeasureInv'
  <1> USE DEF Idle
  <1>1. /\ step = 0 /\ options_stage' = "dispatched"
        /\ UNCHANGED <<options, stage_times, started, callback, callbacks, thrown>>
    BY DEF Dispatch
  <1>2. MeasureType /\ Fresh
    BY <1>1 DEF MeasureInv
  <1>3. CASE ~Hierarchy
    <2>1. step' = 10 /\ UNCHANGED <<clock, backwards, started_at>>
      BY <1>3, NineSteps DEF Dispatch, clock_vars
    <2> QED
      BY <1>1, <1>2, <2>1 DEF MeasureInv, MeasureType, Under
  <1>4. CASE Hierarchy
    <2>1. PICK t \in 0 .. ClockLimit : now_ns(t) /\ started_at' = t
      BY <1>4 DEF Dispatch
    <2>2. step' = 1
      BY <1>4 DEF Dispatch
    <2>3. /\ t \in Nat /\ clock' \in Nat /\ backwards' \in BOOLEAN
          /\ Collecting => clock' = t /\ (~backwards' => ~backwards /\ clock <= t)
      BY <1>2, <2>1, ClockRead DEF MeasureType
    <2>4. Collecting' <=> Collecting
      BY <1>1, CollectingStays
    <2>5. MeasureType'
      BY <1>1, <1>2, <2>1, <2>3 DEF MeasureType
    <2>6. UnderWay'
      BY <1>1, <1>2, <2>2 DEF Fresh, UnderWay
    <2>7. StagesBehind'
      <3>1. \A s \in Stages : stage_times'[s] = Unmeasured
        BY <1>1, <1>2 DEF Fresh, Nothing
      <3> QED
        BY <1>1, <1>2, <2>2, <3>1, StagesDiffer DEF Fresh, StagesBehind
    <2>8. ASSUME Collecting' PROVE TimeFits'
      <3>1. \A s \in Stages : Time(s)' = 0
        BY <1>1, <1>2 DEF Fresh, Nothing, Time
      <3>2. Passed' = 0
        BY <3>1 DEF Passed, Stages, Timed
      <3>3. Since' = t /\ clock' = t
        BY <1>1, <1>2, <2>3, <2>4, <2>8 DEF Fresh, Since
      <3>4. thrown'.from # "telemetry"
        BY <1>1, <1>2 DEF Fresh, NoError
      <3> QED
        BY <1>1, <1>2, <2>1, <2>2, <2>3, <3>2, <3>3, <3>4 DEF Fresh, TimeFits
    <2> QED
      BY <2>2, <2>4, <2>5, <2>6, <2>7, <2>8 DEF MeasureInv
  <1> QED
    BY <1>3, <1>4

\* The steps that no stage belongs to, and the last one.
LEMMA UntimedMeasures ==
    ASSUME MeasureInv, DoUntimed \/ Publish
    PROVE  MeasureInv'
  <1> USE DEF Idle
  <1>1. /\ Running /\ Steps[step] \in {"hash", "select", "publish"} /\ step' = step + 1
        /\ UNCHANGED <<options, options_stage, clock, backwards, started_at, stage_times,
                       started, callback, callbacks, thrown>>
    BY DEF DoUntimed, Publish, At, option_vars, clock_vars
  <1>2. MeasureType /\ UnderWay /\ step \in {1, 5, 9}
    BY <1>1, NineSteps DEF MeasureInv, Under, Running
  <1>3. started = Idle /\ callback = Idle /\ callbacks \in Nat
    BY <1>2, StagesDiffer DEF UnderWay, MeasureType
  <1>4. Collecting' <=> Collecting
    BY <1>1, CollectingStays
  <1>5. MeasureType'
    BY <1>1, <1>2 DEF MeasureType
  <1>6. UnderWay'
    BY <1>1, <1>2, <1>3 DEF UnderWay
  <1>7. StagesBehind => StagesBehind'
    <2>1. \A i \in 1 .. 9 : Steps[i] \in Timed => (i >= step' <=> i >= step)
      BY <1>1, <1>2, StagesDiffer
    <2> QED
      BY <1>1, <2>1 DEF StagesBehind
  <1>8. TimeFits => TimeFits'
    BY <1>1, <1>2, <1>3 DEF TimeFits, Since, StreamSince, Passed, Time
  <1> QED
    BY <1>1, <1>2, <1>4, <1>5, <1>6, <1>7, <1>8 DEF MeasureInv, Under

LEMMA ReadingIsParsing ==
    ASSUME OptionsNext
    PROVE  options_stage = "parsing"
  <1>1. CASE EndOfLine
    BY <1>1 DEF EndOfLine
  <1>2. ASSUME NEW a \in Arguments, ReadAnalysis(a) \/ ReadPath(a) \/ ReadLimit(a)
                                    \/ ReadEventLimit(a) \/ ReadGranularity(a) \/ ReadMode(a)
                                    \/ Help(a) \/ RefuseArgument(a)
        PROVE  options_stage = "parsing"
    BY <1>2 DEF ReadAnalysis, ReadPath, ReadLimit, ReadEventLimit, ReadGranularity, ReadMode,
                Help, RefuseArgument, Reads
  <1> QED
    BY <1>1, <1>2 DEF OptionsNext, MayFollow

LEMMA StepMeasures ==
    ASSUME MeasureInv, [CommandNext]_<<option_vars, command_vars>>
    PROVE  MeasureInv'
  <1>1. ASSUME UNCHANGED command_vars, ~Under PROVE MeasureInv'
    BY <1>1 DEF command_vars, MeasureInv, MeasureType, Fresh, Under
  <1>2. CASE OptionsNext /\ UNCHANGED command_vars
    BY <1>1, <1>2, ReadingIsParsing DEF MeasureInv, UnderWay
  <1>3. CASE UNCHANGED <<option_vars, command_vars>>
    <2>1. CASE Under
      BY <1>3, <2>1, Waits DEF option_vars, command_vars, Under
    <2> QED
      BY <1>1, <1>3, <2>1
  <1>4. ASSUME NEW kind \in Kinds, Throw(kind) PROVE MeasureInv'
    <2>1. /\ step # 0 /\ thrown'.from = Thrower
          /\ UNCHANGED <<options, options_stage, step, clock, backwards, started_at, stage_times,
                         started, callback, callbacks>>
      BY <1>4, NineSteps DEF Throw, Raise, Running, option_vars, clock_vars
    <2>2. Thrower # "telemetry"
      BY DEF Thrower
    <2> QED
      BY <2>1, <2>2, Waits
  <1>5. CASE Unwind
    <2>1. /\ step' = 11 /\ stage_times' = Nothing /\ started_at' = 0 /\ clock' = 0
          /\ backwards' = FALSE /\ started' = Idle /\ callback' = Idle /\ callbacks' = 0
      BY <1>5, NineSteps DEF Unwind
    <2>2. MeasureType'
      BY <2>1 DEF MeasureType, Nothing
    <2> QED
      BY <2>1, <2>2 DEF MeasureInv, Under
  <1> QED
    BY <1>2, <1>3, <1>4, <1>5, DispatchMeasures, UntimedMeasures, StartStageMeasures,
       FinishStageMeasures, StartCallbackMeasures, FinishCallbackMeasures,
       IntervalsRunForward, SnapshotMeasures DEF CommandNext

\* The parts of the invariant say what the property says.
LEMMA MeasuresFit ==
    ASSUME MeasureInv
    PROVE  TelemetryAccepted
  <1> USE DEF Idle
  <1> SUFFICES ASSUME Collecting, step \in DOMAIN Steps, ~backwards
               PROVE  TelemetryAccepted
    BY DEF TelemetryAccepted
  <1>1. step \in 1 .. 9 /\ MeasureType /\ UnderWay /\ StagesBehind /\ TimeFits
    BY NineSteps DEF MeasureInv, Under
  <1> DEFINE time == [s \in Stages |-> IF stage_times[s] = Unmeasured THEN 0 ELSE stage_times[s]]
             passed == SumFunctionOnSet(time, Timed)
             open == IF started = Idle THEN 0 ELSE clock - started
  <1>2. \A s \in Stages : time[s] = Time(s) /\ Time(s) \in Nat
    BY <1>1, TimesAreNat DEF Time
  <1>3. passed = Passed
    <2>1. \A s \in Timed : time[s] = Time(s) /\ time[s] \in Int
      BY <1>2, StagesDiffer
    <2> HIDE DEF time
    <2>2. passed = time["ParseMap"] + time["ParseCache"] + time["ParseElf"]
                       + time["ResolveAndStream"] + time["SerializeResult"]
      BY <2>1, SumOfStages
    <2> HIDE DEF passed
    <2> QED
      BY <2>1, <2>2 DEF Passed, Timed
  <1>4. time["HierarchyAnalysis"] = Time("HierarchyAnalysis") /\ Time("HierarchyAnalysis") \in Nat
    BY <1>2, StagesDiffer
  <1>5. started_at \in Nat /\ clock \in Nat /\ Passed \in Nat
    BY <1>1, <1>2 DEF MeasureType, Passed, Stages, Timed
  <1> HIDE DEF time, passed
  <1>6. passed + open <= clock - started_at
    <2>1. CASE started = Idle
      BY <1>1, <1>3, <1>5, <2>1 DEF TimeFits, Since
    <2>2. CASE started # Idle
      <3>1. started \in Nat
        BY <1>1, <2>2 DEF MeasureType
      <3>2. Passed <= started - started_at
        BY <1>1, <2>2 DEF TimeFits, Since
      <3> QED
        BY <1>3, <1>5, <2>2, <3>1, <3>2
    <2> QED
      BY <2>1, <2>2
  <1>7. Steps[step] = "ResolveAndStream" => time["HierarchyAnalysis"] <= open
    <2> SUFFICES ASSUME Steps[step] = "ResolveAndStream"
                 PROVE  time["HierarchyAnalysis"] <= open
      OBVIOUS
    <2>1. step = 6
      BY <1>1, NineSteps, StagesDiffer
    <2>2. CASE started = Idle
      <3>1. callbacks = 0
        BY <1>1, <2>1, <2>2 DEF UnderWay, MeasureType
      <3>2. Time("HierarchyAnalysis") = 0
        BY <1>1, <3>1 DEF StagesBehind, Time
      <3> QED
        BY <1>4, <2>2, <3>2
    <2>3. CASE started # Idle
      <3>1. started \in Nat /\ Time("HierarchyAnalysis") <= StreamSince - started
        BY <1>1, <2>1, <2>3 DEF MeasureType, TimeFits
      <3>2. StreamSince \in Nat /\ StreamSince <= clock
        BY <1>1, <1>5 DEF MeasureType, TimeFits, StreamSince
      <3> QED
        BY <1>4, <1>5, <2>3, <3>1, <3>2
    <2> QED
      BY <2>2, <2>3
  <1>8. step >= 8 => \A s \in Stages : stage_times[s] # Unmeasured
    <2> SUFFICES ASSUME step >= 8 PROVE \A s \in Stages : stage_times[s] # Unmeasured
      OBVIOUS
    <2>1. \A i \in {2, 3, 4, 6, 7} : stage_times[Steps[i]] # Unmeasured
      BY <1>1, StagesDiffer DEF StagesBehind
    <2>2. stage_times["HierarchyAnalysis"] # Unmeasured
      BY <1>1 DEF StagesBehind, UnderWay, MeasureType
    <2> QED
      BY <2>1, <2>2, NineSteps DEF Stages, Timed
  <1>9. thrown.from # "telemetry"
    BY <1>1 DEF TimeFits
  <1> HIDE DEF open
  <1> QED
    BY <1>6, <1>7, <1>8, <1>9 DEF TelemetryAccepted, time, passed, open

(* Unless the clock goes backwards, the measurements of an analysis are     *)
(* never refused: every stage is measured once, the stages lie apart and    *)
(* inside the whole, and the callbacks, however many, inside the stream.    *)
THEOREM TelemetryIsAccepted == CommandSpec => []TelemetryAccepted
  <1>1. CommandInit => MeasureInv
    <2> SUFFICES ASSUME CommandInit PROVE MeasureInv
      OBVIOUS
    <2>1. MeasureType
      BY DEF CommandInit, MeasureType, Nothing
    <2>2. Fresh
      BY DEF CommandInit, Fresh
    <2> QED
      BY <2>1, <2>2 DEF CommandInit, MeasureInv, Under
  <1>2. MeasureInv /\ [CommandNext]_<<option_vars, command_vars>> => MeasureInv'
    BY StepMeasures
  <1>3. MeasureInv => TelemetryAccepted
    BY MeasuresFit
  <1> QED
    BY <1>1, <1>2, <1>3, PTL DEF CommandSpec
================================================================================
