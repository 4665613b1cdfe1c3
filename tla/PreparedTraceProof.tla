-------------------------- MODULE PreparedTraceProof --------------------------
(***************************************************************************)
(* The walk of a task's loops, for every program that is a tree, every     *)
(* word size and all limits: the stack of running loops is a path of the   *)
(* tree (StackInv), slots and bound names follow that path (BindingInv),   *)
(* and what a loop was charged is what its body has run and has still to   *)
(* run (WorkInv).                                                          *)
(***************************************************************************)
EXTENDS PreparedTrace, FiniteSetTheorems, SequenceTheorems, WellFoundedInduction, TLAPS

\* What is proved of sums over finite sets does not depend on these.
Streaming == INSTANCE StreamingHierarchyProof WITH
    Blocks <- {}, MaxSpan <- 1, L1 <- [sets |-> 1, ways |-> 1], LLC <- [sets |-> 1, ways |-> 1],
    RootCounts <- {}, SourceLimits <- {}, LineLimits <- {}, EventLimits <- {}, options <- 0,
    roots <- 0, stage <- 0, failure <- 0, budget <- 0, unroller <- 0, active <- 0,
    pending <- 0, delivery <- 0, collected <- 0, completed <- 0, coverage <- 0

-----------------------------------------------------------------------------
(* The inductive invariant.                                                 *)

Nodes == DOMAIN program.nodes
Loops == {n \in Nodes : IsLoop(n)}

Frame ==
    [node : Loops, value : Word, count : Nat, iteration : Nat, child : Nat \ {0}]

NodeOf(i) == frames[i].node
VarOf(i) == program.nodes[NodeOf(i)].var

\* The stack is a path from the root being walked: each loop but the innermost
\* stands in the loop before it, where that has got to, and none twice.
StackInv ==
    /\ frames \in Seq(Frame)
    /\ \A i \in DOMAIN frames :
          /\ frames[i].iteration < frames[i].count
          /\ frames[i].child <= Len(Body(NodeOf(i))) + 1
          /\ i = 1 => NodeOf(i) = program.roots[root]
          /\ i > 1 => /\ frames[i - 1].child \in DOMAIN Body(NodeOf(i - 1))
                      /\ NodeOf(i) = Body(NodeOf(i - 1))[frames[i - 1].child]
    /\ \A i, j \in DOMAIN frames : NodeOf(i) = NodeOf(j) => i = j

\* The last iteration's value is a word as well.
ValuesInv ==
    \A i \in DOMAIN frames :
        frames[i].value
          + (frames[i].count - 1 - frames[i].iteration) * program.nodes[NodeOf(i)].step
              \in Word

InputsInv ==
    /\ IsTree(program.nodes, program.roots)
    /\ limits.single \in Nat /\ limits.cumulative \in Nat

StageInv ==
    /\ stage \in {"walking", "done", "failed"}
    /\ failure # "overflow"
    /\ stage = "walking" => root \in DOMAIN program.roots
    /\ stage = "done" => frames = <<>>

\* Where a loop's children find its slot: behind what it sees itself.
Within(m) ==
    [v \in DOMAIN prepared[m].scope \cup {program.nodes[m].var} |->
        IF v = program.nodes[m].var THEN prepared[m].slot ELSE prepared[m].scope[v]]

\* What the node of frame i sees are the loops outside of it.
SeesOuter(i) ==
    /\ DOMAIN prepared[NodeOf(i)].scope = {VarOf(j) : j \in 1 .. i - 1}
    /\ \A j \in 1 .. i - 1 :
          (\A k \in j + 1 .. i - 1 : VarOf(k) # VarOf(j)) =>
              prepared[NodeOf(i)].scope[VarOf(j)] = prepared[NodeOf(j)].slot

\* Loops have slots of their own, and their children are bound within them.
TableInv ==
    /\ values \in Seq(Word)
    /\ DOMAIN prepared \subseteq Nodes
    /\ \A n \in DOMAIN prepared \cap Loops :
          /\ prepared[n].slot \in DOMAIN values
          /\ \A m \in DOMAIN prepared \cap Loops :
                prepared[m].slot = prepared[n].slot => m = n
          /\ \A c \in DOMAIN Body(n) :
                Body(n)[c] \in DOMAIN prepared => prepared[Body(n)[c]].scope = Within(n)
    /\ \A m \in Loops : \A c \in DOMAIN Body(m) :
          Body(m)[c] \in DOMAIN prepared => m \in DOMAIN prepared

FrameBound(i) ==
    /\ NodeOf(i) \in DOMAIN prepared
    /\ values[prepared[NodeOf(i)].slot] = frames[i].value
    /\ SeesOuter(i)

BindingInv ==
    /\ TableInv
    /\ frames = <<>> /\ stage = "walking" => DOMAIN prepared = {}
    /\ \A i \in DOMAIN frames : FrameBound(i)

\* How often the child at c of the loop of frame i has still to be reached.
Left(i, c) ==
    frames[i].count - frames[i].iteration
      - (IF c < frames[i].child \/ (c = frames[i].child /\ i < Len(frames)) THEN 1 ELSE 0)

Reached(n) == Cardinality(Entries(n))

\* The budget holds the sum of what loops were charged, within both limits.
LogInv ==
    /\ log \in Seq(Range(log))
    /\ \A i \in DOMAIN log :
          IsLoop(log[i].node) => log[i].count \in Nat /\ log[i].count <= limits.single
    /\ loop_iterations \in Nat /\ loop_iterations <= limits.cumulative
    /\ loop_iterations = SumFunction([n \in Loops |-> Reserved(n)])

\* Of what loop m was charged, the child at c has been reached as often as it
\* should have been by now.
Balanced(m, c) ==
    /\ \A i \in DOMAIN frames :
          NodeOf(i) = m => Reached(Body(m)[c]) + Left(i, c) = Reserved(m)
    /\ (\A i \in DOMAIN frames : NodeOf(i) # m) => Reached(Body(m)[c]) = Reserved(m)

WorkInv == LogInv /\ \A m \in Loops : \A c \in DOMAIN Body(m) : Balanced(m, c)

WalkInv == InputsInv /\ StageInv /\ StackInv /\ ValuesInv /\ BindingInv /\ WorkInv

-----------------------------------------------------------------------------
(* Words and trip counts.                                                   *)

\* A set of k elements has 2^k subsets, its singletons among them.
LEMMA PowerIsPositive ==
    ASSUME NEW k \in Nat
    PROVE  2 ^ k \in Nat \ {0}
  <1>1. IsFiniteSet(1 .. k) /\ Cardinality(1 .. k) = k
    BY FS_Interval
  <1>2. IsFiniteSet(SUBSET (1 .. k)) /\ Cardinality(SUBSET (1 .. k)) = 2 ^ k
    BY <1>1, FS_SUBSET
  <1>3. {} \in SUBSET (1 .. k)
    OBVIOUS
  <1> DEFINE S == SUBSET (1 .. k)
  <1> HIDE DEF S
  <1>4. Cardinality(S) \in Nat /\ Cardinality(S) # 0
    BY <1>2, <1>3, FS_CardinalityType, FS_EmptySet DEF S
  <1> QED
    BY <1>2, <1>4 DEF S

LEMMA HalfFacts == Half \in Nat \ {0}
  <1>1. Bits - 1 \in Nat
    BY TraceAssumption DEF TraceAssumption
  <1> QED
    BY <1>1, PowerIsPositive DEF Half

LEMMA WordBounds == \A x : x \in Word <=> x \in Int /\ -Half <= x /\ x < Half
  BY HalfFacts DEF Word

(* What fits a word is what it is without a sign.                           *)
LEMMA RemainderOfSmall ==
    ASSUME NEW m \in Nat \ {0}, NEW x \in Int, 0 <= x, x < m
    PROVE  x % m = x
  BY Z3

LEMMA UnsignedOfSmall ==
    ASSUME NEW x \in Int, 0 <= x, x < 2 * Half
    PROVE  Unsigned(x) = x
  <1>1. 2 * Half \in Nat \ {0}
    BY HalfFacts
  <1> DEFINE m == 2 * Half
  <1> HIDE DEF m
  <1>2. x % m = x
    BY <1>1, RemainderOfSmall DEF m
  <1> QED
    BY <1>2 DEF m, Unsigned

LEMMA DistanceIsExact ==
    ASSUME NEW lower \in Word, NEW upper \in Word, lower < upper
    PROVE  positive_distance(lower, upper) = upper - lower
  <1>1. /\ Half \in Nat \ {0} /\ lower \in Int /\ upper \in Int
        /\ -Half <= lower /\ upper < Half
    BY HalfFacts, WordBounds
  <1>2. CASE lower < 0 /\ upper >= 0
    <2>1. Unsigned(-(lower + 1)) = -(lower + 1)
      BY <1>1, <1>2, UnsignedOfSmall
    <2>2. Unsigned(-(lower + 1) + 1) = -lower
      <3>1. -(lower + 1) + 1 = -lower
        BY <1>1
      <3>2. Unsigned(-lower) = -lower
        BY <1>1, <1>2, UnsignedOfSmall
      <3> QED
        BY <3>1, <3>2
    <2>3. Unsigned(upper) = upper
      BY <1>1, <1>2, UnsignedOfSmall
    <2>4. Unsigned(-lower + upper) = upper - lower
      <3>1. -lower + upper = upper - lower
        BY <1>1
      <3>2. Unsigned(upper - lower) = upper - lower
        BY <1>1, <1>2, UnsignedOfSmall
      <3> QED
        BY <3>1, <3>2
    <2> QED
      BY <1>2, <2>1, <2>2, <2>3, <2>4 DEF positive_distance
  <1>3. CASE ~(lower < 0 /\ upper >= 0)
    <2>1. Unsigned(upper - lower) = upper - lower
      BY <1>1, <1>3, UnsignedOfSmall
    <2> QED
      BY <1>3, <2>1 DEF positive_distance
  <1> QED
    BY <1>2, <1>3

(* The last of as many steps as are counted is on the near side.            *)
LEMMA CeilingIsLeast ==
    ASSUME NEW d \in Nat \ {0}, NEW s \in Nat \ {0}
    PROVE  ceil_divide(d, s) \in Nat \ {0} /\ (ceil_divide(d, s) - 1) * s < d
  <1> DEFINE q == d \div s  r == d % s
  <1>1. q \in Nat /\ r \in 0 .. s - 1 /\ d = s * q + r
    BY Z3
  <1>2. ceil_divide(d, s) = q + (IF r # 0 THEN 1 ELSE 0)
    BY DEF ceil_divide
  <1> HIDE DEF q, r
  <1>3. CASE r # 0
    <2>1. ceil_divide(d, s) = q + 1
      BY <1>1, <1>2, <1>3
    <2>2. ((q + 1) - 1) * s < d
      BY <1>1, <1>3, Z3
    <2> QED
      BY <1>1, <2>1, <2>2
  <1>4. CASE r = 0
    <2>1. ceil_divide(d, s) = q
      BY <1>1, <1>2, <1>4
    <2>2. q # 0
      BY <1>1, <1>4, Z3
    <2>3. (q - 1) * s < d
      BY <1>1, <1>4, Z3
    <2> QED
      BY <1>1, <2>1, <2>2, <2>3
  <1> QED
    BY <1>3, <1>4

LEMMA LastValueFits ==
    ASSUME NEW start \in Word, NEW bound \in Word, NEW step \in Word,
           NEW count, count = loop_iteration_count(start, bound, step)
    PROVE  /\ count \in Nat
           /\ count # 0 => start + (count - 1) * step \in Word
  <1>1. /\ Half \in Nat \ {0} /\ start \in Int /\ bound \in Int /\ step \in Int
        /\ -Half <= start /\ start < Half /\ -Half <= bound /\ bound < Half
        /\ -Half <= step /\ step < Half
    BY HalfFacts, WordBounds
  <1>2. CASE step > 0 /\ start < bound
    <2>1. Unsigned(step) = step
      BY <1>1, <1>2, UnsignedOfSmall
    <2>2. positive_distance(start, bound) = bound - start
      BY <1>2, DistanceIsExact
    <2>3. count = ceil_divide(bound - start, step)
      BY <1>2, <2>1, <2>2 DEF loop_iteration_count
    <2>4. count \in Nat \ {0} /\ (count - 1) * step < bound - start
      BY <1>1, <1>2, <2>3, CeilingIsLeast
    <2>5. 0 <= (count - 1) * step /\ (count - 1) * step \in Int
      BY <1>1, <1>2, <2>4, Z3
    <2> DEFINE p == (count - 1) * step
    <2> HIDE DEF p
    <2>6. start + p \in Word
      BY <1>1, <2>4, <2>5, WordBounds DEF p
    <2> QED
      BY <2>4, <2>6 DEF p
  <1>3. CASE step < 0 /\ start > bound
    <2>1. step_magnitude(step) = -step
      <3>1. Unsigned(-(step + 1)) = -(step + 1)
        BY <1>1, <1>3, UnsignedOfSmall
      <3>2. -(step + 1) + 1 = -step
        BY <1>1
      <3>3. Unsigned(-step) = -step
        BY <1>1, <1>3, UnsignedOfSmall
      <3> QED
        BY <3>1, <3>2, <3>3 DEF step_magnitude
    <2>2. positive_distance(bound, start) = start - bound
      BY <1>3, DistanceIsExact
    <2>3. count = ceil_divide(start - bound, -step)
      BY <1>1, <1>3, <2>1, <2>2 DEF loop_iteration_count
    <2>4. count \in Nat \ {0} /\ (count - 1) * (-step) < start - bound
      BY <1>1, <1>3, <2>3, CeilingIsLeast
    <2>5. 0 <= (count - 1) * (-step) /\ (count - 1) * step \in Int
          /\ (count - 1) * step = -((count - 1) * (-step))
      BY <1>1, <1>3, <2>4, Z3
    <2> DEFINE p == (count - 1) * step  q == (count - 1) * (-step)
    <2> HIDE DEF p, q
    <2>6. start + p \in Word
      <3>1. p \in Int /\ q = -p /\ 0 <= q /\ q < start - bound
        <4>1. (count - 1) * (-step) \in Int
          BY <1>1, <2>4
        <4> QED
          BY <2>4, <2>5, <4>1 DEF p, q
      <3> QED
        BY <1>1, <3>1, WordBounds
    <2> QED
      BY <2>4, <2>6 DEF p
  <1>4. CASE ~(step > 0 /\ start < bound) /\ ~(step < 0 /\ start > bound)
    BY <1>4 DEF loop_iteration_count
  <1> QED
    BY <1>2, <1>3, <1>4

(* Between a word and a later word of the same loop are words only.         *)
LEMMA NextValueFits ==
    ASSUME NEW value \in Word, NEW step \in Int, NEW k \in Nat \ {0},
           value + k * step \in Word
    PROVE  value + step \in Word /\ (value + step) + (k - 1) * step \in Word
  <1>1. /\ Half \in Nat \ {0} /\ value \in Int /\ value + k * step \in Int
        /\ -Half <= value /\ value < Half
        /\ -Half <= value + k * step /\ value + k * step < Half
    BY HalfFacts, WordBounds
  <1>2. (value + step) + (k - 1) * step = value + k * step
    BY <1>1, Z3
  <1>3. IF step >= 0 THEN step <= k * step ELSE k * step <= step
    BY Z3
  <1> DEFINE p == k * step
  <1>4. p \in Int
    OBVIOUS
  <1> HIDE DEF p
  <1>5. value + step \in Word
    BY <1>1, <1>3, <1>4, WordBounds DEF p
  <1> QED
    BY <1>2, <1>5

-----------------------------------------------------------------------------
(* The tree and the path of running loops in it.                            *)

LEMMA TreeFacts ==
    ASSUME InputsInv
    PROVE  /\ IsFiniteSet(Nodes) /\ IsFiniteSet(Loops)
           /\ program.roots \in Seq(Nodes)
           /\ \A i, j \in DOMAIN program.roots : program.roots[i] = program.roots[j] => i = j
           /\ \A m \in Loops :
                 /\ m \in Nodes /\ IsLoop(m)
                 /\ Body(m) \in Seq(Nodes) /\ program.nodes[m].step \in Word
           /\ \A m \in Loops : \A c \in DOMAIN Body(m) :
                 /\ Body(m)[c] \in Nodes
                 /\ \A i \in DOMAIN program.roots : Body(m)[c] # program.roots[i]
                 /\ \A n \in Loops : \A d \in DOMAIN Body(n) :
                       Body(m)[c] = Body(n)[d] => m = n /\ c = d
  <1>1. IsTree(program.nodes, program.roots)
    BY DEF InputsInv
  <1>2. IsFiniteSet(Nodes) /\ Loops \subseteq Nodes
    BY <1>1 DEF IsTree, Nodes, Loops
  <1>3. IsFiniteSet(Loops)
    BY <1>2, FS_Subset
  <1>4. \A m \in Loops :
           /\ m \in Nodes /\ IsLoop(m)
           /\ Body(m) \in Seq(Nodes) /\ program.nodes[m].step \in Word
    BY <1>1 DEF IsTree, Nodes, Loops, IsLoop, Body
  <1>5. \A m \in Loops : \A c \in DOMAIN Body(m) : Body(m)[c] \in Nodes
    BY <1>4
  <1>6. \A m \in Loops : \A c \in DOMAIN Body(m) :
           /\ \A i \in DOMAIN program.roots : Body(m)[c] # program.roots[i]
           /\ \A n \in Loops : \A d \in DOMAIN Body(n) :
                 Body(m)[c] = Body(n)[d] => m = n /\ c = d
    BY <1>1 DEF IsTree, Nodes, Loops, IsLoop, Body
  <1>7. /\ program.roots \in Seq(Nodes)
        /\ \A i, j \in DOMAIN program.roots : program.roots[i] = program.roots[j] => i = j
    BY <1>1 DEF IsTree, Nodes
  <1> QED
    BY <1>2, <1>3, <1>4, <1>5, <1>6, <1>7

LEMMA FrameFacts ==
    ASSUME StackInv
    PROVE  /\ Len(frames) \in Nat /\ DOMAIN frames = 1 .. Len(frames)
           /\ frames # <<>> <=> Len(frames) # 0
           /\ frames # <<>> => Len(frames) \in DOMAIN frames
           /\ \A i \in DOMAIN frames :
                 /\ frames[i] \in Frame /\ NodeOf(i) \in Loops
                 /\ frames[i].value \in Word /\ frames[i].count \in Nat
                 /\ frames[i].iteration \in Nat /\ frames[i].child \in Nat \ {0}
  <1>1. frames \in Seq(Frame)
    BY DEF StackInv
  <1>2. /\ Len(frames) \in Nat /\ DOMAIN frames = 1 .. Len(frames)
        /\ frames # <<>> <=> Len(frames) # 0
    BY <1>1
  <1>3. \A i \in DOMAIN frames : frames[i] \in Frame
    BY <1>1
  <1>4. \A f \in Frame : /\ f.node \in Loops /\ f.value \in Word /\ f.count \in Nat
                         /\ f.iteration \in Nat /\ f.child \in Nat \ {0}
    BY DEF Frame
  <1> QED
    BY <1>2, <1>3, <1>4 DEF NodeOf

(* The node the walk stands before is not running, and only the innermost   *)
(* loop has it in its body.                                                 *)
LEMMA CurrentFacts ==
    ASSUME Ready, InputsInv, StageInv, StackInv
    PROVE  /\ Current \in Nodes
           /\ frames # <<>> =>
                 /\ Top.node \in Loops /\ Top.node = NodeOf(Len(frames))
                 /\ Top.child \in DOMAIN Body(Top.node)
                 /\ Current = Body(Top.node)[Top.child]
           /\ frames = <<>> => root \in DOMAIN program.roots /\ Current = program.roots[root]
           /\ \A i \in DOMAIN frames : NodeOf(i) # Current
           /\ \A m \in Loops : \A c \in DOMAIN Body(m) :
                 Body(m)[c] = Current => frames # <<>> /\ m = Top.node /\ c = Top.child
  <1>1. CASE frames = <<>>
    <2>1. root \in DOMAIN program.roots /\ Current = program.roots[root]
      BY <1>1 DEF Ready, StageInv, Current
    <2>2. Current \in Nodes
      BY <2>1, TreeFacts
    <2>3. \A m \in Loops : \A c \in DOMAIN Body(m) : Body(m)[c] # Current
      BY <2>1, TreeFacts
    <2>4. DOMAIN frames = {}
      BY <1>1
    <2> QED
      BY <1>1, <2>1, <2>2, <2>3, <2>4
  <1>2. CASE frames # <<>>
    <2> DEFINE L == Len(frames)
    <2>1. /\ L \in DOMAIN frames /\ L \in Nat \ {0} /\ DOMAIN frames = 1 .. L
          /\ Top = frames[L] /\ NodeOf(L) = Top.node
          /\ Top.node \in Loops /\ Top.child \in Nat \ {0}
      BY <1>2, FrameFacts DEF Top, NodeOf
    <2>2. Body(Top.node) \in Seq(Nodes)
      BY <2>1, TreeFacts
    <2>3. Top.child \in DOMAIN Body(Top.node)
      <3>1. ~(Top.child > Len(Body(Top.node)))
        BY <1>2 DEF Ready, BodyEnds
      <3> QED
        BY <2>1, <2>2, <3>1
    <2>4. Current = Body(Top.node)[Top.child]
      BY <1>2 DEF Current
    <2>5. Current \in Nodes
      BY <2>1, <2>3, <2>4, TreeFacts
    <2>6. \A m \in Loops : \A c \in DOMAIN Body(m) :
             Body(m)[c] = Current => m = Top.node /\ c = Top.child
      BY <2>1, <2>3, <2>4, TreeFacts
    <2> HIDE DEF L
    <2>7. ASSUME NEW i \in DOMAIN frames, NodeOf(i) = Current
          PROVE  FALSE
      <3>1. CASE i = 1
        <4>1. Current = program.roots[root] /\ root \in DOMAIN program.roots
          BY <2>7, <3>1 DEF StackInv, Ready, StageInv
        <4>2. \A m \in Loops : \A c \in DOMAIN Body(m) : Body(m)[c] # program.roots[root]
          BY <4>1, TreeFacts
        <4> QED
          BY <4>1, <4>2, <2>1, <2>3, <2>4
      <3>2. CASE i # 1
        <4>1. i \in Nat /\ i > 1 /\ i - 1 \in DOMAIN frames /\ i - 1 # L
          BY <2>1, <3>2
        <4>2. /\ frames[i - 1].child \in DOMAIN Body(NodeOf(i - 1))
              /\ Current = Body(NodeOf(i - 1))[frames[i - 1].child]
          BY <2>7, <4>1 DEF StackInv
        <4>3. NodeOf(i - 1) \in Loops
          BY <4>1, FrameFacts
        <4>4. NodeOf(i - 1) = NodeOf(L)
          BY <2>1, <2>6, <4>2, <4>3
        <4> QED
          BY <2>1, <4>1, <4>4 DEF StackInv
      <3> QED
        BY <3>1, <3>2
    <2> QED
      BY <1>2, <2>1, <2>3, <2>4, <2>5, <2>6, <2>7 DEF L
  <1> QED
    BY <1>1, <1>2


-----------------------------------------------------------------------------
(* What the steps do to the path.                                           *)

LEMMA SameProgram ==
    ASSUME UNCHANGED program
    PROVE  /\ Nodes' = Nodes /\ Loops' = Loops /\ Frame' = Frame
           /\ \A n : Body(n)' = Body(n) /\ (IsLoop(n)' <=> IsLoop(n))
  BY DEF Nodes, Loops, Frame, Body, IsLoop

\* The top frame gets the fields of f.
Retop(f) == [frames EXCEPT ![Len(frames)] = f]

LEMMA RetopFacts ==
    ASSUME StackInv, frames # <<>>, NEW f \in Frame, frames' = Retop(f)
    PROVE  /\ frames' \in Seq(Frame) /\ Len(frames)' = Len(frames)
           /\ DOMAIN frames' = DOMAIN frames
           /\ \A i \in DOMAIN frames : i # Len(frames) => frames'[i] = frames[i]
           /\ frames'[Len(frames)] = f
  <1>1. frames \in Seq(Frame) /\ Len(frames) \in 1 .. Len(frames) /\ Len(frames) \in Nat
    BY FrameFacts DEF StackInv
  <1>2. frames' \in Seq(Frame) /\ Len(frames') = Len(frames)
    BY <1>1, ExceptSeq DEF Retop
  <1>3. DOMAIN frames = 1 .. Len(frames) /\ DOMAIN frames' = 1 .. Len(frames')
    BY <1>1, <1>2
  <1>4. \A i \in DOMAIN frames : frames'[i] = IF i = Len(frames) THEN f ELSE frames[i]
    BY <1>1, <1>3 DEF Retop
  <1> QED
    BY <1>1, <1>2, <1>3, <1>4

LEMMA RetopKeepsPath ==
    ASSUME StackInv, ValuesInv, frames # <<>>, NEW f \in Frame, frames' = Retop(f),
           f.node = Top.node, f.iteration < f.count, f.child <= Len(Body(f.node)) + 1,
           f.value + (f.count - 1 - f.iteration) * program.nodes[f.node].step \in Word,
           UNCHANGED <<program, root>>
    PROVE  StackInv' /\ ValuesInv'
  <1> DEFINE L == Len(frames)
  <1>1. /\ L \in Nat \ {0} /\ DOMAIN frames = 1 .. L /\ L \in DOMAIN frames
        /\ frames' \in Seq(Frame) /\ DOMAIN frames' = DOMAIN frames
        /\ \A i \in DOMAIN frames : i # L => frames'[i] = frames[i]
        /\ frames'[L] = f /\ Top = frames[L]
    BY FrameFacts, RetopFacts DEF Top
  <1> HIDE DEF L
  <1>2. \A i \in DOMAIN frames : NodeOf(i)' = NodeOf(i)
    BY <1>1 DEF NodeOf
  <1>3. /\ frames' \in Seq(Frame') /\ \A n : Body(n)' = Body(n)
    BY <1>1, SameProgram
  <1>4. ASSUME NEW i \in DOMAIN frames'
        PROVE  /\ frames'[i].iteration < frames'[i].count
               /\ frames'[i].child <= Len(Body(NodeOf(i))') + 1
               /\ i = 1 => NodeOf(i)' = program'.roots[root']
               /\ i > 1 => /\ frames'[i - 1].child \in DOMAIN Body(NodeOf(i - 1))'
                           /\ NodeOf(i)' = Body(NodeOf(i - 1))'[frames'[i - 1].child]
               /\ frames'[i].value + (frames'[i].count - 1 - frames'[i].iteration)
                     * program'.nodes[NodeOf(i)'].step \in Word
    <2>1. /\ i \in DOMAIN frames /\ NodeOf(i)' = NodeOf(i)
          /\ Body(NodeOf(i))' = Body(NodeOf(i))
      BY <1>1, <1>2, <1>3 DEF Body
    <2>2. i = 1 => NodeOf(i)' = program'.roots[root']
      BY <2>1 DEF StackInv
    <2>3. ASSUME i > 1
          PROVE  /\ frames'[i - 1].child \in DOMAIN Body(NodeOf(i - 1))'
                 /\ NodeOf(i)' = Body(NodeOf(i - 1))'[frames'[i - 1].child]
      <3>1. i - 1 \in DOMAIN frames /\ i - 1 # L
        BY <1>1, <2>1, <2>3
      <3>2. frames'[i - 1] = frames[i - 1] /\ Body(NodeOf(i - 1))' = Body(NodeOf(i - 1))
        BY <1>1, <1>2, <3>1 DEF Body
      <3> QED
        BY <2>1, <2>3, <3>2 DEF StackInv
    <2>4. CASE i = L
      BY <1>1, <2>1, <2>2, <2>3, <2>4 DEF NodeOf
    <2>5. CASE i # L
      <3>1. frames'[i] = frames[i]
        BY <1>1, <2>1, <2>5
      <3> QED
        BY <2>1, <2>2, <2>3, <3>1 DEF StackInv, ValuesInv
    <2> QED
      BY <2>4, <2>5
  <1>5. \A i, j \in DOMAIN frames' : NodeOf(i)' = NodeOf(j)' => i = j
    BY <1>1, <1>2 DEF StackInv
  <1>6. StackInv'
    BY <1>3, <1>4, <1>5 DEF StackInv
  <1>7. ValuesInv'
    BY <1>4 DEF ValuesInv
  <1> QED
    BY <1>6, <1>7

LEMMA PushFacts ==
    ASSUME StackInv, NEW f \in Frame, frames' = Append(frames, f)
    PROVE  /\ frames' \in Seq(Frame) /\ Len(frames)' = Len(frames) + 1
           /\ DOMAIN frames' = 1 .. Len(frames) + 1
           /\ \A i \in DOMAIN frames : i \in DOMAIN frames' /\ frames'[i] = frames[i]
           /\ \A i \in DOMAIN frames' : i \in DOMAIN frames \/ i = Len(frames) + 1
           /\ frames'[Len(frames) + 1] = f
  <1>1. frames \in Seq(Frame) /\ Len(frames) \in Nat
    BY FrameFacts DEF StackInv
  <1> QED
    BY <1>1

LEMMA PushKeepsPath ==
    ASSUME Ready, InputsInv, StageInv, StackInv, ValuesInv,
           NEW f \in Frame, frames' = Append(frames, f),
           f.node = Current, f.iteration < f.count, f.child = 1,
           f.value + (f.count - 1 - f.iteration) * program.nodes[f.node].step \in Word,
           UNCHANGED <<program, root>>
    PROVE  StackInv' /\ ValuesInv'
  <1>0. PICK L \in Nat : L = Len(frames)
    BY FrameFacts
  <1>1. /\ L \in Nat /\ DOMAIN frames = 1 .. L
        /\ frames' \in Seq(Frame) /\ DOMAIN frames' = 1 .. L + 1
        /\ \A i \in DOMAIN frames : frames'[i] = frames[i]
        /\ frames'[L + 1] = f
        /\ frames # <<>> <=> L # 0
    BY <1>0, FrameFacts, PushFacts
  <1>2. \A i \in DOMAIN frames : NodeOf(i)' = NodeOf(i)
    BY <1>1 DEF NodeOf
  <1>3. NodeOf(L + 1)' = Current
    BY <1>1 DEF NodeOf
  <1>4. /\ frames' \in Seq(Frame') /\ \A n : Body(n)' = Body(n)
    BY <1>1, SameProgram
  <1>5. f.node \in Loops /\ Body(f.node) \in Seq(Nodes)
    BY TreeFacts DEF Frame
  <1>6. ASSUME NEW i \in DOMAIN frames'
        PROVE  /\ frames'[i].iteration < frames'[i].count
               /\ frames'[i].child <= Len(Body(NodeOf(i))') + 1
               /\ i = 1 => NodeOf(i)' = program'.roots[root']
               /\ i > 1 => /\ frames'[i - 1].child \in DOMAIN Body(NodeOf(i - 1))'
                           /\ NodeOf(i)' = Body(NodeOf(i - 1))'[frames'[i - 1].child]
               /\ frames'[i].value + (frames'[i].count - 1 - frames'[i].iteration)
                     * program'.nodes[NodeOf(i)'].step \in Word
    <2>1. CASE i \in DOMAIN frames
      <3>1. /\ frames'[i] = frames[i] /\ NodeOf(i)' = NodeOf(i)
            /\ Body(NodeOf(i))' = Body(NodeOf(i))
        BY <1>1, <1>2, <2>1 DEF Body
      <3>2. i > 1 => /\ frames'[i - 1] = frames[i - 1]
                     /\ Body(NodeOf(i - 1))' = Body(NodeOf(i - 1))
        BY <1>1, <1>2, <2>1 DEF Body
      <3> QED
        BY <2>1, <3>1, <3>2 DEF StackInv, ValuesInv
    <2>2. CASE i = L + 1
      <3>1. frames'[i] = f /\ NodeOf(i)' = Current /\ Body(NodeOf(i))' = Body(f.node)
        BY <1>1, <1>3, <2>2 DEF Body
      <3>2. i = 1 => NodeOf(i)' = program'.roots[root']
        BY <1>1, <2>2, <3>1, CurrentFacts
      <3>3. ASSUME i > 1
            PROVE  /\ frames'[i - 1].child \in DOMAIN Body(NodeOf(i - 1))'
                   /\ NodeOf(i)' = Body(NodeOf(i - 1))'[frames'[i - 1].child]
        <4>1. frames # <<>> /\ i - 1 = L /\ L \in DOMAIN frames
          BY <1>1, <2>2, <3>3
        <4>2. frames'[L] = Top /\ Body(NodeOf(L))' = Body(Top.node)
          BY <1>0, <1>1, <1>2, <4>1 DEF Top, Body, NodeOf
        <4> QED
          BY <3>1, <4>1, <4>2, CurrentFacts
      <3>4. f.child <= Len(Body(f.node)) + 1
        BY <1>5
      <3> QED
        BY <3>1, <3>2, <3>3, <3>4
    <2> QED
      BY <1>1, <2>1, <2>2
  <1>7. \A i, j \in DOMAIN frames' : NodeOf(i)' = NodeOf(j)' => i = j
    <2>1. \A i \in DOMAIN frames' : i \in DOMAIN frames \/ i = L + 1
      BY <1>1
    <2>4. \A i \in DOMAIN frames' : i = L + 1 => NodeOf(i)' = Current
      BY <1>3
    <2>2. \A i \in DOMAIN frames : NodeOf(i) # Current
      BY CurrentFacts
    <2>3. \A i, j \in DOMAIN frames : NodeOf(i) = NodeOf(j) => i = j
      BY DEF StackInv
    <2> QED
      BY <1>2, <2>1, <2>2, <2>3, <2>4
  <1>8. StackInv'
    BY <1>4, <1>6, <1>7 DEF StackInv
  <1>9. ValuesInv'
    BY <1>6 DEF ValuesInv
  <1> QED
    BY <1>8, <1>9

LEMMA PopFacts ==
    ASSUME StackInv, NEW L \in Nat, L = Len(frames), L > 1,
           frames' = [SubSeq(frames, 1, L - 1) EXCEPT ![L - 1].child = @ + 1]
    PROVE  /\ frames' \in Seq(Frame) /\ Len(frames)' = L - 1 /\ DOMAIN frames' = 1 .. L - 1
           /\ \A i \in 1 .. L - 1 : i # L - 1 => frames'[i] = frames[i]
           /\ frames'[L - 1] = [frames[L - 1] EXCEPT !.child = @ + 1]
           /\ frames'[L - 1] \in Frame
  <1> DEFINE s == SubSeq(frames, 1, L - 1)
             f == [frames[L - 1] EXCEPT !.child = @ + 1]
  <1>1. frames \in Seq(Frame) /\ DOMAIN frames = 1 .. L
    BY FrameFacts DEF StackInv
  <1>2. s \in Seq(Frame) /\ Len(s) = L - 1 /\ \A i \in 1 .. L - 1 : s[i] = frames[i]
    BY <1>1
  <1> HIDE DEF s
  <1>3. frames' = [s EXCEPT ![L - 1] = f]
    <2>1. frames' = [s EXCEPT ![L - 1].child = @ + 1]
      BY DEF s
    <2>2. L - 1 \in 1 .. L - 1
      OBVIOUS
    <2>3. s[L - 1] = frames[L - 1]
      BY <1>2, <2>2
    <2> QED
      BY <2>1, <2>3
  <1>4. f \in Frame
    <2>1. L - 1 \in DOMAIN frames
      BY <1>1
    <2>2. frames[L - 1] \in Frame
      BY <2>1, FrameFacts
    <2> QED
      BY <2>2 DEF Frame
  <1> HIDE DEF f
  <1>5. L - 1 \in 1 .. Len(s)
    BY <1>2
  <1>6. frames' \in Seq(Frame) /\ Len(frames') = L - 1
    BY <1>2, <1>3, <1>4, <1>5, ExceptSeq
  <1>7. DOMAIN s = 1 .. L - 1 /\ DOMAIN frames' = 1 .. L - 1
    BY <1>2, <1>6
  <1>8. \A i \in 1 .. L - 1 : frames'[i] = IF i = L - 1 THEN f ELSE s[i]
    BY <1>3, <1>7
  <1>9. frames'[L - 1] = f
    BY <1>2, <1>5, <1>8
  <1>10. \A i \in 1 .. L - 1 : i # L - 1 => frames'[i] = frames[i]
    BY <1>2, <1>8
  <1> QED
    BY <1>4, <1>6, <1>7, <1>9, <1>10 DEF f

LEMMA PopKeepsPath ==
    ASSUME InputsInv, StackInv, ValuesInv, Len(frames) > 1,
           frames' = [SubSeq(frames, 1, Len(frames) - 1)
                        EXCEPT ![Len(frames) - 1].child = @ + 1],
           UNCHANGED <<program, root>>
    PROVE  StackInv' /\ ValuesInv'
  <1>0. PICK L \in Nat : L = Len(frames)
    BY FrameFacts
  <1>1. /\ DOMAIN frames = 1 .. L /\ L > 1
        /\ frames' \in Seq(Frame) /\ DOMAIN frames' = 1 .. L - 1
        /\ \A i \in 1 .. L - 1 : i # L - 1 => frames'[i] = frames[i]
        /\ frames'[L - 1] = [frames[L - 1] EXCEPT !.child = @ + 1]
    <2>1. frames' = [SubSeq(frames, 1, L - 1) EXCEPT ![L - 1].child = @ + 1] /\ L > 1
      BY <1>0
    <2> QED
      BY <1>0, <2>1, FrameFacts, PopFacts
  <1>2. L \in DOMAIN frames /\ L - 1 \in DOMAIN frames /\ L - 1 \in DOMAIN frames'
    BY <1>1
  <1>3. /\ frames[L - 1] \in Frame /\ NodeOf(L - 1) \in Loops
        /\ frames[L - 1].child \in Nat \ {0}
    BY <1>2, FrameFacts
  <1>4. /\ frames'[L - 1].node = frames[L - 1].node
        /\ frames'[L - 1].value = frames[L - 1].value
        /\ frames'[L - 1].count = frames[L - 1].count
        /\ frames'[L - 1].iteration = frames[L - 1].iteration
        /\ frames'[L - 1].child = frames[L - 1].child + 1
    BY <1>1, <1>3 DEF Frame
  <1>5. \A i \in DOMAIN frames' : i \in DOMAIN frames /\ NodeOf(i)' = NodeOf(i)
    BY <1>1, <1>4 DEF NodeOf
  <1>6. /\ frames' \in Seq(Frame') /\ \A n : Body(n)' = Body(n)
    BY <1>1, SameProgram
  <1>7. frames[L - 1].child \in DOMAIN Body(NodeOf(L - 1))
        /\ Body(NodeOf(L - 1)) \in Seq(Nodes)
    BY <1>1, <1>2, <1>3, TreeFacts DEF StackInv
  <1>8. frames[L - 1].child + 1 <= Len(Body(NodeOf(L - 1))) + 1
    BY <1>3, <1>7
  <1>9. ASSUME NEW i \in DOMAIN frames'
        PROVE  /\ frames'[i].iteration < frames'[i].count
               /\ frames'[i].child <= Len(Body(NodeOf(i))') + 1
               /\ i = 1 => NodeOf(i)' = program'.roots[root']
               /\ i > 1 => /\ frames'[i - 1].child \in DOMAIN Body(NodeOf(i - 1))'
                           /\ NodeOf(i)' = Body(NodeOf(i - 1))'[frames'[i - 1].child]
               /\ frames'[i].value + (frames'[i].count - 1 - frames'[i].iteration)
                     * program'.nodes[NodeOf(i)'].step \in Word
    <2>1. /\ i \in DOMAIN frames /\ NodeOf(i)' = NodeOf(i)
          /\ Body(NodeOf(i))' = Body(NodeOf(i))
      BY <1>5, <1>6 DEF Body
    <2>2. i = 1 => NodeOf(i)' = program'.roots[root']
      BY <2>1 DEF StackInv
    <2>3. ASSUME i > 1
          PROVE  /\ frames'[i - 1].child \in DOMAIN Body(NodeOf(i - 1))'
                 /\ NodeOf(i)' = Body(NodeOf(i - 1))'[frames'[i - 1].child]
      <3>1. i - 1 \in DOMAIN frames' /\ i - 1 # L - 1 /\ i - 1 \in 1 .. L - 1
        BY <1>1, <2>1, <2>3
      <3>2. frames'[i - 1] = frames[i - 1] /\ Body(NodeOf(i - 1))' = Body(NodeOf(i - 1))
        BY <1>1, <1>5, <3>1 DEF Body
      <3> QED
        BY <2>1, <2>3, <3>2 DEF StackInv
    <2>4. CASE i = L - 1
      <3>1. /\ frames'[i].iteration < frames'[i].count
            /\ frames'[i].child <= Len(Body(NodeOf(i))') + 1
        BY <1>2, <1>4, <1>8, <2>1, <2>4 DEF StackInv
      <3>2. frames'[i].value + (frames'[i].count - 1 - frames'[i].iteration)
               * program'.nodes[NodeOf(i)'].step \in Word
        BY <1>2, <1>4, <2>1, <2>4 DEF ValuesInv
      <3> QED
        BY <2>2, <2>3, <3>1, <3>2
    <2>5. CASE i # L - 1
      <3>1. frames'[i] = frames[i]
        BY <1>1, <2>5
      <3> QED
        BY <2>1, <2>2, <2>3, <3>1 DEF StackInv, ValuesInv
    <2> QED
      BY <2>4, <2>5
  <1>10. \A i, j \in DOMAIN frames' : NodeOf(i)' = NodeOf(j)' => i = j
    BY <1>5 DEF StackInv
  <1>11. StackInv'
    BY <1>6, <1>9, <1>10 DEF StackInv
  <1>12. ValuesInv'
    BY <1>9 DEF ValuesInv
  <1> QED
    BY <1>11, <1>12

LEMMA NoPath ==
    ASSUME frames' = <<>>
    PROVE  StackInv' /\ ValuesInv'
  <1>1. frames' \in Seq(Frame') /\ DOMAIN frames' = {}
    OBVIOUS
  <1> QED
    BY <1>1 DEF StackInv, ValuesInv

-----------------------------------------------------------------------------
(* Names and slots.                                                         *)

\* Frame i is the innermost of its name.
Innermost(i) == \A j \in DOMAIN frames : VarOf(j) = VarOf(i) => j <= i

LEMMA VariablesAre == Variables = {VarOf(i) : i \in DOMAIN frames}
  BY DEF Variables, VarOf, NodeOf

LEMMA InnermostFrame ==
    ASSUME StackInv, NEW v \in Variables
    PROVE  /\ FrameOf(v, TRUE) \in DOMAIN frames
           /\ VarOf(FrameOf(v, TRUE)) = v /\ Innermost(FrameOf(v, TRUE))
  <1> DEFINE L == Len(frames)
             S == {L - i : i \in {j \in DOMAIN frames : VarOf(j) = v}}
  <1>1. L \in Nat /\ DOMAIN frames = 1 .. L
    BY FrameFacts
  <1> HIDE DEF L
  <1>2. S # {} /\ S \in SUBSET Nat
    <2>1. PICK i \in DOMAIN frames : VarOf(i) = v
      BY VariablesAre
    <2>2. L - i \in S
      BY <2>1
    <2> QED
      BY <1>1, <2>2
  <1>3. PICK n \in S : \A m \in S : n <= m
    <2> HIDE DEF S
    <2>1. PICK n \in S : \A m \in S : <<m, n>> \notin OpToRel(<, Nat)
      BY <1>2, NatLessThanWellFounded, WFMin
    <2>2. \A m \in S : ~(m < n)
      BY <1>2, <2>1 DEF OpToRel
    <2> QED
      BY <1>2, <2>2
  <1>4. PICK i \in DOMAIN frames : VarOf(i) = v /\ n = L - i
    BY <1>3
  <1>5. \A j \in DOMAIN frames : VarOf(j) = v => j <= i
    <2> SUFFICES ASSUME NEW j \in DOMAIN frames, VarOf(j) = v PROVE j <= i
      OBVIOUS
    <2>1. L - j \in S
      OBVIOUS
    <2>2. n <= L - j
      BY <1>3, <2>1
    <2> QED
      BY <1>1, <1>4, <2>2
  <1> DEFINE P(k) == /\ VarOf(k) = v
                     /\ \A j \in DOMAIN frames : VarOf(j) = v => j <= k
  <1>6. FrameOf(v, TRUE) = CHOOSE k \in DOMAIN frames : P(k)
    BY DEF FrameOf, VarOf, NodeOf
  <1>7. P(i)
    BY <1>4, <1>5
  <1> HIDE DEF P
  <1>8. FrameOf(v, TRUE) \in DOMAIN frames /\ P(FrameOf(v, TRUE))
    BY <1>6, <1>7
  <1> QED
    BY <1>8 DEF P, Innermost

LEMMA InnermostIsUnique ==
    ASSUME StackInv, NEW i \in DOMAIN frames, Innermost(i)
    PROVE  FrameOf(VarOf(i), TRUE) = i
  <1>1. VarOf(i) \in Variables
    BY VariablesAre
  <1> DEFINE k == FrameOf(VarOf(i), TRUE)
  <1>2. k \in DOMAIN frames /\ VarOf(k) = VarOf(i) /\ Innermost(k)
    BY <1>1, InnermostFrame
  <1> HIDE DEF k
  <1>3. i \in Nat /\ k \in Nat /\ i <= k /\ k <= i
    BY <1>2, FrameFacts DEF Innermost
  <1>4. k = i
    BY <1>3
  <1> QED
    BY <1>4, Zenon DEF k

\* A node is bound to the slots of the innermost loops.
BoundTo(scope) ==
    /\ DOMAIN scope = Variables
    /\ \A v \in Variables : scope[v] = prepared[NodeOf(FrameOf(v, TRUE))].slot

LEMMA ScopeIsBound == BoundTo(Scope)
  BY DEF BoundTo, Scope, NodeOf

(* What the innermost loop's children were bound to is what they would be   *)
(* bound to now.                                                            *)
LEMMA WithinIsBound ==
    ASSUME StackInv, BindingInv, frames # <<>>
    PROVE  BoundTo(Within(Top.node)) /\ Within(Top.node) = Scope
  <1>0. PICK L \in Nat : L = Len(frames)
    BY FrameFacts
  <1>1. /\ L \in DOMAIN frames /\ DOMAIN frames = 1 .. L /\ NodeOf(L) = Top.node /\ L # 0
        /\ VarOf(L) = program.nodes[Top.node].var
    BY <1>0, FrameFacts DEF Top, NodeOf, VarOf
  <1>2. SeesOuter(L)
    BY <1>1 DEF BindingInv, FrameBound
  <1> DEFINE scope == prepared[NodeOf(L)].scope
             within == Within(Top.node)
  <1>3. DOMAIN scope = {VarOf(j) : j \in 1 .. L - 1}
    BY <1>2 DEF SeesOuter
  <1>4. within = [v \in DOMAIN scope \cup {VarOf(L)} |->
                     IF v = VarOf(L) THEN prepared[NodeOf(L)].slot ELSE scope[v]]
    BY <1>1 DEF Within
  <1>5. DOMAIN scope \cup {VarOf(L)} = Variables
    <2>1. 1 .. L = (1 .. L - 1) \cup {L}
      BY <1>1
    <2>2. {VarOf(j) : j \in 1 .. L} = {VarOf(j) : j \in 1 .. L - 1} \cup {VarOf(L)}
      BY <2>1
    <2> QED
      BY <1>1, <1>3, <2>2, VariablesAre
  <1> HIDE DEF scope
  <1>6. \A v \in Variables : within[v] = prepared[NodeOf(FrameOf(v, TRUE))].slot
    <2> SUFFICES ASSUME NEW v \in Variables
                 PROVE  within[v] = prepared[NodeOf(FrameOf(v, TRUE))].slot
      OBVIOUS
    <2> DEFINE k == FrameOf(v, TRUE)
    <2>1. k \in DOMAIN frames /\ VarOf(k) = v /\ Innermost(k)
      BY InnermostFrame
    <2> HIDE DEF k
    <2>2. CASE v = VarOf(L)
      <3>1. L <= k
        BY <1>1, <2>1, <2>2 DEF Innermost
      <3>2. k = L
        BY <1>1, <2>1, <3>1
      <3> QED
        BY <1>4, <1>5, <2>2, <3>2 DEF k
    <2>3. CASE v # VarOf(L)
      <3>1. k # L
        BY <2>1, <2>3
      <3>2. k \in 1 .. L - 1
        BY <1>1, <2>1, <3>1
      <3>3. \A j \in k + 1 .. L - 1 : VarOf(j) # VarOf(k)
        BY <1>1, <2>1, <3>2 DEF Innermost
      <3>4. scope[VarOf(k)] = prepared[NodeOf(k)].slot
        BY <1>2, <3>2, <3>3 DEF SeesOuter, scope
      <3>5. within[v] = scope[v]
        BY <1>4, <1>5, <2>3
      <3> QED
        BY <2>1, <3>4, <3>5 DEF k
    <2> QED
      BY <2>2, <2>3
  <1>7. DOMAIN within = Variables
    BY <1>4, <1>5
  <1> HIDE DEF within
  <1>8. BoundTo(within)
    BY <1>6, <1>7 DEF BoundTo
  <1>9. within = Scope
    <2>1. within = [v \in Variables |-> prepared[NodeOf(FrameOf(v, TRUE))].slot]
      <3>1. within = [v \in Variables |-> within[v]]
        <4>1. within = [v \in DOMAIN within |-> within[v]]
          BY <1>4, <1>5, <1>7
        <4> QED
          BY <1>7, <4>1
      <3> QED
        BY <1>6, <3>1
    <2> QED
      BY <2>1 DEF Scope, NodeOf
  <1> QED
    BY <1>8, <1>9 DEF within

LEMMA BindingIsCurrent ==
    ASSUME Ready, InputsInv, StageInv, StackInv, BindingInv
    PROVE  BoundTo(Binding.scope) /\ (frames # <<>> => Binding.scope = Within(Top.node))
  <1>1. CASE IsNew
    <2>1. Binding.scope = Scope
      BY <1>1 DEF Binding
    <2> QED
      BY <2>1, ScopeIsBound, WithinIsBound
  <1>2. CASE ~IsNew
    <2>1. Current \in DOMAIN prepared /\ Binding = prepared[Current]
      BY <1>2 DEF IsNew, Binding
    <2>2. frames # <<>>
      BY <2>1 DEF BindingInv, Ready
    <2>3. /\ Top.node \in Loops /\ Top.child \in DOMAIN Body(Top.node)
          /\ Current = Body(Top.node)[Top.child]
      BY <2>2, CurrentFacts
    <2>4. Top.node \in DOMAIN prepared
      BY <2>1, <2>3 DEF BindingInv, TableInv
    <2>5. prepared[Current].scope = Within(Top.node)
      BY <2>1, <2>3, <2>4 DEF BindingInv, TableInv
    <2> QED
      BY <2>1, <2>2, <2>5, WithinIsBound
  <1> QED
    BY <1>1, <1>2

LEMMA PreparedFacts ==
    ASSUME Ready, InputsInv, StageInv, StackInv, BindingInv
    PROVE  /\ DOMAIN Prepared = DOMAIN prepared \cup {Current}
           /\ Prepared[Current] = Binding
           /\ \A n \in DOMAIN prepared : Prepared[n] = prepared[n]
           /\ PreparedValues \in Seq(Word)
           /\ \A s \in DOMAIN values :
                 s \in DOMAIN PreparedValues /\ PreparedValues[s] = values[s]
           /\ IsLoop(Current) =>
                 /\ Current \in Loops /\ Binding.slot \in DOMAIN PreparedValues
                 /\ \A m \in DOMAIN prepared \cap Loops :
                       prepared[m].slot = Binding.slot => m = Current
  <1>1. values \in Seq(Word) /\ 0 \in Word
    BY HalfFacts DEF BindingInv, TableInv, Word
  <1>2. /\ PreparedValues \in Seq(Word)
        /\ \A s \in DOMAIN values :
              s \in DOMAIN PreparedValues /\ PreparedValues[s] = values[s]
    <2>1. /\ Append(values, 0) \in Seq(Word)
          /\ \A s \in DOMAIN values :
                s \in DOMAIN Append(values, 0) /\ Append(values, 0)[s] = values[s]
      BY <1>1
    <2> QED
      BY <1>1, <2>1 DEF PreparedValues
  <1>3. /\ DOMAIN Prepared = DOMAIN prepared \cup {Current}
        /\ Prepared[Current] = Binding
        /\ \A n \in DOMAIN prepared : n # Current => Prepared[n] = prepared[n]
    BY DEF Prepared
  <1>4. \A n \in DOMAIN prepared : Prepared[n] = prepared[n]
    <2>1. Current \in DOMAIN prepared => Binding = prepared[Current]
      BY DEF Binding, IsNew
    <2> QED
      BY <1>3, <2>1
  <1>5. ASSUME IsLoop(Current)
        PROVE  /\ Current \in Loops /\ Binding.slot \in DOMAIN PreparedValues
               /\ \A m \in DOMAIN prepared \cap Loops :
                     prepared[m].slot = Binding.slot => m = Current
    <2>1. Current \in Loops
      BY <1>5, CurrentFacts DEF Loops
    <2>2. CASE IsNew
      <3>1. Binding.slot = Len(values) + 1 /\ PreparedValues = Append(values, 0)
        BY <1>5, <2>2 DEF Binding, PreparedValues
      <3>2. Binding.slot \in DOMAIN PreparedValues /\ Binding.slot \notin DOMAIN values
        BY <1>1, <3>1
      <3>3. \A m \in DOMAIN prepared \cap Loops : prepared[m].slot \in DOMAIN values
        BY DEF BindingInv, TableInv
      <3> QED
        BY <2>1, <3>2, <3>3
    <2>3. CASE ~IsNew
      <3>1. Current \in DOMAIN prepared \cap Loops /\ Binding = prepared[Current]
        BY <2>1, <2>3 DEF IsNew, Binding
      <3>2. Binding.slot \in DOMAIN values
        BY <3>1 DEF BindingInv, TableInv
      <3>3. \A m \in DOMAIN prepared \cap Loops :
               prepared[m].slot = Binding.slot => m = Current
        BY <3>1 DEF BindingInv, TableInv
      <3> QED
        BY <1>2, <2>1, <3>2, <3>3
    <2> QED
      BY <2>2, <2>3
  <1> QED
    BY <1>2, <1>3, <1>4, <1>5

LEMMA WithinKept ==
    ASSUME UNCHANGED program, NEW n, prepared'[n] = prepared[n]
    PROVE  Within(n)' = Within(n)
  BY DEF Within

LEMMA PreparingKeepsTable ==
    ASSUME Ready, InputsInv, StageInv, StackInv, BindingInv,
           UNCHANGED program, prepared' = Prepared,
           values' \in Seq(Word), DOMAIN values' = DOMAIN PreparedValues
    PROVE  TableInv'
  <1>1. /\ DOMAIN prepared' = DOMAIN prepared \cup {Current}
        /\ prepared'[Current] = Binding
        /\ \A n \in DOMAIN prepared : prepared'[n] = prepared[n]
    BY PreparedFacts
  <1>2. Nodes' = Nodes /\ Loops' = Loops /\ \A n : Body(n)' = Body(n)
    BY SameProgram
  <1>3. DOMAIN prepared' \subseteq Nodes'
    BY <1>1, <1>2, CurrentFacts DEF BindingInv, TableInv
  <1>4. \A n \in DOMAIN prepared' \cap Loops : n \in DOMAIN prepared \/ (n = Current /\ IsLoop(n))
    BY <1>1 DEF Loops
  <1>5. \A n \in DOMAIN prepared' \cap Loops : prepared'[n].slot \in DOMAIN values'
    <2>1. \A n \in DOMAIN prepared \cap Loops : prepared[n].slot \in DOMAIN values'
      BY PreparedFacts DEF BindingInv, TableInv
    <2>2. IsLoop(Current) => prepared'[Current].slot \in DOMAIN values'
      BY <1>1, PreparedFacts
    <2> QED
      BY <1>1, <1>4, <2>1, <2>2
  <1>6. \A n, m \in DOMAIN prepared' \cap Loops : prepared'[m].slot = prepared'[n].slot => m = n
    <2>1. \A n, m \in DOMAIN prepared \cap Loops : prepared[m].slot = prepared[n].slot => m = n
      BY DEF BindingInv, TableInv
    <2>2. IsLoop(Current) => \A m \in DOMAIN prepared \cap Loops :
                                prepared[m].slot = prepared'[Current].slot => m = Current
      BY <1>1, PreparedFacts
    <2> QED
      BY <1>1, <1>4, <2>1, <2>2
  <1>7. \A m \in Loops : \A c \in DOMAIN Body(m) :
           Body(m)[c] \in DOMAIN prepared' => m \in DOMAIN prepared
    <2> SUFFICES ASSUME NEW m \in Loops, NEW c \in DOMAIN Body(m),
                        Body(m)[c] \in DOMAIN prepared'
                 PROVE  m \in DOMAIN prepared
      OBVIOUS
    <2>1. CASE Body(m)[c] \in DOMAIN prepared
      BY <2>1 DEF BindingInv, TableInv
    <2>2. CASE Body(m)[c] = Current
      <3>1. frames # <<>> /\ m = Top.node /\ Top.node = NodeOf(Len(frames))
        BY <2>2, CurrentFacts
      <3>2. Len(frames) \in DOMAIN frames
        BY <3>1, FrameFacts
      <3> QED
        BY <3>1, <3>2 DEF BindingInv, FrameBound
    <2> QED
      BY <1>1, <2>1, <2>2
  <1>8. ASSUME NEW n \in Loops, NEW c \in DOMAIN Body(n), Body(n)[c] \in DOMAIN prepared'
        PROVE  prepared'[Body(n)[c]].scope = Within(n)'
    <2>1. n \in DOMAIN prepared
      BY <1>7, <1>8
    <2>2. Within(n)' = Within(n)
      BY <1>1, <2>1, WithinKept
    <2>3. CASE Body(n)[c] \in DOMAIN prepared
      <3>1. prepared[Body(n)[c]].scope = Within(n)
        BY <2>1, <2>3 DEF BindingInv, TableInv
      <3> QED
        BY <1>1, <2>2, <2>3, <3>1
    <2>4. CASE Body(n)[c] = Current
      <3>1. frames # <<>> /\ n = Top.node
        BY <2>4, CurrentFacts
      <3>2. Binding.scope = Within(Top.node)
        BY <3>1, BindingIsCurrent
      <3> QED
        BY <1>1, <2>2, <2>4, <3>1, <3>2
    <2> QED
      BY <1>1, <1>8, <2>3, <2>4
  <1> QED
    <2>1. \A n \in DOMAIN prepared' \cap Loops' :
             /\ prepared'[n].slot \in DOMAIN values'
             /\ \A m \in DOMAIN prepared' \cap Loops' :
                   prepared'[m].slot = prepared'[n].slot => m = n
             /\ \A c \in DOMAIN Body(n)' :
                   Body(n)'[c] \in DOMAIN prepared' =>
                      prepared'[Body(n)'[c]].scope = Within(n)'
      BY <1>2, <1>5, <1>6, <1>8
    <2>2. \A m \in Loops' : \A c \in DOMAIN Body(m)' :
             Body(m)'[c] \in DOMAIN prepared' => m \in DOMAIN prepared'
      BY <1>1, <1>2, <1>7
    <2> QED
      BY <1>3, <2>1, <2>2 DEF TableInv

LEMMA TableKept ==
    ASSUME TableInv, UNCHANGED <<program, prepared>>,
           values' \in Seq(Word), DOMAIN values' = DOMAIN values
    PROVE  TableInv'
  <1>1. Nodes' = Nodes /\ Loops' = Loops /\ \A n : Body(n)' = Body(n)
    BY SameProgram
  <1>2. \A n : Within(n)' = Within(n)
    BY WithinKept
  <1> QED
    BY <1>1, <1>2 DEF TableInv

(* What a running loop sees does not change while it runs.                  *)
LEMMA SeesOuterKept ==
    ASSUME BindingInv, UNCHANGED program, NEW i \in DOMAIN frames,
           \A n \in DOMAIN prepared : prepared'[n] = prepared[n],
           \A j \in 1 .. i : j \in DOMAIN frames /\ NodeOf(j)' = NodeOf(j),
           i \in Nat \ {0}
    PROVE  SeesOuter(i)'
  <1>1. SeesOuter(i) /\ i \in 1 .. i /\ \A j \in 1 .. i - 1 : j \in 1 .. i
    BY DEF BindingInv, FrameBound
  <1>2. \A j \in 1 .. i : prepared'[NodeOf(j)'] = prepared[NodeOf(j)]
    BY DEF BindingInv, FrameBound
  <1>3. \A j \in 1 .. i : VarOf(j)' = VarOf(j)
    BY DEF VarOf
  <1>4. \A j \in 1 .. i - 1 : VarOf(j)' = VarOf(j) /\ prepared'[NodeOf(j)'] = prepared[NodeOf(j)]
    BY <1>1, <1>2, <1>3
  <1>5. {VarOf(j)' : j \in 1 .. i - 1} = {VarOf(j) : j \in 1 .. i - 1}
    BY <1>4
  <1>6. prepared'[NodeOf(i)'] = prepared[NodeOf(i)]
    BY <1>1, <1>2
  <1>7. DOMAIN prepared'[NodeOf(i)'].scope = {VarOf(j)' : j \in 1 .. i - 1}
    BY <1>1, <1>5, <1>6 DEF SeesOuter
  <1>8. ASSUME NEW j \in 1 .. i - 1, \A k \in j + 1 .. i - 1 : VarOf(k)' # VarOf(j)'
        PROVE  prepared'[NodeOf(i)'].scope[VarOf(j)'] = prepared'[NodeOf(j)'].slot
    <2>1. \A k \in j + 1 .. i - 1 : k \in 1 .. i - 1
      OBVIOUS
    <2>2. \A k \in j + 1 .. i - 1 : VarOf(k) # VarOf(j)
      BY <1>4, <1>8, <2>1
    <2> QED
      BY <1>1, <1>4, <1>6, <2>2 DEF SeesOuter
  <1> QED
    BY <1>7, <1>8 DEF SeesOuter

LEMMA RetopKeepsBinding ==
    ASSUME InputsInv, StackInv, BindingInv, frames # <<>>,
           NEW f \in Frame, frames' = Retop(f), f.node = Top.node,
           UNCHANGED program, TableInv',
           \A n \in DOMAIN prepared : n \in DOMAIN prepared' /\ prepared'[n] = prepared[n],
           \A i \in DOMAIN frames : i # Len(frames) =>
               values'[prepared[NodeOf(i)].slot] = values[prepared[NodeOf(i)].slot],
           values'[prepared[f.node].slot] = f.value
    PROVE  BindingInv'
  <1>0. PICK L \in Nat : L = Len(frames)
    BY FrameFacts
  <1>1. /\ DOMAIN frames = 1 .. L /\ L \in DOMAIN frames /\ L # 0
        /\ DOMAIN frames' = 1 .. L
        /\ \A i \in DOMAIN frames : i # L => frames'[i] = frames[i]
        /\ frames'[L] = f /\ Top = frames[L]
    BY <1>0, FrameFacts, RetopFacts DEF Top
  <1>2. \A i \in DOMAIN frames : NodeOf(i)' = NodeOf(i)
    BY <1>1 DEF NodeOf
  <1>3. NodeOf(L) = f.node
    BY <1>1 DEF NodeOf
  <1>4. ASSUME NEW i \in DOMAIN frames'
        PROVE  FrameBound(i)'
    <2>1. i \in DOMAIN frames /\ FrameBound(i) /\ NodeOf(i)' = NodeOf(i) /\ i \in Nat \ {0}
      BY <1>1, <1>2 DEF BindingInv
    <2>2. /\ NodeOf(i)' \in DOMAIN prepared'
          /\ prepared'[NodeOf(i)'] = prepared[NodeOf(i)]
      BY <2>1 DEF FrameBound
    <2>3. SeesOuter(i)'
      <3>1. \A j \in 1 .. i : j \in DOMAIN frames /\ NodeOf(j)' = NodeOf(j)
        BY <1>1, <1>2, <2>1
      <3> QED
        BY <2>1, <3>1, SeesOuterKept
    <2>4. values'[prepared[NodeOf(i)].slot] = frames'[i].value
      <3>1. CASE i = L
        BY <1>1, <1>3, <3>1
      <3>2. CASE i # L
        <4>1. values'[prepared[NodeOf(i)].slot] = values[prepared[NodeOf(i)].slot]
          BY <1>0, <2>1, <3>2
        <4>2. frames'[i] = frames[i]
          BY <1>1, <2>1, <3>2
        <4> QED
          BY <2>1, <4>1, <4>2 DEF FrameBound
      <3> QED
        BY <3>1, <3>2
    <2> QED
      BY <2>2, <2>3, <2>4 DEF FrameBound
  <1>5. frames' # <<>>
    BY <1>1
  <1> QED
    BY <1>4, <1>5 DEF BindingInv

LEMMA PushKeepsBinding ==
    ASSUME Ready, InputsInv, StageInv, StackInv, BindingInv, IsLoop(Current),
           NEW f \in Frame, frames' = Append(frames, f), f.node = Current,
           UNCHANGED program, prepared' = Prepared,
           values' = [PreparedValues EXCEPT ![Binding.slot] = f.value]
    PROVE  BindingInv'
  <1>0. PICK L \in Nat : L = Len(frames)
    BY FrameFacts
  <1>1. /\ DOMAIN frames = 1 .. L /\ DOMAIN frames' = 1 .. L + 1
        /\ \A i \in DOMAIN frames : frames'[i] = frames[i]
        /\ frames'[L + 1] = f
    BY <1>0, FrameFacts, PushFacts
  <1>2. /\ \A i \in DOMAIN frames : NodeOf(i)' = NodeOf(i)
        /\ \A i \in DOMAIN frames' : i = L + 1 => NodeOf(i)' = Current
    BY <1>1 DEF NodeOf
  <1>3. /\ \A n \in DOMAIN prepared : n \in DOMAIN prepared' /\ prepared'[n] = prepared[n]
        /\ Current \in DOMAIN prepared' /\ prepared'[Current] = Binding
    BY PreparedFacts
  <1>4. f.value \in Word
    BY DEF Frame
  <1>5. /\ PreparedValues \in Seq(Word) /\ Binding.slot \in DOMAIN PreparedValues
        /\ \A s \in DOMAIN values :
              s \in DOMAIN PreparedValues /\ PreparedValues[s] = values[s]
        /\ \A m \in DOMAIN prepared \cap Loops : prepared[m].slot = Binding.slot => m = Current
    BY PreparedFacts
  <1>6. /\ values' \in Seq(Word) /\ DOMAIN values' = DOMAIN PreparedValues
        /\ values'[Binding.slot] = f.value
        /\ \A s \in DOMAIN values : s # Binding.slot => values'[s] = values[s]
    BY <1>4, <1>5
  <1>7. TableInv'
    BY <1>6, PreparingKeepsTable
  <1>8. ASSUME NEW i \in DOMAIN frames'
        PROVE  FrameBound(i)'
    <2>1. CASE i \in DOMAIN frames
      <3>1. FrameBound(i) /\ NodeOf(i)' = NodeOf(i) /\ i \in Nat \ {0} /\ NodeOf(i) \in Loops
        BY <1>1, <1>2, <2>1, FrameFacts DEF BindingInv
      <3>2. /\ NodeOf(i)' \in DOMAIN prepared'
            /\ prepared'[NodeOf(i)'] = prepared[NodeOf(i)]
        BY <1>3, <3>1 DEF FrameBound
      <3>3. SeesOuter(i)'
        <4>1. \A j \in 1 .. i : j \in DOMAIN frames /\ NodeOf(j)' = NodeOf(j)
          BY <1>1, <1>2, <2>1
        <4> QED
          BY <1>3, <2>1, <3>1, <4>1, SeesOuterKept
      <3>4. NodeOf(i) \in DOMAIN prepared \cap Loops /\ NodeOf(i) # Current
        BY <2>1, <3>1, CurrentFacts DEF FrameBound
      <3>5. prepared[NodeOf(i)].slot \in DOMAIN values
            /\ prepared[NodeOf(i)].slot # Binding.slot
        BY <1>5, <3>4 DEF BindingInv, TableInv
      <3>6. values'[prepared[NodeOf(i)].slot] = frames'[i].value
        BY <1>1, <1>6, <2>1, <3>1, <3>5 DEF FrameBound
      <3> QED
        BY <3>2, <3>3, <3>6 DEF FrameBound
    <2>2. CASE i = L + 1
      <3>1. /\ NodeOf(i)' = Current /\ frames'[i] = f /\ i - 1 = L
        BY <1>1, <1>2, <2>2
      <3>2. NodeOf(i)' \in DOMAIN prepared' /\ prepared'[NodeOf(i)'] = Binding
        BY <1>3, <3>1
      <3>3. BoundTo(Binding.scope)
        BY BindingIsCurrent
      <3>4. \A j \in 1 .. L : /\ j \in DOMAIN frames /\ VarOf(j)' = VarOf(j)
                              /\ prepared'[NodeOf(j)'].slot = prepared[NodeOf(j)].slot
        <4>1. \A j \in DOMAIN frames : NodeOf(j) \in DOMAIN prepared
          BY DEF BindingInv, FrameBound
        <4> QED
          BY <1>1, <1>2, <1>3, <4>1 DEF VarOf
      <3>5. {VarOf(j)' : j \in 1 .. L} = Variables
        BY <1>1, <3>4, VariablesAre
      <3>6. DOMAIN Binding.scope = {VarOf(j)' : j \in 1 .. L}
        BY <3>3, <3>5 DEF BoundTo
      <3>7. ASSUME NEW j \in 1 .. L, \A k \in j + 1 .. L : VarOf(k)' # VarOf(j)'
            PROVE  Binding.scope[VarOf(j)'] = prepared'[NodeOf(j)'].slot
        <4>1. Innermost(j)
          <5> SUFFICES ASSUME NEW k \in DOMAIN frames, VarOf(k) = VarOf(j), ~(k <= j)
                       PROVE  FALSE
            BY DEF Innermost
          <5>1. k \in j + 1 .. L
            BY <1>1
          <5> QED
            BY <3>4, <3>7, <5>1
        <4>2. FrameOf(VarOf(j), TRUE) = j /\ VarOf(j) \in Variables
          BY <3>4, <4>1, InnermostIsUnique, VariablesAre
        <4>3. Binding.scope[VarOf(j)] = prepared[NodeOf(FrameOf(VarOf(j), TRUE))].slot
          BY <3>3, <4>2, Zenon DEF BoundTo
        <4>4. Binding.scope[VarOf(j)] = prepared[NodeOf(j)].slot
          BY <4>2, <4>3, Zenon
        <4> QED
          BY <3>4, <4>4
      <3>8. SeesOuter(i)'
        BY <3>1, <3>2, <3>6, <3>7 DEF SeesOuter
      <3>9. values'[prepared'[NodeOf(i)'].slot] = frames'[i].value
        BY <1>6, <3>1, <3>2
      <3> QED
        BY <3>2, <3>8, <3>9 DEF FrameBound
    <2> QED
      BY <1>1, <2>1, <2>2
  <1>9. frames' # <<>>
    BY <1>1
  <1> QED
    BY <1>7, <1>8, <1>9 DEF BindingInv

LEMMA PopKeepsBinding ==
    ASSUME InputsInv, StackInv, BindingInv, Len(frames) > 1,
           frames' = [SubSeq(frames, 1, Len(frames) - 1)
                        EXCEPT ![Len(frames) - 1].child = @ + 1],
           UNCHANGED <<program, prepared, values>>
    PROVE  BindingInv'
  <1>0. PICK L \in Nat : L = Len(frames)
    BY FrameFacts
  <1>1. /\ DOMAIN frames = 1 .. L /\ L > 1
        /\ DOMAIN frames' = 1 .. L - 1
        /\ \A i \in 1 .. L - 1 : i # L - 1 => frames'[i] = frames[i]
        /\ frames'[L - 1] = [frames[L - 1] EXCEPT !.child = @ + 1]
    <2>1. frames' = [SubSeq(frames, 1, L - 1) EXCEPT ![L - 1].child = @ + 1] /\ L > 1
      BY <1>0
    <2> QED
      BY <1>0, <2>1, FrameFacts, PopFacts
  <1>2. L - 1 \in DOMAIN frames
    BY <1>1
  <1>3. frames'[L - 1].node = frames[L - 1].node /\ frames'[L - 1].value = frames[L - 1].value
    BY <1>1, <1>2, FrameFacts DEF Frame
  <1>4. \A i \in DOMAIN frames' : /\ i \in DOMAIN frames /\ NodeOf(i)' = NodeOf(i)
                                  /\ frames'[i].value = frames[i].value
    BY <1>1, <1>3 DEF NodeOf
  <1>5. values \in Seq(Word) /\ TableInv
    BY DEF BindingInv, TableInv
  <1>6. TableInv'
    BY <1>5, TableKept
  <1>7. ASSUME NEW i \in DOMAIN frames'
        PROVE  FrameBound(i)'
    <2>1. i \in DOMAIN frames /\ FrameBound(i) /\ i \in Nat \ {0} /\ NodeOf(i)' = NodeOf(i)
      BY <1>1, <1>4 DEF BindingInv
    <2>2. \A j \in 1 .. i : j \in DOMAIN frames /\ NodeOf(j)' = NodeOf(j)
      BY <1>1, <1>4, <2>1
    <2>3. SeesOuter(i)'
      BY <2>1, <2>2, SeesOuterKept
    <2> QED
      BY <1>4, <2>1, <2>3 DEF FrameBound
  <1>8. frames' # <<>>
    BY <1>1
  <1> QED
    BY <1>6, <1>7, <1>8 DEF BindingInv

LEMMA NothingBound ==
    ASSUME prepared' = [n \in {} |-> 0], values' = <<>>, frames' = <<>>
    PROVE  BindingInv'
  <1>1. DOMAIN prepared' = {} /\ DOMAIN frames' = {} /\ values' \in Seq(Word)
    OBVIOUS
  <1>2. TableInv'
    BY <1>1 DEF TableInv
  <1> QED
    BY <1>1, <1>2 DEF BindingInv

-----------------------------------------------------------------------------
(* What loops were charged.                                                 *)

LEMMA SumsAgree ==
    /\ Streaming!HierarchyAssumption
    /\ \A S : Streaming!IsFiniteSet(S) <=> IsFiniteSet(S)
    /\ \A f, s : Streaming!SumFunctionOnSet(f, s) = SumFunctionOnSet(f, s)
  <1>1. Streaming!HierarchyAssumption
    BY DEF Streaming!HierarchyAssumption
  <1>2. \A S : Streaming!IsFiniteSet(S) <=> IsFiniteSet(S)
    BY DEF Streaming!IsFiniteSet, IsFiniteSet
  <1>3. \A f, s : Streaming!SumFunctionOnSet(f, s) = SumFunctionOnSet(f, s)
    BY DEF Streaming!SumFunctionOnSet, SumFunctionOnSet, Streaming!FoldFunctionOnSet,
           FoldFunctionOnSet, Streaming!MapThenFoldSet, MapThenFoldSet
  <1> QED
    BY <1>1, <1>2, <1>3

LEMMA SumIsNat ==
    ASSUME NEW f, IsFiniteSet(DOMAIN f), \A i \in DOMAIN f : f[i] \in Nat
    PROVE  SumFunction(f) \in Nat
  <1>1. SumFunctionOnSet(f, DOMAIN f) \in Nat
    BY SumsAgree, Streaming!SumIsNat
  <1> QED
    BY <1>1 DEF SumFunction

LEMMA SumChanges ==
    ASSUME NEW f, NEW g, NEW i, IsFiniteSet(DOMAIN f),
           \A j \in DOMAIN f : f[j] \in Nat, DOMAIN g = DOMAIN f \cup {i}, g[i] \in Nat,
           \A j \in DOMAIN f : j # i => g[j] = f[j]
    PROVE  SumFunction(g) + (IF i \in DOMAIN f THEN f[i] ELSE 0) = SumFunction(f) + g[i]
  <1> DEFINE s == DOMAIN f
  <1>1. IsFiniteSet(s) /\ \A j \in s : f[j] \in Nat
    OBVIOUS
  <1>2. \A j \in s : j # i => g[j] = f[j]
    OBVIOUS
  <1>3. SumFunction(f) = SumFunctionOnSet(f, s)
    BY DEF SumFunction
  <1>4. SumFunction(g) = SumFunctionOnSet(g, s \cup {i})
    BY DEF SumFunction
  <1> HIDE DEF s
  <1>5. Streaming!SumFunctionOnSet(g, s \cup {i}) + (IF i \in s THEN f[i] ELSE 0)
           = Streaming!SumFunctionOnSet(f, s) + g[i]
    BY <1>1, <1>2, SumsAgree, Streaming!SumChanged
  <1> QED
    BY <1>3, <1>4, <1>5, SumsAgree DEF s

\* One value grows.
LEMMA SumIncreases ==
    ASSUME NEW f, NEW g, NEW i \in DOMAIN f, NEW d \in Nat, IsFiniteSet(DOMAIN f),
           \A j \in DOMAIN f : f[j] \in Nat, DOMAIN g = DOMAIN f,
           g[i] = f[i] + d, \A j \in DOMAIN f : j # i => g[j] = f[j]
    PROVE  SumFunction(g) = SumFunction(f) + d
  <1>1. g[i] \in Nat /\ DOMAIN g = DOMAIN f \cup {i} /\ f[i] \in Nat
    OBVIOUS
  <1>2. SumFunction(g) + f[i] = SumFunction(f) + g[i]
    BY <1>1, SumChanges
  <1>3. SumFunction(f) \in Nat
    BY SumIsNat
  <1>4. SumFunction(g) \in Nat
    <2>1. \A j \in DOMAIN g : g[j] \in Nat
      BY <1>1
    <2> QED
      BY <2>1, SumIsNat
  <1> QED
    BY <1>1, <1>2, <1>3, <1>4

\* One value more.
LEMMA SumExtends ==
    ASSUME NEW f, NEW g, NEW i, i \notin DOMAIN f, IsFiniteSet(DOMAIN f),
           \A j \in DOMAIN f : f[j] \in Nat, DOMAIN g = DOMAIN f \cup {i}, g[i] \in Nat,
           \A j \in DOMAIN f : j # i => g[j] = f[j]
    PROVE  SumFunction(g) = SumFunction(f) + g[i]
  <1>1. SumFunction(g) + 0 = SumFunction(f) + g[i]
    BY SumChanges
  <1>2. SumFunction(f) \in Nat
    BY SumIsNat
  <1>3. SumFunction(g) \in Nat
    <2>1. (\A j \in DOMAIN g : g[j] \in Nat) /\ IsFiniteSet(DOMAIN g)
      BY FS_AddElement
    <2> QED
      BY <2>1, SumIsNat
  <1> QED
    BY <1>1, <1>2, <1>3

LEMMA LogFacts ==
    ASSUME LogInv
    PROVE  /\ Len(log) \in Nat /\ DOMAIN log = 1 .. Len(log) /\ IsFiniteSet(DOMAIN log)
           /\ \A n : IsFiniteSet(Entries(n)) /\ Reached(n) \in Nat
           /\ \A n \in Loops : Reserved(n) \in Nat
  <1>1. Len(log) \in Nat /\ DOMAIN log = 1 .. Len(log)
    BY DEF LogInv
  <1>2. IsFiniteSet(DOMAIN log)
    BY <1>1, FS_Interval
  <1>3. \A n : Entries(n) \subseteq DOMAIN log
    BY DEF Entries
  <1>4. \A n : IsFiniteSet(Entries(n))
    BY <1>2, <1>3, FS_Subset
  <1>5. \A n : Reached(n) \in Nat
    BY <1>4, FS_CardinalityType DEF Reached
  <1>6. ASSUME NEW n \in Loops
        PROVE  Reserved(n) \in Nat
    <2> DEFINE f == [i \in Entries(n) |-> log[i].count]
    <2>1. \A i \in Entries(n) : log[i].count \in Nat
      BY DEF Entries, LogInv, Loops
    <2>2. DOMAIN f = Entries(n) /\ \A i \in DOMAIN f : f[i] \in Nat
      BY <2>1
    <2> HIDE DEF f
    <2>3. SumFunction(f) \in Nat
      BY <1>4, <2>2, SumIsNat
    <2> QED
      BY <2>3 DEF f, Reserved
  <1> QED
    BY <1>1, <1>2, <1>4, <1>5, <1>6

LEMMA LogGrows ==
    ASSUME LogInv, NEW e, log' = Append(log, e), NEW j, j = Len(log) + 1
    PROVE  /\ log' \in Seq(Range(log)')
           /\ DOMAIN log' = DOMAIN log \cup {j} /\ j \notin DOMAIN log
           /\ \A i \in DOMAIN log : log'[i] = log[i]
           /\ log'[j] = e
           /\ \A n : Entries(n)' = Entries(n) \cup (IF n = e.node THEN {j} ELSE {})
  <1>1. log \in Seq(Range(log) \cup {e})
    BY SeqMonotonic DEF LogInv
  <1>2. log' \in Seq(Range(log) \cup {e}) /\ Len(log') = j /\ Len(log) \in Nat
    BY <1>1
  <1>3. DOMAIN log = 1 .. j - 1 /\ DOMAIN log' = 1 .. j /\ j \in Nat
    BY <1>1, <1>2
  <1>4. (\A i \in DOMAIN log : log'[i] = log[i]) /\ log'[j] = e
    BY <1>1, <1>3
  <1>5. DOMAIN log' = DOMAIN log \cup {j} /\ j \notin DOMAIN log
    BY <1>3
  <1>6. Range(log') = Range(log) \cup {e}
    BY <1>4, <1>5 DEF Range
  <1>7. ASSUME NEW n
        PROVE  Entries(n)' = Entries(n) \cup (IF n = e.node THEN {j} ELSE {})
    BY <1>4, <1>5 DEF Entries
  <1> QED
    BY <1>2, <1>4, <1>5, <1>6, <1>7

LEMMA ReachedGrows ==
    ASSUME LogInv, NEW e, log' = Append(log, e), NEW n
    PROVE  Reached(n)' = Reached(n) + (IF n = e.node THEN 1 ELSE 0)
  <1> DEFINE j == Len(log) + 1
  <1>1. Entries(n)' = Entries(n) \cup (IF n = e.node THEN {j} ELSE {}) /\ j \notin DOMAIN log
    BY LogGrows
  <1> HIDE DEF j
  <1>2. j \notin Entries(n)
    BY <1>1 DEF Entries
  <1>3. IsFiniteSet(Entries(n)) /\ Reached(n) \in Nat
    BY LogFacts
  <1>4. CASE n = e.node
    <2>1. Entries(n)' = Entries(n) \cup {j}
      BY <1>1, <1>4
    <2>2. Cardinality(Entries(n) \cup {j}) = Cardinality(Entries(n)) + 1
      BY <1>2, <1>3, FS_AddElement
    <2> QED
      BY <1>4, <2>1, <2>2 DEF Reached
  <1>5. CASE n # e.node
    <2>1. Entries(n)' = Entries(n)
      BY <1>1, <1>5
    <2> QED
      BY <1>3, <1>5, <2>1 DEF Reached
  <1> QED
    BY <1>4, <1>5

(* Only the loop that was entered is charged more.                          *)
LEMMA ReservedGrows ==
    ASSUME LogInv, NEW e, log' = Append(log, e), NEW n \in Loops,
           n = e.node => e.count \in Nat
    PROVE  Reserved(n)' = Reserved(n) + (IF n = e.node THEN e.count ELSE 0)
  <1> DEFINE j == Len(log) + 1
             f == [i \in Entries(n) |-> log[i].count]
  <1>1. /\ Entries(n)' = Entries(n) \cup (IF n = e.node THEN {j} ELSE {})
        /\ j \notin DOMAIN log /\ log'[j] = e
        /\ \A i \in DOMAIN log : log'[i] = log[i]
    BY LogGrows
  <1> HIDE DEF j
  <1>2. j \notin Entries(n) /\ \A i \in Entries(n) : log'[i] = log[i]
    BY <1>1 DEF Entries
  <1>3. IsFiniteSet(Entries(n)) /\ Reserved(n) \in Nat
    BY LogFacts
  <1>4. DOMAIN f = Entries(n) /\ \A i \in DOMAIN f : f[i] \in Nat
    BY DEF Entries, LogInv, Loops
  <1>5. Reserved(n) = SumFunction(f)
    BY DEF Reserved
  <1>6. CASE n = e.node
    <2> DEFINE g == [i \in Entries(n) \cup {j} |-> log'[i].count]
    <2>1. Reserved(n)' = SumFunction(g)
      <3>1. Entries(n)' = Entries(n) \cup {j}
        BY <1>1, <1>6
      <3> QED
        BY <3>1 DEF Reserved
    <2>2. g[j] = e.count /\ \A i \in DOMAIN f : i # j => g[i] = f[i]
      BY <1>1, <1>2, <1>4
    <2>3. DOMAIN g = DOMAIN f \cup {j}
      BY <1>4
    <2>4. j \notin DOMAIN f /\ e.count \in Nat
      BY <1>2, <1>4, <1>6
    <2> HIDE DEF f, g
    <2>5. SumFunction(g) = SumFunction(f) + g[j]
      <3>1. IsFiniteSet(DOMAIN f) /\ g[j] \in Nat
        BY <1>3, <1>4, <2>2, <2>4
      <3> QED
        BY <1>4, <2>2, <2>3, <2>4, <3>1, SumExtends
    <2> QED
      BY <1>5, <1>6, <2>1, <2>2, <2>5
  <1>7. CASE n # e.node
    <2>1. Entries(n)' = Entries(n)
      BY <1>1, <1>7
    <2>2. [i \in Entries(n) |-> log'[i].count] = f
      BY <1>2
    <2> HIDE DEF f
    <2>3. Reserved(n)' = SumFunction(f)
      BY <2>1, <2>2 DEF Reserved
    <2> QED
      BY <1>3, <1>5, <1>7, <2>3
  <1> QED
    BY <1>6, <1>7

LEMMA LogKept ==
    ASSUME LogInv, UNCHANGED <<inputs, log, loop_iterations>>
    PROVE  LogInv' /\ \A n : Reached(n)' = Reached(n) /\ Reserved(n)' = Reserved(n)
  <1>1. program' = program /\ limits' = limits /\ log' = log
        /\ loop_iterations' = loop_iterations
    BY DEF inputs
  <1>2. Loops' = Loops /\ \A n : IsLoop(n)' <=> IsLoop(n)
    BY <1>1, SameProgram
  <1>3. \A n : Entries(n)' = Entries(n)
    BY <1>1 DEF Entries
  <1>4. \A n : Reached(n)' = Reached(n) /\ Reserved(n)' = Reserved(n)
    BY <1>1, <1>3 DEF Reached, Reserved
  <1>5. Range(log)' = Range(log)
    BY <1>1 DEF Range
  <1> QED
    BY <1>1, <1>2, <1>4, <1>5 DEF LogInv

\* What is logged of the node the walk stands before.
Logged(e, count) ==
    /\ e.node = Current
    /\ IsLoop(Current) => e.count = count
    /\ ~IsLoop(Current) => count = 0

LEMMA LoggedGrows ==
    ASSUME InputsInv, LogInv, NEW e, NEW count \in Nat, Logged(e, count),
           log' = Append(log, e)
    PROVE  /\ \A n : Reached(n)' = Reached(n) + (IF n = Current THEN 1 ELSE 0)
           /\ \A n \in Loops : Reserved(n)' = Reserved(n) + (IF n = Current THEN count ELSE 0)
  <1>1. e.node = Current /\ (IsLoop(Current) => e.count = count)
    BY DEF Logged
  <1>2. \A n : Reached(n)' = Reached(n) + (IF n = Current THEN 1 ELSE 0)
    BY <1>1, ReachedGrows
  <1>3. ASSUME NEW n \in Loops
        PROVE  Reserved(n)' = Reserved(n) + (IF n = Current THEN count ELSE 0)
    <2>1. n = Current => e.count = count
      BY <1>1 DEF Loops
    <2>2. Reserved(n)' = Reserved(n) + (IF n = e.node THEN e.count ELSE 0)
      BY <1>1, <2>1, ReservedGrows
    <2> QED
      BY <1>1, <2>1, <2>2
  <1> QED
    BY <1>2, <1>3

LEMMA LoggedKeepsLog ==
    ASSUME InputsInv, LogInv, Current \in Nodes,
           NEW e, NEW count \in Nat, Logged(e, count), BudgetAllows(count),
           log' = Append(log, e), loop_iterations' = loop_iterations + count,
           UNCHANGED inputs
    PROVE  LogInv'
  <1>0. /\ limits.single \in Nat /\ limits.cumulative \in Nat /\ limits' = limits
        /\ loop_iterations \in Nat
        /\ program' = program
    BY DEF InputsInv, inputs, LogInv
  <1>1. Loops' = Loops /\ \A n : IsLoop(n)' <=> IsLoop(n)
    BY <1>0, SameProgram
  <1>2. count <= limits.single /\ count <= limits.cumulative - loop_iterations
    BY DEF BudgetAllows
  <1>3. loop_iterations' \in Nat /\ loop_iterations' <= limits'.cumulative
    BY <1>0, <1>2
  <1> DEFINE j == Len(log) + 1
  <1>4. /\ log' \in Seq(Range(log)') /\ DOMAIN log' = DOMAIN log \cup {j} /\ log'[j] = e
        /\ \A i \in DOMAIN log : log'[i] = log[i]
    BY LogGrows
  <1> HIDE DEF j
  <1>5. \A i \in DOMAIN log' :
           program'.nodes[log'[i].node].kind = "Loop" =>
              log'[i].count \in Nat /\ log'[i].count <= limits'.single
    <2> SUFFICES ASSUME NEW i \in DOMAIN log', IsLoop(log'[i].node)
                 PROVE  log'[i].count \in Nat /\ log'[i].count <= limits.single
      BY <1>0 DEF IsLoop
    <2>1. CASE i \in DOMAIN log
      BY <1>4, <2>1 DEF LogInv
    <2>2. CASE i = j
      BY <1>2, <1>4, <2>2 DEF Logged
    <2> QED
      BY <1>4, <2>1, <2>2
  <1> DEFINE f == [n \in Loops |-> Reserved(n)]
             g == [n \in Loops |-> Reserved(n)']
  <1>6. SumFunction(g) = SumFunction(f) + count
    <2>1. /\ DOMAIN f = Loops /\ DOMAIN g = Loops /\ IsFiniteSet(Loops)
          /\ \A n \in Loops : f[n] \in Nat
          /\ \A n \in Loops : f[n] = Reserved(n) /\ g[n] = Reserved(n)'
      BY LogFacts, TreeFacts
    <2> HIDE DEF f, g
    <2>2. \A n \in Loops : n # Current => g[n] = f[n]
      BY <2>1, LoggedGrows
    <2>3. CASE IsLoop(Current)
      <3>1. Current \in Loops
        BY <2>3 DEF Loops
      <3>2. g[Current] = f[Current] + count
        <4>1. \A n \in Loops : n = Current => g[n] = f[n] + count
          BY <2>1, LoggedGrows
        <4> QED
          BY <3>1, <4>1
      <3> QED
        BY <2>1, <2>2, <3>1, <3>2, SumIncreases
    <2>4. CASE ~IsLoop(Current)
      <3>1. \A n \in Loops : n # Current
        BY <2>4 DEF Loops
      <3>2. f = g
        <4>1. \A n \in Loops : g[n] = f[n]
          BY <2>2, <3>1
        <4>2. f = [n \in DOMAIN f |-> f[n]] /\ g = [n \in DOMAIN g |-> g[n]]
          BY DEF f, g
        <4> QED
          BY <2>1, <4>1, <4>2
      <3>3. count = 0 /\ SumFunction(f) \in Nat
        BY <2>1, <2>4, SumIsNat DEF Logged
      <3> QED
        BY <3>2, <3>3
    <2> QED
      BY <2>3, <2>4
  <1>7. loop_iterations = SumFunction(f)
    BY DEF LogInv
  <1>8. loop_iterations' = SumFunction(g)
    BY <1>6, <1>7
  <1>9. g = [n \in Loops' |-> Reserved(n)']
    BY <1>1
  <1> HIDE DEF f, g
  <1>10. loop_iterations' = SumFunction([n \in Loops' |-> Reserved(n)'])
    BY <1>8, <1>9
  <1> QED
    BY <1>3, <1>4, <1>5, <1>10 DEF LogInv, IsLoop

-----------------------------------------------------------------------------
(* What is left to do.                                                      *)

LEMMA LeftIsNat ==
    ASSUME StackInv, NEW i \in DOMAIN frames, NEW c
    PROVE  Left(i, c) \in Nat
  <1>1. /\ frames[i].count \in Nat /\ frames[i].iteration \in Nat
        /\ frames[i].iteration < frames[i].count
    BY FrameFacts DEF StackInv
  <1> QED
    BY <1>1 DEF Left

\* Nothing is reached and nothing charged: frames move only.
LEMMA BalanceMoves ==
    ASSUME InputsInv, LogInv, WorkInv, UNCHANGED <<inputs, log, loop_iterations>>,
           \A m \in Loops : \A c \in DOMAIN Body(m) :
              \/ \E i \in DOMAIN frames, k \in DOMAIN frames' :
                    /\ NodeOf(i) = m /\ NodeOf(k)' = m
                    /\ \A h \in DOMAIN frames' : NodeOf(h)' = m => h = k
                    /\ Left(k, c)' = Left(i, c)
              \/ \E i \in DOMAIN frames :
                    /\ NodeOf(i) = m /\ Left(i, c) = 0
                    /\ \A h \in DOMAIN frames' : NodeOf(h)' # m
              \/ /\ \A h \in DOMAIN frames : NodeOf(h) # m
                 /\ \A h \in DOMAIN frames' : NodeOf(h)' # m
    PROVE  WorkInv'
  <1>1. LogInv' /\ \A n : Reached(n)' = Reached(n) /\ Reserved(n)' = Reserved(n)
    BY LogKept
  <1>2. Loops' = Loops /\ \A n : Body(n)' = Body(n)
    BY SameProgram DEF inputs
  <1>3. ASSUME NEW m \in Loops, NEW c \in DOMAIN Body(m)
        PROVE  Balanced(m, c)'
    <2>1. Reached(Body(m)[c]) \in Nat /\ Reserved(m) \in Nat /\ Balanced(m, c)
      BY LogFacts DEF WorkInv
    <2>2. Reached(Body(m)[c])' = Reached(Body(m)[c]) /\ Reserved(m)' = Reserved(m)
      BY <1>1, <1>2 DEF Reached, Entries
    <2>3. CASE \E i \in DOMAIN frames, k \in DOMAIN frames' :
                    /\ NodeOf(i) = m /\ NodeOf(k)' = m
                    /\ \A h \in DOMAIN frames' : NodeOf(h)' = m => h = k
                    /\ Left(k, c)' = Left(i, c)
      <3>1. PICK i \in DOMAIN frames, k \in DOMAIN frames' :
                    /\ NodeOf(i) = m /\ NodeOf(k)' = m
                    /\ \A h \in DOMAIN frames' : NodeOf(h)' = m => h = k
                    /\ Left(k, c)' = Left(i, c)
        BY <2>3
      <3>2. Reached(Body(m)[c]) + Left(i, c) = Reserved(m)
        BY <2>1, <3>1 DEF Balanced
      <3> QED
        BY <2>2, <3>1, <3>2 DEF Balanced
    <2>4. CASE \E i \in DOMAIN frames :
                    /\ NodeOf(i) = m /\ Left(i, c) = 0
                    /\ \A h \in DOMAIN frames' : NodeOf(h)' # m
      <3>1. PICK i \in DOMAIN frames :
                    /\ NodeOf(i) = m /\ Left(i, c) = 0
                    /\ \A h \in DOMAIN frames' : NodeOf(h)' # m
        BY <2>4
      <3>2. Reached(Body(m)[c]) + Left(i, c) = Reserved(m)
        BY <2>1, <3>1 DEF Balanced
      <3>3. Reached(Body(m)[c]) = Reserved(m)
        BY <2>1, <3>1, <3>2
      <3> QED
        BY <2>2, <3>1, <3>3 DEF Balanced
    <2>5. CASE /\ \A h \in DOMAIN frames : NodeOf(h) # m
               /\ \A h \in DOMAIN frames' : NodeOf(h)' # m
      BY <2>1, <2>2, <2>5 DEF Balanced
    <2> QED
      BY <2>3, <2>4, <2>5
  <1>4. \A m \in Loops' : \A c \in DOMAIN Body(m)' : Balanced(m, c)'
    BY <1>2, <1>3
  <1> QED
    BY <1>1, <1>4 DEF WorkInv

\* A node is reached once more, and if it is a loop, charged.
LEMMA BalanceGrows ==
    ASSUME InputsInv, LogInv, WorkInv, LogInv', UNCHANGED inputs,
           NEW e, NEW count \in Nat, Logged(e, count), log' = Append(log, e),
           \A m \in Loops : \A c \in DOMAIN Body(m) :
              LET more == IF m = Current THEN count ELSE 0
                  once == IF Body(m)[c] = Current THEN 1 ELSE 0
              IN  \/ \E i \in DOMAIN frames, k \in DOMAIN frames' :
                        /\ NodeOf(i) = m /\ NodeOf(k)' = m
                        /\ \A h \in DOMAIN frames' : NodeOf(h)' = m => h = k
                        /\ Left(k, c)' \in Nat /\ Left(i, c) \in Nat
                        /\ Left(k, c)' + once = Left(i, c) + more
                  \/ \E k \in DOMAIN frames' :
                        /\ \A h \in DOMAIN frames : NodeOf(h) # m
                        /\ NodeOf(k)' = m
                        /\ \A h \in DOMAIN frames' : NodeOf(h)' = m => h = k
                        /\ Left(k, c)' = more /\ once = 0
                  \/ /\ \A h \in DOMAIN frames : NodeOf(h) # m
                     /\ \A h \in DOMAIN frames' : NodeOf(h)' # m
                     /\ more = 0 /\ once = 0
    PROVE  WorkInv'
  <1>1. /\ \A n : Reached(n)' = Reached(n) + (IF n = Current THEN 1 ELSE 0)
        /\ \A n \in Loops : Reserved(n)' = Reserved(n) + (IF n = Current THEN count ELSE 0)
    BY LoggedGrows
  <1>2. Loops' = Loops /\ (\A n : Body(n)' = Body(n)) /\ program' = program
    BY SameProgram DEF inputs
  <1>3. ASSUME NEW m \in Loops, NEW c \in DOMAIN Body(m)
        PROVE  Balanced(m, c)'
    <2> DEFINE more == IF m = Current THEN count ELSE 0
               once == IF Body(m)[c] = Current THEN 1 ELSE 0
               reached == Reached(Body(m)[c])
               reserved == Reserved(m)
    <2>1. reached \in Nat /\ reserved \in Nat /\ Balanced(m, c)
      BY LogFacts DEF WorkInv
    <2>2. Reached(Body(m)[c])' = reached + once
      <3>1. \A n : n = Body(m)[c] => Reached(n)' = Reached(n) + once
        BY <1>1
      <3>2. PICK n : n = Body(m)[c]
        OBVIOUS
      <3>3. Reached(n)' = Reached(n) + once
        BY <3>1, <3>2
      <3>4. Reached(Body(m)[c])' = Reached(n)'
        BY <1>2, <3>2 DEF Reached, Entries
      <3> QED
        BY <3>2, <3>3, <3>4
    <2>3. Reserved(m)' = reserved + more
      BY <1>1
    <2>4. more \in Nat /\ once \in Nat
      OBVIOUS
    <2>5. \/ \E i \in DOMAIN frames, k \in DOMAIN frames' :
                        /\ NodeOf(i) = m /\ NodeOf(k)' = m
                        /\ \A h \in DOMAIN frames' : NodeOf(h)' = m => h = k
                        /\ Left(k, c)' \in Nat /\ Left(i, c) \in Nat
                        /\ Left(k, c)' + once = Left(i, c) + more
          \/ \E k \in DOMAIN frames' :
                        /\ \A h \in DOMAIN frames : NodeOf(h) # m
                        /\ NodeOf(k)' = m
                        /\ \A h \in DOMAIN frames' : NodeOf(h)' = m => h = k
                        /\ Left(k, c)' = more /\ once = 0
          \/ /\ \A h \in DOMAIN frames : NodeOf(h) # m
             /\ \A h \in DOMAIN frames' : NodeOf(h)' # m
             /\ more = 0 /\ once = 0
      OBVIOUS
    <2> HIDE DEF more, once, reached, reserved
    <2>6. ASSUME NEW i \in DOMAIN frames, NEW k \in DOMAIN frames',
                        NodeOf(i) = m, NodeOf(k)' = m,
                        \A h \in DOMAIN frames' : NodeOf(h)' = m => h = k,
                        Left(k, c)' \in Nat, Left(i, c) \in Nat,
                        Left(k, c)' + once = Left(i, c) + more
          PROVE  Balanced(m, c)'
      <3>1. reached + Left(i, c) = reserved
        BY <2>1, <2>6 DEF Balanced, reached, reserved
      <3>2. (reached + once) + Left(k, c)' = reserved + more
        <4>1. PICK before \in Nat : before = Left(i, c)
          BY <2>6
        <4>2. PICK after \in Nat : after = Left(k, c)'
          BY <2>6
        <4>3. reached + before = reserved /\ after + once = before + more
          BY <2>6, <3>1, <4>1, <4>2
        <4>4. (reached + once) + after = reserved + more
          BY <2>1, <2>4, <4>3, Z3
        <4> QED
          BY <4>2, <4>4
      <3> QED
        BY <2>2, <2>3, <2>6, <3>2 DEF Balanced
    <2>7. ASSUME NEW k \in DOMAIN frames', \A h \in DOMAIN frames : NodeOf(h) # m,
                        NodeOf(k)' = m,
                        \A h \in DOMAIN frames' : NodeOf(h)' = m => h = k,
                        Left(k, c)' = more, once = 0
          PROVE  Balanced(m, c)'
      <3>1. reached = reserved
        BY <2>1, <2>7 DEF Balanced, reached, reserved
      <3>2. (reached + once) + Left(k, c)' = reserved + more
        BY <2>1, <2>4, <2>7, <3>1
      <3> QED
        BY <2>2, <2>3, <2>7, <3>2 DEF Balanced
    <2>8. CASE /\ \A h \in DOMAIN frames : NodeOf(h) # m
               /\ \A h \in DOMAIN frames' : NodeOf(h)' # m
               /\ more = 0 /\ once = 0
      <3>1. reached = reserved
        BY <2>1, <2>8 DEF Balanced, reached, reserved
      <3>2. reached + once = reserved + more
        BY <2>1, <2>8, <3>1
      <3> QED
        BY <2>2, <2>3, <2>8, <3>2 DEF Balanced
    <2> QED
      BY <2>5, <2>6, <2>7, <2>8
  <1>4. \A m \in Loops' : \A c \in DOMAIN Body(m)' : Balanced(m, c)'
    BY <1>2, <1>3
  <1> QED
    BY <1>4 DEF WorkInv

-----------------------------------------------------------------------------
(* One step after the other.                                                *)

LEMMA InputsKept ==
    ASSUME InputsInv, UNCHANGED inputs
    PROVE  InputsInv' /\ program' = program /\ limits' = limits
  BY DEF InputsInv, inputs

\* The walk stands where it stood, and may have given up.
LEMMA StandingKeepsInv ==
    ASSUME WalkInv, UNCHANGED <<inputs, root, prepared, values, frames, loop_iterations, log>>,
           StageInv', stage' = stage \/ stage' = "failed"
    PROVE  WalkInv'
  <1>1. InputsInv' /\ program' = program
    BY InputsKept DEF WalkInv
  <1>2. /\ \A i : /\ NodeOf(i)' = NodeOf(i) /\ VarOf(i)' = VarOf(i)
                  /\ \A c : Left(i, c)' = Left(i, c)
        /\ \A n : Body(n)' = Body(n) /\ Within(n)' = Within(n)
        /\ Loops' = Loops /\ Frame' = Frame /\ Nodes' = Nodes
    BY <1>1, SameProgram DEF NodeOf, VarOf, Left, Within
  <1>3. StackInv' /\ ValuesInv'
    BY <1>1, <1>2 DEF WalkInv, StackInv, ValuesInv
  <1>4. TableInv'
    BY <1>1, <1>2 DEF WalkInv, BindingInv, TableInv
  <1>5. \A i : SeesOuter(i)' <=> SeesOuter(i)
    BY <1>2 DEF SeesOuter
  <1>6. \A i \in DOMAIN frames' : FrameBound(i)'
    BY <1>2, <1>5 DEF WalkInv, BindingInv, FrameBound
  <1>7. BindingInv'
    BY <1>4, <1>6 DEF BindingInv, WalkInv
  <1>8. WorkInv'
    <2>1. LogInv' /\ \A n : Reached(n)' = Reached(n) /\ Reserved(n)' = Reserved(n)
      BY LogKept DEF WalkInv, WorkInv
    <2>2. \A m \in Loops : \A c \in DOMAIN Body(m) : Balanced(m, c)'
      <3> SUFFICES ASSUME NEW m \in Loops, NEW c \in DOMAIN Body(m) PROVE Balanced(m, c)'
        OBVIOUS
      <3>1. Balanced(m, c)
        BY DEF WalkInv, WorkInv
      <3>2. Reached(Body(m)[c])' = Reached(Body(m)[c]) /\ Reserved(m)' = Reserved(m)
        BY <1>1, <2>1 DEF Body, Reached, Entries
      <3> QED
        BY <1>2, <3>1, <3>2 DEF Balanced
    <2> QED
      BY <1>2, <2>1, <2>2 DEF WorkInv
  <1> QED
    BY <1>1, <1>3, <1>7, <1>8 DEF WalkInv

LEMMA FailingKeepsInv ==
    ASSUME WalkInv, UNCHANGED <<inputs, root, prepared, values, frames, loop_iterations, log>>,
           stage' = "failed", failure' # "overflow"
    PROVE  WalkInv'
  <1>1. StageInv'
    BY DEF StageInv
  <1> QED
    BY <1>1, StandingKeepsInv

LEMMA StutteringKeepsInv ==
    ASSUME WalkInv, UNCHANGED vars
    PROVE  WalkInv'
  <1>1. /\ UNCHANGED <<inputs, root, prepared, values, frames, loop_iterations, log>>
        /\ UNCHANGED <<stage, failure, program>>
    BY DEF vars, inputs
  <1>2. StageInv'
    BY <1>1 DEF WalkInv, StageInv
  <1> QED
    BY <1>1, <1>2, StandingKeepsInv

LEMMA AdvancedTop ==
    ASSUME StackInv, frames # <<>>
    PROVE  LET f == [Top EXCEPT !.child = @ + 1]
           IN  /\ f \in Frame
               /\ [frames EXCEPT ![Len(frames)].child = @ + 1] = Retop(f)
               /\ f.node = Top.node /\ f.value = Top.value /\ f.count = Top.count
               /\ f.iteration = Top.iteration /\ f.child = Top.child + 1
  <1>1. Len(frames) \in DOMAIN frames /\ Top \in Frame
    BY FrameFacts DEF Top
  <1> QED
    BY <1>1 DEF Frame, Retop, Top

\* The walk goes on behind the node it stands before.
LEMMA PassingKeepsBalance ==
    ASSUME WalkInv, Ready, StackInv', LogInv', UNCHANGED inputs,
           NEW e, Logged(e, 0), log' = Append(log, e),
           IF frames # <<>> THEN frames' = Retop([Top EXCEPT !.child = @ + 1])
           ELSE UNCHANGED frames
    PROVE  WorkInv'
  <1>1. InputsInv /\ StageInv /\ StackInv /\ LogInv /\ WorkInv
    BY DEF WalkInv, WorkInv
  <1>2. \A m \in Loops : \A c \in DOMAIN Body(m) :
           Body(m)[c] = Current => frames # <<>> /\ m = Top.node /\ c = Top.child
    BY <1>1, CurrentFacts
  <1>3. CASE frames = <<>>
    <2>1. DOMAIN frames = {} /\ DOMAIN frames' = {}
      BY <1>3
    <2>2. \A m \in Loops : \A c \in DOMAIN Body(m) : Body(m)[c] # Current
      BY <1>2, <1>3
    <2> QED
      BY <1>1, <2>1, <2>2, BalanceGrows
  <1>4. CASE frames # <<>>
    <2>0. PICK L \in Nat : L = Len(frames)
      BY <1>1, FrameFacts
    <2> DEFINE f == [Top EXCEPT !.child = @ + 1]
    <2>1. /\ f \in Frame /\ frames' = Retop(f)
          /\ f.node = Top.node /\ f.count = Top.count
          /\ f.iteration = Top.iteration /\ f.child = Top.child + 1
      BY <1>1, <1>4, AdvancedTop
    <2> HIDE DEF f
    <2>2. /\ L \in DOMAIN frames /\ frames[L] = Top
          /\ DOMAIN frames' = DOMAIN frames /\ Len(frames)' = L
          /\ \A i \in DOMAIN frames : i # L => frames'[i] = frames[i]
          /\ frames'[L] = f
      BY <1>1, <1>4, <2>0, <2>1, FrameFacts, RetopFacts DEF Top
    <2>3. \A i \in DOMAIN frames : NodeOf(i)' = NodeOf(i)
      BY <2>1, <2>2 DEF NodeOf
    <2>4. \A h, k \in DOMAIN frames' : NodeOf(h)' = NodeOf(k)' => h = k
      BY DEF StackInv
    <2>5. /\ Top.node = NodeOf(L) /\ Top.child \in DOMAIN Body(Top.node)
          /\ Current = Body(Top.node)[Top.child]
      BY <1>1, <1>4, <2>0, CurrentFacts
    <2>6. ASSUME NEW i \in DOMAIN frames, NEW c \in DOMAIN Body(NodeOf(i))
          PROVE  /\ Left(i, c)' \in Nat /\ Left(i, c) \in Nat
                 /\ Left(i, c)' + (IF Body(NodeOf(i))[c] = Current THEN 1 ELSE 0) = Left(i, c)
      <3>1. /\ frames[i].count \in Nat /\ frames[i].iteration \in Nat
            /\ frames[i].child \in Nat \ {0} /\ NodeOf(i) \in Loops
            /\ frames[i].iteration < frames[i].count
        BY <1>1, FrameFacts DEF StackInv
      <3>2. c \in Nat
        <4>1. Body(NodeOf(i)) \in Seq(Nodes)
          BY <1>1, <3>1, TreeFacts
        <4> QED
          BY <4>1
      <3>3. CASE i = L
        <4>1. Body(NodeOf(i))[c] = Current <=> c = frames[i].child
          BY <1>2, <2>2, <2>5, <3>1, <3>3
        <4>2. /\ frames'[i].count = frames[i].count
              /\ frames'[i].iteration = frames[i].iteration
              /\ frames'[i].child = frames[i].child + 1
          BY <2>1, <2>2, <3>3
        <4> QED
          BY <2>0, <2>2, <3>1, <3>2, <3>3, <4>1, <4>2 DEF Left
      <3>4. CASE i # L
        <4>1. Body(NodeOf(i))[c] # Current
          BY <1>1, <1>2, <2>2, <2>5, <3>1, <3>4 DEF StackInv
        <4>2. frames'[i] = frames[i]
          BY <2>2, <3>4
        <4>3. Left(i, c)' = Left(i, c)
          BY <2>0, <2>2, <4>2 DEF Left
        <4>4. Left(i, c) \in Nat
          BY <1>1, LeftIsNat
        <4> QED
          BY <4>1, <4>3, <4>4
      <3> QED
        BY <3>3, <3>4
    <2>7. ASSUME NEW m \in Loops, NEW c \in DOMAIN Body(m)
          PROVE  LET more == IF m = Current THEN 0 ELSE 0
                     once == IF Body(m)[c] = Current THEN 1 ELSE 0
                 IN  \/ \E i \in DOMAIN frames, k \in DOMAIN frames' :
                           /\ NodeOf(i) = m /\ NodeOf(k)' = m
                           /\ \A h \in DOMAIN frames' : NodeOf(h)' = m => h = k
                           /\ Left(k, c)' \in Nat /\ Left(i, c) \in Nat
                           /\ Left(k, c)' + once = Left(i, c) + more
                     \/ \E k \in DOMAIN frames' :
                           /\ \A h \in DOMAIN frames : NodeOf(h) # m
                           /\ NodeOf(k)' = m
                           /\ \A h \in DOMAIN frames' : NodeOf(h)' = m => h = k
                           /\ Left(k, c)' = more /\ once = 0
                     \/ /\ \A h \in DOMAIN frames : NodeOf(h) # m
                        /\ \A h \in DOMAIN frames' : NodeOf(h)' # m
                        /\ more = 0 /\ once = 0
      <3>1. CASE \E i \in DOMAIN frames : NodeOf(i) = m
        <4>1. PICK i \in DOMAIN frames : NodeOf(i) = m
          BY <3>1
        <4>2. /\ i \in DOMAIN frames' /\ NodeOf(i)' = m
              /\ \A h \in DOMAIN frames' : NodeOf(h)' = m => h = i
          BY <2>2, <2>3, <2>4, <4>1
        <4>3. /\ Left(i, c)' \in Nat /\ Left(i, c) \in Nat
              /\ Left(i, c)' + (IF Body(m)[c] = Current THEN 1 ELSE 0) = Left(i, c)
          BY <2>6, <4>1
        <4> QED
          BY <4>1, <4>2, <4>3
      <3>2. CASE \A i \in DOMAIN frames : NodeOf(i) # m
        <4>1. Body(m)[c] # Current
          BY <1>2, <2>2, <2>5, <3>2
        <4>2. \A h \in DOMAIN frames' : NodeOf(h)' # m
          BY <2>2, <2>3, <3>2
        <4> QED
          BY <3>2, <4>1, <4>2
      <3> QED
        BY <3>1, <3>2
    <2> QED
      BY <1>1, <2>7, BalanceGrows
  <1> QED
    BY <1>3, <1>4

LEMMA PassingKeepsInv ==
    ASSUME WalkInv, Ready, StepOver, UNCHANGED <<inputs, loop_iterations>>,
           NEW e, Logged(e, 0), log' = Append(log, e)
    PROVE  WalkInv'
  <1>1. /\ InputsInv /\ StageInv /\ StackInv /\ ValuesInv /\ BindingInv /\ LogInv
        /\ Current \in Nodes
    BY CurrentFacts DEF WalkInv, WorkInv
  <1>2. InputsInv' /\ program' = program /\ limits' = limits
    BY <1>1, InputsKept
  <1>3. LogInv'
    <2>1. loop_iterations \in Nat /\ limits.single \in Nat /\ limits.cumulative \in Nat
          /\ loop_iterations <= limits.cumulative
      BY <1>1 DEF LogInv, InputsInv
    <2>2. BudgetAllows(0) /\ loop_iterations' = loop_iterations + 0
      BY <2>1 DEF BudgetAllows
    <2> QED
      BY <1>1, <2>2, LoggedKeepsLog
  <1>4. CASE frames # <<>>
    <2> DEFINE f == [Top EXCEPT !.child = @ + 1]
    <2>1. /\ frames' = [frames EXCEPT ![Len(frames)].child = @ + 1]
          /\ prepared' = Prepared /\ values' = PreparedValues
          /\ UNCHANGED <<root, stage, failure>>
      BY <1>4 DEF StepOver
    <2>2. /\ f \in Frame /\ frames' = Retop(f) /\ f.node = Top.node /\ f.value = Top.value
          /\ f.count = Top.count /\ f.iteration = Top.iteration /\ f.child = Top.child + 1
      BY <1>1, <1>4, <2>1, AdvancedTop
    <2>3. /\ Len(frames) \in DOMAIN frames /\ Top = frames[Len(frames)]
          /\ Top.node = NodeOf(Len(frames)) /\ Top.node \in Loops
          /\ Top.child \in DOMAIN Body(Top.node) /\ Body(Top.node) \in Seq(Nodes)
      BY <1>1, <1>4, FrameFacts, CurrentFacts, TreeFacts DEF Top
    <2> HIDE DEF f
    <2>4. StackInv' /\ ValuesInv'
      <3>1. /\ f.iteration < f.count
            /\ f.value + (f.count - 1 - f.iteration) * program.nodes[f.node].step \in Word
        BY <1>1, <2>2, <2>3 DEF StackInv, ValuesInv
      <3>2. f.child <= Len(Body(f.node)) + 1
        BY <2>2, <2>3
      <3> QED
        BY <1>1, <1>2, <1>4, <2>1, <2>2, <3>1, <3>2, RetopKeepsPath
    <2>5. StageInv'
      <3>1. frames' # <<>>
        BY <1>1, <1>4, <2>2, <2>3, RetopFacts
      <3>2. stage = "walking"
        BY DEF Ready
      <3> QED
        BY <1>1, <1>2, <2>1, <3>2 DEF StageInv
    <2>6. BindingInv'
      <3>1. /\ \A n \in DOMAIN prepared : n \in DOMAIN prepared' /\ prepared'[n] = prepared[n]
            /\ \A s \in DOMAIN values : values'[s] = values[s]
            /\ values' \in Seq(Word)
        BY <1>1, <2>1, PreparedFacts
      <3>2. TableInv'
        BY <1>1, <1>2, <2>1, <3>1, PreparingKeepsTable
      <3>3. \A i \in DOMAIN frames :
               /\ prepared[NodeOf(i)].slot \in DOMAIN values
               /\ values[prepared[NodeOf(i)].slot] = frames[i].value
        <4>1. \A i \in DOMAIN frames : NodeOf(i) \in DOMAIN prepared \cap Loops
          BY <1>1, FrameFacts DEF BindingInv, FrameBound
        <4> QED
          BY <1>1, <4>1 DEF BindingInv, TableInv, FrameBound
      <3>4. values'[prepared[f.node].slot] = f.value
        BY <2>2, <2>3, <3>1, <3>3
      <3> QED
        BY <1>1, <1>2, <1>4, <2>2, <3>1, <3>2, <3>3, <3>4, RetopKeepsBinding
    <2>7. WorkInv'
      BY <1>3, <1>4, <2>2, <2>4, PassingKeepsBalance DEF f
    <2> QED
      BY <1>2, <2>4, <2>5, <2>6, <2>7 DEF WalkInv
  <1>5. CASE frames = <<>>
    <2>1. /\ root' = root + 1 /\ frames' = <<>>
          /\ prepared' = [n \in {} |-> 0] /\ values' = <<>>
          /\ stage' = IF root = Len(program.roots) THEN "done" ELSE stage
          /\ failure' = failure
      BY <1>5 DEF StepOver
    <2>2. StackInv' /\ ValuesInv'
      BY <2>1, NoPath
    <2>3. BindingInv'
      BY <2>1, NothingBound
    <2>4. StageInv'
      <3>1. stage = "walking" /\ root \in DOMAIN program.roots /\ program.roots \in Seq(Nodes)
        BY <1>1, TreeFacts DEF Ready, StageInv
      <3>2. root # Len(program.roots) => root + 1 \in DOMAIN program.roots
        BY <3>1
      <3> QED
        BY <1>1, <1>2, <2>1, <3>1, <3>2 DEF StageInv
    <2>5. WorkInv'
      BY <1>3, <1>5, <2>1, <2>2, PassingKeepsBalance
    <2> QED
      BY <1>2, <2>2, <2>3, <2>4, <2>5 DEF WalkInv
  <1> QED
    BY <1>4, <1>5

(* A loop is entered: it was charged for what its body has still to run.    *)
LEMMA PushKeepsBalance ==
    ASSUME WalkInv, Ready, IsLoop(Current), StackInv', LogInv', UNCHANGED inputs,
           NEW e, NEW count \in Nat, Logged(e, count), log' = Append(log, e),
           NEW f \in Frame, frames' = Append(frames, f), f.node = Current,
           f.count = count, f.iteration = 0, f.child = 1
    PROVE  WorkInv'
  <1>1. InputsInv /\ StageInv /\ StackInv /\ LogInv /\ WorkInv
    BY DEF WalkInv, WorkInv
  <1>2. \A m \in Loops : \A c \in DOMAIN Body(m) :
           Body(m)[c] = Current => frames # <<>> /\ m = Top.node /\ c = Top.child
    BY <1>1, CurrentFacts
  <1>3. \A i \in DOMAIN frames : NodeOf(i) # Current
    BY <1>1, CurrentFacts
  <1>0. PICK L \in Nat : L = Len(frames)
    BY <1>1, FrameFacts
  <1>4. /\ DOMAIN frames = 1 .. L /\ DOMAIN frames' = 1 .. L + 1 /\ Len(frames)' = L + 1
        /\ \A i \in DOMAIN frames : i \in DOMAIN frames' /\ frames'[i] = frames[i]
        /\ \A i \in DOMAIN frames' : i \in DOMAIN frames \/ i = L + 1
        /\ frames'[L + 1] = f
    BY <1>0, <1>1, FrameFacts, PushFacts
  <1>5. /\ \A i \in DOMAIN frames : NodeOf(i)' = NodeOf(i)
        /\ \A i \in DOMAIN frames' : i = L + 1 => NodeOf(i)' = Current
    BY <1>4 DEF NodeOf
  <1>6. \A h, k \in DOMAIN frames' : NodeOf(h)' = NodeOf(k)' => h = k
    BY DEF StackInv
  <1>7. frames # <<>> =>
           /\ L \in DOMAIN frames /\ Top = frames[L] /\ Top.node = NodeOf(L)
           /\ Current = Body(Top.node)[Top.child]
    BY <1>0, <1>1, FrameFacts, CurrentFacts DEF Top
  <1>8. \A m \in Loops : \A c \in DOMAIN Body(m) : c \in Nat \ {0}
    <2>1. \A m \in Loops : Body(m) \in Seq(Nodes)
      BY <1>1, TreeFacts
    <2> QED
      BY <2>1
  <1>9. ASSUME NEW i \in DOMAIN frames, NEW c \in DOMAIN Body(NodeOf(i))
        PROVE  /\ Left(i, c)' \in Nat /\ Left(i, c) \in Nat
               /\ Left(i, c)' + (IF Body(NodeOf(i))[c] = Current THEN 1 ELSE 0) = Left(i, c)
    <2>1. /\ frames[i].count \in Nat /\ frames[i].iteration \in Nat
          /\ frames[i].child \in Nat \ {0} /\ NodeOf(i) \in Loops
          /\ frames[i].iteration < frames[i].count
      BY <1>1, FrameFacts DEF StackInv
    <2>2. c \in Nat \ {0} /\ frames'[i] = frames[i] /\ frames # <<>>
      BY <1>4, <1>8, <2>1
    <2>3. CASE i = L
      <3>1. Body(NodeOf(i))[c] = Current <=> c = frames[i].child
        BY <1>2, <1>7, <2>1, <2>2, <2>3
      <3> QED
        BY <1>0, <1>4, <2>1, <2>2, <2>3, <3>1 DEF Left
    <2>4. CASE i # L
      <3>1. Body(NodeOf(i))[c] # Current
        BY <1>1, <1>2, <1>7, <2>1, <2>2, <2>4 DEF StackInv
      <3>2. i < L /\ i < L + 1
        BY <1>4, <2>4
      <3> QED
        BY <1>0, <1>4, <2>1, <2>2, <3>1, <3>2 DEF Left
    <2> QED
      BY <2>3, <2>4
  <1>10. ASSUME NEW m \in Loops, NEW c \in DOMAIN Body(m)
         PROVE  LET more == IF m = Current THEN count ELSE 0
                    once == IF Body(m)[c] = Current THEN 1 ELSE 0
                IN  \/ \E i \in DOMAIN frames, k \in DOMAIN frames' :
                          /\ NodeOf(i) = m /\ NodeOf(k)' = m
                          /\ \A h \in DOMAIN frames' : NodeOf(h)' = m => h = k
                          /\ Left(k, c)' \in Nat /\ Left(i, c) \in Nat
                          /\ Left(k, c)' + once = Left(i, c) + more
                    \/ \E k \in DOMAIN frames' :
                          /\ \A h \in DOMAIN frames : NodeOf(h) # m
                          /\ NodeOf(k)' = m
                          /\ \A h \in DOMAIN frames' : NodeOf(h)' = m => h = k
                          /\ Left(k, c)' = more /\ once = 0
                    \/ /\ \A h \in DOMAIN frames : NodeOf(h) # m
                       /\ \A h \in DOMAIN frames' : NodeOf(h)' # m
                       /\ more = 0 /\ once = 0
    <2>1. CASE \E i \in DOMAIN frames : NodeOf(i) = m
      <3>1. PICK i \in DOMAIN frames : NodeOf(i) = m
        BY <2>1
      <3>2. /\ i \in DOMAIN frames' /\ NodeOf(i)' = m /\ m # Current
            /\ \A h \in DOMAIN frames' : NodeOf(h)' = m => h = i
        BY <1>3, <1>4, <1>5, <1>6, <3>1
      <3>3. /\ Left(i, c)' \in Nat /\ Left(i, c) \in Nat
            /\ Left(i, c)' + (IF Body(m)[c] = Current THEN 1 ELSE 0) = Left(i, c) + 0
        <4>1. /\ Left(i, c)' \in Nat /\ Left(i, c) \in Nat
              /\ Left(i, c)' + (IF Body(m)[c] = Current THEN 1 ELSE 0) = Left(i, c)
          BY <1>9, <3>1
        <4> QED
          BY <4>1
      <3> QED
        BY <3>1, <3>2, <3>3
    <2>2. CASE (\A i \in DOMAIN frames : NodeOf(i) # m) /\ m = Current
      <3>1. Body(m)[c] # Current
        BY <1>2, <1>7, <2>2
      <3>2. PICK k \in DOMAIN frames' : k = L + 1
        BY <1>0, <1>4
      <3>3. /\ NodeOf(k)' = m /\ frames'[k] = f
            /\ \A h \in DOMAIN frames' : NodeOf(h)' = m => h = k
        BY <1>4, <1>5, <1>6, <2>2, <3>2
      <3>4. Left(k, c)' = count
        <4>1. Len(frames)' = k /\ c \in Nat \ {0} /\ k \in Nat
          BY <1>4, <1>8, <3>2
        <4> QED
          BY <3>3, <4>1 DEF Left
      <3> QED
        BY <2>2, <3>1, <3>3, <3>4
    <2>3. CASE (\A i \in DOMAIN frames : NodeOf(i) # m) /\ m # Current
      <3>1. Body(m)[c] # Current
        BY <1>2, <1>7, <2>3
      <3>2. \A h \in DOMAIN frames' : NodeOf(h)' # m
        BY <1>4, <1>5, <2>3
      <3> QED
        BY <2>3, <3>1, <3>2
    <2> QED
      BY <2>1, <2>2, <2>3
  <1> QED
    BY <1>1, <1>10, BalanceGrows

LEMMA FrameStarts ==
    ASSUME NEW n \in Loops, NEW v \in Word, NEW c \in Nat, NEW i \in Nat, NEW d \in Nat \ {0}
    PROVE  [node |-> n, value |-> v, count |-> c, iteration |-> i, child |-> d] \in Frame
  BY DEF Frame

(* A body is run once more, or was run for the last time.                   *)
LEMMA NextIterationKeepsInv ==
    ASSUME WalkInv, NextIteration
    PROVE  WalkInv'
  <1>1. InputsInv /\ StageInv /\ StackInv /\ ValuesInv /\ BindingInv /\ LogInv /\ WorkInv
    BY DEF WalkInv, WorkInv
  <1>2. /\ stage = "walking" /\ BodyEnds /\ MoreIterations /\ frames # <<>>
        /\ UNCHANGED <<inputs, root, prepared, loop_iterations, log>>
    BY DEF NextIteration, BodyEnds
  <1>3. InputsInv' /\ program' = program /\ limits' = limits
    BY <1>1, <1>2, InputsKept
  <1>0. PICK L \in Nat : L = Len(frames)
    BY <1>1, FrameFacts
  <1>4. /\ L \in DOMAIN frames /\ L # 0 /\ DOMAIN frames = 1 .. L
        /\ Top = frames[L] /\ Top \in Frame /\ Top.node = NodeOf(L) /\ NodeOf(L) \in Loops
        /\ Top.value \in Word /\ Top.count \in Nat /\ Top.iteration \in Nat
    BY <1>0, <1>1, <1>2, FrameFacts DEF Top, NodeOf
  <1> DEFINE step == program.nodes[Top.node].step
             value == Top.value + step
             k == Top.count - 1 - Top.iteration
             f == [Top EXCEPT !.value = value, !.iteration = @ + 1, !.child = 1]
  <1>5. step \in Word /\ step \in Int /\ Body(Top.node) \in Seq(Nodes)
    BY <1>1, <1>4, TreeFacts, WordBounds
  <1>6. k \in Nat \ {0}
    BY <1>2, <1>4 DEF MoreIterations
  <1>7. value \in Word /\ value + (k - 1) * step \in Word
    <2>1. Top.value + k * step \in Word
      BY <1>1, <1>4 DEF ValuesInv
    <2> HIDE DEF k, step
    <2> QED
      BY <1>4, <1>5, <1>6, <2>1, NextValueFits
  <1>8. /\ frames' = [frames EXCEPT ![Len(frames)].value = value,
                                    ![Len(frames)].iteration = @ + 1,
                                    ![Len(frames)].child = 1]
        /\ values' = [values EXCEPT ![prepared[Top.node].slot] = value]
        /\ UNCHANGED <<stage, failure>>
    BY <1>7 DEF NextIteration
  <1>9. /\ f \in Frame /\ f.node = Top.node /\ f.value = value /\ f.count = Top.count
        /\ f.iteration = Top.iteration + 1 /\ f.child = 1
    <2> HIDE DEF value, step, k
    <2>1. PICK i \in Nat, d \in Nat \ {0} : i = Top.iteration + 1 /\ d = 1
      BY <1>4
    <2>2. PICK t \in Frame, v \in Word : t = Top /\ v = value
      BY <1>4, <1>7
    <2>3. f = [t EXCEPT !.value = v, !.iteration = i, !.child = d]
      BY <2>1, <2>2, Zenon
    <2> HIDE DEF f
    <2>4. f \in Frame
      BY <2>3 DEF Frame
    <2>5. /\ f.node = t.node /\ f.value = v /\ f.count = t.count
          /\ f.iteration = i /\ f.child = d
      BY <2>3 DEF Frame
    <2> QED
      BY <2>1, <2>2, <2>4, <2>5, Zenon
  <1>10. frames' = Retop(f)
    BY <1>0, <1>4, <1>8 DEF Retop, Top, Frame
  <1> HIDE DEF f, step, k
  <1>11. f.count - 1 - f.iteration = k - 1
    BY <1>4, <1>9 DEF k
  <1>12. StackInv' /\ ValuesInv'
    <2>1. f.value + (f.count - 1 - f.iteration) * program.nodes[f.node].step \in Word
      BY <1>7, <1>9, <1>11 DEF step
    <2>2. f.iteration < f.count /\ f.child <= Len(Body(f.node)) + 1
      BY <1>4, <1>5, <1>6, <1>9 DEF k
    <2> QED
      BY <1>1, <1>2, <1>3, <1>9, <1>10, <2>1, <2>2, RetopKeepsPath
  <1>13. /\ DOMAIN frames' = DOMAIN frames /\ Len(frames)' = L
         /\ \A i \in DOMAIN frames : i # L => frames'[i] = frames[i]
         /\ frames'[L] = f
    BY <1>0, <1>1, <1>2, <1>9, <1>10, RetopFacts
  <1>14. StageInv'
    BY <1>1, <1>2, <1>3, <1>8 DEF StageInv
  <1>15. BindingInv'
    <2>1. values \in Seq(Word) /\ TableInv
      BY <1>1 DEF BindingInv, TableInv
    <2>2. \A i \in DOMAIN frames : /\ NodeOf(i) \in DOMAIN prepared \cap Loops
                                   /\ prepared[NodeOf(i)].slot \in DOMAIN values
      <3>1. \A i \in DOMAIN frames : NodeOf(i) \in DOMAIN prepared \cap Loops
        BY <1>1, FrameFacts DEF BindingInv, FrameBound
      <3> QED
        BY <2>1, <3>1 DEF TableInv
    <2> DEFINE s == prepared[Top.node].slot
    <2>3. s \in DOMAIN values
      BY <1>4, <2>2
    <2> HIDE DEF s
    <2>4. /\ values' \in Seq(Word) /\ DOMAIN values' = DOMAIN values /\ values'[s] = value
          /\ \A t \in DOMAIN values : t # s => values'[t] = values[t]
      <3>1. values' = [values EXCEPT ![s] = value]
        BY <1>8 DEF s
      <3> HIDE DEF value
      <3> QED
        BY <1>7, <2>1, <2>3, <3>1
    <2>5. TableInv'
      BY <1>2, <1>3, <2>1, <2>4, TableKept
    <2>6. \A i \in DOMAIN frames : i # L =>
             values'[prepared[NodeOf(i)].slot] = values[prepared[NodeOf(i)].slot]
      <3> SUFFICES ASSUME NEW i \in DOMAIN frames, i # L
                   PROVE  values'[prepared[NodeOf(i)].slot] = values[prepared[NodeOf(i)].slot]
        OBVIOUS
      <3>1. NodeOf(i) # NodeOf(L)
        BY <1>1, <1>4 DEF StackInv
      <3>2. prepared[NodeOf(i)].slot # s
        BY <1>4, <2>1, <2>2, <3>1 DEF TableInv, s
      <3> QED
        BY <2>2, <2>4, <3>2
    <2>7. values'[prepared[f.node].slot] = f.value
      BY <1>9, <2>4 DEF s
    <2> QED
      BY <1>0, <1>1, <1>2, <1>3, <1>9, <1>10, <2>5, <2>6, <2>7, RetopKeepsBinding
  <1>16. WorkInv'
    <2>1. \A i \in DOMAIN frames : NodeOf(i)' = NodeOf(i)
      BY <1>4, <1>9, <1>13 DEF NodeOf
    <2>2. ASSUME NEW i \in DOMAIN frames, NEW c \in DOMAIN Body(NodeOf(i))
          PROVE  Left(i, c)' = Left(i, c)
      <3>1. CASE i = L
        <4>1. c \in Nat \ {0} /\ c < Top.child
          <5>1. c \in DOMAIN Body(Top.node)
            BY <1>4, <2>2, <3>1
          <5>2. c \in 1 .. Len(Body(Top.node)) /\ Len(Body(Top.node)) \in Nat
            BY <1>5, <5>1
          <5>3. Top.child \in Nat /\ Top.child > Len(Body(Top.node))
            BY <1>2, <1>4 DEF BodyEnds, Frame
          <5> QED
            BY <5>2, <5>3
        <4>2. Left(i, c) = Top.count - Top.iteration - 1
          BY <1>4, <3>1, <4>1 DEF Left
        <4>3. Left(i, c)' = Top.count - (Top.iteration + 1) - 0
          BY <1>9, <1>13, <3>1, <4>1 DEF Left
        <4> QED
          BY <1>4, <4>2, <4>3
      <3>2. CASE i # L
        <4>1. frames'[i] = frames[i]
          BY <1>13, <3>2
        <4> QED
          BY <1>0, <1>13, <4>1 DEF Left
      <3> QED
        BY <3>1, <3>2
    <2>3. \A h, i \in DOMAIN frames' : NodeOf(h)' = NodeOf(i)' => h = i
      BY <1>12 DEF StackInv
    <2>4. ASSUME NEW m \in Loops, NEW c \in DOMAIN Body(m)
          PROVE  \/ \E i \in DOMAIN frames, j \in DOMAIN frames' :
                       /\ NodeOf(i) = m /\ NodeOf(j)' = m
                       /\ \A h \in DOMAIN frames' : NodeOf(h)' = m => h = j
                       /\ Left(j, c)' = Left(i, c)
                 \/ /\ \A h \in DOMAIN frames : NodeOf(h) # m
                    /\ \A h \in DOMAIN frames' : NodeOf(h)' # m
      <3>1. CASE \E i \in DOMAIN frames : NodeOf(i) = m
        <4>1. PICK i \in DOMAIN frames : NodeOf(i) = m
          BY <3>1
        <4>2. i \in DOMAIN frames' /\ NodeOf(i)' = m /\ Left(i, c)' = Left(i, c)
          BY <1>13, <2>1, <2>2, <4>1
        <4>3. \A h \in DOMAIN frames' : NodeOf(h)' = m => h = i
          BY <2>3, <4>2
        <4> QED
          BY <4>1, <4>2, <4>3
      <3>2. CASE \A i \in DOMAIN frames : NodeOf(i) # m
        BY <1>13, <2>1, <3>2
      <3> QED
        BY <3>1, <3>2
    <2> QED
      BY <1>1, <1>2, <2>4, BalanceMoves
  <1> QED
    BY <1>3, <1>12, <1>14, <1>15, <1>16 DEF WalkInv

LEMMA ValuesAreWords == \A x : Evaluate(x) \subseteq Word
  BY DEF Evaluate

(* A loop is refused, passed over, or run.                                  *)
LEMMA EnterKeepsInv ==
    ASSUME WalkInv, EnterLoop
    PROVE  WalkInv'
  <1>1. /\ InputsInv /\ StageInv /\ StackInv /\ ValuesInv /\ BindingInv /\ LogInv
        /\ Ready /\ IsLoop(Current) /\ UNCHANGED inputs
    BY DEF WalkInv, WorkInv, EnterLoop
  <1>2. Current \in Nodes /\ Current \in Loops /\ Step \in Word
    <2>1. Current \in Nodes /\ Current \in Loops
      BY <1>1, CurrentFacts DEF Loops
    <2> QED
      BY <1>1, <2>1, TreeFacts DEF Step
  <1>3. InputsInv' /\ program' = program /\ limits' = limits
    BY <1>1, InputsKept
  <1>4. PICK start, bound, count :
           /\ start \in Word /\ bound \in Word
           /\ count = loop_iteration_count(start, bound, Step)
           /\ IF ~BudgetAllows(count)
              THEN /\ Fail("budget")
                   /\ UNCHANGED <<root, prepared, values, frames, loop_iterations, log>>
              ELSE /\ loop_iterations' = loop_iterations + count
                   /\ log' = Append(log, [node |-> Current, count |-> count])
                   /\ IF count = 0 THEN StepOver
                      ELSE /\ frames' = Append(frames,
                                 [node |-> Current, value |-> start, count |-> count,
                                  iteration |-> 0, child |-> 1])
                           /\ prepared' = Prepared
                           /\ values' = [PreparedValues EXCEPT ![Binding.slot] = start]
                           /\ UNCHANGED <<root, stage, failure>>
    BY ValuesAreWords, Zenon DEF EnterLoop, Starts, Bounds
  <1>5. count \in Nat /\ (count # 0 => start + (count - 1) * Step \in Word)
    BY <1>2, <1>4, LastValueFits
  <1>6. CASE ~BudgetAllows(count)
    <2>1. /\ stage' = "failed" /\ failure' # "overflow"
          /\ UNCHANGED <<root, prepared, values, frames, loop_iterations, log>>
      BY <1>4, <1>6 DEF Fail
    <2> QED
      BY <1>1, <2>1, FailingKeepsInv
  <1> DEFINE e == [node |-> Current, count |-> count]
  <1>7. Logged(e, count)
    BY <1>1 DEF Logged
  <1> HIDE DEF e
  <1>8. CASE BudgetAllows(count) /\ count = 0
    <2>1. loop_iterations' = loop_iterations + 0 /\ log' = Append(log, e) /\ StepOver
      BY <1>4, <1>8 DEF e
    <2>2. loop_iterations' = loop_iterations
      BY <1>1, <2>1 DEF LogInv
    <2>3. Logged(e, 0)
      BY <1>7, <1>8
    <2> QED
      BY <1>1, <2>1, <2>2, <2>3, PassingKeepsInv
  <1>9. CASE BudgetAllows(count) /\ count # 0
    <2> DEFINE f == [node |-> Current, value |-> start, count |-> count,
                     iteration |-> 0, child |-> 1]
    <2>1. /\ loop_iterations' = loop_iterations + count /\ log' = Append(log, e)
          /\ frames' = Append(frames, f)
          /\ prepared' = Prepared
          /\ values' = [PreparedValues EXCEPT ![Binding.slot] = start]
          /\ UNCHANGED <<root, stage, failure>>
      BY <1>4, <1>9, Zenon DEF e
    <2>2. f \in Frame
      <3>1. PICK i \in Nat, d \in Nat \ {0} : i = 0 /\ d = 1
        OBVIOUS
      <3>2. [node |-> Current, value |-> start, count |-> count,
             iteration |-> i, child |-> d] \in Frame
        BY <1>2, <1>4, <1>5, FrameStarts
      <3> QED
        BY <3>1, <3>2, Zenon
    <2>3. /\ f.node = Current /\ f.value = start /\ f.count = count
          /\ f.iteration = 0 /\ f.child = 1
      OBVIOUS
    <2> HIDE DEF f
    <2>4. LogInv'
      BY <1>1, <1>2, <1>5, <1>7, <1>9, <2>1, LoggedKeepsLog
    <2>5. StackInv' /\ ValuesInv'
      <3>1. f.iteration < f.count
        BY <1>5, <1>9, <2>3
      <3>2. f.value + (f.count - 1 - f.iteration) * program.nodes[f.node].step \in Word
        <4>1. f.count - 1 - f.iteration = count - 1
          BY <1>5, <2>3
        <4> QED
          BY <1>5, <1>9, <2>3, <4>1 DEF Step
      <3> QED
        BY <1>1, <1>3, <2>1, <2>2, <2>3, <3>1, <3>2, PushKeepsPath
    <2>6. BindingInv'
      <3>1. values' = [PreparedValues EXCEPT ![Binding.slot] = f.value]
        BY <2>1, <2>3
      <3> QED
        BY <1>1, <1>3, <2>1, <2>2, <2>3, <3>1, PushKeepsBinding
    <2>7. StageInv'
      <3>1. stage = "walking"
        BY <1>1 DEF Ready
      <3> QED
        BY <1>1, <1>3, <2>1, <3>1 DEF StageInv
    <2>8. WorkInv'
      BY <1>1, <1>5, <1>7, <2>1, <2>2, <2>3, <2>4, <2>5, PushKeepsBalance
    <2> QED
      BY <1>3, <2>5, <2>6, <2>7, <2>8 DEF WalkInv
  <1> QED
    BY <1>6, <1>8, <1>9

(* An access is visited and passed over.                                    *)
LEMMA VisitKeepsInv ==
    ASSUME WalkInv, VisitAccess
    PROVE  WalkInv'
  <1> DEFINE e == [node |-> Current,
                   at |-> [i \in DOMAIN program.nodes[Current].indices |->
                              Evaluate(program.nodes[Current].indices[i])]]
  <1>1. /\ Ready /\ ~IsLoop(Current) /\ log' = Append(log, e) /\ StepOver
        /\ UNCHANGED <<inputs, loop_iterations>>
    BY DEF VisitAccess
  <1>2. e.node = Current
    OBVIOUS
  <1> HIDE DEF e
  <1>3. Logged(e, 0)
    BY <1>1, <1>2 DEF Logged
  <1> QED
    BY <1>1, <1>3, PassingKeepsInv

LEMMA SinkThrowsKeepsInv ==
    ASSUME WalkInv, SinkThrows
    PROVE  WalkInv'
  <1>1. stage' = "failed" /\ failure' # "overflow"
    BY DEF SinkThrows, Fail
  <1> QED
    BY <1>1, FailingKeepsInv DEF SinkThrows

LEMMA LoopRejectedKeepsInv ==
    ASSUME WalkInv, LoopRejected
    PROVE  WalkInv'
  <1>1. stage' = "failed" /\ failure' # "overflow"
    BY DEF LoopRejected, Fail
  <1> QED
    BY <1>1, FailingKeepsInv DEF LoopRejected

\* Its body having run for the last time, nothing is left to do of a loop.
LEMMA NothingLeft ==
    ASSUME InputsInv, StackInv, BodyEnds, ~MoreIterations,
           NEW c \in DOMAIN Body(Top.node)
    PROVE  Left(Len(frames), c) = 0
  <1>0. PICK L \in Nat : L = Len(frames)
    BY FrameFacts
  <1>1. /\ L \in DOMAIN frames /\ Top = frames[L] /\ Top.node \in Loops
        /\ Top.count \in Nat /\ Top.iteration \in Nat /\ Top.child \in Nat
        /\ Top.iteration < Top.count
    <2>1. L \in DOMAIN frames /\ Top = frames[L] /\ Top.node = NodeOf(L)
      BY <1>0, FrameFacts DEF BodyEnds, Top, NodeOf
    <2> QED
      BY <2>1, FrameFacts DEF StackInv
  <1>2. c \in Nat /\ c < Top.child
    <2>1. Body(Top.node) \in Seq(Nodes)
      BY <1>1, TreeFacts
    <2>2. c \in 1 .. Len(Body(Top.node)) /\ Len(Body(Top.node)) \in Nat
      BY <2>1
    <2>3. Top.child > Len(Body(Top.node))
      BY DEF BodyEnds
    <2> QED
      BY <1>1, <2>2, <2>3
  <1>3. Top.count - Top.iteration = 1
    BY <1>1 DEF MoreIterations
  <1>4. Left(L, c) = 0
    BY <1>1, <1>2, <1>3 DEF Left
  <1> QED
    BY <1>0, <1>4

(* A loop inside another one is over.                                       *)
LEMMA LeavingInnerKeepsInv ==
    ASSUME WalkInv, LeaveLoop, Len(frames) > 1
    PROVE  WalkInv'
  <1>1. /\ InputsInv /\ StageInv /\ StackInv /\ ValuesInv /\ BindingInv /\ LogInv /\ WorkInv
        /\ stage = "walking" /\ BodyEnds /\ ~MoreIterations
        /\ UNCHANGED <<inputs, loop_iterations, log, failure>>
    BY DEF WalkInv, WorkInv, LeaveLoop
  <1>2. InputsInv' /\ program' = program /\ limits' = limits
    BY <1>1, InputsKept
  <1>3. /\ frames' = [SubSeq(frames, 1, Len(frames) - 1)
                         EXCEPT ![Len(frames) - 1].child = @ + 1]
        /\ UNCHANGED <<root, prepared, values, stage>>
    BY DEF LeaveLoop
  <1>4. StackInv' /\ ValuesInv'
    BY <1>1, <1>2, <1>3, PopKeepsPath
  <1>5. BindingInv'
    BY <1>1, <1>2, <1>3, PopKeepsBinding
  <1>6. StageInv'
    BY <1>1, <1>2, <1>3 DEF StageInv
  <1>0. PICK L \in Nat : L = Len(frames) /\ L > 1
    BY <1>1, FrameFacts
  <1>7. /\ DOMAIN frames = 1 .. L /\ L \in DOMAIN frames /\ L - 1 \in DOMAIN frames
        /\ Top = frames[L] /\ NodeOf(L) = Top.node
    BY <1>0, <1>1, FrameFacts DEF Top, NodeOf
  <1>8. /\ DOMAIN frames' = 1 .. L - 1 /\ Len(frames)' = L - 1
        /\ \A i \in 1 .. L - 1 : i # L - 1 => frames'[i] = frames[i]
        /\ frames'[L - 1] = [frames[L - 1] EXCEPT !.child = @ + 1]
    <2>1. frames' = [SubSeq(frames, 1, L - 1) EXCEPT ![L - 1].child = @ + 1]
      BY <1>0, <1>3
    <2> QED
      BY <1>0, <1>1, <2>1, PopFacts
  <1>9. /\ frames'[L - 1].node = frames[L - 1].node
        /\ frames'[L - 1].count = frames[L - 1].count
        /\ frames'[L - 1].iteration = frames[L - 1].iteration
        /\ frames'[L - 1].child = frames[L - 1].child + 1
        /\ frames[L - 1].child \in Nat /\ frames[L - 1].count \in Nat
        /\ frames[L - 1].iteration \in Nat
    <2>1. frames[L - 1] \in Frame
      BY <1>1, <1>7, FrameFacts
    <2> QED
      BY <1>8, <2>1 DEF Frame
  <1>10. \A i \in 1 .. L - 1 : i \in DOMAIN frames /\ i # L /\ NodeOf(i)' = NodeOf(i)
    <2> SUFFICES ASSUME NEW i \in 1 .. L - 1
                 PROVE  i \in DOMAIN frames /\ i # L /\ NodeOf(i)' = NodeOf(i)
      OBVIOUS
    <2>1. i \in DOMAIN frames /\ i # L
      BY <1>0, <1>7
    <2>2. frames'[i].node = frames[i].node
      <3>1. i # L - 1 => frames'[i] = frames[i]
        BY <1>8
      <3> QED
        BY <1>9, <3>1
    <2> QED
      BY <2>1, <2>2 DEF NodeOf
  <1>11. \A h, i \in DOMAIN frames' : NodeOf(h)' = NodeOf(i)' => h = i
    BY <1>4 DEF StackInv
  <1>12. ASSUME NEW i \in 1 .. L - 1, NEW c \in Nat
         PROVE  Left(i, c)' = Left(i, c)
    <2>1. CASE i = L - 1
      <3>1. Left(i, c) = frames[L - 1].count - frames[L - 1].iteration
                           - (IF c <= frames[L - 1].child THEN 1 ELSE 0)
        BY <1>0, <1>9, <2>1 DEF Left
      <3>2. Left(i, c)' = frames[L - 1].count - frames[L - 1].iteration
                            - (IF c < frames[L - 1].child + 1 THEN 1 ELSE 0)
        <4>1. Len(frames)' = L - 1
          BY <1>8
        <4>2. /\ frames'[i].count = frames[L - 1].count
              /\ frames'[i].iteration = frames[L - 1].iteration
              /\ frames'[i].child = frames[L - 1].child + 1
              /\ ~(i < Len(frames)')
          BY <1>9, <2>1, <4>1
        <4> QED
          BY <4>2 DEF Left
      <3> QED
        BY <1>9, <3>1, <3>2
    <2>2. CASE i # L - 1
      <3>1. frames'[i] = frames[i] /\ i < L - 1 /\ i < L
        BY <1>0, <1>8, <2>2
      <3> QED
        BY <1>0, <1>8, <3>1 DEF Left
    <2> QED
      BY <2>1, <2>2
  <1>13. ASSUME NEW m \in Loops, NEW c \in DOMAIN Body(m)
         PROVE  \/ \E i \in DOMAIN frames, k \in DOMAIN frames' :
                      /\ NodeOf(i) = m /\ NodeOf(k)' = m
                      /\ \A h \in DOMAIN frames' : NodeOf(h)' = m => h = k
                      /\ Left(k, c)' = Left(i, c)
                \/ \E i \in DOMAIN frames :
                      /\ NodeOf(i) = m /\ Left(i, c) = 0
                      /\ \A h \in DOMAIN frames' : NodeOf(h)' # m
                \/ /\ \A h \in DOMAIN frames : NodeOf(h) # m
                   /\ \A h \in DOMAIN frames' : NodeOf(h)' # m
    <2>0. c \in Nat
      <3>1. Body(m) \in Seq(Nodes)
        BY <1>1, TreeFacts
      <3> QED
        BY <3>1
    <2>1. CASE \E i \in 1 .. L - 1 : NodeOf(i) = m
      <3>1. PICK i \in 1 .. L - 1 : NodeOf(i) = m
        BY <2>1
      <3>2. i \in DOMAIN frames /\ i \in DOMAIN frames' /\ NodeOf(i)' = m
        BY <1>8, <1>10, <3>1
      <3>3. \A h \in DOMAIN frames' : NodeOf(h)' = m => h = i
        BY <1>11, <3>2
      <3>4. Left(i, c)' = Left(i, c)
        BY <1>12, <2>0
      <3> QED
        BY <3>1, <3>2, <3>3, <3>4
    <2>2. CASE NodeOf(L) = m
      <3>1. Left(L, c) = 0
        BY <1>0, <1>1, <1>7, <2>2, NothingLeft
      <3>2. \A h \in DOMAIN frames' : NodeOf(h)' # m
        BY <1>1, <1>7, <1>8, <1>10, <2>2 DEF StackInv
      <3> QED
        BY <1>7, <2>2, <3>1, <3>2
    <2>3. CASE NodeOf(L) # m /\ \A i \in 1 .. L - 1 : NodeOf(i) # m
      <3>1. \A h \in DOMAIN frames : NodeOf(h) # m
        BY <1>0, <1>7, <2>3
      <3>2. \A h \in DOMAIN frames' : NodeOf(h)' # m
        BY <1>8, <1>10, <2>3
      <3> QED
        BY <3>1, <3>2
    <2> QED
      BY <2>1, <2>2, <2>3
  <1>14. WorkInv'
    BY <1>1, <1>13, BalanceMoves
  <1> QED
    BY <1>2, <1>4, <1>5, <1>6, <1>14 DEF WalkInv

(* A top-level loop is over.                                                *)
LEMMA LeavingOuterKeepsInv ==
    ASSUME WalkInv, LeaveLoop, ~(Len(frames) > 1)
    PROVE  WalkInv'
  <1>1. /\ InputsInv /\ StageInv /\ StackInv /\ LogInv /\ WorkInv
        /\ stage = "walking" /\ BodyEnds /\ ~MoreIterations
        /\ UNCHANGED <<inputs, loop_iterations, log, failure>>
    BY DEF WalkInv, WorkInv, LeaveLoop
  <1>2. InputsInv' /\ program' = program /\ limits' = limits
    BY <1>1, InputsKept
  <1>3. /\ frames' = <<>> /\ root' = root + 1
        /\ prepared' = [n \in {} |-> 0] /\ values' = <<>>
        /\ stage' = IF root = Len(program.roots) THEN "done" ELSE stage
    BY DEF LeaveLoop
  <1>4. StackInv' /\ ValuesInv'
    BY <1>3, NoPath
  <1>5. BindingInv'
    BY <1>3, NothingBound
  <1>6. StageInv'
    <2>1. root \in DOMAIN program.roots /\ program.roots \in Seq(Nodes)
      BY <1>1, TreeFacts DEF StageInv
    <2>2. root # Len(program.roots) => root + 1 \in DOMAIN program.roots
      BY <2>1
    <2> QED
      BY <1>1, <1>2, <1>3, <2>2 DEF StageInv
  <1>7. /\ Len(frames) = 1 /\ DOMAIN frames = {1} /\ DOMAIN frames' = {}
        /\ NodeOf(1) = Top.node
    <2>1. Len(frames) \in Nat /\ Len(frames) # 0 /\ DOMAIN frames = 1 .. Len(frames)
      BY <1>1, FrameFacts DEF BodyEnds
    <2>2. Len(frames) = 1
      BY <2>1
    <2>3. DOMAIN frames = 1 .. 1 /\ 1 .. 1 = {1}
      BY <2>1, <2>2
    <2> QED
      BY <1>3, <2>2, <2>3 DEF NodeOf, Top
  <1>8. ASSUME NEW m \in Loops, NEW c \in DOMAIN Body(m)
        PROVE  \/ \E i \in DOMAIN frames :
                     /\ NodeOf(i) = m /\ Left(i, c) = 0
                     /\ \A h \in DOMAIN frames' : NodeOf(h)' # m
               \/ /\ \A h \in DOMAIN frames : NodeOf(h) # m
                  /\ \A h \in DOMAIN frames' : NodeOf(h)' # m
    <2>1. CASE NodeOf(1) = m
      <3>1. Left(1, c) = 0
        BY <1>1, <1>7, <2>1, NothingLeft
      <3> QED
        BY <1>7, <2>1, <3>1
    <2>2. CASE NodeOf(1) # m
      BY <1>7, <2>2
    <2> QED
      BY <2>1, <2>2
  <1>9. WorkInv'
    BY <1>1, <1>8, BalanceMoves
  <1> QED
    BY <1>2, <1>4, <1>5, <1>6, <1>9 DEF WalkInv

(* A loop that is over has used up what it was charged; so has one that was *)
(* never entered.                                                           *)
LEMMA LeaveKeepsInv ==
    ASSUME WalkInv, LeaveLoop
    PROVE  WalkInv'
  BY LeavingInnerKeepsInv, LeavingOuterKeepsInv

-----------------------------------------------------------------------------
(* What the walk starts with.                                               *)

LEMMA SumOfZeros ==
    ASSUME NEW f, IsFiniteSet(DOMAIN f), \A i \in DOMAIN f : f[i] = 0
    PROVE  SumFunction(f) = 0
  <1> DEFINE s == DOMAIN f
             Total(r) == Streaming!SumFunctionOnSet(f, r)
             F == {r \in SUBSET s : Total(r) # 0}
  <1>1. IsFiniteSet(s) /\ \A i \in s : f[i] = 0
    OBVIOUS
  <1>2. SumFunction(f) = Total(s)
    BY SumsAgree DEF SumFunction
  <1> HIDE DEF s
  <1>3. F = {}
    <2> SUFFICES ASSUME F # {} PROVE FALSE
      OBVIOUS
    <2>1. \A q \in F : IsFiniteSet(q)
      BY <1>1, FS_Subset
    <2>2. PICK r \in F : \A q \in F : q \subseteq r => q = r
      <3> HIDE DEF F
      <3>1. \A q \in F : Streaming!IsFiniteSet(q)
        BY <2>1, SumsAgree
      <3> QED
        BY <3>1, Streaming!SmallestSet, SumsAgree
    <2>3. r \subseteq s /\ Total(r) # 0 /\ IsFiniteSet(r)
      BY <2>1, <2>2
    <2>4. r # {}
      BY <2>3, SumsAgree, Streaming!SumOfNone
    <2>5. PICK i \in r : TRUE
      BY <2>4
    <2>6. r \ {i} \subseteq s /\ r \ {i} \subseteq r /\ r \ {i} # r
      BY <2>3, <2>5
    <2>7. Total(r \ {i}) = 0
      BY <2>2, <2>6
    <2>8. Total(r) = f[i] + Total(r \ {i})
      <3>1. \A j \in r : f[j] \in Nat
        BY <1>1, <2>3
      <3> QED
        BY <2>3, <2>5, <3>1, SumsAgree, Streaming!SumWithout
    <2>9. f[i] = 0
      BY <1>1, <2>3, <2>5
    <2> QED
      BY <2>3, <2>7, <2>8, <2>9
  <1>4. Total(s) = 0
    BY <1>3
  <1> QED
    BY <1>2, <1>4

LEMMA InitIsWalkInv == Init => WalkInv
  <1> SUFFICES ASSUME Init PROVE WalkInv
    OBVIOUS
  <1>1. InputsInv
    BY TraceAssumption, ProgramAssumption DEF Init, InputsInv, TraceAssumption, ProgramAssumption
  <1>2. /\ DOMAIN frames = {} /\ frames = <<>> /\ frames \in Seq(Frame)
        /\ DOMAIN prepared = {} /\ values \in Seq(Word)
        /\ log = <<>> /\ DOMAIN log = {} /\ log \in Seq(Range(log))
        /\ loop_iterations = 0 /\ failure = "none"
    BY DEF Init
  <1>3. StageInv
    <2>1. program.roots \in Seq(Nodes)
      BY <1>1, TreeFacts
    <2>2. program.roots # <<>> => 1 \in DOMAIN program.roots
      BY <2>1
    <2> QED
      BY <2>2 DEF Init, StageInv
  <1>4. StackInv /\ ValuesInv
    BY <1>2 DEF StackInv, ValuesInv
  <1>5. BindingInv
    BY <1>2 DEF BindingInv, TableInv
  <1>6. \A n : Entries(n) = {}
    BY <1>2 DEF Entries
  <1>7. \A n : Reached(n) = 0
    BY <1>6, FS_EmptySet DEF Reached
  <1>8. \A n : Reserved(n) = 0
    <2> SUFFICES ASSUME NEW n PROVE Reserved(n) = 0
      OBVIOUS
    <2> DEFINE f == [i \in Entries(n) |-> log[i].count]
    <2>1. IsFiniteSet(DOMAIN f) /\ \A i \in DOMAIN f : f[i] = 0
      BY <1>6, FS_EmptySet
    <2> HIDE DEF f
    <2>2. SumFunction(f) = 0
      BY <2>1, SumOfZeros
    <2> QED
      BY <2>2 DEF f, Reserved
  <1>9. LogInv
    <2> DEFINE f == [n \in Loops |-> Reserved(n)]
    <2>1. IsFiniteSet(DOMAIN f) /\ \A n \in DOMAIN f : f[n] = 0
      BY <1>1, <1>8, TreeFacts
    <2> HIDE DEF f
    <2>2. SumFunction(f) = 0
      BY <2>1, SumOfZeros
    <2>3. loop_iterations = SumFunction([n \in Loops |-> Reserved(n)])
      BY <1>2, <2>2 DEF f
    <2>4. loop_iterations \in Nat /\ loop_iterations <= limits.cumulative
      BY <1>1, <1>2 DEF InputsInv
    <2> QED
      BY <1>2, <2>3, <2>4 DEF LogInv
  <1>10. \A m \in Loops : \A c \in DOMAIN Body(m) : Balanced(m, c)
    BY <1>2, <1>7, <1>8 DEF Balanced
  <1> QED
    BY <1>1, <1>3, <1>4, <1>5, <1>9, <1>10 DEF WalkInv, WorkInv

LEMMA WalkInvHolds == Spec => []WalkInv
  <1>1. WalkInv /\ [Next]_vars => WalkInv'
    <2> SUFFICES ASSUME WalkInv, [Next]_vars PROVE WalkInv'
      OBVIOUS
    <2>1. CASE VisitAccess
      BY <2>1, VisitKeepsInv
    <2>2. CASE SinkThrows
      BY <2>2, SinkThrowsKeepsInv
    <2>3. CASE LoopRejected
      BY <2>3, LoopRejectedKeepsInv
    <2>4. CASE EnterLoop
      BY <2>4, EnterKeepsInv
    <2>5. CASE NextIteration
      BY <2>5, NextIterationKeepsInv
    <2>6. CASE LeaveLoop
      BY <2>6, LeaveKeepsInv
    <2>7. CASE UNCHANGED vars
      BY <2>7, StutteringKeepsInv
    <2> QED
      BY <2>1, <2>2, <2>3, <2>4, <2>5, <2>6, <2>7 DEF Next
  <1> QED
    BY InitIsWalkInv, <1>1, PTL DEF Spec

(* Slots are handed out as nodes are reached, and a name is bound to a slot *)
(* once, at the first visit: at every later visit the slot still is that of *)
(* the nearest running loop of the name, and holds the value it has now.    *)
THEOREM BindingsAreCurrent == Spec => []BindingsCurrent
  <1>1. WalkInv => BindingsCurrent
    <2> SUFFICES ASSUME WalkInv, Ready PROVE
              /\ DOMAIN Binding.scope = Variables
              /\ \A v \in Variables :
                    PreparedValues[Binding.scope[v]] = frames[FrameOf(v, TRUE)].value
      BY Zenon DEF BindingsCurrent
    <2>1. InputsInv /\ StageInv /\ StackInv /\ BindingInv
      BY DEF WalkInv
    <2>2. BoundTo(Binding.scope)
      BY <2>1, BindingIsCurrent
    <2>3. ASSUME NEW v \in Variables
          PROVE  PreparedValues[Binding.scope[v]] = frames[FrameOf(v, TRUE)].value
      <3>1. PICK i : i = FrameOf(v, TRUE)
        OBVIOUS
      <3>2. i \in DOMAIN frames
        BY <2>1, <3>1, InnermostFrame, Zenon
      <3>3. Binding.scope[v] = prepared[NodeOf(i)].slot
        BY <2>2, <3>1, Zenon DEF BoundTo
      <3>4. /\ NodeOf(i) \in DOMAIN prepared \cap Loops
            /\ values[prepared[NodeOf(i)].slot] = frames[i].value
        BY <2>1, <3>2, FrameFacts DEF BindingInv, FrameBound
      <3>5. prepared[NodeOf(i)].slot \in DOMAIN values
        BY <2>1, <3>4 DEF BindingInv, TableInv
      <3>6. PreparedValues[prepared[NodeOf(i)].slot] = values[prepared[NodeOf(i)].slot]
        BY <2>1, <3>5, PreparedFacts
      <3>7. PreparedValues[Binding.scope[v]] = frames[i].value
        BY <3>3, <3>4, <3>6
      <3> QED
        BY <3>1, <3>7, Zenon
    <2>4. DOMAIN Binding.scope = Variables
      BY <2>2 DEF BoundTo
    <2> QED
      BY <2>3, <2>4
  <1> QED
    BY <1>1, WalkInvHolds, PTL

(* advance_loop_value checks every addition, but never has to refuse one:   *)
(* the iterations that loop_iteration_count counts by word arithmetic all   *)
(* have values that fit a word.                                             *)
THEOREM LoopValuesAlwaysFit == Spec => []LoopValuesFit
  <1>1. WalkInv => LoopValuesFit
    BY DEF WalkInv, StageInv, LoopValuesFit
  <1> QED
    BY <1>1, WalkInvHolds, PTL

(* consume_loop_iterations charges a loop at each dynamic entry, before its *)
(* body runs: the budget is the sum of what was charged, within both        *)
(* limits, and the body runs as often as was paid for, whether the loop is  *)
(* entered once, many times or not at all.                                  *)
THEOREM WorkIsCharged == Spec => []WorkCharged
  <1>1. WalkInv => WorkCharged
    <2> SUFFICES ASSUME WalkInv PROVE WorkCharged
      OBVIOUS
    <2>1. InputsInv /\ StageInv /\ StackInv /\ LogInv
          /\ \A m \in Loops : \A c \in DOMAIN Body(m) : Balanced(m, c)
      BY DEF WalkInv, WorkInv
    <2>2. Loops = {n \in DOMAIN program.nodes : IsLoop(n)}
      BY DEF Loops, Nodes
    <2>3. \A n \in Loops : \A i \in Entries(n) : log[i].count <= limits.single
      BY <2>1 DEF LogInv, Entries, Loops
    <2>4. ASSUME NEW m \in Loops, NEW c \in DOMAIN Body(m)
          PROVE  /\ Reached(Body(m)[c]) <= Reserved(m)
                 /\ stage = "done" => Reached(Body(m)[c]) = Reserved(m)
      <3>1. Reached(Body(m)[c]) \in Nat /\ Reserved(m) \in Nat /\ Balanced(m, c)
        BY <2>1, LogFacts
      <3>2. CASE \E i \in DOMAIN frames : NodeOf(i) = m
        <4>1. PICK i \in DOMAIN frames : NodeOf(i) = m
          BY <3>2
        <4>2. Reached(Body(m)[c]) + Left(i, c) = Reserved(m)
          BY <3>1, <4>1 DEF Balanced
        <4>3. Left(i, c) \in Nat
          BY <2>1, LeftIsNat
        <4>4. stage # "done"
          BY <2>1, <4>1 DEF StageInv
        <4> QED
          BY <3>1, <4>2, <4>3, <4>4
      <3>3. CASE \A i \in DOMAIN frames : NodeOf(i) # m
        <4>1. Reached(Body(m)[c]) = Reserved(m)
          BY <3>1, <3>3 DEF Balanced
        <4> QED
          BY <3>1, <4>1
      <3> QED
        BY <3>2, <3>3
    <2>5. ASSUME NEW m \in Loops, NEW n \in Range(Body(m))
          PROVE  /\ Cardinality(Entries(n)) <= Reserved(m)
                 /\ stage = "done" => Cardinality(Entries(n)) = Reserved(m)
      <3>1. PICK c \in DOMAIN Body(m) : n = Body(m)[c]
        BY DEF Range
      <3> QED
        BY <2>4, <3>1 DEF Reached
    <2> QED
      BY <2>1, <2>2, <2>3, <2>5 DEF WorkCharged, LogInv
  <1> QED
    BY <1>1, WalkInvHolds, PTL
=============================================================================
