---------------------------- MODULE AccessProof ----------------------------
(***************************************************************************)
(* Theorems about an access and the image it is made in: resolving it with *)
(* and without its plan, for every node, every image and every word size;  *)
(* the objects and the regions of an image; cutting an access into lines,  *)
(* for every address, word and line size.  A path is walked once with the  *)
(* index row that left the plan and once with a later row; the walks are   *)
(* compared segment by segment with the amounts the plan adds up.          *)
(***************************************************************************)
EXTENDS AccessPlan, LineMapping, FiniteSetTheorems, SequenceTheorems, WellFoundedInduction, TLAPS

LEMMA SmallestNumber ==
    ASSUME NEW S \in SUBSET Nat, S # {}
    PROVE  \E n \in S : \A m \in S : n <= m
  <1>1. PICK n \in S : \A m \in S : <<m, n>> \notin OpToRel(<, Nat)
    BY NatLessThanWellFounded, WFMin
  <1>2. \A m \in S : ~(m < n)
    BY <1>1 DEF OpToRel
  <1> QED
    BY <1>2

-----------------------------------------------------------------------------
(* Sums and walks are the solutions of their recursions.                    *)

\* f has the sums of the first amounts, up to n of them.
Sums(n, amounts, f) ==
    f = [i \in 0..n |-> IF i = 0 THEN {0} ELSE Plus(f[i - 1], amounts[i])]

LEMMA SumsExist ==
    ASSUME NEW amounts, NEW n \in Nat
    PROVE  \E f : Sums(n, amounts, f)
  <1> DEFINE F == {m \in Nat : ~ \E f : Sums(m, amounts, f)}
  <1> SUFFICES ASSUME F # {} PROVE FALSE
    OBVIOUS
  <1>1. PICK m \in F : \A l \in F : m <= l
    BY SmallestNumber
  <1>2. m # 0
    <2>1. Sums(0, amounts, [i \in 0..0 |-> {0}])
      BY DEF Sums
    <2> QED
      BY <1>1, <2>1
  <1>3. m - 1 \in Nat /\ m - 1 \notin F
    BY <1>1, <1>2
  <1>4. PICK f : Sums(m - 1, amounts, f)
    BY <1>3
  <1> DEFINE new == [i \in 0..m |-> IF i = 0 THEN {0} ELSE Plus(f[i - 1], amounts[i])]
  <1>5. ASSUME NEW i \in 0..m - 1 PROVE new[i] = f[i]
    <2>1. f[i] = IF i = 0 THEN {0} ELSE Plus(f[i - 1], amounts[i])
      BY <1>4 DEF Sums
    <2>2. new[i] = IF i = 0 THEN {0} ELSE Plus(f[i - 1], amounts[i])
      BY <1>1, <1>3
    <2> QED
      BY <2>1, <2>2
  <1>6. \A i \in 0..m : (IF i = 0 THEN {0} ELSE Plus(f[i - 1], amounts[i]))
                      = (IF i = 0 THEN {0} ELSE Plus(new[i - 1], amounts[i]))
    <2>1. ASSUME NEW i \in 0..m, i # 0 PROVE new[i - 1] = f[i - 1]
      <3>1. i - 1 \in 0..m - 1
        BY <1>1, <2>1
      <3> QED
        BY <1>5, <3>1
    <2> QED
      BY <2>1, Zenon
  <1>7. new = [i \in 0..m |-> IF i = 0 THEN {0} ELSE Plus(new[i - 1], amounts[i])]
    BY <1>6
  <1> HIDE DEF new
  <1>8. Sums(m, amounts, new)
    BY <1>7 DEF Sums
  <1> QED
    BY <1>1, <1>8

LEMMA TotalIsLastSum ==
    ASSUME NEW amounts, Len(amounts) \in Nat
    PROVE  \E f : Sums(Len(amounts), amounts, f) /\ Total(amounts) = f[Len(amounts)]
  <1> DEFINE f == CHOOSE g : Sums(Len(amounts), amounts, g)
  <1>1. Total(amounts) = f[Len(amounts)]
    BY DEF Total, Sums
  <1>2. Sums(Len(amounts), amounts, f)
    BY SumsExist
  <1> QED
    BY <1>1, <1>2

\* f is the walk along the first n segments of the path of a node.
Walks(n, nd, row, structs, object, f) ==
    f = [i \in 0..n |-> IF i = 0 THEN PathStart(object)
                        ELSE select(nd, row, structs, nd.access_path[i], f[i - 1])]

LEMMA WalksExist ==
    ASSUME NEW nd, NEW row, NEW structs, NEW object, NEW n \in Nat
    PROVE  \E f : Walks(n, nd, row, structs, object, f)
  <1> DEFINE F == {m \in Nat : ~ \E f : Walks(m, nd, row, structs, object, f)}
             Next_(f, i) == select(nd, row, structs, nd.access_path[i], f[i - 1])
  <1> SUFFICES ASSUME F # {} PROVE FALSE
    OBVIOUS
  <1>1. PICK m \in F : \A l \in F : m <= l
    BY SmallestNumber
  <1>2. m # 0
    <2>1. Walks(0, nd, row, structs, object, [i \in 0..0 |-> PathStart(object)])
      BY DEF Walks
    <2> QED
      BY <1>1, <2>1
  <1>3. m - 1 \in Nat /\ m - 1 \notin F
    BY <1>1, <1>2
  <1>4. PICK f : Walks(m - 1, nd, row, structs, object, f)
    BY <1>3
  <1> DEFINE new == [i \in 0..m |-> IF i = 0 THEN PathStart(object) ELSE Next_(f, i)]
  <1>5. \A i \in 0..m - 1 : new[i] = f[i]
    BY <1>3, <1>4 DEF Walks
  <1>6. \A i \in 0..m : (IF i = 0 THEN PathStart(object) ELSE Next_(f, i))
                      = (IF i = 0 THEN PathStart(object) ELSE Next_(new, i))
    BY <1>1, <1>5
  <1>7. new = [i \in 0..m |-> IF i = 0 THEN PathStart(object) ELSE Next_(new, i)]
    BY <1>6
  <1> HIDE DEF new
  <1>8. Walks(m, nd, row, structs, object, new)
    BY <1>7 DEF Walks
  <1> QED
    BY <1>1, <1>8

LEMMA PathEndIsLast ==
    ASSUME NEW nd, NEW row, NEW objs, NEW structs, Len(nd.access_path) \in Nat
    PROVE  \E f : /\ Walks(Len(nd.access_path), nd, row, structs, objs[nd.object], f)
                  /\ PathEnd(nd, row, objs, structs) = f[Len(nd.access_path)]
  <1> DEFINE f == CHOOSE g : Walks(Len(nd.access_path), nd, row, structs, objs[nd.object], g)
  <1>1. PathEnd(nd, row, objs, structs) = f[Len(nd.access_path)]
    BY DEF PathEnd, Walks
  <1>2. Walks(Len(nd.access_path), nd, row, structs, objs[nd.object], f)
    BY WalksExist
  <1> QED
    BY <1>1, <1>2

-----------------------------------------------------------------------------
(* A walk with a later row against the plan of an earlier one.              *)

\* v has come as far as w did, at the offset sum; or it was refused and there is
\* no sum.
Agrees(w, v, sum) ==
    IF v.valid THEN v.state = w.state /\ v.used = w.used /\ v.offset = sum
               ELSE sum = {}

LEMMA SumOfNothing ==
    ASSUME NEW A
    PROVE  Plus({}, A) = {} /\ Plus(A, {}) = {}
  BY DEF Plus

\* A segment that the planned walk passed leaves a step; the later walk passes it
\* with the amount of that step, or is refused and the step has no amount.
LEMMA OneSegment ==
    ASSUME NEW nd, NEW structs, NEW segment, NEW plan, plan.structured = TRUE,
           NEW wrow, NEW vrow, NEW w, NEW v, NEW sum,
           NEW w2, w2 = select(nd, wrow, structs, segment, w),
           NEW v2, v2 = select(nd, vrow, structs, segment, v),
           w.valid, w.used \in Nat, Agrees(w, v, sum), w2.valid
    PROVE  /\ w2.used \in Nat
           /\ \E step : /\ w2.steps = Append(w.steps, step)
                        /\ Agrees(w2, v2, Plus(sum, StepAmount(plan, step, vrow)))
  <1> DEFINE amount(step) == StepAmount(plan, step, vrow)
             Goal(step) == /\ w2.used \in Nat
                           /\ w2.steps = Append(w.steps, step)
                           /\ Agrees(w2, v2, Plus(sum, amount(step)))
  <1> SUFFICES \E step : Goal(step)
    OBVIOUS
  <1>1. CASE segment.kind = "field"
    <2> DEFINE field == FirstField(structs, w.state, segment)
               step == [index |-> 0, stride |-> {field.offset}, dimension |-> 0]
               to == type_state(field)
               by == {field.offset}
    <2>1. FindsField(structs, w.state, segment) /\ FieldFits(field, w.state)
      BY <1>1 DEF select, select_field, Refused
    <2>2. w2 = Advance(w, to, by, step)
      BY <1>1, <2>1 DEF select, select_field
    <2>3. amount(step) = by /\ step.index = 0
      BY DEF StepAmount
    <2>4. v.valid => v2 = Advance(v, to, by, step)
      BY <1>1, <2>1 DEF select, select_field, Agrees
    <2>5. ~v.valid => v2 = v
      BY DEF select
    <2>6. w2.valid
      OBVIOUS
    <2> HIDE DEF to, by, step, amount
    <2>7. /\ w2.used = w.used /\ w2.steps = Append(w.steps, step) /\ w2.state = to
      BY <2>2, <2>3, <2>6 DEF Advance, Refused
    <2>8. Agrees(w2, v2, Plus(sum, amount(step)))
      <3>1. CASE ~v.valid
        BY <3>1, <2>5, SumOfNothing DEF Agrees
      <3>2. CASE v.valid
        <4>1. v2 = Advance(v, to, by, step)
          BY <3>2, <2>4
        <4>2. v.used = w.used /\ v.offset = sum
          BY <3>2 DEF Agrees
        <4> QED
          BY <4>1, <4>2, <2>3, <2>7 DEF Advance, Agrees, Refused
      <3> QED
        BY <3>1, <3>2
    <2> QED
      BY <2>7, <2>8
  <1>2. CASE segment.kind # "field"
    <2> DEFINE stride == Product(w.state.size, Tail(w.state.shape))
               step == [index |-> w.used + 1, stride |-> stride, dimension |-> w.state.shape[1]]
               to == [w.state EXCEPT !.shape = Tail(@)]
               wby == Times({wrow[w.used + 1]}, stride)
               vby == Times({vrow[w.used + 1]}, stride)
    <2>1. IndexSegmentFits(nd, segment, w) /\ InDimension(wrow[w.used + 1], w.state.shape)
      BY <1>2 DEF select, select_index, Refused
    <2>2. w2 = Advance(w, to, wby, step)
      BY <1>2, <2>1 DEF select, select_index
    <2>3. step.index = w.used + 1 /\ step.index # 0
      OBVIOUS
    <2>4. amount(step) = IF InDimension(vrow[w.used + 1], w.state.shape) THEN vby ELSE {}
      BY <2>1, <2>3 DEF StepAmount, InDimension
    <2>5. v.valid => v2 = IF InDimension(vrow[w.used + 1], w.state.shape)
                          THEN Advance(v, to, vby, step) ELSE Refused
      BY <1>2, <2>1 DEF select, select_index, Agrees, IndexSegmentFits
    <2>6. ~v.valid => v2 = v
      BY DEF select
    <2> HIDE DEF to, wby, vby, step, stride
    <2>7. /\ w2.used = w.used + 1 /\ w2.steps = Append(w.steps, step) /\ w2.state = to
      BY <2>2, <2>3 DEF Advance, Refused
    <2>8. Agrees(w2, v2, Plus(sum, amount(step)))
      <3>1. CASE ~v.valid
        BY <3>1, <2>6, SumOfNothing DEF Agrees
      <3>2. CASE v.valid /\ InDimension(vrow[w.used + 1], w.state.shape)
        <4>1. v2 = Advance(v, to, vby, step) /\ amount(step) = vby
          BY <3>2, <2>4, <2>5
        <4> HIDE DEF amount
        <4>2. v.used = w.used /\ v.offset = sum
          BY <3>2 DEF Agrees
        <4> QED
          BY <4>1, <4>2, <2>3, <2>7 DEF Advance, Agrees, Refused
      <3>3. CASE v.valid /\ ~InDimension(vrow[w.used + 1], w.state.shape)
        <4>1. v2 = Refused /\ amount(step) = {}
          BY <3>3, <2>4, <2>5
        <4> HIDE DEF amount
        <4> QED
          BY <4>1, SumOfNothing DEF Agrees, Refused
      <3> QED
        BY <3>1, <3>2, <3>3
    <2> QED
      BY <2>7, <2>8
  <1> QED
    BY <1>1, <1>2

LEMMA ValidFromTheStart ==
    ASSUME NEW nd, NEW row, NEW structs, NEW object, NEW n \in Nat, NEW f,
           Walks(n, nd, row, structs, object, f), f[n].valid
    PROVE  \A i \in 0..n : f[i].valid
  <1> DEFINE F == {j \in 0..n : ~f[n - j].valid}
  <1> SUFFICES ASSUME F # {} PROVE FALSE
    <2> SUFFICES ASSUME NEW i \in 0..n, ~f[i].valid PROVE F # {}
      OBVIOUS
    <2>1. n - i \in 0..n /\ n - (n - i) = i
      OBVIOUS
    <2> QED
      BY <2>1
  <1>1. F \in SUBSET Nat
    OBVIOUS
  <1>2. PICK j \in F : \A l \in F : j <= l
    BY <1>1, SmallestNumber
  <1>3. j # 0 /\ j \in 0..n
    BY <1>2
  <1>4. n - j \in 0..n /\ n - (j - 1) \in 1..n /\ j - 1 \in 0..n /\ (n - (j - 1)) - 1 = n - j
    BY <1>3
  <1>5. f[n - (j - 1)] = select(nd, row, structs, nd.access_path[n - (j - 1)], f[n - j])
    BY <1>4 DEF Walks
  <1>6. f[n - (j - 1)] = f[n - j]
    BY <1>2, <1>5 DEF select
  <1>7. j - 1 \in F
    BY <1>2, <1>4, <1>6
  <1> QED
    BY <1>2, <1>3, <1>7

LEMMA AppendOne ==
    ASSUME NEW m \in Nat, NEW g, NEW e
    PROVE  Append([k \in 1..m |-> g[k]], e) = [k \in 1..m + 1 |-> IF k = m + 1 THEN e ELSE g[k]]
  <1> DEFINE S == {g[k] : k \in 1..m} \cup {e}
             before == [k \in 1..m |-> g[k]]
  <1>1. before \in Seq(S) /\ Len(before) = m /\ e \in S /\ \A k \in 1..m : before[k] = g[k]
    OBVIOUS
  <1> HIDE DEF S, before
  <1>2. Append(before, e) \in Seq(S) /\ Len(Append(before, e)) = m + 1
    BY <1>1
  <1>3. \A k \in 1..m + 1 : Append(before, e)[k] = IF k = m + 1 THEN e ELSE g[k]
    BY <1>1
  <1>4. Append(before, e) = [k \in 1..m + 1 |-> Append(before, e)[k]]
    <2>1. Append(before, e) \in [1..m + 1 -> S]
      BY <1>2, LenProperties
    <2> QED
      BY <2>1
  <1> DEFINE after == Append(before, e)
  <1> HIDE DEF after
  <1>5. after = [k \in 1..m + 1 |-> IF k = m + 1 THEN e ELSE g[k]]
    <2>1. \A k \in 1..m + 1 : Append(before, e)[k] = IF k = m + 1 THEN e ELSE g[k]
      BY <1>3
    <2> QED
      BY <1>4, <2>1, Zenon DEF after
  <1> QED
    BY <1>5 DEF before, after

\* The steps of a walk are those of its segments, and the later walk ends where
\* the sum of their amounts does.
LEMMA WalksAgree ==
    ASSUME NEW nd, NEW wrow, NEW vrow, NEW structs, NEW object, NEW n \in Nat,
           NEW W, Walks(n, nd, wrow, structs, object, W), W[n].valid,
           NEW V, Walks(n, nd, vrow, structs, object, V),
           NEW plan, plan.structured = TRUE, plan.steps = W[n].steps
    PROVE  Agrees(W[n], V[n], PlannedOffset(plan, vrow))
  <1>1. \A i \in 0..n : W[i].valid
    BY ValidFromTheStart
  <1>2. /\ W[0] = PathStart(object) /\ V[0] = PathStart(object)
        /\ \A i \in 1..n : /\ W[i] = select(nd, wrow, structs, nd.access_path[i], W[i - 1])
                           /\ V[i] = select(nd, vrow, structs, nd.access_path[i], V[i - 1])
    BY DEF Walks
  <1> DEFINE Step(i) == W[i].steps[i]
             Steps(i) == /\ W[i].used \in Nat
                         /\ W[i].steps = [k \in 1..i |-> Step(k)]
             F == {i \in 0..n : ~Steps(i)}
  <1>3. \A i \in 0..n : Steps(i)
    <2> SUFFICES ASSUME F # {} PROVE FALSE
      OBVIOUS
    <2>1. F \in SUBSET Nat
      OBVIOUS
    <2>2. PICK i \in F : \A l \in F : i <= l
      BY <2>1, SmallestNumber
    <2>3. CASE i = 0
      <3>1. W[0].used = 0 /\ W[0].steps = <<>>
        BY <1>2 DEF PathStart
      <3> QED
        BY <2>2, <2>3, <3>1
    <2>4. CASE i # 0
      <3>1. i \in 1..n /\ i - 1 \in 0..n /\ Steps(i - 1)
        BY <2>2, <2>4
      <3>2. W[i - 1].valid /\ W[i - 1].used \in Nat /\ W[i].valid
        BY <1>1, <3>1
      <3>3. Agrees(W[i - 1], W[i - 1], W[i - 1].offset)
        BY <3>2 DEF Agrees
      <3>4. W[i] = select(nd, wrow, structs, nd.access_path[i], W[i - 1])
        BY <1>2, <3>1
      <3>5. PICK step : W[i].used \in Nat /\ W[i].steps = Append(W[i - 1].steps, step)
        <4> DEFINE w == W[i - 1]
                   w2 == W[i]
        <4> HIDE DEF w, w2
        <4>1. /\ w2 = select(nd, wrow, structs, nd.access_path[i], w)
              /\ w.valid /\ w.used \in Nat /\ w2.valid /\ Agrees(w, w, w.offset)
          BY <3>2, <3>3, <3>4 DEF w, w2
        <4>2. /\ w2.used \in Nat
              /\ \E step : /\ w2.steps = Append(w.steps, step)
                           /\ Agrees(w2, w2, Plus(w.offset, StepAmount(plan, step, wrow)))
          BY <4>1, OneSegment, ZenonT(60)
        <4> QED
          BY <4>2 DEF w, w2
      <3> DEFINE g == [k \in 1..i - 1 |-> Step(k)]
      <3>6. W[i].steps = [k \in 1..i |-> IF k = i THEN step ELSE g[k]]
        <4>1. W[i - 1].steps = [k \in 1..i - 1 |-> g[k]]
          BY <3>1
        <4>2. i - 1 \in Nat /\ (i - 1) + 1 = i
          BY <3>1
        <4> HIDE DEF g
        <4>3. Append(W[i - 1].steps, step)
                = [k \in 1..(i - 1) + 1 |-> IF k = (i - 1) + 1 THEN step ELSE g[k]]
          BY <4>1, <4>2, AppendOne
        <4> QED
          BY <3>5, <4>2, <4>3
      <3>7. Step(i) = step
        BY <3>1, <3>6
      <3>8. W[i].steps = [k \in 1..i |-> Step(k)]
        <4>1. \A k \in 1..i : (IF k = i THEN step ELSE g[k]) = Step(k)
          BY <3>1, <3>7
        <4> HIDE DEF g, Step
        <4> QED
          BY <3>6, <4>1
      <3> QED
        BY <2>2, <3>5, <3>8
    <2> QED
      BY <2>3, <2>4
  <1> DEFINE amounts == [s \in DOMAIN plan.steps |-> StepAmount(plan, plan.steps[s], vrow)]
  <1>4. /\ Len(amounts) = n
        /\ \A k \in 1..n : amounts[k] = StepAmount(plan, Step(k), vrow)
    <2>1. plan.steps = [k \in 1..n |-> Step(k)]
      BY <1>3
    <2> HIDE DEF Step
    <2>2. amounts = [k \in 1..n |-> StepAmount(plan, Step(k), vrow)]
      BY <2>1
    <2> QED
      BY <2>2
  <1> HIDE DEF amounts
  <1>5. PICK sum : Sums(n, amounts, sum) /\ Total(amounts) = sum[n]
    BY <1>4, TotalIsLastSum
  <1>6. sum[0] = {0}
    BY <1>5 DEF Sums
  <1>7. ASSUME NEW i \in 1..n PROVE sum[i] = Plus(sum[i - 1], amounts[i])
    <2>1. i \in 0..n /\ i # 0
      OBVIOUS
    <2>2. sum[i] = IF i = 0 THEN {0} ELSE Plus(sum[i - 1], amounts[i])
      BY <1>5, <2>1 DEF Sums
    <2> QED
      BY <2>1, <2>2
  <1> DEFINE G == {i \in 0..n : ~Agrees(W[i], V[i], sum[i])}
  <1>8. \A i \in 0..n : Agrees(W[i], V[i], sum[i])
    <2> SUFFICES ASSUME G # {} PROVE FALSE
      OBVIOUS
    <2>1. G \in SUBSET Nat
      OBVIOUS
    <2>2. PICK i \in G : \A l \in G : i <= l
      BY <2>1, SmallestNumber
    <2>3. CASE i = 0
      <3>1. V[0].valid /\ V[0].state = W[0].state /\ V[0].used = W[0].used /\ V[0].offset = {0}
        BY <1>2 DEF PathStart
      <3>2. Agrees(W[0], V[0], sum[0])
        BY <1>6, <3>1 DEF Agrees
      <3> QED
        BY <2>2, <2>3, <3>2
    <2>4. CASE i # 0
      <3>1. i \in 1..n /\ i - 1 \in 0..n /\ Agrees(W[i - 1], V[i - 1], sum[i - 1])
        BY <2>2, <2>4
      <3>2. W[i - 1].valid /\ W[i - 1].used \in Nat /\ W[i].valid
        BY <1>1, <1>3, <3>1
      <3>3. /\ W[i] = select(nd, wrow, structs, nd.access_path[i], W[i - 1])
            /\ V[i] = select(nd, vrow, structs, nd.access_path[i], V[i - 1])
        BY <1>2, <3>1
      <3>4. PICK step : /\ W[i].steps = Append(W[i - 1].steps, step)
                        /\ Agrees(W[i], V[i], Plus(sum[i - 1], StepAmount(plan, step, vrow)))
        BY <3>1, <3>2, <3>3, OneSegment
      <3> DEFINE g == [k \in 1..i - 1 |-> Step(k)]
      <3>5. Step(i) = step
        <4>1. W[i - 1].steps = [k \in 1..i - 1 |-> g[k]]
          BY <1>3, <3>1
        <4>2. i - 1 \in Nat /\ (i - 1) + 1 = i
          BY <3>1
        <4> HIDE DEF g
        <4>3. Append(W[i - 1].steps, step)
                = [k \in 1..(i - 1) + 1 |-> IF k = (i - 1) + 1 THEN step ELSE g[k]]
          BY <4>1, <4>2, AppendOne
        <4> QED
          BY <3>1, <3>4, <4>2, <4>3
      <3>6. amounts[i] = StepAmount(plan, step, vrow)
        BY <1>4, <3>1, <3>5
      <3>7. sum[i] = Plus(sum[i - 1], StepAmount(plan, step, vrow))
        BY <1>7, <3>1, <3>6
      <3> QED
        BY <2>2, <3>4, <3>7
    <2> QED
      BY <2>3, <2>4
  <1>9. n \in 0..n /\ PlannedOffset(plan, vrow) = sum[n]
    BY <1>5 DEF PlannedOffset, amounts
  <1> QED
    BY <1>8, <1>9

-----------------------------------------------------------------------------
(* A plan gives every row the range the metadata would.                     *)

LEMMA PathPlanResolvesAlike ==
    ASSUME NEW nd, NEW wrow, NEW vrow, NEW objs, NEW structs, Len(nd.access_path) \in Nat,
           resolve_path(nd, wrow, objs, structs).range # {}
    PROVE  resolve(resolve_path(nd, wrow, objs, structs).plan, vrow)
             = resolve_path(nd, vrow, objs, structs).range
  <1> DEFINE object == objs[nd.object]
             extent == CHOOSE e \in type_extent(type_state(object)) : TRUE
             wleaf == PathEnd(nd, wrow, objs, structs)
             vleaf == PathEnd(nd, vrow, objs, structs)
             size == wleaf.state.size
             plan == [structured |-> TRUE, width |-> size, extent |-> extent,
                      steps |-> wleaf.steps]
             T == PlannedOffset(plan, vrow)
  <1>1. PathResolves(nd, wleaf, object) /\ resolve_path(nd, wrow, objs, structs).plan = plan
    BY DEF resolve_path
  <1>2. Agrees(wleaf, vleaf, T)
    <2>1. PICK W : /\ Walks(Len(nd.access_path), nd, wrow, structs, object, W)
                   /\ wleaf = W[Len(nd.access_path)]
      BY PathEndIsLast
    <2>2. PICK V : /\ Walks(Len(nd.access_path), nd, vrow, structs, object, V)
                   /\ vleaf = V[Len(nd.access_path)]
      BY PathEndIsLast
    <2>3. wleaf.valid /\ plan.structured = TRUE /\ plan.steps = wleaf.steps
      BY <1>1 DEF PathResolves
    <2> HIDE DEF plan, wleaf, vleaf, object
    <2> QED
      BY <2>1, <2>2, <2>3, WalksAgree
  <1>3. resolve(plan, vrow)
          = {[offset |-> o, size |-> size] : o \in {b \in T : \E end \in Plus(T, {size}) : end <= extent}}
    BY DEF resolve
  <1>4. resolve_path(nd, vrow, objs, structs).range
          = IF PathResolves(nd, vleaf, object)
               /\ \E end \in Plus(vleaf.offset, {vleaf.state.size}) : end <= extent
            THEN {[offset |-> o, size |-> vleaf.state.size] : o \in vleaf.offset} ELSE {}
    BY DEF resolve_path
  <1> HIDE DEF T, plan, extent, vleaf
  <1>5. CASE ~vleaf.valid
    <2>1. T = {} /\ ~PathResolves(nd, vleaf, object)
      BY <1>2, <1>5 DEF Agrees, PathResolves
    <2>2. resolve(plan, vrow) = {}
      BY <1>3, <2>1
    <2> QED
      BY <1>1, <1>4, <2>1, <2>2
  <1>6. CASE vleaf.valid
    <2>1. vleaf.state = wleaf.state /\ vleaf.used = wleaf.used /\ vleaf.offset = T
      BY <1>2, <1>6 DEF Agrees
    <2>2. PathResolves(nd, vleaf, object)
      BY <1>1, <1>6, <2>1 DEF PathResolves
    <2>3. resolve_path(nd, vrow, objs, structs).range
            = IF \E end \in Plus(T, {size}) : end <= extent
              THEN {[offset |-> o, size |-> size] : o \in T} ELSE {}
      BY <1>4, <2>1, <2>2
    <2>4. CASE \E end \in Plus(T, {size}) : end <= extent
      <3>1. {b \in T : \E end \in Plus(T, {size}) : end <= extent} = T
        BY <2>4
      <3> QED
        BY <1>1, <1>3, <2>3, <2>4, <3>1
    <2>5. CASE ~ \E end \in Plus(T, {size}) : end <= extent
      <3>1. {b \in T : \E end \in Plus(T, {size}) : end <= extent} = {}
        BY <2>5
      <3>2. resolve(plan, vrow) = {}
        BY <1>3, <3>1
      <3> QED
        BY <1>1, <2>3, <2>5, <3>2
    <2> QED
      BY <2>4, <2>5
  <1> QED
    BY <1>5, <1>6

LEMMA ElementPlanResolvesAlike ==
    ASSUME NEW nd, NEW wrow, NEW vrow,
           Len(nd.indices) \in Nat, DOMAIN nd.indices = 1 .. Len(nd.indices),
           prepare_legacy_access(nd, wrow).range # {}
    PROVE  resolve(prepare_legacy_access(nd, wrow).plan, vrow)
             = prepare_legacy_access(nd, vrow).range
  <1> DEFINE plan == [structured |-> FALSE, width |-> nd.elem_size, extent |-> 0,
                      steps |-> ElementSteps(nd)]
             size == nd.elem_size
             T == PlannedOffset(plan, vrow)
  <1>1. ShapeFits(nd) /\ size > 0 /\ prepare_legacy_access(nd, wrow).plan = plan
    BY DEF prepare_legacy_access
  <1>2. T = linear_index(nd, vrow)
    <2> DEFINE planned == [s \in DOMAIN plan.steps |-> StepAmount(plan, plan.steps[s], vrow)]
               linear == [p \in DOMAIN nd.indices |-> Times({vrow[p]}, Pitch(nd, p))]
    <2>1. DOMAIN plan.steps = DOMAIN nd.indices
      BY DEF ElementSteps
    <2>2. ASSUME NEW p \in DOMAIN nd.indices
          PROVE  StepAmount(plan, plan.steps[p], vrow) = Times({vrow[p]}, Pitch(nd, p))
      <3>1. plan.steps[p].index = p /\ plan.steps[p].stride = Pitch(nd, p) /\ p # 0
        BY DEF ElementSteps
      <3> QED
        BY <3>1 DEF StepAmount
    <2>3. planned = linear
      BY <2>1, <2>2
    <2> HIDE DEF planned, linear
    <2>4. Total(planned) = Total(linear)
      BY <2>3
    <2> QED
      BY <2>4 DEF planned, linear, PlannedOffset, linear_index
  <1>3. resolve(plan, vrow) = {[offset |-> o, size |-> size] : o \in Times(T, {size})}
    <2> DEFINE bytes == Times(T, {size})
    <2> HIDE DEF bytes, T
    <2>1. {b \in bytes : FALSE => \E end \in Plus(T, {size}) : end <= 0} = bytes
      OBVIOUS
    <2> QED
      BY <2>1 DEF resolve, bytes, T
  <1>4. prepare_legacy_access(nd, vrow).range
          = {[offset |-> o, size |-> size] : o \in Times(linear_index(nd, vrow), {size})}
    BY <1>1 DEF prepare_legacy_access
  <1> QED
    BY <1>1, <1>2, <1>3, <1>4

LEMMA PlanResolvesAlike ==
    ASSUME NEW nd, NEW wrow, NEW vrow, NEW objs, NEW structs, Len(nd.access_path) \in Nat,
           Len(nd.indices) \in Nat, DOMAIN nd.indices = 1 .. Len(nd.indices),
           prepare(nd, wrow, objs, structs).range # {}
    PROVE  resolve(prepare(nd, wrow, objs, structs).plan, vrow)
             = prepare(nd, vrow, objs, structs).range
  <1>1. CASE has_field_path(nd)
    BY <1>1, PathPlanResolvesAlike DEF prepare
  <1>2. CASE ~has_field_path(nd)
    BY <1>2, ElementPlanResolvesAlike DEF prepare
  <1> QED
    BY <1>1, <1>2

-----------------------------------------------------------------------------
(* An access with its plan and without.                                     *)

\* The arrays of the node are arrays.
Arrays ==
    /\ Len(node.access_path) \in Nat /\ Len(node.indices) \in Nat
    /\ DOMAIN node.indices = 1 .. Len(node.indices)

LEMMA PlanAnswersAlike ==
    ASSUME Arrays, NEW w, NEW v, Refusal(NoPlan, w) = "resolved"
    PROVE  Outcome({Candidate(w)}, v) = Outcome(NoPlan, v)
  <1> DEFINE c == Candidate(w)
             object == CHOOSE o \in Binding : TRUE
             planned == resolve(c.layout, evaluate_numeric(v))
             fresh == Layout(v).range
  <1>1. FirstRefusal(w) = "resolved"
    BY DEF Refusal
  <1>2. NodeRefusal = "none" /\ KindRefusal = "none"
    BY <1>1 DEF FirstRefusal, NodeRefusal, KindRefusal
  <1>3. Ranged(Layout(w).range, Binding) = "resolved"
    BY <1>1, <1>2 DEF FirstRefusal
  <1>4. Layout(w).range # {} /\ Binding # {}
    BY <1>3 DEF Ranged
  <1>5. planned = fresh
    BY <1>4, PlanResolvesAlike DEF Layout, Candidate, Arrays
  <1>6. Binding = {object}
    <2>1. Binding = {} \/ Binding = {objects[node.object]}
      BY DEF Binding
    <2> QED
      BY <1>4, <2>1
  <1>7. c.object = object /\ c.operation = node.op /\ c.basis = Basis
    BY DEF Candidate
  <1>8. {c} # NoPlan /\ (CHOOSE plan \in {c} : TRUE) = c
    BY DEF NoPlan
  <1> HIDE DEF c, object, planned, fresh
  <1>9. Refusal({c}, v) = Refusal(NoPlan, v)
    <2>1. PlannedRefusal(c, v) = IF ~Exact(v) THEN "unsupported" ELSE Ranged(fresh, Binding)
      BY <1>5, <1>6, <1>7 DEF PlannedRefusal, planned
    <2>2. FirstRefusal(v) = IF ~Exact(v) THEN "unsupported" ELSE Ranged(fresh, Binding)
      BY <1>2 DEF FirstRefusal, fresh
    <2> QED
      BY <1>8, <2>1, <2>2 DEF Refusal
  <1>10. CASE Refusal({c}, v) # "resolved"
    BY <1>9, <1>10 DEF Outcome, c
  <1>11. CASE Refusal({c}, v) = "resolved"
    <2>1. Outcome({c}, v) = [verdict |-> "resolved",
                             at |-> {Ok(CHOOSE r \in fresh : TRUE, c.object, c.operation, c.basis)}]
      BY <1>5, <1>8, <1>11 DEF Outcome, planned
    <2>2. Candidate(v).object = object /\ Candidate(v).operation = node.op
          /\ Candidate(v).basis = Basis
      BY DEF Candidate, object
    <2>3. Outcome(NoPlan, v) = [verdict |-> "resolved",
                                at |-> {Ok(CHOOSE r \in fresh : TRUE, object, node.op, Basis)}]
      BY <1>9, <1>11, <2>2 DEF Outcome, fresh
    <2> QED
      BY <1>7, <2>1, <2>3 DEF c
  <1> QED
    BY <1>10, <1>11

\* What is kept was left by an access of this node that resolved; nothing is kept
\* and nothing resolved while the image is read.
PlanInv ==
    /\ access \in Accesses /\ Arrays
    /\ elf_stage # "bound" => prepared = NoPlan /\ last.outcome = NoOutcome
    /\ prepared = NoPlan \/ \E w : Refusal(NoPlan, w) = "resolved" /\ prepared = {Candidate(w)}
    /\ \A v : v = last.values /\ last.outcome # NoOutcome => last.outcome = Outcome(NoPlan, v)

LEMMA SameImageSameAnswers ==
    ASSUME access' = access, image' = image, objects' = objects, NEW v
    PROVE  /\ Refusal(NoPlan, v)' = Refusal(NoPlan, v)
           /\ Candidate(v)' = Candidate(v)
           /\ Outcome(NoPlan, v)' = Outcome(NoPlan, v)
  <1>1. node' = node
    BY DEF node
  <1>2. Layout(v)' = Layout(v)
    BY <1>1 DEF Layout
  <1>3. Binding' = Binding
    BY <1>1 DEF Binding
  <1>4. Basis' = Basis
    BY DEF Basis, image_relative
  <1>5. NodeRefusal' = NodeRefusal /\ KindRefusal' = KindRefusal
    BY <1>1 DEF NodeRefusal, KindRefusal, IsGlobal, object_kind
  <1>6. FirstRefusal(v)' = FirstRefusal(v)
    BY <1>2, <1>3, <1>5 DEF FirstRefusal
  <1>7. Candidate(v)' = Candidate(v)
    BY <1>1, <1>2, <1>3, <1>4 DEF Candidate
  <1>8. Refusal(NoPlan, v)' = Refusal(NoPlan, v)
    BY <1>6 DEF Refusal, NoPlan
  <1>9. Outcome(NoPlan, v)' = Outcome(NoPlan, v)
    BY <1>2, <1>7, <1>8 DEF Outcome, NoPlan
  <1> QED
    BY <1>7, <1>8, <1>9

LEMMA PlanStarts ==
    LinkInit => PlanInv
  <1> SUFFICES ASSUME LinkInit PROVE PlanInv
    OBVIOUS
  <1>1. PICK a \in Accesses, i \in Images : LinkStarts([access |-> a, image |-> i])
    BY DEF LinkInit
  <1>2. access = a /\ prepared = NoPlan /\ last.outcome = NoOutcome
    BY <1>1 DEF LinkStarts, AccessStarts
  <1>3. Arrays
    BY <1>2, AccessAssumption DEF Arrays, node
  <1> QED
    BY <1>2, <1>3 DEF PlanInv

\* Nothing is read any more once the objects are bound.
LEMMA BoundIsTheEnd ==
    ElfNext => elf_stage # "bound"
  BY DEF ElfNext, OpenImage, ReadSection, SectionsRead, ReadHeader, RefuseHeader, HeadersRead,
         AppendLoad, RefuseLoad, LoadsRead, ReadSymbol, SymbolsRead, StartBinding, BindSymbol,
         RefuseAmbiguous, SymbolsBound, Reads, HasRead

LEMMA PlanKept ==
    PlanInv /\ [LinkNext]_<<access_vars, elf_vars>> => PlanInv'
  <1> SUFFICES ASSUME PlanInv, [LinkNext]_<<access_vars, elf_vars>> PROVE PlanInv'
    OBVIOUS
  <1>1. CASE ElfNext /\ UNCHANGED access_vars
    <2>1. prepared = NoPlan /\ last.outcome = NoOutcome
      BY <1>1, BoundIsTheEnd DEF PlanInv
    <2>2. prepared' = prepared /\ last' = last /\ access' = access
      BY <1>1 DEF access_vars
    <2>3. Arrays'
      BY <2>2 DEF PlanInv, Arrays, node
    <2> QED
      BY <2>1, <2>2, <2>3 DEF PlanInv, NoPlan, NoOutcome
  <1>2. ASSUME NEW values \in Rows, Resolves(values) \/ Rejects(values), UNCHANGED elf_vars
        PROVE  PlanInv'
    <2>1. access' = access /\ image' = image /\ objects' = objects /\ elf_stage' = elf_stage
      BY <1>2 DEF Resolves, Rejects, elf_vars
    <2>2. Arrays'
      BY <2>1 DEF PlanInv, Arrays, node
    <2>3. elf_stage' = "bound"
      BY <1>2, <2>1 DEF Resolves, Rejects, Walking
    <2>4. last' = [values |-> values, outcome |-> Outcome(prepared, values)]
      BY <1>2 DEF Resolves, Rejects
    <2>5. Outcome(prepared, values) = Outcome(NoPlan, values)
      BY PlanAnswersAlike DEF PlanInv
    <2>6. ASSUME NEW v, v = last'.values
          PROVE  last'.outcome = Outcome(NoPlan, v)'
      <3>1. v = values /\ last'.outcome = Outcome(NoPlan, v)
        BY <2>4, <2>5, <2>6
      <3> QED
        BY <2>1, <3>1, SameImageSameAnswers
    <2>7. (prepared = NoPlan \/ \E w : Refusal(NoPlan, w) = "resolved" /\ prepared = {Candidate(w)})'
      <3>1. CASE prepared' = prepared
        BY <2>1, <3>1, SameImageSameAnswers DEF PlanInv, NoPlan
      <3>2. CASE prepared' # prepared
        <4>1. prepared = NoPlan /\ Refusal(prepared, values) = "resolved"
              /\ prepared' = {Candidate(values)}
          BY <1>2, <3>2 DEF Resolves, Rejects
        <4> QED
          BY <2>1, <4>1, SameImageSameAnswers
      <3> QED
        BY <3>1, <3>2
    <2> QED
      BY <2>1, <2>2, <2>3, <2>6, <2>7 DEF PlanInv
  <1>3. CASE UNCHANGED <<access_vars, elf_vars>>
    <2>1. /\ access' = access /\ image' = image /\ objects' = objects /\ elf_stage' = elf_stage
          /\ prepared' = prepared /\ last' = last
      BY <1>3 DEF access_vars, elf_vars
    <2>2. Arrays'
      BY <2>1 DEF PlanInv, Arrays, node
    <2>3. (prepared = NoPlan \/ \E w : Refusal(NoPlan, w) = "resolved" /\ prepared = {Candidate(w)})'
      BY <2>1, SameImageSameAnswers DEF PlanInv, NoPlan
    <2>4. ASSUME NEW v, v = last'.values, last'.outcome # NoOutcome
          PROVE  last'.outcome = Outcome(NoPlan, v)'
      BY <2>1, <2>4, SameImageSameAnswers DEF PlanInv
    <2> QED
      BY <2>1, <2>2, <2>3, <2>4 DEF PlanInv, NoPlan, NoOutcome
  <1> QED
    BY <1>1, <1>2, <1>3 DEF LinkNext

\* Whatever an access node was resolved for before, an access gets the range, the
\* operation and the refusal it would get if nothing had been kept (resolve_access).
THEOREM PlanNeverShows ==
    LinkSpec => []PlanIsInvisible
  <1>1. PlanInv => PlanIsInvisible
    BY DEF PlanInv, PlanIsInvisible
  <1> QED
    BY <1>1, PlanStarts, PlanKept, PTL DEF LinkSpec

-----------------------------------------------------------------------------
(* The objects of an image are its data symbols.                            *)

ImageSymbols == {image.symbols[i] : i \in DOMAIN image.symbols}

\* Data symbols among the first n of the image.
DataUpTo(n) == {s \in {image.symbols[i] : i \in 1..n} : IsDataSymbol(s)}

SymbolSet == {symbols[i] : i \in DOMAIN symbols}

\* The objects are those of the first n symbols, each at the address of all of
\* its symbols.
BoundUpTo(n) ==
    /\ DOMAIN objects = {global(symbols[i].name) : i \in 1..n}
    /\ \A i \in 1..n : objects[global(symbols[i].name)] = Address(symbols[i])

SymbolsInv ==
    /\ symbols \in Seq(ImageSymbols)
    /\ elf_stage \in {"opening", "sections", "headers", "loads"} => symbols = <<>>
    /\ elf_stage = "symbols" =>
          at \in 1..Len(image.symbols) + 1 /\ \A n : n = at - 1 => SymbolSet = DataUpTo(n)
    /\ elf_stage = "read" => symbols = <<>> \/ SymbolSet = DataUpTo(Len(image.symbols))
    /\ elf_stage \in {"binding", "bound"} => SymbolSet = DataUpTo(Len(image.symbols))

ObjectsInv ==
    /\ elf_stage = "binding" => 
          at \in 1..Len(symbols) + 1 /\ \A n : n = at - 1 => BoundUpTo(n)
    /\ elf_stage = "bound" => BoundUpTo(Len(symbols))
    /\ elf_stage \in {"opening", "sections", "headers", "loads", "symbols", "read"} =>
          objects = NoObjects

ElfInv == image \in Images /\ SymbolsInv /\ ObjectsInv

LEMMA ElfStart ==
    ElfInit => ElfInv
  <1> SUFFICES ASSUME ElfInit PROVE ElfInv
    OBVIOUS
  <1>1. PICK i \in Images : ElfStarts(i)
    BY DEF ElfInit
  <1> QED
    BY <1>1 DEF ElfStarts, ElfInv, SymbolsInv, ObjectsInv

\* Nothing the symbols depend on has changed.
LEMMA SameSymbols ==
    ASSUME image' = image, regions' = regions
    PROVE  /\ ImageSymbols' = ImageSymbols
           /\ \A n : DataUpTo(n)' = DataUpTo(n)
  BY DEF ImageSymbols, DataUpTo, IsDataSymbol, RegionsOfSection

LEMMA ImageSymbolsTyped ==
    ASSUME image \in Images
    PROVE  Len(image.symbols) \in Nat /\ DOMAIN image.symbols = 1 .. Len(image.symbols)
  BY ImageAssumption

LEMMA SymbolAppended ==
    ASSUME NEW S, NEW list \in Seq(S), NEW e \in S
    PROVE  /\ Append(list, e) \in Seq(S)
           /\ {Append(list, e)[i] : i \in DOMAIN Append(list, e)} = {list[i] : i \in DOMAIN list} \cup {e}
  <1> DEFINE after == Append(list, e)
             n == Len(list)
  <1>1. /\ after \in Seq(S) /\ DOMAIN list = 1..n /\ DOMAIN after = 1..n + 1 /\ n \in Nat
        /\ \A i \in 1..n : after[i] = list[i]
        /\ after[n + 1] = e
    BY AppendProperties
  <1> HIDE DEF after, n
  <1>2. \A i \in 1..n + 1 : i \in 1..n \/ i = n + 1
    BY <1>1
  <1>3. 1..n \subseteq 1..n + 1 /\ n + 1 \in 1..n + 1
    BY <1>1
  <1>4. {after[i] : i \in DOMAIN after} = {list[i] : i \in DOMAIN list} \cup {e}
    BY <1>1, <1>2, <1>3
  <1> QED
    BY <1>1, <1>4 DEF after

LEMMA SymbolStep ==
    ElfInv /\ ReadSymbol => ElfInv'
  <1> SUFFICES ASSUME ElfInv, ReadSymbol PROVE ElfInv'
    OBVIOUS
  <1> DEFINE symbol == image.symbols[at]
  <1>1. /\ elf_stage = "symbols" /\ elf_stage' = "symbols" /\ at \in 1..Len(image.symbols)
        /\ at' = at + 1 /\ image' = image /\ regions' = regions /\ objects' = objects
        /\ Len(image.symbols) \in Nat
    BY ImageSymbolsTyped DEF ElfInv, SymbolsInv, ReadSymbol, Reads
  <1>2. symbol \in ImageSymbols
    BY <1>1, ImageSymbolsTyped DEF ImageSymbols, ElfInv
  <1>3. symbols \in Seq(ImageSymbols) /\ SymbolSet = DataUpTo(at - 1)
    BY <1>1 DEF ElfInv, SymbolsInv
  <1>4. DataUpTo(at) = DataUpTo(at - 1) \cup (IF IsDataSymbol(symbol) THEN {symbol} ELSE {})
    <2>1. 1..at = (1..at - 1) \cup {at}
      BY <1>1
    <2> QED
      BY <2>1 DEF DataUpTo
  <1>5. symbols' \in Seq(ImageSymbols) /\ SymbolSet' = DataUpTo(at)
    <2>1. CASE IsDataSymbol(symbol) /\ ~Seen(symbol)
      <3>1. symbols' = Append(symbols, symbol)
        BY <2>1 DEF ReadSymbol
      <3>2. Append(symbols, symbol) \in Seq(ImageSymbols)
        BY <1>2, <1>3, SymbolAppended
      <3>3. {Append(symbols, symbol)[i] : i \in DOMAIN Append(symbols, symbol)} = SymbolSet \cup {symbol}
        BY <1>2, <1>3, SymbolAppended DEF SymbolSet
      <3>4. SymbolSet' = SymbolSet \cup {symbol}
        BY <3>1, <3>3 DEF SymbolSet
      <3> QED
        BY <1>3, <1>4, <2>1, <3>1, <3>2, <3>4
    <2>2. CASE ~(IsDataSymbol(symbol) /\ ~Seen(symbol))
      <3>1. symbols' = symbols
        BY <2>2 DEF ReadSymbol
      <3>2. IsDataSymbol(symbol) => symbol \in SymbolSet
        BY <2>2 DEF Seen, SymbolSet
      <3> QED
        BY <1>3, <1>4, <3>1, <3>2 DEF SymbolSet
    <2> QED
      BY <2>1, <2>2
  <1>6. SymbolsInv'
    <2>1. ImageSymbols' = ImageSymbols
      BY <1>1, SameSymbols
    <2>2. at' \in 1..Len(image'.symbols) + 1
      BY <1>1
    <2>3. ASSUME NEW n, n = at' - 1 PROVE SymbolSet' = DataUpTo(n)'
      <3>1. n = at
        BY <1>1, <2>3
      <3> QED
        BY <1>1, <1>5, <3>1, SameSymbols
    <2> QED
      BY <1>1, <1>5, <2>1, <2>2, <2>3 DEF SymbolsInv
  <1> QED
    BY <1>1, <1>6 DEF ElfInv, ObjectsInv

\* Before the symbols are read there are none, and no objects.
LEMMA EarlyStep ==
    ASSUME ElfInv, image' = image, symbols' = symbols, objects' = objects,
           elf_stage \in {"opening", "sections", "headers", "loads"},
           elf_stage' \in {"opening", "sections", "headers", "loads", "symbols", "read", "failed"},
           elf_stage' = "symbols" => at' = 1
    PROVE  ElfInv'
  <1>1. symbols = <<>> /\ objects = NoObjects
    BY DEF ElfInv, SymbolsInv, ObjectsInv
  <1>2. Len(image.symbols) \in Nat
    BY ImageSymbolsTyped DEF ElfInv
  <1>3. elf_stage' = "symbols" =>
           at' \in 1..Len(image'.symbols) + 1 /\ \A n : n = at' - 1 => SymbolSet' = DataUpTo(n)'
    <2> SUFFICES ASSUME elf_stage' = "symbols", NEW n, n = at' - 1
                 PROVE  at' \in 1..Len(image'.symbols) + 1 /\ SymbolSet' = DataUpTo(n)'
      BY <1>2
    <2>1. n = 0 /\ at' = 1
      OBVIOUS
    <2>2. DataUpTo(n)' = {}
      BY <2>1 DEF DataUpTo
    <2>3. SymbolSet' = {}
      BY <1>1 DEF SymbolSet
    <2> QED
      BY <1>2, <2>1, <2>2, <2>3
  <1> QED
    BY <1>1, <1>3 DEF ElfInv, SymbolsInv, ObjectsInv

LEMMA SortStep ==
    ElfInv /\ SymbolsRead => ElfInv'
  <1> SUFFICES ASSUME ElfInv, SymbolsRead PROVE ElfInv'
    OBVIOUS
  <1>1. /\ elf_stage = "symbols" /\ elf_stage' = "read" /\ image' = image /\ regions' = regions
        /\ objects' = objects /\ at > Len(image.symbols) /\ Len(image.symbols) \in Nat
    BY ImageSymbolsTyped DEF ElfInv, SymbolsRead, HasRead
  <1>2. symbols \in Seq(ImageSymbols) /\ SymbolSet = DataUpTo(Len(image.symbols))
    <2>1. at \in 1..Len(image.symbols) + 1 /\ \A n : n = at - 1 => SymbolSet = DataUpTo(n)
      BY <1>1 DEF ElfInv, SymbolsInv
    <2>2. at - 1 = Len(image.symbols)
      BY <1>1, <2>1
    <2> QED
      BY <2>1, <2>2 DEF ElfInv, SymbolsInv
  <1>3. PICK order \in Bijection(DOMAIN symbols, DOMAIN symbols) :
                symbols' = [i \in DOMAIN symbols |-> symbols[order[i]]]
    BY DEF SymbolsRead, ByAddress
  <1>4. order \in [DOMAIN symbols -> DOMAIN symbols]
        /\ \A j \in DOMAIN symbols : \E i \in DOMAIN symbols : order[i] = j
    BY DEF Bijection, Injection, Surjection
  <1>5. symbols' \in Seq(ImageSymbols)
    <2>1. DOMAIN symbols = 1..Len(symbols) /\ Len(symbols) \in Nat
          /\ \A i \in DOMAIN symbols : symbols[i] \in ImageSymbols
      BY <1>2, LenProperties
    <2> QED
      BY <1>3, <1>4, <2>1
  <1>6. SymbolSet' = SymbolSet
    BY <1>3, <1>4 DEF SymbolSet
  <1>7. \A n : DataUpTo(n)' = DataUpTo(n) /\ ImageSymbols' = ImageSymbols
    BY <1>1, SameSymbols
  <1>8. SymbolSet' = DataUpTo(Len(image.symbols))'
    <2>1. PICK n : n = Len(image.symbols)
      OBVIOUS
    <2>2. DataUpTo(n)' = DataUpTo(n)
      BY <1>7
    <2> QED
      BY <1>1, <1>2, <1>6, <2>1, <2>2
  <1> QED
    BY <1>1, <1>5, <1>7, <1>8 DEF ElfInv, SymbolsInv, ObjectsInv

\* Binding leaves the symbols as they are.
LEMMA SymbolsStay ==
    ASSUME SymbolsInv, image' = image, regions' = regions, symbols' = symbols,
           elf_stage \in {"read", "binding"}, elf_stage' \in {"binding", "bound", "failed"},
           elf_stage = "read" => symbols # <<>> \/ elf_stage' = "failed"
    PROVE  SymbolsInv' /\ SymbolSet' = SymbolSet
  <1>1. SymbolSet' = SymbolSet
    BY DEF SymbolSet
  <1>2. ImageSymbols' = ImageSymbols
    BY SameSymbols
  <1>3. DataUpTo(Len(image.symbols))' = DataUpTo(Len(image.symbols))
    BY DEF DataUpTo, IsDataSymbol, RegionsOfSection
  <1> QED
    BY <1>1, <1>2, <1>3 DEF SymbolsInv

LEMMA SymbolCount ==
    ASSUME SymbolsInv
    PROVE  Len(symbols) \in Nat /\ DOMAIN symbols = 1 .. Len(symbols)
  BY LenProperties DEF SymbolsInv

LEMMA StartBindingStep ==
    ElfInv /\ StartBinding => ElfInv'
  <1> SUFFICES ASSUME ElfInv, StartBinding PROVE ElfInv'
    OBVIOUS
  <1>1. /\ elf_stage = "read" /\ elf_stage' \in {"failed", "binding"} /\ image' = image
        /\ regions' = regions /\ symbols' = symbols /\ objects' = objects /\ at' = 1
        /\ symbols # <<>> \/ elf_stage' = "failed"
    BY DEF StartBinding
  <1>2. SymbolsInv'
    BY <1>1, SymbolsStay DEF ElfInv
  <1>3. objects = NoObjects /\ Len(symbols) \in Nat
    BY <1>1, SymbolCount DEF ElfInv, ObjectsInv
  <1>4. ASSUME NEW n, n = at' - 1 PROVE BoundUpTo(n)'
    <2>1. n = 0 /\ 1..n = {}
      BY <1>1, <1>4
    <2>2. DOMAIN objects' = {}
      BY <1>1, <1>3 DEF NoObjects
    <2> QED
      BY <2>1, <2>2 DEF BoundUpTo
  <1> QED
    BY <1>1, <1>2, <1>3, <1>4 DEF ElfInv, ObjectsInv

LEMMA BindStep ==
    ElfInv /\ BindSymbol => ElfInv'
  <1> SUFFICES ASSUME ElfInv, BindSymbol PROVE ElfInv'
    OBVIOUS
  <1> DEFINE symbol == symbols[at]
             id == global(symbol.name)
  <1>1. /\ elf_stage = "binding" /\ elf_stage' = "binding" /\ image' = image
        /\ regions' = regions /\ symbols' = symbols /\ at' = at + 1 /\ at <= Len(symbols)
        /\ ~Ambiguous(symbol)
        /\ objects' = [o \in DOMAIN objects \cup {id} |->
                          IF o \in DOMAIN objects THEN objects[o] ELSE Address(symbol)]
    BY DEF BindSymbol, Reads
  <1>2. SymbolsInv'
    BY <1>1, SymbolsStay DEF ElfInv
  <1>3. at \in 1..Len(symbols) /\ Len(symbols) \in Nat
    BY <1>1, SymbolCount DEF ElfInv, ObjectsInv
  <1>4. BoundUpTo(at - 1)
    BY <1>1 DEF ElfInv, ObjectsInv
  <1>5. objects'[id] = Address(symbol)
    BY <1>1 DEF Ambiguous
  <1>6. 1..at = (1..at - 1) \cup {at}
    BY <1>3
  <1>7. ASSUME NEW n, n = at' - 1 PROVE BoundUpTo(n)'
    <2>1. n = at
      BY <1>1, <1>3, <1>7
    <2>2. DOMAIN objects' = {global(symbols[i].name) : i \in 1..n}
      BY <1>1, <1>4, <1>6, <2>1 DEF BoundUpTo
    <2>3. ASSUME NEW i \in 1..n PROVE objects'[global(symbols[i].name)] = Address(symbols[i])
      <3>1. CASE i = at
        BY <1>5, <3>1
      <3>2. CASE i # at
        <4>1. i \in 1..at - 1
          BY <1>6, <2>1, <3>2
        <4>2. /\ global(symbols[i].name) \in DOMAIN objects
              /\ objects[global(symbols[i].name)] = Address(symbols[i])
          BY <1>4, <4>1 DEF BoundUpTo
        <4> QED
          BY <1>1, <4>2
      <3> QED
        BY <3>1, <3>2
    <2> QED
      BY <1>1, <2>2, <2>3 DEF BoundUpTo, Address
  <1> QED
    BY <1>1, <1>2, <1>3, <1>7 DEF ElfInv, ObjectsInv

LEMMA BoundStep ==
    ElfInv /\ SymbolsBound => ElfInv'
  <1> SUFFICES ASSUME ElfInv, SymbolsBound PROVE ElfInv'
    OBVIOUS
  <1>1. /\ elf_stage = "binding" /\ elf_stage' = "bound" /\ image' = image /\ at > Len(symbols)
        /\ regions' = regions /\ symbols' = symbols /\ objects' = objects
    BY DEF SymbolsBound, HasRead
  <1>2. SymbolsInv'
    BY <1>1, SymbolsStay DEF ElfInv
  <1>3. BoundUpTo(Len(symbols))
    <2>1. at \in 1..Len(symbols) + 1 /\ Len(symbols) \in Nat
      BY <1>1, SymbolCount DEF ElfInv, ObjectsInv
    <2>2. at - 1 = Len(symbols)
      BY <1>1, <2>1
    <2> QED
      BY <1>1, <2>2 DEF ElfInv, ObjectsInv
  <1>4. BoundUpTo(Len(symbols))'
    BY <1>1, <1>3 DEF BoundUpTo, Address
  <1> QED
    BY <1>1, <1>2, <1>4 DEF ElfInv, ObjectsInv

LEMMA ElfStep ==
    ElfInv /\ [ElfNext]_elf_vars => ElfInv'
  <1> SUFFICES ASSUME ElfInv, [ElfNext]_elf_vars PROVE ElfInv'
    OBVIOUS
  <1>1. CASE OpenImage \/ ReadSection \/ SectionsRead \/ ReadHeader \/ RefuseHeader
             \/ HeadersRead \/ AppendLoad \/ RefuseLoad \/ LoadsRead
    <2>1. /\ image' = image /\ symbols' = symbols /\ objects' = objects
          /\ elf_stage \in {"opening", "sections", "headers", "loads"}
          /\ elf_stage' \in {"opening", "sections", "headers", "loads", "symbols", "read", "failed"}
          /\ elf_stage' = "symbols" => at' = 1
      BY <1>1 DEF OpenImage, ReadSection, SectionsRead, ReadHeader, RefuseHeader, HeadersRead,
                  AppendLoad, RefuseLoad, LoadsRead, Reads, HasRead
    <2> QED
      BY <2>1, EarlyStep
  <1>2. CASE ReadSymbol
    BY <1>2, SymbolStep
  <1>3. CASE SymbolsRead
    BY <1>3, SortStep
  <1>4. CASE StartBinding
    BY <1>4, StartBindingStep
  <1>5. CASE BindSymbol
    BY <1>5, BindStep
  <1>6. CASE RefuseAmbiguous
    <2>1. /\ elf_stage = "binding" /\ elf_stage' = "failed" /\ image' = image
          /\ regions' = regions /\ symbols' = symbols
      BY <1>6 DEF RefuseAmbiguous, Reads
    <2> QED
      BY <2>1, SymbolsStay DEF ElfInv, ObjectsInv
  <1>7. CASE SymbolsBound
    BY <1>7, BoundStep
  <1>8. CASE UNCHANGED elf_vars
    <2>1. /\ image' = image /\ regions' = regions /\ symbols' = symbols /\ at' = at
          /\ objects' = objects /\ elf_stage' = elf_stage
      BY <1>8 DEF elf_vars
    <2>2. ImageSymbols' = ImageSymbols /\ \A n : DataUpTo(n)' = DataUpTo(n)
      BY <2>1, SameSymbols
    <2>3. SymbolSet' = SymbolSet
      BY <2>1 DEF SymbolSet
    <2>4. DataUpTo(Len(image.symbols))' = DataUpTo(Len(image.symbols))
      BY <2>1 DEF DataUpTo, IsDataSymbol, RegionsOfSection
    <2>5. SymbolsInv'
      BY <2>1, <2>2, <2>3, <2>4 DEF ElfInv, SymbolsInv
    <2>6. \A n : BoundUpTo(n)' = BoundUpTo(n)
      BY <2>1, Zenon DEF BoundUpTo, Address
    <2>7. BoundUpTo(Len(symbols))' = BoundUpTo(Len(symbols))
      BY <2>1, Zenon DEF BoundUpTo, Address
    <2>8. ObjectsInv'
      BY <2>1, <2>6, <2>7 DEF ElfInv, ObjectsInv
    <2> QED
      BY <2>1, <2>5, <2>8 DEF ElfInv
  <1> QED
    BY <1>1, <1>2, <1>3, <1>4, <1>5, <1>6, <1>7, <1>8 DEF ElfNext

LEMMA ObjectsMeanSymbols ==
    ElfInv => ObjectsAreSymbols
  <1> SUFFICES ASSUME ElfInv, elf_stage = "bound" PROVE ObjectsAreSymbols
    BY DEF ObjectsAreSymbols
  <1> DEFINE data == {s \in {image.symbols[i] : i \in DOMAIN image.symbols} : IsDataSymbol(s)}
  <1>1. data = {symbols[i] : i \in 1..Len(symbols)}
    BY ImageSymbolsTyped, SymbolCount DEF ElfInv, SymbolsInv, SymbolSet, DataUpTo
  <1>2. BoundUpTo(Len(symbols))
    BY DEF ElfInv, ObjectsInv
  <1>3. \A s \in data : objects[global(s.name)] = Address(s)
    BY <1>1, <1>2 DEF BoundUpTo
  <1>4. DOMAIN objects = {global(s.name) : s \in data}
    BY <1>1, <1>2, ZenonT(60) DEF BoundUpTo
  <1> HIDE DEF data
  <1>5. ~ \E s, t \in data : s.name = t.name /\ Address(s) # Address(t)
    BY <1>3
  <1> QED
    BY <1>3, <1>4, <1>5 DEF ObjectsAreSymbols, data

\* An address model has one address for each name, that of every data symbol of
\* that name, and an image where two of them differ has none (append_symbol,
\* build_elf_object_addresses).
THEOREM ObjectsHaveTheirSymbols ==
    ElfSpec => []ObjectsAreSymbols
  BY ElfStart, ElfStep, ObjectsMeanSymbols, PTL DEF ElfSpec

-----------------------------------------------------------------------------
(* The regions of an image are its data.                                    *)

Under(S, R, x) == {y \in S : <<y, x>> \in R}

\* The n-th of f has n - 1 under it, if there is such an element.
Ranked(S, R, f) ==
    \A n \in 1 .. Cardinality(S), x \in S :
       Cardinality(Under(S, R, x)) = n - 1 =>
          f[n] \in S /\ Cardinality(Under(S, R, f[n])) = n - 1

\* Counting what is before it puts each element of a finite order in its place.
LEMMA RankOrders ==
    ASSUME NEW S, IsFiniteSet(S), NEW R, NEW T, NEW f \in [1 .. Cardinality(S) -> T],
           \A x \in S : <<x, x>> \notin R,
           \A x, y, z \in S : <<x, y>> \in R /\ <<y, z>> \in R => <<x, z>> \in R,
           \A x, y \in S : x = y \/ <<x, y>> \in R \/ <<y, x>> \in R,
           Ranked(S, R, f)
    PROVE  /\ f \in Bijection(1 .. Cardinality(S), S)
           /\ \A i, j \in 1 .. Cardinality(S) : i < j => <<f[i], f[j]>> \in R
  <1> DEFINE N == Cardinality(S)
             rank == [x \in S |-> Cardinality(Under(S, R, x)) + 1]
  <1>1. N \in Nat /\ IsFiniteSet(1 .. N) /\ Cardinality(1 .. N) = N
    BY FS_CardinalityType, FS_Interval
  <1>2. \A x \in S : IsFiniteSet(Under(S, R, x)) /\ Cardinality(Under(S, R, x)) \in Nat
    <2> SUFFICES ASSUME NEW x \in S PROVE IsFiniteSet(Under(S, R, x)) /\ Cardinality(Under(S, R, x)) \in Nat
      OBVIOUS
    <2>1. Under(S, R, x) \in SUBSET S
      BY DEF Under
    <2> QED
      BY <2>1, FS_Subset, FS_CardinalityType
  <1>3. ASSUME NEW x \in S, NEW U \in SUBSET S, Under(S, R, x) \cup {x} \subseteq U
        PROVE  Cardinality(Under(S, R, x)) + 1 <= Cardinality(U)
    <2>1. x \notin Under(S, R, x)
      BY DEF Under
    <2>2. IsFiniteSet(U)
      BY FS_Subset
    <2>3. Cardinality(Under(S, R, x) \cup {x}) = Cardinality(Under(S, R, x)) + 1
      BY <1>2, <2>1, FS_AddElement
    <2>4. Cardinality(Under(S, R, x) \cup {x}) <= Cardinality(U)
      BY <1>3, <2>2, FS_Subset
    <2> QED
      BY <2>3, <2>4
  <1>4. ASSUME NEW x \in S, NEW y \in S, <<x, y>> \in R PROVE rank[x] < rank[y]
    <2>1. Under(S, R, x) \cup {x} \subseteq Under(S, R, y) /\ Under(S, R, y) \in SUBSET S
      BY <1>4 DEF Under
    <2>2. Cardinality(Under(S, R, x)) + 1 <= Cardinality(Under(S, R, y))
      BY <1>3, <2>1
    <2> QED
      BY <1>2, <2>2
  <1>5. \A x \in S : rank[x] \in 1 .. N
    <2> SUFFICES ASSUME NEW x \in S PROVE rank[x] \in 1 .. N
      OBVIOUS
    <2>1. Under(S, R, x) \cup {x} \subseteq S
      BY DEF Under
    <2>2. Cardinality(Under(S, R, x)) + 1 <= N
      BY <1>3, <2>1
    <2> HIDE DEF N
    <2> QED
      BY <1>1, <1>2, <2>2
  <1>6. rank \in [S -> 1 .. N]
    <2> DEFINE r == rank
    <2>1. r = [x \in S |-> r[x]]
      OBVIOUS
    <2> HIDE DEF rank
    <2> QED
      BY <1>5, <2>1
  <1> HIDE DEF rank
  <1>7. \A x, y \in S : rank[x] = rank[y] => x = y
    <2> SUFFICES ASSUME NEW x \in S, NEW y \in S, rank[x] = rank[y], x # y PROVE FALSE
      OBVIOUS
    <2>1. rank[x] < rank[y] \/ rank[y] < rank[x]
      BY <1>4
    <2>2. rank[x] \in Nat /\ rank[y] \in Nat
      BY <1>5
    <2> QED
      BY <2>1, <2>2
  <1>8. rank \in Injection(S, 1 .. N)
    BY <1>6, <1>7 DEF Injection, IsInjective
  <1>9. rank \in Surjection(S, 1 .. N)
    <2> HIDE DEF N
    <2>1. Cardinality(S) = Cardinality(1 .. N)
      BY <1>1 DEF N
    <2> QED
      BY <1>1, <1>8, <2>1, FS_Injection
  <1>10. \A n \in 1 .. N : f[n] \in S /\ rank[f[n]] = n
    <2> SUFFICES ASSUME NEW n \in 1 .. N PROVE f[n] \in S /\ rank[f[n]] = n
      OBVIOUS
    <2>1. PICK x \in S : rank[x] = n
      BY <1>9 DEF Surjection
    <2>2. \A y \in S : rank[y] = Cardinality(Under(S, R, y)) + 1
      BY DEF rank
    <2>4. Cardinality(Under(S, R, x)) = n - 1
      BY <1>1, <1>2, <2>1, <2>2
    <2>5. f[n] \in S /\ Cardinality(Under(S, R, f[n])) = n - 1
      BY <2>4, Zenon DEF Ranked, N
    <2> QED
      BY <1>1, <2>2, <2>5
  <1>11. f = [n \in 1 .. N |-> f[n]] /\ DOMAIN f = 1 .. N
    OBVIOUS
  <1> HIDE DEF N
  <1>12. f \in [1 .. N -> S]
    BY <1>10, <1>11
  <1>13. \A i, j \in 1 .. N : f[i] = f[j] => i = j
    BY <1>10
  <1>14. \A x \in S : \E n \in 1 .. N : f[n] = x
    <2> SUFFICES ASSUME NEW x \in S PROVE \E n \in 1 .. N : f[n] = x
      OBVIOUS
    <2>1. rank[x] \in 1 .. N
      BY <1>6
    <2>2. f[rank[x]] \in S /\ rank[f[rank[x]]] = rank[x]
      BY <1>10, <2>1
    <2> QED
      BY <1>7, <2>1, <2>2
  <1>15. f \in Bijection(1 .. N, S)
    BY <1>12, <1>13, <1>14 DEF Bijection, Injection, Surjection, IsInjective
  <1>16. ASSUME NEW i \in 1 .. N, NEW j \in 1 .. N, i < j PROVE <<f[i], f[j]>> \in R
    <2>1. f[i] \in S /\ f[j] \in S /\ rank[f[i]] = i /\ rank[f[j]] = j
      BY <1>10
    <2>2. ~(j < i) /\ i # j
      BY <1>1, <1>16
    <2>3. f[i] # f[j] /\ <<f[j], f[i]>> \notin R
      <3>1. <<f[j], f[i]>> \in R => rank[f[j]] < rank[f[i]]
        BY <1>4, <2>1
      <3> QED
        BY <2>1, <2>2, <3>1
    <2> QED
      BY <2>1, <2>3
  <1> QED
    BY <1>15, <1>16 DEF N

\* Elements of a set in the order of their ranks, for the two orders regions have.
LEMMA InOrderBy ==
    ASSUME NEW S, IsFiniteSet(S), NEW R, NEW T, NEW f \in [1 .. Cardinality(S) -> T],
           Ranked(S, R, f),
           \A x \in S : <<x, x>> \notin R,
           \A x, y, z \in S : <<x, y>> \in R /\ <<y, z>> \in R => <<x, z>> \in R,
           \A x, y \in S : x = y \/ <<x, y>> \in R \/ <<y, x>> \in R
    PROVE  /\ f \in Seq(S) /\ Len(f) = Cardinality(S) /\ DOMAIN f = 1 .. Len(f)
           /\ Len(f) \in Nat /\ Range(f) = S
           /\ \A i, j \in DOMAIN f : f[i] = f[j] => i = j
           /\ \A i, j \in DOMAIN f : i < j => <<f[i], f[j]>> \in R
  <1> DEFINE N == Cardinality(S)
  <1>1. N \in Nat
    BY FS_CardinalityType
  <1>2. /\ f \in Bijection(1 .. N, S)
        /\ \A i, j \in 1 .. N : i < j => <<f[i], f[j]>> \in R
    BY RankOrders
  <1> HIDE DEF N
  <1>3. f \in [1 .. N -> S] /\ DOMAIN f = 1 .. N
    BY <1>2 DEF Bijection, Surjection
  <1>4. f \in Seq(S) /\ Len(f) = N
    <2>1. f \in UNION {[1 .. n -> S] : n \in Nat}
      BY <1>1, <1>3
    <2> QED
      BY <1>1, <1>3, <2>1, SeqDef, LenProperties
  <1>5. Range(f) = S
    <2>1. \A x \in S : \E n \in 1 .. N : f[n] = x
      BY <1>2 DEF Bijection, Surjection
    <2>2. \A n \in 1 .. N : f[n] \in S
      BY <1>3
    <2> QED
      BY <1>3, <2>1, <2>2 DEF Range
  <1> QED
    BY <1>1, <1>2, <1>3, <1>4, <1>5 DEF N, Bijection, Injection, IsInjective

LEMMA InOrderRanks ==
    ASSUME NEW S, NEW R
    PROVE  LET f == InOrder(S, R)
           IN  /\ f \in [1 .. Cardinality(S) -> {f[n] : n \in 1 .. Cardinality(S)}]
               /\ Ranked(S, R, f)
  <1> DEFINE f == InOrder(S, R)
             nth(n) == CHOOSE x \in S : Cardinality({y \in S : <<y, x>> \in R}) = n - 1
  <1>1. f = [n \in 1 .. Cardinality(S) |-> nth(n)]
    BY DEF InOrder
  <1> HIDE DEF f
  <1>2. f \in [1 .. Cardinality(S) -> {f[n] : n \in 1 .. Cardinality(S)}]
    <2> HIDE DEF nth
    <2> QED
      BY <1>1
  <1>3. Ranked(S, R, f)
    <2> SUFFICES ASSUME NEW n \in 1 .. Cardinality(S), NEW x \in S,
                        Cardinality(Under(S, R, x)) = n - 1
                 PROVE  f[n] \in S /\ Cardinality(Under(S, R, f[n])) = n - 1
      BY DEF Ranked
    <2>1. f[n] = nth(n)
      BY <1>1, Zenon
    <2>2. Cardinality({y \in S : <<y, x>> \in R}) = n - 1
      BY DEF Under
    <2>3. f[n] \in S /\ Cardinality({y \in S : <<y, f[n]>> \in R}) = n - 1
      BY <2>1, <2>2, Zenon
    <2> QED
      BY <2>3 DEF Under
  <1> QED
    BY <1>2, <1>3 DEF f

Placed(r) == r.address \in Nat /\ r.source \in Nat

\* Regions that differ in where they begin, or in their segment, are put in order.
LEMMA SortedRegions ==
    ASSUME NEW list, IsFiniteSet(Range(list)), \A r \in Range(list) : Placed(r),
           \A r, s \in Range(list) : r.address = s.address /\ r.source = s.source => r = s
    PROVE  LET sorted == Sorted(list)
           IN  /\ sorted \in Seq(Range(list)) /\ DOMAIN sorted = 1 .. Len(sorted)
               /\ Len(sorted) \in Nat /\ Range(sorted) = Range(list)
               /\ \A i, j \in DOMAIN sorted : sorted[i] = sorted[j] => i = j
               /\ \A i, j \in DOMAIN sorted : i < j => sorted[i].address <= sorted[j].address
  <1> DEFINE S == Range(list)  sorted == Sorted(list)
             R == {p \in S \X S : Earlier(p[1], p[2])}
  <1>1. \A x, y \in S : <<x, y>> \in R <=> Earlier(x, y)
    OBVIOUS
  <1>2. sorted = InOrder(S, R)
    BY DEF Sorted
  <1>3. /\ sorted \in [1 .. Cardinality(S) -> {sorted[n] : n \in 1 .. Cardinality(S)}]
        /\ Ranked(S, R, sorted)
    <2> HIDE DEF S, R, sorted
    <2> QED
      BY <1>2, InOrderRanks
  <1> HIDE DEF sorted, R
  <1>4. \A x \in S : x.address \in Nat /\ x.source \in Nat
    BY DEF Placed
  <1>5. \A x \in S : <<x, x>> \notin R
    BY <1>1, <1>4 DEF Earlier
  <1>6. \A x, y, z \in S : <<x, y>> \in R /\ <<y, z>> \in R => <<x, z>> \in R
    BY <1>1, <1>4 DEF Earlier
  <1>7. \A x, y \in S : x = y \/ <<x, y>> \in R \/ <<y, x>> \in R
    <2> SUFFICES ASSUME NEW x \in S, NEW y \in S, x # y PROVE Earlier(x, y) \/ Earlier(y, x)
      BY <1>1
    <2>1. x.address # y.address \/ x.source # y.source
      OBVIOUS
    <2> QED
      BY <1>4, <2>1 DEF Earlier
  <1> HIDE DEF S
  <1>8. /\ sorted \in Seq(S) /\ DOMAIN sorted = 1 .. Len(sorted)
        /\ Len(sorted) \in Nat /\ Range(sorted) = S
        /\ \A i, j \in DOMAIN sorted : sorted[i] = sorted[j] => i = j
        /\ \A i, j \in DOMAIN sorted : i < j => <<sorted[i], sorted[j]>> \in R
    <2> DEFINE T == {sorted[n] : n \in 1 .. Cardinality(S)}
    <2>1. IsFiniteSet(S) /\ sorted \in [1 .. Cardinality(S) -> T]
      BY <1>3 DEF S
    <2> HIDE DEF T
    <2> QED
      BY <1>3, <1>5, <1>6, <1>7, <2>1, InOrderBy
  <1>9. \A i, j \in DOMAIN sorted : i < j => sorted[i].address <= sorted[j].address
    <2> SUFFICES ASSUME NEW i \in DOMAIN sorted, NEW j \in DOMAIN sorted, i < j
                 PROVE  sorted[i].address <= sorted[j].address
      OBVIOUS
    <2>1. sorted[i] \in S /\ sorted[j] \in S /\ <<sorted[i], sorted[j]>> \in R
      BY <1>8 DEF Range
    <2>2. Earlier(sorted[i], sorted[j])
      BY <1>1, <2>1
    <2> QED
      BY <1>4, <2>1, <2>2 DEF Earlier
  <1> QED
    BY <1>8, <1>9 DEF S, sorted

\* A load of some bytes, and the thread-local templates known.
Extents(load) ==
    /\ load.start \in Nat /\ load.file_end \in Nat /\ load.memory_end \in Nat
    /\ load.start <= load.file_end /\ load.file_end <= load.memory_end
    /\ load.start < load.memory_end
    /\ \A t \in TlsHeaders : t.start \in Nat /\ t.memory_end \in Nat

LEMMA ExtentIsFinite ==
    ASSUME NEW load, Extents(load)
    PROVE  IsFiniteSet(load.start .. load.memory_end)
  <1>1. load.start \in Int /\ load.memory_end \in Int
    BY DEF Extents
  <1> QED
    BY <1>1, FS_Interval

LEMMA BoundariesOfLoad ==
    ASSUME NEW load, Extents(load)
    PROVE  /\ Boundaries(load) \in SUBSET (load.start .. load.memory_end)
           /\ IsFiniteSet(Boundaries(load))
           /\ {load.start, load.file_end, load.memory_end} \subseteq Boundaries(load)
           /\ \A t \in TlsHeaders : t.start < load.memory_end /\ t.memory_end > load.start =>
                 {Larger(load.start, t.start),
                  Larger(load.start, Smaller(load.memory_end, t.memory_end))}
                    \subseteq Boundaries(load)
  <1> DEFINE T == {t \in TlsHeaders : t.start < load.memory_end /\ t.memory_end > load.start}
             Of(t) == {Larger(load.start, t.start),
                       Larger(load.start, Smaller(load.memory_end, t.memory_end))}
  <1>1. Boundaries(load) = {load.start, load.file_end, load.memory_end} \cup UNION {Of(t) : t \in T}
    BY DEF Boundaries
  <1>2. \A t \in T : Of(t) \subseteq load.start .. load.memory_end
    BY DEF Extents, Larger, Smaller
  <1>3. {load.start, load.file_end, load.memory_end} \subseteq load.start .. load.memory_end
    BY DEF Extents
  <1> HIDE DEF Of
  <1>4. Boundaries(load) \in SUBSET (load.start .. load.memory_end)
    BY <1>1, <1>2, <1>3
  <1>5. IsFiniteSet(load.start .. load.memory_end)
    BY ExtentIsFinite
  <1>6. \A t \in T : Of(t) \subseteq Boundaries(load)
    BY <1>1
  <1> QED
    BY <1>1, <1>4, <1>5, <1>6, FS_Subset DEF Of

LEMMA PartsAreIntervals ==
    ASSUME NEW load, Extents(load)
    PROVE  /\ \A p \in DataParts(load) :
                 /\ p = [start |-> p.start, end |-> p.end]
                 /\ p.start \in load.start .. load.memory_end
                 /\ p.end \in load.start .. load.memory_end
                 /\ p.start < p.end
                 /\ load.file_end <= p.start \/ load.file_end >= p.end
           /\ \A p, q \in DataParts(load) : q.start < p.end => q.start <= p.start
           /\ \A p, q \in DataParts(load) : p.start = q.start => p = q
  <1> DEFINE B == Boundaries(load)
  <1>1. B \subseteq Nat /\ B \subseteq load.start .. load.memory_end /\ load.file_end \in B
    BY BoundariesOfLoad DEF Extents
  <1>2. \A p \in DataParts(load) :
           /\ p \in [start : B, end : B] /\ p.start < p.end
           /\ \A cut \in B : cut <= p.start \/ cut >= p.end
    BY DEF DataParts
  <1> HIDE DEF B
  <1>3. \A p \in DataParts(load) :
           p.start \in B /\ p.end \in B /\ p = [start |-> p.start, end |-> p.end]
    BY <1>2
  <1>4. \A p, q \in DataParts(load) : q.start < p.end => q.start <= p.start
    BY <1>1, <1>2, <1>3
  <1>5. ASSUME NEW p \in DataParts(load), NEW q \in DataParts(load), p.start = q.start
        PROVE  p = q
    <2>1. p.end <= q.start \/ p.end >= q.end
      BY <1>2, <1>3
    <2>2. q.end <= p.start \/ q.end >= p.end
      BY <1>2, <1>3
    <2>3. p.start < p.end /\ q.start < q.end
      BY <1>2
    <2>4. /\ p.start \in Nat /\ p.end \in Nat /\ q.end \in Nat
          /\ p = [start |-> p.start, end |-> p.end] /\ q = [start |-> q.start, end |-> q.end]
      BY <1>1, <1>3
    <2>5. p.end = q.end
      BY <1>5, <2>1, <2>2, <2>3, <2>4
    <2> QED
      BY <1>5, <2>4, <2>5
  <1> QED
    BY <1>1, <1>2, <1>3, <1>4, <1>5

\* The parts of a load, in the order of their addresses.
LEMMA PartsInOrder ==
    ASSUME NEW load, Extents(load)
    PROVE  /\ Parts(load) \in Seq(DataParts(load)) /\ DOMAIN Parts(load) = 1 .. Len(Parts(load))
           /\ Len(Parts(load)) \in Nat /\ Range(Parts(load)) = DataParts(load)
  <1> DEFINE S == DataParts(load)  parts == Parts(load)
             R == {p \in S \X S : p[1].start < p[2].start}
             T == {parts[n] : n \in 1 .. Cardinality(S)}
  <1>1. \A x, y \in S : <<x, y>> \in R <=> x.start < y.start
    OBVIOUS
  <1>2. parts = InOrder(S, R)
    BY DEF Parts
  <1>3. IsFiniteSet(S)
    <2> DEFINE from == [p \in S |-> p.start]
    <2>1. IsFiniteSet(load.start .. load.memory_end)
      BY ExtentIsFinite
    <2>2. from \in [S -> load.start .. load.memory_end]
      BY PartsAreIntervals
    <2>3. \A p, q \in S : from[p] = from[q] => p = q
      BY PartsAreIntervals
    <2> HIDE DEF from
    <2>4. from \in Injection(S, load.start .. load.memory_end)
      BY <2>2, <2>3 DEF Injection, IsInjective
    <2> QED
      BY <2>1, <2>4, FS_Injection
  <1>4. \A x \in S : x.start \in Nat
    BY PartsAreIntervals DEF Extents
  <1>5. \A x, y \in S : x.start = y.start => x = y
    BY PartsAreIntervals
  <1> HIDE DEF S, R, parts
  <1>6. parts \in [1 .. Cardinality(S) -> T] /\ Ranked(S, R, parts)
    BY <1>2, InOrderRanks
  <1>7. /\ \A x \in S : <<x, x>> \notin R
        /\ \A x, y, z \in S : <<x, y>> \in R /\ <<y, z>> \in R => <<x, z>> \in R
        /\ \A x, y \in S : x = y \/ <<x, y>> \in R \/ <<y, x>> \in R
    BY <1>1, <1>4, <1>5
  <1> HIDE DEF T
  <1>8. /\ parts \in Seq(S) /\ DOMAIN parts = 1 .. Len(parts) /\ Len(parts) \in Nat
        /\ Range(parts) = S
    BY <1>3, <1>6, <1>7, InOrderBy
  <1> QED
    BY <1>8 DEF S, parts

Holds(part, b) == part.start <= b /\ b < part.end
IsThreadLocal(b) == \E t \in TlsHeaders : t.start <= b /\ b < t.memory_end

\* Of the boundaries around a byte there is a last one before it and a first one
\* behind it.
LEMMA Neighbours ==
    ASSUME NEW B \in SUBSET Nat, NEW top \in Nat, NEW b \in Nat, NEW lo \in B, NEW hi \in B,
           lo <= b, b < hi, \A c \in B : c <= top
    PROVE  \E a, e \in B : a <= b /\ b < e /\ \A c \in B : c <= a \/ c >= e
  <1> DEFINE Above == {c \in B : b < c}
             Left == {n \in Nat : \E c \in B : c <= b /\ n = b - c}
  <1>1. PICK e \in Above : \A c \in Above : e <= c
    <2>1. Above \in SUBSET Nat /\ Above # {}
      OBVIOUS
    <2> HIDE DEF Above
    <2> QED
      BY <2>1, SmallestNumber
  <1>2. PICK n \in Left : \A m \in Left : n <= m
    <2>1. Left \in SUBSET Nat /\ b - lo \in Left
      OBVIOUS
    <2> HIDE DEF Left
    <2> QED
      BY <2>1, SmallestNumber
  <1>3. PICK a \in B : a <= b /\ n = b - a
    BY <1>2
  <1>4. \A c \in B : c <= a \/ c >= e
    <2> SUFFICES ASSUME NEW c \in B, ~(c <= a) PROVE c >= e
      OBVIOUS
    <2>1. CASE c <= b
      <3>1. b - c \in Left
        BY <2>1
      <3> QED
        BY <1>2, <1>3, <2>1, <3>1
    <2>2. CASE b < c
      BY <1>1, <2>2
    <2> QED
      BY <2>1, <2>2
  <1> QED
    BY <1>1, <1>3, <1>4

\* A byte of a load is in one of its parts, or in none if it is thread-local.
LEMMA PartOfByte ==
    ASSUME NEW load, Extents(load), NEW b \in load.start .. load.memory_end - 1
    PROVE  /\ \A p, q \in DataParts(load) : Holds(p, b) /\ Holds(q, b) => p = q
           /\ IsThreadLocal(b) => \A p \in DataParts(load) : ~Holds(p, b)
           /\ ~IsThreadLocal(b) => \E p \in DataParts(load) : Holds(p, b)
  <1>1. /\ load.start \in Nat /\ load.memory_end \in Nat /\ load.start < load.memory_end
        /\ \A t \in TlsHeaders : t.start \in Nat /\ t.memory_end \in Nat
        /\ b \in Nat /\ load.start <= b /\ b < load.memory_end
    BY DEF Extents
  <1> DEFINE B == Boundaries(load)
  <1>2. /\ B \in SUBSET (load.start .. load.memory_end)
        /\ load.start \in B /\ load.memory_end \in B
        /\ \A t \in TlsHeaders : t.start < load.memory_end /\ t.memory_end > load.start =>
              /\ Larger(load.start, t.start) \in B
              /\ Larger(load.start, Smaller(load.memory_end, t.memory_end)) \in B
    BY BoundariesOfLoad
  <1>3. \A p \in DataParts(load) :
           /\ p.start \in Nat /\ p.end \in Nat
           /\ \A cut \in B : cut <= p.start \/ cut >= p.end
           /\ ~overlaps_tls(p.start, p.end)
    BY <1>1, PartsAreIntervals DEF DataParts
  <1>4. \A p, q \in DataParts(load) : Holds(p, b) /\ Holds(q, b) => p = q
    <2> SUFFICES ASSUME NEW p \in DataParts(load), NEW q \in DataParts(load),
                        Holds(p, b), Holds(q, b)
                 PROVE  p = q
      OBVIOUS
    <2>1. p.start \in Nat /\ q.start \in Nat /\ p.end \in Nat /\ q.end \in Nat
      BY <1>3
    <2>2. q.start < p.end /\ p.start < q.end
      BY <1>1, <2>1 DEF Holds
    <2>3. q.start <= p.start /\ p.start <= q.start
      BY <2>2, PartsAreIntervals
    <2> QED
      BY <2>1, <2>3, PartsAreIntervals
  <1>5. ASSUME NEW p \in DataParts(load), Holds(p, b), IsThreadLocal(b) PROVE FALSE
    <2>1. PICK t \in TlsHeaders : t.start <= b /\ b < t.memory_end
      BY <1>5 DEF IsThreadLocal
    <2>2. /\ p.start \in Nat /\ p.end \in Nat /\ p.start <= b /\ b < p.end
          /\ t.start \in Nat /\ t.memory_end \in Nat
      BY <1>1, <1>3, <1>5 DEF Holds
    <2>3. t.start < load.memory_end /\ t.memory_end > load.start
      BY <1>1, <2>1, <2>2
    <2> DEFINE c == Larger(load.start, t.start)
               d == Larger(load.start, Smaller(load.memory_end, t.memory_end))
    <2>4. c <= p.start \/ c >= p.end
      BY <1>2, <1>3, <1>5, <2>3
    <2>5. d <= p.start \/ d >= p.end
      BY <1>2, <1>3, <1>5, <2>3
    <2>6. t.start <= p.start
      BY <1>1, <2>1, <2>2, <2>4 DEF Larger
    <2>7. p.end <= t.memory_end
      BY <1>1, <2>1, <2>2, <2>5 DEF Larger, Smaller
    <2> QED
      BY <1>3, <1>5, <2>6, <2>7 DEF overlaps_tls
  <1>6. ASSUME ~IsThreadLocal(b) PROVE \E p \in DataParts(load) : Holds(p, b)
    <2> DEFINE top == load.memory_end  lo == load.start
    <2>1. /\ B \in SUBSET Nat /\ top \in Nat /\ b \in Nat /\ lo \in B /\ top \in B
          /\ lo <= b /\ b < top /\ \A c \in B : c <= top
      BY <1>1, <1>2
    <2> HIDE DEF B, top, lo
    <2>2. PICK a \in B, e \in B : a <= b /\ b < e /\ \A c \in B : c <= a \/ c >= e
      BY <2>1, Neighbours
    <2>3. ~overlaps_tls(a, e)
      <3> SUFFICES ASSUME NEW t \in TlsHeaders, a >= t.start, e <= t.memory_end PROVE FALSE
        BY DEF overlaps_tls
      <3>1. t.start <= b /\ b < t.memory_end
        BY <1>1, <2>1, <2>2
      <3> QED
        BY <1>6, <3>1 DEF IsThreadLocal
    <2> DEFINE p == [start |-> a, end |-> e]
    <2>4. p \in DataParts(load)
      <3>1. p \in [start : B, end : B] /\ p.start = a /\ p.end = e
        OBVIOUS
      <3>2. a < e
        BY <1>1, <2>1, <2>2
      <3> HIDE DEF p
      <3> QED
        BY <2>2, <2>3, <3>1, <3>2 DEF DataParts, B
    <2>5. Holds(p, b)
      BY <2>2 DEF Holds
    <2> QED
      BY <2>4, <2>5
  <1> QED
    BY <1>4, <1>5, <1>6

\* What a region says of the part it is made of, and of the header it is in.
Describes(r, p, h) ==
    /\ r.address = p.start /\ r.address \in Nat
    /\ r.memory_size \in Nat /\ r.memory_size > 0
    /\ \A b \in Nat : b \in Bytes(r.address, r.memory_size) <=> Holds(p, b)
    /\ Bytes(r.address, r.memory_size) \subseteq Bytes(h.address, h.memory_size)
    /\ Bytes(r.address, r.memory_size) \cap Bytes(h.address, h.file_size)
          = Bytes(r.address, r.file_size)
    /\ r.file_offset - r.address = h.offset - h.address

LEMMA RegionOfPart ==
    ASSUME NEW h, NEW i, NEW load, load = HeaderRange(h, i), Extents(load),
           h.address \in Nat, h.offset \in Nat, h.file_size \in Nat, h.memory_size \in Nat,
           NEW p \in DataParts(load), NEW r, r = make_region(load, p)
    PROVE  r.source = i /\ Describes(r, p, h)
  <1>1. /\ load.start = h.address /\ load.file_end = h.address + h.file_size
        /\ load.memory_end = h.address + h.memory_size
        /\ load.file_offset = h.offset /\ load.source = i
    BY DEF HeaderRange
  <1>2. /\ p.start \in Nat /\ p.end \in Nat /\ h.address <= p.start
        /\ p.end <= h.address + h.memory_size /\ p.start < p.end
        /\ h.address + h.file_size <= p.start \/ h.address + h.file_size >= p.end
    <2>1. /\ p.start \in load.start .. load.memory_end
          /\ p.end \in load.start .. load.memory_end
          /\ p.start < p.end
          /\ load.file_end <= p.start \/ load.file_end >= p.end
      BY PartsAreIntervals
    <2> QED
      BY <1>1, <2>1
  <1>3. /\ r.source = load.source /\ r.address = p.start /\ r.memory_size = p.end - p.start
        /\ r.file_offset = load.file_offset + (p.start - load.start)
        /\ r.file_size = IF p.start < load.file_end THEN p.end - p.start ELSE 0
    BY DEF make_region
  <1>4. /\ r.source = i /\ r.memory_size = p.end - p.start
        /\ r.file_offset = h.offset + (p.start - h.address)
        /\ r.file_size = IF p.start < h.address + h.file_size THEN p.end - p.start ELSE 0
    BY <1>1, <1>3
  <1>5. r.file_offset - r.address = h.offset - h.address
    BY <1>2, <1>3, <1>4
  <1>6. \A b \in Nat : b \in Bytes(r.address, r.memory_size) <=> Holds(p, b)
    BY <1>2, <1>3, <1>4 DEF Bytes, Holds
  <1>7. Bytes(r.address, r.memory_size) \subseteq Bytes(h.address, h.memory_size)
    BY <1>2, <1>3, <1>4 DEF Bytes
  <1>8. Bytes(r.address, r.memory_size) \cap Bytes(h.address, h.file_size)
           = Bytes(r.address, r.file_size)
    <2>1. CASE p.start < h.address + h.file_size
      BY <1>2, <1>3, <1>4, <2>1 DEF Bytes
    <2>2. CASE ~(p.start < h.address + h.file_size)
      BY <1>2, <1>3, <1>4, <2>2 DEF Bytes
    <2> QED
      BY <2>1, <2>2
  <1> QED
    BY <1>2, <1>3, <1>4, <1>5, <1>6, <1>7, <1>8 DEF Describes

\* Loads and thread-local blocks among the first n headers, whose ranges all fit.
LoadsUpTo(n) ==
    {HeaderRange(image.headers[i], i) : i \in {j \in 1 .. n :
        /\ image.headers[j].type = "LOAD" /\ image.headers[j].memory_size # 0
        /\ ~image.headers[j].exec}}
BlocksUpTo(n) ==
    {HeaderRange(image.headers[i], i) : i \in {j \in 1 .. n :
        image.headers[j].type = "TLS" /\ image.headers[j].memory_size # 0}}
HeadersHeld(n) ==
    /\ \A i \in 1 .. n : IsSegment(image.headers[i]) => HeaderFits(image.headers[i])
    /\ Range(loads) = LoadsUpTo(n)
    /\ TlsHeaders = BlocksUpTo(n)
AllHeld == HeadersHeld(Len(image.headers))

OfLoad(load) == {make_region(load, part) : part \in DataParts(load)}
OfLoads(S) == UNION {OfLoad(load) : load \in S}

LEMMA HeadersTyped ==
    ASSUME image \in Images
    PROVE  /\ Len(image.headers) \in Nat /\ DOMAIN image.headers = 1 .. Len(image.headers)
           /\ \A i \in DOMAIN image.headers :
                 /\ image.headers[i].address \in Nat /\ image.headers[i].offset \in Nat
                 /\ image.headers[i].file_size \in Nat /\ image.headers[i].memory_size \in Nat
  BY ImageAssumption

\* Every load held is the range of its header, and has the extents it says.
LEMMA LoadsHaveExtents ==
    ASSUME image \in Images, AllHeld, NEW load \in Range(loads)
    PROVE  /\ Extents(load)
           /\ load.source \in DOMAIN image.headers
           /\ load = HeaderRange(image.headers[load.source], load.source)
           /\ image.headers[load.source].type = "LOAD" /\ ~image.headers[load.source].exec
  <1> DEFINE N == Len(image.headers)
  <1>1. /\ N \in Nat /\ DOMAIN image.headers = 1 .. N
        /\ \A i \in 1 .. N :
              /\ image.headers[i].address \in Nat /\ image.headers[i].offset \in Nat
              /\ image.headers[i].file_size \in Nat /\ image.headers[i].memory_size \in Nat
    BY HeadersTyped
  <1>2. /\ \A i \in 1 .. N : IsSegment(image.headers[i]) => HeaderFits(image.headers[i])
        /\ Range(loads) = LoadsUpTo(N)
        /\ TlsHeaders = BlocksUpTo(N)
    BY DEF AllHeld, HeadersHeld
  <1> HIDE DEF N
  <1>3. PICK i \in 1 .. N : /\ load = HeaderRange(image.headers[i], i)
                            /\ image.headers[i].type = "LOAD"
                            /\ image.headers[i].memory_size # 0
                            /\ ~image.headers[i].exec
    BY <1>2 DEF LoadsUpTo
  <1> DEFINE h == image.headers[i]
  <1>4. h.file_size <= h.memory_size
    BY <1>2, <1>3 DEF IsSegment, HeaderFits
  <1>5. /\ load.start = h.address /\ load.file_end = h.address + h.file_size
        /\ load.memory_end = h.address + h.memory_size /\ load.source = i
    BY <1>3 DEF HeaderRange
  <1>6. \A t \in TlsHeaders : t.start \in Nat /\ t.memory_end \in Nat
    <2> SUFFICES ASSUME NEW t \in TlsHeaders PROVE t.start \in Nat /\ t.memory_end \in Nat
      OBVIOUS
    <2>1. PICK j \in 1 .. N : t = HeaderRange(image.headers[j], j)
      BY <1>2 DEF BlocksUpTo
    <2>2. /\ t.start = image.headers[j].address
          /\ t.memory_end = image.headers[j].address + image.headers[j].memory_size
      BY <2>1 DEF HeaderRange
    <2> QED
      BY <1>1, <2>2
  <1>7. h.address \in Nat /\ h.file_size \in Nat /\ h.memory_size \in Nat /\ h.memory_size # 0
    BY <1>1, <1>3
  <1> HIDE DEF h
  <1>8. Extents(load)
    BY <1>4, <1>5, <1>6, <1>7 DEF Extents
  <1> QED
    BY <1>1, <1>3, <1>5, <1>8

\* Where a region comes from.
LEMMA RegionOfHeader ==
    ASSUME image \in Images, AllHeld, NEW r \in OfLoads(Range(loads))
    PROVE  \E load \in Range(loads) : \E p \in DataParts(load) :
              /\ r = make_region(load, p)
              /\ r.source = load.source
              /\ Describes(r, p, image.headers[r.source])
  <1>1. PICK load \in Range(loads) : r \in OfLoad(load)
    BY DEF OfLoads
  <1>2. PICK p \in DataParts(load) : r = make_region(load, p)
    BY <1>1 DEF OfLoad
  <1> DEFINE i == load.source  h == image.headers[i]
  <1>3. Extents(load) /\ i \in DOMAIN image.headers /\ load = HeaderRange(h, i)
    BY LoadsHaveExtents
  <1>4. /\ h.address \in Nat /\ h.offset \in Nat /\ h.file_size \in Nat /\ h.memory_size \in Nat
    BY <1>3, HeadersTyped
  <1>5. r.source = i /\ Describes(r, p, h)
    <2> HIDE DEF i, h
    <2> QED
      BY <1>2, <1>3, <1>4, RegionOfPart
  <1> QED
    BY <1>2, <1>5, Zenon

\* No two regions begin at one address in one segment.
LEMMA RegionsDistinct ==
    ASSUME image \in Images, AllHeld, NEW r \in OfLoads(Range(loads)), NEW s \in OfLoads(Range(loads)),
           r.address = s.address, r.source = s.source
    PROVE  r = s
  <1>1. PICK load \in Range(loads) : \E p \in DataParts(load) :
            /\ r = make_region(load, p) /\ r.source = load.source /\ r.address = p.start
    BY RegionOfHeader DEF Describes
  <1>2. PICK other \in Range(loads) : \E q \in DataParts(other) :
            /\ s = make_region(other, q) /\ s.source = other.source /\ s.address = q.start
    BY RegionOfHeader DEF Describes
  <1>3. load = HeaderRange(image.headers[load.source], load.source) /\ Extents(load)
    BY LoadsHaveExtents
  <1>4. other = HeaderRange(image.headers[other.source], other.source)
    BY LoadsHaveExtents
  <1>5. load = other
    BY <1>1, <1>2, <1>3, <1>4
  <1>6. PICK p \in DataParts(load) : r = make_region(load, p) /\ r.address = p.start
    BY <1>1
  <1>7. PICK q \in DataParts(load) : s = make_region(load, q) /\ s.address = q.start
    BY <1>2, <1>5
  <1>8. p = q
    BY <1>3, <1>6, <1>7, PartsAreIntervals
  <1> QED
    BY <1>6, <1>7, <1>8

\* Every region once, in the order of their addresses.
InPlace ==
    /\ Range(regions) = OfLoads(Range(loads))
    /\ Len(regions) \in Nat /\ DOMAIN regions = 1 .. Len(regions)
    /\ \A i, j \in DOMAIN regions : regions[i] = regions[j] => i = j
    /\ \A i, j \in DOMAIN regions : i < j => regions[i].address <= regions[j].address

HeadersInv ==
    elf_stage = "headers" =>
        /\ regions = <<>> /\ at \in 1 .. Len(image.headers) + 1
        /\ \A n : n = at - 1 => HeadersHeld(n)

LoadsInv ==
    elf_stage = "loads" =>
        /\ AllHeld
        /\ at \in 1 .. Len(loads) + 1
        /\ regions \in Seq(OfLoads(Range(loads)))
        /\ \A n : n = at - 1 => Range(regions) = OfLoads({loads[i] : i \in 1 .. n})

\* Only an image without data sections has loads to make regions of.
RegionsInv ==
    /\ image \in Images
    /\ loads \in Seq(LoadsUpTo(Len(image.headers)))
    /\ tls_headers \in Seq(BlocksUpTo(Len(image.headers)))
    /\ elf_stage \in {"opening", "sections"} => loads = <<>> /\ tls_headers = <<>>
    /\ elf_stage = "symbols" => loads = <<>>
    /\ HeadersInv
    /\ LoadsInv
    /\ elf_stage \in {"read", "binding", "bound"} /\ loads # <<>> => AllHeld /\ InPlace

LEMMA RegionsStart ==
    ElfInit => RegionsInv
  <1> SUFFICES ASSUME ElfInit PROVE RegionsInv
    OBVIOUS
  <1>1. PICK i \in Images : ElfStarts(i)
    BY DEF ElfInit
  <1> QED
    BY <1>1 DEF ElfStarts, RegionsInv, HeadersInv, LoadsInv

\* What the headers give depends on nothing else.
LEMMA SameHeaders ==
    ASSUME image' = image, loads' = loads, tls_headers' = tls_headers
    PROVE  /\ \A n : HeadersHeld(n)' <=> HeadersHeld(n)
           /\ AllHeld' <=> AllHeld
           /\ \A load : OfLoad(load)' = OfLoad(load)
           /\ \A S : OfLoads(S)' = OfLoads(S)
           /\ LoadsUpTo(Len(image.headers))' = LoadsUpTo(Len(image.headers))
           /\ BlocksUpTo(Len(image.headers))' = BlocksUpTo(Len(image.headers))
           /\ OfLoads(Range(loads))' = OfLoads(Range(loads))
  <1>1. TlsHeaders' = TlsHeaders
    BY DEF TlsHeaders
  <1>2. \A n : LoadsUpTo(n)' = LoadsUpTo(n) /\ BlocksUpTo(n)' = BlocksUpTo(n)
    BY DEF LoadsUpTo, BlocksUpTo, HeaderRange
  <1>3. ASSUME NEW h PROVE HeaderFits(h)' <=> HeaderFits(h)
    BY DEF HeaderFits, IsAddress
  <1>4. ASSUME NEW n PROVE HeadersHeld(n)' <=> HeadersHeld(n)
    <2>1. LoadsUpTo(n)' = LoadsUpTo(n) /\ BlocksUpTo(n)' = BlocksUpTo(n)
      BY <1>2
    <2>2. (\A i \in 1 .. n : IsSegment(image.headers[i]) => HeaderFits(image.headers[i]))'
             <=> \A i \in 1 .. n : IsSegment(image.headers[i]) => HeaderFits(image.headers[i])
      BY <1>3 DEF IsSegment
    <2>3. Range(loads)' = Range(loads)
      OBVIOUS
    <2> QED
      BY <1>1, <2>1, <2>2, <2>3, Zenon DEF HeadersHeld
  <1>5. AllHeld' <=> AllHeld
    <2>1. PICK n : n = Len(image.headers)
      OBVIOUS
    <2>2. HeadersHeld(n)' <=> HeadersHeld(n)
      BY <1>4
    <2>3. HeadersHeld(Len(image.headers)) <=> HeadersHeld(n)
      BY <2>1, Zenon
    <2>4. HeadersHeld(Len(image.headers))' <=> HeadersHeld(n)'
      BY <2>1, Zenon
    <2> QED
      BY <2>2, <2>3, <2>4 DEF AllHeld
  <1>6. \A load : Boundaries(load)' = Boundaries(load)
    BY <1>1 DEF Boundaries, Larger, Smaller
  <1>7. \A start, end : overlaps_tls(start, end)' <=> overlaps_tls(start, end)
    BY <1>1 DEF overlaps_tls
  <1>8. \A load : DataParts(load)' = DataParts(load)
    BY <1>6, <1>7 DEF DataParts
  <1>9. \A load : OfLoad(load)' = OfLoad(load)
    BY <1>8, Zenon DEF OfLoad, make_region
  <1>10. \A S : OfLoads(S)' = OfLoads(S)
    BY <1>9, Zenon DEF OfLoads
  <1>11. LoadsUpTo(Len(image.headers))' = LoadsUpTo(Len(image.headers))
    BY DEF LoadsUpTo, HeaderRange
  <1>12. BlocksUpTo(Len(image.headers))' = BlocksUpTo(Len(image.headers))
    BY DEF BlocksUpTo, HeaderRange
  <1>13. OfLoads(Range(loads))' = OfLoads(Range(loads))
    BY <1>9, Zenon DEF OfLoads, Range
  <1> QED
    BY <1>4, <1>5, <1>9, <1>10, <1>11, <1>12, <1>13

LEMMA HeldStays ==
    ASSUME RegionsInv, image' = image, loads' = loads, tls_headers' = tls_headers
    PROVE  /\ image' \in Images
           /\ (loads \in Seq(LoadsUpTo(Len(image.headers))))'
           /\ (tls_headers \in Seq(BlocksUpTo(Len(image.headers))))'
  <1>1. /\ LoadsUpTo(Len(image.headers))' = LoadsUpTo(Len(image.headers))
        /\ BlocksUpTo(Len(image.headers))' = BlocksUpTo(Len(image.headers))
    BY SameHeaders
  <1> QED
    BY <1>1 DEF RegionsInv

\* Before the headers are read, regions are those of sections.
LEMMA SectionsStep ==
    ASSUME RegionsInv, image' = image, loads' = loads, tls_headers' = tls_headers,
           elf_stage \in {"opening", "sections"}, elf_stage' \in {"sections", "symbols", "failed"}
    PROVE  RegionsInv'
  BY HeldStays DEF RegionsInv, HeadersInv, LoadsInv

\* Once they are sorted, regions stay.
LEMMA RegionsStay ==
    ASSUME RegionsInv, image' = image, loads' = loads, tls_headers' = tls_headers, regions' = regions,
           elf_stage \in {"symbols", "read", "binding", "bound"} \/ elf_stage' = "failed",
           elf_stage' \in {"symbols", "read", "binding", "bound", "failed"},
           elf_stage' = "symbols" => elf_stage = "symbols"
    PROVE  RegionsInv'
  <1>1. AllHeld' <=> AllHeld
    BY SameHeaders
  <1>2. InPlace => InPlace'
    <2>1. OfLoads(Range(loads))' = OfLoads(Range(loads))
      BY SameHeaders
    <2>2. Range(regions)' = Range(regions)
      OBVIOUS
    <2> QED
      BY <2>1, <2>2 DEF InPlace
  <1>3. elf_stage' \in {"read", "binding", "bound"} /\ loads # <<>> => AllHeld /\ InPlace
    BY DEF RegionsInv
  <1>4. (elf_stage \in {"read", "binding", "bound"} /\ loads # <<>> => AllHeld /\ InPlace)'
    BY <1>1, <1>2, <1>3
  <1>5. elf_stage' = "symbols" => loads' = <<>>
    BY DEF RegionsInv
  <1>6. HeadersInv' /\ LoadsInv'
    BY DEF HeadersInv, LoadsInv
  <1> QED
    BY HeldStays, <1>4, <1>5, <1>6 DEF RegionsInv

\* With the first header begins the reading of the headers.
LEMMA HeadersBegin ==
    ASSUME RegionsInv, SectionsRead, regions = <<>>
    PROVE  RegionsInv'
  <1>1. /\ elf_stage = "sections" /\ elf_stage' = "headers" /\ at' = 1
        /\ image' = image /\ loads' = loads /\ tls_headers' = tls_headers
        /\ loads = <<>> /\ tls_headers = <<>>
        /\ regions' = Sorted(regions)
    BY DEF SectionsRead, HasRead, RegionsInv
  <1>2. regions' = <<>>
    <2>1. Range(regions) = {}
      BY DEF Range
    <2>2. Cardinality(Range(regions)) = 0
      BY <2>1, FS_EmptySet
    <2>3. DOMAIN Sorted(regions) = 1 .. 0
      BY <2>2 DEF Sorted, InOrder
    <2> QED
      BY <1>1, <2>2 DEF Sorted, InOrder
  <1>3. HeadersHeld(0)
    <2>1. LoadsUpTo(0) = {} /\ BlocksUpTo(0) = {}
      BY DEF LoadsUpTo, BlocksUpTo
    <2>2. Range(loads) = {} /\ TlsHeaders = {}
      BY <1>1 DEF Range, TlsHeaders
    <2> QED
      BY <2>1, <2>2 DEF HeadersHeld
  <1>4. Len(image.headers) \in Nat
    BY HeadersTyped DEF RegionsInv
  <1>5. ASSUME NEW n, n = at' - 1 PROVE HeadersHeld(n)'
    <2>1. n = 0
      BY <1>1, <1>5
    <2> QED
      BY <1>1, <1>3, <2>1, SameHeaders
  <1>6. HeadersInv'
    BY <1>1, <1>2, <1>4, <1>5 DEF HeadersInv
  <1> QED
    BY <1>1, <1>6, HeldStays DEF RegionsInv, LoadsInv

LEMMA KeptHolds ==
    ASSUME NEW S, NEW list \in Seq(S), NEW kept, NEW i,
           kept => HeaderRange(image.headers[i], i) \in S
    PROVE  /\ Kept(list, kept, i) \in Seq(S)
           /\ Range(Kept(list, kept, i))
                 = Range(list) \cup {e \in {HeaderRange(image.headers[i], i)} : kept}
  <1> DEFINE e == HeaderRange(image.headers[i], i)
  <1>1. CASE kept
    <2>1. Kept(list, kept, i) = Append(list, e) /\ e \in S
      BY <1>1 DEF Kept
    <2> HIDE DEF e
    <2>2. /\ Append(list, e) \in Seq(S)
          /\ {Append(list, e)[k] : k \in DOMAIN Append(list, e)} = {list[k] : k \in DOMAIN list} \cup {e}
      BY <2>1, SymbolAppended
    <2>3. Range(Append(list, e)) = Range(list) \cup {e}
      BY <2>2 DEF Range
    <2> QED
      BY <1>1, <2>1, <2>2, <2>3 DEF e
  <1>2. CASE ~kept
    BY <1>2 DEF Kept
  <1> QED
    BY <1>1, <1>2

\* One header more.
LEMMA HeaderStep ==
    RegionsInv /\ ReadHeader => RegionsInv'
  <1> SUFFICES ASSUME RegionsInv, ReadHeader PROVE RegionsInv'
    OBVIOUS
  <1> DEFINE N == Len(image.headers)
             h == image.headers[at]
             e == HeaderRange(h, at)
             load == h.type = "LOAD" /\ h.memory_size # 0 /\ ~h.exec
             block == h.type = "TLS" /\ h.memory_size # 0
  <1>1. /\ elf_stage = "headers" /\ elf_stage' = "headers" /\ at' = at + 1 /\ image' = image
        /\ regions' = regions /\ at <= N
        /\ IsSegment(h) => HeaderFits(h)
        /\ tls_headers' = Kept(tls_headers, block, at)
        /\ loads' = Kept(loads, load, at)
    BY DEF ReadHeader, Reads
  <1>2. N \in Nat
    BY HeadersTyped DEF RegionsInv
  <1>3. /\ regions = <<>> /\ at \in 1 .. N /\ HeadersHeld(at - 1)
        /\ loads \in Seq(LoadsUpTo(N)) /\ tls_headers \in Seq(BlocksUpTo(N))
    BY <1>1, <1>2 DEF RegionsInv, HeadersInv
  <1>4. 1 .. at = (1 .. at - 1) \cup {at}
    BY <1>3
  <1>5. /\ load => e \in LoadsUpTo(N)
        /\ LoadsUpTo(at) = LoadsUpTo(at - 1) \cup {x \in {e} : load}
    BY <1>3, <1>4 DEF LoadsUpTo
  <1>6. /\ block => e \in BlocksUpTo(N)
        /\ BlocksUpTo(at) = BlocksUpTo(at - 1) \cup {x \in {e} : block}
    BY <1>3, <1>4 DEF BlocksUpTo
  <1>7. /\ loads' \in Seq(LoadsUpTo(N))
        /\ Range(loads') = Range(loads) \cup {x \in {e} : load}
    <2> HIDE DEF load, N
    <2> QED
      BY <1>1, <1>3, <1>5, KeptHolds
  <1>8. /\ tls_headers' \in Seq(BlocksUpTo(N))
        /\ Range(tls_headers') = Range(tls_headers) \cup {x \in {e} : block}
    <2> HIDE DEF block, N
    <2> QED
      BY <1>1, <1>3, <1>6, KeptHolds
  <1>9. \A n : LoadsUpTo(n)' = LoadsUpTo(n) /\ BlocksUpTo(n)' = BlocksUpTo(n)
    BY <1>1 DEF LoadsUpTo, BlocksUpTo, HeaderRange
  <1>10. /\ LoadsUpTo(Len(image.headers))' = LoadsUpTo(N)
         /\ BlocksUpTo(Len(image.headers))' = BlocksUpTo(N)
    BY <1>1 DEF LoadsUpTo, BlocksUpTo, HeaderRange
  <1>11. TlsHeaders = Range(tls_headers) /\ TlsHeaders' = Range(tls_headers')
    BY DEF TlsHeaders, Range
  <1>12. ASSUME NEW n, n = at' - 1 PROVE HeadersHeld(n)'
    <2>1. n = at
      BY <1>1, <1>3, <1>12
    <2>2. /\ LoadsUpTo(n)' = LoadsUpTo(at) /\ BlocksUpTo(n)' = BlocksUpTo(at)
      BY <1>9, <2>1
    <2>3. Range(loads') = LoadsUpTo(at) /\ TlsHeaders' = BlocksUpTo(at)
      <3> HIDE DEF load, block
      <3> QED
        BY <1>3, <1>5, <1>6, <1>7, <1>8, <1>11 DEF HeadersHeld
    <2>4. \A i \in 1 .. n : IsSegment(image.headers[i]) => HeaderFits(image.headers[i])
      <3>1. \A i \in 1 .. at - 1 : IsSegment(image.headers[i]) => HeaderFits(image.headers[i])
        BY <1>3 DEF HeadersHeld
      <3> QED
        BY <1>1, <1>4, <2>1, <3>1
    <2>5. ASSUME NEW x PROVE HeaderFits(x)' <=> HeaderFits(x)
      BY <1>1 DEF HeaderFits, IsAddress
    <2>6. (\A i \in 1 .. n : IsSegment(image.headers[i]) => HeaderFits(image.headers[i]))'
      BY <1>1, <2>4, <2>5 DEF IsSegment
    <2> QED
      BY <2>2, <2>3, <2>6 DEF HeadersHeld
  <1>13. HeadersInv'
    BY <1>1, <1>2, <1>3, <1>12 DEF HeadersInv
  <1> QED
    BY <1>1, <1>7, <1>8, <1>10, <1>13 DEF RegionsInv, LoadsInv

\* The loads begin with all headers read and no region.
LEMMA LoadsBegin ==
    RegionsInv /\ HeadersRead => RegionsInv'
  <1> SUFFICES ASSUME RegionsInv, HeadersRead PROVE RegionsInv'
    OBVIOUS
  <1> DEFINE N == Len(image.headers)
  <1>1. /\ elf_stage = "headers" /\ elf_stage' = "loads" /\ at' = 1 /\ image' = image
        /\ loads' = loads /\ tls_headers' = tls_headers /\ regions' = regions /\ at > N
    BY DEF HeadersRead, HasRead
  <1>2. N \in Nat
    BY HeadersTyped DEF RegionsInv
  <1>3. regions = <<>> /\ AllHeld
    <2>1. at - 1 = N
      BY <1>1, <1>2 DEF RegionsInv, HeadersInv
    <2> QED
      BY <1>1, <2>1 DEF RegionsInv, HeadersInv, AllHeld
  <1>4. Len(loads) \in Nat
    BY DEF RegionsInv
  <1>5. AllHeld'
    BY <1>1, <1>3, SameHeaders
  <1>6. ASSUME NEW n, n = at' - 1 PROVE (Range(regions) = OfLoads({loads[i] : i \in 1 .. n}))'
    <2>1. n = 0 /\ 1 .. n = {}
      BY <1>1, <1>6
    <2>2. {loads'[i] : i \in 1 .. n} = {}
      BY <2>1
    <2>3. Range(regions') = {}
      BY <1>1, <1>3 DEF Range
    <2>4. OfLoads({})' = {}
      BY DEF OfLoads
    <2> QED
      BY <2>2, <2>3, <2>4 DEF OfLoads
  <1>7. LoadsInv'
    BY <1>1, <1>3, <1>4, <1>5, <1>6 DEF LoadsInv
  <1> QED
    BY <1>1, <1>7, HeldStays DEF RegionsInv, HeadersInv

LEMMA ConcatHolds ==
    ASSUME NEW S, NEW first \in Seq(S), NEW second \in Seq(S)
    PROVE  /\ first \o second \in Seq(S)
           /\ Range(first \o second) = Range(first) \cup Range(second)
  <1> DEFINE m == Len(first)  n == Len(second)  both == first \o second
  <1>1. /\ m \in Nat /\ n \in Nat /\ DOMAIN first = 1 .. m /\ DOMAIN second = 1 .. n
    BY LenProperties
  <1>2. /\ both \in Seq(S) /\ DOMAIN both = 1 .. m + n
        /\ \A i \in 1 .. m + n : both[i] = IF i <= m THEN first[i] ELSE second[i - m]
    BY ConcatProperties, LenProperties
  <1> HIDE DEF m, n, both
  <1>3. ASSUME NEW i \in 1 .. m + n PROVE both[i] \in Range(first) \cup Range(second)
    <2>1. CASE i <= m
      BY <1>1, <1>2, <2>1, SMTT(30) DEF Range
    <2>2. CASE ~(i <= m)
      <3>1. i - m \in 1 .. n /\ both[i] = second[i - m]
        BY <1>1, <1>2, <2>2
      <3> QED
        BY <1>1, <3>1 DEF Range
    <2> QED
      BY <2>1, <2>2
  <1>4. ASSUME NEW i \in 1 .. m PROVE \E k \in 1 .. m + n : both[k] = first[i]
    BY <1>1, <1>2
  <1>5. ASSUME NEW i \in 1 .. n PROVE \E k \in 1 .. m + n : both[k] = second[i]
    <2>1. i + m \in 1 .. m + n /\ ~(i + m <= m) /\ (i + m) - m = i
      BY <1>1
    <2> QED
      BY <1>2, <2>1
  <1>6. Range(both) = Range(first) \cup Range(second)
    <2>1. Range(both) = {both[i] : i \in 1 .. m + n}
      BY <1>2 DEF Range
    <2>2. /\ Range(first) = {first[i] : i \in 1 .. m}
          /\ Range(second) = {second[i] : i \in 1 .. n}
      BY <1>1 DEF Range
    <2>3. Range(first) \subseteq Range(both)
      BY <1>4, <2>1, <2>2
    <2>4. Range(second) \subseteq Range(both)
      BY <1>5, <2>1, <2>2
    <2>5. Range(both) \subseteq Range(first) \cup Range(second)
      BY <1>3, <2>1
    <2> QED
      BY <2>3, <2>4, <2>5
  <1> QED
    BY <1>2, <1>6 DEF both

LEMMA RegionsOfHolds ==
    ASSUME NEW load, Extents(load)
    PROVE  RegionsOf(load) \in Seq(OfLoad(load)) /\ Range(RegionsOf(load)) = OfLoad(load)
  <1> DEFINE parts == Parts(load)  n == Len(parts)
  <1>1. /\ DOMAIN parts = 1 .. n /\ n \in Nat /\ Range(parts) = DataParts(load)
    BY PartsInOrder
  <1>2. RegionsOf(load) = [i \in DOMAIN parts |-> make_region(load, parts[i])]
    BY DEF RegionsOf
  <1> HIDE DEF parts, n
  <1>3. \A i \in 1 .. n : parts[i] \in DataParts(load)
    BY <1>1 DEF Range
  <1>4. \A i \in 1 .. n : make_region(load, parts[i]) \in OfLoad(load)
    BY <1>3 DEF OfLoad
  <1>5. RegionsOf(load) \in [1 .. n -> OfLoad(load)]
    BY <1>1, <1>2, <1>4
  <1>6. RegionsOf(load) \in Seq(OfLoad(load))
    BY <1>1, <1>5
  <1>7. \A p \in DataParts(load) : \E i \in 1 .. n : p = parts[i]
    BY <1>1 DEF Range
  <1>8. \A r \in OfLoad(load) : \E i \in 1 .. n : r = make_region(load, parts[i])
    BY <1>7 DEF OfLoad
  <1>9. \A i \in 1 .. n : RegionsOf(load)[i] = make_region(load, parts[i])
    BY <1>1, <1>2
  <1>10. DOMAIN RegionsOf(load) = 1 .. n
    BY <1>1, <1>2
  <1>11. Range(RegionsOf(load)) = OfLoad(load)
    BY <1>4, <1>8, <1>9, <1>10 DEF Range
  <1> QED
    BY <1>6, <1>11

\* The regions of one load more.
LEMMA LoadStep ==
    RegionsInv /\ AppendLoad => RegionsInv'
  <1> SUFFICES ASSUME RegionsInv, AppendLoad PROVE RegionsInv'
    OBVIOUS
  <1> DEFINE load == loads[at]  N == Len(loads)
             S(n) == {loads[i] : i \in 1 .. n}
  <1>1. /\ elf_stage = "loads" /\ elf_stage' = "loads" /\ at' = at + 1 /\ image' = image
        /\ loads' = loads /\ tls_headers' = tls_headers /\ at <= N
        /\ regions' = regions \o RegionsOf(load)
    BY DEF AppendLoad, Reads
  <1>2. N \in Nat /\ DOMAIN loads = 1 .. N
    BY LenProperties DEF RegionsInv
  <1>3. /\ AllHeld /\ at \in 1 .. N /\ regions \in Seq(OfLoads(Range(loads)))
        /\ Range(regions) = OfLoads(S(at - 1))
    BY <1>1, <1>2 DEF RegionsInv, LoadsInv
  <1>4. load \in Range(loads)
    BY <1>2, <1>3 DEF Range
  <1>5. Extents(load)
    BY <1>3, <1>4, LoadsHaveExtents DEF RegionsInv
  <1>6. RegionsOf(load) \in Seq(OfLoad(load)) /\ Range(RegionsOf(load)) = OfLoad(load)
    BY <1>5, RegionsOfHolds
  <1>7. RegionsOf(load) \in Seq(OfLoads(Range(loads)))
    <2>1. OfLoad(load) \subseteq OfLoads(Range(loads))
      BY <1>4 DEF OfLoads
    <2> HIDE DEF load
    <2> QED
      BY <1>6, <2>1
  <1>8. /\ regions' \in Seq(OfLoads(Range(loads)))
        /\ Range(regions') = OfLoads(S(at - 1)) \cup OfLoad(load)
    <2> HIDE DEF load, S
    <2> QED
      BY <1>1, <1>3, <1>6, <1>7, ConcatHolds
  <1>9. OfLoads(S(at)) = OfLoads(S(at - 1)) \cup OfLoad(load)
    <2>1. 1 .. at = (1 .. at - 1) \cup {at}
      BY <1>3
    <2>2. S(at) = S(at - 1) \cup {load}
      BY <2>1
    <2> HIDE DEF S, load
    <2> QED
      BY <2>2 DEF OfLoads
  <1>10. AllHeld'
    BY <1>1, <1>3, SameHeaders
  <1>11. ASSUME NEW n, n = at' - 1 PROVE (Range(regions) = OfLoads({loads[i] : i \in 1 .. n}))'
    <2>1. n = at
      BY <1>1, <1>3, <1>11
    <2>2. \A T : OfLoads(T)' = OfLoads(T)
      BY <1>1, SameHeaders
    <2>3. PICK T : T = S(n)
      OBVIOUS
    <2>4. OfLoads(T)' = OfLoads(T)
      BY <2>2
    <2>5. Range(regions') = OfLoads(T)
      BY <1>8, <1>9, <2>1, <2>3
    <2>6. T = {loads'[i] : i \in 1 .. n}
      BY <1>1, <2>3
    <2>7. OfLoads({loads[i] : i \in 1 .. n})' = OfLoads(T)'
      BY <2>6 DEF OfLoads
    <2> QED
      BY <2>4, <2>5, <2>7
  <1>12. regions' \in Seq(OfLoads(Range(loads)))'
    <2>1. OfLoads(Range(loads))' = OfLoads(Range(loads))
      BY <1>1, SameHeaders
    <2> QED
      BY <1>8, <2>1
  <1>13. LoadsInv'
    <2>1. at' \in 1 .. Len(loads') + 1
      BY <1>1, <1>2, <1>3
    <2>2. (\A n : n = at - 1 => Range(regions) = OfLoads({loads[i] : i \in 1 .. n}))'
      BY <1>11, Zenon
    <2> QED
      BY <1>10, <1>12, <2>1, <2>2, Zenon DEF LoadsInv
  <1> QED
    BY <1>1, <1>13, HeldStays DEF RegionsInv, HeadersInv

LEMMA RangeIsFinite ==
    ASSUME NEW S, NEW list \in Seq(S)
    PROVE  IsFiniteSet(Range(list))
  <1> DEFINE n == Len(list)
  <1>1. n \in Nat /\ DOMAIN list = 1 .. n /\ list \in [1 .. n -> S]
    BY LenProperties
  <1>2. IsFiniteSet(1 .. n)
    BY <1>1, FS_Interval
  <1>3. list \in Surjection(1 .. n, Range(list))
    <2>1. \A i \in 1 .. n : list[i] \in Range(list)
      BY <1>1 DEF Range
    <2>2. \A x \in Range(list) : \E i \in 1 .. n : list[i] = x
      BY <1>1 DEF Range
    <2> HIDE DEF n
    <2>3. list \in [1 .. n -> Range(list)]
      BY <1>1, <2>1
    <2> QED
      BY <2>2, <2>3 DEF Surjection
  <1> QED
    BY <1>2, <1>3, FS_Surjection

\* All regions, in order.
LEMMA LoadsEnd ==
    RegionsInv /\ LoadsRead => RegionsInv'
  <1> SUFFICES ASSUME RegionsInv, LoadsRead PROVE RegionsInv'
    OBVIOUS
  <1> DEFINE N == Len(loads)  All == OfLoads(Range(loads))
  <1>1. /\ elf_stage = "loads" /\ elf_stage' = "read" /\ at > N
        /\ image' = image /\ loads' = loads /\ tls_headers' = tls_headers
        /\ regions' = Sorted(regions)
    BY DEF LoadsRead, HasRead
  <1>2. N \in Nat /\ DOMAIN loads = 1 .. N
    BY LenProperties DEF RegionsInv
  <1>3. AllHeld /\ image \in Images /\ regions \in Seq(All) /\ Range(regions) = All
    <2>1. at - 1 = N
      BY <1>1, <1>2 DEF RegionsInv, LoadsInv
    <2>2. Range(loads) = {loads[i] : i \in 1 .. N}
      BY <1>2 DEF Range
    <2> QED
      BY <1>1, <2>1, <2>2 DEF RegionsInv, LoadsInv
  <1>4. \A r \in All : Placed(r)
    <2> SUFFICES ASSUME NEW r \in All PROVE Placed(r)
      OBVIOUS
    <2>1. PICK load \in Range(loads) : r.source = load.source /\ r.address \in Nat
      BY <1>3, RegionOfHeader DEF Describes
    <2>2. load.source \in DOMAIN image.headers
      BY <1>3, LoadsHaveExtents
    <2>3. r.source \in Nat
      BY <1>3, <2>1, <2>2, HeadersTyped
    <2> QED
      BY <2>1, <2>3 DEF Placed
  <1>5. \A r, s \in All : r.address = s.address /\ r.source = s.source => r = s
    BY <1>3, RegionsDistinct
  <1>6. IsFiniteSet(All)
    BY <1>3, RangeIsFinite
  <1>7. /\ DOMAIN regions' = 1 .. Len(regions') /\ Len(regions') \in Nat /\ Range(regions') = All
        /\ \A i, j \in DOMAIN regions' : regions'[i] = regions'[j] => i = j
        /\ \A i, j \in DOMAIN regions' : i < j => regions'[i].address <= regions'[j].address
    <2> HIDE DEF All
    <2>1. LET sorted == Sorted(regions)
          IN  /\ DOMAIN sorted = 1 .. Len(sorted) /\ Len(sorted) \in Nat /\ Range(sorted) = All
              /\ \A i, j \in DOMAIN sorted : sorted[i] = sorted[j] => i = j
              /\ \A i, j \in DOMAIN sorted : i < j => sorted[i].address <= sorted[j].address
      BY <1>3, <1>4, <1>5, <1>6, SortedRegions
    <2> QED
      BY <1>1, <2>1
  <1>8. OfLoads(Range(loads))' = All
    BY <1>1, SameHeaders
  <1>9. InPlace'
    BY <1>7, <1>8 DEF InPlace
  <1>10. AllHeld'
    BY <1>1, <1>3, SameHeaders
  <1> QED
    BY <1>1, <1>9, <1>10, HeldStays DEF RegionsInv, HeadersInv, LoadsInv

LEMMA RegionsStep ==
    RegionsInv /\ [ElfNext]_elf_vars => RegionsInv'
  <1> SUFFICES ASSUME RegionsInv, [ElfNext]_elf_vars PROVE RegionsInv'
    OBVIOUS
  <1>1. CASE OpenImage \/ ReadSection \/ (SectionsRead /\ regions # <<>>)
    <2>1. /\ image' = image /\ loads' = loads /\ tls_headers' = tls_headers
          /\ elf_stage \in {"opening", "sections"} /\ elf_stage' \in {"sections", "symbols", "failed"}
      BY <1>1 DEF OpenImage, ReadSection, SectionsRead, Reads, HasRead
    <2> QED
      BY <2>1, SectionsStep
  <1>2. CASE SectionsRead /\ regions = <<>>
    BY <1>2, HeadersBegin
  <1>3. CASE ReadHeader
    BY <1>3, HeaderStep
  <1>4. CASE HeadersRead
    BY <1>4, LoadsBegin
  <1>5. CASE AppendLoad
    BY <1>5, LoadStep
  <1>6. CASE LoadsRead
    BY <1>6, LoadsEnd
  <1>7. CASE RefuseHeader \/ RefuseLoad \/ ReadSymbol \/ SymbolsRead \/ StartBinding \/ BindSymbol
             \/ RefuseAmbiguous \/ SymbolsBound
    <2>1. /\ image' = image /\ loads' = loads /\ tls_headers' = tls_headers /\ regions' = regions
          /\ elf_stage \in {"symbols", "read", "binding", "bound"} \/ elf_stage' = "failed"
          /\ elf_stage' \in {"symbols", "read", "binding", "bound", "failed"}
          /\ elf_stage' = "symbols" => elf_stage = "symbols"
      BY <1>7 DEF RefuseHeader, RefuseLoad, ReadSymbol, SymbolsRead, StartBinding, BindSymbol,
                  RefuseAmbiguous, SymbolsBound, Reads, HasRead
    <2> QED
      BY <2>1, RegionsStay
  <1>8. CASE UNCHANGED elf_vars
    <2>1. /\ image' = image /\ loads' = loads /\ tls_headers' = tls_headers /\ regions' = regions
          /\ at' = at /\ elf_stage' = elf_stage
      BY <1>8 DEF elf_vars
    <2>2. /\ \A n : HeadersHeld(n)' <=> HeadersHeld(n)
          /\ AllHeld' <=> AllHeld
          /\ \A S : OfLoads(S)' = OfLoads(S)
          /\ OfLoads(Range(loads))' = OfLoads(Range(loads))
      BY <2>1, SameHeaders
    <2>3. HeadersInv'
      BY <2>1, <2>2 DEF RegionsInv, HeadersInv
    <2>4. ASSUME NEW n, n = at - 1, Range(regions) = OfLoads({loads[i] : i \in 1 .. n})
          PROVE  (Range(regions) = OfLoads({loads[i] : i \in 1 .. n}))'
      <3>1. PICK T : T = {loads[i] : i \in 1 .. n}
        OBVIOUS
      <3>2. OfLoads(T)' = OfLoads(T)
        BY <2>2
      <3>3. OfLoads({loads[i] : i \in 1 .. n})' = OfLoads(T)'
        BY <2>1, <3>1 DEF OfLoads
      <3> QED
        BY <2>1, <2>4, <3>1, <3>2, <3>3
    <2>5. LoadsInv'
      BY <2>1, <2>2, <2>4 DEF RegionsInv, LoadsInv
    <2>6. InPlace => InPlace'
      BY <2>1, <2>2 DEF InPlace
    <2> QED
      BY <2>1, <2>2, <2>3, <2>5, <2>6, HeldStays DEF RegionsInv
  <1> QED
    BY <1>1, <1>2, <1>3, <1>4, <1>5, <1>6, <1>7, <1>8 DEF ElfNext

\* A byte of a load is in one region of its segment, or thread-local and in none.
LEMMA RegionOfByte ==
    ASSUME image \in Images, AllHeld, InPlace, NEW i \in Segments("LOAD"), NEW b \in Memory(i)
    PROVE  Cardinality({r \in {k \in DOMAIN regions : regions[k].source = i} : b \in RegionBytes(r)})
              = IF b \in UNION {Memory(t) : t \in Segments("TLS")} THEN 0 ELSE 1
  <1> DEFINE N == Len(image.headers)  h == image.headers[i]  load == HeaderRange(h, i)
             X == {r \in {k \in DOMAIN regions : regions[k].source = i} : b \in RegionBytes(r)}
             tls == UNION {Memory(t) : t \in Segments("TLS")}
  <1>1. /\ N \in Nat /\ DOMAIN image.headers = 1 .. N /\ i \in 1 .. N
        /\ h.type = "LOAD" /\ ~h.exec
        /\ h.address \in Nat /\ h.offset \in Nat /\ h.file_size \in Nat /\ h.memory_size \in Nat
    BY HeadersTyped DEF Segments
  <1>2. b \in Nat /\ h.address <= b /\ b < h.address + h.memory_size /\ h.memory_size # 0
    BY <1>1 DEF Memory, Bytes
  <1>3. load \in Range(loads)
    BY <1>1, <1>2 DEF AllHeld, HeadersHeld, LoadsUpTo
  <1>4. Extents(load)
    BY <1>3, LoadsHaveExtents
  <1>5. load.start = h.address /\ load.memory_end = h.address + h.memory_size /\ load.source = i
    BY DEF HeaderRange
  <1>6. b \in load.start .. load.memory_end - 1
    BY <1>1, <1>2, <1>5
  <1>7. IsThreadLocal(b) <=> b \in tls
    <2>1. TlsHeaders = BlocksUpTo(N)
      BY DEF AllHeld, HeadersHeld
    <2>2. ASSUME NEW t \in TlsHeaders, t.start <= b, b < t.memory_end PROVE b \in tls
      <3>1. PICK j \in 1 .. N : t = HeaderRange(image.headers[j], j) /\ image.headers[j].type = "TLS"
        BY <2>1 DEF BlocksUpTo
      <3>2. j \in Segments("TLS")
        BY <1>1, <3>1 DEF Segments
      <3>3. /\ t.start = image.headers[j].address
            /\ t.memory_end = image.headers[j].address + image.headers[j].memory_size
        BY <3>1 DEF HeaderRange
      <3>4. image.headers[j].address \in Nat /\ image.headers[j].memory_size \in Nat
        BY <1>1, HeadersTyped
      <3>5. b \in Memory(j)
        BY <1>2, <2>2, <3>3, <3>4 DEF Memory, Bytes
      <3> QED
        BY <3>2, <3>5
    <2>3. ASSUME b \in tls PROVE \E t \in TlsHeaders : t.start <= b /\ b < t.memory_end
      <3>1. PICK j \in Segments("TLS") : b \in Memory(j)
        BY <2>3
      <3>2. j \in 1 .. N /\ image.headers[j].type = "TLS"
        BY <1>1, <3>1 DEF Segments
      <3>3. image.headers[j].address \in Nat /\ image.headers[j].memory_size \in Nat
        BY <1>1, <3>2, HeadersTyped
      <3>4. /\ image.headers[j].address <= b
            /\ b < image.headers[j].address + image.headers[j].memory_size
            /\ image.headers[j].memory_size # 0
        BY <1>2, <3>1, <3>3 DEF Memory, Bytes
      <3>5. HeaderRange(image.headers[j], j) \in TlsHeaders
        BY <2>1, <3>2, <3>4 DEF BlocksUpTo
      <3> QED
        BY <3>4, <3>5 DEF HeaderRange
    <2> QED
      BY <2>2, <2>3 DEF IsThreadLocal
  <1>8. /\ Range(regions) = OfLoads(Range(loads))
        /\ \A r, s \in DOMAIN regions : regions[r] = regions[s] => r = s
    BY DEF InPlace
  <1> HIDE DEF N, h, load, tls
  <1>9. ASSUME NEW r \in X
        PROVE  \E p \in DataParts(load) : regions[r] = make_region(load, p) /\ Holds(p, b)
    <2> DEFINE region == regions[r]
    <2>1. /\ r \in DOMAIN regions /\ region.source = i
          /\ b \in Bytes(region.address, region.memory_size)
      BY DEF RegionBytes
    <2>2. region \in OfLoads(Range(loads))
      BY <1>8, <2>1 DEF Range
    <2> HIDE DEF region
    <2>3. PICK other \in Range(loads) : \E p \in DataParts(other) :
             /\ region = make_region(other, p)
             /\ region.source = other.source
             /\ Describes(region, p, image.headers[region.source])
      BY <2>2, RegionOfHeader
    <2>4. other = load
      <3>1. other.source = i
        BY <2>1, <2>3
      <3>2. other = HeaderRange(image.headers[other.source], other.source)
        BY LoadsHaveExtents
      <3> QED
        BY <3>1, <3>2 DEF load, h
    <2>5. PICK p \in DataParts(load) :
             region = make_region(load, p) /\ Describes(region, p, image.headers[region.source])
      BY <2>3, <2>4
    <2>6. Holds(p, b)
      BY <1>2, <2>1, <2>5 DEF Describes
    <2> QED
      BY <2>5, <2>6 DEF region
  <1>10. CASE b \in tls
    <2>1. \A p \in DataParts(load) : ~Holds(p, b)
      BY <1>4, <1>6, <1>7, <1>10, PartOfByte
    <2>2. X = {}
      BY <1>9, <2>1
    <2> HIDE DEF X
    <2>3. Cardinality(X) = 0
      BY <2>2, FS_EmptySet
    <2> QED
      BY <1>10, <2>3 DEF X, tls
  <1>11. CASE b \notin tls
    <2>1. PICK p \in DataParts(load) : Holds(p, b)
      BY <1>4, <1>6, <1>7, <1>11, PartOfByte
    <2> DEFINE region == make_region(load, p)
    <2>2. region.source = i /\ Describes(region, p, h)
      BY <1>1, <1>4, RegionOfPart DEF load
    <2>3. PICK k \in DOMAIN regions : regions[k] = region
      <3>1. region \in OfLoads(Range(loads))
        BY <1>3 DEF OfLoads, OfLoad
      <3> HIDE DEF region
      <3> QED
        BY <1>8, <3>1 DEF Range
    <2>4. k \in X
      BY <1>2, <2>1, <2>2, <2>3 DEF RegionBytes, Describes
    <2>5. ASSUME NEW r \in X PROVE r = k
      <3>1. PICK q \in DataParts(load) : regions[r] = make_region(load, q) /\ Holds(q, b)
        BY <1>9
      <3>2. q = p
        BY <1>4, <1>6, <2>1, <3>1, PartOfByte
      <3> QED
        BY <1>8, <2>3, <3>1, <3>2
    <2>6. X = {k}
      BY <2>4, <2>5
    <2> HIDE DEF X
    <2>7. Cardinality(X) = 1
      BY <2>6, FS_Singleton
    <2> QED
      BY <1>11, <2>7 DEF X, tls
  <1> QED
    BY <1>10, <1>11

LEMMA RegionsMeanData ==
    RegionsInv => RegionsAreData
  <1> SUFFICES ASSUME RegionsInv, elf_stage \in {"read", "binding", "bound"}, loads # <<>>
               PROVE  RegionsAreData
    BY DEF RegionsAreData
  <1>1. image \in Images /\ AllHeld /\ InPlace
    BY DEF RegionsInv
  <1> DEFINE tls == UNION {Memory(i) : i \in Segments("TLS")}
             Of(i) == {r \in DOMAIN regions : regions[r].source = i}
  <1>2. \A i \in Segments("LOAD") : \A b \in Memory(i) :
           Cardinality({r \in Of(i) : b \in RegionBytes(r)}) = IF b \in tls THEN 0 ELSE 1
    BY <1>1, RegionOfByte
  <1>3. ASSUME NEW r \in DOMAIN regions
        PROVE  LET header == image.headers[regions[r].source]
                   file == Bytes(header.address, header.file_size)
               IN  /\ regions[r].memory_size > 0
                   /\ RegionBytes(r) \subseteq Memory(regions[r].source)
                   /\ RegionBytes(r) \cap file = Bytes(regions[r].address, regions[r].file_size)
                   /\ regions[r].file_offset - regions[r].address = header.offset - header.address
    <2> DEFINE region == regions[r]
    <2>1. region \in OfLoads(Range(loads))
      BY <1>1 DEF InPlace, Range
    <2> HIDE DEF region
    <2>2. \E p : Describes(region, p, image.headers[region.source])
      BY <1>1, <2>1, RegionOfHeader
    <2> QED
      BY <2>2 DEF Describes, RegionBytes, Memory, region
  <1>4. \A r, s \in DOMAIN regions : r < s => regions[r].address <= regions[s].address
    BY <1>1 DEF InPlace
  <1> HIDE DEF tls, Of
  <1> QED
    BY <1>2, <1>3, <1>4, Zenon DEF RegionsAreData, tls, Of

\* The regions of an image described by its segments are its data, byte for byte,
\* for every image: each byte of a segment that is not code and not thread-local is
\* in exactly one region of that segment, file-backed where the file holds it and at
\* its offset there, in address order (parse_typed, append_load).
THEOREM RegionsCoverData ==
    ElfSpec => []RegionsAreData
  BY RegionsStart, RegionsStep, RegionsMeanData, PTL DEF ElfSpec

-----------------------------------------------------------------------------
\* The image is read for an access as it is read alone.
LEMMA LinkReadsImage ==
    LinkSpec => ElfSpec
  <1>1. LinkInit => ElfInit
    BY DEF LinkInit, LinkStarts, ElfInit
  <1>2. [LinkNext]_<<access_vars, elf_vars>> => [ElfNext]_elf_vars
    BY DEF LinkNext, elf_vars
  <1> QED
    BY <1>1, <1>2, PTL DEF LinkSpec, ElfSpec

-----------------------------------------------------------------------------
(* A resolved access is in its object.                                      *)

\* What the metadata says is made of integers.
Typed(nd, objs, structs) ==
    /\ Len(nd.access_path) \in Nat /\ nd.elem_size \in Int /\ objs[nd.object].elem_size \in Int
    /\ \A s \in DOMAIN structs :
          LET fields == structs[s].fields
          IN  /\ Len(fields) \in Nat /\ DOMAIN fields = 1 .. Len(fields)
              /\ \A f \in DOMAIN fields : fields[f].elem_size \in Int

LEMMA SizeOfSegment ==
    ASSUME NEW nd, NEW row, NEW structs, NEW segment, NEW w, NEW objs, Typed(nd, objs, structs),
           w.valid, "size" \in DOMAIN w.state, w.state.size \in Int,
           NEW w2, w2 = select(nd, row, structs, segment, w), w2.valid
    PROVE  /\ "size" \in DOMAIN w2.state /\ w2.state.size \in Int
           /\ w2.offset \subseteq Int
  <1>1. CASE segment.kind = "field"
    <2> DEFINE field == FirstField(structs, w.state, segment)
               step == [index |-> 0, stride |-> {field.offset}, dimension |-> 0]
               to == type_state(field)
               by == {field.offset}
    <2>1. FindsField(structs, w.state, segment)
      BY <1>1 DEF select, select_field, Refused
    <2>2. w2 = Advance(w, to, by, step)
      BY <1>1, <2>1 DEF select, select_field, Refused
    <2>3. field.elem_size \in Int
      <3> DEFINE fields == structs[w.state.type].fields
                 those == FieldsAt(structs, w.state, segment)
      <3>1. /\ w.state.type \in DOMAIN structs /\ those # {} /\ those \subseteq DOMAIN fields
        BY <2>1 DEF FindsField, FieldsAt
      <3>2. /\ Len(fields) \in Nat /\ DOMAIN fields = 1 .. Len(fields)
            /\ \A f \in DOMAIN fields : fields[f].elem_size \in Int
        BY <3>1 DEF Typed
      <3> HIDE DEF fields, those
      <3>3. those \in SUBSET Nat
        BY <3>1, <3>2
      <3>4. \E f \in those : \A g \in those : f <= g
        BY <3>1, <3>3, SmallestNumber
      <3>5. Min(those) \in those
        BY <3>4 DEF Min
      <3> QED
        BY <3>1, <3>2, <3>5 DEF FirstField, fields, those
    <2>4. "size" \in DOMAIN to /\ to.size \in Int
      BY <2>3 DEF type_state
    <2> HIDE DEF to, by, step, field
    <2> QED
      BY <2>2, <2>4 DEF Advance, Refused, Plus, Word
  <1>2. CASE segment.kind # "field"
    <2> DEFINE stride == Product(w.state.size, Tail(w.state.shape))
               step == [index |-> w.used + 1, stride |-> stride, dimension |-> w.state.shape[1]]
               to == [w.state EXCEPT !.shape = Tail(@)]
               by == Times({row[w.used + 1]}, stride)
    <2>1. w2 = Advance(w, to, by, step)
      BY <1>2 DEF select, select_index, Refused
    <2>2. "size" \in DOMAIN to /\ to.size \in Int
      OBVIOUS
    <2> HIDE DEF to, by, step, stride
    <2> QED
      BY <2>1, <2>2 DEF Advance, Refused, Plus, Word
  <1> QED
    BY <1>1, <1>2

LEMMA PathEndTyped ==
    ASSUME NEW nd, NEW row, NEW objs, NEW structs, Typed(nd, objs, structs),
           PathEnd(nd, row, objs, structs).valid
    PROVE  LET leaf == PathEnd(nd, row, objs, structs)
           IN  leaf.state.size \in Int /\ leaf.offset \subseteq Int
  <1> DEFINE n == Len(nd.access_path)
             object == objs[nd.object]
  <1>1. n \in Nat /\ object.elem_size \in Int
    BY DEF Typed
  <1> HIDE DEF n, object
  <1>2. PICK W : Walks(n, nd, row, structs, object, W) /\ PathEnd(nd, row, objs, structs) = W[n]
    BY <1>1, PathEndIsLast DEF n, object
  <1>3. \A i \in 0..n : W[i].valid
    BY <1>1, <1>2, ValidFromTheStart
  <1>4. /\ W[0] = PathStart(object)
        /\ \A i \in 1..n : W[i] = select(nd, row, structs, nd.access_path[i], W[i - 1])
    BY <1>1, <1>2 DEF Walks
  <1> DEFINE Fine(w) == /\ "size" \in DOMAIN w.state /\ w.state.size \in Int
                        /\ w.offset \subseteq Int
             F == {i \in 0..n : ~Fine(W[i])}
  <1>5. F = {}
    <2> SUFFICES ASSUME F # {} PROVE FALSE
      OBVIOUS
    <2>1. F \in SUBSET Nat
      OBVIOUS
    <2>2. PICK i \in F : \A l \in F : i <= l
      BY <2>1, SmallestNumber
    <2>3. CASE i = 0
      BY <1>1, <1>4, <2>2, <2>3 DEF PathStart, type_state
    <2>4. CASE i # 0
      <3>1. i \in 1..n /\ i - 1 \in 0..n /\ Fine(W[i - 1])
        BY <1>1, <2>2, <2>4
      <3>2. W[i - 1].valid /\ W[i].valid
        BY <1>3, <3>1
      <3>3. W[i] = select(nd, row, structs, nd.access_path[i], W[i - 1])
        BY <1>4, <3>1
      <3>4. Fine(W[i])
        BY <3>1, <3>2, <3>3, SizeOfSegment
      <3> QED
        BY <2>2, <3>4
    <2> QED
      BY <2>3, <2>4
  <1> QED
    BY <1>1, <1>2, <1>5

LEMMA RangeTyped ==
    ASSUME NEW nd, NEW row, NEW objs, NEW structs, Typed(nd, objs, structs),
           NEW r \in prepare(nd, row, objs, structs).range
    PROVE  r.offset \in Int /\ r.size \in Int
  <1>1. CASE has_field_path(nd)
    <2> DEFINE leaf == PathEnd(nd, row, objs, structs)
    <2>1. r \in resolve_path(nd, row, objs, structs).range
      BY <1>1 DEF prepare
    <2>2. /\ PathResolves(nd, leaf, objs[nd.object])
          /\ r \in {[offset |-> o, size |-> leaf.state.size] : o \in leaf.offset}
      BY <2>1 DEF resolve_path
    <2>3. leaf.state.size \in Int /\ leaf.offset \subseteq Int
      BY <2>2, PathEndTyped DEF PathResolves
    <2> QED
      BY <2>2, <2>3
  <1>2. CASE ~has_field_path(nd)
    <2>1. r \in {[offset |-> o, size |-> nd.elem_size] :
                    o \in Times(linear_index(nd, row), {nd.elem_size})}
      BY <1>2 DEF prepare, prepare_legacy_access
    <2>2. nd.elem_size \in Int
      BY DEF Typed
    <2> QED
      BY <2>1, <2>2 DEF Times, Word
  <1> QED
    BY <1>1, <1>2

LEMMA ObjectsTyped ==
    ASSUME ElfInv, elf_stage = "bound", NEW id \in DOMAIN objects
    PROVE  objects[id].base \in Nat /\ objects[id].size \in Nat
  <1>1. PICK i \in 1..Len(symbols) : id = global(symbols[i].name)
    BY DEF ElfInv, ObjectsInv, BoundUpTo
  <1>2. objects[id] = Address(symbols[i])
    BY <1>1 DEF ElfInv, ObjectsInv, BoundUpTo
  <1>3. symbols[i] \in ImageSymbols
    BY LenProperties DEF ElfInv, SymbolsInv
  <1>4. symbols[i].address \in Nat /\ symbols[i].size \in Nat
    BY <1>3, ImageAssumption DEF ElfInv, ImageSymbols
  <1> QED
    BY <1>2, <1>4 DEF Address

\* The bytes of an access that passed the checks.
LEMMA BytesInside ==
    ASSUME NEW base \in Nat, NEW extent \in Nat, NEW offset \in Int, NEW size \in Int,
           offset >= 0, size > 0, offset < extent, size <= extent - offset,
           IsAddress(base + offset + size - 1)
    PROVE  /\ Bytes(base + offset, size) \subseteq Bytes(base, extent)
           /\ Bytes(base + offset, size) \subseteq 0 .. 2^AddressBits - 1
           /\ (base + offset) - base = offset
  <1>1. 2^AddressBits \in Int
    BY ImageAssumption, Z3
  <1> DEFINE N == 2^AddressBits
  <1>2. base + offset + size - 1 < N
    BY DEF IsAddress
  <1> HIDE DEF N
  <1>3. N \in Int
    BY <1>1 DEF N
  <1>4. Bytes(base + offset, size) \subseteq 0 .. N - 1
    BY <1>2, <1>3 DEF Bytes
  <1> QED
    BY <1>4 DEF Bytes, N

LEMMA InObjectWhenFresh ==
    ASSUME PlanInv, ElfInv
    PROVE  AccessInObject
  <1>1. CASE last.outcome = NoOutcome
    BY <1>1 DEF AccessInObject, NoOutcome
  <1>2. CASE last.outcome # NoOutcome
    <2> SUFFICES ASSUME NEW got \in last.outcome.at
                 PROVE  LET object == objects[node.object]
                        IN  /\ node.object \in DOMAIN objects
                            /\ got.size > 0
                            /\ got.address - object.base = got.offset
                            /\ Bytes(got.address, got.size) \subseteq Bytes(object.base, object.size)
                            /\ Bytes(got.address, got.size) \subseteq 0 .. 2^AddressBits - 1
                            /\ got.operation = node.op
                            /\ got.basis = "ImageRelative" <=> image.type = "DYN"
      BY DEF AccessInObject
    <2>1. PICK v : v = last.values
      OBVIOUS
    <2>2. last.outcome = Outcome(NoPlan, v) /\ elf_stage = "bound"
      BY <1>2, <2>1 DEF PlanInv
    <2> DEFINE object == CHOOSE o \in Binding : TRUE
               ranges == Layout(v).range
               spot == CHOOSE r \in ranges : TRUE
    <2>3. Refusal(NoPlan, v) = "resolved"
      BY <2>2 DEF Outcome
    <2>4. got = Ok(spot, object, node.op, Basis)
      BY <2>2, <2>3 DEF Outcome, NoPlan, Candidate
    <2>5. FirstRefusal(v) = "resolved"
      BY <2>3 DEF Refusal
    <2>6. NodeRefusal = "none" /\ KindRefusal = "none"
      BY <2>5 DEF FirstRefusal, NodeRefusal, KindRefusal
    <2>7. Ranged(ranges, Binding) = "resolved"
      BY <2>5, <2>6 DEF FirstRefusal
    <2>8. /\ ranges # {} /\ Binding # {} /\ ~(spot.offset < 0) /\ ~(spot.size <= 0)
          /\ ~ExceedsObject(spot, object) /\ InAddressSpace(spot, object)
      BY <2>7 DEF Ranged
    <2>9. node.object \in DOMAIN objects /\ object = objects[node.object]
      BY <2>8 DEF Binding
    <2>10. object.base \in Nat /\ object.size \in Nat
      BY <2>2, <2>9, ObjectsTyped
    <2>11. Typed(node, access.objects, access.structs)
      BY <2>6, AccessAssumption DEF PlanInv, Typed, node, KindRefusal
    <2>12. spot \in ranges
      BY <2>8
    <2>13. spot.offset \in Int /\ spot.size \in Int
      BY <2>11, <2>12, RangeTyped DEF Layout
    <2> HIDE DEF object, ranges, spot
    <2>14. /\ got.size = spot.size /\ got.offset = spot.offset
           /\ got.address = object.base + spot.offset /\ got.operation = node.op
           /\ got.basis = Basis
      BY <2>4 DEF Ok
    <2>15. /\ spot.offset >= 0 /\ spot.size > 0 /\ spot.offset < object.size
           /\ spot.size <= object.size - spot.offset
           /\ IsAddress(object.base + spot.offset + spot.size - 1)
      BY <2>8, <2>10, <2>13 DEF ExceedsObject, InAddressSpace
    <2>16. got.basis = "ImageRelative" <=> image.type = "DYN"
      BY <2>14 DEF Basis, image_relative
    <2> QED
      BY <2>9, <2>10, <2>13, <2>14, <2>15, <2>16, BytesInside, SMTT(30)
  <1> QED
    BY <1>1, <1>2

\* A resolved access, with a plan or without, is inside the object the image has
\* for it, at that object's addresses and in a range of addresses that does not
\* wrap (resolve_access).
THEOREM AccessesStayInside ==
    LinkSpec => []AccessInObject
  <1>1. ElfSpec => []ElfInv
    BY ElfStart, ElfStep, PTL DEF ElfSpec
  <1>2. LinkSpec => []PlanInv
    BY PlanStarts, PlanKept, PTL DEF LinkSpec
  <1>3. PlanInv /\ ElfInv => AccessInObject
    BY InObjectWhenFresh
  <1> QED
    BY <1>1, <1>2, <1>3, LinkReadsImage, PTL

-----------------------------------------------------------------------------
(* The lines of an access, for every word size and every line size.         *)

(* Division with remainder, as the decoding of an address uses it.          *)
LEMMA Division ==
    ASSUME NEW a \in Nat, NEW n \in Nat \ {0}
    PROVE  /\ a \div n \in Nat /\ a % n \in 0 .. n - 1
           /\ a = n * (a \div n) + (a % n)
  BY Z3

(* A quotient and a remainder below the divisor are the ones of the sum.    *)
LEMMA DivisionUnique ==
    ASSUME NEW q \in Nat, NEW r \in Nat, NEW n \in Nat \ {0}, r < n
    PROVE  (n * q + r) \div n = q /\ (n * q + r) % n = r
  BY Z3

(* From an address to the next line: everything before it has the address's *)
(* block number, and it starts the block with the next number.              *)
LEMMA NextLine ==
    ASSUME NEW a \in Nat, NEW n \in Nat \ {0}
    PROVE  /\ \A c \in Nat : c < n - (a % n) => (a + c) \div n = a \div n
           /\ a + (n - (a % n)) = n * (a \div n + 1)
           /\ (a + (n - (a % n))) \div n = a \div n + 1
  <1> DEFINE q == a \div n
             r == a % n
  <1>1. q \in Nat /\ r \in 0 .. n - 1 /\ a = n * q + r
    BY Division
  <1> HIDE DEF q, r
  <1>2. ASSUME NEW c \in Nat, c < n - r
        PROVE  (a + c) \div n = q
    <2>1. r + c \in Nat /\ r + c < n
      BY <1>1, <1>2
    <2>2. a + c = n * q + (r + c)
      BY <1>1, Z3
    <2>3. (n * q + (r + c)) \div n = q
      BY <2>1, <1>1, DivisionUnique
    <2> QED
      BY <2>2, <2>3
  <1>3. a + (n - r) = n * (q + 1)
    BY <1>1, Z3
  <1>4. (n * (q + 1) + 0) \div n = q + 1
    <2>1. q + 1 \in Nat /\ 0 \in Nat /\ 0 < n
      BY <1>1
    <2> QED
      BY <2>1, DivisionUnique
  <1>5. n * (q + 1) + 0 = n * (q + 1)
    BY <1>1, Z3
  <1> QED
    BY <1>2, <1>3, <1>4, <1>5 DEF q, r

(* Addresses of one block are in one line: block numbers grow with them.    *)
LEMMA DivisionMonotone ==
    ASSUME NEW a \in Nat, NEW b \in Nat, NEW n \in Nat \ {0}, a <= b
    PROVE  a \div n <= b \div n
  BY Z3

(* The start of a line is the least address with its block number.          *)
LEMMA LineStart ==
    ASSUME NEW b \in Nat, NEW n \in Nat \ {0}
    PROVE  n * (b \div n) <= b
  BY Division

-----------------------------------------------------------------------------
line_size == geometry.line_size
first_block == linked_byte_address \div line_size

Inputs ==
    /\ linked_byte_address \in Nat /\ object_byte_offset \in Nat /\ access_size \in Nat
    /\ linked_byte_address <= MaxWord /\ object_byte_offset <= MaxWord
    /\ line_size \in Nat
    /\ stage \in {"called", "mapping", "done", "refused", "threw"}

(* Before the loop there is nothing; in it the range is a valid one.        *)
Before ==
    /\ stage \in {"called", "refused"} =>
          /\ mapped = <<>> /\ line_span_ordinal = 0 /\ remaining = 0
          /\ current_address = 0 /\ current_object_offset = 0
    /\ stage \in {"mapping", "done", "threw"} => RangeValid /\ line_size # 0

MappedAt(m, i) ==
    /\ m.address \in Nat
    /\ linked_byte_address <= m.address /\ m.address <= last_byte
    /\ m.block_number = m.address \div line_size
    /\ m.block_number = first_block + (i - 1)
    /\ m.object_byte_offset = object_byte_offset + (m.address - linked_byte_address)
    /\ m.line_span_ordinal = i - 1
    /\ m.address = IF i = 1 THEN linked_byte_address ELSE line_size * m.block_number

(* Every line handed out, and their number.                                 *)
Mapped ==
    /\ mapped \in Seq([address : Nat, block_number : Nat,
                       object_byte_offset : Nat, line_span_ordinal : Nat])
    /\ line_span_ordinal = Len(mapped)
    /\ \A i \in 1 .. Len(mapped) : MappedAt(mapped[i], i)

(* In the loop the cursor is at the next unmapped byte, which starts a line *)
(* unless it is the first; the line after the mapped ones is its line.      *)
Cursor ==
    stage \in {"mapping", "threw"} =>
        /\ remaining \in Nat /\ 0 < remaining /\ remaining <= access_size
        /\ current_address = linked_byte_address + (access_size - remaining)
        /\ current_object_offset = object_byte_offset + (access_size - remaining)
        /\ Len(mapped) <= access_size - remaining
        /\ current_address \div line_size = first_block + Len(mapped)
        /\ current_address = IF Len(mapped) = 0 THEN linked_byte_address
                             ELSE line_size * (current_address \div line_size)

(* At the end the last line mapped is the line of the last byte.            *)
Ended ==
    stage = "done" =>
        /\ remaining = 0
        /\ current_address \in 0..MaxWord /\ current_object_offset \in 0..MaxWord
        /\ 0 < Len(mapped) /\ Len(mapped) <= access_size
        /\ last_byte \div line_size = first_block + (Len(mapped) - 1)

IInv == Inputs /\ Before /\ Mapped /\ Cursor /\ Ended

-----------------------------------------------------------------------------
LEMMA InitIInv == Init => IInv
  <1> SUFFICES ASSUME Init PROVE IInv
    OBVIOUS
  <1>1. Inputs
    BY MappingAssumption DEF Init, Inputs, line_size
  <1> QED
    BY <1>1 DEF Init, IInv, Before, Mapped, Cursor, Ended

(* The start of the loop.                                                   *)
LEMMA StartIInv == IInv /\ Start => IInv'
  <1> SUFFICES ASSUME IInv, Start PROVE IInv'
    OBVIOUS
  <1> USE DEF IInv, Start, range
  <1>1. Inputs'
    BY DEF Inputs, line_size
  <1>2. line_size # 0
    BY DEF GeometryValid, IsPowerOfTwo, line_size
  <1>3. Before'
    BY <1>2 DEF Before, RangeValid, Fits, line_size
  <1>4. mapped = <<>> /\ Len(mapped) = 0
    BY DEF Before
  <1>5. Mapped'
    BY <1>4 DEF Mapped
  <1>6. Cursor'
    <2>1. first_block \in Nat
      BY <1>2, Division DEF Inputs, first_block
    <2> QED
      BY <1>4, <2>1 DEF Cursor, Inputs, RangeValid, first_block, line_size
  <1> QED
    BY <1>1, <1>3, <1>5, <1>6 DEF Ended

(* One line of the loop: what it hands out, and where it leaves the cursor. *)
LEMMA MapLineIInv == IInv /\ MapLine => IInv'
  <1> SUFFICES ASSUME IInv, MapLine PROVE IInv'
    OBVIOUS
  <1> DEFINE a == current_address
             n == line_size
  <1>1. /\ n \in Nat \ {0} /\ a \in Nat /\ MaxWord \in Nat
        /\ remaining \in Nat /\ 0 < remaining /\ remaining <= access_size
        /\ a = linked_byte_address + (access_size - remaining)
        /\ current_object_offset = object_byte_offset + (access_size - remaining)
        /\ access_size - 1 <= MaxWord - linked_byte_address
        /\ access_size - 1 <= MaxWord - object_byte_offset
        /\ linked_byte_address \in Nat /\ object_byte_offset \in Nat /\ access_size \in Nat
    BY MappingAssumption
       DEF IInv, MapLine, Inputs, Before, Cursor, RangeValid, Fits
  <1>2. /\ a \div n \in Nat /\ a % n \in 0 .. n - 1
        /\ \A c \in Nat : c < n - (a % n) => (a + c) \div n = a \div n
        /\ a + (n - (a % n)) = n * (a \div n + 1)
        /\ (a + (n - (a % n))) \div n = a \div n + 1
    BY <1>1, Division, NextLine
  <1>3. /\ available = n - (a % n)
        /\ consumed = IF remaining < n - (a % n) THEN remaining ELSE n - (a % n)
    BY DEF available, consumed, line_offset, line_size
  <1>4. /\ consumed \in Nat /\ 0 < consumed /\ consumed <= remaining
        /\ consumed <= n - (a % n)
        /\ remaining # consumed => consumed = n - (a % n)
    BY <1>1, <1>2, <1>3
  <1>5. \A i \in 0..MaxWord : Wrapped(i) = i
    BY <1>1, Z3 DEF Wrapped
  <1>6. remaining' = remaining - consumed
    BY <1>1, <1>4, <1>5 DEF MapLine
  <1>7. remaining # consumed =>
          /\ current_address' = a + consumed
          /\ current_object_offset' = current_object_offset + consumed
    BY <1>1, <1>4, <1>5 DEF MapLine
  <1>8. UNCHANGED <<linked_byte_address, object_byte_offset, access_size, line_size, first_block>>
    BY DEF MapLine, range, line_size, first_block
  <1>9. /\ a \div n = first_block + Len(mapped)
        /\ Len(mapped) \in Nat
        /\ a = IF Len(mapped) = 0 THEN linked_byte_address ELSE n * (a \div n)
        /\ Len(mapped) <= access_size - remaining
        /\ line_span_ordinal = Len(mapped)
        /\ first_block \in Nat
    <2>1. first_block \in Nat
      BY <1>1, Division DEF first_block
    <2>2. Len(mapped) \in Nat /\ line_span_ordinal = Len(mapped)
      BY DEF IInv, Mapped
    <2> QED
      BY <2>1, <2>2 DEF IInv, MapLine, Cursor
  <1>10. /\ mapped' = Append(mapped, Mapping)
         /\ Len(mapped') = Len(mapped) + 1
         /\ \A i \in 1 .. Len(mapped) : mapped'[i] = mapped[i]
         /\ mapped'[Len(mapped) + 1] = Mapping
    BY DEF MapLine, IInv, Mapped
  <1>11. Inputs'
    BY <1>8, <1>6 DEF IInv, Inputs, MapLine
  <1>12. Before'
    BY <1>8 DEF IInv, Before, MapLine, RangeValid, Fits
  <1>13. MappedAt(Mapping, Len(mapped) + 1)
    <2>1. /\ Mapping.address = a /\ Mapping.block_number = a \div n
          /\ Mapping.object_byte_offset = current_object_offset
          /\ Mapping.line_span_ordinal = line_span_ordinal
      BY DEF Mapping, line_size
    <2> HIDE DEF a, n
    <2> QED
      BY <2>1, <1>1, <1>9 DEF MappedAt, last_byte, n
  <1>14. Mapped'
    <2>1. mapped' \in Seq([address : Nat, block_number : Nat,
                           object_byte_offset : Nat, line_span_ordinal : Nat])
      <3>1. Mapping \in [address : Nat, block_number : Nat,
                         object_byte_offset : Nat, line_span_ordinal : Nat]
        BY <1>1, <1>2, <1>9 DEF Mapping, line_size
      <3> QED
        BY <3>1, <1>10 DEF IInv, Mapped
    <2>2. ASSUME NEW i \in 1 .. Len(mapped')
          PROVE  MappedAt(mapped[i], i)'
      <3>1. MappedAt(mapped'[i], i)
        BY <1>9, <1>10, <1>13 DEF IInv, Mapped
      <3> QED
        BY <3>1, <1>8 DEF MappedAt, last_byte
    <2>3. line_span_ordinal' = Len(mapped')
      BY <1>9, <1>10 DEF MapLine
    <2> QED
      BY <2>1, <2>2, <2>3 DEF Mapped
  <1>15. Cursor'
    <2> SUFFICES ASSUME stage' \in {"mapping", "threw"} PROVE Cursor'
      BY DEF Cursor
    <2>1. remaining # consumed
      BY DEF MapLine
    <2>2. consumed = n - (a % n) /\ current_address' = a + (n - (a % n))
      BY <2>1, <1>4, <1>7
    <2>3. current_address' = n * (a \div n + 1) /\ current_address' \div n = a \div n + 1
      BY <2>2, <1>2
    <2>4. current_address' = n * (current_address' \div n)
      BY <2>3
    <2>5. current_address' \div n = first_block + Len(mapped')
      BY <2>3, <1>2, <1>9, <1>10
    <2>6. /\ remaining' \in Nat /\ 0 < remaining' /\ remaining' <= access_size
          /\ current_address' = linked_byte_address + (access_size - remaining')
          /\ current_object_offset' = object_byte_offset + (access_size - remaining')
          /\ Len(mapped') <= access_size - remaining'
          /\ Len(mapped') # 0
      BY <2>1, <1>1, <1>4, <1>6, <1>7, <1>9, <1>10
    <2> QED
      BY <2>4, <2>5, <2>6, <1>8 DEF Cursor
  <1>16. Ended'
    <2> SUFFICES ASSUME stage' = "done" PROVE Ended'
      BY DEF Ended
    <2>1. remaining = consumed
      BY DEF MapLine, IInv, Inputs
    <2>2. last_byte = a + (remaining - 1) /\ remaining - 1 \in Nat /\ remaining - 1 < n - (a % n)
      BY <2>1, <1>1, <1>2, <1>4 DEF last_byte
    <2>3. last_byte \div n = a \div n
      BY <2>2, <1>2
    <2>4. remaining' = 0 /\ Len(mapped') <= access_size /\ 0 < Len(mapped')
      BY <2>1, <1>1, <1>6, <1>9, <1>10
    <2>5. current_address' \in 0..MaxWord /\ current_object_offset' \in 0..MaxWord
      BY <2>1, <1>1 DEF MapLine
    <2>6. last_byte \div n = first_block + (Len(mapped') - 1)
      BY <2>3, <1>9, <1>10
    <2> QED
      BY <2>4, <2>5, <2>6, <1>8 DEF Ended, last_byte
  <1> QED
    BY <1>11, <1>12, <1>14, <1>15, <1>16 DEF IInv

LEMMA StepIInv == IInv /\ [Next]_vars => IInv'
  <1> SUFFICES ASSUME IInv, [Next]_vars PROVE IInv'
    OBVIOUS
  <1> USE DEF range, cursor, IInv, Inputs, Before, Mapped, MappedAt, Cursor, Ended,
              RangeValid, Fits, line_size, first_block, last_byte
  <1>1. CASE Refuse
    BY <1>1 DEF Refuse
  <1>2. CASE Start
    BY <1>2, StartIInv
  <1>3. CASE MapLine
    BY <1>3, MapLineIInv
  <1>4. CASE SinkThrows
    BY <1>4 DEF SinkThrows
  <1>5. CASE UNCHANGED vars
    BY <1>5 DEF vars
  <1> QED
    BY <1>1, <1>2, <1>3, <1>4, <1>5 DEF Next

-----------------------------------------------------------------------------
LEMMA IInvTypeOK == IInv => TypeOK
  <1> SUFFICES ASSUME IInv PROVE TypeOK
    OBVIOUS
  <1> QED
    BY MappingAssumption, SMTT(30) DEF IInv, Inputs, Before, Mapped, Cursor, Ended, TypeOK,
                             RangeValid, Fits

LEMMA IInvTraceBack == IInv => MappingsTraceBack
  <1> SUFFICES ASSUME IInv, NEW i \in DOMAIN mapped
               PROVE  /\ mapped[i].object_byte_offset - object_byte_offset
                            = mapped[i].address - linked_byte_address
                      /\ mapped[i].object_byte_offset <= MaxWord
                      /\ mapped[i].line_span_ordinal = i - 1
                      /\ mapped[i].block_number
                            = mapped[1].block_number + mapped[i].line_span_ordinal
    BY DEF MappingsTraceBack
  <1>1. i \in 1 .. Len(mapped) /\ Len(mapped) \in Nat /\ 1 \in 1 .. Len(mapped)
    BY DEF IInv, Mapped
  <1>2. MappedAt(mapped[i], i) /\ MappedAt(mapped[1], 1)
    BY <1>1 DEF IInv, Mapped
  <1>3. RangeValid /\ line_size \in Nat \ {0}
    BY <1>1 DEF IInv, Inputs, Before
  <1>4. first_block \in Nat
    BY <1>3, Division DEF IInv, Inputs, first_block
  <1>5. /\ mapped[i].address \in Nat /\ linked_byte_address <= mapped[i].address
        /\ mapped[i].address <= last_byte
        /\ mapped[i].object_byte_offset
              = object_byte_offset + (mapped[i].address - linked_byte_address)
        /\ mapped[i].line_span_ordinal = i - 1
        /\ mapped[i].block_number = first_block + (i - 1)
    BY <1>2 DEF MappedAt
  <1>6. mapped[1].block_number = first_block
    BY <1>2, <1>4 DEF MappedAt
  <1>7. mapped[i].object_byte_offset <= MaxWord
    BY <1>3, <1>5, MappingAssumption DEF IInv, Inputs, RangeValid, Fits, last_byte
  <1> QED
    BY <1>1, <1>4, <1>5, <1>6, <1>7 DEF IInv, Inputs

LEMMA IInvPartition == IInv => LinesPartitionAccess
  <1> SUFFICES ASSUME IInv PROVE LinesPartitionAccess
    OBVIOUS
  <1> DEFINE n == line_size
  <1>1. /\ linked_byte_address \in Nat /\ access_size \in Nat
        /\ Len(mapped) \in Nat /\ DOMAIN mapped = 1 .. Len(mapped)
        /\ \A i \in DOMAIN mapped : MappedAt(mapped[i], i)
    BY DEF IInv, Inputs, Mapped
  <1>2. mapped # <<>> => n \in Nat \ {0} /\ first_block \in Nat /\ RangeValid
    <2>1. mapped # <<>> => n \in Nat \ {0} /\ RangeValid
      BY DEF IInv, Inputs, Before
    <2> QED
      BY <1>1, <2>1, Division DEF first_block
  <1>3. ASSUME NEW i \in DOMAIN mapped, NEW j \in DOMAIN mapped, i # j
        PROVE  BytesOf(mapped[i]) \cap BytesOf(mapped[j]) = {}
    <2>1. mapped # <<>>
      BY <1>1
    <2>2. mapped[i].block_number # mapped[j].block_number
      BY <1>1, <1>2, <1>3, <2>1 DEF MappedAt
    <2> QED
      BY <2>2 DEF BytesOf
  <1>4. ASSUME NEW i \in DOMAIN mapped
        PROVE  BytesOf(mapped[i]) # {}
    <2>1. mapped[i].address \in BytesOf(mapped[i])
      BY <1>1 DEF MappedAt, BytesOf, last_byte, line_size
    <2> QED
      BY <2>1
  <1>5. ASSUME stage = "done", NEW b \in linked_byte_address .. last_byte
        PROVE  \E i \in DOMAIN mapped : b \in BytesOf(mapped[i])
    <2> DEFINE i == b \div n - first_block + 1
    <2>1. 0 < Len(mapped) /\ last_byte \div n = first_block + (Len(mapped) - 1)
      BY <1>5 DEF IInv, Ended
    <2>2. n \in Nat \ {0} /\ first_block \in Nat /\ b \in Nat /\ last_byte \in Nat
          /\ access_size # 0
      BY <1>1, <1>2, <2>1 DEF last_byte, RangeValid
    <2>3. first_block <= b \div n /\ b \div n <= last_byte \div n
      BY <1>1, <2>2, DivisionMonotone DEF first_block
    <2>4. b \div n \in Nat /\ n * (b \div n) <= b
      BY <2>2, Division, LineStart
    <2>5. i \in DOMAIN mapped /\ b \div n = first_block + (i - 1)
      BY <1>1, <2>1, <2>2, <2>3, <2>4
    <2> HIDE DEF i
    <2>6. MappedAt(mapped[i], i)
      BY <1>1, <2>5
    <2>7. mapped[i].block_number = b \div n
      BY <2>5, <2>6 DEF MappedAt
    <2>8. mapped[i].address <= b
      <3>1. CASE i = 1
        BY <3>1, <2>6, <1>5, <1>1 DEF MappedAt
      <3>2. CASE i # 1
        BY <3>2, <2>4, <2>6, <2>7 DEF MappedAt
      <3> QED
        BY <3>1, <3>2
    <2>9. b \in BytesOf(mapped[i])
      BY <2>7, <2>8, <1>5 DEF BytesOf, line_size
    <2> QED
      BY <2>5, <2>9
  <1>6. \A i \in DOMAIN mapped : BytesOf(mapped[i]) \subseteq linked_byte_address .. last_byte
    BY DEF BytesOf
  <1>7. stage = "done" => UNION {BytesOf(mapped[i]) : i \in DOMAIN mapped}
                            = linked_byte_address .. last_byte
    BY <1>5, <1>6
  <1> QED
    BY <1>3, <1>4, <1>7 DEF LinesPartitionAccess

(* For every word size, geometry and access: at each moment the lines       *)
(* handed out are disjoint, consecutive and traceable to the access, and at *)
(* the end they cover exactly its bytes.                                    *)
THEOREM LinesCoverAccess ==
    Spec => [](TypeOK /\ LinesPartitionAccess /\ MappingsTraceBack)
  <1>1. Init => IInv
    BY InitIInv
  <1>2. IInv /\ [Next]_vars => IInv'
    BY StepIInv
  <1>3. IInv => TypeOK /\ LinesPartitionAccess /\ MappingsTraceBack
    BY IInvTypeOK, IInvPartition, IInvTraceBack
  <1> QED
    BY <1>1, <1>2, <1>3, PTL DEF Spec

(* Every line handed out lies as far into the object as into the address    *)
(* range, carries its place in the access, and follows its neighbour.       *)
THEOREM LinesTraceBack == Spec => []MappingsTraceBack
  BY LinesCoverAccess, PTL

-----------------------------------------------------------------------------
(* What a refusal rests on: the range and the geometry as they were given.  *)
RefusedRange ==
    /\ linked_byte_address \in Nat /\ object_byte_offset \in Nat /\ access_size \in Nat
    /\ stage = "refused" => ~RangeValid \/ ~GeometryValid

LEMMA RefusedKept == RefusedRange /\ [Next]_vars => RefusedRange'
  <1> SUFFICES ASSUME RefusedRange, [Next]_vars PROVE RefusedRange'
    OBVIOUS
  <1>1. UNCHANGED range
    BY DEF Next, Refuse, Start, MapLine, SinkThrows, vars
  <1>2. (RangeValid' <=> RangeValid) /\ (GeometryValid' <=> GeometryValid)
    BY <1>1 DEF range, RangeValid, Fits, GeometryValid
  <1>3. stage' = "refused" => stage = "refused" \/ ~RangeValid \/ ~GeometryValid
    BY DEF Next, Refuse, Start, MapLine, SinkThrows, vars
  <1> QED
    BY <1>1, <1>2, <1>3 DEF RefusedRange, range

(* An access is refused only if one of its bytes has no address or no       *)
(* offset in the object, or the geometry cannot be one: an access that ends *)
(* at the very last address of the machine is mapped.                       *)
THEOREM RefusalHasCause == Spec => []RefusedForCause
  <1>1. Init => RefusedRange
    BY MappingAssumption DEF Init, RefusedRange
  <1>2. RefusedRange => RefusedForCause
    <2> SUFFICES ASSUME RefusedRange, stage = "refused", access_size # 0, GeometryValid
                 PROVE  \E n \in 0 .. access_size - 1 :
                           linked_byte_address + n > MaxWord \/ object_byte_offset + n > MaxWord
      BY DEF RefusedForCause
    <2> DEFINE n == access_size - 1
    <2>1. n \in 0 .. access_size - 1
      BY DEF RefusedRange
    <2>2. ~(n <= MaxWord - linked_byte_address) \/ ~(n <= MaxWord - object_byte_offset)
      BY DEF RefusedRange, RangeValid, Fits
    <2>3. linked_byte_address + n > MaxWord \/ object_byte_offset + n > MaxWord
      BY <2>2, MappingAssumption DEF RefusedRange
    <2> QED
      BY <2>1, <2>3
  <1> QED
    BY <1>1, <1>2, RefusedKept, PTL DEF Spec
=============================================================================
