--------------------------- MODULE MCPreparedTrace ---------------------------
(* Three-bit words, so that loops reach both ends of the integers.  Each     *)
(* program is an outer loop with every interesting start, bound and step    *)
(* around an access, a loop whose bound depends on the outer value, and a   *)
(* loop that reuses the outer name; a second top-level node starts afresh.  *)
EXTENDS LoopSemantics, TLC

Const(c) == [constant |-> c, terms |-> [v \in {} |-> 0]]
Var(v) == [constant |-> 0, terms |-> v :> 1]

Access(indices) == [kind |-> "Access", indices |-> indices]
Loop(var, start, bound, step, body) ==
    [kind |-> "Loop", var |-> var, start |-> start, bound |-> bound, step |-> step,
     body |-> body]

Nest(start, bound, step, inner) ==
    [nodes |-> <<Loop("i", Const(start), Const(bound), step, <<2, 3, 5>>),
                 Access(<<[constant |-> 1, terms |-> "i" :> 2]>>),
                 Loop("j", Const(0), Var("i"), inner, <<4>>),
                 Access(<<[constant |-> 0, terms |-> ("j" :> 1 @@ "i" :> -1)]>>),
                 Loop("i", Var("i"), Const(2), 2, <<6>>),
                 Access(<<Var("i"), Var("j")>>),
                 Loop("k", Const(-4), Const(3), 3, <<8>>),
                 Access(<<Var("k")>>)>>,
     roots |-> <<1, 7>>]

\* A bound that is no word once the outer loop has gone far enough.
Overrun(step) ==
    [nodes |-> <<Loop("i", Const(1), Const(3), 1, <<2>>),
                 Loop("j", Const(-4), [constant |-> 0, terms |-> "i" :> 2], step, <<>>)>>,
     roots |-> <<1>>]

MCPrograms ==
    {Nest(start, bound, step, inner) :
        start \in {-4, -1, 3}, bound \in {-4, 0, 3}, step \in {-4, -1, 0, 1, 3},
        inner \in {-1, 2}}
    \cup {Overrun(step) : step \in {1, 3}} \cup {[nodes |-> <<>>, roots |-> <<>>]}

MCSingleLimits == {3, 7}
MCCumulativeLimits == {0, 9, 40}
=============================================================================
