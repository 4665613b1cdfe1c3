--------------------------- MODULE MCCallExpansion ---------------------------
(* A root that calls g in a loop and g that calls h, with arguments over the *)
(* names of the caller, which are also the names of the formals, in three-   *)
(* bit coefficients; triangular loops in caller and callees, named alike and *)
(* apart; pointers passed on with other shapes, types and widths; and        *)
(* modules with every fault a call can have.  Reports count in four bits.   *)
EXTENDS CountedExpansion, TLC

MCNames == <<"i", "j", "m", "n">>

Form(c, k) == [exact |-> TRUE, constant |-> c,
               terms |-> [v \in Variables |-> IF v \in DOMAIN k THEN k[v] ELSE 0]]
Number(c) == Form(c, [v \in {} |-> 0])

Global(name) == <<"", name>>

Array(object, indices, shape, size) ==
    [type |-> "Array", object |-> object, indices |-> indices, shape |-> shape,
     elem_size |-> size, field_path |-> NoFieldPath]
Field(object, indices, path) ==
    [type |-> "Array", object |-> object, indices |-> indices, shape |-> NoShape,
     elem_size |-> NoSize, field_path |-> path]
Scalar(object) == [type |-> "Scalar", object |-> object, indices |-> <<>>, shape |-> NoShape,
                   elem_size |-> NoSize, field_path |-> NoFieldPath]
Open(var, start, bound) == [type |-> "Open", var |-> var, start |-> start, bound |-> bound]
Loop == Open("i", Number(0), Number(2))
Close == [type |-> "Close"]
Call(callee, args, objects) ==
    [type |-> "Call", callee |-> callee, args |-> args, arg_objects |-> objects,
     has_arg_objects |-> objects # <<>>]
Function(name, roles, params, body) ==
    [name |-> name, roles |-> roles, region |-> FALSE, params |-> params, body |-> body]

Data(shape, size, type) == [shape |-> shape, elem_size |-> size, elem_type |-> type]
Metadata(formal) ==
    [o \in {Global("A"), Global("B"), Formal("h", "n")} |->
        CASE o = Global("A") -> Data(<<4, 2>>, 4, "f32")
          [] o = Global("B") -> Data(<<2>>, NoSize, NoType)
          [] OTHER -> formal]

Module(functions, objects) ==
    [version_supported |-> TRUE, functions |-> functions, objects |-> objects]

Simple(functions) == Module(functions, Metadata(Data(<<9, 2>>, 4, NoType)))

\* f calls g(a, b, A) in a loop; g calls h with forms over its own m and n and a
\* pointer; h reads through it.
Chain(a, b, c, d, h_roles) ==
    Simple(<<
        Function("f", {"analyze"}, <<>>,
            <<Scalar(Global("B")), Loop, Call("g", <<a, b>>, <<NoObject, Global("A")>>), Close>>),
        Function("g", {"inline"}, <<"m", "n">>,
            <<Call("h", <<c, d>>, <<NoObject, Formal("g", "n")>>),
              Array(Formal("g", "n"), <<Form(0, [m |-> 1]), Form(1, [n |-> 1])>>,
                    NoShape, NoSize)>>),
        Function("h", h_roles, <<"m", "n">>,
            <<Array(Formal("h", "n"), <<Form(0, [m |-> -1, n |-> 2])>>, NoShape, NoSize),
              Array(Formal("h", "n"), <<Form(0, [n |-> 1]), Form(3, [m |-> 1])>>, NoShape, 4)>>)>>)

Outer == {Form(0, [i |-> 1]), Form(1, [i |-> 2]), Number(3), Form(-1, [n |-> 1]), Inexact}
Inner == {Form(0, [m |-> 1]), Form(0, [n |-> 1]), Form(0, [m |-> 1, n |-> 1]),
          Form(1, [n |-> -2])}

\* Loops of g and h, their variables x, y and z, in a loop of f over i; the arguments
\* may name the loop that a callee opens around them, and a bound may name a formal,
\* neither of which a producer lets happen.
Nest(a, b, x, y, z, bounds) ==
    Simple(<<
        Function("f", {"analyze"}, <<>>, <<Loop, Call("g", <<a>>, <<>>), Close>>),
        Function("g", {"inline"}, <<"m">>,
            <<Open(x, Number(0), Number(2)),
              Open(y, Form(1, (x :> 1)), Form(0, bounds)),
              Array(Global("A"), <<Form(1, (x :> 1) @@ ("m" :> 2)), Form(0, (y :> 1))>>,
                    NoShape, NoSize),
              Call("h", <<b>>, <<>>), Close, Close>>),
        Function("h", {"inline"}, <<"m">>,
            <<Open(z, Number(0), Number(3)),
              Array(Global("B"), <<Form(0, (z :> 1) @@ ("m" :> -1))>>, NoShape, NoSize),
              Close>>)>>)

Nests ==
    {Nest(a, b, x, y, z, IF over = "loop" THEN (x :> 2) ELSE [m |-> 1]) :
        a \in {Form(0, [i |-> 1]), Form(1, [n |-> 2]), Form(0, [j |-> 1])},
        b \in {Form(0, [m |-> 1]), Form(1, [j |-> 1, m |-> -1]), Form(0, [i |-> 1])},
        over \in {"loop", "formal"}, x \in {"i", "j"},
        y \in {"i", "j", "n"}, z \in {"i", "j", "n", "m"}}

\* Bindings: a row of the formal against a row of the actual.
Bound(shape, size, type, object, node) ==
    Module(<<Function("f", {"analyze"}, <<>>,
                 <<Call("h", <<Number(0), Number(2)>>, <<NoObject, object>>)>>),
             Function("h", {"inline"}, <<"m", "n">>,
                 <<Scalar(Formal("h", "n")), Loop, Loop, node, Close, Close>>)>>,
           Metadata(Data(shape, size, type)))

Bindings ==
    {Bound(shape, size, type, object, node) :
        shape \in {NoShape, <<2>>, <<3, 2>>, <<2, 3>>}, size \in {NoSize, 4, 8},
        type \in {NoType, "f32", "i32"}, object \in {Global("A"), Global("B"), Global("C")},
        node \in {Array(Formal("h", "n"), <<Form(0, [m |-> 1]), Form(0, [n |-> 1])>>,
                        NoShape, NoSize),
                  Array(Formal("h", "n"), <<Form(0, [n |-> 1])>>, <<7>>, 2),
                  Field(Formal("h", "n"), <<>>, 0),
                  Field(Formal("h", "n"), <<Form(0, [m |-> 1]), Form(0, [n |-> 1])>>, 2)}}

Callers(f_calls, g_calls, h_calls, roles) ==
    Simple(<<Function("f", {"analyze"}, <<>>, f_calls),
             Function("g", roles, <<>>, g_calls \o <<Scalar(Global("B"))>>),
             Function("h", roles, <<>>, <<Loop, Scalar(Global("B")), Close>> \o h_calls)>>)

To(callee) == <<Call(callee, <<>>, <<>>)>>
Some == {<<>>, To("f"), To("g"), To("h"), To("x"), To("g") \o To("h"), To("h") \o To("g")}

Graphs ==
    {Callers(a, b, c, roles) :
        a \in Some, b \in Some, c \in {<<>>, To("g"), To("f")}, roles \in {{"inline"}, {}}}

Empty(name, roles, region) ==
    [Function(name, roles, <<>>, <<>>) EXCEPT !.region = region]

Odd ==
    {Simple(<<Empty(a, roles, region), Empty(b, other, FALSE)>>) :
        a \in {"f", "g"}, b \in {"f", "region:f:APE_ANALYZE", ""},
        roles \in {{}, {"analyze"}, {"inline"}, {"analyze", "inline"}},
        other \in {{}, {"analyze"}}, region \in BOOLEAN}
    \cup {[Simple(<<Empty("f", {"analyze"}, FALSE)>>) EXCEPT !.version_supported = FALSE]}
    \cup {Callers(<<Call("g", args, objects)>>, <<>>, <<>>, {"inline"}) :
            args \in {<<>>, <<Number(1)>>}, objects \in {<<>>, <<NoObject>>}}

MCModules ==
    {Chain(a, b, c, d, roles) :
        a \in Outer, b \in Outer, c \in Inner, d \in Inner, roles \in {{"inline"}, {}}}
    \cup Nests \cup Bindings \cup Graphs \cup Odd

-----------------------------------------------------------------------------
Block(id, instructions, executions, sites) ==
    [id |-> id, instructions |-> instructions, executions |-> executions,
     call_opcodes |-> Len(sites), sites |-> sites]
Counted(name, roles, blocks) ==
    [name |-> name, roles |-> roles, version |-> 2, exact |-> TRUE, region |-> FALSE,
     blocks |-> blocks]
Sites(names) == [i \in DOMAIN names |-> [callee |-> names[i], inline |-> names[i] # "x"]]

Leaf(name, roles) == Counted(name, roles, <<Block(0, 2, 1, <<>>)>>)

\* Two roots over two inline functions, with their calls and executions.
Trees ==
    {<<Counted("f", roots, <<Block(0, 1, 1, Sites(a)), Block(1, 2, n, Sites(b))>>),
       Counted("g", {"inline"}, <<Block(0, 1, k, Sites(c))>>),
       Counted("h", {"inline"}, <<Block(0, 1, 2, Sites(d))>>),
       Leaf("k", roots)>> :
        roots \in {{"analyze"}, {}}, n \in {0, 2, 3}, k \in {1, 3},
        a \in {<<>>, <<"g">>, <<"x">>}, b \in {<<"g">>, <<"h">>, <<"g", "h">>},
        c \in {<<>>, <<"h">>, <<"g">>}, d \in {<<>>, <<"x">>, <<"g">>}}

OddCounts ==
    {<<[f EXCEPT !.version = version, !.exact = exact, !.region = region]>> :
        f \in {Leaf("f", {"analyze"}), Counted("f", {}, <<>>),
               Counted("f", {}, <<Block(0, 1, 1, Sites(<<"x">>))>>),
               Counted("f", {}, <<Block(0, 1, 1, <<>>), Block(0, 1, 1, <<>>)>>),
               Counted("f", {}, <<[Block(0, 1, 1, <<>>) EXCEPT !.call_opcodes = 1]>>)},
        version \in 1 .. 3, exact \in BOOLEAN, region \in BOOLEAN}
    \cup {<<Leaf("f", a), Leaf(n, b)>> :
            a \in SUBSET {"analyze", "inline"}, n \in {"f", "g"}, b \in SUBSET {"analyze"}}
    \cup {<<Counted("f", {}, <<Block(0, 1, 1, <<[callee |-> "g", inline |-> expand]>>)>>),
            Leaf("g", roles)>> : expand \in BOOLEAN, roles \in {{}, {"inline"}}}

MCReports == Trees \cup OddCounts

MCDocuments ==
    {[module |-> mod, report |-> <<Leaf("f", {"analyze"})>>] : mod \in MCModules}
    \cup {[module |-> Simple(<<Empty("f", {"analyze"}, FALSE)>>), report |-> rep] :
            rep \in MCReports}

MCNodeLimits == {4, 20}
MCDepthLimits == {1, 3}
=============================================================================
