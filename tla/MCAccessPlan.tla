----------------------------- MODULE MCAccessPlan -----------------------------
(* Two-dimensional elements, structures with an array and a structure inside *)
(* and every way their metadata can be wrong, in five-bit words and four-bit *)
(* addresses; images with sections, segments, TLS and symbols of one name.   *)
EXTENDS AccessMeaning

A == <<"global", "A">>

Section(type, address, size, offset) ==
    [alloc |-> type # "debug", exec |-> type = "text", tls |-> type = "tls",
     nobits |-> type = "bss", write |-> type \in {"bss", "data"},
     address |-> address, size |-> size, offset |-> offset]
Symbol(name, section, address, size) ==
    [type |-> "OBJECT", name |-> name, section |-> section, address |-> address, size |-> size]
Header(type, address, file_size, memory_size, exec) ==
    [type |-> type, address |-> address, file_size |-> file_size, memory_size |-> memory_size,
     offset |-> 1, exec |-> exec, write |-> ~exec]

Linked(type, sections, syms) ==
    [type |-> type, sections |-> sections, headers |-> <<>>, symbols |-> syms, file_size |-> 8]
Stripped(headers) ==
    [type |-> "EXEC", sections |-> <<>>, headers |-> headers, symbols |-> <<>>, file_size |-> 8]

Data(base, size, type) ==
    Linked(type, <<Section("data", 2, 8, 1)>>, <<Symbol("A", 1, base, size)>>)

-----------------------------------------------------------------------------
Type(kind, elem_type, elem_size, shape) ==
    [kind |-> kind, elem_type |-> elem_type, elem_size |-> elem_size, shape |-> shape]
Member(index, name, offset, size, elem_type, elem_size, shape) ==
    [index |-> index, name |-> name, offset |-> offset, size |-> size, kind |-> "array",
     elem_type |-> elem_type, elem_size |-> elem_size, shape |-> shape]

\* struct p { short a[2]; char b; } and struct q { char c; struct p d; }
Structs ==
    [s \in {"p", "q"} |->
        IF s = "p" THEN [size |-> 5, fields |-> <<Member(0, "a", 0, 4, "", 2, <<2>>),
                                                 Member(1, "b", 4, 1, "", 1, <<>>)>>]
        ELSE [size |-> 6, fields |-> <<Member(0, "c", 0, 1, "", 1, <<>>),
                                      Member(1, "d", 1, 5, "p", 5, <<>>)>>]]

\* Copies of the structures that are wrong about a field.
Wrong == {[Structs EXCEPT !["p"].size = 4], [Structs EXCEPT !["p"].fields[1].size = 3],
          [Structs EXCEPT !["p"].fields[2].offset = 5],
          [Structs EXCEPT !["p"].fields[2].offset = -1],
          [Structs EXCEPT !["p"].fields[1].shape = <<0>>],
          [Structs EXCEPT !["p"].fields[1].name = "z"],
          [s \in {"q"} |-> Structs["q"]]}

Field_(index, name) == [kind |-> "field", index |-> index, name |-> name]
Index(value) == [kind |-> "index", value |-> value]

Input(object, type, op, indices, shape, elem_size, path, objects_, structs) ==
    [node |-> [object |-> object, type |-> type, op |-> op, indices |-> indices, shape |-> shape,
               elem_size |-> elem_size, access_path |-> path],
     objects |-> objects_, structs |-> structs]

Known(type) == [id \in {A} |-> type]

Elements ==
    {Input(A, "Array", "load", indices, shape, size, <<>>, Known(Type("array", "", 1, <<>>)),
           Structs) :
        indices \in {<<>>, <<"i">>, <<"i", "j">>},
        shape \in {<<>>, <<2>>, <<2, 2>>, <<9, 3>>, <<2, -1>>, <<2, 0>>}, size \in {-1, 0, 1, 2}}

Paths == {<<Field_(0, "a"), Index("i")>>, <<Field_(1, "b")>>, <<Index("i"), Field_(1, "b")>>,
          <<Index("i"), Field_(0, "a"), Index("j")>>, <<Index("j"), Field_(0, "a"), Index("i")>>,
          <<Field_(1, "d"), Field_(0, "a"), Index("i")>>, <<Field_(1, "d")>>,
          <<Field_(0, "a"), [Index("i") EXCEPT !.kind = "slice"]>>,
          <<Field_(0, "a")>>, <<Field_(2, "x")>>, <<Index("i"), Field_(1, "d"), Field_(1, "b")>>}

Structured ==
    {Input(A, "Array", "store", indices, <<>>, 1, path, Known(type), structs) :
        indices \in {<<>>, <<"i">>, <<"i", "j">>}, path \in Paths,
        type \in {Type("struct", "p", 5, <<>>), Type("array", "p", 5, <<2>>),
                  Type("struct", "q", 6, <<>>), Type("array", "q", 6, <<1>>)},
        structs \in {Structs}}
    \cup {Input(A, "Array", "store", <<"i">>, <<>>, 1, path, Known(type), structs) :
            path \in {<<Field_(0, "a"), Index("i")>>, <<Index("i"), Field_(1, "b")>>},
            type \in {Type("array", "p", 5, <<3>>), Type("array", "p", 5, <<7>>),
                      Type("struct", "p", 5, <<>>), Type("struct", "p", 0, <<>>),
                      Type("array", "p", 5, <<0>>)},
            structs \in Wrong \cup {Structs}}

Bare ==
    {Input(object, type, op, indices, <<>>, 1, <<>>, known, Structs) :
        object \in {A, <<"stack", "A">>}, type \in {"Scalar", "Array"},
        op \in {"missing", "load", "swap"}, indices \in {<<>>, <<"i">>},
        known \in {[id \in {} |-> 0]} \cup {Known(Type(kind, "", 1, <<>>)) :
                       kind \in {"", "scalar", "pointer", "union"}}}

Pointers == {Input(A, "Array", "load", <<>>, <<>>, 1, <<Field_(1, "b")>>,
                   Known(Type("pointer", "p", 5, <<>>)), Structs)}

MCAccesses == Elements \cup Structured \cup Bare \cup Pointers

-----------------------------------------------------------------------------
SomeSections ==
    {Section(type, address, size, 1) : type \in {"data", "bss", "text", "tls", "debug", "rodata"},
                                       address \in {2, 4}, size \in {0, 4}}

Sectioned ==
    {Linked(type, <<s, Section("data", 3, 2, 1)>>, <<a, b>>) :
        type \in {"EXEC", "REL"}, s \in SomeSections,
        a \in {Symbol(name, section, 4, 2) : name \in {"", "A", "B"}, section \in {0, 1}},
        b \in {Symbol("A", section, address, size) :
                  section \in {1, 2}, address \in {3, 4}, size \in {1, 2}}}

Segmented ==
    {Stripped(<<Header("LOAD", load, file, memory, FALSE), Header("TLS", tls, 0, size, FALSE),
                second>>) :
        load \in {0, 3}, file \in {0, 2, 4}, memory \in {2, 4, 7}, tls \in {0, 2, 4, 6},
        size \in {0, 1, 2, 5},
        second \in {Header("LOAD", 10, 2, 4, FALSE), Header("LOAD", 10, 2, 4, TRUE),
                    Header("TLS", 5, 2, 3, FALSE), Header("NOTE", 0, 9, 2, FALSE),
                    Header("LOAD", 10, 2, 9, FALSE), Header("LOAD", 2, 1, 13, FALSE),
                    [Header("LOAD", 0, 1, 15, FALSE) EXCEPT !.offset = 6]}}

OneAccess == Input(A, "Array", "load", <<"i">>, <<>>, 1, <<>>, Known(Type("array", "", 1, <<>>)),
                   Structs)

MCImages == Sectioned \cup Segmented
            \cup {Data(base, size, type) : base \in {2, 9}, size \in {1, 6, 12},
                                           type \in {"EXEC", "DYN"}}

MCIndices == {-2, -1, 0, 1, 2, 7, 8}

MCInit ==
    \E input \in {[access |-> a, image |-> Data(base, size, "EXEC")] :
                      a \in MCAccesses, base \in {2, 9}, size \in {1, 6, 12}}
                 \cup {[access |-> OneAccess, image |-> i] : i \in MCImages} :
        LinkStarts(input)

MCSpec == MCInit /\ [][LinkNext]_<<access_vars, elf_vars>>
=============================================================================
