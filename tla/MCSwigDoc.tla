----------------------------- MODULE MCSwigDoc -----------------------------
(* Directories for SwigDoc.  Most are variations of one with a class x, its *)
(* header x.h, a second header and one more compound.                       *)
EXTENDS SwigDoc

MCMakeNames == [w \in {"x", "c", "ns"} |-> IF w = "x" THEN "make_x" ELSE "make_other"]
MCHeaderOf == [w \in {"x", "c", "ns"} |-> IF w = "x" THEN "x.h" ELSE "other.h"]
MCHeaderNames == {<<"x.h">>, <<"y.h">>}
MCOperatorNames == {<<"x", "operator bool">>, <<"ns", "x", "operator bool">>}

Def(kind, n, doc) == [kind |-> kind, name |-> <<n>>, refid |-> None, doc |-> doc]
Compound(kind, n, refid) == [kind |-> kind, name |-> n, refid |-> refid]
File(state, doc, defs) ==
    [state |-> state, doc |-> doc, memberdefs |-> defs, groups |-> <<>>, classes |-> <<>>]

If(b, s) == IF b THEN s ELSE <<>>
Ctor == Def("function", "x", FALSE)
XClass(friend, ctor) ==
    If(friend, <<Def("friend", "make_x", FALSE)>>) \o
    If(ctor, <<Ctor, Ctor>>) \o
    <<Def("function", "operator bool", TRUE), Def("signal", "s", TRUE)>>

Others ==
    {[entry |-> Compound("class", <<"c">>, "C"), file |-> File("ok", TRUE, <<Def("function", "m", FALSE)>>)],
     [entry |-> Compound("class", <<"c">>, "C"), file |-> File("broken", TRUE, <<>>)],
     [entry |-> Compound("class", <<"ns", "x">>, "C"), file |-> File("ok", FALSE, XClass(TRUE, TRUE))],
     [entry |-> Compound("interface", <<"c">>, "C"), file |-> File("ok", TRUE, <<>>)],
     [entry |-> Compound("file", <<"x.cc">>, "C"), file |-> File("broken", TRUE, <<>>)],
     [entry |-> Compound("group", <<"c">>, "C"),
      file |-> [File("ok", TRUE, <<Def("function", "m", FALSE)>>) EXCEPT
                    !.groups = <<"G">>, !.classes = <<"X", "U">>]]}
SecondHeaders ==
    {[entry |-> Compound("file", <<n>>, "Y"), file |-> File("ok", TRUE, defs)] :
        n \in {"x.h", "y.h"},
        defs \in {<<>>, <<Def("function", "make_x", FALSE)>>,
                  <<Def("function", "f", FALSE), Def("variable", "v", TRUE)>>}}

Directory(x, xh, second, other) ==
    [index |-> <<Compound("class", <<"x">>, "X"), Compound("file", <<"x.h">>, "XH"),
                 second.entry, other.entry>>,
     files |-> [X |-> x, XH |-> xh, Y |-> second.file, C |-> other.file,
                G |-> File("ok", TRUE, <<>>)]]

Variations(docs, seconds, others) ==
    {Directory(File(sx, d[1], XClass(friend, ctor)),
               File(sh, d[2], If(make, <<Def("function", "make_x", d[3])>>)
                              \o <<Def("function", "f", TRUE), Def("function", "f", FALSE)>>),
               second, other) :
        sx \in {"ok", "broken", "raises"}, friend, ctor, make \in BOOLEAN,
        sh \in {"ok", "broken"}, d \in docs, second \in seconds, other \in others}

\* A group with a struct, an interface and a class among its classes; the index
\* names the group first, then the interface, at which its reading ends, or not.
Structs ==
    {[index |-> <<Compound("group", <<"c">>, "C")>>
                \o If(fatal, <<Compound("interface", <<"ns">>, "I")>>)
                \o <<Compound("struct", <<"x">>, "S"), Compound("class", <<"x">>, "X")>>,
      files |-> [C |-> [File("ok", TRUE, <<Def("function", "m", FALSE)>>) EXCEPT
                            !.classes = <<"S", "I", "X">>],
                 S |-> File("ok", TRUE, XClass(TRUE, FALSE)),
                 I |-> File(si, TRUE, XClass(FALSE, TRUE)),
                 X |-> File("ok", TRUE, XClass(TRUE, TRUE))]] :
        fatal \in BOOLEAN, si \in {"ok", "broken"}}

MCCorpora ==
    Structs
    \cup Variations({<<TRUE, TRUE, TRUE>>}, SecondHeaders, Others)
    \cup Variations(BOOLEAN \X BOOLEAN \X BOOLEAN,
                    {s \in SecondHeaders : s.file.memberdefs = <<>> /\ s.entry.name = <<"y.h">>},
                    {o \in Others : o.entry.kind = "group"})

\* The last, and four of the others: the files of class x and of its header can
\* be used or not.
MCExplored ==
    Structs
    \cup {Directory(File(sx, TRUE, XClass(TRUE, TRUE)),
               File(sh, TRUE, <<Def("function", "make_x", TRUE), Def("function", "f", TRUE),
                                Def("function", "f", FALSE)>>),
               [entry |-> Compound("file", <<"y.h">>, "Y"), file |-> File("ok", TRUE, <<>>)],
               other) :
        sx \in {"ok", "raises"}, sh \in {"ok", "broken"},
        other \in {o \in Others : o.entry.kind = "group"}}

=============================================================================
