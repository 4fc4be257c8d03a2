---------------------------- MODULE MCDoxyReader ----------------------------
(* Documents for DoxyReader: for every class, an element of that class.     *)
EXTENDS DoxyReader

\* Every attribute of class c, with a number for those read by int().
GoodAttrs(c) == [a \in Classes[c].strs \cup Classes[c].ints |->
                    IF a \in Classes[c].ints THEN "1" ELSE Markup]
BadAttrs(c) == [a \in Classes[c].ints |-> Bad]

Leaves == {TextNode("a"), TextNode(Markup), Node("#cdata", <<>>, Markup, <<>>),
           Node("#cdata", <<>>, "a", <<>>),
           Node("#comment", <<>>, "c", <<>>), Node("bold", <<>>, "", <<TextNode("b")>>)}

\* Elements of class c, called tag, with at most one child and depth d.
RECURSIVE Chains(_, _, _)
KidsOf(c, d) ==
    UNION {IF IsText(f) THEN {Node(f.name, <<>>, "", <<>>),
                              Node(f.name, <<>>, "", <<TextNode("a"), TextNode(Markup)>>),
                              Node(f.name, <<>>, "", <<Node("x", <<>>, "", <<>>)>>)}
           ELSE Chains(f.class, f.name, d) : f \in ToSet(AllFields(c))}
Chains(c, tag, d) ==
    {Node(tag, GoodAttrs(c), "", <<>>), Node(tag, BadAttrs(c), "", <<>>)} \cup
    IF d = 0 THEN {Node(tag, <<>>, "", <<TextNode("a")>>)}
    ELSE {Node(tag, <<>>, "", <<k>>) : k \in KidsOf(c, d - 1) \cup Leaves}

\* Two and three children of depth at most 1.
Pairs(c) ==
    LET kids == KidsOf(c, 0) \cup Leaves IN
    {Node("doc", GoodAttrs(c), "", <<k, l>>) : k \in kids, l \in kids}

\* Paragraphs of three parts in a description.
Paragraphs ==
    LET parts == {TextNode("a"), TextNode(Blank), Node("bold", <<>>, "", <<TextNode("b")>>),
                  Node("ref", <<>>, "", <<TextNode("r")>>),
                  Node("parameterlist", <<>>, "", <<>>)}
    IN  {Node("doc", <<>>, "", <<Node("para", <<>>, "", <<k, l, m>>), n>>) :
            k, l, m \in parts, n \in {TextNode("t"), Node("para", <<>>, "", <<TextNode("z")>>)}}

MCDocuments ==
    UNION {{[class |-> c, root |-> n] : n \in Chains(c, "doc", 3) \cup Pairs(c)} :
                c \in DOMAIN Classes}
    \cup {[class |-> "descriptionType", root |-> n] : n \in Paragraphs}

=============================================================================
