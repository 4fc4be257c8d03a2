----------------------------- MODULE DoxyReader -----------------------------
(***************************************************************************)
(* What happens to one XML document of doxygen in the documentation        *)
(* generator: build (compound.py parse, the build methods) turns it into   *)
(* objects, text.py extracts the text of a description from them, export   *)
(* writes them out again as XML, and exportLiteral as Python source.       *)
(*                                                                         *)
(* A document is a tree of nodes [tag, attrs, text, kids]; the tags #text, *)
(* #cdata and #comment are minidom's other kinds of node.  Texts are       *)
(* atoms: Markup stands for a text with one of & < >, Quoted for the text  *)
(* that quoting it once too often gives, Blank for white space, Repr for   *)
(* what Python prints for an object, Bad for a text int() refuses.         *)
(* Text that is not ASCII, and so the encode calls, are not modelled.      *)
(***************************************************************************)
EXTENDS DoxyClasses, SequencesExt

CONSTANT Documents      \* the documents read: [class, root], root a node

ASSUME DocumentsAssumption ==
    \A d \in Documents : d.class \in DOMAIN Classes

VARIABLES document, phase, object, docstring, output, reread, literal

vars == <<document, phase, object, docstring, output, reread, literal>>

-----------------------------------------------------------------------------
(* Documents.                                                              *)

Markup == "&"
Quoted == "&amp;"
Blank  == " "
Repr   == "<object>"
Bad    == "bad"
Break  == "\n\n"
None   == "None"
Nothing == <<>>

Node(tag, attrs, text, kids) ==
    [tag |-> tag, attrs |-> attrs, text |-> text, kids |-> kids]
TextNode(t) == Node("#text", <<>>, t, <<>>)
IsElement(n) == n.tag \notin {"#text", "#cdata", "#comment"}

KidsNamed(n, f) == SelectSeq(n.kids, LAMBDA k : k.tag = f)
NodeValues(n) == [i \in DOMAIN n.kids |-> n.kids[i].text]

-----------------------------------------------------------------------------
(* Wrong variants, each a plausible bug in the definition it is named for. *)

ContentsOfSuperclass(o) == o.content

ExportPieceAsText(p) == TextNode(p.text)

\* Lists are not looked at.
HasContentWithoutLists(o) ==
    \E i \in DOMAIN Classes[o.class].fields :
        /\ Classes[o.class].fields[i].form \notin {"many", "texts"}
        /\ o.fields[i] # <<>>

-----------------------------------------------------------------------------
(* build, buildAttributes, buildChildren.                                  *)

AllFields(c) == Classes[c].fields \o Classes[c].own
FieldNames(c) == {AllFields(c)[i].name : i \in DOMAIN AllFields(c)}
FieldOf(c, f) == SelectSeq(AllFields(c), LAMBDA g : g.name = f)[1]
IsText(f) == f.form \in {"text", "texts"}

\* build raises an exception: int() refuses an attribute (ValueError), or an
\* element that holds an element is read as a text, whose nodeValue is None
\* (TypeError).  Elements the class does not know are passed over whole.
RECURSIVE Raises(_, _)
Raises(c, n) ==
    \/ \E a \in DOMAIN n.attrs \cap Classes[c].ints : n.attrs[a] = Bad
    \/ \E i \in DOMAIN n.kids :
          LET k == n.kids[i] IN
          /\ k.tag \in FieldNames(c)
          /\ LET f == FieldOf(c, k.tag) IN
             IF IsText(f) THEN \E j \in DOMAIN k.kids : IsElement(k.kids[j])
                          ELSE Raises(f.class, k)

\* valueOf_: text, and CDATA sections between ![CDATA[ and ]].
Pieces(n) ==
    LET kept == SelectSeq(n.kids, LAMBDA k : k.tag \in {"#text", "#cdata"})
    IN  [i \in DOMAIN kept |->
            [cdata |-> kept[i].tag = "#cdata", text |-> kept[i].text]]

\* An item of mixed content: MixedContainer(category, type, name, value).
Item(category, f, text, obj) ==
    [category |-> category, name |-> f, text |-> text, object |-> obj]

\* What set_f leaves of the elements f: each call replaces the one before.
Stored(kept) == IF kept = <<>> THEN <<>> ELSE <<Last(kept)>>

\* The object built from element n as an instance of class c, n being one
\* that raises nothing.
RECURSIVE Build(_, _)
Build(c, n) ==
    LET cl == Classes[c]
        Items(fs) ==
            LET known == {fs[i].name : i \in DOMAIN fs}
                kept == SelectSeq(n.kids,
                                  LAMBDA k : k.tag \in known \cup {"#text"})
                ItemOf(k) ==
                    IF k.tag = "#text" THEN Item("text", "", <<k.text>>, Nothing)
                    ELSE LET f == FieldOf(c, k.tag) IN
                         IF IsText(f)
                         THEN Item("simple", f.name, NodeValues(k), Nothing)
                         ELSE Item("complex", f.name, <<>>, Build(f.class, k))
            IN  [i \in DOMAIN kept |-> ItemOf(kept[i])]
        Value_(f) ==
            LET kept == KidsNamed(n, f.name) IN
            CASE f.form = "texts" -> [i \in DOMAIN kept |-> NodeValues(kept[i])]
              [] f.form = "many" -> [i \in DOMAIN kept |-> Build(f.class, kept[i])]
              [] f.form = "text" -> IF kept = <<>> THEN <<>> ELSE NodeValues(Last(kept))
              [] OTHER -> [i \in DOMAIN Stored(kept) |-> Build(f.class, Stored(kept)[i])]
    IN  [class |-> c,
         attrs |-> [a \in DOMAIN n.attrs \cap (cl.strs \cup cl.ints) |-> n.attrs[a]],
         fields |-> IF cl.form = "mixed" THEN <<>>
                    ELSE [i \in DOMAIN cl.fields |-> Value_(cl.fields[i])],
         value |-> IF cl.form \in {"value", "mixedvalue"} THEN Pieces(n) ELSE <<>>,
         content |-> CASE cl.form = "mixed" -> Items(cl.fields)
                       [] cl.form = "mixedvalue" -> Items(<<>>)
                       [] OTHER -> <<>>,
         own |-> IF cl.own = <<>> THEN <<>> ELSE Items(cl.own)]

-----------------------------------------------------------------------------
(* text.py: description_bit and description.                               *)

\* hasattr(obj, 'content') or hasattr(obj, 'content_')
HasContents(o) == Classes[o.class].form \in {"mixed", "mixedvalue"}

Contents(o) == IF Classes[o.class].own # <<>> THEN o.own ELSE o.content

RECURSIVE description_bit(_)
description_bit(o) ==
    LET items == Contents(o)
        Bit(i) == (IF i.category = "complex" THEN description_bit(i.object) ELSE i.text)
                  \o (IF i.name = "para" THEN <<Break>> ELSE <<>>)
    IN  FlattenSeq([i \in DOMAIN items |-> Bit(items[i])])

Strip(s) ==
    LET kept == {i \in DOMAIN s : s[i] \notin {Blank, Break}}
    IN  IF kept = {} THEN <<>>
        ELSE SubSeq(s, CHOOSE i \in kept : \A j \in kept : i <= j,
                       CHOOSE i \in kept : \A j \in kept : i >= j)

description(o) == Strip(description_bit(o))

-----------------------------------------------------------------------------
(* export, exportAttributes, exportChildren and MixedContainer.export.     *)

TextElement(tag, texts) == Node(tag, <<>>, "", [i \in DOMAIN texts |-> TextNode(texts[i])])

\* valueOf_ is quoted as a whole; a CDATA section is then written around text
\* that has been quoted although nothing unquotes it when it is read.
ExportPiece(p) ==
    IF p.cdata THEN Node("#cdata", <<>>, IF p.text = Markup THEN Quoted ELSE p.text, <<>>)
               ELSE TextNode(p.text)
Pad(kids) == <<TextNode(Blank)>> \o kids \o <<TextNode(Blank)>>

RECURSIVE Export(_, _)
Export(o, tag) ==
    LET cl == Classes[o.class]
        pieces == [i \in DOMAIN o.value |-> ExportPiece(o.value[i])]
        ExportItem(i) ==
            CASE i.category = "text" -> <<TextNode(i.text[1])>>
              [] i.category = "simple" -> <<TextElement(i.name, i.text)>>
              [] OTHER -> Pad(<<Export(i.object, i.name)>>)
        ExportField(f, v) ==
            CASE f.form = "text" -> <<TextElement(f.name, v)>>
              [] f.form = "texts" -> [i \in DOMAIN v |-> TextElement(f.name, v[i])]
              [] f.form = "repr" ->
                    <<TextElement(f.name, IF v = <<>> THEN <<>> ELSE <<Repr>>)>>
              [] OTHER -> [i \in DOMAIN v |-> Export(v[i], f.name)]
        attrs == [a \in DOMAIN o.attrs \cup cl.required |->
                    IF a \in DOMAIN o.attrs THEN o.attrs[a] ELSE None]
        kids == CASE cl.form = "value" -> Pad(pieces)
                  [] cl.form = "mixedvalue" -> pieces
                  [] cl.form = "mixed" ->
                        FlattenSeq([i \in DOMAIN o.content |-> ExportItem(o.content[i])])
                  [] OTHER -> FlattenSeq([i \in DOMAIN cl.fields |->
                                            ExportField(cl.fields[i], o.fields[i])])
    IN  Node(tag, attrs, "", kids)

\* The objects that export and exportLiteral descend into from o.
Parts(o) ==
    LET cl == Classes[o.class] IN
    CASE cl.form = "mixed" ->
            {o.content[i].object : i \in {j \in DOMAIN o.content :
                                            o.content[j].category = "complex"}}
      [] cl.form = "fields" ->
            UNION {ToSet(o.fields[i]) : i \in {j \in DOMAIN cl.fields :
                                            cl.fields[j].form \in {"one", "many", "repr"}}}
      [] OTHER -> {}

\* What is written is no XML: MixedContainer writes texts as they are, so
\* Markup in mixed content reaches the output unquoted.
RECURSIVE Malformed(_)
Malformed(o) ==
    \/ /\ Classes[o.class].form = "mixed"
       /\ \E i \in DOMAIN o.content : Markup \in ToSet(o.content[i].text)
    \/ \E p \in Parts(o) : Malformed(p)

-----------------------------------------------------------------------------
(* hasContent_ and exportLiteral, whose only outcome kept is whether they  *)
(* raise.  hasContent_ of a mixed class reads the fields of its elements,  *)
(* which neither its constructor nor build ever sets.                      *)

HasContentRaises(o) == Classes[o.class].form = "mixed"

\* Subclasses give every text field the initial value '', which is not None.
HasContent(o) ==
    LET cl == Classes[o.class] IN
    \/ cl.form \in {"value", "mixedvalue"}
    \/ \E i \in DOMAIN cl.fields :
          cl.fields[i].form # "one" \/ o.fields[i] # <<>>

RECURSIVE LiteralRaises(_)
LiteralRaises(o) ==
    \/ HasContentRaises(o)
    \/ /\ HasContent(o)
       /\ \E p \in Parts(o) : LiteralRaises(p)

-----------------------------------------------------------------------------
(* The steps: the document is read, and from the objects its text may be   *)
(* extracted, an XML file written and read back, a Python file written.    *)

Init ==
    /\ document \in Documents
    /\ phase = "reading"
    /\ object = Nothing /\ docstring = Nothing /\ output = Nothing
    /\ reread = Nothing /\ literal = ""

\* compound.py parse: an exception ends it with no object.
Parse ==
    /\ phase = "reading"
    /\ IF Raises(document.class, document.root)
       THEN phase' = "raised" /\ UNCHANGED object
       ELSE phase' = "parsed" /\ object' = Build(document.class, document.root)
    /\ UNCHANGED <<document, docstring, output, reread, literal>>

Describe ==
    /\ phase = "parsed" /\ HasContents(object)
    /\ docstring' = description(object)
    /\ phase' = "described"
    /\ UNCHANGED <<document, object, output, reread, literal>>

ExportObject ==
    /\ phase = "parsed"
    /\ IF Malformed(object) THEN phase' = "malformed" /\ UNCHANGED output
       ELSE phase' = "exported" /\ output' = Export(object, document.root.tag)
    /\ UNCHANGED <<document, object, docstring, reread, literal>>

ParseAgain ==
    /\ phase = "exported"
    /\ reread' = Build(document.class, output)
    /\ phase' = "reread"
    /\ UNCHANGED <<document, object, docstring, output, literal>>

ExportLiteral ==
    /\ phase = "parsed"
    /\ literal' = IF LiteralRaises(object) THEN "raised" ELSE "written"
    /\ phase' = "literal"
    /\ UNCHANGED <<document, object, docstring, output, reread>>

Next == Parse \/ Describe \/ ExportObject \/ ParseAgain \/ ExportLiteral

Spec == Init /\ [][Next]_vars

-----------------------------------------------------------------------------
(* Properties.                                                             *)

\* The text of the document that a reader of the description expects: that of
\* the elements doxyxml knows, in document order, each text once, a break
\* after a paragraph.
RECURSIVE KeptText(_, _)
KeptText(c, n) ==
    LET Kept(k) ==
            CASE k.tag = "#text" -> <<k.text>>
              [] c = "docParaType" ->
                    IF k.tag = "ref" THEN KeptText("docRefTextType", k) ELSE <<>>
              [] Classes[c].form = "mixed" /\ k.tag \in FieldNames(c) ->
                    (IF IsText(FieldOf(c, k.tag)) THEN NodeValues(k)
                     ELSE KeptText(FieldOf(c, k.tag).class, k))
                    \o (IF k.tag = "para" THEN <<Break>> ELSE <<>>)
              [] OTHER -> <<>>
    IN  FlattenSeq([i \in DOMAIN n.kids |-> Kept(n.kids[i])])

\* description (text.py) gives the text of the document in document order,
\* each text once, although a paragraph holds its texts three times (valueOf_,
\* content_ and content) and a MixedContainer may wrap an object or a text.
DescriptionInOrder ==
    phase = "described" =>
        docstring = Strip(KeptText(document.class, document.root))

\* An object as far as export writes it: white space, the title of a compound
\* (written as Repr) and the lists of docParaTypeSub are left out.
RECURSIVE Exported(_)
Exported(o) ==
    LET cl == Classes[o.class]
        Solid(s, blank) == SelectSeq(s, LAMBDA x : x.text # blank)
        Value_(f, v) ==
            CASE IsText(f) -> v
              [] f.form = "repr" -> <<>>
              [] OTHER -> [i \in DOMAIN v |-> Exported(v[i])]
        Item_(i) == IF i.category = "complex"
                    THEN [i EXCEPT !.object = Exported(i.object)] ELSE i
    IN  [class |-> o.class,
         attrs |-> o.attrs,
         fields |-> IF cl.form # "fields" THEN <<>>
                    ELSE [i \in DOMAIN cl.fields |-> Value_(cl.fields[i], o.fields[i])],
         value |-> Solid(o.value, Blank),
         content |-> LET kept == Solid(o.content, <<Blank>>) IN
                     IF cl.form = "mixed" THEN [i \in DOMAIN kept |-> Item_(kept[i])]
                     ELSE <<>>]

\* The two cases in which export is known to change what it writes: a required
\* attribute that is missing is written as "None", and quoting a CDATA section.
RECURSIVE Changed(_)
Changed(o) ==
    \/ ~ Classes[o.class].required \subseteq DOMAIN o.attrs
    \/ \E i \in DOMAIN o.value : o.value[i].cdata /\ o.value[i].text = Markup
    \/ \E p \in Parts(o) : Changed(p)

\* Reading what export wrote raises nothing and gives the objects export
\* started from, whatever the order of the document's elements was, except in
\* the cases named by Changed.
RoundTrip ==
    /\ phase = "exported" => ~ Raises(document.class, output)
    /\ phase = "reread" /\ ~ Changed(object) => Exported(reread) = Exported(object)

RECURSIVE Reachable(_)
Reachable(o) == {o.class} \cup UNION {Reachable(p) : p \in Parts(o)}

\* exportLiteral writes a document unless a class with mixed content is in it;
\* then it always raises, because hasContent_ reads a field that was never set.
LiteralRaisesOnMixed ==
    /\ literal = "raised" => \E c \in Reachable(object) : Classes[c].form = "mixed"
    /\ literal = "written" => \A c \in Reachable(object) : Classes[c].form # "mixed"

=============================================================================
