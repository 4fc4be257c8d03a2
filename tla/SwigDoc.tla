------------------------------ MODULE SwigDoc ------------------------------
(***************************************************************************)
(* make_swig_interface_file (swig_doc.py): it walks the blocks, the        *)
(* functions and the classes of a DoxyIndex and writes one file with their *)
(* docstrings.  A step is one turn of one of its three loops; what the     *)
(* turn looks up goes through the objects of DoxyIndex, reads files and    *)
(* fills caches.  The program's main calls it on a new DoxyIndex; here     *)
(* other calls may have been made on it before.                            *)
(*                                                                         *)
(* The file is a sequence of entries [name, docs], docs being the objects  *)
(* whose descriptions the docstring joins.                                 *)
(***************************************************************************)
EXTENDS DoxyIndex

CONSTANTS
    HeaderOf,       \* the name of the header of a class, on the last word
    OperatorNames   \* the names with "operator " in them

\* Doxygen gives one compound to a class, whose name is that of no operator.
NamesApart(d) ==
    LET classes == {i \in DOMAIN d.index : d.index[i].kind = "class"} IN
    /\ \A i, j \in classes : d.index[i].name = d.index[j].name => i = j
    /\ \A i \in classes : d.index[i].name \notin OperatorNames

ASSUME NamesAssumption == \A d \in Corpora : NamesApart(d)

VARIABLES
    phase,      \* the loop the program is in
    blocks,     \* the blocks found
    todo,       \* the objects the loop has yet to visit
    makeFuncs,  \* the names of the make functions met
    output,     \* the entries made
    reports     \* the objects a parsing error was printed for

swigVars == <<phase, blocks, todo, makeFuncs, output, reports>>
vars == <<doxyVars, swigVars>>

Entry(n, docs) == [name |-> n, docs |-> docs]

-----------------------------------------------------------------------------
(* Wrong variants, each a plausible bug in the definition it is named for. *)

NotMadeForgotten(h, f) == TRUE

\* A docstring is taken to be there although both descriptions are empty.
CombineDescriptionsAlways(h, o) ==
    Then(Data(h, o), LAMBDA g : Answer(g, <<o>>))

\* An exception of any kind is taken for a parsing error.
HandledAll(h) == ~ Ok(h)

WithoutFileDocs(h, block, docs) == Answer(h, docs)

\* An object with a parsing error is visited again.
AdvanceUnlessReported(h) == IF Ok(h) THEN Tail(todo) ELSE todo

-----------------------------------------------------------------------------
(* Entries.  These operators give the entries made as the result.          *)

\* combine_descriptions.
CombineDescriptions(h, o) ==
    Then(Data(h, o), LAMBDA g : Answer(g, IF g.result THEN <<o>> ELSE <<>>))

\* make_entry: none for an operator.
MakeEntry(h, n, docs) ==
    Answer(h, IF n \in OperatorNames THEN <<>> ELSE <<Entry(n, docs)>>)

\* make_func_entry: there is always a docstring, with the parameters.
MakeFuncEntry(h, f, n) ==
    Then(CombineDescriptions(h, f), LAMBDA g : MakeEntry(g, n, g.result))

\* The entry of a function of class k, after the entries in h.result.
AddFunction(h, k, f) ==
    Then(Name(h, f), LAMBDA x :
        Then(MakeFuncEntry(x, f, Object(x, k).data.name \o x.result), LAMBDA g :
            Answer(g, h.result \o g.result)))

\* make_class_entry, of a class k and with docs for its description: no entry
\* for the class when they are empty.
MakeClassEntry(h, k, docs) ==
    LET own == IF docs = <<>> THEN <<>> ELSE <<Entry(Object(h, k).data.name, docs)>>
    IN  Then(Name(h, k), LAMBDA x :
            Then(InCategory(x, k, "DoxyFunction"), LAMBDA g :
                ForEach(Answer(g, own), g.result, LAMBDA y, f : AddFunction(y, k, f))))

make_header_name(n) == [n EXCEPT ![Len(n)] = HeaderOf[@]]

\* The description of the file of a block, added to docs; no file is no error.
DocsOfFound(h, docs) ==
    IF h.raised = "NoSuchMember" THEN Answer([h EXCEPT !.raised = None], docs)
    ELSE Then(h, LAMBDA g : Then(CombineDescriptions(g, g.result), LAMBDA x :
            Answer(x, docs \o x.result)))

WithFileDocs(h, block, docs) ==
    DocsOfFound(GetMember(h, Index, make_header_name(Object(h, block).data.name),
                          "DoxyFile"),
                docs)

BlockDocs(h, block, make) ==
    Then(CombineDescriptions(h, block), LAMBDA x :
        Then(CombineDescriptions(x, make), LAMBDA y :
            WithFileDocs(y, block, x.result \o y.result)))

\* make_block_entry, with the make function found by the caller.
MakeBlockEntry(h, block, make) ==
    Then(BlockDocs(h, block, make), LAMBDA w :
        Then(MakeClassEntry(w, block, w.result), LAMBDA x :
            Then(GetMember(x, block, Object(x, block).data.name, "DoxyFunction"),
                LAMBDA y : Then(MakeEntry(y, Object(y, make).data.name, w.result),
                    LAMBDA z : Answer(z, x.result \o z.result)))))

-----------------------------------------------------------------------------
(* The program.                                                            *)

Init ==
    /\ DoxyInit
    /\ phase = "open"
    /\ blocks = <<>> /\ todo = <<>> /\ output = <<>>
    /\ makeFuncs = {} /\ reports = {}

Called == Fresh(heap)

Explore == phase = "open" /\ UserCall /\ UNCHANGED swigVars

Abort(h) ==
    /\ ~ Ok(h)
    /\ heap' = Settled(h) /\ phase' = "aborted"
    /\ UNCHANGED <<corpus, calls, blocks, todo, makeFuncs, output, reports>>

\* The exceptions a loop catches and prints.
Handled(h) == h.raised = "ParsingError"

Advance(h) == Tail(todo)

\* One turn of a loop, which ended in heap h.
Turn(h) ==
    /\ Ok(h) \/ Handled(h)
    /\ heap' = Settled(h)
    /\ todo' = Advance(h)
    /\ IF Ok(h) THEN output' = output \o h.result /\ UNCHANGED reports
       ELSE reports' = reports \cup {Head(todo)} /\ UNCHANGED output
    /\ UNCHANGED <<corpus, calls, phase, blocks>>

\* blocks = di.in_category(Block).
FindBlocks ==
    /\ phase = "open"
    /\ \E h \in {InCategory(Called, Index, "Block")} :
          \/ Abort(h)
          \/ /\ Ok(h)
             /\ heap' = Settled(h) /\ phase' = "blocks"
             /\ blocks' = h.result /\ todo' = h.result
             /\ UNCHANGED <<corpus, calls, makeFuncs, output, reports>>

\* The make function is taken note of before the entry is made.
BlockEntry ==
    LET block == Head(todo)
        makeName == make_name(Object(heap, block).data.name)
        Made(make) == Object(make, make.result).data.name
    IN  /\ phase = "blocks" /\ todo # <<>>
        /\ \E make \in {GetMember(Called, Index, makeName, "DoxyFunction")} :
           \E h \in {Then(make, LAMBDA g : MakeBlockEntry(g, block, g.result))} :
              \/ Abort(h) /\ ~ Handled(h)
              \/ /\ Turn(h)
                 /\ makeFuncs' = makeFuncs \cup (IF Ok(make) THEN {Made(make)} ELSE {})

\* The functions that are no make functions.
NotMade(h, f) == Object(h, f).data.name \notin makeFuncs

FindFunctions ==
    /\ phase = "blocks" /\ todo = <<>>
    /\ phase' = "functions"
    /\ \E h \in {InCategory(Called, Index, "DoxyFunction")} :
          /\ heap' = Settled(h)
          /\ todo' = Chosen(h.result, {i \in DOMAIN h.result : NotMade(h, h.result[i])})
    /\ UNCHANGED <<corpus, calls, blocks, makeFuncs, output, reports>>

FunctionEntry ==
    LET f == Head(todo) IN
    /\ phase = "functions" /\ todo # <<>>
    /\ \E h \in {MakeFuncEntry(Called, f, Object(heap, f).data.name)} : Turn(h)
    /\ UNCHANGED makeFuncs

\* The classes that have not the name of a block.
FindClasses ==
    LET blockNames == {Object(heap, blocks[i]).data.name : i \in DOMAIN blocks}
        IsOther(h, k) == Object(h, k).data.name \notin blockNames
    IN
    /\ phase = "functions" /\ todo = <<>>
    /\ phase' = "classes"
    /\ \E h \in {InCategory(Called, Index, "DoxyClass")} :
          /\ heap' = Settled(h)
          /\ todo' = Chosen(h.result, {i \in DOMAIN h.result : IsOther(h, h.result[i])})
    /\ UNCHANGED <<corpus, calls, blocks, makeFuncs, output, reports>>

ClassEntry ==
    LET k == Head(todo) IN
    /\ phase = "classes" /\ todo # <<>>
    /\ \E h \in {Then(CombineDescriptions(Called, k),
                    LAMBDA g : MakeClassEntry(g, k, g.result))} :
          \/ Abort(h) /\ ~ Handled(h)
          \/ Turn(h) /\ UNCHANGED makeFuncs

Write ==
    /\ phase = "classes" /\ todo = <<>>
    /\ phase' = "written"
    /\ UNCHANGED <<corpus, heap, calls, blocks, todo, makeFuncs, output, reports>>

Generate == FindBlocks \/ BlockEntry \/ FindFunctions \/ FunctionEntry
            \/ FindClasses \/ ClassEntry \/ Write

Next == Explore \/ Generate

\* The program does not wait for anything once it runs.
Spec == Init /\ [][Next]_vars /\ WF_vars(Generate)

-----------------------------------------------------------------------------
(* Properties.                                                             *)

\* Type invariant.
TypeOK ==
    /\ DoxyTypeOK
    /\ phase \in {"open", "blocks", "functions", "classes", "written", "aborted"}
    /\ ToSet(blocks) \cup ToSet(todo) \cup reports \subseteq DOMAIN heap.objects
    /\ \A i \in DOMAIN output : ToSet(output[i].docs) \subseteq DOMAIN heap.objects

\* The objects are well formed: of their types, one per refid, and in error
\* just when their file is broken XML.
ObjectsWellFormed == TypeOK /\ OneObjectPerRefid /\ ErrorIffBroken

\* The compounds of a kind.
OfKind(d, k) == {i \in DOMAIN d.index : d.index[i].kind = k}
StateOf(d, i) == FileState(d, d.index[i].refid)
HeadersWith(d, n) ==
    {i \in OfKind(d, "file") : /\ d.index[i].name \in HeaderNames
                               /\ n \in Kept(d, d.index[i].refid, "function")}
BlocksOf(d) ==
    {i \in OfKind(d, "class") :
        /\ StateOf(d, i) = "ok" /\ Len(d.index[i].name) = 1
        /\ make_name(d.index[i].name) \in Kept(d, d.index[i].refid, "friend")}
HeadersOf(d, i) ==
    {j \in OfKind(d, "file") : /\ d.index[j].name \in HeaderNames
                               /\ d.index[j].name = make_header_name(d.index[i].name)}

\* The directories the program cannot make a file from.
Unusable(d) ==
    \/ \E i \in DOMAIN d.index : Fatal(d, d.index[i])
    \/ \E i \in OfKind(d, "class") : StateOf(d, i) = "raises"
    \/ \E i \in BlocksOf(d) :
          \/ Cardinality(HeadersWith(d, make_name(d.index[i].name))) # 1
          \/ Cardinality(HeadersOf(d, i)) > 1
          \/ d.index[i].name \notin Kept(d, d.index[i].refid, "function")

\* The program (run on a new DoxyIndex) ends with an exception, and writes
\* nothing, just when a header cannot be parsed or a file raises, the index
\* has a compound of unknown kind, or a block lacks its constructor or its
\* make function or has two of them or two headers.  A class with broken XML
\* is no such case, a header with broken XML is.
AbortsOnlyIfUnusable ==
    calls = 0 => /\ phase = "aborted" => Unusable(corpus)
                 /\ phase = "written" => ~ Unusable(corpus)

\* The names that ought to have a docstring: those of the classes that can be
\* read, if they are described, and of their methods, and of the functions of
\* the headers.
MethodsOf(d, i) == {d.index[i].name \o n : n \in Kept(d, d.index[i].refid, "function")}
NamesOfClass(d, i) ==
    MethodsOf(d, i) \cup (IF d.files[d.index[i].refid].doc THEN {d.index[i].name} ELSE {})
HeaderFunctions(d) ==
    LET headers == {i \in OfKind(d, "file") : d.index[i].name \in HeaderNames}
    IN  UNION {Kept(d, d.index[i].refid, "function") : i \in headers}
Documented(d) ==
    LET readable == {i \in OfKind(d, "class") : StateOf(d, i) = "ok"}
    IN  (HeaderFunctions(d) \cup UNION {NamesOfClass(d, i) : i \in readable}) \ OperatorNames

\* Everything is accounted for in a file that is written: every class and
\* every method and function has its docstring, found by the block loop or by
\* one of the other two, and every class with broken XML has been reported.
\* (A class may have one in addition, from the description of its block.)
AllAccountedFor ==
    phase = "written" /\ calls = 0 =>
        LET names == {output[i].name : i \in DOMAIN output}
            broken == {i \in OfKind(corpus, "class") : StateOf(corpus, i) = "broken"}
        IN  /\ Documented(corpus) \subseteq names
            /\ names \subseteq Documented(corpus)
                               \cup {corpus.index[i].name : i \in BlocksOf(corpus)}
            /\ {Object(heap, o).refid : o \in reports}
                   = {corpus.index[i].refid : i \in broken}

\* SWIG keeps one docstring per name: no name has two entries, unless two
\* headers define it.  Above all a make function, which the block loop and the
\* function loop both come across, has one.
NoEntryTwice ==
    \A i, j \in DOMAIN output :
        i # j /\ output[i].name = output[j].name =>
            Cardinality(HeadersWith(corpus, output[i].name)) > 1

\* A block and its make function have the same docstring: the descriptions of
\* the class, of the make function and of the file, those that are there.
BlockDocsComplete ==
    phase = "written" => \A b \in ToSet(blocks) :
        LET n == Object(heap, b).data.name
            Docs(m) == {output[i].docs : i \in {j \in DOMAIN output : output[j].name = m}}
            Described_(o) == Object(heap, o).described /\
                (IF Object(heap, o).cls = "DoxyFunction" THEN Object(heap, o).data.doc
                 ELSE corpus.files[Object(heap, o).refid].doc)
            makes == {o \in ToSet(Object(heap, Index).members) \ {NoObject} :
                        Object(heap, o).data.name = make_name(n)}
            files == {o \in ToSet(Object(heap, Index).members) \ {NoObject} :
                        /\ Object(heap, o).cls = "DoxyFile"
                        /\ Object(heap, o).data.name = make_header_name(n)}
            described == {o \in {b} \cup makes \cup files : Described_(o)}
        IN  /\ \A docs \in Docs(make_name(n)) : ToSet(docs) = described
            /\ described # {} => Docs(n) = Docs(make_name(n))
            /\ described = {} => Docs(n) = {}

\* The entries say what they ought to, each once.
EntriesRight == NoEntryTwice /\ BlockDocsComplete

\* Once it runs the program ends, with the file or with an exception.
GeneratorEnds == (phase = "blocks") ~> (phase \in {"written", "aborted"})
=============================================================================
