----------------------------- MODULE DoxyIndex -----------------------------
(***************************************************************************)
(* The objects of doxyxml (base.py, doxyindex.py) over a directory of XML  *)
(* files of doxygen.  An object reads its file when it is first asked for  *)
(* something, converts what it finds into further objects, and keeps the   *)
(* answers to look-ups in caches.  One object is kept per refid.           *)
(*                                                                         *)
(* Calls are synchronous and the program has one thread, so a call is one  *)
(* step.  What a call does is an operator from a heap to the heap after    *)
(* the call, with its result, or the exception it ended with, in it.       *)
(*                                                                         *)
(* A name is a sequence of words, the parts between '::'.  A description   *)
(* is TRUE when it is not empty.  Elements a file always holds (the two    *)
(* descriptions of a definition) are always there.                         *)
(***************************************************************************)
EXTENDS Integers, FiniteSets, SequencesExt

CONSTANTS
    Corpora,        \* the XML directories: [index, files], see below
    HeaderNames,    \* the names of files that end in '.h'
    MakeNames,      \* what make_name does to the last word of a class's name
    Explored,       \* the directories a user of doxyxml makes calls on
    MaxCalls        \* bound: the calls such a user makes

VARIABLES
    corpus,     \* the XML directory
    heap,       \* the objects, and how the last call ended
    calls       \* the number of calls made

doxyVars == <<corpus, heap, calls>>

\* No refid, class, category or exception.
None == "None"

\* index.xml is a sequence of compounds.  A file of a compound holds
\* definitions in sections, which have no attribute refid, and a group refers
\* to other groups and classes; state says whether compound.parse accepts the
\* file ("ok"), ends with ExpatError ("broken") or with another exception
\* ("raises").  Doxygen gives no definition the kind of a compound that has a
\* file of its own, and no such compound that of a definition.
Refids == STRING \ {None}
Names == Seq(STRING) \ {<<>>}
Compounds == [kind : STRING \ {"function", "friend"}, name : Names, refid : Refids]
Memberdefs == [kind : STRING \ {"class", "file", "namespace", "group"}, name : Names,
               refid : {None}, doc : BOOLEAN]
Files == [state : {"ok", "broken", "raises"}, doc : BOOLEAN,
          memberdefs : Seq(Memberdefs), groups : Seq(Refids), classes : Seq(Refids)]
IsDirectory(d) ==
    /\ d.index \in Seq(Compounds)
    /\ DOMAIN d.files \subseteq Refids
    /\ \A r \in DOMAIN d.files : d.files[r] \in Files

\* What the index and the groups say of a refid agrees: a group refers to
\* groups as such, and to compounds of several kinds as its classes.
InnerKinds == {"class", "struct", "union", "interface", "protocol", "category", "exception"}
Consistent(d) ==
    \A i \in DOMAIN d.index :
        LET entry == d.index[i] IN
        /\ \A j \in DOMAIN d.index : d.index[j].refid = entry.refid => i = j
        /\ \A r \in DOMAIN d.files :
              /\ entry.refid \in ToSet(d.files[r].groups) => entry.kind = "group"
              /\ entry.refid \in ToSet(d.files[r].classes) => entry.kind \in InnerKinds

ASSUME CorporaAssumption ==
    \A d \in Corpora : IsDirectory(d) /\ Consistent(d)
ASSUME MaxCallsAssumption == MaxCalls \in Nat

-----------------------------------------------------------------------------
(* Classes and heaps.                                                      *)

\* The parse data of an object made without any.
Unknown == [kind |-> None, name |-> <<>>, refid |-> None, doc |-> FALSE]

\* mem_classes and can_parse: the class of an object of some kind.
ClassOfKind ==
    [function |-> "DoxyFunction", class |-> "DoxyClass", file |-> "DoxyFile",
     namespace |-> "DoxyNamespace", group |-> "DoxyGroup",
     friend |-> "DoxyFriend", variable |-> "DoxyOther", struct |-> "DoxyOther",
     union |-> "DoxyOther", define |-> "DoxyOther", typedef |-> "DoxyOther",
     enum |-> "DoxyOther", dir |-> "DoxyOther", page |-> "DoxyOther"]

\* The categories look-ups ask for.
Categories == {None, "Block"} \cup {ClassOfKind[k] : k \in DOMAIN ClassOfKind}

\* What a dictionary holds for a name that several members have (an exception,
\* no object), and what is in a list of members for a definition that no class
\* can parse (None).
Duplicate == -1
NoObject == 0
NoResult == <<>>

\* Base.__init__; described says that set_descriptions has been called.
NewObject(cls, data, refid) ==
    [cls |-> cls, data |-> data, refid |-> refid, parsed |-> FALSE,
     error |-> FALSE, described |-> FALSE, members |-> <<>>,
     inCategory |-> <<>>, dictMembers |-> <<>>]

\* DoxyIndex(path) is object 1.
Index == 1
NewHeap == [objects |-> <<NewObject("DoxyIndex", Unknown, None)>>, refs |-> <<>>,
            result |-> NoResult, raised |-> None]

Object(h, o) == h.objects[o]
Answer(h, r) == [h EXCEPT !.result = r]
\* The call ends with exception e.
Raise(h, e) == [h EXCEPT !.raised = e]
Ok(h) == h.raised = None
With(f, x, y) == [z \in DOMAIN f \cup {x} |-> IF z = x THEN y ELSE f[z]]

\* A statement after another: not reached when that raised.  (h is bound as
\* the element of a set so that TLC computes it once.)
Then(h, Do(_)) == CHOOSE r \in {IF Ok(g) THEN Do(g) ELSE g : g \in {h}} : TRUE

\* A loop over the elements of s, left when a turn raises.
ForEach(h, s, Do(_, _)) ==
    LET after[k \in 0..Len(s)] ==
            IF k = 0 THEN h ELSE Then(after[k - 1], LAMBDA g : Do(g, s[k]))
    IN  after[Len(s)]

\* The elements of s at the places in I, in their order.
Chosen(s, I) ==
    LET upTo[k \in 0..Len(s)] ==
            IF k = 0 THEN <<>>
            ELSE IF k \in I THEN Append(upTo[k - 1], s[k])
            ELSE upTo[k - 1]
    IN  upTo[Len(s)]

-----------------------------------------------------------------------------
(* Wrong variants, each a plausible bug in the definition it is named for. *)

FromRefidAlwaysNew(h, cls, data, refid) ==
    LET made == [h EXCEPT !.objects = Append(@, NewObject(cls, data, refid)),
                          !.result = Len(h.objects) + 1]
    IN  IF refid = None THEN made
        ELSE [made EXCEPT !.refs = With(@, refid, made.result)]

\* The list of a category is kept under the category of its first caller.
RememberForAll(h, o, cat, found) ==
    Answer([h EXCEPT !.objects[o].inCategory = [c \in Categories |-> found]], found)

\* Every definition is kept, also one met in an earlier section.
FirstOfNameAll(memberdefs) == memberdefs

\* _parsed is never set, so an object is read whenever it is asked.
MarkedNever(h, o) == h

-----------------------------------------------------------------------------
(* References and conversion.                                              *)

\* from_refid, and from_parse_data, whose data may have a refid: the object
\* known under the refid, of whatever class, or a new one.
FromRefid(h, cls, data, refid) ==
    IF refid # None /\ refid \in DOMAIN h.refs THEN Answer(h, h.refs[refid])
    ELSE LET made == [h EXCEPT !.objects = Append(@, NewObject(cls, data, refid)),
                               !.result = Len(h.objects) + 1]
         IN  IF refid = None THEN made
             ELSE [made EXCEPT !.refs = With(@, refid, made.result)]

\* What a member is made from: a refid of a group, or the parse data of a
\* definition or of a compound.  get_cls raises StandardError when there is no
\* class; convert_mem catches and prints it and gives None.
Reference(cls, refid) == [cls |-> cls, data |-> Unknown, refid |-> refid]
Parsed(data) == [cls |-> IF data.kind \in DOMAIN ClassOfKind THEN ClassOfKind[data.kind]
                         ELSE None,
                 data |-> data, refid |-> data.refid]

ConvertMem(h, m) ==
    IF m.cls = None THEN Answer(h, NoObject) ELSE FromRefid(h, m.cls, m.data, m.refid)

AppendMember(h, o) ==
    [h EXCEPT !.objects[o].members = Append(@, h.result)]

AddMembers(h, o, ms) ==
    ForEach(h, ms, LAMBDA g, m : AppendMember(ConvertMem(g, m), o))

\* mem.__class__ is the class of the parse data, the same for all, so only the
\* first definition of a name is kept, whatever the others define.
IsFirst(defs, i) == \A j \in 1..(i - 1) : defs[j].name # defs[i].name
FirstOfName(defs) ==
    LET firsts[k \in 0..Len(defs)] ==
            IF k = 0 THEN <<>>
            ELSE IF IsFirst(defs, k) THEN Append(firsts[k - 1], defs[k])
            ELSE firsts[k - 1]
    IN  firsts[Len(defs)]

\* process_memberdefs.
Definitions(file) ==
    LET firsts == FirstOfName(file.memberdefs)
    IN  [i \in 1..Len(firsts) |-> Parsed(firsts[i])]

-----------------------------------------------------------------------------
(* Reading files: retrieve_data, and _parse of each class.                 *)

\* An exception other than ExpatError, or a missing file, goes through.
FileState(d, refid) == IF refid \in DOMAIN d.files THEN d.files[refid].state ELSE "raises"

RetrieveData(h, o) ==
    LET state == FileState(corpus, Object(h, o).refid)
    IN  CASE state = "broken" -> [h EXCEPT !.objects[o].error = TRUE]
          [] state = "raises" -> Raise(h, "Unreadable")
          [] OTHER -> h

Described(h, o) == [h EXCEPT !.objects[o].described = TRUE]

ParseClass(h, o) ==
    IF Object(h, o).error THEN h
    ELSE AddMembers(Described(h, o), o, Definitions(corpus.files[Object(h, o).refid]))

\* The descriptions are set before the error is looked at, and there is
\* nothing to set them from.
ParseFile(h, o) ==
    IF Object(h, o).error THEN Raise(h, "AttributeError")
    ELSE AddMembers(Described(h, o), o, Definitions(corpus.files[Object(h, o).refid]))

GroupMembers(file) ==
    [i \in 1..Len(file.groups) |-> Reference("DoxyGroup", file.groups[i])] \o
    [i \in 1..Len(file.classes) |-> Reference("DoxyClass", file.classes[i])] \o
    Definitions(file)

ParseGroup(h, o) ==
    IF Object(h, o).error THEN h
    ELSE AddMembers(h, o, GroupMembers(corpus.files[Object(h, o).refid]))

\* _parsed is set first, so an object whose file raised is never read again.
Marked(h, o) == [h EXCEPT !.objects[o].parsed = TRUE]

ReadFile(h, o) ==
    LET h1 == Marked(h, o)
        h2 == RetrieveData(h1, o)
        cls == Object(h, o).cls
    IN  CASE cls = "DoxyFunction" -> Described(h1, o)
          [] cls = "DoxyClass" -> Then(h2, LAMBDA g : ParseClass(g, o))
          [] cls = "DoxyFile" -> Then(h2, LAMBDA g : ParseFile(g, o))
          [] cls = "DoxyGroup" -> Then(h2, LAMBDA g : ParseGroup(g, o))
          [] OTHER -> h1

\* DoxyIndex._parse: the members of a header are members of the index, before
\* the header itself; other files are converted and not kept.
AddCompound(h, entry) ==
    LET h1 == ConvertMem(h, Parsed(entry))
        file == h1.result
        h2 == IF Object(h1, file).parsed THEN h1 ELSE ReadFile(h1, file)
        h3 == IF Ok(h2) /\ Object(h2, file).error THEN Raise(h2, "ParsingError") ELSE h2
        Keep(g) == AppendMember(Answer(g, file), Index)
    IN  IF entry.kind \notin DOMAIN ClassOfKind THEN Raise(h, "StandardError")
        ELSE IF ClassOfKind[entry.kind] # "DoxyFile" THEN Keep(h1)
        ELSE IF entry.name \notin HeaderNames THEN h1
        ELSE Then(h3, LAMBDA g :
                Keep([g EXCEPT !.objects[Index].members = @ \o Object(g, file).members]))

ParseIndex(h) == ForEach(Marked(h, Index), corpus.index, AddCompound)

CheckParsed(h, o) ==
    IF Object(h, o).parsed THEN h
    ELSE IF Object(h, o).cls = "DoxyIndex" THEN ParseIndex(h)
    ELSE ReadFile(h, o)

ConfirmNoError(h, o) ==
    Then(CheckParsed(h, o), LAMBDA g :
        IF Object(g, o).error THEN Raise(g, "ParsingError") ELSE g)

-----------------------------------------------------------------------------
(* The calls.                                                              *)

Error(h, o) == Then(CheckParsed(h, o), LAMBDA g : Answer(g, Object(g, o).error))

Members(h, o) ==
    Then(ConfirmNoError(h, o), LAMBDA g : Answer(g, Object(g, o).members))

\* brief_description and detailed_description: a KeyError when reading the
\* file raised before the descriptions were set, or the class has none.
Data(h, o) ==
    Then(ConfirmNoError(h, o), LAMBDA g :
        IF Object(g, o).described
        THEN Answer(g, IF Object(g, o).cls = "DoxyFunction" THEN Object(g, o).data.doc
                       ELSE corpus.files[Object(g, o).refid].doc)
        ELSE Raise(g, "KeyError"))

\* An object made without parse data has no name: compounddef has no such
\* attribute, and without a file there is no compounddef.
Name(h, o) ==
    IF o = NoObject THEN Raise(h, "AttributeError")
    ELSE IF Object(h, o).data # Unknown THEN Answer(h, Object(h, o).data.name)
    ELSE IF Object(h, o).cls = "DoxyIndex" THEN Raise(h, "AttributeError")
    ELSE Then(CheckParsed(h, o), LAMBDA g : Raise(g, "AttributeError"))

make_name(n) == [n EXCEPT ![Len(n)] = MakeNames[@]]

Remember(h, o, cat, found) ==
    Answer([h EXCEPT !.objects[o].inCategory = With(@, cat, found)], found)

\* includes of a class other than Block, and the members it includes.
IsOfClass(h, cat, m) == m # NoObject /\ Object(h, m).cls = cat
OfClass(h, cat, members) ==
    Chosen(members, {i \in DOMAIN members : IsOfClass(h, cat, members[i])})

\* in_category for a class other than Block, or for None.
InClass(h, o, cat) ==
    Then(ConfirmNoError(h, o), LAMBDA g :
        IF cat = None THEN Answer(g, Object(g, o).members)
        ELSE IF cat \in DOMAIN Object(g, o).inCategory
        THEN Answer(g, Object(g, o).inCategory[cat])
        ELSE Remember(g, o, cat, OfClass(g, cat, Object(g, o).members)))

\* A member entered by its name in the dictionary h.result.
EnterName(h, m) ==
    Then(Name(h, m), LAMBDA g :
        Answer(g, With(h.result, g.result,
                       IF g.result \in DOMAIN h.result THEN Duplicate ELSE m)))

\* Nobody asks for a dictionary of blocks.
DictMembers(h, o, cat) ==
    LET Keep(g) == [g EXCEPT !.objects[o].dictMembers = With(@, cat, g.result)] IN
    Then(ConfirmNoError(h, o), LAMBDA g :
        IF cat \in DOMAIN Object(g, o).dictMembers
        THEN Answer(g, Object(g, o).dictMembers[cat])
        ELSE Then(InClass(g, o, cat), LAMBDA x :
                Then(ForEach(Answer(x, <<>>), x.result, EnterName), Keep)))

MemberNamed(h, o, word, cat) ==
    Then(DictMembers(h, o, cat), LAMBDA g :
        IF <<word>> \notin DOMAIN g.result THEN Raise(g, "NoSuchMember")
        ELSE IF g.result[<<word>>] = Duplicate THEN Raise(g, "Duplicate")
        ELSE Answer(g, g.result[<<word>>]))

\* get_member goes through the words of a name, one object after another.
GetMember(h, o, n, cat) ==
    ForEach(Answer(h, o), n, LAMBDA g, word : MemberNamed(g, g.result, word, cat))

\* has_member catches NoSuchMember only.
Found(g) ==
    CASE g.raised = "NoSuchMember" -> Answer([g EXCEPT !.raised = None], FALSE)
      [] Ok(g) -> Answer(g, TRUE)
      [] OTHER -> g

HasMember(h, o, n, cat) == Found(GetMember(h, o, n, cat))

\* Block.includes (swig_doc.py).
IncludedInBlock(h, m) ==
    IF ~ IsOfClass(h, "DoxyClass", m) THEN Answer(h, FALSE)
    ELSE Then(Error(h, m), LAMBDA g :
            IF g.result THEN Answer(g, FALSE)
            ELSE Then(Name(g, m), LAMBDA x :
                    HasMember(x, m, make_name(x.result), "DoxyFriend")))

\* A member is a further one of the blocks in h.result if it is a block.
SelectBlock(h, m) ==
    Then(IncludedInBlock(h, m), LAMBDA g :
        Answer(g, IF g.result THEN Append(h.result, m) ELSE h.result))

InCategory(h, o, cat) ==
    IF cat # "Block" THEN InClass(h, o, cat)
    ELSE Then(ConfirmNoError(h, o), LAMBDA g :
            IF cat \in DOMAIN Object(g, o).inCategory
            THEN Answer(g, Object(g, o).inCategory[cat])
            ELSE Then(ForEach(Answer(g, <<>>), Object(g, o).members, SelectBlock),
                      LAMBDA x : Remember(x, o, cat, x.result)))

-----------------------------------------------------------------------------
(* A user of doxyxml holds DoxyIndex(path) and every object it was given.  *)

\* The calls on any object.
Call(h, o, c) ==
    CASE c.op = "error" -> Error(h, o)
      [] c.op = "members" -> Members(h, o)
      [] c.op = "data" -> Data(h, o)
      [] c.op = "name" -> Name(h, o)
      [] c.op = "in_category" -> InCategory(h, o, c.cat)
      [] OTHER -> GetMember(h, o, c.name, c.cat)

Operation(op, cat, n) == [op |-> op, cat |-> cat, name |-> n]
NamesOf(d) ==
    {d.index[i].name : i \in DOMAIN d.index} \cup
    UNION {{d.files[r].memberdefs[i].name : i \in DOMAIN d.files[r].memberdefs} :
                r \in DOMAIN d.files}
Operations ==
    {Operation(op, None, <<>>) : op \in {"error", "members", "data", "name"}}
    \cup {Operation("in_category", c, <<>>) : c \in {"Block", "DoxyClass"}}
    \cup {Operation("get_member", c, n) : c \in {None, "DoxyFunction"}, n \in NamesOf(corpus)}

\* The heap between calls; raised tells how the last one ended.
Settled(h) == [h EXCEPT !.result = NoResult]
Fresh(h) == [h EXCEPT !.raised = None]

Held(h) ==
    ({Index} \cup UNION {ToSet(Object(h, o).members) : o \in DOMAIN h.objects})
    \ {NoObject}

DoxyInit ==
    /\ corpus \in Corpora
    /\ heap = NewHeap
    /\ calls = 0

UserCall ==
    /\ corpus \in Explored /\ calls < MaxCalls
    /\ \E o \in Held(heap), c \in Operations :
          heap' = Settled(Call(Fresh(heap), o, c))
    /\ calls' = calls + 1
    /\ UNCHANGED corpus

-----------------------------------------------------------------------------
(* Properties.                                                             *)

\* Type invariant: the objects are those of the classes of doxyindex.py, and
\* members, references and caches hold objects of the heap.
DoxyTypeOK ==
    LET ids == DOMAIN heap.objects
        classes == {"DoxyIndex"} \cup {ClassOfKind[k] : k \in DOMAIN ClassOfKind}
    IN  /\ calls \in 0..MaxCalls
        /\ \A r \in DOMAIN heap.refs : heap.refs[r] \in ids
        /\ \A o \in ids :
              LET obj == Object(heap, o) IN
              /\ obj.cls \in classes
              /\ ToSet(obj.members) \subseteq ids \cup {NoObject}
              /\ DOMAIN obj.inCategory \subseteq Categories
              /\ DOMAIN obj.dictMembers \subseteq Categories
              /\ obj.error \/ obj.described => obj.parsed

\* The compounds at which DoxyIndex._parse ends with an exception: those of a
\* kind no class can parse, and headers whose file cannot be used.
Fatal(d, entry) ==
    \/ entry.kind \notin DOMAIN ClassOfKind
    \/ /\ entry.kind = "file" /\ entry.name \in HeaderNames
       /\ FileState(d, entry.refid) # "ok"

\* There is one object per refid, whoever asked for it first (the index, a
\* group with from_refid): two look-ups of one compound cannot see it in
\* different states.  It is of the class its compound calls for, but for one
\* case: a compound that is no class, but that a group has among its classes,
\* is a DoxyClass when the group is read and the index was not, because its
\* reading ended at that compound or before.
OneObjectPerRefid ==
    /\ \A o, p \in DOMAIN heap.objects :
          Object(heap, o).refid \in {Object(heap, p).refid} \ {None} => o = p
    /\ \A i \in DOMAIN corpus.index :
          LET entry == corpus.index[i]
              cls == Object(heap, heap.refs[entry.refid]).cls
          IN  entry.refid \in DOMAIN heap.refs =>
              \/ entry.kind \in DOMAIN ClassOfKind /\ cls = ClassOfKind[entry.kind]
              \/ /\ cls = "DoxyClass" /\ entry.kind \in InnerKinds \ {"class"}
                 /\ \E j \in 1..i : Fatal(corpus, corpus.index[j])

\* The names that DoxyClass or DoxyFile keeps of a file, for a kind.
Kept(d, r, k) ==
    LET defs == d.files[r].memberdefs
    IN  {defs[i].name : i \in {i \in DOMAIN defs : defs[i].kind = k /\ IsFirst(defs, i)}}

\* A block is a class that can be read, in no namespace, and has its make
\* function for a friend.
IsBlock(d, h, m) ==
    /\ IsOfClass(h, "DoxyClass", m)
    /\ LET obj == Object(h, m) IN
       /\ FileState(d, obj.refid) = "ok" /\ Len(obj.data.name) = 1
       /\ make_name(obj.data.name) \in Kept(d, obj.refid, "friend")
BlocksAmong(d, h, members) ==
    Chosen(members, {i \in DOMAIN members : IsBlock(d, h, members[i])})

\* What was kept for a category, and the places in it of the members of a name.
CategoryOf(obj, c) == IF c = None THEN obj.members ELSE obj.inCategory[c]
Named(h, kept, n) == {i \in DOMAIN kept : Object(h, kept[i]).data.name = n}

\* The caches of _in_category and _dict_members hold just what a search of the
\* members would find now, although files have been read and objects made since
\* they were filled: a list the members of its class, the list of the blocks
\* included; a dictionary the names of all members of its list, each with its
\* member, or with Duplicate if several have it.  (The docstring of
\* _get_dict_members says None for these; the code stores the exception class.)
CachesCoherent ==
    \A o \in DOMAIN heap.objects :
        LET obj == Object(heap, o) IN
        /\ \A c \in DOMAIN obj.inCategory :
              obj.inCategory[c] = IF c = "Block" THEN BlocksAmong(corpus, heap, obj.members)
                                  ELSE OfClass(heap, c, obj.members)
        /\ \A c \in DOMAIN obj.dictMembers :
              LET kept == CategoryOf(obj, c)
                  dict == obj.dictMembers[c]
              IN  /\ DOMAIN dict = {Object(heap, kept[i]).data.name : i \in DOMAIN kept}
                  /\ \A n \in DOMAIN dict :
                        LET found == Named(heap, kept, n) IN
                        IF Cardinality(found) = 1 THEN {kept[i] : i \in found} = {dict[n]}
                        ELSE dict[n] = Duplicate

\* The names of the members that an entry of the index gives DoxyIndex.
MemberNames(d, entry) ==
    LET defs == d.files[entry.refid].memberdefs
        firsts == Chosen(defs, {i \in DOMAIN defs : IsFirst(defs, i)})
    IN  IF entry.kind # "file" THEN <<entry.name>>
        ELSE IF entry.name \in HeaderNames
        THEN [i \in 1..Len(firsts) |-> firsts[i].name] \o <<entry.name>>
        ELSE <<>>

\* The names of the members that the first k entries give.
NamesUpTo(d, k) ==
    LET names[j \in 0..k] ==
            IF j = 0 THEN <<>> ELSE names[j - 1] \o MemberNames(d, d.index[j])
    IN  names[k]

\* An index that has been read holds, in the order of index.xml, every
\* compound but the files that are no headers, and every first definition of
\* a name of every header, up to the first compound that is fatal.  _parsed is
\* set at the start of _parse: after an exception in it the index answers
\* later calls with that beginning, and does not raise again.
IndexHoldsPrefix ==
    LET fatal == {i \in DOMAIN corpus.index : Fatal(corpus, corpus.index[i])}
        last == IF fatal = {} THEN Len(corpus.index)
                ELSE (CHOOSE i \in fatal : \A j \in fatal : i <= j) - 1
        expected == NamesUpTo(corpus, last)
        members == Object(heap, Index).members
        unnamed == {i \in DOMAIN members : members[i] = NoObject}
    IN  Object(heap, Index).parsed =>
            /\ Len(members) = Len(expected)
            /\ \A i \in DOMAIN members \ unnamed :
                  Object(heap, members[i]).data.name = expected[i]

\* An object whose file is broken has said so in _error and holds nothing;
\* error is never set for a file that can be read.
ErrorIffBroken ==
    \A o \in DOMAIN heap.objects :
        LET obj == Object(heap, o) IN
        obj.refid \in DOMAIN corpus.files /\ obj.cls \in {"DoxyClass", "DoxyFile", "DoxyGroup"} =>
            /\ obj.error <=> (obj.parsed /\ corpus.files[obj.refid].state = "broken")
            /\ obj.error => obj.members = <<>> /\ ~ obj.described

\* An answer, with objects made during the call as what they stand for.
Seen(h, c) ==
    LET Show(m) == IF m = NoObject THEN <<>>
                   ELSE <<Object(h, m).cls, Object(h, m).refid, Object(h, m).data>>
    IN  CASE c.op \in {"members", "in_category"} ->
                [i \in DOMAIN h.result |-> Show(h.result[i])]
          [] c.op = "get_member" -> Show(h.result)
          [] OTHER -> h.result

\* Action property: a call that answers now will give the same answer after
\* any other call, although each call may read files, make objects and fill
\* caches.
AnswersStable ==
    [][\A o \in Held(heap), c \in Operations :
          LET before == Call(Fresh(heap), o, c)
              after == Call(Fresh(heap'), o, c)
          IN  Ok(before) => Ok(after) /\ Seen(after, c) = Seen(before, c)]_heap
=============================================================================
