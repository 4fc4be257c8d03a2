---------------------------- MODULE DoxyClasses ----------------------------
(***************************************************************************)
(* The classes of docs/doxygen/doxyxml/generated/compoundsuper.py and      *)
(* indexsuper.py, one definition per class.  The source repeats one        *)
(* template of methods (build, export, hasContent_, exportLiteral and      *)
(* their helpers) for every class; what tells two classes apart is the     *)
(* attributes they read, the elements they take in and the class each      *)
(* element is built as.  A definition here states exactly that, and the    *)
(* operators of DoxyReader are the template, read off a definition.        *)
(*                                                                         *)
(* Names are those of the XML; the Python names type_, raisexx and classxx *)
(* hold the XML attributes and elements type, raise and class.             *)
(***************************************************************************)
EXTENDS Sequences

-----------------------------------------------------------------------------
(* The ways in which buildChildren takes in a child element.               *)

\* Its text becomes the value of the field: the last such element wins.
Text(f) == [name |-> f, form |-> "text", class |-> ""]

\* Its text is appended to a list of texts.
Texts(f) == [name |-> f, form |-> "texts", class |-> ""]

\* It is built as an object of class c and stored by set_f: the last wins.
One(f, c) == [name |-> f, form |-> "one", class |-> c]

\* It is built as an object of class c and appended to the list f.
Many(f, c) == [name |-> f, form |-> "many", class |-> c]

\* Built as an object like One, but written by exportChildren as if it were
\* a text: quote_xml formats the object itself.
AsRepr(f, c) == [name |-> f, form |-> "repr", class |-> c]

-----------------------------------------------------------------------------
(* The four shapes of a class.  strs and ints are the attributes it reads, *)
(* required those exportAttributes writes even when they are None.         *)

Shape(form, strs, fields) ==
    [form |-> form, strs |-> strs, ints |-> {}, required |-> {},
     fields |-> fields, own |-> <<>>]

\* Child elements only; text between them is ignored.
Fields(strs, fields) == Shape("fields", strs, fields)

\* Text and CDATA sections, concatenated in valueOf_.
Value(strs) == Shape("value", strs, <<>>)

\* Text in valueOf_ and, item by item, in content_; child elements ignored.
MixedValue(strs) == Shape("mixedvalue", strs, <<>>)

\* Text and the given elements, in document order, in content_.
Mixed(strs, items) == Shape("mixed", strs, items)

\* Attributes that are converted by int().
Ints(ints, c) == [c EXCEPT !.ints = ints]

\* All the attributes of the class are written without a test for None.
Required(c) == [c EXCEPT !.required = c.strs]

-----------------------------------------------------------------------------
(* indexsuper.py: the classes of index.xml.                                *)

indexDoxygenType == Required(Fields({"version"}, <<Many("compound", "CompoundType")>>))

CompoundType == Required(Fields({"kind", "refid"},
    <<Text("name"), Many("member", "MemberType")>>))

MemberType == Required(Fields({"kind", "refid"}, <<Text("name")>>))

-----------------------------------------------------------------------------
(* compoundsuper.py: the classes of the other files, in source order.      *)

DoxygenType == Required(Fields({"version"},
    <<One("compounddef", "compounddefType")>>))

compounddefFields ==
    <<Text("compoundname"), AsRepr("title", "docTitleType"),
      Many("basecompoundref", "compoundRefType"),
      Many("derivedcompoundref", "compoundRefType"),
      Many("includes", "incType"), Many("includedby", "incType"),
      One("incdepgraph", "graphType"), One("invincdepgraph", "graphType"),
      Many("innerdir", "refType"), Many("innerfile", "refType"),
      Many("innerclass", "refType"), Many("innernamespace", "refType"),
      Many("innerpage", "refType"), Many("innergroup", "refType"),
      One("templateparamlist", "templateparamlistType"),
      Many("sectiondef", "sectiondefType"),
      One("briefdescription", "descriptionType"),
      One("detaileddescription", "descriptionType"),
      One("inheritancegraph", "graphType"),
      One("collaborationgraph", "graphType"),
      One("programlisting", "listingType"), One("location", "locationType"),
      One("listofallmembers", "listofallmembersType")>>

compounddefType == Fields({"kind", "prot", "id"}, compounddefFields)

listofallmembersType == Fields({}, <<Many("member", "memberRefType")>>)

memberRefType == Fields({"virt", "prot", "refid", "ambiguityscope"},
    <<Text("scope"), Text("name")>>)

scope == Value({})

name == Value({})

compoundRefType == MixedValue({"virt", "prot", "refid"})

reimplementType == MixedValue({"refid"})

incType == MixedValue({"local", "refid"})

refType == MixedValue({"prot", "refid"})

refTextType == MixedValue({"refid", "kindref", "external"})

sectiondefType == Fields({"kind"},
    <<Text("header"), One("description", "descriptionType"),
      Many("memberdef", "memberdefType")>>)

memberdefFields ==
    <<One("templateparamlist", "templateparamlistType"),
      One("type", "linkedTextType"), Text("definition"), Text("argsstring"),
      Text("name"), Text("read"), Text("write"), Text("bitfield"),
      Many("reimplements", "reimplementType"),
      Many("reimplementedby", "reimplementType"), Many("param", "paramType"),
      Many("enumvalue", "enumvalueType"),
      One("initializer", "linkedTextType"),
      One("exceptions", "linkedTextType"),
      One("briefdescription", "descriptionType"),
      One("detaileddescription", "descriptionType"),
      One("inbodydescription", "descriptionType"),
      One("location", "locationType"), Many("references", "referenceType"),
      Many("referencedby", "referenceType")>>

memberdefAttributes ==
    {"initonly", "kind", "volatile", "const", "raise", "virt", "readable",
     "prot", "explicit", "new", "final", "writable", "add", "static",
     "remove", "sealed", "mutable", "gettable", "inline", "settable", "id"}

memberdefType == Fields(memberdefAttributes, memberdefFields)

definition == Value({})

argsstring == Value({})

read == Value({})

write == Value({})

bitfield == Value({})

descriptionType == Mixed({},
    <<One("title", "docTitleType"), One("para", "docParaType"),
      One("sect1", "docSect1Type"), One("internal", "docInternalType")>>)

enumvalueType == Mixed({"prot", "id"},
    <<Text("name"), One("initializer", "linkedTextType"),
      One("briefdescription", "descriptionType"),
      One("detaileddescription", "descriptionType")>>)

templateparamlistType == Fields({}, <<Many("param", "paramType")>>)

paramType == Fields({},
    <<One("type", "linkedTextType"), Text("declname"), Text("defname"),
      Text("array"), One("defval", "linkedTextType"),
      One("briefdescription", "descriptionType")>>)

declname == Value({})

defname == Value({})

array == Value({})

linkedTextType == Mixed({}, <<One("ref", "docRefTextType")>>)

graphType == Fields({}, <<Many("node", "nodeType")>>)

nodeType == Fields({"id"},
    <<Text("label"), One("link", "linkType"),
      Many("childnode", "childnodeType")>>)

label == Value({})

childnodeType == Fields({"relation", "refid"}, <<Texts("edgelabel")>>)

edgelabel == Value({})

linkType == Value({"refid", "external"})

listingType == Fields({}, <<Many("codeline", "codelineType")>>)

codelineType == Ints({"lineno"}, Fields({"external", "refkind", "refid"},
    <<Many("highlight", "highlightType")>>))

highlightType == Mixed({"class"},
    <<Text("sp"), One("ref", "docRefTextType")>>)

sp == Value({})

referenceType == Ints({"endline", "startline"}, MixedValue({"refid", "compoundref"}))

locationType == Ints({"bodystart", "line", "bodyend"}, Value({"bodyfile", "file"}))

docSect1Type == Mixed({"id"},
    <<One("title", "docTitleType"), One("para", "docParaType"),
      One("sect2", "docSect2Type"), One("internal", "docInternalS1Type")>>)

docSect2Type == Mixed({"id"},
    <<One("title", "docTitleType"), One("para", "docParaType"),
      One("sect3", "docSect3Type"), One("internal", "docInternalS2Type")>>)

docSect3Type == Mixed({"id"},
    <<One("title", "docTitleType"), One("para", "docParaType"),
      One("sect4", "docSect4Type"), One("internal", "docInternalS3Type")>>)

docSect4Type == Mixed({"id"},
    <<One("title", "docTitleType"), One("para", "docParaType"),
      One("internal", "docInternalS4Type")>>)

docInternalType == Mixed({},
    <<One("para", "docParaType"), One("sect1", "docSect1Type")>>)

docInternalS1Type == Mixed({},
    <<One("para", "docParaType"), One("sect2", "docSect2Type")>>)

docInternalS2Type == Mixed({},
    <<One("para", "docParaType"), One("sect3", "docSect3Type")>>)

docInternalS3Type == Mixed({},
    <<One("para", "docParaType"), One("sect3", "docSect4Type")>>)

docInternalS4Type == Mixed({}, <<One("para", "docParaType")>>)

docTitleType == MixedValue({})

docParaType == MixedValue({})

docMarkupType == MixedValue({})

docURLLink == MixedValue({"url"})

docAnchorType == MixedValue({"id"})

docFormulaType == MixedValue({"id"})

docIndexEntryType == Fields({}, <<Text("primaryie"), Text("secondaryie")>>)

docListType == Fields({}, <<Many("listitem", "docListItemType")>>)

docListItemType == Fields({}, <<Many("para", "docParaType")>>)

docSimpleSectType == Fields({"kind"},
    <<One("title", "docTitleType"), Many("para", "docParaType")>>)

docVarListEntryType == Fields({}, <<One("term", "docTitleType")>>)

docVariableListType == Value({})

docRefTextType == MixedValue({"refid", "kindref", "external"})

docTableType == Ints({"rows", "cols"}, Fields({},
    <<Many("row", "docRowType"), One("caption", "docCaptionType")>>))

docRowType == Fields({}, <<Many("entry", "docEntryType")>>)

docEntryType == Fields({"thead"}, <<Many("para", "docParaType")>>)

docCaptionType == MixedValue({})

docHeadingType == Ints({"level"}, MixedValue({}))

docImageType == MixedValue({"width", "type", "name", "height"})

docDotFileType == MixedValue({"name"})

docTocItemType == MixedValue({"id"})

docTocListType == Fields({}, <<Many("tocitem", "docTocItemType")>>)

docLanguageType == Fields({"langid"}, <<Many("para", "docParaType")>>)

docParamListType == Fields({"kind"},
    <<Many("parameteritem", "docParamListItem")>>)

docParamListItem == Fields({},
    <<Many("parameternamelist", "docParamNameList"),
      One("parameterdescription", "descriptionType")>>)

docParamNameList == Fields({}, <<Many("parametername", "docParamName")>>)

docParamName == Mixed({"direction"}, <<One("ref", "docRefTextType")>>)

docXRefSectType == Fields({"id"},
    <<Texts("xreftitle"), One("xrefdescription", "descriptionType")>>)

docCopyType == Fields({"link"},
    <<Many("para", "docParaType"), Many("sect1", "docSect1Type"),
      One("internal", "docInternalType")>>)

docCharType == Value({"char"})

docEmptyType == Value({})

-----------------------------------------------------------------------------
\* The only subclass of compound.py that reads more than its superclass: a
\* paragraph keeps its text and its references, in order, in a list of its
\* own (content), and its parameter lists and simple sections in two others.
docParaTypeSub ==
    [docParaType EXCEPT
        !.fields = <<Many("parameterlist", "docParamListType"),
                     Many("simplesect", "docSimpleSectType")>>,
        !.own = <<One("ref", "docRefTextType")>>]

\* The class that factory makes an instance of, for every class name.
Classes ==
    [indexDoxygenType |-> indexDoxygenType, CompoundType |-> CompoundType,
     MemberType |-> MemberType,
     DoxygenType |-> DoxygenType, compounddefType |-> compounddefType,
     listofallmembersType |-> listofallmembersType,
     memberRefType |-> memberRefType, scope |-> scope, name |-> name,
     compoundRefType |-> compoundRefType,
     reimplementType |-> reimplementType, incType |-> incType,
     refType |-> refType, refTextType |-> refTextType,
     sectiondefType |-> sectiondefType, memberdefType |-> memberdefType,
     definition |-> definition, argsstring |-> argsstring, read |-> read,
     write |-> write, bitfield |-> bitfield,
     descriptionType |-> descriptionType, enumvalueType |-> enumvalueType,
     templateparamlistType |-> templateparamlistType,
     paramType |-> paramType, declname |-> declname, defname |-> defname,
     array |-> array, linkedTextType |-> linkedTextType,
     graphType |-> graphType, nodeType |-> nodeType, label |-> label,
     childnodeType |-> childnodeType, edgelabel |-> edgelabel,
     linkType |-> linkType, listingType |-> listingType,
     codelineType |-> codelineType, highlightType |-> highlightType,
     sp |-> sp, referenceType |-> referenceType,
     locationType |-> locationType, docSect1Type |-> docSect1Type,
     docSect2Type |-> docSect2Type, docSect3Type |-> docSect3Type,
     docSect4Type |-> docSect4Type, docInternalType |-> docInternalType,
     docInternalS1Type |-> docInternalS1Type,
     docInternalS2Type |-> docInternalS2Type,
     docInternalS3Type |-> docInternalS3Type,
     docInternalS4Type |-> docInternalS4Type, docTitleType |-> docTitleType,
     docParaType |-> docParaTypeSub, docMarkupType |-> docMarkupType,
     docURLLink |-> docURLLink, docAnchorType |-> docAnchorType,
     docFormulaType |-> docFormulaType,
     docIndexEntryType |-> docIndexEntryType, docListType |-> docListType,
     docListItemType |-> docListItemType,
     docSimpleSectType |-> docSimpleSectType,
     docVarListEntryType |-> docVarListEntryType,
     docVariableListType |-> docVariableListType,
     docRefTextType |-> docRefTextType, docTableType |-> docTableType,
     docRowType |-> docRowType, docEntryType |-> docEntryType,
     docCaptionType |-> docCaptionType, docHeadingType |-> docHeadingType,
     docImageType |-> docImageType, docDotFileType |-> docDotFileType,
     docTocItemType |-> docTocItemType, docTocListType |-> docTocListType,
     docLanguageType |-> docLanguageType,
     docParamListType |-> docParamListType,
     docParamListItem |-> docParamListItem,
     docParamNameList |-> docParamNameList, docParamName |-> docParamName,
     docXRefSectType |-> docXRefSectType, docCopyType |-> docCopyType,
     docCharType |-> docCharType, docEmptyType |-> docEmptyType]

=============================================================================
