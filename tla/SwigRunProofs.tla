---------------------------- MODULE SwigRunProofs ----------------------------
(***************************************************************************)
(* What the generator of SwigDoc does on a new DoxyIndex, for every        *)
(* directory of files: when it ends with an exception (AbortsTheorem), and *)
(* what there is in the file if it does not (AccountsTheorem).  With the   *)
(* invariants of SwigDocProofs this depends on what the look-ups of the    *)
(* generator find:                                                         *)
(*   - MemberNamedExact, of SwigDocProofs, says what a look-up by name     *)
(*     answers: the members that have the name (Having), whatever has been *)
(*     cached;                                                             *)
(*   - KeptHaving, of the same module, says which members these are for a  *)
(*     class that has been read, FromEntries and Counted for the index     *)
(*     (Whole), by the entry of index.xml that each is made from;          *)
(*   - BlocksExact, ClassesFound and FunctionsFound say what each loop is  *)
(*     going to visit, and the lemmas about turns (BlockTurnExact,         *)
(*     FuncEntryExact and ClassTurnExact) with what a turn ends and which  *)
(*     names it makes entries for;                                         *)
(*   - AbortInv says what each loop has learnt of the directory, EntryInv  *)
(*     what it has left in the file and what is still to be visited.  They *)
(*     are inductive with SwigInv.                                         *)
(***************************************************************************)
EXTENDS SwigDocProofs

-----------------------------------------------------------------------------
(* Which classes are blocks.                                               *)

\* The state of the file of an object.
FileOf(d, h, o) == FileState(d, h.objects[o].refid)

(* A class reads its file when it is first asked for something.            *)
LEMMA ReadClass ==
  ASSUME GoodDirectory(corpus), NEW h, Fine(corpus, h), Ok(h), NEW o \in Ids(h),
         h.objects[o].cls = "DoxyClass"
  PROVE  LET g == CheckParsed(h, o) IN
         /\ Serves(corpus, h, g) /\ Spares(h, g, o)
         /\ SameObject(h.objects[o], g.objects[o])
         /\ FileOf(corpus, h, o) = "raises" /\ ~ h.objects[o].parsed => ~ Ok(g)
         /\ FileOf(corpus, h, o) = "broken" => Ok(g) /\ g.objects[o].error
         /\ FileOf(corpus, h, o) = "ok" =>
               Ok(g) /\ HasFile(corpus, g, o) /\ g.objects[o].described
<1> DEFINE g == CheckParsed(h, o)
           x == h.objects[o]
           y == g.objects[o]
<1>1. o # Index /\ Reads("DoxyClass")
  BY DEF Fine, Good, ObjectFits, Reads
<1>2. /\ Serves(corpus, h, g) /\ y.parsed /\ Only(h, g, o) /\ Bare(h, g)
      /\ x.parsed => g = h
      /\ ~ x.parsed => IF Raises(corpus, x) THEN g.raised \in {"Unreadable", "AttributeError"} ELSE Ok(g)
  BY <1>1, CheckParsedExact
<1> HIDE DEF g
<1>3. Fine(corpus, g) /\ o \in Ids(g)
  BY <1>2, ServesIds
<1>4. SameObject(x, y) /\ y.cls = "DoxyClass" /\ y.refid = x.refid
  BY <1>2 DEF Only, SameObject
<1>5. Spares(h, g, o)
  BY <1>2, TouchesSpares
<1>6. Raises(corpus, x) <=> FileOf(corpus, h, o) = "raises"
  BY <1>1 DEF Raises, FileOf
<1>7. FileOf(corpus, h, o) = "raises" /\ ~ x.parsed => ~ Ok(g)
  BY <1>2, <1>6 DEF Ok, None
<1>8. FileOf(corpus, h, o) # "raises" => Ok(g)
  BY <1>2, <1>6
<1>9. ObjectFits(corpus, g, o) /\ ContentFits(corpus, g, o)
  BY <1>1, <1>3 DEF Fine, Good, Filled
<1>10. FileOf(corpus, h, o) \in {"broken", "ok"} =>
          /\ y.refid \in DOMAIN corpus.files /\ corpus.files[y.refid].state = FileOf(corpus, h, o)
          /\ FileState(corpus, y.refid) = FileOf(corpus, h, o)
  BY <1>4 DEF FileOf, FileState
<1>11. FileOf(corpus, h, o) = "broken" => y.error
  BY <1>1, <1>2, <1>4, <1>9, <1>10 DEF ObjectFits
<1>12. ASSUME FileOf(corpus, h, o) = "ok" PROVE HasFile(corpus, g, o) /\ y.described
  <2>1. ~ y.error
    BY <1>1, <1>2, <1>4, <1>9, <1>10, <1>12 DEF ObjectFits
  <2>2. y.described /\ MadeOf(g, y.members, Definitions(corpus.files[y.refid]))
    BY <1>2, <1>4, <1>9, <1>10, <1>12 DEF ContentFits
  <2> QED
    BY <1>2, <1>10, <1>12, <2>1, <2>2 DEF HasFile
<1> QED
  BY <1>2, <1>4, <1>5, <1>7, <1>8, <1>11, <1>12 DEF g

\* No class has been read whose file raised.
Calm(d, h) ==
  \A p \in Ids(h) : h.objects[p].cls = "DoxyClass" /\ h.objects[p].parsed =>
    FileOf(d, h, p) # "raises"

(* A call that spares all classes but one whose file does not raise.       *)
LEMMA CalmOn ==
  ASSUME NEW d, NEW h, Fine(d, h), Calm(d, h), NEW g, Serves(d, h, g),
         NEW o \in Ids(h), Spares(h, g, o), FileOf(d, h, o) # "raises"
  PROVE  Calm(d, g)
<1>1. ASSUME NEW p \in Ids(g), g.objects[p].cls = "DoxyClass", g.objects[p].parsed
      PROVE  FileOf(d, g, p) # "raises"
  <2>1. \A q \in Ids(h) : SameObject(h.objects[q], g.objects[q])
    BY DEF Serves, Grows
  <2>2. CASE p = o
    BY <2>1, <2>2 DEF SameObject, FileOf
  <2>3. CASE p # o
    <3>1. p \in Ids(h) /\ h.objects[p].parsed
      BY <1>1, <2>3 DEF Spares
    <3>2. h.objects[p].cls = "DoxyClass" /\ h.objects[p].refid = g.objects[p].refid
      BY <1>1, <2>1, <3>1 DEF SameObject
    <3> QED
      BY <3>1, <3>2 DEF Calm, FileOf
  <2> QED
    BY <2>2, <2>3
<1> QED
  BY <1>1 DEF Calm

\* A class of which Block.includes is to say that it is a block.
BlockObject(d, x) ==
  /\ FileState(d, x.refid) = "ok" /\ Len(x.data.name) = 1
  /\ make_name(x.data.name) \in Kept(d, x.refid, "friend")

\* What Block.includes of the object x ends with.
Tells(g, x) ==
  IF FileState(corpus, x.refid) = "raises" THEN ~ Ok(g)
  ELSE /\ Ok(g) /\ Calm(corpus, g)
       /\ BlockObject(corpus, x) => g.result = TRUE
       /\ ~ BlockObject(corpus, x) => g.result = FALSE

(* error() of a class.                                                     *)
LEMMA ErrorOfClass ==
  ASSUME GoodDirectory(corpus), NEW h, Fine(corpus, h), Ok(h), NEW o \in Ids(h),
         h.objects[o].cls = "DoxyClass", Calm(corpus, h)
  PROVE  LET g == Error(h, o) IN
         /\ Serves(corpus, h, g) /\ Spares(h, g, o) /\ SameObject(h.objects[o], g.objects[o])
         /\ FileOf(corpus, h, o) = "raises" => ~ Ok(g)
         /\ FileOf(corpus, h, o) = "broken" => Ok(g) /\ g.result = TRUE
         /\ FileOf(corpus, h, o) = "ok" => Ok(g) /\ g.result = FALSE /\ HasFile(corpus, g, o)
         /\ FileOf(corpus, h, o) \in {"raises", "broken", "ok"}
<1> DEFINE c == CheckParsed(h, o)
           b == Object(c, o).error
           g == Error(h, o)
<1>1. /\ Serves(corpus, h, c) /\ Spares(h, c, o)
      /\ SameObject(h.objects[o], c.objects[o])
      /\ FileOf(corpus, h, o) = "raises" /\ ~ h.objects[o].parsed => ~ Ok(c)
      /\ FileOf(corpus, h, o) = "broken" => Ok(c) /\ c.objects[o].error
      /\ FileOf(corpus, h, o) = "ok" =>
            Ok(c) /\ HasFile(corpus, c, o) /\ c.objects[o].described
  BY ReadClass
<1>2. FileOf(corpus, h, o) = "raises" => ~ h.objects[o].parsed
  BY DEF Calm
<1>3. g = IF Ok(c) THEN Answer(c, Object(c, o).error) ELSE c
  BY SMT DEF Error, Then, c
<1> HIDE DEF g, c
<1>4. g = IF Ok(c) THEN Answer(c, b) ELSE c
  BY <1>3
<1>5. b = c.objects[o].error
  BY DEF Object
<1>6. Fine(corpus, c) /\ o \in Ids(c)
  BY <1>1, ServesIds
<1>7. c.objects[o].error \in BOOLEAN
  BY <1>6, ObjectFields DEF Fine, Good, Obj
<1> HIDE DEF b
<1>8. /\ Serves(corpus, c, Answer(c, b)) /\ Answer(c, b).objects = c.objects
      /\ Answer(c, b).result = b /\ Answer(c, b).raised = c.raised
  BY <1>6, ServesSame
<1>9. Serves(corpus, h, g) /\ g.objects = c.objects
  BY <1>1, <1>4, <1>8, ServesTrans
<1>10. Spares(h, g, o) /\ SameObject(h.objects[o], g.objects[o])
  BY <1>1, <1>9, SparesSame
<1>11. Ok(c) => Ok(g) /\ g.result = b
  BY <1>4, <1>8 DEF Ok
<1>12. HasFile(corpus, c, o) => HasFile(corpus, g, o) /\ c.objects[o].error = FALSE
  <2>1. HasFile(corpus, c, o) => ~ c.objects[o].error
    BY DEF HasFile
  <2> QED
    BY <1>7, <1>9, <2>1, HasFileSame
<1>13. FileOf(corpus, h, o) = "broken" => c.objects[o].error = TRUE
  BY <1>1, <1>7
<1>14. FileOf(corpus, h, o) \in {"raises", "broken", "ok"}
  <2>1. \A r \in DOMAIN corpus.files : corpus.files[r].state \in {"raises", "broken", "ok"}
    BY DirectoryHas DEF Files
  <2> QED
    BY <2>1 DEF FileOf, FileState
<1>15. FileOf(corpus, h, o) = "raises" => ~ Ok(g)
  BY <1>1, <1>2, <1>4
<1> QED
  BY <1>1, <1>5, <1>9, <1>10, <1>11, <1>12, <1>13, <1>14, <1>15 DEF g

(* Block.includes of a class: it raises if the file does, and otherwise    *)
(* says whether the class has its make function for a friend.              *)
LEMMA IncludedExact ==
  ASSUME GoodDirectory(corpus), NEW h, Fine(corpus, h), Ok(h), NEW o \in Ids(h),
         h.objects[o].cls = "DoxyClass", h.objects[o].data # Unknown, Calm(corpus, h)
  PROVE  LET g == IncludedInBlock(h, o) IN
         Serves(corpus, h, g) /\ Tells(g, h.objects[o])
<1> DEFINE obj == h.objects[o]
           n == obj.data.name
           e == Error(h, o)
           x == Name(e, o)
           s == make_name(n)
           z == GetMember(x, o, s, "DoxyFriend")
           g == IncludedInBlock(h, o)
<1>1. /\ Serves(corpus, h, e) /\ Spares(h, e, o) /\ SameObject(obj, e.objects[o])
      /\ FileOf(corpus, h, o) = "raises" => ~ Ok(e)
      /\ FileOf(corpus, h, o) = "broken" => Ok(e) /\ e.result = TRUE
      /\ FileOf(corpus, h, o) = "ok" => Ok(e) /\ e.result = FALSE /\ HasFile(corpus, e, o)
      /\ FileOf(corpus, h, o) \in {"raises", "broken", "ok"}
  BY ErrorOfClass
<1>2. IsOfClass(h, "DoxyClass", o)
  <2>1. o # NoObject
    BY DEF Ids, NoObject
  <2> QED
    BY <2>1 DEF IsOfClass, Object
<1>3. g = IF Ok(e) THEN IF e.result THEN Answer(e, FALSE)
                        ELSE IF Ok(x) THEN HasMember(x, o, make_name(x.result), "DoxyFriend")
                        ELSE x
          ELSE e
  <2> DEFINE Friend(w) == HasMember(w, o, make_name(w.result), "DoxyFriend")
             Do(k) == IF k.result THEN Answer(k, FALSE) ELSE Then(Name(k, o), Friend)
  <2>1. g = Then(e, Do)
    BY <1>2 DEF IncludedInBlock
  <2>2. Friend(x) = HasMember(x, o, make_name(x.result), "DoxyFriend")
    OBVIOUS
  <2> HIDE DEF e, g, Friend, x
  <2>3. Do(e) = IF e.result THEN Answer(e, FALSE)
                ELSE IF Ok(x) THEN HasMember(x, o, make_name(x.result), "DoxyFriend") ELSE x
    <3>1. Then(x, Friend) = IF Ok(x) THEN Friend(x) ELSE x
      BY SMT DEF Then
    <3> QED
      BY <2>2, <3>1 DEF x
  <2> HIDE DEF Do
  <2>4. Then(e, Do) = IF Ok(e) THEN Do(e) ELSE e
    BY SMT DEF Then
  <2> QED
    BY <2>1, <2>3, <2>4
<1> HIDE DEF e, g
<1>4. Fine(corpus, e) /\ o \in Ids(e) /\ e.objects[o].data = obj.data
  <2>1. Fine(corpus, e) /\ o \in Ids(e)
    BY <1>1, ServesIds
  <2> QED
    BY <1>1, <2>1 DEF SameObject
<1>5. FileState(corpus, obj.refid) = FileOf(corpus, h, o)
  BY DEF FileOf
<1>6. CASE FileOf(corpus, h, o) = "raises"
  BY <1>1, <1>3, <1>5, <1>6 DEF Tells, g
<1>7. CASE FileOf(corpus, h, o) = "broken"
  <2> DEFINE no == FALSE
             k == Answer(e, no)
  <2>1. g = k
    BY <1>1, <1>3, <1>7
  <2> HIDE DEF no
  <2>2. Serves(corpus, e, k) /\ k.result = no /\ k.raised = e.raised /\ k.objects = e.objects
    BY <1>4, ServesSame
  <2>3. Serves(corpus, h, k)
    BY <1>1, <2>2, ServesTrans
  <2>4. Ok(k) /\ k.result = FALSE
    BY <1>1, <1>7, <2>2 DEF Ok, no
  <2>5. Spares(h, k, o)
    BY <1>1, <2>2, SparesSame
  <2> HIDE DEF k
  <2>6. Calm(corpus, k)
    BY <1>7, <2>3, <2>5, CalmOn
  <2>7. ~ BlockObject(corpus, obj)
    BY <1>5, <1>7 DEF BlockObject
  <2> QED
    BY <1>5, <1>7, <2>1, <2>3, <2>4, <2>6, <2>7 DEF Tells, g
<1>8. CASE FileOf(corpus, h, o) = "ok"
  <2>1. Ok(e) /\ ~ e.result /\ HasFile(corpus, e, o)
    BY <1>1, <1>8
  <2>2. Serves(corpus, e, x) /\ Ok(x) /\ x.objects = e.objects /\ x.result = n /\ n \in Names
    BY <1>4, <2>1, NameFits
  <2>3. g = Found(z)
    BY <1>3, <2>1, <2>2 DEF HasMember
  <2> HIDE DEF x
  <2>4. Fine(corpus, x) /\ o \in Ids(x) /\ HasFile(corpus, x, o)
    BY <1>4, <2>1, <2>2, HasFileSame, ServesIds
  <2>5. Len(s) = Len(n) /\ Len(s) \in Nat \ {0} /\ (Len(s) = 1 => s = <<s[1]>>)
    BY <2>2, RenamedName DEF make_name
  <2> HIDE DEF s
  <2>6. /\ Serves(corpus, x, z) /\ Spares(x, z, o)
        /\ IF Len(s) = 1 /\ s \in Kept(corpus, x.objects[o].refid, "friend")
           THEN Ok(z) ELSE z.raised = "NoSuchMember"
    BY <2>2, <2>4, <2>5, FriendSearch
  <2>7. x.objects[o].refid = obj.refid
    BY <1>1, <2>2 DEF SameObject
  <2> HIDE DEF z
  <2>8. Serves(corpus, h, z)
    BY <1>1, <2>2, <2>6, ServesTrans
  <2>9. Spares(h, z, o)
    <3>1. Spares(h, x, o)
      BY <1>1, <2>2, SparesSame
    <3>2. Serves(corpus, h, x)
      BY <1>1, <2>2, ServesTrans
    <3> QED
      BY <2>6, <3>1, <3>2, SparesTrans
  <2>10. Serves(corpus, h, g)
    BY <2>3, <2>8, FoundFits
  <2>11. Fine(corpus, z)
    BY <2>8 DEF Serves
  <2>12. /\ z.raised = "NoSuchMember" => Ok(g) /\ g.result = FALSE /\ g.objects = z.objects
         /\ Ok(z) => Ok(g) /\ g.result = TRUE /\ g.objects = z.objects
    BY <2>3, <2>11, FoundIs
  <2>13. Ok(g) /\ g.objects = z.objects
    BY <2>6, <2>12
  <2>14. Calm(corpus, g)
    <3>1. Spares(h, g, o)
      BY <2>9, <2>13, SparesSame
    <3> QED
      BY <1>8, <2>10, <3>1, CalmOn
  <2>15. BlockObject(corpus, obj) <=> Len(s) = 1 /\ s \in Kept(corpus, x.objects[o].refid, "friend")
    BY <1>5, <1>8, <2>5, <2>7 DEF BlockObject, s
  <2> QED
    BY <1>5, <1>8, <2>6, <2>10, <2>12, <2>13, <2>14, <2>15 DEF Tells, g
<1> QED
  BY <1>1, <1>6, <1>7, <1>8

\* The places of the classes among the first k of a list.
Classed(h, s, k) == {i \in 1 .. k : IsOfClass(h, "DoxyClass", s[i])}

\* The blocks among the first k of a list have been selected, or the file of a
\* class raised.
Selected(h, s, g, k) ==
  /\ Serves(corpus, h, g)
  /\ Ok(g) =>
       /\ Calm(corpus, g) /\ g.result \in Seq(Nat)
       /\ \A i \in Classed(h, s, k) :
             /\ FileOf(corpus, h, s[i]) # "raises"
             /\ BlockObject(corpus, h.objects[s[i]]) =>
                   \E j \in DOMAIN g.result : g.result[j] = s[i]
       /\ \A j \in DOMAIN g.result : \E i \in Classed(h, s, k) :
             BlockObject(corpus, h.objects[s[i]]) /\ g.result[j] = s[i]
  /\ ~ Ok(g) => \E i \in Classed(h, s, k) : FileOf(corpus, h, s[i]) = "raises"

(* What one turn does with the answer of Block.includes.                   *)
LEMMA SelectIs ==
  ASSUME NEW g, NEW m
  PROVE  LET x == IncludedInBlock(g, m) IN
         SelectBlock(g, m) =
            IF Ok(x) THEN Answer(x, IF x.result THEN Append(g.result, m) ELSE g.result) ELSE x
<1> DEFINE Do(x) == Answer(x, IF x.result THEN Append(g.result, m) ELSE g.result)
           x == IncludedInBlock(g, m)
<1>1. SelectBlock(g, m) = Then(x, Do)
  BY DEF SelectBlock
<1>2. Do(x) = Answer(x, IF x.result THEN Append(g.result, m) ELSE g.result)
  OBVIOUS
<1> HIDE DEF Do, x
<1>3. Then(x, Do) = IF Ok(x) THEN Do(x) ELSE x
  BY SMT DEF Then
<1> QED
  BY <1>1, <1>2, <1>3 DEF x

(* Block.includes in a turn of the loop over the members.                  *)
LEMMA IncludedTurn ==
  ASSUME GoodDirectory(corpus), NEW h, Fine(corpus, h), NEW s, NEW k \in Nat, NEW g,
         Selected(h, s, g, k), Ok(g), NEW m \in 0 .. Len(h.objects),
         IsOfClass(h, "DoxyClass", m) => h.objects[m].data # Unknown
  PROVE  LET x == IncludedInBlock(g, m) IN
         /\ Serves(corpus, h, x)
         /\ IF IsOfClass(h, "DoxyClass", m) THEN Tells(x, h.objects[m])
            ELSE Ok(x) /\ Calm(corpus, x) /\ x.result = FALSE
<1> DEFINE x == IncludedInBlock(g, m)
<1>1. Serves(corpus, h, g) /\ Fine(corpus, g) /\ Calm(corpus, g)
  BY DEF Selected, Serves
<1>2. Len(h.objects) \in Nat /\ Ids(h) \subseteq Ids(g) /\ Len(g.objects) \in Nat
      /\ Len(h.objects) <= Len(g.objects)
  BY <1>1, ServesIds
<1>3. CASE IsOfClass(h, "DoxyClass", m)
  <2>1. m \in Ids(h) /\ h.objects[m].cls = "DoxyClass"
    BY <1>2, <1>3 DEF IsOfClass, Object, NoObject, Ids
  <2>2. m \in Ids(g) /\ SameObject(h.objects[m], g.objects[m])
    BY <1>1, <1>2, <2>1 DEF Serves, Grows
  <2>3. g.objects[m].cls = "DoxyClass" /\ g.objects[m].data = h.objects[m].data
        /\ g.objects[m].refid = h.objects[m].refid
    BY <2>1, <2>2 DEF SameObject
  <2>4. Serves(corpus, g, x) /\ Tells(x, g.objects[m])
    BY <1>1, <1>3, <2>2, <2>3, IncludedExact
  <2> HIDE DEF x
  <2>5. Serves(corpus, h, x)
    BY <1>1, <2>4, ServesTrans
  <2>6. Tells(x, h.objects[m])
    BY <2>3, <2>4 DEF Tells, BlockObject
  <2> QED
    BY <1>3, <2>5, <2>6 DEF x
<1>4. CASE ~ IsOfClass(h, "DoxyClass", m)
  <2>1. ~ IsOfClass(g, "DoxyClass", m) \/ m \notin Ids(h)
    <3>1. ASSUME m \in Ids(h) PROVE g.objects[m].cls = h.objects[m].cls
      BY <1>1, <3>1 DEF Serves, Grows, SameObject
    <3> QED
      BY <1>4, <3>1 DEF IsOfClass, Object
  <2>2. m \notin Ids(h) => m = NoObject
    BY <1>2 DEF Ids, NoObject
  <2>3. ~ IsOfClass(g, "DoxyClass", m)
    BY <2>1, <2>2 DEF IsOfClass
  <2> DEFINE no == FALSE
  <2>4. x = Answer(g, no)
    BY <2>3 DEF IncludedInBlock
  <2> HIDE DEF no
  <2>5. Serves(corpus, g, x) /\ x.result = no /\ x.raised = g.raised /\ x.objects = g.objects
    BY <1>1, <2>4, ServesSame
  <2> HIDE DEF x
  <2>6. Serves(corpus, h, x) /\ Ok(x) /\ x.result = FALSE
    BY <1>1, <2>5, ServesTrans DEF Ok, no
  <2>7. Calm(corpus, x)
    BY <1>1, <2>5 DEF Calm, Ids, FileOf
  <2> QED
    BY <1>4, <2>6, <2>7 DEF x
<1> QED
  BY <1>3, <1>4

(* One turn of the loop over the members.                                  *)
LEMMA SelectOne ==
  ASSUME GoodDirectory(corpus), NEW h, Fine(corpus, h), NEW s \in Seq(Nat), NEW k \in Nat, NEW g,
         Selected(h, s, g, k), Ok(g), k + 1 \in DOMAIN s, s[k + 1] \in 0 .. Len(h.objects),
         IsOfClass(h, "DoxyClass", s[k + 1]) => h.objects[s[k + 1]].data # Unknown
  PROVE  Selected(h, s, SelectBlock(g, s[k + 1]), k + 1)
<1> DEFINE i == k + 1
           m == s[i]
           x == IncludedInBlock(g, m)
           v == IF x.result THEN Append(g.result, m) ELSE g.result
           e == SelectBlock(g, m)
<1>1. /\ Serves(corpus, h, x)
      /\ IF IsOfClass(h, "DoxyClass", m) THEN Tells(x, h.objects[m])
         ELSE Ok(x) /\ Calm(corpus, x) /\ x.result = FALSE
  BY IncludedTurn
<1>2. e = IF Ok(x) THEN Answer(x, v) ELSE x
  BY SelectIs
<1>3. Classed(h, s, i) = Classed(h, s, k) \cup (IF IsOfClass(h, "DoxyClass", m) THEN {i} ELSE {})
  <2>1. 1 .. i = 1 .. k \cup {i}
    OBVIOUS
  <2> QED
    BY <2>1 DEF Classed
<1>4. m \in Nat
  BY ElementOfSeq
<1> HIDE DEF x, e
<1>5. /\ \A l \in Classed(h, s, k) :
           /\ FileOf(corpus, h, s[l]) # "raises"
           /\ BlockObject(corpus, h.objects[s[l]]) => \E j \in DOMAIN g.result : g.result[j] = s[l]
      /\ \A j \in DOMAIN g.result : \E l \in Classed(h, s, k) :
            BlockObject(corpus, h.objects[s[l]]) /\ g.result[j] = s[l]
      /\ g.result \in Seq(Nat)
  BY DEF Selected
<1>6. CASE ~ Ok(x)
  <2>1. IsOfClass(h, "DoxyClass", m) /\ FileOf(corpus, h, m) = "raises"
    BY <1>1, <1>6 DEF Tells, FileOf
  <2>2. i \in Classed(h, s, i)
    BY <1>3, <2>1
  <2> HIDE DEF i
  <2>3. e = x
    BY <1>2, <1>6
  <2> QED
    BY <1>1, <1>6, <2>1, <2>2, <2>3 DEF Selected, e, m, i
<1>7. CASE Ok(x)
  <2>1. e = Answer(x, v) /\ Fine(corpus, x)
    BY <1>1, <1>2, <1>7 DEF Serves
  <2> DEFINE b == Append(g.result, m)
             a == g.result
  <2>2. /\ b \in Seq(Nat) /\ DOMAIN b = 1 .. Len(a) + 1
        /\ \A j \in 1 .. Len(a) + 1 : b[j] = IF j = Len(a) + 1 THEN m ELSE a[j]
        /\ DOMAIN a = 1 .. Len(a) /\ Len(a) \in Nat
    <3> HIDE DEF m
    <3> QED
      BY <1>4, <1>5, AppendProperties, LenProperties
  <2>3. v = IF x.result THEN b ELSE a
    OBVIOUS
  <2> HIDE DEF v, a, b
  <2>4. Serves(corpus, h, e) /\ e.result = v /\ e.objects = x.objects /\ Ok(e)
    <3>1. Serves(corpus, x, e) /\ e.result = v /\ e.objects = x.objects /\ e.raised = x.raised
      BY <2>1, ServesSame
    <3> QED
      BY <1>1, <1>7, <3>1, ServesTrans DEF Ok
  <2>5. Calm(corpus, e)
    <3>1. Calm(corpus, x)
      BY <1>1, <1>7 DEF Tells
    <3> QED
      BY <2>4, <3>1 DEF Calm, Ids, FileOf
  <2>6. a = g.result
    BY DEF a
  <2>7. ASSUME NEW j \in DOMAIN a PROVE j \in DOMAIN b /\ b[j] = a[j]
    <3>1. j \in 1 .. Len(a) + 1 /\ j # Len(a) + 1
      BY <2>2
    <3> QED
      BY <2>2, <3>1
  <2>8. Len(a) + 1 \in DOMAIN b /\ b[Len(a) + 1] = m
    BY <2>2
  <2>9. CASE IsOfClass(h, "DoxyClass", m) /\ BlockObject(corpus, h.objects[m])
    <3>1. v = b /\ FileOf(corpus, h, m) # "raises"
      BY <1>1, <1>7, <2>3, <2>9 DEF Tells, FileOf
    <3>2. Classed(h, s, i) = Classed(h, s, k) \cup {i}
      BY <1>3, <2>9
    <3> HIDE DEF i
    <3>3. ASSUME NEW l \in Classed(h, s, i)
          PROVE  /\ FileOf(corpus, h, s[l]) # "raises"
                 /\ BlockObject(corpus, h.objects[s[l]]) => \E j \in DOMAIN b : b[j] = s[l]
      BY <1>5, <2>6, <2>7, <2>8, <3>1, <3>2
    <3>4. ASSUME NEW j \in DOMAIN b
          PROVE  \E l \in Classed(h, s, i) : BlockObject(corpus, h.objects[s[l]]) /\ b[j] = s[l]
      <4>1. CASE j = Len(a) + 1
        BY <2>8, <2>9, <3>2, <4>1
      <4>2. CASE j # Len(a) + 1
        <5>1. j \in DOMAIN a
          BY <2>2, <4>2
        <5>2. PICK l \in Classed(h, s, k) : BlockObject(corpus, h.objects[s[l]]) /\ a[j] = s[l]
          BY <1>5, <2>6, <5>1
        <5> QED
          BY <2>7, <3>2, <5>1, <5>2
      <4> QED
        BY <4>1, <4>2
    <3> QED
      BY <2>2, <2>4, <2>5, <3>1, <3>3, <3>4 DEF Selected, e, i
  <2>10. CASE ~ (IsOfClass(h, "DoxyClass", m) /\ BlockObject(corpus, h.objects[m]))
    <3>1. x.result = FALSE /\ (IsOfClass(h, "DoxyClass", m) => FileOf(corpus, h, m) # "raises")
      BY <1>1, <1>7, <2>10 DEF Tells, FileOf
    <3>2. v = a
      BY <2>3, <3>1
    <3> HIDE DEF i
    <3>3. ASSUME NEW l \in Classed(h, s, i)
          PROVE  /\ FileOf(corpus, h, s[l]) # "raises"
                 /\ BlockObject(corpus, h.objects[s[l]]) => \E j \in DOMAIN a : a[j] = s[l]
      BY <1>3, <1>5, <2>6, <2>10, <3>1
    <3>4. ASSUME NEW j \in DOMAIN a
          PROVE  \E l \in Classed(h, s, i) : BlockObject(corpus, h.objects[s[l]]) /\ a[j] = s[l]
      BY <1>3, <1>5, <2>6
    <3> QED
      BY <1>5, <2>4, <2>5, <2>6, <3>2, <3>3, <3>4 DEF Selected, e, i
  <2> QED
    BY <2>9, <2>10
<1> QED
  BY <1>6, <1>7 DEF e

-----------------------------------------------------------------------------
(* Which entry of index.xml a member of the index comes from.              *)

\* The nodes s are those of the lists in m up to the k-th, at the places that
\* list and place give.
Comes(m, k, s, list, place) ==
  /\ \A p \in 1 .. Len(s) : /\ list[p] \in 1 .. k /\ place[p] \in 1 .. Len(m[list[p]])
                            /\ s[p] = m[list[p]][place[p]]
  /\ \A i \in 1 .. k : \A q \in 1 .. Len(m[i]) :
        \E p \in 1 .. Len(s) : list[p] = i /\ place[p] = q
  /\ \A p, r \in 1 .. Len(s) : list[p] = list[r] /\ place[p] = place[r] => p = r

(* One list more.                                                          *)
LEMMA ComesMore ==
  ASSUME NEW V, NEW m, NEW k \in Nat, NEW s \in Seq(V), NEW list, NEW place,
         Comes(m, k, s, list, place), m[k + 1] \in Seq(V)
  PROVE  \E l, q : Comes(m, k + 1, s \o m[k + 1], l, q)
<1> DEFINE b == m[k + 1]
           t == s \o b
           n == Len(s)
           l == [p \in 1 .. Len(t) |-> IF p <= n THEN list[p] ELSE k + 1]
           q == [p \in 1 .. Len(t) |-> IF p <= n THEN place[p] ELSE p - n]
<1>1. n \in Nat /\ Len(b) \in Nat
  BY LenProperties
<1>2. Len(t) = n + Len(b) /\ \A p \in 1 .. n + Len(b) : t[p] = IF p <= n THEN s[p] ELSE b[p - n]
  BY ConcatProperties
<1>3. \A p \in 1 .. n : p \in 1 .. Len(t) /\ l[p] = list[p] /\ q[p] = place[p] /\ t[p] = s[p]
  BY <1>1, <1>2
<1>4. \A p \in 1 .. Len(t) : p \notin 1 .. n =>
         l[p] = k + 1 /\ q[p] = p - n /\ q[p] \in 1 .. Len(b) /\ t[p] = b[q[p]]
  BY <1>1, <1>2
<1>5. \A j \in 1 .. Len(b) : n + j \in 1 .. Len(t) /\ n + j \notin 1 .. n /\ (n + j) - n = j
  BY <1>1, <1>2
<1> HIDE DEF l, q, t, n
<1>6. \A p \in 1 .. n : /\ list[p] \in 1 .. k /\ place[p] \in 1 .. Len(m[list[p]])
                        /\ s[p] = m[list[p]][place[p]]
  BY DEF Comes, n
<1>7. ASSUME NEW p \in 1 .. Len(t)
      PROVE  l[p] \in 1 .. k + 1 /\ q[p] \in 1 .. Len(m[l[p]]) /\ t[p] = m[l[p]][q[p]]
  <2>1. CASE p \in 1 .. n
    <3>1. l[p] = list[p] /\ q[p] = place[p] /\ t[p] = s[p]
      BY <1>3, <2>1
    <3>2. list[p] \in 1 .. k + 1
      BY <1>6, <2>1
    <3> QED
      BY <1>6, <2>1, <3>1, <3>2
  <2>2. CASE p \notin 1 .. n
    BY <1>4, <2>2
  <2> QED
    BY <2>1, <2>2
<1>8. ASSUME NEW i \in 1 .. k + 1, NEW j \in 1 .. Len(m[i])
      PROVE  \E p \in 1 .. Len(t) : l[p] = i /\ q[p] = j
  <2>1. CASE i = k + 1
    <3>1. l[n + j] = i /\ q[n + j] = j
      BY <1>4, <1>5, <2>1
    <3> QED
      BY <1>5, <2>1, <3>1
  <2>2. CASE i # k + 1
    <3>1. i \in 1 .. k
      BY <2>2
    <3>2. PICK p \in 1 .. n : list[p] = i /\ place[p] = j
      BY <3>1 DEF Comes, n
    <3> QED
      BY <1>3, <3>2
  <2> QED
    BY <2>1, <2>2
<1>9. ASSUME NEW p \in 1 .. Len(t), NEW r \in 1 .. Len(t), l[p] = l[r], q[p] = q[r]
      PROVE  p = r
  <2>1. CASE p \in 1 .. n /\ r \in 1 .. n
    BY <1>3, <1>9, <2>1 DEF Comes, n
  <2>2. CASE p \notin 1 .. n /\ r \notin 1 .. n
    BY <1>1, <1>4, <1>9, <2>2
  <2>3. CASE p \in 1 .. n /\ r \notin 1 .. n
    BY <1>3, <1>4, <1>6, <1>9, <2>3
  <2>4. CASE p \notin 1 .. n /\ r \in 1 .. n
    BY <1>3, <1>4, <1>6, <1>9, <2>4
  <2> QED
    BY <2>1, <2>2, <2>3, <2>4
<1>10. Comes(m, k + 1, t, l, q)
  BY <1>7, <1>8, <1>9 DEF Comes
<1> QED
  BY <1>10 DEF t

\* The nodes that each entry gives.
NodesOf(d) == [i \in DOMAIN d.index |-> MemberNodes(d, d.index[i])]

(* Each node of the index is one of one entry.                             *)
LEMMA Sources ==
  ASSUME NEW d, GoodDirectory(d), NEW n \in 0 .. Len(d.index),
         \A i \in 1 .. n : ~ Fatal(d, d.index[i])
  PROVE  /\ NodesUpTo(d, n) \in Seq(Node)
         /\ \E list, place : Comes(NodesOf(d), n, NodesUpTo(d, n), list, place)
<1> DEFINE m == NodesOf(d)
           P(k) == /\ NodesUpTo(d, k) \in Seq(Node)
                   /\ \E list, place : Comes(m, k, NodesUpTo(d, k), list, place)
           S == {k \in 0 .. n : P(k)}
<1>1. Len(d.index) \in Nat /\ DOMAIN d.index = 1 .. Len(d.index)
  BY DirectoryHas
<1>2. n \in Nat /\ \A k \in 1 .. n : k \in DOMAIN d.index
  BY <1>1
<1>3. 0 \in S
  <2>1. NodesUpTo(d, 0) = <<>>
    BY NodesStep
  <2>2. <<>> \in Seq(Node) /\ Len(<<>>) = 0
    OBVIOUS
  <2> HIDE DEF m
  <2>3. Comes(m, 0, <<>>, <<>>, <<>>)
    BY <2>2 DEF Comes
  <2> DEFINE z == NodesUpTo(d, 0)
  <2>4. z \in Seq(Node) /\ Comes(m, 0, z, <<>>, <<>>)
    BY <2>1, <2>2, <2>3
  <2> HIDE DEF z
  <2>5. \E list, place : Comes(m, 0, z, list, place)
    BY <2>4
  <2> QED
    BY <1>2, <2>4, <2>5 DEF z
<1>4. ASSUME NEW k \in 0 .. n - 1, k \in S PROVE k + 1 \in S
  <2>1. k \in Nat /\ k + 1 \in 1 .. n /\ k + 1 \in 0 .. n
    BY <1>2
  <2>2. m[k + 1] = MemberNodes(d, d.index[k + 1]) /\ m[k + 1] \in Seq(Node)
    BY <1>2, <2>1, MemberNodesAre DEF NodesOf
  <2>3. NodesUpTo(d, k + 1) = NodesUpTo(d, k) \o m[k + 1]
    BY <2>1, <2>2, NodesStep
  <2> DEFINE s == NodesUpTo(d, k)
  <2>4. PICK list, place : Comes(m, k, s, list, place)
    BY <1>4
  <2>5. s \in Seq(Node)
    BY <1>4
  <2> HIDE DEF s, m
  <2>6. \E l, q : Comes(m, k + 1, s \o m[k + 1], l, q)
    BY <2>1, <2>2, <2>4, <2>5, ComesMore
  <2>7. s \o m[k + 1] \in Seq(Node)
    BY <2>2, <2>5, ConcatProperties
  <2> QED
    BY <2>1, <2>3, <2>6, <2>7 DEF s, m
<1> HIDE DEF S
<1>5. \A k \in 0 .. n : k \in S
  BY <1>2, <1>3, <1>4, Induction
<1>6. n \in S
  BY <1>2, <1>5
<1> QED
  BY <1>6 DEF S

\* A node that parse data was converted to.
IsParsed(node) ==
  node = Parsed(node.data) /\ node.data # Unknown /\ node.data \in Compounds \cup Memberdefs

(* Parse data is never that of an object made without any.                 *)
LEMMA DataKnown == \A x \in Compounds \cup Memberdefs : x # Unknown /\ x.name \in Names
<1>1. \A x \in Compounds \cup Memberdefs : x.name \in Names
  BY DEF Compounds, Memberdefs
<1>2. Unknown.name = <<>> /\ <<>> \notin Names
  BY DEF Unknown, Names
<1> QED
  BY <1>1, <1>2

\* The nodes of a header: its first definitions and itself.
OfHeader(d, e, m) ==
  LET own == Definitions(d.files[e.refid]) IN
  /\ Len(own) \in Nat /\ Len(m) = Len(own) + 1 /\ m[Len(own) + 1] = Parsed(e)
  /\ \A q \in 1 .. Len(own) : m[q] = own[q]
  /\ e.refid \in DOMAIN d.files

(* The nodes of an entry are that of the compound alone, those of a header *)
(* or none.                                                                *)
LEMMA EntryIs ==
  ASSUME NEW d, GoodDirectory(d), NEW i \in DOMAIN d.index, ~ Fatal(d, d.index[i]), NEW m,
         m = MemberNodes(d, d.index[i])
  PROVE  LET e == d.index[i] IN
         /\ e \in Compounds /\ IsParsed(Parsed(e)) /\ Parsed(e).data = e
         /\ e.kind # "file" => Len(m) = 1 /\ m[1] = Parsed(e)
         /\ e.kind = "file" /\ e.name \notin HeaderNames => Len(m) = 0
         /\ e.kind = "file" /\ e.name \in HeaderNames => OfHeader(d, e, m)
<1> DEFINE e == d.index[i]
           own == Definitions(d.files[e.refid])
<1>1. e \in Compounds
  BY DirectoryHas
<1>2. Parsed(e).data = e /\ IsParsed(Parsed(e))
  <2>1. Parsed(e).data = e
    BY DEF Parsed
  <2> QED
    BY <1>1, <2>1, DataKnown DEF IsParsed
<1>3. /\ e.kind # "file" => m = <<Parsed(e)>>
      /\ e.kind = "file" /\ e.name \notin HeaderNames => m = <<>>
      /\ e.kind = "file" /\ e.name \in HeaderNames => m = own \o <<Parsed(e)>>
      /\ FileState(d, e.refid) = "ok" => own \in Seq(Node)
      /\ Parsed(e) \in Node
  BY MemberNodesAre
<1>4. e.kind # "file" => Len(m) = 1 /\ m[1] = Parsed(e)
  BY <1>3
<1>5. e.kind = "file" /\ e.name \notin HeaderNames => Len(m) = 0
  BY <1>3
<1>6. ASSUME e.kind = "file", e.name \in HeaderNames PROVE OfHeader(d, e, m)
  <2>1. FileState(d, e.refid) = "ok" /\ e.refid \in DOMAIN d.files
    BY <1>6 DEF Fatal, FileState
  <2> DEFINE x == Parsed(e)
             t == <<x>>
  <2>2. own \in Seq(Node) /\ m = own \o t
    BY <1>3, <1>6, <2>1
  <2>3. t \in Seq(Node) /\ Len(t) = 1 /\ t[1] = x
    BY <1>3
  <2> HIDE DEF own, t, x
  <2>4. Len(own) \in Nat
    BY <2>2, LenProperties
  <2>5. /\ Len(own \o t) = Len(own) + Len(t)
        /\ \A q \in 1 .. Len(own) + Len(t) :
              (own \o t)[q] = IF q <= Len(own) THEN own[q] ELSE t[q - Len(own)]
    BY <2>2, <2>3, ConcatProperties
  <2>6. m[Len(own) + 1] = x /\ \A q \in 1 .. Len(own) : m[q] = own[q]
    <3>1. (Len(own) + 1) - Len(own) = 1 /\ Len(own) + 1 \in 1 .. Len(own) + Len(t)
      BY <2>3, <2>4
    <3>2. \A q \in 1 .. Len(own) : q \in 1 .. Len(own) + Len(t) /\ q <= Len(own)
      BY <2>3, <2>4
    <3> QED
      BY <2>2, <2>3, <2>4, <2>5, <3>1, <3>2
  <2> QED
    BY <2>1, <2>2, <2>3, <2>4, <2>5, <2>6 DEF OfHeader, own, x
<1> QED
  BY <1>1, <1>2, <1>4, <1>5, <1>6

(* Compounds are no functions, and definitions are no classes and no       *)
(* files.                                                                  *)
LEMMA KindsApart ==
  /\ \A x \in Compounds : Parsed(x).cls \notin {"DoxyFunction", "DoxyFriend"}
  /\ \A x \in Memberdefs : Parsed(x).cls \notin {"DoxyClass", "DoxyFile"}
<1>1. {"DoxyFunction", "DoxyFriend", "DoxyClass", "DoxyFile"} \subseteq DOMAIN KindOf
  BY DEF KindOf
<1>2. /\ KindOf["DoxyFunction"] = "function" /\ KindOf["DoxyFriend"] = "friend"
      /\ KindOf["DoxyClass"] = "class" /\ KindOf["DoxyFile"] = "file"
  BY DEF KindOf
<1>3. \A x : /\ Parsed(x).cls = "DoxyFunction" <=> x.kind = "function"
             /\ Parsed(x).cls = "DoxyFriend" <=> x.kind = "friend"
             /\ Parsed(x).cls = "DoxyClass" <=> x.kind = "class"
             /\ Parsed(x).cls = "DoxyFile" <=> x.kind = "file"
  BY <1>1, <1>2, NodeKinds
<1>4. \A x \in Compounds : x.kind \notin {"function", "friend"}
  BY DEF Compounds
<1>5. \A x \in Memberdefs : x.kind \notin {"class", "file"}
  BY DEF Memberdefs
<1> QED
  BY <1>3, <1>4, <1>5

(* The nodes of an entry that look-ups of the program ask for.             *)
LEMMA EntryNodes ==
  ASSUME NEW d, GoodDirectory(d), NEW i \in DOMAIN d.index, ~ Fatal(d, d.index[i]), NEW m,
         m = MemberNodes(d, d.index[i])
  PROVE  /\ \A q \in 1 .. Len(m) : IsParsed(m[q])
         /\ \A n : i \in HeadersWith(d, n) <=>
               \E q \in 1 .. Len(m) : m[q].cls = "DoxyFunction" /\ m[q].data.name = n
         /\ \A q, r \in 1 .. Len(m) : m[q].cls = "DoxyFunction" /\ m[r].cls = "DoxyFunction"
               /\ m[q].data.name = m[r].data.name => q = r
<1> DEFINE e == d.index[i]
           own == Definitions(d.files[e.refid])
<1>1. /\ e \in Compounds /\ IsParsed(Parsed(e)) /\ Parsed(e).data = e
      /\ e.kind # "file" => Len(m) = 1 /\ m[1] = Parsed(e)
      /\ e.kind = "file" /\ e.name \notin HeaderNames => Len(m) = 0
      /\ e.kind = "file" /\ e.name \in HeaderNames => OfHeader(d, e, m)
  BY EntryIs
<1>2. \A n : i \in HeadersWith(d, n) <=> /\ e.kind = "file" /\ e.name \in HeaderNames
                                         /\ n \in Kept(d, e.refid, "function")
  BY DEF HeadersWith, OfKind
<1>3. Parsed(e).cls # "DoxyFunction"
  BY <1>1, KindsApart
<1> HIDE DEF e, own
<1>4. CASE e.kind # "file"
  <2>1. Len(m) = 1 /\ m[1] = Parsed(e)
    BY <1>1, <1>4
  <2>2. \A q \in 1 .. Len(m) : m[q] = Parsed(e)
    BY <2>1
  <2> QED
    BY <1>1, <1>2, <1>3, <1>4, <2>2
<1>5. CASE e.kind = "file" /\ e.name \notin HeaderNames
  <2>1. 1 .. Len(m) = {}
    BY <1>1, <1>5
  <2> QED
    BY <1>2, <1>5, <2>1
<1>6. CASE e.kind = "file" /\ e.name \in HeaderNames
  <2>1. /\ Len(own) \in Nat /\ Len(m) = Len(own) + 1 /\ m[Len(own) + 1] = Parsed(e)
        /\ \A q \in 1 .. Len(own) : m[q] = own[q]
        /\ e.refid \in DOMAIN d.files
    BY <1>1, <1>6 DEF OfHeader, own
  <2>2. /\ \A q \in 1 .. Len(own) : own[q] = Parsed(own[q].data) /\ own[q].data \in Memberdefs
        /\ \A q, r \in 1 .. Len(own) : own[q].data.name = own[r].data.name => q = r
        /\ \A c \in DOMAIN KindOf : \A n : n \in Kept(d, e.refid, KindOf[c]) <=>
              \E q \in 1 .. Len(own) : own[q].cls = c /\ own[q].data.name = n
    <3> DEFINE ref == e.refid
               f == Definitions(d.files[ref])
    <3>1. ref \in DOMAIN d.files
      BY <2>1
    <3> HIDE DEF ref
    <3>2. /\ \A q \in 1 .. Len(f) : f[q] = Parsed(f[q].data) /\ f[q].data \in Memberdefs
          /\ \A q, r \in 1 .. Len(f) : f[q].data.name = f[r].data.name => q = r
          /\ \A c \in DOMAIN KindOf : \A n : n \in Kept(d, ref, KindOf[c]) <=>
                \E q \in 1 .. Len(f) : f[q].cls = c /\ f[q].data.name = n
      BY <3>1, DefinitionsAre
    <3> QED
      BY <3>2 DEF own, ref
  <2>3. "DoxyFunction" \in DOMAIN KindOf /\ KindOf["DoxyFunction"] = "function"
    BY DEF KindOf
  <2>4. \A n : n \in Kept(d, e.refid, "function") <=>
              \E q \in 1 .. Len(own) : own[q].cls = "DoxyFunction" /\ own[q].data.name = n
    BY <2>2, <2>3
  <2>5. \A q \in 1 .. Len(m) : q \in 1 .. Len(own) \/ q = Len(own) + 1
    BY <2>1
  <2>6. \A q \in 1 .. Len(own) : q \in 1 .. Len(m)
    BY <2>1
  <2>7. \A q \in 1 .. Len(m) : m[q].cls = "DoxyFunction" => q \in 1 .. Len(own)
    BY <1>3, <2>1, <2>5
  <2>8. \A q \in 1 .. Len(own) : IsParsed(own[q])
    <3>1. ASSUME NEW q \in 1 .. Len(own) PROVE IsParsed(own[q])
      <4>1. own[q] = Parsed(own[q].data) /\ own[q].data \in Compounds \cup Memberdefs
        BY <2>2
      <4>2. own[q].data # Unknown
        BY <4>1, DataKnown
      <4> QED
        BY <4>1, <4>2 DEF IsParsed
    <3> QED
      BY <3>1
  <2>9. \A q \in 1 .. Len(m) : IsParsed(m[q])
    BY <1>1, <2>1, <2>5, <2>8
  <2>10. \A n : i \in HeadersWith(d, n) <=>
               \E q \in 1 .. Len(m) : m[q].cls = "DoxyFunction" /\ m[q].data.name = n
    <3>1. ASSUME NEW n PROVE
             (\E q \in 1 .. Len(own) : own[q].cls = "DoxyFunction" /\ own[q].data.name = n)
               <=> \E q \in 1 .. Len(m) : m[q].cls = "DoxyFunction" /\ m[q].data.name = n
      BY <2>1, <2>6, <2>7
    <3> QED
      BY <1>2, <1>6, <2>4, <3>1
  <2>11. ASSUME NEW q \in 1 .. Len(m), NEW r \in 1 .. Len(m), m[q].cls = "DoxyFunction",
                m[r].cls = "DoxyFunction", m[q].data.name = m[r].data.name
         PROVE  q = r
    BY <2>1, <2>2, <2>7, <2>11
  <2> QED
    BY <2>9, <2>10, <2>11
<1> QED
  BY <1>4, <1>5, <1>6

\* The entries that are classes, and those that are headers.
CompoundsOf(d, c) ==
  {i \in DOMAIN d.index : /\ d.index[i].kind = KindOf[c]
                          /\ c = "DoxyFile" => d.index[i].name \in HeaderNames}

(* A class and a header give one node of their own.                        *)
LEMMA EntryCompound ==
  ASSUME NEW d, GoodDirectory(d), NEW i \in DOMAIN d.index, ~ Fatal(d, d.index[i]), NEW m,
         m = MemberNodes(d, d.index[i]), NEW c \in {"DoxyClass", "DoxyFile"}
  PROVE  /\ \A q \in 1 .. Len(m) : m[q].cls = c =>
               m[q] = Parsed(d.index[i]) /\ i \in CompoundsOf(d, c)
         /\ i \in CompoundsOf(d, c) =>
               \E q \in 1 .. Len(m) : m[q].cls = c /\ m[q] = Parsed(d.index[i])
         /\ \A q, r \in 1 .. Len(m) : m[q].cls = c /\ m[r].cls = c => q = r
<1> DEFINE e == d.index[i]
           own == Definitions(d.files[e.refid])
<1>1. /\ e \in Compounds
      /\ e.kind # "file" => Len(m) = 1 /\ m[1] = Parsed(e)
      /\ e.kind = "file" /\ e.name \notin HeaderNames => Len(m) = 0
      /\ e.kind = "file" /\ e.name \in HeaderNames => OfHeader(d, e, m)
  BY EntryIs
<1>2. /\ c \in DOMAIN KindOf /\ KindOf["DoxyFile"] = "file" /\ KindOf["DoxyClass"] = "class"
      /\ KindOf[c] \in {"class", "file"}
  BY DEF KindOf
<1>3. Parsed(e).cls = c <=> e.kind = KindOf[c]
  BY <1>2, NodeKinds
<1>4. i \in CompoundsOf(d, c) <=>
         e.kind = KindOf[c] /\ (c = "DoxyFile" => e.name \in HeaderNames)
  BY DEF CompoundsOf
<1> HIDE DEF e, own
<1>5. CASE e.kind # "file"
  <2>3. Len(m) = 1 /\ m[1] = Parsed(e)
    BY <1>1, <1>5
  <2>4. 1 .. 1 = {1}
    OBVIOUS
  <2>1. 1 .. Len(m) = {1} /\ m[1] = Parsed(e)
    BY <2>3, <2>4
  <2>2. c = "DoxyFile" => e.kind # KindOf[c]
    BY <1>2, <1>5
  <2> QED
    BY <1>3, <1>4, <2>1, <2>2 DEF e
<1>6. CASE e.kind = "file" /\ e.name \notin HeaderNames
  <2>3. Len(m) = 0
    BY <1>1, <1>6
  <2>1. 1 .. Len(m) = {}
    BY <2>3
  <2>2. i \notin CompoundsOf(d, c)
    BY <1>2, <1>4, <1>6
  <2> QED
    BY <2>1, <2>2
<1>7. CASE e.kind = "file" /\ e.name \in HeaderNames
  <2>1. /\ Len(own) \in Nat /\ Len(m) = Len(own) + 1 /\ m[Len(own) + 1] = Parsed(e)
        /\ \A q \in 1 .. Len(own) : m[q] = own[q]
        /\ e.refid \in DOMAIN d.files
    BY <1>1, <1>7 DEF OfHeader, own
  <2>2. \A q \in 1 .. Len(own) : own[q].cls # c
    <3> DEFINE ref == e.refid
               f == Definitions(d.files[ref])
    <3>1. ref \in DOMAIN d.files
      BY <2>1
    <3> HIDE DEF ref
    <3>2. \A q \in 1 .. Len(f) : f[q] = Parsed(f[q].data) /\ f[q].data \in Memberdefs
      BY <3>1, DefinitionsAre
    <3>3. f = own
      BY DEF own, ref
    <3> HIDE DEF f
    <3>4. ASSUME NEW q \in 1 .. Len(f) PROVE f[q].cls # c
      <4>1. Parsed(f[q].data).cls \notin {"DoxyClass", "DoxyFile"}
        BY <3>2, KindsApart
      <4> QED
        BY <3>2, <4>1
    <3> QED
      BY <3>3, <3>4
  <2>3. \A q \in 1 .. Len(m) : q \in 1 .. Len(own) \/ q = Len(own) + 1
    BY <2>1
  <2>4. \A q \in 1 .. Len(m) : m[q].cls = c => q = Len(own) + 1 /\ m[q] = Parsed(e)
    BY <2>1, <2>2, <2>3
  <2>5. Len(own) + 1 \in 1 .. Len(m)
    BY <2>1
  <2>6. \A q \in 1 .. Len(m) : m[q].cls = c => i \in CompoundsOf(d, c)
    BY <1>3, <1>4, <1>7, <2>4
  <2>7. i \in CompoundsOf(d, c) => m[Len(own) + 1].cls = c
    BY <1>3, <1>4, <2>1
  <2> QED
    BY <2>1, <2>4, <2>5, <2>6, <2>7 DEF e
<1> QED
  BY <1>5, <1>6, <1>7

(* Two sets of which one names each element of the other once.             *)
LEMMA SameCount ==
  ASSUME NEW A, NEW B, IsFiniteSet(B), NEW list, \A p \in A : list[p] \in B,
         \A i \in B : \E p \in A : list[p] = i, \A p, r \in A : list[p] = list[r] => p = r
  PROVE  /\ Cardinality(B) \in Nat
         /\ A = {} => Cardinality(B) = 0
         /\ \A p : A = {p} => Cardinality(B) = 1
         /\ (\E p, r \in A : p # r) => Cardinality(B) > 1
<1>1. Cardinality(B) \in Nat
  BY FS_CardinalityType
<1>2. Cardinality(B) = 0 <=> B = {}
  BY FS_EmptySet
<1>3. Cardinality(B) = 1 <=> \E x : B = {x}
  BY FS_Singleton
<1>4. A = {} => B = {}
  OBVIOUS
<1>5. ASSUME NEW p, A = {p} PROVE B = {list[p]}
  BY <1>5
<1>6. (\E p, r \in A : p # r) => B # {} /\ ~ \E x : B = {x}
  OBVIOUS
<1> QED
  BY <1>1, <1>2, <1>3, <1>4, <1>5, <1>6

-----------------------------------------------------------------------------
(* What the members of an index that could be read are.                    *)

\* The index has been read, and no entry of it is fatal.
Whole(d, h) ==
  /\ Fine(d, h) /\ h.objects[Index].parsed
  /\ \A i \in DOMAIN d.index : ~ Fatal(d, d.index[i])

\* The members ms are made of nodes, and each of these is of one entry.
FromEntries(d, h, s, list, place) ==
  LET ms == h.objects[Index].members IN
  /\ DOMAIN ms = 1 .. Len(s) /\ Len(s) \in Nat
  /\ Comes(NodesOf(d), Len(d.index), s, list, place)
  /\ \A p \in 1 .. Len(s) : IsParsed(s[p]) /\ StandsFor(h, ms[p], s[p])

(* All entries have given their members.                                   *)
LEMMA WholeListed ==
  ASSUME NEW d, GoodDirectory(d), NEW h, Whole(d, h)
  PROVE  /\ Listed(d, h, Len(d.index))
         /\ Index \in Ids(h) /\ ~ h.objects[Index].error
<1>1. Len(d.index) \in Nat /\ DOMAIN d.index = 1 .. Len(d.index)
  BY DirectoryHas
<1>2. PICK j \in 0 .. Len(d.index) :
         Listed(d, h, j) /\ (j = Len(d.index) \/ Fatal(d, d.index[j + 1]))
  BY DEF Whole, Fine, Prefix
<1>3. j = Len(d.index)
  <2>1. j # Len(d.index) => j + 1 \in DOMAIN d.index
    BY <1>1
  <2> QED
    BY <1>2, <2>1 DEF Whole
<1>4. Index \in Ids(h) /\ ObjectFits(d, h, Index)
  BY DEF Whole, Fine, Good
<1>5. ~ Reads("DoxyIndex")
  BY DEF Reads
<1> QED
  BY <1>2, <1>3, <1>4, <1>5 DEF ObjectFits

(* Each member of the index is of one entry.                               *)
LEMMA WholeFrom ==
  ASSUME NEW d, GoodDirectory(d), NEW h, Whole(d, h)
  PROVE  \E s, list, place : FromEntries(d, h, s, list, place)
<1> DEFINE n == Len(d.index)
           s == NodesUpTo(d, n)
           ms == h.objects[Index].members
           m == NodesOf(d)
<1>1. n \in Nat /\ DOMAIN d.index = 1 .. n
  BY DirectoryHas
<1>2. Listed(d, h, n) /\ Index \in Ids(h)
  BY WholeListed
<1>3. n \in 0 .. n /\ \A i \in 1 .. n : ~ Fatal(d, d.index[i])
  BY <1>1 DEF Whole
<1> HIDE DEF n
<1>4. s \in Seq(Node) /\ \E list, place : Comes(m, n, s, list, place)
  BY <1>1, <1>3, Sources DEF n
<1>5. PICK list, place : Comes(m, n, s, list, place)
  BY <1>4
<1>6. MadeOf(h, ms, s)
  BY <1>2 DEF Listed
<1>7. ms \in Seq(Nat)
  BY <1>2, ObjectFields DEF Obj, Whole, Fine, Good
<1> HIDE DEF s, ms
<1>8. DOMAIN ms = 1 .. Len(s) /\ Len(s) \in Nat
  BY <1>4, <1>6, <1>7, LenProperties DEF MadeOf
<1>9. \A p \in 1 .. Len(s) : StandsFor(h, ms[p], s[p])
  BY <1>6 DEF MadeOf
<1>10. ASSUME NEW p \in 1 .. Len(s) PROVE IsParsed(s[p])
  <2> DEFINE i == list[p]
             q == place[p]
  <2>1. i \in 1 .. n /\ q \in 1 .. Len(m[i]) /\ s[p] = m[i][q]
    BY <1>5 DEF Comes
  <2>2. m[i] = MemberNodes(d, d.index[i]) /\ i \in DOMAIN d.index
    BY <1>1, <2>1 DEF NodesOf
  <2>3. ~ Fatal(d, d.index[i])
    BY <1>3, <2>1
  <2> DEFINE nodes == m[i]
  <2> HIDE DEF i, q, m
  <2>4. nodes = MemberNodes(d, d.index[i])
    BY <2>2
  <2> HIDE DEF nodes
  <2>5. \A r \in 1 .. Len(nodes) : IsParsed(nodes[r])
    BY <2>2, <2>3, <2>4, EntryNodes
  <2> QED
    BY <2>1, <2>5 DEF nodes
<1>11. FromEntries(d, h, s, list, place)
  BY <1>5, <1>8, <1>9, <1>10 DEF FromEntries, ms, n
<1> QED
  BY <1>11

(* What an object among the members has of its node.                       *)
LEMMA MemberIs ==
  ASSUME NEW d, NEW h, NEW s, NEW list, NEW place, FromEntries(d, h, s, list, place),
         Len(h.objects) \in Nat, NEW p \in 1 .. Len(s), NEW c \in DOMAIN KindOf
  PROVE  LET m == h.objects[Index].members[p] IN
         /\ IsOfClass(h, c, m) <=> s[p].cls = c
         /\ IsOfClass(h, c, m) => /\ m \in Ids(h) /\ StandsFor(h, m, s[p])
                                  /\ h.objects[m].cls = c
                                  /\ h.objects[m].data = s[p].data /\ s[p].data # Unknown
                                  /\ h.objects[m].refid = s[p].refid
<1> DEFINE m == h.objects[Index].members[p]
<1>1. IsParsed(s[p]) /\ StandsFor(h, m, s[p])
  BY DEF FromEntries
<1>2. c # None
  BY DEF KindOf, None
<1>3. \A o \in Ids(h) : o # NoObject
  BY DEF Ids, NoObject
<1> HIDE DEF m
<1>4. CASE s[p].cls = None
  BY <1>1, <1>2, <1>4 DEF StandsFor, IsOfClass, m
<1>5. CASE s[p].cls # None
  <2>1. /\ m \in Ids(h) /\ h.objects[m].cls = s[p].cls
        /\ h.objects[m].data = s[p].data /\ h.objects[m].refid = s[p].refid
    BY <1>1, <1>5 DEF StandsFor
  <2>2. IsOfClass(h, c, m) <=> s[p].cls = c
    BY <1>3, <2>1 DEF IsOfClass, Object
  <2>3. s[p].data # Unknown
    BY <1>1 DEF IsParsed
  <2> QED
    BY <1>1, <2>1, <2>2, <2>3 DEF m
<1> QED
  BY <1>4, <1>5

(* The members of a class that the program asks for have names.            *)
LEMMA IndexNameable ==
  ASSUME NEW d, GoodDirectory(d), NEW h, Whole(d, h), NEW c \in DOMAIN KindOf
  PROVE  Nameable(h, Index, c)
<1>1. PICK s, list, place : FromEntries(d, h, s, list, place)
  BY WholeFrom
<1>2. Len(h.objects) \in Nat
  BY WholeListed, ObjectFields DEF Whole, Fine, Good
<1>3. DOMAIN h.objects[Index].members = 1 .. Len(s)
  BY <1>1 DEF FromEntries
<1>4. ASSUME NEW p \in 1 .. Len(s), IsOfClass(h, c, h.objects[Index].members[p])
      PROVE  h.objects[h.objects[Index].members[p]].data # Unknown
  BY <1>1, <1>2, <1>4, MemberIs
<1> QED
  BY <1>3, <1>4 DEF Nameable

\* Look-ups of a class and a name among the members of the index find as many
\* members as B has elements.
Counted(h, c, n, B) ==
  LET found == Having(h, Index, c, n) IN
  /\ Cardinality(B) \in Nat
  /\ found = {} => Cardinality(B) = 0
  /\ \A p : found = {p} => Cardinality(B) = 1
  /\ (\E p, r \in found : p # r) => Cardinality(B) > 1

\* The entries in B are those that give one node of class c and name n.
Gives1(d, c, n, B) ==
  /\ B \subseteq DOMAIN d.index
  /\ \A i \in DOMAIN d.index :
       LET m == MemberNodes(d, d.index[i]) IN
       /\ i \in B <=> \E q \in 1 .. Len(m) : m[q].cls = c /\ m[q].data.name = n
       /\ \A q, r \in 1 .. Len(m) :
             m[q].cls = c /\ m[q].data.name = n /\ m[r].cls = c /\ m[r].data.name = n => q = r

(* Each entry that gives a node gives one member.                          *)
LEMMA EntriesCounted ==
  ASSUME NEW d, GoodDirectory(d), NEW h, Whole(d, h), NEW c \in DOMAIN KindOf, NEW n,
         NEW B, Gives1(d, c, n, B)
  PROVE  Counted(h, c, n, B)
<1> DEFINE A == Having(h, Index, c, n)
           m == NodesOf(d)
           ms == h.objects[Index].members
           k == Len(d.index)
<1>1. PICK s, list, place : FromEntries(d, h, s, list, place)
  BY WholeFrom
<1>2. Len(h.objects) \in Nat
  BY WholeListed, ObjectFields DEF Whole, Fine, Good
<1>3. k \in Nat /\ DOMAIN d.index = 1 .. k
  BY DirectoryHas
<1>4. IsFiniteSet(B)
  <2>1. IsFiniteSet(1 .. k)
    BY <1>3, FS_Interval
  <2> QED
    BY <1>3, <2>1, FS_Subset DEF Gives1
<1>5. /\ DOMAIN ms = 1 .. Len(s) /\ Len(s) \in Nat
      /\ Comes(m, k, s, list, place)
  BY <1>1 DEF FromEntries
<1>6. \A p \in 1 .. Len(s) : p \in A <=> s[p].cls = c /\ s[p].data.name = n
  <2> TAKE p \in 1 .. Len(s)
  <2>1. /\ IsOfClass(h, c, ms[p]) <=> s[p].cls = c
        /\ IsOfClass(h, c, ms[p]) => h.objects[ms[p]].data = s[p].data
    BY <1>1, <1>2, MemberIs
  <2> HIDE DEF ms
  <2>2. p \in A <=> IsOfClass(h, c, ms[p]) /\ h.objects[ms[p]].data.name = n
    BY <1>5 DEF Having, ms
  <2> QED
    BY <2>1, <2>2
<1>7. A \subseteq 1 .. Len(s)
  BY <1>5 DEF Having
<1>8. \A i \in 1 .. k : m[i] = MemberNodes(d, d.index[i])
  BY <1>3 DEF NodesOf
<1>9. \A i \in 1 .. k :
         /\ i \in B <=> \E q \in 1 .. Len(m[i]) : m[i][q].cls = c /\ m[i][q].data.name = n
         /\ \A q, r \in 1 .. Len(m[i]) :
               m[i][q].cls = c /\ m[i][q].data.name = n /\ m[i][r].cls = c /\ m[i][r].data.name = n
               => q = r
  <2> TAKE i \in 1 .. k
  <2> DEFINE nodes == MemberNodes(d, d.index[i])
  <2>1. i \in DOMAIN d.index /\ m[i] = nodes
    BY <1>3, <1>8
  <2>2. /\ i \in B <=> \E q \in 1 .. Len(nodes) : nodes[q].cls = c /\ nodes[q].data.name = n
        /\ \A q, r \in 1 .. Len(nodes) :
              nodes[q].cls = c /\ nodes[q].data.name = n /\ nodes[r].cls = c /\ nodes[r].data.name = n
              => q = r
    BY <2>1 DEF Gives1
  <2> HIDE DEF nodes, m
  <2> QED
    BY <2>1, <2>2
<1>10. B \subseteq 1 .. k
  BY <1>3 DEF Gives1
<1> HIDE DEF A, m, k
<1>11. /\ \A p \in 1 .. Len(s) : /\ list[p] \in 1 .. k /\ place[p] \in 1 .. Len(m[list[p]])
                                 /\ s[p] = m[list[p]][place[p]]
       /\ \A i \in 1 .. k : \A q \in 1 .. Len(m[i]) :
             \E p \in 1 .. Len(s) : list[p] = i /\ place[p] = q
       /\ \A p, r \in 1 .. Len(s) : list[p] = list[r] /\ place[p] = place[r] => p = r
  BY <1>5 DEF Comes
<1>12. \A p \in A : list[p] \in B
  <2> TAKE p \in A
  <2>1. p \in 1 .. Len(s) /\ s[p].cls = c /\ s[p].data.name = n
    BY <1>6, <1>7
  <2>2. list[p] \in 1 .. k /\ place[p] \in 1 .. Len(m[list[p]]) /\ s[p] = m[list[p]][place[p]]
    BY <1>11, <2>1
  <2> DEFINE i == list[p]
             q == place[p]
  <2>3. /\ i \in 1 .. k /\ q \in 1 .. Len(m[i]) /\ m[i][q].cls = c /\ m[i][q].data.name = n
    BY <2>1, <2>2
  <2> HIDE DEF i, q
  <2>4. i \in B
    BY <1>9, <2>3
  <2> QED
    BY <2>4 DEF i
<1>13. \A i \in B : \E p \in A : list[p] = i
  <2> TAKE i \in B
  <2>1. PICK q \in 1 .. Len(m[i]) : m[i][q].cls = c /\ m[i][q].data.name = n
    BY <1>9, <1>10
  <2>2. PICK p \in 1 .. Len(s) : list[p] = i /\ place[p] = q
    BY <1>10, <1>11
  <2>3. s[p] = m[i][q]
    BY <1>11, <2>2
  <2> QED
    BY <1>6, <2>1, <2>2, <2>3
<1>14. \A p, r \in A : list[p] = list[r] => p = r
  <2> TAKE p, r \in A
  <2> HAVE list[p] = list[r]
  <2>1. p \in 1 .. Len(s) /\ r \in 1 .. Len(s)
    BY <1>7
  <2> DEFINE i == list[p]
  <2>2. /\ i \in 1 .. k /\ place[p] \in 1 .. Len(m[i]) /\ place[r] \in 1 .. Len(m[i])
        /\ s[p] = m[i][place[p]] /\ s[r] = m[i][place[r]] /\ i = list[p] /\ i = list[r]
    BY <1>11, <2>1
  <2>3. s[p].cls = c /\ s[p].data.name = n /\ s[r].cls = c /\ s[r].data.name = n
    BY <1>6, <2>1
  <2> HIDE DEF i
  <2>4. place[p] = place[r]
    BY <1>9, <2>2, <2>3
  <2> QED
    BY <1>11, <2>1, <2>2, <2>4
<1>15. /\ Cardinality(B) \in Nat
       /\ A = {} => Cardinality(B) = 0
       /\ \A p : A = {p} => Cardinality(B) = 1
       /\ (\E p, r \in A : p # r) => Cardinality(B) > 1
  BY <1>4, <1>12, <1>13, <1>14, SameCount
<1> QED
  BY <1>15 DEF Counted, A

(* A function of the index is looked up: the headers that define it.       *)
LEMMA FunctionsCounted ==
  ASSUME NEW d, GoodDirectory(d), NEW h, Whole(d, h), NEW n
  PROVE  Counted(h, "DoxyFunction", n, HeadersWith(d, n))
<1> DEFINE B == HeadersWith(d, n)
<1>1. "DoxyFunction" \in DOMAIN KindOf
  BY DEF KindOf
<1>2. B \subseteq DOMAIN d.index
  BY DEF HeadersWith, OfKind
<1>3. ASSUME NEW i \in DOMAIN d.index, NEW m, m = MemberNodes(d, d.index[i])
      PROVE  /\ i \in B <=> \E q \in 1 .. Len(m) : m[q].cls = "DoxyFunction" /\ m[q].data.name = n
             /\ \A q, r \in 1 .. Len(m) : m[q].cls = "DoxyFunction" /\ m[r].cls = "DoxyFunction"
                   /\ m[q].data.name = m[r].data.name => q = r
  <2>1. ~ Fatal(d, d.index[i])
    BY DEF Whole
  <2> QED
    BY <1>3, <2>1, EntryNodes
<1> HIDE DEF B
<1>4. Gives1(d, "DoxyFunction", n, B)
  BY <1>2, <1>3 DEF Gives1
<1> QED
  BY <1>1, <1>4, EntriesCounted DEF B

(* A file of the index is looked up: the headers of its name.              *)
LEMMA FilesCounted ==
  ASSUME NEW d, GoodDirectory(d), NEW h, Whole(d, h), NEW n, NEW c, c = "DoxyFile"
  PROVE  Counted(h, c, n, {j \in CompoundsOf(d, c) : d.index[j].name = n})
<1> DEFINE B == {j \in CompoundsOf(d, c) : d.index[j].name = n}
<1>1. c \in DOMAIN KindOf /\ c \in {"DoxyClass", "DoxyFile"}
  BY DEF KindOf
<1>2. B \subseteq DOMAIN d.index
  BY DEF CompoundsOf
<1>3. ASSUME NEW i \in DOMAIN d.index, NEW m, m = MemberNodes(d, d.index[i])
      PROVE  /\ i \in B <=> \E q \in 1 .. Len(m) : m[q].cls = c /\ m[q].data.name = n
             /\ \A q, r \in 1 .. Len(m) : m[q].cls = c /\ m[r].cls = c => q = r
  <2> DEFINE e == Parsed(d.index[i])
  <2>1. ~ Fatal(d, d.index[i])
    BY DEF Whole
  <2>2. /\ \A q \in 1 .. Len(m) : m[q].cls = c => m[q] = e /\ i \in CompoundsOf(d, c)
        /\ i \in CompoundsOf(d, c) => \E q \in 1 .. Len(m) : m[q].cls = c /\ m[q] = e
        /\ \A q, r \in 1 .. Len(m) : m[q].cls = c /\ m[r].cls = c => q = r
    BY <1>1, <1>3, <2>1, EntryCompound
  <2>3. i \in B <=> i \in CompoundsOf(d, c) /\ e.data.name = n
    BY DEF Parsed
  <2> HIDE DEF B, e
  <2> QED
    BY <2>2, <2>3
<1> HIDE DEF B
<1>4. Gives1(d, c, n, B)
  BY <1>2, <1>3 DEF Gives1
<1>5. Counted(h, c, n, B)
  BY <1>1, <1>4, EntriesCounted
<1> QED
  BY <1>5 DEF B

\* The object o is that of an entry that is a class.
IsEntry(d, h, o, i) ==
  /\ o \in Ids(h) /\ i \in OfKind(d, "class")
  /\ h.objects[o].cls = "DoxyClass"
  /\ h.objects[o].data = d.index[i] /\ h.objects[o].refid = d.index[i].refid

(* The classes among the members are those of index.xml.                   *)
LEMMA ClassesAre ==
  ASSUME NEW d, GoodDirectory(d), NEW h, Whole(d, h)
  PROVE  LET ms == h.objects[Index].members IN
         /\ \A p \in DOMAIN ms : IsOfClass(h, "DoxyClass", ms[p]) => \E i : IsEntry(d, h, ms[p], i)
         /\ \A i \in OfKind(d, "class") : \E p \in DOMAIN ms :
               IsOfClass(h, "DoxyClass", ms[p]) /\ IsEntry(d, h, ms[p], i)
<1> DEFINE ms == h.objects[Index].members
           m == NodesOf(d)
           k == Len(d.index)
           c == "DoxyClass"
<1>1. PICK s, list, place : FromEntries(d, h, s, list, place)
  BY WholeFrom
<1>2. Len(h.objects) \in Nat
  BY WholeListed, ObjectFields DEF Whole, Fine, Good
<1>3. k \in Nat /\ DOMAIN d.index = 1 .. k
  BY DirectoryHas
<1>4. c \in DOMAIN KindOf /\ KindOf[c] = "class" /\ c \in {"DoxyClass", "DoxyFile"}
  BY DEF KindOf
<1>5. /\ DOMAIN ms = 1 .. Len(s) /\ Len(s) \in Nat
      /\ Comes(m, k, s, list, place)
  BY <1>1 DEF FromEntries
<1>6. ASSUME NEW i \in DOMAIN d.index
      PROVE  /\ \A q \in 1 .. Len(m[i]) : m[i][q].cls = c =>
                   m[i][q] = Parsed(d.index[i]) /\ i \in CompoundsOf(d, c)
             /\ i \in CompoundsOf(d, c) =>
                   \E q \in 1 .. Len(m[i]) : m[i][q].cls = c /\ m[i][q] = Parsed(d.index[i])
  <2>1. m[i] = MemberNodes(d, d.index[i]) /\ ~ Fatal(d, d.index[i])
    BY DEF NodesOf, Whole
  <2> DEFINE nodes == m[i]
  <2> HIDE DEF m
  <2>2. nodes = MemberNodes(d, d.index[i])
    BY <2>1
  <2> HIDE DEF nodes, c
  <2>3. /\ \A q \in 1 .. Len(nodes) : nodes[q].cls = c =>
               nodes[q] = Parsed(d.index[i]) /\ i \in CompoundsOf(d, c)
        /\ i \in CompoundsOf(d, c) =>
               \E q \in 1 .. Len(nodes) : nodes[q].cls = c /\ nodes[q] = Parsed(d.index[i])
    BY <1>4, <2>1, <2>2, EntryCompound
  <2> QED
    BY <2>3 DEF nodes
<1>7. \A i : i \in CompoundsOf(d, c) <=> i \in OfKind(d, "class")
  BY <1>4 DEF CompoundsOf, OfKind
<1>8. \A i \in DOMAIN d.index : Parsed(d.index[i]).data = d.index[i]
         /\ Parsed(d.index[i]).refid = d.index[i].refid
  BY DEF Parsed
<1>9. \A p \in 1 .. Len(s) :
         /\ IsOfClass(h, c, ms[p]) <=> s[p].cls = c
         /\ IsOfClass(h, c, ms[p]) => /\ ms[p] \in Ids(h) /\ h.objects[ms[p]].cls = c
                                      /\ h.objects[ms[p]].data = s[p].data
                                      /\ h.objects[ms[p]].refid = s[p].refid
  BY <1>1, <1>2, <1>4, MemberIs
<1> HIDE DEF m, k, ms
<1>10. /\ \A p \in 1 .. Len(s) : /\ list[p] \in 1 .. k /\ place[p] \in 1 .. Len(m[list[p]])
                                 /\ s[p] = m[list[p]][place[p]]
       /\ \A i \in 1 .. k : \A q \in 1 .. Len(m[i]) :
             \E p \in 1 .. Len(s) : list[p] = i /\ place[p] = q
  BY <1>5 DEF Comes
<1>11. ASSUME NEW p \in 1 .. Len(s), NEW i \in DOMAIN d.index, i \in CompoundsOf(d, c),
              s[p] = Parsed(d.index[i]), s[p].cls = c
       PROVE  IsOfClass(h, c, ms[p]) /\ IsEntry(d, h, ms[p], i)
  BY <1>7, <1>8, <1>9, <1>11 DEF IsEntry
<1>12. ASSUME NEW p \in 1 .. Len(s), IsOfClass(h, c, ms[p])
       PROVE  \E i : IsEntry(d, h, ms[p], i)
  <2> DEFINE i == list[p]
             q == place[p]
  <2>1. i \in 1 .. k /\ q \in 1 .. Len(m[i]) /\ s[p] = m[i][q] /\ s[p].cls = c
    BY <1>9, <1>10, <1>12
  <2> HIDE DEF i, q
  <2>2. i \in DOMAIN d.index
    BY <1>3, <2>1
  <2>3. s[p] = Parsed(d.index[i]) /\ i \in CompoundsOf(d, c)
    BY <1>6, <2>1, <2>2
  <2>4. IsEntry(d, h, ms[p], i)
    BY <1>11, <2>1, <2>2, <2>3
  <2> QED
    BY <2>4
<1>13. ASSUME NEW i \in OfKind(d, "class")
       PROVE  \E p \in DOMAIN ms : IsOfClass(h, c, ms[p]) /\ IsEntry(d, h, ms[p], i)
  <2>1. i \in CompoundsOf(d, c) /\ i \in DOMAIN d.index
    BY <1>7 DEF OfKind
  <2>2. PICK q \in 1 .. Len(m[i]) : m[i][q].cls = c /\ m[i][q] = Parsed(d.index[i])
    BY <1>6, <2>1
  <2>3. PICK p \in 1 .. Len(s) : list[p] = i /\ place[p] = q
    BY <1>3, <1>10, <2>1
  <2>4. s[p] = m[i][q]
    BY <1>10, <2>3
  <2>5. IsOfClass(h, c, ms[p]) /\ IsEntry(d, h, ms[p], i)
    BY <1>11, <2>1, <2>2, <2>4
  <2> QED
    BY <1>5, <2>5
<1> QED
  BY <1>5, <1>12, <1>13 DEF ms

-----------------------------------------------------------------------------
(* The blocks that are found.                                              *)

(* Every class of a list has been asked whether it is a block.             *)
LEMMA SelectAllExact ==
  ASSUME GoodDirectory(corpus), NEW h, Fine(corpus, h), Ok(h), h.result = <<>>, Calm(corpus, h),
         NEW s \in Seq(Nat), \A i \in DOMAIN s : s[i] \in 0 .. Len(h.objects),
         \A i \in DOMAIN s : IsOfClass(h, "DoxyClass", s[i]) => h.objects[s[i]].data # Unknown
  PROVE  Selected(h, s, ForEach(h, s, SelectBlock), Len(s))
<1> DEFINE n == Len(s)
           g == ForEach(h, s, SelectBlock)
<1>1. n \in Nat /\ DOMAIN s = 1 .. n
  BY LenProperties
<1>2. PICK f : Turns(f, "select", 0, h, s) /\ g = f[n]
  BY <1>1, SelectTurns
<1>3. /\ f[0] = h
      /\ \A k \in 1 .. n : f[k] = IF Ok(f[k - 1]) THEN SelectBlock(f[k - 1], s[k]) ELSE f[k - 1]
  BY <1>2 DEF Turns, PassOf
<1> HIDE DEF n, g
<1> DEFINE S == {k \in 0 .. n : Selected(h, s, f[k], k)}
<1>4. 0 \in S
  <2>1. Serves(corpus, h, h) /\ <<>> \in Seq(Nat) /\ DOMAIN <<>> = {}
    BY ServesRefl, EmptySeq
  <2>2. Classed(h, s, 0) = {}
    BY DEF Classed
  <2>3. Selected(h, s, f[0], 0)
    BY <1>3, <2>1, <2>2 DEF Selected
  <2> QED
    BY <1>1, <2>3
<1>5. ASSUME NEW k \in 0 .. n - 1, k \in S PROVE k + 1 \in S
  <2>1. /\ k + 1 \in 1 .. n /\ k + 1 \in 0 .. n /\ (k + 1) - 1 = k /\ k \in Nat
        /\ k + 1 \in DOMAIN s /\ s[k + 1] \in 0 .. Len(h.objects)
        /\ IsOfClass(h, "DoxyClass", s[k + 1]) => h.objects[s[k + 1]].data # Unknown
    BY <1>1
  <2>2. Selected(h, s, f[k], k)
    BY <1>5
  <2>3. f[k + 1] = IF Ok(f[k]) THEN SelectBlock(f[k], s[k + 1]) ELSE f[k]
    BY <1>3, <2>1
  <2> DEFINE x == f[k]
             e == SelectBlock(x, s[k + 1])
  <2>4. f[k + 1] = IF Ok(x) THEN e ELSE x
    BY <2>3
  <2>5. Selected(h, s, x, k)
    BY <2>2
  <2> HIDE DEF S, x
  <2>6. Ok(x) => Selected(h, s, e, k + 1)
    BY <2>1, <2>5, SelectOne
  <2>7. ~ Ok(x) => Selected(h, s, x, k + 1)
    <3>1. Classed(h, s, k) \subseteq Classed(h, s, k + 1)
      BY <2>1 DEF Classed
    <3> QED
      BY <2>5, <3>1 DEF Selected
  <2> HIDE DEF e
  <2>8. Selected(h, s, f[k + 1], k + 1)
    BY <2>4, <2>6, <2>7
  <2> QED
    BY <2>1, <2>8 DEF S
<1>6. n \in S
  <2>1. n \in 0 .. n
    BY <1>1
  <2> HIDE DEF S
  <2> QED
    BY <1>1, <1>4, <1>5, <2>1, Induction
<1> QED
  BY <1>2, <1>6 DEF g, n

(* The class of an entry remains its class.                                *)
LEMMA IsEntryOn ==
  ASSUME NEW d, NEW h, Fine(d, h), NEW g, Serves(d, h, g)
  PROVE  \A o, i : IsEntry(d, h, o, i) => IsEntry(d, g, o, i)
<1>1. Ids(h) \subseteq Ids(g)
  BY ServesIds
<1>2. \A o \in Ids(h) : SameObject(h.objects[o], g.objects[o])
  BY DEF Serves, Grows
<1> QED
  BY <1>1, <1>2 DEF IsEntry, SameObject

(* What an entry that is a class has, its object has.                      *)
LEMMA EntryObject ==
  ASSUME NEW d, NEW h, NEW o, NEW i, IsEntry(d, h, o, i)
  PROVE  /\ FileOf(d, h, o) = StateOf(d, i)
         /\ BlockObject(d, h.objects[o]) <=> i \in BlocksOf(d)
BY DEF IsEntry, FileOf, StateOf, BlockObject, BlocksOf

\* The directories in which the blocks cannot be found.
Unreadable(d) ==
  \/ \E i \in DOMAIN d.index : Fatal(d, d.index[i])
  \/ \E i \in OfKind(d, "class") : StateOf(d, i) = "raises"

\* The objects of a list are those of the blocks of the directory.
AreBlocks(d, h, s) ==
  /\ \A j \in DOMAIN s : \E i \in BlocksOf(d) : IsEntry(d, h, s[j], i)
  /\ \A i \in BlocksOf(d) : \E j \in DOMAIN s : IsEntry(d, h, s[j], i)

(* A list that was selected from the members of the index.                 *)
LEMMA SelectedBlocks ==
  ASSUME GoodDirectory(corpus), NEW h, Whole(corpus, h), NEW s, s = h.objects[Index].members,
         NEW g, Selected(h, s, g, Len(s)), DOMAIN s = 1 .. Len(s)
  PROVE  /\ Ok(g) => ~ Unreadable(corpus) /\ AreBlocks(corpus, g, g.result)
         /\ ~ Ok(g) => Unreadable(corpus)
<1> DEFINE K == Classed(h, s, Len(s))
           list == g.result
<1>1. /\ \A p \in DOMAIN s : IsOfClass(h, "DoxyClass", s[p]) => \E i : IsEntry(corpus, h, s[p], i)
      /\ \A i \in OfKind(corpus, "class") : \E p \in DOMAIN s :
            IsOfClass(h, "DoxyClass", s[p]) /\ IsEntry(corpus, h, s[p], i)
  BY ClassesAre
<1>2. \A p : p \in K <=> p \in DOMAIN s /\ IsOfClass(h, "DoxyClass", s[p])
  BY DEF Classed
<1>3. \A p, i : IsEntry(corpus, h, s[p], i) =>
         /\ FileOf(corpus, h, s[p]) = StateOf(corpus, i)
         /\ BlockObject(corpus, h.objects[s[p]]) <=> i \in BlocksOf(corpus)
         /\ i \in OfKind(corpus, "class")
  BY EntryObject DEF IsEntry
<1>4. Serves(corpus, h, g) /\ \A o, i : IsEntry(corpus, h, o, i) => IsEntry(corpus, g, o, i)
  BY IsEntryOn DEF Selected, Whole
<1> HIDE DEF K
<1>5. CASE ~ Ok(g)
  <2>1. PICK p \in K : FileOf(corpus, h, s[p]) = "raises"
    BY <1>5 DEF Selected, K
  <2>2. PICK i : IsEntry(corpus, h, s[p], i)
    BY <1>1, <1>2
  <2>3. StateOf(corpus, i) = "raises" /\ i \in OfKind(corpus, "class")
    BY <1>3, <2>1, <2>2
  <2> QED
    BY <1>5, <2>3 DEF Unreadable
<1>6. CASE Ok(g)
  <2>1. /\ \A p \in K : /\ FileOf(corpus, h, s[p]) # "raises"
                        /\ BlockObject(corpus, h.objects[s[p]]) =>
                              \E j \in DOMAIN list : list[j] = s[p]
        /\ \A j \in DOMAIN list : \E p \in K :
              BlockObject(corpus, h.objects[s[p]]) /\ list[j] = s[p]
    BY <1>6 DEF Selected, K
  <2>2. ~ \E i \in DOMAIN corpus.index : Fatal(corpus, corpus.index[i])
    BY DEF Whole
  <2>3. ASSUME NEW i \in OfKind(corpus, "class")
        PROVE  \E p \in K : IsEntry(corpus, h, s[p], i)
    BY <1>1, <1>2
  <2>4. ASSUME NEW i \in OfKind(corpus, "class") PROVE StateOf(corpus, i) # "raises"
    BY <1>3, <2>1, <2>3
  <2>5. ASSUME NEW i \in BlocksOf(corpus) PROVE \E j \in DOMAIN list : IsEntry(corpus, g, list[j], i)
    <3>1. i \in OfKind(corpus, "class")
      BY DEF BlocksOf
    <3>2. PICK p \in K : IsEntry(corpus, h, s[p], i)
      BY <2>3, <3>1
    <3>3. BlockObject(corpus, h.objects[s[p]])
      BY <1>3, <3>2
    <3>4. PICK j \in DOMAIN list : list[j] = s[p]
      BY <2>1, <3>3
    <3> QED
      BY <1>4, <3>2, <3>4
  <2>6. ASSUME NEW j \in DOMAIN list
        PROVE  \E i \in BlocksOf(corpus) : IsEntry(corpus, g, list[j], i)
    <3>1. PICK p \in K : BlockObject(corpus, h.objects[s[p]]) /\ list[j] = s[p]
      BY <2>1
    <3>2. PICK i : IsEntry(corpus, h, s[p], i)
      BY <1>1, <1>2
    <3>3. i \in BlocksOf(corpus)
      BY <1>3, <3>1, <3>2
    <3>4. IsEntry(corpus, g, list[j], i)
      BY <1>4, <3>1, <3>2
    <3> QED
      BY <3>3, <3>4
  <2> QED
    BY <1>6, <2>2, <2>4, <2>5, <2>6 DEF Unreadable, AreBlocks
<1> QED
  BY <1>5, <1>6

(* The index is read when it is first asked for something.                 *)
LEMMA IndexRead ==
  ASSUME GoodDirectory(corpus), NEW h, Fine(corpus, h), Ok(h), ~ h.objects[Index].parsed
  PROVE  LET c == ConfirmNoError(h, Index) IN
         /\ Serves(corpus, h, c)
         /\ Ok(c) => /\ Whole(corpus, c) /\ Calm(corpus, c)
                     /\ c.objects[Index].inCategory = <<>>
         /\ ~ Ok(c) => Unreadable(corpus)
<1> DEFINE p == ParseIndex(h)
           c == ConfirmNoError(h, Index)
           o == CheckParsed(h, Index)
<1>1. Index \in Ids(h) /\ ObjectFits(corpus, h, Index) /\ Len(h.objects) = 1
  BY DEF Fine, Good
<1>2. o = p
  BY <1>1 DEF CheckParsed, Object, ObjectFits
<1>3. /\ Only(h, p, Index) /\ p.objects[Index].parsed /\ Building(p, Index)
      /\ Fills(corpus, h, p)
      /\ Ok(p) => Listed(corpus, p, Len(corpus.index))
      /\ ~ Ok(p) => \E i \in DOMAIN corpus.index : Fatal(corpus, corpus.index[i])
  BY ParseIndexFits
<1>4. c = IF Ok(o) THEN IF o.objects[Index].error THEN Raise(o, "ParsingError") ELSE o ELSE o
  BY SMT DEF ConfirmNoError, Then, Object
<1> HIDE DEF p, o, c
<1>5. ~ p.objects[Index].error /\ p.objects[Index].inCategory = <<>>
  BY <1>3 DEF Building
<1>6. c = p
  BY <1>2, <1>4, <1>5
<1>7. Serves(corpus, h, c)
  BY <1>1, ConfirmNoErrorFits DEF Confirms, c
<1>8. ASSUME Ok(c) PROVE Whole(corpus, c)
  <2>1. \A i \in DOMAIN corpus.index : ~ Fatal(corpus, corpus.index[i])
    BY <1>3, <1>6, <1>8, DirectoryHas DEF Listed
  <2> QED
    BY <1>3, <1>6, <1>7, <2>1 DEF Whole, Serves
<1>9. Calm(corpus, c)
  <2>1. Ids(h) = {Index}
    BY <1>1 DEF Ids, Index
  <2>2. p.objects[Index].cls = "DoxyIndex"
    BY <1>1, <1>3 DEF Only, SameObject, ObjectFits
  <2>3. ASSUME NEW q \in Ids(p), p.objects[q].cls = "DoxyClass", p.objects[q].parsed
        PROVE  FALSE
    <3>1. q \in Ids(p) \ Ids(h)
      BY <2>1, <2>2, <2>3
    <3>2. p.objects[q].cls = "DoxyFile"
      BY <1>3, <2>3, <3>1 DEF Fills
    <3> QED
      BY <2>3, <3>2
  <2> QED
    BY <1>6, <2>3 DEF Calm
<1> QED
  BY <1>3, <1>5, <1>6, <1>7, <1>8, <1>9 DEF Unreadable, c

\* What in_category(Block) of a new index ends with.
BlocksFound(g) ==
  /\ Ok(g) => Whole(corpus, g) /\ ~ Unreadable(corpus) /\ AreBlocks(corpus, g, g.result)
  /\ ~ Ok(g) => Unreadable(corpus)

(* in_category(Block) of a new index: it finds the blocks, all of them and *)
(* nothing else, unless a file it needs cannot be used.                    *)
LEMMA BlocksExact ==
  ASSUME GoodDirectory(corpus), NEW h, Fine(corpus, h), Ok(h), ~ h.objects[Index].parsed
  PROVE  BlocksFound(InCategory(h, Index, "Block"))
<1> DEFINE cat == "Block"
           g == InCategory(h, Index, cat)
           c == ConfirmNoError(h, Index)
           a == Answer(c, <<>>)
           ms == c.objects[Index].members
           x == ForEach(a, ms, SelectBlock)
           r == Remember(x, Index, cat, x.result)
<1>1. /\ Serves(corpus, h, c)
      /\ Ok(c) => /\ Whole(corpus, c) /\ Calm(corpus, c)
                  /\ c.objects[Index].inCategory = <<>>
      /\ ~ Ok(c) => Unreadable(corpus)
  BY IndexRead
<1>2. g = IF Ok(c)
          THEN IF cat \in DOMAIN c.objects[Index].inCategory
               THEN Answer(c, c.objects[Index].inCategory[cat])
               ELSE IF Ok(x) THEN r ELSE x
          ELSE c
  <2> DEFINE Keep(z) == Remember(z, Index, cat, z.result)
             Do(z) == IF cat \in DOMAIN z.objects[Index].inCategory
                      THEN Answer(z, z.objects[Index].inCategory[cat])
                      ELSE Then(ForEach(Answer(z, <<>>), z.objects[Index].members, SelectBlock), Keep)
  <2>1. g = Then(c, Do)
    BY DEF InCategory, Object
  <2>2. r = Keep(x)
    OBVIOUS
  <2> HIDE DEF c, g, Keep, x, r
  <2>3. Do(c) = IF cat \in DOMAIN c.objects[Index].inCategory
                THEN Answer(c, c.objects[Index].inCategory[cat])
                ELSE IF Ok(x) THEN r ELSE x
    <3>1. Then(x, Keep) = IF Ok(x) THEN Keep(x) ELSE x
      BY SMT DEF Then
    <3> QED
      BY <2>2, <3>1 DEF x
  <2> HIDE DEF Do
  <2>4. Then(c, Do) = IF Ok(c) THEN Do(c) ELSE c
    BY SMT DEF Then
  <2> QED
    BY <2>1, <2>3, <2>4
<1>3. DOMAIN <<>> = {}
  BY EmptySeq
<1>4. Index \in Ids(h)
  BY DEF Fine, Good
<1>5. /\ Serves(corpus, h, g)
      /\ Ok(g) => g.objects[Index].parsed
  <2>1. "Block" \in Categories \ {None}
    BY DEF Categories, None
  <2> QED
    BY <1>4, <2>1, InCategoryFits
<1> HIDE DEF c, g, x, r
<1>6. CASE ~ Ok(c)
  BY <1>1, <1>2, <1>6 DEF BlocksFound, g
<1>7. CASE Ok(c)
  <2>1. Whole(corpus, c) /\ Calm(corpus, c) /\ Fine(corpus, c) /\ Heap(c) /\ Index \in Ids(c)
    BY <1>1, <1>7, WholeListed DEF Whole, Fine, Good
  <2>2. /\ ms \in Seq(Nat) /\ DOMAIN ms = 1 .. Len(ms)
        /\ \A i \in DOMAIN ms : ms[i] \in 0 .. Len(c.objects)
    BY <2>1, ObjectFields, LenProperties DEF Obj, Fine, Good, ObjectFits
  <2>3. /\ a.objects = c.objects /\ a.result = <<>> /\ a.raised = c.raised
        /\ Serves(corpus, c, a) /\ Fine(corpus, a)
    BY <2>1, ServesSame DEF Serves
  <2>4. Nameable(c, Index, "DoxyClass")
    <3>1. "DoxyClass" \in DOMAIN KindOf
      BY DEF KindOf
    <3> QED
      BY <2>1, <3>1, IndexNameable
  <2>5. \A i \in DOMAIN ms : IsOfClass(c, "DoxyClass", ms[i]) => c.objects[ms[i]].data # Unknown
    BY <2>4 DEF Nameable
  <2>6. ms = a.objects[Index].members
    BY <2>3
  <2> HIDE DEF a, ms
  <2>7. /\ Ok(a) /\ Calm(corpus, a) /\ Whole(corpus, a)
        /\ \A i \in DOMAIN ms : ms[i] \in 0 .. Len(a.objects)
        /\ \A i \in DOMAIN ms : IsOfClass(a, "DoxyClass", ms[i]) => a.objects[ms[i]].data # Unknown
    <3>1. Ok(a) /\ Whole(corpus, a)
      BY <1>7, <2>1, <2>3 DEF Ok, Whole
    <3>2. Calm(corpus, a)
      BY <2>1, <2>3 DEF Calm, Ids, FileOf
    <3>3. \A i \in DOMAIN ms : IsOfClass(a, "DoxyClass", ms[i]) => a.objects[ms[i]].data # Unknown
      BY <2>3, <2>5 DEF IsOfClass, Object
    <3> QED
      BY <2>2, <2>3, <3>1, <3>2, <3>3
  <2>8. Selected(a, ms, x, Len(ms))
    BY <2>2, <2>3, <2>7, SelectAllExact DEF x
  <2>9. /\ Ok(x) => ~ Unreadable(corpus) /\ AreBlocks(corpus, x, x.result)
        /\ ~ Ok(x) => Unreadable(corpus)
    BY <2>2, <2>6, <2>7, <2>8, SelectedBlocks
  <2>10. g = IF Ok(x) THEN r ELSE x
    BY <1>1, <1>2, <1>3, <1>7
  <2>11. CASE ~ Ok(x)
    BY <2>9, <2>10, <2>11 DEF BlocksFound, g
  <2>12. CASE Ok(x)
    <3> DEFINE found == x.result
    <3>1. Fine(corpus, x)
      BY <2>8 DEF Selected, Serves
    <3>2. Index \in Ids(x) /\ x.objects[Index].parsed
      <4>1. Serves(corpus, a, x)
        BY <2>8 DEF Selected
      <4>2. Index \in Ids(x) /\ a.objects[Index].parsed /\ Index \in Ids(a)
        BY <2>7, <4>1, ServesIds DEF Whole
      <4> QED
        BY <4>1, <4>2 DEF Serves, Grows, KeptObject
    <3>3. found \in Seq(Nat) /\ \A i \in DOMAIN found : found[i] \in Ids(x)
      <4>1. found \in Seq(Nat)
        BY <2>8, <2>12 DEF Selected
      <4>2. \A i \in DOMAIN found : found[i] \in Ids(x)
        BY <2>9, <2>12 DEF AreBlocks, IsEntry
      <4> QED
        BY <4>1, <4>2
    <3>4. cat \in Categories /\ r = Remember(x, Index, cat, found)
      BY DEF Categories, r
    <3>13. found = ListOf(corpus, x, cat, x.objects[Index].members)
      <4>1. Finds(corpus, a, x) /\ x.result = BlocksAmong(corpus, a, ms)
        BY <2>2, <2>3, <2>7, <2>12, SelectAllFits DEF x
      <4>2. Grows(a, x, Ids(a)) /\ Grows(a, x, {})
        BY <4>1, GrowsLess DEF Finds, Serves
      <4>3. BlocksAmong(corpus, a, ms) = BlocksAmong(corpus, x, ms)
        BY <2>2, <2>7, <4>2, BlocksSame
      <4>4. Index \in Ids(a) /\ a.objects[Index].parsed
        BY <2>7, ServesIds, <2>8 DEF Whole, Selected
      <4>5. x.objects[Index].members = ms
        BY <2>6, <4>2, <4>4 DEF Grows, KeptObject
      <4> QED
        BY <4>1, <4>3, <4>5 DEF ListOf
    <3> HIDE DEF found
    <3>5. Serves(corpus, x, r) /\ r.result = found
      BY <3>1, <3>2, <3>3, <3>4, <3>13, RememberFits
    <3>6. \A o, i : IsEntry(corpus, x, o, i) => IsEntry(corpus, r, o, i)
      BY <3>1, <3>5, IsEntryOn
    <3>7. AreBlocks(corpus, x, found)
      BY <2>9, <2>12 DEF found
    <3>8. AreBlocks(corpus, r, found)
      BY <3>6, <3>7 DEF AreBlocks
    <3>9. g = r
      BY <2>10, <2>12
    <3>10. r.raised = x.raised
      BY <3>1, <3>2, <3>3, <3>4, <3>13, RememberFits
    <3>11. Ok(g)
      BY <2>12, <3>9, <3>10 DEF Ok
    <3>12. Whole(corpus, g)
      BY <1>5, <2>1, <3>11 DEF Whole, Serves
    <3> QED
      BY <2>9, <2>12, <3>5, <3>8, <3>9, <3>11, <3>12 DEF BlocksFound, g
  <2> QED
    BY <2>11, <2>12
<1> QED
  BY <1>6, <1>7

-----------------------------------------------------------------------------
(* Descriptions that are there.                                            *)

\* An object whose descriptions can be asked for.
Telling(d, h, o) ==
  /\ o \in Ids(h)
  /\ \/ h.objects[o].cls = "DoxyFunction"
     \/ h.objects[o].cls \in {"DoxyClass", "DoxyFile"} /\ FileOf(d, h, o) = "ok"

\* A function with a name.
IsFunction(h, f) ==
  f \in Ids(h) /\ h.objects[f].cls = "DoxyFunction" /\ h.objects[f].data # Unknown

\* The names of entries.
NamesIn(es) == {es[i].name : i \in DOMAIN es}

(* The names of no entry, and of one.                                      *)
LEMMA FewNames == NamesIn(<<>>) = {} /\ \A n, docs : NamesIn(<<Entry(n, docs)>>) = {n}
<1>1. DOMAIN <<>> = {}
  BY EmptySeq
<1>2. ASSUME NEW n, NEW docs PROVE NamesIn(<<Entry(n, docs)>>) = {n}
  <2> DEFINE e == Entry(n, docs)
             s == <<e>>
  <2>1. e.name = n
    BY DEF Entry
  <2> HIDE DEF e
  <2>2. DOMAIN s = {1} /\ s[1] = e
    OBVIOUS
  <2> HIDE DEF s
  <2>3. NamesIn(s) = {n}
    BY <2>1, <2>2 DEF NamesIn
  <2> QED
    BY <2>3 DEF s, e
<1> QED
  BY <1>1, <1>2 DEF NamesIn

(* The names of entries after others.                                     *)
LEMMA NamesJoin ==
  ASSUME NEW h, NEW a, NEW b, EntriesFit(h, a), EntriesFit(h, b)
  PROVE  NamesIn(a \o b) = NamesIn(a) \cup NamesIn(b)
<1> DEFINE c == a \o b
<1>1. PICK V, W : a \in Seq(V) /\ b \in Seq(W)
  BY DEF EntriesFit
<1> DEFINE U == V \cup W
<1>2. a \in Seq(U) /\ b \in Seq(U)
  BY <1>1, SeqMonotonic
<1> HIDE DEF U
<1>3. /\ c \in Seq(U) /\ Len(c) = Len(a) + Len(b)
      /\ \A i \in 1 .. Len(a) + Len(b) : c[i] = IF i <= Len(a) THEN a[i] ELSE b[i - Len(a)]
  BY <1>2, ConcatProperties
<1>4. /\ Len(a) \in Nat /\ Len(b) \in Nat /\ DOMAIN a = 1 .. Len(a) /\ DOMAIN b = 1 .. Len(b)
      /\ DOMAIN c = 1 .. Len(c)
  BY <1>2, <1>3, LenProperties
<1> HIDE DEF c
<1>5. \A i \in DOMAIN c : \/ i \in DOMAIN a /\ c[i] = a[i]
                          \/ i - Len(a) \in DOMAIN b /\ c[i] = b[i - Len(a)]
  BY <1>3, <1>4
<1>6. \A i \in DOMAIN a : i \in DOMAIN c /\ c[i] = a[i]
  BY <1>3, <1>4
<1>7. \A i \in DOMAIN b : i + Len(a) \in DOMAIN c /\ c[i + Len(a)] = b[i]
  BY <1>3, <1>4
<1>8. NamesIn(c) = NamesIn(a) \cup NamesIn(b)
  <2>1. ASSUME NEW x \in NamesIn(c) PROVE x \in NamesIn(a) \cup NamesIn(b)
    BY <1>5, <2>1 DEF NamesIn
  <2>2. ASSUME NEW x \in NamesIn(a) PROVE x \in NamesIn(c)
    BY <1>6, <2>2 DEF NamesIn
  <2>3. ASSUME NEW x \in NamesIn(b) PROVE x \in NamesIn(c)
    BY <1>7, <2>3 DEF NamesIn
  <2> QED
    BY <2>1, <2>2, <2>3
<1> QED
  BY <1>8 DEF c

(* They remain so.                                                         *)
LEMMA TellingOn ==
  ASSUME NEW d, NEW h, Fine(d, h), NEW g, Serves(d, h, g)
  PROVE  /\ \A o : Telling(d, h, o) => Telling(d, g, o)
         /\ \A f : IsFunction(h, f) => IsFunction(g, f)
<1>1. Ids(h) \subseteq Ids(g)
  BY ServesIds
<1>2. \A o \in Ids(h) : SameObject(h.objects[o], g.objects[o])
  BY DEF Serves, Grows
<1> QED
  BY <1>1, <1>2 DEF Telling, IsFunction, FileOf, SameObject

(* A function has its name and its description from the start.             *)
LEMMA FunctionTells ==
  ASSUME NEW d, NEW h, NEW f, IsFunction(h, f)
  PROVE  Telling(d, h, f)
BY DEF IsFunction, Telling

(* brief_description and detailed_description: of a class with broken XML  *)
(* they end with a parsing error, which the loops catch.                   *)
LEMMA DataExact ==
  ASSUME GoodDirectory(corpus), NEW h, Fine(corpus, h), Ok(h), NEW o \in Ids(h)
  PROVE  LET g == Data(h, o) IN
         /\ Telling(corpus, h, o) => Ok(g)
         /\ Telling(corpus, h, o) /\ h.objects[o].cls = "DoxyClass" =>
               g.result = corpus.files[h.objects[o].refid].doc
         /\ h.objects[o].cls = "DoxyClass" /\ FileOf(corpus, h, o) = "broken" =>
               g.raised = "ParsingError"
<1> DEFINE c == CheckParsed(h, o)
           k == ConfirmNoError(h, o)
           g == Data(h, o)
           v == IF k.objects[o].cls = "DoxyFunction" THEN k.objects[o].data.doc
                ELSE corpus.files[k.objects[o].refid].doc
<1>1. k = IF Ok(c) THEN IF c.objects[o].error THEN Raise(c, "ParsingError") ELSE c ELSE c
  BY SMT DEF ConfirmNoError, Then, Object
<1>2. g = IF Ok(k) THEN IF k.objects[o].described THEN Answer(k, v) ELSE Raise(k, "KeyError")
          ELSE k
  <2> DEFINE Do(z) == IF z.objects[o].described
                      THEN Answer(z, IF z.objects[o].cls = "DoxyFunction" THEN z.objects[o].data.doc
                                     ELSE corpus.files[z.objects[o].refid].doc)
                      ELSE Raise(z, "KeyError")
  <2>1. g = Then(k, Do)
    BY DEF Data, Object
  <2>2. Do(k) = IF k.objects[o].described THEN Answer(k, v) ELSE Raise(k, "KeyError")
    OBVIOUS
  <2> HIDE DEF g, k, v, Do
  <2>3. Then(k, Do) = IF Ok(k) THEN Do(k) ELSE k
    BY SMT DEF Then
  <2> QED
    BY <2>1, <2>2, <2>3
<1> HIDE DEF c, k, g, v
<1>3. CASE Telling(corpus, h, o)
  <2>1. o # Index
    <3>1. ObjectFits(corpus, h, o)
      BY DEF Fine, Good
    <3> QED
      BY <1>3, <3>1 DEF Telling, ObjectFits
  <2>2. /\ Serves(corpus, h, c) /\ c.objects[o].parsed /\ Only(h, c, o)
        /\ h.objects[o].parsed => c = h
        /\ ~ h.objects[o].parsed =>
              IF Raises(corpus, h.objects[o]) THEN c.raised \in {"Unreadable", "AttributeError"}
              ELSE Ok(c)
    BY <2>1, CheckParsedExact DEF c
  <2>3. ~ Raises(corpus, h.objects[o])
    BY <1>3 DEF Telling, Raises, Reads, FileOf
  <2>4. Ok(c)
    BY <2>2, <2>3
  <2>5. Fine(corpus, c) /\ Telling(corpus, c, o) /\ o \in Ids(c)
    BY <1>3, <2>2, TellingOn, ServesIds
  <2>6. ContentFits(corpus, c, o) /\ ObjectFits(corpus, c, o) /\ c.objects[o].cls # "DoxyIndex"
    BY <2>1, <2>5 DEF Fine, Filled, Good, ObjectFits
  <2>7. c.objects[o].described
    BY <2>2, <2>5, <2>6 DEF ContentFits, Telling, FileOf
  <2>8. ~ c.objects[o].error
    BY <2>6, <2>7 DEF ObjectFits
  <2>9. k = c
    BY <1>1, <2>4, <2>8
  <2>10. g = Answer(k, v)
    BY <1>2, <2>4, <2>7, <2>9
  <2>11. Answer(k, v).raised = k.raised /\ Answer(k, v).result = v
    BY <2>5, <2>9, ServesSame
  <2>12. Ok(g)
    BY <2>4, <2>9, <2>10, <2>11 DEF Ok
  <2>13. ~ (h.objects[o].cls = "DoxyClass" /\ FileOf(corpus, h, o) = "broken")
    BY <1>3 DEF Telling
  <2>14. c.objects[o].cls = h.objects[o].cls /\ c.objects[o].refid = h.objects[o].refid
    BY <2>2 DEF Serves, Grows, SameObject
  <2>15. h.objects[o].cls = "DoxyClass" => v = corpus.files[h.objects[o].refid].doc
    BY <2>9, <2>14 DEF v
  <2> QED
    BY <2>10, <2>11, <2>12, <2>13, <2>15 DEF g
<1>4. CASE h.objects[o].cls = "DoxyClass" /\ FileOf(corpus, h, o) = "broken"
  <2>1. Serves(corpus, h, c) /\ Ok(c) /\ c.objects[o].error
    BY <1>4, ReadClass DEF c
  <2>2. Fine(corpus, c)
    BY <2>1 DEF Serves
  <2>3. k = Raise(c, "ParsingError")
    BY <1>1, <2>1
  <2>4. Raise(c, "ParsingError").raised = "ParsingError"
    BY <2>2, ServesSame
  <2>5. ~ Ok(k)
    BY <2>3, <2>4 DEF Ok, None
  <2>6. g.raised = "ParsingError"
    BY <1>2, <2>3, <2>4, <2>5
  <2>7. ~ Telling(corpus, h, o)
    BY <1>4 DEF Telling
  <2> QED
    BY <2>6, <2>7 DEF g
<1> QED
  BY <1>3, <1>4 DEF g

(* combine_descriptions of one object.                                     *)
LEMMA CombineExact ==
  ASSUME GoodDirectory(corpus), NEW h, Fine(corpus, h), Ok(h), NEW o \in Ids(h)
  PROVE  LET g == CombineDescriptions(h, o) IN
         /\ Telling(corpus, h, o) => Ok(g)
         /\ Telling(corpus, h, o) /\ h.objects[o].cls = "DoxyClass" =>
               g.result = IF corpus.files[h.objects[o].refid].doc THEN <<o>> ELSE <<>>
         /\ h.objects[o].cls = "DoxyClass" /\ FileOf(corpus, h, o) = "broken" =>
               g.raised = "ParsingError"
<1> DEFINE c == Data(h, o)
           w == IF c.result THEN <<o>> ELSE <<>>
           g == CombineDescriptions(h, o)
           Do(x) == Answer(x, IF x.result THEN <<o>> ELSE <<>>)
<1>1. /\ Telling(corpus, h, o) => Ok(c)
      /\ Telling(corpus, h, o) /\ h.objects[o].cls = "DoxyClass" =>
            c.result = corpus.files[h.objects[o].refid].doc
      /\ h.objects[o].cls = "DoxyClass" /\ FileOf(corpus, h, o) = "broken" =>
            c.raised = "ParsingError"
  BY DataExact
<1>2. Serves(corpus, h, c)
  BY DataFits
<1>3. g = Then(c, Do) /\ Do(c) = Answer(c, w)
  BY DEF CombineDescriptions
<1> HIDE DEF c, g, Do, w
<1>4. Then(c, Do) = IF Ok(c) THEN Do(c) ELSE c
  BY SMT DEF Then
<1>5. Fine(corpus, c)
  BY <1>2 DEF Serves
<1>6. Answer(c, w).raised = c.raised /\ Answer(c, w).result = w
  BY <1>5, ServesSame
<1>7. g.raised = c.raised /\ (Ok(c) => g.result = w)
  BY <1>3, <1>4, <1>6
<1>8. Telling(corpus, h, o) /\ h.objects[o].cls = "DoxyClass" =>
        g.result = IF corpus.files[h.objects[o].refid].doc THEN <<o>> ELSE <<>>
  BY <1>1, <1>7 DEF w
<1> QED
  BY <1>1, <1>7, <1>8 DEF g, Ok

(* make_entry.                                                             *)
LEMMA MakeEntryNames ==
  ASSUME NEW d, NEW h, Fine(d, h), NEW n, NEW docs
  PROVE  NamesIn(MakeEntry(h, n, docs).result) = {n} \ OperatorNames
<1> DEFINE one == <<Entry(n, docs)>>
           none == <<>>
           g == MakeEntry(h, n, docs)
<1>1. NamesIn(one) = {n} /\ NamesIn(none) = {}
  BY FewNames
<1>2. g = Answer(h, IF n \in OperatorNames THEN none ELSE one)
  BY DEF MakeEntry
<1> HIDE DEF one, none, g
<1>3. g.result = IF n \in OperatorNames THEN none ELSE one
  BY <1>2, ServesSame
<1> QED
  BY <1>1, <1>3 DEF g

(* make_func_entry.                                                        *)
LEMMA FuncEntryExact ==
  ASSUME GoodDirectory(corpus), NEW h, Fine(corpus, h), Ok(h), NEW f, IsFunction(h, f), NEW n
  PROVE  LET g == MakeFuncEntry(h, f, n) IN
         Ok(g) /\ NamesIn(g.result) = {n} \ OperatorNames
<1> DEFINE c == CombineDescriptions(h, f)
           Do(x) == MakeEntry(x, n, x.result)
           g == MakeFuncEntry(h, f, n)
           docs == c.result
           e == MakeEntry(c, n, docs)
<1>1. f \in Ids(h) /\ Telling(corpus, h, f)
  BY FunctionTells DEF IsFunction
<1>2. Finds(corpus, h, c) /\ Ok(c)
  BY <1>1, CombineFits, CombineExact
<1>3. g = Then(c, Do) /\ Do(c) = e
  BY DEF MakeFuncEntry
<1> HIDE DEF c, g, Do, e
<1>4. Then(c, Do) = IF Ok(c) THEN Do(c) ELSE c
  BY SMT DEF Then
<1>5. g = e
  BY <1>2, <1>3, <1>4
<1>6. Fine(corpus, c) /\ InHeap(c, docs)
  BY <1>2 DEF Finds, Serves
<1> HIDE DEF docs
<1>7. e.raised = c.raised /\ NamesIn(e.result) = {n} \ OperatorNames
  BY <1>6, MakeEntryFits, MakeEntryNames DEF e
<1> QED
  BY <1>2, <1>5, <1>7 DEF g, Ok

(* A turn of the loop of make_class_entry.                                 *)
LEMMA AddFunctionExact ==
  ASSUME GoodDirectory(corpus), NEW g, Fine(corpus, g), Ok(g), EntriesFit(g, g.result),
         NEW k \in Ids(g), NEW f, IsFunction(g, f)
  PROVE  LET e == AddFunction(g, k, f) IN
         /\ Ok(e)
         /\ NamesIn(e.result) = NamesIn(g.result)
              \cup ({g.objects[k].data.name \o g.objects[f].data.name} \ OperatorNames)
<1> DEFINE x == Name(g, f)
           n == x.objects[k].data.name \o x.result
           y == MakeFuncEntry(x, f, n)
           Join(z) == Answer(z, g.result \o z.result)
           Do(w) == Then(MakeFuncEntry(w, f, w.objects[k].data.name \o w.result), Join)
           v == g.result \o y.result
           e == AddFunction(g, k, f)
<1>1. f \in Ids(g) /\ g.objects[f].data # Unknown
  BY DEF IsFunction
<1>2. Serves(corpus, g, x) /\ Ok(x) /\ x.result = g.objects[f].data.name
  BY <1>1, NameFits
<1>3. e = Then(x, Do) /\ Do(x) = Then(y, Join) /\ Join(y) = Answer(y, v)
  BY DEF AddFunction, Object
<1>0. x.objects[k].data = g.objects[k].data
  BY <1>2 DEF Serves, Grows, SameObject
<1>11. n = g.objects[k].data.name \o g.objects[f].data.name
  BY <1>0, <1>2
<1> HIDE DEF x, Do, Join, e, n
<1>4. Then(x, Do) = IF Ok(x) THEN Do(x) ELSE x
  BY SMT DEF Then
<1>5. Fine(corpus, x) /\ f \in Ids(x) /\ IsFunction(x, f)
  BY <1>1, <1>2, ServesIds, TellingOn
<1>6. Ok(y) /\ Enters(corpus, x, y) /\ NamesIn(y.result) = {n} \ OperatorNames
  BY <1>2, <1>5, FuncEntryExact, MakeFuncEntryFits
<1>10. NamesIn(v) = NamesIn(g.result) \cup NamesIn(y.result)
  <2>1. Serves(corpus, g, y) /\ EntriesFit(y, y.result)
    BY <1>2, <1>6, ServesTrans DEF Enters
  <2>2. EntriesFit(y, g.result)
    BY <2>1, EntriesOn
  <2> QED
    BY <2>1, <2>2, NamesJoin
<1> HIDE DEF y, v
<1>7. Then(y, Join) = IF Ok(y) THEN Join(y) ELSE y
  BY SMT DEF Then
<1>8. e = Answer(y, v)
  BY <1>2, <1>3, <1>4, <1>6, <1>7
<1>9. Answer(y, v).raised = y.raised /\ Answer(y, v).result = v
  BY <1>6, ServesSame DEF Enters, Serves
<1> QED
  BY <1>6, <1>8, <1>9, <1>10, <1>11 DEF e, Ok

(* The loop over the member functions of a class.                          *)
LEMMA AddFunctionsExact ==
  ASSUME GoodDirectory(corpus), NEW h, Fine(corpus, h), Ok(h), EntriesFit(h, h.result),
         NEW k \in Ids(h), NEW s, InHeap(h, s), \A i \in DOMAIN s : IsFunction(h, s[i])
  PROVE  LET g == AddFunctions(h, k, s) IN
         /\ Ok(g)
         /\ NamesIn(g.result) = NamesIn(h.result)
              \cup ({h.objects[k].data.name \o h.objects[s[i]].data.name : i \in DOMAIN s}
                    \ OperatorNames)
<1> DEFINE n == Len(s)
           g == AddFunctions(h, k, s)
           full(i) == h.objects[k].data.name \o h.objects[s[i]].data.name
           Of(i) == NamesIn(h.result) \cup ({full(j) : j \in 1 .. i} \ OperatorNames)
<1>1. n \in Nat /\ DOMAIN s = 1 .. n
  BY LenProperties DEF InHeap
<1>2. PICK f : Turns(f, "function", k, h, s) /\ g = f[n]
  BY <1>1, FunctionTurns
<1>3. /\ f[0] = h
      /\ \A i \in 1 .. n : f[i] = IF Ok(f[i - 1]) THEN AddFunction(f[i - 1], k, s[i]) ELSE f[i - 1]
  BY <1>2 DEF Turns, PassOf
<1> HIDE DEF n, g
<1> DEFINE S == {i \in 0 .. n : /\ Enters(corpus, h, f[i]) /\ Ok(f[i])
                               /\ NamesIn(f[i].result) = Of(i)}
<1>4. 0 \in S
  <2>1. Enters(corpus, h, f[0]) /\ Ok(f[0])
    BY <1>3, ServesRefl DEF Enters
  <2>2. Of(0) = NamesIn(h.result)
    <3> HIDE DEF full
    <3>1. {full(j) : j \in 1 .. 0} = {}
      OBVIOUS
    <3> QED
      BY <3>1
  <2> HIDE DEF Of
  <2>3. NamesIn(f[0].result) = Of(0)
    BY <1>3, <2>2
  <2> QED
    BY <1>1, <2>1, <2>3
<1>5. ASSUME NEW i \in 0 .. n - 1, i \in S PROVE i + 1 \in S
  <2>1. i + 1 \in 1 .. n /\ i + 1 \in 0 .. n /\ (i + 1) - 1 = i /\ s[i + 1] \in Ids(h)
        /\ IsFunction(h, s[i + 1])
    BY <1>1 DEF InHeap
  <2>2. Enters(corpus, h, f[i]) /\ Ok(f[i]) /\ NamesIn(f[i].result) = Of(i)
    BY <1>5
  <2>3. f[i + 1] = IF Ok(f[i]) THEN AddFunction(f[i], k, s[i + 1]) ELSE f[i]
    BY <1>3, <2>1
  <2> DEFINE x == f[i]
             m == s[i + 1]
             y == AddFunction(x, k, m)
  <2>4. /\ f[i + 1] = y /\ m \in Ids(h) /\ IsFunction(h, m) /\ Enters(corpus, h, x) /\ Ok(x)
        /\ NamesIn(x.result) = Of(i)
        /\ full(i + 1) = h.objects[k].data.name \o h.objects[m].data.name
    BY <2>1, <2>2, <2>3
  <2>9. Of(i + 1) = Of(i) \cup ({full(i + 1)} \ OperatorNames)
    <3>1. 1 .. (i + 1) = (1 .. i) \cup {i + 1}
      BY <2>1
    <3> HIDE DEF full
    <3> QED
      BY <3>1
  <2> HIDE DEF S, x, m, Of, full
  <2>5. Fine(corpus, x) /\ IsFunction(x, m) /\ k \in Ids(x) /\ EntriesFit(x, x.result)
    BY <2>4, TellingOn, ServesIds DEF Enters, Serves
  <2>6. Enters(corpus, h, y) /\ Ok(y)
        /\ NamesIn(y.result) = NamesIn(x.result)
              \cup ({x.objects[k].data.name \o x.objects[m].data.name} \ OperatorNames)
    BY <2>4, <2>5, AddFunctionFits, AddFunctionExact
  <2>7. x.objects[k].data = h.objects[k].data /\ x.objects[m].data = h.objects[m].data
    BY <2>4 DEF Enters, Serves, Grows, SameObject
  <2>8. NamesIn(y.result) = Of(i + 1)
    BY <2>4, <2>6, <2>7, <2>9
  <2> HIDE DEF y
  <2> QED
    BY <2>1, <2>4, <2>6, <2>8 DEF S
<1>6. n \in S
  <2>1. n \in 0 .. n
    BY <1>1
  <2> HIDE DEF S
  <2> QED
    BY <1>1, <1>4, <1>5, <2>1, Induction
<1>7. Ok(g) /\ NamesIn(g.result) = Of(n)
  BY <1>2, <1>6
<1> QED
  BY <1>1, <1>7 DEF g

(* What is chosen of a list is in the list of what is chosen.              *)
LEMMA ChosenHas ==
  ASSUME NEW V, NEW s \in Seq(V), NEW I \in SUBSET (DOMAIN s)
  PROVE  \A i \in I : \E j \in DOMAIN Chosen(s, I) : Chosen(s, I)[j] = s[i]
<1> DEFINE c == Chosen(s, I)
<1>1. PICK p : Places(s, I, c, p, Len(s))
  BY ChosenPlaces
<1>2. c \in Seq(V)
  BY ChosenIn
<1> HIDE DEF c
<1>3. DOMAIN c = 1 .. Len(c) /\ Len(s) \in Nat /\ DOMAIN s = 1 .. Len(s)
  BY <1>2, LenProperties
<1>4. ASSUME NEW i \in I PROVE \E j \in DOMAIN c : c[j] = s[i]
  <2>1. i <= Len(s)
    BY <1>3
  <2>2. PICK j \in 1 .. Len(c) : p[j] = i
    BY <1>1, <2>1 DEF Places
  <2> QED
    BY <1>1, <1>3, <2>2 DEF Places
<1> QED
  BY <1>4 DEF c

\* The names of the methods of a class, as they are entered.
MethodNames(d, x) ==
  {x.data.name \o n : n \in Kept(d, x.refid, "function")} \ OperatorNames

\* The names make_class_entry makes entries for.
ClassEntries(d, x, docs) ==
  (IF docs = <<>> THEN {} ELSE {x.data.name}) \cup MethodNames(d, x)

\* A class whose file can be read.
Readable(d, h, o) ==
  o \in Ids(h) /\ h.objects[o].cls = "DoxyClass" /\ h.objects[o].data # Unknown
  /\ FileOf(d, h, o) = "ok"

(* It remains one, and remains parsed; parsed, it has what is in the file. *)
LEMMA ReadableOn ==
  ASSUME NEW d, NEW h, Fine(d, h), NEW g, Serves(d, h, g), NEW o, Readable(d, h, o)
  PROVE  /\ Readable(d, g, o) /\ Telling(d, g, o)
         /\ h.objects[o].parsed => g.objects[o].parsed /\ HasFile(d, g, o)
<1>1. Ids(h) \subseteq Ids(g) /\ Fine(d, g) /\ o \in Ids(h) /\ o \in Ids(g)
  BY ServesIds DEF Readable
<1>2. SameObject(h.objects[o], g.objects[o])
  BY <1>1 DEF Serves, Grows
<1>3. Readable(d, g, o) /\ Telling(d, g, o)
  BY <1>1, <1>2 DEF Readable, Telling, FileOf, SameObject
<1>4. h.objects[o].parsed => g.objects[o].parsed
  BY <1>1 DEF Serves, Grows, KeptObject
<1>5. ASSUME g.objects[o].parsed PROVE HasFile(d, g, o)
  <2>1. ObjectFits(d, g, o) /\ g.objects[o].cls # "DoxyIndex"
    BY <1>1, <1>3 DEF Fine, Good, Readable
  <2>2. o # Index
    BY <2>1 DEF ObjectFits
  <2>3. ContentFits(d, g, o)
    BY <1>1, <2>2 DEF Fine, Filled
  <2>4. g.objects[o].described /\ MadeOf(g, g.objects[o].members, Definitions(d.files[g.objects[o].refid]))
    BY <1>3, <1>5, <2>3 DEF ContentFits, Readable, FileOf
  <2>5. ~ g.objects[o].error
    BY <2>1, <2>4 DEF ObjectFits
  <2>6. g.objects[o].refid \in DOMAIN d.files
    BY <1>3 DEF Readable, FileOf, FileState
  <2> QED
    BY <1>5, <2>4, <2>5, <2>6 DEF HasFile
<1> QED
  BY <1>3, <1>4, <1>5

(* An object whose descriptions have been asked for has been parsed.       *)
LEMMA CombineParsed ==
  ASSUME GoodDirectory(corpus), NEW h, Fine(corpus, h), Ok(h), NEW o \in Ids(h)
  PROVE  CombineDescriptions(h, o).objects[o].parsed
<1> DEFINE k == ConfirmNoError(h, o)
           v == IF k.objects[o].cls = "DoxyFunction" THEN k.objects[o].data.doc
                ELSE corpus.files[k.objects[o].refid].doc
           c == Data(h, o)
           w == IF c.result THEN <<o>> ELSE <<>>
           g == CombineDescriptions(h, o)
           Do1(z) == IF z.objects[o].described
                     THEN Answer(z, IF z.objects[o].cls = "DoxyFunction" THEN z.objects[o].data.doc
                                    ELSE corpus.files[z.objects[o].refid].doc)
                     ELSE Raise(z, "KeyError")
           Do2(x) == Answer(x, IF x.result THEN <<o>> ELSE <<>>)
<1>1. k.objects[o].parsed /\ Serves(corpus, h, k)
  BY ConfirmNoErrorFits DEF Confirms
<1>2. /\ c = Then(k, Do1)
      /\ Do1(k) = IF k.objects[o].described THEN Answer(k, v) ELSE Raise(k, "KeyError")
  BY DEF Data, Object
<1>3. g = Then(c, Do2) /\ Do2(c) = Answer(c, w)
  BY DEF CombineDescriptions
<1> HIDE DEF k, v, c, w, g, Do1, Do2
<1>4. Then(k, Do1) = IF Ok(k) THEN Do1(k) ELSE k
  BY SMT DEF Then
<1>5. Then(c, Do2) = IF Ok(c) THEN Do2(c) ELSE c
  BY SMT DEF Then
<1>6. Answer(k, v).objects = k.objects /\ Raise(k, "KeyError").objects = k.objects
  BY <1>1, ServesSame DEF Serves
<1>7. c.objects = k.objects
  BY <1>2, <1>4, <1>6
<1>8. Answer(c, w).objects = c.objects
  <2>1. Fine(corpus, c)
    BY DataFits DEF Serves, c
  <2> QED
    BY <2>1, ServesSame
<1> QED
  BY <1>1, <1>3, <1>5, <1>7, <1>8 DEF g

(* make_class_entry of a class that could be read.                         *)
LEMMA MakeClassEntryExact ==
  ASSUME GoodDirectory(corpus), NEW h, Fine(corpus, h), Ok(h), NEW k, Readable(corpus, h, k),
         h.objects[k].parsed, NEW docs, InHeap(h, docs)
  PROVE  LET g == MakeClassEntry(h, k, docs) IN
         Ok(g) /\ NamesIn(g.result) = ClassEntries(corpus, h.objects[k], docs)
<1> DEFINE own == IF docs = <<>> THEN <<>> ELSE <<Entry(h.objects[k].data.name, docs)>>
           x == Name(h, k)
           cat == "DoxyFunction"
           y == InCategory(x, k, cat)
           s == y.result
           a == Answer(y, own)
           e == AddFunctions(a, k, s)
           Do2(z) == AddFunctions(Answer(z, own), k, z.result)
           Do1(z) == Then(InCategory(z, k, cat), Do2)
           g == MakeClassEntry(h, k, docs)
<1>1. /\ EntriesFit(h, own)
      /\ NamesIn(own) = IF docs = <<>> THEN {} ELSE {h.objects[k].data.name}
  BY FewEntries, FewNames
<1>2. g = Then(x, Do1) /\ Do1(x) = Then(y, Do2) /\ Do2(y) = e
  BY DEF MakeClassEntry, AddFunctions, Object
<1>3. cat \in Categories \ {None, "Block"} /\ cat \in DOMAIN KindOf /\ InCategory(x, k, cat) = InClass(x, k, cat)
  BY CategoriesHave DEF KindOf, InCategory
<1>4. k \in Ids(h) /\ h.objects[k].data # Unknown
  BY DEF Readable
<1>5. Serves(corpus, h, x) /\ Ok(x)
  BY <1>4, NameFits
<1> HIDE DEF g, x, own, cat, Do1, Do2
<1>6. Fine(corpus, x) /\ k \in Ids(x) /\ x.objects[k].parsed /\ HasFile(corpus, x, k)
  BY <1>4, <1>5, ServesIds, ReadableOn
<1>7. ~ x.objects[k].error /\ Nameable(x, k, cat)
  BY <1>3, <1>6, KeptHaving DEF HasFile
<1>8. /\ Serves(corpus, x, y) /\ Ok(y)
      /\ y.result = CategoryMembers(y, k, cat) /\ CategoryListed(y, k, cat)
  BY <1>3, <1>5, <1>6, <1>7, InClassFits
<1> HIDE DEF y, e
<1>9. Fine(corpus, y) /\ k \in Ids(y) /\ Nameable(y, k, cat) /\ Heap(y)
  BY <1>6, <1>7, <1>8, ServesIds, NameableOn
<1>21. Serves(corpus, h, y)
  BY <1>5, <1>8, ServesTrans
<1>22. HasFile(corpus, y, k) /\ SameObject(h.objects[k], y.objects[k])
  BY <1>4, <1>21, ReadableOn DEF Serves, Grows
<1>10. /\ s = y.objects[k].inCategory[cat] /\ cat \in DOMAIN y.objects[k].inCategory
       /\ s \in Seq(Nat) /\ \A i \in DOMAIN s : s[i] \in Ids(y)
  BY <1>3, <1>8 DEF CategoryMembers, CategoryListed
<1> DEFINE ms == y.objects[k].members
           I == {i \in DOMAIN ms : IsOfClass(y, cat, ms[i])}
<1>11. s = Chosen(ms, I) /\ ms \in Seq(Nat)
  <2>1. ObjectFits(corpus, y, k) /\ y.objects[k] \in Obj
    BY <1>9, ObjectFields DEF Fine, Good
  <2>2. s = OfClass(y, cat, ms)
    BY <1>3, <1>10, <2>1 DEF ObjectFits, CachesFit, ListOf
  <2> QED
    BY <2>1, <2>2 DEF OfClass, Obj
<1>12. \A i \in DOMAIN ms : IsOfClass(y, cat, ms[i]) => y.objects[ms[i]].data # Unknown
  BY <1>9 DEF Nameable
<1> DEFINE Kept_ == Kept(corpus, h.objects[k].refid, "function")
<1>23. \A n : Having(y, k, cat, n) # {} <=> n \in Kept_
  <2>1. KindOf[cat] = "function" /\ y.objects[k].refid = h.objects[k].refid
    BY <1>22 DEF KindOf, cat, SameObject
  <2>2. \A n : Having(y, k, cat, n) # {} <=> n \in Kept(corpus, y.objects[k].refid, KindOf[cat])
    BY <1>3, <1>9, <1>22, KeptHaving
  <2> QED
    BY <2>1, <2>2
<1>24. \A n : Having(y, k, cat, n) = {i \in I : y.objects[ms[i]].data.name = n}
  BY DEF Having
<1>25. I \in SUBSET (DOMAIN ms)
  OBVIOUS
<1> HIDE DEF s, ms, I, Kept_
<1>26. {y.objects[s[j]].data.name : j \in DOMAIN s} = Kept_
  <2>1. \A j \in DOMAIN s : \E i \in I : s[j] = ms[i]
    BY <1>11, ChosenIn
  <2>2. \A i \in I : \E j \in DOMAIN s : s[j] = ms[i]
    BY <1>11, <1>25, ChosenHas
  <2>3. ASSUME NEW j \in DOMAIN s PROVE y.objects[s[j]].data.name \in Kept_
    BY <1>23, <1>24, <2>1, <2>3
  <2>4. ASSUME NEW n \in Kept_ PROVE \E j \in DOMAIN s : n = y.objects[s[j]].data.name
    <3>1. PICK i \in I : y.objects[ms[i]].data.name = n
      BY <1>23, <1>24, <2>4
    <3> QED
      BY <2>2, <3>1
  <2> QED
    BY <2>3, <2>4
<1>13. \A j \in DOMAIN s : \E i \in I \cap DOMAIN ms : s[j] = ms[i]
  BY <1>11, ChosenIn
<1>14. ASSUME NEW j \in DOMAIN s PROVE IsFunction(y, s[j])
  <2>1. PICK i \in DOMAIN ms : s[j] = ms[i] /\ IsOfClass(y, cat, ms[i])
    BY <1>13 DEF I
  <2>2. y.objects[s[j]].data # Unknown /\ y.objects[s[j]].cls = "DoxyFunction"
    BY <1>12, <2>1 DEF IsOfClass, Object, cat
  <2> QED
    BY <1>10, <2>2 DEF IsFunction
<1>15. g = e
  <2>1. Then(x, Do1) = IF Ok(x) THEN Do1(x) ELSE x
    BY SMT DEF Then
  <2>2. Then(y, Do2) = IF Ok(y) THEN Do2(y) ELSE y
    BY SMT DEF Then
  <2> QED
    BY <1>2, <1>5, <1>8, <2>1, <2>2
<1>16. /\ a.result = own /\ Ids(a) = Ids(y) /\ Fine(corpus, a) /\ a.raised = y.raised
       /\ a.objects = y.objects
  BY <1>9, ServesSame DEF Serves
<1> HIDE DEF a
<1>17. EntriesFit(a, a.result)
  <2>1. EntriesFit(y, own)
    BY <1>1, <1>21, EntriesOn
  <2> QED
    BY <1>16, <2>1, EntriesSame
<1>18. InHeap(a, s) /\ \A i \in DOMAIN s : IsFunction(a, s[i])
  BY <1>10, <1>14, <1>16 DEF InHeap, IsFunction, s
<1>19. Ok(a)
  BY <1>8, <1>16 DEF Ok
<1>20. /\ Ok(e)
       /\ NamesIn(e.result) = NamesIn(a.result)
            \cup ({a.objects[k].data.name \o a.objects[s[i]].data.name : i \in DOMAIN s}
                  \ OperatorNames)
  <2>1. k \in Ids(a)
    BY <1>9, <1>16
  <2> HIDE DEF s
  <2>2. e = AddFunctions(a, k, s)
    BY DEF e
  <2> HIDE DEF e
  <2> QED
    BY <1>16, <1>17, <1>18, <1>19, <2>1, <2>2, AddFunctionsExact
<1>27. {a.objects[k].data.name \o a.objects[s[i]].data.name : i \in DOMAIN s} \ OperatorNames
          = MethodNames(corpus, h.objects[k])
  <2> DEFINE nm == h.objects[k].data.name
             N == {y.objects[s[j]].data.name : j \in DOMAIN s}
  <2>1. a.objects[k].data.name = nm
    BY <1>16, <1>22 DEF SameObject
  <2>2. {a.objects[k].data.name \o a.objects[s[i]].data.name : i \in DOMAIN s} =
          {nm \o n : n \in N}
    BY <1>16, <2>1
  <2>3. N = Kept_
    BY <1>26
  <2>4. MethodNames(corpus, h.objects[k]) = {nm \o n : n \in Kept_} \ OperatorNames
    BY DEF MethodNames, Kept_
  <2> QED
    BY <2>2, <2>3, <2>4
<1>28. NamesIn(a.result) = IF docs = <<>> THEN {} ELSE {h.objects[k].data.name}
  BY <1>1, <1>16
<1>29. NamesIn(e.result) = ClassEntries(corpus, h.objects[k], docs)
  BY <1>20, <1>27, <1>28 DEF ClassEntries
<1> QED
  BY <1>15, <1>20, <1>29 DEF g

(* The headers among the members of the index can be read.                 *)
LEMMA HeaderTells ==
  ASSUME NEW d, GoodDirectory(d), NEW h, Whole(d, h), NEW c, c = "DoxyFile",
         NEW p \in DOMAIN h.objects[Index].members,
         IsOfClass(h, c, h.objects[Index].members[p])
  PROVE  Telling(d, h, h.objects[Index].members[p])
<1> DEFINE o == h.objects[Index].members[p]
           m == NodesOf(d)
           k == Len(d.index)
<1>1. PICK s, list, place : FromEntries(d, h, s, list, place)
  BY WholeFrom
<1>2. Len(h.objects) \in Nat
  BY WholeListed, ObjectFields DEF Whole, Fine, Good
<1>3. k \in Nat /\ DOMAIN d.index = 1 .. k
  BY DirectoryHas
<1>4. c \in DOMAIN KindOf /\ KindOf[c] = "file" /\ c \in {"DoxyClass", "DoxyFile"}
  BY DEF KindOf
<1>5. p \in 1 .. Len(s) /\ Comes(m, k, s, list, place)
  BY <1>1 DEF FromEntries
<1>6. /\ s[p].cls = c /\ o \in Ids(h) /\ h.objects[o].cls = c
      /\ h.objects[o].refid = s[p].refid
  BY <1>1, <1>2, <1>4, <1>5, MemberIs
<1> DEFINE i == list[p]
           q == place[p]
<1>7. i \in 1 .. k /\ q \in 1 .. Len(m[i]) /\ s[p] = m[i][q]
  BY <1>5 DEF Comes
<1>8. i \in DOMAIN d.index /\ m[i] = MemberNodes(d, d.index[i]) /\ ~ Fatal(d, d.index[i])
  BY <1>3, <1>7 DEF NodesOf, Whole
<1> DEFINE nodes == m[i]
<1>9. nodes = MemberNodes(d, d.index[i]) /\ q \in 1 .. Len(nodes) /\ nodes[q].cls = c
      /\ s[p] = nodes[q]
  BY <1>6, <1>7, <1>8
<1> HIDE DEF i, q, nodes, o
<1>10. nodes[q] = Parsed(d.index[i]) /\ i \in CompoundsOf(d, c)
  BY <1>4, <1>8, <1>9, EntryCompound
<1>11. d.index[i].kind = "file" /\ d.index[i].name \in HeaderNames
  BY <1>4, <1>10 DEF CompoundsOf
<1>12. FileState(d, d.index[i].refid) = "ok"
  BY <1>8, <1>11 DEF Fatal
<1>13. h.objects[o].refid = d.index[i].refid
  BY <1>6, <1>9, <1>10 DEF Parsed
<1> QED
  BY <1>6, <1>12, <1>13 DEF Telling, FileOf, o

(* The functions among the members of the index have names.                *)
LEMMA FunctionsNamed ==
  ASSUME NEW d, GoodDirectory(d), NEW h, Whole(d, h), NEW c, c = "DoxyFunction",
         NEW p \in DOMAIN h.objects[Index].members,
         IsOfClass(h, c, h.objects[Index].members[p])
  PROVE  IsFunction(h, h.objects[Index].members[p])
<1> DEFINE o == h.objects[Index].members[p]
<1>1. PICK s, list, place : FromEntries(d, h, s, list, place)
  BY WholeFrom
<1>2. Len(h.objects) \in Nat
  BY WholeListed, ObjectFields DEF Whole, Fine, Good
<1>3. c \in DOMAIN KindOf /\ p \in 1 .. Len(s)
  BY <1>1 DEF KindOf, FromEntries
<1>4. o \in Ids(h) /\ h.objects[o].cls = c /\ h.objects[o].data = s[p].data /\ s[p].data # Unknown
  BY <1>1, <1>2, <1>3, MemberIs
<1> QED
  BY <1>4 DEF IsFunction

\* What a look-up by a name s in the index ends with, if B are the entries that
\* have it.
LooksUp(h, c, s, B, g) ==
  /\ Serves(corpus, h, g) /\ Cardinality(B) \in Nat
  /\ \/ Cardinality(B) = 1 /\ Ok(g) /\ \E p \in DOMAIN h.objects[Index].members :
           /\ g.result = h.objects[Index].members[p]
           /\ IsOfClass(h, c, g.result) /\ h.objects[g.result].data.name = s
     \/ Cardinality(B) = 0 /\ g.raised = "NoSuchMember"
     \/ Cardinality(B) > 1 /\ g.raised = "Duplicate"

(* get_member of the index, for a name of one word.                        *)
LEMMA IndexLooksUp ==
  ASSUME GoodDirectory(corpus), NEW h, Whole(corpus, h), Ok(h), NEW c \in {"DoxyFunction", "DoxyFile"},
         NEW s, s = <<s[1]>>, NEW B, Counted(h, c, s, B)
  PROVE  LooksUp(h, c, s, B, GetMember(h, Index, s, c))
<1> DEFINE g == GetMember(h, Index, s, c)
           A == Having(h, Index, c, s)
           ms == h.objects[Index].members
           w == s[1]
<1>1. c \in DOMAIN KindOf /\ c \in Categories \ {None, "Block"}
  BY CategoriesHave DEF KindOf
<1>2. Fine(corpus, h) /\ Index \in Ids(h) /\ h.objects[Index].parsed /\ ~ h.objects[Index].error
  BY WholeListed DEF Whole
<1>3. Nameable(h, Index, c)
  BY <1>1, IndexNameable
<1>4. s = <<w>>
  OBVIOUS
<1> HIDE DEF w
<1>5. Serves(corpus, h, g) /\ Answers(h, Index, c, s, g)
  BY <1>1, <1>2, <1>3, <1>4, GetWord
<1>6. \A p \in A : /\ p \in DOMAIN ms /\ IsOfClass(h, c, ms[p])
                  /\ h.objects[ms[p]].data.name = s
  BY DEF Having
<1>7. /\ Cardinality(B) \in Nat
      /\ A = {} => Cardinality(B) = 0
      /\ \A p : A = {p} => Cardinality(B) = 1
      /\ (\E p, r \in A : p # r) => Cardinality(B) > 1
  BY DEF Counted
<1>8. \/ \E p \in A : A = {p} /\ Ok(g) /\ g.result = ms[p]
      \/ A = {} /\ g.raised = "NoSuchMember"
      \/ (\E p, r \in A : p # r) /\ g.raised = "Duplicate"
  BY <1>5 DEF Answers
<1> HIDE DEF A, g, ms
<1>9. CASE A = {} /\ g.raised = "NoSuchMember"
  BY <1>5, <1>7, <1>9 DEF LooksUp, g
<1>10. CASE (\E p, r \in A : p # r) /\ g.raised = "Duplicate"
  BY <1>5, <1>7, <1>10 DEF LooksUp, g
<1>11. ASSUME NEW p \in A, A = {p}, Ok(g), g.result = ms[p]
       PROVE  LooksUp(h, c, s, B, g)
  <2>1. Cardinality(B) = 1
    BY <1>7, <1>11
  <2>2. /\ p \in DOMAIN ms /\ IsOfClass(h, c, g.result)
        /\ h.objects[g.result].data.name = s
    BY <1>6, <1>11
  <2> QED
    BY <1>5, <1>7, <1>11, <2>1, <2>2 DEF LooksUp, ms
<1> QED
  BY <1>8, <1>9, <1>10, <1>11 DEF g

-----------------------------------------------------------------------------
(* The entry of a block.                                                   *)

(* A name of a class is not empty.                                         *)
LEMMA EntryNamed ==
  ASSUME NEW d, GoodDirectory(d), NEW h, NEW o, NEW i, IsEntry(d, h, o, i)
  PROVE  /\ i \in DOMAIN d.index /\ d.index[i].name \in Names
         /\ h.objects[o].data # Unknown /\ h.objects[o].data.name = d.index[i].name
<1>1. i \in DOMAIN d.index /\ h.objects[o].data = d.index[i]
  BY DEF IsEntry, OfKind
<1>2. d.index[i] \in Compounds
  BY <1>1, DirectoryHas
<1> QED
  BY <1>1, <1>2, DataKnown

(* Lists one of which has an element, one after the other.                 *)
LEMMA LongerConcat ==
  ASSUME NEW a \in Seq(Nat), NEW b \in Seq(Nat), a # <<>> \/ b # <<>>
  PROVE  a \o b # <<>>
OBVIOUS

(* The description of the file of a block: it cannot be found when two     *)
(* headers have its name.                                                  *)
LEMMA WithFileDocsExact ==
  ASSUME GoodDirectory(corpus), NEW h, Whole(corpus, h), Ok(h), NEW block, NEW i,
         IsEntry(corpus, h, block, i), Len(corpus.index[i].name) = 1,
         NEW docs, InHeap(h, docs)
  PROVE  LET g == WithFileDocs(h, block, docs) IN
         /\ Cardinality(HeadersOf(corpus, i)) \in Nat
         /\ IF Cardinality(HeadersOf(corpus, i)) > 1 THEN g.raised = "Duplicate" ELSE Ok(g)
         /\ Ok(g) /\ docs # <<>> => g.result # <<>>
<1> DEFINE n == h.objects[block].data.name
           s == make_header_name(n)
           cat == "DoxyFile"
           B == {j \in CompoundsOf(corpus, cat) : corpus.index[j].name = s}
           g == GetMember(h, Index, s, cat)
           c == Answer([g EXCEPT !.raised = None], docs)
           e == DocsOfFound(g, docs)
           x == CombineDescriptions(g, g.result)
           v == docs \o x.result
           Do2(z) == Answer(z, docs \o z.result)
           Do1(z) == Then(CombineDescriptions(z, z.result), Do2)
<1>1. n \in Names /\ n = corpus.index[i].name
  BY EntryNamed
<1>2. WithFileDocs(h, block, docs) = e
  BY DEF WithFileDocs, Object
<1>3. HeadersOf(corpus, i) = B
  <2>1. cat \in DOMAIN KindOf /\ KindOf[cat] = "file"
    BY DEF KindOf
  <2> QED
    BY <1>1, <2>1 DEF HeadersOf, CompoundsOf, OfKind
<1>4. s = <<s[1]>>
  <2> HIDE DEF n
  <2>1. Len(s) = Len(n) /\ (Len(s) = 1 => s = <<s[1]>>)
    BY <1>1, RenamedName DEF make_header_name
  <2> QED
    BY <1>1, <2>1
<1>5. /\ g.raised = "NoSuchMember" => e = c
      /\ g.raised # "NoSuchMember" => e = Then(g, Do1)
      /\ Do1(g) = Then(x, Do2) /\ Do2(x) = Answer(x, v)
  BY DEF DocsOfFound
<1> HIDE DEF s, n
<1>6. Counted(h, cat, s, B)
  BY FilesCounted
<1>7. cat \in {"DoxyFunction", "DoxyFile"}
  OBVIOUS
<1> HIDE DEF cat, B, g, c, e, Do1, Do2
<1>8. LooksUp(h, cat, s, B, g)
  BY <1>4, <1>6, <1>7, IndexLooksUp DEF g
<1>9. Serves(corpus, h, g) /\ Fine(corpus, g) /\ Cardinality(B) \in Nat
  BY <1>8 DEF LooksUp, Serves
<1>10. CASE Cardinality(B) = 0 /\ g.raised = "NoSuchMember"
  <2>1. e = c
    BY <1>5, <1>10
  <2>2. c.raised = None /\ c.result = docs
    <3> DEFINE r == [g EXCEPT !.raised = None]
    <3>1. /\ DOMAIN g = {"objects", "refs", "result", "raised"}
      <4>1. g = [objects |-> g.objects, refs |-> g.refs, result |-> g.result, raised |-> g.raised]
        BY <1>9 DEF Fine, Good, Heap
      <4> QED
        BY <4>1
    <3> QED
      BY <3>1 DEF c, Answer
  <2> QED
    BY <1>2, <1>3, <1>10, <2>1, <2>2 DEF Ok
<1>11. CASE Cardinality(B) > 1 /\ g.raised = "Duplicate"
  <2>1. ~ Ok(g)
    BY <1>11 DEF Ok, None
  <2>2. Then(g, Do1) = IF Ok(g) THEN Do1(g) ELSE g
    BY SMT DEF Then
  <2>3. e = g
    BY <1>5, <1>11, <2>1, <2>2
  <2> QED
    BY <1>2, <1>3, <1>9, <1>11, <2>1, <2>3
<1>12. ASSUME Cardinality(B) = 1, Ok(g), NEW p \in DOMAIN h.objects[Index].members,
              g.result = h.objects[Index].members[p], IsOfClass(h, cat, g.result)
       PROVE  Ok(e) /\ (docs # <<>> => e.result # <<>>)
  <2> DEFINE o == g.result
  <2>1. Telling(corpus, h, o)
    BY <1>12, HeaderTells DEF cat
  <2>2. Telling(corpus, g, o) /\ Fine(corpus, h)
    BY <1>9, <2>1, TellingOn DEF Whole
  <2>3. x = CombineDescriptions(g, o)
    OBVIOUS
  <2> HIDE DEF o, x
  <2>4. Ok(x)
    BY <1>9, <1>12, <2>2, <2>3, CombineExact DEF Telling
  <2>5. Finds(corpus, g, x)
    BY <1>9, <1>12, <2>2, <2>3, CombineFits DEF Telling
  <2>11. docs # <<>> => v # <<>>
    <3>1. docs \in Seq(Nat) /\ x.result \in Seq(Nat)
      BY <2>4, <2>5 DEF InHeap, Finds
    <3> QED
      BY <3>1, LongerConcat
  <2> HIDE DEF v
  <2>6. Then(g, Do1) = IF Ok(g) THEN Do1(g) ELSE g
    BY SMT DEF Then
  <2>7. Then(x, Do2) = IF Ok(x) THEN Do2(x) ELSE x
    BY SMT DEF Then
  <2>8. g.raised # "NoSuchMember"
    BY <1>12 DEF Ok, None
  <2>9. e = Answer(x, v)
    BY <1>5, <1>12, <2>4, <2>6, <2>7, <2>8
  <2>10. Answer(x, v).raised = x.raised /\ Answer(x, v).result = v
    BY <2>5, ServesSame DEF Finds, Serves
  <2> QED
    BY <2>4, <2>9, <2>10, <2>11 DEF Ok
<1>13. \/ Cardinality(B) = 1 /\ Ok(g) /\ \E p \in DOMAIN h.objects[Index].members :
             g.result = h.objects[Index].members[p] /\ IsOfClass(h, cat, g.result)
       \/ Cardinality(B) = 0 /\ g.raised = "NoSuchMember"
       \/ Cardinality(B) > 1 /\ g.raised = "Duplicate"
  BY <1>8 DEF LooksUp
<1>14. CASE Cardinality(B) = 1 /\ Ok(g) /\ \E p \in DOMAIN h.objects[Index].members :
             g.result = h.objects[Index].members[p] /\ IsOfClass(h, cat, g.result)
  BY <1>2, <1>3, <1>9, <1>12, <1>14
<1> QED
  BY <1>10, <1>11, <1>13, <1>14

(* The descriptions of a block, its make function and its file.            *)
LEMMA BlockDocsExact ==
  ASSUME GoodDirectory(corpus), NEW h, Whole(corpus, h), Ok(h), NEW block, NEW i,
         IsEntry(corpus, h, block, i), Len(corpus.index[i].name) = 1, StateOf(corpus, i) = "ok",
         NEW make, IsFunction(h, make)
  PROVE  LET g == BlockDocs(h, block, make) IN
         /\ Cardinality(HeadersOf(corpus, i)) \in Nat
         /\ IF Cardinality(HeadersOf(corpus, i)) > 1 THEN g.raised = "Duplicate"
            ELSE /\ Ok(g) /\ g.objects[block].parsed
                 /\ corpus.files[corpus.index[i].refid].doc => g.result # <<>>
<1> DEFINE x == CombineDescriptions(h, block)
           y == CombineDescriptions(x, make)
           docs == x.result \o y.result
           e == WithFileDocs(y, block, docs)
           Do2(z) == WithFileDocs(z, block, x.result \o z.result)
           Do1(w) == Then(CombineDescriptions(w, make),
                          LAMBDA z : WithFileDocs(z, block, w.result \o z.result))
           g == BlockDocs(h, block, make)
           k == Cardinality(HeadersOf(corpus, i))
<1>1. g = Then(x, Do1) /\ Do1(x) = Then(y, Do2) /\ Do2(y) = e
  BY DEF BlockDocs
<1>2. /\ Fine(corpus, h) /\ block \in Ids(h) /\ make \in Ids(h)
      /\ Telling(corpus, h, block) /\ Telling(corpus, h, make)
  <2>1. Fine(corpus, h) /\ block \in Ids(h) /\ make \in Ids(h) /\ h.objects[block].cls = "DoxyClass"
    BY DEF Whole, IsEntry, IsFunction
  <2>2. FileOf(corpus, h, block) = "ok"
    BY EntryObject
  <2> QED
    BY <2>1, <2>2, FunctionTells DEF Telling
<1>3. /\ Finds(corpus, h, x) /\ Ok(x) /\ x.objects[block].parsed
      /\ corpus.files[corpus.index[i].refid].doc => x.result # <<>>
  <2>1. h.objects[block].refid = corpus.index[i].refid /\ h.objects[block].cls = "DoxyClass"
    BY DEF IsEntry
  <2>2. x.result = IF corpus.files[h.objects[block].refid].doc THEN <<block>> ELSE <<>>
    BY <1>2, <2>1, CombineExact
  <2> QED
    BY <1>2, <2>1, <2>2, CombineFits, CombineExact, CombineParsed
<1> HIDE DEF g, x, Do1, Do2, k
<1>4. Serves(corpus, h, x) /\ Fine(corpus, x) /\ {block, make} \subseteq Ids(x)
  BY <1>2, <1>3, ServesIds DEF Finds
<1>5. Telling(corpus, x, make)
  BY <1>2, <1>4, TellingOn
<1>6. Finds(corpus, x, y) /\ Ok(y)
  BY <1>3, <1>4, <1>5, CombineFits, CombineExact
<1> HIDE DEF y, e
<1>7. g = e
  <2>1. Then(y, Do2) = IF Ok(y) THEN Do2(y) ELSE y
    BY SMT DEF Then
  <2>2. Then(x, Do1) = IF Ok(x) THEN Do1(x) ELSE x
    BY SMT DEF Then
  <2> QED
    BY <1>1, <1>3, <1>6, <2>1, <2>2
<1>8. Serves(corpus, x, y) /\ Serves(corpus, h, y)
  BY <1>2, <1>4, <1>6, ServesTrans DEF Finds
<1>9. Fine(corpus, y) /\ {block, make} \subseteq Ids(y) /\ IsEntry(corpus, y, block, i)
  BY <1>2, <1>8, ServesIds, IsEntryOn
<1>10. Whole(corpus, y)
  <2>1. Index \in Ids(h) /\ h.objects[Index].parsed
    BY WholeListed DEF Whole
  <2>2. y.objects[Index].parsed
    BY <1>8, <2>1 DEF Serves, Grows, KeptObject
  <2> QED
    BY <1>9, <2>2 DEF Whole
<1>11. InHeap(y, docs) /\ (x.result # <<>> => docs # <<>>)
  <2> DEFINE a == x.result
             b == y.result
  <2>1. InHeap(x, a) /\ InHeap(y, b)
    BY <1>3, <1>6 DEF Finds
  <2>2. docs = a \o b
    OBVIOUS
  <2>4. x.result # <<>> => docs # <<>>
    BY <2>1, LongerConcat DEF InHeap
  <2> HIDE DEF a, b, docs
  <2>3. InHeap(y, a)
    BY <1>4, <1>8, <2>1, HeldOn
  <2> QED
    BY <2>1, <2>2, <2>3, <2>4, HeldConcat
<1> HIDE DEF docs
<1>12. /\ k \in Nat /\ IF k > 1 THEN e.raised = "Duplicate" ELSE Ok(e)
       /\ Ok(e) /\ docs # <<>> => e.result # <<>>
  BY <1>6, <1>9, <1>10, <1>11, WithFileDocsExact DEF e, k
<1>13. e.objects[block].parsed
  <2>1. Serves(corpus, y, e)
    BY <1>6, <1>9, <1>11, WithFileDocsFits DEF e, Finds
  <2>2. y.objects[block].parsed
    BY <1>3, <1>4, <1>8 DEF Serves, Grows, KeptObject
  <2> QED
    BY <1>9, <2>1, <2>2 DEF Serves, Grows, KeptObject
<1> QED
  BY <1>3, <1>7, <1>11, <1>12, <1>13 DEF g, k

\* The names of a class that have an entry.
ClassNames(d, i) ==
  (IF d.files[d.index[i].refid].doc THEN {d.index[i].name} ELSE {})
  \cup (MethodsOf(d, i) \ OperatorNames)

(* They are among those make_class_entry makes entries for.               *)
LEMMA ClassEntered ==
  ASSUME NEW d, NEW h, NEW o, NEW i, IsEntry(d, h, o, i), NEW docs
  PROVE  LET names == ClassEntries(d, h.objects[o], docs) IN
         /\ names \subseteq ClassNames(d, i) \cup {d.index[i].name}
         /\ (d.files[d.index[i].refid].doc => docs # <<>>) => ClassNames(d, i) \subseteq names
         /\ docs = (IF d.files[d.index[i].refid].doc THEN <<o>> ELSE <<>>) =>
               names = ClassNames(d, i)
<1> DEFINE x == h.objects[o]
           has == d.files[d.index[i].refid].doc
<1>1. x.data = d.index[i] /\ x.refid = d.index[i].refid
  BY DEF IsEntry
<1>2. MethodNames(d, x) = MethodsOf(d, i) \ OperatorNames
  BY <1>1 DEF MethodNames, MethodsOf
<1>3. ClassEntries(d, x, docs) = (IF docs = <<>> THEN {} ELSE {d.index[i].name})
                                 \cup (MethodsOf(d, i) \ OperatorNames)
  BY <1>1, <1>2 DEF ClassEntries
<1>4. ClassNames(d, i) = (IF has THEN {d.index[i].name} ELSE {})
                         \cup (MethodsOf(d, i) \ OperatorNames)
  BY DEF ClassNames
<1>5. <<o>> # <<>>
  OBVIOUS
<1> HIDE DEF x, has
<1>6. docs = (IF has THEN <<o>> ELSE <<>>) => (docs = <<>> <=> ~ has)
  BY <1>5
<1> QED
  BY <1>3, <1>4, <1>6 DEF x, has

\* What make_block_entry ends with, of the block of an entry and with a make
\* function named m.
BlockMade(d, i, m, g) ==
  LET k == Cardinality(HeadersOf(d, i))
      names == ClassNames(d, i) \cup ({m} \ OperatorNames)
  IN
  /\ k \in Nat
  /\ Ok(g) <=> k <= 1 /\ d.index[i].name \in Kept(d, d.index[i].refid, "function")
  /\ ~ Ok(g) => ~ Handled(g)
  /\ Ok(g) => /\ names \subseteq NamesIn(g.result)
              /\ NamesIn(g.result) \subseteq names \cup {d.index[i].name}

(* A list of one element.                                                  *)
LEMMA OneWord ==
  ASSUME NEW s \in Names, Len(s) = 1
  PROVE  s = <<s[1]>>
<1>1. s \in Seq(STRING)
  BY DEF Names
<1>2. s = [i \in 1 .. Len(s) |-> s[i]]
  BY <1>1
<1>3. 1 .. 1 = {1}
  OBVIOUS
<1>4. s = [i \in {1} |-> s[i]]
  BY <1>2, <1>3
<1>5. <<s[1]>> = [i \in {1} |-> s[1]]
  BY <1>3
<1> QED
  BY <1>4, <1>5

(* The constructor of a block is looked up among its own methods.          *)
LEMMA ConstructorExact ==
  ASSUME GoodDirectory(corpus), NEW h, Fine(corpus, h), Ok(h), NEW block, NEW i,
         IsEntry(corpus, h, block, i), Len(corpus.index[i].name) = 1, StateOf(corpus, i) = "ok",
         h.objects[block].parsed
  PROVE  LET g == GetMember(h, block, h.objects[block].data.name, "DoxyFunction") IN
         /\ Serves(corpus, h, g)
         /\ Ok(g) <=> corpus.index[i].name \in Kept(corpus, corpus.index[i].refid, "function")
         /\ ~ Ok(g) => ~ Handled(g)
<1> DEFINE s == h.objects[block].data.name
           cat == "DoxyFunction"
           r == h.objects[block].refid
           ms == h.objects[block].members
           word == s[1]
           g == GetMember(h, block, s, cat)
<1>1. /\ s \in Names /\ s = corpus.index[i].name /\ r = corpus.index[i].refid
      /\ block \in Ids(h)
  BY EntryNamed DEF IsEntry
<1>2. s = <<word>>
  BY <1>1, OneWord
<1>3. cat \in Categories \ {None, "Block"} /\ cat \in DOMAIN KindOf /\ KindOf[cat] = "function"
  BY CategoriesHave DEF KindOf
<1>4. Readable(corpus, h, block)
  BY EntryNamed, EntryObject DEF Readable, IsEntry
<1>5. Serves(corpus, h, h)
  BY ServesRefl
<1>6. HasFile(corpus, h, block)
  BY <1>4, <1>5, ReadableOn
<1> HIDE DEF s, cat, word, g
<1>7. /\ Having(h, block, cat, s) # {} <=> s \in Kept(corpus, r, KindOf[cat])
      /\ \A p, q \in Having(h, block, cat, s) : p = q
      /\ Nameable(h, block, cat)
  BY <1>1, <1>3, <1>6, KeptHaving
<1>8. ~ h.objects[block].error
  BY <1>6 DEF HasFile
<1> DEFINE e == GetMember(h, block, <<word>>, cat)
<1>9. Serves(corpus, h, e) /\ Answers(h, block, cat, <<word>>, e)
  BY <1>1, <1>3, <1>7, <1>8, GetWord
<1>10. g = e
  BY <1>2 DEF g
<1> HIDE DEF e
<1>11. \/ Having(h, block, cat, s) # {} /\ Ok(g)
       \/ Having(h, block, cat, s) = {} /\ g.raised = "NoSuchMember"
  BY <1>2, <1>7, <1>9, <1>10 DEF Answers
<1>12. /\ Ok(g) <=> s \in Kept(corpus, r, "function")
       /\ ~ Ok(g) => ~ Handled(g)
  BY <1>3, <1>7, <1>11 DEF Ok, None, Handled
<1> QED
  BY <1>1, <1>9, <1>10, <1>12 DEF g, s, cat

(* make_block_entry: it needs the constructor, and at most one header.     *)
LEMMA MakeBlockEntryExact ==
  ASSUME GoodDirectory(corpus), NEW h, Whole(corpus, h), Ok(h), NEW block, NEW i,
         IsEntry(corpus, h, block, i), Len(corpus.index[i].name) = 1, StateOf(corpus, i) = "ok",
         NEW make, IsFunction(h, make)
  PROVE  BlockMade(corpus, i, h.objects[make].data.name, MakeBlockEntry(h, block, make))
<1> DEFINE w == BlockDocs(h, block, make)
           docs == w.result
           x == MakeClassEntry(w, block, docs)
           own == x.result
           cat == "DoxyFunction"
           y == GetMember(x, block, x.objects[block].data.name, cat)
           z == MakeEntry(y, y.objects[make].data.name, docs)
           v == own \o z.result
           Do4(t) == Answer(t, own \o t.result)
           Do3(t) == Then(MakeEntry(t, t.objects[make].data.name, docs), Do4)
           Do2(u) == Then(GetMember(u, block, u.objects[block].data.name, cat),
                          LAMBDA t : Then(MakeEntry(t, t.objects[make].data.name, docs),
                                          LAMBDA r : Answer(r, u.result \o r.result)))
           Do1(q) == Then(MakeClassEntry(q, block, q.result),
                          LAMBDA u : Then(GetMember(u, block, u.objects[block].data.name, cat),
                          LAMBDA t : Then(MakeEntry(t, t.objects[make].data.name, q.result),
                                          LAMBDA r : Answer(r, u.result \o r.result))))
           g == MakeBlockEntry(h, block, make)
           k == Cardinality(HeadersOf(corpus, i))
           m == h.objects[make].data.name
           Named_ == corpus.index[i].name \in Kept(corpus, corpus.index[i].refid, "function")
<1>1. /\ g = Then(w, Do1) /\ Do1(w) = Then(x, Do2) /\ Do2(x) = Then(y, Do3)
      /\ Do3(y) = Then(z, Do4) /\ Do4(z) = Answer(z, v)
  BY DEF MakeBlockEntry, Object
<1>2. Fine(corpus, h) /\ block \in Ids(h) /\ make \in Ids(h)
  BY DEF Whole, IsEntry, IsFunction
<1>3. Finds(corpus, h, w)
  BY <1>2, BlockDocsFits
<1>4. /\ k \in Nat /\ IF k > 1 THEN w.raised = "Duplicate" ELSE Ok(w) /\ w.objects[block].parsed
      /\ k <= 1 /\ corpus.files[corpus.index[i].refid].doc => docs # <<>>
  BY BlockDocsExact
<1> HIDE DEF g, w, cat, k, m, Named_, Do1, Do2, Do3, Do4
<1>5. Then(w, Do1) = IF Ok(w) THEN Do1(w) ELSE w
  BY SMT DEF Then
<1>6. Serves(corpus, h, w) /\ Fine(corpus, w) /\ {block, make} \subseteq Ids(w)
  BY <1>2, <1>3, ServesIds DEF Finds
<1>7. CASE ~ Ok(w)
  <2>1. g = w /\ k > 1 /\ w.raised = "Duplicate"
    BY <1>1, <1>4, <1>5, <1>7
  <2>2. ~ (k <= 1) /\ ~ Handled(g) /\ ~ Ok(g)
    BY <1>4, <1>7, <2>1 DEF Handled
  <2> QED
    BY <1>4, <2>2 DEF BlockMade, g, k
<1>8. CASE Ok(w)
  <2>1. k <= 1 /\ w.objects[block].parsed
    BY <1>4, <1>8 DEF Ok, None
  <2>2. InHeap(w, docs)
    BY <1>3, <1>8 DEF Finds
  <2>3. Readable(corpus, h, block)
    BY EntryNamed, EntryObject DEF Readable, IsEntry
  <2>4. Readable(corpus, w, block)
    BY <1>2, <1>6, <2>3, ReadableOn
  <2> HIDE DEF docs
  <2>5. /\ Enters(corpus, w, x) /\ Ok(x)
        /\ NamesIn(own) = ClassEntries(corpus, w.objects[block], docs)
    BY <1>6, <1>8, <2>1, <2>2, <2>4, MakeClassEntryFits, MakeClassEntryExact
  <2>15. /\ ClassNames(corpus, i) \subseteq NamesIn(own)
         /\ NamesIn(own) \subseteq ClassNames(corpus, i) \cup {corpus.index[i].name}
    <3>1. IsEntry(corpus, w, block, i)
      BY <1>2, <1>6, IsEntryOn
    <3> QED
      BY <1>4, <2>1, <2>5, <3>1, ClassEntered
  <2> HIDE DEF x
  <2>6. Serves(corpus, w, x) /\ Serves(corpus, h, x)
    BY <1>2, <1>6, <2>5, ServesTrans DEF Enters
  <2>7. Fine(corpus, x) /\ {block, make} \subseteq Ids(x) /\ InHeap(x, docs)
    BY <1>6, <2>2, <2>6, ServesIds, HeldOn
  <2>8. IsEntry(corpus, x, block, i) /\ x.objects[block].parsed
    BY <1>2, <1>6, <2>1, <2>6, IsEntryOn DEF Serves, Grows, KeptObject
  <2>9. Then(x, Do2) = IF Ok(x) THEN Do2(x) ELSE x
    BY SMT DEF Then
  <2>10. Serves(corpus, x, y) /\ (Ok(y) <=> Named_) /\ (~ Ok(y) => ~ Handled(y))
    BY <2>5, <2>7, <2>8, ConstructorExact DEF y, cat, Named_
  <2> HIDE DEF y
  <2>11. Then(y, Do3) = IF Ok(y) THEN Do3(y) ELSE y
    BY SMT DEF Then
  <2>12. g = IF Ok(y) THEN Do3(y) ELSE y
    BY <1>1, <1>5, <1>8, <2>5, <2>9, <2>11
  <2>13. CASE ~ Ok(y)
    BY <1>4, <2>10, <2>12, <2>13 DEF BlockMade, g, k, Named_
  <2>14. CASE Ok(y)
    <3>1. Fine(corpus, y) /\ InHeap(y, docs)
      BY <2>7, <2>10, HeldOn DEF Serves
    <3>2. /\ Enters(corpus, y, z) /\ z.raised = y.raised
          /\ NamesIn(z.result) = {y.objects[make].data.name} \ OperatorNames
      <4>1. Enters(corpus, y, z) /\ z.raised = y.raised
        BY <3>1, MakeEntryFits
      <4>2. NamesIn(z.result) = {y.objects[make].data.name} \ OperatorNames
        <5> DEFINE nm == y.objects[make].data.name
        <5>1. z = MakeEntry(y, nm, docs)
          OBVIOUS
        <5> HIDE DEF nm, z
        <5>2. NamesIn(MakeEntry(y, nm, docs).result) = {nm} \ OperatorNames
          BY <3>1, MakeEntryNames
        <5> QED
          BY <5>1, <5>2 DEF nm
      <4> QED
        BY <4>1, <4>2
    <3>8. y.objects[make].data.name = m
      <4>1. Serves(corpus, h, y)
        BY <1>2, <2>6, <2>10, ServesTrans
      <4> QED
        BY <1>2, <4>1 DEF Serves, Grows, SameObject, m
    <3>9. Ok(z) => NamesIn(v) = NamesIn(own) \cup ({m} \ OperatorNames)
      <4> SUFFICES ASSUME Ok(z) PROVE NamesIn(v) = NamesIn(own) \cup ({m} \ OperatorNames)
        OBVIOUS
      <4>1. EntriesFit(x, own) /\ EntriesFit(z, z.result)
        BY <2>5, <3>2 DEF Enters
      <4>2. Serves(corpus, x, z)
        BY <2>7, <2>10, <3>2, ServesTrans DEF Enters
      <4>3. EntriesFit(z, own)
        BY <2>7, <4>1, <4>2, EntriesOn
      <4> QED
        BY <3>2, <3>8, <4>1, <4>3, NamesJoin
    <3> HIDE DEF z, v
    <3>3. Ok(z)
      BY <2>14, <3>2 DEF Ok
    <3>4. Then(z, Do4) = IF Ok(z) THEN Do4(z) ELSE z
      BY SMT DEF Then
    <3>5. g = Answer(z, v)
      BY <1>1, <2>12, <2>14, <3>3, <3>4
    <3>6. Answer(z, v).raised = z.raised /\ Answer(z, v).result = v
      BY <3>2, ServesSame DEF Enters, Serves
    <3>7. Ok(g) /\ g.result = v
      BY <3>3, <3>5, <3>6 DEF Ok
    <3>10. LET names == ClassNames(corpus, i) \cup ({m} \ OperatorNames) IN
           /\ names \subseteq NamesIn(g.result)
           /\ NamesIn(g.result) \subseteq names \cup {corpus.index[i].name}
      BY <2>15, <3>3, <3>7, <3>9
    <3> QED
      BY <1>4, <2>1, <2>10, <2>14, <3>7, <3>10 DEF BlockMade, g, k, m, Named_
  <2> QED
    BY <2>13, <2>14
<1> QED
  BY <1>7, <1>8

-----------------------------------------------------------------------------
(* The turns of the loops, exactly.                                        *)

\* The blocks no entries can be made for.
BlockLacks(d, i) ==
  \/ Cardinality(HeadersWith(d, make_name(d.index[i].name))) # 1
  \/ Cardinality(HeadersOf(d, i)) > 1
  \/ d.index[i].name \notin Kept(d, d.index[i].refid, "function")

(* A directory cannot be used when the blocks cannot be found, or one of   *)
(* them lacks something.                                                   *)
LEMMA UnusableIs ==
  ASSUME NEW d
  PROVE  Unusable(d) <=> Unreadable(d) \/ \E i \in BlocksOf(d) : BlockLacks(d, i)
BY DEF Unusable, Unreadable, BlockLacks

(* An index that has been read remains read.                               *)
LEMMA WholeOn ==
  ASSUME NEW d, NEW h, Whole(d, h), NEW g, Serves(d, h, g)
  PROVE  Whole(d, g)
<1>1. Fine(d, g) /\ Index \in Ids(h)
  BY ServesIds DEF Whole
<1>2. g.objects[Index].parsed
  BY <1>1 DEF Serves, Grows, KeptObject, Whole
<1> QED
  BY <1>1, <1>2 DEF Whole

(* What is known of a heap depends on its objects.                         *)
LEMMA SameObjects ==
  ASSUME NEW d, NEW h, NEW g, Fine(d, g), g.objects = h.objects
  PROVE  /\ Whole(d, h) => Whole(d, g)
         /\ \A o, i : IsEntry(d, h, o, i) => IsEntry(d, g, o, i)
         /\ \A s : AreBlocks(d, h, s) => AreBlocks(d, g, s)
<1>1. Ids(g) = Ids(h)
  BY DEF Ids
<1>2. \A o, i : IsEntry(d, h, o, i) => IsEntry(d, g, o, i)
  BY <1>1 DEF IsEntry
<1>3. Whole(d, h) => Whole(d, g)
  BY DEF Whole
<1>4. \A s : AreBlocks(d, h, s) => AreBlocks(d, g, s)
  BY <1>2 DEF AreBlocks
<1> QED
  BY <1>2, <1>3, <1>4

\* A call that ends with an entry, or with the parsing error that the loops
\* print, if W, and with an exception they do not catch if not.
Survives(g, W) == IF W THEN Ok(g) ELSE ~ Ok(g) /\ ~ Handled(g)

\* A turn of the loop over the blocks, after the look-up of a make function.
MakeOf(h, block) ==
  GetMember(h, Index, make_name(h.objects[block].data.name), "DoxyFunction")
BlockTurn(h, block) ==
  Then(MakeOf(h, block), LAMBDA g : MakeBlockEntry(g, block, g.result))

\* The names a block has an entry for, and its own.
BlockNames(d, i) == ClassNames(d, i) \cup ({make_name(d.index[i].name)} \ OperatorNames)
EntersBlock(d, i, g) ==
  Ok(g) => /\ BlockNames(d, i) \subseteq NamesIn(g.result)
           /\ NamesIn(g.result) \subseteq BlockNames(d, i) \cup {d.index[i].name}

(* The turn of a block makes its entries, if the block lacks nothing.      *)
LEMMA BlockTurnExact ==
  ASSUME GoodDirectory(corpus), NEW h, Whole(corpus, h), Ok(h), NEW block, NEW i \in BlocksOf(corpus),
         IsEntry(corpus, h, block, i)
  PROVE  LET g == BlockTurn(h, block) IN
         /\ Enters(corpus, h, g)
         /\ Survives(g, ~ BlockLacks(corpus, i)) /\ EntersBlock(corpus, i, g)
         /\ LET m == MakeOf(h, block) IN
            Ok(m) => m.objects[m.result].data.name = make_name(corpus.index[i].name)
<1> DEFINE n == h.objects[block].data.name
           s == make_name(n)
           cat == "DoxyFunction"
           B == HeadersWith(corpus, s)
           make == GetMember(h, Index, s, cat)
           o == make.result
           Do(g) == MakeBlockEntry(g, block, g.result)
           g == BlockTurn(h, block)
           e == MakeBlockEntry(make, block, o)
<1>1. g = Then(make, Do) /\ Do(make) = e /\ MakeOf(h, block) = make
  BY DEF BlockTurn, MakeOf
<1>2. Then(make, Do) = IF Ok(make) THEN Do(make) ELSE make
  BY SMT DEF Then
<1>3. /\ n \in Names /\ n = corpus.index[i].name /\ Len(n) = 1 /\ StateOf(corpus, i) = "ok"
      /\ Fine(corpus, h) /\ block \in Ids(h)
  BY EntryNamed DEF BlocksOf, Whole, IsEntry
<1> HIDE DEF n, Do, g
<1>4. s = <<s[1]>>
  BY <1>3, RenamedName DEF make_name
<1>5. cat \in {"DoxyFunction", "DoxyFile"}
  OBVIOUS
<1> HIDE DEF s
<1>6. Counted(h, cat, s, B)
  BY FunctionsCounted
<1> HIDE DEF cat, B, make, e
<1>7. LooksUp(h, cat, s, B, make)
  BY <1>4, <1>5, <1>6, IndexLooksUp DEF make
<1>8. Serves(corpus, h, make) /\ Cardinality(B) \in Nat
  BY <1>7 DEF LooksUp
<1>9. Fine(corpus, make) /\ block \in Ids(make) /\ Whole(corpus, make) /\ IsEntry(corpus, make, block, i)
  BY <1>3, <1>8, ServesIds, WholeOn, IsEntryOn
<1>10. B = HeadersWith(corpus, make_name(corpus.index[i].name))
       /\ s = make_name(corpus.index[i].name)
  BY <1>3 DEF B, s
<1>11. CASE Cardinality(B) = 1 /\ Ok(make) /\ \E p \in DOMAIN h.objects[Index].members :
              /\ o = h.objects[Index].members[p] /\ IsOfClass(h, cat, o)
              /\ h.objects[o].data.name = s
  <2>1. IsFunction(h, o)
    BY <1>11, FunctionsNamed DEF cat
  <2>2. IsFunction(make, o)
    BY <1>3, <1>8, <2>1, TellingOn
  <2>3. o \in Ids(make) /\ make.objects[o].data.name = s
    BY <1>8, <1>11, <2>1, <2>2 DEF IsFunction, Serves, Grows, SameObject
  <2> HIDE DEF o
  <2>4. BlockMade(corpus, i, s, e)
    BY <1>3, <1>9, <1>11, <2>2, <2>3, MakeBlockEntryExact DEF e
  <2>5. Enters(corpus, make, e)
    BY <1>9, <1>11, <2>3, MakeBlockEntryFits DEF e
  <2>6. Enters(corpus, h, e)
    BY <1>3, <1>8, <2>5, ServesTrans DEF Enters
  <2>7. g = e
    BY <1>1, <1>2, <1>11
  <2>8. LET k == Cardinality(HeadersOf(corpus, i)) IN k \in Nat /\ (k <= 1 <=> ~ (k > 1))
    BY <2>4 DEF BlockMade
  <2>9. Ok(e) <=> ~ BlockLacks(corpus, i)
    BY <1>10, <1>11, <2>4, <2>8 DEF BlockMade, BlockLacks
  <2>10. Survives(e, ~ BlockLacks(corpus, i))
    BY <2>4, <2>9 DEF BlockMade, Survives
  <2>11. EntersBlock(corpus, i, e)
    BY <1>10, <2>4 DEF BlockMade, EntersBlock, BlockNames
  <2>12. Ok(make) => make.objects[make.result].data.name = make_name(corpus.index[i].name)
    BY <1>10, <2>3 DEF o
  <2> QED
    BY <1>1, <2>6, <2>7, <2>10, <2>11, <2>12 DEF g
<1>12. CASE Cardinality(B) # 1 /\ make.raised \in {"NoSuchMember", "Duplicate"}
  <2>1. ~ Ok(make) /\ ~ Handled(make)
    BY <1>12 DEF Ok, None, Handled
  <2>2. g = make
    BY <1>1, <1>2, <2>1
  <2>3. BlockLacks(corpus, i)
    BY <1>10, <1>12 DEF BlockLacks
  <2> QED
    BY <1>1, <1>8, <2>1, <2>2, <2>3 DEF g, Survives, EntersBlock, Enters
<1>13. \/ Cardinality(B) = 1 /\ Ok(make) /\ \E p \in DOMAIN h.objects[Index].members :
             /\ o = h.objects[Index].members[p] /\ IsOfClass(h, cat, o)
             /\ h.objects[o].data.name = s
       \/ Cardinality(B) # 1 /\ make.raised \in {"NoSuchMember", "Duplicate"}
  BY <1>7, <1>8 DEF LooksUp
<1> QED
  BY <1>11, <1>12, <1>13

\* A turn of the loop over the classes.
ClassTurn(h, k) ==
  Then(CombineDescriptions(h, k), LAMBDA g : MakeClassEntry(g, k, g.result))

(* The turn of a class makes its entries, or prints a parsing error.       *)
LEMMA ClassTurnExact ==
  ASSUME GoodDirectory(corpus), NEW h, Whole(corpus, h), Ok(h), ~ Unreadable(corpus), NEW k, NEW i,
         IsEntry(corpus, h, k, i)
  PROVE  LET g == ClassTurn(h, k) IN
         /\ Enters(corpus, h, g) /\ (Ok(g) \/ Handled(g))
         /\ Ok(g) => StateOf(corpus, i) = "ok" /\ NamesIn(g.result) = ClassNames(corpus, i)
         /\ ~ Ok(g) => StateOf(corpus, i) = "broken"
<1> DEFINE x == CombineDescriptions(h, k)
           docs == x.result
           e == MakeClassEntry(x, k, docs)
           Do(z) == MakeClassEntry(z, k, z.result)
           g == ClassTurn(h, k)
<1>1. g = Then(x, Do) /\ Do(x) = e
  BY DEF ClassTurn
<1>2. Then(x, Do) = IF Ok(x) THEN Do(x) ELSE x
  BY SMT DEF Then
<1>3. Fine(corpus, h) /\ k \in Ids(h) /\ h.objects[k].cls = "DoxyClass"
  BY DEF Whole, IsEntry
<1>4. FileOf(corpus, h, k) \in {"ok", "broken"} /\ FileOf(corpus, h, k) = StateOf(corpus, i)
  <2>1. FileOf(corpus, h, k) = StateOf(corpus, i)
    BY EntryObject
  <2>2. StateOf(corpus, i) # "raises"
    BY DEF Unreadable, IsEntry
  <2>3. \A r \in DOMAIN corpus.files : corpus.files[r].state \in {"ok", "broken", "raises"}
    BY DirectoryHas DEF Files
  <2>4. StateOf(corpus, i) \in {"ok", "broken", "raises"}
    BY <2>3 DEF StateOf, FileState
  <2> QED
    BY <2>1, <2>2, <2>4
<1>5. Finds(corpus, h, x)
  BY <1>3, CombineFits
<1>6. x.objects[k].parsed
  BY <1>3, CombineParsed
<1>7. /\ FileOf(corpus, h, k) = "ok" => Ok(x)
      /\ FileOf(corpus, h, k) = "broken" => x.raised = "ParsingError"
      /\ FileOf(corpus, h, k) = "ok" =>
            docs = IF corpus.files[h.objects[k].refid].doc THEN <<k>> ELSE <<>>
  BY <1>3, CombineExact DEF Telling
<1>11. h.objects[k].refid = corpus.index[i].refid
  BY DEF IsEntry
<1> HIDE DEF g, x, e, Do
<1>8. Serves(corpus, h, x) /\ Fine(corpus, x) /\ k \in Ids(x)
  BY <1>3, <1>5, ServesIds DEF Finds
<1>9. CASE FileOf(corpus, h, k) = "broken"
  <2>1. ~ Ok(x) /\ Handled(x)
    BY <1>7, <1>9 DEF Ok, None, Handled
  <2> QED
    BY <1>1, <1>2, <1>4, <1>8, <1>9, <2>1 DEF g, Enters
<1>10. CASE FileOf(corpus, h, k) = "ok"
  <2>1. Readable(corpus, h, k)
    BY <1>3, <1>10, EntryNamed DEF Readable
  <2>2. Readable(corpus, x, k)
    BY <1>3, <1>8, <2>1, ReadableOn
  <2>3. InHeap(x, docs) /\ Ok(x)
    BY <1>5, <1>7, <1>10 DEF Finds
  <2>6. docs = IF corpus.files[corpus.index[i].refid].doc THEN <<k>> ELSE <<>>
    BY <1>7, <1>10, <1>11
  <2>7. IsEntry(corpus, x, k, i)
    BY <1>3, <1>8, IsEntryOn
  <2> HIDE DEF docs
  <2>4. /\ Ok(e) /\ Enters(corpus, x, e)
        /\ NamesIn(e.result) = ClassEntries(corpus, x.objects[k], docs)
    BY <1>6, <1>8, <2>2, <2>3, MakeClassEntryExact, MakeClassEntryFits DEF e
  <2>8. NamesIn(e.result) = ClassNames(corpus, i)
    BY <2>4, <2>6, <2>7, ClassEntered
  <2>5. Enters(corpus, h, e)
    BY <1>3, <1>8, <2>4, ServesTrans DEF Enters
  <2> QED
    BY <1>1, <1>2, <1>4, <1>10, <2>3, <2>4, <2>5, <2>8 DEF g
<1> QED
  BY <1>4, <1>9, <1>10

\* The objects of a list are classes of the directory.
AreClasses(d, h, s) == \A j \in DOMAIN s : \E i : IsEntry(d, h, s[j], i)

(* in_category of an index that has been read: the members of the category.*)
LEMMA IndexCategory ==
  ASSUME GoodDirectory(corpus), NEW h, Whole(corpus, h), Ok(h),
         NEW cat \in {"DoxyClass", "DoxyFunction"}
  PROVE  LET g == InCategory(h, Index, cat)
             ms == g.objects[Index].members
             s == g.result
         IN  /\ Serves(corpus, h, g) /\ Ok(g) /\ Whole(corpus, g) /\ s \in Seq(Nat)
             /\ \A j \in DOMAIN s : \E p \in DOMAIN ms : s[j] = ms[p] /\ IsOfClass(g, cat, ms[p])
             /\ \A p \in DOMAIN ms : IsOfClass(g, cat, ms[p]) => \E j \in DOMAIN s : s[j] = ms[p]
<1> DEFINE y == InClass(h, Index, cat)
           s == y.result
<1>1. cat \in Categories \ {None, "Block"} /\ InCategory(h, Index, cat) = y
  BY CategoriesHave DEF InCategory
<1>2. Fine(corpus, h) /\ Index \in Ids(h) /\ h.objects[Index].parsed /\ ~ h.objects[Index].error
  BY WholeListed DEF Whole
<1>3. /\ Serves(corpus, h, y) /\ Ok(y)
      /\ s = CategoryMembers(y, Index, cat) /\ CategoryListed(y, Index, cat)
  BY <1>1, <1>2, InClassFits
<1> HIDE DEF y
<1>4. Whole(corpus, y) /\ Fine(corpus, y) /\ Index \in Ids(y)
  BY <1>2, <1>3, WholeOn, ServesIds
<1>5. /\ s = y.objects[Index].inCategory[cat] /\ cat \in DOMAIN y.objects[Index].inCategory
      /\ s \in Seq(Nat)
  BY <1>1, <1>3 DEF CategoryMembers, CategoryListed
<1> DEFINE ms == y.objects[Index].members
           J == {i \in DOMAIN ms : IsOfClass(y, cat, ms[i])}
<1>6. s = Chosen(ms, J) /\ ms \in Seq(Nat) /\ J \in SUBSET (DOMAIN ms)
  <2>1. ObjectFits(corpus, y, Index) /\ y.objects[Index] \in Obj
    BY <1>4, ObjectFields DEF Fine, Good
  <2>2. s = OfClass(y, cat, ms)
    BY <1>1, <1>5, <2>1 DEF ObjectFits, CachesFit, ListOf
  <2> QED
    BY <2>1, <2>2 DEF OfClass, Obj
<1> HIDE DEF s, ms, J
<1>7. \A j \in DOMAIN s : \E i \in J : s[j] = ms[i]
  BY <1>6, ChosenIn
<1>8. \A i \in J : \E j \in DOMAIN s : s[j] = ms[i]
  BY <1>6, ChosenHas
<1>9. \A j \in DOMAIN s : \E p \in DOMAIN ms : s[j] = ms[p] /\ IsOfClass(y, cat, ms[p])
  BY <1>7 DEF J
<1>10. \A p \in DOMAIN ms : IsOfClass(y, cat, ms[p]) => \E j \in DOMAIN s : s[j] = ms[p]
  BY <1>8 DEF J
<1> QED
  BY <1>1, <1>3, <1>4, <1>5, <1>9, <1>10 DEF s, ms

(* The classes of the index are found.                                     *)
LEMMA ClassesFound ==
  ASSUME GoodDirectory(corpus), NEW h, Whole(corpus, h), Ok(h)
  PROVE  LET g == InCategory(h, Index, "DoxyClass") IN
         /\ Serves(corpus, h, g) /\ Ok(g) /\ g.result \in Seq(Nat)
         /\ AreClasses(corpus, g, g.result)
         /\ \A i \in OfKind(corpus, "class") : \E j \in DOMAIN g.result :
               IsEntry(corpus, g, g.result[j], i)
<1> DEFINE cat == "DoxyClass"
           g == InCategory(h, Index, cat)
           ms == g.objects[Index].members
           s == g.result
<1>1. cat \in {"DoxyClass", "DoxyFunction"}
  OBVIOUS
<1>2. /\ \A p \in DOMAIN ms : IsOfClass(g, cat, ms[p]) => \E i : IsEntry(corpus, g, ms[p], i)
      /\ \A i \in OfKind(corpus, "class") : \E p \in DOMAIN ms :
            IsOfClass(g, cat, ms[p]) /\ IsEntry(corpus, g, ms[p], i)
  <2>1. Whole(corpus, g)
    BY <1>1, IndexCategory
  <2> HIDE DEF g
  <2> QED
    BY <2>1, ClassesAre
<1>3. /\ Serves(corpus, h, g) /\ Ok(g) /\ s \in Seq(Nat)
      /\ \A j \in DOMAIN s : \E p \in DOMAIN ms : s[j] = ms[p] /\ IsOfClass(g, cat, ms[p])
      /\ \A p \in DOMAIN ms : IsOfClass(g, cat, ms[p]) => \E j \in DOMAIN s : s[j] = ms[p]
  <2> HIDE DEF cat
  <2> QED
    BY <1>1, IndexCategory
<1> HIDE DEF g, ms, s, cat
<1>4. AreClasses(corpus, g, s)
  BY <1>2, <1>3 DEF AreClasses
<1>5. \A i \in OfKind(corpus, "class") : \E j \in DOMAIN s : IsEntry(corpus, g, s[j], i)
  BY <1>2, <1>3
<1> QED
  BY <1>3, <1>4, <1>5 DEF g, s, cat

(* The functions of the headers are those among the members of the index.  *)
LEMMA HeaderFunctionsHeld ==
  ASSUME NEW d, GoodDirectory(d), NEW h, Whole(d, h), NEW n
  PROVE  /\ n \in HeaderFunctions(d) <=> HeadersWith(d, n) # {}
         /\ n \in HeaderFunctions(d) <=> Having(h, Index, "DoxyFunction", n) # {}
<1> DEFINE B == HeadersWith(d, n)
           A == Having(h, Index, "DoxyFunction", n)
<1>1. n \in HeaderFunctions(d) <=> B # {}
  BY DEF HeaderFunctions, HeadersWith
<1>2. IsFiniteSet(B)
  <2>1. DOMAIN d.index = 1 .. Len(d.index) /\ Len(d.index) \in Nat
    BY DirectoryHas
  <2>2. IsFiniteSet(DOMAIN d.index)
    BY <2>1, FS_Interval
  <2>3. B \subseteq DOMAIN d.index
    BY DEF HeadersWith, OfKind
  <2> QED
    BY <2>2, <2>3, FS_Subset
<1>3. /\ A = {} => Cardinality(B) = 0
      /\ \A p : A = {p} => Cardinality(B) = 1
      /\ (\E p, r \in A : p # r) => Cardinality(B) > 1
  BY FunctionsCounted DEF Counted
<1> HIDE DEF A, B
<1>4. A = {} => B = {}
  BY <1>2, <1>3, FS_EmptySet
<1>5. ASSUME A # {} PROVE B # {}
  <2>1. PICK p : p \in A
    BY <1>5
  <2>2. Cardinality(B) = 1 \/ Cardinality(B) > 1
    <3>1. CASE A = {p}
      BY <1>3, <3>1
    <3>2. CASE A # {p}
      <4>1. PICK r \in A : r # p
        BY <2>1, <3>2
      <4> QED
        BY <1>3, <2>1, <4>1
    <3> QED
      BY <3>1, <3>2
  <2>3. Cardinality({}) = 0
    BY FS_EmptySet
  <2> QED
    BY <2>2, <2>3
<1> QED
  BY <1>1, <1>4, <1>5 DEF A, B

\* The objects of a list are functions of the headers.
AreFunctions(d, h, s) ==
  \A j \in DOMAIN s : IsFunction(h, s[j]) /\ h.objects[s[j]].data.name \in HeaderFunctions(d)

(* The functions of the index are found.                                   *)
LEMMA FunctionsFound ==
  ASSUME GoodDirectory(corpus), NEW h, Whole(corpus, h), Ok(h)
  PROVE  LET g == InCategory(h, Index, "DoxyFunction") IN
         /\ Serves(corpus, h, g) /\ Ok(g) /\ g.result \in Seq(Nat)
         /\ AreFunctions(corpus, g, g.result)
         /\ \A n \in HeaderFunctions(corpus) : \E j \in DOMAIN g.result :
               g.objects[g.result[j]].data.name = n
<1> DEFINE cat == "DoxyFunction"
           g == InCategory(h, Index, cat)
           ms == g.objects[Index].members
           s == g.result
<1>1. cat \in {"DoxyClass", "DoxyFunction"}
  OBVIOUS
<1>2. /\ Serves(corpus, h, g) /\ Ok(g) /\ s \in Seq(Nat) /\ Whole(corpus, g)
      /\ \A j \in DOMAIN s : \E p \in DOMAIN ms : s[j] = ms[p] /\ IsOfClass(g, cat, ms[p])
      /\ \A p \in DOMAIN ms : IsOfClass(g, cat, ms[p]) => \E j \in DOMAIN s : s[j] = ms[p]
  <2> HIDE DEF cat
  <2> QED
    BY <1>1, IndexCategory
<1> HIDE DEF g
<1>3. /\ \A p \in DOMAIN ms : IsOfClass(g, cat, ms[p]) => IsFunction(g, ms[p])
      /\ \A n : n \in HeaderFunctions(corpus) <=> Having(g, Index, cat, n) # {}
  BY <1>2, FunctionsNamed, HeaderFunctionsHeld
<1>4. \A n : Having(g, Index, cat, n) =
            {p \in DOMAIN ms : IsOfClass(g, cat, ms[p]) /\ g.objects[ms[p]].data.name = n}
  BY DEF Having
<1> HIDE DEF ms, s, cat
<1>5. ASSUME NEW j \in DOMAIN s
      PROVE  IsFunction(g, s[j]) /\ g.objects[s[j]].data.name \in HeaderFunctions(corpus)
  <2>1. PICK p \in DOMAIN ms : s[j] = ms[p] /\ IsOfClass(g, cat, ms[p])
    BY <1>2
  <2>2. p \in Having(g, Index, cat, g.objects[s[j]].data.name)
    BY <1>4, <2>1
  <2> QED
    BY <1>3, <2>1, <2>2
<1>6. ASSUME NEW n \in HeaderFunctions(corpus)
      PROVE  \E j \in DOMAIN s : g.objects[s[j]].data.name = n
  <2>1. PICK p : p \in Having(g, Index, cat, n)
    BY <1>3
  <2>2. p \in DOMAIN ms /\ IsOfClass(g, cat, ms[p]) /\ g.objects[ms[p]].data.name = n
    BY <1>4, <2>1
  <2> QED
    BY <1>2, <2>2
<1> QED
  BY <1>2, <1>5, <1>6 DEF AreFunctions, g, s, cat

-----------------------------------------------------------------------------
(* The end of the program.                                                 *)

\* Every block has its entries or has yet to be visited.
BlocksDone ==
  /\ \A j \in DOMAIN todo : \E i \in BlocksOf(corpus) : IsEntry(corpus, heap, todo[j], i)
  /\ \A i \in BlocksOf(corpus) :
        ~ BlockLacks(corpus, i) \/ \E j \in DOMAIN todo : IsEntry(corpus, heap, todo[j], i)

\* What the loop the program is in knows of the directory, when no other
\* calls have been made.
AbortInv ==
  calls = 0 =>
    /\ phase = "open" => ~ heap.objects[Index].parsed
    /\ phase \in {"blocks", "functions", "classes"} => Whole(corpus, heap)
    /\ phase = "blocks" => ~ Unreadable(corpus) /\ BlocksDone
    /\ phase \in {"functions", "classes", "written"} => ~ Unusable(corpus)
    /\ phase = "classes" => AreClasses(corpus, heap, todo)
    /\ phase = "aborted" => Unusable(corpus)

(* What holds of a list holds of the elements after the first.             *)
LEMMA TailOf ==
  ASSUME NEW h, InHeap(h, todo), todo # <<>>
  PROVE  /\ Head(todo) = todo[1] /\ 1 \in DOMAIN todo
         /\ \A j \in DOMAIN Tail(todo) : j + 1 \in DOMAIN todo /\ Tail(todo)[j] = todo[j + 1]
         /\ \A j \in DOMAIN todo : j # 1 => j - 1 \in DOMAIN Tail(todo)
                                            /\ Tail(todo)[j - 1] = todo[j]
<1>1. todo \in Seq(Nat)
  BY DEF InHeap
<1>2. /\ Len(todo) \in Nat \ {0} /\ DOMAIN todo = 1 .. Len(todo)
      /\ Len(Tail(todo)) = Len(todo) - 1 /\ DOMAIN Tail(todo) = 1 .. (Len(todo) - 1)
      /\ \A j \in 1 .. (Len(todo) - 1) : Tail(todo)[j] = todo[j + 1]
      /\ Head(todo) = todo[1]
  BY <1>1
<1> QED
  BY <1>2

(* What a call of the program leaves of what is known.                     *)
LEMMA CallLeaves ==
  ASSUME SwigInv, NEW g, Serves(corpus, Called, g), heap' = Settled(g), corpus' = corpus
  PROVE  /\ Fine(corpus, heap') /\ heap'.objects = g.objects
         /\ Whole(corpus, g) => Whole(corpus, heap')
         /\ Whole(corpus, heap) => Whole(corpus, heap') /\ Whole(corpus, Called)
         /\ \A o, i : IsEntry(corpus, heap, o, i) =>
               IsEntry(corpus, heap', o, i) /\ IsEntry(corpus, Called, o, i)
         /\ \A s : AreBlocks(corpus, g, s) => AreBlocks(corpus, heap', s)
         /\ \A s : AreClasses(corpus, g, s) => AreClasses(corpus, heap', s)
<1>1. Fine(corpus, heap') /\ heap'.objects = g.objects
  BY CallKeeps
<1>2. Fine(corpus, Called) /\ Called.objects = heap.objects
  BY AtCall
<1>3. /\ Whole(corpus, heap) => Whole(corpus, Called)
      /\ \A o, i : IsEntry(corpus, heap, o, i) => IsEntry(corpus, Called, o, i)
  BY <1>2, SameObjects
<1>4. /\ Whole(corpus, Called) => Whole(corpus, g)
      /\ \A o, i : IsEntry(corpus, Called, o, i) => IsEntry(corpus, g, o, i)
  BY <1>2, WholeOn, IsEntryOn
<1> DEFINE k == Settled(g)
<1>5. Fine(corpus, k) /\ k.objects = g.objects /\ heap' = k
  BY <1>1
<1> HIDE DEF k
<1>6. /\ Whole(corpus, g) => Whole(corpus, k)
      /\ \A o, i : IsEntry(corpus, g, o, i) => IsEntry(corpus, k, o, i)
      /\ \A s : AreBlocks(corpus, g, s) => AreBlocks(corpus, k, s)
  BY <1>5, SameObjects
<1>7. \A s : AreClasses(corpus, g, s) => AreClasses(corpus, k, s)
  BY <1>6 DEF AreClasses
<1> QED
  BY <1>1, <1>3, <1>4, <1>5, <1>6, <1>7

(* blocks = di.in_category(Block).                                         *)
LEMMA FindBlocksAborts ==
  ASSUME SwigInv, AbortInv, FindBlocks
  PROVE  AbortInv'
<1> SUFFICES ASSUME calls = 0 PROVE AbortInv'
  BY DEF AbortInv, FindBlocks, Abort
<1> DEFINE cat == "Block"
           h == InCategory(Called, Index, cat)
<1>1. GoodDirectory(corpus) /\ Fine(corpus, Called) /\ Ok(Called) /\ Called.objects = heap.objects
      /\ Index \in Ids(Called)
  BY AtCall
<1>2. phase = "open" /\ corpus' = corpus /\ heap' = Settled(h) /\ calls' = calls
      /\ \/ phase' = "aborted" /\ ~ Ok(h)
         \/ phase' = "blocks" /\ Ok(h) /\ todo' = h.result
  BY DEF FindBlocks, Abort
<1>3. ~ Called.objects[Index].parsed
  BY <1>1, <1>2 DEF AbortInv
<1>4. BlocksFound(h)
  BY <1>1, <1>3, BlocksExact
<1>5. cat \in Categories \ {None}
  BY CategoriesHave
<1> HIDE DEF cat
<1>6. Serves(corpus, Called, h)
  BY <1>1, <1>5, InCategoryFits
<1> HIDE DEF h
<1>7. CASE phase' = "aborted" /\ ~ Ok(h)
  BY <1>2, <1>4, <1>7, UnusableIs DEF BlocksFound, AbortInv
<1>8. CASE phase' = "blocks" /\ Ok(h) /\ todo' = h.result
  <2>1. Whole(corpus, heap') /\ AreBlocks(corpus, heap', h.result) /\ ~ Unreadable(corpus)
    BY <1>2, <1>4, <1>6, <1>8, CallLeaves DEF BlocksFound
  <2>2. BlocksDone'
    BY <1>2, <1>8, <2>1 DEF AreBlocks, BlocksDone
  <2> QED
    BY <1>2, <1>8, <2>1, <2>2 DEF AbortInv
<1> QED
  BY <1>2, <1>7, <1>8

(* A turn of the loop over the blocks.                                     *)
LEMMA BlockEntryAborts ==
  ASSUME SwigInv, AbortInv, BlockEntry
  PROVE  AbortInv'
<1> DEFINE block == Head(todo)
           h == BlockTurn(Called, block)
<1>1. Called.objects = heap.objects /\ GoodDirectory(corpus) /\ Ok(Called) /\ Fine(corpus, heap)
  BY AtCall
<1>2. /\ phase = "blocks" /\ todo # <<>> /\ corpus' = corpus /\ calls' = calls
      /\ heap' = Settled(h)
      /\ \/ phase' = "aborted" /\ ~ Ok(h) /\ ~ Handled(h)
         \/ phase' = "blocks" /\ (Ok(h) \/ Handled(h)) /\ todo' = Tail(todo)
  BY <1>1 DEF BlockEntry, Object, Abort, Turn, Advance, BlockTurn, MakeOf
<1> SUFFICES ASSUME calls = 0 PROVE AbortInv'
  BY <1>2 DEF AbortInv
<1>3. InHeap(heap, todo)
  BY DEF SwigInv
<1>4. /\ block = todo[1] /\ 1 \in DOMAIN todo
      /\ \A j \in DOMAIN Tail(todo) : j + 1 \in DOMAIN todo /\ Tail(todo)[j] = todo[j + 1]
      /\ \A j \in DOMAIN todo : j # 1 => j - 1 \in DOMAIN Tail(todo)
                                         /\ Tail(todo)[j - 1] = todo[j]
  BY <1>2, <1>3, TailOf
<1>5. Whole(corpus, heap) /\ ~ Unreadable(corpus) /\ BlocksDone
  BY <1>2 DEF AbortInv
<1>6. PICK i \in BlocksOf(corpus) : IsEntry(corpus, heap, block, i)
  BY <1>4, <1>5 DEF BlocksDone
<1>7. Fine(corpus, Called)
  BY AtCall
<1>8. Whole(corpus, Called) /\ IsEntry(corpus, Called, block, i)
  BY <1>1, <1>5, <1>6, <1>7, SameObjects
<1> HIDE DEF block
<1>9. Serves(corpus, Called, h) /\ Survives(h, ~ BlockLacks(corpus, i))
  BY <1>1, <1>8, BlockTurnExact DEF Enters
<1> HIDE DEF h
<1>10. CASE phase' = "aborted" /\ ~ Ok(h) /\ ~ Handled(h)
  <2>1. BlockLacks(corpus, i)
    BY <1>9, <1>10 DEF Survives
  <2> QED
    BY <1>2, <1>10, <2>1, UnusableIs DEF AbortInv
<1>11. CASE phase' = "blocks" /\ (Ok(h) \/ Handled(h)) /\ todo' = Tail(todo)
  <2>1. ~ BlockLacks(corpus, i)
    BY <1>9, <1>11 DEF Survives
  <2>2. /\ Whole(corpus, heap')
        /\ \A o, l : IsEntry(corpus, heap, o, l) => IsEntry(corpus, heap', o, l)
    BY <1>2, <1>5, <1>9, CallLeaves
  <2>3. ASSUME NEW j \in DOMAIN todo'
        PROVE  \E l \in BlocksOf(corpus) : IsEntry(corpus, heap', todo'[j], l)
    BY <1>4, <1>5, <1>11, <2>2, <2>3 DEF BlocksDone
  <2>4. ASSUME NEW l \in BlocksOf(corpus), BlockLacks(corpus, l)
        PROVE  \E j \in DOMAIN todo' : IsEntry(corpus, heap', todo'[j], l)
    <3>1. PICK j \in DOMAIN todo : IsEntry(corpus, heap, todo[j], l)
      BY <1>5, <2>4 DEF BlocksDone
    <3>2. j # 1
      <4>1. SUFFICES ASSUME j = 1 PROVE FALSE
        OBVIOUS
      <4>2. IsEntry(corpus, heap, block, l)
        BY <1>4, <3>1, <4>1
      <4>3. corpus.index[i] = corpus.index[l] /\ i \in DOMAIN corpus.index /\ l \in DOMAIN corpus.index
        BY <1>6, <4>2 DEF IsEntry, OfKind
      <4>4. i = l
        BY <1>1, <4>3 DEF GoodDirectory, Consistent
      <4> QED
        BY <2>1, <2>4, <4>4
    <3>3. j - 1 \in DOMAIN Tail(todo) /\ Tail(todo)[j - 1] = todo[j]
      BY <1>4, <3>1, <3>2
    <3> QED
      BY <1>11, <2>2, <3>1, <3>3
  <2>5. BlocksDone'
    BY <1>2, <2>3, <2>4 DEF BlocksDone
  <2> QED
    BY <1>2, <1>5, <1>11, <2>2, <2>5 DEF AbortInv
<1> QED
  BY <1>2, <1>10, <1>11

(* funcs = di.in_category(DoxyFunction), and klasses, when the blocks have *)
(* been visited: nothing was missing.                                      *)
LEMMA FindFunctionsAborts ==
  ASSUME SwigInv, AbortInv, FindFunctions
  PROVE  AbortInv'
<1> DEFINE cat == "DoxyFunction"
           h == InCategory(Called, Index, cat)
<1>1. /\ phase = "blocks" /\ todo = <<>> /\ phase' = "functions" /\ heap' = Settled(h)
      /\ corpus' = corpus /\ calls' = calls
  BY DEF FindFunctions
<1> SUFFICES ASSUME calls = 0 PROVE AbortInv'
  BY <1>1 DEF AbortInv
<1>2. Whole(corpus, heap) /\ ~ Unreadable(corpus) /\ BlocksDone
  BY <1>1 DEF AbortInv
<1>3. DOMAIN todo = {}
  BY <1>1
<1>4. ~ Unusable(corpus)
  BY <1>2, <1>3, UnusableIs DEF BlocksDone
<1>5. cat \in Categories \ {None}
  BY CategoriesHave
<1> HIDE DEF cat
<1>6. GoodDirectory(corpus) /\ Fine(corpus, Called) /\ Ok(Called) /\ Index \in Ids(Called)
  BY AtCall
<1>7. Serves(corpus, Called, h)
  BY <1>5, <1>6, InCategoryFits
<1> HIDE DEF h
<1>8. Whole(corpus, heap')
  BY <1>1, <1>2, <1>7, CallLeaves
<1> QED
  BY <1>1, <1>4, <1>8 DEF AbortInv

(* A turn of the loop over the functions.                                  *)
LEMMA FunctionEntryAborts ==
  ASSUME SwigInv, AbortInv, FunctionEntry
  PROVE  AbortInv'
<1> DEFINE f == Head(todo)
           n == heap.objects[f].data.name
           h == MakeFuncEntry(Called, f, n)
<1>1. /\ phase = "functions" /\ todo # <<>> /\ phase' = phase /\ heap' = Settled(h)
      /\ corpus' = corpus /\ calls' = calls
  BY DEF FunctionEntry, Turn, Object
<1> SUFFICES ASSUME calls = 0 PROVE AbortInv'
  BY <1>1 DEF AbortInv
<1>2. Whole(corpus, heap) /\ ~ Unusable(corpus)
  BY <1>1 DEF AbortInv
<1>3. GoodDirectory(corpus) /\ Fine(corpus, Called) /\ Ok(Called) /\ Ids(Called) = Ids(heap)
  BY AtCall
<1>4. f \in Ids(Called)
  BY <1>1, <1>3, HeldParts DEF SwigInv
<1> HIDE DEF f, n
<1>5. Serves(corpus, Called, h)
  BY <1>3, <1>4, MakeFuncEntryFits DEF Enters
<1> HIDE DEF h
<1>6. Whole(corpus, heap')
  BY <1>1, <1>2, <1>5, CallLeaves
<1> QED
  BY <1>1, <1>2, <1>6 DEF AbortInv

(* klasses = di.in_category(DoxyClass).                                    *)
LEMMA FindClassesAborts ==
  ASSUME SwigInv, AbortInv, FindClasses
  PROVE  AbortInv'
<1> DEFINE cat == "DoxyClass"
           h == InCategory(Called, Index, cat)
<1>1. /\ phase = "functions" /\ phase' = "classes" /\ heap' = Settled(h)
      /\ corpus' = corpus /\ calls' = calls
      /\ \E I : todo' = Chosen(h.result, I)
  BY DEF FindClasses
<1> SUFFICES ASSUME calls = 0 PROVE AbortInv'
  BY <1>1 DEF AbortInv
<1>2. Whole(corpus, heap) /\ ~ Unusable(corpus)
  BY <1>1 DEF AbortInv
<1>3. GoodDirectory(corpus) /\ Fine(corpus, Called) /\ Ok(Called) /\ Called.objects = heap.objects
  BY AtCall
<1>4. Whole(corpus, Called)
  BY <1>2, <1>3, SameObjects
<1>5. Serves(corpus, Called, h) /\ h.result \in Seq(Nat) /\ AreClasses(corpus, h, h.result)
  BY <1>3, <1>4, ClassesFound
<1> HIDE DEF h
<1>8. \A I : AreClasses(corpus, h, Chosen(h.result, I))
  <2> TAKE I
  <2> DEFINE s == h.result
  <2>1. s \in Seq(Nat) /\ AreClasses(corpus, h, s)
    BY <1>5
  <2> HIDE DEF s
  <2>2. \A j \in DOMAIN Chosen(s, I) : \E l \in I \cap DOMAIN s : Chosen(s, I)[j] = s[l]
    BY <2>1, ChosenIn
  <2>3. AreClasses(corpus, h, Chosen(s, I))
    BY <2>1, <2>2 DEF AreClasses
  <2> QED
    BY <2>3 DEF s
<1>6. Whole(corpus, heap') /\ AreClasses(corpus, heap', todo')
  BY <1>1, <1>2, <1>5, <1>8, CallLeaves
<1>7. AreClasses(corpus, heap, todo)' /\ Whole(corpus, heap)'
  BY <1>1, <1>6 DEF AreClasses
<1> QED
  BY <1>1, <1>2, <1>7 DEF AbortInv

(* A turn of the loop over the classes, which ends at most with a parsing  *)
(* error.                                                                  *)
LEMMA ClassEntryAborts ==
  ASSUME SwigInv, AbortInv, ClassEntry
  PROVE  AbortInv'
<1> DEFINE k == Head(todo)
           h == ClassTurn(Called, k)
<1>1. /\ phase = "classes" /\ todo # <<>> /\ heap' = Settled(h)
      /\ corpus' = corpus /\ calls' = calls
      /\ \/ ~ Ok(h) /\ ~ Handled(h)
         \/ phase' = phase /\ todo' = Tail(todo)
  BY DEF ClassEntry, Abort, Turn, Advance, ClassTurn
<1> SUFFICES ASSUME calls = 0 PROVE AbortInv'
  BY <1>1 DEF AbortInv
<1>2. Whole(corpus, heap) /\ ~ Unusable(corpus) /\ AreClasses(corpus, heap, todo)
  BY <1>1 DEF AbortInv
<1>3. GoodDirectory(corpus) /\ Fine(corpus, Called) /\ Ok(Called) /\ Called.objects = heap.objects
  BY AtCall
<1>4. InHeap(heap, todo)
  BY DEF SwigInv
<1>5. /\ k = todo[1] /\ 1 \in DOMAIN todo
      /\ \A j \in DOMAIN Tail(todo) : j + 1 \in DOMAIN todo /\ Tail(todo)[j] = todo[j + 1]
  BY <1>1, <1>4, TailOf
<1>6. PICK i : IsEntry(corpus, heap, k, i)
  BY <1>2, <1>5 DEF AreClasses
<1>7. Whole(corpus, Called) /\ IsEntry(corpus, Called, k, i) /\ ~ Unreadable(corpus)
  BY <1>2, <1>3, <1>6, SameObjects, UnusableIs
<1> HIDE DEF k
<1>8. Serves(corpus, Called, h) /\ (Ok(h) \/ Handled(h))
  BY <1>3, <1>7, ClassTurnExact DEF Enters
<1> HIDE DEF h
<1>9. phase' = phase /\ todo' = Tail(todo)
  BY <1>1, <1>8
<1>10. /\ Whole(corpus, heap')
       /\ \A o, l : IsEntry(corpus, heap, o, l) => IsEntry(corpus, heap', o, l)
  BY <1>1, <1>2, <1>8, CallLeaves
<1>11. AreClasses(corpus, heap', todo')
  BY <1>2, <1>5, <1>9, <1>10 DEF AreClasses
<1>12. AreClasses(corpus, heap, todo)' /\ Whole(corpus, heap)'
  BY <1>1, <1>10, <1>11
<1> QED
  BY <1>1, <1>2, <1>9, <1>12 DEF AbortInv

(* Every step of the generator and of a reader keeps what is known.        *)
LEMMA StepAborts == SwigInv /\ AbortInv /\ [Next]_vars => AbortInv'
<1> SUFFICES ASSUME SwigInv, AbortInv, [Next]_vars PROVE AbortInv'
  OBVIOUS
<1>1. CASE Explore
  <2>1. calls \in Nat /\ calls' = calls + 1
    BY <1>1, MaxCallsAssumption DEF SwigInv, Explore, UserCall
  <2> QED
    BY <2>1 DEF AbortInv
<1>2. CASE FindBlocks
  BY <1>2, FindBlocksAborts
<1>3. CASE BlockEntry
  BY <1>3, BlockEntryAborts
<1>4. CASE FindFunctions
  BY <1>4, FindFunctionsAborts
<1>5. CASE FunctionEntry
  BY <1>5, FunctionEntryAborts
<1>6. CASE FindClasses
  BY <1>6, FindClassesAborts
<1>7. CASE ClassEntry
  BY <1>7, ClassEntryAborts
<1>8. CASE Write
  BY <1>8 DEF Write, AbortInv
<1>9. CASE UNCHANGED vars
  <2>1. /\ calls' = calls /\ phase' = phase /\ heap' = heap /\ corpus' = corpus /\ todo' = todo
    BY <1>9 DEF vars, doxyVars, swigVars
  <2> QED
    BY <2>1 DEF AbortInv, BlocksDone
<1> QED
  BY <1>1, <1>2, <1>3, <1>4, <1>5, <1>6, <1>7, <1>8, <1>9 DEF Next, Generate

(* Run on a new DoxyIndex, the program ends with an exception just when a  *)
(* header cannot be parsed or a file raises, the index has a compound of   *)
(* unknown kind, or a block lacks its constructor or its make function or  *)
(* has two of them or two headers: a class with broken XML is reported and *)
(* passed over, and nothing else of a directory stops the program.         *)
THEOREM AbortsTheorem == Spec => []AbortsOnlyIfUnusable
<1>1. Init => AbortInv
  BY DEF Init, DoxyInit, AbortInv, NewHeap, NewObject, Index
<1>2. AbortInv => AbortsOnlyIfUnusable
  BY DEF AbortInv, AbortsOnlyIfUnusable
<1>3. Init => SwigInv
  BY InitInv
<1>4. SwigInv /\ AbortInv /\ [Next]_vars => SwigInv' /\ AbortInv'
  BY StepInv, StepAborts
<1> QED
  BY <1>1, <1>2, <1>3, <1>4, PTL DEF Spec

-----------------------------------------------------------------------------
(* What the file accounts for.                                             *)

\* An object that stands for a class is in a list.
Pending(d, h, s, i) == \E j \in DOMAIN s : IsEntry(d, h, s[j], i)

\* N are names with an entry and R the classes reported.  A class is done when
\* its names have entries, or it has been reported.
ClassDone(d, h, i, N, R) ==
  /\ StateOf(d, i) = "ok" => ClassNames(d, i) \subseteq N
  /\ StateOf(d, i) = "broken" => \E o \in R : IsEntry(d, h, o, i)

\* What a loop has not done yet it is going to visit.
BlocksLeft(d, h, s, N) ==
  \A i \in BlocksOf(d) : ClassNames(d, i) \subseteq N \/ Pending(d, h, s, i)
FunctionsLeft(d, h, s, N) ==
  \A n \in HeaderFunctions(d) \ OperatorNames :
    n \in N \/ \E j \in DOMAIN s : h.objects[s[j]].data.name = n
ClassesLeft(d, h, s, N, R) ==
  \A i \in OfKind(d, "class") : ClassDone(d, h, i, N, R) \/ Pending(d, h, s, i)

\* Only classes with broken XML are reported.
ReportedBroken(d, h, R) ==
  \A o \in R : \E i : IsEntry(d, h, o, i) /\ StateOf(d, i) = "broken"

\* No entry has a name that ought to have none.
NamesRight(d, N) == N \subseteq Documented(d) \cup {d.index[i].name : i \in BlocksOf(d)}

\* What the loop the program is in has made of the directory, when no other
\* calls have been made.
EntryInv ==
  LET N == NamesIn(output) IN
  calls = 0 =>
    /\ NamesRight(corpus, N)
    /\ phase = "open" => N = {} /\ makeFuncs = {}
    /\ phase \in {"open", "blocks", "functions"} => reports = {}
    /\ phase \in {"blocks", "functions"} => AreBlocks(corpus, heap, blocks)
    /\ phase = "blocks" => /\ makeFuncs \ OperatorNames \subseteq N
                           /\ BlocksLeft(corpus, heap, todo, N)
    /\ phase = "functions" => /\ \A i \in BlocksOf(corpus) : ClassNames(corpus, i) \subseteq N
                              /\ AreFunctions(corpus, heap, todo)
                              /\ FunctionsLeft(corpus, heap, todo, N)
    /\ phase = "classes" => /\ HeaderFunctions(corpus) \ OperatorNames \subseteq N
                            /\ ClassesLeft(corpus, heap, todo, N, reports)
                            /\ ReportedBroken(corpus, heap, reports)
    /\ AllAccountedFor

(* An object stands for one class.                                         *)
LEMMA EntryUnique ==
  ASSUME NEW d, GoodDirectory(d), NEW h, NEW o, NEW i, NEW l,
         IsEntry(d, h, o, i), IsEntry(d, h, o, l)
  PROVE  i = l
<1>1. d.index[i] = d.index[l] /\ i \in DOMAIN d.index /\ l \in DOMAIN d.index
  BY DEF IsEntry, OfKind
<1> QED
  BY <1>1 DEF GoodDirectory, Consistent

(* The names of a class ought to have a docstring, and so ought those of   *)
(* the functions of the headers.                                           *)
LEMMA DocumentedHas ==
  ASSUME corpus \in Corpora
  PROVE  /\ \A i \in OfKind(corpus, "class") : StateOf(corpus, i) = "ok" =>
               ClassNames(corpus, i) \subseteq Documented(corpus)
         /\ HeaderFunctions(corpus) \ OperatorNames \subseteq Documented(corpus)
         /\ \A n \in Documented(corpus) :
               \/ n \in HeaderFunctions(corpus) \ OperatorNames
               \/ \E i \in OfKind(corpus, "class") :
                     StateOf(corpus, i) = "ok" /\ n \in ClassNames(corpus, i)
<1> DEFINE readable == {i \in OfKind(corpus, "class") : StateOf(corpus, i) = "ok"}
           C == UNION {NamesOfClass(corpus, i) : i \in readable}
<1>1. Documented(corpus) = (HeaderFunctions(corpus) \cup C) \ OperatorNames
  BY DEF Documented
<1>2. \A n : n \in C <=> \E i \in OfKind(corpus, "class") :
                           StateOf(corpus, i) = "ok" /\ n \in NamesOfClass(corpus, i)
  OBVIOUS
<1> HIDE DEF C
<1>3. ASSUME NEW i \in OfKind(corpus, "class")
      PROVE  ClassNames(corpus, i) = NamesOfClass(corpus, i) \ OperatorNames
  <2>1. corpus.index[i].name \notin OperatorNames
    BY NamesAssumption DEF NamesApart, OfKind
  <2> QED
    BY <2>1 DEF ClassNames, NamesOfClass
<1> QED
  BY <1>1, <1>2, <1>3

(* What is left stays left on a larger heap.                               *)
LEMMA LeftOn ==
  ASSUME NEW d, NEW h, NEW g, \A o, i : IsEntry(d, h, o, i) => IsEntry(d, g, o, i)
  PROVE  /\ \A s : AreBlocks(d, h, s) => AreBlocks(d, g, s)
         /\ \A s, i : Pending(d, h, s, i) => Pending(d, g, s, i)
         /\ \A i, N, R : ClassDone(d, h, i, N, R) => ClassDone(d, g, i, N, R)
         /\ \A R : ReportedBroken(d, h, R) => ReportedBroken(d, g, R)
<1>1. \A s : AreBlocks(d, h, s) => AreBlocks(d, g, s)
  BY DEF AreBlocks
<1>2. \A s, i : Pending(d, h, s, i) => Pending(d, g, s, i)
  BY DEF Pending
<1>3. \A i, N, R : ClassDone(d, h, i, N, R) => ClassDone(d, g, i, N, R)
  BY DEF ClassDone
<1>4. \A R : ReportedBroken(d, h, R) => ReportedBroken(d, g, R)
  BY DEF ReportedBroken
<1> QED
  BY <1>1, <1>2, <1>3, <1>4

(* A turn visits the first of a list and leaves the others.                *)
LEMMA PendingTail ==
  ASSUME NEW h, InHeap(h, todo), todo # <<>>, NEW d, NEW g, NEW i, Pending(d, g, todo, i)
  PROVE  IsEntry(d, g, Head(todo), i) \/ Pending(d, g, Tail(todo), i)
<1>1. PICK j \in DOMAIN todo : IsEntry(d, g, todo[j], i)
  BY DEF Pending
<1>2. /\ Head(todo) = todo[1]
      /\ j # 1 => j - 1 \in DOMAIN Tail(todo) /\ Tail(todo)[j - 1] = todo[j]
  BY TailOf
<1> QED
  BY <1>1, <1>2 DEF Pending

(* The names of the entries after a turn.                                  *)
LEMMA NamesAfter ==
  ASSUME SwigInv, NEW g, Enters(corpus, Called, g), Ok(g)
  PROVE  NamesIn(output \o g.result) = NamesIn(output) \cup NamesIn(g.result)
<1>1. Fine(corpus, Called) /\ Ids(Called) = Ids(heap)
  BY AtCall
<1>2. EntriesFit(Called, output)
  BY <1>1, EntriesSame DEF SwigInv
<1>3. EntriesFit(g, output) /\ EntriesFit(g, g.result)
  BY <1>1, <1>2, EntriesOn DEF Enters
<1> QED
  BY <1>3, NamesJoin

(* blocks = di.in_category(Block): every block is going to be visited.     *)
LEMMA FindBlocksEnters ==
  ASSUME SwigInv, AbortInv, EntryInv, FindBlocks
  PROVE  EntryInv'
<1> SUFFICES ASSUME calls = 0 PROVE EntryInv'
  BY DEF EntryInv, FindBlocks, Abort
<1> DEFINE cat == "Block"
           h == InCategory(Called, Index, cat)
<1>1. GoodDirectory(corpus) /\ Fine(corpus, Called) /\ Ok(Called) /\ Called.objects = heap.objects
      /\ Index \in Ids(Called)
  BY AtCall
<1>2. /\ phase = "open" /\ corpus' = corpus /\ heap' = Settled(h) /\ calls' = calls
      /\ output' = output /\ makeFuncs' = makeFuncs /\ reports' = reports
      /\ \/ phase' = "aborted" /\ ~ Ok(h)
         \/ phase' = "blocks" /\ Ok(h) /\ todo' = h.result /\ blocks' = h.result
  BY DEF FindBlocks, Abort
<1>3. ~ Called.objects[Index].parsed
  BY <1>1, <1>2 DEF AbortInv
<1>4. BlocksFound(h)
  BY <1>1, <1>3, BlocksExact
<1>5. cat \in Categories \ {None}
  BY CategoriesHave
<1> HIDE DEF cat
<1>6. Serves(corpus, Called, h)
  BY <1>1, <1>5, InCategoryFits
<1> HIDE DEF h
<1>7. NamesRight(corpus, NamesIn(output)) /\ NamesIn(output) = {} /\ makeFuncs = {} /\ reports = {}
  BY <1>2 DEF EntryInv
<1>8. (phase # "written")' => AllAccountedFor'
  BY DEF AllAccountedFor
<1>9. CASE phase' = "aborted" /\ ~ Ok(h)
  BY <1>2, <1>7, <1>8, <1>9 DEF EntryInv
<1>10. CASE phase' = "blocks" /\ Ok(h) /\ todo' = h.result /\ blocks' = h.result
  <2>1. AreBlocks(corpus, heap', h.result)
    BY <1>2, <1>4, <1>6, <1>10, CallLeaves DEF BlocksFound
  <2>2. BlocksLeft(corpus, heap', todo', NamesIn(output)) /\ AreBlocks(corpus, heap', blocks')
    BY <1>10, <2>1 DEF AreBlocks, BlocksLeft, Pending
  <2>3. makeFuncs \ OperatorNames \subseteq NamesIn(output)
    BY <1>7
  <2> QED
    BY <1>2, <1>7, <1>8, <1>10, <2>2, <2>3 DEF EntryInv
<1> QED
  BY <1>2, <1>9, <1>10

(* A turn of the loop over the blocks makes the entries of its block.      *)
LEMMA BlockEntryEnters ==
  ASSUME SwigInv, AbortInv, EntryInv, BlockEntry
  PROVE  EntryInv'
<1> DEFINE block == Head(todo)
           make == MakeOf(Called, block)
           h == BlockTurn(Called, block)
           N == NamesIn(output)
<1>1. Called.objects = heap.objects /\ GoodDirectory(corpus) /\ Ok(Called) /\ Fine(corpus, heap)
      /\ Fine(corpus, Called) /\ corpus \in Corpora
  BY AtCall DEF SwigInv
<1>2. /\ phase = "blocks" /\ todo # <<>> /\ corpus' = corpus /\ calls' = calls
      /\ heap' = Settled(h) /\ blocks' = blocks
      /\ \/ /\ phase' = "aborted" /\ ~ Ok(h) /\ ~ Handled(h) /\ output' = output
            /\ reports' = reports
         \/ /\ phase' = "blocks" /\ (Ok(h) \/ Handled(h)) /\ todo' = Tail(todo)
            /\ Ok(h) => output' = output \o h.result /\ reports' = reports
            /\ makeFuncs' = makeFuncs \cup
                  (IF Ok(make) THEN {make.objects[make.result].data.name} ELSE {})
  BY <1>1 DEF BlockEntry, Object, Abort, Turn, Advance, BlockTurn, MakeOf
<1> SUFFICES ASSUME calls = 0 PROVE EntryInv'
  BY <1>2 DEF EntryInv
<1>3. InHeap(heap, todo) /\ 1 \in DOMAIN todo /\ block = todo[1]
  BY <1>2, TailOf DEF SwigInv
<1>4. Whole(corpus, heap) /\ BlocksDone
  BY <1>2 DEF AbortInv
<1>5. PICK i \in BlocksOf(corpus) : IsEntry(corpus, heap, block, i)
  BY <1>3, <1>4 DEF BlocksDone
<1>6. Whole(corpus, Called) /\ IsEntry(corpus, Called, block, i)
  BY <1>1, <1>4, <1>5, SameObjects
<1> HIDE DEF block
<1>7. /\ Enters(corpus, Called, h) /\ Survives(h, ~ BlockLacks(corpus, i))
      /\ EntersBlock(corpus, i, h)
      /\ Ok(make) => make.objects[make.result].data.name = make_name(corpus.index[i].name)
  BY <1>1, <1>6, BlockTurnExact
<1> HIDE DEF h, make
<1>8. /\ NamesRight(corpus, N) /\ reports = {} /\ AreBlocks(corpus, heap, blocks)
      /\ makeFuncs \ OperatorNames \subseteq N /\ BlocksLeft(corpus, heap, todo, N)
  BY <1>2 DEF EntryInv
<1>9. (phase # "written")' => AllAccountedFor'
  BY DEF AllAccountedFor
<1>10. CASE phase' = "aborted" /\ output' = output /\ reports' = reports
  BY <1>2, <1>8, <1>9, <1>10 DEF EntryInv
<1>11. CASE /\ phase' = "blocks" /\ (Ok(h) \/ Handled(h)) /\ todo' = Tail(todo)
            /\ Ok(h) => output' = output \o h.result /\ reports' = reports
            /\ makeFuncs' = makeFuncs \cup
                  (IF Ok(make) THEN {make.objects[make.result].data.name} ELSE {})
  <2>1. Ok(h) /\ ~ BlockLacks(corpus, i) /\ output' = output \o h.result /\ reports' = {}
    BY <1>7, <1>8, <1>11 DEF Survives
  <2> DEFINE M == NamesIn(output')
  <2>2. M = N \cup NamesIn(h.result)
    BY <1>7, <2>1, NamesAfter
  <2>3. /\ BlockNames(corpus, i) \subseteq M
        /\ M \subseteq N \cup BlockNames(corpus, i) \cup {corpus.index[i].name}
    BY <1>7, <2>1, <2>2 DEF EntersBlock
  <2>4. BlockNames(corpus, i) \subseteq Documented(corpus)
    <3>1. ClassNames(corpus, i) \subseteq Documented(corpus)
      BY <1>1, DocumentedHas DEF BlocksOf
    <3> DEFINE m == make_name(corpus.index[i].name)
    <3>2. HeadersWith(corpus, m) # {}
      <4>1. Cardinality(HeadersWith(corpus, m)) = 1
        BY <2>1 DEF BlockLacks
      <4>2. Cardinality({}) = 0
        BY FS_EmptySet
      <4> QED
        BY <4>1, <4>2
    <3> HIDE DEF m
    <3>3. m \in HeaderFunctions(corpus)
      BY <1>1, <1>4, <3>2, HeaderFunctionsHeld
    <3>4. {m} \ OperatorNames \subseteq Documented(corpus)
      BY <1>1, <3>3, DocumentedHas
    <3> QED
      BY <3>1, <3>4 DEF BlockNames, m
  <2>5. NamesRight(corpus, M)
    BY <1>8, <2>3, <2>4 DEF NamesRight
  <2>6. makeFuncs' \ OperatorNames \subseteq M
    <3>1. makeFuncs' \subseteq makeFuncs \cup {make_name(corpus.index[i].name)}
      BY <1>7, <1>11
    <3>2. {make_name(corpus.index[i].name)} \ OperatorNames \subseteq M
      BY <2>3 DEF BlockNames
    <3> QED
      BY <1>8, <2>2, <3>1, <3>2
  <2>7. \A o, l : IsEntry(corpus, heap, o, l) => IsEntry(corpus, heap', o, l)
    BY <1>2, <1>7, CallLeaves DEF Enters
  <2>8. AreBlocks(corpus, heap', blocks)
    BY <1>8, <2>7, LeftOn
  <2>9. ASSUME NEW l \in BlocksOf(corpus)
        PROVE  ClassNames(corpus, l) \subseteq M \/ Pending(corpus, heap', todo', l)
    <3>1. CASE ClassNames(corpus, l) \subseteq N
      BY <2>2, <3>1
    <3>2. CASE Pending(corpus, heap, todo, l)
      <4>1. IsEntry(corpus, heap, block, l) \/ Pending(corpus, heap, Tail(todo), l)
        BY <1>2, <1>3, <3>2, PendingTail DEF block
      <4>2. CASE IsEntry(corpus, heap, block, l)
        <5>1. l = i
          BY <1>1, <1>5, <4>2, EntryUnique
        <5> QED
          BY <2>3, <5>1 DEF BlockNames
      <4>3. CASE Pending(corpus, heap, Tail(todo), l)
        BY <1>11, <2>7, <4>3, LeftOn
      <4> QED
        BY <4>1, <4>2, <4>3
    <3> QED
      BY <1>8, <3>1, <3>2 DEF BlocksLeft
  <2>10. BlocksLeft(corpus, heap', todo', M)
    BY <2>9 DEF BlocksLeft
  <2> QED
    BY <1>2, <1>9, <1>11, <2>1, <2>5, <2>6, <2>8, <2>10 DEF EntryInv
<1> QED
  BY <1>2, <1>10, <1>11

(* funcs = di.in_category(DoxyFunction): the functions that have no entry  *)
(* are going to be visited.                                                *)
LEMMA FindFunctionsEnters ==
  ASSUME SwigInv, AbortInv, EntryInv, FindFunctions
  PROVE  EntryInv'
<1> DEFINE h == InCategory(Called, Index, "DoxyFunction")
           s == h.result
           I == {i \in DOMAIN s : NotMade(h, s[i])}
           N == NamesIn(output)
<1>1. /\ phase = "blocks" /\ todo = <<>> /\ phase' = "functions" /\ heap' = Settled(h)
      /\ corpus' = corpus /\ calls' = calls /\ blocks' = blocks /\ output' = output
      /\ reports' = reports /\ makeFuncs' = makeFuncs /\ todo' = Chosen(s, I)
  BY DEF FindFunctions
<1> SUFFICES ASSUME calls = 0 PROVE EntryInv'
  BY <1>1 DEF EntryInv
<1>2. /\ NamesRight(corpus, N) /\ reports = {} /\ AreBlocks(corpus, heap, blocks)
      /\ makeFuncs \ OperatorNames \subseteq N /\ BlocksLeft(corpus, heap, todo, N)
      /\ Whole(corpus, heap)
  BY <1>1 DEF EntryInv, AbortInv
<1>3. \A i \in BlocksOf(corpus) : ClassNames(corpus, i) \subseteq N
  <2>1. DOMAIN todo = {}
    BY <1>1
  <2> QED
    BY <1>2, <2>1 DEF BlocksLeft, Pending
<1>4. GoodDirectory(corpus) /\ Fine(corpus, Called) /\ Ok(Called) /\ Called.objects = heap.objects
  BY AtCall
<1>5. Whole(corpus, Called)
  BY <1>2, <1>4, SameObjects
<1>6. /\ Serves(corpus, Called, h) /\ s \in Seq(Nat) /\ AreFunctions(corpus, h, s)
      /\ \A n \in HeaderFunctions(corpus) : \E j \in DOMAIN s : h.objects[s[j]].data.name = n
  BY <1>4, <1>5, FunctionsFound
<1>7. I \in SUBSET (DOMAIN s) /\ \A j \in DOMAIN s : h.objects[s[j]].data.name \notin makeFuncs => j \in I
  BY DEF NotMade, Object
<1> HIDE DEF h, I, s
<1>8. /\ heap'.objects = h.objects
      /\ \A o, i : IsEntry(corpus, heap, o, i) => IsEntry(corpus, heap', o, i)
  BY <1>1, <1>6, CallLeaves
<1> DEFINE c == Chosen(s, I)
<1>9. \A j \in DOMAIN c : \E l \in I \cap DOMAIN s : c[j] = s[l]
  BY <1>6, <1>7, ChosenIn
<1>14. \A i \in I : \E j \in DOMAIN c : c[j] = s[i]
  BY <1>6, <1>7, ChosenHas
<1> HIDE DEF c
<1>10. AreFunctions(corpus, heap', c)
  <2>1. Ids(heap') = Ids(h)
    BY <1>8 DEF Ids
  <2> QED
    BY <1>6, <1>8, <1>9, <2>1 DEF AreFunctions, IsFunction
<1>11. FunctionsLeft(corpus, heap', c, N)
  <2>1. ASSUME NEW n \in HeaderFunctions(corpus) \ OperatorNames, n \notin N
        PROVE  \E j \in DOMAIN c : heap'.objects[c[j]].data.name = n
    <3>1. PICK j \in DOMAIN s : h.objects[s[j]].data.name = n
      BY <1>6
    <3>2. n \notin makeFuncs
      BY <1>2, <2>1
    <3>3. j \in I
      BY <1>7, <3>1, <3>2
    <3> QED
      BY <1>8, <1>14, <3>1, <3>3
  <2> QED
    BY <2>1 DEF FunctionsLeft
<1>12. AreBlocks(corpus, heap', blocks)
  BY <1>2, <1>8, LeftOn
<1>13. (phase # "written")' => AllAccountedFor'
  BY DEF AllAccountedFor
<1> QED
  BY <1>1, <1>2, <1>3, <1>10, <1>11, <1>12, <1>13 DEF EntryInv, c

(* A turn of the loop over the functions makes the entry of its function.  *)
LEMMA FunctionEntryEnters ==
  ASSUME SwigInv, AbortInv, EntryInv, FunctionEntry
  PROVE  EntryInv'
<1> DEFINE f == Head(todo)
           n == heap.objects[f].data.name
           h == MakeFuncEntry(Called, f, n)
           N == NamesIn(output)
<1>1. /\ phase = "functions" /\ todo # <<>> /\ phase' = phase /\ heap' = Settled(h)
      /\ corpus' = corpus /\ calls' = calls /\ blocks' = blocks /\ makeFuncs' = makeFuncs
      /\ todo' = Tail(todo)
      /\ Ok(h) => output' = output \o h.result /\ reports' = reports
  BY DEF FunctionEntry, Turn, Object, Advance
<1> SUFFICES ASSUME calls = 0 PROVE EntryInv'
  BY <1>1 DEF EntryInv
<1>2. /\ NamesRight(corpus, N) /\ reports = {} /\ AreBlocks(corpus, heap, blocks)
      /\ \A i \in BlocksOf(corpus) : ClassNames(corpus, i) \subseteq N
      /\ AreFunctions(corpus, heap, todo) /\ FunctionsLeft(corpus, heap, todo, N)
  BY <1>1 DEF EntryInv
<1>3. GoodDirectory(corpus) /\ Fine(corpus, Called) /\ Ok(Called) /\ Called.objects = heap.objects
      /\ Ids(Called) = Ids(heap) /\ corpus \in Corpora
  BY AtCall DEF SwigInv
<1>4. InHeap(heap, todo)
  BY DEF SwigInv
<1>5. /\ f = todo[1] /\ 1 \in DOMAIN todo
      /\ \A j \in DOMAIN Tail(todo) : j + 1 \in DOMAIN todo /\ Tail(todo)[j] = todo[j + 1]
      /\ \A j \in DOMAIN todo : j # 1 => j - 1 \in DOMAIN Tail(todo)
                                         /\ Tail(todo)[j - 1] = todo[j]
  BY <1>1, <1>4, TailOf
<1>6. IsFunction(Called, f) /\ n \in HeaderFunctions(corpus) /\ f \in Ids(Called)
  BY <1>2, <1>3, <1>5 DEF AreFunctions, IsFunction
<1> HIDE DEF f, n
<1>7. Enters(corpus, Called, h) /\ Ok(h) /\ NamesIn(h.result) = {n} \ OperatorNames
  BY <1>3, <1>6, FuncEntryExact, MakeFuncEntryFits
<1> HIDE DEF h
<1>8. /\ heap'.objects = h.objects
      /\ \A o, l : IsEntry(corpus, heap, o, l) => IsEntry(corpus, heap', o, l)
  BY <1>1, <1>7, CallLeaves DEF Enters
<1> DEFINE M == NamesIn(output')
<1>9. M = N \cup ({n} \ OperatorNames) /\ reports' = {}
  BY <1>1, <1>2, <1>7, NamesAfter
<1>10. {n} \ OperatorNames \subseteq Documented(corpus)
  BY <1>3, <1>6, DocumentedHas
<1>11. NamesRight(corpus, M)
  BY <1>2, <1>9, <1>10 DEF NamesRight
<1>12. \A o \in Ids(heap) : /\ o \in Ids(heap')
                            /\ heap'.objects[o].cls = heap.objects[o].cls
                            /\ heap'.objects[o].data = heap.objects[o].data
  <2>1. \A o \in Ids(Called) : o \in Ids(h) /\ SameObject(Called.objects[o], h.objects[o])
    BY <1>3, <1>7, ServesIds DEF Enters, Serves, Grows
  <2>2. Ids(h) = Ids(heap')
    BY <1>8 DEF Ids
  <2> QED
    BY <1>3, <1>8, <2>1, <2>2 DEF SameObject
<1>13. \A j \in DOMAIN todo : heap'.objects[todo[j]].data = heap.objects[todo[j]].data
  BY <1>4, <1>12 DEF InHeap
<1>14. AreFunctions(corpus, heap', Tail(todo))
  <2> SUFFICES ASSUME NEW j \in DOMAIN Tail(todo)
               PROVE  /\ IsFunction(heap', Tail(todo)[j])
                      /\ heap'.objects[Tail(todo)[j]].data.name \in HeaderFunctions(corpus)
    BY DEF AreFunctions
  <2>1. j + 1 \in DOMAIN todo /\ Tail(todo)[j] = todo[j + 1]
    BY <1>5
  <2> DEFINE l == j + 1
             o == todo[l]
  <2> HIDE DEF l
  <2>2. l \in DOMAIN todo /\ Tail(todo)[j] = o
    BY <2>1 DEF l
  <2>3. IsFunction(heap, o) /\ heap.objects[o].data.name \in HeaderFunctions(corpus)
    BY <1>2, <2>2 DEF AreFunctions
  <2> QED
    BY <1>12, <2>2, <2>3 DEF IsFunction
<1>15. FunctionsLeft(corpus, heap', Tail(todo), M)
  <2> SUFFICES ASSUME NEW m \in HeaderFunctions(corpus) \ OperatorNames, m \notin M
               PROVE  \E j \in DOMAIN Tail(todo) : heap'.objects[Tail(todo)[j]].data.name = m
    BY DEF FunctionsLeft
  <2>1. m \notin N /\ m # n
    BY <1>9
  <2>2. PICK j \in DOMAIN todo : heap.objects[todo[j]].data.name = m
    BY <1>2, <2>1 DEF FunctionsLeft
  <2>3. j # 1
    BY <1>5, <2>1, <2>2 DEF n
  <2> DEFINE l == j - 1
  <2>4. l \in DOMAIN Tail(todo) /\ Tail(todo)[l] = todo[j]
    BY <1>5, <2>3
  <2> HIDE DEF l
  <2> QED
    BY <1>13, <2>2, <2>4
<1>16. AreBlocks(corpus, heap', blocks)
  BY <1>2, <1>8, LeftOn
<1>17. \A i \in BlocksOf(corpus) : ClassNames(corpus, i) \subseteq M
  BY <1>2, <1>9
<1>18. (phase # "written")' => AllAccountedFor'
  BY DEF AllAccountedFor
<1>19. /\ phase' = "functions" /\ corpus' = corpus /\ reports' = {}
       /\ AreFunctions(corpus, heap', todo') /\ FunctionsLeft(corpus, heap', todo', M)
       /\ AreBlocks(corpus, heap', blocks')
  BY <1>1, <1>9, <1>14, <1>15, <1>16
<1> QED
  BY <1>11, <1>17, <1>18, <1>19 DEF EntryInv

(* klasses = di.in_category(DoxyClass): the classes that are no blocks are *)
(* going to be visited.  A class with the name of a block is the block.    *)
LEMMA FindClassesEnters ==
  ASSUME SwigInv, AbortInv, EntryInv, FindClasses
  PROVE  EntryInv'
<1> DEFINE h == InCategory(Called, Index, "DoxyClass")
           s == h.result
           blockNames == {heap.objects[blocks[i]].data.name : i \in DOMAIN blocks}
           I == {i \in DOMAIN s : h.objects[s[i]].data.name \notin blockNames}
           N == NamesIn(output)
<1>1. /\ phase = "functions" /\ todo = <<>> /\ phase' = "classes" /\ heap' = Settled(h)
      /\ corpus' = corpus /\ calls' = calls /\ blocks' = blocks /\ output' = output
      /\ reports' = reports /\ makeFuncs' = makeFuncs /\ todo' = Chosen(s, I)
  BY DEF FindClasses, Object
<1> SUFFICES ASSUME calls = 0 PROVE EntryInv'
  BY <1>1 DEF EntryInv
<1>2. /\ NamesRight(corpus, N) /\ reports = {} /\ AreBlocks(corpus, heap, blocks)
      /\ \A i \in BlocksOf(corpus) : ClassNames(corpus, i) \subseteq N
      /\ FunctionsLeft(corpus, heap, todo, N) /\ Whole(corpus, heap)
  BY <1>1 DEF EntryInv, AbortInv
<1>3. HeaderFunctions(corpus) \ OperatorNames \subseteq N
  <2>1. DOMAIN todo = {}
    <3>1. todo = <<>>
      BY <1>1
    <3> QED
      BY ONLY <3>1
  <2> QED
    BY <1>2, <2>1 DEF FunctionsLeft
<1>4. GoodDirectory(corpus) /\ Fine(corpus, Called) /\ Ok(Called) /\ Called.objects = heap.objects
      /\ corpus \in Corpora
  BY AtCall DEF SwigInv
<1>5. Whole(corpus, Called)
  BY <1>2, <1>4, SameObjects
<1>6. /\ Serves(corpus, Called, h) /\ s \in Seq(Nat)
      /\ \A i \in OfKind(corpus, "class") : \E j \in DOMAIN s : IsEntry(corpus, h, s[j], i)
  BY <1>4, <1>5, ClassesFound
<1>7. I \in SUBSET (DOMAIN s)
      /\ \A j \in DOMAIN s : h.objects[s[j]].data.name \notin blockNames => j \in I
  OBVIOUS
<1>8. ASSUME NEW i \in OfKind(corpus, "class"), corpus.index[i].name \in blockNames
      PROVE  i \in BlocksOf(corpus)
  <2>1. PICK j \in DOMAIN blocks : corpus.index[i].name = heap.objects[blocks[j]].data.name
    BY <1>8
  <2>2. PICK l \in BlocksOf(corpus) : IsEntry(corpus, heap, blocks[j], l)
    BY <1>2 DEF AreBlocks
  <2>3. corpus.index[l].name = corpus.index[i].name /\ l \in OfKind(corpus, "class")
    BY <2>1, <2>2 DEF IsEntry
  <2>4. i = l
    BY <1>4, <2>3, NamesAssumption DEF NamesApart, OfKind
  <2> QED
    BY <2>4
<1> HIDE DEF h, I, s, blockNames
<1>9. /\ heap'.objects = h.objects
      /\ \A o, i : IsEntry(corpus, heap, o, i) => IsEntry(corpus, heap', o, i)
  BY <1>1, <1>6, CallLeaves
<1> DEFINE c == Chosen(s, I)
<1>10. \A i \in I : \E j \in DOMAIN c : c[j] = s[i]
  BY <1>6, <1>7, ChosenHas
<1> HIDE DEF c
<1>11. \A o, i : IsEntry(corpus, h, o, i) => IsEntry(corpus, heap', o, i)
  BY <1>9 DEF IsEntry, Ids
<1>12. ASSUME NEW i \in OfKind(corpus, "class")
       PROVE  ClassDone(corpus, heap', i, N, {}) \/ Pending(corpus, heap', c, i)
  <2>1. PICK j \in DOMAIN s : IsEntry(corpus, h, s[j], i)
    BY <1>6
  <2>2. h.objects[s[j]].data.name = corpus.index[i].name
    BY <2>1 DEF IsEntry
  <2>3. CASE j \in I
    <3>1. PICK l \in DOMAIN c : c[l] = s[j]
      BY <1>10, <2>3
    <3>2. IsEntry(corpus, heap', c[l], i)
      BY <1>11, <2>1, <3>1
    <3> QED
      BY <3>2 DEF Pending
  <2>4. CASE j \notin I
    <3>1. i \in BlocksOf(corpus)
      BY <1>7, <1>8, <2>2, <2>4
    <3>2. ClassNames(corpus, i) \subseteq N /\ StateOf(corpus, i) = "ok"
      BY <1>2, <3>1 DEF BlocksOf
    <3> QED
      BY <3>2 DEF ClassDone
  <2> QED
    BY <2>3, <2>4
<1>13. ClassesLeft(corpus, heap', c, N, {}) /\ ReportedBroken(corpus, heap', {})
  BY <1>12 DEF ClassesLeft, ReportedBroken
<1>14. (phase # "written")' => AllAccountedFor'
  BY DEF AllAccountedFor
<1> QED
  BY <1>1, <1>2, <1>3, <1>13, <1>14 DEF EntryInv, c

(* A turn of the loop over the classes makes the entries of its class, or  *)
(* reports it.                                                             *)
LEMMA ClassEntryEnters ==
  ASSUME SwigInv, AbortInv, EntryInv, ClassEntry
  PROVE  EntryInv'
<1> DEFINE k == Head(todo)
           h == ClassTurn(Called, k)
           N == NamesIn(output)
<1>1. /\ phase = "classes" /\ todo # <<>> /\ heap' = Settled(h)
      /\ corpus' = corpus /\ calls' = calls
      /\ \/ ~ Ok(h) /\ ~ Handled(h)
         \/ /\ phase' = phase /\ todo' = Tail(todo)
            /\ Ok(h) => output' = output \o h.result /\ reports' = reports
            /\ ~ Ok(h) => output' = output /\ reports' = reports \cup {k}
  BY DEF ClassEntry, Abort, Turn, Advance, ClassTurn
<1> SUFFICES ASSUME calls = 0 PROVE EntryInv'
  BY <1>1 DEF EntryInv
<1>2. Whole(corpus, heap) /\ ~ Unusable(corpus) /\ AreClasses(corpus, heap, todo)
  BY <1>1 DEF AbortInv
<1>3. /\ NamesRight(corpus, N) /\ HeaderFunctions(corpus) \ OperatorNames \subseteq N
      /\ ClassesLeft(corpus, heap, todo, N, reports) /\ ReportedBroken(corpus, heap, reports)
  BY <1>1 DEF EntryInv
<1>4. GoodDirectory(corpus) /\ Fine(corpus, Called) /\ Ok(Called) /\ Called.objects = heap.objects
      /\ corpus \in Corpora /\ InHeap(heap, todo)
  BY AtCall DEF SwigInv
<1>5. k = todo[1] /\ 1 \in DOMAIN todo
  BY <1>1, <1>4, TailOf
<1>6. PICK i : IsEntry(corpus, heap, k, i)
  BY <1>2, <1>5 DEF AreClasses
<1>7. Whole(corpus, Called) /\ IsEntry(corpus, Called, k, i) /\ ~ Unreadable(corpus)
  BY <1>2, <1>4, <1>6, SameObjects, UnusableIs
<1> HIDE DEF k
<1>8. /\ Enters(corpus, Called, h) /\ (Ok(h) \/ Handled(h))
      /\ Ok(h) => StateOf(corpus, i) = "ok" /\ NamesIn(h.result) = ClassNames(corpus, i)
      /\ ~ Ok(h) => StateOf(corpus, i) = "broken"
  BY <1>4, <1>7, ClassTurnExact
<1> HIDE DEF h
<1> DEFINE M == NamesIn(output')
<1>9. /\ phase' = "classes" /\ todo' = Tail(todo)
      /\ Ok(h) => output' = output \o h.result /\ reports' = reports
      /\ ~ Ok(h) => output' = output /\ reports' = reports \cup {k}
  BY <1>1, <1>8
<1>10. \A o, l : IsEntry(corpus, heap, o, l) => IsEntry(corpus, heap', o, l)
  BY <1>1, <1>8, CallLeaves DEF Enters
<1>11. /\ Ok(h) => M = N \cup ClassNames(corpus, i)
       /\ ~ Ok(h) => M = N
       /\ reports \subseteq reports' /\ reports' \subseteq reports \cup {k}
  BY <1>8, <1>9, NamesAfter
<1>12. i \in OfKind(corpus, "class")
  BY <1>6 DEF IsEntry
<1>13. NamesRight(corpus, M)
  <2>1. StateOf(corpus, i) = "ok" => ClassNames(corpus, i) \subseteq Documented(corpus)
    BY <1>4, <1>12, DocumentedHas
  <2> QED
    BY <1>3, <1>8, <1>11, <2>1 DEF NamesRight
<1>14. ClassDone(corpus, heap', i, M, reports')
  <2>1. IsEntry(corpus, heap', k, i)
    BY <1>6, <1>10
  <2> QED
    BY <1>8, <1>9, <1>11, <2>1 DEF ClassDone
<1>15. ASSUME NEW l \in OfKind(corpus, "class")
       PROVE  ClassDone(corpus, heap', l, M, reports') \/ Pending(corpus, heap', todo', l)
  <2>1. CASE ClassDone(corpus, heap, l, N, reports)
    <3>1. ClassDone(corpus, heap', l, N, reports)
      BY <1>10, <2>1, LeftOn
    <3> QED
      BY <1>11, <3>1 DEF ClassDone
  <2>2. CASE Pending(corpus, heap, todo, l)
    <3>1. IsEntry(corpus, heap, k, l) \/ Pending(corpus, heap, Tail(todo), l)
      BY <1>1, <1>4, <2>2, PendingTail DEF k
    <3>2. CASE IsEntry(corpus, heap, k, l)
      <4>1. l = i
        BY <1>4, <1>6, <3>2, EntryUnique
      <4> QED
        BY <1>14, <4>1
    <3>3. CASE Pending(corpus, heap, Tail(todo), l)
      BY <1>9, <1>10, <3>3, LeftOn
    <3> QED
      BY <3>1, <3>2, <3>3
  <2> QED
    BY <1>3, <2>1, <2>2 DEF ClassesLeft
<1>16. ClassesLeft(corpus, heap', todo', M, reports')
  BY <1>15 DEF ClassesLeft
<1>17. ReportedBroken(corpus, heap', reports')
  <2>1. ReportedBroken(corpus, heap', reports)
    BY <1>3, <1>10, LeftOn
  <2> QED
    BY <1>6, <1>8, <1>9, <1>10, <2>1 DEF ReportedBroken
<1>18. HeaderFunctions(corpus) \ OperatorNames \subseteq M
  BY <1>3, <1>11
<1>19. (phase # "written")' => AllAccountedFor'
  BY DEF AllAccountedFor
<1> QED
  BY <1>1, <1>9, <1>13, <1>16, <1>17, <1>18, <1>19 DEF EntryInv

(* When the file is written nothing is left: every class that can be read  *)
(* has its entries, and every other has been reported.                     *)
LEMMA WriteEnters ==
  ASSUME SwigInv, AbortInv, EntryInv, Write
  PROVE  EntryInv'
<1> DEFINE N == NamesIn(output)
           broken == {i \in OfKind(corpus, "class") : StateOf(corpus, i) = "broken"}
<1>1. /\ phase = "classes" /\ todo = <<>> /\ phase' = "written" /\ corpus' = corpus
      /\ heap' = heap /\ calls' = calls /\ output' = output /\ reports' = reports
  BY DEF Write
<1> SUFFICES ASSUME calls = 0 PROVE EntryInv'
  BY <1>1 DEF EntryInv
<1>2. corpus \in Corpora /\ ~ Unusable(corpus)
  BY <1>1 DEF AbortInv, SwigInv
<1>3. /\ NamesRight(corpus, N) /\ HeaderFunctions(corpus) \ OperatorNames \subseteq N
      /\ ClassesLeft(corpus, heap, todo, N, reports) /\ ReportedBroken(corpus, heap, reports)
  BY <1>1 DEF EntryInv
<1>4. \A i \in OfKind(corpus, "class") : ClassDone(corpus, heap, i, N, reports)
  <2>1. DOMAIN todo = {}
    <3>1. todo = <<>>
      BY <1>1
    <3> QED
      BY ONLY <3>1
  <2> QED
    BY <1>3, <2>1 DEF ClassesLeft, Pending
<1>5. Documented(corpus) \subseteq N
  <2> SUFFICES ASSUME NEW n \in Documented(corpus) PROVE n \in N
    OBVIOUS
  <2>1. \/ n \in HeaderFunctions(corpus) \ OperatorNames
        \/ \E i \in OfKind(corpus, "class") :
              StateOf(corpus, i) = "ok" /\ n \in ClassNames(corpus, i)
    BY <1>2, DocumentedHas
  <2> QED
    BY <1>3, <1>4, <2>1 DEF ClassDone
<1>6. N \subseteq Documented(corpus) \cup {corpus.index[i].name : i \in BlocksOf(corpus)}
  BY <1>3 DEF NamesRight
<1>7. \A o \in reports : \E i \in broken : heap.objects[o].refid = corpus.index[i].refid
  <2> SUFFICES ASSUME NEW o \in reports
               PROVE  \E i \in broken : heap.objects[o].refid = corpus.index[i].refid
    OBVIOUS
  <2>1. PICK i : IsEntry(corpus, heap, o, i) /\ StateOf(corpus, i) = "broken"
    BY <1>3 DEF ReportedBroken
  <2> QED
    BY <2>1 DEF IsEntry
<1>8. \A i \in broken : \E o \in reports : heap.objects[o].refid = corpus.index[i].refid
  <2> SUFFICES ASSUME NEW i \in broken
               PROVE  \E o \in reports : heap.objects[o].refid = corpus.index[i].refid
    OBVIOUS
  <2>1. PICK o \in reports : IsEntry(corpus, heap, o, i)
    BY <1>4 DEF ClassDone
  <2> QED
    BY <2>1 DEF IsEntry
<1>9. {Object(heap, o).refid : o \in reports} = {corpus.index[i].refid : i \in broken}
  <2> HIDE DEF broken
  <2> QED
    BY <1>7, <1>8 DEF Object
<1>10. AllAccountedFor'
  BY <1>1, <1>5, <1>6, <1>9 DEF AllAccountedFor, NamesIn
<1> QED
  BY <1>1, <1>3, <1>10 DEF EntryInv

(* Every step of the generator and of a reader keeps what is entered.      *)
LEMMA StepEnters == SwigInv /\ AbortInv /\ EntryInv /\ [Next]_vars => EntryInv'
<1> SUFFICES ASSUME SwigInv, AbortInv, EntryInv, [Next]_vars PROVE EntryInv'
  OBVIOUS
<1>1. CASE Explore
  <2>1. calls \in Nat /\ calls' = calls + 1
    BY <1>1, MaxCallsAssumption DEF SwigInv, Explore, UserCall
  <2> QED
    BY <2>1 DEF EntryInv
<1>2. CASE FindBlocks
  BY <1>2, FindBlocksEnters
<1>3. CASE BlockEntry
  BY <1>3, BlockEntryEnters
<1>4. CASE FindFunctions
  BY <1>4, FindFunctionsEnters
<1>5. CASE FunctionEntry
  BY <1>5, FunctionEntryEnters
<1>6. CASE FindClasses
  BY <1>6, FindClassesEnters
<1>7. CASE ClassEntry
  BY <1>7, ClassEntryEnters
<1>8. CASE Write
  BY <1>8, WriteEnters
<1>9. CASE UNCHANGED vars
  <2>1. /\ calls' = calls /\ phase' = phase /\ heap' = heap /\ corpus' = corpus /\ todo' = todo
        /\ blocks' = blocks /\ makeFuncs' = makeFuncs /\ output' = output /\ reports' = reports
    BY <1>9 DEF vars, doxyVars, swigVars
  <2>2. AllAccountedFor' <=> AllAccountedFor
    BY <2>1 DEF AllAccountedFor
  <2> QED
    BY <2>1, <2>2 DEF EntryInv
<1> QED
  BY <1>1, <1>2, <1>3, <1>4, <1>5, <1>6, <1>7, <1>8, <1>9 DEF Next, Generate

(* Run on a new DoxyIndex, the program accounts for everything in a file   *)
(* that it writes: every class that can be read has an entry if it is      *)
(* described and one for each of its methods, every function of a header   *)
(* has one, nothing else has but the blocks, and the classes reported are  *)
(* exactly those with broken XML.                                          *)
THEOREM AccountsTheorem == Spec => []AllAccountedFor
<1>1. Init => EntryInv
  BY FewNames DEF Init, DoxyInit, EntryInv, NamesRight, AllAccountedFor
<1>2. EntryInv /\ SwigInv => AllAccountedFor
  <2> SUFFICES ASSUME EntryInv, calls = 0 PROVE AllAccountedFor
    BY DEF AllAccountedFor
  <2> QED
    BY DEF EntryInv
<1>3. Init => SwigInv
  BY InitInv
<1>4. Init => AbortInv
  BY DEF Init, DoxyInit, AbortInv, NewHeap, NewObject, Index
<1>5. SwigInv /\ AbortInv /\ EntryInv /\ [Next]_vars => SwigInv' /\ AbortInv' /\ EntryInv'
  BY StepInv, StepAborts, StepEnters
<1> QED
  BY <1>1, <1>2, <1>3, <1>4, <1>5, PTL DEF Spec
==============================================================================
