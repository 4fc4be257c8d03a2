---------------------------- MODULE SwigDocProofs ----------------------------
(***************************************************************************)
(* Proofs about DoxyIndex and SwigDoc: what the objects and the caches of  *)
(* doxyxml hold, for every directory of files and every sequence of calls, *)
(* those of the generator among them.                                      *)
(*                                                                         *)
(* The invariants say little of a heap that a call leaves half-way.  So    *)
(* the argument goes from the heaps a program can reach to its steps:      *)
(*   - Good says of a heap, in a call or between two, that each of its     *)
(*     objects fits (ObjectFits) and that its refids name them;            *)
(*   - Grows says what a call may do to the objects there were: nothing,   *)
(*     once they were read, but new cache entries.  It is why a list that  *)
(*     was cached does not become stale: what it was made of cannot change *)
(*     any more;                                                           *)
(*   - Read, Compounded and Indexed say what a _parse makes of its object, *)
(*     turn by turn: the only steps that give an object members.  Prefix   *)
(*     is what they make of the index;                                     *)
(*   - Serves says of a call that it leaves a heap with that index (Fine)  *)
(*     and lets it grow.  Every operation serves, from the calls it makes  *)
(*     being such;                                                         *)
(*   - SwigInv, the inductive invariant, adds that what the generator has  *)
(*     in its variables are objects of that heap.                          *)
(* What a look-up by class and name finds is found out on the way: a block *)
(* is one by such a look-up (Block.includes), and the list of the blocks   *)
(* is a cache.  SwigRunProofs goes on with the look-ups of the generator.  *)
(***************************************************************************)
EXTENDS SwigDoc, SequenceTheorems, FiniteSetTheorems, WellFoundedInduction, TLAPS

-----------------------------------------------------------------------------
(* Heaps and their objects.                                                *)

\* What the fields of an object hold: its class, the node it was made of, and
\* partial functions from categories, from names and from refids.
Classes == {"DoxyIndex"} \cup {ClassOfKind[k] : k \in DOMAIN ClassOfKind}
ParseData == {Unknown} \cup Compounds \cup Memberdefs
Lists == UNION {[D -> Seq(Nat)] : D \in SUBSET Categories}
DictEntry == Nat \cup {Duplicate}
Dict == UNION {[N -> DictEntry] : N \in SUBSET Seq(STRING)}
Dicts == UNION {[D -> Dict] : D \in SUBSET Categories}
Refs == UNION {[R -> Nat] : R \in SUBSET Refids}

\* An object, a heap of them, and the numbers of its objects.
Obj == [cls : Classes, data : ParseData, refid : Refids \cup {None}, parsed : BOOLEAN,
        error : BOOLEAN, described : BOOLEAN, members : Seq(Nat),
        inCategory : Lists, dictMembers : Dicts]
Heap(h) ==
  /\ h = [objects |-> h.objects, refs |-> h.refs, result |-> h.result, raised |-> h.raised]
  /\ h.objects \in Seq(Obj)
  /\ h.refs \in Refs
Ids(h) == 1 .. Len(h.objects)

(* An object is a record of nine fields.                                   *)
LEMMA ObjectFields ==
  ASSUME NEW h, Heap(h), NEW o \in Ids(h)
  PROVE  /\ Len(h.objects) \in Nat /\ DOMAIN h.objects = Ids(h)
         /\ h.objects[o] \in Obj
BY LenProperties DEF Heap, Ids

(* Writing an object into its place changes that object and nothing else   *)
(* of the heap: what every assignment to a field of self does.             *)
LEMMA SetObject ==
  ASSUME NEW h, Heap(h), NEW o \in Ids(h), NEW x \in Obj
  PROVE  LET g == [h EXCEPT !.objects[o] = x] IN
         /\ Heap(g) /\ Len(g.objects) = Len(h.objects)
         /\ g.refs = h.refs /\ g.result = h.result /\ g.raised = h.raised
         /\ \A p \in Ids(h) : g.objects[p] = IF p = o THEN x ELSE h.objects[p]
<1> DEFINE g == [h EXCEPT !.objects[o] = x]
<1>1. h = [objects |-> h.objects, refs |-> h.refs, result |-> h.result, raised |-> h.raised]
  BY DEF Heap
<1>2. g = [objects |-> [h.objects EXCEPT ![o] = x], refs |-> h.refs,
           result |-> h.result, raised |-> h.raised]
  BY <1>1
<1>3. /\ [h.objects EXCEPT ![o] = x] \in Seq(Obj)
      /\ Len([h.objects EXCEPT ![o] = x]) = Len(h.objects)
      /\ \A p \in Ids(h) : [h.objects EXCEPT ![o] = x][p] = IF p = o THEN x ELSE h.objects[p]
  BY ExceptSeq DEF Heap, Ids
<1> HIDE DEF g
<1>4. g.objects = [h.objects EXCEPT ![o] = x] /\ g.refs = h.refs /\ g.result = h.result /\ g.raised = h.raised
  BY <1>2
<1>5. Heap(g)
  BY <1>2, <1>3, <1>4 DEF Heap
<1> QED
  BY <1>3, <1>4, <1>5 DEF g

(* An object with a field set is again an object.                          *)
LEMMA SetFields ==
  ASSUME NEW x \in Obj
  PROVE  /\ [x EXCEPT !.parsed = TRUE] \in Obj
         /\ [x EXCEPT !.error = TRUE] \in Obj
         /\ [x EXCEPT !.described = TRUE] \in Obj
         /\ \A m \in Seq(Nat) : [x EXCEPT !.members = m] \in Obj
         /\ \A l \in Lists : [x EXCEPT !.inCategory = l] \in Obj
         /\ \A l \in Dicts : [x EXCEPT !.dictMembers = l] \in Obj
BY DEF Obj

(* A step inside one object is a change of that object.                    *)
LEMMA OneField ==
  ASSUME NEW h, Heap(h), NEW o \in Ids(h), NEW v
  PROVE  LET x == h.objects[o] IN
         /\ [h EXCEPT !.objects[o].parsed = v] = [h EXCEPT !.objects[o] = [x EXCEPT !.parsed = v]]
         /\ [h EXCEPT !.objects[o].error = v] = [h EXCEPT !.objects[o] = [x EXCEPT !.error = v]]
         /\ [h EXCEPT !.objects[o].described = v] = [h EXCEPT !.objects[o] = [x EXCEPT !.described = v]]
         /\ [h EXCEPT !.objects[o].members = v] = [h EXCEPT !.objects[o] = [x EXCEPT !.members = v]]
         /\ [h EXCEPT !.objects[o].inCategory = v] = [h EXCEPT !.objects[o] = [x EXCEPT !.inCategory = v]]
         /\ [h EXCEPT !.objects[o].dictMembers = v] = [h EXCEPT !.objects[o] = [x EXCEPT !.dictMembers = v]]
OBVIOUS

(* Entering a value keeps a partial function one.                          *)
LEMMA WithTypes ==
  /\ \A f \in Lists, c \in Categories, v \in Seq(Nat) : With(f, c, v) \in Lists
  /\ \A f \in Dicts, c \in Categories, v \in Dict : With(f, c, v) \in Dicts
  /\ \A f \in Dict, n \in Seq(STRING), v \in DictEntry : With(f, n, v) \in Dict
  /\ \A f \in Refs, r \in Refids, v \in Nat : With(f, r, v) \in Refs
<1>1. ASSUME NEW f \in Lists, NEW c \in Categories, NEW v \in Seq(Nat)
      PROVE  With(f, c, v) \in Lists
  <2>1. PICK D \in SUBSET Categories : f \in [D -> Seq(Nat)]
    BY DEF Lists
  <2>2. With(f, c, v) \in [D \cup {c} -> Seq(Nat)] /\ D \cup {c} \in SUBSET Categories
    BY <2>1 DEF With
  <2> QED
    BY <2>2 DEF Lists
<1>2. ASSUME NEW f \in Dicts, NEW c \in Categories, NEW v \in Dict
      PROVE  With(f, c, v) \in Dicts
  <2>1. PICK D \in SUBSET Categories : f \in [D -> Dict]
    BY DEF Dicts
  <2>2. With(f, c, v) \in [D \cup {c} -> Dict] /\ D \cup {c} \in SUBSET Categories
    BY <2>1 DEF With
  <2> QED
    BY <2>2 DEF Dicts
<1>3. ASSUME NEW f \in Dict, NEW n \in Seq(STRING), NEW v \in DictEntry
      PROVE  With(f, n, v) \in Dict
  <2>1. PICK N \in SUBSET Seq(STRING) : f \in [N -> DictEntry]
    BY DEF Dict
  <2>2. With(f, n, v) \in [N \cup {n} -> DictEntry] /\ N \cup {n} \in SUBSET Seq(STRING)
    BY <2>1 DEF With
  <2> QED
    BY <2>2 DEF Dict
<1>4. ASSUME NEW f \in Refs, NEW r \in Refids, NEW v \in Nat
      PROVE  With(f, r, v) \in Refs
  <2>1. PICK R \in SUBSET Refids : f \in [R -> Nat]
    BY DEF Refs
  <2>2. With(f, r, v) \in [R \cup {r} -> Nat] /\ R \cup {r} \in SUBSET Refids
    BY <2>1 DEF With
  <2> QED
    BY <2>2 DEF Refs
<1> QED
  BY <1>1, <1>2, <1>3, <1>4

(* What a partial function has after an entry.                             *)
LEMMA WithValues ==
  ASSUME NEW f, NEW x, NEW v
  PROVE  /\ DOMAIN With(f, x, v) = DOMAIN f \cup {x}
         /\ With(f, x, v)[x] = v
         /\ \A y \in DOMAIN f \ {x} : With(f, x, v)[y] = f[y]
BY DEF With

(* The empty function, which caches start with.                            *)
LEMMA EmptyCaches ==
  /\ <<>> \in Lists /\ <<>> \in Dicts /\ <<>> \in Dict /\ <<>> \in Refs
  /\ \A S : S = DOMAIN <<>> => S = {}
<1>1. DOMAIN <<>> = {} /\ <<>> = [x \in {} |-> 0]
  OBVIOUS
<1>2. \A S : [x \in {} |-> 0] \in [{} -> S]
  OBVIOUS
<1> QED
  BY <1>1, <1>2 DEF Lists, Dicts, Dict, Refs

-----------------------------------------------------------------------------
(* Selections.                                                             *)

(* The natural numbers are well founded.                                   *)
LEMMA LessWellFounded ==
  IsWellFoundedOn({p \in Nat \X Nat : p[1] < p[2]}, Nat)
<1>1. OpToRel(<, Nat) = {p \in Nat \X Nat : p[1] < p[2]}
  BY DEF OpToRel
<1> QED
  BY <1>1, NatLessThanWellFounded

(* A set of natural numbers that is not empty has a least element.         *)
LEMMA Least ==
  ASSUME NEW T, T \subseteq Nat, T # {}
  PROVE  \E x \in T : \A y \in T : x <= y
<1> DEFINE R == {p \in Nat \X Nat : p[1] < p[2]}
<1>1. IsWellFoundedOn(R, Nat)
  BY LessWellFounded
<1>2. PICK x \in T : \A y \in T : ~ (<<y, x>> \in R)
  <2> HIDE DEF R
  <2> QED
    BY <1>1, WFMin, Zenon
<1>3. ASSUME NEW y \in T PROVE x <= y
  <2>1. x \in Nat /\ y \in Nat /\ <<y, x>> \in Nat \X Nat
    OBVIOUS
  <2>2. <<y, x>> \notin R
    BY <1>2
  <2>3. ~ (<<y, x>>[1] < <<y, x>>[2])
    BY <2>1, <2>2
  <2> QED
    BY <2>1, <2>3
<1> QED
  BY <1>3

(* A set that holds 0 and with every number the next holds all up to n.    *)
LEMMA Induction ==
  ASSUME NEW S, NEW n \in Nat, 0 \in S,
         \A k \in 0 .. n - 1 : k \in S => k + 1 \in S
  PROVE  \A k \in 0 .. n : k \in S
<1> SUFFICES ASSUME NEW k \in 0 .. n, k \notin S PROVE FALSE
  OBVIOUS
<1> DEFINE T == {i \in 0 .. n : i \notin S}
<1>1. PICK x \in T : \A y \in T : x <= y
  <2>1. T \subseteq Nat /\ k \in T
    OBVIOUS
  <2> HIDE DEF T
  <2> QED
    BY <2>1, Least
<1>2. x # 0 /\ x \in 0 .. n
  OBVIOUS
<1>3. x - 1 \in 0 .. n - 1 /\ x - 1 \in 0 .. n /\ (x - 1) + 1 = x
  BY <1>2
<1>4. x - 1 \in S
  BY <1>1, <1>3
<1> QED
  BY <1>3, <1>4

(* Chosen goes through its sequence element by element.                    *)
LEMMA ChosenTurns ==
  ASSUME NEW s, NEW I, Len(s) \in Nat
  PROVE  \E f : /\ f[0] = <<>>
                /\ \A k \in 1 .. Len(s) :
                      f[k] = IF k \in I THEN Append(f[k - 1], s[k]) ELSE f[k - 1]
                /\ Chosen(s, I) = f[Len(s)]
<1> DEFINE Are(f, m) == f = [k \in 0 .. m |->
                               IF k = 0 THEN <<>>
                               ELSE IF k \in I THEN Append(f[k - 1], s[k])
                               ELSE f[k - 1]]
           S == {m \in Nat : \E f : Are(f, m)}
           n == Len(s)
<1>1. Chosen(s, I) = (CHOOSE f : Are(f, n))[n]
  BY DEF Chosen
<1>2. 0 \in S
  <2>1. Are([k \in 0 .. 0 |-> <<>>], 0)
    OBVIOUS
  <2> QED
    BY <2>1
<1> HIDE DEF n
<1>3. n \in Nat
  BY DEF n
<1>4. ASSUME NEW m \in 0 .. n - 1, m \in S PROVE m + 1 \in S
  <2>1. PICK f : Are(f, m)
    BY <1>4
  <2> DEFINE g == [k \in 0 .. m + 1 |->
                     IF k = m + 1 THEN IF m + 1 \in I THEN Append(f[m], s[m + 1]) ELSE f[m]
                     ELSE f[k]]
  <2>2. ASSUME NEW k \in 0 .. m + 1
        PROVE  g[k] = IF k = 0 THEN <<>>
                      ELSE IF k \in I THEN Append(g[k - 1], s[k]) ELSE g[k - 1]
    <3>1. CASE k = m + 1
      <4>1. k # 0 /\ k - 1 = m /\ m \in 0 .. m + 1 /\ m # m + 1
        BY <3>1
      <4> QED
        BY <3>1, <4>1
    <3>2. CASE k # m + 1
      <4>1. k \in 0 .. m /\ g[k] = f[k]
        BY <3>2
      <4>2. k # 0 => k - 1 \in 0 .. m + 1 /\ k - 1 # m + 1 /\ g[k - 1] = f[k - 1]
        BY <4>1
      <4>3. f[k] = IF k = 0 THEN <<>>
                   ELSE IF k \in I THEN Append(f[k - 1], s[k]) ELSE f[k - 1]
        BY <2>1, <4>1
      <4> QED
        BY <4>1, <4>2, <4>3
    <3> QED
      BY <3>1, <3>2
  <2> HIDE DEF g
  <2>3. Are(g, m + 1)
    <3>1. g = [k \in 0 .. m + 1 |-> g[k]]
      BY DEF g
    <3> QED
      BY <2>2, <3>1
  <2>4. m + 1 \in Nat
    BY <1>3
  <2> HIDE DEF Are
  <2> QED
    BY <2>3, <2>4
<1>5. n \in S
  <2>1. n \in 0 .. n
    BY <1>3
  <2> HIDE DEF S
  <2> QED
    BY <1>2, <1>3, <1>4, <2>1, Induction
<1> DEFINE last == CHOOSE f : Are(f, n)
<1>6. Are(last, n)
  BY <1>5
<1>7. Chosen(s, I) = last[n]
  BY <1>1
<1> HIDE DEF last, S
<1>8. last[0] = <<>>
  BY <1>3, <1>6
<1>9. ASSUME NEW k \in 1 .. n
      PROVE  last[k] = IF k \in I THEN Append(last[k - 1], s[k]) ELSE last[k - 1]
  <2>1. k \in 0 .. n /\ k # 0
    BY <1>3
  <2> QED
    BY <1>6, <2>1
<1> HIDE DEF Are
<1> QED
  BY <1>7, <1>8, <1>9 DEF n

(* The chosen elements are among those of the sequence at a chosen place.  *)
LEMMA ChosenFrom ==
  ASSUME NEW V, NEW s \in Seq(V), NEW I
  PROVE  Chosen(s, I) \in Seq({s[i] : i \in I \cap DOMAIN s})
<1> DEFINE W == {s[i] : i \in I \cap DOMAIN s}
<1>1. Len(s) \in Nat /\ DOMAIN s = 1 .. Len(s)
  BY LenProperties
<1>2. PICK f : /\ f[0] = <<>>
               /\ \A k \in 1 .. Len(s) :
                     f[k] = IF k \in I THEN Append(f[k - 1], s[k]) ELSE f[k - 1]
               /\ Chosen(s, I) = f[Len(s)]
  BY <1>1, ChosenTurns
<1> DEFINE S == {k \in 0 .. Len(s) : f[k] \in Seq(W)}
<1>3. 0 \in S
  <2>1. <<>> \in Seq(W)
    BY EmptySeq
  <2>2. 0 \in 0 .. Len(s)
    BY <1>1
  <2> HIDE DEF W
  <2> QED
    BY <1>2, <2>1, <2>2
<1>4. ASSUME NEW k \in 0 .. Len(s) - 1, k \in S PROVE k + 1 \in S
  <2>1. k + 1 \in 1 .. Len(s) /\ (k + 1) - 1 = k /\ k + 1 \in 0 .. Len(s)
    BY <1>1
  <2>2. k + 1 \in I => s[k + 1] \in W
    BY <1>1, <2>1
  <2>3. f[k] \in Seq(W)
    BY <1>4
  <2> HIDE DEF W
  <2>4. f[k + 1] = IF k + 1 \in I THEN Append(f[k], s[k + 1]) ELSE f[k]
    BY <1>2, <2>1
  <2>5. f[k + 1] \in Seq(W)
    BY <2>2, <2>3, <2>4, AppendProperties
  <2> QED
    BY <2>1, <2>5
<1>5. Len(s) \in 0 .. Len(s)
  BY <1>1
<1>6. Len(s) \in S
  <2> HIDE DEF S
  <2> QED
    BY <1>1, <1>3, <1>4, <1>5, Induction
<1> QED
  BY <1>2, <1>6

(* What a selection returns are elements of its sequence, at positions     *)
(* that were selected.                                                     *)
LEMMA ChosenIn ==
  ASSUME NEW V, NEW s \in Seq(V), NEW I
  PROVE  /\ Chosen(s, I) \in Seq(V)
         /\ \A j \in DOMAIN Chosen(s, I) : \E i \in I \cap DOMAIN s : Chosen(s, I)[j] = s[i]
<1> DEFINE W == {s[i] : i \in I \cap DOMAIN s}
<1>1. Chosen(s, I) \in Seq(W) /\ W \subseteq V
  BY ChosenFrom, LenProperties
<1>2. \A t \in Seq(W) : \A j \in DOMAIN t : t[j] \in W
  BY LenProperties, ElementOfSeq
<1> QED
  BY <1>1, <1>2, SeqMonotonic

-----------------------------------------------------------------------------
(* What a heap is, and how calls may change it.                            *)

\* A dictionary holds, for the names of the members in kept, the member when it
\* is the only one of its name; and every member had been given a name.
DictFits(h, kept, dict) ==
  /\ \A n \in DOMAIN dict :
       \/ \E i \in Named(h, kept, n) : Named(h, kept, n) = {i} /\ dict[n] = kept[i]
       \/ (\E i, j \in Named(h, kept, n) : i # j) /\ dict[n] = Duplicate
  /\ \A i \in DOMAIN kept :
       h.objects[kept[i]].data # Unknown /\ h.objects[kept[i]].data.name \in DOMAIN dict

\* What in_category and _get_dict_members have kept for an object is what they
\* would answer, for the blocks as for the other classes.
ListOf(d, h, c, members) ==
  IF c = "Block" THEN BlocksAmong(d, h, members) ELSE OfClass(h, c, members)
CachesFit(d, h, x) ==
  /\ \A c \in DOMAIN x.inCategory :
        /\ \A i \in DOMAIN x.inCategory[c] : x.inCategory[c][i] \in Ids(h)
        /\ x.inCategory[c] = ListOf(d, h, c, x.members)
  /\ \A c \in DOMAIN x.dictMembers :
        LET kept == IF c = None THEN x.members ELSE x.inCategory[c] IN
        /\ c # "Block" /\ (c # None => c \in DOMAIN x.inCategory)
        /\ \A i \in DOMAIN kept : kept[i] \in Ids(h)
        /\ DictFits(h, kept, x.dictMembers[c])

\* The classes whose objects read a file.
Reads(cls) == cls \in {"DoxyClass", "DoxyFile", "DoxyGroup"}

\* An object of the heap: it has members, an error and caches only once it was
\* parsed, an error only if its file is broken, and caches that fit.
ObjectFits(d, h, o) ==
  LET x == h.objects[o] IN
  /\ x.cls = "DoxyIndex" <=> o = Index
  /\ \A i \in DOMAIN x.members : x.members[i] \in 0 .. Len(h.objects)
  /\ x.error \/ x.described => x.parsed
  /\ ~ x.parsed => x.members = <<>> /\ x.inCategory = <<>> /\ x.dictMembers = <<>>
  /\ x.error => x.members = <<>> /\ ~ x.described /\ Reads(x.cls)
  /\ x.refid \in DOMAIN d.files /\ Reads(x.cls) =>
        (x.error <=> x.parsed /\ d.files[x.refid].state = "broken")
  /\ CachesFit(d, h, x)

\* top._refs has every object that has a refid under it, and no other.
RefsFit(h) ==
  /\ \A r \in DOMAIN h.refs : h.refs[r] \in Ids(h) /\ h.objects[h.refs[r]].refid = r
  /\ \A o \in Ids(h) : h.objects[o].refid # None =>
        /\ h.objects[o].refid \in DOMAIN h.refs
        /\ h.refs[h.objects[o].refid] = o

\* What index.xml names has the class of its kind there, or the class groups
\* give to all they call a class.
MayBe(cls, kind) ==
  \/ kind \in DOMAIN ClassOfKind /\ cls = ClassOfKind[kind]
  \/ kind \in InnerKinds /\ cls = "DoxyClass"
ClassesFit(d, h) ==
  \A i \in DOMAIN d.index : d.index[i].refid \in DOMAIN h.refs =>
    MayBe(h.objects[h.refs[d.index[i].refid]].cls, d.index[i].kind)

\* A heap the program can have reached, in a call or between two.
Good(d, h) ==
  /\ Heap(h) /\ Index \in Ids(h)
  /\ \A o \in Ids(h) : ObjectFits(d, h, o)
  /\ RefsFit(h)
  /\ ClassesFit(d, h)

\* What calls leave of an object: who it is, and, once it was read, all but
\* new cache entries.
SameObject(x, y) == x.cls = y.cls /\ x.data = y.data /\ x.refid = y.refid
KeptObject(x, y) ==
  /\ y.parsed /\ y.members = x.members
  /\ y.error = x.error /\ y.described = x.described
  /\ \A c \in DOMAIN x.inCategory \ {"Block"} :
        c \in DOMAIN y.inCategory /\ y.inCategory[c] = x.inCategory[c]

\* Calls leave all objects there were, but may be reading those in X.
Grows(h, g, X) ==
  /\ Len(h.objects) <= Len(g.objects)
  /\ \A o \in Ids(h) : SameObject(h.objects[o], g.objects[o])
  /\ \A o \in Ids(h) \ X : h.objects[o].parsed => KeptObject(h.objects[o], g.objects[o])

(* Growing is reflexive and transitive, and less exact with more objects. *)
LEMMA GrowsRefl == ASSUME NEW h, Heap(h) PROVE \A X : Grows(h, h, X)
<1>1. Len(h.objects) \in Nat
  BY LenProperties DEF Heap
<1> QED
  BY <1>1 DEF Grows, SameObject, KeptObject

(* A heap that grew from one that grew has grown: the objects either part  *)
(* may have filled are the ones the whole may have.                        *)
LEMMA GrowsTrans ==
  ASSUME NEW h, NEW g, NEW k, NEW X, NEW Y, Heap(h), Heap(g), Heap(k),
         Grows(h, g, X), Grows(g, k, Y)
  PROVE  Grows(h, k, X \cup Y)
<1>1. Len(h.objects) \in Nat /\ Len(g.objects) \in Nat /\ Len(k.objects) \in Nat
  BY LenProperties DEF Heap
<1>2. Ids(h) \subseteq Ids(g) /\ Len(h.objects) <= Len(k.objects)
  BY <1>1 DEF Ids, Grows
<1>3. ASSUME NEW o \in Ids(h) PROVE SameObject(h.objects[o], k.objects[o])
  BY <1>2 DEF Grows, SameObject
<1>4. ASSUME NEW o \in Ids(h) \ (X \cup Y), h.objects[o].parsed
      PROVE  KeptObject(h.objects[o], k.objects[o])
  <2>1. KeptObject(h.objects[o], g.objects[o])
    BY <1>4 DEF Grows
  <2>2. g.objects[o].parsed /\ o \in Ids(g) \ Y
    BY <1>2, <2>1 DEF KeptObject
  <2>3. KeptObject(g.objects[o], k.objects[o])
    BY <2>2 DEF Grows
  <2> QED
    BY <2>1, <2>3 DEF KeptObject
<1> QED
  BY <1>2, <1>3, <1>4 DEF Grows

(* Objects that had not been read when a heap started to grow need not be  *)
(* named among those it fills.                                             *)
LEMMA GrowsLess ==
  ASSUME NEW h, NEW g, NEW X, NEW Y, Grows(h, g, X),
         \A o \in X \cap Ids(h) : o \in Y \/ ~ h.objects[o].parsed
  PROVE  Grows(h, g, Y)
BY DEF Grows

(* OfClass looks at classes only.                                          *)
LEMMA OfClassSame ==
  ASSUME NEW h, NEW g, NEW cat, NEW s \in Seq(Nat), Grows(h, g, Ids(h)),
         \A i \in DOMAIN s : s[i] \in 0 .. Len(h.objects)
  PROVE  OfClass(h, cat, s) = OfClass(g, cat, s)
<1>1. ASSUME NEW i \in DOMAIN s PROVE IsOfClass(h, cat, s[i]) <=> IsOfClass(g, cat, s[i])
  <2>1. s[i] # 0 => s[i] \in Ids(h)
    BY DEF Ids
  <2> QED
    BY <2>1 DEF IsOfClass, NoObject, Object, Grows, SameObject
<1> QED
  BY <1>1 DEF OfClass

(* IsBlock looks at the class, the name and the refid.                     *)
LEMMA BlockSame ==
  ASSUME NEW d, NEW h, NEW g, Grows(h, g, Ids(h)), NEW m \in Ids(h)
  PROVE  IsBlock(d, h, m) <=> IsBlock(d, g, m)
<1>1. /\ h.objects[m].cls = g.objects[m].cls /\ h.objects[m].data = g.objects[m].data
      /\ h.objects[m].refid = g.objects[m].refid
  BY DEF Grows, SameObject
<1> QED
  BY <1>1 DEF IsBlock, IsOfClass, Object

(* So the blocks of a list stay its blocks.                                *)
LEMMA BlocksSame ==
  ASSUME NEW d, NEW h, NEW g, NEW s \in Seq(Nat), Grows(h, g, Ids(h)),
         \A i \in DOMAIN s : s[i] \in 0 .. Len(h.objects)
  PROVE  BlocksAmong(d, h, s) = BlocksAmong(d, g, s)
<1>1. ASSUME NEW i \in DOMAIN s PROVE IsBlock(d, h, s[i]) <=> IsBlock(d, g, s[i])
  <2> DEFINE m == s[i]
  <2>1. m \in 0 .. Len(h.objects)
    OBVIOUS
  <2> HIDE DEF m
  <2>2. CASE m = 0
    BY <2>2 DEF IsBlock, IsOfClass, NoObject, m
  <2>3. CASE m # 0
    <3>1. m \in Ids(h)
      BY <2>1, <2>3 DEF Ids
    <3> QED
      BY <3>1, BlockSame DEF m
  <2> QED
    BY <2>2, <2>3
<1>2. {i \in DOMAIN s : IsBlock(d, h, s[i])} = {i \in DOMAIN s : IsBlock(d, g, s[i])}
  BY <1>1
<1> QED
  BY <1>2 DEF BlocksAmong

(* A dictionary of members by name stays right while the heap grows: a     *)
(* member keeps its name, and a duplicate stays one.                       *)
LEMMA DictFitsSame ==
  ASSUME NEW h, NEW g, NEW kept, NEW dict, Grows(h, g, Ids(h)),
         \A i \in DOMAIN kept : kept[i] \in Ids(h), DictFits(h, kept, dict)
  PROVE  DictFits(g, kept, dict)
<1>1. \A i \in DOMAIN kept : g.objects[kept[i]].data = h.objects[kept[i]].data
  BY DEF Grows, SameObject
<1>2. \A n : Named(h, kept, n) = Named(g, kept, n)
  BY <1>1 DEF Named, Object
<1> QED
  BY <1>1, <1>2 DEF DictFits

(* An object that a step leaves alone goes on fitting.                     *)
LEMMA FitsOn ==
  ASSUME NEW d, NEW h, NEW g, Heap(h), Heap(g), Grows(h, g, Ids(h)),
         NEW o \in Ids(h), ObjectFits(d, h, o), g.objects[o] = h.objects[o]
  PROVE  ObjectFits(d, g, o)
<1> DEFINE x == h.objects[o]
<1>1. x \in Obj /\ Len(h.objects) \in Nat /\ Len(g.objects) \in Nat
  BY ObjectFields, LenProperties DEF Heap
<1>2. Len(h.objects) <= Len(g.objects) /\ Ids(h) \subseteq Ids(g)
  BY <1>1 DEF Grows, Ids
<1>3. CachesFit(d, h, x) /\ \A i \in DOMAIN x.members : x.members[i] \in 0 .. Len(h.objects)
  BY DEF ObjectFits
<1>4. x.members \in Seq(Nat)
  BY <1>1 DEF Obj
<1> HIDE DEF x
<1>5. \A c : ListOf(d, h, c, x.members) = ListOf(d, g, c, x.members)
  BY <1>3, <1>4, OfClassSame, BlocksSame DEF ListOf
<1>6. ASSUME NEW c \in DOMAIN x.dictMembers
      PROVE  LET kept == IF c = None THEN x.members ELSE x.inCategory[c] IN
             /\ \A i \in DOMAIN kept : kept[i] \in Ids(g)
             /\ DictFits(g, kept, x.dictMembers[c])
  <2> DEFINE kept == IF c = None THEN x.members ELSE x.inCategory[c]
  <2>1. (\A i \in DOMAIN kept : kept[i] \in Ids(h)) /\ DictFits(h, kept, x.dictMembers[c])
    BY <1>3 DEF CachesFit
  <2> HIDE DEF kept
  <2>2. DictFits(g, kept, x.dictMembers[c])
    BY <2>1, DictFitsSame
  <2>3. \A i \in DOMAIN kept : kept[i] \in Ids(g)
    BY <1>2, <2>1
  <2> QED
    BY <2>2, <2>3 DEF kept
<1>7. CachesFit(d, g, x)
  BY <1>2, <1>3, <1>5, <1>6 DEF CachesFit
<1>8. \A i \in DOMAIN x.members : x.members[i] \in 0 .. Len(g.objects)
  BY <1>1, <1>2, <1>3
<1> QED
  BY <1>7, <1>8 DEF ObjectFits, x

(* A step that changes one object, and not who it is.                      *)
LEMMA OneObject ==
  ASSUME NEW d, NEW h, NEW g, Good(d, h), Heap(g), NEW o \in Ids(h),
         Len(g.objects) = Len(h.objects), g.refs = h.refs,
         \A p \in Ids(h) \ {o} : g.objects[p] = h.objects[p],
         SameObject(h.objects[o], g.objects[o])
  PROVE  /\ Grows(h, g, {o})
         /\ ObjectFits(d, g, o) => Good(d, g)
<1>1. Ids(g) = Ids(h) /\ Len(h.objects) \in Nat
  BY LenProperties DEF Ids, Good, Heap
<1>2. \A p \in Ids(h) : SameObject(h.objects[p], g.objects[p])
  BY DEF SameObject
<1>3. Grows(h, g, {o}) /\ Grows(h, g, Ids(h))
  BY <1>1, <1>2 DEF Grows, KeptObject
<1>4. \A p \in Ids(h) \ {o} : ObjectFits(d, g, p)
  BY <1>3, FitsOn DEF Good
<1>5. RefsFit(h) /\ ClassesFit(d, h)
  BY DEF Good
<1>6. RefsFit(g)
  <2>1. \A p \in Ids(h) : g.objects[p].refid = h.objects[p].refid
    BY <1>2 DEF SameObject
  <2>2. \A r \in DOMAIN g.refs : g.refs[r] \in Ids(g) /\ g.objects[g.refs[r]].refid = r
    BY <1>1, <1>5, <2>1 DEF RefsFit
  <2>3. ASSUME NEW p \in Ids(g), g.objects[p].refid # None
        PROVE  g.objects[p].refid \in DOMAIN g.refs /\ g.refs[g.objects[p].refid] = p
    <3>1. h.objects[p].refid # None /\ p \in Ids(h) /\ g.objects[p].refid = h.objects[p].refid
      BY <1>1, <2>1, <2>3
    <3> QED
      BY <1>5, <3>1 DEF RefsFit
  <2> QED
    BY <2>2, <2>3 DEF RefsFit
<1>7. ClassesFit(d, g)
  <2>1. \A r \in DOMAIN h.refs : g.objects[h.refs[r]].cls = h.objects[h.refs[r]].cls
    BY <1>2, <1>5 DEF RefsFit, SameObject
  <2> QED
    BY <1>5, <2>1 DEF ClassesFit
<1> QED
  BY <1>1, <1>3, <1>4, <1>6, <1>7 DEF Good

-----------------------------------------------------------------------------
(* New objects: from_refid, from_parse_data, convert_mem.                  *)

(* Setting the result or the exception changes no object.                  *)
LEMMA SameHeap ==
  ASSUME NEW d, NEW h, Heap(h), NEW v
  PROVE  \A g \in {Answer(h, v), Raise(h, v)} :
            /\ Heap(g) /\ g.objects = h.objects /\ g.refs = h.refs
            /\ Good(d, h) => Good(d, g)
            /\ \A X : Grows(h, g, X)
<1> SUFFICES ASSUME NEW g \in {Answer(h, v), Raise(h, v)}
             PROVE  /\ Heap(g) /\ g.objects = h.objects /\ g.refs = h.refs
                    /\ Good(d, h) => Good(d, g)
                    /\ \A X : Grows(h, g, X)
  OBVIOUS
<1>1. h = [objects |-> h.objects, refs |-> h.refs, result |-> h.result, raised |-> h.raised]
  BY DEF Heap
<1>2. \/ g = [objects |-> h.objects, refs |-> h.refs, result |-> v, raised |-> h.raised]
      \/ g = [objects |-> h.objects, refs |-> h.refs, result |-> h.result, raised |-> v]
  BY <1>1 DEF Answer, Raise
<1>3. g.objects = h.objects /\ g.refs = h.refs /\ Heap(g)
  BY <1>2 DEF Heap
<1>4. Len(h.objects) \in Nat
  BY LenProperties DEF Heap
<1>5. \A X : Grows(h, g, X)
  BY <1>3, <1>4 DEF Grows, SameObject, KeptObject
<1>6. ASSUME Good(d, h) PROVE Good(d, g)
  <2>1. Ids(g) = Ids(h) /\ \A o \in Ids(h) : g.objects[o] = h.objects[o]
    BY <1>3 DEF Ids
  <2>2. \A o \in Ids(h) : ObjectFits(d, g, o)
    BY <1>3, <1>5, <1>6, <2>1, FitsOn DEF Good
  <2>3. RefsFit(g) /\ ClassesFit(d, g)
    BY <1>3, <1>6, <2>1 DEF Good, RefsFit, ClassesFit
  <2> QED
    BY <1>3, <1>6, <2>1, <2>2, <2>3 DEF Good
<1> QED
  BY <1>3, <1>5, <1>6

(* What a return and an exception leave in the heap.                       *)
LEMMA AnswerIs ==
  ASSUME NEW h, Heap(h), NEW v
  PROVE  /\ Answer(h, v).result = v /\ Answer(h, v).raised = h.raised
         /\ Raise(h, v).raised = v /\ Raise(h, v).result = h.result
BY DEF Heap, Answer, Raise

\* What a member can be made from.
MemberFits(d, m) ==
  m.cls # None =>
    /\ m.cls \in Classes \ {"DoxyIndex"} /\ m.data \in ParseData
    /\ m.refid \in Refids \cup {None}
    /\ \A i \in DOMAIN d.index : d.index[i].refid = m.refid => MayBe(m.cls, d.index[i].kind)

\* A step that makes an object, or finds it: the others are left alone.
Makes(h, g) ==
  /\ Len(h.objects) <= Len(g.objects) /\ g.raised = h.raised
  /\ \A o \in Ids(h) : g.objects[o] = h.objects[o]
  /\ \A o \in Ids(g) \ Ids(h) : ~ g.objects[o].parsed

(* A heap that got one more object has grown, whatever objects may be      *)
(* filled in the meantime.                                                 *)
LEMMA MakesGrows ==
  ASSUME NEW h, NEW g, Makes(h, g)
  PROVE  \A X : Grows(h, g, X)
BY DEF Makes, Grows, SameObject, KeptObject

(* A new object of its class has nothing yet.                              *)
LEMMA NewObjectIs ==
  ASSUME NEW cls \in Classes, NEW data \in ParseData,
         NEW refid \in Refids \cup {None}
  PROVE  /\ NewObject(cls, data, refid) \in Obj
         /\ DOMAIN NewObject(cls, data, refid).members = {}
         /\ DOMAIN NewObject(cls, data, refid).inCategory = {}
         /\ DOMAIN NewObject(cls, data, refid).dictMembers = {}
<1>1. <<>> \in Seq(Nat) /\ <<>> \in Lists /\ <<>> \in Dicts /\ DOMAIN <<>> = {}
  BY EmptyCaches, EmptySeq
<1> QED
  BY <1>1 DEF NewObject, Obj

\* One more object.
Adds(h, g, x) ==
  /\ Len(g.objects) = Len(h.objects) + 1 /\ g.objects[Len(h.objects) + 1] = x
  /\ \A o \in Ids(h) : g.objects[o] = h.objects[o]

\* A reference to an object, if it has a refid.
Refers(h, g, refid, o) ==
  IF refid = None THEN g.refs = h.refs ELSE g.refs = With(h.refs, refid, o)

(* A new object is added with its reference.                               *)
LEMMA NewObjectFits ==
  ASSUME NEW d, NEW h, Good(d, h), NEW cls, NEW data, NEW refid,
         MemberFits(d, [cls |-> cls, data |-> data, refid |-> refid]), cls # None,
         refid = None \/ refid \notin DOMAIN h.refs,
         NEW g, Heap(g), Adds(h, g, NewObject(cls, data, refid)),
         Refers(h, g, refid, Len(h.objects) + 1)
  PROVE  Good(d, g)
<1> DEFINE n == Len(h.objects) + 1
           new == NewObject(cls, data, refid)
<1>1. Heap(h) /\ Len(h.objects) \in Nat /\ Index \in Ids(h)
  BY LenProperties DEF Good, Heap
<1>2. /\ cls \in Classes \ {"DoxyIndex"} /\ data \in ParseData /\ refid \in Refids \cup {None}
      /\ \A i \in DOMAIN d.index : d.index[i].refid = refid => MayBe(cls, d.index[i].kind)
  BY DEF MemberFits
<1>3. /\ new \in Obj /\ DOMAIN new.members = {} /\ DOMAIN new.inCategory = {}
      /\ DOMAIN new.dictMembers = {}
  BY <1>2, NewObjectIs
<1>4. /\ new.cls = cls /\ new.refid = refid /\ ~ new.parsed /\ ~ new.error /\ ~ new.described
      /\ new.members = <<>> /\ new.inCategory = <<>> /\ new.dictMembers = <<>>
  BY DEF NewObject
<1>5. /\ Len(g.objects) = n /\ g.objects[n] = new
      /\ \A o \in Ids(h) : g.objects[o] = h.objects[o]
  BY DEF Adds
<1>6. Ids(g) = Ids(h) \cup {n} /\ n \notin Ids(h) /\ n # Index
  BY <1>1, <1>5 DEF Ids, Index
<1> HIDE DEF new
<1>7. \A X : Grows(h, g, X)
  BY <1>1, <1>5 DEF Grows, SameObject, KeptObject
<1> HIDE DEF n
<1>8. ASSUME NEW o \in Ids(h) PROVE ObjectFits(d, g, o)
  BY <1>1, <1>5, <1>7, FitsOn DEF Good
<1>9. ObjectFits(d, g, n)
  <2>1. CachesFit(d, g, new)
    BY <1>3 DEF CachesFit
  <2> QED
    BY <1>2, <1>3, <1>4, <1>5, <1>6, <2>1 DEF ObjectFits
<1>10. RefsFit(h) /\ ClassesFit(d, h)
  BY DEF Good
<1>11. /\ DOMAIN g.refs = DOMAIN h.refs \cup ({refid} \ {None})
       /\ refid # None => g.refs[refid] = n
       /\ \A r \in DOMAIN h.refs : g.refs[r] = h.refs[r]
  <2>1. CASE refid = None
    BY <2>1 DEF Refers
  <2>2. CASE refid # None
    <3>1. g.refs = With(h.refs, refid, n) /\ refid \notin DOMAIN h.refs
      BY <2>2 DEF Refers, n
    <3>2. /\ DOMAIN g.refs = DOMAIN h.refs \cup {refid} /\ g.refs[refid] = n
          /\ \A r \in DOMAIN h.refs \ {refid} : g.refs[r] = h.refs[r]
      BY <3>1 DEF With
    <3> QED
      BY <2>2, <3>1, <3>2
  <2> QED
    BY <2>1, <2>2
<1>12. RefsFit(g)
  <2>1. ASSUME NEW r \in DOMAIN g.refs
        PROVE  g.refs[r] \in Ids(g) /\ g.objects[g.refs[r]].refid = r
    <3>1. CASE r \in DOMAIN h.refs
      BY <1>5, <1>6, <1>10, <1>11, <3>1 DEF RefsFit
    <3>2. CASE r \notin DOMAIN h.refs
      BY <1>4, <1>5, <1>6, <1>11, <3>2
    <3> QED
      BY <3>1, <3>2
  <2>2. ASSUME NEW p \in Ids(g), g.objects[p].refid # None
        PROVE  g.objects[p].refid \in DOMAIN g.refs /\ g.refs[g.objects[p].refid] = p
    <3>1. CASE p = n
      BY <1>4, <1>5, <1>11, <2>2, <3>1
    <3>2. CASE p # n
      <4>1. p \in Ids(h) /\ g.objects[p] = h.objects[p]
        BY <1>5, <1>6, <3>2
      <4>2. h.objects[p].refid \in DOMAIN h.refs /\ h.refs[h.objects[p].refid] = p
        BY <1>10, <2>2, <4>1 DEF RefsFit
      <4> QED
        BY <1>11, <4>1, <4>2
    <3> QED
      BY <3>1, <3>2
  <2> QED
    BY <2>1, <2>2 DEF RefsFit
<1>13. ClassesFit(d, g)
  <2>1. ASSUME NEW i \in DOMAIN d.index, d.index[i].refid \in DOMAIN g.refs
        PROVE  MayBe(g.objects[g.refs[d.index[i].refid]].cls, d.index[i].kind)
    <3> DEFINE r == d.index[i].refid
               k == d.index[i].kind
    <3>1. CASE r \in DOMAIN h.refs
      <4>1. MayBe(h.objects[h.refs[r]].cls, k)
        BY <1>10, <3>1 DEF ClassesFit
      <4>2. h.refs[r] \in Ids(h) /\ g.refs[r] = h.refs[r]
        BY <1>10, <1>11, <3>1 DEF RefsFit
      <4>3. g.objects[h.refs[r]] = h.objects[h.refs[r]]
        BY <1>5, <4>2
      <4> HIDE DEF r, k
      <4> QED
        BY <4>1, <4>2, <4>3 DEF r, k
    <3>2. CASE r \notin DOMAIN h.refs
      <4>1. r = refid /\ refid # None /\ g.refs[r] = n
        BY <1>11, <2>1, <3>2
      <4> QED
        BY <1>2, <1>4, <1>5, <4>1
    <3> QED
      BY <3>1, <3>2
  <2> QED
    BY <2>1 DEF ClassesFit
<1> QED
  BY <1>1, <1>6, <1>8, <1>9, <1>12, <1>13 DEF Good

(* from_refid and from_parse_data give the object of the refid, or a new one. *)
LEMMA FromRefidFits ==
  ASSUME NEW d, NEW h, Good(d, h), NEW cls, NEW data, NEW refid, cls # None,
         MemberFits(d, [cls |-> cls, data |-> data, refid |-> refid])
  PROVE  LET g == FromRefid(h, cls, data, refid) IN
         /\ Good(d, g) /\ Makes(h, g) /\ g.result \in Ids(g)
         /\ refid = None => g.refs = h.refs
         /\ DOMAIN g.refs \subseteq DOMAIN h.refs \cup {refid}
         /\ refid = None \/ refid \notin DOMAIN h.refs =>
               /\ g.objects[g.result] = NewObject(cls, data, refid)
               /\ g.result \notin Ids(h)
<1> DEFINE g == FromRefid(h, cls, data, refid)
           new == NewObject(cls, data, refid)
           n == Len(h.objects) + 1
           made == [h EXCEPT !.objects = Append(@, new), !.result = n]
<1>1. /\ Heap(h) /\ Len(h.objects) \in Nat /\ h.objects \in Seq(Obj) /\ h.refs \in Refs
      /\ h = [objects |-> h.objects, refs |-> h.refs, result |-> h.result, raised |-> h.raised]
  BY LenProperties DEF Good, Heap
<1>2. CASE refid # None /\ refid \in DOMAIN h.refs
  <2>1. g = Answer(h, h.refs[refid])
    BY <1>2 DEF FromRefid
  <2>2. h.refs[refid] \in Ids(h)
    BY <1>2 DEF Good, RefsFit
  <2>3. Good(d, g) /\ g.objects = h.objects /\ g.refs = h.refs
    BY <1>1, <2>1, SameHeap
  <2>4. g.result = h.refs[refid] /\ g.raised = h.raised
    BY <1>1, <2>1, AnswerIs
  <2> HIDE DEF g
  <2> QED
    BY <1>1, <1>2, <2>2, <2>3, <2>4 DEF Makes, Ids, g
<1>3. CASE refid = None \/ refid \notin DOMAIN h.refs
  <2>1. new \in Obj
    BY NewObjectIs DEF MemberFits
  <2> HIDE DEF new
  <2>2. /\ Append(h.objects, new) \in Seq(Obj) /\ Len(Append(h.objects, new)) = n
        /\ \A i \in 1 .. Len(h.objects) : Append(h.objects, new)[i] = h.objects[i]
        /\ Append(h.objects, new)[n] = new
    BY <1>1, <2>1, AppendProperties
  <2>3. made = [objects |-> Append(h.objects, new), refs |-> h.refs, result |-> n,
                raised |-> h.raised]
    <3>1. h = [objects |-> h.objects, refs |-> h.refs, result |-> h.result, raised |-> h.raised]
      BY <1>1
    <3> DEFINE more == [h EXCEPT !.objects = Append(@, new)]
    <3> HIDE DEF n
    <3>2. more = [objects |-> Append(h.objects, new), refs |-> h.refs,
                  result |-> h.result, raised |-> h.raised]
      BY <3>1
    <3>3. made = [more EXCEPT !.result = n]
      OBVIOUS
    <3> HIDE DEF more, made
    <3> QED
      BY <3>2, <3>3
  <2>4. g = IF refid = None THEN made ELSE [made EXCEPT !.refs = With(@, refid, made.result)]
    BY <1>3 DEF FromRefid, new
  <2> DEFINE refs == IF refid = None THEN h.refs ELSE With(h.refs, refid, n)
  <2>5. g = [objects |-> Append(h.objects, new), refs |-> refs, result |-> n,
             raised |-> h.raised]
    <3> HIDE DEF g, made, n
    <3> QED
      BY <2>3, <2>4
  <2>6. refs \in Refs
    <3>1. refid # None => refid \in Refids
      BY DEF MemberFits
    <3>2. n \in Nat
      BY <1>1
    <3> QED
      BY <1>1, <3>1, <3>2, WithTypes
  <2>7. Refers(h, g, refid, n)
    <3> HIDE DEF g, n, new
    <3> QED
      BY <2>5 DEF Refers
  <2>8. /\ g.objects = Append(h.objects, new) /\ g.refs = refs /\ g.result = n
        /\ g.raised = h.raised
    <3> HIDE DEF g, n, new, refs
    <3> QED
      BY <2>5
  <2>9. Heap(g)
    <3> HIDE DEF g, n, new, refs
    <3> QED
      BY <2>2, <2>5, <2>6, <2>8 DEF Heap
  <2>10. Adds(h, g, new)
    <3> HIDE DEF g
    <3> QED
      BY <2>2, <2>8 DEF Adds, Ids
  <2>11. Good(d, g)
    <3> HIDE DEF g, refs, made
    <3> QED
      BY <1>3, <2>7, <2>9, <2>10, NewObjectFits DEF n, new
  <2>12. DOMAIN refs \subseteq DOMAIN h.refs \cup {refid}
    <3>1. DOMAIN With(h.refs, refid, n) = DOMAIN h.refs \cup {refid}
      BY WithValues
    <3> QED
      BY <3>1
  <2>13. n \in Ids(g) /\ n \notin Ids(h) /\ Len(h.objects) <= Len(g.objects)
    <3> HIDE DEF g
    <3> QED
      BY <1>1, <2>10 DEF Adds, Ids
  <2>14. \A o \in Ids(g) \ Ids(h) : ~ g.objects[o].parsed
    <3>1. ~ new.parsed
      BY DEF new, NewObject
    <3> HIDE DEF g, new
    <3>2. \A o \in Ids(g) \ Ids(h) : o = n
      BY <1>1, <2>10 DEF Adds, Ids
    <3> QED
      BY <2>10, <3>1, <3>2 DEF Adds
  <2> HIDE DEF g, refs, n, made
  <2> QED
    BY <1>3, <2>7, <2>8, <2>10, <2>11, <2>12, <2>13, <2>14 DEF Makes, Adds, Refers, g, new, n
<1> QED
  BY <1>2, <1>3

\* A member is what convert_mem makes of a node.
StandsFor(h, m, node) ==
  IF node.cls = None THEN m = NoObject
  ELSE /\ m \in Ids(h)
       /\ h.objects[m].cls = node.cls /\ h.objects[m].data = node.data
       /\ h.objects[m].refid = node.refid

(* Members go on standing for their nodes while the heap grows.            *)
LEMMA StandsForOn ==
  ASSUME NEW h, NEW g, Len(h.objects) \in Nat, Len(g.objects) \in Nat, Grows(h, g, Ids(h))
  PROVE  \A m, node : StandsFor(h, m, node) => StandsFor(g, m, node)
BY DEF Grows, StandsFor, SameObject, Ids

(* convert_mem gives an object of the heap or None.                        *)
LEMMA ConvertMemFits ==
  ASSUME NEW d, NEW h, Good(d, h), NEW m, MemberFits(d, m)
  PROVE  LET g == ConvertMem(h, m) IN
         /\ Good(d, g) /\ Makes(h, g) /\ g.result \in 0 .. Len(g.objects)
         /\ m.refid = None => g.refs = h.refs
         /\ DOMAIN g.refs \subseteq DOMAIN h.refs \cup {m.refid}
         /\ m.cls # None => g.result \in Ids(g)
         /\ g.result # NoObject /\ (m.refid = None \/ m.refid \notin DOMAIN h.refs) =>
               /\ g.objects[g.result] = NewObject(m.cls, m.data, m.refid)
               /\ g.result \notin Ids(h)
         /\ m.refid = None \/ m.refid \notin DOMAIN h.refs => StandsFor(g, g.result, m)
<1> DEFINE g == ConvertMem(h, m)
<1>1. Heap(h) /\ Len(h.objects) \in Nat
  BY LenProperties DEF Good, Heap
<1>2. CASE m.cls = None
  <2>1. g = Answer(h, NoObject)
    BY <1>2 DEF ConvertMem
  <2>2. Good(d, g) /\ g.objects = h.objects /\ g.refs = h.refs
    BY <1>1, <2>1, SameHeap
  <2>3. g.result = NoObject /\ g.raised = h.raised
    BY <1>1, <2>1, AnswerIs
  <2> HIDE DEF g
  <2> QED
    BY <1>1, <1>2, <2>2, <2>3 DEF Makes, Ids, NoObject, StandsFor, g
<1>3. CASE m.cls # None
  <2>1. g = FromRefid(h, m.cls, m.data, m.refid)
    BY <1>3 DEF ConvertMem
  <2>2. MemberFits(d, [cls |-> m.cls, data |-> m.data, refid |-> m.refid])
    BY DEF MemberFits
  <2>3. /\ Good(d, g) /\ Makes(h, g) /\ g.result \in Ids(g)
        /\ m.refid = None => g.refs = h.refs
        /\ DOMAIN g.refs \subseteq DOMAIN h.refs \cup {m.refid}
        /\ m.refid = None \/ m.refid \notin DOMAIN h.refs =>
               /\ g.objects[g.result] = NewObject(m.cls, m.data, m.refid)
               /\ g.result \notin Ids(h)
    <3> HIDE DEF g
    <3> QED
      BY <1>3, <2>1, <2>2, FromRefidFits
  <2>4. Len(g.objects) \in Nat
    BY <2>3, LenProperties DEF Good, Heap
  <2>5. m.refid = None \/ m.refid \notin DOMAIN h.refs => StandsFor(g, g.result, m)
    <3> HIDE DEF g
    <3>1. /\ NewObject(m.cls, m.data, m.refid).cls = m.cls
          /\ NewObject(m.cls, m.data, m.refid).data = m.data
          /\ NewObject(m.cls, m.data, m.refid).refid = m.refid
      BY DEF NewObject
    <3> QED
      BY <1>3, <2>3, <3>1 DEF StandsFor
  <2> HIDE DEF g
  <2> QED
    BY <2>3, <2>4, <2>5 DEF Ids, g
<1> QED
  BY <1>2, <1>3

-----------------------------------------------------------------------------
(* Objects that are being read.                                            *)

\* An object that is being read: it has said what it is, and nobody has asked
\* it for anything yet.
Building(h, o) ==
  /\ o \in Ids(h) /\ h.objects[o].parsed /\ ~ h.objects[o].error
  /\ h.objects[o].inCategory = <<>> /\ h.objects[o].dictMembers = <<>>

\* A step that gives an object that is being read other members.
Gives(h, g, o, m) ==
  /\ Len(g.objects) = Len(h.objects) /\ g.refs = h.refs
  /\ g.result = h.result /\ g.raised = h.raised
  /\ g.objects[o] = [h.objects[o] EXCEPT !.members = m]
  /\ \A p \in Ids(h) \ {o} : g.objects[p] = h.objects[p]

(* What a change of one field leaves of an object.                         *)
LEMMA MembersSet ==
  ASSUME NEW x \in Obj, NEW m
  PROVE  LET y == [x EXCEPT !.members = m] IN
         /\ y.members = m /\ SameObject(x, y)
         /\ y.parsed = x.parsed /\ y.error = x.error /\ y.described = x.described
         /\ y.inCategory = x.inCategory /\ y.dictMembers = x.dictMembers
BY DEF Obj, SameObject

(* An object that is being read may be given members of the heap.          *)
LEMMA MembersFit ==
  ASSUME NEW d, NEW h, Good(d, h), NEW o, Building(h, o), NEW m \in Seq(Nat),
         \A i \in DOMAIN m : m[i] \in 0 .. Len(h.objects)
  PROVE  LET g == [h EXCEPT !.objects[o].members = m] IN
         Good(d, g) /\ Gives(h, g, o, m) /\ Building(g, o) /\ Grows(h, g, {o})
<1> DEFINE x == h.objects[o]
           y == [x EXCEPT !.members = m]
           g == [h EXCEPT !.objects[o].members = m]
<1>1. Heap(h) /\ o \in Ids(h) /\ x \in Obj /\ Len(h.objects) \in Nat
  BY ObjectFields DEF Good, Building
<1>2. y \in Obj
  BY <1>1, SetFields
<1>3. g = [h EXCEPT !.objects[o] = y]
  BY <1>1, OneField
<1>4. /\ y.members = m /\ SameObject(x, y)
      /\ y.parsed = x.parsed /\ y.error = x.error /\ y.described = x.described
      /\ y.inCategory = x.inCategory /\ y.dictMembers = x.dictMembers
  BY <1>1, MembersSet
<1> HIDE DEF y, g
<1>5. /\ Heap(g) /\ Len(g.objects) = Len(h.objects)
      /\ g.refs = h.refs /\ g.result = h.result /\ g.raised = h.raised
      /\ \A p \in Ids(h) : g.objects[p] = IF p = o THEN y ELSE h.objects[p]
  BY <1>1, <1>2, <1>3, SetObject
<1>6. g.objects[o] = y /\ \A p \in Ids(h) \ {o} : g.objects[p] = h.objects[p]
  BY <1>1, <1>5
<1>7. Grows(h, g, {o}) /\ (ObjectFits(d, g, o) => Good(d, g))
  BY <1>1, <1>4, <1>5, <1>6, OneObject
<1>8. ObjectFits(d, g, o)
  <2>1. ObjectFits(d, h, o) /\ x.parsed /\ ~ x.error
    BY <1>1 DEF Good, Building
  <2>2. DOMAIN y.inCategory = {} /\ DOMAIN y.dictMembers = {}
    BY <1>4, EmptyCaches DEF Building
  <2>3. CachesFit(d, g, y)
    BY <2>2 DEF CachesFit
  <2> HIDE DEF x
  <2> QED
    BY <1>4, <1>5, <1>6, <2>1, <2>3 DEF ObjectFits, SameObject, x
<1>9. Building(g, o) /\ Gives(h, g, o, m)
  BY <1>1, <1>4, <1>5, <1>6 DEF Building, Gives, y, Ids
<1> QED
  BY <1>7, <1>8, <1>9 DEF g

(* self._members.append: the object that is being read gets the result of  *)
(* the call before it as its last member.                                  *)
LEMMA AppendMemberFits ==
  ASSUME NEW d, NEW h, Good(d, h), NEW o, Building(h, o),
         h.result \in 0 .. Len(h.objects)
  PROVE  LET g == AppendMember(h, o) IN
         /\ Good(d, g) /\ Gives(h, g, o, Append(h.objects[o].members, h.result))
         /\ Building(g, o) /\ Grows(h, g, {o})
<1> DEFINE s == h.objects[o].members
           m == Append(s, h.result)
<1>1. /\ Len(h.objects) \in Nat /\ o \in Ids(h) /\ h.objects[o] \in Obj
      /\ \A i \in DOMAIN s : s[i] \in 0 .. Len(h.objects)
  BY ObjectFields DEF Good, Building, ObjectFits
<1>2. s \in Seq(Nat) /\ h.result \in Nat
  BY <1>1 DEF Obj
<1> HIDE DEF s
<1>3. m \in Seq(Nat) /\ \A i \in DOMAIN m : m[i] \in 0 .. Len(h.objects)
  BY <1>1, <1>2, AppendProperties, LenProperties
<1>4. AppendMember(h, o) = [h EXCEPT !.objects[o].members = m]
  BY DEF AppendMember, s
<1> DEFINE g == [h EXCEPT !.objects[o].members = m]
<1> HIDE DEF m
<1>5. Good(d, g) /\ Gives(h, g, o, m) /\ Building(g, o) /\ Grows(h, g, {o})
  BY <1>3, MembersFit
<1> HIDE DEF g
<1> QED
  BY <1>4, <1>5 DEF g, m, s

(* The loop over the definitions, groups and classes of a file.            *)
LEMMA AddMembersTurns ==
  ASSUME NEW h, NEW o, NEW ms, Len(ms) \in Nat
  PROVE  \E f : /\ f[0] = h
                /\ \A k \in 1 .. Len(ms) :
                      f[k] = IF Ok(f[k - 1])
                             THEN AppendMember(ConvertMem(f[k - 1], ms[k]), o)
                             ELSE f[k - 1]
                /\ AddMembers(h, o, ms) = f[Len(ms)]
<1> DEFINE Pass(g, k) == Then(g, LAMBDA x : AppendMember(ConvertMem(x, ms[k]), o))
           Are(f, m) == f = [k \in 0 .. m |-> IF k = 0 THEN h ELSE Pass(f[k - 1], k)]
           S == {m \in Nat : \E f : Are(f, m)}
           n == Len(ms)
<1>1. AddMembers(h, o, ms) = (CHOOSE f : Are(f, n))[n]
  BY DEF AddMembers, ForEach
<1>2. \A g, k : Pass(g, k) = IF Ok(g) THEN AppendMember(ConvertMem(g, ms[k]), o) ELSE g
  BY SMT DEF Then
<1> HIDE DEF Pass, n
<1>3. n \in Nat
  BY DEF n
<1>4. 0 \in S
  <2>1. Are([k \in 0 .. 0 |-> h], 0)
    OBVIOUS
  <2> QED
    BY <2>1
<1>5. ASSUME NEW m \in 0 .. n - 1, m \in S PROVE m + 1 \in S
  <2>1. PICK f : Are(f, m)
    BY <1>5
  <2> DEFINE g == [k \in 0 .. m + 1 |-> IF k = m + 1 THEN Pass(f[m], k) ELSE f[k]]
  <2>2. ASSUME NEW k \in 0 .. m + 1 PROVE g[k] = IF k = 0 THEN h ELSE Pass(g[k - 1], k)
    <3>1. CASE k = m + 1
      <4>1. k # 0 /\ k - 1 = m /\ m \in 0 .. m + 1 /\ m # m + 1
        BY <3>1
      <4> QED
        BY <3>1, <4>1
    <3>2. CASE k # m + 1
      <4>1. k \in 0 .. m /\ g[k] = f[k]
        BY <3>2
      <4>2. k # 0 => k - 1 \in 0 .. m + 1 /\ k - 1 # m + 1 /\ g[k - 1] = f[k - 1]
        BY <4>1
      <4>3. f[k] = IF k = 0 THEN h ELSE Pass(f[k - 1], k)
        BY <2>1, <4>1
      <4> QED
        BY <4>1, <4>2, <4>3
    <3> QED
      BY <3>1, <3>2
  <2> HIDE DEF g
  <2>3. Are(g, m + 1)
    <3>1. g = [k \in 0 .. m + 1 |-> g[k]]
      BY DEF g
    <3> QED
      BY <2>2, <3>1
  <2>4. m + 1 \in Nat
    BY <1>3
  <2> HIDE DEF Are
  <2> QED
    BY <2>3, <2>4
<1>6. n \in S
  <2>1. n \in 0 .. n
    BY <1>3
  <2> HIDE DEF S
  <2> QED
    BY <1>3, <1>4, <1>5, <2>1, Induction
<1>7. PICK f : Are(f, n) /\ AddMembers(h, o, ms) = f[n]
  BY <1>1, <1>6
<1> HIDE DEF S
<1>8. f[0] = h
  BY <1>3, <1>7
<1>9. ASSUME NEW k \in 1 .. n PROVE f[k] = Pass(f[k - 1], k)
  <2>1. k \in 0 .. n /\ k # 0
    BY <1>3
  <2> QED
    BY <1>7, <2>1
<1> QED
  BY <1>2, <1>7, <1>8, <1>9 DEF n

\* Nothing but an object changes, and not who that is; others may be added.
Only(h, g, o) ==
  /\ Len(h.objects) <= Len(g.objects)
  /\ SameObject(h.objects[o], g.objects[o])
  /\ \A p \in Ids(h) \ {o} : g.objects[p] = h.objects[p]

(* A step that reads one object lets the heap grow.                        *)
LEMMA OnlyGrows ==
  ASSUME NEW h, NEW g, NEW o \in Ids(h), Only(h, g, o)
  PROVE  Grows(h, g, {o})
BY DEF Only, Grows, SameObject, KeptObject

(* Two steps that read the same object are one that reads it.              *)
LEMMA OnlyTrans ==
  ASSUME NEW h, NEW g, NEW k, NEW o, Heap(h), Heap(g), Heap(k),
         Only(h, g, o), Only(g, k, o)
  PROVE  Only(h, k, o)
<1>1. Len(h.objects) \in Nat /\ Len(g.objects) \in Nat /\ Len(k.objects) \in Nat
  BY LenProperties DEF Heap
<1>2. Ids(h) \subseteq Ids(g) /\ Len(h.objects) <= Len(k.objects)
  BY <1>1 DEF Only, Ids
<1> QED
  BY <1>2 DEF Only, SameObject

(* The creation of an object is a step of the reading of any other.        *)
LEMMA MakesOnly ==
  ASSUME NEW h, NEW g, NEW o \in Ids(h), Makes(h, g)
  PROVE  Only(h, g, o)
BY DEF Makes, Only, SameObject

(* Giving members to an object is a step of its reading.                   *)
LEMMA GivesOnly ==
  ASSUME NEW h, NEW g, NEW o \in Ids(h), NEW m, Heap(h), Gives(h, g, o, m)
  PROVE  Only(h, g, o)
<1>1. h.objects[o] \in Obj /\ Len(h.objects) \in Nat
  BY ObjectFields
<1>2. g.objects[o] = [h.objects[o] EXCEPT !.members = m]
  BY DEF Gives
<1>3. SameObject(h.objects[o], [h.objects[o] EXCEPT !.members = m])
  BY <1>1, MembersSet
<1> QED
  BY <1>1, <1>2, <1>3 DEF Gives, Only

\* What the object o of heap g has for the first k of the members ms it is
\* given, when it had none in heap h.
Added(d, h, g, o, ms, k) ==
  /\ Good(d, g) /\ Building(g, o) /\ Only(h, g, o) /\ Ok(g)
  /\ g.objects[o].described = h.objects[o].described
  /\ Len(g.objects[o].members) = k
  /\ \A i \in 1 .. k : ms[i].refid = None => StandsFor(g, g.objects[o].members[i], ms[i])
  /\ \A p \in Ids(g) \ Ids(h) : ~ g.objects[p].parsed
  /\ (\A i \in 1 .. k : ms[i].refid = None) => g.refs = h.refs

(* A turn of add_members: the conversion of the next node of the file and  *)
(* the append of what it returned.                                         *)
LEMMA AddOne ==
  ASSUME NEW d, NEW h, Good(d, h), NEW o \in Ids(h), NEW g, NEW ms, NEW k \in Nat,
         Added(d, h, g, o, ms, k), MemberFits(d, ms[k + 1])
  PROVE  Added(d, h, AppendMember(ConvertMem(g, ms[k + 1]), o), o, ms, k + 1)
<1> DEFINE m == ms[k + 1]
           a == ConvertMem(g, m)
           s == a.objects[o].members
           b == AppendMember(a, o)
<1> HIDE DEF m
<1>1. Good(d, g) /\ Building(g, o) /\ Only(h, g, o) /\ Ok(g)
  BY DEF Added
<1>2. Heap(h) /\ Heap(g) /\ o \in Ids(g) /\ g.objects[o] \in Obj /\ Len(g.objects) \in Nat
  BY <1>1, ObjectFields DEF Good, Building
<1>3. /\ Good(d, a) /\ Makes(g, a) /\ a.result \in 0 .. Len(a.objects)
      /\ m.refid = None => a.refs = g.refs
      /\ m.refid = None => StandsFor(a, a.result, m)
  <2> HIDE DEF a
  <2> QED
    BY <1>1, ConvertMemFits DEF a, m
<1> HIDE DEF a
<1>4. Heap(a) /\ Building(a, o) /\ a.objects[o] = g.objects[o] /\ Ok(a)
  <2>1. Heap(a) /\ Len(a.objects) \in Nat
    BY <1>3, LenProperties DEF Good, Heap
  <2> QED
    BY <1>1, <1>2, <1>3, <2>1 DEF Makes, Building, Ids, Ok
<1>5. Good(d, b) /\ Gives(a, b, o, Append(s, a.result)) /\ Building(b, o)
  <2> HIDE DEF b, s
  <2> QED
    BY <1>3, <1>4, AppendMemberFits DEF b, s
<1>6. Only(h, b, o)
  <2>1. Only(g, a, o)
    BY <1>2, <1>3, MakesOnly
  <2>2. Only(a, b, o) /\ Heap(b)
    <3> HIDE DEF b, s
    <3>1. o \in Ids(a)
      BY <1>4 DEF Building
    <3> QED
      BY <1>4, <1>5, <3>1, GivesOnly DEF Good
  <2> HIDE DEF b
  <2> QED
    BY <1>1, <1>2, <1>4, <2>1, <2>2, OnlyTrans
<1>7. /\ s = g.objects[o].members /\ s \in Seq(Nat) /\ Len(s) = k /\ a.result \in Nat
  BY <1>2, <1>3, <1>4 DEF Added, Obj
<1>8. b.objects[o].members = Append(s, a.result) /\ b.objects[o].described = h.objects[o].described
  <2> HIDE DEF b, s
  <2>1. a.objects[o] \in Obj
    BY <1>2, <1>4
  <2>2. b.objects[o] = [a.objects[o] EXCEPT !.members = Append(s, a.result)]
    BY <1>5 DEF Gives
  <2>3. g.objects[o].described = h.objects[o].described
    BY DEF Added
  <2> QED
    BY <1>4, <2>1, <2>2, <2>3, MembersSet
<1> HIDE DEF s
<1>9. /\ Len(b.objects[o].members) = k + 1
      /\ \A i \in 1 .. k : b.objects[o].members[i] = g.objects[o].members[i]
      /\ b.objects[o].members[k + 1] = a.result
  <2> HIDE DEF b
  <2>1. /\ Len(Append(s, a.result)) = Len(s) + 1
        /\ \A i \in 1 .. Len(s) : Append(s, a.result)[i] = s[i]
        /\ Append(s, a.result)[Len(s) + 1] = a.result
    BY <1>7, AppendProperties
  <2> QED
    BY <1>7, <1>8, <2>1
<1>10. Grows(g, a, Ids(g)) /\ Grows(a, b, Ids(a)) /\ Heap(b)
  <2> HIDE DEF b, s
  <2>1. o \in Ids(a)
    BY <1>4 DEF Building
  <2>2. Only(a, b, o)
    BY <1>4, <1>5, <2>1, GivesOnly
  <2>3. Grows(a, b, {o})
    BY <2>1, <2>2, OnlyGrows
  <2> QED
    BY <1>3, <1>5, <2>1, <2>3, MakesGrows, GrowsLess DEF Good
<1>11. ASSUME NEW i \in 1 .. k + 1, ms[i].refid = None
       PROVE  StandsFor(b, b.objects[o].members[i], ms[i])
  <2> HIDE DEF b
  <2>0. Len(a.objects) \in Nat /\ Len(b.objects) \in Nat
    BY <1>4, <1>10, LenProperties DEF Heap
  <2>1. CASE i = k + 1
    <3>1. StandsFor(a, a.result, m) /\ b.objects[o].members[i] = a.result
      BY <1>3, <1>9, <1>11, <2>1 DEF m
    <3> QED
      BY <1>10, <2>0, <2>1, <3>1, StandsForOn DEF m
  <2>2. CASE i # k + 1
    <3>1. i \in 1 .. k
      BY <2>2
    <3>2. b.objects[o].members[i] = g.objects[o].members[i]
      BY <1>9, <3>1
    <3>3. StandsFor(g, g.objects[o].members[i], ms[i])
      BY <1>11, <3>1 DEF Added
    <3>4. StandsFor(a, g.objects[o].members[i], ms[i])
      BY <1>2, <1>10, <2>0, <3>3, StandsForOn
    <3> QED
      BY <1>10, <2>0, <3>2, <3>4, StandsForOn
  <2> QED
    BY <2>1, <2>2
<1>14. ASSUME NEW p \in Ids(b) \ Ids(h) PROVE ~ b.objects[p].parsed
  <2> HIDE DEF b
  <2>1. p \in Ids(a) \ {o} /\ b.objects[p] = a.objects[p]
    <3>1. Len(b.objects) = Len(a.objects) /\ p # o
      BY <1>5, <1>14 DEF Gives
    <3> QED
      BY <1>5, <1>14, <3>1 DEF Gives, Ids
  <2>2. CASE p \in Ids(g)
    BY <1>3, <1>14, <2>1, <2>2 DEF Added, Makes
  <2>3. CASE p \notin Ids(g)
    BY <1>3, <2>1, <2>3 DEF Makes
  <2> QED
    BY <2>2, <2>3
<1>12. ASSUME \A i \in 1 .. k + 1 : ms[i].refid = None PROVE b.refs = h.refs
  <2>1. b.refs = a.refs
    BY <1>5 DEF Gives
  <2>2. m.refid = None /\ \A i \in 1 .. k : ms[i].refid = None
    BY <1>12 DEF m
  <2>3. g.refs = h.refs
    BY <2>2 DEF Added
  <2> HIDE DEF b
  <2> QED
    BY <1>3, <2>1, <2>2, <2>3
<1>13. Ok(b)
  BY <1>4, <1>5 DEF Gives, Ok
<1> HIDE DEF b
<1> QED
  BY <1>5, <1>6, <1>8, <1>9, <1>11, <1>12, <1>13, <1>14 DEF Added, b, a, m

(* All turns of the loop of a _parse over the nodes of its file: the       *)
(* object has a member for each of them, in the order of the file, unless  *)
(* a conversion raised and the loop ended there.                           *)
LEMMA AddMembersFits ==
  ASSUME NEW d, NEW h, Good(d, h), NEW o, Building(h, o), Ok(h),
         h.objects[o].members = <<>>, NEW ms, Len(ms) \in Nat,
         \A i \in 1 .. Len(ms) : MemberFits(d, ms[i])
  PROVE  Added(d, h, AddMembers(h, o, ms), o, ms, Len(ms))
<1>1. PICK f : /\ f[0] = h
               /\ \A k \in 1 .. Len(ms) :
                     f[k] = IF Ok(f[k - 1])
                            THEN AppendMember(ConvertMem(f[k - 1], ms[k]), o)
                            ELSE f[k - 1]
               /\ AddMembers(h, o, ms) = f[Len(ms)]
  BY AddMembersTurns
<1> DEFINE S == {k \in 0 .. Len(ms) : Added(d, h, f[k], o, ms, k)}
<1>2. Len(ms) \in 0 .. Len(ms) /\ 0 \in 0 .. Len(ms) /\ o \in Ids(h)
  BY DEF Building
<1>3. 0 \in S
  <2>1. Only(h, h, o)
    <3>1. Len(h.objects) \in Nat
      BY LenProperties DEF Good, Heap
    <3> QED
      BY <3>1 DEF Only, SameObject
  <2>2. Len(h.objects[o].members) = 0
    BY EmptySeq
  <2>3. Added(d, h, h, o, ms, 0)
    BY <2>1, <2>2 DEF Added
  <2> QED
    BY <1>1, <1>2, <2>3
<1>4. ASSUME NEW k \in 0 .. Len(ms) - 1, k \in S PROVE k + 1 \in S
  <2>1. k \in Nat /\ k + 1 \in 1 .. Len(ms) /\ k + 1 \in 0 .. Len(ms) /\ (k + 1) - 1 = k
    OBVIOUS
  <2>2. Added(d, h, f[k], o, ms, k)
    BY <1>4
  <2>3. f[k + 1] = AppendMember(ConvertMem(f[k], ms[k + 1]), o)
    BY <1>1, <2>1, <2>2 DEF Added
  <2>4. Added(d, h, f[k + 1], o, ms, k + 1)
    BY <1>2, <2>1, <2>2, <2>3, AddOne
  <2> QED
    BY <2>1, <2>4
<1>5. Len(ms) \in S
  <2> HIDE DEF S
  <2> QED
    BY <1>2, <1>3, <1>4, Induction
<1> QED
  BY <1>1, <1>5

-----------------------------------------------------------------------------
(* The files of a directory.                                               *)

(* The first definitions of their names are those that no earlier has.     *)
LEMMA FirstOfNameIs ==
  ASSUME NEW defs, DOMAIN defs = 1 .. Len(defs), Len(defs) \in Nat
  PROVE  FirstOfName(defs) = Chosen(defs, {i \in DOMAIN defs : IsFirst(defs, i)})
<1> DEFINE I == {i \in DOMAIN defs : IsFirst(defs, i)}
           n == Len(defs)
           P(f) == f = [k \in 0 .. n |-> IF k = 0 THEN <<>>
                                         ELSE IF IsFirst(defs, k) THEN Append(f[k - 1], defs[k])
                                         ELSE f[k - 1]]
           Q(f) == f = [k \in 0 .. n |-> IF k = 0 THEN <<>>
                                         ELSE IF k \in I THEN Append(f[k - 1], defs[k])
                                         ELSE f[k - 1]]
<1>1. FirstOfName(defs) = (CHOOSE f : P(f))[n]
  BY DEF FirstOfName
<1>2. Chosen(defs, I) = (CHOOSE f : Q(f))[n]
  BY DEF Chosen
<1>3. \A k \in 0 .. n : k # 0 => (k \in I <=> IsFirst(defs, k))
  OBVIOUS
<1> HIDE DEF I
<1>4. \A f : P(f) <=> Q(f)
  BY <1>3
<1> HIDE DEF P, Q
<1>5. (CHOOSE f : P(f)) = (CHOOSE f : Q(f))
  BY <1>4
<1> QED
  BY <1>1, <1>2, <1>5 DEF I

\* A directory of files of XML as Doxygen writes one, and whose files agree.
GoodDirectory(d) == IsDirectory(d) /\ Consistent(d)

(* Every kind has a class, and none is that of the index.                  *)
LEMMA ClassesOfKinds ==
  /\ \A k \in DOMAIN ClassOfKind :
        ClassOfKind[k] \in Classes \ {"DoxyIndex"} /\ ClassOfKind[k] # None
  /\ "group" \in DOMAIN ClassOfKind /\ ClassOfKind["group"] = "DoxyGroup"
  /\ "class" \in DOMAIN ClassOfKind /\ ClassOfKind["class"] = "DoxyClass"
  /\ {"DoxyGroup", "DoxyClass"} \subseteq Classes \ {"DoxyIndex"}
  /\ None \notin {"DoxyGroup", "DoxyClass"}
<1>1. \A k \in DOMAIN ClassOfKind : ClassOfKind[k] # "DoxyIndex" /\ ClassOfKind[k] # None
  BY DEF ClassOfKind, None
<1>2. /\ "group" \in DOMAIN ClassOfKind /\ ClassOfKind["group"] = "DoxyGroup"
      /\ "class" \in DOMAIN ClassOfKind /\ ClassOfKind["class"] = "DoxyClass"
  BY DEF ClassOfKind
<1> QED
  BY <1>1, <1>2 DEF Classes, None

(* What a directory says of its entries and files.                         *)
LEMMA DirectoryHas ==
  ASSUME NEW d, GoodDirectory(d)
  PROVE  /\ Len(d.index) \in Nat /\ DOMAIN d.index = 1 .. Len(d.index)
         /\ \A i \in DOMAIN d.index : d.index[i] \in Compounds
         /\ \A r \in DOMAIN d.files : d.files[r] \in Files /\ r \in Refids
BY LenProperties, ElementOfSeq DEF GoodDirectory, IsDirectory

(* Definitions and entries of the index can be converted.                  *)
LEMMA DefinitionFits ==
  ASSUME NEW d, GoodDirectory(d), NEW m \in Memberdefs
  PROVE  MemberFits(d, Parsed(m)) /\ Parsed(m).refid = None /\ Parsed(m).data = m
<1>1. Parsed(m).refid = None /\ Parsed(m).data = m
  BY DEF Parsed, Memberdefs
<1>2. \A i \in DOMAIN d.index : d.index[i].refid # None
  BY DirectoryHas DEF Compounds, Refids
<1>3. Parsed(m).cls # None => Parsed(m).cls \in Classes \ {"DoxyIndex"}
  BY ClassesOfKinds DEF Parsed
<1> QED
  BY <1>1, <1>2, <1>3 DEF MemberFits, ParseData

(* An entry of index.xml is a node that can be converted, and converting   *)
(* it keeps its refid and its data.                                        *)
LEMMA EntryFits ==
  ASSUME NEW d, GoodDirectory(d), NEW i \in DOMAIN d.index
  PROVE  /\ MemberFits(d, Parsed(d.index[i]))
         /\ Parsed(d.index[i]).refid = d.index[i].refid
         /\ Parsed(d.index[i]).data = d.index[i]
<1> DEFINE e == d.index[i]
<1>1. e \in Compounds
  BY DirectoryHas
<1>2. \A j \in DOMAIN d.index : d.index[j].refid = e.refid => j = i
  BY DEF GoodDirectory, Consistent
<1>3. Parsed(e).refid = e.refid /\ Parsed(e).data = e
  BY DEF Parsed
<1>4. Parsed(e).cls # None => /\ Parsed(e).cls \in Classes \ {"DoxyIndex"}
                              /\ e.kind \in DOMAIN ClassOfKind
                              /\ Parsed(e).cls = ClassOfKind[e.kind]
  BY ClassesOfKinds DEF Parsed
<1>5. e.refid \in Refids
  BY <1>1 DEF Compounds
<1>6. e \in ParseData
  BY <1>1 DEF ParseData
<1>7. \A j \in DOMAIN d.index : d.index[j].refid = e.refid => d.index[j] = e
  BY <1>2
<1> HIDE DEF e
<1>8. MemberFits(d, Parsed(e))
  BY <1>3, <1>4, <1>5, <1>6, <1>7 DEF MemberFits, MayBe
<1> QED
  BY <1>3, <1>8 DEF e

(* The groups and classes a group refers to.                               *)
LEMMA ReferenceFits ==
  ASSUME NEW d, GoodDirectory(d), NEW r \in DOMAIN d.files, NEW i
  PROVE  /\ i \in DOMAIN d.files[r].groups =>
                MemberFits(d, Reference("DoxyGroup", d.files[r].groups[i]))
         /\ i \in DOMAIN d.files[r].classes =>
                MemberFits(d, Reference("DoxyClass", d.files[r].classes[i]))
<1>1. d.files[r].groups \in Seq(Refids) /\ d.files[r].classes \in Seq(Refids)
  BY DirectoryHas DEF Files
<1>2. \A j \in DOMAIN d.index :
         /\ d.index[j].refid \in ToSet(d.files[r].groups) => d.index[j].kind = "group"
         /\ d.index[j].refid \in ToSet(d.files[r].classes) => d.index[j].kind \in InnerKinds
  BY DEF GoodDirectory, Consistent
<1>3. ASSUME i \in DOMAIN d.files[r].groups
      PROVE  MemberFits(d, Reference("DoxyGroup", d.files[r].groups[i]))
  <2>1. d.files[r].groups[i] \in Refids
    BY <1>1, <1>3, ElementOfSeq, LenProperties
  <2>2. d.files[r].groups[i] \in ToSet(d.files[r].groups)
    BY <1>3 DEF ToSet
  <2> QED
    BY <1>2, <2>1, <2>2, ClassesOfKinds DEF MemberFits, MayBe, Reference, ParseData
<1>4. ASSUME i \in DOMAIN d.files[r].classes
      PROVE  MemberFits(d, Reference("DoxyClass", d.files[r].classes[i]))
  <2>1. d.files[r].classes[i] \in Refids
    BY <1>1, <1>4, ElementOfSeq, LenProperties
  <2>2. d.files[r].classes[i] \in ToSet(d.files[r].classes)
    BY <1>4 DEF ToSet
  <2> QED
    BY <1>2, <2>1, <2>2, ClassesOfKinds DEF MemberFits, MayBe, Reference, ParseData
<1> QED
  BY <1>3, <1>4

(* The members of a file that is no group are its first definitions.       *)
LEMMA DefinitionsFit ==
  ASSUME NEW d, GoodDirectory(d), NEW file \in Files
  PROVE  /\ FirstOfName(file.memberdefs) \in Seq(Memberdefs)
         /\ Len(Definitions(file)) = Len(FirstOfName(file.memberdefs))
         /\ Len(Definitions(file)) \in Nat
         /\ \A i \in 1 .. Len(Definitions(file)) :
               /\ MemberFits(d, Definitions(file)[i])
               /\ Definitions(file)[i].refid = None
               /\ Definitions(file)[i].data = FirstOfName(file.memberdefs)[i]
<1> DEFINE defs == file.memberdefs
           firsts == FirstOfName(defs)
<1>1. defs \in Seq(Memberdefs) /\ Len(defs) \in Nat /\ DOMAIN defs = 1 .. Len(defs)
  BY LenProperties DEF Files
<1>2. firsts = Chosen(defs, {i \in DOMAIN defs : IsFirst(defs, i)})
  BY <1>1, FirstOfNameIs
<1>3. firsts \in Seq(Memberdefs)
  BY <1>1, <1>2, ChosenIn
<1>4. Definitions(file) = [i \in 1 .. Len(firsts) |-> Parsed(firsts[i])]
  BY DEF Definitions
<1> HIDE DEF firsts
<1>5. Len(firsts) \in Nat /\ \A i \in 1 .. Len(firsts) : firsts[i] \in Memberdefs
  BY <1>3, LenProperties, ElementOfSeq
<1>6. Len(Definitions(file)) = Len(firsts)
  BY <1>4, <1>5
<1>7. ASSUME NEW i \in 1 .. Len(firsts)
      PROVE  /\ MemberFits(d, Definitions(file)[i])
             /\ Definitions(file)[i].refid = None
             /\ Definitions(file)[i].data = firsts[i]
  BY <1>4, <1>5, DefinitionFits
<1> QED
  BY <1>3, <1>5, <1>6, <1>7 DEF firsts

(* A function on 1 .. n is a sequence of its values.                       *)
LEMMA SeqOfValues ==
  ASSUME NEW V, NEW s, NEW n \in Nat, s = [i \in 1 .. n |-> s[i]],
         \A i \in 1 .. n : s[i] \in V
  PROVE  s \in Seq(V) /\ Len(s) = n
OBVIOUS

(* The members of a group: groups, classes, definitions.                   *)
LEMMA GroupMembersFit ==
  ASSUME NEW d, GoodDirectory(d), NEW r \in DOMAIN d.files
  PROVE  LET ms == GroupMembers(d.files[r]) IN
         Len(ms) \in Nat /\ \A i \in 1 .. Len(ms) : MemberFits(d, ms[i])
<1> DEFINE file == d.files[r]
           gs == [i \in 1 .. Len(file.groups) |-> Reference("DoxyGroup", file.groups[i])]
           cs == [i \in 1 .. Len(file.classes) |-> Reference("DoxyClass", file.classes[i])]
           ds == Definitions(file)
           V == {m \in ToSet(gs) \cup ToSet(cs) \cup ToSet(ds) : MemberFits(d, m)}
<1>1. /\ file \in Files /\ Len(file.groups) \in Nat /\ DOMAIN file.groups = 1 .. Len(file.groups)
      /\ Len(file.classes) \in Nat /\ DOMAIN file.classes = 1 .. Len(file.classes)
  BY DirectoryHas, LenProperties DEF Files
<1>2. gs \in Seq(V)
  <2>1. \A i \in 1 .. Len(file.groups) : gs[i] \in V
    BY <1>1, ReferenceFits DEF ToSet
  <2>2. gs = [i \in 1 .. Len(file.groups) |-> gs[i]]
    OBVIOUS
  <2> HIDE DEF V, gs
  <2> QED
    BY <1>1, <2>1, <2>2, SeqOfValues
<1>3. cs \in Seq(V)
  <2>1. \A i \in 1 .. Len(file.classes) : cs[i] \in V
    BY <1>1, ReferenceFits DEF ToSet
  <2>2. cs = [i \in 1 .. Len(file.classes) |-> cs[i]]
    OBVIOUS
  <2> DEFINE n == Len(file.classes)
  <2>3. n \in Nat /\ cs = [i \in 1 .. n |-> cs[i]] /\ \A i \in 1 .. n : cs[i] \in V
    BY <1>1, <2>1, <2>2
  <2> HIDE DEF V, cs, gs, ds, n
  <2> QED
    BY <2>3, SeqOfValues
<1>4. ds \in Seq(V)
  <2> DEFINE firsts == FirstOfName(file.memberdefs)
  <2>1. ds = [i \in 1 .. Len(firsts) |-> Parsed(firsts[i])]
    BY DEF Definitions
  <2>2. Len(ds) = Len(firsts) /\ Len(ds) \in Nat /\ \A i \in 1 .. Len(ds) : MemberFits(d, ds[i])
    BY <1>1, DefinitionsFit
  <2> HIDE DEF ds, firsts
  <2>3. DOMAIN ds = 1 .. Len(firsts)
    BY <2>1
  <2>4. \A i \in 1 .. Len(firsts) : ds[i] \in V
    BY <2>2, <2>3 DEF ToSet
  <2> HIDE DEF V
  <2>5. ds = [i \in 1 .. Len(firsts) |-> ds[i]]
    BY <2>1
  <2> QED
    BY <2>2, <2>4, <2>5
<1>5. GroupMembers(file) = (gs \o cs) \o ds
  BY DEF GroupMembers
<1> HIDE DEF gs, cs, ds, V
<1>6. GroupMembers(file) \in Seq(V)
  BY <1>2, <1>3, <1>4, <1>5, ConcatProperties
<1>7. \A m \in V : MemberFits(d, m)
  BY DEF V
<1> QED
  BY <1>6, <1>7, LenProperties, ElementOfSeq

-----------------------------------------------------------------------------
(* Reading a file.                                                         *)

\* A step that replaces one object.
Sets(h, g, o, y) ==
  /\ Heap(g) /\ Len(g.objects) = Len(h.objects) /\ g.refs = h.refs
  /\ g.result = h.result /\ g.raised = h.raised
  /\ g.objects[o] = y
  /\ \A p \in Ids(h) \ {o} : g.objects[p] = h.objects[p]

(* Two assignments to the same object are one, the later.                  *)
LEMMA SetsTrans ==
  ASSUME NEW h, NEW g, NEW k, NEW o, NEW y, NEW z, Sets(h, g, o, y), Sets(g, k, o, z)
  PROVE  Sets(h, k, o, z)
BY DEF Sets, Ids

(* The three fields that reading an object sets, each without a change of  *)
(* another.                                                                *)
LEMMA SetsFields ==
  ASSUME NEW h, Heap(h), NEW o \in Ids(h)
  PROVE  LET x == h.objects[o] IN
         /\ Sets(h, Marked(h, o), o, [x EXCEPT !.parsed = TRUE])
         /\ Sets(h, Described(h, o), o, [x EXCEPT !.described = TRUE])
         /\ Sets(h, [h EXCEPT !.objects[o].error = TRUE], o, [x EXCEPT !.error = TRUE])
<1> DEFINE x == h.objects[o]
<1>1. x \in Obj
  BY ObjectFields
<1>2. /\ [x EXCEPT !.parsed = TRUE] \in Obj /\ [x EXCEPT !.described = TRUE] \in Obj
      /\ [x EXCEPT !.error = TRUE] \in Obj
  BY <1>1, SetFields
<1>3. /\ Marked(h, o) = [h EXCEPT !.objects[o] = [x EXCEPT !.parsed = TRUE]]
      /\ Described(h, o) = [h EXCEPT !.objects[o] = [x EXCEPT !.described = TRUE]]
      /\ [h EXCEPT !.objects[o].error = TRUE]
            = [h EXCEPT !.objects[o] = [x EXCEPT !.error = TRUE]]
  BY OneField DEF Marked, Described
<1> HIDE DEF x
<1>4. \A y \in Obj : Sets(h, [h EXCEPT !.objects[o] = y], o, y)
  BY SetObject DEF Sets
<1> QED
  BY <1>2, <1>3, <1>4 DEF x

(* Fields of an object that has been read, or has said its descriptions.   *)
LEMMA ReadObject ==
  ASSUME NEW x \in Obj
  PROVE  LET y == [x EXCEPT !.parsed = TRUE] IN
         /\ y \in Obj /\ y.parsed /\ SameObject(x, y) /\ y.members = x.members
         /\ y.error = x.error /\ y.described = x.described
         /\ y.inCategory = x.inCategory /\ y.dictMembers = x.dictMembers
BY DEF Obj, SameObject

(* An object that has got its descriptions is the same object.             *)
LEMMA DescribedObject ==
  ASSUME NEW x \in Obj
  PROVE  LET y == [x EXCEPT !.described = TRUE] IN
         /\ y \in Obj /\ y.described /\ SameObject(x, y) /\ y.members = x.members
         /\ y.error = x.error /\ y.parsed = x.parsed
         /\ y.inCategory = x.inCategory /\ y.dictMembers = x.dictMembers
BY DEF Obj, SameObject

(* An object whose file could not be parsed is the same object, with its   *)
(* error set.                                                              *)
LEMMA ErrorObject ==
  ASSUME NEW x \in Obj
  PROVE  LET y == [x EXCEPT !.error = TRUE] IN
         /\ y \in Obj /\ y.error /\ SameObject(x, y) /\ y.members = x.members
         /\ y.described = x.described /\ y.parsed = x.parsed
         /\ y.inCategory = x.inCategory /\ y.dictMembers = x.dictMembers
BY DEF Obj, SameObject

(* The object whose file is read changes, and is in error when that is due. *)
LEMMA BeingRead ==
  ASSUME NEW d, NEW h, Good(d, h), NEW o \in Ids(h), NEW g, NEW y, Sets(h, g, o, y),
         SameObject(h.objects[o], y), y.parsed,
         y.members = <<>>, y.inCategory = <<>>, y.dictMembers = <<>>,
         ~ (y.error /\ y.described), y.error => Reads(y.cls),
         y.refid \in DOMAIN d.files /\ Reads(y.cls) =>
              (y.error <=> d.files[y.refid].state = "broken")
  PROVE  Good(d, g) /\ Only(h, g, o) /\ (~ y.error => Building(g, o))
<1>1. Heap(h) /\ Len(h.objects) \in Nat /\ ObjectFits(d, h, o)
  BY LenProperties DEF Good, Heap
<1>2. /\ Heap(g) /\ Len(g.objects) = Len(h.objects) /\ g.refs = h.refs /\ g.objects[o] = y
      /\ \A p \in Ids(h) \ {o} : g.objects[p] = h.objects[p]
  BY DEF Sets
<1>3. Grows(h, g, {o}) /\ (ObjectFits(d, g, o) => Good(d, g))
  BY <1>2, OneObject
<1>4. DOMAIN y.members = {} /\ DOMAIN y.inCategory = {} /\ DOMAIN y.dictMembers = {}
  BY EmptyCaches
<1>5. CachesFit(d, g, y)
  BY <1>4 DEF CachesFit
<1>6. ObjectFits(d, g, o)
  BY <1>1, <1>2, <1>4, <1>5 DEF ObjectFits, SameObject
<1>7. Only(h, g, o)
  BY <1>1, <1>2 DEF Only
<1>8. ~ y.error => Building(g, o)
  BY <1>2 DEF Building, Ids
<1> QED
  BY <1>3, <1>6, <1>7, <1>8

\* The members of a list are made from a list of nodes, one from each.
MadeOf(h, ms, nodes) ==
  /\ Len(ms) = Len(nodes)
  /\ \A i \in 1 .. Len(nodes) : StandsFor(h, ms[i], nodes[i])

\* The objects whose reading raises.
Raises(d, x) ==
  /\ Reads(x.cls)
  /\ FileState(d, x.refid) = "raises"
     \/ (x.cls = "DoxyFile" /\ FileState(d, x.refid) = "broken")

\* An object other than the index that was read has what its file gives it: a
\* class or a header the first definitions of their names, and descriptions;
\* nothing when the reading raised.
ContentFits(d, h, o) ==
  LET x == h.objects[o] IN
  x.parsed /\ x.cls # "DoxyIndex" =>
    /\ x.cls \in {"DoxyClass", "DoxyFile"} /\ FileState(d, x.refid) = "ok" =>
          x.described /\ MadeOf(h, x.members, Definitions(d.files[x.refid]))
    /\ ~ Reads(x.cls) => x.members = <<>>
    /\ Raises(d, x) => x.members = <<>>
    /\ x.cls = "DoxyFunction" => x.described

\* Objects that were added have not been read.
Bare(h, g) == \A p \in Ids(g) \ Ids(h) : ~ g.objects[p].parsed

\* An object that has not been read.
Unread(h, o) == o \in Ids(h) /\ ~ h.objects[o].parsed

\* What is to be known of an object after its file has been read.
Read(d, h, g, o) ==
  /\ Good(d, g) /\ Only(h, g, o) /\ Bare(h, g)
  /\ g.objects[o].parsed /\ ContentFits(d, g, o)
  /\ h.objects[o].cls # "DoxyGroup" => g.refs = h.refs
  /\ IF Raises(d, h.objects[o]) THEN g.raised \in {"Unreadable", "AttributeError"} ELSE Ok(g)

(* The members of the file are added.                                      *)
LEMMA MembersRead ==
  ASSUME NEW d, NEW h, Good(d, h), NEW o, Unread(h, o), NEW g, Good(d, g), Ok(g),
         Only(h, g, o), g.refs = h.refs, Len(g.objects) = Len(h.objects),
         Building(g, o), g.objects[o].members = <<>>,
         Reads(h.objects[o].cls), FileState(d, h.objects[o].refid) = "ok",
         NEW ms, Len(ms) \in Nat, \A i \in 1 .. Len(ms) : MemberFits(d, ms[i]),
         h.objects[o].cls # "DoxyGroup" =>
            /\ g.objects[o].described
            /\ ms = Definitions(d.files[h.objects[o].refid])
            /\ \A i \in 1 .. Len(ms) : ms[i].refid = None
  PROVE  Read(d, h, AddMembers(g, o, ms), o)
<1> DEFINE b == AddMembers(g, o, ms)
<1>1. Added(d, g, b, o, ms, Len(ms))
  BY AddMembersFits
<1> HIDE DEF b
<1>2. Good(d, b) /\ Building(b, o) /\ Only(g, b, o) /\ Ok(b)
  BY <1>1 DEF Added
<1>3. Only(h, b, o)
  BY <1>2, OnlyTrans DEF Good
<1>4. b.objects[o].parsed /\ ~ b.objects[o].error
  BY <1>2 DEF Building
<1>5. Bare(h, b)
  BY <1>1 DEF Bare, Added, Ids
<1>6. SameObject(h.objects[o], b.objects[o])
  BY <1>3 DEF Only
<1>7. ASSUME h.objects[o].cls # "DoxyGroup"
      PROVE  /\ b.objects[o].described /\ b.refs = h.refs
             /\ MadeOf(b, b.objects[o].members, Definitions(d.files[h.objects[o].refid]))
  BY <1>1, <1>7 DEF Added, MadeOf
<1>8. ~ Raises(d, h.objects[o]) /\ ~ Raises(d, b.objects[o])
  BY <1>6 DEF Raises, SameObject
<1>9. ContentFits(d, b, o)
  BY <1>6, <1>7, <1>8 DEF ContentFits, SameObject, Reads
<1> QED
  BY <1>2, <1>3, <1>4, <1>5, <1>7, <1>8, <1>9 DEF Read, b

(* An object marked as read, and its descriptions or its error set.        *)
LEMMA MarkedFits ==
  ASSUME NEW h, Good(corpus, h), NEW o, Unread(h, o)
  PROVE  LET x == h.objects[o]
             h1 == Marked(h, o)
             y1 == [x EXCEPT !.parsed = TRUE]
             state == FileState(corpus, x.refid)
         IN
         /\ Heap(h1) /\ o \in Ids(h1) /\ Sets(h, h1, o, y1) /\ h1.objects[o].refid = x.refid
         /\ h1.objects[o].cls = x.cls /\ ~ h1.objects[o].error /\ h1.objects[o].parsed
         /\ h1.objects[o].members = <<>> /\ h1.raised = h.raised /\ h1.refs = h.refs
         /\ Len(h1.objects) = Len(h.objects)
         /\ state # "broken" \/ ~ Reads(x.cls) =>
              /\ Good(corpus, h1) /\ Only(h, h1, o) /\ Building(h1, o)
              /\ LET h2 == Described(h1, o) IN
                 /\ Good(corpus, h2) /\ Only(h, h2, o) /\ Building(h2, o)
                 /\ h2.raised = h.raised /\ h2.refs = h.refs
                 /\ h2.objects[o].members = <<>> /\ h2.objects[o].parsed
                 /\ h2.objects[o].refid = x.refid /\ h2.objects[o].described
                 /\ Len(h2.objects) = Len(h.objects)
         /\ state = "broken" /\ Reads(x.cls) =>
              LET h2 == [h1 EXCEPT !.objects[o].error = TRUE] IN
              /\ Good(corpus, h2) /\ Only(h, h2, o)
              /\ h2.objects[o].parsed /\ h2.objects[o].error /\ h2.raised = h.raised
              /\ h2.refs = h.refs /\ Len(h2.objects) = Len(h.objects)
              /\ h2.objects[o].members = <<>>
<1> DEFINE x == h.objects[o]
           h1 == Marked(h, o)
           y1 == [x EXCEPT !.parsed = TRUE]
           state == FileState(corpus, x.refid)
           h2 == Described(h1, o)
           y2 == [y1 EXCEPT !.described = TRUE]
           h3 == [h1 EXCEPT !.objects[o].error = TRUE]
           y3 == [y1 EXCEPT !.error = TRUE]
<1>1. Heap(h) /\ o \in Ids(h) /\ x \in Obj /\ ~ x.parsed /\ Len(h.objects) \in Nat
  BY ObjectFields DEF Good, Unread
<1>2. /\ x.members = <<>> /\ x.inCategory = <<>> /\ x.dictMembers = <<>>
      /\ ~ x.error /\ ~ x.described
  BY <1>1 DEF Good, ObjectFits
<1>3. /\ y1 \in Obj /\ y1.parsed /\ SameObject(x, y1) /\ y1.members = <<>>
      /\ ~ y1.error /\ ~ y1.described /\ y1.inCategory = <<>> /\ y1.dictMembers = <<>>
  BY <1>1, <1>2, ReadObject
<1>4. /\ y2 \in Obj /\ y2.parsed /\ y2.described /\ SameObject(y1, y2) /\ y2.members = <<>>
      /\ ~ y2.error /\ y2.inCategory = <<>> /\ y2.dictMembers = <<>>
  BY <1>3, DescribedObject
<1>5. /\ y3 \in Obj /\ y3.parsed /\ SameObject(y1, y3) /\ y3.members = <<>>
      /\ y3.error /\ ~ y3.described /\ y3.inCategory = <<>> /\ y3.dictMembers = <<>>
  BY <1>3, ErrorObject
<1>6. Sets(h, h1, o, y1)
  BY <1>1, SetsFields
<1> HIDE DEF x, y1, h1
<1>7. Heap(h1) /\ o \in Ids(h1) /\ h1.objects[o] = y1 /\ h1.raised = h.raised /\ h1.refs = h.refs
      /\ Len(h1.objects) = Len(h.objects)
  BY <1>1, <1>6 DEF Sets, Ids
<1>8. Sets(h1, h2, o, y2) /\ Sets(h1, h3, o, y3)
  BY <1>7, SetsFields
<1> HIDE DEF y2, y3, h2, h3
<1>9. Sets(h, h2, o, y2) /\ Sets(h, h3, o, y3)
  BY <1>6, <1>8, SetsTrans
<1>10. h2.raised = h.raised /\ h2.refs = h.refs /\ h2.objects[o] = y2
       /\ Len(h2.objects) = Len(h.objects)
  BY <1>9 DEF Sets
<1>11. h3.raised = h.raised /\ h3.refs = h.refs /\ h3.objects[o] = y3
       /\ Len(h3.objects) = Len(h.objects)
  BY <1>9 DEF Sets
<1>12. x.refid \in DOMAIN corpus.files => state = corpus.files[x.refid].state
  BY DEF FileState
<1>13. state = "broken" => x.refid \in DOMAIN corpus.files
  BY DEF FileState
<1>14. SameObject(x, y2) /\ SameObject(x, y3) /\ y1.refid = x.refid /\ y2.refid = x.refid
  BY <1>3, <1>4, <1>5 DEF SameObject
<1> HIDE DEF state
<1>15. ASSUME state # "broken" \/ ~ Reads(x.cls)
       PROVE  /\ Good(corpus, h1) /\ Only(h, h1, o) /\ Building(h1, o)
              /\ Good(corpus, h2) /\ Only(h, h2, o) /\ Building(h2, o)
  <2>1. ~ (x.refid \in DOMAIN corpus.files /\ Reads(x.cls) /\ corpus.files[x.refid].state = "broken")
    BY <1>12, <1>15
  <2>2. y1.refid \in DOMAIN corpus.files /\ Reads(y1.cls) =>
           (y1.error <=> corpus.files[y1.refid].state = "broken")
    BY <1>3, <2>1 DEF SameObject
  <2>3. y2.refid \in DOMAIN corpus.files /\ Reads(y2.cls) =>
           (y2.error <=> corpus.files[y2.refid].state = "broken")
    BY <1>4, <1>14, <2>1 DEF SameObject
  <2>4. Good(corpus, h1) /\ Only(h, h1, o) /\ Building(h1, o)
    BY <1>1, <1>3, <1>6, <2>2, BeingRead DEF x
  <2>5. Good(corpus, h2) /\ Only(h, h2, o) /\ Building(h2, o)
    BY <1>1, <1>4, <1>9, <1>14, <2>3, BeingRead DEF x
  <2> QED
    BY <2>4, <2>5
<1>16. ASSUME state = "broken", Reads(x.cls) PROVE Good(corpus, h3) /\ Only(h, h3, o)
  <2>1. y3.refid \in DOMAIN corpus.files /\ Reads(y3.cls) =>
           (y3.error <=> corpus.files[y3.refid].state = "broken")
    BY <1>5, <1>12, <1>14, <1>16 DEF SameObject
  <2>2. Reads(y3.cls)
    BY <1>14, <1>16 DEF SameObject
  <2> QED
    BY <1>1, <1>5, <1>9, <1>14, <1>16, <2>1, <2>2, BeingRead DEF x
<1>17. h1.objects[o].cls = x.cls
  BY <1>3, <1>7 DEF SameObject
<1> QED
  BY <1>3, <1>4, <1>5, <1>6, <1>7, <1>10, <1>11, <1>14, <1>15, <1>16, <1>17
     DEF x, y1, h1, h2, h3, state

(* An exception raised when the object has been changed is raised with it. *)
LEMMA RaisedRead ==
  ASSUME NEW d, NEW h, Good(d, h), NEW o, Unread(h, o), NEW g, Good(d, g), Only(h, g, o),
         g.objects[o].parsed, g.objects[o].members = <<>>,
         g.refs = h.refs, Len(g.objects) = Len(h.objects),
         NEW e \in {"Unreadable", "AttributeError"}, Raises(d, h.objects[o])
  PROVE  Read(d, h, Raise(g, e), o)
<1> DEFINE b == Raise(g, e)
<1>1. Heap(g)
  BY DEF Good
<1>2. Good(d, b) /\ b.objects = g.objects /\ b.refs = g.refs
  BY <1>1, SameHeap
<1>3. b.raised = e
  BY <1>1, AnswerIs
<1> HIDE DEF b
<1>4. Only(h, b, o) /\ Bare(h, b)
  BY <1>2 DEF Only, Bare, Ids
<1>5. SameObject(h.objects[o], b.objects[o])
  BY <1>4 DEF Only
<1>6. b.objects[o].members = <<>>
  BY <1>2
<1>7. ContentFits(d, b, o)
  BY <1>5, <1>6 DEF ContentFits, SameObject, Raises, Reads
<1> QED
  BY <1>2, <1>3, <1>4, <1>7 DEF Read, b

(* What the first statement of a _parse leaves: the object says that it    *)
(* was parsed, and still has no members.                                   *)
LEMMA MarkedIs ==
  ASSUME NEW h, Good(corpus, h), NEW o, Unread(h, o)
  PROVE  LET h1 == Marked(h, o) IN
         /\ Heap(h1) /\ o \in Ids(h1) /\ h1.objects[o].refid = h.objects[o].refid
         /\ h1.objects[o].cls = h.objects[o].cls /\ ~ h1.objects[o].error
         /\ h1.objects[o].parsed /\ h1.objects[o].members = <<>>
         /\ h1.raised = h.raised /\ h1.refs = h.refs /\ Len(h1.objects) = Len(h.objects)
<1> DEFINE h1 == Marked(h, o)
           x == h.objects[o]
           y == [x EXCEPT !.parsed = TRUE]
<1>1. Heap(h) /\ o \in Ids(h) /\ x \in Obj /\ ~ x.parsed
  BY ObjectFields DEF Good, Unread
<1>2. x.members = <<>> /\ ~ x.error
  BY <1>1 DEF Good, ObjectFits
<1>3. y.parsed /\ SameObject(x, y) /\ y.members = <<>> /\ ~ y.error
  BY <1>1, <1>2, ReadObject
<1>4. Sets(h, h1, o, y)
  BY <1>1, SetsFields
<1> HIDE DEF y, h1
<1>5. h1.objects[o] = y /\ Heap(h1) /\ o \in Ids(h1) /\ h1.raised = h.raised /\ h1.refs = h.refs
      /\ Len(h1.objects) = Len(h.objects)
  BY <1>1, <1>4 DEF Sets, Ids
<1> QED
  BY <1>3, <1>5 DEF SameObject, h1

(* _parse of any class but the index: the object is read, whether its file *)
(* is there, is broken or makes the program raise.                         *)
LEMMA ReadFileFits ==
  ASSUME GoodDirectory(corpus), NEW h, Good(corpus, h), Ok(h), NEW o, Unread(h, o)
  PROVE  Read(corpus, h, ReadFile(h, o), o)
<1> DEFINE x == h.objects[o]
           h1 == Marked(h, o)
           h2 == RetrieveData(h1, o)
           h3 == [h1 EXCEPT !.objects[o].error = TRUE]
           state == FileState(corpus, x.refid)
           more == Described(h1, o)
           r == ReadFile(h, o)
<1>1. /\ Heap(h1) /\ o \in Ids(h1) /\ h1.objects[o].refid = x.refid
      /\ h1.objects[o].cls = x.cls /\ ~ h1.objects[o].error /\ h1.objects[o].parsed
      /\ h1.objects[o].members = <<>> /\ h1.raised = h.raised /\ h1.refs = h.refs
      /\ Len(h1.objects) = Len(h.objects)
  BY MarkedIs
<1>2. ASSUME state # "broken" \/ ~ Reads(x.cls)
      PROVE  /\ Good(corpus, h1) /\ Only(h, h1, o) /\ Building(h1, o)
             /\ Good(corpus, more) /\ Only(h, more, o) /\ Building(more, o)
             /\ more.raised = h.raised /\ more.refs = h.refs
             /\ more.objects[o].members = <<>> /\ more.objects[o].parsed
             /\ more.objects[o].refid = x.refid /\ more.objects[o].described
             /\ Len(more.objects) = Len(h.objects)
  BY <1>2, MarkedFits
<1>3. ASSUME state = "broken", Reads(x.cls)
      PROVE  /\ Good(corpus, h3) /\ Only(h, h3, o) /\ h3.objects[o].parsed
             /\ h3.objects[o].error /\ h3.raised = h.raised /\ h3.refs = h.refs
             /\ Len(h3.objects) = Len(h.objects) /\ SameObject(x, h3.objects[o])
             /\ h3.objects[o].members = <<>>
  BY <1>3, MarkedFits DEF Only
<1>4. r = CASE x.cls = "DoxyFunction" -> more
            [] x.cls = "DoxyClass" -> (IF Ok(h2) THEN ParseClass(h2, o) ELSE h2)
            [] x.cls = "DoxyFile" -> (IF Ok(h2) THEN ParseFile(h2, o) ELSE h2)
            [] x.cls = "DoxyGroup" -> (IF Ok(h2) THEN ParseGroup(h2, o) ELSE h2)
            [] OTHER -> h1
  BY SMT DEF ReadFile, Then, Object
<1>5. h2 = CASE state = "broken" -> h3
             [] state = "raises" -> Raise(h1, "Unreadable")
             [] OTHER -> h1
  BY <1>1 DEF RetrieveData, Object
<1>6. \A e \in DOMAIN corpus.files : corpus.files[e] \in Files
  BY DirectoryHas
<1>7. /\ state \in {"ok", "broken", "raises"}
      /\ state # "raises" => x.refid \in DOMAIN corpus.files
  BY <1>6 DEF FileState, Files
<1> HIDE DEF h1, h2, h3, state, more, r, x
<1>8. CASE x.cls = "DoxyFunction"
  <2>1. r = more /\ ~ Reads(x.cls)
    BY <1>4, <1>8 DEF Reads
  <2>2. Bare(h, more) /\ SameObject(x, more.objects[o]) /\ ~ Raises(corpus, x) /\ Ok(more)
    BY <1>2, <2>1 DEF Bare, Ids, Only, Raises, Ok, x
  <2>3. ContentFits(corpus, more, o)
    BY <1>2, <1>8, <2>1, <2>2 DEF ContentFits, SameObject, Raises
  <2> QED
    BY <1>2, <1>8, <2>1, <2>2, <2>3 DEF Read, x, r
<1>9. CASE ~ Reads(x.cls) /\ x.cls # "DoxyFunction"
  <2>1. r = h1
    BY <1>4, <1>9 DEF Reads
  <2>2. Bare(h, h1) /\ SameObject(x, h1.objects[o]) /\ ~ Raises(corpus, x) /\ Ok(h1)
    BY <1>1, <1>2, <1>9 DEF Bare, Ids, Only, Raises, Ok, x
  <2>3. ContentFits(corpus, h1, o)
    BY <1>1, <1>9, <2>2 DEF ContentFits, SameObject, Reads, Raises
  <2> QED
    BY <1>1, <1>2, <1>9, <2>1, <2>2, <2>3 DEF Read, x, r
<1>10. CASE Reads(x.cls) /\ state = "raises"
  <2>1. h2 = Raise(h1, "Unreadable")
    BY <1>5, <1>10
  <2>2. ~ Ok(h2)
    BY <1>1, <2>1, AnswerIs DEF Ok, None
  <2>3. r = h2
    BY <1>4, <1>10, <2>2 DEF Reads
  <2>4. Raises(corpus, x)
    BY <1>10 DEF Raises, state
  <2> QED
    BY <1>1, <1>2, <1>10, <2>1, <2>3, <2>4, RaisedRead DEF r, x
<1>11. CASE Reads(x.cls) /\ state = "broken"
  <2>1. h2 = h3 /\ Ok(h2)
    BY <1>3, <1>5, <1>11 DEF Ok
  <2>2. h2.objects[o].error
    BY <1>3, <1>11, <2>1
  <2>3. CASE x.cls = "DoxyFile"
    <3>1. r = Raise(h3, "AttributeError")
      BY <1>4, <2>1, <2>2, <2>3 DEF ParseFile, Object
    <3>2. Raises(corpus, x)
      BY <1>11, <2>3 DEF Raises, state
    <3> QED
      BY <1>3, <1>11, <3>1, <3>2, RaisedRead DEF r, x
  <2>4. CASE x.cls # "DoxyFile"
    <3>1. r = h3
      BY <1>4, <1>11, <2>1, <2>2, <2>4 DEF ParseClass, ParseGroup, Object, Reads
    <3>2. Bare(h, h3) /\ ~ Raises(corpus, x) /\ Ok(h3)
      BY <1>3, <1>11, <2>1, <2>4 DEF Bare, Ids, Raises, state
    <3>3. ContentFits(corpus, h3, o)
      BY <1>3, <1>11 DEF ContentFits, SameObject, Reads, state
    <3> QED
      BY <1>3, <1>11, <2>4, <3>1, <3>2, <3>3 DEF Read, r, x
  <2> QED
    BY <2>3, <2>4
<1>12. CASE Reads(x.cls) /\ state = "ok"
  <2>1. h2 = h1 /\ Ok(h2) /\ x.refid \in DOMAIN corpus.files
    BY <1>1, <1>5, <1>7, <1>12 DEF Ok
  <2> DEFINE file == corpus.files[x.refid]
             defs == Definitions(file)
             firsts == FirstOfName(file.memberdefs)
             ms == GroupMembers(file)
  <2>2. file \in Files
    BY <1>6, <2>1
  <2>3. /\ Len(defs) = Len(firsts) /\ Len(defs) \in Nat
        /\ \A i \in 1 .. Len(defs) : /\ MemberFits(corpus, defs[i])
                                     /\ defs[i].refid = None /\ defs[i].data = firsts[i]
    BY <2>2, DefinitionsFit
  <2>4. Len(ms) \in Nat /\ \A i \in 1 .. Len(ms) : MemberFits(corpus, ms[i])
    BY <2>1, GroupMembersFit
  <2>5. x.cls = "DoxyGroup" => r = AddMembers(h1, o, ms)
    BY <1>1, <1>4, <2>1 DEF ParseGroup, Object
  <2>6. x.cls # "DoxyGroup" => r = AddMembers(more, o, defs)
    BY <1>1, <1>4, <1>12, <2>1 DEF ParseClass, ParseFile, Object, Reads, more
  <2> HIDE DEF defs, firsts, ms, file
  <2>7. CASE x.cls = "DoxyGroup"
    <3>1. Good(corpus, h1) /\ Only(h, h1, o) /\ Building(h1, o) /\ Ok(h1)
      BY <1>2, <1>12, <2>1
    <3>3. Read(corpus, h, AddMembers(h1, o, ms), o)
      BY <1>1, <1>12, <2>4, <2>7, <3>1, MembersRead DEF x, state
    <3> QED
      BY <2>5, <2>7, <3>3 DEF r
  <2>8. CASE x.cls # "DoxyGroup"
    <3>1. /\ Good(corpus, more) /\ Only(h, more, o) /\ Building(more, o)
          /\ more.refs = h.refs /\ more.objects[o].members = <<>>
          /\ more.objects[o].described /\ Len(more.objects) = Len(h.objects)
      BY <1>2, <1>12
    <3>2. Ok(more)
      BY <1>2, <1>12 DEF Ok
    <3>3. defs = Definitions(corpus.files[h.objects[o].refid])
      BY DEF x, file, defs
    <3>4. \A i \in 1 .. Len(defs) : MemberFits(corpus, defs[i]) /\ defs[i].refid = None
      BY <2>3
    <3>5. Len(defs) \in Nat
      BY <2>3
    <3>6. Read(corpus, h, AddMembers(more, o, defs), o)
      BY <1>12, <3>1, <3>2, <3>3, <3>4, <3>5, MembersRead DEF x, state
    <3> QED
      BY <2>6, <2>8, <3>6 DEF r
  <2> QED
    BY <2>7, <2>8
<1> QED
  BY <1>7, <1>8, <1>9, <1>10, <1>11, <1>12

-----------------------------------------------------------------------------
(* Loops.                                                                  *)

\* The first m + 1 values of a loop, and one more.
Extended(f, m, v) == [k \in 0 .. m + 1 |-> IF k = m + 1 THEN v ELSE f[k]]

(* The arithmetic of a loop that makes one more turn.                      *)
LEMMA OneTurnMore ==
  ASSUME NEW f, NEW m \in Nat, NEW v
  PROVE  LET g == Extended(f, m, v) IN
         /\ g[0] = f[0] /\ g[m + 1] = v /\ g[m] = f[m]
         /\ \A k \in 1 .. m : g[k] = f[k] /\ g[k - 1] = f[k - 1]
         /\ m + 1 \in Nat
         /\ \A k \in 1 .. m + 1 : (k = m + 1 /\ k - 1 = m) \/ k \in 1 .. m
<1> DEFINE g == Extended(f, m, v)
<1>1. \A k \in 1 .. m : k \in 0 .. m + 1 /\ k - 1 \in 0 .. m + 1 /\ k # m + 1 /\ k - 1 # m + 1
  OBVIOUS
<1>2. 0 # m + 1 /\ m # m + 1 /\ {0, m, m + 1} \subseteq 0 .. m + 1
  OBVIOUS
<1> QED
  BY <1>1, <1>2 DEF Extended

(* _parse of the index goes through index.xml entry by entry and stops at  *)
(* the first exception.                                                    *)
LEMMA IndexTurns ==
  ASSUME NEW h, Len(corpus.index) \in Nat
  PROVE  \E f : /\ f[0] = Marked(h, Index)
                /\ \A k \in 1 .. Len(corpus.index) :
                      f[k] = IF Ok(f[k - 1]) THEN AddCompound(f[k - 1], corpus.index[k])
                             ELSE f[k - 1]
                /\ ParseIndex(h) = f[Len(corpus.index)]
<1> DEFINE Pass(g, k) == Then(g, LAMBDA x : AddCompound(x, corpus.index[k]))
           h0 == Marked(h, Index)
           n == Len(corpus.index)
           Are(f) == f = [k \in 0 .. n |-> IF k = 0 THEN h0 ELSE Pass(f[k - 1], k)]
           Steps(f, m) == /\ f = [k \in 0 .. m |-> f[k]] /\ f[0] = h0
                          /\ \A k \in 1 .. m : f[k] = Pass(f[k - 1], k)
           S == {m \in Nat : \E f : Steps(f, m)}
<1>1. ParseIndex(h) = (CHOOSE f : Are(f))[n]
  BY DEF ParseIndex, ForEach
<1>2. \A g, k : Pass(g, k) = IF Ok(g) THEN AddCompound(g, corpus.index[k]) ELSE g
  BY SMT DEF Then
<1> HIDE DEF Pass, n, h0
<1>3. n \in Nat
  BY DEF n
<1>4. 0 \in S
  <2>1. Steps([k \in 0 .. 0 |-> h0], 0)
    OBVIOUS
  <2> QED
    BY <2>1
<1>5. ASSUME NEW m \in 0 .. n - 1, m \in S PROVE m + 1 \in S
  <2>1. PICK f : Steps(f, m)
    BY <1>5
  <2>2. m \in Nat /\ m + 1 \in Nat
    BY <1>3
  <2> DEFINE v == Pass(f[m], m + 1)
             g == Extended(f, m, v)
  <2> HIDE DEF v, Steps, S, Are
  <2>3. g = [k \in 0 .. m + 1 |-> g[k]]
    BY DEF Extended
  <2>4. /\ g[0] = f[0] /\ g[m + 1] = v /\ g[m] = f[m]
        /\ \A k \in 1 .. m : g[k] = f[k] /\ g[k - 1] = f[k - 1]
        /\ \A k \in 1 .. m + 1 : (k = m + 1 /\ k - 1 = m) \/ k \in 1 .. m
    BY <2>2, OneTurnMore
  <2> HIDE DEF g
  <2>5. f[0] = h0 /\ \A k \in 1 .. m : f[k] = Pass(f[k - 1], k)
    BY <2>1 DEF Steps
  <2>6. \A k \in 1 .. m + 1 : g[k] = Pass(g[k - 1], k)
    BY <2>4, <2>5 DEF v
  <2>7. Steps(g, m + 1)
    BY <2>4, <2>5, <2>6, <2>3 DEF Steps
  <2> QED
    BY <2>2, <2>7 DEF S
<1>6. n \in S
  <2>1. n \in 0 .. n
    BY <1>3
  <2> HIDE DEF S
  <2> QED
    BY <1>3, <1>4, <1>5, <2>1, Induction
<1>7. PICK f : Steps(f, n)
  BY <1>6
<1>8. Are(f)
  <2>1. f[0] = h0 /\ (\A k \in 1 .. n : f[k] = Pass(f[k - 1], k))
    BY <1>7
  <2>2. \A k \in 0 .. n : f[k] = IF k = 0 THEN h0 ELSE Pass(f[k - 1], k)
    BY <1>3, <2>1
  <2>3. f = [k \in 0 .. n |-> f[k]]
    BY <1>7
  <2> QED
    BY <2>2, <2>3
<1> DEFINE r == CHOOSE e : Are(e)
<1>9. Are(r) /\ ParseIndex(h) = r[n]
  BY <1>1, <1>8
<1> HIDE DEF r
<1>10. r[0] = h0 /\ \A k \in 1 .. n : r[k] = Pass(r[k - 1], k)
  BY <1>3, <1>9
<1> QED
  BY <1>2, <1>9, <1>10 DEF n, h0

-----------------------------------------------------------------------------
(* What the entries of index.xml name.                                     *)

\* What the members of the index are made from: a compound, and the first
\* definitions of a header.
Node == [cls : Classes \cup {None}, data : ParseData, refid : Refids \cup {None}]
MemberNodes(d, entry) ==
  IF entry.kind # "file" THEN <<Parsed(entry)>>
  ELSE IF entry.name \in HeaderNames
  THEN Definitions(d.files[entry.refid]) \o <<Parsed(entry)>>
  ELSE <<>>

\* The nodes of the members that the first k entries give.
NodesUpTo(d, k) ==
  LET nodes[j \in 0 .. k] ==
        IF j = 0 THEN <<>> ELSE nodes[j - 1] \o MemberNodes(d, d.index[j])
  IN  nodes[k]

(* The nodes of the members are those of one entry after another.          *)
LEMMA NodesTurns ==
  ASSUME NEW d, NEW n \in Nat
  PROVE  \E f : /\ f[0] = <<>>
                /\ \A k \in 1 .. n : f[k] = f[k - 1] \o MemberNodes(d, d.index[k])
                /\ NodesUpTo(d, n) = f[n]
<1> DEFINE Pass(g, k) == g \o MemberNodes(d, d.index[k])
           Are(f) == f = [k \in 0 .. n |-> IF k = 0 THEN <<>> ELSE Pass(f[k - 1], k)]
           Steps(f, m) == /\ f = [k \in 0 .. m |-> f[k]] /\ f[0] = <<>>
                          /\ \A k \in 1 .. m : f[k] = Pass(f[k - 1], k)
           S == {m \in Nat : \E f : Steps(f, m)}
<1>1. NodesUpTo(d, n) = (CHOOSE f : Are(f))[n]
  BY DEF NodesUpTo
<1>2. \A g, k : Pass(g, k) = g \o MemberNodes(d, d.index[k])
  OBVIOUS
<1> HIDE DEF Pass
<1>3. 0 \in S
  <2>1. Steps([k \in 0 .. 0 |-> <<>>], 0)
    OBVIOUS
  <2> QED
    BY <2>1
<1>4. ASSUME NEW m \in 0 .. n - 1, m \in S PROVE m + 1 \in S
  <2>1. PICK f : Steps(f, m)
    BY <1>4
  <2>2. m \in Nat /\ m + 1 \in Nat
    OBVIOUS
  <2> DEFINE v == Pass(f[m], m + 1)
             g == Extended(f, m, v)
  <2>3. g = [k \in 0 .. m + 1 |-> g[k]]
    BY DEF Extended
  <2> HIDE DEF v, Steps, S, Are
  <2>4. /\ g[0] = f[0] /\ g[m + 1] = v /\ g[m] = f[m]
        /\ \A k \in 1 .. m : g[k] = f[k] /\ g[k - 1] = f[k - 1]
        /\ \A k \in 1 .. m + 1 : (k = m + 1 /\ k - 1 = m) \/ k \in 1 .. m
    BY <2>2, OneTurnMore
  <2> HIDE DEF g
  <2>5. f[0] = <<>> /\ \A k \in 1 .. m : f[k] = Pass(f[k - 1], k)
    BY <2>1 DEF Steps
  <2>6. \A k \in 1 .. m + 1 : g[k] = Pass(g[k - 1], k)
    BY <2>4, <2>5 DEF v
  <2>7. Steps(g, m + 1)
    BY <2>3, <2>4, <2>5, <2>6 DEF Steps
  <2> QED
    BY <2>2, <2>7 DEF S
<1>5. n \in S
  <2>1. n \in 0 .. n
    OBVIOUS
  <2> HIDE DEF S
  <2> QED
    BY <1>3, <1>4, <2>1, Induction
<1>6. PICK f : Steps(f, n)
  BY <1>5
<1>7. Are(f)
  <2>1. f[0] = <<>> /\ (\A k \in 1 .. n : f[k] = Pass(f[k - 1], k))
    BY <1>6
  <2>2. \A k \in 0 .. n : f[k] = IF k = 0 THEN <<>> ELSE Pass(f[k - 1], k)
    BY <2>1
  <2>3. f = [k \in 0 .. n |-> f[k]]
    BY <1>6
  <2> QED
    BY <2>2, <2>3
<1> DEFINE r == CHOOSE e : Are(e)
<1>8. Are(r) /\ NodesUpTo(d, n) = r[n]
  BY <1>1, <1>7
<1> HIDE DEF r
<1>9. r[0] = <<>> /\ \A k \in 1 .. n : r[k] = Pass(r[k - 1], k)
  BY <1>8
<1> QED
  BY <1>2, <1>8, <1>9

(* The nodes up to an entry are those up to the one before, and its own.   *)
LEMMA NodesStep ==
  ASSUME NEW d, NEW n \in Nat
  PROVE  /\ NodesUpTo(d, 0) = <<>>
         /\ NodesUpTo(d, n + 1) = NodesUpTo(d, n) \o MemberNodes(d, d.index[n + 1])
<1> DEFINE M(k) == MemberNodes(d, d.index[k])
           UpTo(f, m) == f[0] = <<>> /\ \A k \in 1 .. m : f[k] = f[k - 1] \o M(k)
<1> HIDE DEF M
<1>1. PICK e : UpTo(e, 0) /\ NodesUpTo(d, 0) = e[0]
  BY NodesTurns DEF M
<1>2. PICK f : UpTo(f, n) /\ NodesUpTo(d, n) = f[n]
  BY NodesTurns DEF M
<1>3. PICK g : UpTo(g, n + 1) /\ NodesUpTo(d, n + 1) = g[n + 1]
  <2>1. n + 1 \in Nat
    OBVIOUS
  <2> QED
    BY <2>1, NodesTurns DEF M
<1> DEFINE S == {k \in 0 .. n : f[k] = g[k]}
<1>4. 0 \in S
  BY <1>2, <1>3
<1>5. ASSUME NEW k \in 0 .. n - 1, k \in S PROVE k + 1 \in S
  <2>1. k + 1 \in 1 .. n /\ k + 1 \in 1 .. n + 1 /\ (k + 1) - 1 = k /\ k + 1 \in 0 .. n
    OBVIOUS
  <2> QED
    BY <1>2, <1>3, <1>5, <2>1
<1>6. n \in S
  <2>1. n \in 0 .. n
    OBVIOUS
  <2> HIDE DEF S
  <2> QED
    BY <1>4, <1>5, <2>1, Induction
<1>7. g[n + 1] = g[n] \o M(n + 1)
  <2>1. n + 1 \in 1 .. n + 1 /\ (n + 1) - 1 = n
    OBVIOUS
  <2> QED
    BY <1>3, <2>1
<1> QED
  BY <1>1, <1>2, <1>3, <1>6, <1>7 DEF M

(* What an entry gives is a sequence of nodes.                             *)
LEMMA MemberNodesAre ==
  ASSUME NEW d, GoodDirectory(d), NEW k \in DOMAIN d.index
  PROVE  LET e == d.index[k]
             own == Definitions(d.files[e.refid])
         IN
         /\ e.kind # "file" => MemberNodes(d, e) = <<Parsed(e)>>
         /\ e.kind = "file" /\ e.name \notin HeaderNames => MemberNodes(d, e) = <<>>
         /\ e.kind = "file" /\ e.name \in HeaderNames =>
              MemberNodes(d, e) = own \o <<Parsed(e)>>
         /\ FileState(d, e.refid) = "ok" => own \in Seq(Node)
         /\ Parsed(e) \in Node
         /\ ~ Fatal(d, e) => MemberNodes(d, e) \in Seq(Node)
<1> DEFINE e == d.index[k]
           file == d.files[e.refid]
           own == Definitions(file)
           one == <<Parsed(e)>>
<1>1. e \in Compounds
  BY DirectoryHas
<1>2. Parsed(e) \in Node
  <2>1. e \in ParseData /\ e.refid \in Refids
    BY <1>1 DEF ParseData, Compounds
  <2>2. (IF e.kind \in DOMAIN ClassOfKind THEN ClassOfKind[e.kind] ELSE None)
           \in Classes \cup {None}
    BY DEF Classes
  <2> HIDE DEF e
  <2> QED
    BY <2>1, <2>2 DEF Parsed, Node
<1>3. one \in Seq(Node) /\ <<>> \in Seq(Node)
  BY <1>2, EmptySeq
<1>4. ASSUME FileState(d, e.refid) = "ok" PROVE own \in Seq(Node)
  <2>1. file \in Files
    BY <1>4, DirectoryHas DEF FileState
  <2> DEFINE firsts == FirstOfName(file.memberdefs)
             n == Len(firsts)
  <2>2. firsts \in Seq(Memberdefs) /\ own = [i \in 1 .. n |-> Parsed(firsts[i])]
    BY <2>1, DefinitionsFit DEF Definitions
  <2> HIDE DEF firsts
  <2>3. n \in Nat /\ \A i \in 1 .. n : firsts[i] \in Memberdefs
    BY <2>2, LenProperties, ElementOfSeq
  <2>4. ASSUME NEW m \in Memberdefs PROVE Parsed(m) \in Node
    <3>1. m \in ParseData /\ m.refid \in Refids \cup {None}
      BY DEF ParseData, Memberdefs
    <3>2. (IF m.kind \in DOMAIN ClassOfKind THEN ClassOfKind[m.kind] ELSE None)
             \in Classes \cup {None}
      BY DEF Classes
    <3> QED
      BY <3>1, <3>2 DEF Parsed, Node
  <2>5. \A i \in 1 .. n : Parsed(firsts[i]) \in Node
    BY <2>3, <2>4
  <2>6. own = [i \in 1 .. n |-> own[i]] /\ \A i \in 1 .. n : own[i] \in Node
    BY <2>2, <2>5
  <2> HIDE DEF own, n
  <2> QED
    BY <2>3, <2>6, SeqOfValues
<1>5. ASSUME e.kind # "file" PROVE MemberNodes(d, e) = one
  BY <1>5 DEF MemberNodes
<1>6. ASSUME e.kind = "file", e.name \notin HeaderNames PROVE MemberNodes(d, e) = <<>>
  BY <1>6 DEF MemberNodes
<1>7. ASSUME e.kind = "file", e.name \in HeaderNames PROVE MemberNodes(d, e) = own \o one
  BY <1>7 DEF MemberNodes
<1>8. ASSUME ~ Fatal(d, e) PROVE MemberNodes(d, e) \in Seq(Node)
  <2>1. CASE e.kind # "file"
    BY <1>3, <1>5, <2>1
  <2>2. CASE e.kind = "file" /\ e.name \notin HeaderNames
    BY <1>3, <1>6, <2>2
  <2>3. CASE e.kind = "file" /\ e.name \in HeaderNames
    <3>1. FileState(d, e.refid) = "ok"
      BY <1>8, <2>3 DEF Fatal
    <3> HIDE DEF own, one
    <3> QED
      BY <1>3, <1>4, <1>7, <2>3, <3>1, ConcatProperties
  <2> QED
    BY <2>1, <2>2, <2>3
<1> QED
  BY <1>2, <1>4, <1>5, <1>6, <1>7, <1>8

(* Two runs of members with their nodes, one after the other.              *)
LEMMA MadeConcat ==
  ASSUME NEW g, NEW ms \in Seq(Nat), NEW more \in Seq(Nat),
         NEW nodes \in Seq(Node), NEW further \in Seq(Node),
         MadeOf(g, ms, nodes), MadeOf(g, more, further)
  PROVE  MadeOf(g, ms \o more, nodes \o further)
<1> DEFINE a == ms \o more
           b == nodes \o further
<1>1. /\ Len(a) = Len(ms) + Len(more)
      /\ \A i \in 1 .. Len(ms) + Len(more) :
            a[i] = IF i <= Len(ms) THEN ms[i] ELSE more[i - Len(ms)]
  BY ConcatProperties
<1>2. /\ Len(b) = Len(nodes) + Len(further)
      /\ \A i \in 1 .. Len(nodes) + Len(further) :
            b[i] = IF i <= Len(nodes) THEN nodes[i] ELSE further[i - Len(nodes)]
  BY ConcatProperties
<1>3. /\ Len(ms) \in Nat /\ Len(more) \in Nat
      /\ Len(ms) = Len(nodes) /\ Len(more) = Len(further)
  BY LenProperties DEF MadeOf
<1> HIDE DEF a, b
<1>4. ASSUME NEW i \in 1 .. Len(b) PROVE StandsFor(g, a[i], b[i])
  <2>1. CASE i <= Len(ms)
    <3>1. i \in 1 .. Len(nodes) /\ a[i] = ms[i] /\ b[i] = nodes[i]
      BY <1>1, <1>2, <1>3, <2>1
    <3> QED
      BY <3>1 DEF MadeOf
  <2>2. CASE ~ (i <= Len(ms))
    <3>1. /\ i - Len(ms) \in 1 .. Len(further) /\ a[i] = more[i - Len(ms)]
          /\ b[i] = further[i - Len(ms)]
      BY <1>1, <1>2, <1>3, <2>2
    <3> QED
      BY <3>1 DEF MadeOf
  <2> QED
    BY <2>1, <2>2
<1> QED
  BY <1>1, <1>2, <1>3, <1>4 DEF MadeOf, a, b

(* The members of an object go on standing for their nodes while the heap  *)
(* grows.                                                                  *)
LEMMA MadeOn ==
  ASSUME NEW h, NEW g, Heap(h), Heap(g), Grows(h, g, Ids(h)), NEW ms, NEW nodes,
         MadeOf(h, ms, nodes)
  PROVE  MadeOf(g, ms, nodes)
<1>1. Len(h.objects) \in Nat /\ Len(g.objects) \in Nat
  BY LenProperties DEF Heap
<1> QED
  BY <1>1, StandsForOn DEF MadeOf

(* An object that was read keeps what its file gave it.                    *)
LEMMA ContentOn ==
  ASSUME NEW d, NEW h, NEW g, Heap(h), Heap(g), Grows(h, g, Ids(h)), NEW o \in Ids(h),
         h.objects[o].parsed, ContentFits(d, h, o),
         g.objects[o].members = h.objects[o].members,
         g.objects[o].described = h.objects[o].described
  PROVE  ContentFits(d, g, o)
<1> DEFINE x == h.objects[o]
           y == g.objects[o]
           nodes == Definitions(d.files[x.refid])
<1>1. y.cls = x.cls /\ y.refid = x.refid
  BY DEF Grows, SameObject
<1>2. MadeOf(h, x.members, nodes) => MadeOf(g, x.members, nodes)
  <2> HIDE DEF nodes
  <2> QED
    BY MadeOn
<1> QED
  BY <1>1, <1>2 DEF ContentFits, Raises

\* All objects but those in X that were read have what their files give them.
Filled(d, h, X) == \A o \in Ids(h) \ X : ContentFits(d, h, o)

\* The objects that were added have what their files give them, and those that
\* have been read are headers.
Fills(d, h, g) ==
  \A p \in Ids(g) \ Ids(h) :
    ContentFits(d, g, p) /\ (g.objects[p].parsed => g.objects[p].cls = "DoxyFile")

(* Objects that were filled stay so, and filled ones are added.            *)
LEMMA FilledOn ==
  ASSUME NEW d, NEW h, NEW g, NEW o \in Ids(h), Heap(h), Heap(g), Only(h, g, o), Fills(d, h, g),
         Filled(d, h, {o})
  PROVE  Filled(d, g, {o})
<1>1. Grows(h, g, Ids(h))
  BY OnlyGrows, GrowsLess
<1>2. ASSUME NEW p \in Ids(g) \ {o} PROVE ContentFits(d, g, p)
  <2>1. CASE p \notin Ids(h)
    BY <2>1 DEF Fills
  <2>2. CASE p \in Ids(h) /\ ~ g.objects[p].parsed
    BY <2>2 DEF ContentFits
  <2>3. CASE p \in Ids(h) /\ g.objects[p].parsed
    <3>1. g.objects[p] = h.objects[p] /\ ContentFits(d, h, p)
      BY <1>2, <2>3 DEF Only, Filled
    <3> QED
      BY <1>1, <2>3, <3>1, ContentOn
  <2> QED
    BY <2>1, <2>2, <2>3
<1> QED
  BY <1>2 DEF Filled

(* Two steps that add filled objects are one that does.                    *)
LEMMA FillsTrans ==
  ASSUME NEW d, NEW h, NEW g, NEW k, NEW o \in Ids(h), Heap(h), Heap(g), Heap(k),
         Only(h, g, o), Only(g, k, o), Fills(d, h, g), Fills(d, g, k)
  PROVE  Fills(d, h, k)
<1>0. Len(h.objects) \in Nat /\ Len(g.objects) \in Nat /\ o \in Ids(g)
  BY LenProperties DEF Heap, Only, Ids
<1>1. Grows(g, k, Ids(g))
  BY <1>0, OnlyGrows, GrowsLess
<1>2. ASSUME NEW p \in Ids(k) \ Ids(h)
      PROVE  ContentFits(d, k, p) /\ (k.objects[p].parsed => k.objects[p].cls = "DoxyFile")
  <2>1. CASE p \notin Ids(g)
    BY <2>1 DEF Fills
  <2>2. CASE p \in Ids(g)
    <3>1. p # o /\ k.objects[p] = g.objects[p] /\ ContentFits(d, g, p)
          /\ (g.objects[p].parsed => g.objects[p].cls = "DoxyFile")
      BY <1>2, <2>2 DEF Only, Fills
    <3>2. CASE g.objects[p].parsed
      BY <1>1, <2>2, <3>1, <3>2, ContentOn
    <3>3. CASE ~ g.objects[p].parsed
      BY <3>1, <3>3 DEF ContentFits
    <3> QED
      BY <3>1, <3>2, <3>3
  <2> QED
    BY <2>1, <2>2
<1> QED
  BY <1>2 DEF Fills

\* The members of an object are followed by others.
Followed(g, o, more) == [g EXCEPT !.objects[o].members = @ \o more]

(* The members of the index are followed by others.                        *)
LEMMA ConcatFits ==
  ASSUME NEW d, NEW g, Good(d, g), NEW o, Building(g, o), NEW more \in Seq(Nat),
         \A i \in DOMAIN more : more[i] \in 0 .. Len(g.objects),
         NEW nodes \in Seq(Node), NEW further \in Seq(Node),
         MadeOf(g, g.objects[o].members, nodes), MadeOf(g, more, further)
  PROVE  LET b == Followed(g, o, more) IN
         /\ Good(d, b) /\ Building(b, o) /\ Only(g, b, o)
         /\ Len(b.objects) = Len(g.objects)
         /\ b.refs = g.refs /\ b.raised = g.raised /\ b.result = g.result
         /\ MadeOf(b, b.objects[o].members, nodes \o further)
<1> DEFINE s == g.objects[o].members
           m == s \o more
           b == [g EXCEPT !.objects[o].members = m]
<1>1. /\ Len(g.objects) \in Nat /\ o \in Ids(g) /\ g.objects[o] \in Obj /\ Heap(g)
      /\ \A i \in DOMAIN s : s[i] \in 0 .. Len(g.objects)
  BY ObjectFields DEF Good, Building, ObjectFits
<1>2. s \in Seq(Nat)
  BY <1>1 DEF Obj
<1>3. MadeOf(g, m, nodes \o further)
  BY <1>2, MadeConcat
<1> HIDE DEF s
<1>4. /\ m \in Seq(Nat) /\ Len(m) = Len(s) + Len(more)
      /\ \A i \in 1 .. Len(m) : m[i] = IF i <= Len(s) THEN s[i] ELSE more[i - Len(s)]
  BY <1>2, ConcatProperties
<1> HIDE DEF m
<1>5. ASSUME NEW i \in DOMAIN m PROVE m[i] \in 0 .. Len(g.objects)
  <2>1. /\ i \in 1 .. Len(m) /\ Len(s) \in Nat /\ Len(more) \in Nat
        /\ DOMAIN s = 1 .. Len(s) /\ DOMAIN more = 1 .. Len(more)
    BY <1>2, <1>4, LenProperties
  <2>2. CASE i <= Len(s)
    BY <1>1, <1>4, <2>1, <2>2
  <2>3. CASE ~ (i <= Len(s))
    <3>1. i - Len(s) \in DOMAIN more /\ m[i] = more[i - Len(s)]
      BY <1>4, <2>1, <2>3
    <3> QED
      BY <3>1
  <2> QED
    BY <2>2, <2>3
<1>6. Good(d, b) /\ Gives(g, b, o, m) /\ Building(b, o) /\ Grows(g, b, {o})
  BY <1>4, <1>5, MembersFit
<1>7. Followed(g, o, more) = b
  BY DEF m, s, Followed
<1> HIDE DEF b
<1>8. /\ Len(b.objects) = Len(g.objects) /\ b.refs = g.refs /\ b.raised = g.raised
      /\ b.result = g.result /\ b.objects[o].members = m
  <2>1. b.objects[o] = [g.objects[o] EXCEPT !.members = m]
    BY <1>6 DEF Gives
  <2> QED
    BY <1>1, <1>6, <2>1, MembersSet DEF Gives
<1>9. Only(g, b, o)
  BY <1>1, <1>6, GivesOnly
<1>10. Grows(g, b, Ids(g))
  BY <1>1, <1>6, GrowsLess
<1>11. MadeOf(b, m, nodes \o further)
  <2> DEFINE ns == nodes \o further
  <2> HIDE DEF ns
  <2>1. MadeOf(g, m, ns)
    BY <1>3 DEF ns
  <2>2. MadeOf(b, m, ns)
    BY <1>1, <1>6, <1>10, <2>1, MadeOn DEF Good
  <2> QED
    BY <2>2 DEF ns
<1> QED
  BY <1>6, <1>7, <1>8, <1>9, <1>11

(* An object is one more member.                                           *)
LEMMA KeepFits ==
  ASSUME NEW d, NEW g, Good(d, g), NEW o, Building(g, o), NEW m \in Ids(g),
         NEW nodes \in Seq(Node), NEW node \in Node, StandsFor(g, m, node),
         MadeOf(g, g.objects[o].members, nodes)
  PROVE  LET b == AppendMember(Answer(g, m), o) IN
         /\ Good(d, b) /\ Building(b, o) /\ Only(g, b, o)
         /\ Len(b.objects) = Len(g.objects)
         /\ b.refs = g.refs /\ b.raised = g.raised
         /\ MadeOf(b, b.objects[o].members, nodes \o <<node>>)
<1> DEFINE a == Answer(g, m)
           s == g.objects[o].members
<1>1. Heap(g) /\ m \in Nat /\ Len(g.objects) \in Nat /\ o \in Ids(g) /\ g.objects[o] \in Obj
  BY ObjectFields DEF Good, Ids, Building
<1>2. Good(d, a) /\ a.objects = g.objects /\ a.refs = g.refs
  BY <1>1, SameHeap
<1>3. a.result = m /\ a.raised = g.raised
  BY <1>1, AnswerIs
<1> HIDE DEF a
<1>4. Building(a, o) /\ MadeOf(a, a.objects[o].members, nodes)
  BY <1>2 DEF Building, Ids, MadeOf, StandsFor
<1>5. <<m>> \in Seq(Nat) /\ \A i \in DOMAIN <<m>> : <<m>>[i] \in 0 .. Len(a.objects)
  BY <1>1, <1>2 DEF Ids
<1>6. <<node>> \in Seq(Node) /\ MadeOf(a, <<m>>, <<node>>)
  BY <1>2 DEF MadeOf, StandsFor, Ids
<1>7. s \in Seq(Nat)
  BY <1>1 DEF Obj
<1> DEFINE one == <<m>>
           its == <<node>>
           b == Followed(a, o, one)
<1>8. Append(s, m) = s \o one
  BY <1>1, <1>7, AppendIsConcat
<1>9. AppendMember(a, o) = b
  BY <1>2, <1>3, <1>8 DEF AppendMember, Followed
<1>10. /\ one \in Seq(Nat) /\ \A i \in DOMAIN one : one[i] \in 0 .. Len(a.objects)
       /\ its \in Seq(Node) /\ MadeOf(a, one, its)
  BY <1>5, <1>6
<1> HIDE DEF one, its
<1>11. /\ Good(d, b) /\ Building(b, o) /\ Only(a, b, o)
       /\ Len(b.objects) = Len(a.objects)
       /\ b.refs = a.refs /\ b.raised = a.raised
       /\ MadeOf(b, b.objects[o].members, nodes \o its)
  BY <1>2, <1>4, <1>10, ConcatFits
<1> HIDE DEF b
<1>12. Only(g, b, o)
  BY <1>2, <1>11 DEF Only, Ids
<1> QED
  BY <1>2, <1>3, <1>9, <1>11, <1>12 DEF a, its

-----------------------------------------------------------------------------
(* The turns of the loop over index.xml.                                   *)

\* The members of the index are those of the first j entries, none of which is
\* fatal.
Listed(d, g, j) ==
  /\ MadeOf(g, g.objects[Index].members, NodesUpTo(d, j))
  /\ NodesUpTo(d, j) \in Seq(Node)
  /\ \A i \in 1 .. j : ~ Fatal(d, d.index[i])

\* What an entry adds to an index that lists those before it.
Compounded(d, g, b, k) ==
  /\ Good(d, b) /\ Building(b, Index) /\ Only(g, b, Index) /\ Fills(d, g, b)
  /\ DOMAIN b.refs \subseteq DOMAIN g.refs \cup {d.index[k].refid}
  /\ IF Fatal(d, d.index[k])
     THEN ~ Ok(b) /\ b.objects[Index].members = g.objects[Index].members
     ELSE /\ Ok(b)
          /\ MadeOf(b, b.objects[Index].members, NodesUpTo(d, k - 1) \o MemberNodes(d, d.index[k]))

(* What _parse does with a compound.                                       *)
LEMMA CompoundAdded ==
  ASSUME NEW g, NEW e
  PROVE  LET h1 == ConvertMem(g, Parsed(e))
             file == h1.result
             h2 == IF Object(h1, file).parsed THEN h1 ELSE ReadFile(h1, file)
             h3 == IF Ok(h2) /\ Object(h2, file).error THEN Raise(h2, "ParsingError") ELSE h2
             Keep(x) == AppendMember(Answer(x, file), Index)
         IN  AddCompound(g, e) =
                IF e.kind \notin DOMAIN ClassOfKind THEN Raise(g, "StandardError")
                ELSE IF ClassOfKind[e.kind] # "DoxyFile" THEN Keep(h1)
                ELSE IF e.name \notin HeaderNames THEN h1
                ELSE IF Ok(h3) THEN Keep(Followed(h3, Index, Object(h3, file).members)) ELSE h3
<1> DEFINE h1 == ConvertMem(g, Parsed(e))
           file == h1.result
           h2 == IF Object(h1, file).parsed THEN h1 ELSE ReadFile(h1, file)
           h3 == IF Ok(h2) /\ Object(h2, file).error THEN Raise(h2, "ParsingError") ELSE h2
           Keep(x) == AppendMember(Answer(x, file), Index)
           kept == Then(h3, LAMBDA x :
                Keep([x EXCEPT !.objects[Index].members = @ \o Object(x, file).members]))
           r == AddCompound(g, e)
<1>1. r = IF e.kind \notin DOMAIN ClassOfKind THEN Raise(g, "StandardError")
          ELSE IF ClassOfKind[e.kind] # "DoxyFile" THEN Keep(h1)
          ELSE IF e.name \notin HeaderNames THEN h1
          ELSE kept
  BY DEF AddCompound
<1> HIDE DEF h1, h2, h3, r
<1>2. kept = IF Ok(h3) THEN Keep(Followed(h3, Index, Object(h3, file).members)) ELSE h3
  BY SMT DEF Then, Followed
<1> HIDE DEF kept
<1> QED
  BY <1>1, <1>2 DEF h1, h2, h3, r

(* The objects that a new object brings with it are filled when it is read. *)
LEMMA BareFills ==
  ASSUME NEW d, NEW h, NEW g, Bare(h, g)
  PROVE  Fills(d, h, g)
BY DEF Bare, Fills, ContentFits

(* The file of a header is read when its entry is converted.               *)
LEMMA HeaderFits ==
  ASSUME GoodDirectory(corpus), NEW g, Good(corpus, g), Building(g, Index), Ok(g),
         NEW h1, Good(corpus, h1), Makes(g, h1), NEW file \in Ids(h1), file \notin Ids(g),
         NEW node \in Node, StandsFor(h1, file, node), node.cls = "DoxyFile",
         ~ h1.objects[file].parsed,
         NEW nodes \in Seq(Node), MadeOf(g, g.objects[Index].members, nodes)
  PROVE  LET h2 == ReadFile(h1, file)
             own == Definitions(corpus.files[node.refid])
             h3 == Followed(h2, Index, Object(h2, file).members)
             b == AppendMember(Answer(h3, file), Index)
         IN
         /\ h2.refs = h1.refs
         /\ FileState(corpus, node.refid) # "ok" =>
              /\ ~ Ok(h2) /\ Good(corpus, h2) /\ Building(h2, Index) /\ Only(g, h2, Index)
              /\ Fills(corpus, g, h2)
              /\ h2.objects[Index].members = g.objects[Index].members
         /\ FileState(corpus, node.refid) = "ok" /\ own \in Seq(Node) =>
              /\ Ok(h2) /\ ~ h2.objects[file].error
              /\ Good(corpus, b) /\ Building(b, Index) /\ Only(g, b, Index) /\ Ok(b)
              /\ Fills(corpus, g, b)
              /\ b.refs = h1.refs
              /\ MadeOf(b, b.objects[Index].members, (nodes \o own) \o <<node>>)
<1> DEFINE h2 == ReadFile(h1, file)
           own == Definitions(corpus.files[node.refid])
           more == h2.objects[file].members
           h3 == Followed(h2, Index, more)
           b == AppendMember(Answer(h3, file), Index)
<1>1. /\ Heap(g) /\ Len(g.objects) \in Nat /\ Index \in Ids(g) /\ g.objects[Index] \in Obj
      /\ Heap(h1) /\ Len(h1.objects) \in Nat /\ Ids(g) \subseteq Ids(h1) /\ file # Index
      /\ h1.objects[Index] = g.objects[Index] /\ Ok(h1)
  BY ObjectFields, LenProperties DEF Good, Heap, Makes, Ids, Building, Ok
<1>2. h1.objects[file].cls = "DoxyFile" /\ h1.objects[file].refid = node.refid /\ Unread(h1, file)
  BY DEF Unread, StandsFor, None
<1>3. Read(corpus, h1, h2, file)
  BY <1>1, <1>2, ReadFileFits
<1> HIDE DEF h2
<1>4. /\ Good(corpus, h2) /\ Only(h1, h2, file) /\ h2.objects[file].parsed
      /\ ContentFits(corpus, h2, file) /\ Bare(h1, h2) /\ h2.refs = h1.refs
      /\ IF Raises(corpus, h1.objects[file]) THEN h2.raised \in {"Unreadable", "AttributeError"}
         ELSE Ok(h2)
  BY <1>2, <1>3 DEF Read
<1>5. /\ h2.objects[file].cls = "DoxyFile" /\ h2.objects[file].refid = node.refid
      /\ Heap(h2) /\ Len(h2.objects) \in Nat /\ file \in Ids(h2) /\ StandsFor(h2, file, node)
  <2>1. Heap(h2) /\ Len(h2.objects) \in Nat
    BY <1>4, LenProperties DEF Good, Heap
  <2> QED
    BY <1>1, <1>2, <1>4, <2>1 DEF Only, SameObject, Ids, StandsFor
<1>6. /\ Ids(h1) \subseteq Ids(h2)
      /\ h2.objects[Index] = g.objects[Index]
      /\ \A p \in Ids(g) : h2.objects[p] = g.objects[p]
  BY <1>1, <1>4, <1>5 DEF Only, Ids, Makes
<1>7. Building(h2, Index) /\ Only(g, h2, Index)
  BY <1>1, <1>5, <1>6 DEF Building, Only, Ids, SameObject
<1>8. MadeOf(h2, h2.objects[Index].members, nodes)
  <2>1. Grows(g, h2, Ids(g))
    BY <1>1, <1>7, OnlyGrows, GrowsLess
  <2> QED
    BY <1>1, <1>5, <1>6, <2>1, MadeOn
<1>9. Fills(corpus, g, h2)
  <2>1. ASSUME NEW p \in Ids(h2) \ Ids(g)
        PROVE  /\ ContentFits(corpus, h2, p)
               /\ h2.objects[p].parsed => h2.objects[p].cls = "DoxyFile"
    <3>1. CASE p = file
      BY <1>4, <1>5, <3>1
    <3>2. CASE p # file
      <4>1. ~ h2.objects[p].parsed
        BY <1>4, <2>1, <3>2 DEF Only, Bare, Makes
      <4> QED
        BY <4>1 DEF ContentFits
    <3> QED
      BY <3>1, <3>2
  <2> QED
    BY <2>1 DEF Fills
<1>10. ASSUME FileState(corpus, node.refid) # "ok" PROVE ~ Ok(h2)
  <2>1. FileState(corpus, node.refid) \in {"broken", "raises"}
    BY <1>10, DirectoryHas DEF FileState, Files
  <2> QED
    BY <1>2, <1>4, <2>1 DEF Raises, Reads, Ok, None
<1>11. ASSUME FileState(corpus, node.refid) = "ok", own \in Seq(Node)
       PROVE  /\ Ok(h2) /\ ~ h2.objects[file].error
              /\ Good(corpus, b) /\ Building(b, Index) /\ Only(g, b, Index) /\ Ok(b)
              /\ Fills(corpus, g, b)
              /\ b.refs = h1.refs
              /\ MadeOf(b, b.objects[Index].members, (nodes \o own) \o <<node>>)
  <2>1. Ok(h2) /\ MadeOf(h2, more, own)
    BY <1>2, <1>4, <1>5, <1>11 DEF Raises, ContentFits
  <2>2. ~ h2.objects[file].error
    <3>1. node.refid \in DOMAIN corpus.files /\ corpus.files[node.refid].state # "broken"
      BY <1>11 DEF FileState
    <3> QED
      BY <1>4, <1>5, <3>1 DEF Good, ObjectFits, Reads
  <2>3. more \in Seq(Nat) /\ \A i \in DOMAIN more : more[i] \in 0 .. Len(h2.objects)
    <3>1. h2.objects[file] \in Obj
      BY <1>5, ObjectFields
    <3> QED
      BY <1>4, <1>5, <3>1 DEF Good, ObjectFits, Obj
  <2> HIDE DEF own, more
  <2>7. own \in Seq(Node)
    BY <1>11
  <2>8. /\ Good(corpus, h3) /\ Building(h3, Index) /\ Only(h2, h3, Index)
        /\ Len(h3.objects) = Len(h2.objects)
        /\ h3.refs = h2.refs /\ h3.raised = h2.raised
        /\ MadeOf(h3, h3.objects[Index].members, nodes \o own)
    BY <1>4, <1>7, <1>8, <2>1, <2>3, <2>7, ConcatFits
  <2> HIDE DEF h3
  <2>9. file \in Ids(h3) /\ Heap(h3) /\ StandsFor(h3, file, node)
    BY <1>1, <1>5, <2>8 DEF Only, Ids, Good, StandsFor
  <2>10. nodes \o own \in Seq(Node)
    BY <2>7, ConcatProperties
  <2> DEFINE all == nodes \o own
  <2> HIDE DEF all
  <2>11. all \in Seq(Node) /\ MadeOf(h3, h3.objects[Index].members, all)
    BY <2>8, <2>10 DEF all
  <2>12. /\ Good(corpus, b) /\ Building(b, Index) /\ Only(h3, b, Index)
         /\ Len(b.objects) = Len(h3.objects)
         /\ b.refs = h3.refs /\ b.raised = h3.raised
         /\ MadeOf(b, b.objects[Index].members, all \o <<node>>)
    BY <2>8, <2>9, <2>11, KeepFits
  <2> HIDE DEF b
  <2>13. Heap(b) /\ Only(g, b, Index) /\ Only(h2, b, Index)
    <3>1. Heap(b)
      BY <2>12 DEF Good
    <3>2. Only(g, h3, Index)
      BY <1>1, <1>5, <1>7, <2>8, <2>9, OnlyTrans
    <3>3. Only(h2, b, Index)
      BY <1>5, <2>8, <2>9, <2>12, <3>1, OnlyTrans
    <3> QED
      BY <1>1, <2>9, <2>12, <3>1, <3>2, <3>3, OnlyTrans
  <2>14. Fills(corpus, g, b)
    <3>1. Bare(h2, b)
      BY <2>8, <2>12 DEF Bare, Ids
    <3> QED
      BY <1>1, <1>5, <1>7, <1>9, <2>13, <3>1, BareFills, FillsTrans
  <2> QED
    BY <1>4, <2>1, <2>2, <2>8, <2>12, <2>13, <2>14 DEF Ok, all
<1> QED
  BY <1>4, <1>6, <1>7, <1>9, <1>10, <1>11 DEF h2, h3, b, more, own, Object

(* One turn of the loop of DoxyIndex._parse.                               *)
LEMMA AddCompoundFits ==
  ASSUME GoodDirectory(corpus), NEW g, Good(corpus, g), Building(g, Index), Ok(g),
         NEW k \in Nat, k + 1 \in DOMAIN corpus.index,
         corpus.index[k + 1].refid \notin DOMAIN g.refs, Listed(corpus, g, k)
  PROVE  Compounded(corpus, g, AddCompound(g, corpus.index[k + 1]), k + 1)
<1> DEFINE e == corpus.index[k + 1]
           node == Parsed(e)
           nodes == NodesUpTo(corpus, k)
           h1 == ConvertMem(g, Parsed(e))
           file == h1.result
           r == AddCompound(g, e)
<1>1. e \in Compounds /\ e.refid \in Refids /\ e.refid \notin DOMAIN g.refs /\ e.refid # None
  BY DirectoryHas DEF Compounds, Refids
<1>2. MemberFits(corpus, node) /\ node.refid = e.refid /\ node.data = e /\ node \in Node
  BY EntryFits, MemberNodesAre
<1>3. /\ Good(corpus, h1) /\ Makes(g, h1) /\ h1.result \in 0 .. Len(h1.objects)
      /\ DOMAIN h1.refs \subseteq DOMAIN g.refs \cup {e.refid}
      /\ node.cls # None => h1.result \in Ids(h1)
      /\ h1.result # NoObject =>
            /\ h1.objects[h1.result] = NewObject(node.cls, e, e.refid)
            /\ h1.result \notin Ids(g)
      /\ StandsFor(h1, h1.result, node)
  <2> HIDE DEF e
  <2> QED
    BY <1>1, <1>2, ConvertMemFits
<1>4. /\ Heap(g) /\ Len(g.objects) \in Nat /\ Index \in Ids(g) /\ g.objects[Index] \in Obj
      /\ nodes \in Seq(Node) /\ MadeOf(g, g.objects[Index].members, nodes)
  BY ObjectFields DEF Good, Listed
<1>5. /\ e.kind # "file" => MemberNodes(corpus, e) = <<node>>
      /\ e.kind = "file" /\ e.name \notin HeaderNames => MemberNodes(corpus, e) = <<>>
  BY MemberNodesAre
<1>6. ((k + 1) - 1) = k
  OBVIOUS
<1>7. CASE e.kind \notin DOMAIN ClassOfKind
  <2>1. r = Raise(g, "StandardError")
    BY <1>7 DEF AddCompound
  <2>2. Good(corpus, r) /\ r.objects = g.objects /\ r.refs = g.refs
    BY <1>4, <2>1, SameHeap
  <2>3. r.raised = "StandardError"
    BY <1>4, <2>1, AnswerIs
  <2> HIDE DEF r, e
  <2>4. ~ Ok(r) /\ Fatal(corpus, e)
    BY <1>7, <2>3 DEF Ok, None, Fatal
  <2>5. Only(g, r, Index) /\ Building(r, Index) /\ Fills(corpus, g, r)
    BY <1>4, <2>2 DEF Only, SameObject, Building, Ids, Fills
  <2> QED
    BY <2>2, <2>4, <2>5 DEF Compounded, r, e
<1> DEFINE h2 == IF Object(h1, file).parsed THEN h1 ELSE ReadFile(h1, file)
           h3 == IF Ok(h2) /\ Object(h2, file).error THEN Raise(h2, "ParsingError") ELSE h2
<1>8. ASSUME e.kind \in DOMAIN ClassOfKind
      PROVE  r = IF ClassOfKind[e.kind] # "DoxyFile" THEN AppendMember(Answer(h1, file), Index)
                 ELSE IF e.name \notin HeaderNames THEN h1
                 ELSE IF Ok(h3)
                 THEN AppendMember(Answer(Followed(h3, Index, Object(h3, file).members), file), Index)
                 ELSE h3
  BY <1>8, CompoundAdded
<1> HIDE DEF r, h2, h3
<1>9. ASSUME e.kind \in DOMAIN ClassOfKind
      PROVE  /\ file \in Ids(h1) /\ file \notin Ids(g) /\ Index \in Ids(g)
             /\ node.cls = ClassOfKind[e.kind] /\ node.cls # None
             /\ h1.objects[file] = NewObject(node.cls, e, e.refid)
             /\ ~ h1.objects[file].parsed
             /\ Building(h1, Index) /\ Only(g, h1, Index) /\ Ok(h1) /\ Fills(corpus, g, h1)
             /\ MadeOf(h1, h1.objects[Index].members, nodes)
  <2>1. node.cls = ClassOfKind[e.kind] /\ node.cls # None
    BY <1>9, ClassesOfKinds DEF Parsed
  <2> HIDE DEF e, h1, node
  <2>2. file \in Ids(h1) /\ file # NoObject
    BY <1>3, <2>1 DEF Ids, NoObject
  <2>3. /\ Heap(h1) /\ Len(h1.objects) \in Nat /\ h1.objects[Index] = g.objects[Index]
        /\ Index \in Ids(h1) /\ h1.raised = g.raised
    BY <1>3, <1>4, LenProperties DEF Good, Heap, Makes
  <2>4. Building(h1, Index) /\ Ok(h1)
    BY <2>3 DEF Building, Ok
  <2>5. Only(g, h1, Index)
    BY <1>3, <1>4, MakesOnly
  <2>6. MadeOf(h1, h1.objects[Index].members, nodes)
    <3>1. Grows(g, h1, Ids(g))
      BY <1>3, MakesGrows
    <3> HIDE DEF nodes
    <3> QED
      BY <1>4, <2>3, <3>1, MadeOn
  <2>7. Fills(corpus, g, h1)
    BY <1>3, BareFills DEF Makes, Bare
  <2>8. h1.objects[file] = NewObject(node.cls, e, e.refid) /\ ~ h1.objects[file].parsed
    BY <1>3, <2>2 DEF NewObject
  <2> QED
    BY <1>3, <1>4, <2>1, <2>2, <2>4, <2>5, <2>6, <2>7, <2>8
<1> HIDE DEF h1
<1>10. \A n \in DOMAIN ClassOfKind : ClassOfKind[n] = "DoxyFile" <=> n = "file"
  BY DEF ClassOfKind
<1>11. CASE e.kind \in DOMAIN ClassOfKind /\ e.kind # "file"
  <2>1. r = AppendMember(Answer(h1, file), Index)
    BY <1>8, <1>10, <1>11
  <2> HIDE DEF nodes, e, node
  <2>3. /\ Good(corpus, r) /\ Building(r, Index) /\ Only(h1, r, Index)
        /\ Len(r.objects) = Len(h1.objects)
        /\ r.refs = h1.refs /\ r.raised = h1.raised
        /\ MadeOf(r, r.objects[Index].members, nodes \o <<node>>)
    BY <1>2, <1>3, <1>4, <1>9, <1>11, <2>1, KeepFits
  <2>4. Only(g, r, Index) /\ Fills(corpus, g, r)
    <3>1. Fills(corpus, h1, r)
      BY <2>3, BareFills DEF Bare, Ids
    <3> QED
      BY <1>3, <1>4, <1>9, <1>11, <2>3, <3>1, OnlyTrans, FillsTrans DEF Good
  <2>5. ~ Fatal(corpus, e) /\ Ok(r)
    BY <1>9, <1>11, <2>3 DEF Fatal, Ok
  <2>6. MadeOf(r, r.objects[Index].members, nodes \o MemberNodes(corpus, e))
    BY <1>5, <1>11, <2>3
  <2> QED
    BY <1>3, <1>6, <2>3, <2>4, <2>5, <2>6 DEF Compounded, e, nodes, r
<1>12. CASE e.kind = "file" /\ e.name \notin HeaderNames
  <2>1. e.kind \in DOMAIN ClassOfKind
    BY <1>12 DEF ClassOfKind
  <2>2. r = h1
    BY <1>8, <1>10, <1>12, <2>1
  <2> HIDE DEF e
  <2>3. ~ Fatal(corpus, e)
    BY <1>12, <2>1 DEF Fatal
  <2>4. nodes \o MemberNodes(corpus, e) = nodes
    BY <1>4, <1>5, <1>12, ConcatEmptySeq
  <2>5. MadeOf(r, r.objects[Index].members, nodes \o MemberNodes(corpus, e))
    BY <1>9, <2>1, <2>2, <2>4
  <2> QED
    BY <1>3, <1>6, <1>9, <2>1, <2>2, <2>3, <2>5 DEF Compounded, e, nodes, r
<1>13. CASE e.kind = "file" /\ e.name \in HeaderNames
  <2> DEFINE own == Definitions(corpus.files[e.refid])
             last == <<node>>
             f2 == ReadFile(h1, file)
             all == Followed(f2, Index, Object(f2, file).members)
             b == AppendMember(Answer(all, file), Index)
  <2>1. e.kind \in DOMAIN ClassOfKind /\ ClassOfKind[e.kind] = "DoxyFile"
    BY <1>13 DEF ClassOfKind
  <2>2. /\ FileState(corpus, e.refid) = "ok" => own \in Seq(Node)
        /\ MemberNodes(corpus, e) = own \o <<node>>
    BY <1>13, MemberNodesAre
  <2>3. /\ f2.refs = h1.refs
        /\ FileState(corpus, e.refid) # "ok" =>
              /\ ~ Ok(f2) /\ Good(corpus, f2) /\ Building(f2, Index) /\ Only(g, f2, Index)
              /\ Fills(corpus, g, f2)
              /\ f2.objects[Index].members = g.objects[Index].members
        /\ FileState(corpus, e.refid) = "ok" /\ own \in Seq(Node) =>
              /\ Ok(f2) /\ ~ f2.objects[file].error
              /\ Good(corpus, b) /\ Building(b, Index) /\ Only(g, b, Index) /\ Ok(b)
              /\ Fills(corpus, g, b)
              /\ b.refs = h1.refs
              /\ MadeOf(b, b.objects[Index].members, (nodes \o own) \o <<node>>)
    <3>1. file \in Ids(h1) /\ file \notin Ids(g) /\ node.cls = "DoxyFile" /\ ~ h1.objects[file].parsed
      BY <1>9, <2>1
    <3> HIDE DEF e, nodes, node
    <3> QED
      BY <1>2, <1>3, <1>4, <1>5, <3>1, HeaderFits
  <2>4. h2 = f2
    BY <1>9, <2>1 DEF h2, Object
  <2> HIDE DEF f2, own, e, nodes, node
  <2>5. CASE FileState(corpus, e.refid) # "ok"
    <3>1. r = f2
      <4>1. ~ Ok(h2) /\ h3 = h2
        BY <2>3, <2>4, <2>5 DEF h3
      <4> QED
        BY <1>8, <1>13, <2>1, <2>4, <4>1
    <3>2. Fatal(corpus, e)
      BY <1>13, <2>5 DEF Fatal
    <3> QED
      BY <1>3, <2>3, <2>5, <3>1, <3>2 DEF Compounded, r, e
  <2>6. CASE FileState(corpus, e.refid) = "ok"
    <3>1. r = b
      <4>1. Ok(h2) /\ h3 = h2
        BY <2>2, <2>3, <2>4, <2>6 DEF h3, Object
      <4> QED
        BY <1>8, <1>13, <2>1, <2>4, <4>1
    <3>2. ~ Fatal(corpus, e)
      BY <1>13, <2>1, <2>6 DEF Fatal
    <3>3. (nodes \o own) \o <<node>> = nodes \o MemberNodes(corpus, e)
      <4>1. last \in Seq(Node)
        BY <1>2
      <4>2. own \in Seq(Node) /\ MemberNodes(corpus, e) = own \o last
        BY <2>2, <2>6
      <4> HIDE DEF last
      <4>3. (nodes \o own) \o last = nodes \o (own \o last)
        BY <1>4, <4>1, <4>2, ConcatAssociative
      <4> QED
        BY <4>2, <4>3 DEF last
    <3> HIDE DEF b
    <3>4. MadeOf(b, b.objects[Index].members, nodes \o MemberNodes(corpus, e))
      BY <2>2, <2>3, <2>6, <3>3
    <3> QED
      BY <1>3, <1>6, <2>2, <2>3, <2>6, <3>1, <3>2, <3>4 DEF Compounded, r, e, nodes
  <2> QED
    BY <2>5, <2>6
<1> QED
  BY <1>7, <1>11, <1>12, <1>13 DEF r

\* The index after k turns of the loop of _parse, which a fatal entry ends.
Indexed(d, h, g, k) ==
  /\ Good(d, g) /\ Building(g, Index) /\ Only(h, g, Index) /\ Fills(d, h, g)
  /\ \A r \in DOMAIN g.refs : \E i \in 1 .. k : d.index[i].refid = r
  /\ Ok(g) => Listed(d, g, k)
  /\ ~ Ok(g) => \E j \in 0 .. k - 1 : Listed(d, g, j) /\ Fatal(d, d.index[j + 1])

\* The members of the index are those of the entries before the first fatal one.
Prefix(d, g) ==
  \E j \in 0 .. Len(d.index) :
    /\ Listed(d, g, j)
    /\ j = Len(d.index) \/ Fatal(d, d.index[j + 1])

\* Nothing is read before the index, and every object that was read holds what
\* it should.
Fine(d, h) ==
  /\ Good(d, h) /\ Filled(d, h, {Index})
  /\ IF h.objects[Index].parsed THEN Prefix(d, h)
     ELSE Len(h.objects) = 1 /\ DOMAIN h.refs = {}

(* A turn of the loop over index.xml adds at the end what the entry names, *)
(* in the order of the file: the members of a header before the header,    *)
(* nothing for another file.                                               *)
LEMMA IndexedOnce ==
  ASSUME GoodDirectory(corpus), NEW h, Good(corpus, h), NEW g, NEW k \in Nat,
         Index \in Ids(h), k + 1 \in DOMAIN corpus.index, Indexed(corpus, h, g, k), Ok(g)
  PROVE  Indexed(corpus, h, AddCompound(g, corpus.index[k + 1]), k + 1)
<1> DEFINE e == corpus.index[k + 1]
           b == AddCompound(g, e)
<1>1. Good(corpus, g) /\ Building(g, Index) /\ Only(h, g, Index) /\ Listed(corpus, g, k)
  BY DEF Indexed
<1>2. e.refid \notin DOMAIN g.refs
  <2>1. SUFFICES ASSUME e.refid \in DOMAIN g.refs PROVE FALSE
    OBVIOUS
  <2>2. PICK i \in 1 .. k : corpus.index[i].refid = e.refid
    BY <2>1 DEF Indexed
  <2>3. i \in DOMAIN corpus.index
    BY DirectoryHas
  <2>4. i = k + 1
    BY <2>2, <2>3 DEF GoodDirectory, Consistent
  <2> QED
    BY <2>4
<1>3. Compounded(corpus, g, b, k + 1)
  BY <1>1, <1>2, AddCompoundFits
<1> HIDE DEF b
<1>4. Good(corpus, b) /\ Building(b, Index) /\ Only(g, b, Index) /\ Fills(corpus, g, b)
  BY <1>3 DEF Compounded
<1>5. Only(h, b, Index) /\ Fills(corpus, h, b)
  <2>1. Fills(corpus, h, g)
    BY DEF Indexed
  <2> QED
    BY <1>1, <1>4, <2>1, OnlyTrans, FillsTrans DEF Good
<1>6. ASSUME NEW r \in DOMAIN b.refs
      PROVE  \E i \in 1 .. k + 1 : corpus.index[i].refid = r
  <2>1. r \in DOMAIN g.refs \/ r = e.refid
    BY <1>3 DEF Compounded
  <2>2. CASE r = e.refid
    <3>1. k + 1 \in 1 .. k + 1
      OBVIOUS
    <3> QED
      BY <2>2, <3>1
  <2>3. CASE r \in DOMAIN g.refs
    <3>1. PICK i \in 1 .. k : corpus.index[i].refid = r
      BY <2>3 DEF Indexed
    <3>2. i \in 1 .. k + 1
      OBVIOUS
    <3> QED
      BY <3>1, <3>2
  <2> QED
    BY <2>1, <2>2, <2>3
<1>7. CASE Fatal(corpus, e)
  <2>1. ~ Ok(b) /\ b.objects[Index].members = g.objects[Index].members
    BY <1>3, <1>7 DEF Compounded
  <2>2. Listed(corpus, b, k)
    <3>1. Heap(g) /\ Heap(b) /\ Index \in Ids(g)
      BY <1>1, <1>4 DEF Good
    <3>3. Grows(g, b, Ids(g))
      BY <1>4, <3>1, OnlyGrows, GrowsLess
    <3> DEFINE ms == g.objects[Index].members
               nodes == NodesUpTo(corpus, k)
    <3>4. MadeOf(g, ms, nodes)
      BY <1>1 DEF Listed
    <3> HIDE DEF ms, nodes
    <3>5. MadeOf(b, ms, nodes)
      BY <3>1, <3>3, <3>4, MadeOn
    <3> QED
      BY <1>1, <2>1, <3>5 DEF Listed, ms, nodes
  <2>3. k \in 0 .. (k + 1) - 1
    OBVIOUS
  <2> QED
    BY <1>4, <1>5, <1>6, <1>7, <2>1, <2>2, <2>3 DEF Indexed, b, e
<1>8. CASE ~ Fatal(corpus, e)
  <2>1. /\ Ok(b)
        /\ MadeOf(b, b.objects[Index].members,
                   NodesUpTo(corpus, (k + 1) - 1) \o MemberNodes(corpus, e))
    BY <1>3, <1>8 DEF Compounded
  <2>2. (k + 1) - 1 = k /\ NodesUpTo(corpus, k + 1) = NodesUpTo(corpus, k) \o MemberNodes(corpus, e)
    BY NodesStep
  <2>3. MadeOf(b, b.objects[Index].members, NodesUpTo(corpus, k + 1))
    BY <2>1, <2>2
  <2>4. NodesUpTo(corpus, k + 1) \in Seq(Node)
    <3>1. MemberNodes(corpus, e) \in Seq(Node) /\ NodesUpTo(corpus, k) \in Seq(Node)
      BY <1>1, <1>8, MemberNodesAre DEF Listed
    <3> QED
      BY <2>2, <3>1, ConcatProperties
  <2>5. \A i \in 1 .. k + 1 : ~ Fatal(corpus, corpus.index[i])
    <3>1. \A i \in 1 .. k + 1 : i = k + 1 \/ i \in 1 .. k
      OBVIOUS
    <3> QED
      BY <1>1, <1>8, <3>1 DEF Listed
  <2>6. Listed(corpus, b, k + 1)
    BY <2>3, <2>4, <2>5 DEF Listed
  <2> QED
    BY <1>4, <1>5, <1>6, <2>1, <2>6 DEF Indexed, b
<1> QED
  BY <1>7, <1>8

(* DoxyIndex._parse reads the index once, up to an entry it cannot use.    *)
LEMMA ParseIndexFits ==
  ASSUME GoodDirectory(corpus), NEW h, Fine(corpus, h), Ok(h), ~ h.objects[Index].parsed
  PROVE  LET g == ParseIndex(h) IN
         /\ Good(corpus, g) /\ Only(h, g, Index) /\ g.objects[Index].parsed /\ Prefix(corpus, g)
         /\ Building(g, Index) /\ Fills(corpus, h, g) /\ Filled(corpus, g, {Index})
         /\ Ok(g) => Listed(corpus, g, Len(corpus.index))
         /\ ~ Ok(g) => \E i \in DOMAIN corpus.index : Fatal(corpus, corpus.index[i])
<1> DEFINE n == Len(corpus.index)
           h0 == Marked(h, Index)
<1>1. n \in Nat /\ DOMAIN corpus.index = 1 .. n
  BY DirectoryHas
<1>2. Good(corpus, h) /\ Unread(h, Index) /\ DOMAIN h.refs = {} /\ Index \in Ids(h)
  BY DEF Fine, Good, Unread
<1>3. ~ Reads(h.objects[Index].cls)
  BY <1>2 DEF Good, ObjectFits, Reads
<1>4. /\ Good(corpus, h0) /\ Only(h, h0, Index) /\ Building(h0, Index) /\ Heap(h0)
      /\ h0.objects[Index].members = <<>> /\ h0.raised = h.raised /\ h0.refs = h.refs
      /\ Fills(corpus, h, h0)
  <2>1. /\ Heap(h0) /\ h0.objects[Index].members = <<>> /\ h0.raised = h.raised
        /\ h0.refs = h.refs /\ Len(h0.objects) = Len(h.objects)
    BY <1>2, MarkedIs
  <2>2. Good(corpus, h0) /\ Only(h, h0, Index) /\ Building(h0, Index)
    BY <1>2, <1>3, MarkedFits
  <2>3. Fills(corpus, h, h0)
    BY <2>1 DEF Fills, Ids
  <2> QED
    BY <2>1, <2>2, <2>3
<1> HIDE DEF h0
<1>5. PICK f : /\ f[0] = h0
               /\ \A k \in 1 .. n :
                     f[k] = IF Ok(f[k - 1]) THEN AddCompound(f[k - 1], corpus.index[k])
                            ELSE f[k - 1]
               /\ ParseIndex(h) = f[n]
  BY <1>1, IndexTurns DEF h0
<1> DEFINE S == {k \in 0 .. n : Indexed(corpus, h, f[k], k)}
<1>6. 0 \in S
  <2>1. Listed(corpus, h0, 0)
    <3>1. NodesUpTo(corpus, 0) = <<>>
      <4>1. 0 \in Nat
        OBVIOUS
      <4> QED
        BY <4>1, NodesStep
    <3>2. <<>> \in Seq(Node) /\ Len(<<>>) = 0
      BY EmptySeq
    <3>3. MadeOf(h0, h0.objects[Index].members, NodesUpTo(corpus, 0))
      BY <1>4, <3>1, <3>2 DEF MadeOf
    <3>4. NodesUpTo(corpus, 0) \in Seq(Node)
      BY <3>1, <3>2
    <3> QED
      BY <3>3, <3>4 DEF Listed
  <2>2. Ok(h0)
    BY <1>4 DEF Ok
  <2>3. Indexed(corpus, h, h0, 0)
    BY <1>2, <1>4, <2>1, <2>2 DEF Indexed
  <2> QED
    BY <1>1, <1>5, <2>3
<1>7. ASSUME NEW k \in 0 .. n - 1, k \in S PROVE k + 1 \in S
  <2>1. k \in Nat /\ k + 1 \in 1 .. n /\ k + 1 \in 0 .. n /\ (k + 1) - 1 = k
    BY <1>1
  <2>2. Indexed(corpus, h, f[k], k)
    BY <1>7
  <2>3. f[k + 1] = IF Ok(f[k]) THEN AddCompound(f[k], corpus.index[k + 1]) ELSE f[k]
    BY <1>5, <2>1
  <2>4. CASE Ok(f[k])
    <3>1. Indexed(corpus, h, AddCompound(f[k], corpus.index[k + 1]), k + 1)
      BY <1>1, <1>2, <2>1, <2>2, <2>4, IndexedOnce
    <3> QED
      BY <2>1, <2>3, <2>4, <3>1
  <2>5. CASE ~ Ok(f[k])
    <3> DEFINE g == f[k]
    <3>1. f[k + 1] = g
      BY <2>3, <2>5
    <3> HIDE DEF g
    <3>2. Indexed(corpus, h, g, k) /\ ~ Ok(g)
      BY <2>2, <2>5 DEF g
    <3>3. \A i \in 1 .. k : i \in 1 .. k + 1
      OBVIOUS
    <3>4. \A j \in 0 .. k - 1 : j \in 0 .. (k + 1) - 1
      OBVIOUS
    <3>5. Indexed(corpus, h, g, k + 1)
      BY <3>2, <3>3, <3>4 DEF Indexed
    <3> QED
      BY <2>1, <3>1, <3>5
  <2> QED
    BY <2>4, <2>5
<1>8. Indexed(corpus, h, f[n], n)
  <2>1. n \in 0 .. n
    BY <1>1
  <2>2. n \in S
    <3> HIDE DEF S, n
    <3> QED
      BY <1>1, <1>6, <1>7, <2>1, Induction
  <2> QED
    BY <2>2
<1> DEFINE g == ParseIndex(h)
<1>9. Indexed(corpus, h, g, n)
  BY <1>5, <1>8
<1> HIDE DEF g
<1>10. Prefix(corpus, g)
  <2>1. CASE Ok(g)
    <3>1. Listed(corpus, g, n) /\ n \in 0 .. n
      BY <1>1, <1>9, <2>1 DEF Indexed
    <3> QED
      BY <3>1 DEF Prefix
  <2>2. CASE ~ Ok(g)
    <3>1. PICK j \in 0 .. n - 1 : Listed(corpus, g, j) /\ Fatal(corpus, corpus.index[j + 1])
      BY <1>9, <2>2 DEF Indexed
    <3>2. j \in 0 .. n
      BY <1>1
    <3> QED
      BY <3>1, <3>2 DEF Prefix
  <2> QED
    BY <2>1, <2>2
<1>11. Filled(corpus, g, {Index})
  <2>1. Filled(corpus, h, {Index}) /\ Heap(h) /\ Heap(g)
    BY <1>2, <1>9 DEF Fine, Good, Indexed
  <2> QED
    BY <1>2, <1>9, <2>1, FilledOn DEF Indexed
<1>12. /\ Ok(g) => Listed(corpus, g, n)
       /\ ~ Ok(g) => \E i \in DOMAIN corpus.index : Fatal(corpus, corpus.index[i])
  <2>1. ASSUME ~ Ok(g) PROVE \E i \in DOMAIN corpus.index : Fatal(corpus, corpus.index[i])
    <3>1. PICK j \in 0 .. n - 1 : Fatal(corpus, corpus.index[j + 1])
      BY <1>9, <2>1 DEF Indexed
    <3>2. j + 1 \in DOMAIN corpus.index
      BY <1>1
    <3> QED
      BY <3>1, <3>2
  <2> QED
    BY <1>9, <2>1 DEF Indexed
<1> QED
  BY <1>9, <1>10, <1>11, <1>12 DEF Indexed, Building, g

-----------------------------------------------------------------------------
(* Calls.                                                                  *)

\* What any call does to the heap.
Serves(d, h, g) == Fine(d, g) /\ Grows(h, g, {})

(* A heap in which every object that was read before is left as it was is  *)
(* fine if it was fine and the others have what their files give them.     *)
LEMMA FineOn ==
  ASSUME NEW d, NEW h, Fine(d, h), h.objects[Index].parsed, NEW g, Good(d, g), Grows(h, g, {}),
         \A o \in Ids(g) \ {Index} :
           (o \in Ids(h) /\ h.objects[o].parsed) \/ ContentFits(d, g, o)
  PROVE  Fine(d, g)
<1>1. Good(d, h) /\ Prefix(d, h) /\ Filled(d, h, {Index})
  BY DEF Fine
<1>2. Heap(h) /\ Heap(g) /\ Index \in Ids(h)
  BY <1>1 DEF Good
<1>3. g.objects[Index].parsed /\ g.objects[Index].members = h.objects[Index].members
  BY <1>2 DEF Grows, KeptObject
<1>4. Grows(h, g, Ids(h))
  BY GrowsLess
<1>5. ASSUME NEW j, Listed(d, h, j) PROVE Listed(d, g, j)
  <2>1. MadeOf(g, h.objects[Index].members, NodesUpTo(d, j))
    BY <1>2, <1>4, <1>5, MadeOn DEF Listed
  <2> QED
    BY <1>3, <1>5, <2>1 DEF Listed
<1>6. Prefix(d, g)
  BY <1>1, <1>5 DEF Prefix
<1>7. ASSUME NEW o \in Ids(g) \ {Index} PROVE ContentFits(d, g, o)
  <2>1. CASE o \in Ids(h) /\ h.objects[o].parsed
    <3>1. KeptObject(h.objects[o], g.objects[o])
      BY <2>1 DEF Grows
    <3>2. ContentFits(d, h, o)
      BY <1>1, <2>1 DEF Filled
    <3> QED
      BY <1>2, <1>4, <2>1, <3>1, <3>2, ContentOn DEF KeptObject
  <2>2. CASE ContentFits(d, g, o)
    BY <2>2
  <2> QED
    BY <2>1, <2>2
<1> QED
  BY <1>3, <1>6, <1>7 DEF Fine, Filled

(* A call that does nothing serves.                                        *)
LEMMA ServesRefl == ASSUME NEW d, NEW h, Fine(d, h) PROVE Serves(d, h, h)
BY GrowsRefl DEF Serves, Fine, Good

(* A call followed by another serves, as a call of the program that makes  *)
(* both.                                                                   *)
LEMMA ServesTrans ==
  ASSUME NEW d, NEW h, NEW g, NEW k, Fine(d, h), Serves(d, h, g), Serves(d, g, k)
  PROVE  Serves(d, h, k)
<1>1. Heap(h) /\ Heap(g) /\ Heap(k) /\ Grows(h, g, {}) /\ Grows(g, k, {})
  BY DEF Serves, Fine, Good
<1>2. Grows(h, k, {} \cup {})
  BY <1>1, GrowsTrans
<1>3. {} \cup {} = {}
  OBVIOUS
<1> QED
  BY <1>2, <1>3 DEF Serves

(* An answer and an exception change no object.                            *)
LEMMA ServesSame ==
  ASSUME NEW d, NEW h, Fine(d, h), NEW v
  PROVE  /\ Serves(d, h, Answer(h, v)) /\ Serves(d, h, Raise(h, v))
         /\ Answer(h, v).objects = h.objects /\ Raise(h, v).objects = h.objects
         /\ Ids(Answer(h, v)) = Ids(h) /\ Ids(Raise(h, v)) = Ids(h)
         /\ Answer(h, v).refs = h.refs
         /\ Answer(h, v).result = v /\ Answer(h, v).raised = h.raised
         /\ Raise(h, v).raised = v
<1>1. Good(d, h) /\ Heap(h)
  BY DEF Fine, Good
<1>2. ASSUME NEW g \in {Answer(h, v), Raise(h, v)}
      PROVE  Serves(d, h, g) /\ g.objects = h.objects /\ g.refs = h.refs /\ Ids(g) = Ids(h)
  <2>1. Good(d, g) /\ g.objects = h.objects /\ g.refs = h.refs /\ Grows(h, g, {})
    BY <1>1, SameHeap
  <2> HIDE DEF Answer, Raise
  <2>2. Ids(g) = Ids(h) /\ \A o \in Ids(g) : ContentFits(d, h, o) => ContentFits(d, g, o)
    BY <2>1 DEF Ids, ContentFits, MadeOf, StandsFor
  <2>3. Filled(d, g, {Index})
    BY <2>2 DEF Fine, Filled
  <2>4. Prefix(d, h) => Prefix(d, g)
    BY <2>1, <2>2 DEF Prefix, Listed, MadeOf, StandsFor
  <2>5. Fine(d, g)
    BY <2>1, <2>3, <2>4 DEF Fine
  <2> QED
    BY <2>1, <2>2, <2>5 DEF Serves
<1>3. /\ Answer(h, v).result = v /\ Answer(h, v).raised = h.raised
      /\ Raise(h, v).raised = v
  BY <1>1, AnswerIs
<1> QED
  BY <1>2, <1>3

(* A call goes on with the objects it knew.                                *)
LEMMA ServesIds ==
  ASSUME NEW d, NEW h, NEW g, Fine(d, h), Serves(d, h, g)
  PROVE  /\ Ids(h) \subseteq Ids(g) /\ Index \in Ids(h) /\ Fine(d, g)
         /\ Good(d, h) /\ Good(d, g) /\ Heap(h) /\ Heap(g)
         /\ Len(h.objects) \in Nat /\ Len(g.objects) \in Nat
         /\ Len(h.objects) <= Len(g.objects)
<1>1. /\ Good(d, h) /\ Good(d, g) /\ Heap(h) /\ Heap(g) /\ Fine(d, g) /\ Grows(h, g, {})
      /\ Index \in Ids(h)
  BY DEF Serves, Fine, Good
<1>2. Len(h.objects) \in Nat /\ Len(g.objects) \in Nat
  BY <1>1, LenProperties DEF Heap
<1> QED
  BY <1>1, <1>2 DEF Grows, Ids

(* _check_parsed: an object reads its file when it is first asked.         *)
LEMMA CheckParsedFits ==
  ASSUME GoodDirectory(corpus), NEW h, Fine(corpus, h), Ok(h), NEW o \in Ids(h)
  PROVE  LET g == CheckParsed(h, o) IN
         /\ Serves(corpus, h, g) /\ g.objects[o].parsed
         /\ h.objects[o].parsed => g = h
<1> DEFINE g == CheckParsed(h, o)
<1>1. Good(corpus, h) /\ Heap(h) /\ Index \in Ids(h) /\ Len(h.objects) \in Nat
  BY LenProperties DEF Fine, Good, Heap
<1>2. CASE h.objects[o].parsed
  <2>1. g = h
    BY <1>2 DEF CheckParsed, Object
  <2> HIDE DEF g
  <2> QED
    BY <1>2, <2>1, ServesRefl DEF g
<1>3. CASE ~ h.objects[o].parsed /\ o = Index
  <2>1. h.objects[o].cls = "DoxyIndex"
    BY <1>1, <1>3 DEF Good, ObjectFits
  <2>2. g = ParseIndex(h)
    BY <1>3, <2>1 DEF CheckParsed, Object
  <2>3. /\ Good(corpus, g) /\ Only(h, g, Index) /\ g.objects[Index].parsed
        /\ Prefix(corpus, g) /\ Filled(corpus, g, {Index})
    BY <1>3, <2>2, ParseIndexFits
  <2> HIDE DEF g
  <2>4. Fine(corpus, g)
    BY <2>3 DEF Fine
  <2>5. Grows(h, g, {Index})
    BY <1>1, <2>3, OnlyGrows
  <2>6. Grows(h, g, {})
    BY <1>3, <2>5, GrowsLess
  <2> QED
    BY <1>3, <2>3, <2>4, <2>6 DEF Serves, g
<1>4. CASE ~ h.objects[o].parsed /\ o # Index
  <2>1. h.objects[o].cls # "DoxyIndex"
    BY <1>1, <1>4 DEF Good, ObjectFits
  <2>2. g = ReadFile(h, o)
    BY <1>4, <2>1 DEF CheckParsed, Object
  <2>3. Read(corpus, h, g, o)
    BY <1>1, <1>4, <2>2, ReadFileFits DEF Unread
  <2> HIDE DEF g
  <2>4. Good(corpus, g) /\ Only(h, g, o) /\ g.objects[o].parsed
    BY <2>3 DEF Read
  <2>5. Grows(h, g, {o})
    BY <2>4, OnlyGrows
  <2>6. Grows(h, g, {})
    BY <1>4, <2>5, GrowsLess
  <2>7. h.objects[Index].parsed
    BY <1>1, <1>4 DEF Fine, Ids, Index
  <2>8. ASSUME NEW p \in Ids(g) \ {Index}
        PROVE  (p \in Ids(h) /\ h.objects[p].parsed) \/ ContentFits(corpus, g, p)
    <3>1. CASE p = o
      BY <2>3, <3>1 DEF Read
    <3>2. CASE p \in Ids(h) \ {o}
      <4>1. g.objects[p] = h.objects[p]
        BY <2>4, <3>2 DEF Only
      <4>2. CASE g.objects[p].parsed
        BY <3>2, <4>1, <4>2
      <4>3. CASE ~ g.objects[p].parsed
        BY <4>3 DEF ContentFits
      <4> QED
        BY <4>2, <4>3
    <3>3. CASE p \notin Ids(h)
      BY <2>3, <3>3 DEF Read, Bare, ContentFits
    <3> QED
      BY <3>1, <3>2, <3>3
  <2>9. Fine(corpus, g)
    BY <2>4, <2>6, <2>7, <2>8, FineOn
  <2> QED
    BY <1>4, <2>4, <2>6, <2>9 DEF Serves, g
<1> QED
  BY <1>2, <1>3, <1>4

\* A call of an object that ends, if no exception is raised, with an object
\* that has been read and is not in error.
Confirms(d, h, g, o) ==
  /\ Serves(d, h, g) /\ g.objects[o].parsed
  /\ Ok(g) => ~ g.objects[o].error
  /\ h.objects[o].parsed /\ ~ h.objects[o].error => g = h

(* confirm_no_error.                                                       *)
LEMMA ConfirmNoErrorFits ==
  ASSUME GoodDirectory(corpus), NEW h, Fine(corpus, h), Ok(h), NEW o \in Ids(h)
  PROVE  Confirms(corpus, h, ConfirmNoError(h, o), o)
<1> DEFINE c == CheckParsed(h, o)
           g == ConfirmNoError(h, o)
<1>1. Serves(corpus, h, c) /\ c.objects[o].parsed /\ (h.objects[o].parsed => c = h)
  BY CheckParsedFits
<1> HIDE DEF c
<1>2. g = IF Ok(c) THEN IF c.objects[o].error THEN Raise(c, "ParsingError") ELSE c ELSE c
  BY SMT DEF ConfirmNoError, Then, Object, c
<1> HIDE DEF g
<1>3. CASE g = c /\ (Ok(c) => ~ c.objects[o].error)
  BY <1>1, <1>3 DEF Confirms, g
<1>4. CASE g = Raise(c, "ParsingError") /\ Ok(c) /\ c.objects[o].error
  <2>1. Fine(corpus, c)
    BY <1>1 DEF Serves
  <2>2. /\ Serves(corpus, c, Raise(c, "ParsingError"))
        /\ Raise(c, "ParsingError").raised = "ParsingError"
        /\ Raise(c, "ParsingError").objects = c.objects
    BY <2>1, ServesSame
  <2>3. Serves(corpus, h, g) /\ ~ Ok(g) /\ g.objects = c.objects
    BY <1>1, <1>4, <2>2, ServesTrans DEF Ok, None
  <2> QED
    BY <1>1, <1>4, <2>3 DEF Confirms, g
<1> QED
  BY <1>2, <1>3, <1>4

-----------------------------------------------------------------------------
(* Calls on one object.                                                    *)

(* Returning another result, or raising, serves whatever was served before *)
(* it.                                                                     *)
LEMMA ServesOn ==
  ASSUME NEW d, NEW h, Fine(d, h), NEW c, Serves(d, h, c), NEW v
  PROVE  Serves(d, h, Answer(c, v)) /\ Serves(d, h, Raise(c, v))
<1>1. Fine(d, c)
  BY DEF Serves
<1>2. Serves(d, c, Answer(c, v)) /\ Serves(d, c, Raise(c, v))
  BY <1>1, ServesSame
<1> QED
  BY <1>2, ServesTrans

(* error().                                                                *)
LEMMA ErrorFits ==
  ASSUME GoodDirectory(corpus), NEW h, Fine(corpus, h), Ok(h), NEW o \in Ids(h)
  PROVE  Serves(corpus, h, Error(h, o))
<1> DEFINE c == CheckParsed(h, o)
           g == Error(h, o)
<1>1. Serves(corpus, h, c)
  BY CheckParsedFits
<1> HIDE DEF c
<1>2. g = IF Ok(c) THEN Answer(c, c.objects[o].error) ELSE c
  BY SMT DEF Error, Then, Object, c
<1> HIDE DEF g
<1>3. g = c \/ g = Answer(c, c.objects[o].error)
  BY <1>2
<1>4. Serves(corpus, h, Answer(c, c.objects[o].error))
  BY <1>1, ServesOn
<1> QED
  BY <1>1, <1>3, <1>4 DEF g

(* members().                                                              *)
LEMMA MembersCallFits ==
  ASSUME GoodDirectory(corpus), NEW h, Fine(corpus, h), Ok(h), NEW o \in Ids(h)
  PROVE  Serves(corpus, h, Members(h, o))
<1> DEFINE c == ConfirmNoError(h, o)
           g == Members(h, o)
<1>1. Serves(corpus, h, c)
  BY ConfirmNoErrorFits DEF Confirms
<1> HIDE DEF c
<1>2. g = IF Ok(c) THEN Answer(c, c.objects[o].members) ELSE c
  BY SMT DEF Members, Then, Object, c
<1> HIDE DEF g
<1>3. g = c \/ g = Answer(c, c.objects[o].members)
  BY <1>2
<1>4. Serves(corpus, h, Answer(c, c.objects[o].members))
  BY <1>1, ServesOn
<1> QED
  BY <1>1, <1>3, <1>4 DEF g

(* data().                                                                 *)
LEMMA DataFits ==
  ASSUME GoodDirectory(corpus), NEW h, Fine(corpus, h), Ok(h), NEW o \in Ids(h)
  PROVE  Serves(corpus, h, Data(h, o))
<1> DEFINE c == ConfirmNoError(h, o)
           g == Data(h, o)
           v == IF c.objects[o].cls = "DoxyFunction" THEN c.objects[o].data.doc
                ELSE corpus.files[c.objects[o].refid].doc
<1>1. Serves(corpus, h, c)
  BY ConfirmNoErrorFits DEF Confirms
<1> HIDE DEF c
<1>2. g = IF Ok(c) THEN IF c.objects[o].described THEN Answer(c, v) ELSE Raise(c, "KeyError")
          ELSE c
  BY SMT DEF Data, Then, Object, c
<1> HIDE DEF g, v
<1>3. g = c \/ g = Answer(c, v) \/ g = Raise(c, "KeyError")
  BY <1>2
<1>4. Serves(corpus, h, Answer(c, v)) /\ Serves(corpus, h, Raise(c, "KeyError"))
  BY <1>1, ServesOn
<1> QED
  BY <1>1, <1>3, <1>4 DEF g

(* The name of what was parsed is a sequence of words.                     *)
LEMMA NameOfData ==
  \A x \in ParseData : x.name \in Seq(STRING) /\ (x # Unknown => x.name \in Names)
<1>1. ASSUME NEW x \in Compounds PROVE x.name \in Names
  BY DEF Compounds
<1>2. ASSUME NEW x \in Memberdefs PROVE x.name \in Names
  BY DEF Memberdefs
<1>3. Unknown.name \in Seq(STRING)
  BY EmptySeq DEF Unknown
<1>4. Names \subseteq Seq(STRING)
  BY DEF Names
<1> QED
  BY <1>1, <1>2, <1>3, <1>4 DEF ParseData

(* name(): the name an object was made with, and nothing happens to it.    *)
LEMMA NameFits ==
  ASSUME GoodDirectory(corpus), NEW h, Fine(corpus, h), Ok(h), NEW o \in Ids(h) \cup {NoObject}
  PROVE  LET g == Name(h, o) IN
         /\ Serves(corpus, h, g)
         /\ o \in Ids(h) /\ h.objects[o].data # Unknown => Ok(g)
         /\ Ok(g) => /\ o \in Ids(h) /\ h.objects[o].data # Unknown
                     /\ g.objects = h.objects /\ g.refs = h.refs
                     /\ g.result = h.objects[o].data.name /\ g.result \in Names
<1> DEFINE g == Name(h, o)
           c == CheckParsed(h, o)
           e == "AttributeError"
           n == h.objects[o].data.name
<1>1. /\ Serves(corpus, h, Raise(h, e)) /\ Raise(h, e).raised = e
      /\ Serves(corpus, h, Answer(h, n)) /\ Answer(h, n).objects = h.objects
      /\ Answer(h, n).refs = h.refs /\ Answer(h, n).result = n /\ Ok(Answer(h, n))
  BY ServesSame DEF Ok
<1>2. e # None
  BY DEF None
<1>3. ~ Ok(Raise(h, e))
  BY <1>1, <1>2 DEF Ok
<1>4. CASE o = NoObject
  <2>1. g = Raise(h, e)
    BY <1>4 DEF Name
  <2>2. o \notin Ids(h)
    BY <1>4 DEF Ids, NoObject
  <2> HIDE DEF g, e
  <2> QED
    BY <1>1, <1>3, <2>1, <2>2 DEF g
<1>5. CASE o # NoObject
  <2>1. o \in Ids(h)
    BY <1>5
  <2>2. g = IF h.objects[o].data # Unknown THEN Answer(h, n)
            ELSE IF h.objects[o].cls = "DoxyIndex" THEN Raise(h, e)
            ELSE IF Ok(c) THEN Raise(c, e) ELSE c
    BY <1>5, SMT DEF Name, Then, Object
  <2>3. Serves(corpus, h, c)
    BY <2>1, CheckParsedFits
  <2> HIDE DEF g, c
  <2>4. CASE h.objects[o].data # Unknown
    <3>1. h.objects[o].data \in ParseData
      BY <2>1, ObjectFields DEF Obj, Fine, Good
    <3>2. n \in Names
      BY <2>4, <3>1, NameOfData
    <3> HIDE DEF n
    <3>3. g = Answer(h, n)
      BY <2>2, <2>4
    <3> QED
      BY <1>1, <2>1, <2>4, <3>2, <3>3 DEF g, n
  <2>5. CASE h.objects[o].data = Unknown
    <3>1. g = Raise(h, e) \/ (Ok(c) /\ g = Raise(c, e)) \/ (~ Ok(c) /\ g = c)
      BY <2>2, <2>5
    <3>2. Serves(corpus, h, Raise(c, e))
      BY <2>3, ServesOn
    <3>3. ~ Ok(Raise(c, e))
      <4>1. Fine(corpus, c)
        BY <2>3 DEF Serves
      <4>2. Raise(c, e).raised = e
        BY <4>1, ServesSame
      <4> QED
        BY <1>2, <4>2 DEF Ok
    <3> HIDE DEF e
    <3>4. Serves(corpus, h, g) /\ ~ Ok(g)
      BY <1>1, <1>3, <2>3, <3>1, <3>2, <3>3
    <3> QED
      BY <2>5, <3>4 DEF g
  <2> QED
    BY <2>4, <2>5
<1> QED
  BY <1>4, <1>5

\* A call that changes one object and adds none.
Touches(h, g, o) ==
  /\ Len(g.objects) = Len(h.objects)
  /\ \A p \in Ids(h) \ {o} : g.objects[p] = h.objects[p]

(* What the caches of an object hold.                                      *)
LEMMA CacheTypes ==
  /\ \A f \in Lists : DOMAIN f \subseteq Categories /\ \A c \in DOMAIN f : f[c] \in Seq(Nat)
  /\ \A f \in Dicts : DOMAIN f \subseteq Categories /\ \A c \in DOMAIN f : f[c] \in Dict
  /\ \A f \in Dict : DOMAIN f \subseteq Seq(STRING) /\ \A n \in DOMAIN f : f[n] \in DictEntry
BY DEF Lists, Dicts, Dict

(* Entering something in a cache of an object changes no other thing.      *)
LEMMA CacheFits ==
  ASSUME NEW d, NEW h, Fine(d, h), NEW o \in Ids(h), h.objects[o].parsed, NEW g, NEW y,
         Sets(h, g, o, y), SameObject(h.objects[o], y), KeptObject(h.objects[o], y),
         CachesFit(d, g, y)
  PROVE  Serves(d, h, g)
<1> DEFINE x == h.objects[o]
<1>1. Good(d, h) /\ Heap(h) /\ ObjectFits(d, h, o) /\ Len(h.objects) \in Nat
  BY LenProperties DEF Fine, Good, Heap
<1>2. /\ Heap(g) /\ Len(g.objects) = Len(h.objects) /\ g.refs = h.refs /\ g.objects[o] = y
      /\ \A p \in Ids(h) \ {o} : g.objects[p] = h.objects[p]
  BY DEF Sets
<1>3. Grows(h, g, {o}) /\ (ObjectFits(d, g, o) => Good(d, g))
  BY <1>1, <1>2, OneObject
<1>4. /\ y.parsed /\ y.members = x.members /\ y.error = x.error /\ y.described = x.described
      /\ y.cls = x.cls /\ y.refid = x.refid
  BY DEF KeptObject, SameObject
<1> HIDE DEF x
<1>5. ObjectFits(d, g, o)
  <2>1. /\ x.cls = "DoxyIndex" <=> o = Index
        /\ \A i \in DOMAIN x.members : x.members[i] \in 0 .. Len(h.objects)
        /\ x.error => x.members = <<>> /\ ~ x.described /\ Reads(x.cls)
        /\ x.refid \in DOMAIN d.files /\ Reads(x.cls) =>
              (x.error <=> x.parsed /\ d.files[x.refid].state = "broken")
        /\ x.parsed
    BY <1>1 DEF ObjectFits, x
  <2> QED
    BY <1>2, <1>4, <2>1 DEF ObjectFits
<1>6. Grows(h, g, {})
  <2>1. \A p \in Ids(h) \ {} : h.objects[p].parsed => KeptObject(h.objects[p], g.objects[p])
    BY <1>2, <1>3 DEF Grows
  <2> QED
    BY <1>3, <2>1 DEF Grows
<1>7. h.objects[Index].parsed
  BY <1>1 DEF Fine, Ids, Index
<1>8. ASSUME NEW p \in Ids(g) \ {Index}
      PROVE  (p \in Ids(h) /\ h.objects[p].parsed) \/ ContentFits(d, g, p)
  <2>1. CASE g.objects[p].parsed
    BY <1>2, <2>1 DEF Ids
  <2>2. CASE ~ g.objects[p].parsed
    BY <2>2 DEF ContentFits
  <2> QED
    BY <2>1, <2>2
<1> QED
  BY <1>3, <1>5, <1>6, <1>7, <1>8, FineOn DEF Serves

-----------------------------------------------------------------------------
(* in_category for a class.                                                *)

(* An object of which a cache was set.                                     *)
LEMMA CachedObject ==
  ASSUME NEW x \in Obj
  PROVE  /\ \A l \in Lists : LET y == [x EXCEPT !.inCategory = l] IN
               /\ y \in Obj /\ SameObject(x, y) /\ y.inCategory = l
               /\ y.members = x.members /\ y.parsed = x.parsed /\ y.error = x.error
               /\ y.described = x.described /\ y.dictMembers = x.dictMembers
         /\ \A l \in Dicts : LET y == [x EXCEPT !.dictMembers = l] IN
               /\ y \in Obj /\ SameObject(x, y) /\ y.dictMembers = l
               /\ y.members = x.members /\ y.parsed = x.parsed /\ y.error = x.error
               /\ y.described = x.described /\ y.inCategory = x.inCategory
BY DEF Obj, SameObject

(* An assignment to a field that is no part of what an object is lets the  *)
(* heap grow.                                                              *)
LEMMA SetsGrows ==
  ASSUME NEW h, Heap(h), NEW o \in Ids(h), NEW g, NEW y, Sets(h, g, o, y),
         SameObject(h.objects[o], y)
  PROVE  Grows(h, g, Ids(h)) /\ Ids(g) = Ids(h)
<1>1. Len(h.objects) \in Nat
  BY LenProperties DEF Heap
<1> QED
  BY <1>1 DEF Sets, Grows, SameObject, Ids

(* The members of a class are kept for the next caller.                    *)
LEMMA RememberFits ==
  ASSUME NEW d, NEW h, Fine(d, h), NEW o \in Ids(h), h.objects[o].parsed,
         NEW cat \in Categories, NEW found \in Seq(Nat),
         \A i \in DOMAIN found : found[i] \in Ids(h),
         found = ListOf(d, h, cat, h.objects[o].members)
  PROVE  LET g == Remember(h, o, cat, found) IN
         /\ Serves(d, h, g) /\ g.result = found /\ g.raised = h.raised /\ Ids(g) = Ids(h)
         /\ g.objects[o].members = h.objects[o].members /\ Touches(h, g, o)
         /\ g.objects[o].parsed /\ g.objects[o].error = h.objects[o].error
         /\ cat \in DOMAIN g.objects[o].inCategory /\ g.objects[o].inCategory[cat] = found
<1> DEFINE x == h.objects[o]
           l == With(x.inCategory, cat, found)
           y == [x EXCEPT !.inCategory = l]
           k == [h EXCEPT !.objects[o] = y]
           g == Remember(h, o, cat, found)
<1>1. Good(d, h) /\ Heap(h) /\ x \in Obj /\ Len(h.objects) \in Nat
  BY ObjectFields DEF Fine, Good
<1>2. /\ CachesFit(d, h, x) /\ x.inCategory \in Lists /\ x.members \in Seq(Nat)
      /\ \A i \in DOMAIN x.members : x.members[i] \in 0 .. Len(h.objects)
  BY <1>1 DEF Good, ObjectFits, Obj
<1>3. l \in Lists
  BY <1>2, WithTypes
<1>4. /\ DOMAIN l = DOMAIN x.inCategory \cup {cat} /\ l[cat] = found
      /\ \A c \in DOMAIN x.inCategory \ {cat} : l[c] = x.inCategory[c]
  <2> DEFINE f == x.inCategory
  <2>1. l = With(f, cat, found)
    OBVIOUS
  <2> HIDE DEF l, f
  <2>2. /\ DOMAIN l = DOMAIN f \cup {cat} /\ l[cat] = found
        /\ \A c \in DOMAIN f \ {cat} : l[c] = f[c]
    BY <2>1 DEF With
  <2> QED
    BY <2>2 DEF f
<1> HIDE DEF l
<1>5. /\ y \in Obj /\ SameObject(x, y) /\ y.inCategory = l
      /\ y.members = x.members /\ y.parsed = x.parsed /\ y.error = x.error
      /\ y.described = x.described /\ y.dictMembers = x.dictMembers
  BY <1>1, <1>3, CachedObject
<1>6. g = Answer(k, found)
  <2>1. [h EXCEPT !.objects[o].inCategory = l] = k
    BY <1>1, OneField
  <2>2. [h EXCEPT !.objects[o].inCategory = With(@, cat, found)]
          = [h EXCEPT !.objects[o].inCategory = l]
    BY DEF l
  <2> QED
    BY <2>1, <2>2 DEF Remember
<1> HIDE DEF y
<1>7. Sets(h, k, o, y)
  <2>1. /\ Heap(k) /\ Len(k.objects) = Len(h.objects)
        /\ k.refs = h.refs /\ k.result = h.result /\ k.raised = h.raised
        /\ \A p \in Ids(h) : k.objects[p] = IF p = o THEN y ELSE h.objects[p]
    BY <1>1, <1>5, SetObject
  <2> HIDE DEF k
  <2> QED
    BY <2>1 DEF Sets
<1>8. \A c \in DOMAIN x.inCategory : x.inCategory[c] = ListOf(d, h, c, x.members)
  BY <1>2 DEF CachesFit
<1>9. \A c \in DOMAIN x.inCategory : c \in DOMAIN l /\ l[c] = x.inCategory[c]
  BY <1>4, <1>8
<1>10. KeptObject(x, y)
  BY <1>5, <1>9 DEF KeptObject
<1> HIDE DEF k, g, x
<1>11. Grows(h, k, Ids(h)) /\ Ids(k) = Ids(h)
  BY <1>1, <1>5, <1>7, SetsGrows DEF x
<1>12. \A c : ListOf(d, h, c, x.members) = ListOf(d, k, c, x.members)
  BY <1>2, <1>11, OfClassSame, BlocksSame DEF ListOf
<1>13. CachesFit(d, k, y)
  <2>1. ASSUME NEW c \in DOMAIN l
        PROVE  /\ \A i \in DOMAIN l[c] : l[c][i] \in Ids(k)
               /\ l[c] = ListOf(d, k, c, x.members)
    <3>1. CASE c = cat
      BY <1>4, <1>11, <1>12, <3>1 DEF x
    <3>2. CASE c # cat
      <4>1. c \in DOMAIN x.inCategory /\ l[c] = x.inCategory[c]
        BY <1>4, <3>2
      <4> QED
        BY <1>2, <1>8, <1>11, <1>12, <4>1 DEF CachesFit
    <3> QED
      BY <3>1, <3>2
  <2>2. ASSUME NEW c \in DOMAIN x.dictMembers
        PROVE  LET kept == IF c = None THEN x.members ELSE l[c] IN
               /\ c # "Block" /\ (c # None => c \in DOMAIN l)
               /\ \A i \in DOMAIN kept : kept[i] \in Ids(k)
               /\ DictFits(k, kept, x.dictMembers[c])
    <3> DEFINE kept == IF c = None THEN x.members ELSE l[c]
               was == IF c = None THEN x.members ELSE x.inCategory[c]
    <3>1. /\ c # "Block" /\ (c # None => c \in DOMAIN x.inCategory)
          /\ \A i \in DOMAIN was : was[i] \in Ids(h)
          /\ DictFits(h, was, x.dictMembers[c])
      BY <1>2 DEF CachesFit
    <3>2. kept = was /\ (c # None => c \in DOMAIN l)
      BY <1>9, <3>1
    <3> HIDE DEF kept, was
    <3>3. DictFits(k, was, x.dictMembers[c])
      BY <1>11, <3>1, DictFitsSame
    <3> QED
      BY <1>11, <3>1, <3>2, <3>3 DEF kept
  <2> QED
    BY <1>5, <2>1, <2>2 DEF CachesFit
<1>14. Serves(d, h, k)
  BY <1>5, <1>7, <1>10, <1>13, CacheFits DEF x
<1>15. Fine(d, k) /\ k.objects[o] = y /\ k.raised = h.raised
  BY <1>7, <1>14 DEF Serves, Sets
<1>16. /\ Serves(d, k, g) /\ g.objects = k.objects /\ g.result = found
       /\ g.raised = k.raised /\ Ids(g) = Ids(k)
  BY <1>6, <1>15, ServesSame
<1>17. Serves(d, h, g)
  BY <1>14, <1>16, ServesTrans
<1>18. /\ g.objects[o].members = x.members /\ g.objects[o].parsed = x.parsed
       /\ g.objects[o].error = x.error /\ g.objects[o].inCategory = l
  BY <1>5, <1>15, <1>16
<1>19. Touches(h, g, o)
  BY <1>7, <1>16 DEF Sets, Touches
<1> QED
  BY <1>4, <1>11, <1>15, <1>16, <1>17, <1>18, <1>19 DEF g, x

(* The members of a class are objects.                                     *)
LEMMA OfClassFits ==
  ASSUME NEW d, NEW h, Good(d, h), NEW o \in Ids(h), NEW cat
  PROVE  LET found == OfClass(h, cat, h.objects[o].members) IN
         found \in Seq(Nat) /\ \A i \in DOMAIN found : found[i] \in Ids(h)
<1> DEFINE ms == h.objects[o].members
           I == {i \in DOMAIN ms : IsOfClass(h, cat, ms[i])}
<1>1. Heap(h) /\ h.objects[o] \in Obj /\ Len(h.objects) \in Nat
  BY ObjectFields DEF Good
<1>2. ms \in Seq(Nat) /\ \A i \in DOMAIN ms : ms[i] \in 0 .. Len(h.objects)
  BY <1>1 DEF Obj, Good, ObjectFits
<1>3. OfClass(h, cat, ms) = Chosen(ms, I)
  BY DEF OfClass
<1> HIDE DEF ms
<1>4. \A i \in I \cap DOMAIN ms : ms[i] \in Ids(h)
  BY <1>1, <1>2 DEF IsOfClass, NoObject, Ids
<1> HIDE DEF I
<1>5. /\ Chosen(ms, I) \in Seq(Nat)
      /\ \A j \in DOMAIN Chosen(ms, I) : \E i \in I \cap DOMAIN ms : Chosen(ms, I)[j] = ms[i]
  BY <1>2, ChosenIn
<1> QED
  BY <1>3, <1>4, <1>5 DEF ms

\* The list of an object that in_category answers.
CategoryMembers(h, o, cat) ==
  IF cat = None THEN h.objects[o].members ELSE h.objects[o].inCategory[cat]

\* That list is there, and names objects.
CategoryListed(h, o, cat) ==
  /\ h.objects[o].parsed /\ ~ h.objects[o].error
  /\ cat # None => /\ cat \in DOMAIN h.objects[o].inCategory
                   /\ \A i \in DOMAIN CategoryMembers(h, o, cat) : CategoryMembers(h, o, cat)[i] \in Ids(h)
  /\ CategoryMembers(h, o, cat) \in Seq(Nat)
  /\ \A i \in DOMAIN CategoryMembers(h, o, cat) : CategoryMembers(h, o, cat)[i] \in 0 .. Len(h.objects)

(* in_category for a class.                                                *)
LEMMA InClassFits ==
  ASSUME GoodDirectory(corpus), NEW h, Fine(corpus, h), Ok(h), NEW o \in Ids(h),
         NEW cat \in Categories \ {"Block"}
  PROVE  LET g == InClass(h, o, cat) IN
         /\ Serves(corpus, h, g)
         /\ h.objects[o].parsed /\ ~ h.objects[o].error => Ok(g) /\ Touches(h, g, o)
         /\ Ok(g) => g.result = CategoryMembers(g, o, cat) /\ CategoryListed(g, o, cat)
<1> DEFINE c == ConfirmNoError(h, o)
           g == InClass(h, o, cat)
           found == OfClass(c, cat, c.objects[o].members)
<1>1. /\ Serves(corpus, h, c) /\ c.objects[o].parsed /\ (Ok(c) => ~ c.objects[o].error)
      /\ h.objects[o].parsed /\ ~ h.objects[o].error => c = h
  BY ConfirmNoErrorFits DEF Confirms
<1> HIDE DEF c
<1>2. g = IF Ok(c)
          THEN IF cat = None THEN Answer(c, c.objects[o].members)
               ELSE IF cat \in DOMAIN c.objects[o].inCategory
               THEN Answer(c, c.objects[o].inCategory[cat])
               ELSE Remember(c, o, cat, found)
          ELSE c
  BY SMT DEF InClass, Then, Object, c
<1>3. /\ Fine(corpus, c) /\ Good(corpus, c) /\ o \in Ids(c) /\ Heap(c)
      /\ c.objects[o] \in Obj /\ Len(c.objects) \in Nat
  BY <1>1, ServesIds, ObjectFields
<1> HIDE DEF g, found
<1>4. CASE ~ Ok(c)
  <2>1. g = c
    BY <1>2, <1>4
  <2> QED
    BY <1>1, <1>4, <2>1 DEF g
<1>5. CASE Ok(c) /\ cat = None
  <2> DEFINE v == c.objects[o].members
  <2>1. g = Answer(c, v)
    BY <1>2, <1>5
  <2>2. v \in Seq(Nat) /\ \A i \in DOMAIN v : v[i] \in 0 .. Len(c.objects)
    BY <1>3 DEF Obj, Good, ObjectFits
  <2>3. g.objects = c.objects /\ g.result = v /\ g.raised = c.raised
    BY <1>3, <2>1, ServesSame
  <2>4. Serves(corpus, h, g)
    BY <1>1, <2>1, ServesOn
  <2>5. CategoryListed(g, o, cat) /\ g.result = CategoryMembers(g, o, cat)
    BY <1>1, <1>5, <2>2, <2>3 DEF CategoryListed, CategoryMembers
  <2>6. Touches(c, g, o)
    BY <2>3 DEF Touches
  <2> QED
    BY <1>1, <1>5, <2>3, <2>4, <2>5, <2>6 DEF g, Ok
<1>6. CASE Ok(c) /\ cat # None /\ cat \in DOMAIN c.objects[o].inCategory
  <2> DEFINE v == c.objects[o].inCategory[cat]
  <2>1. g = Answer(c, v)
    BY <1>2, <1>6
  <2>2. v \in Seq(Nat) /\ \A i \in DOMAIN v : v[i] \in Ids(c)
    <3>1. CachesFit(corpus, c, c.objects[o]) /\ c.objects[o].inCategory \in Lists
      BY <1>3 DEF Good, ObjectFits, Obj
    <3> QED
      BY <1>6, <3>1, CacheTypes DEF CachesFit
  <2>3. /\ g.objects = c.objects /\ g.result = v /\ g.raised = c.raised /\ Ids(g) = Ids(c)
    BY <1>3, <2>1, ServesSame
  <2>4. Serves(corpus, h, g)
    BY <1>1, <2>1, ServesOn
  <2>5. Ids(c) \subseteq 0 .. Len(g.objects)
    BY <1>3, <2>3 DEF Ids
  <2>6. CategoryListed(g, o, cat) /\ g.result = CategoryMembers(g, o, cat)
    BY <1>1, <1>6, <2>2, <2>3, <2>5 DEF CategoryListed, CategoryMembers
  <2>7. Touches(c, g, o)
    BY <2>3 DEF Touches
  <2> QED
    BY <1>1, <1>6, <2>3, <2>4, <2>6, <2>7 DEF g, Ok
<1>7. CASE Ok(c) /\ cat # None /\ cat \notin DOMAIN c.objects[o].inCategory
  <2>1. g = Remember(c, o, cat, found)
    BY <1>2, <1>7
  <2>2. found \in Seq(Nat) /\ \A i \in DOMAIN found : found[i] \in Ids(c)
    BY <1>3, OfClassFits DEF found
  <2>3. found = ListOf(corpus, c, cat, c.objects[o].members)
    BY DEF found, ListOf
  <2>4. /\ Serves(corpus, c, g) /\ g.result = found /\ g.raised = c.raised /\ Ids(g) = Ids(c)
        /\ Touches(c, g, o)
        /\ g.objects[o].parsed /\ g.objects[o].error = c.objects[o].error
        /\ cat \in DOMAIN g.objects[o].inCategory /\ g.objects[o].inCategory[cat] = found
    BY <1>1, <1>3, <2>1, <2>2, <2>3, RememberFits
  <2>5. Serves(corpus, h, g)
    BY <1>1, <2>4, ServesTrans
  <2>6. Ids(c) \subseteq 0 .. Len(g.objects)
    <3>1. Len(g.objects) \in Nat
      BY <2>5, ServesIds
    <3> QED
      BY <2>4, <3>1 DEF Ids
  <2>7. CategoryListed(g, o, cat) /\ g.result = CategoryMembers(g, o, cat)
    BY <1>1, <1>7, <2>2, <2>4, <2>6 DEF CategoryListed, CategoryMembers
  <2> QED
    BY <1>1, <1>7, <2>4, <2>5, <2>7 DEF g, Ok
<1> QED
  BY <1>4, <1>5, <1>6, <1>7

-----------------------------------------------------------------------------
(* The other loops.                                                        *)

\* A turn of the loop that is named op.
PassOf(op, p, g, m) ==
  IF op = "enter" THEN EnterName(g, m)
  ELSE IF op = "select" THEN SelectBlock(g, m)
  ELSE IF op = "member" THEN MemberNamed(g, g.result, m, p)
  ELSE AddFunction(g, p, m)

\* The same, if no turn before it has raised.
TurnIfOk(op, p, g, m) == IF Ok(g) THEN PassOf(op, p, g, m) ELSE g

\* The values of a loop over s as the function that ForEach chooses.
Loop(f, op, p, h, s) ==
  f = [k \in 0 .. Len(s) |-> IF k = 0 THEN h ELSE TurnIfOk(op, p, f[k - 1], s[k])]

\* The same values, one by one.
Turns(f, op, p, h, s) ==
  /\ f[0] = h
  /\ \A k \in 1 .. Len(s) : f[k] = IF Ok(f[k - 1]) THEN PassOf(op, p, f[k - 1], s[k]) ELSE f[k - 1]

(* A loop has its values, one after another.                               *)
LEMMA LoopExists ==
  ASSUME NEW op, NEW p, NEW h, NEW s, Len(s) \in Nat
  PROVE  \E f : Loop(f, op, p, h, s)
<1> DEFINE n == Len(s)
           Steps(f, m) == /\ f = [k \in 0 .. m |-> f[k]] /\ f[0] = h
                          /\ \A k \in 1 .. m : f[k] = TurnIfOk(op, p, f[k - 1], s[k])
           S == {m \in Nat : \E f : Steps(f, m)}
<1> HIDE DEF n
<1>1. n \in Nat
  BY DEF n
<1>2. 0 \in S
  <2>1. Steps([k \in 0 .. 0 |-> h], 0)
    OBVIOUS
  <2> QED
    BY <2>1
<1>3. ASSUME NEW m \in 0 .. n - 1, m \in S PROVE m + 1 \in S
  <2>1. PICK f : Steps(f, m)
    BY <1>3
  <2>2. m \in Nat /\ m + 1 \in Nat
    BY <1>1
  <2> DEFINE v == TurnIfOk(op, p, f[m], s[m + 1])
             g == Extended(f, m, v)
  <2> HIDE DEF v, Steps, S
  <2>3. g = [k \in 0 .. m + 1 |-> g[k]]
    BY DEF Extended
  <2>4. /\ g[0] = f[0] /\ g[m + 1] = v /\ g[m] = f[m]
        /\ \A k \in 1 .. m : g[k] = f[k] /\ g[k - 1] = f[k - 1]
        /\ \A k \in 1 .. m + 1 : (k = m + 1 /\ k - 1 = m) \/ k \in 1 .. m
    BY <2>2, OneTurnMore
  <2> HIDE DEF g
  <2>5. f[0] = h /\ \A k \in 1 .. m : f[k] = TurnIfOk(op, p, f[k - 1], s[k])
    BY <2>1 DEF Steps
  <2>6. \A k \in 1 .. m + 1 : g[k] = TurnIfOk(op, p, g[k - 1], s[k])
    BY <2>4, <2>5 DEF v
  <2>7. Steps(g, m + 1)
    BY <2>3, <2>4, <2>5, <2>6 DEF Steps
  <2> QED
    BY <2>2, <2>7 DEF S
<1>4. n \in S
  <2>1. n \in 0 .. n
    BY <1>1
  <2> HIDE DEF S
  <2> QED
    BY <1>1, <1>2, <1>3, <2>1, Induction
<1>5. PICK f : Steps(f, n)
  BY <1>4
<1>6. f[0] = h /\ (\A k \in 1 .. n : f[k] = TurnIfOk(op, p, f[k - 1], s[k]))
  BY <1>5
<1>7. \A k \in 0 .. n : f[k] = IF k = 0 THEN h ELSE TurnIfOk(op, p, f[k - 1], s[k])
  BY <1>1, <1>6
<1>8. f = [k \in 0 .. n |-> f[k]]
  BY <1>5
<1>9. Loop(f, op, p, h, s)
  BY <1>7, <1>8 DEF Loop, n
<1> QED
  BY <1>9

(* The values between the turns of a loop: each is made from the one       *)
(* before it, unless that one had raised.                                  *)
LEMMA LoopTurns ==
  ASSUME NEW op, NEW p, NEW h, NEW s, Len(s) \in Nat, NEW f, Loop(f, op, p, h, s)
  PROVE  Turns(f, op, p, h, s)
<1>1. \A k \in 0 .. Len(s) : f[k] = IF k = 0 THEN h ELSE TurnIfOk(op, p, f[k - 1], s[k])
  BY DEF Loop
<1>2. 0 \in 0 .. Len(s) /\ \A k \in 1 .. Len(s) : k \in 0 .. Len(s) /\ k # 0
  OBVIOUS
<1> QED
  BY <1>1, <1>2 DEF Turns, TurnIfOk

(* The loop of _dict_members.                                              *)
LEMMA EnterTurns ==
  ASSUME NEW h, NEW s, Len(s) \in Nat
  PROVE  \E f : Turns(f, "enter", 0, h, s) /\ ForEach(h, s, EnterName) = f[Len(s)]
<1> DEFINE Are(f) == f = [k \in 0 .. Len(s) |->
                            IF k = 0 THEN h ELSE Then(f[k - 1], LAMBDA g : EnterName(g, s[k]))]
           r == CHOOSE f : Are(f)
<1>1. ForEach(h, s, EnterName) = r[Len(s)]
  BY DEF ForEach
<1>2. \A g, k : Then(g, LAMBDA x : EnterName(x, s[k])) = TurnIfOk("enter", 0, g, s[k])
  BY SMT DEF Then, TurnIfOk, PassOf
<1>3. \A f : Are(f) <=> Loop(f, "enter", 0, h, s)
  BY <1>2 DEF Loop
<1> HIDE DEF Are
<1>4. Are(r)
  BY <1>3, LoopExists
<1> HIDE DEF r
<1> QED
  BY <1>1, <1>3, <1>4, LoopTurns

-----------------------------------------------------------------------------
(* _get_dict_members and get_member.                                       *)

\* Those of the first k members of kept that have the name n.
NamedTo(h, kept, k, n) == {i \in 1 .. k : h.objects[kept[i]].data.name = n}

\* A dictionary of the first k members of kept by their names.
DictTo(h, kept, k, dict) ==
  /\ \A i \in 1 .. k : /\ kept[i] \in Ids(h) /\ h.objects[kept[i]].data # Unknown
                       /\ h.objects[kept[i]].data.name \in DOMAIN dict
  /\ \A n \in DOMAIN dict :
       \/ \E i \in NamedTo(h, kept, k, n) : NamedTo(h, kept, k, n) = {i} /\ dict[n] = kept[i]
       \/ (\E i, j \in NamedTo(h, kept, k, n) : i # j) /\ dict[n] = Duplicate

(* Before its first turn, the loop over the members has entered nothing.   *)
LEMMA DictToEmpty ==
  ASSUME NEW h, NEW kept
  PROVE  DictTo(h, kept, 0, <<>>)
<1>1. DOMAIN <<>> = {}
  BY EmptyCaches
<1> QED
  BY <1>1 DEF DictTo

(* After its last turn, the dictionary has all members.                    *)
LEMMA DictToAll ==
  ASSUME NEW h, NEW kept \in Seq(Nat), NEW dict, DictTo(h, kept, Len(kept), dict)
  PROVE  /\ DictFits(h, kept, dict)
         /\ \A i \in DOMAIN kept : kept[i] \in Ids(h)
<1>1. DOMAIN kept = 1 .. Len(kept)
  BY LenProperties
<1>2. \A n : Named(h, kept, n) = NamedTo(h, kept, Len(kept), n)
  BY <1>1 DEF Named, NamedTo, Object
<1> QED
  BY <1>1, <1>2 DEF DictTo, DictFits

(* A turn of the loop: a name that is new gets its member, and one that    *)
(* was there becomes Duplicate.                                            *)
LEMMA DictToMore ==
  ASSUME NEW h, NEW kept, NEW k \in Nat, NEW dict, DictTo(h, kept, k, dict),
         kept[k + 1] \in Ids(h), h.objects[kept[k + 1]].data # Unknown,
         NEW n, n = h.objects[kept[k + 1]].data.name,
         NEW v, v = IF n \in DOMAIN dict THEN Duplicate ELSE kept[k + 1],
         NEW g, g = With(dict, n, v)
  PROVE  DictTo(h, kept, k + 1, g)
<1>1. /\ DOMAIN g = DOMAIN dict \cup {n} /\ g[n] = v
      /\ \A y \in DOMAIN dict \ {n} : g[y] = dict[y]
  BY DEF With
<1>2. k + 1 \notin 1 .. k /\ 1 .. k + 1 = (1 .. k) \cup {k + 1}
  OBVIOUS
<1>3. \A i \in 1 .. k + 1 : kept[i] \in Ids(h) /\ h.objects[kept[i]].data.name \in DOMAIN g
  BY <1>1, <1>2 DEF DictTo
<1>4. \A y : y # n => NamedTo(h, kept, k + 1, y) = NamedTo(h, kept, k, y)
  BY <1>2 DEF NamedTo
<1>5. NamedTo(h, kept, k + 1, n) = NamedTo(h, kept, k, n) \cup {k + 1}
  BY <1>2 DEF NamedTo
<1>6. ASSUME NEW y \in DOMAIN g
      PROVE  \/ \E i \in NamedTo(h, kept, k + 1, y) :
                   NamedTo(h, kept, k + 1, y) = {i} /\ g[y] = kept[i]
             \/ (\E i, j \in NamedTo(h, kept, k + 1, y) : i # j) /\ g[y] = Duplicate
  <2>1. CASE y # n
    <3>1. y \in DOMAIN dict /\ g[y] = dict[y]
      BY <1>1, <2>1
    <3>2. NamedTo(h, kept, k + 1, y) = NamedTo(h, kept, k, y)
      BY <1>4, <2>1
    <3>3. \/ \E i \in NamedTo(h, kept, k, y) :
                NamedTo(h, kept, k, y) = {i} /\ dict[y] = kept[i]
          \/ (\E i, j \in NamedTo(h, kept, k, y) : i # j) /\ dict[y] = Duplicate
      BY <3>1 DEF DictTo
    <3> QED
      BY <3>1, <3>2, <3>3
  <2>2. CASE y = n /\ n \notin DOMAIN dict
    <3>1. NamedTo(h, kept, k, n) = {}
      BY <2>2 DEF DictTo, NamedTo
    <3>2. NamedTo(h, kept, k + 1, n) = {k + 1}
      BY <1>5, <3>1
    <3> QED
      BY <1>1, <2>2, <3>2
  <2>3. CASE y = n /\ n \in DOMAIN dict
    <3>1. PICK i \in NamedTo(h, kept, k, n) : TRUE
      BY <2>3 DEF DictTo
    <3>2. i # k + 1 /\ i \in NamedTo(h, kept, k + 1, n) /\ k + 1 \in NamedTo(h, kept, k + 1, n)
      BY <1>2, <1>5, <3>1 DEF NamedTo
    <3> QED
      BY <1>1, <2>3, <3>2
  <2> QED
    BY <2>1, <2>2, <2>3
<1> QED
  BY <1>3, <1>6 DEF DictTo

\* What the loop of _dict_members has done after k of the members in kept.
Entered(d, h, kept, g, k) ==
  /\ Serves(d, h, g)
  /\ Ok(g) => /\ g.objects = h.objects /\ g.refs = h.refs
              /\ g.result \in Dict /\ DictTo(h, kept, k, g.result)

(* A turn of the loop that fills a dictionary: asking the member for its   *)
(* name may make it read its file, and leaves the members before it as     *)
(* they were.                                                              *)
LEMMA EnterNameFits ==
  ASSUME GoodDirectory(corpus), NEW h, Fine(corpus, h), NEW kept \in Seq(Nat),
         \A i \in DOMAIN kept : kept[i] \in 0 .. Len(h.objects),
         NEW k \in Nat, k + 1 \in DOMAIN kept,
         NEW g, Entered(corpus, h, kept, g, k), Ok(g)
  PROVE  LET e == EnterName(g, kept[k + 1]) IN
         /\ Entered(corpus, h, kept, e, k + 1)
         /\ kept[k + 1] \in Ids(h) /\ h.objects[kept[k + 1]].data # Unknown => Ok(e)
<1> DEFINE m == kept[k + 1]
           x == Name(g, m)
           v == IF x.result \in DOMAIN g.result THEN Duplicate ELSE m
           e == EnterName(g, m)
<1>1. /\ Serves(corpus, h, g) /\ Fine(corpus, g) /\ g.objects = h.objects /\ g.refs = h.refs
      /\ g.result \in Dict /\ DictTo(h, kept, k, g.result)
      /\ Len(h.objects) \in Nat
  BY LenProperties DEF Entered, Serves, Fine, Good, Heap
<1>2. m \in Ids(g) \cup {NoObject} /\ m \in Nat
  BY <1>1 DEF Ids, NoObject
<1> HIDE DEF m
<1>3. /\ Serves(corpus, g, x)
      /\ m \in Ids(g) /\ g.objects[m].data # Unknown => Ok(x)
      /\ Ok(x) => /\ m \in Ids(g) /\ g.objects[m].data # Unknown
                  /\ x.objects = g.objects /\ x.refs = g.refs
                  /\ x.result = g.objects[m].data.name /\ x.result \in Names
  BY <1>1, <1>2, NameFits
<1> HIDE DEF x
<1>4. e = IF Ok(x) THEN Answer(x, With(g.result, x.result, v)) ELSE x
  BY SMT DEF EnterName, Then, x
<1> HIDE DEF e
<1>5. Serves(corpus, h, x)
  BY <1>1, <1>3, ServesTrans
<1>6. CASE ~ Ok(x)
  <2>1. e = x
    BY <1>4, <1>6
  <2> QED
    BY <1>1, <1>3, <1>5, <1>6, <2>1 DEF Entered, e, m, Ids
<1>7. CASE Ok(x)
  <2> DEFINE dict == With(g.result, x.result, v)
  <2>1. v \in DictEntry
    BY <1>2 DEF DictEntry
  <2>2. Names \subseteq Seq(STRING)
    BY DEF Names
  <2>3. dict \in Dict
    BY <1>1, <1>3, <1>7, <2>1, <2>2, WithTypes
  <2>4. m \in Ids(h) /\ x.result = h.objects[m].data.name /\ h.objects[m].data # Unknown
    BY <1>1, <1>3, <1>7 DEF Ids
  <2>5. DictTo(h, kept, k + 1, dict)
    <3>1. kept[k + 1] \in Ids(h) /\ x.result = h.objects[kept[k + 1]].data.name
          /\ h.objects[kept[k + 1]].data # Unknown
          /\ v = IF x.result \in DOMAIN g.result THEN Duplicate ELSE kept[k + 1]
      BY <2>4 DEF m
    <3>2. dict = With(g.result, x.result, v)
      OBVIOUS
    <3> HIDE DEF dict, v
    <3> QED
      BY <1>1, <3>1, <3>2, DictToMore
  <2> HIDE DEF dict, v
  <2>6. e = Answer(x, dict)
    BY <1>4, <1>7 DEF dict
  <2>7. Fine(corpus, x)
    BY <1>3 DEF Serves
  <2>8. /\ e.objects = x.objects /\ e.refs = x.refs /\ e.result = dict /\ e.raised = x.raised
    BY <2>6, <2>7, ServesSame
  <2>9. Serves(corpus, h, e)
    BY <1>5, <2>6, ServesOn
  <2> QED
    BY <1>1, <1>3, <1>7, <2>3, <2>5, <2>8, <2>9 DEF Entered, e, m, Ok
<1> QED
  BY <1>6, <1>7

(* The dictionary that _get_dict_members fills has every member of the     *)
(* list under its name, and the objects whose names it asked for are as    *)
(* they were.                                                              *)
LEMMA EnterAllFits ==
  ASSUME GoodDirectory(corpus), NEW h, Fine(corpus, h), Ok(h), NEW kept \in Seq(Nat),
         \A i \in DOMAIN kept : kept[i] \in 0 .. Len(h.objects), h.result = <<>>
  PROVE  LET g == ForEach(h, kept, EnterName) IN
         /\ Serves(corpus, h, g)
         /\ (\A i \in DOMAIN kept : kept[i] \in Ids(h) /\ h.objects[kept[i]].data # Unknown)
               => Ok(g)
         /\ Ok(g) => /\ g.objects = h.objects /\ g.refs = h.refs
                     /\ g.result \in Dict /\ DictFits(h, kept, g.result)
                     /\ \A i \in DOMAIN kept : kept[i] \in Ids(h)
<1> DEFINE n == Len(kept)
           g == ForEach(h, kept, EnterName)
<1>1. n \in Nat /\ DOMAIN kept = 1 .. n
  BY LenProperties
<1>2. PICK f : Turns(f, "enter", 0, h, kept) /\ g = f[n]
  BY <1>1, EnterTurns
<1>3. /\ f[0] = h
      /\ \A k \in 1 .. n : f[k] = IF Ok(f[k - 1]) THEN EnterName(f[k - 1], kept[k]) ELSE f[k - 1]
  BY <1>2 DEF Turns, PassOf
<1> HIDE DEF n, g
<1> DEFINE NamesKnown == \A i \in DOMAIN kept : /\ kept[i] \in Ids(h)
                                               /\ h.objects[kept[i]].data # Unknown
           S == {k \in 0 .. n : Entered(corpus, h, kept, f[k], k) /\ (NamesKnown => Ok(f[k]))}
<1>4. 0 \in S
  <2>1. Serves(corpus, h, h) /\ <<>> \in Dict
    BY ServesRefl, EmptyCaches
  <2>2. DictTo(h, kept, 0, <<>>)
    BY DictToEmpty
  <2>3. Entered(corpus, h, kept, f[0], 0)
    BY <1>3, <2>1, <2>2 DEF Entered
  <2> QED
    BY <1>1, <1>3, <2>3
<1>5. ASSUME NEW k \in 0 .. n - 1, k \in S PROVE k + 1 \in S
  <2>1. /\ k \in Nat /\ k + 1 \in 1 .. n /\ k + 1 \in 0 .. n /\ (k + 1) - 1 = k
        /\ k + 1 \in DOMAIN kept
    BY <1>1
  <2>2. Entered(corpus, h, kept, f[k], k) /\ (NamesKnown => Ok(f[k]))
    BY <1>5
  <2>3. f[k + 1] = IF Ok(f[k]) THEN EnterName(f[k], kept[k + 1]) ELSE f[k]
    BY <1>3, <2>1
  <2> HIDE DEF S
  <2>4. CASE Ok(f[k])
    <3>1. /\ Entered(corpus, h, kept, EnterName(f[k], kept[k + 1]), k + 1)
          /\ NamesKnown => Ok(EnterName(f[k], kept[k + 1]))
      BY <2>1, <2>2, <2>4, EnterNameFits
    <3> QED
      BY <2>1, <2>3, <2>4, <3>1 DEF S
  <2>5. CASE ~ Ok(f[k])
    <3>1. Entered(corpus, h, kept, f[k + 1], k + 1)
      BY <2>2, <2>3, <2>5 DEF Entered
    <3> QED
      BY <2>1, <2>2, <2>5, <3>1 DEF S
  <2> QED
    BY <2>4, <2>5
<1>6. n \in S
  <2>1. n \in 0 .. n
    BY <1>1
  <2> HIDE DEF S
  <2> QED
    BY <1>1, <1>4, <1>5, <2>1, Induction
<1>7. Entered(corpus, h, kept, g, n) /\ (NamesKnown => Ok(g))
  BY <1>2, <1>6
<1>8. Ok(g) => DictFits(h, kept, g.result) /\ \A i \in DOMAIN kept : kept[i] \in Ids(h)
  BY <1>7, DictToAll DEF Entered, n
<1> QED
  BY <1>7, <1>8 DEF Entered, g

(* A dictionary is kept for the next caller.                               *)
LEMMA KeepDictFits ==
  ASSUME NEW d, NEW h, Fine(d, h), NEW o \in Ids(h), h.objects[o].parsed,
         NEW cat \in Categories \ {"Block"}, NEW dict \in Dict, NEW kept,
         kept = CategoryMembers(h, o, cat), cat # None => cat \in DOMAIN h.objects[o].inCategory,
         \A i \in DOMAIN kept : kept[i] \in Ids(h), DictFits(h, kept, dict)
  PROVE  LET g == [h EXCEPT !.objects[o].dictMembers = With(@, cat, dict)] IN
         /\ Serves(d, h, g) /\ g.result = h.result /\ g.raised = h.raised
         /\ cat \in DOMAIN g.objects[o].dictMembers /\ g.objects[o].dictMembers[cat] = dict
         /\ Touches(h, g, o)
<1> DEFINE x == h.objects[o]
           f == x.dictMembers
           l == With(f, cat, dict)
           y == [x EXCEPT !.dictMembers = l]
           k == [h EXCEPT !.objects[o] = y]
           g == [h EXCEPT !.objects[o].dictMembers = With(@, cat, dict)]
<1>1. Good(d, h) /\ Heap(h) /\ x \in Obj /\ Len(h.objects) \in Nat
  BY ObjectFields DEF Fine, Good
<1>2. CachesFit(d, h, x) /\ f \in Dicts /\ x.members \in Seq(Nat)
      /\ \A i \in DOMAIN x.members : x.members[i] \in 0 .. Len(h.objects)
  BY <1>1 DEF Good, ObjectFits, Obj
<1>3. l \in Dicts
  <2>1. cat \in Categories
    OBVIOUS
  <2> QED
    BY <1>2, <2>1, WithTypes
<1>4. /\ DOMAIN l = DOMAIN f \cup {cat} /\ l[cat] = dict
      /\ \A c \in DOMAIN f \ {cat} : l[c] = f[c]
  <2> HIDE DEF f
  <2> QED
    BY DEF With
<1>5. g = k
  <2>1. [h EXCEPT !.objects[o].dictMembers = l] = k
    BY <1>1, OneField
  <2>2. [h EXCEPT !.objects[o].dictMembers = With(@, cat, dict)]
          = [h EXCEPT !.objects[o].dictMembers = l]
    BY DEF l
  <2> QED
    BY <2>1, <2>2
<1> HIDE DEF l
<1>6. /\ y \in Obj /\ SameObject(x, y) /\ y.dictMembers = l
      /\ y.members = x.members /\ y.parsed = x.parsed /\ y.error = x.error
      /\ y.described = x.described /\ y.inCategory = x.inCategory
  BY <1>1, <1>3, CachedObject
<1> HIDE DEF y
<1>7. Sets(h, k, o, y)
  <2>1. /\ Heap(k) /\ Len(k.objects) = Len(h.objects)
        /\ k.refs = h.refs /\ k.result = h.result /\ k.raised = h.raised
        /\ \A p \in Ids(h) : k.objects[p] = IF p = o THEN y ELSE h.objects[p]
    <3>1. Heap(h) /\ y \in Obj
      BY <1>1, <1>6
    <3> QED
      BY <3>1, SetObject
  <2> HIDE DEF k
  <2> QED
    BY <2>1 DEF Sets
<1>8. KeptObject(x, y)
  BY <1>6 DEF KeptObject
<1> HIDE DEF k, g, x
<1>9. Grows(h, k, Ids(h)) /\ Ids(k) = Ids(h)
  BY <1>1, <1>6, <1>7, SetsGrows DEF x
<1>10. \A c : ListOf(d, h, c, x.members) = ListOf(d, k, c, x.members)
  BY <1>2, <1>9, OfClassSame, BlocksSame DEF ListOf
<1>11. CachesFit(d, k, y)
  <2>1. ASSUME NEW c \in DOMAIN x.inCategory
        PROVE  /\ \A i \in DOMAIN x.inCategory[c] : x.inCategory[c][i] \in Ids(k)
               /\ x.inCategory[c] = ListOf(d, k, c, x.members)
    BY <1>2, <1>9, <1>10 DEF CachesFit
  <2>2. ASSUME NEW c \in DOMAIN l
        PROVE  LET was == IF c = None THEN x.members ELSE x.inCategory[c] IN
               /\ c # "Block" /\ (c # None => c \in DOMAIN x.inCategory)
               /\ \A i \in DOMAIN was : was[i] \in Ids(k)
               /\ DictFits(k, was, l[c])
    <3> DEFINE was == IF c = None THEN x.members ELSE x.inCategory[c]
    <3>1. CASE c = cat
      <4>1. was = kept /\ l[c] = dict
        BY <1>4, <3>1 DEF CategoryMembers, x
      <4>2. DictFits(k, kept, dict)
        BY <1>9, DictFitsSame
      <4>3. c # "Block" /\ (c # None => c \in DOMAIN x.inCategory)
        BY <3>1 DEF x
      <4> HIDE DEF was
      <4> QED
        BY <1>9, <4>1, <4>2, <4>3 DEF was
    <3>2. CASE c # cat
      <4>1. c \in DOMAIN f /\ l[c] = f[c]
        BY <1>4, <3>2
      <4>2. /\ c # "Block" /\ (c # None => c \in DOMAIN x.inCategory)
            /\ \A i \in DOMAIN was : was[i] \in Ids(h)
            /\ DictFits(h, was, f[c])
        BY <1>2, <4>1 DEF CachesFit
      <4> HIDE DEF was, f
      <4>3. DictFits(k, was, f[c])
        BY <1>9, <4>2, DictFitsSame
      <4> QED
        BY <1>9, <4>1, <4>2, <4>3 DEF was
    <3> QED
      BY <3>1, <3>2
  <2> HIDE DEF f
  <2> QED
    BY <1>6, <2>1, <2>2 DEF CachesFit
<1>12. Serves(d, h, k)
  BY <1>6, <1>7, <1>8, <1>11, CacheFits DEF x
<1>13. k.objects[o] = y /\ k.raised = h.raised /\ k.result = h.result
  BY <1>7 DEF Sets
<1>14. Touches(h, k, o)
  BY <1>7 DEF Sets, Touches
<1> QED
  BY <1>4, <1>5, <1>6, <1>12, <1>13, <1>14 DEF g

(* The members that a cached dictionary returns are objects of the heap.   *)
LEMMA DictValues ==
  ASSUME NEW d, NEW h, Fine(d, h), NEW o \in Ids(h), NEW c \in DOMAIN h.objects[o].dictMembers
  PROVE  LET dict == h.objects[o].dictMembers[c] IN
         dict \in Dict /\ \A n \in DOMAIN dict : dict[n] # Duplicate => dict[n] \in Ids(h)
<1> DEFINE x == h.objects[o]
           kept == IF c = None THEN x.members ELSE x.inCategory[c]
<1>1. Good(d, h) /\ x \in Obj
  BY ObjectFields DEF Fine, Good
<1>2. CachesFit(d, h, x) /\ x.dictMembers \in Dicts
  BY <1>1 DEF Good, ObjectFits, Obj
<1>3. x.dictMembers[c] \in Dict
  BY <1>2, CacheTypes
<1>4. (\A i \in DOMAIN kept : kept[i] \in Ids(h)) /\ DictFits(h, kept, x.dictMembers[c])
  BY <1>2 DEF CachesFit
<1> HIDE DEF kept
<1>5. \A n : Named(h, kept, n) \subseteq DOMAIN kept
  BY DEF Named
<1> QED
  BY <1>3, <1>4, <1>5 DEF DictFits

\* What _dict_members answers.
DictOf(h, o, cat) ==
  /\ cat \in DOMAIN h.objects[o].dictMembers /\ h.result = h.objects[o].dictMembers[cat]

\* The members of a class have names, those they were parsed with.
Nameable(h, o, cat) ==
  \A i \in DOMAIN h.objects[o].members :
    IsOfClass(h, cat, h.objects[o].members[i]) =>
        h.objects[h.objects[o].members[i]].data # Unknown

(* The members that in_category has kept for a class have names.           *)
LEMMA KeptNames ==
  ASSUME NEW d, NEW h, Fine(d, h), NEW o \in Ids(h), NEW cat \in Categories \ {None, "Block"},
         cat \in DOMAIN h.objects[o].inCategory, Nameable(h, o, cat)
  PROVE  LET kept == h.objects[o].inCategory[cat] IN
         \A i \in DOMAIN kept : kept[i] \in Ids(h) /\ h.objects[kept[i]].data # Unknown
<1> DEFINE ms == h.objects[o].members
           I == {i \in DOMAIN ms : IsOfClass(h, cat, ms[i])}
           kept == h.objects[o].inCategory[cat]
<1>1. Good(d, h) /\ h.objects[o] \in Obj
  BY ObjectFields DEF Fine, Good
<1>2. CachesFit(d, h, h.objects[o]) /\ ms \in Seq(Nat)
  BY <1>1 DEF Good, ObjectFits, Obj
<1>3. kept = Chosen(ms, I) /\ \A i \in DOMAIN kept : kept[i] \in Ids(h)
  BY <1>2 DEF CachesFit, ListOf, OfClass
<1>4. \A i \in I : h.objects[ms[i]].data # Unknown
  BY DEF Nameable
<1> HIDE DEF ms, kept, I
<1>5. \A j \in DOMAIN kept : \E i \in I \cap DOMAIN ms : kept[j] = ms[i]
  BY <1>2, <1>3, ChosenIn
<1> QED
  BY <1>3, <1>4, <1>5 DEF kept

(* Members go on having names.                                             *)
LEMMA NameableOn ==
  ASSUME NEW d, NEW h, Fine(d, h), NEW o \in Ids(h), h.objects[o].parsed, NEW cat,
         Nameable(h, o, cat), NEW g, Serves(d, h, g)
  PROVE  Nameable(g, o, cat)
<1>1. /\ Grows(h, g, {}) /\ g.objects[o].members = h.objects[o].members
      /\ Good(d, h) /\ Len(h.objects) \in Nat
  BY ServesIds DEF Serves, Grows, KeptObject
<1>2. /\ h.objects[o].members \in Seq(Nat)
      /\ \A i \in DOMAIN h.objects[o].members : h.objects[o].members[i] \in 0 .. Len(h.objects)
  BY <1>1, ObjectFields DEF Good, ObjectFits, Obj
<1>3. ASSUME NEW i \in DOMAIN h.objects[o].members, h.objects[o].members[i] # NoObject
      PROVE  SameObject(h.objects[h.objects[o].members[i]], g.objects[h.objects[o].members[i]])
  <2>1. h.objects[o].members[i] \in Ids(h)
    BY <1>1, <1>2, <1>3 DEF Ids, NoObject
  <2> QED
    BY <1>1, <2>1 DEF Grows
<1> QED
  BY <1>1, <1>3 DEF Nameable, IsOfClass, Object, SameObject

(* _dict_members.                                                          *)
LEMMA DictMembersFits ==
  ASSUME GoodDirectory(corpus), NEW h, Fine(corpus, h), Ok(h), NEW o \in Ids(h),
         NEW cat \in Categories \ {"Block"}
  PROVE  LET g == DictMembers(h, o, cat) IN
         /\ Serves(corpus, h, g) /\ (Ok(g) => DictOf(g, o, cat))
         /\ h.objects[o].parsed /\ ~ h.objects[o].error /\ cat # None /\ Nameable(h, o, cat) =>
               Ok(g) /\ Touches(h, g, o)
<1> DEFINE c == ConfirmNoError(h, o)
           x == InClass(c, o, cat)
           a == Answer(x, <<>>)
           e == ForEach(a, x.result, EnterName)
           k == [e EXCEPT !.objects[o].dictMembers = With(@, cat, e.result)]
           g == DictMembers(h, o, cat)
<1> DEFINE Sure == /\ h.objects[o].parsed /\ ~ h.objects[o].error
                   /\ cat # None /\ Nameable(h, o, cat)
<1>1. /\ Serves(corpus, h, c) /\ c.objects[o].parsed /\ (Ok(c) => ~ c.objects[o].error)
      /\ Sure => c = h
  BY ConfirmNoErrorFits DEF Confirms
<1> HIDE DEF Sure
<1>2. Ok(c) => /\ Serves(corpus, c, x) /\ Ok(x) /\ Touches(c, x, o)
               /\ Ok(x) => x.result = CategoryMembers(x, o, cat) /\ CategoryListed(x, o, cat)
  <2> HIDE DEF c
  <2>1. Fine(corpus, c) /\ o \in Ids(c)
    BY <1>1, ServesIds
  <2> QED
    BY <1>1, <2>1, InClassFits
<1>3. g = IF Ok(c)
          THEN IF cat \in DOMAIN c.objects[o].dictMembers
               THEN Answer(c, c.objects[o].dictMembers[cat])
               ELSE IF Ok(x) THEN IF Ok(e) THEN k ELSE e ELSE x
          ELSE c
  <2> HIDE DEF x, e, k, c
  <2>1. \A y : Then(ForEach(Answer(y, <<>>), y.result, EnterName),
                    LAMBDA z : [z EXCEPT !.objects[o].dictMembers = With(@, cat, z.result)])
               = LET z == ForEach(Answer(y, <<>>), y.result, EnterName) IN
                 IF Ok(z) THEN [z EXCEPT !.objects[o].dictMembers = With(@, cat, z.result)] ELSE z
    BY SMT DEF Then
  <2>2. Then(x, LAMBDA y : Then(ForEach(Answer(y, <<>>), y.result, EnterName),
                    LAMBDA z : [z EXCEPT !.objects[o].dictMembers = With(@, cat, z.result)]))
        = IF Ok(x) THEN IF Ok(e) THEN k ELSE e ELSE x
    BY <2>1, SMT DEF Then, e, k
  <2> QED
    BY <2>2, SMT DEF DictMembers, Then, Object, c, x
<1> HIDE DEF g, k, e
<1>4. CASE ~ Ok(c)
  BY <1>1, <1>3, <1>4 DEF g, Sure
<1>5. CASE Ok(c) /\ cat \in DOMAIN c.objects[o].dictMembers
  <2> DEFINE v == c.objects[o].dictMembers[cat]
  <2>1. g = Answer(c, v)
    BY <1>3, <1>5
  <2> HIDE DEF c, x
  <2>2. Fine(corpus, c)
    BY <1>1 DEF Serves
  <2>3. g.objects = c.objects /\ g.result = v /\ g.raised = c.raised
    BY <2>1, <2>2, ServesSame
  <2>4. Serves(corpus, h, g)
    BY <1>1, <2>1, ServesOn
  <2>5. Ok(g) /\ Touches(c, g, o)
    BY <1>5, <2>3 DEF Ok, Touches
  <2> QED
    BY <1>1, <1>5, <2>3, <2>4, <2>5 DEF g, DictOf, Sure
<1>7. CASE Ok(c) /\ cat \notin DOMAIN c.objects[o].dictMembers
  <2> DEFINE kept == x.result
  <2>1. g = IF Ok(e) THEN k ELSE e
    BY <1>2, <1>3, <1>7
  <2> HIDE DEF x, c
  <2>2. Serves(corpus, h, x) /\ Fine(corpus, x) /\ o \in Ids(x)
    <3>1. Serves(corpus, h, x)
      BY <1>1, <1>2, <1>7, ServesTrans
    <3> QED
      BY <3>1, ServesIds
  <2>3. kept = CategoryMembers(x, o, cat) /\ CategoryListed(x, o, cat)
    BY <1>2, <1>7
  <2>4. /\ a.objects = x.objects /\ a.result = <<>> /\ a.raised = x.raised /\ Ids(a) = Ids(x)
        /\ Serves(corpus, x, a) /\ Fine(corpus, a)
    BY <2>2, ServesSame DEF Serves
  <2>5. kept \in Seq(Nat) /\ \A i \in DOMAIN kept : kept[i] \in 0 .. Len(x.objects)
    BY <2>3 DEF CategoryListed
  <2> HIDE DEF a, kept
  <2>6. Ok(a) /\ \A i \in DOMAIN kept : kept[i] \in 0 .. Len(a.objects)
    BY <1>2, <1>7, <2>4, <2>5 DEF Ok
  <2>7. e = ForEach(a, kept, EnterName)
    BY DEF e, kept
  <2>8. /\ Serves(corpus, a, e)
        /\ (\A i \in DOMAIN kept : kept[i] \in Ids(a) /\ a.objects[kept[i]].data # Unknown)
              => Ok(e)
        /\ Ok(e) => /\ e.objects = a.objects /\ e.refs = a.refs
                    /\ e.result \in Dict /\ DictFits(a, kept, e.result)
                    /\ \A i \in DOMAIN kept : kept[i] \in Ids(a)
    BY <2>4, <2>5, <2>6, <2>7, EnterAllFits
  <2>9. Serves(corpus, x, e) /\ Serves(corpus, h, e)
    <3>1. Serves(corpus, x, e)
      BY <2>2, <2>4, <2>8, ServesTrans
    <3> QED
      BY <2>2, <3>1, ServesTrans
  <2>10. Sure => Ok(e)
    <3> SUFFICES ASSUME Sure PROVE Ok(e)
      OBVIOUS
    <3>1. c = h /\ h.objects[o].parsed /\ cat # None /\ Nameable(h, o, cat)
      BY <1>1 DEF Sure
    <3>2. Nameable(x, o, cat)
      BY <2>2, <3>1, NameableOn
    <3>3. cat \in DOMAIN x.objects[o].inCategory /\ kept = x.objects[o].inCategory[cat]
      BY <2>3, <3>1 DEF CategoryListed, CategoryMembers
    <3>4. \A i \in DOMAIN kept : kept[i] \in Ids(x) /\ x.objects[kept[i]].data # Unknown
      BY <2>2, <3>1, <3>2, <3>3, KeptNames
    <3> QED
      BY <2>4, <2>8, <3>4
  <2>12. CASE ~ Ok(e)
    BY <2>1, <2>9, <2>10, <2>12 DEF g, Sure
  <2>11. CASE Ok(e)
    <3> DEFINE dict == e.result
    <3>1. /\ e.objects = x.objects /\ Fine(corpus, e) /\ o \in Ids(e) /\ Ids(e) = Ids(x)
      BY <2>2, <2>4, <2>8, <2>11, ServesIds DEF Ids, Serves
    <3>2. /\ e.objects[o].parsed /\ kept = CategoryMembers(e, o, cat)
          /\ cat # None => cat \in DOMAIN e.objects[o].inCategory
      BY <2>3, <3>1 DEF CategoryListed, CategoryMembers
    <3>3. DictFits(e, kept, dict) /\ \A i \in DOMAIN kept : kept[i] \in Ids(e)
      BY <2>4, <2>8, <2>11, <3>1 DEF DictFits, Named, Object
    <3>4. dict \in Dict
      BY <2>8, <2>11
    <3>5. k = [e EXCEPT !.objects[o].dictMembers = With(@, cat, dict)]
      BY DEF k
    <3> HIDE DEF dict
    <3>6. /\ Serves(corpus, e, k) /\ k.result = e.result /\ k.raised = e.raised
          /\ cat \in DOMAIN k.objects[o].dictMembers /\ k.objects[o].dictMembers[cat] = dict
          /\ Touches(e, k, o)
      BY <3>1, <3>2, <3>3, <3>4, <3>5, KeepDictFits
    <3>7. Serves(corpus, h, k)
      BY <2>9, <3>6, ServesTrans
    <3>8. g = k /\ Ok(k)
      BY <2>1, <2>11, <3>6 DEF Ok
    <3>9. Touches(c, k, o)
      BY <1>2, <1>7, <3>1, <3>6 DEF Touches, Ids
    <3> QED
      BY <1>1, <3>6, <3>7, <3>8, <3>9 DEF g, DictOf, dict, Sure
  <2> QED
    BY <2>11, <2>12
<1> QED
  BY <1>4, <1>5, <1>7

(* The member of a name.                                                   *)
LEMMA MemberNamedFits ==
  ASSUME GoodDirectory(corpus), NEW h, Fine(corpus, h), Ok(h), NEW o \in Ids(h), NEW word,
         NEW cat \in Categories \ {"Block"}
  PROVE  LET g == MemberNamed(h, o, word, cat) IN
         Serves(corpus, h, g) /\ (Ok(g) => g.result \in Ids(g))
<1> DEFINE x == DictMembers(h, o, cat)
           n == <<word>>
           g == MemberNamed(h, o, word, cat)
<1>1. Serves(corpus, h, x) /\ (Ok(x) => DictOf(x, o, cat))
  BY DictMembersFits
<1> HIDE DEF x
<1>2. g = IF Ok(x)
          THEN IF n \notin DOMAIN x.result THEN Raise(x, "NoSuchMember")
               ELSE IF x.result[n] = Duplicate THEN Raise(x, "Duplicate")
               ELSE Answer(x, x.result[n])
          ELSE x
  BY SMT DEF MemberNamed, Then, x
<1> HIDE DEF g, n
<1>3. Fine(corpus, x) /\ o \in Ids(x)
  BY <1>1, ServesIds
<1>4. /\ Serves(corpus, h, Raise(x, "NoSuchMember")) /\ Serves(corpus, h, Raise(x, "Duplicate"))
      /\ Serves(corpus, h, Answer(x, x.result[n]))
  BY <1>1, ServesOn
<1>5. /\ Raise(x, "NoSuchMember").raised = "NoSuchMember" /\ Raise(x, "Duplicate").raised = "Duplicate"
      /\ Answer(x, x.result[n]).result = x.result[n] /\ Ids(Answer(x, x.result[n])) = Ids(x)
  BY <1>3, ServesSame
<1>6. ~ Ok(Raise(x, "NoSuchMember")) /\ ~ Ok(Raise(x, "Duplicate"))
  BY <1>5 DEF Ok, None
<1>7. Ok(x) => \A y \in DOMAIN x.result : x.result[y] # Duplicate => x.result[y] \in Ids(x)
  BY <1>1, <1>3, DictValues DEF DictOf
<1> QED
  BY <1>1, <1>2, <1>4, <1>5, <1>6, <1>7 DEF g

\* The loop of get_member, from the object in h.result.
Find(h, s, cat) == ForEach(h, s, LAMBDA g, word : MemberNamed(g, g.result, word, cat))

(* get_member's way through the parts of a qualified name, part by part.   *)
LEMMA MemberTurns ==
  ASSUME NEW h, NEW s, Len(s) \in Nat, NEW cat
  PROVE  \E f : Turns(f, "member", cat, h, s) /\ Find(h, s, cat) = f[Len(s)]
<1> DEFINE Are(f) == f = [k \in 0 .. Len(s) |->
                            IF k = 0 THEN h
                            ELSE Then(f[k - 1], LAMBDA g : MemberNamed(g, g.result, s[k], cat))]
           r == CHOOSE f : Are(f)
<1>1. Find(h, s, cat) = r[Len(s)]
  BY DEF Find, ForEach
<1>2. \A g, k : Then(g, LAMBDA x : MemberNamed(x, x.result, s[k], cat))
                  = TurnIfOk("member", cat, g, s[k])
  BY SMT DEF Then, TurnIfOk, PassOf
<1>3. \A f : Are(f) <=> Loop(f, "member", cat, h, s)
  BY <1>2 DEF Loop
<1> HIDE DEF Are
<1>4. Are(r)
  BY <1>3, LoopExists
<1> HIDE DEF r
<1> QED
  BY <1>1, <1>3, <1>4, LoopTurns

\* What a look-up of a name has found so far: an object.
Met(d, h, g) == Serves(d, h, g) /\ (Ok(g) => g.result \in Ids(g))

(* get_member.                                                             *)
LEMMA GetMemberFits ==
  ASSUME GoodDirectory(corpus), NEW h, Fine(corpus, h), Ok(h), NEW o \in Ids(h),
         NEW s, Len(s) \in Nat, NEW cat \in Categories \ {"Block"}
  PROVE  Met(corpus, h, GetMember(h, o, s, cat))
<1> DEFINE n == Len(s)
           g == GetMember(h, o, s, cat)
           a == Answer(h, o)
<1>1. PICK f : Turns(f, "member", cat, a, s) /\ g = f[n]
  <2>1. g = Find(a, s, cat)
    BY DEF GetMember, Find
  <2> HIDE DEF g, a
  <2> QED
    BY <2>1, MemberTurns
<1>2. /\ f[0] = a
      /\ \A k \in 1 .. n : f[k] = IF Ok(f[k - 1])
                                  THEN MemberNamed(f[k - 1], f[k - 1].result, s[k], cat)
                                  ELSE f[k - 1]
  BY <1>1 DEF Turns, PassOf
<1> HIDE DEF n, g, a
<1>3. n \in Nat
  BY DEF n
<1> DEFINE S == {k \in 0 .. n : Met(corpus, h, f[k])}
<1>4. 0 \in S
  <2>1. Serves(corpus, h, a) /\ a.result = o /\ Ids(a) = Ids(h)
    BY ServesSame DEF a
  <2>2. Met(corpus, h, f[0])
    BY <1>2, <2>1 DEF Met
  <2> QED
    BY <1>3, <2>2
<1>5. ASSUME NEW k \in 0 .. n - 1, k \in S PROVE k + 1 \in S
  <2>1. k + 1 \in 1 .. n /\ k + 1 \in 0 .. n /\ (k + 1) - 1 = k
    BY <1>3
  <2>2. Met(corpus, h, f[k])
    BY <1>5
  <2>3. f[k + 1] = IF Ok(f[k]) THEN MemberNamed(f[k], f[k].result, s[k + 1], cat) ELSE f[k]
    BY <1>2, <2>1
  <2> HIDE DEF S
  <2> DEFINE x == f[k]
             p == x.result
             w == s[k + 1]
             y == MemberNamed(x, p, w, cat)
  <2>4. CASE Ok(f[k])
    <3>1. Serves(corpus, h, x) /\ p \in Ids(x) /\ Ok(x)
      BY <2>2, <2>4 DEF Met
    <3>2. f[k + 1] = y
      BY <2>3, <2>4
    <3> HIDE DEF x, p, w
    <3>3. Fine(corpus, x)
      BY <3>1 DEF Serves
    <3>4. Serves(corpus, x, y) /\ (Ok(y) => y.result \in Ids(y))
      BY <3>1, <3>3, MemberNamedFits
    <3> HIDE DEF y
    <3>5. Serves(corpus, h, y)
      BY <3>1, <3>4, ServesTrans
    <3> QED
      BY <2>1, <3>2, <3>4, <3>5 DEF S, Met
  <2>5. CASE ~ Ok(f[k])
    BY <2>1, <2>2, <2>3, <2>5 DEF S
  <2> QED
    BY <2>4, <2>5
<1>6. n \in S
  <2>1. n \in 0 .. n
    BY <1>3
  <2> HIDE DEF S
  <2> QED
    BY <1>3, <1>4, <1>5, <2>1, Induction
<1> QED
  BY <1>1, <1>6 DEF g

(* An exception that a try statement catches leaves the heap as the call   *)
(* that raised it did.                                                     *)
LEMMA CaughtFits ==
  ASSUME NEW d, NEW h, Fine(d, h), NEW g, Serves(d, h, g), NEW v
  PROVE  LET c == Answer([g EXCEPT !.raised = None], v) IN
         /\ Serves(d, h, c) /\ c.objects = g.objects /\ Ids(c) = Ids(g) /\ c.result = v
<1> DEFINE r == Raise(g, None)
           c == Answer(r, v)
<1>1. c = Answer([g EXCEPT !.raised = None], v)
  BY DEF Raise
<1>2. Fine(d, g)
  BY DEF Serves
<1>3. Serves(d, g, r) /\ r.objects = g.objects /\ Ids(r) = Ids(g)
  BY <1>2, ServesSame
<1> HIDE DEF r
<1>4. Fine(d, r)
  BY <1>3 DEF Serves
<1>5. Serves(d, r, c) /\ c.objects = r.objects /\ Ids(c) = Ids(r) /\ c.result = v
  BY <1>4, ServesSame
<1> HIDE DEF c
<1>6. Serves(d, h, r)
  BY <1>3, ServesTrans
<1>7. Serves(d, h, c)
  BY <1>5, <1>6, ServesTrans
<1>8. Serves(d, h, c) /\ c.objects = g.objects /\ Ids(c) = Ids(g) /\ c.result = v
  BY <1>3, <1>5, <1>7
<1> QED
  BY <1>1, <1>8

(* has_member.                                                             *)
LEMMA FoundFits ==
  ASSUME NEW d, NEW h, Fine(d, h), NEW g, Serves(d, h, g)
  PROVE  Serves(d, h, Found(g))
<1> DEFINE c == Answer([g EXCEPT !.raised = None], FALSE)
<1>1. Serves(d, h, c) /\ Serves(d, h, Answer(g, TRUE))
  BY CaughtFits, ServesOn
<1> HIDE DEF c
<1>2. Found(g) = c \/ Found(g) = Answer(g, TRUE) \/ Found(g) = g
  <2>1. CASE g.raised = "NoSuchMember"
    <3>1. ~ Ok(g)
      BY <2>1 DEF Ok, None
    <3> QED
      BY <2>1, <3>1 DEF Found, c
  <2>2. CASE g.raised # "NoSuchMember"
    BY <2>2 DEF Found
  <2> QED
    BY <2>1, <2>2
<1> QED
  BY <1>1, <1>2

(* A name with another last part is as long as it was.                     *)
LEMMA RenamedLength ==
  ASSUME NEW s \in Seq(STRING), NEW v
  PROVE  Len([s EXCEPT ![Len(s)] = v]) \in Nat
<1> DEFINE t == [s EXCEPT ![Len(s)] = v]
<1>1. DOMAIN s = 1 .. Len(s) /\ Len(s) \in Nat
  BY LenProperties
<1>2. t = [i \in 1 .. Len(s) |-> t[i]]
  BY <1>1
<1> HIDE DEF t
<1>3. t \in Seq({t[i] : i \in 1 .. Len(s)})
  BY <1>1, <1>2, SeqDef
<1> QED
  BY <1>3, LenProperties DEF t

-----------------------------------------------------------------------------
(* What a search by class and name finds.                                  *)

\* The elements of c are those of s at the places p, the ones in I up to k.
Places(s, I, c, p, k) ==
  /\ \A j \in 1 .. Len(c) : p[j] \in I /\ p[j] <= k /\ c[j] = s[p[j]]
  /\ \A i \in I : i <= k => \E j \in 1 .. Len(c) : p[j] = i
  /\ \A j, l \in 1 .. Len(c) : p[j] = p[l] => j = l

(* One more place.                                                         *)
LEMMA OnePlaceMore ==
  ASSUME NEW V, NEW s, NEW I \in SUBSET Nat, NEW c \in Seq(V), NEW p, NEW k \in Nat,
         Places(s, I, c, p, k), k + 1 \in I, s[k + 1] \in V
  PROVE  \E q : Places(s, I, Append(c, s[k + 1]), q, k + 1)
<1> DEFINE n == Len(c)
           b == Append(c, s[k + 1])
           q == [j \in 1 .. n + 1 |-> IF j = n + 1 THEN k + 1 ELSE p[j]]
<1>1. n \in Nat /\ Len(b) = n + 1 /\ b[n + 1] = s[k + 1] /\ \A j \in 1 .. n : b[j] = c[j]
  BY AppendProperties, LenProperties
<1>2. q[n + 1] = k + 1 /\ \A j \in 1 .. n : q[j] = p[j]
  BY <1>1
<1> HIDE DEF b, q
<1>3. \A j \in 1 .. n : p[j] \in I /\ p[j] \in Nat /\ p[j] <= k /\ c[j] = s[p[j]]
  BY DEF Places
<1>4. ASSUME NEW j \in 1 .. n + 1 PROVE q[j] \in I /\ q[j] <= k + 1 /\ b[j] = s[q[j]]
  <2>1. CASE j = n + 1
    BY <1>1, <1>2, <2>1
  <2>2. CASE j \in 1 .. n
    BY <1>1, <1>2, <1>3, <2>2
  <2> QED
    BY <1>1, <2>1, <2>2
<1>5. ASSUME NEW i \in I, i <= k + 1 PROVE \E j \in 1 .. n + 1 : q[j] = i
  <2>1. CASE i = k + 1
    BY <1>1, <1>2, <2>1
  <2>2. CASE i <= k
    <3>1. PICK j \in 1 .. n : p[j] = i
      BY <2>2 DEF Places
    <3> QED
      BY <1>1, <1>2, <3>1
  <2> QED
    BY <1>5, <2>1, <2>2
<1>6. ASSUME NEW j \in 1 .. n + 1, NEW l \in 1 .. n + 1, q[j] = q[l] PROVE j = l
  <2>1. CASE j \in 1 .. n /\ l \in 1 .. n
    BY <1>2, <1>6, <2>1 DEF Places
  <2>2. CASE j = n + 1 \/ l = n + 1
    <3>1. \A m \in 1 .. n : q[m] # k + 1
      BY <1>2, <1>3
    <3> QED
      BY <1>1, <1>2, <1>6, <2>2, <3>1
  <2> QED
    BY <1>1, <2>1, <2>2
<1>7. Places(s, I, b, q, k + 1)
  BY <1>1, <1>4, <1>5, <1>6 DEF Places
<1> QED
  BY <1>7 DEF b

(* A selection has each selected place once, in order.                     *)
LEMMA ChosenPlaces ==
  ASSUME NEW V, NEW s \in Seq(V), NEW I \in SUBSET (DOMAIN s)
  PROVE  \E p : Places(s, I, Chosen(s, I), p, Len(s))
<1>1. Len(s) \in Nat /\ DOMAIN s = 1 .. Len(s) /\ I \in SUBSET Nat
  BY LenProperties
<1>2. PICK f : /\ f[0] = <<>>
               /\ \A k \in 1 .. Len(s) :
                     f[k] = IF k \in I THEN Append(f[k - 1], s[k]) ELSE f[k - 1]
               /\ Chosen(s, I) = f[Len(s)]
  BY <1>1, ChosenTurns
<1> DEFINE S == {k \in 0 .. Len(s) : f[k] \in Seq(V) /\ \E p : Places(s, I, f[k], p, k)}
<1>3. 0 \in S
  <2>1. <<>> \in Seq(V) /\ Len(<<>>) = 0 /\ 1 .. Len(<<>>) = {} /\ 0 \in 0 .. Len(s)
    BY <1>1, EmptySeq
  <2>2. \A i \in I : ~ (i <= 0)
    BY <1>1
  <2>3. Places(s, I, <<>>, <<>>, 0)
    BY <2>1, <2>2 DEF Places
  <2> QED
    BY <1>2, <2>1, <2>3
<1>4. ASSUME NEW k \in 0 .. Len(s) - 1, k \in S PROVE k + 1 \in S
  <2>1. k \in Nat /\ k + 1 \in 1 .. Len(s) /\ (k + 1) - 1 = k /\ k + 1 \in 0 .. Len(s)
    BY <1>1
  <2>2. f[k] \in Seq(V) /\ \E p : Places(s, I, f[k], p, k)
    BY <1>4
  <2>3. PICK p : Places(s, I, f[k], p, k)
    BY <2>2
  <2>4. f[k + 1] = IF k + 1 \in I THEN Append(f[k], s[k + 1]) ELSE f[k]
    BY <1>2, <2>1
  <2>5. s[k + 1] \in V
    BY <2>1, ElementOfSeq
  <2>6. f[k + 1] \in Seq(V)
    BY <2>2, <2>4, <2>5, AppendProperties
  <2>7. CASE k + 1 \in I
    <3>1. \E q : Places(s, I, Append(f[k], s[k + 1]), q, k + 1)
      BY <1>1, <2>1, <2>2, <2>3, <2>5, <2>7, OnePlaceMore
    <3> QED
      BY <2>1, <2>4, <2>6, <2>7, <3>1
  <2>8. CASE k + 1 \notin I
    <3>1. \A i \in I : i <= k + 1 <=> i <= k
      BY <1>1, <2>1, <2>8
    <3>2. \A i \in Nat : i <= k => i <= k + 1
      BY <2>1
    <3>3. Places(s, I, f[k], p, k + 1)
      BY <2>3, <3>1 DEF Places
    <3> QED
      BY <2>1, <2>4, <2>6, <2>8, <3>3
  <2> QED
    BY <2>7, <2>8
<1>5. Len(s) \in S
  <2>1. Len(s) \in 0 .. Len(s)
    BY <1>1
  <2> HIDE DEF S
  <2> QED
    BY <1>1, <1>3, <1>4, <2>1, Induction
<1> QED
  BY <1>2, <1>5

\* The members of an object that are of a class and have a name.
Having(h, o, cat, n) ==
  {i \in DOMAIN h.objects[o].members :
     /\ IsOfClass(h, cat, h.objects[o].members[i])
     /\ h.objects[h.objects[o].members[i]].data.name = n}

(* The members of an object that has been read do not change, nor do their *)
(* names.                                                                  *)
LEMMA HavingOn ==
  ASSUME NEW d, NEW h, Fine(d, h), NEW o \in Ids(h), h.objects[o].parsed, NEW cat, NEW n,
         NEW g, Serves(d, h, g)
  PROVE  Having(g, o, cat, n) = Having(h, o, cat, n)
<1>1. /\ Grows(h, g, {}) /\ g.objects[o].members = h.objects[o].members
      /\ Good(d, h) /\ Len(h.objects) \in Nat
  BY ServesIds DEF Serves, Grows, KeptObject
<1>2. /\ h.objects[o].members \in Seq(Nat)
      /\ \A i \in DOMAIN h.objects[o].members : h.objects[o].members[i] \in 0 .. Len(h.objects)
  BY <1>1, ObjectFields DEF Good, ObjectFits, Obj
<1>3. ASSUME NEW i \in DOMAIN h.objects[o].members, h.objects[o].members[i] # NoObject
      PROVE  SameObject(h.objects[h.objects[o].members[i]], g.objects[h.objects[o].members[i]])
  <2>1. h.objects[o].members[i] \in Ids(h)
    BY <1>1, <1>2, <1>3 DEF Ids, NoObject
  <2> QED
    BY <1>1, <2>1 DEF Grows
<1> QED
  BY <1>1, <1>3 DEF Having, IsOfClass, Object, SameObject

\* What a look-up of one word among the members of a class answers.
Answers(h, o, cat, n, g) ==
  \/ \E i \in Having(h, o, cat, n) :
        Having(h, o, cat, n) = {i} /\ Ok(g) /\ g.result = h.objects[o].members[i]
  \/ Having(h, o, cat, n) = {} /\ g.raised = "NoSuchMember"
  \/ (\E i, j \in Having(h, o, cat, n) : i # j) /\ g.raised = "Duplicate"

(* The dictionary of a class answers what a search of the members would.   *)
LEMMA DictAnswers ==
  ASSUME NEW d, NEW h, Fine(d, h), NEW o \in Ids(h), NEW cat \in Categories \ {None, "Block"},
         cat \in DOMAIN h.objects[o].dictMembers, NEW n
  PROVE  LET dict == h.objects[o].dictMembers[cat] IN
         \/ \E i \in Having(h, o, cat, n) :
               /\ Having(h, o, cat, n) = {i} /\ n \in DOMAIN dict
               /\ dict[n] = h.objects[o].members[i] /\ dict[n] # Duplicate
         \/ Having(h, o, cat, n) = {} /\ n \notin DOMAIN dict
         \/ (\E i, j \in Having(h, o, cat, n) : i # j) /\ n \in DOMAIN dict /\ dict[n] = Duplicate
<1> DEFINE ms == h.objects[o].members
           I == {i \in DOMAIN ms : IsOfClass(h, cat, ms[i])}
           kept == h.objects[o].inCategory[cat]
           dict == h.objects[o].dictMembers[cat]
           P == Having(h, o, cat, n)
           N == Named(h, kept, n)
<1>1. Good(d, h) /\ h.objects[o] \in Obj
  BY ObjectFields DEF Fine, Good
<1>2. CachesFit(d, h, h.objects[o]) /\ ms \in Seq(Nat)
  BY <1>1 DEF Good, ObjectFits, Obj
<1>3. /\ kept = Chosen(ms, I) /\ (\A i \in DOMAIN kept : kept[i] \in Ids(h))
      /\ DictFits(h, kept, dict)
  BY <1>2 DEF CachesFit, ListOf, OfClass
<1>4. P = {i \in I : h.objects[ms[i]].data.name = n}
  BY DEF Having
<1> HIDE DEF ms, kept, I, dict, P
<1>5. I \in SUBSET (DOMAIN ms)
  BY DEF I
<1>6. PICK p : Places(ms, I, kept, p, Len(ms))
  BY <1>2, <1>3, <1>5, ChosenPlaces
<1>7. kept \in Seq(Nat) /\ DOMAIN kept = 1 .. Len(kept) /\ DOMAIN ms = 1 .. Len(ms) /\ Len(ms) \in Nat
  BY <1>2, <1>3, ChosenIn, LenProperties
<1>8. \A j \in DOMAIN kept : p[j] \in I /\ kept[j] = ms[p[j]]
  BY <1>6, <1>7 DEF Places
<1>9. \A i \in I : \E j \in DOMAIN kept : p[j] = i
  BY <1>5, <1>6, <1>7 DEF Places
<1>10. \A j, l \in DOMAIN kept : p[j] = p[l] => j = l
  BY <1>6, <1>7 DEF Places
<1>11. \A j \in N : p[j] \in P /\ kept[j] = ms[p[j]]
  BY <1>4, <1>8 DEF Named, Object
<1>12. \A i \in P : \E j \in N : p[j] = i
  BY <1>4, <1>8, <1>9 DEF Named, Object
<1>13. \A j, l \in N : p[j] = p[l] => j = l
  BY <1>10 DEF Named
<1>14. N # {} => n \in DOMAIN dict
  BY <1>3 DEF DictFits, Named, Object
<1>15. n \in DOMAIN dict => \/ \E j \in N : N = {j} /\ dict[n] = kept[j]
                            \/ (\E j, l \in N : j # l) /\ dict[n] = Duplicate
  BY <1>3 DEF DictFits
<1>16. \A j \in N : kept[j] \in Ids(h)
  BY <1>3 DEF Named
<1> HIDE DEF N
<1>17. CASE n \notin DOMAIN dict
  BY <1>12, <1>14, <1>17 DEF dict, P
<1>18. ASSUME NEW j \in N, N = {j}, n \in DOMAIN dict, dict[n] = kept[j]
       PROVE  /\ p[j] \in P /\ P = {p[j]} /\ dict[n] = ms[p[j]] /\ dict[n] # Duplicate
  <2>1. dict[n] # Duplicate
    BY <1>16, <1>18 DEF Ids, Duplicate
  <2> QED
    BY <1>11, <1>12, <1>18, <2>1
<1>19. CASE n \in DOMAIN dict /\ \E j \in N : N = {j} /\ dict[n] = kept[j]
  BY <1>18, <1>19 DEF dict, P, ms
<1>20. CASE n \in DOMAIN dict /\ (\E j, l \in N : j # l) /\ dict[n] = Duplicate
  <2>1. \E i, j \in P : i # j
    BY <1>11, <1>13, <1>20
  <2> QED
    BY <1>20, <2>1 DEF dict, P
<1> QED
  BY <1>15, <1>17, <1>19, <1>20

(* A word is looked up: the one member of the class that has it for its    *)
(* name is the answer, and there are no side effects but new cache entries *)
(* of the object.                                                          *)
LEMMA MemberNamedExact ==
  ASSUME GoodDirectory(corpus), NEW h, Fine(corpus, h), Ok(h), NEW o \in Ids(h),
         h.objects[o].parsed, ~ h.objects[o].error, NEW word,
         NEW cat \in Categories \ {None, "Block"}, Nameable(h, o, cat)
  PROVE  LET g == MemberNamed(h, o, word, cat) IN
         Serves(corpus, h, g) /\ Touches(h, g, o) /\ Answers(h, o, cat, <<word>>, g)
<1> DEFINE x == DictMembers(h, o, cat)
           n == <<word>>
           dict == x.objects[o].dictMembers[cat]
           g == MemberNamed(h, o, word, cat)
<1>1. Serves(corpus, h, x) /\ Ok(x) /\ DictOf(x, o, cat) /\ Touches(h, x, o)
  BY DictMembersFits
<1> HIDE DEF x
<1>2. x.result = dict /\ cat \in DOMAIN x.objects[o].dictMembers
  BY <1>1 DEF DictOf
<1>3. g = IF n \notin DOMAIN x.result THEN Raise(x, "NoSuchMember")
          ELSE IF x.result[n] = Duplicate THEN Raise(x, "Duplicate")
          ELSE Answer(x, x.result[n])
  BY <1>1, SMT DEF MemberNamed, Then, x
<1>4. Fine(corpus, x) /\ o \in Ids(x)
  BY <1>1, ServesIds
<1>5. /\ Serves(corpus, h, Raise(x, "NoSuchMember")) /\ Serves(corpus, h, Raise(x, "Duplicate"))
      /\ Serves(corpus, h, Answer(x, x.result[n]))
  BY <1>1, ServesOn
<1>6. /\ Raise(x, "NoSuchMember").raised = "NoSuchMember" /\ Raise(x, "Duplicate").raised = "Duplicate"
      /\ Answer(x, x.result[n]).result = x.result[n] /\ Answer(x, x.result[n]).raised = x.raised
      /\ \A y \in {Raise(x, "NoSuchMember"), Raise(x, "Duplicate"), Answer(x, x.result[n])} :
            y.objects = x.objects
  BY <1>4, ServesSame
<1>7. x.objects[o].members = h.objects[o].members
  BY <1>1 DEF Serves, Grows, KeptObject
<1>8. Having(x, o, cat, n) = Having(h, o, cat, n)
  BY <1>1, HavingOn
<1> HIDE DEF g, n, dict
<1>9. \/ \E i \in Having(h, o, cat, n) :
           /\ Having(h, o, cat, n) = {i} /\ n \in DOMAIN dict
           /\ dict[n] = h.objects[o].members[i] /\ dict[n] # Duplicate
      \/ Having(h, o, cat, n) = {} /\ n \notin DOMAIN dict
      \/ (\E i, j \in Having(h, o, cat, n) : i # j) /\ n \in DOMAIN dict /\ dict[n] = Duplicate
  <2>1. \/ \E i \in Having(x, o, cat, n) :
             /\ Having(x, o, cat, n) = {i} /\ n \in DOMAIN dict
             /\ dict[n] = x.objects[o].members[i] /\ dict[n] # Duplicate
        \/ Having(x, o, cat, n) = {} /\ n \notin DOMAIN dict
        \/ (\E i, j \in Having(x, o, cat, n) : i # j) /\ n \in DOMAIN dict /\ dict[n] = Duplicate
    BY <1>2, <1>4, DictAnswers DEF dict
  <2> QED
    BY <1>7, <1>8, <2>1
<1>10. Serves(corpus, h, g) /\ g.objects = x.objects
  BY <1>3, <1>5, <1>6
<1>11. Touches(h, g, o)
  BY <1>1, <1>10 DEF Touches
<1>12. Answers(h, o, cat, n, g)
  BY <1>1, <1>2, <1>3, <1>6, <1>9 DEF Answers, Ok
<1> QED
  BY <1>10, <1>11, <1>12 DEF g, n

-----------------------------------------------------------------------------
(* What a class or a header keeps of its file.                             *)

\* The kinds of nodes, by the classes look-ups ask for.
KindOf == [c \in {"DoxyFunction", "DoxyFriend", "DoxyFile", "DoxyClass"} |->
             IF c = "DoxyFunction" THEN "function"
             ELSE IF c = "DoxyFriend" THEN "friend"
             ELSE IF c = "DoxyFile" THEN "file" ELSE "class"]

(* Each of these classes is that of one kind.                              *)
LEMMA NodeKinds ==
  ASSUME NEW c \in DOMAIN KindOf, NEW x
  PROVE  Parsed(x).cls = c <=> x.kind = KindOf[c]
<1>1. Parsed(x).cls = IF x.kind \in DOMAIN ClassOfKind THEN ClassOfKind[x.kind] ELSE None
  BY DEF Parsed
<1>2. \A k \in DOMAIN ClassOfKind : ClassOfKind[k] = c <=> k = KindOf[c]
  BY DEF ClassOfKind, KindOf
<1>3. KindOf[c] \in DOMAIN ClassOfKind
  BY DEF ClassOfKind, KindOf
<1>4. c # None
  BY DEF KindOf, None
<1> QED
  BY <1>1, <1>2, <1>3, <1>4

(* The first definitions of their names: no two have the same name, and    *)
(* they are what the file keeps.                                           *)
LEMMA FirstsAre ==
  ASSUME NEW d, GoodDirectory(d), NEW r \in DOMAIN d.files
  PROVE  LET firsts == FirstOfName(d.files[r].memberdefs) IN
         /\ \A i, j \in 1 .. Len(firsts) : firsts[i].name = firsts[j].name => i = j
         /\ \A k, n : n \in Kept(d, r, k) <=>
               \E i \in 1 .. Len(firsts) : firsts[i].kind = k /\ firsts[i].name = n
<1> DEFINE defs == d.files[r].memberdefs
           I == {i \in DOMAIN defs : IsFirst(defs, i)}
           firsts == FirstOfName(defs)
<1>1. d.files[r] \in Files
  BY DirectoryHas
<1>2. defs \in Seq(Memberdefs) /\ Len(defs) \in Nat /\ DOMAIN defs = 1 .. Len(defs)
  BY <1>1, LenProperties DEF Files
<1>3. firsts = Chosen(defs, I)
  BY <1>2, FirstOfNameIs
<1>4. \A k : Kept(d, r, k) = {defs[i].name : i \in {i \in DOMAIN defs : defs[i].kind = k /\ IsFirst(defs, i)}}
  BY DEF Kept
<1>5. \A i, j \in I : defs[i].name = defs[j].name => i = j
  <2>1. \A i \in I : i \in 1 .. Len(defs) /\ \A j \in 1 .. (i - 1) : defs[j].name # defs[i].name
    BY <1>2 DEF IsFirst
  <2> HIDE DEF I, defs
  <2>2. ASSUME NEW i \in I, NEW j \in I, defs[i].name = defs[j].name, i < j PROVE FALSE
    <3>1. i \in 1 .. (j - 1)
      BY <1>2, <2>1, <2>2
    <3> QED
      BY <2>1, <2>2, <3>1
  <2>3. \A i \in I : i \in Nat
    BY <1>2, <2>1
  <2>4. \A i, j \in I : i < j \/ j < i \/ i = j
    BY <2>3
  <2> QED
    BY <2>2, <2>4
<1>6. I \in SUBSET (DOMAIN defs)
  OBVIOUS
<1>7. \A k, n : n \in Kept(d, r, k) <=> \E i \in I : defs[i].kind = k /\ defs[i].name = n
  BY <1>4
<1> HIDE DEF I, defs, firsts
<1>8. PICK p : Places(defs, I, firsts, p, Len(defs))
  BY <1>2, <1>3, <1>6, ChosenPlaces
<1>9. \A j \in 1 .. Len(firsts) : p[j] \in I /\ firsts[j] = defs[p[j]]
  BY <1>8 DEF Places
<1>10. \A i \in I : \E j \in 1 .. Len(firsts) : p[j] = i
  BY <1>2, <1>6, <1>8 DEF Places
<1>11. \A i, j \in 1 .. Len(firsts) : p[i] = p[j] => i = j
  BY <1>8 DEF Places
<1>12. \A i, j \in 1 .. Len(firsts) : firsts[i].name = firsts[j].name => i = j
  BY <1>5, <1>9, <1>11
<1>13. \A k, n : (\E i \in I : defs[i].kind = k /\ defs[i].name = n) <=>
                 (\E i \in 1 .. Len(firsts) : firsts[i].kind = k /\ firsts[i].name = n)
  BY <1>9, <1>10
<1> QED
  BY <1>7, <1>12, <1>13 DEF firsts, defs

(* The nodes of a file that can be read.                                   *)
LEMMA DefinitionsAre ==
  ASSUME NEW d, GoodDirectory(d), NEW r \in DOMAIN d.files
  PROVE  LET own == Definitions(d.files[r]) IN
         /\ Len(own) \in Nat
         /\ \A i \in 1 .. Len(own) : own[i] = Parsed(own[i].data) /\ own[i].data \in Memberdefs
         /\ \A i, j \in 1 .. Len(own) : own[i].data.name = own[j].data.name => i = j
         /\ \A c \in DOMAIN KindOf : \A n : n \in Kept(d, r, KindOf[c]) <=>
               \E i \in 1 .. Len(own) : own[i].cls = c /\ own[i].data.name = n
<1> DEFINE firsts == FirstOfName(d.files[r].memberdefs)
           own == Definitions(d.files[r])
<1>1. d.files[r] \in Files
  BY DirectoryHas
<1>2. /\ firsts \in Seq(Memberdefs) /\ Len(own) = Len(firsts) /\ Len(own) \in Nat
      /\ \A i \in 1 .. Len(own) : own[i].data = firsts[i]
  BY <1>1, DefinitionsFit
<1>3. \A i \in 1 .. Len(own) : own[i] = Parsed(firsts[i])
  BY <1>2 DEF Definitions
<1>4. \A i \in 1 .. Len(own) : firsts[i] \in Memberdefs
  BY <1>2, ElementOfSeq
<1>5. /\ \A i, j \in 1 .. Len(firsts) : firsts[i].name = firsts[j].name => i = j
      /\ \A k, n : n \in Kept(d, r, k) <=>
            \E i \in 1 .. Len(firsts) : firsts[i].kind = k /\ firsts[i].name = n
  BY FirstsAre
<1> HIDE DEF firsts, own
<1>6. \A c \in DOMAIN KindOf : \A i \in 1 .. Len(own) : own[i].cls = c <=> firsts[i].kind = KindOf[c]
  BY <1>3, NodeKinds
<1> QED
  BY <1>2, <1>3, <1>4, <1>5, <1>6 DEF own

\* An object whose members are the first definitions of its file.
HasFile(d, h, o) ==
  /\ h.objects[o].parsed /\ ~ h.objects[o].error /\ h.objects[o].refid \in DOMAIN d.files
  /\ MadeOf(h, h.objects[o].members, Definitions(d.files[h.objects[o].refid]))

(* What has been kept of the file is among its members, once.              *)
LEMMA KeptHaving ==
  ASSUME NEW d, GoodDirectory(d), NEW h, Fine(d, h), NEW o \in Ids(h), HasFile(d, h, o),
         NEW c \in DOMAIN KindOf, NEW n
  PROVE  /\ Having(h, o, c, n) # {} <=> n \in Kept(d, h.objects[o].refid, KindOf[c])
         /\ \A i, j \in Having(h, o, c, n) : i = j
         /\ Nameable(h, o, c)
<1> DEFINE r == h.objects[o].refid
           ms == h.objects[o].members
           own == Definitions(d.files[r])
<1>1. /\ Len(own) \in Nat
      /\ \A i \in 1 .. Len(own) : own[i] = Parsed(own[i].data) /\ own[i].data \in Memberdefs
      /\ \A i, j \in 1 .. Len(own) : own[i].data.name = own[j].data.name => i = j
      /\ n \in Kept(d, r, KindOf[c]) <=>
            \E i \in 1 .. Len(own) : own[i].cls = c /\ own[i].data.name = n
  <2>1. r \in DOMAIN d.files
    BY DEF HasFile
  <2> HIDE DEF r
  <2> QED
    BY <2>1, DefinitionsAre
<1>2. Good(d, h) /\ h.objects[o] \in Obj
  BY ObjectFields DEF Fine, Good
<1>3. ms \in Seq(Nat) /\ DOMAIN ms = 1 .. Len(ms)
  BY <1>2, LenProperties DEF Obj
<1>4. Len(ms) = Len(own) /\ \A i \in 1 .. Len(own) : StandsFor(h, ms[i], own[i])
  BY DEF HasFile, MadeOf
<1>5. Having(h, o, c, n) = {i \in DOMAIN ms : IsOfClass(h, c, ms[i]) /\ h.objects[ms[i]].data.name = n}
  BY DEF Having
<1>6. Nameable(h, o, c) <=> \A i \in DOMAIN ms : IsOfClass(h, c, ms[i]) => h.objects[ms[i]].data # Unknown
  BY DEF Nameable
<1> HIDE DEF ms, own, r
<1>7. c # None
  BY DEF KindOf, None
<1>8. \A m \in Memberdefs : m # Unknown
  <2>1. \A m \in Memberdefs : m.name # <<>>
    BY DEF Memberdefs, Names
  <2> QED
    BY <2>1 DEF Unknown
<1>9. ASSUME NEW i \in 1 .. Len(own)
      PROVE  /\ IsOfClass(h, c, ms[i]) <=> own[i].cls = c
             /\ own[i].cls = c => h.objects[ms[i]].data = own[i].data
  <2>1. CASE own[i].cls = None
    BY <1>4, <1>7, <2>1 DEF StandsFor, IsOfClass
  <2>2. CASE own[i].cls # None
    <3>1. ms[i] \in Ids(h) /\ h.objects[ms[i]].cls = own[i].cls /\ h.objects[ms[i]].data = own[i].data
      BY <1>4, <2>2 DEF StandsFor
    <3>2. ms[i] # NoObject
      BY <3>1 DEF Ids, NoObject
    <3> QED
      BY <3>1, <3>2 DEF IsOfClass, Object
  <2> QED
    BY <2>1, <2>2
<1>10. Having(h, o, c, n) = {i \in 1 .. Len(own) : own[i].cls = c /\ own[i].data.name = n}
  <2>1. DOMAIN ms = 1 .. Len(own)
    BY <1>3, <1>4
  <2>2. \A i \in 1 .. Len(own) :
          IsOfClass(h, c, ms[i]) /\ h.objects[ms[i]].data.name = n
            <=> own[i].cls = c /\ own[i].data.name = n
    BY <1>9
  <2> QED
    BY <1>5, <2>1, <2>2
<1>11. Nameable(h, o, c)
  BY <1>1, <1>3, <1>4, <1>6, <1>8, <1>9
<1> QED
  BY <1>1, <1>10, <1>11 DEF r

-----------------------------------------------------------------------------
(* What a look-up leaves alone.                                            *)

(* _check_parsed of an object that is not the index reads it once; it      *)
(* raises when its file does, and changes no other object.                 *)
LEMMA CheckParsedExact ==
  ASSUME GoodDirectory(corpus), NEW h, Fine(corpus, h), Ok(h), NEW o \in Ids(h) \ {Index}
  PROVE  LET g == CheckParsed(h, o) IN
         /\ Serves(corpus, h, g) /\ g.objects[o].parsed
         /\ Only(h, g, o) /\ Bare(h, g)
         /\ h.objects[o].parsed => g = h
         /\ ~ h.objects[o].parsed =>
               IF Raises(corpus, h.objects[o]) THEN g.raised \in {"Unreadable", "AttributeError"}
               ELSE Ok(g)
<1> DEFINE g == CheckParsed(h, o)
<1>1. Serves(corpus, h, g) /\ g.objects[o].parsed /\ (h.objects[o].parsed => g = h)
  BY CheckParsedFits
<1>2. CASE h.objects[o].parsed
  <2>1. g = h
    BY <1>1, <1>2
  <2> HIDE DEF g
  <2>2. Only(h, g, o) /\ Bare(h, g)
    <3>1. Len(h.objects) \in Nat
      BY LenProperties DEF Fine, Good, Heap
    <3> QED
      BY <2>1, <3>1 DEF Only, Bare, SameObject
  <2> QED
    BY <1>1, <1>2, <2>2 DEF g
<1>3. CASE ~ h.objects[o].parsed
  <2>1. h.objects[o].cls # "DoxyIndex"
    BY DEF Fine, Good, ObjectFits
  <2>2. g = ReadFile(h, o)
    BY <1>3, <2>1 DEF CheckParsed, Object
  <2>3. Good(corpus, h) /\ Unread(h, o)
    BY <1>3 DEF Fine, Unread
  <2> HIDE DEF g
  <2>4. Read(corpus, h, g, o)
    BY <2>2, <2>3, ReadFileFits
  <2> QED
    BY <1>1, <1>3, <2>4 DEF Read, g
<1> QED
  BY <1>2, <1>3

\* A call that reads classes only if they are the object o.
Spares(h, g, o) ==
  \A p \in Ids(g) \ {o} : g.objects[p].cls = "DoxyClass" /\ g.objects[p].parsed =>
    p \in Ids(h) /\ h.objects[p].parsed

(* Steps that touch or read one object spare the classes that are others.  *)
LEMMA TouchesSpares ==
  ASSUME NEW h, NEW g, NEW p, NEW o, Touches(h, g, p) \/ (Only(h, g, p) /\ Bare(h, g)),
         p = o \/ g.objects[p].cls # "DoxyClass"
  PROVE  Spares(h, g, o)
<1>1. CASE Touches(h, g, p)
  <2>1. Ids(g) = Ids(h)
    BY <1>1 DEF Touches, Ids
  <2> QED
    BY <1>1, <2>1 DEF Touches, Spares
<1>2. CASE Only(h, g, p) /\ Bare(h, g)
  BY <1>2 DEF Only, Bare, Spares
<1> QED
  BY <1>1, <1>2

(* Two calls that spare the classes make one that does.                    *)
LEMMA SparesTrans ==
  ASSUME NEW d, NEW h, NEW g, NEW k, NEW o, Fine(d, h), Serves(d, h, g), Serves(d, g, k),
         Spares(h, g, o), Spares(g, k, o)
  PROVE  Spares(h, k, o)
<1>1. \A p \in Ids(g) : SameObject(g.objects[p], k.objects[p])
  BY DEF Serves, Grows
<1> QED
  BY <1>1 DEF Spares, SameObject

(* An answer or an exception spares what was spared before it.             *)
LEMMA SparesSame ==
  ASSUME NEW h, NEW g, NEW k, NEW o, Spares(h, g, o), k.objects = g.objects
  PROVE  Spares(h, k, o)
BY DEF Spares, Ids

(* _get_dict_members starts with confirm_no_error, which has no effect a   *)
(* second time.                                                            *)
LEMMA ConfirmTwice ==
  ASSUME GoodDirectory(corpus), NEW h, Fine(corpus, h), Ok(h), NEW o \in Ids(h), NEW word,
         NEW cat, Ok(ConfirmNoError(h, o))
  PROVE  MemberNamed(h, o, word, cat) = MemberNamed(ConfirmNoError(h, o), o, word, cat)
<1> DEFINE c == ConfirmNoError(h, o)
           e == ConfirmNoError(c, o)
<1>1. Confirms(corpus, h, c, o)
  BY ConfirmNoErrorFits
<1> HIDE DEF c
<1>2. Fine(corpus, c) /\ o \in Ids(c) /\ Ok(c) /\ c.objects[o].parsed /\ ~ c.objects[o].error
  <2>1. Serves(corpus, h, c)
    BY <1>1 DEF Confirms
  <2> QED
    BY <1>1, <2>1, ServesIds DEF Confirms, c
<1>3. e = c
  <2>1. Confirms(corpus, c, e, o)
    BY <1>2, ConfirmNoErrorFits
  <2> QED
    BY <1>2, <2>1 DEF Confirms
<1>4. DictMembers(h, o, cat) = DictMembers(c, o, cat)
  <2> DEFINE Keep(g) == [g EXCEPT !.objects[o].dictMembers = With(@, cat, g.result)]
             Do(g) == IF cat \in DOMAIN Object(g, o).dictMembers
                      THEN Answer(g, Object(g, o).dictMembers[cat])
                      ELSE Then(InClass(g, o, cat), LAMBDA x :
                              Then(ForEach(Answer(x, <<>>), x.result, EnterName), Keep))
  <2>1. DictMembers(h, o, cat) = Then(c, Do)
    BY DEF DictMembers, c
  <2>2. DictMembers(c, o, cat) = Then(e, Do)
    BY DEF DictMembers, e
  <2> HIDE DEF Do, e
  <2> QED
    BY <1>3, <2>1, <2>2
<1> DEFINE Take(g) == IF <<word>> \notin DOMAIN g.result THEN Raise(g, "NoSuchMember")
                      ELSE IF g.result[<<word>>] = Duplicate THEN Raise(g, "Duplicate")
                      ELSE Answer(g, g.result[<<word>>])
<1>5. MemberNamed(h, o, word, cat) = Then(DictMembers(h, o, cat), Take)
  BY DEF MemberNamed
<1>6. MemberNamed(c, o, word, cat) = Then(DictMembers(c, o, cat), Take)
  BY DEF MemberNamed
<1> HIDE DEF Take
<1>7. MemberNamed(h, o, word, cat) = MemberNamed(c, o, word, cat)
  BY <1>4, <1>5, <1>6
<1> QED
  BY <1>7 DEF c

(* One word of a name is looked up in the object itself.                   *)
LEMMA WordFound ==
  ASSUME GoodDirectory(corpus), NEW h, Fine(corpus, h), Ok(h), NEW o \in Ids(h),
         h.objects[o].parsed, ~ h.objects[o].error, NEW word,
         NEW cat \in Categories \ {None, "Block"}, Nameable(h, o, cat)
  PROVE  LET g == MemberNamed(Answer(h, o), o, word, cat) IN
         Serves(corpus, h, g) /\ Touches(h, g, o) /\ Answers(h, o, cat, <<word>>, g)
<1> DEFINE a == Answer(h, o)
           g == MemberNamed(a, o, word, cat)
<1>1. Serves(corpus, h, a) /\ a.objects = h.objects /\ a.raised = h.raised /\ Ids(a) = Ids(h)
  BY ServesSame
<1> HIDE DEF a
<1>2. Fine(corpus, a) /\ Ok(a) /\ Nameable(a, o, cat)
  BY <1>1 DEF Serves, Ok, Nameable, IsOfClass, Object
<1>3. Having(a, o, cat, <<word>>) = Having(h, o, cat, <<word>>)
  BY <1>1 DEF Having, IsOfClass, Object
<1>4. Serves(corpus, a, g) /\ Touches(a, g, o) /\ Answers(a, o, cat, <<word>>, g)
  BY <1>1, <1>2, MemberNamedExact
<1> HIDE DEF g
<1>5. Serves(corpus, h, g)
  BY <1>1, <1>4, ServesTrans
<1>6. Touches(h, g, o)
  BY <1>1, <1>4 DEF Touches, Ids
<1>7. Answers(h, o, cat, <<word>>, g)
  BY <1>1, <1>3, <1>4 DEF Answers
<1> QED
  BY <1>5, <1>6, <1>7 DEF g, a

(* The turns of get_member.                                                *)
LEMMA GetMemberTurns ==
  ASSUME NEW h, NEW o, NEW s, Len(s) \in Nat, NEW cat
  PROVE  \E f : /\ f[0] = Answer(h, o)
                /\ \A k \in 1 .. Len(s) :
                      f[k] = IF Ok(f[k - 1])
                             THEN MemberNamed(f[k - 1], f[k - 1].result, s[k], cat)
                             ELSE f[k - 1]
                /\ GetMember(h, o, s, cat) = f[Len(s)]
<1> DEFINE a == Answer(h, o)
<1>1. GetMember(h, o, s, cat) = Find(a, s, cat)
  BY DEF GetMember, Find
<1> HIDE DEF a
<1>2. PICK f : Turns(f, "member", cat, a, s) /\ Find(a, s, cat) = f[Len(s)]
  BY MemberTurns
<1>3. f[0] = a /\ \A k \in 1 .. Len(s) :
         f[k] = IF Ok(f[k - 1]) THEN MemberNamed(f[k - 1], f[k - 1].result, s[k], cat)
                ELSE f[k - 1]
  BY <1>2 DEF Turns, PassOf
<1> QED
  BY <1>1, <1>2, <1>3 DEF a

(* get_member of a name of one word.                                       *)
LEMMA GetWord ==
  ASSUME GoodDirectory(corpus), NEW h, Fine(corpus, h), Ok(h), NEW o \in Ids(h),
         h.objects[o].parsed, ~ h.objects[o].error, NEW word,
         NEW cat \in Categories \ {None, "Block"}, Nameable(h, o, cat)
  PROVE  LET g == GetMember(h, o, <<word>>, cat) IN
         Serves(corpus, h, g) /\ Touches(h, g, o) /\ Answers(h, o, cat, <<word>>, g)
<1> DEFINE g == GetMember(h, o, <<word>>, cat)
           a == Answer(h, o)
           s == <<word>>
<1>1. Len(s) = 1 /\ s[1] = word /\ Len(s) \in Nat
  OBVIOUS
<1>2. a.raised = h.raised /\ a.result = o
  BY ServesSame
<1>3. g = MemberNamed(a, o, word, cat)
  <2> HIDE DEF s
  <2>1. PICK f : /\ f[0] = Answer(h, o)
                 /\ \A k \in 1 .. Len(s) :
                      f[k] = IF Ok(f[k - 1])
                             THEN MemberNamed(f[k - 1], f[k - 1].result, s[k], cat)
                             ELSE f[k - 1]
                 /\ GetMember(h, o, s, cat) = f[Len(s)]
    BY <1>1, GetMemberTurns
  <2>2. Ok(f[0]) /\ f[0].result = o /\ f[0] = a
    BY <1>2, <2>1 DEF Ok
  <2>3. f[1] = MemberNamed(f[0], o, word, cat)
    BY <1>1, <2>1, <2>2
  <2> QED
    BY <1>1, <2>1, <2>2, <2>3 DEF g, s
<1> HIDE DEF g
<1> QED
  BY <1>3, WordFound DEF g

(* A friend has no members.                                                *)
LEMMA FriendHasNone ==
  ASSUME GoodDirectory(corpus), NEW h, Fine(corpus, h), Ok(h), NEW o \in Ids(h),
         h.objects[o].cls = "DoxyFriend", NEW word, NEW cat \in Categories \ {None, "Block"}
  PROVE  LET g == MemberNamed(h, o, word, cat) IN
         /\ Serves(corpus, h, g) /\ g.raised = "NoSuchMember"
         /\ \A m : Spares(h, g, m)
<1> DEFINE c == CheckParsed(h, o)
           e == ConfirmNoError(h, o)
           g == MemberNamed(h, o, word, cat)
<1>1. o # Index /\ ~ Reads("DoxyFriend") /\ ~ Raises(corpus, h.objects[o])
  BY DEF Fine, Good, ObjectFits, Reads, Raises
<1>2. /\ Serves(corpus, h, c) /\ c.objects[o].parsed /\ Only(h, c, o) /\ Bare(h, c)
      /\ Ok(c)
  BY <1>1, CheckParsedExact
<1> HIDE DEF c
<1>3. c.objects[o].cls = "DoxyFriend"
  BY <1>2 DEF Only, SameObject
<1>4. Fine(corpus, c) /\ o \in Ids(c)
  BY <1>2, ServesIds
<1>5. ~ c.objects[o].error
  BY <1>1, <1>3, <1>4 DEF Fine, Good, ObjectFits
<1>6. e = c
  BY <1>2, <1>5, SMT DEF ConfirmNoError, Then, Object, c
<1>7. g = MemberNamed(c, o, word, cat)
  <2>1. Ok(e)
    BY <1>2, <1>6
  <2> HIDE DEF e
  <2> QED
    BY <1>6, <2>1, ConfirmTwice DEF e
<1>8. c.objects[o].members = <<>>
  BY <1>1, <1>2, <1>3, <1>4 DEF Fine, Filled, ContentFits
<1>9. Nameable(c, o, cat) /\ Having(c, o, cat, <<word>>) = {}
  <2>1. DOMAIN c.objects[o].members = {}
    BY <1>8
  <2> QED
    BY <2>1 DEF Nameable, Having
<1> HIDE DEF e, g
<1>10. Serves(corpus, c, g) /\ Touches(c, g, o) /\ Answers(c, o, cat, <<word>>, g)
  BY <1>2, <1>4, <1>5, <1>7, <1>9, MemberNamedExact
<1>11. g.raised = "NoSuchMember"
  BY <1>9, <1>10 DEF Answers
<1>12. Serves(corpus, h, g)
  BY <1>2, <1>10, ServesTrans
<1>13. g.objects[o].cls # "DoxyClass"
  BY <1>3, <1>4, <1>10 DEF Serves, Grows, SameObject
<1>14. ASSUME NEW m PROVE Spares(h, g, m)
  <2>1. Spares(h, c, m)
    BY <1>2, <1>3, TouchesSpares
  <2>2. Spares(c, g, m)
    BY <1>10, <1>13, TouchesSpares
  <2> QED
    BY <1>2, <1>10, <2>1, <2>2, SparesTrans
<1> QED
  BY <1>11, <1>12, <1>14 DEF g

(* A name with another last word.                                          *)
LEMMA RenamedName ==
  ASSUME NEW s \in Names, NEW v
  PROVE  LET t == [s EXCEPT ![Len(s)] = v] IN
         /\ Len(t) = Len(s) /\ Len(s) \in Nat \ {0}
         /\ Len(s) = 1 => t = <<t[1]>>
<1> DEFINE t == [s EXCEPT ![Len(s)] = v]
<1>1. s \in Seq(STRING) /\ s # <<>>
  BY DEF Names
<1>2. Len(s) \in Nat /\ DOMAIN s = 1 .. Len(s) /\ Len(s) # 0
  BY <1>1, LenProperties, EmptySeq
<1>3. DOMAIN t = 1 .. Len(s) /\ t = [i \in DOMAIN t |-> t[i]]
  BY <1>2
<1> HIDE DEF t
<1> DEFINE V == {t[i] : i \in 1 .. Len(s)}
<1>4. t \in Seq(V) /\ Len(t) = Len(s)
  BY <1>2, <1>3, SeqOfValues
<1>5. ASSUME Len(s) = 1 PROVE t = <<t[1]>>
  <2> DEFINE w == <<t[1]>>
  <2>1. w \in Seq(V) /\ Len(w) = 1 /\ w[1] = t[1]
    BY <1>5
  <2> HIDE DEF V, w
  <2>2. \A i \in 1 .. Len(t) : t[i] = w[i]
    BY <1>4, <1>5, <2>1
  <2> QED
    BY <1>4, <1>5, <2>1, <2>2, SeqEqual DEF w
<1> QED
  BY <1>2, <1>4, <1>5 DEF t

(* What has_member makes of the end of a search.                           *)
LEMMA FoundIs ==
  ASSUME NEW d, NEW h, Fine(d, h)
  PROVE  /\ h.raised = "NoSuchMember" =>
              Ok(Found(h)) /\ Found(h).result = FALSE /\ Found(h).objects = h.objects
         /\ Ok(h) => Ok(Found(h)) /\ Found(h).result = TRUE /\ Found(h).objects = h.objects
<1>1. h = [objects |-> h.objects, refs |-> h.refs, result |-> h.result, raised |-> h.raised]
  BY DEF Fine, Good, Heap
<1>2. CASE h.raised = "NoSuchMember"
  <2>1. Found(h) = [[h EXCEPT !.raised = None] EXCEPT !.result = FALSE]
    <3>1. ~ Ok(h)
      BY <1>2 DEF Ok, None
    <3> QED
      BY <1>2, <3>1 DEF Found, Answer
  <2> DEFINE k == [h EXCEPT !.raised = None]
             no == FALSE
  <2>2. k.raised = None /\ k.objects = h.objects
        /\ k = [objects |-> h.objects, refs |-> h.refs, result |-> h.result, raised |-> None]
    BY <1>1
  <2>3. Found(h) = [k EXCEPT !.result = no]
    BY <2>1
  <2> HIDE DEF k, no
  <2>4. Found(h).raised = None /\ Found(h).result = no /\ Found(h).objects = h.objects
    BY <2>2, <2>3
  <2>5. no = FALSE
    BY DEF no
  <2> QED
    BY <1>2, <2>4, <2>5 DEF Ok, None
<1>3. CASE Ok(h)
  <2>1. h.raised # "NoSuchMember"
    BY <1>3 DEF Ok, None
  <2>2. Found(h) = Answer(h, TRUE)
    BY <1>3, <2>1 DEF Found
  <2> DEFINE yes == TRUE
  <2>3. Found(h) = Answer(h, yes)
    BY <2>2
  <2> HIDE DEF yes
  <2>4. Found(h).raised = h.raised /\ Found(h).result = yes /\ Found(h).objects = h.objects
    BY <2>3, ServesSame
  <2>5. yes = TRUE
    BY DEF yes
  <2> QED
    BY <1>3, <2>1, <2>4, <2>5 DEF Ok
<1> QED
  BY <1>2, <1>3

(* What an object has of its file depends on the objects of the heap.      *)
LEMMA HasFileSame ==
  ASSUME NEW d, NEW h, NEW g, NEW o, g.objects = h.objects, HasFile(d, h, o)
  PROVE  HasFile(d, g, o)
BY DEF HasFile, MadeOf, StandsFor, Ids

(* A friend among the members of an object that has been read is found by  *)
(* a name of one word; a longer name, and one that no friend has, ends     *)
(* with NoSuchMember.                                                      *)
LEMMA FriendLookedUp ==
  ASSUME GoodDirectory(corpus), NEW h, Fine(corpus, h), Ok(h), NEW o \in Ids(h),
         h.objects[o].parsed, ~ h.objects[o].error, Nameable(h, o, "DoxyFriend"),
         NEW s, Len(s) \in Nat \ {0}, Len(s) = 1 => s = <<s[1]>>,
         \A i, j \in Having(h, o, "DoxyFriend", <<s[1]>>) : i = j
  PROVE  LET g == GetMember(h, o, s, "DoxyFriend") IN
         /\ Serves(corpus, h, g) /\ Spares(h, g, o)
         /\ IF Len(s) = 1 /\ Having(h, o, "DoxyFriend", s) # {}
            THEN Ok(g) ELSE g.raised = "NoSuchMember"
<1> DEFINE cat == "DoxyFriend"
           g == GetMember(h, o, s, cat)
           w == <<s[1]>>
           n == Len(s)
<1>1. cat \in Categories \ {None, "Block"}
  <2>1. "friend" \in DOMAIN ClassOfKind /\ ClassOfKind["friend"] = "DoxyFriend"
    BY DEF ClassOfKind
  <2> QED
    BY <2>1 DEF Categories, None
<1>2. h.objects[o].parsed /\ ~ h.objects[o].error
  OBVIOUS
<1>3. (\A i, j \in Having(h, o, cat, w) : i = j) /\ Nameable(h, o, cat)
  OBVIOUS
<1> HIDE DEF cat
<1>4. PICK f : /\ f[0] = Answer(h, o)
               /\ \A k \in 1 .. Len(s) :
                     f[k] = IF Ok(f[k - 1])
                            THEN MemberNamed(f[k - 1], f[k - 1].result, s[k], cat)
                            ELSE f[k - 1]
               /\ GetMember(h, o, s, cat) = f[Len(s)]
  BY GetMemberTurns
<1>5. f[1] = MemberNamed(Answer(h, o), o, s[1], cat)
  <2>1. Ok(f[0]) /\ f[0].result = o
    BY <1>4, ServesSame DEF Ok
  <2>2. 1 \in 1 .. Len(s) /\ 1 - 1 = 0
    OBVIOUS
  <2> QED
    BY <1>4, <2>1, <2>2
<1>6. Serves(corpus, h, f[1]) /\ Touches(h, f[1], o) /\ Answers(h, o, cat, w, f[1])
  BY <1>1, <1>2, <1>3, <1>5, WordFound
<1>7. Spares(h, f[1], o)
  BY <1>6, TouchesSpares
<1>8. \/ Having(h, o, cat, w) # {} /\ Ok(f[1]) /\ f[1].result \in Ids(f[1])
         /\ f[1].objects[f[1].result].cls = "DoxyFriend"
      \/ Having(h, o, cat, w) = {} /\ f[1].raised = "NoSuchMember"
  <2>1. CASE \E i \in Having(h, o, cat, w) : Having(h, o, cat, w) = {i} /\ Ok(f[1])
                                     /\ f[1].result = h.objects[o].members[i]
    <3>1. PICK i \in Having(h, o, cat, w) : Ok(f[1]) /\ f[1].result = h.objects[o].members[i]
      BY <2>1
    <3> DEFINE m == h.objects[o].members[i]
    <3>2. i \in DOMAIN h.objects[o].members /\ m # NoObject /\ h.objects[m].cls = cat
      BY DEF Having, IsOfClass, Object
    <3>3. m \in Ids(h)
      <4>1. m \in 0 .. Len(h.objects)
        BY <3>2 DEF Fine, Good, ObjectFits
      <4>2. Len(h.objects) \in Nat
        BY LenProperties DEF Fine, Good, Heap
      <4> QED
        BY <3>2, <4>1, <4>2 DEF Ids, NoObject
    <3> HIDE DEF m
    <3>4. m \in Ids(f[1]) /\ f[1].objects[m].cls = cat
      <4>1. m \in Ids(f[1])
        BY <1>6, <3>3, ServesIds
      <4>2. SameObject(h.objects[m], f[1].objects[m])
        BY <1>6, <3>3 DEF Serves, Grows
      <4> QED
        BY <3>2, <4>1, <4>2 DEF SameObject, m
    <3> QED
      BY <3>1, <3>4 DEF m, cat
  <2>2. CASE Having(h, o, cat, w) = {} /\ f[1].raised = "NoSuchMember"
    BY <2>2
  <2>3. CASE \E i, j \in Having(h, o, cat, w) : i # j
    BY <1>3, <2>3
  <2> QED
    BY <1>6, <2>1, <2>2, <2>3 DEF Answers
<1> HIDE DEF g
<1>9. CASE n = 1
  <2>1. g = f[1] /\ s = w
    BY <1>4, <1>9 DEF g
  <2> QED
    BY <1>6, <1>7, <1>8, <1>9, <2>1 DEF g, cat, Ok, None
<1>10. CASE n # 1
  <2> DEFINE P(k) == Serves(corpus, h, f[k]) /\ f[k].raised = "NoSuchMember" /\ Spares(h, f[k], o)
             S == {k \in 0 .. n : k >= 2 => P(k)}
  <2>1. 0 \in S
    OBVIOUS
  <2>2. ASSUME NEW k \in 0 .. n - 1, k \in S PROVE k + 1 \in S
    <3>1. k + 1 \in 1 .. n /\ (k + 1) - 1 = k
      OBVIOUS
    <3> HIDE DEF P
    <3>2. f[k + 1] = IF Ok(f[k]) THEN MemberNamed(f[k], f[k].result, s[k + 1], cat) ELSE f[k]
      BY <1>4, <3>1
    <3>3. CASE k = 0
      BY <3>3
    <3>4. CASE k = 1 /\ Ok(f[1])
      <4> DEFINE b == MemberNamed(f[1], f[1].result, s[2], cat)
                 m == f[1].result
      <4>1. m \in Ids(f[1]) /\ f[1].objects[m].cls = "DoxyFriend" /\ Fine(corpus, f[1])
        BY <1>6, <1>8, <3>4 DEF Ok, None, Serves
      <4> HIDE DEF m
      <4>2. b = MemberNamed(f[1], m, s[2], cat)
        BY DEF m
      <4> HIDE DEF b
      <4>3. Serves(corpus, f[1], b) /\ b.raised = "NoSuchMember" /\ Spares(f[1], b, o)
        BY <1>1, <3>4, <4>1, <4>2, FriendHasNone
      <4>4. Serves(corpus, h, b) /\ Spares(h, b, o)
        BY <1>6, <1>7, <4>3, ServesTrans, SparesTrans
      <4>5. f[2] = b
        BY <3>2, <3>4 DEF b
      <4> QED
        BY <3>1, <3>4, <4>3, <4>4, <4>5 DEF P
    <3>5. CASE k = 1 /\ ~ Ok(f[1])
      <4>1. f[2] = f[1]
        BY <3>2, <3>5
      <4>2. P(2)
        BY <1>6, <1>7, <1>8, <3>5, <4>1 DEF P, Ok
      <4> QED
        BY <3>1, <3>5, <4>2
    <3>6. CASE k >= 2
      <4>1. P(k)
        BY <2>2, <3>6
      <4>2. ~ Ok(f[k])
        BY <4>1 DEF P, Ok, None
      <4>3. P(k + 1)
        BY <3>2, <4>1, <4>2 DEF P
      <4> QED
        BY <3>1, <4>3
    <3> QED
      BY <3>3, <3>4, <3>5, <3>6
  <2> HIDE DEF S
  <2>3. \A k \in 0 .. n : k \in S
    BY <2>1, <2>2, Induction
  <2>4. P(n)
    <3> HIDE DEF P
    <3>1. n \in 0 .. n /\ n >= 2
      <4>1. n \in Nat /\ n # 0
        OBVIOUS
      <4> HIDE DEF n
      <4> QED
        BY <1>10, <4>1
    <3>2. n \in S
      BY <2>3, <3>1
    <3> QED
      BY <3>1, <3>2 DEF S
  <2> QED
    BY <1>4, <1>10, <2>4 DEF g, cat
<1> QED
  BY <1>9, <1>10

(* So the friends that the file of a class keeps are found.                *)
LEMMA FriendSearch ==
  ASSUME GoodDirectory(corpus), NEW h, Fine(corpus, h), Ok(h), NEW o \in Ids(h),
         HasFile(corpus, h, o), NEW s, Len(s) \in Nat \ {0}, Len(s) = 1 => s = <<s[1]>>
  PROVE  LET g == GetMember(h, o, s, "DoxyFriend") IN
         /\ Serves(corpus, h, g) /\ Spares(h, g, o)
         /\ IF Len(s) = 1 /\ s \in Kept(corpus, h.objects[o].refid, "friend")
            THEN Ok(g) ELSE g.raised = "NoSuchMember"
<1> DEFINE cat == "DoxyFriend"
           w == <<s[1]>>
<1>1. cat \in DOMAIN KindOf /\ KindOf[cat] = "friend"
  BY DEF KindOf
<1>2. /\ Having(h, o, cat, w) # {} <=> w \in Kept(corpus, h.objects[o].refid, KindOf[cat])
      /\ \A i, j \in Having(h, o, cat, w) : i = j
      /\ Nameable(h, o, cat)
  <2> HIDE DEF cat
  <2> QED
    BY <1>1, KeptHaving
<1>3. h.objects[o].parsed /\ ~ h.objects[o].error
  BY DEF HasFile
<1>4. Len(s) = 1 => s = w
  OBVIOUS
<1> QED
  BY <1>1, <1>2, <1>3, <1>4, FriendLookedUp

-----------------------------------------------------------------------------
(* in_category for blocks.                                                 *)

(* error() of an object that has been read.                                *)
LEMMA ErrorSays ==
  ASSUME GoodDirectory(corpus), NEW h, Fine(corpus, h), Ok(h), NEW o \in Ids(h), Ok(Error(h, o))
  PROVE  LET e == Error(h, o) IN e.objects[o].parsed /\ e.result = e.objects[o].error
<1> DEFINE c == CheckParsed(h, o)
           e == Error(h, o)
<1>1. Serves(corpus, h, c) /\ c.objects[o].parsed
  BY CheckParsedFits
<1> HIDE DEF c
<1>2. e = IF Ok(c) THEN Answer(c, c.objects[o].error) ELSE c
  BY SMT DEF Error, Then, Object, c
<1> HIDE DEF e
<1>3. e = Answer(c, c.objects[o].error)
  BY <1>2 DEF e
<1> DEFINE v == c.objects[o].error
<1>4. e = Answer(c, v) /\ Fine(corpus, c)
  BY <1>1, <1>3 DEF Serves
<1> HIDE DEF v
<1>5. e.objects = c.objects /\ e.result = v
  BY <1>4, ServesSame
<1> QED
  BY <1>1, <1>5 DEF e, v

(* A class whose file was read, or could not be, has its make function for *)
(* a friend just if it is a block.                                         *)
LEMMA FriendIfBlock ==
  ASSUME GoodDirectory(corpus), NEW h, Fine(corpus, h), Ok(h), NEW m \in Ids(h),
         IsOfClass(h, "DoxyClass", m), h.objects[m].parsed, ~ h.objects[m].error,
         h.objects[m].data.name \in Names
  PROVE  LET y == HasMember(h, m, make_name(h.objects[m].data.name), "DoxyFriend") IN
         /\ IsBlock(corpus, h, m) => y.result = TRUE
         /\ ~ IsBlock(corpus, h, m) => y.result = FALSE
<1> DEFINE n == h.objects[m].data.name
           r == h.objects[m].refid
           s == make_name(n)
           z == GetMember(h, m, s, "DoxyFriend")
           y == HasMember(h, m, s, "DoxyFriend")
           friends == Kept(corpus, r, "friend")
<1>1. y = Found(z)
  BY DEF HasMember
<1>2. Len(s) = Len(n) /\ Len(s) \in Nat \ {0} /\ (Len(s) = 1 => s = <<s[1]>>)
  BY RenamedName DEF make_name
<1>3. h.objects[m].cls = "DoxyClass" /\ Reads(h.objects[m].cls)
  BY DEF IsOfClass, Object, Reads
<1>4. ObjectFits(corpus, h, m) /\ ContentFits(corpus, h, m)
  <2>1. ObjectFits(corpus, h, m)
    BY DEF Fine, Good
  <2>2. m # Index
    BY <1>3, <2>1 DEF ObjectFits
  <2> QED
    BY <2>1, <2>2 DEF Fine, Filled
<1>5. IsBlock(corpus, h, m) <=>
        FileState(corpus, r) = "ok" /\ Len(n) = 1 /\ s \in friends
  BY <1>3 DEF IsBlock, IsOfClass, Object
<1>6. CASE FileState(corpus, r) = "ok"
  <2>1. r \in DOMAIN corpus.files
    BY <1>6 DEF FileState
  <2>2. HasFile(corpus, h, m)
    BY <1>3, <1>4, <1>6, <2>1 DEF HasFile, ContentFits
  <2> HIDE DEF s
  <2>3. /\ Serves(corpus, h, z)
        /\ IF Len(s) = 1 /\ s \in friends THEN Ok(z) ELSE z.raised = "NoSuchMember"
    BY <1>2, <2>2, FriendSearch
  <2> HIDE DEF z
  <2>4. Fine(corpus, z)
    BY <2>3 DEF Serves
  <2>5. /\ z.raised = "NoSuchMember" => y.result = FALSE
        /\ Ok(z) => y.result = TRUE
    BY <1>1, <2>4, FoundIs
  <2> HIDE DEF y, n, r, friends
  <2> QED
    BY <1>2, <1>5, <1>6, <2>3, <2>5 DEF y, s, n
<1>7. CASE FileState(corpus, r) # "ok"
  <2>1. FileState(corpus, r) = "raises"
    <3>1. CASE r \in DOMAIN corpus.files
      <4>1. corpus.files[r].state # "broken"
        BY <1>3, <1>4, <3>1 DEF ObjectFits
      <4>2. corpus.files[r].state \in {"ok", "broken", "raises"}
        BY <3>1 DEF GoodDirectory, IsDirectory, Files
      <4> QED
        BY <1>7, <3>1, <4>1, <4>2 DEF FileState
    <3>2. CASE r \notin DOMAIN corpus.files
      BY <3>2 DEF FileState
    <3> QED
      BY <3>1, <3>2
  <2>2. h.objects[m].members = <<>>
    BY <1>3, <1>4, <2>1 DEF ContentFits, Raises
  <2>3. DOMAIN h.objects[m].members = {}
    BY <2>2, EmptySeq
  <2>4. Nameable(h, m, "DoxyFriend") /\ \A w : Having(h, m, "DoxyFriend", w) = {}
    BY <2>3 DEF Nameable, Having
  <2> HIDE DEF s
  <2>5. Serves(corpus, h, z) /\ z.raised = "NoSuchMember"
    BY <1>2, <2>4, FriendLookedUp
  <2> HIDE DEF z
  <2>6. Fine(corpus, z)
    BY <2>5 DEF Serves
  <2>7. y.result = FALSE
    BY <1>1, <2>5, <2>6, FoundIs
  <2> HIDE DEF y, n, r, friends
  <2> QED
    BY <1>5, <1>7, <2>7 DEF y, s, n
<1> QED
  BY <1>6, <1>7

(* A class in error is no block.                                           *)
LEMMA ErrorNoBlock ==
  ASSUME NEW d, NEW h, NEW m, ObjectFits(d, h, m), h.objects[m].error
  PROVE  ~ IsBlock(d, h, m)
<1> DEFINE r == h.objects[m].refid
<1>1. CASE r \in DOMAIN d.files
  <2>1. d.files[r].state = "broken"
    BY <1>1 DEF ObjectFits
  <2>2. FileState(d, r) # "ok"
    BY <1>1, <2>1 DEF FileState
  <2> QED
    BY <2>2 DEF IsBlock, Object
<1>2. CASE r \notin DOMAIN d.files
  <2>1. FileState(d, r) # "ok"
    BY <1>2 DEF FileState
  <2> QED
    BY <2>1 DEF IsBlock, Object
<1> QED
  BY <1>1, <1>2

(* Block.includes includes the blocks, and nothing else.                   *)
LEMMA IncludedFits ==
  ASSUME GoodDirectory(corpus), NEW h, Fine(corpus, h), Ok(h), NEW m \in 0 .. Len(h.objects)
  PROVE  LET g == IncludedInBlock(h, m) IN
         /\ Serves(corpus, h, g)
         /\ m \notin Ids(h) => g.result = FALSE
         /\ Ok(g) /\ IsBlock(corpus, h, m) => g.result = TRUE
         /\ Ok(g) /\ ~ IsBlock(corpus, h, m) => g.result = FALSE
<1> DEFINE g == IncludedInBlock(h, m)
           e == Error(h, m)
           x == Name(e, m)
           s == make_name(x.result)
           y == HasMember(x, m, s, "DoxyFriend")
<1>1. Len(h.objects) \in Nat
  BY LenProperties DEF Fine, Good, Heap
<1>2. CASE ~ IsOfClass(h, "DoxyClass", m)
  <2>1. g = Answer(h, FALSE)
    BY <1>2 DEF IncludedInBlock
  <2> DEFINE no == FALSE
  <2>2. g = Answer(h, no)
    BY <2>1
  <2> HIDE DEF g, no
  <2>3. Serves(corpus, h, g) /\ g.result = no
    BY <2>2, ServesSame
  <2>4. ~ IsBlock(corpus, h, m)
    BY <1>2 DEF IsBlock
  <2> QED
    BY <2>3, <2>4 DEF g, no
<1>3. CASE IsOfClass(h, "DoxyClass", m)
  <2>1. m \in Ids(h)
    <3>1. m # 0
      BY <1>3 DEF IsOfClass, NoObject
    <3> QED
      BY <1>1, <3>1 DEF Ids
  <2>2. Serves(corpus, h, e)
    BY <2>1, ErrorFits
  <2>3. g = IF Ok(e) THEN IF e.result THEN Answer(e, FALSE) ELSE IF Ok(x) THEN y ELSE x ELSE e
    <3> DEFINE Friend(w) == HasMember(w, m, make_name(w.result), "DoxyFriend")
               Do(z) == IF z.result THEN Answer(z, FALSE) ELSE Then(Name(z, m), Friend)
    <3>1. g = Then(e, Do)
      BY <1>3 DEF IncludedInBlock
    <3>2. y = Friend(x)
      BY DEF y, s
    <3> HIDE DEF e, g, Friend, x, y
    <3>3. Do(e) = IF e.result THEN Answer(e, FALSE) ELSE IF Ok(x) THEN y ELSE x
      <4>1. Then(x, Friend) = IF Ok(x) THEN Friend(x) ELSE x
        BY SMT DEF Then
      <4> QED
        BY <3>2, <4>1 DEF x
    <3> HIDE DEF Do
    <3>4. Then(e, Do) = IF Ok(e) THEN Do(e) ELSE e
      BY SMT DEF Then
    <3> QED
      BY <3>1, <3>3, <3>4
  <2> HIDE DEF e, g, y
  <2>4. Fine(corpus, e) /\ m \in Ids(e)
    BY <2>1, <2>2, ServesIds
  <2>5. Serves(corpus, h, Answer(e, FALSE))
    BY <2>2, ServesOn
  <2>6. Ok(e) => /\ Serves(corpus, e, x)
                 /\ Ok(x) => /\ e.objects[m].data # Unknown /\ x.objects = e.objects
                             /\ x.result = e.objects[m].data.name /\ x.result \in Names
    BY <2>4, NameFits
  <2> HIDE DEF x
  <2>7. Ok(e) => Serves(corpus, h, x)
    BY <2>2, <2>6, ServesTrans
  <2>8. ASSUME Ok(e), Ok(x) PROVE Serves(corpus, h, y)
    <3>1. Len(s) \in Nat
      <4>1. x.result \in Seq(STRING)
        BY <2>6, <2>8 DEF Names
      <4> QED
        BY <4>1, RenamedLength DEF make_name
    <3>2. Fine(corpus, x) /\ m \in Ids(x)
      BY <2>4, <2>6, <2>8, ServesIds
    <3> HIDE DEF s
    <3>3. "DoxyFriend" \in Categories \ {"Block"}
      <4>1. "friend" \in DOMAIN ClassOfKind /\ ClassOfKind["friend"] = "DoxyFriend"
        BY DEF ClassOfKind
      <4>2. "DoxyFriend" # "Block"
        OBVIOUS
      <4> QED
        BY <4>1, <4>2 DEF Categories
    <3> DEFINE k == "DoxyFriend"
               z == GetMember(x, m, s, k)
    <3>4. y = Found(z)
      BY DEF y, HasMember
    <3>5. k \in Categories \ {"Block"}
      BY <3>3
    <3> HIDE DEF k
    <3>6. Serves(corpus, x, z)
      BY <2>8, <3>1, <3>2, <3>5, GetMemberFits DEF Met
    <3> HIDE DEF z
    <3>7. Serves(corpus, x, y)
      BY <3>2, <3>4, <3>6, FoundFits
    <3> QED
      BY <2>7, <2>8, <3>7, ServesTrans
  <2>9. Serves(corpus, h, g)
    BY <2>2, <2>3, <2>5, <2>7, <2>8
  <2>10. Ok(e) => /\ e.objects[m].parsed /\ e.result = e.objects[m].error
                  /\ IsBlock(corpus, h, m) <=> IsBlock(corpus, e, m)
                  /\ e.objects[m].cls = "DoxyClass"
    <3>1. Ok(e) => e.objects[m].parsed /\ e.result = e.objects[m].error
      BY <2>1, ErrorSays DEF e
    <3>2. Grows(h, e, Ids(h)) /\ SameObject(h.objects[m], e.objects[m])
      BY <2>1, <2>2, GrowsLess DEF Serves, Grows
    <3> QED
      BY <1>3, <2>1, <3>1, <3>2, BlockSame DEF SameObject, IsOfClass, Object
  <2>11. ASSUME Ok(e), e.result PROVE g.result = FALSE /\ ~ IsBlock(corpus, h, m)
    <3> DEFINE no == FALSE
    <3>1. g = Answer(e, no)
      BY <2>3, <2>11
    <3> HIDE DEF no
    <3>2. g.result = no
      BY <2>4, <3>1, ServesSame
    <3>3. ~ IsBlock(corpus, e, m)
      BY <2>4, <2>10, <2>11, ErrorNoBlock DEF Fine, Good
    <3> QED
      BY <2>10, <2>11, <3>2, <3>3 DEF no
  <2>12. ASSUME Ok(e), ~ e.result, Ok(x)
         PROVE  /\ IsBlock(corpus, h, m) => g.result = TRUE
                /\ ~ IsBlock(corpus, h, m) => g.result = FALSE
    <3>1. g = y
      BY <2>3, <2>12
    <3>2. Fine(corpus, x) /\ m \in Ids(x) /\ x.objects = e.objects
      BY <2>4, <2>6, <2>12, ServesIds
    <3>3. /\ IsOfClass(x, "DoxyClass", m) /\ x.objects[m].parsed /\ ~ x.objects[m].error
          /\ x.objects[m].data.name = x.result /\ x.result \in Names
      <4>1. IsOfClass(x, "DoxyClass", m)
        BY <1>3, <2>10, <2>12, <3>2 DEF IsOfClass, Object
      <4> QED
        BY <2>6, <2>10, <2>12, <3>2, <4>1
    <3>4. y = HasMember(x, m, make_name(x.objects[m].data.name), "DoxyFriend")
      BY <3>3 DEF y, s
    <3>5. /\ IsBlock(corpus, x, m) => y.result = TRUE
          /\ ~ IsBlock(corpus, x, m) => y.result = FALSE
      <4>1. x.objects[m].data.name \in Names
        BY <3>3
      <4> QED
        BY <2>12, <3>2, <3>3, <3>4, <4>1, FriendIfBlock
    <3>6. IsBlock(corpus, x, m) <=> IsBlock(corpus, e, m)
      BY <3>2 DEF IsBlock, IsOfClass, Object
    <3> QED
      BY <2>10, <2>12, <3>1, <3>5, <3>6
  <2>13. Ok(g) => Ok(e) /\ (e.result \/ Ok(x))
    BY <2>3
  <2> QED
    BY <2>1, <2>9, <2>11, <2>12, <2>13 DEF g
<1> QED
  BY <1>2, <1>3

(* The list comprehension that selects blocks, turn by turn.               *)
LEMMA SelectTurns ==
  ASSUME NEW h, NEW s, Len(s) \in Nat
  PROVE  \E f : Turns(f, "select", 0, h, s) /\ ForEach(h, s, SelectBlock) = f[Len(s)]
<1> DEFINE Are(f) == f = [k \in 0 .. Len(s) |->
                            IF k = 0 THEN h ELSE Then(f[k - 1], LAMBDA g : SelectBlock(g, s[k]))]
           r == CHOOSE f : Are(f)
<1>1. ForEach(h, s, SelectBlock) = r[Len(s)]
  BY DEF ForEach
<1>2. \A g, k : Then(g, LAMBDA x : SelectBlock(x, s[k])) = TurnIfOk("select", 0, g, s[k])
  BY SMT DEF Then, TurnIfOk, PassOf
<1>3. \A f : Are(f) <=> Loop(f, "select", 0, h, s)
  BY <1>2 DEF Loop
<1> HIDE DEF Are
<1>4. Are(r)
  BY <1>3, LoopExists
<1> HIDE DEF r
<1> QED
  BY <1>1, <1>3, <1>4, LoopTurns

\* The objects of a list are objects of the heap.
InHeap(h, s) == s \in Seq(Nat) /\ \A i \in DOMAIN s : s[i] \in Ids(h)

\* A call that answers objects.
Finds(d, h, g) == Serves(d, h, g) /\ (Ok(g) => InHeap(g, g.result))

(* A list of objects that the generator holds survives every call.         *)
LEMMA HeldOn ==
  ASSUME NEW d, NEW h, Fine(d, h), NEW g, Serves(d, h, g), NEW s, InHeap(h, s)
  PROVE  InHeap(g, s)
BY ServesIds DEF InHeap

(* A turn of the comprehension: the next candidate is asked what it is and *)
(* kept or left out.                                                       *)
LEMMA SelectFits ==
  ASSUME GoodDirectory(corpus), NEW h, Fine(corpus, h), NEW g, Finds(corpus, h, g), Ok(g),
         NEW m \in 0 .. Len(h.objects)
  PROVE  LET e == SelectBlock(g, m) IN
         /\ Finds(corpus, h, e)
         /\ Ok(e) => e.result = IF IsBlock(corpus, h, m) THEN Append(g.result, m) ELSE g.result
<1> DEFINE x == IncludedInBlock(g, m)
           v == IF x.result THEN Append(g.result, m) ELSE g.result
           e == SelectBlock(g, m)
<1>1. Serves(corpus, h, g) /\ InHeap(g, g.result)
  BY DEF Finds
<1>2. Fine(corpus, g) /\ m \in 0 .. Len(g.objects) /\ Len(g.objects) \in Nat
  <2>1. /\ Fine(corpus, g) /\ Len(g.objects) \in Nat /\ Len(h.objects) \in Nat
        /\ Len(h.objects) <= Len(g.objects)
    BY <1>1, ServesIds
  <2> QED
    BY <2>1
<1>3. /\ Serves(corpus, g, x) /\ (m \notin Ids(g) => x.result = FALSE)
      /\ Ok(x) /\ IsBlock(corpus, h, m) => x.result = TRUE
      /\ Ok(x) /\ ~ IsBlock(corpus, h, m) => x.result = FALSE
  <2>1. /\ Serves(corpus, g, x) /\ (m \notin Ids(g) => x.result = FALSE)
        /\ Ok(x) /\ IsBlock(corpus, g, m) => x.result = TRUE
        /\ Ok(x) /\ ~ IsBlock(corpus, g, m) => x.result = FALSE
    BY <1>2, IncludedFits
  <2> HIDE DEF x
  <2>2. IsBlock(corpus, h, m) <=> IsBlock(corpus, g, m)
    <3>1. CASE m = 0
      BY <3>1 DEF IsBlock, IsOfClass, NoObject
    <3>2. CASE m # 0
      <4>1. m \in Ids(h) /\ Grows(h, g, Ids(h))
        BY <1>1, <3>2, ServesIds, GrowsLess DEF Serves, Ids
      <4> QED
        BY <4>1, BlockSame
    <3> QED
      BY <3>1, <3>2
  <2> QED
    BY <2>1, <2>2
<1>4. e = IF Ok(x) THEN Answer(x, v) ELSE x
  <2> DEFINE Do(z) == Answer(z, IF z.result THEN Append(g.result, m) ELSE g.result)
  <2>1. e = Then(x, Do) /\ Do(x) = Answer(x, v)
    BY DEF SelectBlock
  <2> HIDE DEF Do, e, x, v
  <2>2. Then(x, Do) = IF Ok(x) THEN Do(x) ELSE x
    BY SMT DEF Then
  <2> QED
    BY <2>1, <2>2
<1> HIDE DEF x, e
<1>5. Serves(corpus, h, x) /\ Fine(corpus, x)
  BY <1>1, <1>3, ServesTrans DEF Serves
<1>6. CASE ~ Ok(x)
  BY <1>4, <1>5, <1>6 DEF Finds, e
<1>7. CASE Ok(x)
  <2>1. InHeap(x, g.result)
    BY <1>1, <1>2, <1>3, HeldOn
  <2>2. InHeap(x, v)
    <3>1. CASE m \in Ids(g)
      <4>1. m \in Ids(x) /\ m \in Nat
        BY <1>2, <1>3, <3>1, ServesIds DEF Ids
      <4>2. g.result \in Seq(Nat) /\ \A i \in DOMAIN g.result : g.result[i] \in Ids(x)
        BY <2>1 DEF InHeap
      <4> DEFINE a == g.result
                 b == Append(a, m)
      <4> HIDE DEF a
      <4>3. /\ b \in Seq(Nat) /\ DOMAIN b = 1 .. Len(a) + 1
            /\ \A i \in 1 .. Len(a) + 1 : b[i] = IF i = Len(a) + 1 THEN m ELSE a[i]
            /\ DOMAIN a = 1 .. Len(a) /\ Len(a) \in Nat
        BY <4>1, <4>2, AppendProperties, LenProperties DEF a
      <4> HIDE DEF b
      <4>4. \A i \in DOMAIN b : b[i] \in Ids(x)
        <5>1. ASSUME NEW i \in 1 .. Len(a) + 1 PROVE b[i] \in Ids(x)
          <6>1. CASE i = Len(a) + 1
            BY <4>1, <4>3, <6>1
          <6>2. CASE i # Len(a) + 1
            <7>1. i \in DOMAIN a /\ b[i] = a[i]
              BY <4>3, <6>2
            <7> QED
              BY <4>2, <7>1 DEF a
          <6> QED
            BY <6>1, <6>2
        <5> QED
          BY <4>3, <5>1
      <4>5. InHeap(x, b)
        BY <4>3, <4>4 DEF InHeap
      <4> QED
        BY <2>1, <4>5 DEF a, b
    <3>2. CASE m \notin Ids(g)
      BY <1>3, <2>1, <3>2
    <3> QED
      BY <3>1, <3>2
  <2> HIDE DEF v
  <2>3. e = Answer(x, v)
    BY <1>4, <1>7
  <2>4. e.result = v /\ Ids(e) = Ids(x) /\ Serves(corpus, h, e)
    BY <1>5, <2>3, ServesSame, ServesOn
  <2>5. v = IF IsBlock(corpus, h, m) THEN Append(g.result, m) ELSE g.result
    <3> DEFINE more == Append(g.result, m)
               b == IsBlock(corpus, h, m)
    <3> HIDE DEF more
    <3>1. (b => x.result = TRUE) /\ (~ b => x.result = FALSE)
      BY <1>3, <1>7
    <3>2. v = IF x.result THEN more ELSE g.result
      BY DEF v, more
    <3> HIDE DEF b
    <3>3. CASE b
      BY <3>1, <3>2, <3>3 DEF more, b
    <3>4. CASE ~ b
      BY <3>1, <3>2, <3>4 DEF more, b
    <3> QED
      BY <3>3, <3>4
  <2> QED
    BY <2>2, <2>4, <2>5 DEF Finds, InHeap, e
<1> QED
  BY <1>6, <1>7

(* The comprehension over the members of the index answers the list of the *)
(* blocks among them, objects of the heap, or raises.                      *)
LEMMA SelectAllFits ==
  ASSUME GoodDirectory(corpus), NEW h, Fine(corpus, h), Ok(h), h.result = <<>>, NEW s \in Seq(Nat),
         \A i \in DOMAIN s : s[i] \in 0 .. Len(h.objects)
  PROVE  LET g == ForEach(h, s, SelectBlock) IN
         Finds(corpus, h, g) /\ (Ok(g) => g.result = BlocksAmong(corpus, h, s))
<1> DEFINE n == Len(s)
           g == ForEach(h, s, SelectBlock)
           I == {i \in DOMAIN s : IsBlock(corpus, h, s[i])}
<1>1. n \in Nat /\ DOMAIN s = 1 .. n
  BY LenProperties
<1>2. PICK f : Turns(f, "select", 0, h, s) /\ g = f[n]
  BY <1>1, SelectTurns
<1>3. /\ f[0] = h
      /\ \A k \in 1 .. n : f[k] = IF Ok(f[k - 1]) THEN SelectBlock(f[k - 1], s[k]) ELSE f[k - 1]
  BY <1>2 DEF Turns, PassOf
<1>7. PICK c : /\ c[0] = <<>>
               /\ \A k \in 1 .. n : c[k] = IF k \in I THEN Append(c[k - 1], s[k]) ELSE c[k - 1]
               /\ Chosen(s, I) = c[n]
  <2> HIDE DEF I
  <2> QED
    BY <1>1, ChosenTurns
<1> HIDE DEF n, g
<1> DEFINE P(k) == Finds(corpus, h, f[k]) /\ (Ok(f[k]) => f[k].result = c[k])
           S == {k \in 0 .. n : P(k)}
<1>4. 0 \in S
  <2>1. Serves(corpus, h, h) /\ <<>> \in Seq(Nat) /\ DOMAIN <<>> = {}
    BY ServesRefl, EmptySeq
  <2>2. Finds(corpus, h, f[0])
    BY <1>3, <2>1 DEF Finds, InHeap
  <2> QED
    BY <1>1, <1>3, <1>7, <2>2
<1>5. ASSUME NEW k \in 0 .. n - 1, k \in S PROVE k + 1 \in S
  <2>1. k + 1 \in 1 .. n /\ k + 1 \in 0 .. n /\ (k + 1) - 1 = k /\ s[k + 1] \in 0 .. Len(h.objects)
    BY <1>1
  <2>2. Finds(corpus, h, f[k]) /\ (Ok(f[k]) => f[k].result = c[k])
    BY <1>5
  <2>3. f[k + 1] = IF Ok(f[k]) THEN SelectBlock(f[k], s[k + 1]) ELSE f[k]
    BY <1>3, <2>1
  <2> DEFINE x == f[k]
             m == s[k + 1]
  <2> DEFINE v == IF IsBlock(corpus, h, m) THEN Append(x.result, m) ELSE x.result
             e == SelectBlock(x, m)
  <2> HIDE DEF S, x, m
  <2>4. Ok(x) => Finds(corpus, h, e) /\ (Ok(e) => e.result = v)
    <3>1. m \in 0 .. Len(h.objects) /\ Finds(corpus, h, x)
      BY <2>1, <2>2 DEF x, m
    <3> QED
      BY <3>1, SelectFits
  <2>5. Ok(x) => v = c[k + 1]
    <3>1. k + 1 \in I <=> IsBlock(corpus, h, m)
      BY <1>1, <2>1 DEF m
    <3>2. c[k + 1] = IF k + 1 \in I THEN Append(c[k], m) ELSE c[k]
      BY <1>7, <2>1 DEF m
    <3>3. Ok(x) => x.result = c[k]
      BY <2>2 DEF x
    <3> HIDE DEF I
    <3> QED
      BY <3>1, <3>2, <3>3
  <2> HIDE DEF e, v, I
  <2>6. P(k + 1)
    <3>1. CASE Ok(x)
      <4>1. f[k + 1] = e
        BY <2>3, <3>1 DEF x, m, e
      <4> QED
        BY <2>4, <2>5, <3>1, <4>1
    <3>2. CASE ~ Ok(x)
      <4>1. f[k + 1] = x
        BY <2>3, <3>2 DEF x
      <4> QED
        BY <2>2, <3>2, <4>1 DEF x
    <3> QED
      BY <3>1, <3>2
  <2> QED
    BY <2>1, <2>6 DEF S
<1>6. n \in S
  <2>1. n \in 0 .. n
    BY <1>1
  <2> HIDE DEF S
  <2> QED
    BY <1>1, <1>4, <1>5, <2>1, Induction
<1>8. BlocksAmong(corpus, h, s) = Chosen(s, I)
  BY DEF BlocksAmong
<1> HIDE DEF I
<1> QED
  BY <1>2, <1>6, <1>7, <1>8 DEF g

(* in_category.                                                            *)
LEMMA InCategoryFits ==
  ASSUME GoodDirectory(corpus), NEW h, Fine(corpus, h), Ok(h), NEW o \in Ids(h),
         NEW cat \in Categories \ {None}
  PROVE  LET g == InCategory(h, o, cat) IN
         /\ Serves(corpus, h, g)
         /\ cat # "Block" /\ h.objects[o].parsed /\ ~ h.objects[o].error => Ok(g)
         /\ Ok(g) => InHeap(g, g.result) /\ g.objects[o].parsed
<1> DEFINE g == InCategory(h, o, cat)
           c == ConfirmNoError(h, o)
           a == Answer(c, <<>>)
           ms == c.objects[o].members
           x == ForEach(a, ms, SelectBlock)
           r == Remember(x, o, cat, x.result)
<1>1. CASE cat # "Block"
  <2>1. g = InClass(h, o, cat) /\ cat \in Categories \ {"Block"}
    BY <1>1 DEF InCategory
  <2> HIDE DEF g
  <2>2. /\ Serves(corpus, h, g)
        /\ h.objects[o].parsed /\ ~ h.objects[o].error => Ok(g)
        /\ Ok(g) => g.result = CategoryMembers(g, o, cat) /\ CategoryListed(g, o, cat)
    BY <2>1, InClassFits
  <2>3. Ok(g) => InHeap(g, g.result) /\ g.objects[o].parsed
    BY <2>2 DEF CategoryListed, InHeap
  <2> QED
    BY <2>2, <2>3 DEF g
<1>2. CASE cat = "Block"
  <2>1. /\ Serves(corpus, h, c) /\ c.objects[o].parsed
    BY ConfirmNoErrorFits DEF Confirms
  <2>2. g = IF Ok(c)
            THEN IF cat \in DOMAIN c.objects[o].inCategory
                 THEN Answer(c, c.objects[o].inCategory[cat])
                 ELSE IF Ok(x) THEN r ELSE x
            ELSE c
    <3> DEFINE Keep(z) == Remember(z, o, cat, z.result)
               Do(z) == IF cat \in DOMAIN z.objects[o].inCategory
                        THEN Answer(z, z.objects[o].inCategory[cat])
                        ELSE Then(ForEach(Answer(z, <<>>), z.objects[o].members, SelectBlock), Keep)
    <3>1. g = Then(c, Do)
      BY <1>2 DEF InCategory, Object
    <3>2. r = Keep(x)
      OBVIOUS
    <3> HIDE DEF c, g, Keep, x, r
    <3>3. Do(c) = IF cat \in DOMAIN c.objects[o].inCategory
                  THEN Answer(c, c.objects[o].inCategory[cat])
                  ELSE IF Ok(x) THEN r ELSE x
      <4>1. Then(x, Keep) = IF Ok(x) THEN Keep(x) ELSE x
        BY SMT DEF Then
      <4> QED
        BY <3>2, <4>1 DEF x
    <3> HIDE DEF Do
    <3>4. Then(c, Do) = IF Ok(c) THEN Do(c) ELSE c
      BY SMT DEF Then
    <3> QED
      BY <3>1, <3>3, <3>4
  <2> HIDE DEF g, c, x, r
  <2>3. /\ Fine(corpus, c) /\ Good(corpus, c) /\ o \in Ids(c) /\ Heap(c)
        /\ c.objects[o] \in Obj /\ Len(c.objects) \in Nat
    BY <2>1, ServesIds, ObjectFields
  <2>4. CASE ~ Ok(c)
    BY <1>2, <2>1, <2>2, <2>4 DEF g
  <2>5. CASE Ok(c) /\ cat \in DOMAIN c.objects[o].inCategory
    <3> DEFINE v == c.objects[o].inCategory[cat]
    <3>1. g = Answer(c, v)
      BY <2>2, <2>5
    <3>2. v \in Seq(Nat) /\ \A i \in DOMAIN v : v[i] \in Ids(c)
      <4>1. CachesFit(corpus, c, c.objects[o]) /\ c.objects[o].inCategory \in Lists
        BY <2>3 DEF Good, ObjectFits, Obj
      <4> QED
        BY <2>5, <4>1, CacheTypes DEF CachesFit
    <3> HIDE DEF v
    <3>3. g.objects = c.objects /\ g.result = v /\ Ids(g) = Ids(c)
      BY <2>3, <3>1, ServesSame
    <3>4. Serves(corpus, h, g)
      BY <2>1, <3>1, ServesOn
    <3> QED
      BY <1>2, <2>1, <3>2, <3>3, <3>4 DEF g, InHeap
  <2>6. CASE Ok(c) /\ cat \notin DOMAIN c.objects[o].inCategory
    <3>1. g = IF Ok(x) THEN r ELSE x
      BY <2>2, <2>6
    <3>2. ms \in Seq(Nat) /\ \A i \in DOMAIN ms : ms[i] \in 0 .. Len(c.objects)
      BY <2>3 DEF Obj, Good, ObjectFits
    <3>3. /\ a.objects = c.objects /\ a.result = <<>> /\ a.raised = c.raised
          /\ Serves(corpus, c, a) /\ Fine(corpus, a)
      BY <2>3, ServesSame DEF Serves
    <3> HIDE DEF a, ms
    <3>4. Ok(a) /\ \A i \in DOMAIN ms : ms[i] \in 0 .. Len(a.objects)
      BY <2>6, <3>2, <3>3 DEF Ok
    <3>5. Finds(corpus, a, x) /\ (Ok(x) => x.result = BlocksAmong(corpus, a, ms))
      BY <3>2, <3>3, <3>4, SelectAllFits DEF x
    <3>6. Serves(corpus, c, x) /\ Serves(corpus, h, x)
      <4>1. Serves(corpus, c, x)
        BY <2>3, <3>3, <3>5, ServesTrans DEF Finds
      <4> QED
        BY <2>1, <4>1, ServesTrans
    <3>7. CASE ~ Ok(x)
      BY <1>2, <3>1, <3>6, <3>7 DEF g
    <3>8. CASE Ok(x)
      <4> DEFINE found == x.result
      <4>1. found \in Seq(Nat) /\ \A i \in DOMAIN found : found[i] \in Ids(x)
        BY <3>5, <3>8 DEF Finds, InHeap
      <4>2. Fine(corpus, x) /\ o \in Ids(x) /\ x.objects[o].parsed /\ Heap(c)
        <5>1. Fine(corpus, x) /\ o \in Ids(x) /\ Grows(c, x, {})
          BY <2>3, <3>6, ServesIds DEF Serves
        <5> QED
          BY <2>1, <2>3, <5>1 DEF Grows, KeptObject
      <4>7. found = ListOf(corpus, x, cat, x.objects[o].members)
        <5>1. x.objects[o].members = ms
          BY <2>1, <2>3, <3>6 DEF Serves, Grows, KeptObject, ms
        <5>2. Grows(a, x, Ids(a))
          BY <3>5, GrowsLess DEF Finds, Serves
        <5>3. BlocksAmong(corpus, a, ms) = BlocksAmong(corpus, x, ms)
          BY <3>2, <3>4, <5>2, BlocksSame
        <5> QED
          BY <1>2, <3>5, <3>8, <5>1, <5>3 DEF ListOf
      <4>3. r = Remember(x, o, cat, found) /\ cat \in Categories
        BY DEF r
      <4> HIDE DEF found
      <4>4. /\ Serves(corpus, x, r) /\ r.result = found /\ r.raised = x.raised /\ Ids(r) = Ids(x)
            /\ r.objects[o].parsed
        BY <1>2, <4>1, <4>2, <4>3, <4>7, RememberFits
      <4>5. Serves(corpus, h, r)
        BY <3>6, <4>4, ServesTrans
      <4>6. g = r
        BY <3>1, <3>8
      <4> QED
        BY <1>2, <4>1, <4>4, <4>5, <4>6 DEF g, InHeap
    <3> QED
      BY <3>7, <3>8
  <2> QED
    BY <2>4, <2>5, <2>6
<1> QED
  BY <1>1, <1>2

-----------------------------------------------------------------------------
(* The calls of a reader.                                                  *)

(* The categories that calls name.                                         *)
LEMMA CategoriesHave ==
  /\ {"DoxyClass", "DoxyFunction", "DoxyFile"} \subseteq Categories \ {None, "Block"}
  /\ "Block" \in Categories \ {None} /\ None \in Categories \ {"Block"}
<1>1. /\ "class" \in DOMAIN ClassOfKind /\ ClassOfKind["class"] = "DoxyClass"
      /\ "function" \in DOMAIN ClassOfKind /\ ClassOfKind["function"] = "DoxyFunction"
      /\ "file" \in DOMAIN ClassOfKind /\ ClassOfKind["file"] = "DoxyFile"
  BY DEF ClassOfKind
<1>2. {"DoxyClass", "DoxyFunction", "DoxyFile"} \subseteq Categories
  BY <1>1 DEF Categories
<1> QED
  BY <1>2 DEF Categories, None

(* The names of a directory are sequences of strings.                      *)
LEMMA NamesOfFits ==
  ASSUME NEW d, GoodDirectory(d)
  PROVE  NamesOf(d) \subseteq Names
<1>1. ASSUME NEW i \in DOMAIN d.index PROVE d.index[i].name \in Names
  BY DirectoryHas DEF Compounds
<1>2. ASSUME NEW r \in DOMAIN d.files, NEW i \in DOMAIN d.files[r].memberdefs
      PROVE  d.files[r].memberdefs[i].name \in Names
  <2>1. d.files[r].memberdefs \in Seq(Memberdefs)
    BY DirectoryHas DEF Files
  <2>2. d.files[r].memberdefs[i] \in Memberdefs
    BY <2>1, LenProperties, ElementOfSeq
  <2> QED
    BY <2>2 DEF Memberdefs
<1> QED
  BY <1>1, <1>2 DEF NamesOf

(* Any call of a user of doxyxml.                                          *)
LEMMA CallFits ==
  ASSUME GoodDirectory(corpus), NEW h, Fine(corpus, h), Ok(h), NEW o \in Ids(h),
         NEW c \in Operations
  PROVE  Serves(corpus, h, Call(h, o, c))
<1> DEFINE g == Call(h, o, c)
<1>1. CASE \E op \in {"error", "members", "data", "name"} : c = Operation(op, None, <<>>)
  <2>1. g \in {Error(h, o), Members(h, o), Data(h, o), Name(h, o)}
    BY <1>1 DEF Call, Operation
  <2> HIDE DEF g
  <2>2. Serves(corpus, h, Name(h, o))
    BY NameFits
  <2>3. /\ Serves(corpus, h, Error(h, o)) /\ Serves(corpus, h, Members(h, o))
        /\ Serves(corpus, h, Data(h, o))
    BY ErrorFits, MembersCallFits, DataFits
  <2> QED
    BY <2>1, <2>2, <2>3 DEF g
<1>2. CASE \E k \in {"Block", "DoxyClass"} : c = Operation("in_category", k, <<>>)
  <2>1. PICK k \in {"Block", "DoxyClass"} : c = Operation("in_category", k, <<>>)
    BY <1>2
  <2>2. g = InCategory(h, o, k)
    BY <2>1 DEF Call, Operation
  <2> HIDE DEF g
  <2>3. k \in Categories \ {None}
    BY CategoriesHave
  <2> QED
    BY <2>2, <2>3, InCategoryFits DEF g
<1>3. CASE \E k \in {None, "DoxyFunction"}, n \in NamesOf(corpus) :
              c = Operation("get_member", k, n)
  <2>1. PICK k \in {None, "DoxyFunction"}, n \in NamesOf(corpus) :
              c = Operation("get_member", k, n)
    BY <1>3
  <2>2. g = GetMember(h, o, n, k)
    BY <2>1 DEF Call, Operation
  <2> HIDE DEF g
  <2>3. k \in Categories \ {"Block"}
    BY CategoriesHave
  <2>4. Len(n) \in Nat
    <3>1. n \in Seq(STRING)
      BY NamesOfFits DEF Names
    <3> QED
      BY <3>1, LenProperties
  <2> QED
    BY <2>2, <2>3, <2>4, GetMemberFits DEF g, Met
<1> QED
  BY <1>1, <1>2, <1>3 DEF Operations

(* Between calls.                                                          *)
LEMMA BetweenCalls ==
  ASSUME NEW d, NEW h, Fine(d, h)
  PROVE  /\ Serves(d, h, Fresh(h)) /\ Ok(Fresh(h)) /\ Fine(d, Fresh(h))
         /\ Fresh(h).objects = h.objects /\ Ids(Fresh(h)) = Ids(h)
         /\ Serves(d, h, Settled(h)) /\ Fine(d, Settled(h))
         /\ Settled(h).objects = h.objects /\ Ids(Settled(h)) = Ids(h)
<1>1. Fresh(h) = Raise(h, None) /\ Settled(h) = Answer(h, NoResult)
  BY DEF Fresh, Settled, Raise, Answer
<1> QED
  BY <1>1, ServesSame DEF Serves, Ok

(* The objects that were handed out are objects of the heap.               *)
LEMMA HeldAre ==
  ASSUME NEW d, NEW h, Fine(d, h)
  PROVE  Held(h) \subseteq Ids(h)
<1>1. /\ Good(d, h) /\ Heap(h) /\ DOMAIN h.objects = Ids(h) /\ Len(h.objects) \in Nat
      /\ Index \in Ids(h)
  BY LenProperties DEF Fine, Good, Heap, Ids
<1>2. ASSUME NEW o \in Ids(h), NEW i \in DOMAIN h.objects[o].members,
             h.objects[o].members[i] # NoObject
      PROVE  h.objects[o].members[i] \in Ids(h)
  <2>1. h.objects[o].members[i] \in 0 .. Len(h.objects)
    BY <1>1 DEF Good, ObjectFits
  <2> QED
    BY <1>1, <1>2, <2>1 DEF Ids, NoObject
<1> QED
  BY <1>1, <1>2 DEF Held, ToSet, Object

-----------------------------------------------------------------------------
(* Entries of the file.                                                    *)

\* Entries describe objects of the heap.
EntriesFit(h, es) ==
  /\ \E V : es \in Seq(V)
  /\ \A i \in DOMAIN es : InHeap(h, es[i].docs)

\* A call that returns entries.
Enters(d, h, g) == Serves(d, h, g) /\ (Ok(g) => EntriesFit(g, g.result))

(* The entries that were written survive every call.                       *)
LEMMA EntriesOn ==
  ASSUME NEW d, NEW h, Fine(d, h), NEW g, Serves(d, h, g), NEW es, EntriesFit(h, es)
  PROVE  EntriesFit(g, es)
<1>1. \A s : InHeap(h, s) => InHeap(g, s)
  BY HeldOn
<1> QED
  BY <1>1 DEF EntriesFit

(* Lists and entries depend on the heap by the objects it has.             *)
LEMMA EntriesSame ==
  ASSUME NEW h, NEW g, Ids(g) = Ids(h)
  PROVE  /\ \A s : InHeap(h, s) => InHeap(g, s)
         /\ \A es : EntriesFit(h, es) => EntriesFit(g, es)
BY DEF InHeap, EntriesFit

(* No entry, and one.                                                      *)
LEMMA FewEntries ==
  ASSUME NEW h, NEW n, NEW docs, InHeap(h, docs)
  PROVE  EntriesFit(h, <<>>) /\ EntriesFit(h, <<Entry(n, docs)>>)
<1> DEFINE e == Entry(n, docs)
           s == <<e>>
<1>1. e.docs = docs
  BY DEF Entry
<1> HIDE DEF e
<1>2. s \in Seq({e}) /\ DOMAIN s = {1} /\ s[1] = e
  OBVIOUS
<1>3. <<>> \in Seq({e}) /\ DOMAIN <<>> = {}
  BY EmptySeq
<1> HIDE DEF s
<1>4. EntriesFit(h, s)
  BY <1>1, <1>2 DEF EntriesFit
<1>5. EntriesFit(h, <<>>)
  BY <1>3 DEF EntriesFit
<1> QED
  BY <1>4, <1>5 DEF s, e

(* Entries followed by entries are entries.                                *)
LEMMA EntriesConcat ==
  ASSUME NEW h, NEW a, NEW b, EntriesFit(h, a), EntriesFit(h, b)
  PROVE  EntriesFit(h, a \o b)
<1> DEFINE c == a \o b
<1>1. PICK V, W : a \in Seq(V) /\ b \in Seq(W)
  BY DEF EntriesFit
<1> DEFINE U == V \cup W
<1>2. a \in Seq(U) /\ b \in Seq(U)
  BY <1>1, SeqMonotonic
<1> HIDE DEF U
<1>3. /\ c \in Seq(U) /\ Len(c) = Len(a) + Len(b)
      /\ \A i \in 1 .. Len(a) + Len(b) : c[i] = IF i <= Len(a) THEN a[i] ELSE b[i - Len(a)]
  BY <1>2, ConcatProperties
<1>4. /\ Len(a) \in Nat /\ Len(b) \in Nat /\ DOMAIN a = 1 .. Len(a) /\ DOMAIN b = 1 .. Len(b)
      /\ DOMAIN c = 1 .. Len(c)
  BY <1>2, <1>3, LenProperties
<1> HIDE DEF c
<1>5. ASSUME NEW i \in DOMAIN c PROVE InHeap(h, c[i].docs)
  <2>1. CASE i <= Len(a)
    <3>1. i \in DOMAIN a /\ c[i] = a[i]
      BY <1>3, <1>4, <2>1
    <3> QED
      BY <3>1 DEF EntriesFit
  <2>2. CASE ~ (i <= Len(a))
    <3> DEFINE j == i - Len(a)
    <3>1. j \in DOMAIN b /\ c[i] = b[j]
      BY <1>3, <1>4, <2>2
    <3> HIDE DEF j
    <3> QED
      BY <3>1 DEF EntriesFit
  <2> QED
    BY <2>1, <2>2
<1> QED
  BY <1>3, <1>5 DEF EntriesFit, c

(* A list of objects followed by another is one.                           *)
LEMMA HeldConcat ==
  ASSUME NEW h, NEW a, NEW b, InHeap(h, a), InHeap(h, b)
  PROVE  InHeap(h, a \o b)
<1> DEFINE c == a \o b
<1>1. a \in Seq(Nat) /\ b \in Seq(Nat)
  BY DEF InHeap
<1>2. /\ c \in Seq(Nat) /\ Len(c) = Len(a) + Len(b)
      /\ \A i \in 1 .. Len(a) + Len(b) : c[i] = IF i <= Len(a) THEN a[i] ELSE b[i - Len(a)]
  BY <1>1, ConcatProperties
<1>3. /\ Len(a) \in Nat /\ Len(b) \in Nat /\ DOMAIN a = 1 .. Len(a) /\ DOMAIN b = 1 .. Len(b)
      /\ DOMAIN c = 1 .. Len(c)
  BY <1>1, <1>2, LenProperties
<1> HIDE DEF c
<1>4. ASSUME NEW i \in DOMAIN c PROVE c[i] \in Ids(h)
  <2>1. CASE i <= Len(a)
    <3>1. i \in DOMAIN a /\ c[i] = a[i]
      BY <1>2, <1>3, <2>1
    <3> QED
      BY <3>1 DEF InHeap
  <2>2. CASE ~ (i <= Len(a))
    <3> DEFINE j == i - Len(a)
    <3>1. j \in DOMAIN b /\ c[i] = b[j]
      BY <1>2, <1>3, <2>2
    <3> HIDE DEF j
    <3> QED
      BY <3>1 DEF InHeap
  <2> QED
    BY <2>1, <2>2
<1> QED
  BY <1>2, <1>4 DEF InHeap, c

(* combine_descriptions.                                                   *)
LEMMA CombineFits ==
  ASSUME GoodDirectory(corpus), NEW h, Fine(corpus, h), Ok(h), NEW o \in Ids(h)
  PROVE  Finds(corpus, h, CombineDescriptions(h, o))
<1> DEFINE c == Data(h, o)
           one == <<o>>
           none == <<>>
           g == CombineDescriptions(h, o)
           Do(x) == Answer(x, IF x.result THEN <<o>> ELSE <<>>)
<1>1. Serves(corpus, h, c)
  BY DataFits
<1>2. g = Then(c, Do) /\ Do(c) = Answer(c, IF c.result THEN one ELSE none)
  BY DEF CombineDescriptions
<1>3. /\ one \in Seq(Nat) /\ DOMAIN one = {1} /\ one[1] = o
      /\ none \in Seq(Nat) /\ DOMAIN none = {}
  <2>1. o \in Nat
    <3>1. Len(h.objects) \in Nat
      BY ServesRefl, ServesIds
    <3> QED
      BY <3>1 DEF Ids
  <2> QED
    BY <2>1, EmptySeq
<1> HIDE DEF c, g, Do, one, none
<1>4. Then(c, Do) = IF Ok(c) THEN Do(c) ELSE c
  BY SMT DEF Then
<1>5. o \in Ids(c) /\ Fine(corpus, c)
  BY <1>1, ServesIds
<1>6. InHeap(c, one) /\ InHeap(c, none)
  BY <1>3, <1>5 DEF InHeap
<1>7. CASE ~ Ok(c)
  BY <1>1, <1>2, <1>4, <1>7 DEF Finds, g
<1>8. CASE Ok(c)
  <2>1. PICK v \in {one, none} : g = Answer(c, v)
    BY <1>2, <1>4, <1>8
  <2>2. g.result = v /\ Ids(g) = Ids(c) /\ Serves(corpus, h, g)
    BY <1>1, <1>5, <2>1, ServesSame, ServesOn
  <2>3. InHeap(g, v)
    BY <1>6, <2>1, <2>2, EntriesSame
  <2> QED
    BY <2>2, <2>3 DEF Finds, g
<1> QED
  BY <1>7, <1>8

(* make_entry.                                                             *)
LEMMA MakeEntryFits ==
  ASSUME NEW d, NEW h, Fine(d, h), NEW n, NEW docs, InHeap(h, docs)
  PROVE  LET g == MakeEntry(h, n, docs) IN
         Enters(d, h, g) /\ g.raised = h.raised /\ Ids(g) = Ids(h)
<1> DEFINE g == MakeEntry(h, n, docs)
           one == <<Entry(n, docs)>>
           none == <<>>
<1>1. EntriesFit(h, one) /\ EntriesFit(h, none)
  BY FewEntries
<1>2. g = Answer(h, IF n \in OperatorNames THEN none ELSE one)
  BY DEF MakeEntry
<1> HIDE DEF one, none, g
<1>3. PICK v \in {one, none} : g = Answer(h, v)
  BY <1>2
<1>4. Serves(d, h, g) /\ g.result = v /\ g.raised = h.raised /\ Ids(g) = Ids(h)
  BY <1>3, ServesSame
<1>5. EntriesFit(g, v)
  BY <1>1, <1>3, <1>4, EntriesSame
<1> QED
  BY <1>4, <1>5 DEF Enters, g

(* make_func_entry.                                                        *)
LEMMA MakeFuncEntryFits ==
  ASSUME GoodDirectory(corpus), NEW h, Fine(corpus, h), Ok(h), NEW f \in Ids(h), NEW n
  PROVE  Enters(corpus, h, MakeFuncEntry(h, f, n))
<1> DEFINE c == CombineDescriptions(h, f)
           Do(x) == MakeEntry(x, n, x.result)
           g == MakeFuncEntry(h, f, n)
           docs == c.result
           e == MakeEntry(c, n, docs)
<1>1. Finds(corpus, h, c)
  BY CombineFits
<1>2. g = Then(c, Do) /\ Do(c) = e
  BY DEF MakeFuncEntry
<1> HIDE DEF c, g, Do, e
<1>3. Then(c, Do) = IF Ok(c) THEN Do(c) ELSE c
  BY SMT DEF Then
<1>4. CASE ~ Ok(c)
  BY <1>1, <1>2, <1>3, <1>4 DEF Finds, Enters, g
<1>5. CASE Ok(c)
  <2>1. g = e
    BY <1>2, <1>3, <1>5
  <2>2. Serves(corpus, h, c) /\ Fine(corpus, c) /\ InHeap(c, docs)
    BY <1>1, <1>5 DEF Finds, Serves
  <2> HIDE DEF docs
  <2>3. Enters(corpus, c, e)
    BY <2>2, MakeEntryFits DEF e
  <2> QED
    BY <2>1, <2>2, <2>3, ServesTrans DEF Enters, g
<1> QED
  BY <1>4, <1>5

(* A turn of the loop of make_class_entry.                                 *)
LEMMA AddFunctionFits ==
  ASSUME GoodDirectory(corpus), NEW h, Fine(corpus, h), NEW g, Enters(corpus, h, g), Ok(g),
         NEW k, NEW f \in Ids(h)
  PROVE  Enters(corpus, h, AddFunction(g, k, f))
<1> DEFINE x == Name(g, f)
           n == x.objects[k].data.name \o x.result
           y == MakeFuncEntry(x, f, n)
           Join(z) == Answer(z, g.result \o z.result)
           Do(w) == Then(MakeFuncEntry(w, f, w.objects[k].data.name \o w.result), Join)
           v == g.result \o y.result
           e == AddFunction(g, k, f)
<1>1. Serves(corpus, h, g) /\ EntriesFit(g, g.result) /\ Fine(corpus, g) /\ f \in Ids(g)
  <2>1. Serves(corpus, h, g) /\ EntriesFit(g, g.result)
    BY DEF Enters
  <2> QED
    BY <2>1, ServesIds
<1>2. Serves(corpus, g, x)
  BY <1>1, NameFits
<1>3. e = Then(x, Do) /\ Do(x) = Then(y, Join) /\ Join(y) = Answer(y, v)
  BY DEF AddFunction, Object
<1> HIDE DEF x, Do, Join, e
<1>4. Then(x, Do) = IF Ok(x) THEN Do(x) ELSE x
  BY SMT DEF Then
<1>5. Serves(corpus, h, x) /\ Fine(corpus, x) /\ f \in Ids(x)
  <2>1. Serves(corpus, h, x)
    BY <1>1, <1>2, ServesTrans
  <2> QED
    BY <2>1, ServesIds
<1>6. CASE ~ Ok(x)
  BY <1>3, <1>4, <1>5, <1>6 DEF Enters, e
<1>7. CASE Ok(x)
  <2> HIDE DEF n
  <2>1. Enters(corpus, x, y)
    BY <1>5, <1>7, MakeFuncEntryFits
  <2> HIDE DEF y, v
  <2>2. Serves(corpus, h, y) /\ Serves(corpus, g, y) /\ Fine(corpus, y)
    <3>1. Serves(corpus, x, y) /\ Fine(corpus, y)
      BY <2>1 DEF Enters, Serves
    <3> QED
      BY <1>1, <1>2, <1>5, <3>1, ServesTrans
  <2>3. e = IF Ok(y) THEN Answer(y, v) ELSE y
    <3>1. Then(y, Join) = IF Ok(y) THEN Join(y) ELSE y
      BY SMT DEF Then
    <3> QED
      BY <1>3, <1>4, <1>7, <3>1
  <2>4. CASE ~ Ok(y)
    BY <2>2, <2>3, <2>4 DEF Enters, e
  <2>5. CASE Ok(y)
    <3> DEFINE a == g.result
               b == y.result
    <3>1. EntriesFit(y, a)
      BY <1>1, <2>2, EntriesOn
    <3>2. EntriesFit(y, b)
      BY <2>1, <2>5 DEF Enters
    <3>3. v = a \o b
      BY DEF v
    <3> HIDE DEF a, b
    <3>4. EntriesFit(y, v)
      BY <3>1, <3>2, <3>3, EntriesConcat
    <3>5. e = Answer(y, v)
      BY <2>3, <2>5
    <3>6. e.result = v /\ Ids(e) = Ids(y) /\ Serves(corpus, h, e)
      BY <2>2, <3>5, ServesSame, ServesOn
    <3>7. EntriesFit(e, v)
      BY <3>4, <3>6, EntriesSame
    <3> QED
      BY <3>6, <3>7 DEF Enters, e
  <2> QED
    BY <2>4, <2>5
<1> QED
  BY <1>6, <1>7

\* The functions of a class, after the entries in h.result.
AddFunctions(h, k, s) == ForEach(h, s, LAMBDA y, f : AddFunction(y, k, f))

(* The loop over the member functions of a class, turn by turn.            *)
LEMMA FunctionTurns ==
  ASSUME NEW h, NEW s, Len(s) \in Nat, NEW k
  PROVE  \E f : Turns(f, "function", k, h, s) /\ AddFunctions(h, k, s) = f[Len(s)]
<1> DEFINE Are(f) == f = [i \in 0 .. Len(s) |->
                            IF i = 0 THEN h
                            ELSE Then(f[i - 1], LAMBDA g : AddFunction(g, k, s[i]))]
           r == CHOOSE f : Are(f)
<1>1. AddFunctions(h, k, s) = r[Len(s)]
  BY DEF AddFunctions, ForEach
<1>2. \A g, i : Then(g, LAMBDA x : AddFunction(x, k, s[i])) = TurnIfOk("function", k, g, s[i])
  BY SMT DEF Then, TurnIfOk, PassOf
<1>3. \A f : Are(f) <=> Loop(f, "function", k, h, s)
  BY <1>2 DEF Loop
<1> HIDE DEF Are
<1>4. Are(r)
  BY <1>3, LoopExists
<1> HIDE DEF r
<1> QED
  BY <1>1, <1>3, <1>4, LoopTurns

(* The loop over the member functions of a class adds entries of objects   *)
(* of the heap, or ends with the exception of one of them.                 *)
LEMMA AddFunctionsFit ==
  ASSUME GoodDirectory(corpus), NEW h, Fine(corpus, h), EntriesFit(h, h.result), NEW k,
         NEW s, InHeap(h, s)
  PROVE  Enters(corpus, h, AddFunctions(h, k, s))
<1> DEFINE n == Len(s)
           g == AddFunctions(h, k, s)
<1>1. n \in Nat /\ DOMAIN s = 1 .. n
  BY LenProperties DEF InHeap
<1>2. PICK f : Turns(f, "function", k, h, s) /\ g = f[n]
  BY <1>1, FunctionTurns
<1>3. /\ f[0] = h
      /\ \A i \in 1 .. n : f[i] = IF Ok(f[i - 1]) THEN AddFunction(f[i - 1], k, s[i]) ELSE f[i - 1]
  BY <1>2 DEF Turns, PassOf
<1> HIDE DEF n, g
<1> DEFINE S == {i \in 0 .. n : Enters(corpus, h, f[i])}
<1>4. 0 \in S
  <2>1. Enters(corpus, h, f[0])
    BY <1>3, ServesRefl DEF Enters
  <2> QED
    BY <1>1, <2>1
<1>5. ASSUME NEW i \in 0 .. n - 1, i \in S PROVE i + 1 \in S
  <2>1. i + 1 \in 1 .. n /\ i + 1 \in 0 .. n /\ (i + 1) - 1 = i /\ s[i + 1] \in Ids(h)
    BY <1>1 DEF InHeap
  <2>2. Enters(corpus, h, f[i])
    BY <1>5
  <2>3. f[i + 1] = IF Ok(f[i]) THEN AddFunction(f[i], k, s[i + 1]) ELSE f[i]
    BY <1>3, <2>1
  <2> DEFINE x == f[i]
             m == s[i + 1]
  <2> HIDE DEF S, x, m
  <2>4. Ok(x) => Enters(corpus, h, AddFunction(x, k, m))
    <3>1. m \in Ids(h) /\ Enters(corpus, h, x)
      BY <2>1, <2>2 DEF x, m
    <3> QED
      BY <3>1, AddFunctionFits
  <2>5. Enters(corpus, h, f[i + 1])
    BY <2>2, <2>3, <2>4 DEF x, m
  <2> QED
    BY <2>1, <2>5 DEF S
<1>6. n \in S
  <2>1. n \in 0 .. n
    BY <1>1
  <2> HIDE DEF S
  <2> QED
    BY <1>1, <1>4, <1>5, <2>1, Induction
<1> QED
  BY <1>2, <1>6 DEF g

(* make_class_entry.                                                       *)
LEMMA MakeClassEntryFits ==
  ASSUME GoodDirectory(corpus), NEW h, Fine(corpus, h), Ok(h), NEW k \in Ids(h),
         NEW docs, InHeap(h, docs)
  PROVE  Enters(corpus, h, MakeClassEntry(h, k, docs))
<1> DEFINE own == IF docs = <<>> THEN <<>> ELSE <<Entry(h.objects[k].data.name, docs)>>
           x == Name(h, k)
           cat == "DoxyFunction"
           y == InCategory(x, k, cat)
           s == y.result
           a == Answer(y, own)
           e == AddFunctions(a, k, s)
           Do2(z) == AddFunctions(Answer(z, own), k, z.result)
           Do1(z) == Then(InCategory(z, k, cat), Do2)
           g == MakeClassEntry(h, k, docs)
<1>1. EntriesFit(h, own)
  BY FewEntries
<1>2. g = Then(x, Do1) /\ Do1(x) = Then(y, Do2) /\ Do2(y) = e
  BY DEF MakeClassEntry, AddFunctions, Object
<1>3. cat \in Categories \ {None}
  BY CategoriesHave
<1>4. Serves(corpus, h, x)
  BY NameFits
<1> HIDE DEF g, x, own, cat, Do1, Do2
<1>5. Fine(corpus, x) /\ k \in Ids(x)
  BY <1>4, ServesIds
<1>6. Then(x, Do1) = IF Ok(x) THEN Do1(x) ELSE x
  BY SMT DEF Then
<1>7. CASE ~ Ok(x)
  BY <1>2, <1>4, <1>6, <1>7 DEF Enters, g
<1>8. CASE Ok(x)
  <2>1. Serves(corpus, x, y) /\ (Ok(y) => InHeap(y, y.result))
    BY <1>3, <1>5, <1>8, InCategoryFits
  <2> HIDE DEF y, e
  <2>2. Serves(corpus, h, y) /\ Fine(corpus, y)
    BY <1>4, <2>1, ServesTrans DEF Serves
  <2>3. g = IF Ok(y) THEN e ELSE y
    <3>1. Then(y, Do2) = IF Ok(y) THEN Do2(y) ELSE y
      BY SMT DEF Then
    <3> QED
      BY <1>2, <1>6, <1>8, <3>1
  <2>4. CASE ~ Ok(y)
    BY <2>2, <2>3, <2>4 DEF Enters, g
  <2>5. CASE Ok(y)
    <3>1. a.result = own /\ Ids(a) = Ids(y) /\ Fine(corpus, a) /\ Serves(corpus, y, a)
      BY <2>2, ServesSame DEF Serves
    <3> HIDE DEF a
    <3>2. EntriesFit(a, a.result)
      <4>1. EntriesFit(y, own)
        BY <1>1, <2>2, EntriesOn
      <4> QED
        BY <3>1, <4>1, EntriesSame
    <3>3. InHeap(a, s)
      BY <2>1, <2>5, <3>1, EntriesSame
    <3> HIDE DEF s
    <3>4. Enters(corpus, a, e)
      BY <3>1, <3>2, <3>3, AddFunctionsFit DEF e
    <3>5. Serves(corpus, y, e)
      BY <2>2, <3>1, <3>4, ServesTrans DEF Enters
    <3>6. Serves(corpus, h, e)
      BY <2>2, <3>5, ServesTrans
    <3> QED
      BY <2>3, <2>5, <3>4, <3>6 DEF Enters, g
  <2> QED
    BY <2>4, <2>5
<1> QED
  BY <1>7, <1>8

(* The objects whose comments an entry takes, when the second object was   *)
(* found, when there is none and when the search raised.                   *)
LEMMA DocsOfFoundFits ==
  ASSUME GoodDirectory(corpus), NEW h, Fine(corpus, h), NEW g, Met(corpus, h, g),
         NEW docs, InHeap(h, docs)
  PROVE  Finds(corpus, h, DocsOfFound(g, docs))
<1> DEFINE c == Answer([g EXCEPT !.raised = None], docs)
           e == DocsOfFound(g, docs)
           x == CombineDescriptions(g, g.result)
           v == docs \o x.result
           Do2(z) == Answer(z, docs \o z.result)
           Do1(z) == Then(CombineDescriptions(z, z.result), Do2)
<1>1. Serves(corpus, h, g) /\ (Ok(g) => g.result \in Ids(g)) /\ Fine(corpus, g)
  BY DEF Met, Serves
<1>2. /\ g.raised = "NoSuchMember" => e = c
      /\ g.raised # "NoSuchMember" => e = Then(g, Do1)
      /\ Do1(g) = Then(x, Do2) /\ Do2(x) = Answer(x, v)
  BY DEF DocsOfFound
<1>3. /\ Serves(corpus, h, c) /\ Ids(c) = Ids(g) /\ c.result = docs
  BY <1>1, CaughtFits
<1> HIDE DEF c, e, Do1, Do2
<1>4. InHeap(g, docs)
  BY <1>1, HeldOn
<1>5. CASE g.raised = "NoSuchMember"
  <2>1. InHeap(c, docs)
    BY <1>3, <1>4, EntriesSame
  <2> QED
    BY <1>2, <1>3, <1>5, <2>1 DEF Finds, e
<1>6. CASE g.raised # "NoSuchMember"
  <2>1. e = IF Ok(g) THEN Do1(g) ELSE g
    <3>1. Then(g, Do1) = IF Ok(g) THEN Do1(g) ELSE g
      BY SMT DEF Then
    <3> QED
      BY <1>2, <1>6, <3>1
  <2>2. CASE ~ Ok(g)
    BY <1>1, <2>1, <2>2 DEF Finds, e
  <2>3. CASE Ok(g)
    <3> DEFINE o == g.result
    <3>1. x = CombineDescriptions(g, o) /\ o \in Ids(g)
      BY <1>1, <2>3
    <3> HIDE DEF o, x
    <3>2. Finds(corpus, g, x)
      BY <1>1, <2>3, <3>1, CombineFits
    <3>3. Serves(corpus, g, x) /\ Serves(corpus, h, x) /\ Fine(corpus, x)
      BY <1>1, <3>2, ServesTrans DEF Finds, Serves
    <3>4. e = IF Ok(x) THEN Answer(x, v) ELSE x
      <4>1. Then(x, Do2) = IF Ok(x) THEN Do2(x) ELSE x
        BY SMT DEF Then
      <4> QED
        BY <1>2, <2>1, <2>3, <4>1
    <3>5. CASE ~ Ok(x)
      BY <3>3, <3>4, <3>5 DEF Finds, e
    <3>6. CASE Ok(x)
      <4> DEFINE b == x.result
      <4>1. InHeap(x, docs)
        BY <1>1, <1>4, <3>3, HeldOn
      <4>2. InHeap(x, b) /\ v = docs \o b
        BY <3>2, <3>6 DEF Finds
      <4> HIDE DEF b, v
      <4>3. InHeap(x, v)
        BY <4>1, <4>2, HeldConcat
      <4>4. e = Answer(x, v)
        BY <3>4, <3>6
      <4>5. e.result = v /\ Ids(e) = Ids(x) /\ Serves(corpus, h, e)
        BY <3>3, <4>4, ServesSame, ServesOn
      <4>6. InHeap(e, v)
        BY <4>3, <4>5, EntriesSame
      <4> QED
        BY <4>5, <4>6 DEF Finds, e
    <3> QED
      BY <3>5, <3>6
  <2> QED
    BY <2>2, <2>3
<1> QED
  BY <1>5, <1>6

(* The name of an object of the heap is a sequence of strings.             *)
LEMMA NamesOfObjects ==
  ASSUME NEW d, NEW h, Fine(d, h), NEW o \in Ids(h)
  PROVE  h.objects[o].data.name \in Seq(STRING)
<1>1. h.objects[o] \in Obj
  BY ObjectFields DEF Fine, Good
<1>2. h.objects[o].data \in ParseData
  BY <1>1 DEF Obj
<1> QED
  BY <1>2, NameOfData

(* The comments of the file a block is declared in are those of an object  *)
(* of the heap, if that file has been found.                               *)
LEMMA WithFileDocsFits ==
  ASSUME GoodDirectory(corpus), NEW h, Fine(corpus, h), Ok(h), NEW block \in Ids(h),
         NEW docs, InHeap(h, docs)
  PROVE  Finds(corpus, h, WithFileDocs(h, block, docs))
<1> DEFINE n == h.objects[block].data.name
           s == make_header_name(n)
           cat == "DoxyFile"
           i == Index
           g == GetMember(h, i, s, cat)
<1>1. n \in Seq(STRING)
  BY NamesOfObjects
<1>2. WithFileDocs(h, block, docs) = DocsOfFound(g, docs)
  BY DEF WithFileDocs, Object
<1> HIDE DEF n
<1>3. Len(s) \in Nat
  BY <1>1, RenamedLength DEF make_header_name
<1>4. cat \in Categories \ {"Block"}
  BY CategoriesHave
<1>5. i \in Ids(h)
  BY ServesRefl, ServesIds
<1> HIDE DEF s, cat, i
<1>6. Met(corpus, h, g)
  BY <1>3, <1>4, <1>5, GetMemberFits
<1> HIDE DEF g
<1> QED
  BY <1>2, <1>6, DocsOfFoundFits

(* The descriptions of a block, its make function and its file.            *)
LEMMA BlockDocsFits ==
  ASSUME GoodDirectory(corpus), NEW h, Fine(corpus, h), Ok(h), NEW block \in Ids(h),
         NEW make \in Ids(h)
  PROVE  Finds(corpus, h, BlockDocs(h, block, make))
<1> DEFINE x == CombineDescriptions(h, block)
           y == CombineDescriptions(x, make)
           docs == x.result \o y.result
           e == WithFileDocs(y, block, docs)
           Do2(z) == WithFileDocs(z, block, x.result \o z.result)
           Do1(w) == Then(CombineDescriptions(w, make),
                          LAMBDA z : WithFileDocs(z, block, w.result \o z.result))
           g == BlockDocs(h, block, make)
<1>1. g = Then(x, Do1) /\ Do1(x) = Then(y, Do2) /\ Do2(y) = e
  BY DEF BlockDocs
<1>2. Finds(corpus, h, x)
  BY CombineFits
<1> HIDE DEF g, x, Do1, Do2
<1>3. Then(x, Do1) = IF Ok(x) THEN Do1(x) ELSE x
  BY SMT DEF Then
<1>4. Serves(corpus, h, x) /\ Fine(corpus, x) /\ {block, make} \subseteq Ids(x)
  BY <1>2, ServesIds DEF Finds
<1>5. CASE ~ Ok(x)
  BY <1>1, <1>2, <1>3, <1>5 DEF g, Finds
<1>6. CASE Ok(x)
  <2>1. Finds(corpus, x, y)
    BY <1>4, <1>6, CombineFits
  <2> HIDE DEF y, e
  <2>2. g = IF Ok(y) THEN e ELSE y
    <3>1. Then(y, Do2) = IF Ok(y) THEN Do2(y) ELSE y
      BY SMT DEF Then
    <3> QED
      BY <1>1, <1>3, <1>6, <3>1
  <2>3. Serves(corpus, x, y) /\ Serves(corpus, h, y)
    BY <1>4, <2>1, ServesTrans DEF Finds
  <2>4. Fine(corpus, y) /\ {block, make} \subseteq Ids(y)
    BY <1>4, <2>3, ServesIds
  <2>5. CASE ~ Ok(y)
    BY <2>2, <2>3, <2>5 DEF Finds, g
  <2>6. CASE Ok(y)
    <3> DEFINE a == x.result
               b == y.result
    <3>1. InHeap(y, a)
      <4>1. InHeap(x, a)
        BY <1>2, <1>6 DEF Finds
      <4> HIDE DEF a
      <4> QED
        BY <1>4, <2>3, <4>1, HeldOn
    <3>2. InHeap(y, b) /\ docs = a \o b
      BY <2>1, <2>6 DEF Finds
    <3> HIDE DEF a, b, docs
    <3>3. InHeap(y, docs)
      BY <3>1, <3>2, HeldConcat
    <3>4. Finds(corpus, y, e)
      BY <2>4, <2>6, <3>3, WithFileDocsFits DEF e
    <3>5. Serves(corpus, h, e)
      BY <2>3, <3>4, ServesTrans DEF Finds
    <3> QED
      BY <2>2, <2>6, <3>4, <3>5 DEF Finds, g
  <2> QED
    BY <2>5, <2>6
<1> QED
  BY <1>5, <1>6

(* make_block_entry.                                                       *)
LEMMA MakeBlockEntryFits ==
  ASSUME GoodDirectory(corpus), NEW h, Fine(corpus, h), Ok(h), NEW block \in Ids(h),
         NEW make \in Ids(h)
  PROVE  Enters(corpus, h, MakeBlockEntry(h, block, make))
<1> DEFINE w == BlockDocs(h, block, make)
           docs == w.result
           x == MakeClassEntry(w, block, docs)
           own == x.result
           s == x.objects[block].data.name
           cat == "DoxyFunction"
           y == GetMember(x, block, s, cat)
           z == MakeEntry(y, y.objects[make].data.name, docs)
           v == own \o z.result
           Do4(t) == Answer(t, own \o t.result)
           Do3(t) == Then(MakeEntry(t, t.objects[make].data.name, docs), Do4)
           Do2(u) == Then(GetMember(u, block, u.objects[block].data.name, cat),
                          LAMBDA t : Then(MakeEntry(t, t.objects[make].data.name, docs),
                                          LAMBDA r : Answer(r, u.result \o r.result)))
           Do1(q) == Then(MakeClassEntry(q, block, q.result),
                          LAMBDA u : Then(GetMember(u, block, u.objects[block].data.name, cat),
                          LAMBDA t : Then(MakeEntry(t, t.objects[make].data.name, q.result),
                                          LAMBDA r : Answer(r, u.result \o r.result))))
           g == MakeBlockEntry(h, block, make)
<1>1. /\ g = Then(w, Do1) /\ Do1(w) = Then(x, Do2) /\ Do2(x) = Then(y, Do3)
      /\ Do3(y) = Then(z, Do4) /\ Do4(z) = Answer(z, v)
  BY DEF MakeBlockEntry, Object
<1>2. cat \in Categories \ {"Block"}
  BY CategoriesHave
<1>3. Finds(corpus, h, w)
  BY BlockDocsFits
<1> HIDE DEF g, w, cat, Do1, Do2, Do3, Do4
<1>4. Then(w, Do1) = IF Ok(w) THEN Do1(w) ELSE w
  BY SMT DEF Then
<1>5. Serves(corpus, h, w) /\ Fine(corpus, w) /\ {block, make} \subseteq Ids(w)
  BY <1>3, ServesIds DEF Finds
<1>6. CASE ~ Ok(w)
  BY <1>1, <1>4, <1>5, <1>6 DEF g, Enters
<1>7. CASE Ok(w)
  <2>1. InHeap(w, docs)
    BY <1>3, <1>7 DEF Finds
  <2> HIDE DEF docs
  <2>2. Enters(corpus, w, x)
    BY <1>5, <1>7, <2>1, MakeClassEntryFits
  <2> HIDE DEF x
  <2>3. Serves(corpus, w, x) /\ Serves(corpus, h, x)
    BY <1>5, <2>2, ServesTrans DEF Enters
  <2>4. Fine(corpus, x) /\ {block, make} \subseteq Ids(x) /\ InHeap(x, docs)
    BY <1>5, <2>1, <2>3, ServesIds, HeldOn
  <2>5. Then(x, Do2) = IF Ok(x) THEN Do2(x) ELSE x
    BY SMT DEF Then
  <2>6. CASE ~ Ok(x)
    BY <1>1, <1>4, <1>7, <2>3, <2>5, <2>6 DEF g, Enters
  <2>7. CASE Ok(x)
    <3>1. EntriesFit(x, own)
      BY <2>2, <2>7 DEF Enters
    <3>2. Len(s) \in Nat
      <4>1. s \in Seq(STRING)
        BY <2>4, NamesOfObjects
      <4> HIDE DEF s
      <4> QED
        BY <4>1, LenProperties
    <3> HIDE DEF own, s
    <3>3. Met(corpus, x, y)
      BY <1>2, <2>4, <2>7, <3>2, GetMemberFits
    <3> HIDE DEF y
    <3>4. Serves(corpus, x, y) /\ Serves(corpus, h, y) /\ Fine(corpus, y)
      BY <2>3, <2>4, <3>3, ServesTrans DEF Met, Serves
    <3>5. Then(y, Do3) = IF Ok(y) THEN Do3(y) ELSE y
      BY SMT DEF Then
    <3>6. CASE ~ Ok(y)
      BY <1>1, <1>4, <1>7, <2>5, <2>7, <3>4, <3>5, <3>6 DEF g, Enters
    <3>7. CASE Ok(y)
      <4>1. InHeap(y, docs)
        BY <2>4, <3>4, HeldOn
      <4>2. Enters(corpus, y, z) /\ z.raised = y.raised
        BY <3>4, <4>1, MakeEntryFits
      <4> HIDE DEF z, v
      <4>3. Ok(z)
        BY <3>7, <4>2 DEF Ok
      <4>4. Then(z, Do4) = IF Ok(z) THEN Do4(z) ELSE z
        BY SMT DEF Then
      <4>5. g = Answer(z, v)
        BY <1>1, <1>4, <1>7, <2>5, <2>7, <3>5, <3>7, <4>3, <4>4
      <4>6. Serves(corpus, y, z) /\ Serves(corpus, x, z) /\ Serves(corpus, h, z) /\ Fine(corpus, z)
        BY <2>3, <2>4, <3>4, <4>2, ServesTrans DEF Enters, Serves
      <4> DEFINE b == z.result
      <4>7. EntriesFit(z, own)
        BY <2>4, <3>1, <4>6, EntriesOn
      <4>8. EntriesFit(z, b) /\ v = own \o b
        BY <4>2, <4>3 DEF Enters, v
      <4> HIDE DEF b
      <4>9. EntriesFit(z, v)
        BY <4>7, <4>8, EntriesConcat
      <4>10. g.result = v /\ Ids(g) = Ids(z) /\ Serves(corpus, h, g)
        BY <4>5, <4>6, ServesSame, ServesOn
      <4>11. EntriesFit(g, v)
        BY <4>9, <4>10, EntriesSame
      <4> QED
        BY <4>10, <4>11 DEF Enters, g
    <3> QED
      BY <3>6, <3>7
  <2> QED
    BY <2>6, <2>7
<1> QED
  BY <1>6, <1>7

-----------------------------------------------------------------------------
(* The program.                                                            *)

\* The inductive invariant.
SwigInv ==
  /\ corpus \in Corpora /\ calls \in 0 .. MaxCalls
  /\ Fine(corpus, heap)
  /\ phase \in {"open", "blocks", "functions", "classes", "written", "aborted"}
  /\ phase \in {"blocks", "functions", "classes"} => heap.objects[Index].parsed
  /\ InHeap(heap, blocks) /\ InHeap(heap, todo) /\ reports \subseteq Ids(heap)
  /\ EntriesFit(heap, output)

(* DoxyIndex(path): the heap of a new index, which nothing has been asked  *)
(* of.                                                                     *)
LEMMA NewHeapFits ==
  ASSUME NEW d
  PROVE  Fine(d, NewHeap)
<1> DEFINE x == NewObject("DoxyIndex", Unknown, None)
           h == NewHeap
<1>1. /\ x \in Obj /\ DOMAIN x.members = {} /\ DOMAIN x.inCategory = {} /\ DOMAIN x.dictMembers = {}
  <2>1. "DoxyIndex" \in Classes /\ Unknown \in ParseData /\ None \in Refids \cup {None}
    BY DEF Classes, ParseData
  <2> QED
    BY <2>1, NewObjectIs
<1>2. /\ x.cls = "DoxyIndex" /\ x.refid = None /\ ~ x.parsed /\ ~ x.error /\ ~ x.described
      /\ x.members = <<>> /\ x.inCategory = <<>> /\ x.dictMembers = <<>>
  BY DEF NewObject
<1> HIDE DEF x
<1>3. <<x>> \in Seq(Obj) /\ Len(<<x>>) = 1 /\ <<x>>[1] = x
  BY <1>1
<1>4. h.objects = <<x>> /\ h.refs = <<>>
      /\ h = [objects |-> h.objects, refs |-> h.refs, result |-> h.result, raised |-> h.raised]
  BY DEF NewHeap, x
<1> HIDE DEF h
<1>5. Heap(h) /\ Len(h.objects) = 1 /\ h.objects[1] = x /\ DOMAIN h.refs = {}
  BY <1>3, <1>4, EmptyCaches DEF Heap
<1>6. Ids(h) = {1} /\ Index = 1
  BY <1>5 DEF Ids, Index
<1>7. CachesFit(d, h, x)
  BY <1>1 DEF CachesFit
<1>8. ObjectFits(d, h, 1)
  BY <1>1, <1>2, <1>5, <1>6, <1>7 DEF ObjectFits
<1>9. RefsFit(h) /\ ClassesFit(d, h)
  BY <1>2, <1>5, <1>6 DEF RefsFit, ClassesFit
<1>10. Good(d, h)
  BY <1>5, <1>6, <1>8, <1>9 DEF Good
<1>11. Filled(d, h, {Index})
  BY <1>6 DEF Filled
<1> QED
  BY <1>2, <1>5, <1>6, <1>10, <1>11 DEF Fine, h

\* What is known of the objects remains so when a call has been made.
Goes(h, k) ==
  /\ \A s : InHeap(h, s) => InHeap(k, s)
  /\ \A es : EntriesFit(h, es) => EntriesFit(k, es)

(* Between two calls the result and the exception of the last one are      *)
(* forgotten: what it left in the heap stays.                              *)
LEMMA AfterCall ==
  ASSUME NEW d, NEW h, Fine(d, h), NEW g, Serves(d, Fresh(h), g)
  PROVE  LET k == Settled(g) IN
         /\ Fine(d, k) /\ Ids(h) \subseteq Ids(k) /\ k.objects = g.objects
         /\ h.objects[Index].parsed => k.objects[Index].parsed
         /\ Goes(h, k) /\ Goes(g, k)
<1> DEFINE f == Fresh(h)
           k == Settled(g)
<1>1. Serves(d, h, f) /\ f.objects = h.objects /\ Ids(f) = Ids(h)
  BY BetweenCalls
<1> HIDE DEF f
<1>2. Serves(d, h, g) /\ Fine(d, g)
  BY <1>1, ServesTrans DEF f, Serves
<1>3. Serves(d, g, k) /\ Fine(d, k) /\ k.objects = g.objects /\ Ids(k) = Ids(g)
  BY <1>2, BetweenCalls
<1> HIDE DEF k
<1>4. Serves(d, h, k)
  BY <1>2, <1>3, ServesTrans
<1>5. Ids(h) \subseteq Ids(k) /\ Index \in Ids(h)
  BY <1>4, ServesIds
<1>6. h.objects[Index].parsed => k.objects[Index].parsed
  BY <1>4, <1>5 DEF Serves, Grows, KeptObject
<1>7. Goes(h, k) /\ Goes(g, k)
  BY <1>2, <1>3, <1>4, HeldOn, EntriesOn DEF Goes
<1> QED
  BY <1>3, <1>5, <1>6, <1>7 DEF k

(* The first of a list of objects and the others.                          *)
LEMMA HeldParts ==
  ASSUME NEW h, NEW s, InHeap(h, s), s # <<>>
  PROVE  Head(s) \in Ids(h) /\ InHeap(h, Tail(s))
<1>1. s \in Seq(Nat) /\ \A i \in DOMAIN s : s[i] \in Ids(h)
  BY DEF InHeap
<1>2. /\ Len(s) \in Nat \ {0} /\ DOMAIN s = 1 .. Len(s)
  BY <1>1, EmptySeq, LenProperties
<1>3. /\ Head(s) = s[1] /\ Tail(s) \in Seq(Nat) /\ Len(Tail(s)) = Len(s) - 1
      /\ \A i \in 1 .. Len(Tail(s)) : Tail(s)[i] = s[i + 1]
  BY <1>1, HeadTailProperties
<1>4. DOMAIN Tail(s) = 1 .. Len(s) - 1
  BY <1>3, LenProperties
<1>5. ASSUME NEW i \in DOMAIN Tail(s) PROVE Tail(s)[i] \in Ids(h)
  <2>1. i + 1 \in DOMAIN s /\ Tail(s)[i] = s[i + 1]
    BY <1>2, <1>3, <1>4
  <2> QED
    BY <1>1, <2>1
<1> QED
  BY <1>1, <1>2, <1>3, <1>5 DEF InHeap

(* The objects a comprehension keeps of a list are objects.                *)
LEMMA HeldChosen ==
  ASSUME NEW h, NEW s, InHeap(h, s), NEW I
  PROVE  InHeap(h, Chosen(s, I))
BY ChosenIn DEF InHeap

(* The invariant holds before the first call.                              *)
LEMMA InitInv == Init => SwigInv
<1> SUFFICES ASSUME Init PROVE SwigInv
  OBVIOUS
<1>1. corpus \in Corpora /\ heap = NewHeap /\ calls = 0
  BY DEF Init, DoxyInit
<1>2. Fine(corpus, heap)
  BY <1>1, NewHeapFits
<1>3. calls \in 0 .. MaxCalls
  BY <1>1, MaxCallsAssumption
<1>4. blocks = <<>> /\ todo = <<>> /\ output = <<>> /\ reports = {} /\ phase = "open"
  BY DEF Init
<1>5. InHeap(heap, <<>>)
  BY EmptySeq DEF InHeap
<1>6. EntriesFit(heap, <<>>)
  BY <1>5, FewEntries
<1> QED
  BY <1>1, <1>2, <1>3, <1>4, <1>5, <1>6 DEF SwigInv

-----------------------------------------------------------------------------
(* Steps of the program.                                                   *)

(* What a call of the program finds: a fine heap without result and        *)
(* exception, whose index has no error.                                    *)
LEMMA AtCall ==
  ASSUME SwigInv
  PROVE  /\ GoodDirectory(corpus) /\ Fine(corpus, Called) /\ Ok(Called)
         /\ Called.objects = heap.objects /\ Ids(Called) = Ids(heap) /\ Index \in Ids(heap)
         /\ DOMAIN heap.objects = Ids(heap)
         /\ Fine(corpus, heap) /\ ~ heap.objects[Index].error
<1>1. corpus \in Corpora /\ Fine(corpus, heap)
  BY DEF SwigInv
<1>2. GoodDirectory(corpus)
  BY <1>1, CorporaAssumption DEF GoodDirectory
<1>3. /\ Fine(corpus, Called) /\ Ok(Called) /\ Called.objects = heap.objects /\ Ids(Called) = Ids(heap)
  BY <1>1, BetweenCalls DEF Called
<1>4. Good(corpus, heap) /\ Index \in Ids(heap) /\ Heap(heap)
  BY <1>1 DEF Fine, Good
<1>5. ~ heap.objects[Index].error
  BY <1>4 DEF Good, ObjectFits, Reads
<1>6. DOMAIN heap.objects = Ids(heap)
  BY <1>4, LenProperties DEF Heap, Ids
<1> QED
  BY <1>1, <1>2, <1>3, <1>4, <1>5, <1>6

(* What a call leaves: the lists the generator holds, the objects it       *)
(* reported and the entries it wrote are still of the heap.                *)
LEMMA CallKeeps ==
  ASSUME SwigInv, NEW g, Serves(corpus, Called, g), heap' = Settled(g), corpus' = corpus
  PROVE  /\ corpus' \in Corpora /\ Fine(corpus', heap')
         /\ heap.objects[Index].parsed => heap'.objects[Index].parsed
         /\ heap'.objects = g.objects
         /\ InHeap(heap', blocks) /\ InHeap(heap', todo) /\ EntriesFit(heap', output)
         /\ reports \subseteq Ids(heap') /\ Ids(heap) \subseteq Ids(heap')
         /\ Goes(g, heap')
<1> DEFINE k == Settled(g)
<1>1. Fine(corpus, heap)
  BY DEF SwigInv
<1>2. /\ Fine(corpus, k) /\ Ids(heap) \subseteq Ids(k) /\ k.objects = g.objects
      /\ heap.objects[Index].parsed => k.objects[Index].parsed
      /\ Goes(heap, k) /\ Goes(g, k)
  BY <1>1, AfterCall DEF Called
<1> HIDE DEF k
<1>3. InHeap(k, blocks) /\ InHeap(k, todo) /\ EntriesFit(k, output) /\ reports \subseteq Ids(k)
  BY <1>2 DEF SwigInv, Goes
<1>4. heap' = k /\ corpus' = corpus /\ corpus \in Corpora
  BY DEF k, SwigInv
<1> QED
  BY <1>2, <1>3, <1>4

(* A step of the generator that makes a call, and sets its own variables   *)
(* to what the call returned, keeps the invariant.                         *)
LEMMA StepFits ==
  ASSUME SwigInv, NEW g, Serves(corpus, Called, g), heap' = Settled(g), corpus' = corpus,
         calls' \in 0 .. MaxCalls,
         phase' \in {"open", "blocks", "functions", "classes", "written", "aborted"},
         phase' \in {"blocks", "functions", "classes"} =>
             heap.objects[Index].parsed \/ g.objects[Index].parsed,
         \/ blocks' = blocks
         \/ InHeap(g, blocks'),
         \/ todo' = todo
         \/ InHeap(heap', todo'),
         reports' \subseteq reports \cup Ids(heap),
         \/ output' = output
         \/ EntriesFit(heap', output')
  PROVE  SwigInv'
<1>1. /\ corpus' \in Corpora /\ Fine(corpus', heap')
      /\ heap.objects[Index].parsed => heap'.objects[Index].parsed
      /\ heap'.objects = g.objects
      /\ InHeap(heap', blocks) /\ InHeap(heap', todo) /\ EntriesFit(heap', output)
      /\ reports \subseteq Ids(heap') /\ Ids(heap) \subseteq Ids(heap')
      /\ Goes(g, heap')
  BY CallKeeps
<1>2. InHeap(heap', blocks') /\ InHeap(heap', todo') /\ EntriesFit(heap', output')
  BY <1>1 DEF Goes
<1>3. phase' \in {"blocks", "functions", "classes"} => heap'.objects[Index].parsed
  BY <1>1
<1>4. reports' \subseteq Ids(heap')
  BY <1>1
<1>5. MaxCalls' = MaxCalls
  OBVIOUS
<1> QED
  BY <1>1, <1>2, <1>3, <1>4 DEF SwigInv

(* A reader of the index, who calls any of its operations on any object he *)
(* was handed, keeps the invariant.                                        *)
LEMMA ExploreFits ==
  ASSUME SwigInv, Explore
  PROVE  SwigInv'
<1>1. /\ phase = "open" /\ calls < MaxCalls /\ calls' = calls + 1 /\ corpus' = corpus
      /\ UNCHANGED swigVars
  BY DEF Explore, UserCall
<1>2. PICK o \in Held(heap), c \in Operations : heap' = Settled(Call(Fresh(heap), o, c))
  BY DEF Explore, UserCall
<1> DEFINE g == Call(Called, o, c)
<1>3. /\ GoodDirectory(corpus) /\ Fine(corpus, Called) /\ Ok(Called)
      /\ Fine(corpus, heap) /\ Ids(Called) = Ids(heap)
  BY AtCall
<1>4. o \in Ids(Called)
  BY <1>3, HeldAre
<1>5. Serves(corpus, Called, g)
  BY <1>3, <1>4, CallFits
<1>6. heap' = Settled(g)
  BY <1>2 DEF Called
<1> HIDE DEF g
<1>7. /\ phase' = "open" /\ blocks' = blocks /\ todo' = todo /\ reports' = reports /\ output' = output
  BY <1>1 DEF swigVars
<1>8. calls' \in 0 .. MaxCalls
  BY <1>1, MaxCallsAssumption DEF SwigInv
<1> QED
  BY <1>1, <1>5, <1>6, <1>7, <1>8, StepFits

(* A generator that ends with the exception of a call keeps the invariant. *)
LEMMA AbortFits ==
  ASSUME SwigInv, NEW h, Serves(corpus, Called, h), Abort(h)
  PROVE  SwigInv'
<1>1. /\ heap' = Settled(h) /\ phase' = "aborted" /\ corpus' = corpus /\ calls' = calls
      /\ blocks' = blocks /\ todo' = todo /\ output' = output /\ reports' = reports
  BY DEF Abort
<1>2. calls \in 0 .. MaxCalls
  BY DEF SwigInv
<1> QED
  BY <1>1, <1>2, StepFits

(* A turn of a loop of make_swig_interface_file that wrote its entry keeps *)
(* the invariant.                                                          *)
LEMMA TurnFits ==
  ASSUME SwigInv, phase \in {"blocks", "functions", "classes"}, todo # <<>>,
         NEW h, Enters(corpus, Called, h), Turn(h)
  PROVE  SwigInv'
<1>1. /\ heap' = Settled(h) /\ corpus' = corpus /\ calls' = calls /\ phase' = phase
      /\ blocks' = blocks /\ todo' = Tail(todo)
      /\ IF Ok(h) THEN output' = output \o h.result /\ reports' = reports
         ELSE reports' = reports \cup {Head(todo)} /\ output' = output
  BY DEF Turn, Advance
<1>2. Serves(corpus, Called, h) /\ (Ok(h) => EntriesFit(h, h.result))
  BY DEF Enters
<1>3. InHeap(heap', todo) /\ EntriesFit(heap', output) /\ Goes(h, heap')
  BY <1>1, <1>2, CallKeeps
<1>4. InHeap(heap', Tail(todo))
  BY <1>3, HeldParts
<1>5. Ok(h) => EntriesFit(heap', output \o h.result)
  <2> DEFINE k == heap'
             b == h.result
  <2>1. EntriesFit(k, output) /\ (Ok(h) => EntriesFit(k, b))
    BY <1>2, <1>3 DEF Goes
  <2> HIDE DEF k, b
  <2>2. Ok(h) => EntriesFit(k, output \o b)
    BY <2>1, EntriesConcat
  <2> QED
    BY <2>2 DEF k, b
<1>6. Head(todo) \in Ids(heap)
  BY HeldParts DEF SwigInv
<1>7. calls \in 0 .. MaxCalls /\ heap.objects[Index].parsed
  BY DEF SwigInv
<1>8. /\ InHeap(heap', todo') /\ reports' \subseteq reports \cup Ids(heap)
      /\ output' = output \/ EntriesFit(heap', output')
  BY <1>1, <1>4, <1>5, <1>6
<1> QED
  BY <1>1, <1>2, <1>7, <1>8, StepFits

(* blocks = di.in_category(Block) keeps the invariant.                     *)
LEMMA FindBlocksFits ==
  ASSUME SwigInv, FindBlocks
  PROVE  SwigInv'
<1> DEFINE cat == "Block"
           i == Index
           h == InCategory(Called, i, cat)
<1>1. /\ GoodDirectory(corpus) /\ Fine(corpus, Called) /\ Ok(Called) /\ i \in Ids(Called)
  BY AtCall
<1>2. cat \in Categories \ {None}
  BY CategoriesHave
<1>3. \/ Abort(h)
      \/ /\ Ok(h) /\ heap' = Settled(h) /\ phase' = "blocks"
         /\ blocks' = h.result /\ todo' = h.result
         /\ corpus' = corpus /\ calls' = calls /\ output' = output /\ reports' = reports
  BY DEF FindBlocks
<1> HIDE DEF cat, i
<1>4. Serves(corpus, Called, h) /\ (Ok(h) => InHeap(h, h.result) /\ h.objects[i].parsed)
  BY <1>1, <1>2, InCategoryFits
<1> HIDE DEF h
<1>5. CASE Abort(h)
  BY <1>4, <1>5, AbortFits
<1>6. CASE /\ Ok(h) /\ heap' = Settled(h) /\ phase' = "blocks"
           /\ blocks' = h.result /\ todo' = h.result
           /\ corpus' = corpus /\ calls' = calls /\ output' = output /\ reports' = reports
  <2>1. Goes(h, heap')
    BY <1>4, <1>6, CallKeeps
  <2>2. InHeap(h, h.result) /\ h.objects[Index].parsed
    BY <1>4, <1>6 DEF i
  <2>3. InHeap(h, blocks') /\ InHeap(heap', todo')
    BY <1>6, <2>1, <2>2 DEF Goes
  <2>4. calls \in 0 .. MaxCalls
    BY DEF SwigInv
  <2> QED
    BY <1>4, <1>6, <2>2, <2>3, <2>4, StepFits
<1> QED
  BY <1>3, <1>5, <1>6

\* The program makes a call on its heap, for the turn of a loop.
TakesTurn(h) ==
  /\ phase \in {"blocks", "functions", "classes"} /\ todo # <<>>
  /\ Enters(corpus, Called, h) /\ (Abort(h) \/ Turn(h))

(* A turn of the loop over the blocks writes an entry, goes on after its   *)
(* exception or ends the program.                                          *)
LEMMA BlockEntryTurns ==
  ASSUME SwigInv, BlockEntry
  PROVE  \E h : TakesTurn(h)
<1> DEFINE block == Head(todo)
           n == heap.objects[block].data.name
           s == make_name(n)
           cat == "DoxyFunction"
           i == Index
           make == GetMember(Called, i, s, cat)
           o == make.result
           Do(g) == MakeBlockEntry(g, block, g.result)
           h == Then(make, Do)
           e == MakeBlockEntry(make, block, o)
<1>1. phase = "blocks" /\ todo # <<>> /\ (Abort(h) \/ Turn(h)) /\ Do(make) = e
  BY DEF BlockEntry, Object
<1>2. /\ GoodDirectory(corpus) /\ Fine(corpus, Called) /\ Ok(Called) /\ i \in Ids(Called)
      /\ Ids(Called) = Ids(heap) /\ Fine(corpus, heap)
  BY AtCall
<1>3. cat \in Categories \ {"Block"}
  BY CategoriesHave
<1>4. block \in Ids(heap)
  BY <1>1, HeldParts DEF SwigInv
<1> HIDE DEF block, cat, i
<1>5. n \in Seq(STRING)
  BY <1>2, <1>4, NamesOfObjects
<1> HIDE DEF n
<1>6. Len(s) \in Nat
  BY <1>5, RenamedLength DEF make_name
<1> HIDE DEF s, Do
<1>7. h = IF Ok(make) THEN Do(make) ELSE make
  BY SMT DEF Then
<1> HIDE DEF h
<1>8. Met(corpus, Called, make)
  BY <1>2, <1>3, <1>6, GetMemberFits
<1> HIDE DEF make, e
<1>9. Serves(corpus, Called, make) /\ Fine(corpus, make) /\ block \in Ids(make)
      /\ (Ok(make) => o \in Ids(make))
  BY <1>2, <1>4, <1>8, ServesIds DEF Met
<1>10. Enters(corpus, Called, h)
  <2>1. CASE ~ Ok(make)
    BY <1>7, <1>9, <2>1 DEF Enters
  <2>2. CASE Ok(make)
    <3>1. o \in Ids(make)
      BY <1>9, <2>2
    <3> HIDE DEF o
    <3>2. Enters(corpus, make, e)
      BY <1>2, <1>9, <2>2, <3>1, MakeBlockEntryFits DEF e
    <3>3. Serves(corpus, Called, e)
      BY <1>2, <1>9, <3>2, ServesTrans DEF Enters
    <3> QED
      BY <1>1, <1>7, <2>2, <3>2, <3>3 DEF Enters
  <2> QED
    BY <2>1, <2>2
<1>11. TakesTurn(h)
  BY <1>1, <1>10 DEF TakesTurn
<1> QED
  BY <1>11

(* The search for the functions, or the classes, that are no block's make  *)
(* function, or no block, keeps the invariant.                             *)
LEMMA FindOthersFits ==
  ASSUME SwigInv, phase \in {"blocks", "functions"},
         NEW cat \in {"DoxyFunction", "DoxyClass"}, NEW h, h = InCategory(Called, Index, cat),
         heap' = Settled(h), NEW I, todo' = Chosen(h.result, I), phase' \in {"functions", "classes"},
         corpus' = corpus, calls' = calls, blocks' = blocks, output' = output, reports' = reports
  PROVE  SwigInv'
<1> DEFINE i == Index
<1>1. /\ GoodDirectory(corpus) /\ Fine(corpus, Called) /\ Ok(Called) /\ i \in Ids(Called)
      /\ Called.objects = heap.objects /\ ~ heap.objects[i].error
  BY AtCall
<1>2. heap.objects[i].parsed
  BY DEF SwigInv
<1>3. cat \in Categories \ {None} /\ cat # "Block"
  BY CategoriesHave
<1>4. h = InCategory(Called, i, cat)
  OBVIOUS
<1>5. heap.objects[Index].parsed
  BY <1>2
<1> HIDE DEF i
<1>6. Serves(corpus, Called, h) /\ Ok(h) /\ InHeap(h, h.result)
  BY <1>1, <1>2, <1>3, <1>4, InCategoryFits
<1>7. Goes(h, heap')
  BY <1>6, CallKeeps
<1>8. InHeap(heap', todo')
  <2>1. InHeap(h, Chosen(h.result, I))
    BY <1>6, HeldChosen
  <2> QED
    BY <1>7, <2>1 DEF Goes
<1>9. calls \in 0 .. MaxCalls
  BY DEF SwigInv
<1> QED
  BY <1>5, <1>6, <1>8, <1>9, StepFits

(* funcs = di.in_category(DoxyFunction) keeps the invariant.               *)
LEMMA FindFunctionsFits ==
  ASSUME SwigInv, FindFunctions
  PROVE  SwigInv'
<1>1. PICK h \in {InCategory(Called, Index, "DoxyFunction")} :
         /\ heap' = Settled(h)
         /\ todo' = Chosen(h.result, {i \in DOMAIN h.result : NotMade(h, h.result[i])})
  BY DEF FindFunctions
<1> DEFINE I == {i \in DOMAIN h.result : NotMade(h, h.result[i])}
<1>2. todo' = Chosen(h.result, I)
  BY <1>1
<1> HIDE DEF I
<1>3. /\ phase = "blocks" /\ phase' = "functions" /\ corpus' = corpus /\ calls' = calls
      /\ blocks' = blocks /\ output' = output /\ reports' = reports
  BY DEF FindFunctions
<1> QED
  BY <1>1, <1>2, <1>3, FindOthersFits

(* klasses = di.in_category(DoxyClass) keeps the invariant.                *)
LEMMA FindClassesFits ==
  ASSUME SwigInv, FindClasses
  PROVE  SwigInv'
<1> DEFINE blockNames == {Object(heap, blocks[i]).data.name : i \in DOMAIN blocks}
<1>1. PICK h \in {InCategory(Called, Index, "DoxyClass")} :
         /\ heap' = Settled(h)
         /\ todo' = Chosen(h.result, {i \in DOMAIN h.result :
                             Object(h, h.result[i]).data.name \notin blockNames})
  BY DEF FindClasses
<1> DEFINE I == {i \in DOMAIN h.result : Object(h, h.result[i]).data.name \notin blockNames}
<1>2. todo' = Chosen(h.result, I)
  BY <1>1
<1> HIDE DEF I
<1>3. /\ phase = "functions" /\ phase' = "classes" /\ corpus' = corpus /\ calls' = calls
      /\ blocks' = blocks /\ output' = output /\ reports' = reports
  BY DEF FindClasses
<1> QED
  BY <1>1, <1>2, <1>3, FindOthersFits

(* So does a turn of the loop over the functions.                          *)
LEMMA FunctionEntryTurns ==
  ASSUME SwigInv, FunctionEntry
  PROVE  \E h : TakesTurn(h)
<1> DEFINE f == Head(todo)
           n == Object(heap, f).data.name
           h == MakeFuncEntry(Called, f, n)
<1>1. phase = "functions" /\ todo # <<>> /\ Turn(h)
  BY DEF FunctionEntry
<1>2. /\ GoodDirectory(corpus) /\ Fine(corpus, Called) /\ Ok(Called) /\ Ids(Called) = Ids(heap)
  BY AtCall
<1>3. f \in Ids(Called)
  BY <1>1, <1>2, HeldParts DEF SwigInv
<1> HIDE DEF f, n
<1>4. Enters(corpus, Called, h)
  BY <1>2, <1>3, MakeFuncEntryFits
<1> HIDE DEF h
<1>5. TakesTurn(h)
  BY <1>1, <1>4 DEF TakesTurn
<1> QED
  BY <1>5

(* So does a turn of the loop over the classes.                            *)
LEMMA ClassEntryTurns ==
  ASSUME SwigInv, ClassEntry
  PROVE  \E h : TakesTurn(h)
<1> DEFINE k == Head(todo)
           c == CombineDescriptions(Called, k)
           docs == c.result
           Do(g) == MakeClassEntry(g, k, g.result)
           h == Then(c, Do)
           e == MakeClassEntry(c, k, docs)
<1>1. phase = "classes" /\ todo # <<>> /\ (Abort(h) \/ Turn(h)) /\ Do(c) = e
  BY DEF ClassEntry
<1>2. /\ GoodDirectory(corpus) /\ Fine(corpus, Called) /\ Ok(Called) /\ Ids(Called) = Ids(heap)
  BY AtCall
<1>3. k \in Ids(Called)
  BY <1>1, <1>2, HeldParts DEF SwigInv
<1> HIDE DEF k, Do
<1>4. h = IF Ok(c) THEN Do(c) ELSE c
  BY SMT DEF Then
<1> HIDE DEF h
<1>5. Finds(corpus, Called, c)
  BY <1>2, <1>3, CombineFits
<1> HIDE DEF c, e
<1>6. Serves(corpus, Called, c) /\ Fine(corpus, c) /\ k \in Ids(c) /\ (Ok(c) => InHeap(c, docs))
  BY <1>2, <1>3, <1>5, ServesIds DEF Finds
<1>7. Enters(corpus, Called, h)
  <2>1. CASE ~ Ok(c)
    BY <1>4, <1>6, <2>1 DEF Enters
  <2>2. CASE Ok(c)
    <3>1. InHeap(c, docs)
      BY <1>6, <2>2
    <3> HIDE DEF docs
    <3>2. Enters(corpus, c, e)
      BY <1>2, <1>6, <2>2, <3>1, MakeClassEntryFits DEF e
    <3>3. Serves(corpus, Called, e)
      BY <1>2, <1>6, <3>2, ServesTrans DEF Enters
    <3> QED
      BY <1>1, <1>4, <2>2, <3>2, <3>3 DEF Enters
  <2> QED
    BY <2>1, <2>2
<1>8. TakesTurn(h)
  BY <1>1, <1>7 DEF TakesTurn
<1> QED
  BY <1>8

(* A turn of a loop keeps the invariant.                                   *)
LEMMA TurnsFit ==
  ASSUME SwigInv, BlockEntry \/ FunctionEntry \/ ClassEntry
  PROVE  SwigInv'
<1>1. PICK h : TakesTurn(h)
  BY BlockEntryTurns, FunctionEntryTurns, ClassEntryTurns
<1>2. CASE Abort(h)
  BY <1>1, <1>2, AbortFits DEF TakesTurn, Enters
<1>3. CASE Turn(h)
  BY <1>1, <1>3, TurnFits DEF TakesTurn
<1> QED
  BY <1>1, <1>2, <1>3 DEF TakesTurn

(* Every step of the generator and of a reader keeps the invariant.        *)
LEMMA StepInv == SwigInv /\ [Next]_vars => SwigInv'
<1> SUFFICES ASSUME SwigInv, [Next]_vars PROVE SwigInv'
  OBVIOUS
<1>1. CASE Explore
  BY <1>1, ExploreFits
<1>2. CASE FindBlocks
  BY <1>2, FindBlocksFits
<1>3. CASE BlockEntry
  BY <1>3, TurnsFit
<1>4. CASE FindFunctions
  BY <1>4, FindFunctionsFits
<1>5. CASE FunctionEntry
  BY <1>5, TurnsFit
<1>6. CASE FindClasses
  BY <1>6, FindClassesFits
<1>7. CASE ClassEntry
  BY <1>7, TurnsFit
<1>8. CASE Write
  BY <1>8 DEF SwigInv, Write
<1>9. CASE UNCHANGED vars
  BY <1>9 DEF SwigInv, vars, doxyVars, swigVars
<1> QED
  BY <1>1, <1>2, <1>3, <1>4, <1>5, <1>6, <1>7, <1>8, <1>9 DEF Next, Generate

-----------------------------------------------------------------------------
(* The names of the members of the index.                                  *)

(* The names of the members are those of one entry after another.          *)
LEMMA NamesTurns ==
  ASSUME NEW d, NEW n \in Nat
  PROVE  \E f : /\ f[0] = <<>>
                /\ \A k \in 1 .. n : f[k] = f[k - 1] \o MemberNames(d, d.index[k])
                /\ NamesUpTo(d, n) = f[n]
<1> DEFINE Pass(g, k) == g \o MemberNames(d, d.index[k])
           Are(f) == f = [k \in 0 .. n |-> IF k = 0 THEN <<>> ELSE Pass(f[k - 1], k)]
           Steps(f, m) == /\ f = [k \in 0 .. m |-> f[k]] /\ f[0] = <<>>
                          /\ \A k \in 1 .. m : f[k] = Pass(f[k - 1], k)
           S == {m \in Nat : \E f : Steps(f, m)}
<1>1. NamesUpTo(d, n) = (CHOOSE f : Are(f))[n]
  BY DEF NamesUpTo
<1>2. \A g, k : Pass(g, k) = g \o MemberNames(d, d.index[k])
  OBVIOUS
<1> HIDE DEF Pass
<1>3. 0 \in S
  <2>1. Steps([k \in 0 .. 0 |-> <<>>], 0)
    OBVIOUS
  <2> QED
    BY <2>1
<1>4. ASSUME NEW m \in 0 .. n - 1, m \in S PROVE m + 1 \in S
  <2>1. PICK f : Steps(f, m)
    BY <1>4
  <2>2. m \in Nat /\ m + 1 \in Nat
    OBVIOUS
  <2> DEFINE v == Pass(f[m], m + 1)
             g == Extended(f, m, v)
  <2>3. g = [k \in 0 .. m + 1 |-> g[k]]
    BY DEF Extended
  <2> HIDE DEF v, Steps, S, Are
  <2>4. /\ g[0] = f[0] /\ g[m + 1] = v /\ g[m] = f[m]
        /\ \A k \in 1 .. m : g[k] = f[k] /\ g[k - 1] = f[k - 1]
        /\ \A k \in 1 .. m + 1 : (k = m + 1 /\ k - 1 = m) \/ k \in 1 .. m
    BY <2>2, OneTurnMore
  <2> HIDE DEF g
  <2>5. f[0] = <<>> /\ \A k \in 1 .. m : f[k] = Pass(f[k - 1], k)
    BY <2>1 DEF Steps
  <2>6. \A k \in 1 .. m + 1 : g[k] = Pass(g[k - 1], k)
    BY <2>4, <2>5 DEF v
  <2>7. Steps(g, m + 1)
    BY <2>3, <2>4, <2>5, <2>6 DEF Steps
  <2> QED
    BY <2>2, <2>7 DEF S
<1>5. n \in S
  <2>1. n \in 0 .. n
    OBVIOUS
  <2> HIDE DEF S
  <2> QED
    BY <1>3, <1>4, <2>1, Induction
<1>6. PICK f : Steps(f, n)
  BY <1>5
<1>7. Are(f)
  <2>1. f[0] = <<>> /\ (\A k \in 1 .. n : f[k] = Pass(f[k - 1], k))
    BY <1>6
  <2>2. \A k \in 0 .. n : f[k] = IF k = 0 THEN <<>> ELSE Pass(f[k - 1], k)
    BY <2>1
  <2>3. f = [k \in 0 .. n |-> f[k]]
    BY <1>6
  <2> QED
    BY <2>2, <2>3
<1> DEFINE r == CHOOSE e : Are(e)
<1>8. Are(r) /\ NamesUpTo(d, n) = r[n]
  BY <1>1, <1>7
<1> HIDE DEF r
<1>9. r[0] = <<>> /\ \A k \in 1 .. n : r[k] = Pass(r[k - 1], k)
  BY <1>8
<1> QED
  BY <1>2, <1>8, <1>9

(* The names up to an entry are those up to the one before, and its own.   *)
LEMMA NamesStep ==
  ASSUME NEW d, NEW n \in Nat
  PROVE  /\ NamesUpTo(d, 0) = <<>>
         /\ NamesUpTo(d, n + 1) = NamesUpTo(d, n) \o MemberNames(d, d.index[n + 1])
<1> DEFINE M(k) == MemberNames(d, d.index[k])
           UpTo(f, m) == f[0] = <<>> /\ \A k \in 1 .. m : f[k] = f[k - 1] \o M(k)
<1> HIDE DEF M
<1>1. PICK e : UpTo(e, 0) /\ NamesUpTo(d, 0) = e[0]
  BY NamesTurns DEF M
<1>2. PICK f : UpTo(f, n) /\ NamesUpTo(d, n) = f[n]
  BY NamesTurns DEF M
<1>3. PICK g : UpTo(g, n + 1) /\ NamesUpTo(d, n + 1) = g[n + 1]
  <2>1. n + 1 \in Nat
    OBVIOUS
  <2> QED
    BY <2>1, NamesTurns DEF M
<1> DEFINE S == {k \in 0 .. n : f[k] = g[k]}
<1>4. 0 \in S
  BY <1>2, <1>3
<1>5. ASSUME NEW k \in 0 .. n - 1, k \in S PROVE k + 1 \in S
  <2>1. k + 1 \in 1 .. n /\ k + 1 \in 1 .. n + 1 /\ (k + 1) - 1 = k /\ k + 1 \in 0 .. n
    OBVIOUS
  <2> QED
    BY <1>2, <1>3, <1>5, <2>1
<1>6. n \in S
  <2>1. n \in 0 .. n
    OBVIOUS
  <2> HIDE DEF S
  <2> QED
    BY <1>4, <1>5, <2>1, Induction
<1>7. g[n + 1] = g[n] \o M(n + 1)
  <2>1. n + 1 \in 1 .. n + 1 /\ (n + 1) - 1 = n
    OBVIOUS
  <2> QED
    BY <1>3, <2>1
<1> QED
  BY <1>1, <1>2, <1>3, <1>6, <1>7 DEF M

(* What an entry gives is a sequence of names.                             *)
LEMMA MemberNamesAre ==
  ASSUME NEW d, GoodDirectory(d), NEW k \in DOMAIN d.index
  PROVE  /\ d.index[k].name \in Names
         /\ ~ Fatal(d, d.index[k]) => MemberNames(d, d.index[k]) \in Seq(Names)
         /\ d.index[k].kind # "file" => MemberNames(d, d.index[k]) = <<d.index[k].name>>
         /\ d.index[k].kind = "file" /\ d.index[k].name \notin HeaderNames =>
               MemberNames(d, d.index[k]) = <<>>
         /\ d.index[k].kind = "file" /\ d.index[k].name \in HeaderNames
               /\ FileState(d, d.index[k].refid) = "ok" =>
               LET firsts == FirstOfName(d.files[d.index[k].refid].memberdefs) IN
               /\ firsts \in Seq(Memberdefs)
               /\ MemberNames(d, d.index[k])
                     = [i \in 1 .. Len(firsts) |-> firsts[i].name] \o <<d.index[k].name>>
               /\ [i \in 1 .. Len(firsts) |-> firsts[i].name] \in Seq(Names)
<1> DEFINE e == d.index[k]
           file == d.files[e.refid]
           defs == file.memberdefs
           firsts == FirstOfName(defs)
           own == [i \in 1 .. Len(firsts) |-> firsts[i].name]
<1>1. e \in Compounds
  BY DirectoryHas
<1>2. e.name \in Names /\ <<e.name>> \in Seq(Names) /\ <<>> \in Seq(Names)
  BY <1>1, EmptySeq DEF Compounds
<1>3. ASSUME e.kind # "file" PROVE MemberNames(d, e) = <<e.name>>
  BY <1>3 DEF MemberNames
<1>4. ASSUME e.kind = "file", e.name \notin HeaderNames PROVE MemberNames(d, e) = <<>>
  BY <1>4 DEF MemberNames
<1>5. ASSUME e.kind = "file", e.name \in HeaderNames, FileState(d, e.refid) = "ok"
      PROVE  /\ firsts \in Seq(Memberdefs) /\ own \in Seq(Names)
             /\ MemberNames(d, e) = own \o <<e.name>>
  <2>1. e.refid \in DOMAIN d.files
    BY <1>5 DEF FileState
  <2>2. file \in Files
    BY <2>1, DirectoryHas
  <2>3. firsts \in Seq(Memberdefs)
    BY <2>2, DefinitionsFit
  <2>4. defs \in Seq(Memberdefs) /\ Len(defs) \in Nat /\ DOMAIN defs = 1 .. Len(defs)
    BY <2>2, LenProperties DEF Files
  <2>5. firsts = Chosen(defs, {i \in DOMAIN defs : IsFirst(defs, i)})
    BY <2>4, FirstOfNameIs
  <2>6. MemberNames(d, e) = own \o <<e.name>>
    BY <1>5, <2>5 DEF MemberNames
  <2> HIDE DEF firsts
  <2>7. Len(firsts) \in Nat /\ \A i \in 1 .. Len(firsts) : firsts[i].name \in Names
    <3>1. Len(firsts) \in Nat /\ \A i \in 1 .. Len(firsts) : firsts[i] \in Memberdefs
      BY <2>3, LenProperties, ElementOfSeq
    <3>2. \A m \in Memberdefs : m.name \in Names
      BY DEF Memberdefs
    <3> QED
      BY <3>1, <3>2
  <2>8. own \in Seq(Names)
    <3> DEFINE n == Len(firsts)
    <3>1. n \in Nat /\ own = [i \in 1 .. n |-> own[i]] /\ \A i \in 1 .. n : own[i] \in Names
      BY <2>7
    <3> HIDE DEF own, n
    <3> QED
      BY <3>1, SeqOfValues
  <2> QED
    BY <2>3, <2>6, <2>8
<1>6. ASSUME ~ Fatal(d, e) PROVE MemberNames(d, e) \in Seq(Names)
  <2>1. CASE e.kind # "file"
    BY <1>2, <1>3, <2>1
  <2>2. CASE e.kind = "file" /\ e.name \notin HeaderNames
    BY <1>2, <1>4, <2>2
  <2>3. CASE e.kind = "file" /\ e.name \in HeaderNames
    <3>1. FileState(d, e.refid) = "ok"
      BY <1>6, <2>3 DEF Fatal
    <3> HIDE DEF own
    <3> QED
      BY <1>2, <1>5, <2>3, <3>1, ConcatProperties
  <2> QED
    BY <2>1, <2>2, <2>3
<1> QED
  BY <1>2, <1>3, <1>4, <1>5, <1>6

\* A list of names is that of a list of nodes.
AreNames(names, nodes) ==
  /\ Len(names) = Len(nodes)
  /\ \A i \in 1 .. Len(nodes) : names[i] = nodes[i].data.name

(* The names an entry gives are those of its nodes.                        *)
LEMMA EntryNames ==
  ASSUME NEW d, GoodDirectory(d), NEW k \in DOMAIN d.index, ~ Fatal(d, d.index[k])
  PROVE  AreNames(MemberNames(d, d.index[k]), MemberNodes(d, d.index[k]))
<1> DEFINE e == d.index[k]
           own == Definitions(d.files[e.refid])
           firsts == FirstOfName(d.files[e.refid].memberdefs)
           names == [i \in 1 .. Len(firsts) |-> firsts[i].name]
           last == Parsed(e)
<1>1. last \in Node /\ last.data.name = e.name /\ e.name \in Names
  BY EntryFits, MemberNodesAre, MemberNamesAre
<1> HIDE DEF last
<1>2. CASE e.kind # "file"
  <2>1. MemberNodes(d, e) = <<last>> /\ MemberNames(d, e) = <<e.name>>
    BY <1>2, MemberNodesAre, MemberNamesAre DEF last
  <2> HIDE DEF e
  <2> QED
    BY <1>1, <2>1 DEF AreNames, e
<1>3. CASE e.kind = "file" /\ e.name \notin HeaderNames
  <2>1. MemberNodes(d, e) = <<>> /\ MemberNames(d, e) = <<>>
    BY <1>3, MemberNodesAre, MemberNamesAre
  <2> HIDE DEF e
  <2> QED
    BY <2>1 DEF AreNames, e
<1>4. CASE e.kind = "file" /\ e.name \in HeaderNames
  <2>1. FileState(d, e.refid) = "ok"
    BY <1>4 DEF Fatal
  <2>2. e.refid \in DOMAIN d.files
    BY <2>1 DEF FileState
  <2>3. /\ Len(own) = Len(firsts) /\ Len(own) \in Nat
        /\ \A i \in 1 .. Len(own) : own[i].data = firsts[i]
    BY <2>2, DefinitionsFit, DirectoryHas
  <2>4. /\ MemberNodes(d, e) = own \o <<last>> /\ own \in Seq(Node)
        /\ MemberNames(d, e) = names \o <<e.name>> /\ names \in Seq(Names)
    BY <1>4, <2>1, MemberNodesAre, MemberNamesAre DEF last
  <2> DEFINE n == Len(own)
  <2> HIDE DEF own, firsts
  <2>5. n \in Nat /\ Len(names) = n /\ \A i \in 1 .. n : names[i] = own[i].data.name
    BY <2>3
  <2> HIDE DEF names, n, e
  <2>6. /\ Len(own \o <<last>>) = n + 1 /\ (own \o <<last>>)[n + 1] = last
        /\ \A i \in 1 .. n : (own \o <<last>>)[i] = own[i]
    BY <1>1, <2>4, <2>5 DEF n
  <2>7. /\ Len(names \o <<e.name>>) = n + 1 /\ (names \o <<e.name>>)[n + 1] = e.name
        /\ \A i \in 1 .. n : (names \o <<e.name>>)[i] = names[i]
    BY <1>1, <2>4, <2>5
  <2>8. \A i \in 1 .. n + 1 : i = n + 1 \/ i \in 1 .. n
    BY <2>5
  <2>9. AreNames(names \o <<e.name>>, own \o <<last>>)
    BY <1>1, <2>5, <2>6, <2>7, <2>8 DEF AreNames
  <2> QED
    BY <2>4, <2>9 DEF e
<1> QED
  BY <1>2, <1>3, <1>4

(* Names and nodes go on agreeing when more are added.                     *)
LEMMA NamesConcat ==
  ASSUME NEW a \in Seq(Names), NEW b \in Seq(Names), NEW s \in Seq(Node), NEW t \in Seq(Node),
         AreNames(a, s), AreNames(b, t)
  PROVE  AreNames(a \o b, s \o t)
<1> DEFINE n == Len(a)
           m == Len(b)
<1>1. /\ n \in Nat /\ m \in Nat /\ Len(s) = n /\ Len(t) = m
      /\ \A i \in 1 .. n : a[i] = s[i].data.name
      /\ \A i \in 1 .. m : b[i] = t[i].data.name
  BY LenProperties DEF AreNames
<1> HIDE DEF n, m
<1>2. /\ Len(a \o b) = n + m /\ Len(s \o t) = n + m
      /\ \A i \in 1 .. n + m : /\ (a \o b)[i] = IF i <= n THEN a[i] ELSE b[i - n]
                               /\ (s \o t)[i] = IF i <= n THEN s[i] ELSE t[i - n]
  <2>1. /\ Len(a \o b) = Len(a) + Len(b)
        /\ \A i \in 1 .. Len(a) + Len(b) :
              (a \o b)[i] = IF i <= Len(a) THEN a[i] ELSE b[i - Len(a)]
    BY ConcatProperties
  <2>2. /\ Len(s \o t) = Len(s) + Len(t)
        /\ \A i \in 1 .. Len(s) + Len(t) :
              (s \o t)[i] = IF i <= Len(s) THEN s[i] ELSE t[i - Len(s)]
    BY ConcatProperties
  <2> QED
    BY <1>1, <2>1, <2>2 DEF n, m
<1>3. ASSUME NEW i \in 1 .. n + m PROVE (a \o b)[i] = (s \o t)[i].data.name
  <2>1. CASE i <= n
    BY <1>1, <1>2, <2>1
  <2>2. CASE ~ (i <= n)
    <3>1. i - n \in 1 .. m
      BY <1>1, <2>2
    <3> QED
      BY <1>1, <1>2, <2>2, <3>1
  <2> QED
    BY <2>1, <2>2
<1> QED
  BY <1>2, <1>3 DEF AreNames

(* The names that entries which are not fatal give are those of their      *)
(* nodes.                                                                  *)
LEMMA NamesAgree ==
  ASSUME NEW d, GoodDirectory(d), NEW n \in 0 .. Len(d.index),
         \A i \in 1 .. n : ~ Fatal(d, d.index[i])
  PROVE  AreNames(NamesUpTo(d, n), NodesUpTo(d, n))
<1>1. Len(d.index) \in Nat /\ DOMAIN d.index = 1 .. Len(d.index)
  BY DirectoryHas
<1> DEFINE Agree(k) == /\ AreNames(NamesUpTo(d, k), NodesUpTo(d, k))
                       /\ NamesUpTo(d, k) \in Seq(Names) /\ NodesUpTo(d, k) \in Seq(Node)
           S == {k \in 0 .. n : Agree(k)}
<1>2. 0 \in S
  <2>1. NamesUpTo(d, 0) = <<>> /\ NodesUpTo(d, 0) = <<>>
    BY NamesStep, NodesStep
  <2>2. AreNames(<<>>, <<>>) /\ <<>> \in Seq(Names) /\ <<>> \in Seq(Node)
    BY EmptySeq DEF AreNames
  <2>3. Agree(0)
    BY <2>1, <2>2
  <2> HIDE DEF Agree
  <2> QED
    BY <1>1, <2>3
<1>3. ASSUME NEW k \in 0 .. n - 1, k \in S PROVE k + 1 \in S
  <2>1. k \in Nat /\ k + 1 \in DOMAIN d.index /\ k + 1 \in 1 .. n /\ k + 1 \in 0 .. n
    BY <1>1
  <2> DEFINE a == MemberNames(d, d.index[k + 1])
             s == MemberNodes(d, d.index[k + 1])
  <2>2. /\ NamesUpTo(d, k + 1) = NamesUpTo(d, k) \o a /\ NodesUpTo(d, k + 1) = NodesUpTo(d, k) \o s
    BY <2>1, NamesStep, NodesStep
  <2>3. a \in Seq(Names) /\ s \in Seq(Node) /\ AreNames(a, s)
    BY <2>1, MemberNamesAre, MemberNodesAre, EntryNames
  <2> HIDE DEF a, s
  <2>4. Agree(k)
    BY <1>3
  <2>5. Agree(k + 1)
    BY <2>2, <2>3, <2>4, NamesConcat, ConcatProperties
  <2> HIDE DEF Agree
  <2> QED
    BY <2>1, <2>5
<1>4. n \in S
  <2>1. n \in 0 .. n /\ n \in Nat
    BY <1>1
  <2> HIDE DEF S
  <2> QED
    BY <1>2, <1>3, <2>1, Induction
<1> QED
  BY <1>4

-----------------------------------------------------------------------------
(* Theorems.                                                               *)

(* Between any two calls the heap is one a program can reach, and all that *)
(* make_swig_interface_file has in its variables is in it: whatever it, or *)
(* another reader of the index, has called before.                         *)
THEOREM InvariantTheorem == Spec => []SwigInv
<1>1. Init => SwigInv
  BY InitInv
<1>2. SwigInv /\ [Next]_vars => SwigInv'
  BY StepInv
<1> QED
  BY <1>1, <1>2, PTL DEF Spec

(* The invariant contains the types of the variables.                      *)
LEMMA TypeFits == SwigInv => TypeOK
<1> SUFFICES ASSUME SwigInv PROVE TypeOK
  OBVIOUS
<1>1. /\ Good(corpus, heap) /\ Heap(heap) /\ DOMAIN heap.objects = Ids(heap)
      /\ Len(heap.objects) \in Nat
  <2>1. Good(corpus, heap) /\ Heap(heap)
    BY DEF SwigInv, Fine, Good
  <2> QED
    BY <2>1, LenProperties DEF Heap, Ids
<1>2. \A r \in DOMAIN heap.refs : heap.refs[r] \in Ids(heap)
  BY <1>1 DEF Good, RefsFit
<1>3. ASSUME NEW o \in Ids(heap)
      PROVE  LET x == heap.objects[o] IN
             /\ x.cls \in Classes
             /\ ToSet(x.members) \subseteq Ids(heap) \cup {NoObject}
             /\ DOMAIN x.inCategory \subseteq Categories
             /\ DOMAIN x.dictMembers \subseteq Categories
             /\ x.error \/ x.described => x.parsed
  <2> DEFINE x == heap.objects[o]
  <2>1. x \in Obj
    BY <1>1, ObjectFields
  <2>2. x.cls \in Classes /\ x.inCategory \in Lists /\ x.dictMembers \in Dicts
    BY <2>1 DEF Obj
  <2>3. /\ \A i \in DOMAIN x.members : x.members[i] \in 0 .. Len(heap.objects)
        /\ x.error \/ x.described => x.parsed
    BY <1>1 DEF Good, ObjectFits
  <2>4. 0 .. Len(heap.objects) = Ids(heap) \cup {NoObject}
    BY <1>1 DEF Ids, NoObject
  <2> QED
    BY <2>2, <2>3, <2>4, CacheTypes DEF ToSet
<1>4. DoxyTypeOK
  BY <1>1, <1>2, <1>3 DEF DoxyTypeOK, SwigInv, Object, Classes
<1>5. ToSet(blocks) \subseteq Ids(heap) /\ ToSet(todo) \subseteq Ids(heap)
  BY DEF SwigInv, InHeap, ToSet
<1>6. \A i \in DOMAIN output : ToSet(output[i].docs) \subseteq Ids(heap)
  BY DEF SwigInv, EntriesFit, InHeap, ToSet
<1>7. /\ phase \in {"open", "blocks", "functions", "classes", "written", "aborted"}
      /\ reports \subseteq Ids(heap)
  BY DEF SwigInv
<1> QED
  BY <1>1, <1>4, <1>5, <1>6, <1>7 DEF TypeOK

(* Every entry that is no file, and that reading the index got to, is among *)
(* the nodes of its members.                                               *)
LEMMA EntryHasNode ==
  ASSUME NEW d, GoodDirectory(d), NEW j \in 0 .. Len(d.index),
         \A k \in 1 .. j : ~ Fatal(d, d.index[k]),
         NEW i \in 1 .. j, d.index[i].kind # "file"
  PROVE  \E p \in 1 .. Len(NodesUpTo(d, j)) : NodesUpTo(d, j)[p] = Parsed(d.index[i])
<1> DEFINE node == Parsed(d.index[i])
           In(s) == \E p \in 1 .. Len(s) : s[p] = node
           P(k) == NodesUpTo(d, k) \in Seq(Node) /\ (k >= i => In(NodesUpTo(d, k)))
           S == {k \in 0 .. j : P(k)}
<1>1. Len(d.index) \in Nat /\ DOMAIN d.index = 1 .. Len(d.index)
  BY LenProperties DEF GoodDirectory, IsDirectory
<1> HIDE DEF node
<1>2. 0 \in S
  <2>1. NodesUpTo(d, 0) = <<>>
    BY NodesStep
  <2>2. <<>> \in Seq(Node) /\ ~ (0 >= i)
    BY <1>1, EmptySeq
  <2>3. P(0)
    BY <2>1, <2>2
  <2> QED
    BY <1>1, <2>3
<1>3. ASSUME NEW k \in 0 .. j - 1, k \in S PROVE k + 1 \in S
  <2> DEFINE a == NodesUpTo(d, k)
             b == MemberNodes(d, d.index[k + 1])
             c == NodesUpTo(d, k + 1)
  <2>1. k \in Nat /\ k + 1 \in 1 .. j /\ k + 1 \in DOMAIN d.index /\ k + 1 \in 0 .. j
    BY <1>1
  <2>2. a \in Seq(Node) /\ (k >= i => In(a))
    BY <1>3
  <2>3. c = a \o b
    BY <2>1, NodesStep
  <2>4. b \in Seq(Node) /\ (k + 1 = i => b = <<node>>)
    BY <2>1, MemberNodesAre DEF node
  <2> HIDE DEF a, b, c
  <2>5. /\ c \in Seq(Node) /\ Len(c) = Len(a) + Len(b)
        /\ \A p \in 1 .. Len(a) : c[p] = a[p]
        /\ \A p \in 1 .. Len(b) : c[Len(a) + p] = b[p]
        /\ Len(a) \in Nat /\ Len(b) \in Nat
    <3>1. Len(a) \in Nat /\ Len(b) \in Nat
      BY <2>2, <2>4, LenProperties
    <3> QED
      BY <2>2, <2>3, <2>4, <3>1, ConcatProperties
  <2>6. ASSUME k + 1 >= i PROVE In(c)
    <3>1. CASE k >= i
      <4>1. PICK p \in 1 .. Len(a) : a[p] = node
        BY <2>2, <3>1
      <4>2. p \in 1 .. Len(c) /\ c[p] = node
        BY <2>5, <4>1
      <4> QED
        BY <4>2
    <3>2. CASE k + 1 = i
      <4>1. Len(b) = 1 /\ b[1] = node
        BY <2>4, <3>2
      <4>2. 1 \in 1 .. Len(b) /\ Len(a) + 1 \in 1 .. Len(c)
        BY <2>5, <4>1
      <4>3. c[Len(a) + 1] = node
        BY <2>5, <4>1, <4>2
      <4> QED
        BY <4>2, <4>3
    <3> QED
      BY <2>6, <3>1, <3>2
  <2> HIDE DEF In
  <2>7. P(k + 1)
    BY <2>5, <2>6 DEF c
  <2> QED
    BY <2>1, <2>7
<1> HIDE DEF P
<1>4. j \in S
  <2>1. j \in 0 .. j /\ j \in Nat
    BY <1>1
  <2> HIDE DEF S
  <2> QED
    BY <1>2, <1>3, <2>1, Induction
<1> QED
  BY <1>1, <1>4 DEF P, node

(* What reading the index got to is of the class of its kind: the index    *)
(* made its object, before any group could.                                *)
LEMMA ClassIfListed ==
  ASSUME NEW d, GoodDirectory(d), NEW h, Fine(d, h), NEW i \in DOMAIN d.index,
         d.index[i].refid \in DOMAIN h.refs, d.index[i].kind # "file",
         \A j \in 1 .. i : ~ Fatal(d, d.index[j])
  PROVE  h.objects[h.refs[d.index[i].refid]].cls = ClassOfKind[d.index[i].kind]
<1> DEFINE entry == d.index[i]
           ms == h.objects[Index].members
<1>1. Len(d.index) \in Nat /\ DOMAIN d.index = 1 .. Len(d.index) /\ entry.refid \in Refids
  BY LenProperties, DirectoryHas DEF GoodDirectory, IsDirectory, Compounds
<1>2. h.objects[Index].parsed
  BY DEF Fine
<1>3. PICK k \in 0 .. Len(d.index) :
        /\ Listed(d, h, k)
        /\ k = Len(d.index) \/ Fatal(d, d.index[k + 1])
  BY <1>2 DEF Fine, Prefix
<1>4. i \in 1 .. k
  <2>1. CASE k = Len(d.index)
    BY <1>1, <2>1
  <2>2. CASE Fatal(d, d.index[k + 1])
    <3>1. ~ (k + 1 \in 1 .. i)
      BY <2>2
    <3> QED
      BY <1>1, <3>1
  <2> QED
    BY <1>3, <2>1, <2>2
<1>5. MadeOf(h, ms, NodesUpTo(d, k)) /\ \A j \in 1 .. k : ~ Fatal(d, d.index[j])
  BY <1>3 DEF Listed
<1>6. PICK p \in 1 .. Len(NodesUpTo(d, k)) : NodesUpTo(d, k)[p] = Parsed(entry)
  BY <1>4, <1>5, EntryHasNode
<1>7. StandsFor(h, ms[p], Parsed(entry))
  BY <1>5, <1>6 DEF MadeOf
<1>8. entry.kind \in DOMAIN ClassOfKind
  BY <1>1 DEF Fatal
<1> DEFINE cls == ClassOfKind[entry.kind]
<1>9. cls # None
  <2>1. cls \in Classes /\ None \notin Classes
    BY <1>8, ClassesOfKinds DEF Classes, ClassOfKind, None
  <2> QED
    BY <2>1
<1>10. Parsed(entry).cls = cls /\ Parsed(entry).refid = entry.refid
  BY <1>8 DEF Parsed
<1> DEFINE m == ms[p]
<1> HIDE DEF m, cls, entry
<1>11. m \in Ids(h) /\ h.objects[m].cls = cls /\ h.objects[m].refid = entry.refid
  BY <1>7, <1>9, <1>10 DEF StandsFor, m
<1>12. h.refs[entry.refid] = m
  BY <1>1, <1>11 DEF Fine, Good, RefsFit, Refids
<1> QED
  BY <1>11, <1>12 DEF cls, entry

(* The index has one object for a refid, however often it is named, and a  *)
(* group can give its class only to what reading the index did not get to. *)
LEMMA OnePerRefid == SwigInv => OneObjectPerRefid
<1> SUFFICES ASSUME SwigInv PROVE OneObjectPerRefid
  OBVIOUS
<1>1. /\ RefsFit(heap) /\ ClassesFit(corpus, heap) /\ DOMAIN heap.objects = Ids(heap)
      /\ GoodDirectory(corpus) /\ Fine(corpus, heap)
  <2>1. GoodDirectory(corpus) /\ Fine(corpus, heap)
    BY CorporaAssumption DEF SwigInv, GoodDirectory
  <2> QED
    BY <2>1, ObjectFields, LenProperties DEF Fine, Good, Heap, Ids
<1>2. ASSUME NEW o \in Ids(heap), NEW p \in Ids(heap),
             heap.objects[o].refid \in {heap.objects[p].refid} \ {None}
      PROVE  o = p
  BY <1>1, <1>2 DEF RefsFit
<1>3. ASSUME NEW i \in DOMAIN corpus.index, corpus.index[i].refid \in DOMAIN heap.refs
      PROVE  LET kind == corpus.index[i].kind
                 cls == heap.objects[heap.refs[corpus.index[i].refid]].cls
             IN  \/ kind \in DOMAIN ClassOfKind /\ cls = ClassOfKind[kind]
                 \/ /\ cls = "DoxyClass" /\ kind \in InnerKinds \ {"class"}
                    /\ \E j \in 1 .. i : Fatal(corpus, corpus.index[j])
  <2> DEFINE kind == corpus.index[i].kind
             cls == heap.objects[heap.refs[corpus.index[i].refid]].cls
  <2>1. MayBe(cls, kind)
    BY <1>1, <1>3 DEF ClassesFit
  <2>2. CASE kind \in DOMAIN ClassOfKind /\ cls = ClassOfKind[kind]
    BY <2>2
  <2>3. CASE kind \in InnerKinds /\ cls = "DoxyClass"
                /\ ~ (kind \in DOMAIN ClassOfKind /\ cls = ClassOfKind[kind])
    <3>1. kind # "class"
      <4>1. "class" \in DOMAIN ClassOfKind /\ ClassOfKind["class"] = "DoxyClass"
        BY DEF ClassOfKind
      <4> HIDE DEF cls, kind
      <4> QED
        BY <2>3, <4>1
    <3>2. kind # "file"
      BY <2>3 DEF InnerKinds
    <3>3. ASSUME \A j \in 1 .. i : ~ Fatal(corpus, corpus.index[j]) PROVE FALSE
      <4>1. cls = ClassOfKind[kind]
        BY <1>1, <1>3, <3>2, <3>3, ClassIfListed
      <4>2. i \in 1 .. i
        BY LenProperties, <1>1 DEF GoodDirectory, IsDirectory
      <4>3. ~ Fatal(corpus, corpus.index[i])
        BY <3>3, <4>2
      <4>4. kind \in DOMAIN ClassOfKind
        BY <4>3 DEF Fatal
      <4> QED
        BY <2>3, <4>1, <4>4
    <3> QED
      BY <2>3, <3>1, <3>3
  <2> QED
    BY <2>1, <2>2, <2>3 DEF MayBe
<1> QED
  BY <1>1, <1>2, <1>3 DEF OneObjectPerRefid, Object

(* An object that was read has an error when its file is broken XML, and   *)
(* at no other time.                                                       *)
LEMMA ErrorsFit == SwigInv => ErrorIffBroken
<1> SUFFICES ASSUME SwigInv PROVE ErrorIffBroken
  OBVIOUS
<1>1. Good(corpus, heap) /\ DOMAIN heap.objects = Ids(heap)
  BY ObjectFields, LenProperties DEF SwigInv, Fine, Good, Heap, Ids
<1>2. ASSUME NEW o \in Ids(heap) PROVE ObjectFits(corpus, heap, o)
  BY <1>1 DEF Good
<1> QED
  BY <1>1, <1>2 DEF ErrorIffBroken, ObjectFits, Reads, Object

(* Whatever calls were made before, top._refs has one object for a refid,  *)
(* whether index.xml or a group made it first; it is of the class its      *)
(* compound calls for, but that a struct, or another compound that is no   *)
(* class, can be a DoxyClass if reading the index ended before it; and     *)
(* _error is set just for files that are broken XML.                       *)
THEOREM ObjectsTheorem == Spec => []ObjectsWellFormed
<1>1. SwigInv => ObjectsWellFormed
  BY TypeFits, OnePerRefid, ErrorsFit DEF ObjectsWellFormed
<1> QED
  BY <1>1, InvariantTheorem, PTL

(* The invariant contains the caches.                                      *)
LEMMA CachesHold == SwigInv => CachesCoherent
<1> SUFFICES ASSUME SwigInv PROVE CachesCoherent
  OBVIOUS
<1>1. /\ Good(corpus, heap) /\ Heap(heap) /\ DOMAIN heap.objects = Ids(heap)
  BY ObjectFields, LenProperties DEF SwigInv, Fine, Good, Heap, Ids
<1>2. ASSUME NEW o \in Ids(heap)
      PROVE  LET obj == heap.objects[o] IN
             /\ \A c \in DOMAIN obj.inCategory :
                   obj.inCategory[c] = IF c = "Block" THEN BlocksAmong(corpus, heap, obj.members)
                                       ELSE OfClass(heap, c, obj.members)
             /\ \A c \in DOMAIN obj.dictMembers :
                   LET kept == CategoryOf(obj, c)
                       dict == obj.dictMembers[c]
                   IN  /\ DOMAIN dict = {heap.objects[kept[i]].data.name : i \in DOMAIN kept}
                       /\ \A n \in DOMAIN dict :
                             LET found == Named(heap, kept, n) IN
                             IF Cardinality(found) = 1 THEN {kept[i] : i \in found} = {dict[n]}
                             ELSE dict[n] = Duplicate
  <2> DEFINE obj == heap.objects[o]
  <2>1. CachesFit(corpus, heap, obj) /\ obj \in Obj
    BY <1>1, ObjectFields DEF Good, ObjectFits
  <2>2. obj.members \in Seq(Nat) /\ obj.inCategory \in Lists
    BY <2>1 DEF Obj
  <2> HIDE DEF obj
  <2>3. \A c \in DOMAIN obj.inCategory :
            obj.inCategory[c] = IF c = "Block" THEN BlocksAmong(corpus, heap, obj.members)
                                ELSE OfClass(heap, c, obj.members)
    BY <2>1 DEF CachesFit, ListOf
  <2>4. ASSUME NEW c \in DOMAIN obj.dictMembers
        PROVE  LET kept == CategoryOf(obj, c)
                   dict == obj.dictMembers[c]
               IN  /\ DOMAIN dict = {heap.objects[kept[i]].data.name : i \in DOMAIN kept}
                   /\ \A n \in DOMAIN dict :
                         LET found == Named(heap, kept, n) IN
                         IF Cardinality(found) = 1 THEN {kept[i] : i \in found} = {dict[n]}
                         ELSE dict[n] = Duplicate
    <3> DEFINE kept == CategoryOf(obj, c)
               dict == obj.dictMembers[c]
    <3>1. DictFits(heap, kept, dict) /\ (c # None => c \in DOMAIN obj.inCategory)
      BY <2>1 DEF CachesFit, CategoryOf
    <3>2. kept \in Seq(Nat)
      BY <2>2, <3>1, CacheTypes DEF CategoryOf
    <3> HIDE DEF kept, dict
    <3>3. Len(kept) \in Nat /\ DOMAIN kept = 1 .. Len(kept)
      BY <3>2, LenProperties
    <3>4. DOMAIN dict = {heap.objects[kept[i]].data.name : i \in DOMAIN kept}
      <4>1. ASSUME NEW n \in DOMAIN dict PROVE \E i \in DOMAIN kept : heap.objects[kept[i]].data.name = n
        <5>1. \E i : i \in Named(heap, kept, n)
          BY <3>1 DEF DictFits
        <5> QED
          BY <5>1 DEF Named, Object
      <4>2. \A i \in DOMAIN kept : heap.objects[kept[i]].data.name \in DOMAIN dict
        BY <3>1 DEF DictFits
      <4> QED
        BY <4>1, <4>2
    <3>5. ASSUME NEW n \in DOMAIN dict
          PROVE  LET found == Named(heap, kept, n) IN
                 IF Cardinality(found) = 1 THEN {kept[i] : i \in found} = {dict[n]}
                 ELSE dict[n] = Duplicate
      <4> DEFINE found == Named(heap, kept, n)
                 v == dict[n]
                 l == Len(kept)
      <4>1. found \in SUBSET (1 .. l)
        BY <3>3 DEF Named
      <4>2. \/ \E i \in found : found = {i} /\ v = kept[i]
            \/ (\E i, j \in found : i # j) /\ v = Duplicate
        BY <3>1 DEF DictFits
      <4> HIDE DEF found, v
      <4>3. IsFiniteSet(found)
        <5>1. 1 \in Int /\ l \in Int
          BY <3>3
        <5> HIDE DEF l
        <5>2. IsFiniteSet(1 .. l)
          BY <5>1, FS_Interval
        <5> QED
          BY <4>1, <5>2, FS_Subset
      <4>4. CASE \E i \in found : found = {i} /\ v = kept[i]
        <5>1. PICK i : found = {i} /\ v = kept[i]
          BY <4>4
        <5>2. Cardinality(found) = 1
          BY <5>1, FS_Singleton
        <5>3. {kept[k] : k \in found} = {v}
          BY <5>1
        <5> QED
          BY <5>2, <5>3 DEF found, v
      <4>5. CASE (\E i, j \in found : i # j) /\ v = Duplicate
        <5>1. ~ \E x : found = {x}
          BY <4>5
        <5>2. Cardinality(found) # 1
          BY <4>3, <5>1, FS_Singleton
        <5> QED
          BY <4>5, <5>2 DEF found, v
      <4> QED
        BY <4>2, <4>4, <4>5
    <3> QED
      BY <3>4, <3>5 DEF kept, dict
  <2> QED
    BY <2>3, <2>4 DEF obj
<1> QED
  BY <1>1, <1>2 DEF CachesCoherent, Object

(* Whatever calls were made before, and in which order, the lists that     *)
(* in_category has kept, that of the blocks included, and the dictionaries *)
(* of _get_dict_members are what a search of the members would give now:   *)
(* nothing is missing and nothing too many, and no later call made one     *)
(* stale.                                                                  *)
THEOREM CachesTheorem == Spec => []CachesCoherent
BY CachesHold, InvariantTheorem, PTL

(* The invariant contains the order of the index.                          *)
LEMMA PrefixHolds == SwigInv => IndexHoldsPrefix
<1> SUFFICES ASSUME SwigInv, heap.objects[Index].parsed
             PROVE  LET fatal == {i \in DOMAIN corpus.index : Fatal(corpus, corpus.index[i])}
                        last == IF fatal = {} THEN Len(corpus.index)
                                ELSE (CHOOSE i \in fatal : \A j \in fatal : i <= j) - 1
                        expected == NamesUpTo(corpus, last)
                        members == heap.objects[Index].members
                        unnamed == {i \in DOMAIN members : members[i] = NoObject}
                    IN  /\ Len(members) = Len(expected)
                        /\ \A i \in DOMAIN members \ unnamed :
                              heap.objects[members[i]].data.name = expected[i]
  BY DEF IndexHoldsPrefix, Object
<1> DEFINE fatal == {i \in DOMAIN corpus.index : Fatal(corpus, corpus.index[i])}
           last == IF fatal = {} THEN Len(corpus.index)
                   ELSE (CHOOSE i \in fatal : \A j \in fatal : i <= j) - 1
           expected == NamesUpTo(corpus, last)
           members == heap.objects[Index].members
<1>1. Good(corpus, heap) /\ Prefix(corpus, heap) /\ GoodDirectory(corpus)
  BY AtCall DEF SwigInv, Fine
<1>2. Len(corpus.index) \in Nat /\ DOMAIN corpus.index = 1 .. Len(corpus.index)
  BY <1>1, DirectoryHas
<1>3. PICK j \in 0 .. Len(corpus.index) :
         /\ Listed(corpus, heap, j)
         /\ j = Len(corpus.index) \/ Fatal(corpus, corpus.index[j + 1])
  BY <1>1 DEF Prefix
<1>4. \A i \in 1 .. j : ~ Fatal(corpus, corpus.index[i])
  BY <1>3 DEF Listed
<1>5. last = j
  <2>1. CASE j = Len(corpus.index)
    <3>1. fatal = {}
      BY <1>2, <1>4, <2>1
    <3> QED
      BY <2>1, <3>1
  <2>2. CASE j # Len(corpus.index)
    <3>1. j + 1 \in fatal
      BY <1>2, <1>3, <2>2
    <3>2. \A i \in fatal : i \in Nat /\ j + 1 <= i
      BY <1>2, <1>4
    <3> DEFINE c == CHOOSE i \in fatal : \A k \in fatal : i <= k
    <3>3. fatal # {} /\ last = c - 1
      BY <3>1
    <3> HIDE DEF fatal, last
    <3>4. c \in fatal /\ \A k \in fatal : c <= k
      <4>1. \E i \in fatal : \A k \in fatal : i <= k
        BY <3>1, <3>2
      <4> QED
        BY <4>1
    <3> HIDE DEF c
    <3>5. c = j + 1
      BY <3>1, <3>2, <3>4
    <3> QED
      BY <3>3, <3>5
  <2> QED
    BY <2>1, <2>2
<1> HIDE DEF last
<1>6. /\ Len(members) = Len(expected)
      /\ \A i \in 1 .. Len(expected) :
            members[i] # NoObject => heap.objects[members[i]].data.name = expected[i]
  <2> DEFINE nodes == NodesUpTo(corpus, j)
  <2>1. MadeOf(heap, members, nodes)
    BY <1>3 DEF Listed
  <2>2. AreNames(expected, nodes)
    BY <1>1, <1>4, <1>5, NamesAgree
  <2> HIDE DEF members, expected, nodes
  <2>3. Len(members) = Len(nodes) /\ Len(expected) = Len(nodes)
    BY <2>1, <2>2 DEF MadeOf, AreNames
  <2>4. ASSUME NEW i \in 1 .. Len(nodes), members[i] # NoObject
        PROVE  heap.objects[members[i]].data = nodes[i].data /\ expected[i] = nodes[i].data.name
    BY <2>1, <2>2, <2>4 DEF MadeOf, AreNames, StandsFor
  <2> QED
    BY <2>3, <2>4
<1>7. DOMAIN members = 1 .. Len(members)
  <2>1. heap.objects[Index] \in Obj
    BY <1>1, ObjectFields DEF Good
  <2>2. members \in Seq(Nat)
    BY <2>1 DEF Obj
  <2> QED
    BY <2>2, LenProperties
<1> HIDE DEF members, expected
<1> QED
  BY <1>6, <1>7 DEF members, expected, last

(* The members of the index are always those of a prefix of index.xml, in  *)
(* its order: an exception in the middle of _parse leaves the compounds    *)
(* before it, and no later call adds one behind them or a second time.     *)
THEOREM PrefixTheorem == Spec => []IndexHoldsPrefix
BY PrefixHolds, InvariantTheorem, PTL

\* Whatever happens, an object remains what it is, and is read once: what it
\* has read of its file it keeps.
ObjectsKept ==
  \A o \in DOMAIN heap.objects :
    LET x == Object(heap, o)
        y == Object(heap', o)
    IN  /\ o \in DOMAIN heap'.objects
        /\ y.cls = x.cls /\ y.data = x.data /\ y.refid = x.refid
        /\ x.parsed => /\ y.parsed /\ y.members = x.members
                       /\ y.error = x.error /\ y.described = x.described
ReadOnce == [][ObjectsKept]_heap

(* Every step of the generator and of a reader makes one call, or none.    *)
LEMMA StepCalls ==
  ASSUME SwigInv, [Next]_vars, heap' # heap
  PROVE  \E g : Serves(corpus, Called, g) /\ heap' = Settled(g)
<1>1. /\ GoodDirectory(corpus) /\ Fine(corpus, Called) /\ Ok(Called) /\ Index \in Ids(Called)
      /\ Ids(Called) = Ids(heap) /\ Fine(corpus, heap)
  BY AtCall
<1>2. CASE Explore
  <2>1. PICK o \in Held(heap), c \in Operations : heap' = Settled(Call(Called, o, c))
    BY <1>2 DEF Explore, UserCall, Called
  <2>2. o \in Ids(Called)
    BY <1>1, <2>1, HeldAre
  <2>3. Serves(corpus, Called, Call(Called, o, c))
    BY <1>1, <2>2, CallFits
  <2> QED
    BY <2>1, <2>3
<1>3. CASE FindBlocks \/ FindFunctions \/ FindClasses
  <2> DEFINE i == Index
  <2>1. PICK cat \in {"Block", "DoxyFunction", "DoxyClass"} :
           heap' = Settled(InCategory(Called, i, cat))
    BY <1>3 DEF FindBlocks, FindFunctions, FindClasses, Abort
  <2>2. cat \in Categories \ {None}
    BY <2>1, CategoriesHave
  <2>3. i \in Ids(Called)
    BY <1>1
  <2> HIDE DEF i
  <2>4. Serves(corpus, Called, InCategory(Called, i, cat))
    BY <1>1, <2>2, <2>3, InCategoryFits
  <2> QED
    BY <2>1, <2>4
<1>4. CASE BlockEntry \/ FunctionEntry \/ ClassEntry
  <2>1. PICK h : TakesTurn(h)
    BY <1>4, BlockEntryTurns, FunctionEntryTurns, ClassEntryTurns
  <2> QED
    BY <2>1 DEF TakesTurn, Enters, Abort, Turn
<1>5. CASE Write \/ UNCHANGED vars
  BY <1>5 DEF Write, vars, doxyVars
<1> QED
  BY <1>2, <1>3, <1>4, <1>5 DEF Next, Generate

(* For every directory and every sequence of calls, an object keeps its    *)
(* class, its name and its refid, and once it has been read also its       *)
(* members, its error and that it has descriptions: no later call reads    *)
(* the file again, adds a member or takes one away.                        *)
THEOREM ReadOnceTheorem == Spec => ReadOnce
<1>1. ASSUME SwigInv, [Next]_vars PROVE [ObjectsKept]_heap
  <2> SUFFICES ASSUME heap' # heap PROVE ObjectsKept
    OBVIOUS
  <2>1. PICK g : Serves(corpus, Called, g) /\ heap' = Settled(g)
    BY <1>1, StepCalls
  <2>2. Fine(corpus, Called) /\ Called.objects = heap.objects /\ DOMAIN heap.objects = Ids(Called)
    BY <1>1, AtCall
  <2>3. Fine(corpus, g) /\ heap'.objects = g.objects
    BY <2>1, BetweenCalls DEF Serves
  <2>4. DOMAIN g.objects = Ids(g)
    BY <2>3, LenProperties DEF Fine, Good, Heap, Ids
  <2>5. Ids(Called) \subseteq Ids(g)
    BY <2>1, <2>2, ServesIds
  <2> QED
    BY <2>1, <2>2, <2>3, <2>4, <2>5 DEF Serves, Grows, SameObject, KeptObject, Object,
         ObjectsKept
<1>2. SwigInv /\ [Next]_vars => [ObjectsKept]_heap
  BY <1>1
<1>3. Spec => []SwigInv
  BY InvariantTheorem
<1> QED
  BY <1>2, <1>3, PTL DEF Spec, ReadOnce
==============================================================================
