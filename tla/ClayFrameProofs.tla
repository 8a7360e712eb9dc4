-------------------------- MODULE ClayFrameProofs --------------------------
(***************************************************************************)
(* For every capacity, every set of declarations and any number of frames: *)
(* a frame that lost elements says so, the map is current, and the scroll  *)
(* container of a declared box is kept.                                    *)
(***************************************************************************)
EXTENDS ClayFrame, FiniteSetTheorems, WellFoundedInduction, TLAPS

ContextFields == {"mem", "len", "cfg", "cfgLen", "stack", "clips", "clipOf", "buf",
                  "roots", "map", "gen", "scrolls", "over", "down", "exceeded", "err"}
ElementFields == {"id", "n", "kids", "closed", "cs", "cl", "offset"}
ItemFields == {"el", "gen", "alias"}
ScrollFields == {"id", "el", "open", "pos", "room", "drag", "mom"}

\* A sequence of scroll containers.
AreScrolls(s) ==
  /\ \E S : s \in Seq(S)
  /\ \A i \in DOMAIN s : DOMAIN s[i] = ScrollFields /\ s[i].open \in BOOLEAN

\* The elements of the arena.
AreElements(m) ==
  /\ DOMAIN m = 1 .. Capacity
  /\ \A e \in 1 .. Capacity : DOMAIN m[e] = ElementFields

\* The map of ids.
IsMap(m) ==
  /\ IsFiniteSet(DOMAIN m)
  /\ \A id \in DOMAIN m : DOMAIN m[id] = ItemFields

IsContext(x) ==
  /\ DOMAIN x = ContextFields
  /\ AreElements(x.mem) /\ x.len \in 0 .. Capacity - 1
  /\ x.stack \in Seq(Nat)
  /\ IsMap(x.map) /\ x.gen \in Nat
  /\ AreScrolls(x.scrolls)
  /\ x.exceeded \in BOOLEAN /\ x.err \in BOOLEAN

\* Every open container of s is open in t, where it was.
Remembers(s, t) ==
  \A i \in DOMAIN s : s[i].open =>
    \E j \in DOMAIN t : t[j].id = s[i].id /\ t[j].open /\ t[j].pos = s[i].pos

\* What configuring the open element leaves: nothing is taken from the map or
\* the containers, an error stays reported.
Keeps(x, y) ==
  /\ y.len = x.len /\ y.gen = x.gen /\ y.stack = x.stack
  /\ y.exceeded = x.exceeded /\ (x.err => y.err)
  /\ DOMAIN x.map \subseteq DOMAIN y.map
  /\ Remembers(x.scrolls, y.scrolls)

\* No id is touched.
SameIds(x, y) ==
  y.map = x.map /\ \A e \in 1 .. Capacity : y.mem[e].id = x.mem[e].id

\* The map has the element under its id, since this frame.
Named(x, e) ==
  /\ x.mem[e].id \in DOMAIN x.map
  /\ x.map[x.mem[e].id].el = e
  /\ x.map[x.mem[e].id].gen = x.gen + 1

\* The map has room and no error was reported.
Room(x) == ~x.err /\ Cardinality(DOMAIN x.map) < Capacity - 1

\* Remembering composes.
LEMMA RemembersTrans ==
  ASSUME NEW s, NEW t, NEW u, Remembers(s, t), Remembers(t, u)
  PROVE  Remembers(s, u)
  BY DEF Remembers

\* A call of Clay that leaves the scroll containers alone remembers them.
LEMMA RemembersSame ==
  ASSUME NEW s
  PROVE  Remembers(s, s)
  BY DEF Remembers

\* Configuring the open element is several writes: what each of them keeps, all
\* of them keep.
LEMMA KeepsTrans ==
  ASSUME NEW x, NEW y, NEW z, Keeps(x, y), Keeps(y, z)
  PROVE  Keeps(x, z)
  BY RemembersTrans DEF Keeps

\* A map with room had room before it grew.
LEMMA RoomBefore ==
  ASSUME NEW x, NEW y, IsContext(x), IsContext(y), Keeps(x, y), Room(y)
  PROVE  Room(x)
<1>1. Cardinality(DOMAIN x.map) <= Cardinality(DOMAIN y.map)
  BY FS_Subset DEF IsContext, IsMap, Keeps
<1>2. Cardinality(DOMAIN x.map) \in Nat /\ Cardinality(DOMAIN y.map) \in Nat
  BY FS_CardinalityType DEF IsContext, IsMap
<1> QED
  BY <1>1, <1>2, CapacityAssumption DEF Keeps, Room, IsContext

\* A change of a field that no fact above reads.
LEMMA NamedSame ==
  ASSUME NEW x, NEW y, SameIds(x, y), y.gen = x.gen,
         NEW e \in 1 .. Capacity, Named(x, e)
  PROVE  Named(y, e)
  BY DEF SameIds, Named

\* AddHashMapItem: the element is found by its id, and no element of this frame
\* is lost, or an error was reported.
LEMMA AddItem ==
  ASSUME NEW x, IsContext(x), NEW id, NEW e, NEW alias,
         NEW y, y = AddHashMapItem(x, id, e, alias)
  PROVE  /\ IsContext(y) /\ Keeps(x, y) /\ y.mem = x.mem
         /\ Room(y) /\ x.mem[e].id = id =>
              /\ Named(y, e)
              /\ \A k \in 1 .. Capacity \ {e} : Named(x, k) => Named(y, k)
<1> DEFINE item == [el |-> e, gen |-> x.gen + 1, alias |-> alias]
           m == PutItem(x.map, id, item)
<1>1. /\ DOMAIN m = DOMAIN x.map \cup {id}
      /\ m[id] = item
      /\ \A k \in DOMAIN x.map \ {id} : m[k] = x.map[k]
  BY DEF PutItem
<1>2. IsMap(m)
  <2>1. IsFiniteSet(DOMAIN x.map \cup {id})
    BY FS_AddElement, Zenon DEF IsMap, IsContext
  <2> HIDE DEF m
  <2>2. DOMAIN item = ItemFields
    BY DEF ItemFields
  <2> QED
    BY <1>1, <2>1, <2>2, Zenon DEF IsMap, IsContext
<1> HIDE DEF m
<1>3. \/ y = x /\ Cardinality(DOMAIN x.map) = Capacity - 1
      \/ y = [x EXCEPT !.err = TRUE]
      \/ y = [x EXCEPT !.map = m] /\ ~(Found(x, id) /\ x.map[id].gen > x.gen)
  BY DEF AddHashMapItem, m
<1>4. IsContext(y)
  BY <1>2, <1>3, Zenon DEF IsContext, ContextFields
<1>5. Keeps(x, y) /\ y.mem = x.mem
  BY <1>1, <1>3, RemembersSame DEF IsContext, ContextFields, Keeps
<1>6. ASSUME Room(y), x.mem[e].id = id
      PROVE  /\ Named(y, e)
             /\ \A k \in 1 .. Capacity \ {e} : Named(x, k) => Named(y, k)
  <2>1. y = [x EXCEPT !.map = m] /\ ~(Found(x, id) /\ x.map[id].gen > x.gen)
    BY <1>3, <1>6, CapacityAssumption DEF Room, IsContext, ContextFields
  <2>2. y.map = m /\ y.mem = x.mem /\ y.gen = x.gen
    BY <2>1 DEF IsContext, ContextFields
  <2>3. Named(y, e)
    BY <1>1, <1>6, <2>2 DEF Named
  <2>4. ASSUME NEW k \in 1 .. Capacity \ {e}, Named(x, k)
        PROVE  Named(y, k)
    <3>1. x.mem[k].id # id
      BY <2>1, <2>4 DEF Named, Found, IsContext
    <3> QED
      BY <1>1, <2>2, <2>4, <3>1 DEF Named
  <2> QED
    BY <2>3, <2>4
<1> QED
  BY <1>4, <1>5, <1>6

-----------------------------------------------------------------------------
(* Steps that touch no id *)

\* y is x but for what no id and no container depends on.
Quiet(x, y) == IsContext(y) /\ Keeps(x, y) /\ SameIds(x, y)

\* Two writes of Clay__ConfigureOpenElement that touch no id, one after the other.
LEMMA QuietTrans ==
  ASSUME NEW x, NEW y, NEW z, Quiet(x, y), Quiet(y, z)
  PROVE  Quiet(x, z)
  BY KeepsTrans DEF Quiet, SameIds

\* A part of the declaration that is left out writes nothing.
LEMMA QuietSame ==
  ASSUME NEW x, IsContext(x)
  PROVE  Quiet(x, x)
  BY RemembersSame DEF Quiet, Keeps, SameIds

\* Every field a fact above reads, but the elements, the error and the
\* containers, is the same.
Alike(x, y) ==
  /\ DOMAIN y = DOMAIN x /\ y.len = x.len /\ y.stack = x.stack /\ y.map = x.map
  /\ y.gen = x.gen /\ y.exceeded = x.exceeded

\* A write of Clay__ConfigureOpenElement to an element, other than to its id, or
\* to the scroll containers touches no id.
LEMMA AlikeQuiet ==
  ASSUME NEW x, IsContext(x), NEW y, Alike(x, y), AreElements(y.mem),
         \A e \in 1 .. Capacity : y.mem[e].id = x.mem[e].id,
         y.err \in BOOLEAN, x.err => y.err,
         AreScrolls(y.scrolls), Remembers(x.scrolls, y.scrolls)
  PROVE  Quiet(x, y)
  BY Zenon DEF Alike, Quiet, IsContext, Keeps, SameIds

\* The elements with one field of one of them set.
Changed(m, e, f, v) == [m EXCEPT ![e] = [m[e] EXCEPT ![f] = v]]

\* An element changed in a field other than its id.
LEMMA FieldChanged ==
  ASSUME NEW m, AreElements(m), NEW e, NEW f \in ElementFields \ {"id"}, NEW v,
         NEW w, w = Changed(m, e, f, v)
  PROVE  AreElements(w) /\ \A k \in 1 .. Capacity : w[k].id = m[k].id
<1>1. "id" \in ElementFields
  BY DEF ElementFields
<1> QED
  BY <1>1 DEF AreElements, Changed

\* An element given an id.
LEMMA IdChanged ==
  ASSUME NEW m, AreElements(m), NEW e, NEW id,
         NEW w, w = Changed(m, e, "id", id)
  PROVE  /\ AreElements(w)
         /\ \A k \in 1 .. Capacity : k # e => w[k].id = m[k].id
         /\ e \in 1 .. Capacity => w[e].id = id
<1>1. "id" \in ElementFields
  BY DEF ElementFields
<1> QED
  BY <1>1 DEF AreElements, Changed

\* The fields of an element that are not its id.
LEMMA OtherFields ==
  /\ "n" \in ElementFields \ {"id"} /\ "kids" \in ElementFields \ {"id"}
  /\ "closed" \in ElementFields \ {"id"} /\ "cs" \in ElementFields \ {"id"}
  /\ "cl" \in ElementFields \ {"id"} /\ "offset" \in ElementFields \ {"id"}
  BY DEF ElementFields

\* Clay__ElementConfigArray_Add: the array grows, or an error is reported.
LEMMA AddConfigQuiet ==
  ASSUME NEW x, IsContext(x), NEW t, NEW y, y = AddConfig(x, t)
  PROVE  Quiet(x, y)
<1>1. \/ y = [x EXCEPT !.err = TRUE]
      \/ y = [x EXCEPT !.cfgLen = @ + 1, !.cfg[x.cfgLen + 1] = t]
  BY Zenon DEF AddConfig
<1>2. /\ Alike(x, y) /\ y.mem = x.mem /\ y.scrolls = x.scrolls
      /\ y.err = x.err \/ y.err = TRUE
  BY <1>1, Zenon DEF Alike, IsContext, ContextFields
<1>3. y.err \in BOOLEAN /\ (x.err => y.err)
  BY <1>2, Zenon DEF IsContext
<1> QED
  BY <1>2, <1>3, AlikeQuiet, RemembersSame, Zenon DEF IsContext

\* Clay__AttachElementConfig.
LEMMA AttachQuiet ==
  ASSUME NEW x, IsContext(x), NEW t, NEW y, y = AttachConfig(x, t)
  PROVE  Quiet(x, y)
<1>1. CASE x.exceeded
  BY <1>1, QuietSame DEF AttachConfig
<1>2. CASE ~x.exceeded
  <2>1. PICK m : m = Changed(x.mem, OpenElement(x), "cl", x.mem[OpenElement(x)].cl + 1)
    OBVIOUS
  <2>2. PICK w : w = [x EXCEPT !.mem[OpenElement(x)].cl = @ + 1]
    BY Zenon
  <2>3. Alike(x, w) /\ w.err = x.err /\ w.scrolls = x.scrolls /\ w.mem = m
    BY <2>1, <2>2, Zenon DEF Changed, Alike, IsContext, ContextFields
  <2>4. AreElements(m) /\ \A k \in 1 .. Capacity : m[k].id = x.mem[k].id
    BY <2>1, OtherFields, FieldChanged DEF IsContext
  <2>5. Quiet(x, w)
    BY <2>3, <2>4, AlikeQuiet, RemembersSame, Zenon DEF IsContext
  <2>6. y = AddConfig(w, t)
    BY <1>2, <2>2, Zenon DEF AttachConfig
  <2> QED
    BY <2>5, <2>6, AddConfigQuiet, QuietTrans DEF Quiet
<1> QED
  BY <1>1, <1>2 DEF IsContext

-----------------------------------------------------------------------------
(* The id of the open element *)

\* o is found by its id and every other element that was still is, or the map
\* is full or an error was reported.
Renames(x, y, o) ==
  Room(y) => /\ Named(y, o)
             /\ \A k \in 1 .. Capacity \ {o} : Named(x, k) => Named(y, k)

\* The id is written and put in the map.
LEMMA SetId ==
  ASSUME NEW x, IsContext(x), NEW o, NEW id, NEW alias,
         NEW y, y = AddHashMapItem([x EXCEPT !.mem[o].id = id], id, o, alias)
  PROVE  IsContext(y) /\ Keeps(x, y) /\ (o \in 1 .. Capacity => Renames(x, y, o))
<1>1. PICK m : m = Changed(x.mem, o, "id", id)
  OBVIOUS
<1>2. PICK w : w = [x EXCEPT !.mem[o].id = id]
  OBVIOUS
<1>3. Alike(x, w) /\ w.err = x.err /\ w.scrolls = x.scrolls /\ w.mem = m
  BY <1>1, <1>2, Zenon DEF Changed, Alike, IsContext, ContextFields
<1>4. /\ AreElements(m)
      /\ \A k \in 1 .. Capacity : k # o => m[k].id = x.mem[k].id
      /\ o \in 1 .. Capacity => m[o].id = id
  BY <1>1, IdChanged DEF IsContext
<1>5. IsContext(w)
  BY <1>3, <1>4, Zenon DEF IsContext, Alike
<1>6. Keeps(x, w)
  BY <1>3, RemembersSame, Zenon DEF Keeps, Alike
<1>7. /\ IsContext(y) /\ Keeps(w, y)
      /\ Room(y) /\ w.mem[o].id = id =>
           /\ Named(y, o)
           /\ \A k \in 1 .. Capacity \ {o} : Named(w, k) => Named(y, k)
  <2>1. y = AddHashMapItem(w, id, o, alias)
    BY <1>2, Zenon
  <2> QED
    BY <1>5, <2>1, AddItem, Zenon
<1>8. Keeps(x, y)
  BY <1>6, <1>7, KeepsTrans
<1>9. ASSUME NEW k \in 1 .. Capacity \ {o}, Named(x, k)
      PROVE  Named(w, k)
  BY <1>3, <1>4, <1>9 DEF Named, Alike
<1> QED
  BY <1>3, <1>4, <1>7, <1>8, <1>9 DEF Renames

\* Clay__GenerateIdForAnonymousElement.
LEMMA GenerateIdSets ==
  ASSUME NEW x, IsContext(x), NEW y, y = GenerateId(x)
  PROVE  /\ IsContext(y) /\ Keeps(x, y)
         /\ OpenElement(x) \in 1 .. Capacity => Renames(x, y, OpenElement(x))
<1>1. PICK id : y = AddHashMapItem([x EXCEPT !.mem[OpenElement(x)].id = id],
                                   id, OpenElement(x), NoId)
  BY DEF GenerateId
<1> QED
  BY <1>1, SetId

\* Clay__AttachId.
LEMMA AttachIdSets ==
  ASSUME NEW x, IsContext(x), NEW id, NEW y, y = AttachId(x, id)
  PROVE  /\ IsContext(y) /\ Keeps(x, y)
         /\ OpenElement(x) \in 1 .. Capacity /\ ~x.exceeded =>
              Renames(x, y, OpenElement(x))
<1>1. CASE x.exceeded
  BY <1>1, QuietSame DEF AttachId, Quiet
<1>2. CASE ~x.exceeded
  <2>1. y = AddHashMapItem([x EXCEPT !.mem[OpenElement(x)].id = id],
                           id, OpenElement(x), x.mem[OpenElement(x)].id)
    BY <1>2 DEF AttachId
  <2> QED
    BY <2>1, SetId
<1> QED
  BY <1>1, <1>2 DEF IsContext

\* Clay_GetScrollOffset: an element without an id is given one.
LEMMA GetScrollOffsetNames ==
  ASSUME NEW x, IsContext(x), NEW o, o = OpenElement(x),
         x.exceeded \/ x.mem[o].id = NoId,
         NEW z, z = GetScrollOffset(x)
  PROVE  /\ IsContext(z) /\ Keeps(x, z)
         /\ o \in 1 .. Capacity /\ ~x.exceeded => Renames(x, z, o)
<1>1. CASE x.exceeded
  BY <1>1, QuietSame DEF GetScrollOffset, Quiet
<1>2. CASE ~x.exceeded
  <2>1. PICK y : y = GenerateId(x)
    OBVIOUS
  <2>2. /\ IsContext(y) /\ Keeps(x, y)
        /\ o \in 1 .. Capacity => Renames(x, y, o)
    BY <2>1, GenerateIdSets, Zenon
  <2>3. PICK v : z = [y EXCEPT !.mem[o].offset = v]
    BY <1>2, <2>1, Zenon DEF GetScrollOffset
  <2>4. PICK m : m = Changed(y.mem, o, "offset", v)
    OBVIOUS
  <2>5. Alike(y, z) /\ z.err = y.err /\ z.scrolls = y.scrolls /\ z.mem = m
    BY <2>2, <2>3, <2>4, Zenon DEF Changed, Alike, IsContext, ContextFields
  <2>6. AreElements(m) /\ \A k \in 1 .. Capacity : m[k].id = y.mem[k].id
    BY <2>2, <2>4, OtherFields, FieldChanged DEF IsContext
  <2>7. Quiet(y, z)
    BY <2>2, <2>5, <2>6, AlikeQuiet, RemembersSame, Zenon DEF IsContext
  <2>8. IsContext(z) /\ Keeps(x, z)
    BY <2>2, <2>7, KeepsTrans DEF Quiet
  <2>9. ASSUME o \in 1 .. Capacity
        PROVE  Renames(x, z, o)
    <3>1. Room(z) => Room(y)
      BY <2>2, <2>7, RoomBefore DEF Quiet
    <3>2. \A k \in 1 .. Capacity : Named(y, k) => Named(z, k)
      BY <2>7, NamedSame DEF Quiet, Keeps
    <3> QED
      BY <2>2, <2>9, <3>1, <3>2 DEF Renames
  <2> QED
    BY <2>8, <2>9
<1> QED
  BY <1>1, <1>2 DEF IsContext

-----------------------------------------------------------------------------
(* Configuring *)

\* Clay__ConfigureOpenElementPtr, the floating part.
LEMMA ConfigureFloatQuiet ==
  ASSUME NEW x, IsContext(x), NEW d, NEW z, z = ConfigureFloat(x, d)
  PROVE  Quiet(x, z)
<1>1. CASE d.at = "none"
  BY <1>1, QuietSame DEF ConfigureFloat
<1>2. CASE d.at # "none"
  <2> DEFINE root == [el |-> OpenElement(x), clip |-> FloatClip(x, d), z |-> d.z,
                      capture |-> d.capture]
             more == \/ d.at = "id" /\ ~Found(x, d.to)
                     \/ Capacity \in {Len(x.clips), Len(x.roots)}
  <2>1. PICK y : y = [x EXCEPT
                        !.err = \/ @ \/ (d.at = "id" /\ ~Found(x, d.to))
                                \/ Capacity \in {Len(x.clips), Len(x.roots)},
                        !.clipOf[OpenElement(x)] = FloatClip(x, d),
                        !.clips = Added(@, FloatClip(x, d)),
                        !.roots = Added(@, root)]
    OBVIOUS
  <2>2. z = AttachConfig(y, "float")
    BY <1>2, <2>1 DEF ConfigureFloat
  <2>3. /\ Alike(x, y) /\ y.scrolls = x.scrolls /\ y.mem = x.mem
        /\ y.err = (x.err \/ more)
    BY <2>1, Zenon DEF Alike, IsContext, ContextFields
  <2>4. y.err \in BOOLEAN /\ (x.err => y.err)
    BY <2>3 DEF IsContext
  <2>5. Quiet(x, y)
    BY <2>3, <2>4, AlikeQuiet, RemembersSame, Zenon DEF IsContext
  <2> QED
    BY <2>2, <2>5, AttachQuiet, QuietTrans DEF Quiet
<1> QED
  BY <1>1, <1>2

\* What names the open element o and keeps the others named.
Names(x, y, o) ==
  /\ IsContext(y) /\ Keeps(x, y)
  /\ o \in 1 .. Capacity /\ ~x.exceeded /\ Room(y)
       /\ (x.mem[o].id = NoId \/ Named(x, o)) =>
         /\ Named(y, o)
         /\ \A k \in 1 .. Capacity \ {o} : Named(x, k) => Named(y, k)

\* ... the id: the one declared, the one it has, or one made for it.
LEMMA ConfigureIdNames ==
  ASSUME NEW x, IsContext(x), NEW id, NEW y, y = ConfigureId(x, id)
  PROVE  Names(x, y, OpenElement(x))
<1>1. CASE id # NoId
  <2>1. y = AttachId(x, id)
    BY <1>1 DEF ConfigureId
  <2> QED
    BY <2>1, AttachIdSets DEF Names, Renames
<1>2. CASE id = NoId /\ x.mem[OpenElement(x)].id = NoId
  <2>1. y = GenerateId(x)
    BY <1>2 DEF ConfigureId
  <2> QED
    BY <2>1, GenerateIdSets DEF Names, Renames
<1>3. CASE id = NoId /\ x.mem[OpenElement(x)].id # NoId
  <2>1. y = x
    BY <1>3 DEF ConfigureId
  <2> QED
    BY <1>3, <2>1, QuietSame DEF Names, Quiet
<1> QED
  BY <1>1, <1>2, <1>3

\* Containers put one for one in the place of others.
LEMMA ScrollsMapped ==
  ASSUME NEW s, AreScrolls(s), NEW t, t = [i \in DOMAIN s |-> t[i]],
         \A i \in DOMAIN s : DOMAIN t[i] = ScrollFields /\ t[i].open \in BOOLEAN
  PROVE  AreScrolls(t) /\ DOMAIN t = DOMAIN s
<1>1. PICK S : s \in Seq(S)
  BY DEF AreScrolls
<1>2. Len(s) \in Nat /\ DOMAIN s = 1 .. Len(s)
  BY <1>1
<1>3. DOMAIN t = DOMAIN s
  OBVIOUS
<1>4. \A i \in DOMAIN s : t[i] \in Range(t)
  BY <1>3, Zenon DEF Range
<1>5. t \in Seq(Range(t))
  BY <1>2, <1>4
<1> QED
  BY <1>3, <1>5, Zenon DEF AreScrolls

\* Looking up or adding the scroll container of an id forgets none.
LEMMA OpenScrollKeeps ==
  ASSUME NEW s, AreScrolls(s), NEW id, NEW e
  PROVE  AreScrolls(OpenScroll(s, id, e)) /\ Remembers(s, OpenScroll(s, id, e))
<1>1. PICK S : s \in Seq(S)
  BY Zenon DEF AreScrolls
<1>2. CASE HasScroll(s, id)
  <2>1. PICK t : t = OpenScroll(s, id, e)
    BY Zenon
  <2>2. /\ DOMAIN t = DOMAIN s
        /\ \A i \in DOMAIN s : t[i] = IF s[i].id = id
                                       THEN [s[i] EXCEPT !.el = e, !.open = TRUE]
                                       ELSE s[i]
    BY <1>2, <2>1, Zenon DEF OpenScroll
  <2>3. ASSUME NEW i \in DOMAIN s
        PROVE  /\ DOMAIN t[i] = ScrollFields /\ t[i].open \in BOOLEAN
               /\ t[i].id = s[i].id /\ t[i].pos = s[i].pos
               /\ s[i].open => t[i].open
    BY <2>2, <2>3, Zenon DEF AreScrolls, ScrollFields
  <2>4. t = [i \in DOMAIN s |-> t[i]]
    BY <1>2, <2>1, Zenon DEF OpenScroll
  <2>5. AreScrolls(t)
    BY <2>3, <2>4, ScrollsMapped, Zenon
  <2> QED
    BY <2>1, <2>2, <2>3, <2>5, Zenon DEF Remembers
<1>3. CASE ~HasScroll(s, id) /\ Len(s) # MaxScrolls
  <2>1. PICK n : n = NewScroll(id, e)
    OBVIOUS
  <2>2. DOMAIN n = ScrollFields /\ n.open \in BOOLEAN
    BY <2>1 DEF NewScroll, ScrollFields
  <2>3. PICK t : t = Append(s, n)
    BY Zenon
  <2>4. t = OpenScroll(s, id, e)
    BY <1>3, <2>1, <2>3 DEF OpenScroll
  <2>5. s \in Seq(S \cup {n})
    BY <1>1
  <2>6. /\ t \in Seq(S \cup {n}) /\ DOMAIN t = 1 .. Len(s) + 1
        /\ DOMAIN s = 1 .. Len(s) /\ Len(s) \in Nat
        /\ \A i \in DOMAIN s : t[i] = s[i]
        /\ t[Len(s) + 1] = n
    BY <2>3, <2>5
  <2>7. ASSUME NEW i \in DOMAIN t
        PROVE  DOMAIN t[i] = ScrollFields /\ t[i].open \in BOOLEAN
    <3>1. i \in DOMAIN s \/ i = Len(s) + 1
      BY <2>6, <2>7
    <3> QED
      BY <2>2, <2>6, <3>1 DEF AreScrolls
  <2>8. DOMAIN s \subseteq DOMAIN t
    BY <2>6
  <2>9. AreScrolls(t)
    BY <2>6, <2>7 DEF AreScrolls
  <2>10. Remembers(s, t)
    BY <2>6, <2>8, Zenon DEF Remembers
  <2> QED
    BY <2>4, <2>9, <2>10
<1>4. CASE ~HasScroll(s, id) /\ Len(s) = MaxScrolls
  <2>1. OpenScroll(s, id, e) = s
    BY <1>4, Zenon DEF OpenScroll
  <2> QED
    BY <2>1, RemembersSame, Zenon
<1> QED
  BY <1>2, <1>3, <1>4

\* ... the clip.
LEMMA ConfigureClipQuiet ==
  ASSUME NEW x, IsContext(x), NEW d, NEW z, z = ConfigureClip(x, d)
  PROVE  Quiet(x, z)
<1>1. CASE ~d.clip
  BY <1>1, QuietSame DEF ConfigureClip
<1>2. CASE d.clip
  <2>1. PICK y : y = AttachConfig(x, "clip")
    OBVIOUS
  <2>2. Quiet(x, y)
    BY <2>1, AttachQuiet
  <2>3. PICK s : s = OpenScroll(y.scrolls, y.mem[OpenElement(y)].id, OpenElement(y))
    OBVIOUS
  <2> DEFINE more == \/ Len(y.clips) = Capacity
                     \/ /\ Len(y.scrolls) = MaxScrolls
                        /\ ~HasScroll(y.scrolls, y.mem[OpenElement(y)].id)
  <2>4. /\ Alike(y, z) /\ z.mem = y.mem /\ z.scrolls = s
        /\ z.err = (y.err \/ more)
    BY <1>2, <2>1, <2>2, <2>3, Zenon DEF ConfigureClip, Alike, Quiet, IsContext, ContextFields
  <2> HIDE DEF more
  <2>5. AreScrolls(s) /\ Remembers(y.scrolls, s)
    BY <2>2, <2>3, OpenScrollKeeps DEF Quiet, IsContext
  <2>6. z.err \in BOOLEAN /\ (y.err => z.err)
    BY <2>2, <2>4 DEF Quiet, IsContext
  <2>7. Quiet(y, z)
    BY <2>2, <2>4, <2>5, <2>6, AlikeQuiet, Zenon DEF Quiet, IsContext
  <2> QED
    BY <2>2, <2>7, QuietTrans
<1> QED
  BY <1>1, <1>2

\* Clay__ConfigureOpenElementPtr.
LEMMA ConfigureNames ==
  ASSUME NEW x, IsContext(x), NEW d, NEW z, z = Configure(x, d)
  PROVE  Names(x, z, OpenElement(x))
<1> DEFINE o == OpenElement(x)
<1>1. PICK w : w = [x EXCEPT !.mem[o].cs = x.cfgLen + 1]
  BY Zenon
<1>2. PICK f : f = ConfigureFloat(w, d)
  OBVIOUS
<1>3. PICK i : i = ConfigureId(f, FloatId(x, d))
  OBVIOUS
<1>4. z = ConfigureClip(i, d)
  BY <1>1, <1>2, <1>3 DEF Configure
<1>5. PICK m : m = Changed(x.mem, o, "cs", x.cfgLen + 1)
  OBVIOUS
<1>6. Alike(x, w) /\ w.err = x.err /\ w.scrolls = x.scrolls /\ w.mem = m
  BY <1>1, <1>5 DEF Changed, Alike, IsContext, ContextFields
<1>7. AreElements(m) /\ \A k \in 1 .. Capacity : m[k].id = x.mem[k].id
  BY <1>5, OtherFields, FieldChanged DEF IsContext
<1>8. Quiet(x, w)
  BY <1>6, <1>7, AlikeQuiet, RemembersSame, Zenon DEF IsContext
<1>9. Quiet(w, f)
  BY <1>2, <1>8, ConfigureFloatQuiet DEF Quiet
<1>10. Quiet(x, f)
  BY <1>8, <1>9, QuietTrans
<1>11. OpenElement(f) = o
  BY <1>10 DEF Quiet, Keeps, OpenElement
<1> HIDE DEF o
<1>12. Names(f, i, o)
  BY <1>3, <1>10, <1>11, ConfigureIdNames, Zenon DEF Quiet
<1>13. Quiet(i, z)
  BY <1>4, <1>12, ConfigureClipQuiet DEF Names
<1>14. IsContext(z) /\ Keeps(x, i) /\ Keeps(x, z)
  BY <1>10, <1>12, <1>13, KeepsTrans, Zenon DEF Quiet, Names
<1>15. ASSUME o \in 1 .. Capacity, ~x.exceeded, Room(z),
              x.mem[o].id = NoId \/ Named(x, o)
       PROVE  /\ Named(z, o)
              /\ \A k \in 1 .. Capacity \ {o} : Named(x, k) => Named(z, k)
  <2>1. Room(i)
    BY <1>12, <1>13, <1>15, RoomBefore, Zenon DEF Quiet, Names
  <2>2. \A k \in 1 .. Capacity : Named(x, k) => Named(f, k)
    BY <1>10, NamedSame DEF Quiet, Keeps
  <2>3. \A k \in 1 .. Capacity : Named(i, k) => Named(z, k)
    BY <1>13, NamedSame DEF Quiet, Keeps
  <2>4. ~f.exceeded /\ (f.mem[o].id = NoId \/ Named(f, o))
    BY <1>10, <1>15, <2>2 DEF Quiet, Keeps, SameIds
  <2> QED
    BY <1>12, <1>15, <2>1, <2>2, <2>3, <2>4 DEF Names
<1> QED
  BY <1>14, <1>15 DEF Names, o

-----------------------------------------------------------------------------
(* Opening and closing *)

\* A frame with an element lost: nothing is said of it but that it is one.
Spent(x, y) ==
  /\ IsContext(y) /\ y.exceeded /\ Remembers(x.scrolls, y.scrolls)

\* One element more, which has no name yet.
Opened(x, y) ==
  /\ IsContext(y) /\ ~y.exceeded /\ ~x.exceeded
  /\ y.len = x.len + 1 /\ OpenElement(y) = y.len /\ y.mem[y.len].id = NoId
  /\ y.gen = x.gen /\ y.err = x.err /\ y.map = x.map /\ y.scrolls = x.scrolls
  /\ \A e \in 1 .. x.len : y.mem[e].id = x.mem[e].id

\* Clay__OpenElement on a full array of elements only sets
\* maxElementsExceeded.
LEMMA Exceeds ==
  ASSUME NEW x, IsContext(x), NEW y, y = [x EXCEPT !.exceeded = TRUE]
  PROVE  Spent(x, y)
<1>1. /\ DOMAIN y = DOMAIN x /\ y.len = x.len /\ y.stack = x.stack /\ y.map = x.map
      /\ y.gen = x.gen /\ y.exceeded = TRUE /\ y.err = x.err /\ y.mem = x.mem
      /\ y.scrolls = x.scrolls
  BY Zenon DEF IsContext, ContextFields
<1> QED
  BY <1>1, RemembersSame, Zenon DEF Spent, IsContext

\* Clay_LayoutElementArray_Add on a frame that is not full.
LEMMA NewElementIs ==
  ASSUME NEW x, IsContext(x), ~Full(x), NEW el, DOMAIN el = ElementFields,
         NEW y, y = NewElement(x, el)
  PROVE  /\ IsContext(y) /\ ~y.exceeded /\ y.len = x.len + 1 /\ y.mem[y.len] = el
         /\ y.stack = x.stack /\ y.gen = x.gen /\ y.err = x.err /\ y.map = x.map
         /\ y.scrolls = x.scrolls
         /\ y.len \in 1 .. Capacity - 1
         /\ \A e \in 1 .. x.len : y.mem[e] = x.mem[e]
<1>1. /\ x.len + 1 \in 1 .. Capacity - 1 /\ x.len + 1 \in 0 .. Capacity - 1
      /\ x.len + 1 \in 1 .. Capacity
      /\ \A e \in 1 .. x.len : e # x.len + 1 /\ e \in 1 .. Capacity
  BY CapacityAssumption DEF Full, IsContext
<1>2. /\ DOMAIN y = DOMAIN x /\ y.len = x.len + 1 /\ y.stack = x.stack
      /\ y.map = x.map /\ y.gen = x.gen /\ y.exceeded = x.exceeded /\ y.err = x.err
      /\ y.scrolls = x.scrolls /\ y.mem = [x.mem EXCEPT ![x.len + 1] = el]
  BY Zenon DEF NewElement, IsContext, ContextFields
<1>3. /\ AreElements(y.mem) /\ y.mem[x.len + 1] = el
      /\ \A e \in 1 .. x.len : y.mem[e] = x.mem[e]
  BY <1>1, <1>2, Zenon DEF AreElements, IsContext
<1>4. IsContext(y)
  BY <1>1, <1>2, <1>3, Zenon DEF IsContext
<1>5. ~y.exceeded
  BY <1>2, Zenon DEF Full
<1> QED
  BY <1>1, <1>2, <1>3, <1>4, <1>5, Zenon

\* Clay__OpenElement.
LEMMA OpenOpens ==
  ASSUME NEW x, IsContext(x), NEW y, y = Open(x)
  PROVE  IF Full(x) THEN Spent(x, y) ELSE Opened(x, y)
<1>1. CASE Full(x)
  <2>1. y = [x EXCEPT !.exceeded = TRUE]
    BY <1>1, Zenon DEF Open
  <2> QED
    BY <1>1, <2>1, Exceeds, Zenon
<1>2. CASE ~Full(x)
  <2>1. DOMAIN Blank = ElementFields /\ Blank.id = NoId
    BY DEF Blank, ElementFields
  <2>2. PICK w : w = NewElement(x, Blank)
    OBVIOUS
  <2>3. /\ IsContext(w) /\ ~w.exceeded /\ w.len = x.len + 1 /\ w.mem[w.len] = Blank
        /\ w.stack = x.stack /\ w.gen = x.gen /\ w.err = x.err /\ w.map = x.map
        /\ w.scrolls = x.scrolls
        /\ w.len \in 1 .. Capacity - 1
        /\ \A e \in 1 .. x.len : w.mem[e] = x.mem[e]
    BY <1>2, <2>1, <2>2, NewElementIs
  <2>4. y = [w EXCEPT !.stack = Append(@, x.len + 1)]
    BY <1>2, <2>2, Zenon DEF Open
  <2>5. /\ DOMAIN y = DOMAIN w /\ y.len = w.len /\ y.stack = Append(w.stack, x.len + 1)
        /\ y.map = w.map /\ y.gen = w.gen /\ y.exceeded = w.exceeded
        /\ y.err = w.err /\ y.mem = w.mem /\ y.scrolls = w.scrolls
    BY <2>3, <2>4, Zenon DEF IsContext, ContextFields
  <2>6. y.stack \in Seq(Nat) /\ Last(y.stack) = x.len + 1
    <3>1. x.len + 1 \in Nat /\ w.stack \in Seq(Nat)
      BY <2>3 DEF IsContext
    <3> QED
      BY <2>5, <3>1 DEF Last
  <2>7. IsContext(y)
    BY <2>3, <2>5, <2>6, Zenon DEF IsContext
  <2>8. ~x.exceeded
    BY <1>2, Zenon DEF Full
  <2> QED
    BY <1>2, <2>1, <2>3, <2>5, <2>6, <2>7, <2>8, Zenon DEF Opened, OpenElement
<1> QED
  BY <1>1, <1>2

\* Every element of the frame has its name, while there is room.
Current(x) == ~x.exceeded /\ Room(x) => \A e \in 1 .. x.len : Named(x, e)

\* One call of the program that declares an element: it is one more, with its
\* name, or the frame has lost it.
Declared(x, y) ==
  /\ IsContext(y) /\ Remembers(x.scrolls, y.scrolls)
  /\ ~y.exceeded => ~x.exceeded /\ y.len = x.len + 1
  /\ Current(x) => Current(y)

\* box/3 of the tree.
LEMMA BoxDeclares ==
  ASSUME NEW x, IsContext(x), NEW d, NEW s \in BOOLEAN, NEW y, y = Open(x),
         NEW g, g = IF s THEN GetScrollOffset(y) ELSE y,
         NEW z, z = Configure(g, d)
  PROVE  Declared(x, z)
<1>1. IF Full(x) THEN Spent(x, y) ELSE Opened(x, y)
  BY OpenOpens, Zenon
<1>2. IsContext(y) /\ Remembers(x.scrolls, y.scrolls)
  BY <1>1, RemembersSame, Zenon DEF Spent, Opened
<1>3. y.exceeded \/ y.mem[OpenElement(y)].id = NoId
  BY <1>1, Zenon DEF Spent, Opened
<1>4. /\ IsContext(g) /\ Keeps(y, g)
      /\ OpenElement(y) \in 1 .. Capacity /\ ~y.exceeded =>
           \/ g = y
           \/ Renames(y, g, OpenElement(y))
  <2>1. CASE s
    <3>1. g = GetScrollOffset(y)
      BY <2>1
    <3> QED
      BY <1>2, <1>3, <3>1, GetScrollOffsetNames, Zenon
  <2>2. CASE ~s
    <3>1. g = y
      BY <2>2
    <3> QED
      BY <1>2, <3>1, QuietSame, Zenon DEF Quiet
  <2> QED
    BY <2>1, <2>2
<1>5. Names(g, z, OpenElement(g))
  BY <1>4, ConfigureNames, Zenon
<1>6. Keeps(y, z)
  BY <1>4, <1>5, KeepsTrans, Zenon DEF Names
<1>7. IsContext(z) /\ Remembers(x.scrolls, z.scrolls)
  BY <1>2, <1>5, <1>6, RemembersTrans, Zenon DEF Names, Keeps
<1>8. CASE Full(x)
  <2>1. y.exceeded
    BY <1>1, <1>8, Zenon DEF Spent
  <2>2. z.exceeded
    BY <1>6, <2>1, Zenon DEF Keeps
  <2> QED
    BY <1>7, <2>2, Zenon DEF Declared, Current
<1>9. CASE ~Full(x)
  <2>1. Opened(x, y)
    BY <1>1, <1>9, Zenon
  <2>2. ~z.exceeded /\ z.len = x.len + 1 /\ ~x.exceeded
    BY <1>6, <2>1, Zenon DEF Keeps, Opened
  <2>3. ASSUME Current(x), Room(z), NEW e \in 1 .. z.len
        PROVE  Named(z, e)
    <3> DEFINE o == OpenElement(y)
    <3>1. o = x.len + 1 /\ o \in 1 .. Capacity
      BY <2>1, CapacityAssumption DEF Opened, IsContext
    <3>2. OpenElement(g) = o /\ ~g.exceeded
      BY <1>4, <2>1, Zenon DEF Keeps, OpenElement, Opened
    <3>3. Room(g) /\ Room(y)
      BY <1>2, <1>4, <1>5, <1>6, <1>7, <2>3, RoomBefore, Zenon DEF Names
    <3>4. Room(x)
      BY <2>1, <3>3, Zenon DEF Room, Opened
    <3>5. ASSUME NEW k \in 1 .. x.len
          PROVE  Named(y, k)
      <4>1. Named(x, k)
        BY <2>2, <2>3, <3>4, <3>5, Zenon DEF Current
      <4> QED
        BY <2>1, <3>5, <4>1, Zenon DEF Named, Opened
    <3>6. \A k \in 1 .. x.len : k \in 1 .. Capacity \ {o}
      BY <3>1, CapacityAssumption DEF IsContext
    <3> HIDE DEF o
    <3>7. g.mem[o].id = NoId \/ Named(g, o)
      BY <1>3, <1>4, <2>1, <3>1, <3>3, Zenon DEF o, Opened, Renames
    <3>8. \A k \in 1 .. x.len : Named(g, k)
      BY <1>4, <2>1, <3>1, <3>3, <3>5, <3>6, Zenon DEF o, Opened, Renames
    <3>9. Named(z, o) /\ \A k \in 1 .. Capacity \ {o} : Named(g, k) => Named(z, k)
      BY <1>5, <2>3, <3>1, <3>2, <3>7, Zenon DEF Names
    <3>10. e = o \/ e \in 1 .. x.len
      BY <2>2, <2>3, <3>1 DEF IsContext
    <3> QED
      BY <3>6, <3>8, <3>9, <3>10, Zenon
  <2> QED
    BY <1>7, <2>2, <2>3, Zenon DEF Declared, Current
<1> QED
  BY <1>8, <1>9

\* Clay__OpenTextElement.
LEMMA TextDeclares ==
  ASSUME NEW x, IsContext(x), NEW z, z = OpenText(x)
  PROVE  Declared(x, z)
<1>1. CASE Full(x)
  <2>1. z = [x EXCEPT !.exceeded = TRUE]
    BY <1>1, Zenon DEF OpenText
  <2> QED
    BY <2>1, Exceeds, Zenon DEF Spent, Declared, Current
<1>2. CASE ~Full(x)
  <2>1. PICK p : p = OpenElement(x)
    OBVIOUS
  <2>2. PICK id : id = AnonymousId(x, p)
    OBVIOUS
  <2>3. PICK el : el = [Blank EXCEPT !.id = id, !.cs = x.cfgLen + 1, !.cl = 1]
    OBVIOUS
  <2>4. DOMAIN el = ElementFields /\ el.id = id
    BY <2>3 DEF Blank, ElementFields
  <2>5. PICK y : y = NewElement(x, el)
    OBVIOUS
  <2>6. /\ IsContext(y) /\ ~y.exceeded /\ y.len = x.len + 1 /\ y.mem[y.len] = el
        /\ y.stack = x.stack /\ y.gen = x.gen /\ y.err = x.err /\ y.map = x.map
        /\ y.scrolls = x.scrolls
        /\ y.len \in 1 .. Capacity - 1
        /\ \A e \in 1 .. x.len : y.mem[e] = x.mem[e]
    BY <1>2, <2>4, <2>5, NewElementIs
  <2>7. PICK a : a = AddHashMapItem(y, id, x.len + 1, NoId)
    OBVIOUS
  <2>8. /\ IsContext(a) /\ Keeps(y, a)
        /\ Room(a) /\ y.mem[x.len + 1].id = id =>
             /\ Named(a, x.len + 1)
             /\ \A k \in 1 .. Capacity \ {x.len + 1} : Named(y, k) => Named(a, k)
    BY <2>6, <2>7, AddItem
  <2>9. PICK b : b = [a EXCEPT !.buf = Append(@, x.len + 1), !.mem[p].n = @ + 1]
    BY Zenon
  <2>10. PICK m : m = Changed(a.mem, p, "n", a.mem[p].n + 1)
    OBVIOUS
  <2>11. Alike(a, b) /\ b.err = a.err /\ b.scrolls = a.scrolls /\ b.mem = m
    BY <2>8, <2>9, <2>10, Zenon DEF Changed, Alike, IsContext, ContextFields
  <2>12. AreElements(m) /\ \A k \in 1 .. Capacity : m[k].id = a.mem[k].id
    BY <2>8, <2>10, OtherFields, FieldChanged DEF IsContext
  <2>13. Quiet(a, z)
    <3>1. Quiet(a, b)
      BY <2>8, <2>11, <2>12, AlikeQuiet, RemembersSame, Zenon DEF IsContext
    <3>2. z = AddConfig(b, "text")
      BY <1>2, <2>1, <2>2, <2>3, <2>5, <2>7, <2>9, Zenon DEF OpenText
    <3> QED
      BY <3>1, <3>2, AddConfigQuiet, QuietTrans DEF Quiet
  <2>14. Keeps(y, z) /\ IsContext(z)
    BY <2>8, <2>13, KeepsTrans, Zenon DEF Quiet
  <2>15. /\ Remembers(x.scrolls, z.scrolls)
         /\ ~z.exceeded /\ ~x.exceeded /\ z.len = x.len + 1
    BY <1>2, <2>6, <2>14, Zenon DEF Keeps, Full
  <2>16. ASSUME Current(x), Room(z), NEW e \in 1 .. z.len
         PROVE  Named(z, e)
    <3>1. Room(a) /\ Room(y)
      BY <2>6, <2>8, <2>13, <2>14, <2>16, RoomBefore, Zenon DEF Quiet
    <3>2. Room(x)
      BY <2>6, <3>1, Zenon DEF Room
    <3>3. ASSUME NEW k \in 1 .. x.len
          PROVE  Named(y, k)
      <4>1. Named(x, k)
        BY <2>15, <2>16, <3>2, <3>3, Zenon DEF Current
      <4> QED
        BY <2>6, <3>3, <4>1, Zenon DEF Named
    <3>4. \A k \in 1 .. x.len : k \in 1 .. Capacity \ {x.len + 1}
      BY CapacityAssumption DEF IsContext
    <3>5. Named(a, x.len + 1) /\ \A k \in 1 .. x.len : Named(a, k)
      BY <2>4, <2>6, <2>8, <3>1, <3>3, <3>4, Zenon
    <3>6. \A k \in 1 .. Capacity : Named(a, k) => Named(z, k)
      BY <2>13, NamedSame, Zenon DEF Quiet, Keeps
    <3>7. (e = x.len + 1 \/ e \in 1 .. x.len) /\ e \in 1 .. Capacity
      BY <2>6, <2>15, <2>16, CapacityAssumption DEF IsContext
    <3> QED
      BY <3>5, <3>6, <3>7, Zenon
  <2> QED
    BY <2>14, <2>15, <2>16, Zenon DEF Declared, Current
<1> QED
  BY <1>1, <1>2

\* A call that declares nothing and gives no id.
Steady(x, y) ==
  /\ IsContext(y) /\ SameIds(x, y) /\ Remembers(x.scrolls, y.scrolls)
  /\ y.len = x.len /\ y.gen = x.gen /\ y.exceeded = x.exceeded /\ (x.err => y.err)

\* Clay__CloseElement and the final layout give no id: the map that was current
\* still is.
LEMMA SteadyCurrent ==
  ASSUME NEW x, IsContext(x), NEW y, Steady(x, y), Current(x)
  PROVE  Current(y)
<1> SUFFICES ASSUME ~y.exceeded, Room(y), NEW e \in 1 .. y.len
             PROVE  Named(y, e)
  BY Zenon DEF Current
<1>1. Room(x) /\ ~x.exceeded /\ e \in 1 .. x.len
  BY Zenon DEF Room, Steady, SameIds
<1>2. Named(x, e)
  BY <1>1, Zenon DEF Current
<1>3. e \in 1 .. Capacity
  BY <1>1, CapacityAssumption DEF IsContext
<1> QED
  BY <1>2, <1>3, NamedSame, Zenon DEF Steady

\* Clay__CloseElement.
LEMMA CloseSteady ==
  ASSUME NEW x, IsContext(x), NEW z, z = Close(x)
  PROVE  Steady(x, z)
<1>1. CASE x.exceeded
  <2>1. z = x
    BY <1>1, Zenon DEF Close
  <2> QED
    BY <2>1, RemembersSame, Zenon DEF Steady, SameIds
<1>2. CASE ~x.exceeded
  <2>1. PICK e : e = OpenElement(x)
    OBVIOUS
  <2>2. PICK n : n = x.mem[e].n
    OBVIOUS
  <2>3. PICK kids : kids = SubSeq(x.buf, Len(x.buf) - n + 1, Len(x.buf))
    BY Zenon
  <2>4. PICK y : y = [x EXCEPT
                        !.clips = DropLast(@, ClipsClosed(Configs(x, e))),
                        !.mem[e].kids = kids,
                        !.mem[e].closed = TRUE,
                        !.buf = DropLast(@, n),
                        !.stack = Front(@)]
    OBVIOUS
  <2>5. \/ z = y
        \/ z = [y EXCEPT !.mem[OpenElement(y)].n = @ + 1, !.buf = Append(@, e)]
    BY <1>2, <2>1, <2>2, <2>3, <2>4, Zenon DEF Close
  <2>6. PICK k : k = Changed(x.mem, e, "kids", kids)
    OBVIOUS
  <2>7. PICK m : m = Changed(k, e, "closed", TRUE)
    BY Zenon
  <2>8. /\ DOMAIN y = DOMAIN x /\ y.len = x.len /\ y.stack = Front(x.stack)
        /\ y.map = x.map /\ y.gen = x.gen /\ y.exceeded = x.exceeded /\ y.err = x.err
        /\ y.scrolls = x.scrolls /\ y.mem = m
    BY <2>4, <2>6, <2>7, Zenon DEF Changed, IsContext, ContextFields
  <2>9. Front(x.stack) \in Seq(Nat)
    BY DEF IsContext, Front
  <2>10. AreElements(k) /\ \A j \in 1 .. Capacity : k[j].id = x.mem[j].id
    BY <2>6, OtherFields, FieldChanged DEF IsContext
  <2>11. AreElements(m) /\ \A j \in 1 .. Capacity : m[j].id = k[j].id
    <3>1. PICK t : t = TRUE
      OBVIOUS
    <3>2. m = Changed(k, e, "closed", t)
      BY <2>7, <3>1
    <3>3. AreElements(k)
      BY <2>10
    <3> HIDE <3>1
    <3> QED
      BY <3>2, <3>3, OtherFields, FieldChanged
  <2>12. IsContext(y)
    BY <2>8, <2>9, <2>11, Zenon DEF IsContext
  <2>13. Steady(x, y)
    BY <2>8, <2>10, <2>11, <2>12, RemembersSame, Zenon DEF Steady, SameIds
  <2>14. CASE z = [y EXCEPT !.mem[OpenElement(y)].n = @ + 1, !.buf = Append(@, e)]
    <3>1. PICK w : w = Changed(y.mem, OpenElement(y), "n", y.mem[OpenElement(y)].n + 1)
      OBVIOUS
    <3>2. Alike(y, z) /\ z.err = y.err /\ z.scrolls = y.scrolls /\ z.mem = w
      BY <2>12, <2>14, <3>1, Zenon DEF Changed, Alike, IsContext, ContextFields
    <3>3. AreElements(w) /\ \A j \in 1 .. Capacity : w[j].id = y.mem[j].id
      BY <2>12, <3>1, OtherFields, FieldChanged DEF IsContext
    <3>4. Quiet(y, z)
      BY <2>12, <3>2, <3>3, AlikeQuiet, RemembersSame, Zenon DEF IsContext
    <3> QED
      BY <2>13, <3>2, <3>4, Zenon DEF Quiet, Keeps, Steady, SameIds
  <2> QED
    BY <2>5, <2>13, <2>14
<1> QED
  BY <1>1, <1>2 DEF IsContext

\* Clay__CalculateFinalLayout.
LEMMA FinalLayoutSteady ==
  ASSUME NEW x, IsContext(x), NEW room, NEW crowded \in BOOLEAN,
         NEW z, z = FinalLayout(x, room, crowded)
  PROVE  Steady(x, z)
<1> DEFINE s == x.scrolls
<1>1. PICK t : t = z.scrolls
  OBVIOUS
<1>2. Alike(x, z) /\ z.err = (x.err \/ crowded) /\ z.mem = x.mem
  BY Zenon DEF FinalLayout, Alike, IsContext, ContextFields
<1>3. PICK told : t = [i \in DOMAIN s |-> IF told[i] THEN [s[i] EXCEPT !.room = room] ELSE s[i]]
  <2> DEFINE clips == {e \in Range(Reached(x)) : HasConfig(x, e, "clip")}
             first(i) == ~\E j \in 1 .. i - 1 : s[j].el = s[i].el
             told == [i \in DOMAIN s |-> s[i].el \in clips /\ first(i)]
  <2>1. t = [i \in DOMAIN s |-> IF s[i].el \in clips /\ first(i)
                                  THEN [s[i] EXCEPT !.room = room] ELSE s[i]]
    BY <1>1, Zenon DEF FinalLayout, IsContext, ContextFields
  <2>2. \A i \in DOMAIN s : told[i] = (s[i].el \in clips /\ first(i))
    OBVIOUS
  <2> HIDE DEF clips, first, told
  <2> QED
    BY <2>1, <2>2, Zenon
<1>4. ASSUME NEW i \in DOMAIN s
      PROVE  /\ DOMAIN t[i] = ScrollFields /\ t[i].open = s[i].open
             /\ t[i].id = s[i].id /\ t[i].pos = s[i].pos
  <2>1. t[i] = s[i] \/ t[i] = [s[i] EXCEPT !.room = room]
    BY <1>3, Zenon
  <2>2. DOMAIN s[i] = ScrollFields
    BY Zenon DEF IsContext, AreScrolls
  <2> QED
    BY <2>1, <2>2, Zenon DEF ScrollFields
<1>5. t = [i \in DOMAIN s |-> t[i]]
  BY <1>3, Zenon
<1>6. AreScrolls(s)
  BY Zenon DEF IsContext
<1>7. \A i \in DOMAIN s : s[i].open \in BOOLEAN
  BY <1>6, Zenon DEF AreScrolls
<1> HIDE DEF s
<1>8. AreScrolls(t) /\ DOMAIN t = DOMAIN s
  BY <1>4, <1>5, <1>6, <1>7, ScrollsMapped, Zenon
<1>9. Remembers(s, t)
  BY <1>4, <1>8, Zenon DEF Remembers
<1>10. z.err \in BOOLEAN /\ (x.err => z.err)
  BY <1>2 DEF IsContext
<1>11. Quiet(x, z)
  BY <1>1, <1>2, <1>8, <1>9, <1>10, AlikeQuiet, Zenon DEF IsContext, s
<1> QED
  BY <1>11, Zenon DEF Quiet, Keeps, Steady

\* Clay_BeginLayout: the arrays start again, the map and the containers stay,
\* and the root is declared.
LEMMA BeginLayoutBegins ==
  ASSUME NEW x, IsContext(x), NEW z, z = BeginLayout(x)
  PROVE  /\ IsContext(z) /\ Remembers(x.scrolls, z.scrolls) /\ Current(z)
         /\ ~z.exceeded => z.len = 1
<1>1. PICK r : r = Reset(x)
  OBVIOUS
<1>2. /\ DOMAIN r = DOMAIN x /\ r.len = 0 /\ r.stack = <<>> /\ r.map = x.map
      /\ r.gen = x.gen + 1 /\ r.exceeded = FALSE /\ r.err = FALSE /\ r.mem = x.mem
      /\ r.scrolls = x.scrolls
  BY <1>1, Zenon DEF Reset, IsContext, ContextFields
<1>3. /\ 0 \in 0 .. Capacity - 1 /\ <<>> \in Seq(Nat) /\ x.gen + 1 \in Nat
      /\ 1 .. 0 = {} /\ 0 + 1 = 1 /\ 1 \in Nat
  BY CapacityAssumption DEF IsContext
<1>4. IsContext(r)
  BY <1>2, <1>3, Zenon DEF IsContext
<1>5. Current(r)
  BY <1>2, <1>3, Zenon DEF Current
<1>6. PICK y : y = Configure(Open(r), Root)
  OBVIOUS
<1>7. Declared(r, y)
  <2>1. PICK s \in BOOLEAN : s = FALSE
    BY Zenon
  <2>2. PICK o : o = Open(r)
    OBVIOUS
  <2>3. o = IF s THEN GetScrollOffset(o) ELSE o
    BY <2>1
  <2>4. y = Configure(o, Root)
    BY <1>6, <2>2, Zenon
  <2> QED
    BY <1>4, <2>2, <2>3, <2>4, BoxDeclares
<1>8. z = [y EXCEPT !.stack = Append(@, 1),
                    !.roots = Append(@, [el |-> 1, clip |-> NoId, z |-> 0,
                                         capture |-> FALSE])]
  BY <1>1, <1>6, Zenon DEF BeginLayout
<1>9. /\ DOMAIN z = DOMAIN y /\ z.len = y.len /\ z.stack = Append(y.stack, 1)
      /\ z.map = y.map /\ z.gen = y.gen /\ z.exceeded = y.exceeded /\ z.err = y.err
      /\ z.mem = y.mem /\ z.scrolls = y.scrolls
  BY <1>7, <1>8, Zenon DEF Declared, IsContext, ContextFields
<1>10. z.stack \in Seq(Nat)
  <2>1. y.stack \in Seq(Nat)
    BY <1>7, Zenon DEF Declared, IsContext
  <2> QED
    BY <1>9, <2>1
<1>11. IsContext(z)
  BY <1>7, <1>9, <1>10, Zenon DEF Declared, IsContext
<1>12. Steady(y, z)
  BY <1>9, <1>11, RemembersSame, Zenon DEF Steady, SameIds
<1>13. Current(z)
  BY <1>5, <1>7, <1>12, SteadyCurrent, Zenon DEF Declared
<1> QED
  BY <1>2, <1>3, <1>7, <1>9, <1>11, <1>13, Zenon DEF Declared

-----------------------------------------------------------------------------
(* The loop of Clay_UpdateScrollContainers *)

\* A set of natural numbers that is not empty has a least member: the first
\* turn of the loop that something is wrong after.
LEMMA LeastMember ==
  ASSUME NEW S \in SUBSET Nat, S # {}
  PROVE  \E m \in S : \A n \in S : m <= n
<1>1. PICK m \in S : \A n \in S : ~ (<<n, m>> \in OpToRel(<, Nat))
  BY NatLessThanWellFounded, WFMin, Zenon
<1>2. ASSUME NEW n \in S, n < m PROVE FALSE
  <2>1. <<n, m>> \in {ss \in Nat \X Nat : ss[1] < ss[2]}
    BY <1>2
  <2>2. <<n, m>> \in OpToRel(<, Nat)
    BY <2>1, Zenon DEF OpToRel
  <2> QED
    BY <1>1, <2>2, Zenon
<1> QED
  BY <1>2

\* f says what the loop has after each of its first m turns.
Turns(f, x, n, m, active, in) ==
  /\ f = [i \in 0 .. n |-> f[i]]
  /\ \A i \in 0 .. m : f[i] = IF i = 0 THEN [scrolls |-> x.scrolls, best |-> 0]
                               ELSE SweepOne(x, f[i - 1], i, active, in)

\* One turn more.
LEMMA TurnsMore ==
  ASSUME NEW x, NEW active, NEW in, NEW n \in Nat, NEW m \in 0 .. n, m < n,
         NEW f, Turns(f, x, n, m, active, in)
  PROVE  \E g : Turns(g, x, n, m + 1, active, in)
<1>1. PICK w : w = SweepOne(x, f[m], m + 1, active, in)
  OBVIOUS
<1>2. PICK g : g = [i \in 0 .. n |-> IF i = m + 1 THEN w ELSE f[i]]
  BY Zenon
<1>3. g = [i \in 0 .. n |-> g[i]]
  BY <1>2
<1>4. ASSUME NEW i \in 0 .. m + 1
      PROVE  g[i] = IF i = 0 THEN [scrolls |-> x.scrolls, best |-> 0]
                    ELSE SweepOne(x, g[i - 1], i, active, in)
  <2>1. CASE i = m + 1
    <3>1. i \in 0 .. n /\ i # 0 /\ i - 1 \in 0 .. n /\ i - 1 = m /\ i - 1 # m + 1
      BY <2>1
    <3>2. g[i] = w /\ g[i - 1] = f[m]
      BY <1>2, <2>1, <3>1
    <3> QED
      BY <1>1, <2>1, <3>1, <3>2, Zenon
  <2>2. CASE i # m + 1
    <3>1. i \in 0 .. m /\ i \in 0 .. n
      BY <2>2
    <3>2. g[i] = f[i]
      BY <1>2, <2>2, <3>1
    <3>3. f[i] = IF i = 0 THEN [scrolls |-> x.scrolls, best |-> 0]
                 ELSE SweepOne(x, f[i - 1], i, active, in)
      BY <3>1, Zenon DEF Turns
    <3>4. i # 0 => g[i - 1] = f[i - 1]
      BY <1>2, <3>1
    <3> QED
      BY <3>2, <3>3, <3>4, Zenon
  <2> QED
    BY <2>1, <2>2
<1> QED
  BY <1>3, <1>4, Zenon DEF Turns

\* The loop comes to its end.
LEMMA SweepEnds ==
  ASSUME NEW x, NEW active, NEW in, Len(x.scrolls) \in Nat
  PROVE  \E f : /\ Turns(f, x, Len(x.scrolls), Len(x.scrolls), active, in)
                /\ Sweep(x, active, in) = f[Len(x.scrolls)]
<1>1. PICK n \in Nat : n = Len(x.scrolls)
  OBVIOUS
<1> DEFINE w0 == [scrolls |-> x.scrolls, best |-> 0]
           Bad == {m \in 0 .. n : ~\E f : Turns(f, x, n, m, active, in)}
<1>2. Bad = {}
  <2> SUFFICES ASSUME Bad # {} PROVE FALSE
    OBVIOUS
  <2>1. PICK m \in Bad : \A k \in Bad : m <= k
    <3>1. Bad \in SUBSET Nat
      OBVIOUS
    <3> HIDE DEF Bad
    <3> QED
      BY <3>1, LeastMember
  <2>2. m \in 0 .. n /\ ~\E f : Turns(f, x, n, m, active, in)
    BY <2>1, Zenon
  <2>3. CASE m = 0
    <3>1. PICK f : f = [i \in 0 .. n |-> w0]
      BY Zenon
    <3>2. f = [i \in 0 .. n |-> f[i]] /\ 0 \in 0 .. n /\ f[0] = w0
      BY <3>1
    <3>3. \A i \in 0 .. 0 : i = 0
      OBVIOUS
    <3>4. Turns(f, x, n, 0, active, in)
      BY <3>2, <3>3, Zenon DEF Turns
    <3> QED
      BY <2>2, <2>3, <3>4, Zenon
  <2>4. CASE m # 0
    <3>1. PICK j \in 0 .. n : m = j + 1 /\ j < n
      <4>1. m - 1 \in 0 .. n /\ m = (m - 1) + 1 /\ m - 1 < n
        BY <2>2, <2>4
      <4> QED
        BY <4>1
    <3>2. j \notin Bad
      <4> HIDE DEF Bad
      <4> QED
        BY <2>1, <3>1
    <3>3. PICK f : Turns(f, x, n, j, active, in)
      BY <3>1, <3>2, Zenon
    <3> HIDE DEF Bad
    <3>4. \E g : Turns(g, x, n, j + 1, active, in)
      BY <3>1, <3>3, TurnsMore, Zenon
    <3> QED
      BY <2>2, <3>1, <3>4, Zenon
  <2> QED
    BY <2>3, <2>4
<1> DEFINE G(f) == f = [i \in 0 .. Len(x.scrolls) |->
                          IF i = 0 THEN [scrolls |-> x.scrolls, best |-> 0]
                          ELSE SweepOne(x, f[i - 1], i, active, in)]
           after == CHOOSE f : G(f)
<1>3. \E f : G(f)
  <2>1. n \in 0 .. n /\ n \notin Bad
    BY <1>2
  <2>2. PICK f : Turns(f, x, n, n, active, in)
    BY <2>1, Zenon
  <2>3. G(f)
    BY <1>1, <2>2, Zenon DEF Turns
  <2> QED
    BY <2>3, Zenon
<1>4. G(after)
  BY <1>3, Zenon
<1>5. Sweep(x, active, in) = after[Len(x.scrolls)]
  BY Zenon DEF Sweep
<1> HIDE DEF after
<1>6. Turns(after, x, Len(x.scrolls), Len(x.scrolls), active, in)
  BY <1>4, Zenon DEF Turns
<1> QED
  BY <1>5, <1>6, Zenon

\* After i turns: every container that was open is there, looked at or open.
Swept(s, w, i) ==
  /\ AreScrolls(w.scrolls) /\ DOMAIN w = {"scrolls", "best"}
  /\ \A k \in DOMAIN s : s[k].open =>
       \E j \in DOMAIN w.scrolls :
         w.scrolls[j].id = s[k].id /\ (j <= i \/ w.scrolls[j].open)

\* One turn of the loop: a container taken out was not open, and the one put in
\* its place is still there.
LEMMA SweepOneKeeps ==
  ASSUME NEW s, NEW x, NEW active, NEW in, NEW w, NEW i \in Nat, i > 0,
         Swept(s, w, i - 1), NEW v, v = SweepOne(x, w, i, active, in)
  PROVE  Swept(s, v, i)
<1>1. PICK q : q = w.scrolls
  OBVIOUS
<1>2. PICK S : q \in Seq(S)
  BY <1>1 DEF Swept, AreScrolls
<1>3. /\ Len(q) \in Nat /\ DOMAIN q = 1 .. Len(q)
      /\ q = [j \in 1 .. Len(q) |-> q[j]]
  BY <1>2
<1>4. AreScrolls(q)
  BY <1>1, Zenon DEF Swept
<1>5. CASE i > Len(q)
  <2>1. v = w
    BY <1>1, <1>5, Zenon DEF SweepOne
  <2>2. \A j \in DOMAIN q : j <= i
    BY <1>3, <1>5
  <2> QED
    BY <1>1, <2>1, <2>2, Zenon DEF Swept
<1>6. CASE ~(i > Len(q)) /\ ~q[i].open
  <2>1. v = [w EXCEPT !.scrolls = RemoveSwapback(@, i)]
    BY <1>1, <1>6, Zenon DEF SweepOne
  <2>2. PICK r : r = RemoveSwapback(q, i)
    OBVIOUS
  <2>3. v.scrolls = r /\ DOMAIN v = {"scrolls", "best"}
    BY <1>1, <2>1, <2>2, Zenon DEF Swept
  <2>4. i \in 1 .. Len(q)
    BY <1>3, <1>6
  <2>5. /\ r \in Seq(S) /\ Len(r) = Len(q) - 1 /\ DOMAIN r = 1 .. Len(q) - 1
        /\ \A j \in 1 .. Len(q) - 1 : r[j] = IF j = i THEN q[Len(q)] ELSE q[j]
    <3>1. PICK e : e = [q EXCEPT ![i] = q[Len(q)]]
      BY Zenon
    <3>2. /\ e \in Seq(S) /\ Len(e) = Len(q)
          /\ \A j \in 1 .. Len(q) : e[j] = IF j = i THEN q[Len(q)] ELSE q[j]
      BY <1>2, <2>4, <3>1
    <3>3. r = SubSeq(e, 1, Len(q) - 1)
      BY <2>2, <3>1, <3>2 DEF RemoveSwapback, Front, Last
    <3> QED
      BY <1>3, <2>4, <3>2, <3>3
  <2>6. AreScrolls(r)
    <3> SUFFICES ASSUME NEW j \in DOMAIN r
                 PROVE  DOMAIN r[j] = ScrollFields /\ r[j].open \in BOOLEAN
      BY <2>5, Zenon DEF AreScrolls
    <3>1. r[j] = q[Len(q)] \/ r[j] = q[j]
      BY <2>5
    <3>2. j \in DOMAIN q /\ Len(q) \in DOMAIN q
      BY <1>3, <2>4, <2>5
    <3> QED
      BY <1>4, <3>1, <3>2, Zenon DEF AreScrolls
  <2>7. ASSUME NEW k \in DOMAIN s, s[k].open
        PROVE  \E j \in DOMAIN r : r[j].id = s[k].id /\ (j <= i \/ r[j].open)
    <3>1. PICK j \in DOMAIN q : q[j].id = s[k].id /\ (j <= i - 1 \/ q[j].open)
      BY <1>1, <2>7, Zenon DEF Swept
    <3>2. j # i
      BY <1>3, <1>6, <3>1
    <3>3. CASE j # Len(q)
      <4>1. j \in DOMAIN r /\ r[j] = q[j]
        BY <1>3, <2>5, <3>1, <3>2, <3>3
      <4>2. j <= i - 1 => j <= i
        BY <1>3, <3>1
      <4> QED
        BY <3>1, <4>1, <4>2, Zenon
    <3>4. CASE j = Len(q)
      <4>1. i \in DOMAIN r /\ r[i] = q[j] /\ i <= i
        BY <1>3, <2>4, <2>5, <3>2, <3>4
      <4> QED
        BY <3>1, <4>1, Zenon
    <3> QED
      BY <3>3, <3>4
  <2> QED
    BY <2>3, <2>6, <2>7, Zenon DEF Swept
<1>7. CASE ~(i > Len(q)) /\ q[i].open
  <2>1. PICK n : n = Moved(q[i], active, in)
    OBVIOUS
  <2>2. i \in DOMAIN q
    BY <1>3, <1>7
  <2>3. DOMAIN n = ScrollFields /\ n.open = FALSE /\ n.id = q[i].id
    BY <1>4, <2>1, <2>2, Zenon DEF Moved, AreScrolls, ScrollFields
  <2>4. PICK r : r = [q EXCEPT ![i] = n]
    BY Zenon
  <2>5. v.scrolls = r /\ DOMAIN v = {"scrolls", "best"}
    <3>1. PICK b : v = [scrolls |-> r, best |-> b]
      BY <1>1, <1>7, <2>1, <2>4, Zenon DEF SweepOne
    <3> QED
      BY <3>1
  <2>6. r = [j \in DOMAIN q |-> r[j]]
    BY <2>4, Zenon
  <2>7. \A j \in DOMAIN q : r[j] = IF j = i THEN n ELSE q[j]
    BY <2>4, Zenon
  <2>8. \A j \in DOMAIN q : DOMAIN r[j] = ScrollFields /\ r[j].open \in BOOLEAN
    BY <1>4, <2>3, <2>7, Zenon DEF AreScrolls
  <2>9. AreScrolls(r) /\ DOMAIN r = DOMAIN q
    BY <1>4, <2>6, <2>8, ScrollsMapped, Zenon
  <2>10. ASSUME NEW k \in DOMAIN s, s[k].open
         PROVE  \E j \in DOMAIN r : r[j].id = s[k].id /\ (j <= i \/ r[j].open)
    <3>1. PICK j \in DOMAIN q : q[j].id = s[k].id /\ (j <= i - 1 \/ q[j].open)
      BY <1>1, <2>10, Zenon DEF Swept
    <3>2. j = i \/ j <= i - 1 => j <= i
      BY <1>3, <3>1
    <3> QED
      BY <2>3, <2>7, <2>9, <3>1, <3>2, Zenon
  <2> QED
    BY <2>5, <2>9, <2>10, Zenon DEF Swept
<1> QED
  BY <1>5, <1>6, <1>7

\* The whole loop: no container that was open is taken out.
LEMMA SweepKeeps ==
  ASSUME NEW x, AreScrolls(x.scrolls), NEW active, NEW in,
         NEW w, w = Sweep(x, active, in)
  PROVE  /\ AreScrolls(w.scrolls)
         /\ \A k \in DOMAIN x.scrolls : x.scrolls[k].open =>
              \E j \in DOMAIN w.scrolls : w.scrolls[j].id = x.scrolls[k].id
<1>1. PICK S : x.scrolls \in Seq(S)
  BY DEF AreScrolls
<1>2. PICK n \in Nat : n = Len(x.scrolls) /\ DOMAIN x.scrolls = 1 .. n
  BY <1>1
<1>3. PICK f : /\ Turns(f, x, n, n, active, in)
               /\ Sweep(x, active, in) = f[n]
  BY <1>2, SweepEnds, Zenon
<1> DEFINE s == x.scrolls
           Bad == {m \in 0 .. n : ~Swept(s, f[m], m)}
<1>4. Bad = {}
  <2> SUFFICES ASSUME Bad # {} PROVE FALSE
    OBVIOUS
  <2>1. PICK m \in Bad : \A k \in Bad : m <= k
    <3>1. Bad \in SUBSET Nat
      OBVIOUS
    <3> HIDE DEF Bad
    <3> QED
      BY <3>1, LeastMember
  <2>2. m \in 0 .. n /\ ~Swept(s, f[m], m)
    BY <2>1, Zenon
  <2>3. CASE m = 0
    <3>1. f[0] = [scrolls |-> s, best |-> 0]
      BY <1>3, <2>2, <2>3, Zenon DEF Turns
    <3>2. f[0].scrolls = s /\ DOMAIN f[0] = {"scrolls", "best"}
      BY <3>1
    <3>3. Swept(s, f[0], 0)
      BY <3>2, Zenon DEF Swept
    <3> QED
      BY <2>2, <2>3, <3>3, Zenon
  <2>4. CASE m # 0
    <3>1. PICK j \in 0 .. n : m = j + 1 /\ j = m - 1
      BY <2>2, <2>4
    <3>2. j \notin Bad
      <4> HIDE DEF Bad
      <4> QED
        BY <2>1, <2>2, <3>1
    <3>3. Swept(s, f[j], m - 1)
      BY <3>1, <3>2, Zenon
    <3>4. f[m] = SweepOne(x, f[j], m, active, in)
      BY <1>3, <2>2, <2>4, <3>1, Zenon DEF Turns
    <3>5. m \in Nat /\ m > 0
      BY <2>2, <2>4
    <3> HIDE DEF Bad, s
    <3>6. Swept(s, f[m], m)
      BY <3>3, <3>4, <3>5, SweepOneKeeps, Zenon
    <3> QED
      BY <2>2, <3>6, Zenon
  <2> QED
    BY <2>3, <2>4
<1>5. Swept(s, f[n], n)
  <2>1. n \in 0 .. n /\ n \notin Bad
    BY <1>4
  <2> QED
    BY <2>1, Zenon
<1>6. w = f[n]
  BY <1>3
<1> QED
  BY <1>5, <1>6, Zenon DEF Swept

-----------------------------------------------------------------------------
(* The invariant *)

\* In a frame nothing was lost without exceeded being set, every element has
\* its name, and after one that was ended its answer tells.
Inv ==
  /\ IsContext(c) /\ (\E S : plan \in Seq(S))
  /\ phase = "frame" =>
       /\ whole = FALSE
       /\ ~c.exceeded => c.len = Len(plan)
       /\ Current(c)
  /\ phase # "frame" /\ whole =>
       /\ answer = "ok" => ~c.exceeded
       /\ ~c.exceeded => c.len = Len(plan)

\* A context no frame was begun in.
LEMMA InitInv == Init => Inv
<1> SUFFICES ASSUME Init PROVE Inv
  OBVIOUS
<1>1. /\ DOMAIN c = ContextFields /\ c.mem = [e \in 1 .. Capacity |-> Blank]
      /\ c.len = 0 /\ c.stack = <<>> /\ c.map = [id \in {} |-> 0] /\ c.gen = 0
      /\ c.scrolls = <<>> /\ c.exceeded = FALSE /\ c.err = FALSE
  BY DEF Init, Fresh, ContextFields
<1>2. DOMAIN Blank = ElementFields
  BY DEF Blank, ElementFields
<1>3. AreElements(c.mem)
  BY <1>1, <1>2, Zenon DEF AreElements
<1>4. IsMap(c.map)
  BY <1>1, FS_EmptySet DEF IsMap
<1>5. AreScrolls(c.scrolls)
  BY <1>1 DEF AreScrolls
<1>6. 0 \in 0 .. Capacity - 1 /\ <<>> \in Seq(Nat) /\ 0 \in Nat
  BY CapacityAssumption
<1>7. IsContext(c)
  BY <1>1, <1>3, <1>4, <1>5, <1>6, Zenon DEF IsContext
<1>8. phase = "idle" /\ whole = FALSE /\ plan = <<>>
  BY DEF Init
<1>9. plan \in Seq(Nat)
  BY <1>8
<1> QED
  BY <1>7, <1>8, <1>9, Zenon DEF Inv

\* One declaration more in the plan.
LEMMA PlanGrows ==
  ASSUME NEW p, \E S : p \in Seq(S), NEW e
  PROVE  (\E S : Append(p, e) \in Seq(S)) /\ Len(Append(p, e)) = Len(p) + 1
<1>1. PICK S : p \in Seq(S)
  OBVIOUS
<1>2. p \in Seq(S \cup {e})
  BY <1>1
<1>3. Append(p, e) \in Seq(S \cup {e}) /\ Len(Append(p, e)) = Len(p) + 1
  BY <1>2
<1> QED
  BY <1>3, Zenon

\* What a call keeps of the open containers.
Kept == Remembers(c.scrolls, c'.scrolls)

\* clay_begin.
LEMMA BeginInv == Inv /\ Begin => Inv' /\ Kept
<1> SUFFICES ASSUME Inv, Begin PROVE Inv' /\ Kept
  OBVIOUS
<1>1. IsContext(c) /\ c' = BeginLayout(c)
  BY Zenon DEF Inv, Begin
<1>2. /\ IsContext(c') /\ Kept /\ Current(c')
      /\ ~c'.exceeded => c'.len = 1
  BY <1>1, BeginLayoutBegins, Zenon DEF Kept
<1>3. phase' = "frame" /\ whole' = FALSE
  BY DEF Begin
<1>4. PICK e : plan' = <<e>>
  BY DEF Begin
<1>5. plan' \in Seq({e}) /\ Len(plan') = 1
  BY <1>4
<1> QED
  BY <1>2, <1>3, <1>5 DEF Inv

\* A call that declares an element.
LEMMA DeclareInv ==
  ASSUME Inv, phase = "frame", phase' = phase, whole' = whole, Declared(c, c'),
         NEW e, plan' = Append(plan, e)
  PROVE  Inv' /\ Kept
<1>1. (\E S : plan' \in Seq(S)) /\ Len(plan') = Len(plan) + 1
  BY PlanGrows, Zenon DEF Inv
<1>2. IsContext(c') /\ Kept
  BY Zenon DEF Declared, Kept
<1>3. ~c'.exceeded => c'.len = Len(plan')
  BY <1>1, Zenon DEF Declared, Inv
<1>4. Current(c') /\ whole' = FALSE /\ phase' = "frame"
  BY Zenon DEF Declared, Inv
<1> QED
  BY <1>1, <1>2, <1>3, <1>4, Zenon DEF Inv

\* box/3 of the tree.
LEMMA OpenBoxInv ==
  ASSUME Inv, NEW d, OpenBox(d)
  PROVE  Inv' /\ Kept
<1>1. PICK y : y = Open(c)
  OBVIOUS
<1>2. PICK s \in BOOLEAN : s <=> d.scroll
  BY Zenon
<1>3. PICK g : g = IF s THEN GetScrollOffset(y) ELSE y
  OBVIOUS
<1>4. c' = Configure(g, d)
  BY <1>1, <1>2, <1>3, Zenon DEF OpenBox
<1>5. IsContext(c)
  BY Zenon DEF Inv
<1>6. Declared(c, c')
  BY <1>1, <1>3, <1>4, <1>5, BoxDeclares
<1>7. PICK e : plan' = Append(plan, e)
  BY Zenon DEF OpenBox
<1>8. phase = "frame" /\ phase' = phase /\ whole' = whole
  BY Zenon DEF OpenBox, InFrame
<1> QED
  BY <1>6, <1>7, <1>8, DeclareInv, Zenon

\* clay_text.
LEMMA AddTextInv == Inv /\ AddText => Inv' /\ Kept
<1> SUFFICES ASSUME Inv, AddText PROVE Inv' /\ Kept
  OBVIOUS
<1>1. IsContext(c) /\ c' = OpenText(c)
  BY Zenon DEF Inv, AddText
<1>2. Declared(c, c')
  BY <1>1, TextDeclares, Zenon
<1>3. PICK e : plan' = Append(plan, e)
  BY Zenon DEF AddText
<1>4. phase = "frame" /\ phase' = phase /\ whole' = whole
  BY Zenon DEF AddText, InFrame
<1> QED
  BY <1>2, <1>3, <1>4, DeclareInv, Zenon

\* clay_close.
LEMMA CloseBoxInv == Inv /\ CloseBox => Inv' /\ Kept
<1> SUFFICES ASSUME Inv, CloseBox PROVE Inv' /\ Kept
  OBVIOUS
<1>1. IsContext(c) /\ c' = Close(c) /\ Current(c)
  BY Zenon DEF Inv, CloseBox, InFrame
<1>2. Steady(c, c')
  BY <1>1, CloseSteady, Zenon
<1>3. Current(c')
  BY <1>1, <1>2, SteadyCurrent, Zenon
<1>4. phase = "frame" /\ phase' = phase /\ whole' = whole /\ plan' = plan
  BY Zenon DEF CloseBox, InFrame
<1> QED
  BY <1>2, <1>3, <1>4, Zenon DEF Inv, Steady, Kept

\* clay_end.
LEMMA EndInv == Inv /\ End => Inv' /\ Kept
<1> SUFFICES ASSUME Inv, End PROVE Inv' /\ Kept
  OBVIOUS
<1>1. PICK x : x = Close(c)
  OBVIOUS
<1>2. IsContext(c) /\ Steady(c, x)
  BY <1>1, CloseSteady, Zenon DEF Inv
<1>3. /\ answer' = Answer(c')
      /\ IF x.exceeded THEN c' = x
         ELSE \E room \in {0, Far}, crowded \in BOOLEAN : c' = FinalLayout(x, room, crowded)
  BY <1>1, Zenon DEF End
<1>4. /\ IsContext(c') /\ Remembers(x.scrolls, c'.scrolls)
      /\ c'.len = x.len /\ c'.exceeded = x.exceeded
  <2>1. CASE x.exceeded
    BY <1>2, <1>3, <2>1, RemembersSame, Zenon DEF Steady
  <2>2. CASE ~x.exceeded
    <3>1. PICK room \in {0, Far}, crowded \in BOOLEAN : c' = FinalLayout(x, room, crowded)
      BY <1>3, <2>2, Zenon
    <3> QED
      BY <1>2, <3>1, FinalLayoutSteady, Zenon DEF Steady
  <2> QED
    BY <2>1, <2>2
<1>5. Kept
  BY <1>2, <1>4, RemembersTrans, Zenon DEF Kept, Steady
<1>6. answer' = "ok" => ~c'.exceeded
  <2>1. c'.exceeded \in BOOLEAN /\ c'.err \in BOOLEAN
    BY <1>4, Zenon DEF IsContext
  <2>2. CASE c'.exceeded
    BY <1>3, <2>1, <2>2 DEF Answer
  <2> QED
    BY <2>1, <2>2
<1>7. ~c'.exceeded => c'.len = Len(plan)
  BY <1>2, <1>4, Zenon DEF Inv, Steady, End, InFrame
<1>8. phase' = "idle" /\ plan' = plan
  BY Zenon DEF End
<1> QED
  BY <1>4, <1>5, <1>6, <1>7, <1>8 DEF Inv

\* clay_abort.
LEMMA AbortInv == Inv /\ Abort => Inv' /\ Kept
<1> SUFFICES ASSUME Inv, Abort PROVE Inv' /\ Kept
  OBVIOUS
<1>1. /\ c' = c /\ plan' = plan /\ phase' = "idle" /\ whole' = FALSE
  BY Zenon DEF Abort, Inv, InFrame
<1> QED
  BY <1>1, RemembersSame DEF Inv, Kept

\* A call between the frames that changes neither the elements nor exceeded.
LEMMA BetweenInv ==
  ASSUME Inv, phase # "frame", phase' # "frame",
         whole' = whole, plan' = plan, answer' = answer,
         IsContext(c'), c'.len = c.len, c'.exceeded = c.exceeded
  PROVE  Inv'
  BY DEF Inv

\* clay_pointer.
LEMMA SetPointerInv ==
  ASSUME Inv, NEW hit, NEW down, SetPointer(hit, down)
  PROVE  Inv' /\ Kept
<1>1. /\ phase = "idle" /\ phase' = "pointed" /\ whole' = whole /\ plan' = plan
      /\ answer' = answer
  BY Zenon DEF SetPointer
<1>2. c' = c \/ c' = [c EXCEPT !.over = PointerOver(c, hit), !.down = down]
  BY Zenon DEF SetPointer
<1>3. Alike(c, c') /\ c'.err = c.err /\ c'.scrolls = c.scrolls /\ c'.mem = c.mem
  BY <1>2, Zenon DEF Inv, Alike, IsContext, ContextFields
<1>4. Quiet(c, c')
  BY <1>3, AlikeQuiet, RemembersSame, Zenon DEF Inv, IsContext
<1> QED
  BY <1>1, <1>4, BetweenInv DEF Quiet, Keeps, Kept

\* No container that was open is gone.
StillThere ==
  \A k \in DOMAIN c.scrolls : c.scrolls[k].open =>
    \E j \in DOMAIN c'.scrolls : c'.scrolls[j].id = c.scrolls[k].id

\* clay_scroll.
LEMMA UpdateScrollInv ==
  ASSUME Inv, NEW in, UpdateScroll(in)
  PROVE  Inv' /\ StillThere /\ phase' # "frame"
<1>1. /\ phase = "pointed" /\ phase' = "scrolled" /\ whole' = whole /\ plan' = plan
      /\ answer' = answer
  BY Zenon DEF UpdateScroll
<1>2. PICK active : active = (in.drag /\ c.down)
  OBVIOUS
<1>3. PICK w : w = Sweep(c, active, in)
  OBVIOUS
<1>4. \/ c' = c
      \/ c' = [c EXCEPT !.scrolls = w.scrolls]
      \/ \E b : c' = [c EXCEPT !.scrolls = [w.scrolls EXCEPT ![b] = Scrolled(@, active, in)]]
  BY <1>2, <1>3, Zenon DEF UpdateScroll
<1>5. IsContext(c) /\ AreScrolls(c.scrolls)
  BY Zenon DEF Inv, IsContext
<1>6. /\ AreScrolls(w.scrolls)
      /\ \A k \in DOMAIN c.scrolls : c.scrolls[k].open =>
           \E j \in DOMAIN w.scrolls : w.scrolls[j].id = c.scrolls[k].id
  BY <1>3, <1>5, SweepKeeps
<1> DEFINE With(b) == [w.scrolls EXCEPT ![b] = Scrolled(@, active, in)]
<1>7. ASSUME NEW b, NEW t, t = With(b)
      PROVE  /\ AreScrolls(t) /\ DOMAIN t = DOMAIN w.scrolls
             /\ \A j \in DOMAIN t : t[j].id = w.scrolls[j].id
  <2>1. PICK q : q = w.scrolls /\ AreScrolls(q)
    BY <1>6
  <2>2. t = [j \in DOMAIN q |-> t[j]]
    BY <1>7, <2>1, Zenon
  <2>3. ASSUME NEW j \in DOMAIN q
        PROVE  DOMAIN t[j] = ScrollFields /\ t[j].open \in BOOLEAN /\ t[j].id = q[j].id
    <3>1. t[j] = q[j] \/ t[j] = Scrolled(q[j], active, in)
      BY <1>7, <2>1, <2>3, Zenon
    <3>2. DOMAIN q[j] = ScrollFields /\ q[j].open \in BOOLEAN
      BY <2>1, <2>3, Zenon DEF AreScrolls
    <3> QED
      BY <3>1, <3>2, Zenon DEF Scrolled, ScrollFields
  <2>4. AreScrolls(t) /\ DOMAIN t = DOMAIN q
    BY <2>1, <2>2, <2>3, ScrollsMapped, Zenon
  <2> QED
    BY <2>1, <2>3, <2>4, Zenon
<1>8. CASE c' = c
  BY <1>1, <1>5, <1>8, BetweenInv, Zenon DEF StillThere
<1>9. ASSUME NEW t, AreScrolls(t), c' = [c EXCEPT !.scrolls = t],
             \A k \in DOMAIN c.scrolls : c.scrolls[k].open =>
               \E j \in DOMAIN t : t[j].id = c.scrolls[k].id
      PROVE  Inv' /\ StillThere /\ phase' # "frame"
  <2>1. /\ DOMAIN c' = DOMAIN c /\ c'.len = c.len /\ c'.stack = c.stack
        /\ c'.map = c.map /\ c'.gen = c.gen /\ c'.exceeded = c.exceeded
        /\ c'.err = c.err /\ c'.mem = c.mem /\ c'.scrolls = t
    BY <1>5, <1>9, Zenon DEF IsContext, ContextFields
  <2>2. IsContext(c')
    BY <1>5, <1>9, <2>1, Zenon DEF IsContext
  <2>3. phase # "frame" /\ phase' # "frame"
    BY <1>1
  <2>4. Inv'
    BY <1>1, <2>1, <2>2, <2>3, BetweenInv
  <2>5. StillThere
    <3>1. c'.scrolls = t
      BY <2>1
    <3>2. \A k \in DOMAIN c.scrolls : c.scrolls[k].open =>
            \E j \in DOMAIN t : t[j].id = c.scrolls[k].id
      BY <1>9
    <3> QED
      BY <3>1, <3>2, Zenon DEF StillThere
  <2> QED
    BY <2>3, <2>4, <2>5
<1>10. CASE c' = [c EXCEPT !.scrolls = w.scrolls]
  BY <1>6, <1>9, <1>10, Zenon
<1>11. CASE \E b : c' = [c EXCEPT !.scrolls = [w.scrolls EXCEPT ![b] = Scrolled(@, active, in)]]
  <2>1. PICK b : c' = [c EXCEPT !.scrolls = [w.scrolls EXCEPT ![b] = Scrolled(@, active, in)]]
    BY <1>11, Zenon
  <2>2. PICK t : t = With(b)
    BY Zenon
  <2>4. c' = [c EXCEPT !.scrolls = t]
    BY <2>1, <2>2, Zenon
  <2> HIDE DEF With
  <2>3. /\ AreScrolls(t) /\ DOMAIN t = DOMAIN w.scrolls
        /\ \A j \in DOMAIN t : t[j].id = w.scrolls[j].id
    BY <1>7, <2>2, Zenon
  <2>5. \A k \in DOMAIN c.scrolls : c.scrolls[k].open =>
          \E j \in DOMAIN t : t[j].id = c.scrolls[k].id
    BY <1>6, <2>3, Zenon
  <2> QED
    BY <1>9, <2>3, <2>4, <2>5, Zenon
<1> QED
  BY <1>4, <1>8, <1>10, <1>11, Zenon

\* Every step keeps the invariant, and what it leaves of the open containers.
LEMMA NextInv == Inv /\ [Next]_vars => Inv' /\ (Kept \/ (StillThere /\ phase' # "frame"))
<1> SUFFICES ASSUME Inv, [Next]_vars
             PROVE  Inv' /\ (Kept \/ (StillThere /\ phase' # "frame"))
  OBVIOUS
<1>1. CASE UNCHANGED vars
  <2>1. c' = c /\ phase' = phase /\ answer' = answer /\ whole' = whole /\ plan' = plan
    BY <1>1, Zenon DEF vars
  <2> QED
    BY <2>1, RemembersSame DEF Inv, Kept
<1>2. CASE Begin
  BY <1>2, BeginInv
<1>3. CASE AddText
  BY <1>3, AddTextInv
<1>4. CASE CloseBox
  BY <1>4, CloseBoxInv
<1>5. CASE End
  BY <1>5, EndInv
<1>6. CASE Abort
  BY <1>6, AbortInv
<1>7. ASSUME NEW d \in Decls, OpenBox(d)
      PROVE  Inv' /\ Kept
  BY <1>7, OpenBoxInv
<1>8. ASSUME NEW hit \in Places, NEW down \in BOOLEAN, SetPointer(hit, down)
      PROVE  Inv' /\ Kept
  BY <1>8, SetPointerInv
<1>9. ASSUME NEW in \in Inputs, UpdateScroll(in)
      PROVE  Inv' /\ StillThere /\ phase' # "frame"
  BY <1>9, UpdateScrollInv
<1> QED
  BY <1>1, <1>2, <1>3, <1>4, <1>5, <1>6, <1>7, <1>8, <1>9, Zenon DEF Next

\* Inv is an invariant of the context and the calls on it.
THEOREM InvHolds == Spec => []Inv
  BY InitInv, NextInv, PTL DEF Spec

\* For every capacity: a frame that lost an element to it never answers like
\* one that lost none (Clay__OpenElement's guard, exceeded, clay_end).
THEOREM LossIsToldHolds == Spec => []LossIsTold
<1>1. Inv => LossIsTold
  <2> SUFFICES ASSUME Inv, phase # "frame", whole, Len(plan) > c.len, answer = "ok"
               PROVE  FALSE
    BY DEF LossIsTold
  <2>1. ~c.exceeded
    BY DEF Inv
  <2>2. c.len = Len(plan) /\ c.len \in Nat
    BY <2>1 DEF Inv, IsContext
  <2> QED
    BY <2>2
<1> QED
  BY <1>1, InvHolds, PTL

\* For every capacity, any declarations and any number of frames: while the map
\* has room and no error was reported, AddHashMapItem leaves every id of the
\* frame at the element that carries it.
THEOREM MapCurrentHolds == Spec => []MapCurrent
<1>1. Inv => MapCurrent
  BY Zenon DEF Inv, MapCurrent, Current, Room, Named, Found
<1> QED
  BY <1>1, InvHolds, PTL

\* For every capacity, any declarations and inputs: the container of a declared
\* box survives every call, the swap-back removal of Clay_UpdateScrollContainers
\* included, and no call of a frame moves it.
THEOREM ScrollRememberedHolds == Spec => ScrollRemembered
<1>1. ASSUME Inv, [Next]_vars
      PROVE  [\A s \in Range(c.scrolls) :
                s.open =>
                  \E t \in Range(c'.scrolls) :
                    t.id = s.id /\ (phase' = "frame" => t.pos = s.pos)]_vars
  <2>1. Kept \/ (StillThere /\ phase' # "frame")
    BY <1>1, NextInv
  <2>2. ASSUME NEW s \in Range(c.scrolls), s.open
        PROVE  \E t \in Range(c'.scrolls) :
                 t.id = s.id /\ (phase' = "frame" => t.pos = s.pos)
    <3>1. PICK k \in DOMAIN c.scrolls : s = c.scrolls[k]
      BY Zenon DEF Range
    <3>2. PICK j \in DOMAIN c'.scrolls :
            /\ c'.scrolls[j].id = s.id
            /\ phase' = "frame" => c'.scrolls[j].pos = s.pos
      BY <2>1, <2>2, <3>1, Zenon DEF Kept, Remembers, StillThere
    <3>3. c'.scrolls[j] \in Range(c'.scrolls)
      BY Zenon DEF Range
    <3> QED
      BY <3>2, <3>3, Zenon
  <2> QED
    BY <2>2, Zenon
<1> QED
  BY <1>1, InvHolds, PTL DEF Spec, ScrollRemembered

=============================================================================
