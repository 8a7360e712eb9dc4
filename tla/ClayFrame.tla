----------------------------- MODULE ClayFrame -----------------------------
(***************************************************************************)
(* One layout context of modules/clay, over many frames: begin, the        *)
(* elements opened, configured and closed, end or abort, and between the   *)
(* frames the pointer and the scroll wheel (clay.h through the predicates  *)
(* of clay.cicili).                                                        *)
(*                                                                         *)
(* The frame's arrays are carved from the same arena every frame, so an    *)
(* element is its index, the same address in every frame, and what stands  *)
(* at an index is what was last written there.  Geometry is data: where    *)
(* the pointer is, what it covers, and how much a scroll box overflows are *)
(* chosen freely.  A configuration other than floating, clip and text      *)
(* (colours, images, borders, sizes) changes no state the model keeps.     *)
(***************************************************************************)
EXTENDS Integers, FiniteSets, SequencesExt, FiniteSetsExt

CONSTANTS
  Capacity,   \* maxElementCount: the length of the arrays of the frame
  Decls,      \* the element declarations the program makes
  Zs,         \* the z indexes they use
  Far,        \* the furthest a box scrolls
  MaxScrolls, \* how many scroll containers there is room for (10)
  Inputs,     \* what clay_scroll is told
  MaxFrames,  \* bound: frames begun
  MaxMade     \* bound: elements declared in all frames together

ASSUME CapacityAssumption == Capacity \in Nat /\ Capacity > 1
ASSUME MaxScrollsAssumption == MaxScrolls \in Nat

VARIABLES
  c,       \* the Clay_Context
  phase,   \* "frame" from clay_begin to clay_end or clay_abort, then "idle";
           \* "pointed" and "scrolled" after the clay_pointer and the
           \* clay_scroll that clay_ray_input makes before a frame
  answer,  \* what the last clay_end answered
  fault,   \* the null pointer a call went through, if one did
  whole,   \* the last frame was ended, not given up
  plan,    \* the elements the program declared this frame, in order: the
           \* place in plan of the one it was declared inside, and how
  here,    \* the elements of plan that are still open
  made     \* how many elements were declared so far

vars == <<c, phase, answer, fault, whole, plan, here, made>>

NoId == <<>>
RootId == <<"root">>

\* The declaration of the root container and of a text.
Root == [id |-> RootId, clip |-> FALSE, scroll |-> FALSE, at |-> "none",
         to |-> NoId, pin |-> FALSE, z |-> 0, capture |-> FALSE]
Text == [Root EXCEPT !.id = NoId, !.at = "text"]

Blank == [id |-> NoId, n |-> 0, kids |-> <<>>, closed |-> FALSE,
          cs |-> 1, cl |-> 0, offset |-> 0]

-----------------------------------------------------------------------------
(* The open element and its configurations *)

OpenElement(x) == Last(x.stack)
ParentElement(x) == x.stack[Len(x.stack) - 1]

\* A slice of the configurations; what stands past their array is no
\* configuration.
Configs(x, e) ==
  [i \in 1 .. x.mem[e].cl |->
     LET k == x.mem[e].cs + i - 1 IN IF k <= Capacity THEN x.cfg[k] ELSE "none"]

HasConfig(x, e, t) == Contains(Configs(x, e), t)

\* Mutant of AddConfig: what does not fit is dropped without a word.
AddConfigQuietly(x, t) ==
  IF x.cfgLen = Capacity THEN x
  ELSE [x EXCEPT !.cfgLen = @ + 1, !.cfg[x.cfgLen + 1] = t]

\* Clay__ElementConfigArray_Add: a full array reports an error.
AddConfig(x, t) ==
  IF x.cfgLen = Capacity THEN [x EXCEPT !.err = TRUE]
  ELSE [x EXCEPT !.cfgLen = @ + 1, !.cfg[x.cfgLen + 1] = t]

\* The element counts the configuration whether it fitted or not.
AttachConfig(x, t) ==
  IF x.exceeded THEN x ELSE AddConfig([x EXCEPT !.mem[OpenElement(x)].cl = @ + 1], t)

\* An array of the frame is added to; a full one is left as it is.
Added(s, v) == IF Len(s) = Capacity THEN s ELSE Append(s, v)

InnerClip(x) == IF x.clips = <<>> THEN NoId ELSE Last(x.clips)

-----------------------------------------------------------------------------
(* The map from ids to elements, which outlives the frame *)

Found(x, id) == id \in DOMAIN x.map

PutItem(m, id, item) == [k \in DOMAIN m \cup {id} |-> IF k = id THEN item ELSE m[k]]

\* Mutant of AddHashMapItem: an item of an earlier frame keeps its element.
AddHashMapItemStale(x, id, e, alias) ==
  IF Cardinality(DOMAIN x.map) = Capacity - 1 THEN x
  ELSE IF Found(x, id) /\ x.map[id].gen > x.gen
         THEN [x EXCEPT !.err = TRUE]
         ELSE IF Found(x, id)
                THEN [x EXCEPT !.map[id].gen = x.gen + 1, !.map[id].alias = alias]
         ELSE [x EXCEPT !.map = PutItem(@, id, [el |-> e, gen |-> x.gen + 1,
                                                alias |-> alias])]

AddHashMapItem(x, id, e, alias) ==
  IF Cardinality(DOMAIN x.map) = Capacity - 1 THEN x
  ELSE IF Found(x, id) /\ x.map[id].gen > x.gen
         THEN [x EXCEPT !.err = TRUE]
         ELSE [x EXCEPT !.map = PutItem(@, id, [el |-> e, gen |-> x.gen + 1,
                                                alias |-> alias])]

\* The id of an element with none: its place among its parent's children.
AnonymousId(x, parent) == x.mem[parent].id \o <<ToString(x.mem[parent].n)>>

GenerateId(x) ==
  LET id == AnonymousId(x, ParentElement(x))
  IN  AddHashMapItem([x EXCEPT !.mem[OpenElement(x)].id = id],
                     id, OpenElement(x), NoId)

AttachId(x, id) ==
  IF x.exceeded THEN x
  ELSE AddHashMapItem([x EXCEPT !.mem[OpenElement(x)].id = id],
                      id, OpenElement(x), x.mem[OpenElement(x)].id)

-----------------------------------------------------------------------------
(* Opening *)

Full(x) == x.len = Capacity - 1 \/ x.exceeded

NewElement(x, el) ==
  [x EXCEPT !.len = @ + 1, !.mem[x.len + 1] = el,
            !.clipOf[x.len + 1] = InnerClip(x)]

Open(x) ==
  IF Full(x) THEN [x EXCEPT !.exceeded = TRUE]
  ELSE [NewElement(x, Blank) EXCEPT !.stack = Append(@, x.len + 1)]

OpenText(x) ==
  IF Full(x) THEN [x EXCEPT !.exceeded = TRUE]
  ELSE LET p  == OpenElement(x)
           e  == x.len + 1
           id == AnonymousId(x, p)
           y  == NewElement(x, [Blank EXCEPT !.id = id, !.cs = x.cfgLen + 1,
                                             !.cl = 1])
       IN  AddConfig([AddHashMapItem(y, id, e, NoId)
                        EXCEPT !.buf = Append(@, e), !.mem[p].n = @ + 1], "text")

-----------------------------------------------------------------------------
(* Configuring the open element *)

\* Clay_GetScrollOffset, which the program asks while the element is open and
\* not yet configured: the position of the first container at its address.
GetScrollOffset(x) ==
  IF x.exceeded THEN x
  ELSE LET e == OpenElement(x)
           y == IF x.mem[e].id = NoId THEN GenerateId(x) ELSE x
           at == SelectSeq(y.scrolls, LAMBDA s : s.el = e)
       IN  [y EXCEPT !.mem[e].offset = IF at = <<>> THEN 0 ELSE at[1].pos]

\* The clip a floating element is drawn in.
FloatClip(x, d) ==
  CASE ~d.pin -> NoId
    [] d.at = "parent" -> InnerClip(x)
    [] d.at = "id" /\ Found(x, d.to) -> x.clipOf[x.map[d.to].el]
    [] OTHER -> NoId

ConfigureFloat(x, d) ==
  IF d.at = "none" THEN x
  ELSE LET e    == OpenElement(x)
           clip == FloatClip(x, d)
           y    == [x EXCEPT
                      !.err = \/ @ \/ (d.at = "id" /\ ~Found(x, d.to))
                              \/ Capacity \in {Len(x.clips), Len(x.roots)},
                      !.clipOf[e] = clip,
                      !.clips = Added(@, clip),
                      !.roots = Added(@, [el |-> e, clip |-> clip, z |-> d.z,
                                          capture |-> d.capture])]
       IN  AttachConfig(y, "float")

FloatId(x, d) == IF d.at # "none" /\ d.id = NoId
                   THEN <<"float", ToString(Len(x.roots))>> ELSE d.id

ConfigureId(x, id) ==
  CASE id # NoId -> AttachId(x, id)
    [] id = NoId /\ x.mem[OpenElement(x)].id = NoId -> GenerateId(x)
    [] OTHER -> x

NewScroll(id, e) == [id |-> id, el |-> e, open |-> TRUE, pos |-> 0, room |-> 0,
                     drag |-> FALSE, mom |-> FALSE]

HasScroll(scrolls, id) == \E i \in DOMAIN scrolls : scrolls[i].id = id

\* The container of the element's id, or a new one where there is room.
OpenScroll(scrolls, id, e) ==
  IF HasScroll(scrolls, id)
    THEN [i \in DOMAIN scrolls |->
            IF scrolls[i].id = id
              THEN [scrolls[i] EXCEPT !.el = e, !.open = TRUE]
              ELSE scrolls[i]]
    ELSE IF Len(scrolls) = MaxScrolls THEN scrolls ELSE Append(scrolls, NewScroll(id, e))

ConfigureClip(x, d) ==
  IF ~d.clip THEN x
  ELSE LET y == AttachConfig(x, "clip")
           e == OpenElement(y)
           id == y.mem[e].id
       IN  [y EXCEPT !.err = \/ @ \/ Len(y.clips) = Capacity
                             \/ Len(y.scrolls) = MaxScrolls /\ ~HasScroll(y.scrolls, id),
                     !.clips = Added(@, id),
                     !.scrolls = OpenScroll(@, id, e)]

Configure(x, d) ==
  LET y == [x EXCEPT !.mem[OpenElement(x)].cs = x.cfgLen + 1]
  IN  ConfigureClip(ConfigureId(ConfigureFloat(y, d), FloatId(x, d)), d)

-----------------------------------------------------------------------------
(* Closing: the clips go, the children are attached, the parent is told *)

\* Mutant of ClipsClosed: a floating clip box is popped once.
ClipsClosedOnce(cfgs) ==
  IF Contains(cfgs, "clip") \/ Contains(cfgs, "float") THEN 1 ELSE 0

\* How many entries the walk over the configurations pops: it stops at a clip.
ClipsClosed(cfgs) ==
  LET clip == SelectInSeq(cfgs, LAMBDA t : t = "clip")
      upto == IF clip = 0 THEN cfgs ELSE SubSeq(cfgs, 1, clip)
  IN  Len(SelectSeq(upto, LAMBDA t : t \in {"clip", "float"}))

DropLast(s, n) == SubSeq(s, 1, Len(s) - n)

\* Mutant of Close: a floating element is its parent's child too.
CloseFloatToo(x) ==
  IF x.exceeded THEN x
  ELSE LET e == OpenElement(x)
           n == x.mem[e].n
           y == [x EXCEPT
                   !.clips = DropLast(@, ClipsClosed(Configs(x, e))),
                   !.mem[e].kids = SubSeq(x.buf, Len(x.buf) - n + 1, Len(x.buf)),
                   !.mem[e].closed = TRUE,
                   !.buf = DropLast(@, n),
                   !.stack = Front(@)]
       IN  IF Len(y.stack) > 1
             THEN [y EXCEPT !.mem[OpenElement(y)].n = @ + 1,
                            !.buf = Append(@, e)]
             ELSE y

Close(x) ==
  IF x.exceeded THEN x
  ELSE LET e == OpenElement(x)
           n == x.mem[e].n
           y == [x EXCEPT
                   !.clips = DropLast(@, ClipsClosed(Configs(x, e))),
                   !.mem[e].kids = SubSeq(x.buf, Len(x.buf) - n + 1, Len(x.buf)),
                   !.mem[e].closed = TRUE,
                   !.buf = DropLast(@, n),
                   !.stack = Front(@)]
       IN  IF ~HasConfig(x, e, "float") /\ Len(y.stack) > 1
             THEN [y EXCEPT !.mem[OpenElement(y)].n = @ + 1,
                            !.buf = Append(@, e)]
             ELSE y

-----------------------------------------------------------------------------
(* The trees of a frame *)

\* The elements of a tree, an element before its children, these in order.
Down(x, e) ==
  LET down[k \in 1 .. Capacity] ==
        <<k>> \o FlattenSeq([i \in DOMAIN x.mem[k].kids |-> down[x.mem[k].kids[i]]])
  IN  down[e]

\* A walk meets an element with children that was not closed.
HalfBuilt(x, e) ==
  LET half[k \in 1 .. Capacity] ==
        \/ ~x.mem[k].closed /\ x.mem[k].n > 0
        \/ \E j \in Range(x.mem[k].kids) : half[j]
  IN  half[e]

Reached(x) == FlattenSeq([i \in DOMAIN x.roots |-> Down(x, x.roots[i].el)])

\* The bubble sort of the roots: by z index, equal ones in their order.
SortRoots(roots) ==
  FlattenSeq([i \in 1 .. Cardinality(Zs) |->
    SelectSeq(roots, LAMBDA r : r.z = SetToSortSeq(Zs, <)[i])])

\* CalculateFinalLayout: the roots are sorted, the first container at the
\* address of a clip element learns how far that element overflows, and the
\* commands are made, which may be more than their array holds (crowded).
FinalLayout(x, room, crowded) ==
  LET clips == {e \in Range(Reached(x)) : HasConfig(x, e, "clip")}
      first(i) == ~\E j \in 1 .. i - 1 : x.scrolls[j].el = x.scrolls[i].el
  IN  [x EXCEPT
         !.err = @ \/ crowded,
         !.roots = SortRoots(@),
         !.scrolls = [i \in DOMAIN x.scrolls |->
                        LET s == x.scrolls[i]
                        IN  IF s.el \in clips /\ first(i)
                              THEN [s EXCEPT !.room = room] ELSE s]]

-----------------------------------------------------------------------------
(* The frame: clay_begin, clay_end, clay_abort *)

Reset(x) ==
  [x EXCEPT !.len = 0, !.cfgLen = 0, !.stack = <<>>, !.clips = <<>>,
            !.buf = <<>>, !.roots = <<>>, !.gen = @ + 1,
            !.exceeded = FALSE, !.err = FALSE]

BeginLayout(x) ==
  LET y == Configure(Open(Reset(x)), Root)
  IN  [y EXCEPT !.stack = Append(@, 1),
                !.roots = Append(@, [el |-> 1, clip |-> NoId, z |-> 0,
                                     capture |-> FALSE])]

Fresh ==
  [mem |-> [e \in 1 .. Capacity |-> Blank], len |-> 0,
   cfg |-> [i \in 1 .. Capacity |-> "none"], cfgLen |-> 0,
   stack |-> <<>>, clips |-> <<>>, clipOf |-> [e \in 1 .. Capacity |-> NoId],
   buf |-> <<>>, roots |-> <<>>, map |-> [id \in {} |-> 0], gen |-> 0,
   scrolls |-> <<>>, over |-> <<>>, down |-> FALSE,
   exceeded |-> FALSE, err |-> FALSE]

Init == /\ c = Fresh
        /\ phase = "idle" /\ answer = "none" /\ fault = "none" /\ whole = FALSE
        /\ plan = <<>> /\ here = <<>> /\ made = 0

Begin ==
  /\ fault = "none" /\ phase \in {"idle", "scrolled"} /\ c.gen < MaxFrames
  /\ c' = BeginLayout(c)
  /\ phase' = "frame" /\ answer' = "none" /\ whole' = FALSE
  /\ plan' = <<[up |-> 0, d |-> Root]>> /\ here' = <<1>>
  /\ UNCHANGED <<fault, made>>

InFrame == fault = "none" /\ phase = "frame"

\* box/3 of the tree: opened, its clip asked for its offset, configured.
OpenBox(d) ==
  /\ InFrame /\ made < MaxMade
  /\ LET x == Open(c)
     IN  c' = Configure(IF d.scroll THEN GetScrollOffset(x) ELSE x, d)
  /\ plan' = Append(plan, [up |-> Last(here), d |-> d])
  /\ here' = Append(here, Len(plan) + 1)
  /\ made' = made + 1
  /\ UNCHANGED <<phase, answer, fault, whole>>

AddText ==
  /\ InFrame /\ made < MaxMade
  /\ c' = OpenText(c)
  /\ plan' = Append(plan, [up |-> Last(here), d |-> Text])
  /\ made' = made + 1
  /\ UNCHANGED <<phase, answer, fault, whole, here>>

CloseBox ==
  /\ InFrame /\ Len(here) > 1
  /\ c' = Close(c)
  /\ here' = Front(here)
  /\ UNCHANGED <<phase, answer, fault, whole, plan, made>>

\* Mutant of Answer: an overflowing frame answers like any other.
AnswerPlain(x) == IF x.err THEN "raised" ELSE "ok"

\* What clay_end answers: the error Clay reported, or the commands, which are
\* the one message when there were too many elements.
Answer(x) == CASE x.err -> "raised"
               [] ~x.err /\ x.exceeded -> "message"
               [] OTHER -> "ok"

End ==
  /\ InFrame /\ Len(here) = 1
  /\ LET x == Close(c)
     IN  IF x.exceeded
           THEN c' = x
           ELSE \E room \in {0, Far}, crowded \in BOOLEAN : c' = FinalLayout(x, room, crowded)
  /\ answer' = Answer(c')
  /\ phase' = "idle" /\ whole' = TRUE
  /\ UNCHANGED <<fault, plan, here, made>>

\* The tree threw: clay_abort closes the frame for the element predicates and
\* leaves it as it stands.
Abort ==
  /\ InFrame
  /\ phase' = "idle"
  /\ UNCHANGED <<c, answer, fault, whole, plan, here, made>>

-----------------------------------------------------------------------------
(* Between the frames: clay_pointer, clay_scroll *)

\* The elements of a tree under a pointer that lies in the boxes of hit.
Hits(x, e, hit) ==
  SelectSeq(Down(x, e), LAMBDA k :
    x.mem[k].id \in hit /\ (x.clipOf[k] = NoId \/ x.clipOf[k] \in hit))

\* The ids they are found by, a scroll box under the one it had first as well.
HitIds(x, e, hit) ==
  LET ids(k) == IF ~Found(x, x.mem[k].id) THEN <<NoId>>
                ELSE LET a == x.map[x.mem[k].id].alias
                     IN  <<x.mem[k].id>> \o (IF a = NoId THEN <<>> ELSE <<a>>)
      es == Hits(x, e, hit)
  IN  FlattenSeq([i \in DOMAIN es |-> ids(es[i])])

\* The roots from the top one down, until one that captures is under it.
PointerOver(x, hit) ==
  LET over[i \in 0 .. Len(x.roots)] ==
        IF i = 0 THEN <<>>
        ELSE LET r == x.roots[i]
                 ids == HitIds(x, r.el, hit)
             IN  ids \o (IF ids # <<>> /\ r.capture THEN <<>> ELSE over[i - 1])
  IN  over[Len(x.roots)]

\* The walk comes to a root unless one above it captured the pointer.
Walked(x, i, hit) ==
  \A j \in i + 1 .. Len(x.roots) :
    ~x.roots[j].capture \/ HitIds(x, x.roots[j].el, hit) = <<>>

SetPointer(hit, down) ==
  /\ fault = "none" /\ phase = "idle"
  /\ phase' = "pointed"
  /\ IF c.exceeded THEN UNCHANGED <<c, fault>>
     ELSE IF \E i \in DOMAIN c.roots :
               Walked(c, i, hit) /\ HalfBuilt(c, c.roots[i].el)
     THEN fault' = "children" /\ UNCHANGED c
     ELSE /\ c' = [c EXCEPT !.over = PointerOver(c, hit),
                            !.down = down]
          /\ UNCHANGED fault
  /\ UNCHANGED <<answer, whole, plan, here, made>>

Clamp(v, top) == Max({0, Min({v, top})})

\* Mutant of RemoveSwapback: the last entry goes instead.
RemoveLast(s, i) == Front(s)

RemoveSwapback(s, i) == Front([s EXCEPT ![i] = Last(s)])

\* A container on its own: a drag that ended, the momentum it left, the clamp.
\* in.roll and in.fast stand for where the momentum takes it and whether it
\* lasts.
Moved(s, active, in) ==
  LET released == s.drag /\ ~active
      mom == IF released THEN in.fast ELSE s.mom
  IN  [s EXCEPT !.open = FALSE,
                !.drag = @ /\ ~released,
                !.pos = Clamp(IF mom THEN in.roll ELSE @, s.room),
                !.mom = mom /\ in.fast /\ in.wheel = 0]

\* The container the wheel or the drag is for.
Scrolled(s, active, in) ==
  LET pos == IF active /\ s.drag THEN in.roll ELSE s.pos + in.wheel
  IN  [s EXCEPT !.pos = IF s.room > 0 THEN Clamp(pos, s.room) ELSE @,
                !.drag = @ \/ active,
                !.mom = @ /\ ~active]

\* The i-th turn of the loop over the containers: one not opened since the
\* last call is taken out, and the entry put in its place is not looked at; the
\* last one whose element is under the pointer is the one to scroll.
SweepOne(x, w, i, active, in) ==
  IF i > Len(w.scrolls) THEN w
  ELSE IF ~w.scrolls[i].open THEN [w EXCEPT !.scrolls = RemoveSwapback(@, i)]
  ELSE [scrolls |-> [w.scrolls EXCEPT ![i] = Moved(@, active, in)],
        best |-> IF Contains(x.over, x.mem[w.scrolls[i].el].id) THEN i ELSE w.best]

Sweep(x, active, in) ==
  LET after[i \in 0 .. Len(x.scrolls)] ==
        IF i = 0 THEN [scrolls |-> x.scrolls, best |-> 0]
        ELSE SweepOne(x, after[i - 1], i, active, in)
  IN  after[Len(x.scrolls)]

UpdateScroll(in) ==
  /\ fault = "none" /\ phase = "pointed"
  /\ phase' = "scrolled"
  /\ LET active == in.drag /\ c.down
         swept  == Sweep(c, active, in)
         b      == swept.best
     IN  IF b = 0
           THEN c' = [c EXCEPT !.scrolls = swept.scrolls] /\ UNCHANGED fault
         ELSE IF ~HasConfig(c, swept.scrolls[b].el, "clip")
           THEN fault' = "clip" /\ UNCHANGED c
         ELSE /\ c' = [c EXCEPT !.scrolls =
                         [swept.scrolls EXCEPT ![b] = Scrolled(@, active, in)]]
              /\ UNCHANGED fault
  /\ UNCHANGED <<answer, whole, plan, here, made>>

\* The elements a declared one lies inside, itself included.
Around(e) ==
  LET around[k \in 0 .. Len(plan)] == IF k = 0 THEN {} ELSE {k} \cup around[plan[k].up]
  IN  around[e]

\* The boxes under a point: none, or one and those it lies inside.
Places == {{}} \cup {{c.mem[k].id : k \in Around(e) \cap 1 .. c.len} : e \in DOMAIN plan}

Next == \/ Begin \/ AddText \/ CloseBox \/ End \/ Abort
        \/ \E d \in Decls : OpenBox(d)
        \/ \E hit \in Places, down \in BOOLEAN : SetPointer(hit, down)
        \/ \E in \in Inputs : UpdateScroll(in)

Spec == Init /\ [][Next]_vars

-----------------------------------------------------------------------------
(* What holds *)

Floats(d) == d.at \notin {"none", "text"}

\* The array of configurations holds all that the frame declared.
Fits ==
  LET n == Cardinality({k \in DOMAIN plan : plan[k].d.clip})
           + Cardinality({k \in DOMAIN plan : plan[k].d.at # "none"})
  IN  n <= Capacity

\* A frame clay_end laid out, with all its configurations.
LaidOut == phase # "frame" /\ whole /\ ~c.exceeded /\ Fits

\* No other element of the frame carries the id of e.
OneOfItsId(e) == \A k \in 1 .. c.len \ {e} : c.mem[k].id # c.mem[e].id

\* CalculateFinalLayout and SetPointerState come to every element the program
\* declared, once, a child inside the element it was declared in and after the
\* children declared before it, a floating one as the root of its own tree.
\* So it is whatever the frame before left behind, given up half way or not.
TreeWhole ==
  LaidOut =>
    /\ c.len = Len(plan)
    /\ Len(Reached(c)) = c.len /\ Range(Reached(c)) = 1 .. c.len
    /\ \A e \in 2 .. c.len :
         IF plan[e].d.at \in {"none", "text"}
           THEN Contains(c.mem[plan[e].up].kids, e)
           ELSE \E r \in Range(c.roots) : r.el = e
    /\ \A e \in 1 .. c.len : \A i, j \in DOMAIN c.mem[e].kids :
         i < j => c.mem[e].kids[i] < c.mem[e].kids[j]

\* The element that is found by an id.
Bearer(id) == CHOOSE k \in 1 .. c.len : c.mem[k].id = id

\* The clip box that cuts a declared element: the innermost it was declared
\* inside, a floating one no box unless it is pinned to its parent's or to that
\* of the element it is attached to.
Cut(e) ==
  LET cut[k \in 1 .. c.len] ==
        LET d == plan[k].d
            up == plan[k].up
        IN  CASE k = 1 \/ (Floats(d) /\ ~d.pin) -> NoId
              [] Floats(d) /\ d.pin /\ d.at = "id" -> cut[Bearer(d.to)]
              [] OTHER -> IF plan[up].d.clip THEN c.mem[up].id ELSE cut[up]
  IN  cut[e]

\* The stack of clips that the elements push when they are configured and pop
\* when they are closed always gives an element the clip it was declared in: the
\* one SetPointerState tests the pointer by, and a floating element's tree is
\* drawn in.  A floating clip box is on it twice, once as each.  (Ids are told
\* apart, and the element a floating one names was declared before it and is
\* the one in the map.)
CutAsDeclared ==
  /\ ~c.exceeded /\ Fits
  /\ \A e \in 1 .. c.len :
       /\ OneOfItsId(e)
       /\ plan[e].d.at = "id" =>
            \E k \in 1 .. e - 1 :
              c.mem[k].id = plan[e].d.to /\ Found(c, c.mem[k].id) /\ c.map[c.mem[k].id].el = k
  => /\ \A e \in 1 .. c.len : c.clipOf[e] = Cut(e)
     /\ \A r \in Range(c.roots) : r.clip = Cut(r.el)

\* What a frame that answers with its commands declared is all there: every
\* element's slice of the array of configurations holds its clip and its
\* floating one, and every clip box has a scroll container.  What found an array
\* full (AddConfig, OpenScroll) is an error that clay_end raises.
NothingDropped ==
  phase # "frame" /\ whole /\ answer = "ok" =>
    \A e \in 1 .. c.len :
      /\ plan[e].d.clip = HasConfig(c, e, "clip")
      /\ Floats(plan[e].d) = HasConfig(c, e, "float")
      /\ plan[e].d.clip => HasScroll(c.scrolls, c.mem[e].id)

\* While the map has room and no error was reported in the frame, AddHashMapItem
\* leaves every id at the element that carries it, whichever frames and elements
\* it was given to before: what clay_box reads and a floating element attaches to.
MapCurrent ==
  phase = "frame" /\ ~c.exceeded /\ ~c.err /\ Cardinality(DOMAIN c.map) < Capacity - 1 =>
    \A e \in 1 .. c.len : Found(c, c.mem[e].id) /\ c.map[c.mem[e].id].el = e

\* A frame that lost elements to the capacity does not answer like one that
\* lost none: clay_end raises, or its commands are the message.
LossIsTold == phase # "frame" /\ whole /\ Len(plan) > c.len => answer # "ok"

\* The container of a box that is declared is not lost: no call takes it out,
\* and only clay_scroll moves it.
ScrollRemembered ==
  [][\A s \in Range(c.scrolls) :
       s.open =>
         \E t \in Range(c'.scrolls) :
           t.id = s.id /\ (phase' = "frame" => t.pos = s.pos)]_vars

=============================================================================
