------------------------------ MODULE ClayText ------------------------------
(***************************************************************************)
(* The texts and the sizes of modules/clay/clay.h: the cache of measured   *)
(* texts that outlives the frame (MeasureTextCached, AddMeasuredWord), the *)
(* sizes an element has when it is closed, the sharing out of a parent's   *)
(* room along each axis (SizeContainersAlongAxis), the wrapping of texts   *)
(* and what it does to the heights above them (CalculateFinalLayout).      *)
(*                                                                         *)
(* A frame is a root, a panel in it and the panel's children, texts and    *)
(* childless boxes.  A text is a sequence of "x" (a glyph), "_" (a space)  *)
(* and "n" (a newline); its hash is the text itself.  A size is a whole    *)
(* number of units, of which CLAY__EPSILON is Eps; a division is cut to    *)
(* whole units.  Indexes into the arrays of words and items are the code's *)
(* (from 0, item 0 standing for none).  No element has an aspect ratio.    *)
(***************************************************************************)
EXTENDS Integers, Sequences, SequencesExt, FiniteSets, FiniteSetsExt, Functions

CONSTANTS
  WordCap,      \* maxMeasureTextCacheWordCount
  ItemCap,      \* maxElementCount, as measureTextHashMapInternal has it
  LineCap,      \* maxElementCount, as wrappedTextLines has it
  Buckets,      \* the buckets of measureTextHashMap
  BucketOf(_),  \* the bucket of a text
  Glyph,        \* the advance of a glyph
  Spacing,      \* letterSpacing
  Line,         \* the height of a glyph
  Eps,          \* CLAY__EPSILON
  Huge,         \* CLAY__MAXFLOAT
  Programs      \* what a program may declare, and for how many frames

ASSUME SizesAreSizes == Eps > 3 /\ Huge > Eps /\ Glyph > 0 /\ Line > 0

VARIABLES
  k,        \* the cache of measured texts
  gen,      \* context->generation
  phase,    \* "idle", "begun", "panel", "closed" or "stuck"
  nodes,    \* the elements of the frame: the root, the panel, its children
  built,    \* the elements as they were closed, before the layout
  refused,  \* some text was ever refused by the cache
  prog      \* the program that runs

vars == <<k, gen, phase, nodes, built, refused, prog>>

Axes == {"x", "y"}
None == -1
NoText == <<"no text">>
Largest(a, b) == IF a > b THEN a ELSE b
Smallest(a, b) == IF a < b THEN a ELSE b

-----------------------------------------------------------------------------
(* The cache of measured texts *)

NewItem(t, g) == [id |-> t, gen |-> g, first |-> None, next |-> 0,
                  min |-> 0, width |-> 0, height |-> 0, nl |-> FALSE]
\* Clay__MeasureTextCacheItem_DEFAULT.
DefaultItem == [NewItem(NoText, 0) EXCEPT !.first = 0]
NoWord == [at |-> 0, len |-> 0, width |-> 0, next |-> None]

\* The measuring callback: an advance and a spacing a glyph.
MeasureText(n) == n * (Glyph + Spacing)

\* The words from one of them to the end of its text.
RECURSIVE Chain(_, _)
Chain(words, w) == IF w = None THEN <<>> ELSE <<w>> \o Chain(words, words[w].next)

\* Mutant of Evict: the head of the bucket is not moved past the entry.
EvictKeepsHead(c, b, prev, i) ==
  LET next == c.items[i].next
      d == [c EXCEPT !.wfree = @ \o Chain(c.words, c.items[i].first),
                     !.ifree = Append(@, i), !.items[i] = NewItem(NoText, 0)]
  IN  IF prev = 0 THEN d ELSE [d EXCEPT !.items[prev].next = next]

\* Mutant of Evict: the words of the entry are not freed.
EvictKeepsWords(c, b, prev, i) ==
  LET next == c.items[i].next
      d == [c EXCEPT !.ifree = Append(@, i), !.items[i] = NewItem(NoText, 0)]
  IN  IF prev = 0 THEN [d EXCEPT !.head[b] = next]
      ELSE [d EXCEPT !.items[prev].next = next]

\* An entry not seen for more than two frames is taken out: its words and its
\* place go to the free lists, and its predecessor, or the bucket, is linked
\* past it.
Evict(c, b, prev, i) ==
  LET next == c.items[i].next
      d == [c EXCEPT !.wfree = @ \o Chain(c.words, c.items[i].first),
                     !.ifree = Append(@, i),
                     !.items[i] = NewItem(NoText, 0)]
  IN  IF prev = 0 THEN [d EXCEPT !.head[b] = next]
      ELSE [d EXCEPT !.items[prev].next = next]

Stale(c, i) == gen - c.items[i].gen > 2

\* Down the chain of a bucket to the text, dropping stale entries on the way.
RECURSIVE Walk(_, _, _, _, _)
Walk(c, b, t, prev, i) ==
  CASE i = 0 -> [c |-> c, hit |-> 0, prev |-> prev]
    [] i # 0 /\ c.items[i].id = t ->
         [c |-> [c EXCEPT !.items[i].gen = gen], hit |-> i, prev |-> prev]
    [] i # 0 /\ c.items[i].id # t /\ Stale(c, i) ->
         Walk(Evict(c, b, prev, i), b, t, prev, c.items[i].next)
    [] OTHER -> Walk(c, b, t, i, c.items[i].next)

\* The text under measure: the cache, the place of the new item, the first and
\* the last word so far, where the current word starts, and the sizes.
Measuring(c, i) == [c |-> c, item |-> i, first |-> None, last |-> None, start |-> 0,
                    line |-> 0, min |-> 0, width |-> 0, height |-> 0,
                    nl |-> FALSE, full |-> FALSE]

\* A word into the last free place, or else at the end of the array; an array
\* with no place left answers its default word, which no state goes on from.
AddMeasuredWord(m, at, n, width) ==
  LET c == m.c
      w == IF c.wfree # <<>> THEN Last(c.wfree) ELSE c.wlen
      word == [at |-> at, len |-> n, width |-> width, next |-> None]
      taken == IF c.wfree # <<>> THEN [c EXCEPT !.wfree = Front(@)]
               ELSE [c EXCEPT !.wlen = @ + 1]
      linked == IF m.last = None THEN [taken EXCEPT !.words[w] = word]
                ELSE [taken EXCEPT !.words[w] = word, !.words[m.last].next = w]
  IN  IF w = WordCap THEN [m EXCEPT !.c.broken = TRUE, !.c.told = TRUE, !.full = TRUE]
      ELSE [m EXCEPT !.c = linked, !.last = w,
                     !.first = IF m.last = None THEN w ELSE @]

\* A glyph run ended at i: what its measure adds to the widest word and line.
Sized(m, n) == [m EXCEPT !.min = Largest(@, MeasureText(n)), !.height = Line]

OnSpace(m, i) ==
  LET n == i - m.start
      width == MeasureText(n) + MeasureText(1)
  IN  [AddMeasuredWord(Sized(m, n), m.start, n + 1, width)
         EXCEPT !.line = @ + width, !.start = i + 1]

OnNewline(m, i) ==
  LET n == i - m.start
      word == IF n > 0 THEN AddMeasuredWord(Sized(m, n), m.start, n, MeasureText(n))
              ELSE Sized(m, n)
      mark == AddMeasuredWord(word, i + 1, 0, 0)
  IN  [mark EXCEPT !.width = Largest(@, m.line + MeasureText(n)), !.line = 0,
                   !.nl = TRUE, !.start = i + 1]

\* The error handler is called once a frame.
MeasureChar(m, t, i) ==
  CASE m.full -> m
    [] ~m.full /\ m.c.wlen = WordCap - 1 ->
         [m EXCEPT !.full = TRUE, !.c.told = TRUE]
    [] ~m.full /\ m.c.wlen # WordCap - 1 ->
         CASE t[i + 1] = "_" -> OnSpace(m, i)
           [] t[i + 1] = "n" -> OnNewline(m, i)
           [] OTHER -> m

OnEnd(m, t) ==
  LET n == Len(t) - m.start
      word == IF n > 0 THEN [AddMeasuredWord(Sized(m, n), m.start, n, MeasureText(n))
                               EXCEPT !.line = @ + MeasureText(n)]
              ELSE m
  IN  [word EXCEPT !.width = Largest(word.line, @) - Spacing]

Measured(m, t) == IF m.full THEN m ELSE OnEnd(m, t)
MeasureWords(c, i, t) ==
  Measured(FoldLeft(LAMBDA a, j : MeasureChar(a, t, j - 1), Measuring(c, i),
                    [j \in 1 .. Len(t) |-> j]), t)

\* A measured text goes to the end of its bucket's chain.
Linked(m, b, prev) ==
  LET c == [m.c EXCEPT !.items[m.item] =
              [@ EXCEPT !.first = m.first, !.min = m.min, !.width = m.width,
                        !.height = m.height, !.nl = m.nl]]
  IN  IF prev # 0 THEN [c EXCEPT !.items[prev].next = m.item]
      ELSE [c EXCEPT !.head[b] = m.item]

\* A place for a new text: the last freed, or else the next of the array.
TakeItem(c, t) ==
  IF c.ifree # <<>>
  THEN [at |-> Last(c.ifree),
        c |-> [c EXCEPT !.ifree = Front(@), !.items[Last(c.ifree)] = NewItem(t, gen)]]
  ELSE [at |-> c.ilen,
        c |-> [c EXCEPT !.ilen = @ + 1, !.items[c.ilen] = NewItem(t, gen)]]

\* A text that runs out of words keeps the item and the words it had taken.
Answer(c, i) == [c |-> c, item |-> c.items[i]]
Stored(m, b, prev) == IF m.full THEN [c |-> m.c, item |-> DefaultItem]
                      ELSE Answer(Linked(m, b, prev), m.item)
Store(new, t, prev) == Stored(MeasureWords(new.c, new.at, t), BucketOf(t), prev)

\* The measure of a text, from the cache or into it.
FromCache(at, t) ==
  CASE at.hit # 0 -> Answer(at.c, at.hit)
    [] at.hit = 0 /\ at.c.ifree = <<>> /\ at.c.ilen = ItemCap - 1 ->
         [c |-> [at.c EXCEPT !.told = TRUE], item |-> DefaultItem]
    [] OTHER -> Store(TakeItem(at.c, t), t, at.prev)
MeasureTextCached(c, t) ==
  FromCache(Walk(c, BucketOf(t), t, 0, c.head[BucketOf(t)]), t)

-----------------------------------------------------------------------------
(* The sizes of an element when it is closed *)

Both(v) == [a \in Axes |-> v]
Fit == [type |-> "fit", min |-> 0, max |-> 0, pct |-> 0]

\* A declared element: its layout and clip configuration.
Declared(d) == [kids |-> <<>>, text |-> NoText, wraps |-> FALSE, dir |-> d.dir,
                pad |-> d.pad, gap |-> d.gap, clip |-> d.clip, size |-> d.size,
                dim |-> Both(0), min |-> Both(0), pref |-> Both(0), lines |-> <<>>,
                loops |-> FALSE]

Along(n, ax) == (ax = "x") = (n.dir = "ltr")
Gaps(n) == n.gap * Largest(Len(n.kids) - 1, 0)

\* The content of an element along an axis, from a size of each child: end to
\* end with the padding and the gaps, or the widest with the padding.
Content(n, ax, sizes) ==
  IF Along(n, ax)
  THEN FoldLeft(LAMBDA a, v : a + v, n.pad[ax], sizes) + Gaps(n)
  ELSE FoldLeft(LAMBDA a, v : Largest(a, v + n.pad[ax]), 0, sizes)
Sizes(ns, n, ax) == [i \in DOMAIN n.kids |-> ns[n.kids[i]].dim[ax]]

Ceiling(z) == IF z.max <= 0 THEN Huge ELSE z.max
ClampTo(z, v) == Smallest(Largest(v, z.min), Ceiling(z))

\* The children's least sizes do not count where the element clips.
CloseElement(ns, e) ==
  LET n == ns[e]
      content(ax) == Content(n, ax, Sizes(ns, n, ax))
      least(ax) == Content(n, ax, IF n.clip[ax] THEN <<>>
                                   ELSE [i \in DOMAIN n.kids |-> ns[n.kids[i]].min[ax]])
      fixed(ax) == n.size[ax].type # "percent"
  IN  [ns EXCEPT ![e].dim = [ax \in Axes |-> IF fixed(ax) THEN ClampTo(n.size[ax], content(ax))
                                             ELSE 0],
                 ![e].min = [ax \in Axes |-> IF fixed(ax) THEN ClampTo(n.size[ax], least(ax))
                                             ELSE least(ax)],
                 ![e].size = [ax \in Axes |-> IF fixed(ax) THEN [n.size[ax] EXCEPT !.max = Ceiling(n.size[ax])]
                                              ELSE n.size[ax]]]

\* A text has its measured size, and can be as narrow as its widest word.
TextElement(t, wraps, item) ==
  [Declared([dir |-> "ltr", pad |-> Both(0), gap |-> 0, clip |-> Both(FALSE),
             size |-> Both(Fit)])
     EXCEPT !.text = t, !.wraps = wraps,
            !.dim = [x |-> item.width, y |-> item.height],
            !.min = [x |-> item.min, y |-> item.height],
            !.pref = [x |-> item.width, y |-> item.height]]

-----------------------------------------------------------------------------
(* The sharing out of a parent's room *)

FloatEqual(a, b) == a - b < Eps /\ b - a < Eps
RemoveSwapback(s, i) == Front([s EXCEPT ![i] = Last(s)])

\* The two loops are one with the sign turned: the extreme children (the
\* largest when compressing, the smallest when growing) and how far the next
\* one is, which is only learned from a child met after an extreme one.
Extreme(ns, ax, rs, sign, todo) ==
  FoldLeft(LAMBDA a, c :
             LET v == sign * ns[c].dim[ax]
                 b == IF v < a.best THEN [a EXCEPT !.next = a.best, !.best = v] ELSE a
             IN  IF FloatEqual(v, a.best) THEN a
                 ELSE IF v > b.best
                 THEN [b EXCEPT !.next = Smallest(@, v), !.step = Smallest(b.next, v) - b.best]
                 ELSE b,
           [best |-> IF sign < 0 THEN 0 ELSE Huge, next |-> IF sign < 0 THEN 0 ELSE Huge,
            step |-> todo],
           rs)

Limit(n, ax, sign) == IF sign < 0 THEN n.min[ax] ELSE n.size[ax].max

\* One pass over the children: the extreme ones move by a step, and one that
\* meets its limit stops there and leaves the list, the last taking its place.
RECURSIVE Pass(_, _, _, _, _, _)
Moved(s, ax, sign, i, now) ==
  [s EXCEPT !.ns[s.rs[i]].dim[ax] = now, !.todo = @ - sign * (now - s.ns[s.rs[i]].dim[ax])]
\* Mutant of Move: a child that meets its limit stays in the list.
MoveStays(s, ax, sign, best, step, i, now, end) ==
  Pass(Moved(s, ax, sign, i, IF sign * now >= sign * end THEN end ELSE now),
       ax, sign, best, step, i + 1)
Move(s, ax, sign, best, step, i, now, end) ==
  IF sign * now >= sign * end
  THEN Pass([Moved(s, ax, sign, i, end) EXCEPT !.rs = RemoveSwapback(@, i)],
            ax, sign, best, step, i)
  ELSE Pass(Moved(s, ax, sign, i, now), ax, sign, best, step, i + 1)
\* Mutant of Pass: every child moves.
PassEveryone(s, ax, sign, best, step, i) ==
  IF i > Len(s.rs) THEN s
  ELSE Move(s, ax, sign, best, step, i, s.ns[s.rs[i]].dim[ax] + sign * step,
            Limit(s.ns[s.rs[i]], ax, sign))

Pass(s, ax, sign, best, step, i) ==
  CASE i > Len(s.rs) -> s
    [] i <= Len(s.rs) /\ ~FloatEqual(sign * s.ns[s.rs[i]].dim[ax], best) ->
         Pass(s, ax, sign, best, step, i + 1)
    [] OTHER -> Move(s, ax, sign, best, step, i, s.ns[s.rs[i]].dim[ax] + sign * step,
                     Limit(s.ns[s.rs[i]], ax, sign))

ExtremesMove(s, ax, sign, x) ==
  Pass(s, ax, sign, x.best, Smallest(x.step, s.todo \div Len(s.rs)), 1)

\* Mutant of Distribute: one pass.
DistributeOnce(s, p, ax, sign) ==
  IF s.todo <= Eps \/ s.rs = <<>> THEN s.ns
  ELSE ExtremesMove(s, ax, sign, Extreme(s.ns, ax, s.rs, sign, s.todo)).ns

\* Passes while something is left to share out and someone can take it.  A
\* pass that moves nobody is repeated for ever.
RECURSIVE Distribute(_, _, _, _)
AfterPass(s, t, p, ax, sign) == IF t = s THEN [s.ns EXCEPT ![p].loops = TRUE]
                                ELSE Distribute(t, p, ax, sign)
Distribute(s, p, ax, sign) ==
  IF s.todo <= Eps \/ s.rs = <<>> THEN s.ns
  ELSE AfterPass(s, ExtremesMove(s, ax, sign, Extreme(s.ns, ax, s.rs, sign, s.todo)),
                 p, ax, sign)

Resizable(n, ax) == /\ n.size[ax].type \notin {"percent", "fixed"}
                    /\ n.text # NoText => n.wraps
Grows(n, ax) == n.size[ax].type = "grow"

\* The children that do not grow leave the list in the same way.
RECURSIVE OnlyGrow(_, _, _, _)
OnlyGrow(ns, ax, rs, i) ==
  CASE i > Len(rs) -> rs
    [] i <= Len(rs) /\ Grows(ns[rs[i]], ax) -> OnlyGrow(ns, ax, rs, i + 1)
    [] OTHER -> OnlyGrow(ns, ax, RemoveSwapback(rs, i), i)

\* A child across the parent's direction: it grows to the room, and stays
\* between its least size and the room.
OffAxis(n, ax, room) ==
  LET v == IF Grows(n, ax) THEN Smallest(room, n.size[ax].max) ELSE n.dim[ax]
  IN  [n EXCEPT !.dim[ax] = Largest(n.min[ax], Smallest(v, room))]

\* The children of a parent along its direction, with some of its room left
\* over or lacking: those that can shrink do, unless the parent clips, or
\* those that grow do.
Share(ns, p, ax, rs, left) ==
  CASE left < 0 /\ ~ns[p].clip[ax] ->
         Distribute([ns |-> ns, rs |-> rs, todo |-> -left], p, ax, -1)
    [] left > 0 /\ (\E c \in Range(ns[p].kids) : Grows(ns[c], ax)) ->
         Distribute([ns |-> ns, rs |-> OnlyGrow(ns, ax, rs, 1), todo |-> left], p, ax, 1)
    [] OTHER -> ns

\* A child sized as a part of the parent.
OfParent(n, ax, inner) ==
  IF n.size[ax].type # "percent" THEN n
  ELSE [n EXCEPT !.dim[ax] = (inner * n.size[ax].pct) \div 100]

InnerAlong(n, ax) == n.dim[ax] - n.pad[ax] - Gaps(n)
Widest(ns, p, ax) == FoldLeft(LAMBDA a, c : Largest(a, ns[c].dim[ax]), 0, ns[p].kids)
Sum(ns, p, ax) == FoldLeft(LAMBDA a, c : a + ns[c].dim[ax], 0, ns[p].kids)
ShareAlong(ns, p, ax, rs) == Share(ns, p, ax, rs, InnerAlong(ns[p], ax) - Sum(ns, p, ax))

\* The children of one parent along an axis.
SizeChildren(ns, p, ax) ==
  LET n == ns[p]
      kids == Range(n.kids)
      rs == SelectSeq(n.kids, LAMBDA c : Resizable(ns[c], ax))
      inner == n.dim[ax] - n.pad[ax]
      room == IF n.clip[ax] THEN Largest(inner, Widest(ns, p, ax)) ELSE inner
  IN  IF Along(n, ax)
      THEN ShareAlong([c \in DOMAIN ns |-> IF c \in kids
                                           THEN OfParent(ns[c], ax, InnerAlong(n, ax))
                                           ELSE ns[c]], p, ax, rs)
      ELSE [c \in DOMAIN ns |-> CASE c \in Range(rs) -> OffAxis(ns[c], ax, room)
                                 [] c \in kids \ Range(rs) -> OfParent(ns[c], ax, inner)
                                 [] OTHER -> ns[c]]

\* A parent before its children; elements are numbered in that order.
Parents(ns) == SelectSeq([i \in DOMAIN ns |-> i], LAMBDA e : ns[e].kids # <<>>)
SizeContainersAlongAxis(ns, ax) ==
  FoldLeft(LAMBDA a, p : SizeChildren(a, p, ax), ns, Parents(ns))

-----------------------------------------------------------------------------
(* Wrapping, and the heights above *)

\* The lines so far of a text, the words of the line being filled and the
\* lines the frame has already used.
AddLine(s, at, n, width) ==
  [s EXCEPT !.lines = Append(@, [at |-> at, len |-> n, width |-> width])]

\* Whether the line so far ends in a space.  (A text has a terminator before
\* it: the one of the text before it in the arena.)
FinalCharIsSpace(t, s) == s.at + s.n > 0 /\ t[s.at + s.n] = "_"

\* Mutant of WrapWord: a word that does not fit is passed over.
WrapWordDrops(s, t, word, box) ==
  LET over == s.width + word.width > box
      space == IF FinalCharIsSpace(t, s) THEN 1 ELSE 0
  IN  CASE s.n = 0 /\ over ->
             [AddLine(s, word.at, word.len, word.width)
                EXCEPT !.word = word.next, !.at = word.at + word.len]
        [] ~(s.n = 0 /\ over) /\ (word.len = 0 \/ over) ->
             [AddLine(s, s.at, s.n - space, s.width - space * MeasureText(1))
                EXCEPT !.word = word.next, !.width = 0, !.n = 0, !.at = word.at]
        [] OTHER ->
             [s EXCEPT !.width = @ + word.width + Spacing, !.n = @ + word.len,
                       !.word = word.next]

\* One turn of the loop over the words: a first word that is too wide is a
\* line; a newline, or a word that does not fit, ends the line, less its
\* trailing space; any other word joins the line.
WrapWord(s, t, word, box) ==
  LET over == s.width + word.width > box
      space == IF FinalCharIsSpace(t, s) THEN 1 ELSE 0
  IN  CASE s.n = 0 /\ over ->
             [AddLine(s, word.at, word.len, word.width)
                EXCEPT !.word = word.next, !.at = word.at + word.len]
        [] ~(s.n = 0 /\ over) /\ (word.len = 0 \/ over) ->
             [AddLine(s, s.at, s.n - space, s.width - space * MeasureText(1))
                EXCEPT !.word = IF s.n = 0 \/ word.len = 0 THEN word.next ELSE @,
                       !.width = 0, !.n = 0, !.at = word.at]
        [] OTHER ->
             [s EXCEPT !.width = @ + word.width + Spacing, !.n = @ + word.len,
                       !.word = word.next]

RECURSIVE WrapWords(_, _, _, _, _)
WrapWords(s, c, t, box, used) ==
  IF s.word = None \/ used + Len(s.lines) > LineCap - 1 THEN s
  ELSE WrapWords(WrapWord(s, t, c.words[s.word], box), c, t, box, used)

\* The lines of a text in a box of a width: the whole text if it fits.
OneLine(item, n) == ~item.nl /\ n.pref["x"] <= n.dim["x"]
LastLine(s) == IF s.n > 0 THEN AddLine(s, s.at, s.n, s.width - Spacing).lines ELSE s.lines
Lines(c, item, n, used) ==
  IF OneLine(item, n) THEN <<[at |-> 0, len |-> Len(n.text), width |-> n.dim["x"]]>>
  ELSE LastLine(WrapWords([lines |-> <<>>, word |-> item.first, at |-> 0, n |-> 0,
                           width |-> 0], c, n.text, n.dim["x"], used))

LinesUsed(ns) == FoldFunction(LAMBDA n, a : a + Len(n.lines), 0, ns)

\* Each text is measured again, in the order they were declared.
WithLines(n, one, lines) ==
  [n EXCEPT !.lines = lines, !.dim["y"] = IF one THEN @ ELSE n.pref["y"] * Len(lines)]
Wrapped(s, e, m) ==
  [c |-> m.c,
   ns |-> [s.ns EXCEPT ![e] = WithLines(@, OneLine(m.item, @),
                                        Lines(m.c, m.item, @, LinesUsed(s.ns)))]]
WrapText(s, e) == Wrapped(s, e, MeasureTextCached(s.c, s.ns[e].text))
Texts(ns) == SelectSeq([i \in DOMAIN ns |-> i], LAMBDA e : ns[e].text # NoText)

\* Mutant of Propagate: a column keeps the height it was closed with.
PropagateRows(ns, p) ==
  LET n == ns[p]
      tall(h, c) == ClampTo(n.size["y"], Largest(ns[c].dim["y"] + n.pad["y"], h))
  IN  [ns EXCEPT ![p].dim["y"] = IF n.dir = "ltr" THEN FoldLeft(tall, @, n.kids) ELSE @]

\* The height of a parent follows the heights of its children.
Propagate(ns, p) ==
  LET n == ns[p]
      tall(h, c) == ClampTo(n.size["y"], Largest(ns[c].dim["y"] + n.pad["y"], h))
  IN  [ns EXCEPT ![p].dim["y"] =
         IF n.dir = "ltr" THEN FoldLeft(tall, @, n.kids)
         ELSE ClampTo(n.size["y"], Content(n, "y", Sizes(ns, n, "y")))]

\* CalculateFinalLayout, up to the drawing.
Heights(w) ==
  [c |-> w.c,
   ns |-> SizeContainersAlongAxis(FoldLeft(Propagate, w.ns, Reverse(Parents(w.ns))), "y")]
FinalLayout(c, ns) ==
  Heights(FoldLeft(WrapText, [c |-> c, ns |-> SizeContainersAlongAxis(ns, "x")], Texts(ns)))

-----------------------------------------------------------------------------
(* The calls of a program *)

RootElement(room) ==
  Declared([dir |-> "ltr", pad |-> Both(0), gap |-> 0, clip |-> Both(FALSE),
            size |-> [ax \in Axes |-> [type |-> "fixed", min |-> room[ax],
                                       max |-> room[ax], pct |-> 0]]])

Init ==
  /\ k = [words |-> [w \in 0 .. WordCap - 1 |-> NoWord], wlen |-> 0, wfree |-> <<>>,
          items |-> [i \in 1 .. ItemCap - 1 |-> NewItem(NoText, 0)], ilen |-> 1,
          ifree |-> <<>>, head |-> [b \in Buckets |-> 0],
          told |-> FALSE, broken |-> FALSE]
  /\ gen = 0 /\ phase = "idle" /\ nodes = <<>> /\ built = <<>> /\ refused = FALSE
  /\ prog \in Programs

Begin(room) ==
  /\ phase = "idle" /\ gen < prog.frames /\ ~k.broken
  /\ gen' = gen + 1 /\ phase' = "begun"
  /\ k' = [k EXCEPT !.told = FALSE]
  /\ nodes' = <<RootElement(room)>> /\ built' = <<>>
  /\ UNCHANGED <<refused, prog>>

OpenPanel(d) ==
  /\ phase = "begun"
  /\ nodes' = Append(nodes, Declared(d)) /\ phase' = "panel"
  /\ UNCHANGED <<k, gen, built, refused, prog>>

AddChild(ns, n) == [Append(ns, n) EXCEPT ![2].kids = Append(@, Len(ns) + 1)]
Room == phase = "panel" /\ ~k.broken /\ Len(nodes[2].kids) < prog.kids

\* clay_text: the text is measured as it is declared.
OpenText(t, wraps) ==
  /\ Room
  /\ \E m \in {MeasureTextCached(k, t)} :
       /\ k' = m.c
       /\ nodes' = AddChild(nodes, TextElement(t, wraps, m.item))
       /\ refused' = (refused \/ m.c.told)
  /\ UNCHANGED <<gen, phase, built, prog>>

\* clay_open and clay_close of a box with nothing in it.
Box(d) ==
  /\ Room
  /\ nodes' = CloseElement(AddChild(nodes, Declared(d)), Len(nodes) + 1)
  /\ UNCHANGED <<k, gen, phase, built, refused, prog>>

ClosePanel ==
  /\ phase = "panel"
  /\ nodes' = CloseElement([nodes EXCEPT ![1].kids = <<2>>], 2) /\ phase' = "closed"
  /\ UNCHANGED <<k, gen, built, refused, prog>>

\* Clay_EndLayout: the root is closed and the frame laid out; a sharing out
\* that never ends keeps the call.
Loops(ns) == \E p \in DOMAIN ns : ns[p].loops
End ==
  /\ phase = "closed" /\ ~k.broken
  /\ built' = CloseElement(nodes, 1)
  /\ \E f \in {FinalLayout(k, CloseElement(nodes, 1))} :
       IF Loops(f.ns) THEN phase' = "stuck" /\ UNCHANGED <<k, nodes, refused>>
       ELSE phase' = "idle" /\ nodes' = f.ns /\ k' = f.c /\ refused' = (refused \/ f.c.told)
  /\ UNCHANGED <<gen, prog>>

Next == \/ \E room \in prog.rooms : Begin(room)
        \/ \E d \in prog.panels : OpenPanel(d)
        \/ \E t \in prog.texts, wraps \in prog.wraps : OpenText(t, wraps)
        \/ \E d \in prog.boxes : Box(d)
        \/ ClosePanel \/ End

Spec == Init /\ [][Next]_vars

-----------------------------------------------------------------------------
(* Properties *)

\* The items of a bucket, in the order of its chain.
RECURSIVE ItemsFrom(_)
ItemsFrom(i) == IF i = 0 THEN <<>> ELSE <<i>> \o ItemsFrom(k.items[i].next)
Cached == UNION {Range(ItemsFrom(k.head[b])) : b \in Buckets}
WordsOf(i) == Chain(k.words, k.items[i].first)

\* What a text is made of: the maximal runs that a space ends, space included,
\* or a newline or the end, and a mark after each newline.
Breaks(t, i) == i = 0 \/ t[i] \in {"_", "n"}
Pieces(t) ==
  {<<i, 0>> : i \in {j \in 1 .. Len(t) : t[j] = "n"}}
    \cup {<<i, j - i>> : <<i, j>> \in
            {q \in (0 .. Len(t)) \X (0 .. Len(t)) :
               /\ q[1] < q[2] /\ Breaks(t, q[1])
               /\ \A m \in q[1] + 1 .. q[2] : t[m] # "n"
               /\ \A m \in q[1] + 1 .. q[2] - 1 : t[m] # "_"
               /\ t[q[2]] = "_" \/ q[2] = Len(t) \/ t[q[2] + 1] = "n"}}

\* However often places were freed and taken again, every text that
\* MeasureTextCached can find is in the chain of its own bucket, once, and its
\* words are those of that text, in order.
CacheSpells ==
  ~k.broken =>
    \A b \in Buckets :
      LET is == ItemsFrom(k.head[b])
      IN  /\ \A m, n \in DOMAIN is : m # n => k.items[is[m]].id # k.items[is[n]].id
          /\ \A i \in Range(is) :
               LET t == k.items[i].id
                   ws == [j \in DOMAIN WordsOf(i) |-> k.words[WordsOf(i)[j]]]
               IN  /\ BucketOf(t) = b
                   /\ {<<w.at, w.len>> : w \in Range(ws)} = Pieces(t)
                   /\ \A m, n \in DOMAIN ws :
                        m < n => ws[m].at + ws[m].len <= ws[n].at + ws[n].len
                                 /\ ws[m].at <= ws[n].at

\* A place is used once or free once, and as long as no text was refused none
\* is lost: what a program no longer shows can be used again.
PlacesKept ==
  ~k.broken =>
    LET used == FoldSet(LAMBDA i, a : a \o WordsOf(i), k.wfree, Cached)
        items == k.ifree \o SetToSeq(Cached)
    IN  /\ IsInjective(used) /\ IsInjective(items)
        /\ ~refused => /\ Range(used) = 0 .. k.wlen - 1
                       /\ Range(items) = 1 .. k.ilen - 1

LaidOut == phase = "idle" /\ nodes # <<>> /\ ~k.broken

\* After the layout a parent's room is filled, to CLAY__EPSILON a child, or
\* those that could still give or take are at their limits: no child that can
\* shrink keeps room from an overflowing row, and no room is left while a
\* child could grow.
RoomShared ==
  LaidOut =>
    \A p \in Range(Parents(nodes)), ax \in Axes :
      Along(nodes[p], ax) =>
        LET n == nodes[p]
            left == n.dim[ax] - Content(n, ax, Sizes(nodes, n, ax))
        IN  /\ left < -Eps /\ ~n.clip[ax] =>
                 \A c \in Range(n.kids) :
                   Resizable(nodes[c], ax) => nodes[c].dim[ax] <= nodes[c].min[ax]
            /\ left > Eps =>
                 \A c \in Range(n.kids) :
                   Grows(nodes[c], ax) => nodes[c].dim[ax] = nodes[c].size[ax].max

\* A child is shrunk only when those still larger cannot shrink, and grown only
\* when those still smaller cannot grow: the order of the children does not
\* decide who gives.
SharedLevel ==
  LaidOut =>
    \A c, d \in Range(nodes[2].kids) :
      Along(nodes[2], "x") /\ Resizable(nodes[c], "x") /\ Resizable(nodes[d], "x") =>
        LET nc == nodes[c].dim["x"]
            nd == nodes[d].dim["x"]
        IN  /\ nc < built[c].dim["x"] /\ nd > nc + 2 * Eps => nd = nodes[d].min["x"]
            /\ /\ nc > built[c].dim["x"] /\ nd < nc - 2 * Eps
               /\ Grows(nodes[c], "x") /\ Grows(nodes[d], "x")
               => nd = nodes[d].size["x"].max

\* The lines of a wrapped text show each of its glyphs once and in order, and a
\* line wider than its box is one word: while the frame has lines to spare.
LinesTile ==
  LaidOut /\ LinesUsed(nodes) < LineCap =>
    \A e \in Range(Texts(nodes)) :
      LET n == nodes[e]
          shown == FlattenSeq([j \in DOMAIN n.lines |->
                     SetToSortSeq({i \in n.lines[j].at + 1 .. n.lines[j].at + n.lines[j].len :
                                     n.text[i] = "x"}, <)])
      IN  /\ shown = SetToSortSeq({i \in DOMAIN n.text : n.text[i] = "x"}, <)
          /\ \A j \in DOMAIN n.lines :
               n.lines[j].width > n.dim["x"] /\ n.pref["x"] > n.dim["x"] =>
                 <<n.lines[j].at, n.lines[j].len>> \in Pieces(n.text)

\* A panel as high as what it holds, and not cut by the window, holds its texts
\* with all their lines: what wrapping adds reaches the heights above, while
\* the frame has lines to spare.
HeightHolds ==
  LaidOut /\ LinesUsed(nodes) < LineCap =>
    LET n == nodes[2]
    IN  n.size["y"].type = "fit" /\ n.size["y"].max = Huge /\ n.dim["y"] < nodes[1].dim["y"] =>
          \A e \in Range(Texts(nodes)) :
            /\ nodes[e].dim["y"] = nodes[e].pref["y"] * Len(nodes[e].lines)
            /\ n.dim["y"] >= Content(n, "y", Sizes(nodes, n, "y"))

\* Sharing out the room of a row comes to an end, so Clay_EndLayout returns,
\* unless the frame shows an empty text.  (An empty text is one letter spacing
\* narrower than nothing, and as the only child that can still shrink it is
\* neither moved nor dropped by a pass.)
LayoutEnds == phase = "stuck" => \E e \in Range(Texts(nodes)) : nodes[e].text = <<>>
=============================================================================
