---------------------------- MODULE TensorBackend ----------------------------
(***************************************************************************)
(* The tensor back end of modules/tensorflow/backend.c: the slot table, the *)
(* tape, the closures and the compiled functions, and the two modes that   *)
(* share them.  Eager executes every producer at once and records what a   *)
(* parameter reaches; graph records every producer and runs the closure of *)
(* a tensor when it is read or differentiated.                             *)
(*                                                                         *)
(* A tensor's data is a term: what TensorFlow would compute.  Shapes are   *)
(* left out: whether a recorded operation's shape follows from a rule, is  *)
(* refused, or is asked of the compiled graph is an input of the action.   *)
(***************************************************************************)
EXTENDS Integers, Sequences, FiniteSets, TLC, SequencesExt

CONSTANTS NSlots,      \* TF_SLOTS - 1: the handles are 1 .. NSlots
          MaxEntry,    \* TF_MAXENTRY
          MaxNode,     \* TF_MAXNODE
          MaxLeaf,     \* TF_MAXLEAF
          KeySize,     \* the parts of a key that its buffer holds
          NScalars,    \* TF_SCALARS
          Scalars,     \* the scalar operands a program uses
          Axes,        \* the axes it works along
          Calls,       \* the producers it calls
          MaxFaults,   \* the calls the runtime or a shape rule fails
          MaxSteps     \* the calls a program makes

ASSUME TableAssumption ==
  /\ {NSlots, MaxEntry, MaxNode, MaxLeaf, KeySize, NScalars, MaxSteps} \subseteq Nat \ {0}
  /\ MaxFaults \in Nat
  /\ Scalars \subseteq Nat /\ Axes \subseteq Nat

VARIABLES
  tf,      \* the statics: slot, cursor, entry, scalar, scalarNext
  mode,    \* tensor_execution: "eager" or "graph"
  named,   \* the handles the program holds
  spilt,   \* handles a call that failed half way left behind
  last,    \* of a gradient just taken: the parameters it reached, it was meant to
           \* reach, and TensorFlow could not differentiate for
  steps,   \* calls made so far
  faults   \* the ones that met a fault

vars == <<tf, mode, named, spilt, last, steps, faults>>

Handles == 1 .. NSlots

\* What the runtime does with a call: it may fail to compile a closure, to add
\* it to the context as a function, to run one, or to execute an eager operation.
Faults == {"none", "compile", "add", "run"} \cup (IF mode = "eager" THEN {"op"} ELSE {})

\* Under graph the shape of a record is found by rule, refused by one, read
\* off the compiled graph, or found by running it.
Outcomes ==
  [shape : IF mode = "graph" THEN {"rule", "refused", "ask", "run"} ELSE {"none"}, fault : {"none"}]
  \cup [shape : {"run"}, fault : Faults]

Term(op, in, id) == [op |-> op, in |-> in, id |-> id]
None == Term("none", <<>>, 0)

\* means: the term the tensor stands for, whatever the slot holds of it now.
\* pid and under: the parameter it is, and the parameters it was computed
\* from, a parameter being opaque.
FreeSlot == [kind |-> "free", eh |-> None, op |-> "", in |-> <<>>, refs |-> 0,
             released |-> FALSE, ckey |-> FALSE, is_param |-> FALSE,
             under_param |-> FALSE, means |-> None, pid |-> 0, deps |-> {}]

-----------------------------------------------------------------------------
(* Slots *)

SlotNew(t) ==
  LET At(k) == ((t.cursor + k - 2) % NSlots) + 1
      Open == {k \in Handles : t.slot[At(k)].kind = "free"}
  IN  IF Open = {} THEN [t |-> t, h |-> -1]
      ELSE LET k == CHOOSE k \in Open : \A j \in Open : k <= j
           IN  [t |-> [t EXCEPT !.cursor = At(k + 1)], h |-> At(k)]

Live(t, h) == h \in Handles /\ t.slot[h].kind # "free"
Exists(t, h) == Live(t, h) /\ ~t.slot[h].released

RECURSIVE Unref(_, _), ReallyFree(_, _)

Unref(t, h) ==
  IF ~Live(t, h) THEN t
  ELSE LET u == [t EXCEPT !.slot[h].refs = IF @ > 0 THEN @ - 1 ELSE 0]
       IN  IF u.slot[h].released /\ u.slot[h].refs = 0 THEN ReallyFree(u, h) ELSE u

ReallyFree(t, h) ==
  LET u == [t EXCEPT !.slot[h] = FreeSlot]
  IN  IF t.slot[h].kind = "node" THEN FoldLeft(Unref, u, t.slot[h].in) ELSE u

\* A node the tape still holds keeps its recipe and lets its value go.
TfbFree(t, h) ==
  IF ~Exists(t, h) THEN t
  ELSE LET u == [t EXCEPT !.slot[h].released = TRUE]
       IN  IF u.slot[h].refs = 0 THEN ReallyFree(u, h)
           ELSE IF u.slot[h].kind = "node" THEN [u EXCEPT !.slot[h].eh = None]
           ELSE u

DropStructure(t, h) ==
  IF t.slot[h].kind # "node" THEN t
  ELSE FoldLeft(Unref,
                [t EXCEPT !.slot[h].kind = "value", !.slot[h].op = "", !.slot[h].in = <<>>],
                t.slot[h].in)

Ref(t, in) == FoldLeft(LAMBDA u, h : [u EXCEPT !.slot[h].refs = @ + 1], t, in)

\* A slot holding a value: slot_from_tensor and slot_from_handle.
NewValue(t, eh, ckey) ==
  LET r == SlotNew(t)
  IN  IF r.h < 0 THEN r
      ELSE [r EXCEPT !.t.slot[r.h] = [FreeSlot EXCEPT !.kind = "value", !.eh = eh,
                                                      !.ckey = ckey, !.means = eh]]

\* One device tensor per distinct scalar, the last NScalars of them kept.
FScalar(t, v) ==
  LET at == SelectInSeq(t.scalar, LAMBDA c : c.v = v)
      made == [v |-> v, eh |-> Term("scalar", <<>>, v)]
  IN  IF at > 0 THEN NewValue(t, t.scalar[at].eh, FALSE)
      ELSE LET r == NewValue(t, made.eh, FALSE)
               n == IF Len(t.scalar) < NScalars THEN Len(t.scalar) + 1 ELSE t.scalarNext
               next == IF n = t.scalarNext THEN (n % NScalars) + 1 ELSE t.scalarNext
           IN  IF r.h < 0 THEN r
               ELSE [r EXCEPT !.t.scalar = IF n > Len(@) THEN Append(@, made)
                                           ELSE [@ EXCEPT ![n] = made],
                              !.t.scalarNext = next]

-----------------------------------------------------------------------------
(* The closure of a tensor, and its key *)

IndexOf(s, h) == SelectInSeq(s, LAMBDA x : x = h)

RECURSIVE Visit(_, _, _, _)

\* In a gradient's closure a node's value does not stop the walk; a
\* parameter's does.
Visit(t, c, h, grad) ==
  LET s == t.slot[h]
      leaf == s.kind = "value" \/ (s.eh # None /\ (~grad \/ s.is_param))
      d == FoldLeft(LAMBDA a, i : Visit(t, a, i, grad), [c EXCEPT !.seen = @ \cup {h}], s.in)
  IN  IF ~c.ok \/ ~Live(t, h) THEN [c EXCEPT !.ok = FALSE]
      ELSE IF h \in c.seen THEN c
      ELSE IF leaf /\ Len(c.leaves) >= MaxLeaf THEN [c EXCEPT !.ok = FALSE]
      ELSE IF leaf THEN [c EXCEPT !.leaves = Append(@, h), !.seen = @ \cup {h}]
      ELSE IF ~d.ok \/ Len(d.nodes) >= MaxNode THEN [d EXCEPT !.ok = FALSE]
      ELSE [d EXCEPT !.nodes = Append(@, h)]

\* The results of a call on the closure: the nodes without a value that the
\* program still names, the parameters, and h itself.
Wanted(t, h, c) ==
  LET Want(i) == LET s == t.slot[c.nodes[i]]
                 IN  s.eh = None /\ (~s.released \/ s.is_param \/ c.nodes[i] = h)
  IN  [leaves |-> c.leaves, nodes |-> c.nodes, ok |-> c.ok,
       want |-> [i \in DOMAIN c.nodes |-> Want(i)]]

ClosureOf(t, h, grad) ==
  Wanted(t, h, Visit(t, [leaves |-> <<>>, nodes |-> <<>>, seen |-> {}, ok |-> TRUE], h, grad))

\* Where in the closure a tensor is: a leaf, a node, or nowhere.
Place(c, h) ==
  CASE IndexOf(c.leaves, h) > 0 -> <<"L", IndexOf(c.leaves, h)>>
    [] IndexOf(c.nodes, h) > 0  -> <<"N", IndexOf(c.nodes, h)>>
    [] OTHER                    -> <<"-", 0>>

\* Mutant of KeyLeaf: a made constant is keyed like any other leaf.
KeyLeafByPlace(t, h) == None

\* A made constant is keyed by its value, any other leaf by its place.
KeyLeaf(t, h) == IF t.slot[h].ckey THEN t.slot[h].eh ELSE None

NodesOf(t, c) ==
  [i \in DOMAIN c.nodes |->
     [op |-> t.slot[c.nodes[i]].op,
      in |-> [k \in DOMAIN t.slot[c.nodes[i]].in |-> Place(c, t.slot[c.nodes[i]].in[k])]]]

\* The parts of the key in their order, kput leaving out what its buffer has no
\* room for: the leaves, the nodes and which are results, and, of a gradient's
\* closure, the places of the parameters.
Key(t, c, ps) ==
  LET nodes == NodesOf(t, c)
      parts == [j \in DOMAIN c.leaves |-> <<"leaf", KeyLeaf(t, c.leaves[j])>>]
               \o [i \in DOMAIN nodes |-> <<"node", nodes[i].op, nodes[i].in, c.want[i]>>]
               \o (IF ps = <<>> THEN <<>> ELSE <<<<"grads">>>>)
               \o [i \in DOMAIN ps |-> <<"grad", Place(c, ps[i])>>]
  IN  SubSeq(parts, 1, Min({KeySize, Len(parts)}))

-----------------------------------------------------------------------------
(* Compiled closures *)

EntryFind(t, key) == SelectInSeq(t.entry, LAMBDA e : e.key = key)

\* The graph of a closure: made constants are built in, the other leaves are
\* arguments; the wanted nodes, then the gradients, are results.  A gradient
\* TF_AddGradients refuses, asked for with the others and then alone, is none.
EntryCompile(t, c, key, ps, refused) ==
  [key |-> key, fn |-> "none", refused |-> refused,
   consts |-> [j \in DOMAIN c.leaves |->
                 IF t.slot[c.leaves[j]].ckey THEN t.slot[c.leaves[j]].eh ELSE None],
   nodes |-> NodesOf(t, c),
   want |-> SelectSeq([i \in DOMAIN c.nodes |-> i], LAMBDA i : c.want[i]),
   grads |-> [i \in DOMAIN ps |-> IF i \in refused THEN <<"-", 0>> ELSE Place(c, ps[i])]]

\* The entry for a key: its index, 0 when it cannot be compiled.
EntryOf(t, c, key, ps, refused, fault) ==
  LET at == EntryFind(t, key)
  IN  CASE at > 0 -> [t |-> t, e |-> at]
        [] at = 0 /\ (Len(t.entry) >= MaxEntry \/ fault = "compile") -> [t |-> t, e |-> 0]
        [] OTHER -> [t |-> [t EXCEPT !.entry = Append(@, EntryCompile(t, c, key, ps, refused))],
                     e |-> Len(t.entry) + 1]

EntryFor(t, c, fault) == EntryOf(t, c, Key(t, c, <<>>), <<>>, {}, fault)

\* What the compiled function computes for each node, given the leaves.
Computes(t, c, e) ==
  LET Leaf(j) == IF e.consts[j] # None THEN e.consts[j] ELSE t.slot[c.leaves[j]].eh
      f[i \in DOMAIN e.nodes] ==
        Term(e.nodes[i].op,
             [k \in DOMAIN e.nodes[i].in |->
                LET p == e.nodes[i].in[k] IN IF p[1] = "L" THEN Leaf(p[2]) ELSE f[p[2]]],
             0)
  IN  f

TakeHandle(t, h, eh) == [t EXCEPT !.slot[h].eh = eh]

\* Mutant of Settle: every node lets go of its recipe.
SettleAlways(t, h, eh) == DropStructure(TakeHandle(t, h, eh), h)

\* A node keeps its recipe after it has a value only when a parameter is
\* under it; a parameter lets go of it.
Settle(t, h, eh) ==
  LET u == TakeHandle(t, h, eh)
  IN  IF ~u.slot[h].under_param \/ u.slot[h].is_param THEN DropStructure(u, h) ELSE u

\* The first call makes the function.  When it is made and the context does not
\* take it, that call fails, and from then on it is one without results.
EntryFunction(t, k, fault) ==
  IF t.entry[k].fn # "none" THEN t
  ELSE [t EXCEPT !.entry[k].fn = IF fault = "add" THEN "stuck" ELSE "added"]

\* One call.  gs: the gradients' handles; a parameter without a gradient gets
\* zeros.  A full table stops it there, and what it made so far stays.
Execute(t, c, k, loss, ps, fault) ==
  LET e == t.entry[k]
      f == Computes(t, c, e)
      v == EntryFunction(t, k, fault)
      u == IF e.fn = "stuck" THEN v
           ELSE FoldLeft(LAMBDA a, i : Settle(a, c.nodes[i], f[i]), v, e.want)
      Gradient(i) == IF e.grads[i][1] = "-" THEN Term("zeros", <<>>, 0)
                     ELSE Term("grad", <<f[IndexOf(c.nodes, loss)],
                                         IF e.grads[i][1] = "L" THEN t.slot[ps[i]].eh
                                                                ELSE f[e.grads[i][2]]>>, 0)
      Make(a, i) == LET r == NewValue(a.t, Gradient(i), FALSE)
                    IN  IF ~a.ok \/ r.h < 0 THEN [a EXCEPT !.ok = FALSE]
                        ELSE [t |-> r.t, ok |-> TRUE, gs |-> Append(a.gs, r.h)]
  IN  IF e.fn # "stuck" /\ (fault = "run" \/ v.entry[k].fn = "stuck")
        THEN [t |-> v, ok |-> FALSE, gs |-> <<>>]
      ELSE FoldLeft(Make, [t |-> u, ok |-> TRUE, gs |-> <<>>], [i \in DOMAIN ps |-> i])

RunEntry(t, h, c, r, fault) ==
  IF r.e = 0 THEN [t |-> t, ok |-> FALSE] ELSE Execute(r.t, c, r.e, h, <<>>, fault)

RunVisited(t, h, c, fault) ==
  CASE ~c.ok                  -> [t |-> t, ok |-> FALSE]
    [] c.ok /\ c.nodes = <<>> -> [t |-> t, ok |-> TRUE]
    [] OTHER                  -> RunEntry(t, h, c, EntryFor(t, c, fault), fault)

RunClosure(t, h, fault) == RunVisited(t, h, ClosureOf(t, h, FALSE), fault)

Force(t, h, fault) ==
  CASE ~Exists(t, h)        -> [t |-> t, ok |-> FALSE]
    [] t.slot[h].eh # None  -> [t |-> t, ok |-> TRUE]
    [] OTHER                -> RunClosure(t, h, fault)

-----------------------------------------------------------------------------
(* A producer, in either mode *)

Up(t, in) == \E i \in DOMAIN in : \/ t.slot[in[i]].is_param
                                  \/ t.slot[in[i]].kind = "node" /\ t.slot[in[i]].under_param

\* The ghosts of a tensor made by op from in.
Meaning(t, op, in) ==
  [means |-> Term(op, [i \in DOMAIN in |-> t.slot[in[i]].means], 0),
   deps |-> UNION {IF t.slot[in[i]].is_param THEN {t.slot[in[i]].pid}
                   ELSE t.slot[in[i]].deps : i \in DOMAIN in}]

Record(t, h, op, in, up) ==
  LET m == Meaning(t, op, in)
  IN  Ref([t EXCEPT !.slot[h].kind = "node", !.slot[h].op = op, !.slot[h].in = in,
                    !.slot[h].under_param = up, !.slot[h].means = m.means,
                    !.slot[h].deps = m.deps], in)

\* The recipe of an eager result is kept when a parameter reaches it.
Keep(r, op, in, m, up) ==
  CASE r.h < 0       -> r
    [] r.h > 0 /\ up -> [r EXCEPT !.t = Record(r.t, r.h, op, in, TRUE)]
    [] OTHER         -> [r EXCEPT !.t.slot[r.h].means = m.means, !.t.slot[r.h].deps = m.deps]

\* An input that was run and has no value yet gives the operation none.
ExecuteOp(a, op, in, up, fault) ==
  IF ~a.ok \/ fault = "op" \/ \E i \in DOMAIN in : a.t.slot[in[i]].eh = None THEN [t |-> a.t, h |-> -1]
  ELSE Keep(NewValue(a.t, Term(op, [i \in DOMAIN in |-> a.t.slot[in[i]].eh], 0), FALSE),
            op, in, Meaning(a.t, op, in), up)

\* Under eager a recorded input is run first and the operation executed.
RunEager(t, op, in, fault) ==
  LET Ready(a, h) == IF ~a.ok \/ a.t.slot[h].eh # None THEN a ELSE RunClosure(a.t, h, fault)
  IN  ExecuteOp(FoldLeft(Ready, [t |-> t, ok |-> TRUE], in), op, in, Up(t, in), fault)

\* Mutant of Undo: the inputs are still counted.
UndoQuietly(t, h, in) == [t EXCEPT !.slot[h] = FreeSlot]

\* A refused record is undone.
Undo(t, h, in) == [FoldLeft(Unref, t, in) EXCEPT !.slot[h] = FreeSlot]

\* The shape no rule gave: the compiled graph's, or the one found by running.
ShapeOf(asked, h, shape, fault) ==
  IF asked.e = 0 \/ shape = "ask" THEN [t |-> asked.t, ok |-> asked.e # 0]
  ELSE RunClosure(asked.t, h, fault)

TfbShape(t, h, c, shape, fault) ==
  IF ~c.ok THEN [t |-> t, ok |-> FALSE]
  ELSE ShapeOf(EntryFor(t, c, fault), h, shape, fault)

\* A record whose shape is not found is undone.
Shaped(f, h, in) == IF f.ok THEN [t |-> f.t, h |-> h] ELSE [t |-> Undo(f.t, h, in), h |-> -1]

RecordShaped(u, h, in, shape, fault) ==
  Shaped(CASE shape = "rule"    -> [t |-> u, ok |-> TRUE]
           [] shape = "refused" -> [t |-> u, ok |-> FALSE]
           [] OTHER             -> TfbShape(u, h, ClosureOf(u, h, FALSE), shape, fault), h, in)

\* Under graph the operation is only recorded, once its shape is known.
RunGraph(t, op, in, shape, fault) ==
  LET r == SlotNew(t)
  IN  IF r.h < 0 THEN r
      ELSE RecordShaped(Record(r.t, r.h, op, in, Up(t, in)), r.h, in, shape, fault)

RunSpec(t, op, in, x) ==
  IF \E i \in DOMAIN in : ~Exists(t, in[i]) THEN [t |-> t, h |-> -1]
  ELSE IF mode = "eager" THEN RunEager(t, op, in, x.fault)
  ELSE RunGraph(t, op, in, x.shape, x.fault)

-----------------------------------------------------------------------------
(* The producers, as the straight lines of calls they are.  A line makes the *)
(* slot dst, frees some slots whether or not it made one, and more of them   *)
(* (drop) when it did not; the first line that makes none ends the call.     *)

Op(dst, op, in, frees) ==
  [dst |-> dst, how |-> "op", op |-> op, in |-> in, id |-> 0, frees |-> frees, drop |-> <<>>]
IVec(dst, k, drop) ==
  [dst |-> dst, how |-> "ivec", op |-> "", in |-> <<>>, id |-> k, frees |-> <<>>, drop |-> drop]
FScal(dst, v, drop) ==
  [dst |-> dst, how |-> "fscalar", op |-> "", in |-> <<>>, id |-> v, frees |-> <<>>, drop |-> drop]

Unary == <<Op("r", "Neg", <<"a">>, <<>>)>>
Binary == <<Op("r", "AddV2", <<"a", "b">>, <<>>)>>
Scalar(v) == <<FScal("s", v, <<>>), Op("r", "Mul", <<"a", "s">>, <<"s">>)>>
\* reduce_all and reduce_axis, as a call and inside a longer one.
Reduce(dst, op, x, k, frees) ==
  <<IVec("ax", k, frees), Op(dst, op, <<x, "ax">>, <<"ax">> \o frees)>>
\* The sample standard deviation; v stands for n - 1.
Std(v) ==
  Reduce("mu", "Mean", "a", 0, <<>>)
  \o <<Op("d", "Sub", <<"a", "mu">>, <<"mu">>), Op("sq", "Mul", <<"d", "d">>, <<"d">>)>>
  \o Reduce("ss", "Sum", "sq", 0, <<"sq">>)
  \o <<FScal("n", v, <<"ss">>), Op("v", "RealDiv", <<"ss", "n">>, <<"n", "ss">>),
       Op("r", "Sqrt", <<"v">>, <<"v">>)>>
\* argmax, reshape and cat: an operation beside one made vector.
WithVector(op, k) == <<IVec("ax", k, <<>>), Op("r", op, <<"a", "ax">>, <<"ax">>)>>
Gather ==
  <<Op("tmp", "Cast", <<"b">>, <<>>), IVec("ax", 0, <<"tmp">>),
    Op("r", "GatherV2", <<"a", "tmp", "ax">>, <<"ax", "tmp">>)>>

\* Mutant of Slice: one of the made vectors is not freed.
SliceKeepsOne(dst, k) ==
  <<IVec("bg", k, <<>>), IVec("sz", k, <<>>), Op(dst, "Slice", <<"a", "bg", "sz">>, <<"bg">>)>>

\* The first vector stays behind when there is no slot for the second.
Slice(dst, k) ==
  <<IVec("bg", k, <<>>), IVec("sz", k, <<>>),
    Op(dst, "Slice", <<"a", "bg", "sz">>, <<"bg", "sz">>)>>
Standardise(k, v) ==
  Slice("head", k)
  \o Reduce("mu", "Mean", "head", 0, <<>>)
  \o <<Op("d", "Sub", <<"head", "mu">>, <<"head">>), Op("sq", "Mul", <<"d", "d">>, <<"d">>)>>
  \o Reduce("ss", "Sum", "sq", 0, <<"sq">>)
  \o <<FScal("n", v, <<"ss">>), Op("var", "RealDiv", <<"ss", "n">>, <<"n", "ss">>),
       Op("sd0", "Sqrt", <<"var">>, <<"var">>), FScal("floor", 0, <<>>),
       Op("sd", "Maximum", <<"sd0", "floor">>, <<"sd0", "floor">>),
       Op("c", "Sub", <<"a", "mu">>, <<"mu">>), Op("r", "RealDiv", <<"c", "sd">>, <<"c", "sd">>)>>
\* W - lr G: the parameter is a, its gradient b.
StepLines(lr) ==
  <<FScal("s", lr, <<>>), Op("g", "Mul", <<"b", "s">>, <<"s">>),
    Op("r", "Sub", <<"a", "g">>, <<"g">>)>>

\* One line: reg is where the slots of the call are, made the ones it must
\* let go of.
Freed(c, i, r) ==
  LET gone == [n \in DOMAIN i.frees |-> c.reg[i.frees[n]]]
              \o (IF r.h > 0 THEN <<>> ELSE [n \in DOMAIN i.drop |-> c.reg[i.drop[n]]])
  IN  [t |-> FoldLeft(TfbFree, r.t, gone), ok |-> r.h > 0, h |-> r.h,
       reg |-> (i.dst :> r.h) @@ c.reg, made |-> (c.made \ ToSet(gone)) \cup ({r.h} \ {-1})]

Line(x, c, i) ==
  IF ~c.ok THEN c
  ELSE Freed(c, i,
         CASE i.how = "op"      -> RunSpec(c.t, i.op, [k \in DOMAIN i.in |-> c.reg[i.in[k]]], x)
           [] i.how = "ivec"    -> NewValue(c.t, Term("ivec", <<>>, i.id), TRUE)
           [] i.how = "fscalar" -> FScalar(c.t, i.id))

RunLines(lines, a, b, x) ==
  FoldLeft(LAMBDA c, i : Line(x, c, i),
           [t |-> tf, ok |-> TRUE, h |-> -1, made |-> {},
            reg |-> ("a" :> a) @@ ("b" :> b)], lines)

-----------------------------------------------------------------------------
(* The calls *)

NoGrad == [reached |-> {}, meant |-> {}, refused |-> {}]

Init ==
  /\ tf = [slot |-> [h \in Handles |-> FreeSlot], cursor |-> 1, entry |-> <<>>,
           scalar |-> <<>>, scalarNext |-> 1]
  /\ mode = "eager" /\ named = {} /\ spilt = {} /\ steps = 0 /\ faults = 0
  /\ last = NoGrad

Costs(n) == steps + n <= MaxSteps /\ steps' = steps + n

\* A call answered with one handle, or failed leaving what it had made.
Answer(r) ==
  /\ tf' = r.t
  /\ named' = IF r.ok THEN named \cup {r.h} ELSE named
  /\ spilt' = IF r.ok THEN spilt ELSE spilt \cup r.made
  /\ last' = NoGrad
  /\ UNCHANGED mode

\* Data, draws and files: a value at once, in both modes.
FromDoubles ==
  LET r == NewValue(tf, Term("data", <<>>, steps + 1), FALSE)
  IN  Costs(1) /\ Answer([t |-> r.t, ok |-> r.h > 0, h |-> r.h, made |-> {}])

Lines(call, v, k) ==
  CASE call = "unary"       -> Unary
    [] call = "binary"      -> Binary
    [] call = "scalar"      -> Scalar(v)
    [] call = "sum"         -> Reduce("r", "Sum", "a", k, <<>>)
    [] call = "std"         -> Std(v)
    [] call = "reshape"     -> WithVector("Reshape", k)
    [] call = "gather"      -> Gather
    [] call = "slice"       -> Slice("r", k)
    [] call = "standardise" -> Standardise(k, v)

\* A call of many lines counts for two.
Produce(call, a, b, v, k, x) ==
  /\ Costs(IF Len(Lines(call, v, k)) > 2 THEN 2 ELSE 1)
  /\ Answer(RunLines(Lines(call, v, k), a, b, x))

\* A parameter number no tensor in the table knows.
Pids == {tf.slot[h].pid : h \in Handles} \cup UNION {tf.slot[h].deps : h \in Handles}
FreshPid == CHOOSE p \in 1 .. Cardinality(Pids) + 1 : p \notin Pids

NewParameter(f, a, r) ==
  LET ok == f.ok /\ f.t.slot[a].eh # None /\ r.h > 0
  IN  Answer([t |-> IF ok THEN [r.t EXCEPT !.slot[r.h].is_param = TRUE, !.slot[r.h].pid = FreshPid,
                                           !.slot[r.h].means = f.t.slot[a].means]
                    ELSE f.t,
              ok |-> ok, h |-> r.h, made |-> {}])

Parameterised(f, a) == NewParameter(f, a, NewValue(f.t, f.t.slot[a].eh, FALSE))

Parameter(a, fault) == Costs(1) /\ Parameterised(Force(tf, a, fault), a)

\* A step is made like any node and marked a parameter.
MarkParameter(r) ==
  LET p == [r.t EXCEPT !.slot[r.h].is_param = TRUE, !.slot[r.h].pid = FreshPid]
  IN  IF ~r.ok THEN r
      ELSE [r EXCEPT !.t = IF p.slot[r.h].eh # None THEN DropStructure(p, r.h) ELSE p]

Step(w, g, lr, x) == Costs(1) /\ Answer(MarkParameter(RunLines(StepLines(lr), w, g, x)))

Free(h) ==
  /\ Costs(1)
  /\ tf' = TfbFree(tf, h) /\ named' = named \ {h}
  /\ last' = NoGrad
  /\ UNCHANGED <<mode, spilt>>

\* The tensor is run if it has to be, and read.
Values(h, fault) ==
  LET f == Force(tf, h, fault)
  IN  /\ Costs(1)
      /\ tf' = f.t
      /\ last' = NoGrad
      /\ UNCHANGED <<mode, named, spilt>>

\* Whether the loss reaches a parameter, every parameter being a boundary.
Meant(loss, p) == ~tf.slot[loss].is_param /\ tf.slot[p].pid \in tf.slot[loss].deps

NoGrads == [t |-> tf, ok |-> FALSE, gs |-> <<>>]

Zeros(ps) ==
  LET Zero(a, i) == LET r == NewValue(a.t, Term("zeros", <<>>, 0), FALSE)
                    IN  IF ~a.ok \/ r.h < 0 THEN [a EXCEPT !.ok = FALSE]
                        ELSE [t |-> r.t, ok |-> TRUE, gs |-> Append(a.gs, r.h)]
  IN  FoldLeft(Zero, [NoGrads EXCEPT !.ok = TRUE], [i \in DOMAIN ps |-> i])

\* A stuck function has no results to take a gradient from: execute reads one
\* through a null pointer, and the process ends.
Dies(t, k) == t.entry[k].fn = "stuck" /\ \E i \in DOMAIN t.entry[k].grads : t.entry[k].grads[i][1] # "-"

GradEntry(c, e, loss, ps, fault) ==
  IF e.e = 0 THEN NoGrads ELSE Execute(e.t, c, e.e, loss, ps, fault)

GradAnswer(r, loss, ps, refused) ==
  LET PidsOf(I) == {tf.slot[ps[i]].pid : i \in I}
  IN  /\ tf' = r.t
      /\ named' = IF r.ok THEN named \cup ToSet(r.gs) ELSE named
      /\ spilt' = IF r.ok THEN spilt ELSE spilt \cup ToSet(r.gs)
      /\ last' = IF ~r.ok THEN NoGrad
                 ELSE [reached |-> PidsOf({i \in DOMAIN ps : r.t.slot[r.gs[i]].eh.op = "grad"}),
                       meant |-> PidsOf({i \in DOMAIN ps : Meant(loss, ps[i])}),
                       refused |-> PidsOf(refused)]
      /\ UNCHANGED mode

GradCompiled(c, e, loss, ps, fault) ==
  /\ e.e # 0 => ~Dies(e.t, e.e)
  /\ GradAnswer(GradEntry(c, e, loss, ps, fault), loss, ps,
                IF e.e = 0 THEN {} ELSE e.t.entry[e.e].refused)

GradOver(c, loss, ps, refused, fault) ==
  LET L == tf.slot[loss]
      flat == L.kind # "node" \/ ~L.under_param
  IN  CASE flat           -> GradAnswer(Zeros(ps), loss, ps, {})
        [] ~flat /\ ~c.ok -> GradAnswer(NoGrads, loss, ps, {})
        [] OTHER          -> GradCompiled(c, EntryOf(tf, c, Key(tf, c, ps), ps, refused, fault),
                                          loss, ps, fault)

\* The gradients of a loss: zeros when no parameter is under it, one call on
\* its closure otherwise.
Grad(loss, ps, refused, fault) ==
  /\ Costs(1)
  /\ \A i \in DOMAIN ps : tf.slot[ps[i]].is_param
  /\ GradOver(ClosureOf(tf, loss, TRUE), loss, ps, refused, fault)

\* tensor_execution(tensorflow, eager | graph).
Switch ==
  /\ Costs(1)
  /\ mode' = IF mode = "eager" THEN "graph" ELSE "eager"
  /\ last' = NoGrad
  /\ UNCHANGED <<tf, named, spilt>>

Two == {"binary", "gather"}
WithScalar == {"scalar", "std", "standardise"}
WithAxis == {"sum", "reshape", "slice", "standardise"}

\* Arguments a call does not have are fixed.
Produces(x) ==
  \E call \in Calls, a, b \in named, v \in Scalars, k \in Axes :
    /\ call \notin Two => b = a
    /\ call \notin WithScalar => \A w \in Scalars : v <= w
    /\ call \notin WithAxis => \A j \in Axes : k <= j
    /\ Produce(call, a, b, v, k, x)

Spend(fault) ==
  /\ fault => faults < MaxFaults
  /\ faults' = IF fault THEN faults + 1 ELSE faults

Ended == steps = MaxSteps /\ UNCHANGED vars

Next ==
  \/ Ended
  \/ /\ steps < MaxSteps /\ UNCHANGED faults
     /\ \/ FromDoubles \/ Switch
        \/ \E h \in named : Free(h)
  \/ /\ steps < MaxSteps
     /\ \E x \in Outcomes :
          /\ Spend(x.shape = "refused" \/ x.fault # "none")
          /\ \/ Produces(x)
             \/ \E w, g \in named, v \in Scalars : Step(w, g, v, x)
  \/ /\ steps < MaxSteps
     /\ \E fault \in Faults \ {"op"} :
          /\ Spend(fault # "none")
          /\ \/ \E a \in named : Parameter(a, fault)
             \/ \E a \in named : Values(a, fault)
             \/ \E l, p \in named : Grad(l, <<p>>, {}, fault)
             \/ \E l, p, q \in named : p # q /\ Grad(l, <<p, q>>, {}, fault)
  \/ /\ steps < MaxSteps /\ Spend(TRUE)
     /\ \E l, p \in named :
          \/ Grad(l, <<p>>, {1}, "none")
          \/ \E q \in named \ {p}, refused \in SUBSET {1, 2} : Grad(l, <<p, q>>, refused, "none")

Spec == Init /\ [][Next]_vars

-----------------------------------------------------------------------------
(* Properties *)

\* A slot's count is the number of recorded inputs that name it (unref,
\* really_free, drop_structure and the undo of a refused record against
\* refs++), whatever was read, freed, stepped or refused in between; so a
\* recipe never names a slot that was freed and given out again.
RefsCount ==
  \A h \in Handles :
    tf.slot[h].refs = Cardinality({<<n, i>> \in Handles \X (1 .. 3) :
                                     i <= Len(tf.slot[n].in) /\ tf.slot[n].in[i] = h})

\* A handle the program holds stands for a tensor; a slot neither the program
\* nor a recipe holds is free again, but for the ones a call that failed part
\* way left (tfb_slice, tfb_standardise, tfb_grad and execute return without
\* freeing what they had made).
HandlesKept ==
  /\ \A h \in named : Exists(tf, h)
  /\ \A h \in Handles : Live(tf, h) => h \in named \cup spilt \/ (tf.slot[h].released /\ tf.slot[h].refs > 0)

\* What a tensor holds, once it holds something, is what the program asked
\* for when it made it: through either mode, through closures that run other
\* tensors along, through functions compiled for an earlier tensor of the
\* same key, shared scalars, and recomputation after its inputs were freed.
ValueStands ==
  \A h \in Handles :
    /\ tf.slot[h].eh # None => tf.slot[h].eh = tf.slot[h].means
    /\ tf.slot[h].kind = "value" => tf.slot[h].eh # None

\* A parameter the loss was computed from gets its gradient and not the zeros of
\* one it was not: the tape is never cut between them (drop_structure in execute
\* keeps what a parameter is under, tfb_free keeps the recipe of what a node
\* still reads) and no function compiled for another closure is taken for its
\* own.  But for one that TF_AddGradients refused when the closure was compiled:
\* that one has zeros, as long as the entry lasts, and no error.
GradientReaches == last.meant \ last.refused \subseteq last.reached
=============================================================================
