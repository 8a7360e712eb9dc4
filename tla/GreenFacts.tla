----------------------------- MODULE GreenFacts -----------------------------
(***************************************************************************)
(* The facts about a green world that do not depend on its steps: queues   *)
(* and stacks as sequences, the tables and their types, a worker's stack   *)
(* of engines, the inductive invariant of the engines and what keeps it,   *)
(* what each update makes of a channel and which step of GreenChannel (the *)
(* channel's promise) it is, and the channels' lists of waiters.           *)
(***************************************************************************)
EXTENDS GreenTasks, WellFoundedInduction, TLAPS

(* Numbers and sequences *)

\* A set of natural numbers that is not empty has a least member (what a search
\* for the first fit, coco_g_pick's or slurp's, comes down to).
LEMMA LeastMember ==
  ASSUME NEW S \in SUBSET Nat, S # {}
  PROVE  \E m \in S : \A n \in S : m <= n
<1>1. PICK m \in S : \A n \in S : ~ (<<n, m>> \in OpToRel(<, Nat))
  BY NatLessThanWellFounded, WFMin, Zenon
<1>2. ASSUME NEW n \in S, n < m PROVE FALSE
  <2>1. <<n, m>> \in {ss \in Nat \X Nat : ss[1] < ss[2]}
    BY <1>2
  <2>2. <<n, m>> \in OpToRel(<, Nat)
    BY <2>1, Zenon DEF OpToRel
  <2> QED BY <2>2, <1>1, Zenon
<1> QED BY <1>2

\* A bounded set of natural numbers that is not empty has a greatest member
\* (the youngest of the tasks of a world).
LEMMA GreatestMember ==
  ASSUME NEW b \in Nat, NEW S \in SUBSET (0 .. b), S # {}
  PROVE  \E m \in S : \A n \in S : n <= m
<1> DEFINE C == {b - n : n \in S}
<1>1. C \in SUBSET Nat
  <2> SUFFICES ASSUME NEW n \in S PROVE b - n \in Nat
    OBVIOUS
  <2> QED BY n \in 0 .. b
<1>c. C # {}
  BY Zenon
<1>2. PICK k \in C : \A n \in C : k <= n
  BY <1>1, <1>c, LeastMember, Zenon
<1>3. PICK m \in S : k = b - m
  OBVIOUS
<1>4. ASSUME NEW n \in S PROVE n <= m
  <2>1. b - n \in C /\ n \in 0 .. b /\ m \in 0 .. b
    OBVIOUS
  <2>2. b - m <= b - n
    BY <2>1, <1>2, <1>3, Zenon
  <2> QED BY <2>1, <2>2
<1> QED BY <1>4

\* The places of a queue or a stack of n entries: the ends, and one entry more or less.
LEMMA Interval ==
  ASSUME NEW n \in Nat
  PROVE  /\ \A k \in 1 .. n + 1 : k \in 1 .. n \/ k = n + 1
         /\ \A k \in 1 .. n : k = n \/ k \in 1 .. n - 1
         /\ \A k \in 1 .. n - 1 : k \in 1 .. n
         /\ n >= 1 => 1 \in 1 .. n
  OBVIOUS

\* A sequence is a function on 1 .. Len(s).
LEMMA SeqLen ==
  ASSUME NEW S, NEW s \in Seq(S)
  PROVE  /\ Len(s) \in Nat /\ DOMAIN s = 1 .. Len(s)
         /\ \A k \in 1 .. Len(s) : s[k] \in S
  OBVIOUS

\* A sequence grown at its end.
LEMMA SeqAppend ==
  ASSUME NEW S, NEW s \in Seq(S), NEW x \in S
  PROVE  /\ Append(s, x) \in Seq(S) /\ Len(Append(s, x)) = Len(s) + 1
         /\ \A k \in 1 .. Len(s) : Append(s, x)[k] = s[k]
         /\ Append(s, x)[Len(s) + 1] = x
  OBVIOUS

\* The end of a stack that is not empty.
LEMMA SeqLast ==
  ASSUME NEW S, NEW s \in Seq(S), s # <<>>
  PROVE  Len(s) \in Nat /\ Len(s) >= 1 /\ s[Len(s)] \in S
  OBVIOUS

\* Replacing the end of a stack.
LEMMA SeqReplace ==
  ASSUME NEW S, NEW s \in Seq(S), s # <<>>, NEW x \in S
  PROVE  /\ [s EXCEPT ![Len(s)] = x] \in Seq(S)
         /\ Len([s EXCEPT ![Len(s)] = x]) = Len(s)
         /\ [s EXCEPT ![Len(s)] = x][Len(s)] = x
         /\ \A k \in 1 .. Len(s) - 1 : [s EXCEPT ![Len(s)] = x][k] = s[k]
<1>1. Len(s) \in 1 .. Len(s)
  BY SeqLast
<1>2. [s EXCEPT ![Len(s)] = x] \in [1 .. Len(s) -> S]
  OBVIOUS
<1> DEFINE t == [s EXCEPT ![Len(s)] = x]
<1>3. t[Len(s)] = x /\ \A k \in 1 .. Len(s) - 1 : t[k] = s[k]
  BY <1>1
<1> HIDE DEF t
<1>4. t \in [1 .. Len(s) -> S] /\ Len(s) \in Nat
  BY <1>2, SeqLen DEF t
<1>5. t \in Seq(S) /\ Len(t) = Len(s)
  BY <1>4
<1> QED BY <1>3, <1>5, Zenon DEF t

\* Taking the end of a stack off.
LEMMA SeqDrop ==
  ASSUME NEW S, NEW s \in Seq(S), s # <<>>
  PROVE  /\ SubSeq(s, 1, Len(s) - 1) \in Seq(S)
         /\ Len(SubSeq(s, 1, Len(s) - 1)) = Len(s) - 1
         /\ \A k \in 1 .. Len(s) - 1 : SubSeq(s, 1, Len(s) - 1)[k] = s[k]
<1> DEFINE n == Len(s) - 1
           t == SubSeq(s, 1, n)
<1>1. n \in Nat /\ n <= Len(s) /\ Len(s) \in Nat
  BY SeqLast
<1>2. \A i \in 1 .. n : s[i] \in S
  BY <1>1, SeqLen
<1> HIDE DEF n
<1>3. t = [i \in 1 .. n |-> s[i]]
  BY <1>1
<1>4. t \in [1 .. n -> S]
  BY <1>2, <1>3, Zenon
<1>5. t \in Seq(S) /\ Len(t) = n
  <2> HIDE DEF t
  <2> QED BY <1>1, <1>4
<1> QED BY <1>3, <1>5 DEF n

\* What a sequence served at its head has left.
LEMMA SeqTail ==
  ASSUME NEW S, NEW s \in Seq(S), s # <<>>
  PROVE  /\ Head(s) \in S /\ Head(s) = s[1] /\ Len(s) \in Nat /\ Len(s) >= 1
         /\ Tail(s) \in Seq(S) /\ Len(Tail(s)) = Len(s) - 1
         /\ \A k \in 1 .. Len(s) - 1 : Tail(s)[k] = s[k + 1]
  OBVIOUS

\* One sequence after another.
LEMMA ConcatIs ==
  ASSUME NEW S, NEW s \in Seq(S), NEW t \in Seq(S)
  PROVE  /\ s \o t \in Seq(S) /\ Len(s \o t) = Len(s) + Len(t)
         /\ Len(s) \in Nat /\ Len(t) \in Nat
         /\ \A i \in 1 .. Len(s) + Len(t) : (s \o t)[i] = IF i <= Len(s) THEN s[i] ELSE t[i - Len(s)]
  OBVIOUS

\* Sequences with the same places and members are the same.
LEMMA SeqSame ==
  ASSUME NEW S, NEW s \in Seq(S), NEW t \in Seq(S), Len(s) = Len(t),
         \A i \in 1 .. Len(s) : s[i] = t[i]
  PROVE  s = t
  OBVIOUS

\* A queue that grows is one with a queue of one behind it.
LEMMA AppendConcat ==
  ASSUME NEW S, NEW s \in Seq(S), NEW x \in S
  PROVE  Append(s, x) = s \o <<x>>
  OBVIOUS

\* How three queues are put behind each other does not matter.
LEMMA ConcatAgain ==
  ASSUME NEW S, NEW s \in Seq(S), NEW t \in Seq(S), NEW u \in Seq(S)
  PROVE  (s \o t) \o u = s \o (t \o u)
  OBVIOUS

\* The empty queue before or behind another.
LEMMA ConcatEmpty ==
  ASSUME NEW S, NEW s \in Seq(S)
  PROVE  <<>> \o s = s /\ s \o <<>> = s
  OBVIOUS

\* A queue that is kept in two parts, the second behind the first (a channel's ring and
\* its blocked senders): the ends of the whole.
LEMMA ConcatAppend ==
  ASSUME NEW S, NEW s \in Seq(S), NEW t \in Seq(S), NEW v \in S
  PROVE  s \o Append(t, v) = Append(s \o t, v)
<1>1. <<v>> \in Seq(S)
  OBVIOUS
<1>2. Append(t, v) = t \o <<v>> /\ s \o t \in Seq(S)
  BY AppendConcat, ConcatIs
<1>3. Append(s \o t, v) = (s \o t) \o <<v>>
  BY <1>2, AppendConcat
<1> QED BY <1>1, <1>2, <1>3, ConcatAgain

\* The head of the first part is the head of the whole.
LEMMA ConcatTail ==
  ASSUME NEW S, NEW s \in Seq(S), NEW t \in Seq(S), s # <<>>
  PROVE  s \o t # <<>> /\ Head(s \o t) = Head(s) /\ Tail(s \o t) = Tail(s) \o t
<1> DEFINE u == s \o t
           a == Tail(s)
           z == a \o t
           b == Tail(u)
<1>1. /\ u \in Seq(S) /\ Len(u) = Len(s) + Len(t) /\ Len(s) \in Nat /\ Len(t) \in Nat
      /\ \A i \in 1 .. Len(s) + Len(t) : u[i] = IF i <= Len(s) THEN s[i] ELSE t[i - Len(s)]
  BY ConcatIs
<1>2. Len(s) >= 1 /\ Head(s) = s[1] /\ a \in Seq(S) /\ Len(a) = Len(s) - 1
      /\ \A i \in 1 .. Len(s) - 1 : a[i] = s[i + 1]
  BY SeqTail
<1> HIDE DEF u, a
<1>3. u # <<>>
  BY <1>1, <1>2
<1>4. Head(u) = u[1] /\ b \in Seq(S) /\ Len(b) = Len(u) - 1
      /\ \A i \in 1 .. Len(u) - 1 : b[i] = u[i + 1]
  BY <1>1, <1>3, SeqTail
<1>5. z \in Seq(S) /\ Len(z) = Len(a) + Len(t)
      /\ \A i \in 1 .. Len(a) + Len(t) : z[i] = IF i <= Len(a) THEN a[i] ELSE t[i - Len(a)]
  BY <1>2, ConcatIs, Zenon
<1> HIDE DEF b, z
<1>6. Len(b) = Len(z)
  BY <1>1, <1>2, <1>4, <1>5
<1>7. ASSUME NEW i \in 1 .. Len(b) PROVE b[i] = z[i]
  <2>1. i + 1 \in 1 .. Len(u) /\ b[i] = u[i + 1]
    BY <1>1, <1>4
  <2>2. u[i + 1] = IF i + 1 <= Len(s) THEN s[i + 1] ELSE t[i + 1 - Len(s)]
    BY <1>1, <2>1
  <2>3. z[i] = IF i <= Len(a) THEN a[i] ELSE t[i - Len(a)]
    BY <1>5, <1>6
  <2>4. i - Len(a) = i + 1 - Len(s) /\ (i <= Len(a) <=> i + 1 <= Len(s))
    BY <1>1, <1>2, <2>1
  <2>5. i <= Len(a) => a[i] = s[i + 1]
    BY <1>1, <1>2, <2>1
  <2> QED BY <2>1, <2>2, <2>3, <2>4, <2>5, Zenon
<1>8. b = z
  BY <1>4, <1>5, <1>6, <1>7, SeqSame, SMTT(30)
<1>9. Head(u) = Head(s)
  BY <1>1, <1>2, <1>4
<1> QED BY <1>3, <1>8, <1>9 DEF u, b, z, a

\* The first of the second part moves to the end of the first.
LEMMA ConcatMove ==
  ASSUME NEW S, NEW s \in Seq(S), NEW t \in Seq(S), s # <<>>, t # <<>>
  PROVE  Append(Tail(s), Head(t)) \o Tail(t) = Tail(s \o t)
<1> DEFINE a == Tail(s)
           h == Head(t)
           u == Tail(t)
<1>1. a \in Seq(S) /\ u \in Seq(S) /\ h \in S /\ <<h>> \in Seq(S)
  BY SeqTail
<1>2. t = <<h>> \o u
  <2> DEFINE x == <<h>> \o u
  <2>1. /\ Len(<<h>>) = 1 /\ <<h>>[1] = h
        /\ Len(t) \in Nat /\ Len(t) >= 1 /\ h = t[1] /\ Len(u) = Len(t) - 1
        /\ \A k \in 1 .. Len(t) - 1 : u[k] = t[k + 1]
    BY SeqTail
  <2>2. /\ x \in Seq(S) /\ Len(x) = Len(<<h>>) + Len(u)
        /\ \A i \in 1 .. Len(<<h>>) + Len(u) : x[i] = IF i <= Len(<<h>>) THEN <<h>>[i] ELSE u[i - Len(<<h>>)]
    BY <1>1, ConcatIs
  <2> HIDE DEF x, h, u
  <2>3. Len(x) = Len(t)
    BY <2>1, <2>2
  <2>4. ASSUME NEW i \in 1 .. Len(x) PROVE x[i] = t[i]
    <3>1. CASE i = 1
      BY <2>1, <2>2, <2>3, <3>1
    <3>2. CASE i # 1
      <4>1. x[i] = u[i - 1] /\ i - 1 \in 1 .. Len(t) - 1
        BY <2>1, <2>2, <2>3, <3>2
      <4> DEFINE k == i - 1
      <4>2. k \in 1 .. Len(t) - 1 /\ k + 1 = i
        BY <4>1
      <4> HIDE DEF k
      <4>3. u[k] = t[k + 1]
        BY <2>1, <4>2
      <4> QED BY <4>1, <4>2, <4>3 DEF k
    <3> QED BY <3>1, <3>2
  <2> QED BY <2>2, <2>3, <2>4, SeqSame DEF x
<1> HIDE DEF a, h, u
<1>3. Append(a, h) \o u = (a \o <<h>>) \o u
  BY <1>1, AppendConcat
<1>4. (a \o <<h>>) \o u = a \o (<<h>> \o u)
  BY <1>1, ConcatAgain
<1>5. Tail(s \o t) = a \o t
  BY ConcatTail DEF a
<1> QED BY <1>2, <1>3, <1>4, <1>5, Zenon DEF a, h, u

\* The first part is a prefix of the whole.
LEMMA ConcatPrefix ==
  ASSUME NEW S, NEW s \in Seq(S), NEW t \in Seq(S)
  PROVE  SubSeq(s \o t, 1, Len(s)) = s
<1> DEFINE u == s \o t
           n == Len(s)
           x == SubSeq(u, 1, n)
<1>1. /\ u \in Seq(S) /\ n \in Nat /\ n <= Len(u) /\ \A i \in 1 .. n : u[i] = s[i]
  BY ConcatIs
<1> HIDE DEF u
<1>2. x \in Seq(S) /\ Len(x) = n /\ \A i \in 1 .. n : x[i] = u[i]
  BY <1>1
<1> HIDE DEF x
<1>3. x = s
  BY <1>1, <1>2, SeqSame
<1> QED BY <1>3 DEF x, u

-----------------------------------------------------------------------------
(* The tables *)

\* The answers of a builtin and the endings of a task, its fields, the levels of a worker's C
\* stack, and a channel.
Tags == {"none", "ok", "error", "failed", "deadlock", "closed"}
Statuses == [tag : Tags, val : Nat]
Places == {"engine", "unwind", "toawait", "toresume", "await", "resume"}
States == {"ready", "blocked", "nested", "done"}
Blocks == {"none", "await", "send", "recv", "yield"}
Task == [worker : Workers, state : States, block : Blocks,
         wait_on : Ids \cup {None}, send : Nat, resume : Statuses, status : Statuses]
Level == [task : Ids, at : Places, arg : Ids \cup {None}]
Channel == [buf : Seq(Nat), closed : BOOLEAN, senders : Seq(Ids),
            receivers : Seq(Ids), offered : Nat, got : Seq(Nat)]

\* The world's tables keep their shape: tasks, stack levels and lists name tasks and workers
\* that exist.
TypeOK ==
  /\ th \in [Ids -> Task]
  /\ nthreads \in 0 .. MaxTasks /\ next_worker \in Workers
  /\ frames \in [Workers -> Seq(Level)]
  /\ cursor \in [Workers -> 0 .. MaxTasks]
  /\ poked \subseteq Workers /\ chgWait \subseteq Workers
  /\ lp \in [Workers -> {"loop", "wait", "woken", "out"}]
  /\ chan \in [Chans -> Channel]
  /\ main_done \in BOOLEAN /\ stop \in BOOLEAN /\ fuel \in 0 .. MaxOps

\* The sizes of a world: at least one worker and one task, the main one.
LEMMA Constants ==
  /\ NumWorkers \in Nat /\ NumWorkers >= 1 /\ 0 \in Workers
  /\ MaxTasks \in Nat /\ MaxTasks >= 1 /\ Main \in Ids /\ None \in Nat
  /\ Workers \subseteq Nat /\ Ids \subseteq Nat
  BY TasksAssumption DEF Workers, Ids, Main, None

\* coco_g_spawn counts the tasks it made.
LEMMA CountIs == TypeOK => nthreads \in Nat
  BY Constants DEF TypeOK

\* coco_g_spawn fills the table from its start: the tasks made so far are in it.
LEMMA UsedIs == TypeOK => Used \subseteq Ids /\ Used \subseteq Nat
  BY Constants DEF Used, Ids, TypeOK

\* The fields of a task of the world's table.
LEMMA TaskIs ==
  ASSUME NEW t \in Task
  PROVE  /\ t.worker \in Workers /\ t.state \in States /\ t.block \in Blocks
         /\ t.wait_on \in Ids \cup {None} /\ t.send \in Nat
         /\ t.resume \in Statuses /\ t.status \in Statuses
  BY DEF Task

\* Writing one task into the world's table.
LEMMA SetOne ==
  ASSUME NEW T \in [Ids -> Task], NEW i \in Ids, NEW x \in Task
  PROVE  /\ [T EXCEPT ![i] = x] \in [Ids -> Task]
         /\ [T EXCEPT ![i] = x][i] = x
         /\ \A j \in Ids \ {i} : [T EXCEPT ![i] = x][j] = T[j]
  OBVIOUS

-----------------------------------------------------------------------------
(* A worker's stack *)

\* A worker inside a task has a top of its stack, and that is one of the tasks.
LEMMA TopIs ==
  ASSUME TypeOK, NEW w \in Workers, Inside(w)
  PROVE  /\ frames[w] \in Seq(Level) /\ frames[w] # <<>>
         /\ Len(frames[w]) \in Nat /\ Len(frames[w]) >= 1
         /\ DOMAIN frames[w] = 1 .. Len(frames[w]) /\ Len(frames[w]) \in DOMAIN frames[w]
         /\ Top(w) \in Level /\ Cur(w) \in Ids
  <1>1. frames[w] \in Seq(Level) /\ frames[w] # <<>>
    BY DEF TypeOK, Inside
  <1>2. Len(frames[w]) \in Nat /\ Len(frames[w]) >= 1 /\ Top(w) \in Level
    BY <1>1, SeqLast DEF Top
  <1> QED BY <1>1, <1>2, SeqLen DEF Level, Cur

\* A worker that moves on inside its task changes the top of its own stack only.
LEMMA StandIs ==
  ASSUME TypeOK, NEW w \in Workers, Inside(w), NEW at \in Places, NEW arg \in Ids \cup {None}
  PROVE  LET f == Stand(w, at, arg) IN
         /\ f \in [Workers -> Seq(Level)]
         /\ \A v \in Workers \ {w} : f[v] = frames[v]
         /\ Len(f[w]) = Len(frames[w])
         /\ \A k \in 1 .. Len(frames[w]) - 1 : f[w][k] = frames[w][k]
         /\ f[w][Len(frames[w])] = Frame(Cur(w), at, arg)
         /\ Frame(Cur(w), at, arg) \in Level
<1> DEFINE s == frames[w]
           x == Frame(Cur(w), at, arg)
<1>1. s \in Seq(Level) /\ s # <<>> /\ frames \in [Workers -> Seq(Level)]
  BY TopIs DEF TypeOK
<1>2. x \in Level
  BY TopIs DEF Frame, Level
<1>3. /\ [s EXCEPT ![Len(s)] = x] \in Seq(Level)
      /\ Len([s EXCEPT ![Len(s)] = x]) = Len(s)
      /\ [s EXCEPT ![Len(s)] = x][Len(s)] = x
      /\ \A k \in 1 .. Len(s) - 1 : [s EXCEPT ![Len(s)] = x][k] = s[k]
  <2> HIDE DEF s, x
  <2> QED BY <1>1, <1>2, SeqReplace
<1>4. Stand(w, at, arg) = [frames EXCEPT ![w] = [s EXCEPT ![Len(s)] = x]]
  BY DEF Stand
<1> HIDE DEF x
<1> QED BY <1>1, <1>2, <1>3, <1>4, Zenon DEF x

\* A worker that leaves coco_g_run takes the top off its own stack only.
LEMMA PopIs ==
  ASSUME TypeOK, NEW w \in Workers, Inside(w)
  PROVE  /\ Pop(w) \in [Workers -> Seq(Level)]
         /\ \A v \in Workers \ {w} : Pop(w)[v] = frames[v]
         /\ Len(Pop(w)[w]) = Len(frames[w]) - 1
         /\ \A k \in 1 .. Len(frames[w]) - 1 : Pop(w)[w][k] = frames[w][k]
<1> DEFINE s == frames[w]
<1>1. s \in Seq(Level) /\ s # <<>> /\ frames \in [Workers -> Seq(Level)]
  BY TopIs DEF TypeOK
<1>2. /\ SubSeq(s, 1, Len(s) - 1) \in Seq(Level)
      /\ Len(SubSeq(s, 1, Len(s) - 1)) = Len(s) - 1
      /\ \A k \in 1 .. Len(s) - 1 : SubSeq(s, 1, Len(s) - 1)[k] = s[k]
  <2> HIDE DEF s
  <2> QED BY <1>1, SeqDrop
<1> QED BY <1>1, <1>2, Zenon DEF Pop

\* The task a worker enters goes on top of stack f[w].
LEMMA PushIs ==
  ASSUME NEW f \in [Workers -> Seq(Level)], NEW w \in Workers, NEW t \in Ids
  PROVE  LET g == [f EXCEPT ![w] = Append(f[w], Frame(t, "engine", None))] IN
         /\ g \in [Workers -> Seq(Level)]
         /\ \A v \in Workers \ {w} : g[v] = f[v]
         /\ Len(f[w]) \in Nat
         /\ Len(g[w]) = Len(f[w]) + 1
         /\ \A k \in 1 .. Len(f[w]) : g[w][k] = f[w][k]
         /\ g[w][Len(f[w]) + 1] = Frame(t, "engine", None)
<1> DEFINE x == Frame(t, "engine", None)
<1>1. x \in Level /\ f[w] \in Seq(Level)
  BY Zenon DEF Level, Frame, Places
<1>2. /\ Append(f[w], x) \in Seq(Level) /\ Len(Append(f[w], x)) = Len(f[w]) + 1
      /\ \A k \in 1 .. Len(f[w]) : Append(f[w], x)[k] = f[w][k]
      /\ Append(f[w], x)[Len(f[w]) + 1] = x
      /\ Len(f[w]) \in Nat
  <2> HIDE DEF x
  <2> QED BY <1>1, SeqAppend, SeqLen
<1> HIDE DEF x
<1> QED BY <1>1, <1>2, Zenon DEF x

-----------------------------------------------------------------------------
(* The inductive invariant of the engines *)

\* The programs use channels; they only fork and join.
Channels == {"send", "recv"} \cap Ops # {}

\* No task waits on a channel inside a nested engine: coco_g_await_here and
\* coco_g_wait_resume are not used, or no send and no receive is.
NoNestedChannel == "nested" \notin Ops \/ ~Channels

\* Programs that fork and join: a task awaits only younger ones, and there are no channels.
ForkJoin == "child" \in Ops /\ ~Channels

\* A level l of the stack of worker w fits its task: the task is the worker's, it is ready
\* while its engine runs and nested while it waits in coco_g_await_here, and it is not done,
\* but for the main task that coco_g_deadlock has ended.
LevelFits(T, n, w, l) ==
  /\ l.task \in 0 .. n - 1 /\ T[l.task].worker = w
  /\ l.at \in {"engine", "unwind"} \/ ("nested" \in Ops /\ l.at \in {"toawait", "await"})
  /\ l.at = "await" => T[l.task].state = "nested"
  /\ l.at \in {"engine", "toawait"} => T[l.task].state = "ready"
  /\ T[l.task].state = "done" => l.task = Main /\ ~ForkJoin

\* Every level fits, all but the top of a stack wait in coco_g_await_here, no task is on a
\* stack twice, and every nested waiter is on one.
StackOK(T, f, n) ==
  /\ \A w \in Workers : \A k \in 1 .. Len(f[w]) :
       LevelFits(T, n, w, f[w][k]) /\ (k < Len(f[w]) => f[w][k].at = "await")
  /\ \A w \in Workers : \A j, k \in 1 .. Len(f[w]) : f[w][j].task = f[w][k].task => j = k
  /\ \A i \in 0 .. n - 1 : T[i].state = "nested" =>
       \E w \in Workers : \E k \in 1 .. Len(f[w]) : f[w][k].task = i /\ f[w][k].at = "await"

\* Whoever awaits is blocked on a task that is not done; on a younger one, where only
\* children are awaited.
AwaitOK(T, n) ==
  \A i \in 0 .. n - 1 : T[i].block = "await" =>
    /\ T[i].state = "blocked" /\ T[i].wait_on \in 0 .. n - 1
    /\ T[T[i].wait_on].state # "done"
    /\ "child" \in Ops => T[i].wait_on > i

\* With forks and joins only, a blocked task is one that awaits, and main_done says that the
\* main task is done.
JoinOK(T, n, md) ==
  ForkJoin =>
    /\ \A i \in 0 .. n - 1 : /\ T[i].block \in {"none", "await", "yield"}
                             /\ T[i].state = "blocked" => T[i].block = "await"
    /\ md <=> (n > 0 /\ T[Main].state = "done")

\* Table U is T with task c replaced by x.
Sets(T, U, c, x) == U \in [Ids -> Task] /\ U[c] = x /\ \A i \in Ids \ {c} : U[i] = T[i]

\* Writing one task is one such change.
LEMMA SetsOne ==
  ASSUME NEW T \in [Ids -> Task], NEW c \in Ids, NEW x \in Task
  PROVE  Sets(T, [T EXCEPT ![c] = x], c, x)
  BY SetOne DEF Sets

\* No task is on the list of a channel.
NoLists == \A c \in Chans : chan[c].senders = <<>> /\ chan[c].receivers = <<>>

\* The invariant of the task table T, the stacks f, the n tasks and the flag md,
Good(T, f, n, md) == StackOK(T, f, n) /\ AwaitOK(T, n) /\ JoinOK(T, n, md)

\* and of the world.
EngineInv ==
  /\ TypeOK
  /\ Good(th, frames, nthreads, main_done)
  /\ ~Channels => NoLists

\* What the invariant says of the task on top of a worker's stack.
LEMMA TopFits ==
  ASSUME EngineInv, NEW w \in Workers, Inside(w)
  PROVE  /\ Cur(w) \in 0 .. nthreads - 1 /\ Cur(w) \in Used /\ Cur(w) \in Ids
         /\ th[Cur(w)] \in Task
         /\ LevelFits(th, nthreads, w, Top(w)) /\ th[Cur(w)].worker = w
         /\ Top(w).at \in {"engine", "toawait"} => th[Cur(w)].state = "ready"
         /\ Top(w).at = "await" <=> th[Cur(w)].state = "nested"
         /\ Top(w).at \in {"engine", "unwind"} \/ ("nested" \in Ops /\ Top(w).at \in {"toawait", "await"})
         /\ nthreads \in Nat /\ nthreads \in 0 .. MaxTasks
         /\ th \in [Ids -> Task] /\ frames \in [Workers -> Seq(Level)]
         /\ frames[w] # <<>> /\ frames[w][Len(frames[w])].task = Cur(w)
<1>1. /\ Len(frames[w]) \in 1 .. Len(frames[w]) /\ Cur(w) \in Ids /\ frames[w] # <<>>
      /\ Len(frames[w]) \in Nat
  BY TopIs DEF EngineInv, Good
<1>2. LevelFits(th, nthreads, w, Top(w))
  BY <1>1 DEF EngineInv, Good, StackOK, Top
<1>3. th \in [Ids -> Task] /\ nthreads \in Nat /\ nthreads \in 0 .. MaxTasks
      /\ frames \in [Workers -> Seq(Level)]
  BY Constants DEF EngineInv, Good, TypeOK
<1>4. /\ Cur(w) \in 0 .. nthreads - 1 /\ th[Cur(w)].worker = w
      /\ Top(w).at \in {"engine", "toawait"} => th[Cur(w)].state = "ready"
      /\ Top(w).at = "await" => th[Cur(w)].state = "nested"
      /\ Top(w).at \in {"engine", "unwind"} \/ ("nested" \in Ops /\ Top(w).at \in {"toawait", "await"})
  BY <1>2 DEF LevelFits, Cur
<1>5. ASSUME th[Cur(w)].state = "nested" PROVE Top(w).at = "await"
  <2>1. PICK v \in Workers : \E k \in 1 .. Len(frames[v]) :
           frames[v][k].task = Cur(w) /\ frames[v][k].at = "await"
    BY <1>4, <1>5 DEF EngineInv, Good, StackOK
  <2>2. PICK k \in 1 .. Len(frames[v]) : frames[v][k].task = Cur(w) /\ frames[v][k].at = "await"
    BY <2>1
  <2>3. v = w
    BY <1>4, <2>2 DEF EngineInv, Good, StackOK, LevelFits
  <2>4. k = Len(frames[w])
    BY <1>1, <2>2, <2>3 DEF EngineInv, Good, StackOK, Cur, Top
  <2> QED BY <2>2, <2>3, <2>4 DEF Top
<1> QED BY <1>1, <1>2, <1>3, <1>4, <1>5 DEF Used, Cur, Top

-----------------------------------------------------------------------------
(* The stacks *)

\* From table T to U the tasks outside S keep what a stack level asks of them.
Keeps(T, U, n, S) ==
  \A i \in (0 .. n - 1) \ S :
    /\ U[i].worker = T[i].worker
    /\ T[i].state = "ready" => U[i].state = "ready"
    /\ T[i].state = "nested" <=> U[i].state = "nested"
    /\ U[i].state = "done" => T[i].state = "done" \/ (i = Main /\ ~ForkJoin)

\* A step that keeps the stacks and what they ask of their tasks keeps the stacks right.
LEMMA StackKeep ==
  ASSUME NEW T, NEW U, NEW f \in [Workers -> Seq(Level)], NEW n \in Nat, NEW m \in Nat, n <= m,
         StackOK(T, f, n), Keeps(T, U, n, {}),
         \A i \in n .. m - 1 : U[i].state # "nested"
  PROVE  StackOK(U, f, m)
<1>1. \A w \in Workers : Len(f[w]) \in Nat
  BY SeqLen
<1>2. ASSUME NEW w \in Workers, NEW k \in 1 .. Len(f[w])
      PROVE  LevelFits(U, m, w, f[w][k]) /\ (k < Len(f[w]) => f[w][k].at = "await")
  BY DEF StackOK, Keeps, LevelFits
<1>3. ASSUME NEW i \in 0 .. m - 1, U[i].state = "nested"
      PROVE  \E w \in Workers : \E k \in 1 .. Len(f[w]) : f[w][k].task = i /\ f[w][k].at = "await"
  BY <1>3 DEF StackOK, Keeps
<1> QED BY <1>2, <1>3 DEF StackOK

\* So does one that changes the top of one worker's stack and its task,
LEMMA StackTop ==
  ASSUME NEW T, NEW U, NEW n \in Nat, NEW w \in Workers, NEW c,
         NEW f \in [Workers -> Seq(Level)], NEW g \in [Workers -> Seq(Level)],
         f[w] # <<>>, f[w][Len(f[w])].task = c,
         StackOK(T, f, n), Keeps(T, U, n, {c}),
         \A v \in Workers \ {w} : g[v] = f[v],
         Len(g[w]) = Len(f[w]),
         \A k \in 1 .. Len(f[w]) - 1 : g[w][k] = f[w][k],
         g[w][Len(f[w])].task = c,
         LevelFits(U, n, w, g[w][Len(f[w])]),
         U[c].state = "nested" => g[w][Len(f[w])].at = "await"
  PROVE  StackOK(U, g, n)
<1>1. \A v \in Workers : Len(f[v]) \in Nat /\ Len(g[v]) = Len(f[v])
  BY SeqLen
<1>2. Len(f[w]) >= 1 /\ Len(f[w]) \in 1 .. Len(f[w]) /\ LevelFits(T, n, w, f[w][Len(f[w])])
  BY <1>1, SeqLast DEF StackOK
<1>3. ASSUME NEW v \in Workers, NEW k \in 1 .. Len(f[v])
      PROVE  g[v][k].task = f[v][k].task /\ (f[v][k].task # c => g[v][k] = f[v][k])
  <2>1. CASE v # w
    BY <2>1
  <2>2. CASE v = w /\ k = Len(f[w])
    BY <2>2
  <2>3. CASE v = w /\ k # Len(f[w])
    <3>1. k \in 1 .. Len(f[w]) - 1
      BY <1>1, <2>3, SMTT(30)
    <3> QED BY <2>3, <3>1
  <2> QED BY <2>1, <2>2, <2>3
<1>4. \A v \in Workers : \A k \in 1 .. Len(f[v]) :
        f[v][k].task = c => v = w /\ k = Len(f[w])
  BY <1>1, <1>2 DEF StackOK, LevelFits
<1>6. ASSUME NEW v \in Workers, NEW k \in 1 .. Len(f[v])
      PROVE  LevelFits(U, n, v, g[v][k]) /\ (k < Len(g[v]) => g[v][k].at = "await")
  <2>1. CASE f[v][k].task = c
    BY <1>1, <1>4, <2>1
  <2>2. CASE f[v][k].task # c
    <3>1. g[v][k] = f[v][k] /\ LevelFits(T, n, v, f[v][k]) /\ (k < Len(f[v]) => f[v][k].at = "await")
      BY <1>3, <2>2, SMTT(30) DEF StackOK
    <3>2. LevelFits(U, n, v, f[v][k])
      BY <2>2, <3>1 DEF Keeps, LevelFits
    <3> QED BY <1>1, <3>1, <3>2
  <2> QED BY <2>1, <2>2
<1>7. \A v \in Workers : \A j, k \in 1 .. Len(g[v]) : g[v][j].task = g[v][k].task => j = k
  <2> TAKE v \in Workers
  <2> TAKE j, k \in 1 .. Len(g[v])
  <2> QED BY <1>1, <1>3 DEF StackOK
<1>8. ASSUME NEW i \in 0 .. n - 1, U[i].state = "nested"
      PROVE  \E v \in Workers : \E k \in 1 .. Len(g[v]) : g[v][k].task = i /\ g[v][k].at = "await"
  <2>1. CASE i = c
    BY <1>1, <1>2, <1>8, <2>1
  <2>2. CASE i # c
    <3>1. T[i].state = "nested"
      BY <1>8, <2>2 DEF Keeps
    <3>2. PICK v \in Workers : \E k \in 1 .. Len(f[v]) : f[v][k].task = i /\ f[v][k].at = "await"
      BY <3>1 DEF StackOK
    <3> QED BY <3>2, <2>2, <1>1, <1>3
  <2> QED BY <2>1, <2>2
<1>9. \A v \in Workers : \A k \in 1 .. Len(g[v]) :
        LevelFits(U, n, v, g[v][k]) /\ (k < Len(g[v]) => g[v][k].at = "await")
  BY <1>1, <1>6
<1> QED BY <1>7, <1>8, <1>9, Zenon DEF StackOK

\* one that takes the top off (the end of coco_g_run),
LEMMA StackPop ==
  ASSUME NEW T, NEW U, NEW n \in Nat, NEW w \in Workers, NEW c,
         NEW f \in [Workers -> Seq(Level)], NEW g \in [Workers -> Seq(Level)],
         f[w] # <<>>, f[w][Len(f[w])].task = c,
         StackOK(T, f, n), Keeps(T, U, n, {c}),
         \A v \in Workers \ {w} : g[v] = f[v],
         Len(g[w]) = Len(f[w]) - 1,
         \A k \in 1 .. Len(f[w]) - 1 : g[w][k] = f[w][k],
         U[c].state # "nested"
  PROVE  StackOK(U, g, n)
<1>1. \A v \in Workers : Len(f[v]) \in Nat /\ Len(g[v]) \in Nat /\ Len(g[v]) <= Len(f[v])
  BY SeqLen, SMTT(30)
<1>2. Len(f[w]) >= 1 /\ Len(f[w]) \in 1 .. Len(f[w]) /\ LevelFits(T, n, w, f[w][Len(f[w])])
  BY <1>1, SeqLast DEF StackOK
<1>4. \A v \in Workers : \A k \in 1 .. Len(f[v]) :
        f[v][k].task = c => v = w /\ k = Len(f[w])
  BY <1>1, <1>2, SMTT(30) DEF StackOK, LevelFits
<1>5. ASSUME NEW v \in Workers, NEW k \in 1 .. Len(g[v])
      PROVE  k \in 1 .. Len(f[v]) /\ g[v][k] = f[v][k] /\ f[v][k].task # c
  <2>1. k \in 1 .. Len(f[v]) /\ (v = w => k \in 1 .. Len(f[w]) - 1)
    BY <1>1
  <2>2. g[v][k] = f[v][k]
    BY <2>1
  <2>3. v = w => k # Len(f[w])
    BY <1>1, <2>1
  <2> QED BY <2>1, <2>2, <2>3, <1>4
<1>6. ASSUME NEW v \in Workers, NEW k \in 1 .. Len(g[v])
      PROVE  LevelFits(U, n, v, g[v][k]) /\ (k < Len(g[v]) => g[v][k].at = "await")
  <2>1. k \in 1 .. Len(f[v]) /\ g[v][k] = f[v][k] /\ f[v][k].task # c
    BY <1>5
  <2>2. LevelFits(T, n, v, f[v][k]) /\ (k < Len(f[v]) => f[v][k].at = "await")
    BY <2>1 DEF StackOK
  <2>3. LevelFits(U, n, v, f[v][k])
    BY <2>1, <2>2, Zenon DEF Keeps, LevelFits
  <2> QED BY <1>1, <2>1, <2>2, <2>3
<1>7. \A v \in Workers : \A j, k \in 1 .. Len(g[v]) : g[v][j].task = g[v][k].task => j = k
  <2> TAKE v \in Workers
  <2> TAKE j, k \in 1 .. Len(g[v])
  <2>1. /\ j \in 1 .. Len(f[v]) /\ k \in 1 .. Len(f[v])
        /\ g[v][j] = f[v][j] /\ g[v][k] = f[v][k]
    BY <1>5
  <2>2. f[v][j].task = f[v][k].task => j = k
    BY <2>1 DEF StackOK
  <2> QED BY <2>1, <2>2
<1>8. ASSUME NEW i \in 0 .. n - 1, U[i].state = "nested"
      PROVE  \E v \in Workers : \E k \in 1 .. Len(g[v]) : g[v][k].task = i /\ g[v][k].at = "await"
  <2>1. i # c /\ T[i].state = "nested"
    BY <1>8, Zenon DEF Keeps
  <2>2. PICK v \in Workers : \E k \in 1 .. Len(f[v]) : f[v][k].task = i /\ f[v][k].at = "await"
    BY <2>1 DEF StackOK
  <2>3. PICK k \in 1 .. Len(f[v]) : f[v][k].task = i /\ f[v][k].at = "await"
    BY <2>2
  <2>4. v = w => k # Len(f[w])
    BY <2>1, <2>3
  <2>5. k \in 1 .. Len(g[v])
    BY <2>2, <2>3, <2>4, <1>1
  <2>6. g[v][k] = f[v][k]
    BY <2>2, <2>5, <1>5
  <2> QED BY <2>2, <2>3, <2>5, <2>6
<1> QED BY <1>6, <1>7, <1>8, Zenon DEF StackOK

\* and one that puts a ready task of the worker's own on (the start of coco_g_run).
LEMMA StackPush ==
  ASSUME NEW T, NEW U, NEW n \in Nat, NEW w \in Workers, NEW c \in 0 .. n - 1,
         NEW f \in [Workers -> Seq(Level)], NEW g \in [Workers -> Seq(Level)],
         f[w] # <<>> => f[w][Len(f[w])].at = "await",
         StackOK(T, f, n), Keeps(T, U, n, {}),
         T[c].worker = w, T[c].state = "ready",
         \A v \in Workers \ {w} : g[v] = f[v],
         Len(g[w]) = Len(f[w]) + 1,
         \A k \in 1 .. Len(f[w]) : g[w][k] = f[w][k],
         g[w][Len(f[w]) + 1] = Frame(c, "engine", None)
  PROVE  StackOK(U, g, n)
<1>0. StackOK(U, f, n)
  BY StackKeep, SMTT(30)
<1>1. \A v \in Workers : Len(f[v]) \in Nat /\ Len(g[v]) \in Nat /\ Len(f[v]) <= Len(g[v])
  <2> TAKE v \in Workers
  <2>1. f[v] \in Seq(Level) /\ g[v] \in Seq(Level)
    OBVIOUS
  <2>2. Len(f[v]) \in Nat /\ Len(g[v]) \in Nat
    BY <2>1, SeqLen
  <2>3. CASE v = w
    BY <2>2, <2>3
  <2>4. CASE v # w
    BY <2>2, <2>4
  <2> QED BY <2>3, <2>4
<1>2. \A k \in 1 .. Len(f[w]) : f[w][k].at = "await" /\ f[w][k].task # c
  <2> TAKE k \in 1 .. Len(f[w])
  <2>1. f[w][k].at = "await"
    BY <1>1 DEF StackOK
  <2> QED BY <2>1 DEF StackOK, LevelFits
<1>3. \A v \in Workers : \A k \in 1 .. Len(f[v]) : k \in 1 .. Len(g[v]) /\ g[v][k] = f[v][k]
  BY <1>1, SMTT(30)
<1>4. \A v \in Workers : \A k \in 1 .. Len(g[v]) :
         k \in 1 .. Len(f[v]) \/ (v = w /\ k = Len(f[w]) + 1)
  BY <1>1
<1>5. U[c].state = "ready" /\ U[c].worker = w
  BY DEF Keeps
<1>6. LevelFits(U, n, w, Frame(c, "engine", None)) /\ Frame(c, "engine", None).task = c
  BY <1>5 DEF LevelFits, Frame
<1>7. ASSUME NEW v \in Workers, NEW k \in 1 .. Len(g[v])
      PROVE  LevelFits(U, n, v, g[v][k]) /\ (k < Len(g[v]) => g[v][k].at = "await")
  <2>1. CASE k \in 1 .. Len(f[v])
    <3>1. LevelFits(U, n, v, f[v][k]) /\ (k < Len(f[v]) => f[v][k].at = "await")
      BY <1>0, <2>1 DEF StackOK
    <3>2. g[v][k] = f[v][k]
      BY <1>3, <2>1
    <3>3. k < Len(g[v]) => f[v][k].at = "await"
      <4>1. CASE v = w
        BY <1>2, <2>1, <4>1
      <4>2. CASE v # w
        BY <3>1, <4>2
      <4> QED BY <4>1, <4>2
    <3> QED BY <3>1, <3>2, <3>3
  <2>2. CASE v = w /\ k = Len(f[w]) + 1
    BY <1>1, <1>6, <2>2
  <2> QED BY <1>4, <2>1, <2>2
<1>8. \A v \in Workers : \A j, k \in 1 .. Len(g[v]) : g[v][j].task = g[v][k].task => j = k
  <2> TAKE v \in Workers
  <2> TAKE j, k \in 1 .. Len(g[v])
  <2>1. CASE j \in 1 .. Len(f[v]) /\ k \in 1 .. Len(f[v])
    BY <2>1, <1>3 DEF StackOK
  <2>2. CASE j = Len(f[w]) + 1 /\ v = w
    BY <2>2, <1>1, <1>2, <1>3, <1>4, <1>6
  <2>3. CASE k = Len(f[w]) + 1 /\ v = w
    BY <2>3, <1>1, <1>2, <1>3, <1>4, <1>6
  <2> QED BY <1>4, <2>1, <2>2, <2>3
<1>9. ASSUME NEW i \in 0 .. n - 1, U[i].state = "nested"
      PROVE  \E v \in Workers : \E k \in 1 .. Len(g[v]) : g[v][k].task = i /\ g[v][k].at = "await"
  <2>1. PICK v \in Workers : \E k \in 1 .. Len(f[v]) : f[v][k].task = i /\ f[v][k].at = "await"
    BY <1>0, <1>9, Zenon DEF StackOK
  <2>2. PICK k \in 1 .. Len(f[v]) : f[v][k].task = i /\ f[v][k].at = "await"
    BY <2>1
  <2> QED BY <2>2, <1>3
<1> QED BY <1>7, <1>8, <1>9, Zenon DEF StackOK

-----------------------------------------------------------------------------
(* The task table *)

\* What a step that changes one task may make of it.
Fits(T, n, c, x) ==
  /\ x \in Task /\ x.worker = T[c].worker /\ x.state # "done"
  /\ x.block = "await" => /\ x.state = "blocked" /\ x.wait_on \in 0 .. n - 1
                          /\ T[x.wait_on].state # "done"
                          /\ "child" \in Ops => x.wait_on > c
  /\ ForkJoin => /\ x.block \in {"none", "await", "yield"}
                 /\ x.state = "blocked" => x.block = "await"
                 /\ T[c].state # "done"

\* A step that changes one task, not to done, keeps the waiters waiting for tasks that run.
LEMMA TableOne ==
  ASSUME NEW T \in [Ids -> Task], NEW n \in 0 .. MaxTasks, NEW md, NEW c \in 0 .. n - 1, NEW x,
         NEW U, Sets(T, U, c, x),
         AwaitOK(T, n), JoinOK(T, n, md), Fits(T, n, c, x)
  PROVE  AwaitOK(U, n) /\ JoinOK(U, n, md) /\ Keeps(T, U, n, {c})
<1>1. 0 .. n - 1 \subseteq Ids /\ c \in Ids /\ x \in Task /\ n \in Nat
  BY Constants DEF Ids, Fits
<1>2. U[c] = x /\ \A i \in Ids \ {c} : U[i] = T[i]
  BY DEF Sets
<1>3. \A i \in 0 .. n - 1 : U[i].state = "done" => T[i].state = "done"
  BY <1>1, <1>2 DEF Fits
<1>4. AwaitOK(U, n)
  <2> SUFFICES ASSUME NEW i \in 0 .. n - 1, U[i].block = "await"
               PROVE  /\ U[i].state = "blocked" /\ U[i].wait_on \in 0 .. n - 1
                      /\ U[U[i].wait_on].state # "done"
                      /\ "child" \in Ops => U[i].wait_on > i
    BY DEF AwaitOK
  <2>1. CASE i = c
    BY <1>2, <1>3, <2>1 DEF Fits
  <2>2. CASE i # c
    <3>1. U[i] = T[i]
      BY <1>1, <1>2, <2>2
    <3> QED BY <1>3, <3>1 DEF AwaitOK
  <2> QED BY <2>1, <2>2
<1>5. JoinOK(U, n, md)
  <2> SUFFICES ASSUME ForkJoin
               PROVE  /\ \A i \in 0 .. n - 1 : /\ U[i].block \in {"none", "await", "yield"}
                                               /\ U[i].state = "blocked" => U[i].block = "await"
                      /\ md <=> (n > 0 /\ U[Main].state = "done")
    BY DEF JoinOK
  <2>1. ASSUME NEW i \in 0 .. n - 1
        PROVE  /\ U[i].block \in {"none", "await", "yield"}
               /\ U[i].state = "blocked" => U[i].block = "await"
    BY <1>1, <1>2 DEF JoinOK, Fits
  <2>2. n > 0 /\ Main \in Ids
    BY <1>1, Constants
  <2>3. U[Main].state = "done" <=> T[Main].state = "done"
    BY <1>2, <2>2 DEF Fits
  <2> QED BY <2>1, <2>2, <2>3 DEF JoinOK
<1>6. Keeps(T, U, n, {c})
  BY <1>1, <1>2 DEF Keeps
<1> QED BY <1>4, <1>5, <1>6

-----------------------------------------------------------------------------
(* One channel *)

\* A channel, field by field.
Chan(q, b, k, s, r, o, g) ==
  [q EXCEPT !.buf = b, !.closed = k, !.senders = s, !.receivers = r, !.offered = o, !.got = g]

\* A channel with its fields set is a channel.
LEMMA ChanIs ==
  ASSUME NEW q \in Channel, NEW b \in Seq(Nat), NEW k \in BOOLEAN, NEW s \in Seq(Ids), NEW r \in Seq(Ids),
         NEW o \in Nat, NEW g \in Seq(Nat)
  PROVE  /\ Chan(q, b, k, s, r, o, g) \in Channel
         /\ Chan(q, b, k, s, r, o, g).buf = b /\ Chan(q, b, k, s, r, o, g).closed = k
         /\ Chan(q, b, k, s, r, o, g).senders = s /\ Chan(q, b, k, s, r, o, g).receivers = r
         /\ Chan(q, b, k, s, r, o, g).offered = o /\ Chan(q, b, k, s, r, o, g).got = g
  BY Zenon DEF Chan, Channel

\* The fields of a channel of the world's table.
LEMMA ChannelIs ==
  ASSUME NEW q \in Channel
  PROVE  /\ q.buf \in Seq(Nat) /\ q.closed \in BOOLEAN /\ q.senders \in Seq(Ids)
         /\ q.receivers \in Seq(Ids) /\ q.offered \in Nat /\ q.got \in Seq(Nat)
  BY DEF Channel

\* The channel after each of the builtins' updates: a message passed to the first
\* receiver, put into the ring, or left with its blocked sender; one taken from
\* the ring, the ring refilled by the first sender, one taken from that sender; a
\* receiver blocked; the channel closed.
Passed(q) == Chan(q, q.buf, q.closed, q.senders, Tail(q.receivers), q.offered + 1,
                  Append(q.got, q.offered + 1))
Buffered(q) == Chan(q, Append(q.buf, q.offered + 1), q.closed, q.senders, q.receivers,
                    q.offered + 1, q.got)
Queued(q, i) == Chan(q, q.buf, q.closed, Append(q.senders, i), q.receivers, q.offered + 1, q.got)
Taken(q) == Chan(q, Tail(q.buf), q.closed, q.senders, q.receivers, q.offered,
                 Append(q.got, Head(q.buf)))
Refilled(q, v) == Chan(q, Append(Tail(q.buf), v), q.closed, Tail(q.senders), q.receivers,
                       q.offered, Append(q.got, Head(q.buf)))
Handed(q, v) == Chan(q, q.buf, q.closed, Tail(q.senders), q.receivers, q.offered,
                     Append(q.got, v))
Parked(q, i) == Chan(q, q.buf, q.closed, q.senders, Append(q.receivers, i), q.offered, q.got)
Shut(q) == Chan(q, q.buf, TRUE, <<>>, <<>>, q.offered, q.got)

\* Each of them is a channel.
LEMMA ChanTypes ==
  ASSUME NEW q \in Channel, NEW i \in Ids, NEW v \in Nat
  PROVE  /\ q.receivers # <<>> => Head(q.receivers) \in Ids /\ Passed(q) \in Channel
         /\ Buffered(q) \in Channel /\ Queued(q, i) \in Channel
         /\ q.buf # <<>> => Taken(q) \in Channel
         /\ q.senders # <<>> => Head(q.senders) \in Ids /\ Handed(q, v) \in Channel
         /\ q.buf # <<>> /\ q.senders # <<>> => Refilled(q, v) \in Channel
         /\ Parked(q, i) \in Channel /\ Shut(q) \in Channel
         /\ q.offered + 1 \in Nat
<1>0. /\ q.buf \in Seq(Nat) /\ q.closed \in BOOLEAN /\ q.senders \in Seq(Ids)
      /\ q.receivers \in Seq(Ids) /\ q.offered \in Nat /\ q.got \in Seq(Nat)
      /\ q.offered + 1 \in Nat
  BY ChannelIs
<1> DEFINE o == q.offered + 1
<1>1. q.receivers # <<>> => Head(q.receivers) \in Ids /\ Tail(q.receivers) \in Seq(Ids)
  BY <1>0, SeqTail
<1>2. q.senders # <<>> => Head(q.senders) \in Ids /\ Tail(q.senders) \in Seq(Ids)
  BY <1>0, SeqTail
<1>3. q.buf # <<>> => /\ Head(q.buf) \in Nat /\ Tail(q.buf) \in Seq(Nat)
                      /\ Append(q.got, Head(q.buf)) \in Seq(Nat)
                      /\ Append(Tail(q.buf), v) \in Seq(Nat)
  BY <1>0, SeqTail, SeqAppend
<1>4. /\ Append(q.got, o) \in Seq(Nat) /\ Append(q.buf, o) \in Seq(Nat)
      /\ Append(q.got, v) \in Seq(Nat)
      /\ Append(q.senders, i) \in Seq(Ids) /\ Append(q.receivers, i) \in Seq(Ids)
      /\ <<>> \in Seq(Ids) /\ TRUE \in BOOLEAN /\ o \in Nat
  <2> HIDE DEF o
  <2> QED BY <1>0, SeqAppend DEF o
<1>5. q.receivers # <<>> => Passed(q) \in Channel
  BY <1>0, <1>1, <1>4, Zenon DEF Passed, Chan, Channel
<1>6. Buffered(q) \in Channel
  BY <1>0, <1>4, Zenon DEF Buffered, Chan, Channel
<1>7. Queued(q, i) \in Channel
  BY <1>0, <1>4, Zenon DEF Queued, Chan, Channel
<1>8. q.buf # <<>> => Taken(q) \in Channel
  BY <1>0, <1>3, <1>4, Zenon DEF Taken, Chan, Channel
<1>9. q.senders # <<>> => Handed(q, v) \in Channel
  BY <1>0, <1>2, <1>4, Zenon DEF Handed, Chan, Channel
<1>10. q.buf # <<>> /\ q.senders # <<>> => Refilled(q, v) \in Channel
  BY <1>0, <1>2, <1>3, Zenon DEF Refilled, Chan, Channel
<1>11. Parked(q, i) \in Channel
  BY <1>0, <1>4, Zenon DEF Parked, Chan, Channel
<1>12. Shut(q) \in Channel
  BY <1>0, <1>4, Zenon DEF Shut, Chan, Channel
<1> QED BY <1>0, <1>1, <1>2, <1>5, <1>6, <1>7, <1>8, <1>9, <1>10, <1>11, <1>12

\* The fields of a channel after an update: a message passed to the first receiver.
LEMMA PassedIs ==
  ASSUME NEW q \in Channel
  PROVE  /\ Passed(q).buf = q.buf /\ Passed(q).closed = q.closed
         /\ Passed(q).senders = q.senders /\ Passed(q).receivers = Tail(q.receivers)
         /\ Passed(q).offered = q.offered + 1 /\ Passed(q).got = Append(q.got, q.offered + 1)
  BY DEF Passed, Chan, Channel

\* The fields of a channel after an update: a message put into the ring.
LEMMA BufferedIs ==
  ASSUME NEW q \in Channel
  PROVE  /\ Buffered(q).buf = Append(q.buf, q.offered + 1) /\ Buffered(q).closed = q.closed
         /\ Buffered(q).senders = q.senders /\ Buffered(q).receivers = q.receivers
         /\ Buffered(q).offered = q.offered + 1 /\ Buffered(q).got = q.got
  BY DEF Buffered, Chan, Channel

\* The fields of a channel after an update: a sender blocked with its message.
LEMMA QueuedIs ==
  ASSUME NEW q \in Channel, NEW i
  PROVE  /\ Queued(q, i).buf = q.buf /\ Queued(q, i).closed = q.closed
         /\ Queued(q, i).senders = Append(q.senders, i) /\ Queued(q, i).receivers = q.receivers
         /\ Queued(q, i).offered = q.offered + 1 /\ Queued(q, i).got = q.got
  BY DEF Queued, Chan, Channel

\* The fields of a channel after an update: a message taken from the ring.
LEMMA TakenIs ==
  ASSUME NEW q \in Channel
  PROVE  /\ Taken(q).buf = Tail(q.buf) /\ Taken(q).closed = q.closed
         /\ Taken(q).senders = q.senders /\ Taken(q).receivers = q.receivers
         /\ Taken(q).offered = q.offered /\ Taken(q).got = Append(q.got, Head(q.buf))
  BY DEF Taken, Chan, Channel

\* The fields of a channel after an update: the first sender fills the slot a receive freed (coco_g_move_sender).
LEMMA RefilledIs ==
  ASSUME NEW q \in Channel, NEW v
  PROVE  /\ Refilled(q, v).buf = Append(Tail(q.buf), v) /\ Refilled(q, v).closed = q.closed
         /\ Refilled(q, v).senders = Tail(q.senders) /\ Refilled(q, v).receivers = q.receivers
         /\ Refilled(q, v).offered = q.offered /\ Refilled(q, v).got = Append(q.got, Head(q.buf))
  BY DEF Refilled, Chan, Channel

\* The fields of a channel after an update: a message taken from the first sender.
LEMMA HandedIs ==
  ASSUME NEW q \in Channel, NEW v
  PROVE  /\ Handed(q, v).buf = q.buf /\ Handed(q, v).closed = q.closed
         /\ Handed(q, v).senders = Tail(q.senders) /\ Handed(q, v).receivers = q.receivers
         /\ Handed(q, v).offered = q.offered /\ Handed(q, v).got = Append(q.got, v)
  BY DEF Handed, Chan, Channel

\* The fields of a channel after an update: a receiver blocked.
LEMMA ParkedIs ==
  ASSUME NEW q \in Channel, NEW i
  PROVE  /\ Parked(q, i).buf = q.buf /\ Parked(q, i).closed = q.closed
         /\ Parked(q, i).senders = q.senders /\ Parked(q, i).receivers = Append(q.receivers, i)
         /\ Parked(q, i).offered = q.offered /\ Parked(q, i).got = q.got
  BY DEF Parked, Chan, Channel

\* The fields of a channel after an update: the channel closed.
LEMMA ShutIs ==
  ASSUME NEW q \in Channel
  PROVE  /\ Shut(q).buf = q.buf /\ Shut(q).closed = TRUE
         /\ Shut(q).senders = <<>> /\ Shut(q).receivers = <<>>
         /\ Shut(q).offered = q.offered /\ Shut(q).got = q.got
  BY DEF Shut, Chan, Channel

\* ChannelShape, of a channel of size n.
Shape(q, n) ==
  /\ q.receivers # <<>> => q.buf = <<>> /\ q.senders = <<>>
  /\ q.senders # <<>> => Len(q.buf) = n
  /\ Len(q.buf) <= n
  /\ q.closed => q.senders = <<>> /\ q.receivers = <<>>

\* Every update that coco_g_async_send, coco_g_async_recv and coco_g_chan_close
\* make, in the case they make it, keeps the shape.
LEMMA ShapeOps ==
  ASSUME NEW q \in Channel, NEW n \in Nat, NEW i, NEW v \in Nat, Shape(q, n)
  PROVE  /\ ~q.closed /\ q.receivers # <<>> => Shape(Passed(q), n)
         /\ ~q.closed /\ q.receivers = <<>> /\ Len(q.buf) < n => Shape(Buffered(q), n)
         /\ ~q.closed /\ q.receivers = <<>> /\ Len(q.buf) >= n => Shape(Queued(q, i), n)
         /\ q.buf # <<>> /\ q.senders = <<>> => Shape(Taken(q), n)
         /\ q.buf # <<>> /\ q.senders # <<>> => Shape(Refilled(q, v), n)
         /\ q.buf = <<>> /\ q.senders # <<>> => Shape(Handed(q, v), n)
         /\ q.buf = <<>> /\ q.senders = <<>> /\ ~q.closed => Shape(Parked(q, i), n)
         /\ Shape(Shut(q), n)
<1>0. /\ q.buf \in Seq(Nat) /\ q.offered + 1 \in Nat /\ Len(q.buf) \in Nat /\ Len(<<>>) = 0
      /\ Len(q.buf) <= n /\ q.closed \in BOOLEAN
  BY SeqLen DEF Channel, Shape
<1>1. ~q.closed /\ q.receivers # <<>> => Shape(Passed(q), n)
  BY PassedIs DEF Shape
<1>2. ~q.closed /\ q.receivers = <<>> /\ Len(q.buf) < n => Shape(Buffered(q), n)
  <2> DEFINE x == Buffered(q)
  <2>1. /\ x.buf = Append(q.buf, q.offered + 1) /\ x.closed = q.closed
        /\ x.senders = q.senders /\ x.receivers = q.receivers
    BY BufferedIs
  <2>2. Len(x.buf) = Len(q.buf) + 1
    BY <1>0, <2>1, SeqAppend
  <2> HIDE DEF x
  <2>3. ~q.closed /\ q.receivers = <<>> /\ Len(q.buf) < n => Shape(x, n)
    BY <1>0, <2>1, <2>2 DEF Shape
  <2> QED BY <2>3 DEF x
<1>3. ~q.closed /\ q.receivers = <<>> /\ Len(q.buf) >= n => Shape(Queued(q, i), n)
  <2> DEFINE x == Queued(q, i)
  <2>1. /\ x.buf = q.buf /\ x.closed = q.closed
        /\ x.senders = Append(q.senders, i) /\ x.receivers = q.receivers
    BY QueuedIs
  <2> HIDE DEF x
  <2>3. ~q.closed /\ q.receivers = <<>> /\ Len(q.buf) >= n => Shape(x, n)
    BY <1>0, <2>1 DEF Shape
  <2> QED BY <2>3 DEF x
<1>4. q.buf # <<>> /\ q.senders = <<>> => Shape(Taken(q), n)
  <2> DEFINE x == Taken(q)
  <2>1. /\ x.buf = Tail(q.buf) /\ x.closed = q.closed
        /\ x.senders = q.senders /\ x.receivers = q.receivers
    BY TakenIs
  <2>2. q.buf # <<>> => Len(x.buf) = Len(q.buf) - 1
    BY <1>0, <2>1, SeqTail
  <2> HIDE DEF x
  <2>3. q.buf # <<>> /\ q.senders = <<>> => Shape(x, n)
    BY <1>0, <2>1, <2>2 DEF Shape
  <2> QED BY <2>3 DEF x
<1>5. q.buf # <<>> /\ q.senders # <<>> => Shape(Refilled(q, v), n)
  <2> DEFINE x == Refilled(q, v)
  <2>1. /\ x.buf = Append(Tail(q.buf), v) /\ x.closed = q.closed
        /\ x.senders = Tail(q.senders) /\ x.receivers = q.receivers
    BY RefilledIs
  <2>2. q.buf # <<>> => Len(x.buf) = Len(q.buf)
    BY <1>0, <2>1, SeqTail, SeqAppend
  <2> HIDE DEF x
  <2>3. q.buf # <<>> /\ q.senders # <<>> => Shape(x, n)
    BY <1>0, <2>1, <2>2 DEF Shape
  <2> QED BY <2>3 DEF x
<1>6. q.buf = <<>> /\ q.senders # <<>> => Shape(Handed(q, v), n)
  <2> DEFINE x == Handed(q, v)
  <2>1. /\ x.buf = q.buf /\ x.closed = q.closed
        /\ x.senders = Tail(q.senders) /\ x.receivers = q.receivers
    BY HandedIs
  <2> HIDE DEF x
  <2>3. q.buf = <<>> /\ q.senders # <<>> => Shape(x, n)
    BY <1>0, <2>1 DEF Shape
  <2> QED BY <2>3 DEF x
<1>7. q.buf = <<>> /\ q.senders = <<>> /\ ~q.closed => Shape(Parked(q, i), n)
  <2> DEFINE x == Parked(q, i)
  <2>1. /\ x.buf = q.buf /\ x.closed = q.closed
        /\ x.senders = q.senders /\ x.receivers = Append(q.receivers, i)
    BY ParkedIs
  <2> HIDE DEF x
  <2>3. q.buf = <<>> /\ q.senders = <<>> /\ ~q.closed => Shape(x, n)
    BY <1>0, <2>1 DEF Shape
  <2> QED BY <2>3 DEF x
<1>8. Shape(Shut(q), n)
  BY <1>0, ShutIs, Zenon DEF Shape
<1> QED BY <1>1, <1>2, <1>3, <1>4, <1>5, <1>6, <1>7, <1>8

-----------------------------------------------------------------------------
(* The messages of the blocked senders *)

\* The messages, in table T, of the tasks on list s; and those messages are the same
\* in table U.
Msgs(T, s) == [k \in DOMAIN s |-> T[s[k]].send]
Keep(T, U, s) == \A k \in 1 .. Len(s) : U[s[k]].send = T[s[k]].send

\* They are a sequence as long as the list.
LEMMA MsgsIs ==
  ASSUME NEW T \in [Ids -> Task], NEW s \in Seq(Ids)
  PROVE  /\ Msgs(T, s) \in Seq(Nat) /\ Len(Msgs(T, s)) = Len(s) /\ Len(s) \in Nat
         /\ \A k \in 1 .. Len(s) : Msgs(T, s)[k] = T[s[k]].send /\ T[s[k]].send \in Nat
<1>1. /\ Len(s) \in Nat /\ DOMAIN s = 1 .. Len(s)
      /\ \A k \in 1 .. Len(s) : T[s[k]].send \in Nat
  BY SeqLen, TaskIs
<1>2. Msgs(T, s) = [k \in 1 .. Len(s) |-> T[s[k]].send]
  BY <1>1 DEF Msgs
<1> QED BY <1>1, <1>2

\* A list whose tasks keep their messages.
LEMMA MsgsKeep ==
  ASSUME NEW T, NEW U, NEW s \in Seq(Ids), Keep(T, U, s)
  PROVE  Msgs(U, s) = Msgs(T, s)
<1>1. DOMAIN s = 1 .. Len(s)
  BY SeqLen
<1> QED BY <1>1 DEF Msgs, Keep

\* The first sender is served.
LEMMA MsgsTail ==
  ASSUME NEW T \in [Ids -> Task], NEW s \in Seq(Ids), s # <<>>
  PROVE  /\ Msgs(T, s) # <<>> /\ Head(Msgs(T, s)) = T[Head(s)].send
         /\ Msgs(T, Tail(s)) = Tail(Msgs(T, s))
<1> DEFINE m == Msgs(T, s)
           a == Tail(s)
           n == Msgs(T, a)
           b == Tail(m)
<1>1. /\ Head(s) = s[1] /\ Len(s) \in Nat /\ Len(s) >= 1 /\ a \in Seq(Ids) /\ Len(a) = Len(s) - 1
      /\ \A k \in 1 .. Len(s) - 1 : a[k] = s[k + 1]
  BY SeqTail
<1>2. m \in Seq(Nat) /\ Len(m) = Len(s) /\ \A k \in 1 .. Len(s) : m[k] = T[s[k]].send
  BY MsgsIs
<1>3. n \in Seq(Nat) /\ Len(n) = Len(a) /\ \A k \in 1 .. Len(a) : n[k] = T[a[k]].send
  <2> HIDE DEF a
  <2> QED BY <1>1, MsgsIs, Zenon
<1> HIDE DEF m, a, n
<1>4. m # <<>>
  <2>1. Len(<<>>) = 0
    OBVIOUS
  <2> QED BY <1>1, <1>2, <2>1
<1>5. /\ Head(m) = m[1] /\ b \in Seq(Nat) /\ Len(b) = Len(m) - 1
      /\ \A k \in 1 .. Len(m) - 1 : b[k] = m[k + 1]
  BY <1>2, <1>4, SeqTail
<1> HIDE DEF b
<1>6. Len(n) = Len(b) /\ \A k \in 1 .. Len(n) : n[k] = b[k]
  <2>1. Len(n) = Len(b) /\ Len(n) = Len(s) - 1
    BY <1>1, <1>2, <1>3, <1>5
  <2>2. ASSUME NEW k \in 1 .. Len(n) PROVE n[k] = b[k]
    <3>1. k \in 1 .. Len(s) - 1 /\ k + 1 \in 1 .. Len(s)
      BY <1>1, <2>1
    <3> QED BY <1>1, <1>2, <1>3, <1>5, <2>1, <3>1, Zenon
  <2> QED BY <2>1, <2>2
<1>7. n = b
  BY <1>3, <1>5, <1>6, SeqSame, SMTT(30)
<1>8. Head(m) = T[Head(s)].send
  BY <1>1, <1>2, <1>5
<1> QED BY <1>4, <1>7, <1>8 DEF m, n, a, b

\* A sender joins with message v.
LEMMA MsgsAppend ==
  ASSUME NEW T \in [Ids -> Task], NEW U \in [Ids -> Task], NEW s \in Seq(Ids), Keep(T, U, s),
         NEW i \in Ids
  PROVE  Msgs(U, Append(s, i)) = Append(Msgs(T, s), U[i].send)
<1> DEFINE m == Msgs(T, s)
           v == U[i].send
           a == Append(s, i)
           n == Msgs(U, a)
           b == Append(m, v)
<1>1. /\ Len(s) \in Nat /\ a \in Seq(Ids) /\ Len(a) = Len(s) + 1 /\ a[Len(s) + 1] = i
      /\ \A k \in 1 .. Len(s) : a[k] = s[k]
  BY SeqAppend, SeqLen
<1>2. m \in Seq(Nat) /\ Len(m) = Len(s) /\ \A k \in 1 .. Len(s) : m[k] = T[s[k]].send
  BY MsgsIs
<1>3. n \in Seq(Nat) /\ Len(n) = Len(a) /\ \A k \in 1 .. Len(a) : n[k] = U[a[k]].send
  <2> HIDE DEF a
  <2> QED BY <1>1, MsgsIs, SMTT(30)
<1>4. v \in Nat
  BY TaskIs
<1> HIDE DEF m, a, n, v
<1>5. /\ b \in Seq(Nat) /\ Len(b) = Len(m) + 1 /\ b[Len(m) + 1] = v
      /\ \A k \in 1 .. Len(m) : b[k] = m[k]
  BY <1>2, <1>4, SeqAppend
<1> HIDE DEF b
<1>6. Len(n) = Len(b) /\ Len(n) = Len(s) + 1
  BY <1>1, <1>2, <1>3, <1>5
<1>7. ASSUME NEW k \in 1 .. Len(n) PROVE n[k] = b[k]
  <2>1. CASE k \in 1 .. Len(s)
    BY <1>1, <1>2, <1>3, <1>5, <1>6, <2>1, Zenon DEF Keep
  <2>2. CASE k = Len(s) + 1
    BY <1>1, <1>2, <1>3, <1>5, <1>6, <2>2 DEF v
  <2> QED BY <1>1, <1>6, <2>1, <2>2
<1>8. n = b
  BY <1>3, <1>5, <1>6, <1>7, SeqSame
<1> QED BY <1>8 DEF n, a, b, m, v

-----------------------------------------------------------------------------
(* Each update is a step of the promise *)

\* What channel q holds for its receivers, in table T.
Held(T, q) == q.buf \o Msgs(T, q.senders)

\* From channel q in table T to channel x in table U, of size n: a step of GreenChannel.
Promised(n, T, q, U, x) ==
  LET p == Held(T, q)
      r == Held(U, x)
  IN \/ \E v \in 1 .. MaxOps : ~q.closed /\ r = Append(p, v) /\ x.got = q.got /\ x.closed = q.closed
     \/ \E v \in 1 .. MaxOps : /\ ~q.closed /\ p = <<>> /\ x.got = Append(q.got, v)
                                /\ r = p /\ x.closed = q.closed
     \/ p # <<>> /\ x.got = Append(q.got, Head(p)) /\ r = Tail(p) /\ x.closed = q.closed
     \/ /\ x.closed = TRUE /\ x.got = q.got
        /\ r = IF Len(p) > n THEN SubSeq(p, 1, n) ELSE p
     \/ r = p /\ x.got = q.got /\ x.closed = q.closed

\* The parts of what a channel holds.
LEMMA HeldIs ==
  ASSUME NEW T \in [Ids -> Task], NEW q \in Channel
  PROVE  /\ q.buf \in Seq(Nat) /\ Msgs(T, q.senders) \in Seq(Nat) /\ Len(q.buf) \in Nat
         /\ q.senders \in Seq(Ids)
         /\ q.buf = <<>> => Held(T, q) = Msgs(T, q.senders)
         /\ q.senders = <<>> => Held(T, q) = q.buf
<1>1. /\ q.buf \in Seq(Nat) /\ q.senders \in Seq(Ids) /\ Len(q.buf) \in Nat
  BY ChannelIs, SeqLen
<1>2. Msgs(T, q.senders) \in Seq(Nat) /\ Len(Msgs(T, q.senders)) = Len(q.senders)
  BY <1>1, MsgsIs
<1>3. q.senders = <<>> => Msgs(T, q.senders) = <<>>
  <2>1. Len(<<>>) = 0
    OBVIOUS
  <2> QED BY <1>2, <2>1, SeqSame
<1> QED BY <1>1, <1>2, <1>3, ConcatEmpty, Zenon DEF Held

\* Nothing changes but the lists of receivers: no step.
LEMMA StayPromise ==
  ASSUME NEW n, NEW T \in [Ids -> Task], NEW U, NEW q \in Channel, NEW x, Keep(T, U, q.senders),
         x.buf = q.buf, x.senders = q.senders, x.got = q.got, x.closed = q.closed
  PROVE  Promised(n, T, q, U, x)
<1>1. Msgs(U, q.senders) = Msgs(T, q.senders)
  BY HeldIs, MsgsKeep
<1>2. Held(U, x) = Held(T, q)
  BY <1>1 DEF Held
<1> QED BY <1>2 DEF Promised

\* A message handed to a waiting receiver is passed by an empty channel.
LEMMA PassPromise ==
  ASSUME NEW n, NEW T \in [Ids -> Task], NEW U \in [Ids -> Task], NEW q \in Channel, Shape(q, n),
         ~q.closed, q.receivers # <<>>, q.offered + 1 \in 1 .. MaxOps
  PROVE  Promised(n, T, q, U, Passed(q))
<1> DEFINE x == Passed(q)
<1>1. /\ x.buf = q.buf /\ x.closed = q.closed /\ x.senders = q.senders
      /\ x.got = Append(q.got, q.offered + 1)
  BY PassedIs
<1>2. q.buf = <<>> /\ q.senders = <<>>
  BY DEF Shape
<1>3. Held(T, q) = <<>>
  BY <1>2, HeldIs
<1>4. Held(U, q) = <<>>
  BY <1>2, HeldIs
<1>5. Held(U, x) = Held(U, q)
  BY <1>1 DEF Held
<1> HIDE DEF x
<1>6. Promised(n, T, q, U, x)
  BY <1>1, <1>3, <1>4, <1>5 DEF Promised
<1> QED BY <1>6 DEF x

\* A message put into the ring is offered.
LEMMA BufferPromise ==
  ASSUME NEW n \in Nat, NEW T \in [Ids -> Task], NEW U \in [Ids -> Task], NEW q \in Channel,
         Shape(q, n), Buffered(q) \in Channel,
         ~q.closed, Len(q.buf) < n, q.offered + 1 \in 1 .. MaxOps
  PROVE  Promised(n, T, q, U, Buffered(q))
<1> DEFINE x == Buffered(q)
<1>1. /\ x.buf = Append(q.buf, q.offered + 1) /\ x.closed = q.closed /\ x.senders = q.senders
      /\ x.got = q.got
  BY BufferedIs
<1>2. q.senders = <<>>
  BY HeldIs DEF Shape
<1>3. Held(T, q) = q.buf
  BY <1>2, HeldIs
<1> HIDE DEF x
<1>4. Held(U, x) = x.buf
  <2>1. x \in Channel
    BY DEF x
  <2> QED BY <1>1, <1>2, <2>1, HeldIs, Zenon
<1>5. Promised(n, T, q, U, x)
  BY <1>1, <1>3, <1>4 DEF Promised
<1> QED BY <1>5 DEF x

\* A blocked sender's message is offered.
LEMMA QueuePromise ==
  ASSUME NEW n, NEW T \in [Ids -> Task], NEW U \in [Ids -> Task], NEW q \in Channel,
         Keep(T, U, q.senders), NEW i \in Ids, U[i].send = q.offered + 1,
         ~q.closed, q.offered + 1 \in 1 .. MaxOps
  PROVE  Promised(n, T, q, U, Queued(q, i))
<1> DEFINE x == Queued(q, i)
           v == U[i].send
           m == Msgs(T, q.senders)
           b == q.buf
<1>1. /\ x.buf = b /\ x.closed = q.closed /\ x.senders = Append(q.senders, i)
      /\ x.got = q.got
  BY QueuedIs
<1>2. b \in Seq(Nat) /\ m \in Seq(Nat) /\ q.senders \in Seq(Ids) /\ v \in Nat
  BY HeldIs, TaskIs
<1>3. Msgs(U, Append(q.senders, i)) = Append(m, v)
  BY <1>2, MsgsAppend, Zenon
<1> HIDE DEF m, x, v, b
<1>4. b \o Append(m, v) = Append(b \o m, v)
  BY <1>2, ConcatAppend, SMTT(30)
<1>5. Held(U, x) = Append(Held(T, q), v)
  BY <1>1, <1>3, <1>4 DEF Held, m, b
<1>6. Promised(n, T, q, U, x)
  BY <1>1, <1>5 DEF Promised, v
<1> QED BY <1>6 DEF x

\* The oldest message of the ring is taken.
LEMMA TakePromise ==
  ASSUME NEW n, NEW T \in [Ids -> Task], NEW U, NEW q \in Channel,
         Keep(T, U, q.senders), q.buf # <<>>
  PROVE  Promised(n, T, q, U, Taken(q))
<1> DEFINE x == Taken(q)
           m == Msgs(T, q.senders)
           b == q.buf
<1>1. /\ x.buf = Tail(b) /\ x.closed = q.closed /\ x.senders = q.senders
      /\ x.got = Append(q.got, Head(b))
  BY TakenIs
<1>2. b \in Seq(Nat) /\ m \in Seq(Nat) /\ Msgs(U, q.senders) = m
  BY HeldIs, MsgsKeep
<1> HIDE DEF m, x, b
<1>3. b \o m # <<>> /\ Head(b \o m) = Head(b) /\ Tail(b \o m) = Tail(b) \o m
  BY <1>2, ConcatTail, Zenon DEF b
<1>4. Held(T, q) = b \o m /\ Held(U, x) = Tail(b) \o m
  BY <1>1, <1>2 DEF Held, m, b
<1>5. Promised(n, T, q, U, x)
  BY <1>1, <1>3, <1>4, Zenon DEF Promised
<1> QED BY <1>5 DEF x

\* The oldest message of a full ring is taken, and coco_g_move_sender moves the first
\* sender's message to the ring's end: the queue does not notice.
LEMMA RefillPromise ==
  ASSUME NEW n, NEW T \in [Ids -> Task], NEW U, NEW q \in Channel,
         q.buf # <<>>, q.senders # <<>>, Keep(T, U, Tail(q.senders))
  PROVE  Promised(n, T, q, U, Refilled(q, T[Head(q.senders)].send))
<1> DEFINE v == T[Head(q.senders)].send
           x == Refilled(q, v)
           m == Msgs(T, q.senders)
           b == q.buf
<1>1. /\ x.buf = Append(Tail(b), v) /\ x.closed = q.closed /\ x.senders = Tail(q.senders)
      /\ x.got = Append(q.got, Head(b))
  <2> HIDE DEF v
  <2> QED BY RefilledIs
<1>2. b \in Seq(Nat) /\ m \in Seq(Nat) /\ q.senders \in Seq(Ids) /\ Tail(q.senders) \in Seq(Ids)
  BY HeldIs, SeqTail
<1>3. m # <<>> /\ Head(m) = v /\ Msgs(T, Tail(q.senders)) = Tail(m)
  BY <1>2, MsgsTail, Zenon
<1>4. Msgs(U, Tail(q.senders)) = Tail(m)
  BY <1>2, <1>3, MsgsKeep, Zenon
<1> HIDE DEF m, x, b, v
<1>5. b \o m # <<>> /\ Head(b \o m) = Head(b)
  BY <1>2, ConcatTail DEF b
<1>6. Append(Tail(b), Head(m)) \o Tail(m) = Tail(b \o m)
  BY <1>2, <1>3, ConcatMove, Zenon DEF b
<1>7. Held(T, q) = b \o m /\ Held(U, x) = Tail(b \o m)
  BY <1>1, <1>3, <1>4, <1>6, Zenon DEF Held, m, b
<1>8. Promised(n, T, q, U, x)
  BY <1>1, <1>5, <1>7, SMTT(30) DEF Promised
<1> QED BY <1>8 DEF x, v

\* With nothing in the ring the first sender's message is the oldest.
LEMMA HandPromise ==
  ASSUME NEW n, NEW T \in [Ids -> Task], NEW U \in [Ids -> Task], NEW q \in Channel,
         q.buf = <<>>, q.senders # <<>>, Keep(T, U, Tail(q.senders)),
         Handed(q, T[Head(q.senders)].send) \in Channel
  PROVE  Promised(n, T, q, U, Handed(q, T[Head(q.senders)].send))
<1> DEFINE v == T[Head(q.senders)].send
           x == Handed(q, v)
           m == Msgs(T, q.senders)
<1>1. /\ x.buf = <<>> /\ x.closed = q.closed /\ x.senders = Tail(q.senders)
      /\ x.got = Append(q.got, v)
  <2> HIDE DEF v
  <2> QED BY HandedIs
<1>2. q.senders \in Seq(Ids) /\ Tail(q.senders) \in Seq(Ids) /\ Held(T, q) = m
  BY HeldIs, SeqTail
<1>3. m # <<>> /\ Head(m) = v /\ Msgs(T, Tail(q.senders)) = Tail(m)
  BY <1>2, MsgsTail
<1>4. Msgs(U, Tail(q.senders)) = Tail(m)
  BY <1>2, <1>3, MsgsKeep, Zenon
<1> HIDE DEF m, x, v
<1>5. Held(U, x) = Tail(m)
  <2>1. x \in Channel
    BY Zenon DEF x, v
  <2> QED BY <1>1, <1>4, <2>1, HeldIs, SMTT(30)
<1>6. Promised(n, T, q, U, x)
  BY <1>1, <1>2, <1>3, <1>5 DEF Promised
<1> QED BY <1>6 DEF x, v

\* coco_g_chan_close keeps the ring and drops the blocked senders' messages.
LEMMA ClosePromise ==
  ASSUME NEW n \in Nat, NEW T \in [Ids -> Task], NEW U \in [Ids -> Task], NEW q \in Channel,
         Shape(q, n), Shut(q) \in Channel
  PROVE  Promised(n, T, q, U, Shut(q))
<1> DEFINE x == Shut(q)
           m == Msgs(T, q.senders)
           b == q.buf
           p == Held(T, q)
<1>1. x.buf = b /\ x.closed = TRUE /\ x.senders = <<>> /\ x.got = q.got
  BY ShutIs, Zenon
<1>2. /\ b \in Seq(Nat) /\ m \in Seq(Nat) /\ q.senders \in Seq(Ids) /\ Len(b) \in Nat
      /\ p = b \o m
  BY HeldIs, Zenon DEF Held
<1> HIDE DEF x
<1>3. Held(U, x) = b
  <2>1. x \in Channel
    BY DEF x
  <2> QED BY <1>1, <2>1, HeldIs
<1>4. b = IF Len(p) > n THEN SubSeq(p, 1, n) ELSE p
  <2>1. CASE q.senders = <<>>
    <3>1. p = b /\ Len(b) <= n
      BY <2>1, HeldIs DEF Shape
    <3> HIDE DEF p, b
    <3> QED BY <1>2, <3>1
  <2>2. CASE q.senders # <<>>
    <3>1. Len(b) = n /\ m # <<>>
      BY <1>2, <2>2, MsgsTail DEF Shape
    <3> HIDE DEF m, b, p
    <3>2. Len(p) = Len(b) + Len(m) /\ Len(m) \in Nat /\ Len(m) >= 1
      BY <1>2, <3>1, ConcatIs, SeqLast, Zenon
    <3>3. SubSeq(p, 1, n) = b
      BY <1>2, <3>1, ConcatPrefix, Zenon
    <3> QED BY <1>2, <3>1, <3>2, <3>3, SMTT(30)
  <2> QED BY <2>1, <2>2
<1> HIDE DEF p, b
<1>5. Promised(n, T, q, U, x)
  BY <1>1, <1>3, <1>4 DEF Promised, p
<1> QED BY <1>5 DEF x

-----------------------------------------------------------------------------
(* The lists: who is on one *)

\* The two lists of a channel.
Sides == {"send", "recv"}
List(C, c, o) == IF o = "send" THEN C[c].senders ELSE C[c].receivers

\* Task i waits, for side o of a channel, with nothing to resume it; or it is the
\* main task, ended by coco_g_deadlock while it was waiting.
Listed(T, n, md, i, o) ==
  /\ i \in 0 .. n - 1 /\ T[i].resume = NoStatus
  /\ \/ T[i].state = "blocked" /\ T[i].block = o
     \/ i = Main /\ md /\ T[i].state = "done" /\ T[i].block = "none"

\* Who is on a list waits there, and is on one list and on it once.
Waiters(T, C, n, md) ==
  \A c \in Chans : \A o \in Sides : \A k \in 1 .. Len(List(C, c, o)) :
    Listed(T, n, md, List(C, c, o)[k], o)

\* A task is on one list, and on it once.
Apart(C) ==
  \A c, d \in Chans : \A o, p \in Sides :
    \A j \in 1 .. Len(List(C, c, o)) : \A k \in 1 .. Len(List(C, d, p)) :
      List(C, c, o)[j] = List(C, d, p)[k] => c = d /\ o = p /\ j = k

\* A task that runs has taken its answer.
Answered(T, f) ==
  \A w \in Workers : \A k \in 1 .. Len(f[w]) :
    f[w][k].at = "engine" => T[f[w][k].task].resume = NoStatus

\* The invariant of the lists: who is on one waits there, nobody is on two, and a task that
\* runs has taken its answer.
ListInv ==
  /\ EngineInv
  /\ Waiters(th, chan, nthreads, main_done)
  /\ Apart(chan)
  /\ Answered(th, frames)

\* From table T to U: every waiter waits on, with its message.
Stays(T, U, n, m, md, me) ==
  \A i \in Ids : \A o \in Sides :
    Listed(T, n, md, i, o) => Listed(U, m, me, i, o) /\ U[i].send = T[i].send

\* From T to U no ready task is given an answer, and from stacks f to g no worker
\* goes on in an engine but with its answer taken.
Calm(T, U, n) ==
  \A i \in 0 .. n - 1 : T[i].state = "ready" => U[i].resume \in {T[i].resume, NoStatus}

\* Every engine that runs on stacks g ran so on f, or its task has no answer to take.
Levels(U, f, g) ==
  \A w \in Workers : \A k \in 1 .. Len(g[w]) : g[w][k].at = "engine" =>
    (k \in 1 .. Len(f[w]) /\ g[w][k] = f[w][k]) \/ U[g[w][k].task].resume = NoStatus

\* The lists of a channel table are sequences of tasks.
LEMMA ListIs ==
  ASSUME NEW C \in [Chans -> Channel], NEW c \in Chans, NEW o \in Sides
  PROVE  /\ List(C, c, o) \in Seq(Ids) /\ Len(List(C, c, o)) \in Nat
         /\ \A k \in 1 .. Len(List(C, c, o)) : List(C, c, o)[k] \in Ids
<1>1. List(C, c, o) \in Seq(Ids)
  BY ChannelIs DEF List
<1> QED BY <1>1, SeqLen

\* The lists stay right when no waiter on them changes.
LEMMA WaitersStay ==
  ASSUME NEW C \in [Chans -> Channel], NEW T, NEW U, NEW n, NEW m, NEW md, NEW me,
         Waiters(T, C, n, md), Stays(T, U, n, m, md, me)
  PROVE  Waiters(U, C, m, me)
  BY ListIs DEF Waiters, Stays

\* An answer stays with the task it was left for until coco_g_run applies it.
LEMMA AnsweredStep ==
  ASSUME NEW T, NEW U, NEW f, NEW g, NEW n, StackOK(T, f, n), Answered(T, f),
         Calm(T, U, n), Levels(U, f, g)
  PROVE  Answered(U, g)
<1> SUFFICES ASSUME NEW w \in Workers, NEW k \in 1 .. Len(g[w]), g[w][k].at = "engine"
             PROVE  U[g[w][k].task].resume = NoStatus
  BY Zenon DEF Answered
<1>1. CASE k \in 1 .. Len(f[w]) /\ g[w][k] = f[w][k]
  <2>1. LevelFits(T, n, w, f[w][k]) /\ T[f[w][k].task].resume = NoStatus
    BY <1>1 DEF StackOK, Answered
  <2> QED BY <1>1, <2>1, Zenon DEF LevelFits, Calm
<1> QED BY <1>1 DEF Levels

\* The lists of two sides or channels share nobody, and one list has nobody twice.
LEMMA ApartIs ==
  ASSUME NEW C, Apart(C), NEW d \in Chans, NEW e \in Chans, NEW p \in Sides, NEW r \in Sides,
         NEW j \in 1 .. Len(List(C, d, p)), NEW k \in 1 .. Len(List(C, e, r)),
         List(C, d, p)[j] = List(C, e, r)[k]
  PROVE  d = e /\ p = r /\ j = k
  BY DEF Apart

\* A waiter is put on list o of channel c; the first of it is taken off; both lists of
\* the channel are emptied.
Puts(C, D, c, o, s) ==
  \A d \in Chans : \A p \in Sides :
    List(D, d, p) = IF d = c /\ p = o THEN s ELSE List(C, d, p)

\* Between tables T and U only the tasks in S change; i is on no list of D.
SameBut(T, U, S) == \A j \in Ids \ S : U[j] = T[j]
OffAll(D, i) ==
  \A d \in Chans : \A p \in Sides : \A k \in 1 .. Len(List(D, d, p)) : List(D, d, p)[k] # i

\* Between (T, C) and (U, D) task i, which is on no list, blocks: it becomes the last of
\* one list of channel c, and nothing else of tables or lists changes.
Blocking(T, U, C, D, c, o, i, n, md) ==
  /\ C \in [Chans -> Channel] /\ D \in [Chans -> Channel] /\ c \in Chans
  /\ o \in Sides /\ i \in Ids /\ Puts(C, D, c, o, Append(List(C, c, o), i))
  /\ \A p \in Sides : ~Listed(T, n, md, i, p)
  /\ Listed(U, n, md, i, o)
  /\ \A j \in Ids \ {i} : U[j] = T[j]
  /\ Waiters(T, C, n, md) /\ Apart(C)

\* A task that is on no list blocks: it is the last of one channel's list.
LEMMA PutOn ==
  ASSUME NEW T, NEW U, NEW C, NEW D, NEW c, NEW o, NEW i, NEW n, NEW md,
         Blocking(T, U, C, D, c, o, i, n, md)
  PROVE  Waiters(U, D, n, md) /\ Apart(D)
<1>0. SUFFICES ASSUME C \in [Chans -> Channel], D \in [Chans -> Channel], c \in Chans, o \in Sides, i \in Ids,
                      Puts(C, D, c, o, Append(List(C, c, o), i)),
                      \A p \in Sides : ~Listed(T, n, md, i, p), Listed(U, n, md, i, o),
                      \A j \in Ids \ {i} : U[j] = T[j], Waiters(T, C, n, md), Apart(C)
               PROVE  Waiters(U, D, n, md) /\ Apart(D)
  BY Zenon DEF Blocking
<1> DEFINE s == List(C, c, o)
           t == Append(s, i)
<1>1. /\ s \in Seq(Ids) /\ Len(s) \in Nat /\ Len(t) = Len(s) + 1 /\ t[Len(s) + 1] = i
      /\ \A k \in 1 .. Len(s) : t[k] = s[k]
  <2>1. s \in Seq(Ids) /\ Len(s) \in Nat
    BY <1>0, ListIs, Zenon
  <2> HIDE DEF s
  <2>2. i \in Ids
    BY <1>0, Zenon
  <2> QED BY <2>1, <2>2, SeqAppend
<1> HIDE DEF t
<1>2. ASSUME NEW d \in Chans, NEW p \in Sides, NEW k \in 1 .. Len(List(C, d, p))
      PROVE  /\ List(C, d, p)[k] # i /\ List(C, d, p)[k] \in Ids
             /\ Listed(U, n, md, List(C, d, p)[k], p)
  <2>1. List(C, d, p)[k] \in Ids /\ Listed(T, n, md, List(C, d, p)[k], p)
    BY <1>0, ListIs, Zenon DEF Waiters
  <2> QED BY <1>0, <2>1, Zenon DEF Listed
<1>3. ASSUME NEW d \in Chans, NEW p \in Sides, NEW k \in 1 .. Len(List(D, d, p))
      PROVE  \/ d = c /\ p = o /\ k = Len(s) + 1 /\ List(D, d, p)[k] = i
             \/ k \in 1 .. Len(List(C, d, p)) /\ List(D, d, p)[k] = List(C, d, p)[k]
  <2>1. CASE d = c /\ p = o
    <3>1. List(D, d, p) = t
      BY <1>0, <2>1, Zenon DEF Puts, t
    <3>2. k \in 1 .. Len(s) \/ k = Len(s) + 1
      BY <1>1, <3>1, Interval, Zenon
    <3> QED BY <1>1, <2>1, <3>1, <3>2
  <2>2. CASE ~(d = c /\ p = o)
    BY <1>0, <2>2, Zenon DEF Puts
  <2> QED BY <2>1, <2>2, Zenon
<1>4. Waiters(U, D, n, md)
  <2> SUFFICES ASSUME NEW d \in Chans, NEW p \in Sides, NEW k \in 1 .. Len(List(D, d, p))
               PROVE  Listed(U, n, md, List(D, d, p)[k], p)
    BY Zenon DEF Waiters
  <2> QED BY <1>0, <1>2, <1>3, Zenon
<1>5. Apart(D)
  <2> SUFFICES ASSUME NEW d \in Chans, NEW e \in Chans, NEW p \in Sides, NEW r \in Sides,
                      NEW j \in 1 .. Len(List(D, d, p)), NEW k \in 1 .. Len(List(D, e, r)),
                      List(D, d, p)[j] = List(D, e, r)[k]
               PROVE  d = e /\ p = r /\ j = k
    BY DEF Apart
  <2>1. CASE List(D, d, p)[j] = i
    <3>1. d = c /\ p = o /\ j = Len(s) + 1
      BY <1>2, <1>3, <2>1, Zenon
    <3>2. List(D, e, r)[k] = i
      BY <2>1, Zenon
    <3>3. e = c /\ r = o /\ k = Len(s) + 1
      BY <1>2, <1>3, <3>2, Zenon
    <3> QED BY <3>1, <3>3, Zenon
  <2>2. CASE List(D, d, p)[j] # i
    <3>1. j \in 1 .. Len(List(C, d, p)) /\ List(D, d, p)[j] = List(C, d, p)[j]
      BY <1>3, <2>2, Zenon
    <3>2. k \in 1 .. Len(List(C, e, r)) /\ List(D, e, r)[k] = List(C, e, r)[k]
      BY <1>3, <2>2, Zenon
    <3>3. List(C, d, p)[j] = List(C, e, r)[k]
      BY <3>1, <3>2, Zenon
    <3>4. Apart(C)
      BY <1>0, Zenon
    <3> QED BY <3>1, <3>2, <3>3, <3>4, ApartIs
  <2> QED BY <2>1, <2>2
<1> QED BY <1>4, <1>5

\* The first of a list is answered and is on no list any more.
LEMMA TakeOff ==
  ASSUME NEW C \in [Chans -> Channel], NEW D \in [Chans -> Channel], NEW c \in Chans,
         NEW o \in Sides, List(C, c, o) # <<>>, Puts(C, D, c, o, Tail(List(C, c, o))),
         NEW T, NEW U, NEW n, NEW md, SameBut(T, U, {Head(List(C, c, o))}),
         Waiters(T, C, n, md), Apart(C)
  PROVE  Waiters(U, D, n, md) /\ Apart(D) /\ OffAll(D, Head(List(C, c, o)))
<1> DEFINE s == List(C, c, o)
           t == Tail(s)
           h == Head(s)
<1>1. /\ s \in Seq(Ids) /\ Len(s) \in Nat /\ Len(s) >= 1 /\ Len(t) = Len(s) - 1 /\ h = s[1]
      /\ \A k \in 1 .. Len(s) - 1 : t[k] = s[k + 1]
  BY ListIs, SeqTail, Zenon
<1> HIDE DEF t, h
<1>2. ASSUME NEW d \in Chans, NEW p \in Sides, NEW k \in 1 .. Len(List(D, d, p))
      PROVE  \E j \in 1 .. Len(List(C, d, p)) :
               /\ List(D, d, p)[k] = List(C, d, p)[j] /\ List(C, d, p)[j] # h
               /\ j = IF d = c /\ p = o THEN k + 1 ELSE k
  <2>1. CASE d = c /\ p = o
    <3>1. List(D, d, p) = t /\ List(C, d, p) = s
      BY <2>1 DEF Puts, t
    <3>2. k \in 1 .. Len(s) - 1 /\ k + 1 \in 1 .. Len(s) /\ 1 \in 1 .. Len(s) /\ k + 1 # 1
      BY <1>1, <3>1
    <3>3. t[k] = s[k + 1] /\ s[k + 1] # s[1]
      BY <1>1, <3>2 DEF Apart
    <3> QED BY <1>1, <2>1, <3>1, <3>2, <3>3, Zenon
  <2>2. CASE ~(d = c /\ p = o)
    <3>1. List(D, d, p) = List(C, d, p)
      BY <2>2 DEF Puts
    <3>2. List(C, d, p)[k] # s[1]
      <4>1. 1 \in 1 .. Len(s) /\ k \in 1 .. Len(List(C, d, p))
        BY <1>1, <3>1, Interval, Zenon
      <4> QED BY <2>2, <4>1 DEF Apart
    <3> QED BY <1>1, <2>2, <3>1, <3>2, Zenon
  <2> QED BY <2>1, <2>2, Zenon
<1>3. Waiters(U, D, n, md)
  <2> SUFFICES ASSUME NEW d \in Chans, NEW p \in Sides, NEW k \in 1 .. Len(List(D, d, p))
               PROVE  Listed(U, n, md, List(D, d, p)[k], p)
    BY DEF Waiters
  <2>1. PICK j \in 1 .. Len(List(C, d, p)) :
               List(D, d, p)[k] = List(C, d, p)[j] /\ List(C, d, p)[j] # h
    BY <1>2
  <2>2. List(C, d, p)[j] \in Ids /\ Listed(T, n, md, List(C, d, p)[j], p)
    BY ListIs, Zenon DEF Waiters
  <2>3. U[List(C, d, p)[j]] = T[List(C, d, p)[j]]
    BY <2>1, <2>2 DEF h, SameBut
  <2> QED BY <2>1, <2>2, <2>3, Zenon DEF Listed
<1>4. Apart(D)
  <2> SUFFICES ASSUME NEW d \in Chans, NEW e \in Chans, NEW p \in Sides, NEW r \in Sides,
                      NEW j \in 1 .. Len(List(D, d, p)), NEW k \in 1 .. Len(List(D, e, r)),
                      List(D, d, p)[j] = List(D, e, r)[k]
               PROVE  d = e /\ p = r /\ j = k
    BY DEF Apart
  <2>1. PICK x \in 1 .. Len(List(C, d, p)) :
               /\ List(D, d, p)[j] = List(C, d, p)[x]
               /\ x = IF d = c /\ p = o THEN j + 1 ELSE j
    BY <1>2
  <2>2. PICK y \in 1 .. Len(List(C, e, r)) :
               /\ List(D, e, r)[k] = List(C, e, r)[y]
               /\ y = IF e = c /\ r = o THEN k + 1 ELSE k
    BY <1>2
  <2>3. d = e /\ p = r /\ x = y
    <3>1. List(C, d, p)[x] = List(C, e, r)[y]
      BY <2>1, <2>2, Zenon
    <3> QED BY <3>1 DEF Apart
  <2>4. Len(List(D, d, p)) \in Nat /\ Len(List(D, e, r)) \in Nat
    BY ListIs
  <2> QED BY <2>1, <2>2, <2>3, <2>4
<1> QED BY <1>2, <1>3, <1>4 DEF h, OffAll

\* Both lists of channel c are emptied from C to D; the tasks that were on them.
Emptied(C, D, c) ==
  \A p \in Sides : List(D, c, p) = <<>> /\ \A d \in Chans \ {c} : List(D, d, p) = List(C, d, p)
Lists(C, c) == UNION {{List(C, c, p)[k] : k \in 1 .. Len(List(C, c, p))} : p \in Sides}

\* coco_g_chan_close takes everybody off both lists.
LEMMA ClearOff ==
  ASSUME NEW C \in [Chans -> Channel], NEW D \in [Chans -> Channel], NEW c \in Chans,
         Emptied(C, D, c), NEW T, NEW U, NEW n, NEW md, SameBut(T, U, Lists(C, c)),
         Waiters(T, C, n, md), Apart(C)
  PROVE  Waiters(U, D, n, md) /\ Apart(D) /\ \A j \in Lists(C, c) : OffAll(D, j)
<1>1. ASSUME NEW d \in Chans, NEW p \in Sides, NEW k \in 1 .. Len(List(D, d, p))
      PROVE  d # c /\ List(D, d, p) = List(C, d, p) /\ List(D, d, p)[k] \notin Lists(C, c)
  <2>1. Len(<<>>) = 0
    OBVIOUS
  <2>2. d # c /\ List(D, d, p) = List(C, d, p)
    BY <2>1 DEF Emptied
  <2>3. ASSUME NEW q \in Sides, NEW j \in 1 .. Len(List(C, c, q))
        PROVE  List(C, d, p)[k] # List(C, c, q)[j]
    <3>1. k \in 1 .. Len(List(C, d, p))
      BY <2>2, Zenon
    <3> QED BY <2>2, <3>1, ApartIs
  <2> QED BY <2>2, <2>3 DEF Lists
<1>2. Waiters(U, D, n, md)
  <2> SUFFICES ASSUME NEW d \in Chans, NEW p \in Sides, NEW k \in 1 .. Len(List(D, d, p))
               PROVE  Listed(U, n, md, List(D, d, p)[k], p)
    BY Zenon DEF Waiters
  <2>1. List(D, d, p)[k] \in Ids /\ Listed(T, n, md, List(D, d, p)[k], p)
    BY <1>1, ListIs, Zenon DEF Waiters
  <2>2. U[List(D, d, p)[k]] = T[List(D, d, p)[k]]
    BY <1>1, <2>1, Zenon DEF SameBut
  <2> QED BY <2>1, <2>2, Zenon DEF Listed
<1>3. Apart(D)
  BY <1>1 DEF Apart
<1> QED BY <1>1, <1>2, <1>3, Zenon DEF OffAll

-----------------------------------------------------------------------------
(* The steps that leave the channels alone *)

\* What such a step does to the waiters and to who runs: nothing.
Quiet ==
  /\ Stays(th, th', nthreads, nthreads', main_done, main_done')
  /\ Calm(th, th', nthreads)
  /\ Levels(th', frames, frames')

\* A step that leaves the channels and their waiters alone keeps the lists right.
LEMMA QuietKeeps ==
  ASSUME ListInv, EngineInv', Quiet, chan' = chan
  PROVE  ListInv'
<1>1. chan \in [Chans -> Channel] /\ StackOK(th, frames, nthreads)
  BY DEF ListInv, EngineInv, TypeOK, Good
<1>2. Waiters(th', chan', nthreads', main_done')
  BY <1>1, WaitersStay DEF ListInv, Quiet
<1>3. Answered(th', frames')
  BY <1>1, AnsweredStep DEF ListInv, Quiet
<1> QED BY <1>2, <1>3, Zenon DEF ListInv

\* The stacks that such steps leave.
LEMMA LevelsSame ==
  ASSUME NEW U, NEW f
  PROVE  Levels(U, f, f)
  BY Zenon DEF Levels

\* A worker that leaves a task takes one level off.
LEMMA LevelsPop ==
  ASSUME TypeOK, NEW w \in Workers, Inside(w), NEW U
  PROVE  Levels(U, frames, Pop(w))
<1>1. /\ \A v \in Workers \ {w} : Pop(w)[v] = frames[v]
      /\ Len(Pop(w)[w]) = Len(frames[w]) - 1 /\ Len(frames[w]) \in Nat
      /\ \A k \in 1 .. Len(frames[w]) - 1 : Pop(w)[w][k] = frames[w][k]
  BY PopIs, TopIs
<1> SUFFICES ASSUME NEW v \in Workers, NEW k \in 1 .. Len(Pop(w)[v])
             PROVE  k \in 1 .. Len(frames[v]) /\ Pop(w)[v][k] = frames[v][k]
  BY Zenon DEF Levels
<1>2. CASE v # w
  BY <1>1, <1>2, Zenon
<1>3. CASE v = w
  BY <1>1, <1>3, Interval, Zenon
<1> QED BY <1>2, <1>3, Zenon

\* A worker whose engine stopped stays on its level.
LEMMA LevelsUnwind ==
  ASSUME TypeOK, NEW w \in Workers, Inside(w), NEW U
  PROVE  Levels(U, frames, Stand(w, "unwind", None))
<1> DEFINE f == Stand(w, "unwind", None)
<1>0. "unwind" \in Places /\ None \in Ids \cup {None}
  BY Zenon DEF Places
<1>1. /\ \A v \in Workers \ {w} : f[v] = frames[v]
      /\ Len(f[w]) = Len(frames[w]) /\ Len(frames[w]) \in Nat
      /\ \A k \in 1 .. Len(frames[w]) - 1 : f[w][k] = frames[w][k]
      /\ f[w][Len(frames[w])] = Frame(Cur(w), "unwind", None)
  BY <1>0, StandIs, TopIs, Zenon
<1>2. Frame(Cur(w), "unwind", None).at = "unwind"
  BY DEF Frame
<1> HIDE DEF f
<1>3. Levels(U, frames, f)
  <2> SUFFICES ASSUME NEW v \in Workers, NEW k \in 1 .. Len(f[v]), f[v][k].at = "engine"
               PROVE  k \in 1 .. Len(frames[v]) /\ f[v][k] = frames[v][k]
    BY SMTT(30) DEF Levels
  <2>1. CASE v # w
    BY <1>1, <2>1, Zenon
  <2>2. CASE v = w
    <3>1. k # Len(frames[w])
      BY <1>1, <1>2, <2>2, Zenon
    <3>2. k \in 1 .. Len(frames[w]) - 1
      BY <1>1, <2>2, <3>1, Interval, Zenon
    <3> QED BY <1>1, <2>2, <3>2, Zenon
  <2> QED BY <2>1, <2>2, SMTT(30)
<1> QED BY <1>3 DEF f

\* A step that changes one task, which is on no list.
LEMMA QuietOne ==
  ASSUME EngineInv, NEW c \in Used, NEW x, Sets(th, th', c, x),
         th[c].state = "ready", x.resume \in {th[c].resume, NoStatus},
         nthreads' = nthreads, main_done' = main_done
  PROVE  Stays(th, th', nthreads, nthreads', main_done, main_done') /\ Calm(th, th', nthreads)
<1>1. \A i \in 0 .. nthreads - 1 : i \in Ids
  BY UsedIs, Zenon DEF EngineInv, Used
<1>2. Stays(th, th', nthreads, nthreads', main_done, main_done')
  BY DEF Stays, Listed, Sets
<1>3. Calm(th, th', nthreads)
  BY <1>1 DEF Calm, Sets
<1> QED BY <1>2, <1>3, Zenon

=============================================================================
