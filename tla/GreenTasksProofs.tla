-------------------------- MODULE GreenTasksProofs --------------------------
(***************************************************************************)
(* The engines of a green world. EngineInv is inductive where no task      *)
(* waits on a channel inside a nested engine: each worker's stack of       *)
(* engines fits the task table, and whoever awaits a task is blocked on    *)
(* one that is not done. From it: no wake is missed, and an engine is not  *)
(* freed under a worker.                                                   *)
(***************************************************************************)
EXTENDS GreenTasksTypes

(* The end of a task *)

\* coco_g_finish leaves nobody who awaits the task it ended.
LEMMA FinishTable ==
  ASSUME TypeOK, NEW T \in [Ids -> Task], NEW ti \in Used, NEW s \in Statuses,
         NEW L \in [Workers -> {"loop", "wait", "woken", "out"}], Finish(L, T, ti, s),
         AwaitOK(T, nthreads), JoinOK(T, nthreads, main_done)
  PROVE  /\ AwaitOK(th', nthreads) /\ JoinOK(th', nthreads, main_done')
         /\ Keeps(T, th', nthreads, {ti})
         /\ th'[ti].state = "done"
<1> DEFINE n == nthreads
<1>1. Used = 0 .. n - 1 /\ Used \subseteq Ids /\ ti \in Ids /\ n \in Nat /\ n > 0
  BY UsedIs DEF Used, TypeOK
<1>2. /\ th'[ti].state = "done" /\ th'[ti].block = "none"
      /\ \A i \in Awaiting(T, ti) \ {ti} : th'[i] = Woken(T[i], s)
      /\ \A i \in Ids \ {ti} : i \notin Awaiting(T, ti) => th'[i] = T[i]
      /\ main_done' = (main_done \/ ti = Main)
  BY <1>1, FinishIs
<1>3. \A i \in Used : /\ Woken(T[i], s).state = "ready" /\ Woken(T[i], s).block = "none"
                      /\ Woken(T[i], s).worker = T[i].worker
  BY <1>1, WokenIs
<1>4. \A i \in Used \ {ti} :
        \/ th'[i] = T[i] /\ ~(T[i].block = "await" /\ T[i].wait_on = ti)
        \/ /\ th'[i].state = "ready" /\ th'[i].block = "none" /\ th'[i].worker = T[i].worker
           /\ T[i].state = "blocked"
  <2> TAKE i \in Used \ {ti}
  <2>1. CASE i \in Awaiting(T, ti)
    BY <1>2, <1>3, <2>1 DEF Awaiting
  <2>2. CASE i \notin Awaiting(T, ti)
    <3>1. th'[i] = T[i]
      BY <1>1, <1>2, <2>2
    <3>2. T[i].block = "await" => T[i].state = "blocked"
      BY <1>1 DEF AwaitOK
    <3> QED BY <2>2, <3>1, <3>2, Zenon DEF Awaiting
  <2> QED BY <2>1, <2>2
<1>5. AwaitOK(th', n)
  <2> SUFFICES ASSUME NEW i \in 0 .. n - 1, th'[i].block = "await"
               PROVE  /\ th'[i].state = "blocked" /\ th'[i].wait_on \in 0 .. n - 1
                      /\ th'[th'[i].wait_on].state # "done"
                      /\ "child" \in Ops => th'[i].wait_on > i
    BY DEF AwaitOK
  <2>1. i \in Used \ {ti} /\ th'[i] = T[i] /\ T[i].wait_on # ti
    BY <1>1, <1>2, <1>4, Zenon
  <2>2. /\ T[i].state = "blocked" /\ T[i].wait_on \in Used
        /\ T[T[i].wait_on].state # "done" /\ ("child" \in Ops => T[i].wait_on > i)
    BY <1>1, <2>1, Zenon DEF AwaitOK
  <2>3. th'[T[i].wait_on].state # "done"
    BY <1>4, <2>1, <2>2, Zenon
  <2> QED BY <1>1, <2>1, <2>2, <2>3, Zenon
<1>6. JoinOK(th', n, main_done')
  <2> SUFFICES ASSUME ForkJoin
               PROVE  /\ \A i \in 0 .. n - 1 :
                            /\ th'[i].block \in {"none", "await", "yield"}
                            /\ th'[i].state = "blocked" => th'[i].block = "await"
                      /\ main_done' <=> (n > 0 /\ th'[Main].state = "done")
    BY DEF JoinOK
  <2>1. ASSUME NEW i \in 0 .. n - 1
        PROVE  /\ th'[i].block \in {"none", "await", "yield"}
               /\ th'[i].state = "blocked" => th'[i].block = "await"
    BY <1>1, <1>2, <1>4, Zenon DEF JoinOK
  <2>2. Main \in Used
    BY <1>1 DEF Main
  <2>3. main_done <=> T[Main].state = "done"
    BY <1>1 DEF JoinOK
  <2>4. ti # Main => (th'[Main].state = "done" <=> T[Main].state = "done")
    BY <1>4, <2>2
  <2>5. main_done' <=> th'[Main].state = "done"
    BY <1>2, <2>3, <2>4, Zenon
  <2> QED BY <1>1, <2>1, <2>5, Zenon
<1>7. Keeps(T, th', n, {ti})
  BY <1>1, <1>4 DEF Keeps
<1> QED BY <1>2, <1>5, <1>6, <1>7, Zenon

\* Where tasks only fork and join, the deadlock check never finds one: the
\* youngest task that is not done is ready, or its worker waits inside it.
LEMMA NoDead ==
  ASSUME TypeOK, ForkJoin, StackOK(th, frames, nthreads), AwaitOK(th, nthreads),
         JoinOK(th, nthreads, main_done)
  PROVE  ~Dead(th, frames)
<1> SUFFICES ASSUME ~main_done, ~InlineWait(frames), nthreads > 0, ~AnyReady(th) PROVE FALSE
  BY DEF Dead
<1> DEFINE S == {i \in Used : th[i].state # "done"}
<1>1. Used = 0 .. nthreads - 1 /\ Used \subseteq Ids /\ nthreads \in Nat /\ Main \in Used
  BY UsedIs DEF Used, TypeOK, Main
<1>2. Main \in S
  BY <1>1 DEF JoinOK
<1>3. PICK m \in S : \A i \in S : i <= m
  <2>1. S \in SUBSET (0 .. nthreads) /\ S # {}
    BY <1>1, <1>2
  <2> HIDE DEF S
  <2> QED BY <1>1, <2>1, GreatestMember, Zenon
<1>4. m \in Used /\ m \in Ids /\ th[m].state \in States /\ th[m].state # "done"
  BY <1>1, <1>3, TaskIs, Zenon DEF TypeOK
<1>5. th[m].state # "ready"
  BY <1>4 DEF AnyReady
<1>6. th[m].state # "nested"
  <2> SUFFICES ASSUME th[m].state = "nested" PROVE FALSE
    OBVIOUS
  <2>1. PICK w \in Workers : \E k \in 1 .. Len(frames[w]) :
          frames[w][k].task = m /\ frames[w][k].at = "await"
    BY <1>1, <1>4 DEF StackOK
  <2>2. DOMAIN frames[w] = 1 .. Len(frames[w])
    BY <2>1, SeqLen DEF TypeOK
  <2> QED BY <2>1, <2>2 DEF InlineWait
<1>7. th[m].state = "blocked"
  BY <1>4, <1>5, <1>6, Zenon DEF States
<1>8. th[m].wait_on \in S /\ th[m].wait_on > m
  BY <1>1, <1>4, <1>7, Zenon DEF JoinOK, AwaitOK, ForkJoin
<1> QED BY <1>1, <1>3, <1>8

-----------------------------------------------------------------------------
(* The inductive invariant *)

\* A worker moves on inside the task on top of its stack.
LEMMA StandStep ==
  ASSUME EngineInv, NEW w \in Workers, Inside(w), NEW x, NEW at \in Places, NEW arg \in Ids \cup {None},
         NEW U, Sets(th, U, Cur(w), x), Fits(th, nthreads, Cur(w), x),
         at \in {"engine", "unwind"} \/ ("nested" \in Ops /\ at \in {"toawait", "await"}),
         at = "await" <=> x.state = "nested",
         at \in {"engine", "toawait"} => x.state = "ready"
  PROVE  Good(U, Stand(w, at, arg), nthreads, main_done)
<1> DEFINE f == Stand(w, at, arg)
           c == Cur(w)
           F == Frame(c, at, arg)
<1>1. /\ c \in 0 .. nthreads - 1 /\ nthreads \in 0 .. MaxTasks /\ nthreads \in Nat /\ th \in [Ids -> Task]
      /\ frames \in [Workers -> Seq(Level)]
      /\ frames[w] # <<>> /\ frames[w][Len(frames[w])].task = c /\ th[c].worker = w
      /\ AwaitOK(th, nthreads) /\ JoinOK(th, nthreads, main_done) /\ StackOK(th, frames, nthreads)
  BY TopFits DEF EngineInv, Good
<1>2. AwaitOK(U, nthreads) /\ JoinOK(U, nthreads, main_done) /\ Keeps(th, U, nthreads, {c}) /\ U[c] = x
  BY <1>1, TableOne, Zenon DEF Sets
<1>3. /\ f \in [Workers -> Seq(Level)] /\ \A v \in Workers \ {w} : f[v] = frames[v]
      /\ Len(f[w]) = Len(frames[w])
      /\ \A k \in 1 .. Len(frames[w]) - 1 : f[w][k] = frames[w][k]
      /\ f[w][Len(frames[w])] = F
  BY StandIs DEF EngineInv, Good
<1>4. F.task = c /\ F.at = at
  BY DEF Frame
<1> HIDE DEF f, F, c
<1>5. LevelFits(U, nthreads, w, F)
  BY <1>1, <1>2, <1>4, Zenon DEF LevelFits, Fits, c
<1>6. U[c].state = "nested" => F.at = "await"
  BY <1>2, <1>4
<1>7. StackOK(U, f, nthreads)
  BY <1>1, <1>2, <1>3, <1>4, <1>5, <1>6, StackTop, Zenon
<1> QED BY <1>2, <1>7 DEF f, Good

\* A worker leaves the task on top of its stack.
LEMMA PopStep ==
  ASSUME EngineInv, NEW w \in Workers, Inside(w), NEW U,
         Keeps(th, U, nthreads, {Cur(w)}), U[Cur(w)].state # "nested"
  PROVE  StackOK(U, Pop(w), nthreads)
<1>1. /\ nthreads \in Nat /\ frames \in [Workers -> Seq(Level)]
      /\ frames[w] # <<>> /\ frames[w][Len(frames[w])].task = Cur(w)
      /\ StackOK(th, frames, nthreads)
  BY TopFits DEF EngineInv, Good
<1>2. /\ Pop(w) \in [Workers -> Seq(Level)]
      /\ \A v \in Workers \ {w} : Pop(w)[v] = frames[v]
      /\ Len(Pop(w)[w]) = Len(frames[w]) - 1
      /\ \A k \in 1 .. Len(frames[w]) - 1 : Pop(w)[w][k] = frames[w][k]
  BY PopIs DEF EngineInv, Good
<1> QED BY <1>1, <1>2, StackPop, Zenon

\* A table and stacks that a step leaves alone stay good.
LEMMA SameTable ==
  ASSUME EngineInv, th' = th, frames' = frames, nthreads' = nthreads, main_done' = main_done
  PROVE  Good(th', frames', nthreads', main_done')
  BY DEF EngineInv

\* async_run
LEMMA StartGood ==
  ASSUME EngineInv, Start
  PROVE  Good(th', frames', nthreads', main_done')
<1>1. /\ nthreads = 0 /\ nthreads' = 1 /\ th' = [th EXCEPT ![Main] = NewTask(0)]
      /\ frames' = frames /\ main_done' = main_done /\ th \in [Ids -> Task]
      /\ frames \in [Workers -> Seq(Level)]
  BY DEF Start, EngineInv, TypeOK
<1>2. th'[0] = NewTask(0) /\ 0 \in Workers
  BY <1>1, Constants, Zenon DEF Main
<1>3. NewTask(0).state = "ready" /\ NewTask(0).block = "none"
  BY <1>2, NewTaskIs
<1>4. StackOK(th', frames, 1)
  <2>1. StackOK(th, frames, 0) /\ Keeps(th, th', 0, {})
    BY <1>1 DEF EngineInv, Good, Keeps
  <2> DEFINE z == 0
             m == 1
  <2>2. z \in Nat /\ m \in Nat /\ z <= m /\ \A i \in z .. m - 1 : th'[i].state # "nested"
    BY <1>2, <1>3
  <2>3. StackOK(th, frames, z) /\ Keeps(th, th', z, {})
    BY <2>1
  <2> HIDE DEF z, m
  <2>4. StackOK(th', frames, m)
    BY <1>1, <2>2, <2>3, StackKeep, Zenon
  <2> QED BY <2>4 DEF m
<1>5. AwaitOK(th', 1)
  BY <1>2, <1>3 DEF AwaitOK
<1>6. JoinOK(th', 1, main_done)
  BY <1>1, <1>2, <1>3 DEF JoinOK, EngineInv, Good, Main
<1> QED BY <1>1, <1>4, <1>5, <1>6, Zenon DEF Good

\* async_go: a task younger than all the others, awaited by nobody.
LEMMA GoGood ==
  ASSUME EngineInv, NEW w \in Workers, Go(w)
  PROVE  Good(th', frames', nthreads', main_done')
<1> DEFINE n == nthreads
           x == NewTask(next_worker)
<1>1. /\ Inside(w) /\ n' = n + 1 /\ n < MaxTasks /\ th' = [th EXCEPT ![n] = x]
      /\ frames' = frames /\ main_done' = main_done /\ th \in [Ids -> Task]
      /\ frames \in [Workers -> Seq(Level)] /\ next_worker \in Workers /\ n \in Nat
  BY DEF Go, Does, At, EngineInv, TypeOK
<1>2. n > 0
  BY <1>1, TopFits
<1>3. n \in Ids /\ x.state = "ready" /\ x.block = "none"
  BY <1>1, Constants, NewTaskIs DEF Ids
<1>4. th'[n] = x /\ \A i \in 0 .. n - 1 : th'[i] = th[i]
  <2> HIDE DEF x
  <2> QED BY <1>1, <1>3, Constants DEF Ids
<1> HIDE DEF n, x
<1>5. StackOK(th', frames, n + 1)
  <2>1. StackOK(th, frames, n) /\ Keeps(th, th', n, {})
    BY <1>4 DEF EngineInv, Good, Keeps, n
  <2> DEFINE m == n + 1
  <2>2. m \in Nat /\ n <= m /\ \A i \in n .. m - 1 : th'[i].state # "nested"
    BY <1>1, <1>3, <1>4
  <2> HIDE DEF m
  <2>3. StackOK(th', frames, m)
    BY <1>1, <2>1, <2>2, StackKeep, Zenon
  <2> QED BY <2>3 DEF m
<1>6. AwaitOK(th', n + 1)
  <2>1. AwaitOK(th, n)
    BY DEF EngineInv, Good, n
  <2> QED BY <1>1, <1>3, <1>4, <2>1 DEF AwaitOK
<1>7. JoinOK(th', n + 1, main_done)
  <2>1. JoinOK(th, n, main_done)
    BY DEF EngineInv, Good, n
  <2>2. th'[Main] = th[Main]
    BY <1>1, <1>2, <1>4 DEF Main
  <2> QED BY <1>1, <1>2, <1>3, <1>4, <2>1, <2>2 DEF JoinOK
<1> QED BY <1>1, <1>5, <1>6, <1>7, Zenon DEF Good, n

\* coco_g_worker_loop enters the task coco_g_pick chose: it is on no stack, for it is ready
\* and the stacks of its worker are empty.
LEMMA LoopPickGood ==
  ASSUME EngineInv, NEW w \in Workers, LoopPick(w)
  PROVE  Good(th', frames', nthreads', main_done')
<1> DEFINE t == Pick(th, w)
           x == Applied(th[t])
<1>1. /\ t \in Used /\ t \in Ids /\ th[t].state = "ready" /\ th[t].worker = w
      /\ th' = [th EXCEPT ![t] = x] /\ frames[w] = <<>>
      /\ frames' = [frames EXCEPT ![w] = Append(frames[w], Frame(t, "engine", None))]
  BY LoopPickIs DEF EngineInv
<1>2. /\ th \in [Ids -> Task] /\ frames \in [Workers -> Seq(Level)]
      /\ nthreads \in 0 .. MaxTasks /\ nthreads \in Nat /\ t \in 0 .. nthreads - 1
      /\ StackOK(th, frames, nthreads) /\ AwaitOK(th, nthreads)
      /\ JoinOK(th, nthreads, main_done)
      /\ nthreads' = nthreads /\ main_done' = main_done
  BY <1>1, Constants, SMTT(30) DEF EngineInv, Good, TypeOK, Used, LoopPick
<1> HIDE DEF t
<1>3. /\ x \in Task /\ x.worker = w /\ x.state = "ready" /\ x.block = th[t].block
      /\ th[t].block # "await"
  BY <1>1, <1>2, AppliedIs, Zenon DEF AwaitOK
<1>4. Fits(th, nthreads, t, x)
  BY <1>1, <1>2, <1>3, Zenon DEF Fits, JoinOK
<1> HIDE DEF x
<1>5. Sets(th, th', t, x)
  BY <1>1, <1>2, <1>3, SetsOne, Zenon
<1>6. AwaitOK(th', nthreads) /\ JoinOK(th', nthreads, main_done) /\ Keeps(th, th', nthreads, {t})
  BY <1>2, <1>4, <1>5, TableOne, Zenon
<1>7. Keeps(th, th', nthreads, {})
  BY <1>1, <1>3, <1>5, <1>6, Zenon DEF Keeps, Sets
<1>8. StackOK(th', frames', nthreads)
  <2> DEFINE g == [frames EXCEPT ![w] = Append(frames[w], Frame(t, "engine", None))]
  <2>1. /\ g \in [Workers -> Seq(Level)]
        /\ \A v \in Workers \ {w} : g[v] = frames[v]
        /\ Len(g[w]) = Len(frames[w]) + 1
        /\ \A k \in 1 .. Len(frames[w]) : g[w][k] = frames[w][k]
        /\ g[w][Len(frames[w]) + 1] = Frame(t, "engine", None)
    BY <1>1, <1>2, PushIs
  <2> HIDE DEF g
  <2>2. StackOK(th', g, nthreads)
    BY <1>1, <1>2, <1>7, <2>1, StackPush, ZenonT(30)
  <2> QED BY <1>1, <2>2, Zenon DEF g
<1> QED BY <1>2, <1>6, <1>8, Zenon DEF Good

\* the quantum of coco_g_run
LEMMA QuantumGood ==
  ASSUME EngineInv, NEW w \in Workers, Quantum(w)
  PROVE  Good(th', frames', nthreads', main_done')
<1> DEFINE c == Cur(w)
           x == Mark(th[c], "ready", "none")
<1>1. Inside(w) /\ th' = [th EXCEPT ![c] = x] /\ Top(w).at = "engine"
  BY QuantumIs DEF EngineInv
<1>2. frames' = Pop(w) /\ nthreads' = nthreads /\ main_done' = main_done
  BY DEF Quantum
<1>3. /\ c \in 0 .. nthreads - 1 /\ nthreads \in 0 .. MaxTasks /\ th \in [Ids -> Task] /\ c \in Ids
      /\ th[c] \in Task /\ th[c].state = "ready"
      /\ AwaitOK(th, nthreads) /\ JoinOK(th, nthreads, main_done)
  BY <1>1, TopFits DEF EngineInv, Good
<1>4. x \in Task /\ x.worker = th[c].worker /\ x.state = "ready" /\ x.block = "none"
  <2> HIDE DEF c
  <2> QED BY <1>3, Names, MarkIs
<1> HIDE DEF x
<1>5. Fits(th, nthreads, c, x) /\ Sets(th, th', c, x)
  BY <1>1, <1>3, <1>4, SetsOne, Zenon DEF Fits
<1>6. AwaitOK(th', nthreads) /\ JoinOK(th', nthreads, main_done) /\ Keeps(th, th', nthreads, {c})
  BY <1>3, <1>5, TableOne, Zenon
<1>7. StackOK(th', Pop(w), nthreads)
  BY <1>1, <1>4, <1>5, <1>6, PopStep, Zenon DEF Sets
<1> QED BY <1>2, <1>6, <1>7, Zenon DEF Good

\* coco_g_finish after a solution or a ball
LEMMA RunFinishGood ==
  ASSUME EngineInv, NEW w \in Workers, NEW tag \in {"ok", "error"}, RunFinish(w, tag)
  PROVE  Good(th', frames', nthreads', main_done')
<1>1. Inside(w) /\ Finish(lp, th, Cur(w), Status(tag, 0)) /\ frames' = Pop(w) /\ nthreads' = nthreads
  BY DEF RunFinish, At
<1>2. Status(tag, 0) \in Statuses
  BY StatusIs, Zenon DEF Tags
<1>3. /\ Cur(w) \in Used /\ th \in [Ids -> Task] /\ TypeOK
      /\ lp \in [Workers -> {"loop", "wait", "woken", "out"}]
      /\ AwaitOK(th, nthreads) /\ JoinOK(th, nthreads, main_done)
  BY <1>1, TopFits, Zenon DEF EngineInv, Good, TypeOK
<1>4. /\ AwaitOK(th', nthreads) /\ JoinOK(th', nthreads, main_done')
      /\ Keeps(th, th', nthreads, {Cur(w)}) /\ th'[Cur(w)].state = "done"
  BY <1>1, <1>2, <1>3, FinishTable, Zenon
<1>5. StackOK(th', Pop(w), nthreads)
  BY <1>1, <1>4, PopStep, Zenon
<1> QED BY <1>1, <1>4, <1>5, Zenon DEF Good

\* the goal failed
LEMMA RunFailGood ==
  ASSUME EngineInv, NEW w \in Workers, RunFail(w)
  PROVE  Good(th', frames', nthreads', main_done')
<1> DEFINE c == Cur(w)
<1>1. /\ Inside(w) /\ Top(w).at = "engine" /\ frames' = Stand(w, "unwind", None)
      /\ th' = th /\ nthreads' = nthreads /\ main_done' = main_done
  BY DEF RunFail, At
<1>2. /\ c \in 0 .. nthreads - 1 /\ th \in [Ids -> Task] /\ c \in Ids
      /\ th[c] \in Task /\ th[c].state = "ready"
      /\ AwaitOK(th, nthreads) /\ JoinOK(th, nthreads, main_done)
  BY <1>1, TopFits DEF EngineInv, Good
<1>3. Fits(th, nthreads, c, th[c]) /\ Sets(th, th, c, th[c])
  BY <1>2 DEF Fits, Sets, AwaitOK, JoinOK
<1>4. "unwind" \in Places /\ None \in Ids \cup {None}
  BY DEF Places
<1> QED BY <1>1, <1>2, <1>3, <1>4, StandStep, SMTT(30)

\* Ending the main task as a deadlock: nothing is ready and no wait is nested, so
\* it stands on a stack, if at all, where its engine is returning.
LEMMA KillKeeps ==
  ASSUME EngineInv, NEW T \in [Ids -> Task], NEW S,
         NEW L \in [Workers -> {"loop", "wait", "woken", "out"}],
         Dead(T, frames), Finish(L, T, Main, Status("deadlock", 0)), ~ForkJoin,
         AwaitOK(T, nthreads), Keeps(th, T, nthreads, S)
  PROVE  /\ AwaitOK(th', nthreads) /\ JoinOK(th', nthreads, main_done')
         /\ Keeps(th, th', nthreads, S)
<1>1. /\ nthreads > 0 /\ nthreads \in Nat /\ ~AnyReady(T) /\ ~InlineWait(frames)
      /\ Used = 0 .. nthreads - 1 /\ Main \in Used /\ TypeOK
  BY DEF Dead, EngineInv, TypeOK, Used, Main
<1>2. Status("deadlock", 0) \in Statuses
  BY StatusIs DEF Tags
<1>3. JoinOK(T, nthreads, main_done)
  BY DEF JoinOK
<1>4. /\ AwaitOK(th', nthreads) /\ JoinOK(th', nthreads, main_done')
      /\ Keeps(T, th', nthreads, {Main}) /\ th'[Main].state = "done"
  BY <1>1, <1>2, <1>3, FinishTable, Zenon
<1>5. \A i \in Used : th[i].state # "nested"
  <2> SUFFICES ASSUME NEW i \in Used, th[i].state = "nested" PROVE FALSE
    OBVIOUS
  <2>1. PICK w \in Workers : \E k \in 1 .. Len(frames[w]) :
          frames[w][k].task = i /\ frames[w][k].at = "await"
    BY <1>1 DEF EngineInv, Good, StackOK
  <2>2. DOMAIN frames[w] = 1 .. Len(frames[w])
    BY <1>1, SeqLen DEF TypeOK
  <2> QED BY <1>1, <2>1, <2>2, Zenon DEF InlineWait
<1>6. T[Main].state # "ready"
  BY <1>1 DEF AnyReady
<1>7. th'[Main].worker = T[Main].worker
  BY <1>1, <1>2, Constants, FinishIs, ZenonT(30)
<1>8. Keeps(th, th', nthreads, S)
  <2> SUFFICES ASSUME NEW i \in (0 .. nthreads - 1) \ S
               PROVE  /\ th'[i].worker = th[i].worker
                      /\ th[i].state = "ready" => th'[i].state = "ready"
                      /\ th[i].state = "nested" <=> th'[i].state = "nested"
                      /\ th'[i].state = "done" => th[i].state = "done" \/ (i = Main /\ ~ForkJoin)
    BY DEF Keeps
  <2>1. /\ T[i].worker = th[i].worker
        /\ th[i].state = "ready" => T[i].state = "ready"
        /\ T[i].state # "nested"
        /\ T[i].state = "done" => th[i].state = "done" \/ i = Main
    BY <1>1, <1>5, Zenon DEF Keeps
  <2>2. CASE i = Main
    BY <1>1, <1>4, <1>5, <1>6, <1>7, <2>1, <2>2, Zenon
  <2>3. CASE i # Main
    <3>1. /\ th'[i].worker = T[i].worker
          /\ T[i].state = "ready" => th'[i].state = "ready"
          /\ T[i].state = "nested" <=> th'[i].state = "nested"
          /\ th'[i].state = "done" => T[i].state = "done"
      BY <1>4, <2>3 DEF Keeps
    <3> QED BY <1>1, <1>5, <2>1, <3>1, Zenon
  <2> QED BY <2>2, <2>3, Zenon
<1> QED BY <1>4, <1>8, Zenon

\* coco_g_deadlock in coco_g_worker_loop: only the main task ends, and in a program of
\* joins
\* it never fires
LEMMA LoopDeadlockGood ==
  ASSUME EngineInv, NEW w \in Workers, LoopDeadlock(w)
  PROVE  Good(th', frames', nthreads', main_done')
<1> DEFINE L == [lp EXCEPT ![w] = "out"]
<1>1. /\ Finish(L, th, Main, Status("deadlock", 0))
      /\ L \in [Workers -> {"loop", "wait", "woken", "out"}]
  BY LoopDeadlockIs DEF EngineInv
<1>2. Dead(th, frames) /\ frames' = frames /\ nthreads' = nthreads
  BY DEF LoopDeadlock
<1>3. /\ th \in [Ids -> Task] /\ frames \in [Workers -> Seq(Level)] /\ nthreads \in Nat
      /\ StackOK(th, frames, nthreads) /\ AwaitOK(th, nthreads)
      /\ JoinOK(th, nthreads, main_done)
  BY DEF EngineInv, Good, TypeOK
<1>4. ~ForkJoin
  BY <1>2, <1>3, NoDead, Zenon DEF EngineInv
<1>5. Keeps(th, th, nthreads, {})
  BY DEF Keeps
<1> HIDE DEF L
<1>6. /\ AwaitOK(th', nthreads) /\ JoinOK(th', nthreads, main_done')
      /\ Keeps(th, th', nthreads, {})
  BY <1>1, <1>2, <1>3, <1>4, <1>5, KillKeeps, SMTT(30)
<1>7. StackOK(th', frames, nthreads)
  <2>1. \A i \in nthreads .. nthreads - 1 : th'[i].state # "nested"
    BY <1>3
  <2>2. nthreads <= nthreads
    BY <1>3
  <2> QED BY <1>3, <1>6, <2>1, <2>2, StackKeep, Zenon
<1> QED BY <1>2, <1>6, <1>7, Zenon DEF Good

\* the end of coco_g_run at rc 0
LEMMA RunStopGood ==
  ASSUME EngineInv, NEW w \in Workers, RunStop(w)
  PROVE  Good(th', frames', nthreads', main_done')
<1> DEFINE c == Cur(w)
           t == th[c]
           b == Mark(t, "blocked", t.block)
           r == Mark(t, "ready", "none")
           B == [th EXCEPT ![c] = b]
<1>1. /\ Inside(w) /\ Top(w).at = "unwind" /\ frames' = Pop(w) /\ nthreads' = nthreads
      /\ B \in [Ids -> Task]
      /\ \/ th' = th /\ UNCHANGED main_done
         \/ t.block = "yield" /\ UNCHANGED main_done /\ th' = [th EXCEPT ![c] = r]
         \/ /\ t.block \notin {"yield", "none"}
            /\ \/ Dead(B, frames) /\ Finish(lp, B, Main, Status("deadlock", 0))
               \/ ~Dead(B, frames) /\ th' = B /\ UNCHANGED main_done
         \/ t.block = "none" /\ Finish(lp, th, c, Status("failed", 0))
  BY RunStopIs, Zenon DEF EngineInv, RunStop
<1>2. /\ c \in 0 .. nthreads - 1 /\ c \in Used /\ c \in Ids /\ th[c] \in Task /\ t.state # "nested"
      /\ nthreads \in 0 .. MaxTasks /\ th \in [Ids -> Task] /\ TypeOK
      /\ lp \in [Workers -> {"loop", "wait", "woken", "out"}]
      /\ StackOK(th, frames, nthreads) /\ AwaitOK(th, nthreads) /\ JoinOK(th, nthreads, main_done)
      /\ t.state = "done" => ~ForkJoin
  BY <1>1, TopFits, Zenon DEF EngineInv, Good, TypeOK, LevelFits, Cur
<1>3. /\ b \in Task /\ b.worker = t.worker /\ b.state = "blocked" /\ b.block = t.block
      /\ b.wait_on = t.wait_on
      /\ r \in Task /\ r.worker = t.worker /\ r.state = "ready" /\ r.block = "none"
  <2> HIDE DEF t
  <2>1. t \in Task
    BY <1>2, Zenon DEF t
  <2>3. /\ b \in Task /\ b.worker = t.worker /\ b.state = "blocked" /\ b.block = t.block
        /\ b.wait_on = t.wait_on
    BY <2>1, BlockedIs, Zenon
  <2>4. r \in Task /\ r.worker = t.worker /\ r.state = "ready" /\ r.block = "none"
    BY <2>1, Names, MarkIs, SMTT(30)
  <2> QED BY <2>3, <2>4, Zenon
<1>4. Fits(th, nthreads, c, r)
  BY <1>2, <1>3, Zenon DEF Fits
<1>5. t.block \notin {"yield", "none"} => Fits(th, nthreads, c, b)
  BY <1>2, <1>3 DEF Fits, AwaitOK, JoinOK
<1>6. Sets(th, B, c, b)
  <2> HIDE DEF b
  <2> QED BY <1>2, <1>3, SetsOne, Zenon
<1> HIDE DEF r, b, B, c
<1>7. CASE th' = th /\ UNCHANGED main_done
  <2>1. Keeps(th, th, nthreads, {c})
    BY Zenon DEF Keeps
  <2>2. StackOK(th, Pop(w), nthreads)
    BY <1>1, <1>2, <2>1, PopStep, Zenon DEF c
  <2> QED BY <1>1, <1>2, <1>7, <2>2, Zenon DEF Good
<1>8. CASE th' = [th EXCEPT ![c] = r] /\ UNCHANGED main_done
  <2>1. Sets(th, th', c, r)
    BY <1>2, <1>3, <1>8, SetsOne, Zenon
  <2>2. AwaitOK(th', nthreads) /\ JoinOK(th', nthreads, main_done) /\ Keeps(th, th', nthreads, {c})
    BY <1>2, <1>4, <2>1, TableOne, Zenon
  <2>3. StackOK(th', Pop(w), nthreads)
    BY <1>1, <1>3, <2>1, <2>2, PopStep, Zenon DEF Sets, c
  <2> QED BY <1>1, <1>8, <2>2, <2>3, Zenon DEF Good
<1>9. t.block \notin {"yield", "none"} =>
        AwaitOK(B, nthreads) /\ JoinOK(B, nthreads, main_done) /\ Keeps(th, B, nthreads, {c})
  BY <1>2, <1>5, <1>6, TableOne, Zenon
<1>10. CASE t.block \notin {"yield", "none"} /\ th' = B /\ UNCHANGED main_done
  <2>1. StackOK(th', Pop(w), nthreads)
    BY <1>1, <1>3, <1>6, <1>9, <1>10, PopStep, Zenon DEF Sets, c
  <2> QED BY <1>1, <1>9, <1>10, <2>1, Zenon DEF Good
<1>11. CASE /\ t.block \notin {"yield", "none"}
            /\ Dead(B, frames) /\ Finish(lp, B, Main, Status("deadlock", 0))
  <2>1. ~ForkJoin
    <3> SUFFICES ASSUME ForkJoin PROVE FALSE
      OBVIOUS
    <3>1. t.block = "await" /\ t.state = "blocked"
      BY <1>2, <1>11, Zenon DEF JoinOK, AwaitOK
    <3>2. \A i \in Used : B[i].state = th[i].state
      BY <1>2, <1>3, <1>6, <3>1, UsedIs, Zenon DEF Sets
    <3>3. Dead(th, frames)
      BY <1>11, <3>2, Zenon DEF Dead, AnyReady
    <3> QED BY <1>2, <3>3, NoDead, Zenon
  <2>2. /\ AwaitOK(th', nthreads) /\ JoinOK(th', nthreads, main_done')
        /\ Keeps(th, th', nthreads, {c})
    BY <1>1, <1>2, <1>9, <1>11, <2>1, KillKeeps, Zenon
  <2>3. th'[c].state # "nested"
    <3>1. Status("deadlock", 0) \in Statuses /\ Main \in Ids
      BY StatusIs, Constants, Zenon DEF Tags
    <3>2. /\ th'[Main].state = "done"
          /\ \A i \in Awaiting(B, Main) \ {Main} : th'[i] = Woken(B[i], Status("deadlock", 0))
          /\ \A i \in Ids \ {Main} : i \notin Awaiting(B, Main) => th'[i] = B[i]
      BY <1>1, <1>2, <1>11, <3>1, FinishIs, SMTT(30)
    <3>3. B[c] = b /\ Woken(b, Status("deadlock", 0)).state = "ready"
      BY <1>3, <1>6, <3>1, WokenIs, Zenon DEF Sets
    <3> QED BY <1>2, <1>3, <3>2, <3>3, Zenon
  <2>4. StackOK(th', Pop(w), nthreads)
    BY <1>1, <2>2, <2>3, PopStep, SMTT(30) DEF c
  <2> QED BY <1>1, <2>2, <2>4, Zenon DEF Good
<1>12. CASE Finish(lp, th, c, Status("failed", 0))
  <2>1. Status("failed", 0) \in Statuses
    BY StatusIs DEF Tags
  <2>2. /\ AwaitOK(th', nthreads) /\ JoinOK(th', nthreads, main_done')
        /\ Keeps(th, th', nthreads, {c}) /\ th'[c].state = "done"
    BY <1>2, <1>12, <2>1, FinishTable, Zenon
  <2>3. StackOK(th', Pop(w), nthreads)
    BY <1>1, <2>2, PopStep, Zenon DEF c
  <2> QED BY <1>1, <2>2, <2>3, Zenon DEF Good
<1> QED BY <1>1, <1>7, <1>8, <1>10, <1>11, <1>12

\* async_yield
LEMMA YieldGood ==
  ASSUME EngineInv, NEW w \in Workers, Yield(w)
  PROVE  Good(th', frames', nthreads', main_done')
<1> DEFINE c == Cur(w)
           x == Mark(th[c], th[c].state, "yield")
<1>1. Inside(w) /\ th' = [th EXCEPT ![c] = x] /\ Top(w).at = "engine"
  BY YieldIs DEF EngineInv
<1>2. frames' = Stand(w, "unwind", None) /\ nthreads' = nthreads /\ main_done' = main_done
  BY DEF Yield
<1>3. /\ c \in Ids /\ th[c] \in Task /\ th \in [Ids -> Task] /\ th[c].state = "ready"
      /\ None \in Ids \cup {None} /\ "unwind" \in Places
  BY <1>1, TopFits, Zenon DEF Places
<1>4. x \in Task /\ x.worker = th[c].worker /\ x.state = "ready" /\ x.block = "yield"
  <2> HIDE DEF c
  <2> QED BY <1>3, Names, MarkIs
<1> HIDE DEF x
<1>5. Fits(th, nthreads, c, x) /\ Sets(th, th', c, x)
  BY <1>1, <1>3, <1>4, SetsOne, Zenon DEF Fits
<1>6. Good(th', Stand(w, "unwind", None), nthreads, main_done)
  BY <1>1, <1>3, <1>4, <1>5, StandStep, Zenon
<1> QED BY <1>2, <1>6, Zenon

\* async_await: the awaited task is not done when the block is set
LEMMA AwaitGood ==
  ASSUME EngineInv, NEW w \in Workers, NEW id \in Ids, NEW nested \in Nested, Await(w, id, nested)
  PROVE  Good(th', frames', nthreads', main_done')
<1> DEFINE c == Cur(w)
           x == With(th[c], "blocked", "await", id, th[c].send, th[c].resume)
<1>1. nested \in BOOLEAN /\ (nested => "nested" \in Ops)
  BY Zenon DEF Nested
<1>2. /\ Inside(w) /\ Top(w).at = "engine"
      /\ nested => th' = th /\ frames' = Stand(w, "toawait", id)
      /\ ~nested => frames' = Stand(w, "unwind", None) /\ th' = [th EXCEPT ![c] = x]
  BY <1>1, AwaitIs DEF EngineInv
<1>3. /\ nthreads' = nthreads /\ main_done' = main_done /\ id \in Used /\ th[id].state # "done"
      /\ "child" \in Ops => id > c
  BY DEF Await
<1>4. /\ c \in Ids /\ th[c] \in Task /\ th \in [Ids -> Task] /\ th[c].state = "ready"
      /\ None \in Ids \cup {None} /\ "unwind" \in Places /\ "toawait" \in Places
      /\ id \in Ids \cup {None}
      /\ AwaitOK(th, nthreads) /\ JoinOK(th, nthreads, main_done) /\ c \in 0 .. nthreads - 1
  BY <1>2, TopFits, Zenon DEF Places, EngineInv, Good
<1>5. CASE nested
  <2>1. Fits(th, nthreads, c, th[c]) /\ Sets(th, th, c, th[c])
    BY <1>4, Zenon DEF Fits, Sets, AwaitOK, JoinOK
  <2>2. Good(th, Stand(w, "toawait", id), nthreads, main_done)
    BY <1>1, <1>2, <1>4, <1>5, <2>1, StandStep, Zenon
  <2> QED BY <1>2, <1>3, <1>5, <2>2, Zenon
<1>6. CASE ~nested
  <2>1. /\ x \in Task /\ x.worker = th[c].worker /\ x.state = "blocked" /\ x.block = "await"
        /\ x.wait_on = id
    <3> HIDE DEF c
    <3> QED BY <1>4, AwaitsIs, Zenon
  <2> HIDE DEF x
  <2>2. Fits(th, nthreads, c, x) /\ Sets(th, th', c, x)
    BY <1>2, <1>3, <1>4, <1>6, <2>1, SetsOne, ZenonT(30) DEF Fits, Used
  <2>3. Good(th', Stand(w, "unwind", None), nthreads, main_done)
    BY <1>2, <1>4, <2>1, <2>2, StandStep, Zenon
  <2> QED BY <1>2, <1>3, <1>6, <2>3, Zenon
<1> QED BY <1>5, <1>6

\* A task that waits on a channel, outside any nested engine.
LEMMA ParksGood ==
  ASSUME EngineInv, NEW w \in Workers, Inside(w), Top(w).at = "engine", Channels,
         NEW o \in {"send", "recv"}, NEW v \in Nat, Parks(w, o, v, FALSE),
         nthreads' = nthreads, main_done' = main_done
  PROVE  Good(th', frames', nthreads', main_done')
<1> DEFINE c == Cur(w)
           x == With(th[c], "blocked", o, th[c].wait_on, v, th[c].resume)
<1>1. th' = [th EXCEPT ![c] = x] /\ frames' = Stand(w, "unwind", None) /\ ~ForkJoin
  BY DEF Parks, ForkJoin
<1>2. /\ c \in Ids /\ th[c] \in Task /\ th \in [Ids -> Task]
      /\ None \in Ids \cup {None} /\ "unwind" \in Places
  BY TopFits DEF Places
<1>3. /\ x \in Task /\ x.worker = th[c].worker /\ x.state = "blocked" /\ x.block = o
  <2> HIDE DEF c
  <2> QED BY <1>2, WaitsIs
<1> HIDE DEF x
<1>4. Fits(th, nthreads, c, x) /\ Sets(th, th', c, x)
  BY <1>1, <1>2, <1>3, SetsOne, Zenon DEF Fits
<1>5. Good(th', Stand(w, "unwind", None), nthreads, main_done)
  BY <1>2, <1>3, <1>4, StandStep, Zenon
<1> QED BY <1>1, <1>5, Zenon

\* Tasks that channels wake: none of them is inside a nested engine.
LEMMA WokenGood ==
  ASSUME EngineInv, TypeOK', "nested" \notin Ops, ~ForkJoin,
         frames' = frames, nthreads' = nthreads, main_done' = main_done,
         \A i \in Ids : th'[i] = th[i] \/ \E s \in Statuses : th'[i] = Woken(th[i], s)
  PROVE  Good(th', frames', nthreads', main_done')
<1>1. /\ th \in [Ids -> Task] /\ nthreads \in Nat /\ 0 .. nthreads - 1 \subseteq Ids
      /\ frames \in [Workers -> Seq(Level)]
      /\ StackOK(th, frames, nthreads) /\ AwaitOK(th, nthreads)
  <2>1. TypeOK /\ StackOK(th, frames, nthreads) /\ AwaitOK(th, nthreads)
    BY Zenon DEF EngineInv, Good
  <2>2. /\ th \in [Ids -> Task] /\ frames \in [Workers -> Seq(Level)]
        /\ nthreads \in 0 .. MaxTasks /\ 0 .. nthreads - 1 \subseteq Ids
    BY <2>1, UsedIs, Zenon DEF TypeOK, Used
  <2>3. nthreads \in Nat
    BY <2>1, CountIs, Zenon
  <2> QED BY <2>1, <2>2, <2>3, Zenon
<1>2. \A i \in Ids : th'[i] = th[i] \/ (/\ th'[i].state = "ready" /\ th'[i].block = "none"
                                        /\ th'[i].worker = th[i].worker)
  <2>1. \A i \in Ids : \A s \in Statuses : /\ Woken(th[i], s).state = "ready"
                                         /\ Woken(th[i], s).block = "none"
                                         /\ Woken(th[i], s).worker = th[i].worker
    BY <1>1, WokenIs, ZenonT(30)
  <2> QED BY <2>1
<1>3. \A i \in 0 .. nthreads - 1 : th[i].state # "nested"
  <2> SUFFICES ASSUME NEW i \in 0 .. nthreads - 1, th[i].state = "nested" PROVE FALSE
    BY Zenon
  <2>1. PICK w \in Workers : \E k \in 1 .. Len(frames[w]) : frames[w][k].at = "await"
    BY <1>1 DEF StackOK
  <2>2. PICK k \in 1 .. Len(frames[w]) : frames[w][k].at = "await"
    BY <2>1, Zenon
  <2>3. LevelFits(th, nthreads, w, frames[w][k])
    BY <1>1, Zenon DEF StackOK
  <2>4. frames[w][k].at \in {"engine", "unwind"}
    BY <2>3, Zenon DEF LevelFits
  <2> QED BY <2>2, <2>4, Zenon
<1>4. Keeps(th, th', nthreads, {})
  BY <1>1, <1>2, <1>3, Zenon DEF Keeps
<1>5. AwaitOK(th', nthreads)
  BY <1>1, <1>2 DEF AwaitOK
<1>6. StackOK(th', frames, nthreads)
  <2>1. nthreads <= nthreads /\ \A i \in nthreads .. nthreads - 1 : th'[i].state # "nested"
    BY <1>1
  <2> QED BY <1>1, <1>4, <2>1, StackKeep, Zenon
<1> QED BY <1>5, <1>6 DEF Good, JoinOK

\* A waiter that coco_g_async_send or coco_g_async_recv answers is ready again,
\* and on no stack where it should not be.
LEMMA WakesGood ==
  ASSUME EngineInv, TypeOK', "nested" \notin Ops, ~ForkJoin,
         nthreads' = nthreads, main_done' = main_done, NEW i, NEW s \in Statuses, Wakes(i, s)
  PROVE  Good(th', frames', nthreads', main_done')
<1>1. \A j \in Ids : th'[j] = th[j] \/ th'[j] = Woken(th[j], s)
  BY DEF Wakes, EngineInv, TypeOK
<1>2. frames' = frames
  BY Zenon DEF Wakes
<1> QED BY <1>1, <1>2, WokenGood, Zenon

\* coco_g_async_send
LEMMA SendGood ==
  ASSUME EngineInv, NoNestedChannel, NEW w \in Workers, NEW c \in Chans, NEW nested \in Nested,
         Send(w, c, nested)
  PROVE  Good(th', frames', nthreads', main_done')
<1> DEFINE q == chan[c]
           v == q.offered + 1
<1>1. nested \in BOOLEAN /\ TypeOK
  BY Zenon DEF Nested, EngineInv
<1>2. /\ TypeOK' /\ Inside(w) /\ Top(w).at = "engine" /\ "send" \in Ops
      /\ Sent(w, c, nested) /\ nthreads' = nthreads /\ main_done' = main_done
  BY <1>1, SendIs
<1>3. Channels /\ "nested" \notin Ops /\ ~ForkJoin /\ nested = FALSE
  BY <1>2, Zenon DEF Channels, NoNestedChannel, ForkJoin, Nested
<1>4. v \in Nat /\ Status("ok", v) \in Statuses
  <2>1. v \in Nat
    BY <1>1, ChannelIs DEF TypeOK
  <2> HIDE DEF v
  <2> QED BY <2>1, StatusIs, Zenon DEF Tags
<1>5. CASE th' = th /\ frames' = frames
  BY <1>2, <1>5, SameTable, Zenon
<1>6. CASE Wakes(Head(q.receivers), Status("ok", v))
  <2> HIDE DEF q, v
  <2> QED BY <1>2, <1>3, <1>4, <1>6, WakesGood, Zenon
<1>7. CASE Parks(w, "send", v, nested)
  <2> HIDE DEF v
  <2> QED BY <1>2, <1>3, <1>4, <1>7, ParksGood, ZenonT(30)
<1> QED BY <1>2, <1>5, <1>6, <1>7, Zenon DEF Sent

\* coco_g_async_recv
LEMMA RecvGood ==
  ASSUME EngineInv, NoNestedChannel, NEW w \in Workers, NEW c \in Chans, NEW nested \in Nested,
         Recv(w, c, nested)
  PROVE  Good(th', frames', nthreads', main_done')
<1> DEFINE q == chan[c]
<1>1. nested \in BOOLEAN /\ TypeOK
  BY Zenon DEF Nested, EngineInv
<1>2. /\ TypeOK' /\ Inside(w) /\ Top(w).at = "engine" /\ "recv" \in Ops
      /\ Received(w, c, nested) /\ nthreads' = nthreads /\ main_done' = main_done
  BY <1>1, RecvIs
<1>3. Channels /\ "nested" \notin Ops /\ ~ForkJoin /\ nested = FALSE
  BY <1>2, Zenon DEF Channels, NoNestedChannel, ForkJoin, Nested
<1>4. Status("ok", 0) \in Statuses
  BY StatusIs DEF Tags
<1>5. CASE th' = th /\ frames' = frames
  BY <1>2, <1>5, SameTable, Zenon
<1>6. CASE Wakes(Head(q.senders), Status("ok", 0))
  <2> HIDE DEF q
  <2> QED BY <1>2, <1>3, <1>4, <1>6, WakesGood, Zenon
<1>7. CASE Parks(w, "recv", 0, nested)
  BY <1>2, <1>3, <1>7, ParksGood, Zenon
<1> QED BY <1>2, <1>5, <1>6, <1>7, Zenon DEF Received

\* coco_g_chan_close
LEMMA CloseGood ==
  ASSUME EngineInv, NoNestedChannel, NEW w \in Workers, NEW c \in Chans, Close(w, c)
  PROVE  Good(th', frames', nthreads', main_done')
<1>1. /\ TypeOK' /\ frames' = frames /\ nthreads' = nthreads /\ main_done' = main_done
      /\ \A i \in Ids : IF i \in Told(c) THEN \E s \in Statuses : th'[i] = Woken(th[i], s)
                                         ELSE th'[i] = th[i]
  BY CloseIs, Zenon DEF EngineInv
<1>2. CASE Channels
  <2>1. "nested" \notin Ops /\ ~ForkJoin
    BY <1>2, Zenon DEF NoNestedChannel, ForkJoin
  <2>2. \A i \in Ids : th'[i] = th[i] \/ \E s \in Statuses : th'[i] = Woken(th[i], s)
    BY <1>1
  <2> QED BY <1>1, <2>1, <2>2, WokenGood, Zenon
<1>3. CASE ~Channels
  <2>1. chan[c].senders = <<>> /\ chan[c].receivers = <<>>
    BY <1>3, Zenon DEF EngineInv, NoLists
  <2>2. Told(c) = {}
    BY <2>1 DEF Told, Range
  <2>3. th' \in [Ids -> Task] /\ th \in [Ids -> Task]
    BY <1>1, SMTT(30) DEF EngineInv, TypeOK
  <2>4. th' = th
    <3>1. \A i \in Ids : th'[i] = th[i]
      BY <1>1, <2>2, Zenon
    <3> QED BY <2>3, <3>1
  <2> QED BY <1>1, <2>4, SameTable, Zenon
<1> QED BY <1>2, <1>3, Zenon

\* A nested wait that ends: its task runs on.
LEMMA ReadyGood ==
  ASSUME EngineInv, NEW w \in Workers, Inside(w), Top(w).at \in {"toawait", "await"},
         th' = [th EXCEPT ![Cur(w)] = Mark(th[Cur(w)], "ready", th[Cur(w)].block)],
         frames' = Stand(w, "engine", None), nthreads' = nthreads, main_done' = main_done
  PROVE  Good(th', frames', nthreads', main_done')
<1> DEFINE c == Cur(w)
           x == Mark(th[c], "ready", th[c].block)
<1>1. /\ c \in 0 .. nthreads - 1 /\ c \in Ids /\ th[c] \in Task /\ th \in [Ids -> Task]
      /\ th[c].state \in {"ready", "nested"}
      /\ None \in Ids \cup {None} /\ "engine" \in Places
      /\ AwaitOK(th, nthreads) /\ JoinOK(th, nthreads, main_done)
  BY TopFits, Zenon DEF Places, EngineInv, Good
<1>2. x \in Task /\ x.worker = th[c].worker /\ x.state = "ready" /\ x.block = th[c].block
  <2> HIDE DEF c
  <2> QED BY <1>1, StateIs
<1> HIDE DEF x
<1>3. Sets(th, th', c, x)
  BY <1>1, <1>2, SetsOne, Zenon DEF x
<1>4. Fits(th, nthreads, c, x)
  BY <1>1, <1>2, Zenon DEF Fits, AwaitOK, JoinOK
<1> QED BY <1>1, <1>2, <1>3, <1>4, StandStep, Zenon

\* A turn of await_here's loop that finds nothing: its task is nested, at the loop.
LEMMA WaitingGood ==
  ASSUME EngineInv, NEW w \in Workers, Inside(w), Top(w).at \in {"toawait", "await"}
  PROVE  /\ Good(Waiting(w), Stand(w, Loop(w), Top(w).arg), nthreads, main_done)
         /\ Loop(w) = "await" /\ Waiting(w) \in [Ids -> Task]
         /\ Stand(w, Loop(w), Top(w).arg) \in [Workers -> Seq(Level)]
         /\ Stand(w, Loop(w), Top(w).arg)[w][Len(frames[w])].at = "await"
         /\ Len(Stand(w, Loop(w), Top(w).arg)[w]) = Len(frames[w])
<1> DEFINE c == Cur(w)
           st == TurnState(w)
           x == Mark(th[c], st, th[c].block)
<1>1. /\ c \in 0 .. nthreads - 1 /\ c \in Ids /\ th[c] \in Task /\ th \in [Ids -> Task]
      /\ th[c].state \in {"ready", "nested"} /\ "nested" \in Ops
      /\ Top(w).at = "await" <=> th[c].state = "nested"
      /\ AwaitOK(th, nthreads) /\ JoinOK(th, nthreads, main_done) /\ TypeOK
  BY TopFits DEF EngineInv, Good
<1>2. st = "nested" /\ Loop(w) = "await" /\ Loop(w) \in Places /\ Top(w).arg \in Ids \cup {None}
  BY <1>1, LoopIs, Zenon DEF TurnState, Loop
<1>3. Waiting(w) = [th EXCEPT ![c] = x] /\ Waiting(w) \in [Ids -> Task]
  BY <1>1, WaitingIs, Zenon
<1>4. x \in Task /\ x.worker = th[c].worker /\ x.state = "nested" /\ x.block = th[c].block
  <2> HIDE DEF c, st
  <2> QED BY <1>1, <1>2, StateIs, Zenon
<1> HIDE DEF x, st
<1>5. Sets(th, Waiting(w), c, x)
  BY <1>1, <1>3, <1>4, SetsOne, Zenon
<1>6. Fits(th, nthreads, c, x)
  BY <1>1, <1>4, Zenon DEF Fits, AwaitOK, JoinOK
<1>7. Good(Waiting(w), Stand(w, Loop(w), Top(w).arg), nthreads, main_done)
  BY <1>1, <1>2, <1>4, <1>5, <1>6, StandStep, Zenon
<1>8. /\ Stand(w, Loop(w), Top(w).arg) \in [Workers -> Seq(Level)]
      /\ Len(Stand(w, Loop(w), Top(w).arg)[w]) = Len(frames[w])
      /\ Stand(w, Loop(w), Top(w).arg)[w][Len(frames[w])] = Frame(c, Loop(w), Top(w).arg)
  BY <1>1, <1>2, StandIs, Zenon
<1>9. Frame(c, Loop(w), Top(w).arg).at = Loop(w)
  BY DEF Frame
<1> QED BY <1>2, <1>3, <1>7, <1>8, <1>9, Zenon

\* Only await_here is met in a nested engine where no channel is used in one.
LEMMA NestAt ==
  ASSUME EngineInv, NEW w \in Workers, Inside(w),
         Top(w).at \in {"toawait", "await", "toresume", "resume"}
  PROVE  Top(w).at \in {"toawait", "await"}
  BY TopFits

\* coco_g_await_here runs a ready task of its worker on its own stack: that task is not
\* yet on one.
LEMMA NestRunGood ==
  ASSUME EngineInv, NEW w \in Workers, NestRun(w)
  PROVE  Good(th', frames', nthreads', main_done')
<1> DEFINE W == Waiting(w)
           f == Stand(w, Loop(w), Top(w).arg)
<1>1. /\ Inside(w) /\ Top(w).at \in {"toawait", "await"}
      /\ nthreads' = nthreads /\ main_done' = main_done
  BY NestRunIs, NestAt, Zenon DEF EngineInv
<1>2. PICK t \in Mine(W, w) :
        /\ t \in Ids /\ t \in Used
        /\ th' = [W EXCEPT ![t] = Applied(W[t])]
        /\ frames' = [f EXCEPT ![w] = Append(f[w], Frame(t, "engine", None))]
  BY NestRunIs, Zenon DEF EngineInv
<1>3. /\ StackOK(W, f, nthreads) /\ AwaitOK(W, nthreads) /\ JoinOK(W, nthreads, main_done)
      /\ W \in [Ids -> Task] /\ f \in [Workers -> Seq(Level)]
      /\ f[w][Len(f[w])].at = "await"
  BY <1>1, WaitingGood, Zenon DEF Good
<1>4. nthreads \in Nat /\ nthreads \in 0 .. MaxTasks /\ t \in 0 .. nthreads - 1
  BY <1>2, Constants, SMTT(30) DEF EngineInv, TypeOK, Used
<1> HIDE DEF W, f
<1> DEFINE x == Applied(W[t])
<1>5. W[t].state = "ready" /\ W[t].worker = w /\ W[t].block # "await" /\ W[t] \in Task
  BY <1>2, <1>3, <1>4, Zenon DEF Mine, AwaitOK
<1>6. x \in Task /\ x.worker = w /\ x.state = "ready" /\ x.block = W[t].block
  BY <1>5, AppliedIs, Zenon
<1> HIDE DEF x
<1>7. Fits(W, nthreads, t, x) /\ Sets(W, th', t, x)
  <2>1. Fits(W, nthreads, t, x)
    BY <1>3, <1>4, <1>5, <1>6 DEF Fits, JoinOK
  <2> QED BY <1>2, <1>3, <1>6, <2>1, SetsOne, ZenonT(30) DEF x
<1>8. AwaitOK(th', nthreads) /\ JoinOK(th', nthreads, main_done) /\ Keeps(W, th', nthreads, {t})
  BY <1>3, <1>4, <1>7, TableOne, Zenon
<1>9. Keeps(W, th', nthreads, {})
  BY <1>5, <1>6, <1>7, <1>8, Zenon DEF Keeps, Sets
<1>10. StackOK(th', frames', nthreads)
  <2> DEFINE g == [f EXCEPT ![w] = Append(f[w], Frame(t, "engine", None))]
  <2>1. /\ g \in [Workers -> Seq(Level)]
        /\ \A v \in Workers \ {w} : g[v] = f[v]
        /\ Len(g[w]) = Len(f[w]) + 1
        /\ \A k \in 1 .. Len(f[w]) : g[w][k] = f[w][k]
        /\ g[w][Len(f[w]) + 1] = Frame(t, "engine", None)
    <3> HIDE DEF g
    <3>1. t \in Ids /\ f \in [Workers -> Seq(Level)] /\ g = [f EXCEPT ![w] = Append(f[w], Frame(t, "engine", None))]
      BY <1>2, <1>3, Zenon DEF g
    <3> QED BY <3>1, PushIs
  <2> HIDE DEF g
  <2>2. StackOK(th', g, nthreads)
    BY <1>3, <1>4, <1>5, <1>9, <2>1, StackPush, Zenon
  <2> QED BY <1>2, <2>2, Zenon DEF g
<1> QED BY <1>1, <1>8, <1>10, Zenon DEF Good

\* the nested waits
LEMMA NestGood ==
  ASSUME EngineInv, NEW w \in Workers, NestStep(w)
  PROVE  Good(th', frames', nthreads', main_done')
<1>0. TypeOK
  BY DEF EngineInv
<1>1. CASE AwaitDone(w)
  BY <1>0, <1>1, AwaitDoneIs, ReadyGood, Zenon
<1>2. CASE ResumeDone(w)
  BY <1>0, <1>2, ResumeDoneIs, NestAt
<1>3. CASE NestRun(w)
  BY <1>3, NestRunGood, Zenon
<1>4. CASE NestDeadlock(w)
  BY <1>0, <1>4, NestDeadlockIs, NestAt, ReadyGood, Zenon
<1>5. CASE NestSleep(w)
  BY <1>0, <1>5, NestSleepIs, NestAt, WaitingGood, Zenon
<1> QED BY <1>1, <1>2, <1>3, <1>4, <1>5, Zenon DEF NestStep

\* Without sends and receives nothing ever is on a channel's list.
LEMMA ListsStep ==
  ASSUME TypeOK, ~Channels, NoLists, [Next]_vars
  PROVE  NoLists'
<1>1. ASSUME NEW w \in Workers, NEW c \in Chans, Close(w, c) PROVE NoLists'
  <2>1. chan' = [chan EXCEPT ![c] = Shut(chan[c])] /\ chan \in [Chans -> Channel]
    BY <1>1, CloseIs, Zenon DEF TypeOK
  <2>2. Shut(chan[c]).senders = <<>> /\ Shut(chan[c]).receivers = <<>>
    BY <2>1 DEF Shut, Chan, Channel
  <2>3. \A d \in Chans : chan'[d].senders = <<>> /\ chan'[d].receivers = <<>>
    <3> TAKE d \in Chans
    <3>1. CASE d = c
      BY <2>1, <2>2, <3>1, Zenon
    <3>2. CASE d # c
      BY <2>1, <3>2, Zenon DEF NoLists
    <3> QED BY <3>1, <3>2
  <2> QED BY <2>3, Zenon DEF NoLists
<1>2. ASSUME NEW w \in Workers, NEW c \in Chans, NEW nested, Send(w, c, nested) \/ Recv(w, c, nested)
      PROVE  FALSE
  <2>1. Does(w, "send") \/ Does(w, "recv")
    BY <1>2, Zenon DEF Send, Recv
  <2> QED BY <2>1 DEF Does, Channels
<1>3. CASE chan' = chan
  BY <1>3 DEF NoLists
<1>4. ASSUME NEW w \in Workers, LoopStep(w) \/ RunStep(w) \/ NestStep(w) \/ Spurious(w)
      PROVE  chan' = chan
  BY <1>4, Zenon DEF LoopStep, LoopPick, LoopLeave, LoopDeadlock, LoopIdle, LoopWoken, RunStep, Quantum,
              RunFail, RunStop, RunFinish, NestStep, AwaitDone, ResumeDone, NestRun, NestDeadlock,
              NestSleep, GoOn, Spurious
<1>5. ASSUME NEW w \in Workers, Builtin(w) PROVE NoLists'
  <2>1. ASSUME Go(w) \/ Yield(w) \/ \E id \in Ids, nested \in Nested : Await(w, id, nested)
        PROVE  chan' = chan
    BY <2>1 DEF Go, Yield, Await
  <2> QED BY <1>1, <1>2, <1>3, <1>5, <2>1, Zenon DEF Builtin
<1>6. HostStep \/ Ended \/ UNCHANGED vars => chan' = chan
  BY DEF HostStep, Start, Stop, Ended, vars
<1> QED BY <1>3, <1>4, <1>5, <1>6, Zenon DEF Next, Step

\* No stacks and no tasks yet.
LEMMA EngineInit == Init => EngineInv
<1> SUFFICES ASSUME Init PROVE EngineInv
  OBVIOUS
<1>1. TypeOK
  BY TypeInit
<1>2. /\ nthreads = 0 /\ main_done = FALSE
      /\ \A w \in Workers : frames[w] = <<>> /\ Len(frames[w]) = 0
  BY DEF Init
<1>3. StackOK(th, frames, 0)
  BY <1>2 DEF StackOK
<1>4. AwaitOK(th, 0) /\ JoinOK(th, 0, main_done)
  BY <1>2 DEF AwaitOK, JoinOK
<1>5. NoLists
  BY DEF Init, NoLists
<1> QED BY <1>1, <1>2, <1>3, <1>4, <1>5, Zenon DEF EngineInv, Good

\* Every critical section of the world lock keeps the invariant.
LEMMA EngineStep ==
  ASSUME NoNestedChannel, EngineInv, [Next]_vars
  PROVE  EngineInv'
<1>1. TypeOK' /\ (~Channels => NoLists')
  BY TypeStep, ListsStep, Zenon DEF EngineInv
<1>2. ASSUME NEW w \in Workers, LoopStep(w) PROVE Good(th', frames', nthreads', main_done')
  <2>1. CASE LoopPick(w)
    BY <2>1, LoopPickGood
  <2>2. CASE LoopDeadlock(w)
    BY <2>2, LoopDeadlockGood, Zenon
  <2>3. CASE LoopLeave(w) \/ LoopIdle(w) \/ LoopWoken(w)
    BY <2>3, SameTable DEF LoopLeave, LoopIdle, LoopWoken
  <2> QED BY <1>2, <2>1, <2>2, <2>3, Zenon DEF LoopStep
<1>3. ASSUME NEW w \in Workers, RunStep(w) PROVE Good(th', frames', nthreads', main_done')
  BY <1>3, QuantumGood, RunFailGood, RunStopGood, RunFinishGood, Zenon DEF RunStep
<1>4. ASSUME NEW w \in Workers, Builtin(w) PROVE Good(th', frames', nthreads', main_done')
  BY <1>4, GoGood, YieldGood, AwaitGood, SendGood, RecvGood, CloseGood, Zenon DEF Builtin
<1>5. ASSUME NEW w \in Workers, NestStep(w) PROVE Good(th', frames', nthreads', main_done')
  BY <1>5, NestGood
<1>6. ASSUME NEW w \in Workers, Spurious(w) PROVE Good(th', frames', nthreads', main_done')
  BY <1>6, SameTable DEF Spurious
<1>7. ASSUME HostStep PROVE Good(th', frames', nthreads', main_done')
  BY <1>7, StartGood, SameTable, Zenon DEF HostStep, Stop
<1>8. ASSUME UNCHANGED vars PROVE Good(th', frames', nthreads', main_done')
  BY <1>8, SameTable, Zenon DEF vars
<1>9. Good(th', frames', nthreads', main_done')
  BY <1>2, <1>3, <1>4, <1>5, <1>6, <1>7, <1>8, SMTT(30) DEF Next, Step, Ended
<1> QED BY <1>1, <1>9, Zenon DEF EngineInv

\* The engines: in every program without channels or without nested waits, each stack of
\* engines fits the task table (coco_g_run, coco_g_await_here), and whoever awaits a task
\* is
\* blocked on one that is not done (async_await against coco_g_finish).
THEOREM EngineHolds == ASSUME NoNestedChannel PROVE Spec => []EngineInv
  BY EngineInit, EngineStep, PTL DEF Spec

-----------------------------------------------------------------------------
(* What it gives *)

\* No wake is lost: async_await sets the state with the block, under the lock that
\* coco_g_finish takes to look for the waiters.
THEOREM NoMissedWakeHolds == ASSUME NoNestedChannel PROVE Spec => []NoMissedWake
<1>1. ASSUME EngineInv PROVE NoMissedWake
  BY <1>1, Zenon DEF EngineInv, Good, AwaitOK, NoMissedWake, Used
<1> QED BY <1>1, EngineHolds, PTL

\* Tasks whose engine nobody may free while a worker is inside: all but the main one,
\* which coco_g_deadlock ends wherever it is; all of them in a program of joins.
Owned(i) == i # Main \/ ForkJoin

\* A done task has no worker inside its engine.
LEMMA DoneIsOff ==
  ASSUME EngineInv, NEW i \in Used, th[i].state = "done", Owned(i)
  PROVE  Stacked(i) = {}
<1> SUFFICES ASSUME NEW p \in Stacked(i) PROVE FALSE
  OBVIOUS
<1>1. PICK w \in Workers : p \in {w} \X DOMAIN frames[w]
  BY DEF Stacked
<1>2. DOMAIN frames[w] = 1 .. Len(frames[w])
  BY <1>1, SeqLen, Zenon DEF EngineInv, TypeOK
<1>3. p[1] \in Workers /\ p[2] \in 1 .. Len(frames[p[1]]) /\ frames[p[1]][p[2]].task = i
  BY <1>1, <1>2, Zenon DEF Stacked
<1>4. LevelFits(th, nthreads, p[1], frames[p[1]][p[2]])
  BY <1>3 DEF EngineInv, Good, StackOK
<1> QED BY <1>3, <1>4, Zenon DEF LevelFits, Owned

\* coco_g_finish ends no task that a worker is still inside, in a program that forks and
\* joins: its engine could be freed under the worker.
THEOREM NotFreedInsideHolds == ASSUME ForkJoin PROVE Spec => []NotFreedInside
<1>1. ASSUME EngineInv PROVE NotFreedInside
  BY <1>1, DoneIsOff, Zenon DEF NotFreedInside, Owned
<1>2. NoNestedChannel
  BY DEF ForkJoin, NoNestedChannel
<1> QED BY <1>1, <1>2, EngineHolds, PTL

\* Of the tasks that async_go made, with channels too.
OthersNotFreed == \A i \in Used \ {Main} : th[i].state = "done" => Stacked(i) = {}

\* With channels coco_g_deadlock can end the main task while its engine unwinds; every
\* other
\* task is off the stacks when coco_g_finish has ended it.
THEOREM OthersNotFreedHolds == ASSUME NoNestedChannel PROVE Spec => []OthersNotFreed
<1>1. ASSUME EngineInv PROVE OthersNotFreed
  BY <1>1, DoneIsOff DEF OthersNotFreed, Owned
<1> QED BY <1>1, EngineHolds, PTL
=============================================================================
