-------------------------- MODULE GreenTasksTypes --------------------------
(***************************************************************************)
(* What each action of GreenTasks makes of the tasks, the stacks and the   *)
(* channels, and from it the type invariant: the tables of a green world   *)
(* keep their shape.                                                       *)
(***************************************************************************)
EXTENDS GreenFacts

(* The fields of a task *)

\* An answer that a waker leaves, and the tag a waiter reads off it.
LEMMA StatusIs ==
  ASSUME NEW tag \in Tags, NEW v \in Nat
  PROVE  Status(tag, v) \in Statuses /\ Status(tag, v).tag = tag
  BY DEF Status, Statuses

\* A task that waits for no answer has none.
LEMMA NoStatusIs == NoStatus \in Statuses
  BY StatusIs DEF NoStatus, Tags

\* What coco_g_spawn puts into the table.
LEMMA NewTaskIs ==
  ASSUME NEW w \in Workers
  PROVE  /\ NewTask(w) \in Task /\ NewTask(w).state = "ready"
         /\ NewTask(w).block = "none" /\ NewTask(w).worker = w
         /\ NewTask(w).resume = NoStatus
  BY NoStatusIs DEF NewTask, Task, States, Blocks

\* A task with the fields that steps set; worker and status are others' business.
With(t, st, b, o, v, r) ==
  [t EXCEPT !.state = st, !.block = b, !.wait_on = o, !.send = v, !.resume = r]

\* A task with some of its fields set is a task, on the worker and with the status it had.
LEMMA WithIs ==
  ASSUME NEW t \in Task, NEW st \in States, NEW b \in Blocks, NEW o \in Ids \cup {None},
         NEW v \in Nat, NEW r \in Statuses
  PROVE  LET x == With(t, st, b, o, v, r) IN
         /\ x \in Task /\ x.worker = t.worker /\ x.state = st /\ x.block = b
         /\ x.wait_on = o /\ x.send = v /\ x.resume = r /\ x.status = t.status
  BY Zenon DEF With, Task

\* The names of the states and of the blocks.
LEMMA Names ==
  /\ "ready" \in States /\ "blocked" \in States /\ "nested" \in States /\ "done" \in States
  /\ "none" \in Blocks /\ "await" \in Blocks /\ "send" \in Blocks /\ "recv" \in Blocks
  /\ "yield" \in Blocks
  BY DEF States, Blocks

\* A task given a state and a block, all else kept.
Mark(t, st, b) == With(t, st, b, t.wait_on, t.send, t.resume)

\* Setting a state and a block leaves the other fields alone.
LEMMA MarkIs ==
  ASSUME NEW t \in Task, NEW st \in States, NEW b \in Blocks
  PROVE  /\ Mark(t, st, b) \in Task
         /\ Mark(t, st, b).worker = t.worker /\ Mark(t, st, b).status = t.status
         /\ Mark(t, st, b).state = st /\ Mark(t, st, b).block = b
         /\ Mark(t, st, b).wait_on = t.wait_on /\ Mark(t, st, b).send = t.send
         /\ Mark(t, st, b).resume = t.resume
  BY TaskIs, WithIs DEF Mark

\* A task blocked: at the end of coco_g_run, in an await, on a channel.
LEMMA BlockedIs ==
  ASSUME NEW t \in Task
  PROVE  LET x == Mark(t, "blocked", t.block) IN
         /\ x \in Task /\ x.worker = t.worker /\ x.state = "blocked" /\ x.block = t.block
         /\ x.wait_on = t.wait_on /\ x.send = t.send /\ x.resume = t.resume
  BY Zenon DEF Mark, With, Task, States

\* await_here and wait_resume make their task a nested waiter, and ready again.
LEMMA StateIs ==
  ASSUME NEW t \in Task, NEW st \in {"ready", "nested"}
  PROVE  LET x == Mark(t, st, t.block) IN
         /\ x \in Task /\ x.worker = t.worker /\ x.state = st /\ x.block = t.block
         /\ x.wait_on = t.wait_on
  BY Zenon DEF Mark, With, Task, States

\* async_yield sets the block and nothing else.
LEMMA YieldsIs ==
  ASSUME NEW t \in Task
  PROVE  LET x == Mark(t, t.state, "yield") IN x \in Task /\ x.resume = t.resume
  BY Zenon DEF Mark, With, Task, Blocks

\* async_await sets the state together with the block and the awaited task.
LEMMA AwaitsIs ==
  ASSUME NEW t \in Task, NEW id \in Ids
  PROVE  LET x == With(t, "blocked", "await", id, t.send, t.resume) IN
         /\ x \in Task /\ x.worker = t.worker /\ x.state = "blocked" /\ x.block = "await"
         /\ x.wait_on = id
  BY Zenon DEF With, Task, States, Blocks

\* A send or a receive that blocks sets the state, the block and the message.
LEMMA WaitsIs ==
  ASSUME NEW t \in Task, NEW o \in {"send", "recv"}, NEW v \in Nat
  PROVE  LET x == With(t, "blocked", o, t.wait_on, v, t.resume) IN
         /\ x \in Task /\ x.worker = t.worker /\ x.state = "blocked" /\ x.block = o
         /\ x.send = v /\ x.resume = t.resume
  BY Zenon DEF With, Task, States, Blocks

\* A task that coco_g_run enters: the answer it waited for is applied.
Applied(t) == With(t, t.state, t.block, t.wait_on, t.send, NoStatus)

\* coco_g_run takes the answer off the task it enters, and changes nothing else.
LEMMA AppliedIs ==
  ASSUME NEW t \in Task
  PROVE  /\ Applied(t) \in Task
         /\ Applied(t).worker = t.worker /\ Applied(t).status = t.status
         /\ Applied(t).state = t.state /\ Applied(t).block = t.block
         /\ Applied(t).wait_on = t.wait_on /\ Applied(t).send = t.send
         /\ Applied(t).resume = NoStatus
  BY NoStatusIs, Zenon DEF Applied, With, Task

\* What a waker leaves of a task.
LEMMA WokenIs ==
  ASSUME NEW t \in Task, NEW s \in Statuses
  PROVE  /\ Woken(t, s) \in Task /\ Woken(t, s).state = "ready"
         /\ Woken(t, s).block = "none" /\ Woken(t, s).resume = s
         /\ Woken(t, s).worker = t.worker /\ Woken(t, s).status = t.status
         /\ Woken(t, s).send = 0
  BY Zenon DEF Woken, Task, States, Blocks

-----------------------------------------------------------------------------
(* The shared operators *)

\* coco_g_pick answers one of the worker's ready tasks.
LEMMA PickIs ==
  ASSUME TypeOK, NEW T, NEW w \in Workers, Mine(T, w) # {}
  PROVE  Pick(T, w) \in Mine(T, w)
<1> DEFINE A == {After(w, i) : i \in Mine(T, w)}
<1>1. nthreads \in Nat /\ nthreads >= 1 /\ cursor[w] \in Nat
  BY DEF TypeOK, Mine, Used
<1>2. \A i \in Mine(T, w) : After(w, i) \in Nat
  <2> TAKE i \in Mine(T, w)
  <2>1. i \in Nat /\ i < nthreads
    BY <1>1 DEF Mine, Used
  <2>2. cursor[w] % nthreads \in 0 .. nthreads - 1
    BY <1>1
  <2> DEFINE m == cursor[w] % nthreads
  <2>3. i + nthreads - m \in Nat
    BY <1>1, <2>1, <2>2
  <2> QED BY <1>1, <2>3 DEF After
<1>3. A \in SUBSET Nat /\ A # {}
  BY <1>2
<1>4. PICK a \in A : \A b \in A : a <= b
  BY <1>3, LeastMember, Zenon
<1>5. \E i \in Mine(T, w) : \A j \in Mine(T, w) : After(w, i) <= After(w, j)
  BY <1>4
<1> QED BY <1>5 DEF Pick

-----------------------------------------------------------------------------
(* The type invariant *)

\* A signal leaves the loops where loops can be.
LEMMA SignalType ==
  ASSUME TypeOK, NEW S \in SUBSET Workers,
         NEW L \in [Workers -> {"loop", "wait", "woken", "out"}], Signal(L, S)
  PROVE  poked' \subseteq Workers /\ lp' \in [Workers -> {"loop", "wait", "woken", "out"}]
  BY DEF Signal, TypeOK

\* coco_g_poke and the broadcast keep the loops what they are.
LEMMA PokeType ==
  ASSUME TypeOK, NEW S \in SUBSET Workers, Poke(S)
  PROVE  /\ poked' \subseteq Workers /\ chgWait' \subseteq Workers
         /\ lp' \in [Workers -> {"loop", "wait", "woken", "out"}]
  BY SignalType, Zenon DEF Poke, TypeOK

\* What coco_g_finish does to the table: the task is done, those that await it
\* are woken, nobody else is touched.
LEMMA FinishIs ==
  ASSUME TypeOK, NEW T \in [Ids -> Task], NEW ti \in Ids, NEW s \in Statuses,
         NEW L \in [Workers -> {"loop", "wait", "woken", "out"}], Finish(L, T, ti, s)
  PROVE  /\ th' \in [Ids -> Task]
         /\ th'[ti].state = "done" /\ th'[ti].block = "none" /\ th'[ti].status = s
         /\ th'[ti].worker = T[ti].worker /\ th'[ti].wait_on = T[ti].wait_on
         /\ th'[ti].send = T[ti].send /\ th'[ti].resume = T[ti].resume
         /\ \A i \in Awaiting(T, ti) \ {ti} : th'[i] = Woken(T[i], s)
         /\ \A i \in Ids \ {ti} : i \notin Awaiting(T, ti) => th'[i] = T[i]
         /\ main_done' = (main_done \/ ti = Main) /\ main_done' \in BOOLEAN
         /\ poked' \subseteq Workers /\ chgWait' \subseteq Workers
         /\ lp' \in [Workers -> {"loop", "wait", "woken", "out"}]
<1> DEFINE A == Awaiting(T, ti)
           D == [T[ti] EXCEPT !.status = s, !.state = "done", !.block = "none"]
<1>0. A \subseteq Ids
  BY UsedIs DEF Awaiting
<1>1. /\ D \in Task /\ D.state = "done" /\ D.block = "none" /\ D.status = s
      /\ D.worker = T[ti].worker /\ D.wait_on = T[ti].wait_on
      /\ D.send = T[ti].send /\ D.resume = T[ti].resume
  BY Zenon DEF Task, States, Blocks
<1>2. \A i \in Ids : Woken(T[i], s) \in Task
  BY WokenIs
<1>3. th' = [i \in Ids |-> IF i = ti THEN D ELSE IF i \in A THEN Woken(T[i], s) ELSE T[i]]
  BY Zenon DEF Finish
<1>4. (IF ti = Main THEN Workers ELSE {T[i].worker : i \in A}) \in SUBSET Workers
  BY <1>0 DEF Task
<1>5. Signal(L, IF ti = Main THEN Workers ELSE {T[i].worker : i \in A})
  BY Zenon DEF Finish
<1>6. poked' \subseteq Workers /\ lp' \in [Workers -> {"loop", "wait", "woken", "out"}]
  <2> HIDE DEF A
  <2> QED BY <1>4, <1>5, SignalType
<1>7. main_done' = (main_done \/ ti = Main) /\ main_done' \in BOOLEAN /\ chgWait' = {}
  BY Zenon DEF Finish, TypeOK
<1> HIDE DEF A, D
<1>8. th' \in [Ids -> Task]
  BY <1>1, <1>2, <1>3
<1>9. th'[ti] = D
  BY <1>3
<1>10. /\ \A i \in A \ {ti} : th'[i] = Woken(T[i], s)
       /\ \A i \in Ids \ {ti} : i \notin A => th'[i] = T[i]
  BY <1>0, <1>3
<1> QED BY <1>1, <1>6, <1>7, <1>8, <1>9, <1>10 DEF A

-----------------------------------------------------------------------------
(* What each step does to the table and the stacks, and that it keeps types *)

\* async_run writes the main task, on worker 0.
LEMMA StartIs ==
  ASSUME TypeOK, Start
  PROVE  /\ TypeOK'
         /\ th' = [th EXCEPT ![Main] = NewTask(0)] /\ nthreads' = 1
<1>1. th' \in [Ids -> Task]
  BY Constants, NewTaskIs, SetOne DEF TypeOK, Start
<1> QED BY <1>1, Constants, SMTT(30) DEF TypeOK, Start

\* A worker that picks enters a ready task of its own, with the answer applied.
LEMMA LoopPickIs ==
  ASSUME TypeOK, NEW w \in Workers, LoopPick(w)
  PROVE  LET t == Pick(th, w) IN
         /\ TypeOK'
         /\ t \in Used /\ t \in Ids /\ th[t].state = "ready" /\ th[t].worker = w
         /\ th' = [th EXCEPT ![t] =
              Applied(th[t])]
         /\ frames[w] = <<>>
         /\ frames' = [frames EXCEPT ![w] = Append(frames[w], Frame(t, "engine", None))]
<1> DEFINE t == Pick(th, w)
<1>1. t \in Used /\ t \in Ids /\ th[t].state = "ready" /\ th[t].worker = w
  BY PickIs, UsedIs DEF LoopPick, Mine
<1>2. th' = [th EXCEPT ![t] = Applied(th[t])]
  <2> HIDE DEF t
  <2> QED BY <1>1, Zenon DEF LoopPick, Enter, TypeOK, Applied, With, Task, t
<1>3. th' \in [Ids -> Task]
  <2> HIDE DEF t
  <2>1. th[t] \in Task /\ th \in [Ids -> Task]
    BY <1>1 DEF TypeOK
  <2>2. Applied(th[t]) \in Task
    BY <2>1, AppliedIs
  <2> QED BY <1>1, <1>2, <2>1, <2>2, SetOne
<1>4. frames' = [frames EXCEPT ![w] = Append(frames[w], Frame(t, "engine", None))]
  BY DEF LoopPick, Enter, Push
<1>5. frames' \in [Workers -> Seq(Level)]
  BY <1>1, <1>4, PushIs, Zenon DEF TypeOK
<1>6. cursor' \in [Workers -> 0 .. MaxTasks]
  BY <1>1, Constants, SMTT(30) DEF LoopPick, TypeOK, Ids
<1> QED BY <1>1, <1>2, <1>3, <1>4, <1>5, <1>6, Zenon DEF TypeOK, LoopPick, AtLoop, Inside

\* A worker that leaves its loop touches no task.
LEMMA LoopLeaveIs ==
  ASSUME TypeOK, NEW w \in Workers, LoopLeave(w)
  PROVE  TypeOK'
  BY DEF TypeOK, LoopLeave

\* Neither does one that goes to sleep,
LEMMA LoopIdleIs ==
  ASSUME TypeOK, NEW w \in Workers, LoopIdle(w)
  PROVE  TypeOK'
  BY Zenon DEF TypeOK, LoopIdle

\* or that wakes up,
LEMMA LoopWokenIs ==
  ASSUME TypeOK, NEW w \in Workers, LoopWoken(w)
  PROVE  TypeOK'
  BY DEF TypeOK, LoopWoken

\* or the host when it stops the world,
LEMMA StopIs ==
  ASSUME TypeOK, Stop
  PROVE  TypeOK'
  BY PokeType DEF TypeOK, Stop

\* or a condition wait that returns with nothing signalled.
LEMMA SpuriousIs ==
  ASSUME TypeOK, NEW w \in Workers, Spurious(w)
  PROVE  TypeOK'
  BY DEF TypeOK, Spurious

\* The loop's deadlock check ends the main task and nothing else is running.
LEMMA LoopDeadlockIs ==
  ASSUME TypeOK, NEW w \in Workers, LoopDeadlock(w)
  PROVE  TypeOK' /\ Finish([lp EXCEPT ![w] = "out"], th, Main, Status("deadlock", 0))
                 /\ [lp EXCEPT ![w] = "out"] \in [Workers -> {"loop", "wait", "woken", "out"}]
<1>1. [lp EXCEPT ![w] = "out"] \in [Workers -> {"loop", "wait", "woken", "out"}]
  BY DEF TypeOK
<1>2. Finish([lp EXCEPT ![w] = "out"], th, Main, Status("deadlock", 0))
  BY DEF LoopDeadlock, KillMain
<1>3. /\ th' \in [Ids -> Task] /\ main_done' \in BOOLEAN
      /\ poked' \subseteq Workers /\ chgWait' \subseteq Workers
      /\ lp' \in [Workers -> {"loop", "wait", "woken", "out"}]
  BY <1>1, <1>2, Constants, StatusIs, FinishIs, Zenon DEF TypeOK, Tags
<1> QED BY <1>1, <1>2, <1>3 DEF TypeOK, LoopDeadlock

\* At the end of its quantum a task stays as it is and its worker leaves it.
LEMMA QuantumIs ==
  ASSUME TypeOK, NEW w \in Workers, Quantum(w)
  PROVE  /\ TypeOK' /\ Inside(w) /\ Cur(w) \in Ids /\ Top(w).at = "engine"
         /\ th' = [th EXCEPT ![Cur(w)] =
              Mark(th[Cur(w)], "ready", "none")]
<1> DEFINE x == Mark(th[Cur(w)], "ready", "none")
<1>1. Inside(w) /\ Cur(w) \in Ids /\ th[Cur(w)] \in Task
  BY TopIs DEF Quantum, At, TypeOK
<1>2. frames' \in [Workers -> Seq(Level)]
  BY <1>1, PopIs DEF Quantum
<1>3. th' = [th EXCEPT ![Cur(w)] = x]
  BY <1>1, Zenon DEF Quantum, TypeOK, Mark, With, Task
<1>4. x \in Task
  BY <1>1, Names, MarkIs
<1>5. th' \in [Ids -> Task]
  BY <1>1, <1>3, <1>4, SetOne DEF TypeOK
<1> QED BY <1>1, <1>2, <1>3, <1>5, Zenon DEF TypeOK, Quantum, At

\* A solution or an uncaught ball ends the task on top, through coco_g_finish.
LEMMA RunFinishIs ==
  ASSUME TypeOK, NEW w \in Workers, NEW tag \in {"ok", "error"}, RunFinish(w, tag)
  PROVE  /\ TypeOK' /\ Inside(w) /\ Cur(w) \in Ids /\ Top(w).at = "engine"
         /\ Finish(lp, th, Cur(w), Status(tag, 0))
<1>1. Inside(w) /\ Cur(w) \in Ids /\ Top(w).at = "engine"
  BY TopIs DEF RunFinish, At
<1>2. frames' \in [Workers -> Seq(Level)]
  BY <1>1, PopIs DEF RunFinish
<1>3. Finish(lp, th, Cur(w), Status(tag, 0)) /\ Status(tag, 0) \in Statuses
  BY StatusIs DEF RunFinish, Tags
<1>4. /\ th' \in [Ids -> Task] /\ main_done' \in BOOLEAN
      /\ poked' \subseteq Workers /\ chgWait' \subseteq Workers
      /\ lp' \in [Workers -> {"loop", "wait", "woken", "out"}]
  BY <1>1, <1>3, FinishIs, Zenon DEF TypeOK
<1> QED BY <1>1, <1>2, <1>3, <1>4 DEF TypeOK, RunFinish

\* A goal that failed, rc 0 with no block set, unwinds first.
LEMMA RunFailIs ==
  ASSUME TypeOK, NEW w \in Workers, RunFail(w)
  PROVE  TypeOK' /\ Inside(w) /\ Top(w).at = "engine"
<1>1. Inside(w) /\ Top(w).at = "engine"
  BY DEF RunFail, At
<1>2. frames' \in [Workers -> Seq(Level)]
  BY <1>1, StandIs DEF RunFail, Places
<1> QED BY <1>1, <1>2 DEF TypeOK, RunFail

\* The end of coco_g_run at rc 0: the task is ready again, blocked, or finished as failed.
LEMMA RunStopIs ==
  ASSUME TypeOK, NEW w \in Workers, RunStop(w)
  PROVE  LET t == th[Cur(w)]
             B == [th EXCEPT ![Cur(w)] = Mark(t, "blocked", t.block)]
         IN
         /\ TypeOK' /\ Inside(w) /\ Cur(w) \in Ids /\ Top(w).at = "unwind" /\ frames' = Pop(w)
         /\ B \in [Ids -> Task]
         /\ \/ th' = th /\ UNCHANGED main_done /\ t.resume # NoStatus
            \/ /\ t.block = "yield" /\ UNCHANGED main_done
               /\ th' = [th EXCEPT ![Cur(w)] = Mark(t, "ready", "none")]
            \/ /\ t.block \notin {"yield", "none"} /\ t.resume = NoStatus
               /\ \/ Dead(B, frames) /\ Finish(lp, B, Main, Status("deadlock", 0))
                  \/ ~Dead(B, frames) /\ th' = B /\ UNCHANGED main_done
            \/ t.block = "none" /\ Finish(lp, th, Cur(w), Status("failed", 0))
<1> DEFINE t == th[Cur(w)]
           B == [th EXCEPT ![Cur(w)] = Mark(t, "blocked", t.block)]
<1>1. Inside(w) /\ Cur(w) \in Ids /\ Top(w).at = "unwind" /\ frames' = Pop(w) /\ t \in Task
  BY TopIs DEF RunStop, At, TypeOK
<1>2. frames' \in [Workers -> Seq(Level)]
  BY <1>1, PopIs
<1>3. Mark(t, "blocked", t.block) \in Task /\ Mark(t, "ready", "none") \in Task
  <2> HIDE DEF t
  <2> QED BY <1>1, Names, TaskIs, MarkIs, Zenon
<1>4. B \in [Ids -> Task] /\ [th EXCEPT ![Cur(w)].state = "blocked"] = B
  <2>1. B \in [Ids -> Task]
    BY <1>1, <1>3, SetOne DEF TypeOK
  <2> QED BY <1>1, <2>1, Zenon DEF TypeOK, Mark, With, Task
<1>5. [th EXCEPT ![Cur(w)].state = "ready", ![Cur(w)].block = "none"]
        = [th EXCEPT ![Cur(w)] = Mark(t, "ready", "none")]
  BY <1>1, Zenon DEF TypeOK, Mark, With, Task
<1>6. /\ \/ th' = th /\ UNCHANGED <<main_done, poked, lp, chgWait>> /\ t.resume # NoStatus
         \/ /\ t.block = "yield" /\ UNCHANGED <<main_done, poked, lp, chgWait>>
            /\ th' = [th EXCEPT ![Cur(w)] = Mark(t, "ready", "none")]
         \/ /\ t.block \notin {"yield", "none"} /\ t.resume = NoStatus
            /\ \/ Dead(B, frames) /\ Finish(lp, B, Main, Status("deadlock", 0))
               \/ ~Dead(B, frames) /\ th' = B /\ UNCHANGED <<main_done, poked, lp, chgWait>>
         \/ t.block = "none" /\ Finish(lp, th, Cur(w), Status("failed", 0))
      /\ UNCHANGED <<nthreads, next_worker, chan, fuel, cursor, stop>>
  BY <1>4, <1>5, Zenon DEF RunStop, KillMain
<1>7. \A T \in [Ids -> Task], ti \in Ids, s \in Statuses :
        Finish(lp, T, ti, s) =>
          /\ th' \in [Ids -> Task] /\ main_done' \in BOOLEAN
          /\ poked' \subseteq Workers /\ chgWait' \subseteq Workers
          /\ lp' \in [Workers -> {"loop", "wait", "woken", "out"}]
  BY FinishIs, Zenon DEF TypeOK
<1>8. Status("deadlock", 0) \in Statuses /\ Status("failed", 0) \in Statuses /\ Main \in Ids
  BY StatusIs, Constants DEF Tags
<1>9. /\ th' \in [Ids -> Task] /\ main_done' \in BOOLEAN
      /\ poked' \subseteq Workers /\ chgWait' \subseteq Workers
      /\ lp' \in [Workers -> {"loop", "wait", "woken", "out"}]
  <2>1. th \in [Ids -> Task] /\ main_done \in BOOLEAN /\ poked \subseteq Workers
        /\ chgWait \subseteq Workers /\ lp \in [Workers -> {"loop", "wait", "woken", "out"}]
    BY DEF TypeOK
  <2>2. [th EXCEPT ![Cur(w)] = Mark(t, "ready", "none")] \in [Ids -> Task]
    BY <1>1, <1>3, <2>1, SetOne
  <2> HIDE DEF B, t
  <2> QED BY <1>1, <1>4, <1>6, <1>7, <1>8, <2>1, <2>2, SMTT(30)
<1> QED BY <1>1, <1>2, <1>4, <1>6, <1>9, Zenon DEF TypeOK

\* async_go: coco_g_spawn writes one new ready task, or the table is full.
LEMMA GoIs ==
  ASSUME TypeOK, NEW w \in Workers, Go(w)
  PROVE  /\ TypeOK' /\ nthreads \in Ids /\ nthreads' = nthreads + 1
         /\ th' = [th EXCEPT ![nthreads] = NewTask(next_worker)]
<1>1. nthreads \in Ids /\ nthreads' = nthreads + 1
  BY Constants DEF Go, Ids, TypeOK
<1>2. th' \in [Ids -> Task] /\ th' = [th EXCEPT ![nthreads] = NewTask(next_worker)]
  BY <1>1, NewTaskIs, SetOne DEF Go, TypeOK
<1>3. next_worker' \in Workers
  BY Constants DEF Go, TypeOK, Workers
<1>4. fuel' \in 0 .. MaxOps /\ nthreads' \in 0 .. MaxTasks
  BY Constants, TasksAssumption DEF Go, Does, TypeOK
<1>5. /\ poked' \subseteq Workers /\ chgWait' \subseteq Workers
      /\ lp' \in [Workers -> {"loop", "wait", "woken", "out"}]
  BY PokeType, SMTT(30) DEF Go, TypeOK
<1> QED BY <1>1, <1>2, <1>3, <1>4, <1>5, Zenon DEF TypeOK, Go

\* async_yield marks the caller, and its engine stops.
LEMMA YieldIs ==
  ASSUME TypeOK, NEW w \in Workers, Yield(w)
  PROVE  /\ TypeOK' /\ Inside(w) /\ Cur(w) \in Ids /\ Top(w).at = "engine"
         /\ th' = [th EXCEPT ![Cur(w)] = Mark(th[Cur(w)], th[Cur(w)].state, "yield")]
<1>1. Inside(w) /\ Cur(w) \in Ids /\ Top(w).at = "engine" /\ th[Cur(w)] \in Task
  BY TopIs DEF Yield, Does, At, TypeOK
<1>2. frames' \in [Workers -> Seq(Level)]
  BY <1>1, StandIs DEF Yield, Places
<1>3. th' = [th EXCEPT ![Cur(w)] = Mark(th[Cur(w)], th[Cur(w)].state, "yield")]
  BY <1>1, Zenon DEF Yield, TypeOK, Mark, With, Task
<1>4. Mark(th[Cur(w)], th[Cur(w)].state, "yield") \in Task
  BY <1>1, Names, TaskIs, MarkIs, Zenon
<1>5. th' \in [Ids -> Task]
  BY <1>1, <1>3, <1>4, SetOne DEF TypeOK
<1>6. fuel' \in 0 .. MaxOps
  BY TasksAssumption DEF Yield, Does, TypeOK
<1> QED BY <1>1, <1>2, <1>3, <1>5, <1>6, Zenon DEF TypeOK, Yield

\* async_await of a task that is not done: the caller is blocked on it, or goes on to wait
\* nested.
LEMMA AwaitIs ==
  ASSUME TypeOK, NEW w \in Workers, NEW id \in Ids, NEW nested \in BOOLEAN, Await(w, id, nested)
  PROVE  /\ TypeOK' /\ Inside(w) /\ Cur(w) \in Ids /\ Top(w).at = "engine"
         /\ nested => th' = th /\ frames' = Stand(w, "toawait", id)
         /\ ~nested =>
              /\ frames' = Stand(w, "unwind", None)
              /\ th' = [th EXCEPT ![Cur(w)] =
                   With(th[Cur(w)], "blocked", "await", id, th[Cur(w)].send, th[Cur(w)].resume)]
<1> DEFINE x == With(th[Cur(w)], "blocked", "await", id, th[Cur(w)].send, th[Cur(w)].resume)
<1>1. Inside(w) /\ Cur(w) \in Ids /\ Top(w).at = "engine" /\ th[Cur(w)] \in Task
  BY TopIs DEF Await, At, TypeOK
<1>2. frames' \in [Workers -> Seq(Level)]
  BY <1>1, StandIs DEF Await, Places
<1>3. ~nested => th' = [th EXCEPT ![Cur(w)] = x]
  <2>1. ~nested => th' = [th EXCEPT ![Cur(w)].state = "blocked", ![Cur(w)].block = "await",
                                    ![Cur(w)].wait_on = id]
    BY DEF Await
  <2>2. [th EXCEPT ![Cur(w)].state = "blocked", ![Cur(w)].block = "await", ![Cur(w)].wait_on = id]
          = [th EXCEPT ![Cur(w)] = x]
    BY <1>1, Zenon DEF TypeOK, With, Task
  <2> QED BY <2>1, <2>2
<1>4. x \in Task
  <2>1. id \in Ids \cup {None}
    OBVIOUS
  <2> QED BY <1>1, <2>1, Names, TaskIs, WithIs, SMTT(30)
<1>5. th' \in [Ids -> Task]
  <2> HIDE DEF x
  <2>1. th \in [Ids -> Task]
    BY DEF TypeOK
  <2>2. nested => th' = th
    BY DEF Await
  <2> QED BY <1>1, <1>3, <1>4, <2>1, <2>2, SetOne
<1> QED BY <1>1, <1>2, <1>3, <1>5, Zenon DEF TypeOK, Await

\* One channel of the table is replaced.
LEMMA ChanSetOne ==
  ASSUME NEW C \in [Chans -> Channel], NEW c \in Chans, NEW x \in Channel
  PROVE  /\ [C EXCEPT ![c] = x] \in [Chans -> Channel]
         /\ [C EXCEPT ![c] = x][c] = x
         /\ \A d \in Chans \ {c} : [C EXCEPT ![c] = x][d] = C[d]
  OBVIOUS

\* What blocking on a channel, and answering a task of its lists, do.
Parks(w, o, v, nested) ==
  LET t == th[Cur(w)]
  IN /\ th' = [th EXCEPT ![Cur(w)] = With(t, IF nested THEN "nested" ELSE "blocked", o, t.wait_on, v, t.resume)]
     /\ frames' = Stand(w, IF nested THEN "toresume" ELSE "unwind", None)

Wakes(i, s) ==
  /\ i \in Ids
  /\ th' = [th EXCEPT ![i] = Woken(th[i], s)]
  /\ frames' = frames

\* What coco_g_async_send and coco_g_async_recv make of a caller that blocks.
LEMMA BlockOnIs ==
  ASSUME TypeOK, NEW w \in Workers, Inside(w), NEW o \in {"send", "recv"}, NEW v \in Nat,
         NEW nested \in BOOLEAN, BlockOn(w, o, v, nested)
  PROVE  /\ Parks(w, o, v, nested)
         /\ th' \in [Ids -> Task] /\ frames' \in [Workers -> Seq(Level)]
         /\ poked' \subseteq Workers /\ chgWait' \subseteq Workers
         /\ lp' \in [Workers -> {"loop", "wait", "woken", "out"}]
<1> DEFINE c == Cur(w)
           t == th[c]
           st == IF nested THEN "nested" ELSE "blocked"
           x == With(t, st, o, t.wait_on, v, t.resume)
<1>1. c \in Ids /\ t \in Task /\ th \in [Ids -> Task]
  BY TopIs DEF TypeOK
<1>2. th' = [th EXCEPT ![c].state = st, ![c].block = o, ![c].send = v]
  BY DEF BlockOn
<1>3. [th EXCEPT ![c].state = st, ![c].block = o, ![c].send = v] = [th EXCEPT ![c] = x]
  <2> HIDE DEF c, st
  <2> QED BY <1>1, Zenon DEF With, Task
<1>4. x \in Task
  <2>1. st \in States /\ o \in Blocks
    BY Names, Zenon
  <2> HIDE DEF st, t
  <2> QED BY <1>1, <2>1, TaskIs, WithIs, Zenon
<1>5. th' \in [Ids -> Task]
  <2> HIDE DEF x, c
  <2> QED BY <1>1, <1>2, <1>3, <1>4, SetOne
<1>6. frames' = Stand(w, IF nested THEN "toresume" ELSE "unwind", None)
  BY DEF BlockOn
<1>7. (IF nested THEN "toresume" ELSE "unwind") \in Places /\ None \in Ids \cup {None}
  BY DEF Places
<1>8. frames' \in [Workers -> Seq(Level)]
  BY <1>6, <1>7, StandIs, Zenon
<1>9. Parks(w, o, v, nested)
  BY <1>2, <1>3, <1>6 DEF Parks
<1> QED BY <1>5, <1>8, <1>9 DEF BlockOn, TypeOK

\* What they make of the waiter they answer.
LEMMA AnswerIs ==
  ASSUME TypeOK, NEW i \in Ids, NEW s \in Statuses, Answer(i, s)
  PROVE  /\ Wakes(i, s)
         /\ th' \in [Ids -> Task] /\ frames' \in [Workers -> Seq(Level)]
         /\ poked' \subseteq Workers /\ chgWait' \subseteq Workers
         /\ lp' \in [Workers -> {"loop", "wait", "woken", "out"}]
<1>1. th \in [Ids -> Task] /\ frames \in [Workers -> Seq(Level)]
  BY DEF TypeOK
<1>2. th[i] \in Task /\ th[i].worker \in Workers
  BY <1>1, TaskIs, Zenon
<1>3. Woken(th[i], s) \in Task
  BY <1>2, WokenIs
<1>4. th' = [th EXCEPT ![i] = Woken(th[i], s)] /\ frames' = frames /\ Poke({th[i].worker})
  BY DEF Answer
<1>5. th' \in [Ids -> Task]
  BY <1>1, <1>3, <1>4, SetOne, Zenon
<1>6. /\ poked' \subseteq Workers /\ chgWait' \subseteq Workers
      /\ lp' \in [Workers -> {"loop", "wait", "woken", "out"}]
  BY <1>2, <1>4, PokeType, Zenon
<1> QED BY <1>1, <1>4, <1>5, <1>6, Zenon DEF Wakes

\* What TypeOK says of the state that the builtins change.
Typed == /\ th' \in [Ids -> Task] /\ frames' \in [Workers -> Seq(Level)]
         /\ poked' \subseteq Workers /\ chgWait' \subseteq Workers
         /\ lp' \in [Workers -> {"loop", "wait", "woken", "out"}]
         /\ chan' \in [Chans -> Channel]

\* The outcomes of a send, and of a receive.
Sent(w, c, nested) ==
  LET q == chan[c]
      v == q.offered + 1
  IN \/ q.closed /\ th' = th /\ frames' = frames /\ chan' = chan
     \/ /\ ~q.closed /\ q.receivers # <<>>
        /\ Wakes(Head(q.receivers), Status("ok", v)) /\ chan' = [chan EXCEPT ![c] = Passed(q)]
     \/ /\ ~q.closed /\ q.receivers = <<>> /\ Len(q.buf) < Cap[c]
        /\ th' = th /\ frames' = frames /\ chan' = [chan EXCEPT ![c] = Buffered(q)]
     \/ /\ ~q.closed /\ q.receivers = <<>> /\ Len(q.buf) >= Cap[c]
        /\ Parks(w, "send", v, nested) /\ chan' = [chan EXCEPT ![c] = Queued(q, Cur(w))]

Received(w, c, nested) ==
  LET q == chan[c]
      s == Head(q.senders)
  IN \/ /\ q.buf # <<>> /\ q.senders = <<>>
        /\ th' = th /\ frames' = frames /\ chan' = [chan EXCEPT ![c] = Taken(q)]
     \/ /\ q.buf # <<>> /\ q.senders # <<>>
        /\ Wakes(s, Status("ok", 0)) /\ chan' = [chan EXCEPT ![c] = Refilled(q, th[s].send)]
     \/ /\ q.buf = <<>> /\ q.senders # <<>>
        /\ Wakes(s, Status("ok", 0)) /\ chan' = [chan EXCEPT ![c] = Handed(q, th[s].send)]
     \/ /\ q.buf = <<>> /\ q.senders = <<>> /\ q.closed
        /\ th' = th /\ frames' = frames /\ chan' = chan
     \/ /\ q.buf = <<>> /\ q.senders = <<>> /\ ~q.closed
        /\ Parks(w, "recv", 0, nested) /\ chan' = [chan EXCEPT ![c] = Parked(q, Cur(w))]

\* coco_g_async_send, case by case: closed, passed, buffered, blocked.
LEMMA SendIs ==
  ASSUME TypeOK, NEW w \in Workers, NEW c \in Chans, NEW nested \in BOOLEAN, Send(w, c, nested)
  PROVE  /\ TypeOK' /\ Inside(w) /\ Top(w).at = "engine" /\ "send" \in Ops
         /\ Sent(w, c, nested) /\ fuel > 0 /\ fuel' = fuel - 1
         /\ nthreads' = nthreads /\ main_done' = main_done
<1> DEFINE q == chan[c]
           v == q.offered + 1
<1>1. Inside(w) /\ Top(w).at = "engine" /\ Cur(w) \in Ids /\ "send" \in Ops
  BY TopIs DEF Send, Does, At
<1>2. q \in Channel /\ chan \in [Chans -> Channel]
  BY DEF TypeOK
<1>3. /\ q.receivers # <<>> => Head(q.receivers) \in Ids /\ Passed(q) \in Channel
      /\ Buffered(q) \in Channel /\ Queued(q, Cur(w)) \in Channel /\ v \in Nat
  <2> HIDE DEF q
  <2> QED BY <1>1, <1>2, ChanTypes, Zenon DEF v
<1>4. Status("ok", v) \in Statuses
  <2> HIDE DEF v
  <2> QED BY <1>3, StatusIs, Zenon DEF Tags
<1>5. Typed /\ Sent(w, c, nested)
  <2>1. CASE q.closed /\ UNCHANGED <<th, frames, poked, lp, chgWait, chan>>
    BY <2>1 DEF TypeOK, Typed, Sent
  <2>2. CASE /\ ~q.closed /\ q.receivers # <<>>
             /\ Answer(Head(q.receivers), Status("ok", v))
             /\ chan' = [chan EXCEPT ![c].receivers = Tail(@), ![c].offered = v,
                                     ![c].got = Append(@, v)]
    <3>1. chan' = [chan EXCEPT ![c] = Passed(q)]
      BY <1>2, <2>2, Zenon DEF Channel, Chan, Passed
    <3>2. chan' \in [Chans -> Channel]
      <4>1. Passed(q) \in Channel
        BY <1>3, <2>2, Zenon
      <4> HIDE DEF q
      <4> QED BY <1>2, <3>1, <4>1, ChanSetOne, Zenon
    <3>3. /\ Wakes(Head(q.receivers), Status("ok", v))
          /\ th' \in [Ids -> Task] /\ frames' \in [Workers -> Seq(Level)]
          /\ poked' \subseteq Workers /\ chgWait' \subseteq Workers
          /\ lp' \in [Workers -> {"loop", "wait", "woken", "out"}]
      <4> HIDE DEF q, v
      <4> QED BY <1>3, <1>4, <2>2, AnswerIs, Zenon
    <3> QED BY <2>2, <3>1, <3>2, <3>3, Zenon DEF Typed, Sent
  <2>3. CASE /\ ~q.closed /\ q.receivers = <<>> /\ Len(q.buf) < Cap[c]
             /\ chan' = [chan EXCEPT ![c].buf = Append(@, v), ![c].offered = v]
             /\ UNCHANGED <<th, frames, poked, lp, chgWait>>
    <3>1. chan' = [chan EXCEPT ![c] = Buffered(q)]
      BY <1>2, <2>3, Zenon DEF Channel, Chan, Buffered
    <3>2. chan' \in [Chans -> Channel]
      <4> HIDE DEF q
      <4> QED BY <1>2, <1>3, <3>1, ChanSetOne, Zenon
    <3>3. Typed
      BY <2>3, <3>2 DEF Typed, TypeOK
    <3> QED BY <2>3, <3>1, <3>3, Zenon DEF Sent
  <2>4. CASE /\ ~q.closed /\ q.receivers = <<>> /\ Len(q.buf) >= Cap[c]
             /\ BlockOn(w, "send", v, nested)
             /\ chan' = [chan EXCEPT ![c].senders = Append(@, Cur(w)), ![c].offered = v]
    <3>1. chan' = [chan EXCEPT ![c] = Queued(q, Cur(w))]
      BY <1>2, <2>4, Zenon DEF Channel, Chan, Queued
    <3>2. chan' \in [Chans -> Channel]
      <4> HIDE DEF q
      <4> QED BY <1>2, <1>3, <3>1, ChanSetOne, Zenon
    <3>3. /\ Parks(w, "send", v, nested)
          /\ th' \in [Ids -> Task] /\ frames' \in [Workers -> Seq(Level)]
          /\ poked' \subseteq Workers /\ chgWait' \subseteq Workers
          /\ lp' \in [Workers -> {"loop", "wait", "woken", "out"}]
      <4> HIDE DEF v, q
      <4> QED BY <1>1, <1>3, <2>4, BlockOnIs, Zenon
    <3> QED BY <2>4, <3>1, <3>2, <3>3, Zenon DEF Typed, Sent
  <2> QED BY <2>1, <2>2, <2>3, <2>4, Zenon DEF Send
<1>6. fuel > 0 /\ fuel' = fuel - 1 /\ fuel' \in 0 .. MaxOps
  <2>1. fuel > 0 /\ fuel' = fuel - 1
    BY Zenon DEF Send, Does
  <2>2. fuel \in 0 .. MaxOps
    BY Zenon DEF TypeOK
  <2> QED BY <2>1, <2>2, TasksAssumption
<1>7. UNCHANGED <<nthreads, next_worker, main_done, cursor, stop>>
  BY DEF Send
<1>8. TypeOK'
  BY <1>5, <1>6, <1>7, Zenon DEF TypeOK, Typed
<1> QED BY <1>1, <1>5, <1>6, <1>7, <1>8, SMTT(30)

\* coco_g_async_recv, case by case: taken, refilled, handed, closed, blocked.
LEMMA RecvIs ==
  ASSUME TypeOK, NEW w \in Workers, NEW c \in Chans, NEW nested \in BOOLEAN, Recv(w, c, nested)
  PROVE  /\ TypeOK' /\ Inside(w) /\ Top(w).at = "engine" /\ "recv" \in Ops
         /\ Received(w, c, nested) /\ fuel > 0 /\ fuel' = fuel - 1
         /\ nthreads' = nthreads /\ main_done' = main_done
<1> DEFINE q == chan[c]
           s == Head(q.senders)
<1>1. Inside(w) /\ Top(w).at = "engine" /\ Cur(w) \in Ids /\ "recv" \in Ops
  BY TopIs, Zenon DEF Recv, Does, At
<1>2. q \in Channel /\ chan \in [Chans -> Channel] /\ th \in [Ids -> Task]
  BY DEF TypeOK
<1>3. q.senders # <<>> => s \in Ids /\ th[s].send \in Nat
  <2>1. q.senders # <<>> => s \in Ids
    <3> HIDE DEF q
    <3> QED BY <1>1, <1>2, ChanTypes, Zenon DEF s
  <2> HIDE DEF s
  <2> QED BY <1>2, <2>1, TaskIs
<1>4. /\ q.senders # <<>> => Handed(q, th[s].send) \in Channel
      /\ q.buf # <<>> => Taken(q) \in Channel
      /\ q.buf # <<>> /\ q.senders # <<>> => Refilled(q, th[s].send) \in Channel
      /\ Parked(q, Cur(w)) \in Channel
  <2> DEFINE v == th[s].send
  <2>1. /\ q.buf # <<>> => Taken(q) \in Channel
        /\ Parked(q, Cur(w)) \in Channel
    <3> HIDE DEF q
    <3> QED BY <1>1, <1>2, ChanTypes, Zenon
  <2> HIDE DEF v, q
  <2>2. q.senders # <<>> => v \in Nat
    BY <1>3 DEF v
  <2>3. /\ q.senders # <<>> => Handed(q, v) \in Channel
        /\ q.buf # <<>> /\ q.senders # <<>> => Refilled(q, v) \in Channel
    BY <1>1, <1>2, <2>2, ChanTypes, Zenon
  <2> QED BY <2>1, <2>3 DEF v
<1>5. Status("ok", 0) \in Statuses
  BY StatusIs DEF Tags
<1>6. Typed /\ Received(w, c, nested)
  <2>1. CASE /\ q.buf # <<>> /\ q.senders = <<>>
             /\ chan' = [chan EXCEPT ![c].buf = Tail(@), ![c].got = Append(@, Head(q.buf))]
             /\ UNCHANGED <<th, frames, poked, lp, chgWait>>
    <3>1. chan' = [chan EXCEPT ![c] = Taken(q)]
      BY <1>2, <2>1, Zenon DEF Channel, Chan, Taken
    <3>2. chan' \in [Chans -> Channel]
      <4>1. Taken(q) \in Channel
        BY <1>4, <2>1, Zenon
      <4> HIDE DEF q
      <4> QED BY <1>2, <3>1, <4>1, ChanSetOne
    <3>3. Typed
      BY <2>1, <3>2, Zenon DEF Typed, TypeOK
    <3> QED BY <2>1, <3>1, <3>3, Zenon DEF Received
  <2>2. CASE /\ q.buf # <<>> /\ q.senders # <<>>
             /\ chan' = [chan EXCEPT ![c].buf = Append(Tail(@), th[s].send),
                                     ![c].senders = Tail(@),
                                     ![c].got = Append(@, Head(q.buf))]
             /\ Answer(s, Status("ok", 0))
    <3>1. chan' = [chan EXCEPT ![c] = Refilled(q, th[s].send)]
      BY <1>2, <2>2, ZenonT(30) DEF Channel, Chan, Refilled
    <3>2. chan' \in [Chans -> Channel]
      <4>1. Refilled(q, th[s].send) \in Channel
        BY <1>4, <2>2, Zenon
      <4> HIDE DEF q, s
      <4> QED BY <1>2, <3>1, <4>1, ChanSetOne, Zenon
    <3>3. /\ Wakes(s, Status("ok", 0))
          /\ th' \in [Ids -> Task] /\ frames' \in [Workers -> Seq(Level)]
          /\ poked' \subseteq Workers /\ chgWait' \subseteq Workers
          /\ lp' \in [Workers -> {"loop", "wait", "woken", "out"}]
      <4> HIDE DEF q, s
      <4> QED BY <1>3, <1>5, <2>2, AnswerIs, Zenon
    <3> QED BY <2>2, <3>1, <3>2, <3>3, Zenon DEF Typed, Received
  <2>3. CASE /\ q.buf = <<>> /\ q.senders # <<>>
             /\ chan' = [chan EXCEPT ![c].senders = Tail(@), ![c].got = Append(@, th[s].send)]
             /\ Answer(s, Status("ok", 0))
    <3>1. chan' = [chan EXCEPT ![c] = Handed(q, th[s].send)]
      BY <1>2, <2>3, ZenonT(30) DEF Channel, Chan, Handed
    <3>2. chan' \in [Chans -> Channel]
      <4>1. Handed(q, th[s].send) \in Channel
        BY <1>4, <2>3, Zenon
      <4> HIDE DEF q, s
      <4> QED BY <1>2, <3>1, <4>1, ChanSetOne, Zenon
    <3>3. /\ Wakes(s, Status("ok", 0))
          /\ th' \in [Ids -> Task] /\ frames' \in [Workers -> Seq(Level)]
          /\ poked' \subseteq Workers /\ chgWait' \subseteq Workers
          /\ lp' \in [Workers -> {"loop", "wait", "woken", "out"}]
      <4> HIDE DEF q, s
      <4> QED BY <1>3, <1>5, <2>3, AnswerIs, Zenon
    <3> QED BY <2>3, <3>1, <3>2, <3>3, Zenon DEF Typed, Received
  <2>4. CASE /\ q.buf = <<>> /\ q.senders = <<>> /\ q.closed
             /\ UNCHANGED <<th, frames, poked, lp, chgWait, chan>>
    <3>1. Typed
      BY <2>4, Zenon DEF Typed, TypeOK
    <3>2. th' = th /\ frames' = frames /\ chan' = chan
      BY <2>4, Zenon
    <3> QED BY <2>4, <3>1, <3>2, Zenon DEF Received
  <2>5. CASE /\ q.buf = <<>> /\ q.senders = <<>> /\ ~q.closed
             /\ BlockOn(w, "recv", 0, nested)
             /\ chan' = [chan EXCEPT ![c].receivers = Append(@, Cur(w))]
    <3>1. chan' = [chan EXCEPT ![c] = Parked(q, Cur(w))]
      BY <1>2, <2>5, Zenon DEF Channel, Chan, Parked
    <3>2. chan' \in [Chans -> Channel]
      <4> HIDE DEF q
      <4> QED BY <1>2, <1>4, <3>1, ChanSetOne, Zenon
    <3>3. /\ Parks(w, "recv", 0, nested)
          /\ th' \in [Ids -> Task] /\ frames' \in [Workers -> Seq(Level)]
          /\ poked' \subseteq Workers /\ chgWait' \subseteq Workers
          /\ lp' \in [Workers -> {"loop", "wait", "woken", "out"}]
      <4> HIDE DEF q
      <4> QED BY <1>1, <2>5, BlockOnIs, Zenon
    <3> QED BY <2>5, <3>1, <3>2, <3>3, Zenon DEF Typed, Received
  <2> QED BY <2>1, <2>2, <2>3, <2>4, <2>5, Zenon DEF Recv
<1>7. fuel > 0 /\ fuel' = fuel - 1 /\ fuel' \in 0 .. MaxOps
  <2>1. Does(w, "recv")
    BY Zenon DEF Recv
  <2> QED BY <2>1, TasksAssumption DEF Does, TypeOK
<1>8. UNCHANGED <<nthreads, next_worker, main_done, cursor, stop>>
  BY Zenon DEF Recv
<1>9. TypeOK'
  BY <1>6, <1>7, <1>8 DEF TypeOK, Typed
<1> QED BY <1>1, <1>6, <1>7, <1>8, <1>9, Zenon

\* The tasks on a list are tasks.
LEMMA RangeIs ==
  ASSUME NEW S, NEW s \in Seq(S)
  PROVE  Range(s) = {s[k] : k \in 1 .. Len(s)} /\ Range(s) \subseteq S
  BY SeqLen DEF Range

\* Tasks a closing channel tells, and the table afterwards.
Told(c) == Range(chan[c].senders) \cup Range(chan[c].receivers)

\* coco_g_chan_close answers every task of both lists and empties them.
LEMMA CloseIs ==
  ASSUME TypeOK, NEW w \in Workers, NEW c \in Chans, Close(w, c)
  PROVE  /\ TypeOK' /\ Inside(w) /\ Top(w).at = "engine" /\ "close" \in Ops
         /\ fuel > 0 /\ fuel' = fuel - 1
         /\ frames' = frames /\ nthreads' = nthreads /\ main_done' = main_done
         /\ chan' = [chan EXCEPT ![c] = Shut(chan[c])]
         /\ \A i \in Ids : IF i \in Told(c)
                             THEN \E s \in Statuses : th'[i] = Woken(th[i], s)
                             ELSE th'[i] = th[i]
<1> DEFINE q == chan[c]
           S == Range(q.senders)
           R == Range(q.receivers)
           a == Status("closed", 0)
           e == Status("error", 0)
<1>1. q \in Channel /\ chan \in [Chans -> Channel] /\ th \in [Ids -> Task]
  BY DEF TypeOK
<1>2. S \subseteq Ids /\ R \subseteq Ids
  <2> HIDE DEF q
  <2> QED BY <1>1, ChannelIs, RangeIs, Zenon
<1>3. a \in Statuses /\ e \in Statuses
  BY StatusIs DEF Tags
<1>4. chan' = [chan EXCEPT ![c].closed = TRUE, ![c].senders = <<>>, ![c].receivers = <<>>]
  BY DEF Close
<1>5. chan' = [chan EXCEPT ![c] = Shut(q)]
  BY <1>1, <1>4, Zenon DEF Channel, Chan, Shut
<1>6. Main \in Ids /\ 0 \in Nat
  BY Constants, Zenon
<1>7. chan' \in [Chans -> Channel]
  <2> HIDE DEF q
  <2> QED BY <1>1, <1>5, <1>6, ChanTypes, ChanSetOne
<1>8. th' = [i \in Ids |-> IF i \in R THEN Woken(th[i], a) ELSE IF i \in S THEN Woken(th[i], e) ELSE th[i]]
  BY DEF Close
<1>9. Poke({th[i].worker : i \in S \cup R})
  BY DEF Close
<1>10. Told(c) = S \cup R
  BY DEF Told
<1> HIDE DEF q, S, R, a, e
<1>11. \A i \in Ids : Woken(th[i], a) \in Task /\ Woken(th[i], e) \in Task
  BY <1>1, <1>3, WokenIs, Zenon
<1>12. th' \in [Ids -> Task]
  BY <1>1, <1>8, <1>11
<1>13. \A i \in Ids : IF i \in Told(c) THEN \E s \in Statuses : th'[i] = Woken(th[i], s)
                                       ELSE th'[i] = th[i]
  BY <1>3, <1>8, <1>10, Zenon
<1>14. {th[i].worker : i \in S \cup R} \in SUBSET Workers
  BY <1>1, <1>2, TaskIs
<1>15. /\ poked' \subseteq Workers /\ chgWait' \subseteq Workers
       /\ lp' \in [Workers -> {"loop", "wait", "woken", "out"}]
  BY <1>9, <1>14, PokeType
<1>16. Does(w, "close") /\ UNCHANGED <<nthreads, next_worker, frames, main_done, cursor, stop>>
  BY DEF Close
<1>17. fuel > 0 /\ fuel' = fuel - 1 /\ fuel' \in 0 .. MaxOps /\ Inside(w) /\ Top(w).at = "engine"
       /\ "close" \in Ops
  BY <1>16, TasksAssumption DEF Does, At, TypeOK
<1>18. TypeOK'
  BY <1>7, <1>12, <1>15, <1>16, <1>17 DEF TypeOK
<1> QED BY <1>5, <1>13, <1>16, <1>17, <1>18, Zenon DEF q

-----------------------------------------------------------------------------
(* The waits inside a nested engine *)

\* The state of a waiter after the start of a turn of its loop.
TurnState(w) == IF Top(w).at \in {"toawait", "toresume"} THEN "nested" ELSE th[Cur(w)].state

\* One turn of a nested wait: the waiter's state before anything else happens.
LEMMA WaitingIs ==
  ASSUME TypeOK, NEW w \in Workers, Inside(w)
  PROVE  LET t == th[Cur(w)] IN
         /\ Waiting(w) = [th EXCEPT ![Cur(w)] = Mark(t, TurnState(w), t.block)]
         /\ Mark(t, TurnState(w), t.block) \in Task
         /\ TurnState(w) \in States
         /\ Waiting(w) \in [Ids -> Task]
         /\ Cur(w) \in Ids /\ t \in Task
<1> DEFINE c == Cur(w)
           st == TurnState(w)
           x == Mark(th[c], st, th[c].block)
<1>1. c \in Ids /\ th \in [Ids -> Task] /\ th[c] \in Task
  BY TopIs, Zenon DEF TypeOK
<1>2. st \in States
  BY <1>1, Names, TaskIs, Zenon DEF TurnState
<1>3. Waiting(w) = [th EXCEPT ![c].state = st]
  BY DEF Waiting, TurnState
<1>4. [th EXCEPT ![c].state = st] = [th EXCEPT ![c] = x]
  <2> HIDE DEF c, st
  <2> QED BY <1>1, Zenon DEF Mark, With, Task
<1>5. x \in Task
  <2> HIDE DEF c, st
  <2> QED BY <1>1, <1>2, TaskIs, MarkIs, Zenon
<1>6. Waiting(w) \in [Ids -> Task]
  <2> HIDE DEF x, c, st
  <2> QED BY <1>1, <1>3, <1>4, <1>5, SetOne
<1> QED BY <1>1, <1>2, <1>3, <1>4, <1>5, <1>6, Zenon

\* A nested wait that goes on, with the answer or without.
LEMMA GoOnIs ==
  ASSUME TypeOK, NEW w \in Workers, Inside(w), GoOn(w), th' \in [Ids -> Task]
  PROVE  TypeOK' /\ frames' = Stand(w, "engine", None)
<1>1. frames' = Stand(w, "engine", None) /\ "engine" \in Places /\ None \in Ids \cup {None}
  BY DEF GoOn, Places
<1>2. frames' \in [Workers -> Seq(Level)]
  BY <1>1, StandIs, Zenon
<1> QED BY <1>1, <1>2, Zenon DEF GoOn, TypeOK

\* A nested waiter that goes on is ready and in its engine again.
LEMMA ReadyAgain ==
  ASSUME TypeOK, NEW w \in Workers, Inside(w), th' = [th EXCEPT ![Cur(w)].state = "ready"]
  PROVE  /\ th' = [th EXCEPT ![Cur(w)] = Mark(th[Cur(w)], "ready", th[Cur(w)].block)]
         /\ th' \in [Ids -> Task] /\ Cur(w) \in Ids /\ th[Cur(w)] \in Task
<1> DEFINE c == Cur(w)
           x == Mark(th[c], "ready", th[c].block)
<1>1. c \in Ids /\ th \in [Ids -> Task] /\ th[c] \in Task
  BY TopIs DEF TypeOK
<1>2. th' = [th EXCEPT ![c] = x]
  <2> HIDE DEF c
  <2> QED BY <1>1, Zenon DEF Mark, With, Task, c
<1>3. x \in Task
  <2> HIDE DEF c
  <2> QED BY <1>1, Names, TaskIs, MarkIs, Zenon
<1>4. th' \in [Ids -> Task]
  <2> HIDE DEF x, c
  <2> QED BY <1>1, <1>2, <1>3, SetOne, ZenonT(30)
<1> QED BY <1>1, <1>2, <1>4, Zenon

\* coco_g_await_here returns when the awaited task is done.
LEMMA AwaitDoneIs ==
  ASSUME TypeOK, NEW w \in Workers, AwaitDone(w)
  PROVE  /\ TypeOK' /\ Inside(w) /\ Top(w).at \in {"toawait", "await"}
         /\ frames' = Stand(w, "engine", None)
         /\ th' = [th EXCEPT ![Cur(w)] = Mark(th[Cur(w)], "ready", th[Cur(w)].block)]
         /\ UNCHANGED <<nthreads, main_done, chan>>
  BY ReadyAgain, GoOnIs, Zenon DEF AwaitDone, Turn, GoOn

\* coco_g_wait_resume returns with the answer and takes it off the task.
LEMMA ResumeDoneIs ==
  ASSUME TypeOK, NEW w \in Workers, ResumeDone(w)
  PROVE  TypeOK' /\ Inside(w) /\ Top(w).at \in {"toresume", "resume"}
<1> DEFINE c == Cur(w)
           x == With(th[c], "ready", "none", th[c].wait_on, th[c].send, NoStatus)
<1>1. Inside(w) /\ Top(w).at \in {"toresume", "resume"} /\ GoOn(w)
  BY DEF ResumeDone, Turn
<1>2. c \in Ids /\ th \in [Ids -> Task] /\ th[c] \in Task
  BY <1>1, TopIs, Zenon DEF TypeOK
<1>3. th' = [th EXCEPT ![c].state = "ready", ![c].block = "none", ![c].resume = NoStatus]
  BY DEF ResumeDone
<1>4. th' = [th EXCEPT ![c] = x]
  <2> HIDE DEF c
  <2> QED BY <1>2, <1>3, Zenon DEF With, Task
<1>5. x \in Task
  <2> HIDE DEF c
  <2> QED BY <1>2, Names, TaskIs, NoStatusIs, WithIs, Zenon
<1>6. th' \in [Ids -> Task]
  <2> HIDE DEF x, c
  <2> QED BY <1>2, <1>4, <1>5, SetOne, Zenon
<1> QED BY <1>1, <1>6, GoOnIs

\* A nested wait that is a deadlock goes on, with resource_error(deadlock).
LEMMA NestDeadlockIs ==
  ASSUME TypeOK, NEW w \in Workers, NestDeadlock(w)
  PROVE  /\ TypeOK' /\ Inside(w) /\ Top(w).at \in {"toawait", "await", "toresume", "resume"}
         /\ frames' = Stand(w, "engine", None)
         /\ th' = [th EXCEPT ![Cur(w)] = Mark(th[Cur(w)], "ready", th[Cur(w)].block)]
         /\ UNCHANGED <<nthreads, main_done, chan>>
  BY ReadyAgain, GoOnIs, Zenon DEF NestDeadlock, NotYet, Turn, GoOn

\* The loop a nested waiter is in.
LEMMA LoopIs ==
  ASSUME TypeOK, NEW w \in Workers, Inside(w)
  PROVE  Loop(w) \in Places /\ Top(w).arg \in Ids \cup {None}
  BY TopIs DEF Loop, Places, Level

\* A nested waiter with nothing to run sleeps until the next change.
LEMMA NestSleepIs ==
  ASSUME TypeOK, NEW w \in Workers, NestSleep(w)
  PROVE  /\ TypeOK' /\ Inside(w) /\ Top(w).at \in {"toawait", "await", "toresume", "resume"}
         /\ frames' = Stand(w, Loop(w), Top(w).arg)
         /\ th' = Waiting(w)
         /\ UNCHANGED <<nthreads, main_done, chan>>
<1>1. /\ Inside(w) /\ Top(w).at \in {"toawait", "await", "toresume", "resume"}
      /\ frames' = Stand(w, Loop(w), Top(w).arg)
      /\ th' = Waiting(w)
  BY DEF NestSleep, NotYet, Turn
<1>2. th' \in [Ids -> Task]
  BY <1>1, WaitingIs, Zenon
<1>3. frames' \in [Workers -> Seq(Level)]
  BY <1>1, LoopIs, StandIs, Zenon
<1> QED BY <1>1, <1>2, <1>3, Zenon DEF TypeOK, NestSleep

\* A nested waiter enters a ready task of its own worker on top of its stack.
LEMMA NestRunIs ==
  ASSUME TypeOK, NEW w \in Workers, NestRun(w)
  PROVE  /\ TypeOK' /\ Inside(w) /\ Top(w).at \in {"toawait", "await", "toresume", "resume"}
         /\ UNCHANGED <<nthreads, main_done, chan>>
         /\ LET W == Waiting(w)
                f == Stand(w, Loop(w), Top(w).arg)
            IN \E ti \in Mine(W, w) :
                 /\ ti \in Ids /\ ti \in Used
                 /\ th' = [W EXCEPT ![ti] = Applied(W[ti])]
                 /\ frames' = [f EXCEPT ![w] = Append(f[w], Frame(ti, "engine", None))]
<1> DEFINE W == Waiting(w)
           f == Stand(w, Loop(w), Top(w).arg)
           ti == IF AwaitedHere(w) THEN Top(w).arg ELSE Pick(W, w)
<1>1. Inside(w) /\ Top(w).at \in {"toawait", "await", "toresume", "resume"} /\ Mine(W, w) # {}
  BY DEF NestRun, NotYet, Turn
<1>2. W \in [Ids -> Task]
  BY <1>1, WaitingIs, Zenon
<1>3. f \in [Workers -> Seq(Level)]
  BY <1>1, LoopIs, StandIs, Zenon
<1>4. ti \in Mine(W, w)
  BY <1>1, PickIs DEF AwaitedHere
<1>5. ti \in Used /\ ti \in Ids /\ W[ti] \in Task
  BY <1>2, <1>4, UsedIs, Zenon DEF Mine
<1>6. /\ frames' = [frames EXCEPT ![w] = Append(f[w], Frame(ti, "engine", None))]
      /\ th' = [W EXCEPT ![ti].resume = NoStatus]
      /\ cursor' = IF AwaitedHere(w) THEN cursor ELSE [cursor EXCEPT ![w] = ti + 1]
      /\ UNCHANGED <<nthreads, next_worker, poked, lp, chgWait, chan, main_done, stop, fuel>>
  BY DEF NestRun
<1>7. th' = [W EXCEPT ![ti] = Applied(W[ti])]
  <2> HIDE DEF W, ti
  <2> QED BY <1>2, <1>5, <1>6, Zenon DEF Applied, With, Task
<1>8. th' \in [Ids -> Task]
  <2> HIDE DEF W, ti
  <2> QED BY <1>2, <1>5, <1>7, AppliedIs, SetOne, Zenon
<1>9. frames' = [f EXCEPT ![w] = Append(f[w], Frame(ti, "engine", None))]
  <2> DEFINE F == Append(f[w], Frame(ti, "engine", None))
  <2>1. frames' = [frames EXCEPT ![w] = F] /\ frames \in [Workers -> Seq(Level)]
    BY <1>6, Zenon DEF TypeOK
  <2>2. \A v \in Workers \ {w} : f[v] = frames[v]
    BY <1>1, LoopIs, StandIs
  <2> HIDE DEF F, f
  <2>3. [frames EXCEPT ![w] = F] = [f EXCEPT ![w] = F]
    BY <1>3, <2>1, <2>2, Zenon
  <2> QED BY <2>1, <2>3, Zenon DEF F
<1>10. frames' \in [Workers -> Seq(Level)]
  <2> HIDE DEF f, ti
  <2> QED BY <1>3, <1>5, <1>9, PushIs, Zenon
<1>11. cursor' \in [Workers -> 0 .. MaxTasks]
  <2> HIDE DEF ti
  <2>1. ti + 1 \in 0 .. MaxTasks /\ cursor \in [Workers -> 0 .. MaxTasks]
    BY <1>5, Constants, SMTT(30) DEF Ids, TypeOK
  <2> QED BY <1>6, <2>1, Zenon
<1>12. TypeOK'
  BY <1>6, <1>8, <1>10, <1>11 DEF TypeOK
<1> HIDE DEF W, f, ti
<1>13. \E x \in Mine(W, w) :
        /\ x \in Ids /\ x \in Used
        /\ th' = [W EXCEPT ![x] = Applied(W[x])]
        /\ frames' = [f EXCEPT ![w] = Append(f[w], Frame(x, "engine", None))]
  BY <1>4, <1>5, <1>7, <1>9, Zenon
<1> QED BY <1>1, <1>6, <1>12, <1>13, Zenon DEF W, f

-----------------------------------------------------------------------------
\* A new world is well formed.
LEMMA TypeInit == Init => TypeOK
<1> SUFFICES ASSUME Init PROVE TypeOK
  OBVIOUS
<1>1. th \in [Ids -> Task]
  BY Constants, NewTaskIs, Zenon DEF Init
<1>2. next_worker \in Workers /\ nthreads \in 0 .. MaxTasks /\ fuel \in 0 .. MaxOps
  BY TasksAssumption DEF Init, Workers
<1>3. frames \in [Workers -> Seq(Level)]
  BY DEF Init
<1>4. chan \in [Chans -> Channel]
  BY DEF Init, Channel
<1> QED BY <1>1, <1>2, <1>3, <1>4, Constants, Zenon DEF Init, TypeOK

\* Every critical section leaves the world well formed.
LEMMA TypeStep == TypeOK /\ [Next]_vars => TypeOK'
<1> SUFFICES ASSUME TypeOK, [Next]_vars PROVE TypeOK'
  OBVIOUS
<1>1. ASSUME NEW w \in Workers, LoopStep(w) PROVE TypeOK'
  BY <1>1, LoopPickIs, LoopLeaveIs, LoopDeadlockIs, LoopIdleIs, LoopWokenIs, Zenon DEF LoopStep
<1>2. ASSUME NEW w \in Workers, RunStep(w) PROVE TypeOK'
  BY <1>2, QuantumIs, RunFailIs, RunStopIs, RunFinishIs, Zenon DEF RunStep
<1>3. ASSUME NEW w \in Workers, Builtin(w) PROVE TypeOK'
  BY <1>3, GoIs, YieldIs, AwaitIs, SendIs, RecvIs, CloseIs, ZenonT(30) DEF Builtin, Nested
<1>4. ASSUME NEW w \in Workers, NestStep(w) PROVE TypeOK'
  BY <1>4, AwaitDoneIs, ResumeDoneIs, NestRunIs, NestDeadlockIs, NestSleepIs, Zenon DEF NestStep
<1>5. CASE HostStep
  BY <1>5, StartIs, StopIs, Zenon DEF HostStep
<1>6. CASE UNCHANGED vars
  BY <1>6 DEF vars, TypeOK
<1> QED BY <1>1, <1>2, <1>3, <1>4, <1>5, <1>6, SpuriousIs, Zenon DEF Next, Step, Ended

\* The world's tables keep their shape under every interleaving of the workers: every task,
\* stack level and channel list of lib/green.cicili names tasks and workers that exist.
THEOREM TypeCorrect == Spec => []TypeOK
  BY TypeInit, TypeStep, PTL DEF Spec
=============================================================================
