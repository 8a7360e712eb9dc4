----------------------------- MODULE GreenTasks -----------------------------
(***************************************************************************)
(* The tasks and channels of a green world (lib/green.cicili): pick and    *)
(* run, go, yield, await, finish and wake, the deadlock check, the waits   *)
(* inside a nested engine, and channel send, receive and close.            *)
(*                                                                         *)
(* One action is one critical section of the world lock.  No store write   *)
(* is in flight here (op = nil): the barrier is GreenBarrier's.  A task's  *)
(* program is any sequence of the operations in Ops, fuel of them in all.  *)
(***************************************************************************)
EXTENDS Naturals, Sequences, FiniteSets, Functions

CONSTANTS
  NumWorkers,  \* the workers 0 .. NumWorkers - 1; worker 0 is the host
  MaxTasks,    \* cap: the tasks a world can hold
  Chans,       \* the channels the program made
  Cap,         \* the size each channel was made with; 0 is a rendezvous
  Ops,         \* the operations the tasks' programs use
  MaxOps       \* bound: operations the programs perform

\* "nested": a blocking operation may be inside findall/3 or its like;
\* "child": a task awaits tasks younger than itself only; "early": the main
\* task may end before the others.
AllOps == {"go", "yield", "await", "send", "recv", "close", "nested", "child", "early"}

ASSUME TasksAssumption ==
  /\ NumWorkers \in Nat \ {0}
  /\ MaxTasks \in Nat \ {0}
  /\ Cap \in [Chans -> Nat]
  /\ Ops \subseteq AllOps
  /\ MaxOps \in Nat

VARIABLES
  th,           \* the task table
  nthreads,     \* how many of it are used
  next_worker,  \* where the next task is placed
  frames,       \* each worker's C stack: the tasks it is inside, top last
  cursor,       \* one past the task each worker picked last
  poked,        \* workers with wgen # wseen
  lp,           \* each worker's loop: "loop", "wait", "woken" or "out"
  chgWait,      \* workers inside the wait on changed
  chan,         \* the channels
  celled,       \* tasks whose resume_cell is the cell of the operation they
                \* blocked in last
  main_done, stop,
  fuel          \* operations the programs may still perform

vars == <<th, nthreads, next_worker, frames, cursor, poked, lp, chgWait,
          chan, celled, main_done, stop, fuel>>

Workers == 0 .. NumWorkers - 1
Ids == 0 .. MaxTasks - 1
Used == 0 .. nthreads - 1
Main == 0
None == MaxTasks

\* A status is an answer's tag and the message it carries, 0 for none.
Status(tag, v) == [tag |-> tag, val |-> v]
NoStatus == Status("none", 0)

NewTask(w) == [worker |-> w, state |-> "ready", block |-> "none",
               wait_on |-> None, send |-> 0,
               resume |-> NoStatus, status |-> NoStatus]

\* Where a worker is inside a task: "engine", running; "unwind", the engine
\* stopped with rc 0 and is returning; "toawait" and "toresume", before
\* await_here or wait_resume takes the lock; "await" and "resume", in its loop.
Frame(t, at, arg) == [task |-> t, at |-> at, arg |-> arg]

-----------------------------------------------------------------------------
(* The world's shared state *)

Inside(w) == frames[w] # <<>>
Top(w) == frames[w][Len(frames[w])]
Cur(w) == Top(w).task
At(w, p) == Inside(w) /\ Top(w).at = p

Push(w, t) == [frames EXCEPT ![w] = Append(@, Frame(t, "engine", None))]
Pop(w) == [frames EXCEPT ![w] = SubSeq(@, 1, Len(@) - 1)]
Stand(w, at, arg) == [frames EXCEPT ![w][Len(frames[w])] = Frame(Cur(w), at, arg)]

InlineWait(f) == \E w \in Workers : \E i \in DOMAIN f[w] : f[w][i].at \in {"await", "resume"}

\* coco_g_poke on each worker of S, with the loops at L; the broadcast wakes
\* every nested waiter.
Signal(L, S) ==
  /\ poked' = poked \cup S
  /\ lp' = [w \in Workers |-> IF w \in S /\ L[w] = "wait" THEN "woken" ELSE L[w]]

\* Mutant of Poke: the nested waiters are not told.
PokeOnly(S) == Signal(lp, S) /\ UNCHANGED chgWait

Poke(S) ==
  /\ Signal(lp, S)
  /\ chgWait' = IF S = {} THEN chgWait ELSE {}

\* A waiter gets its answer.
Woken(t, s) == [t EXCEPT !.resume = s, !.state = "ready", !.block = "none",
                         !.wait_on = None, !.send = 0]

\* coco_g_wake: the tasks of table T that await task ti.
Awaiting(T, ti) == {i \in Used : /\ T[i].state = "blocked"
                                 /\ T[i].block = "await"
                                 /\ T[i].wait_on = ti}

\* coco_g_finish of task ti in table T, with the loops at L.
Finish(L, T, ti, s) ==
  LET A == Awaiting(T, ti)
  IN /\ th' = [i \in Ids |->
                 IF i = ti THEN [T[i] EXCEPT !.status = s, !.state = "done", !.block = "none"]
                 ELSE IF i \in A THEN Woken(T[i], s) ELSE T[i]]
     /\ main_done' = (main_done \/ ti = Main)
     /\ Signal(L, IF ti = Main THEN Workers ELSE {T[i].worker : i \in A})
     /\ chgWait' = {}

AnyReady(T) == \E i \in Used : T[i].state = "ready"

\* Mutant of Dead: a nested wait is not looked for.
DeadIgnoresNested(T, f) == ~main_done /\ nthreads > 0 /\ ~AnyReady(T)

\* Mutant of Dead: a world with the main task alone counts as empty.
DeadNeedsTwo(T, f) == ~main_done /\ ~InlineWait(f) /\ nthreads > 1 /\ ~AnyReady(T)

\* coco_g_deadlock's conditions, with table T and stacks f.
Dead(T, f) == ~main_done /\ ~InlineWait(f) /\ nthreads > 0 /\ ~AnyReady(T)

KillMain(L, T) == Finish(L, T, Main, Status("deadlock", 0))

\* coco_g_pick: the first ready task of worker w at or after its cursor.
Mine(T, w) == {i \in Used : T[i].state = "ready" /\ T[i].worker = w}
After(w, i) == (i + nthreads - (cursor[w] % nthreads)) % nthreads
\* Mutant of Pick: the search always starts at task 0.
PickFirst(T, w) == CHOOSE i \in Mine(T, w) : \A j \in Mine(T, w) : i <= j

Pick(T, w) == CHOOSE i \in Mine(T, w) : \A j \in Mine(T, w) : After(w, i) <= After(w, j)

\* The start of coco_g_run: the answer the task waited for is applied.
Enter(w, t) ==
  /\ frames' = Push(w, t)
  /\ th' = [th EXCEPT ![t].resume = NoStatus]

-----------------------------------------------------------------------------
(* async_run and coco_g_worker_loop *)

\* async_run makes the main task; the other workers are running already.
Start ==
  /\ nthreads = 0
  /\ th' = [th EXCEPT ![Main] = NewTask(0)]
  /\ nthreads' = 1
  /\ UNCHANGED <<next_worker, frames, poked, lp, chgWait, chan, main_done, fuel, cursor, stop, celled>>

AtLoop(w) == ~Inside(w) /\ lp[w] = "loop" /\ (w = 0 => nthreads > 0)

LoopPick(w) ==
  /\ AtLoop(w) /\ ~stop /\ Mine(th, w) # {}
  /\ Enter(w, Pick(th, w))
  /\ cursor' = [cursor EXCEPT ![w] = Pick(th, w) + 1]
  /\ UNCHANGED <<nthreads, next_worker, poked, lp, chgWait, chan, main_done, stop, fuel, celled>>

LoopLeave(w) ==
  /\ AtLoop(w) /\ (stop \/ (Mine(th, w) = {} /\ main_done))
  /\ lp' = [lp EXCEPT ![w] = "out"]
  /\ UNCHANGED <<th, nthreads, next_worker, frames, cursor, poked, chgWait,
                 chan, main_done, stop, fuel, celled>>

\* The check ends the main task, and the worker leaves.
LoopDeadlock(w) ==
  /\ AtLoop(w) /\ ~stop /\ Mine(th, w) = {}
  /\ Dead(th, frames)
  /\ KillMain([lp EXCEPT ![w] = "out"], th)
  /\ UNCHANGED <<nthreads, next_worker, frames, cursor, chan, stop, fuel, celled>>

LoopIdle(w) ==
  /\ AtLoop(w) /\ ~stop /\ Mine(th, w) = {} /\ ~main_done /\ ~Dead(th, frames)
  /\ IF w \in poked
       THEN poked' = poked \ {w} /\ UNCHANGED lp
       ELSE lp' = [lp EXCEPT ![w] = "wait"] /\ UNCHANGED poked
  /\ UNCHANGED <<th, nthreads, next_worker, frames, cursor, chgWait, chan,
                 main_done, stop, fuel, celled>>

LoopWoken(w) ==
  /\ lp[w] = "woken"
  /\ lp' = [lp EXCEPT ![w] = "loop"]
  /\ poked' = poked \ {w}
  /\ UNCHANGED <<th, nthreads, next_worker, frames, cursor, chgWait, chan,
                 main_done, stop, fuel, celled>>

\* The host left its loop: it tells the world to stop.
Stop ==
  /\ lp[0] = "out" /\ ~stop
  /\ stop' = TRUE
  /\ Poke(Workers)
  /\ UNCHANGED <<th, nthreads, next_worker, frames, cursor, chan, main_done, fuel, celled>>

\* A condition wait may return with nothing signalled.
Spurious(w) ==
  /\ lp[w] = "wait" \/ w \in chgWait
  /\ lp' = [lp EXCEPT ![w] = IF @ = "wait" THEN "woken" ELSE @]
  /\ chgWait' = chgWait \ {w}
  /\ UNCHANGED <<th, nthreads, next_worker, frames, cursor, poked, chan,
                 main_done, stop, fuel, celled>>

-----------------------------------------------------------------------------
(* The end of coco_g_run, under the world lock *)

\* The quantum: the task stays ready.
Quantum(w) ==
  /\ At(w, "engine") /\ "yield" \in Ops
  /\ frames' = Pop(w)
  /\ th' = [th EXCEPT ![Cur(w)].state = "ready", ![Cur(w)].block = "none"]
  /\ UNCHANGED <<nthreads, next_worker, poked, lp, chgWait, chan, main_done, fuel, cursor, stop, celled>>

MayEnd(t) == (t = Main /\ ~main_done /\ "early" \notin Ops) =>
               \A i \in Used \ {Main} : th[i].state = "done"

\* A solution or an uncaught ball.
RunFinish(w, tag) ==
  /\ At(w, "engine") /\ MayEnd(Cur(w))
  /\ frames' = Pop(w)
  /\ Finish(lp, th, Cur(w), Status(tag, 0))
  /\ UNCHANGED <<nthreads, next_worker, chan, fuel, cursor, stop, celled>>

\* The goal failed: rc 0 with no block set.
RunFail(w) ==
  /\ At(w, "engine") /\ MayEnd(Cur(w))
  /\ frames' = Stand(w, "unwind", None)
  /\ UNCHANGED <<th, nthreads, next_worker, poked, lp, chgWait, chan, main_done, fuel, cursor, stop, celled>>

\* rc 0: a waker may have come first, the task may have yielded or blocked,
\* or it failed.
RunStop(w) ==
  LET t == th[Cur(w)]
      B == [th EXCEPT ![Cur(w)].state = "blocked"]
  IN /\ At(w, "unwind")
     /\ frames' = Pop(w)
     /\ \/ /\ t.resume # NoStatus
           /\ UNCHANGED <<th, poked, lp, chgWait, main_done>>
        \/ /\ t.resume = NoStatus /\ t.block = "yield"
           /\ th' = [th EXCEPT ![Cur(w)].state = "ready", ![Cur(w)].block = "none"]
           /\ UNCHANGED <<poked, lp, chgWait, main_done>>
        \/ /\ t.resume = NoStatus /\ t.block \notin {"yield", "none"}
           /\ IF Dead(B, frames)
                THEN KillMain(lp, B)
                ELSE th' = B /\ UNCHANGED <<poked, lp, chgWait, main_done>>
        \/ /\ t.resume = NoStatus /\ t.block = "none"
           /\ Finish(lp, th, Cur(w), Status("failed", 0))
     /\ UNCHANGED <<nthreads, next_worker, chan, fuel, cursor, stop, celled>>

-----------------------------------------------------------------------------
(* The builtins *)

Does(w, o) == At(w, "engine") /\ o \in Ops /\ fuel > 0 /\ fuel' = fuel - 1

\* The place a blocking builtin leaves its worker at.
Nested == IF "nested" \in Ops THEN BOOLEAN ELSE {FALSE}

\* async_go: coco_g_spawn, refused when the table is full.
Go(w) ==
  /\ Does(w, "go") /\ nthreads < MaxTasks
  /\ th' = [th EXCEPT ![nthreads] = NewTask(next_worker)]
  /\ nthreads' = nthreads + 1
  /\ next_worker' = (next_worker + 1) % NumWorkers
  /\ Poke({next_worker})
  /\ UNCHANGED <<frames, chan, main_done, cursor, stop, celled>>

Yield(w) ==
  /\ Does(w, "yield")
  /\ th' = [th EXCEPT ![Cur(w)].block = "yield"]
  /\ frames' = Stand(w, "unwind", None)
  /\ UNCHANGED <<nthreads, next_worker, poked, lp, chgWait, chan, main_done, cursor, stop, celled>>

\* Mutant of Await: the block is set, the state left to the end of coco_g_run.
AwaitLate(w, id, nested) ==
  /\ At(w, "engine") /\ "await" \in Ops /\ id \in Used /\ th[id].state # "done"
  /\ "child" \in Ops => id > Cur(w)
  /\ frames' = IF nested THEN Stand(w, "toawait", id) ELSE Stand(w, "unwind", None)
  /\ th' = IF nested THEN th
           ELSE [th EXCEPT ![Cur(w)].block = "await", ![Cur(w)].wait_on = id]
  /\ UNCHANGED <<nthreads, next_worker, poked, lp, chgWait, chan, main_done, fuel, cursor, stop, celled>>

\* async_await of a task that is not done.  The state is set with the block.
Await(w, id, nested) ==
  /\ At(w, "engine") /\ "await" \in Ops /\ id \in Used /\ th[id].state # "done"
  /\ "child" \in Ops => id > Cur(w)
  /\ IF nested
       THEN /\ frames' = Stand(w, "toawait", id)
            /\ UNCHANGED <<th, celled>>
       ELSE /\ frames' = Stand(w, "unwind", None)
            /\ th' = [th EXCEPT ![Cur(w)].state = "blocked", ![Cur(w)].block = "await",
                                ![Cur(w)].wait_on = id]
            /\ celled' = celled \cup {Cur(w)}
  /\ UNCHANGED <<nthreads, next_worker, poked, lp, chgWait, chan, main_done, fuel, cursor, stop>>

\* The caller of a send or a receive blocks on the channel.  Every one but the
\* sender outside a nested engine says where its status goes.
BlockOn(w, o, v, nested) ==
  /\ th' = [th EXCEPT ![Cur(w)].state = IF nested THEN "nested" ELSE "blocked",
                      ![Cur(w)].block = o, ![Cur(w)].send = v]
  /\ frames' = Stand(w, IF nested THEN "toresume" ELSE "unwind", None)
  /\ celled' = IF o = "recv" \/ nested THEN celled \cup {Cur(w)} ELSE celled \ {Cur(w)}
  /\ UNCHANGED <<poked, lp, chgWait>>

\* A task of the channel's lists gets its answer.
Answer(t, s) ==
  /\ th' = [th EXCEPT ![t] = Woken(@, s)]
  /\ Poke({th[t].worker})
  /\ UNCHANGED <<frames, celled>>

\* Mutant of Send: the ring is tried before the waiting receivers.
SendRingFirst(w, c, nested) ==
  LET q == chan[c]
      v == q.offered + 1
  IN /\ Does(w, "send") /\ ~q.closed
     /\ \/ /\ Len(q.buf) < Cap[c]
           /\ chan' = [chan EXCEPT ![c].buf = Append(@, v), ![c].offered = v]
           /\ UNCHANGED <<th, frames, celled, poked, lp, chgWait>>
        \/ /\ Len(q.buf) >= Cap[c] /\ q.receivers # <<>>
           /\ Answer(Head(q.receivers), Status("ok", v))
           /\ chan' = [chan EXCEPT ![c].receivers = Tail(@), ![c].offered = v,
                                   ![c].got = Append(@, v)]
     /\ UNCHANGED <<nthreads, next_worker, main_done, cursor, stop>>

\* Mutant of Send: the receiver it answers stays on the channel's list.
SendKeepsReceiver(w, c, nested) ==
  LET q == chan[c]
      v == q.offered + 1
  IN /\ Does(w, "send") /\ ~q.closed /\ q.receivers # <<>>
     /\ Answer(Head(q.receivers), Status("ok", v))
     /\ chan' = [chan EXCEPT ![c].offered = v, ![c].got = Append(@, v)]
     /\ UNCHANGED <<nthreads, next_worker, main_done, cursor, stop>>

Send(w, c, nested) ==
  LET q == chan[c]
      v == q.offered + 1
  IN /\ Does(w, "send")
     /\ \/ /\ q.closed
           /\ UNCHANGED <<th, frames, celled, poked, lp, chgWait, chan>>
        \/ /\ ~q.closed /\ q.receivers # <<>>
           /\ Answer(Head(q.receivers), Status("ok", v))
           /\ chan' = [chan EXCEPT ![c].receivers = Tail(@), ![c].offered = v,
                                   ![c].got = Append(@, v)]
        \/ /\ ~q.closed /\ q.receivers = <<>> /\ Len(q.buf) < Cap[c]
           /\ chan' = [chan EXCEPT ![c].buf = Append(@, v), ![c].offered = v]
           /\ UNCHANGED <<th, frames, celled, poked, lp, chgWait>>
        \/ /\ ~q.closed /\ q.receivers = <<>> /\ Len(q.buf) >= Cap[c]
           /\ BlockOn(w, "send", v, nested)
           /\ chan' = [chan EXCEPT ![c].senders = Append(@, Cur(w)), ![c].offered = v]
     /\ UNCHANGED <<nthreads, next_worker, main_done, cursor, stop>>

\* A receive takes the oldest of the buffer, and the first blocked sender
\* takes the slot it freed (coco_g_move_sender).
Recv(w, c, nested) ==
  LET q == chan[c]
      s == Head(q.senders)
  IN /\ Does(w, "recv")
     /\ \/ /\ q.buf # <<>> /\ q.senders = <<>>
           /\ chan' = [chan EXCEPT ![c].buf = Tail(@), ![c].got = Append(@, Head(q.buf))]
           /\ UNCHANGED <<th, frames, celled, poked, lp, chgWait>>
        \/ /\ q.buf # <<>> /\ q.senders # <<>>
           /\ chan' = [chan EXCEPT ![c].buf = Append(Tail(@), th[s].send),
                                   ![c].senders = Tail(@),
                                   ![c].got = Append(@, Head(q.buf))]
           /\ Answer(s, Status("ok", 0))
        \/ /\ q.buf = <<>> /\ q.senders # <<>>
           /\ chan' = [chan EXCEPT ![c].senders = Tail(@), ![c].got = Append(@, th[s].send)]
           /\ Answer(s, Status("ok", 0))
        \/ /\ q.buf = <<>> /\ q.senders = <<>> /\ q.closed
           /\ UNCHANGED <<th, frames, celled, poked, lp, chgWait, chan>>
        \/ /\ q.buf = <<>> /\ q.senders = <<>> /\ ~q.closed
           /\ BlockOn(w, "recv", 0, nested)
           /\ chan' = [chan EXCEPT ![c].receivers = Append(@, Cur(w))]
     /\ UNCHANGED <<nthreads, next_worker, main_done, cursor, stop>>

\* Mutant of Close: what the ring holds is dropped too.
CloseEmpties(w, c) ==
  /\ Does(w, "close")
  /\ chan[c].senders = <<>> /\ chan[c].receivers = <<>>
  /\ chan' = [chan EXCEPT ![c].closed = TRUE, ![c].buf = <<>>]
  /\ UNCHANGED <<th, poked, lp, chgWait, nthreads, next_worker, frames, main_done, cursor, stop, celled>>

\* coco_g_chan_close: every task of the channel's lists is told.
Close(w, c) ==
  LET S == Range(chan[c].senders)
      R == Range(chan[c].receivers)
  IN /\ Does(w, "close")
     /\ chan' = [chan EXCEPT ![c].closed = TRUE, ![c].senders = <<>>, ![c].receivers = <<>>]
     /\ th' = [i \in Ids |-> IF i \in R THEN Woken(th[i], Status("closed", 0))
                             ELSE IF i \in S THEN Woken(th[i], Status("error", 0))
                             ELSE th[i]]
     /\ Poke({th[i].worker : i \in S \cup R})
     /\ UNCHANGED <<nthreads, next_worker, frames, main_done, cursor, stop, celled>>

-----------------------------------------------------------------------------
(* coco_g_await_here and coco_g_wait_resume: one turn of the loop.  The     *)
(* first turn begins by making the caller a nested waiter.                  *)

Turn(w, first, loop) == Inside(w) /\ Top(w).at \in {first, loop} /\ w \notin chgWait

\* Mutant of Waiting: the waiter's state stays 0.
WaitingStays(w) == th

Waiting(w) == [th EXCEPT ![Cur(w)].state = IF Top(w).at \in {"toawait", "toresume"}
                                             THEN "nested" ELSE @]

\* The wait is over, with the answer or with resource_error(deadlock).
GoOn(w) ==
  /\ frames' = Stand(w, "engine", None)
  /\ UNCHANGED <<nthreads, next_worker, poked, lp, chgWait, chan, main_done, fuel, cursor, stop, celled>>

AwaitDone(w) ==
  /\ Turn(w, "toawait", "await") /\ th[Top(w).arg].state = "done"
  /\ th' = [th EXCEPT ![Cur(w)].state = "ready"]
  /\ GoOn(w)

ResumeDone(w) ==
  /\ Turn(w, "toresume", "resume") /\ th[Cur(w)].resume # NoStatus
  /\ th' = [th EXCEPT ![Cur(w)].state = "ready", ![Cur(w)].block = "none",
                      ![Cur(w)].resume = NoStatus]
  /\ GoOn(w)

\* No answer yet.
NotYet(w) ==
  \/ Turn(w, "toawait", "await") /\ th[Top(w).arg].state # "done"
  \/ Turn(w, "toresume", "resume") /\ th[Cur(w)].resume = NoStatus

Loop(w) == IF Top(w).at \in {"toawait", "await"} THEN "await" ELSE "resume"

\* The waiter's own worker runs what is ready on it: the awaited task first.
AwaitedHere(w) == Loop(w) = "await" /\ Top(w).arg \in Mine(Waiting(w), w)

NestRun(w) ==
  /\ NotYet(w) /\ Mine(Waiting(w), w) # {}
  /\ LET ti == IF AwaitedHere(w) THEN Top(w).arg ELSE Pick(Waiting(w), w)
     IN /\ frames' = [frames EXCEPT ![w] =
                        Append(Stand(w, Loop(w), Top(w).arg)[w], Frame(ti, "engine", None))]
        /\ th' = [Waiting(w) EXCEPT ![ti].resume = NoStatus]
        /\ cursor' = IF AwaitedHere(w) THEN cursor ELSE [cursor EXCEPT ![w] = ti + 1]
  /\ UNCHANGED <<nthreads, next_worker, poked, lp, chgWait, chan, main_done, stop, fuel, celled>>

NestDeadlock(w) ==
  /\ NotYet(w) /\ Mine(Waiting(w), w) = {} /\ ~AnyReady(Waiting(w))
  /\ th' = [th EXCEPT ![Cur(w)].state = "ready"]
  /\ GoOn(w)

NestSleep(w) ==
  /\ NotYet(w) /\ Mine(Waiting(w), w) = {} /\ AnyReady(Waiting(w))
  /\ th' = Waiting(w)
  /\ frames' = Stand(w, Loop(w), Top(w).arg)
  /\ chgWait' = chgWait \cup {w}
  /\ UNCHANGED <<nthreads, next_worker, poked, lp, chan, main_done, fuel, cursor, stop, celled>>

-----------------------------------------------------------------------------
Init ==
  /\ th = [i \in Ids |-> NewTask(0)]
  /\ nthreads = 0
  /\ next_worker = 1 % NumWorkers
  /\ frames = [w \in Workers |-> <<>>]
  /\ cursor = [w \in Workers |-> 0]
  /\ poked = {} /\ chgWait = {}
  /\ lp = [w \in Workers |-> "loop"]
  /\ chan = [c \in Chans |-> [buf |-> <<>>, closed |-> FALSE, senders |-> <<>>,
                              receivers |-> <<>>, offered |-> 0, got |-> <<>>]]
  /\ celled = {}
  /\ main_done = FALSE /\ stop = FALSE
  /\ fuel = MaxOps

Over == stop /\ \A w \in Workers : lp[w] = "out"
Ended == Over /\ UNCHANGED vars

LoopStep(w) == LoopPick(w) \/ LoopLeave(w) \/ LoopDeadlock(w) \/ LoopIdle(w) \/ LoopWoken(w)

RunStep(w) == \/ Quantum(w) \/ RunFail(w) \/ RunStop(w)
              \/ \E tag \in {"ok", "error"} : RunFinish(w, tag)

Builtin(w) == \/ Go(w) \/ Yield(w)
              \/ \E id \in Ids, nested \in Nested : Await(w, id, nested)
              \/ \E c \in Chans, nested \in Nested : Send(w, c, nested) \/ Recv(w, c, nested)
              \/ \E c \in Chans : Close(w, c)

NestStep(w) == AwaitDone(w) \/ ResumeDone(w) \/ NestRun(w) \/ NestDeadlock(w) \/ NestSleep(w)

Step(w) == LoopStep(w) \/ RunStep(w) \/ Builtin(w) \/ NestStep(w)

HostStep == Start \/ Stop

Next == HostStep \/ (\E w \in Workers : Step(w) \/ Spurious(w)) \/ Ended

Spec == Init /\ [][Next]_vars

FairSpec == Spec /\ (\A w \in Workers : WF_vars(Step(w))) /\ WF_vars(HostStep)

-----------------------------------------------------------------------------

\* Nobody whom coco_g_async_send or coco_g_async_recv put on a channel's list
\* waits on a channel that could serve them: a receiver is blocked only
\* on an empty channel without senders, a sender only on a full one, a ring
\* never holds more than its size, and a closed channel has no waiters.
ChannelShape ==
  \A c \in Chans :
    /\ chan[c].receivers # <<>> => chan[c].buf = <<>> /\ chan[c].senders = <<>>
    /\ chan[c].senders # <<>> => Len(chan[c].buf) = Cap[c]
    /\ Len(chan[c].buf) <= Cap[c]
    /\ chan[c].closed => chan[c].senders = <<>> /\ chan[c].receivers = <<>>

\* What a channel still has to hand over: its ring, then its blocked senders.
Pending(c) == chan[c].buf \o [k \in DOMAIN chan[c].senders |-> th[chan[c].senders[k]].send]

Promise(c) == INSTANCE GreenChannel WITH
                Message <- 1 .. MaxOps, Size <- Cap[c],
                queue <- Pending(c), taken <- chan[c].got, closed <- chan[c].closed

\* Every channel keeps GreenChannel's promise: first in, first out, each message
\* taken at most once, whether it went through the ring (coco_g_async_send,
\* coco_g_async_recv), straight to a waiting receiver, or from a blocked sender
\* (coco_g_move_sender), and coco_g_chan_close loses nothing but the messages of
\* the blocked senders.
ChannelsKeepOrder ==
  /\ \A c \in Chans : Promise(c)!Init
  /\ [][\A c \in Chans : Promise(c)!Next \/ UNCHANGED Promise(c)!vars]_vars

\* While the main task runs, a task on a channel's list of senders or receivers
\* is a task blocked in that operation, inside or outside a nested engine, with
\* nothing to resume it yet, and it is on the list once: whoever serves the list
\* overwrites nobody's answer.
WaitersWait ==
  ~main_done => \A c \in Chans :
    /\ \A i \in Range(chan[c].senders) :
         th[i].state \in {"blocked", "nested"} /\ th[i].block = "send" /\ th[i].resume = NoStatus
    /\ \A i \in Range(chan[c].receivers) :
         th[i].state \in {"blocked", "nested"} /\ th[i].block = "recv" /\ th[i].resume = NoStatus
    /\ Cardinality(Range(chan[c].senders)) = Len(chan[c].senders)
    /\ Cardinality(Range(chan[c].receivers)) = Len(chan[c].receivers)

\* No wake is lost: nobody is blocked in coco_g_async_await on a task that
\* coco_g_finish has ended, however the two interleave.
NoMissedWake ==
  \A i \in Used : th[i].state = "blocked" /\ th[i].block = "await" => th[th[i].wait_on].state # "done"

\* The frames, of any worker's C stack, that are inside task i's engine.
Stacked(i) == {p \in UNION {{w} \X DOMAIN frames[w] : w \in Workers} :
                 frames[p[1]][p[2]].task = i}

\* A task's engine is on one C stack and on it once: coco_g_run never enters an
\* engine that coco_g_await_here or coco_g_wait_resume is still waiting inside.
OneEngine == \A i \in Used : Cardinality(Stacked(i)) <= 1

\* A task that is done (coco_g_finish frees its engine and its machine) has no
\* worker inside its engine.
NotFreedInside == \A i \in Used : th[i].state = "done" => Stacked(i) = {}

\* A done task's status is final: coco_g_finish gives a task one status, and who
\* awaits it later reads what an earlier waiter read.
StatusIsFinal ==
  [][\A i \in Used : th[i].state = "done" => th'[i].status = th[i].status]_vars

\* A ready task that no worker is inside is run, unless the main task ends or
\* a nested wait begins first: coco_g_pick goes round, and no task before it
\* keeps its worker.
ReadyRuns ==
  \A i \in Ids : (i < nthreads /\ th[i].state = "ready" /\ Stacked(i) = {})
                   ~> (Stacked(i) # {} \/ main_done \/ InlineWait(frames))

\* A status handed to a waiter that said where it goes reaches that cell, unless
\* the main task ends first: in coco_g_run for a blocked task, in
\* coco_g_wait_resume for one that waits inside a nested engine.  (A sender
\* blocked outside one does not say: StatusInItsCell.)  A nested wait that ended
\* as a deadlock may have left its task on a channel's list; the worlds where
\* every task on a list waits are the ones meant.
AnswerArrives ==
  []WaitersWait =>
    \A i \in Ids : (th[i].resume # NoStatus /\ i \in celled)
                     ~> ((th[i].resume = NoStatus /\ i \in celled) \/ main_done)

\* What the comment on resume_cell says, "where the status goes on resume": a
\* status that coco_g_run applies to a task goes to the cell of the operation
\* the task blocked in.
StatusInItsCell ==
  [][\A i \in Used : (th[i].resume # NoStatus /\ th'[i].resume = NoStatus /\ Stacked(i) = {})
                        => i \in celled]_vars

\* What the documentation of async_run says: when every task is blocked and the
\* main one has not ended, coco_g_deadlock reports it.  (Where a nested wait is
\* on, it leaves the report to that wait.)
DeadlockReported ==
  (nthreads > 0 /\ ~AnyReady(th) /\ \A w \in Workers : ~At(w, "unwind"))
     ~> (main_done \/ AnyReady(th) \/ InlineWait(frames))
=============================================================================
