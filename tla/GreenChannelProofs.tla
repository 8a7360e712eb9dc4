------------------------- MODULE GreenChannelProofs -------------------------
(***************************************************************************)
(* The channels of a green world, step by step. A channel's shape is an    *)
(* invariant of every program. Where nothing waits inside a nested engine, *)
(* every step keeps the channels' lists (ListInv) and is one of a few      *)
(* moves to the channels (Moves); GreenWorldProofs draws the conclusions.  *)
(***************************************************************************)
EXTENDS GreenTasksTypes

\* Only the builtins touch a channel.
LEMMA ChanSteps ==
  ASSUME [Next]_vars, chan' # chan
  PROVE  \E w \in Workers, c \in Chans :
           \/ \E n \in Nested : Send(w, c, n) \/ Recv(w, c, n)
           \/ Close(w, c)
<1>1. ~(HostStep \/ Ended \/ UNCHANGED vars)
  BY DEF HostStep, Start, Stop, Ended, vars
<1>2. PICK w \in Workers : Step(w) \/ Spurious(w)
  BY <1>1, Zenon DEF Next
<1>3. ~(LoopStep(w) \/ RunStep(w) \/ NestStep(w) \/ Spurious(w))
  BY DEF LoopStep, LoopPick, LoopLeave, LoopDeadlock, LoopIdle, LoopWoken, RunStep, Quantum,
         RunFail, RunStop, RunFinish, NestStep, AwaitDone, ResumeDone, NestRun, NestDeadlock,
         NestSleep, GoOn, Spurious
<1>4. Builtin(w)
  BY <1>2, <1>3 DEF Step
<1>5. ~(Go(w) \/ Yield(w) \/ \E id \in Ids, n \in Nested : Await(w, id, n))
  BY DEF Go, Yield, Await
<1> QED BY <1>4, <1>5 DEF Builtin

\* Every step keeps the shape of every channel, nested waits included.
LEMMA ShapeStep ==
  ASSUME TypeOK, ChannelShape, [Next]_vars
  PROVE  ChannelShape'
<1>0. chan \in [Chans -> Channel] /\ Cap \in [Chans -> Nat] /\ TypeOK'
      /\ \A c \in Chans : Shape(chan[c], Cap[c])
  BY TypeStep, TasksAssumption, SMTT(30) DEF TypeOK, ChannelShape, Shape
<1>1. ASSUME NEW c \in Chans, NEW x, Shape(x, Cap[c]), chan' = [chan EXCEPT ![c] = x]
      PROVE  ChannelShape'
  <2>1. \A d \in Chans : Shape(chan'[d], Cap[d])
    <3> TAKE d \in Chans
    <3>1. CASE d = c
      BY <1>0, <1>1, <3>1
    <3>2. CASE d # c
      BY <1>0, <1>1, <3>2
    <3> QED BY <3>1, <3>2
  <2> QED BY <2>1 DEF ChannelShape, Shape
<1>2. CASE chan' = chan
  BY <1>2 DEF ChannelShape
<1>3. ASSUME NEW w \in Workers, NEW c \in Chans, NEW n \in BOOLEAN, Send(w, c, n)
      PROVE  ChannelShape'
  <2> DEFINE q == chan[c]
             m == Cap[c]
  <2>1. Sent(w, c, n) /\ q \in Channel /\ m \in Nat /\ Shape(q, m)
    BY <1>0, <1>3, SendIs, Zenon
  <2>2. \/ chan' = chan
        \/ ~q.closed /\ q.receivers # <<>> /\ chan' = [chan EXCEPT ![c] = Passed(q)]
        \/ /\ ~q.closed /\ q.receivers = <<>> /\ Len(q.buf) < m
           /\ chan' = [chan EXCEPT ![c] = Buffered(q)]
        \/ /\ ~q.closed /\ q.receivers = <<>> /\ Len(q.buf) >= m
           /\ chan' = [chan EXCEPT ![c] = Queued(q, Cur(w))]
    BY <2>1 DEF Sent
  <2> DEFINE i == Cur(w)
             y == chan'
  <2> HIDE DEF q, m, i
  <2>3. /\ ~q.closed /\ q.receivers # <<>> => Shape(Passed(q), m)
        /\ ~q.closed /\ q.receivers = <<>> /\ Len(q.buf) < m => Shape(Buffered(q), m)
        /\ ~q.closed /\ q.receivers = <<>> /\ Len(q.buf) >= m => Shape(Queued(q, i), m)
    BY <2>1, ShapeOps
  <2> QED BY <1>1, <1>2, <2>2, <2>3, Zenon DEF m, i
<1>4. ASSUME NEW w \in Workers, NEW c \in Chans, NEW n \in BOOLEAN, Recv(w, c, n)
      PROVE  ChannelShape'
  <2> DEFINE q == chan[c]
             m == Cap[c]
             v == th[Head(q.senders)].send
             i == Cur(w)
  <2>1. Received(w, c, n) /\ q \in Channel /\ m \in Nat /\ Shape(q, m) /\ th \in [Ids -> Task]
    BY <1>0, <1>4, RecvIs, ZenonT(30) DEF TypeOK
  <2>2. \/ chan' = chan
        \/ q.buf # <<>> /\ q.senders = <<>> /\ chan' = [chan EXCEPT ![c] = Taken(q)]
        \/ q.buf # <<>> /\ q.senders # <<>> /\ chan' = [chan EXCEPT ![c] = Refilled(q, v)]
        \/ q.buf = <<>> /\ q.senders # <<>> /\ chan' = [chan EXCEPT ![c] = Handed(q, v)]
        \/ /\ q.buf = <<>> /\ q.senders = <<>> /\ ~q.closed
           /\ chan' = [chan EXCEPT ![c] = Parked(q, i)]
    BY <2>1 DEF Received
  <2>3. q.senders # <<>> => v \in Nat
    <3>1. q.senders # <<>> => Head(q.senders) \in Ids
      BY <2>1, ChannelIs, SeqTail
    <3> QED BY <2>1, <3>1, TaskIs
  <2> HIDE DEF q, m, i, v
  <2>4. /\ q.buf # <<>> /\ q.senders = <<>> => Shape(Taken(q), m)
        /\ q.buf = <<>> /\ q.senders = <<>> /\ ~q.closed => Shape(Parked(q, i), m)
    BY <2>1, ShapeOps
  <2>5. /\ q.buf # <<>> /\ q.senders # <<>> => Shape(Refilled(q, v), m)
        /\ q.buf = <<>> /\ q.senders # <<>> => Shape(Handed(q, v), m)
    BY <2>1, <2>3, ShapeOps, Zenon
  <2> QED BY <1>1, <1>2, <2>2, <2>4, <2>5, Zenon DEF m
<1>5. ASSUME NEW w \in Workers, NEW c \in Chans, Close(w, c) PROVE ChannelShape'
  <2>1. chan' = [chan EXCEPT ![c] = Shut(chan[c])]
    BY <1>0, <1>5, CloseIs
  <2>2. Shape(Shut(chan[c]), Cap[c])
    BY <1>0, ShapeOps
  <2> QED BY <1>1, <2>1, <2>2, Zenon
<1>6. Nested \subseteq BOOLEAN
  BY Zenon DEF Nested
<1> QED BY <1>2, <1>3, <1>4, <1>5, <1>6, ChanSteps, Zenon

\* Nobody waits on a channel that could serve them, a ring never holds more than its
\* size and a closed channel has no waiters: in every world, for every program.
THEOREM ChannelShapeHolds == Spec => []ChannelShape
<1>1. Init => ChannelShape
  <2> SUFFICES ASSUME Init, NEW c \in Chans PROVE Shape(chan[c], Cap[c])
    BY DEF ChannelShape, Shape
  <2>1. /\ chan[c].receivers = <<>> /\ chan[c].senders = <<>> /\ chan[c].buf = <<>>
        /\ chan[c].closed = FALSE
    BY DEF Init
  <2>2. Cap[c] \in Nat /\ Len(<<>>) = 0
    BY TasksAssumption
  <2> QED BY <2>1, <2>2 DEF Shape
<1>2. TypeOK /\ ChannelShape /\ [Next]_vars => ChannelShape'
  BY ShapeStep
<1> QED BY <1>1, <1>2, TypeCorrect, PTL DEF Spec

-----------------------------------------------------------------------------
(* The steps that leave the channels alone *)

\* coco_g_finish: a waiter that it ends is the main task.
LEMMA FinishStays ==
  ASSUME TypeOK, NEW T \in [Ids -> Task], NEW ti \in Used, NEW tag \in Tags,
         NEW L \in [Workers -> {"loop", "wait", "woken", "out"}], Finish(L, T, ti, Status(tag, 0)),
         ti = Main \/ \A o \in Sides : ~Listed(T, nthreads, main_done, ti, o)
  PROVE  /\ Stays(T, th', nthreads, nthreads, main_done, main_done') /\ Calm(T, th', nthreads)
<1> DEFINE s == Status(tag, 0)
<1>0. s \in Statuses /\ ti \in Ids /\ \A i \in 0 .. nthreads - 1 : i \in Ids
  BY StatusIs, UsedIs DEF Used
<1> HIDE DEF s
<1>1. /\ th'[ti].state = "done" /\ th'[ti].block = "none"
      /\ th'[ti].send = T[ti].send /\ th'[ti].resume = T[ti].resume
      /\ \A i \in Ids \ {ti} : i \notin Awaiting(T, ti) => th'[i] = T[i]
      /\ main_done' = (main_done \/ ti = Main)
  BY <1>0, FinishIs DEF s
<1>2. \A i \in Awaiting(T, ti) : T[i].state = "blocked" /\ T[i].block = "await"
  BY DEF Awaiting
<1>3. ASSUME NEW i \in Ids, NEW o \in Sides, Listed(T, nthreads, main_done, i, o)
      PROVE  Listed(th', nthreads, main_done', i, o) /\ th'[i].send = T[i].send
  <2>1. CASE i = ti
    <3>1. i = Main /\ main_done'
      BY <1>1, <1>3, <2>1, Zenon
    <3> QED BY <1>1, <1>3, <2>1, <3>1, Zenon DEF Listed
  <2>2. CASE i # ti
    <3>1. i \notin Awaiting(T, ti)
      BY <1>2, <1>3 DEF Listed, Sides
    <3>2. th'[i] = T[i] /\ (main_done => main_done')
      BY <1>1, <2>2, <3>1, Zenon
    <3> QED BY <1>3, <3>2 DEF Listed
  <2> QED BY <2>1, <2>2, Zenon
<1>4. Calm(T, th', nthreads)
  <2> SUFFICES ASSUME NEW i \in 0 .. nthreads - 1, T[i].state = "ready"
               PROVE  th'[i].resume = T[i].resume
    BY DEF Calm
  <2>1. CASE i = ti
    BY <1>1, <2>1
  <2>2. CASE i # ti
    BY <1>0, <1>1, <1>2, <2>2, Zenon
  <2> QED BY <2>1, <2>2
<1> QED BY <1>3, <1>4 DEF Stays

\* coco_g_worker_loop leaves the channels and their waiters alone.
LEMMA LoopQuiet ==
  ASSUME ListInv, NEW w \in Workers, LoopStep(w)
  PROVE  Quiet
<1>0. /\ EngineInv /\ TypeOK /\ th \in [Ids -> Task] /\ Main \in Ids
      /\ lp \in [Workers -> {"loop", "wait", "woken", "out"}]
      /\ "deadlock" \in Tags
  BY Constants, Zenon DEF ListInv, EngineInv, TypeOK, Tags
<1>1. CASE LoopPick(w)
  <2> DEFINE t == Pick(th, w)
             x == Applied(th[t])
             s == frames[w]
  <2>1. /\ t \in Used /\ t \in Ids /\ th[t].state = "ready"
        /\ th' = [th EXCEPT ![t] = x] /\ s = <<>>
        /\ frames' = [frames EXCEPT ![w] = Append(s, Frame(t, "engine", None))]
        /\ nthreads' = nthreads /\ main_done' = main_done
    BY <1>0, <1>1, LoopPickIs, Zenon DEF LoopPick
  <2>2. x \in Task /\ x.resume = NoStatus
    BY <1>0, <2>1, AppliedIs
  <2> HIDE DEF x, t
  <2>3. Sets(th, th', t, x)
    BY <1>0, <2>1, <2>2, SetsOne, Zenon
  <2>4. Stays(th, th', nthreads, nthreads', main_done, main_done') /\ Calm(th, th', nthreads)
    BY <1>0, <2>1, <2>2, <2>3, QuietOne, Zenon
  <2>5. /\ frames'[w] = <<Frame(t, "engine", None)>>
        /\ \A v \in Workers \ {w} : frames'[v] = frames[v]
    BY <1>0, <2>1 DEF TypeOK
  <2>6. Len(frames'[w]) = 1 /\ frames'[w][1].task = t
    BY <2>5 DEF Frame
  <2>7. Levels(th', frames, frames')
    <3> SUFFICES ASSUME NEW v \in Workers, NEW k \in 1 .. Len(frames'[v])
                 PROVE  \/ k \in 1 .. Len(frames[v]) /\ frames'[v][k] = frames[v][k]
                        \/ th'[frames'[v][k].task].resume = NoStatus
      BY DEF Levels
    <3>1. CASE v # w
      BY <2>5, <3>1
    <3>2. CASE v = w
      BY <2>2, <2>3, <2>6, <3>2 DEF Sets
    <3> QED BY <3>1, <3>2
  <2> QED BY <2>4, <2>7 DEF Quiet
<1>2. CASE LoopDeadlock(w)
  <2>1. /\ Finish([lp EXCEPT ![w] = "out"], th, Main, Status("deadlock", 0))
        /\ [lp EXCEPT ![w] = "out"] \in [Workers -> {"loop", "wait", "woken", "out"}]
        /\ frames' = frames /\ nthreads' = nthreads
    BY <1>0, <1>2, LoopDeadlockIs, Zenon DEF LoopDeadlock
  <2>2. Main \in Used
    BY <1>0, <1>2, Constants DEF LoopDeadlock, Dead, Used, TypeOK, Main
  <2>3. Stays(th, th', nthreads, nthreads, main_done, main_done') /\ Calm(th, th', nthreads)
    BY <1>0, <2>1, <2>2, FinishStays, Zenon
  <2> QED BY <2>1, <2>3, LevelsSame DEF Quiet
<1>3. CASE LoopLeave(w) \/ LoopIdle(w) \/ LoopWoken(w)
  <2>1. th' = th /\ frames' = frames /\ nthreads' = nthreads /\ main_done' = main_done
    BY <1>3 DEF LoopLeave, LoopIdle, LoopWoken
  <2> QED BY <2>1, LevelsSame DEF Quiet, Stays, Calm
<1> QED BY <1>1, <1>2, <1>3, Zenon DEF LoopStep

\* So does the end of coco_g_run: a task that blocked on a channel was given its state with
\* its block, and one that was answered first is made ready.
LEMMA RunQuiet ==
  ASSUME ListInv, NEW w \in Workers, RunStep(w)
  PROVE  Quiet
<1>0. /\ EngineInv /\ TypeOK /\ th \in [Ids -> Task] /\ Main \in Ids
      /\ lp \in [Workers -> {"loop", "wait", "woken", "out"}]
      /\ {"ok", "error", "failed", "deadlock"} \subseteq Tags
  BY Constants, Zenon DEF ListInv, EngineInv, TypeOK, Tags
<1> DEFINE c == Cur(w)
           t == th[c]
<1>1. ASSUME Inside(w) PROVE c \in Used /\ c \in Ids /\ t \in Task
  BY <1>0, <1>1, TopFits, Zenon
<1>2. ASSUME Inside(w), Top(w).at = "engine" PROVE t.state = "ready"
  BY <1>0, <1>2, TopFits, Zenon
<1>3. CASE Quantum(w)
  <2> DEFINE x == Mark(t, "ready", "none")
  <2>1. /\ Inside(w) /\ Top(w).at = "engine" /\ th' = [th EXCEPT ![c] = x] /\ frames' = Pop(w)
        /\ nthreads' = nthreads /\ main_done' = main_done
    BY <1>0, <1>3, QuantumIs, Zenon DEF Quantum
  <2>2. x \in Task /\ x.resume = t.resume
    <3> HIDE DEF t
    <3>1. t \in Task
      BY <1>1, <2>1
    <3> QED BY <3>1, Names, MarkIs
  <2> HIDE DEF x, c
  <2>3. Sets(th, th', c, x)
    BY <1>0, <1>1, <2>1, <2>2, SetsOne, Zenon
  <2>4. Stays(th, th', nthreads, nthreads', main_done, main_done') /\ Calm(th, th', nthreads)
    BY <1>0, <1>1, <1>2, <2>1, <2>2, <2>3, QuietOne, Zenon
  <2> QED BY <1>0, <2>1, <2>4, LevelsPop, Zenon DEF Quiet
<1>4. CASE RunFail(w)
  <2>1. /\ Inside(w) /\ th' = th /\ frames' = Stand(w, "unwind", None)
        /\ nthreads' = nthreads /\ main_done' = main_done
    BY <1>0, <1>4, RunFailIs, Zenon DEF RunFail
  <2>2. Levels(th', frames, frames')
    BY <1>0, <2>1, LevelsUnwind, Zenon
  <2> QED BY <2>1, <2>2 DEF Quiet, Stays, Calm
<1>5. ASSUME NEW tag \in {"ok", "error"}, RunFinish(w, tag) PROVE Quiet
  <2>1. /\ Inside(w) /\ Top(w).at = "engine" /\ Finish(lp, th, c, Status(tag, 0)) /\ tag \in Tags
        /\ frames' = Pop(w) /\ nthreads' = nthreads
    BY <1>0, <1>5, RunFinishIs, Zenon DEF RunFinish
  <2>2. c \in Used /\ t.state = "ready"
    BY <1>1, <1>2, <2>1, Zenon
  <2>3. \A o \in Sides : ~Listed(th, nthreads, main_done, c, o)
    BY <2>2 DEF Listed
  <2> HIDE DEF c
  <2>4. Stays(th, th', nthreads, nthreads, main_done, main_done') /\ Calm(th, th', nthreads)
    BY <1>0, <2>1, <2>2, <2>3, FinishStays, SMTT(30)
  <2> QED BY <1>0, <2>1, <2>4, LevelsPop, Zenon DEF Quiet
<1>6. CASE RunStop(w)
  <2> DEFINE b == Mark(t, "blocked", t.block)
             r == Mark(t, "ready", "none")
             B == [th EXCEPT ![c] = b]
  <2>1. /\ Inside(w) /\ B \in [Ids -> Task] /\ frames' = Pop(w) /\ nthreads' = nthreads
        /\ \/ th' = th /\ main_done' = main_done
           \/ t.block = "yield" /\ th' = [th EXCEPT ![c] = r] /\ main_done' = main_done
           \/ /\ t.block \notin {"yield", "none"}
              /\ Dead(B, frames) /\ Finish(lp, B, Main, Status("deadlock", 0))
           \/ t.block \notin {"yield", "none"} /\ th' = B /\ main_done' = main_done
           \/ t.block = "none" /\ Finish(lp, th, c, Status("failed", 0))
    BY <1>0, <1>6, RunStopIs, Zenon DEF RunStop
  <2>2. c \in Used /\ c \in Ids /\ t \in Task /\ \A i \in 0 .. nthreads - 1 : i \in Ids
    BY <1>0, <1>1, <2>1, UsedIs, Zenon DEF Used
  <2>3. /\ b \in Task /\ b.state = "blocked" /\ b.block = t.block /\ b.resume = t.resume
        /\ b.send = t.send /\ r \in Task /\ r.resume = t.resume
    <3> HIDE DEF t
    <3>1. /\ b \in Task /\ b.state = "blocked" /\ b.block = t.block /\ b.resume = t.resume
          /\ b.send = t.send
      BY <2>2, BlockedIs
    <3>2. r \in Task /\ r.resume = t.resume
      BY <2>2, Names, MarkIs
    <3> QED BY <3>1, <3>2, Zenon
  <2> HIDE DEF b, r
  <2>4. Sets(th, B, c, b)
    BY <1>0, <2>2, <2>3, SetsOne, Zenon
  <2> HIDE DEF B
  <2>5. Levels(th', frames, frames')
    BY <1>0, <2>1, LevelsPop, Zenon
  <2>6. t.block \notin {"yield", "none"} =>
          Stays(th, B, nthreads, nthreads, main_done, main_done) /\ Calm(th, B, nthreads)
    BY <2>2, <2>3, <2>4, Zenon DEF Stays, Calm, Listed, Sets
  <2>7. ASSUME t.block = "yield", th' = [th EXCEPT ![c] = r], main_done' = main_done PROVE Quiet
    <3> HIDE DEF c
    <3>1. Sets(th, th', c, r)
      BY <1>0, <2>2, <2>3, <2>7, SetsOne, Zenon
    <3>2. Stays(th, th', nthreads, nthreads', main_done, main_done')
      BY <2>1, <2>2, <2>7, <3>1, Zenon DEF Stays, Listed, Sets, Sides
    <3>3. Calm(th, th', nthreads)
      BY <2>2, <2>3, <3>1, Zenon DEF Calm, Sets
    <3> QED BY <2>5, <3>2, <3>3, Zenon DEF Quiet
  <2>8. ASSUME t.block \notin {"yield", "none"}, Dead(B, frames),
               Finish(lp, B, Main, Status("deadlock", 0))
        PROVE  Quiet
    <3>1. Main \in Used
      BY <1>0, <2>8, Constants DEF Dead, Used, TypeOK, Main
    <3>2. Stays(B, th', nthreads, nthreads, main_done, main_done') /\ Calm(B, th', nthreads)
      BY <1>0, <2>1, <2>8, <3>1, FinishStays, Zenon
    <3>3. Stays(th, th', nthreads, nthreads, main_done, main_done')
      BY <2>6, <2>8, <3>2, Zenon DEF Stays
    <3>4. Calm(th, th', nthreads)
      <4> SUFFICES ASSUME NEW i \in 0 .. nthreads - 1, th[i].state = "ready"
                   PROVE  th'[i].resume \in {th[i].resume, NoStatus}
        BY DEF Calm
      <4>1. CASE i = c
        <5>1. t.block # "await" /\ B[c] = b
          BY <1>0, <2>2, <2>4, <4>1, Zenon DEF EngineInv, Good, AwaitOK, Sets, Used
        <5>2. c \notin Awaiting(B, Main)
          BY <2>3, <5>1, Zenon DEF Awaiting
        <5>3. /\ th'[Main].resume = B[Main].resume
              /\ \A j \in Ids \ {Main} : j \notin Awaiting(B, Main) => th'[j] = B[j]
          <6> DEFINE s == Status("deadlock", 0)
          <6>1. s \in Statuses
            BY <1>0, StatusIs
          <6> HIDE DEF s
          <6> QED BY <1>0, <2>1, <2>8, <6>1, FinishIs DEF s
        <5>4. th'[c].resume = B[c].resume
          BY <2>2, <5>2, <5>3, Zenon
        <5> QED BY <2>3, <4>1, <5>1, <5>4, Zenon
      <4>2. CASE i # c
        <5>1. B[i] = th[i]
          BY <2>2, <2>4, <4>2, Zenon DEF Sets
        <5> QED BY <3>2, <5>1 DEF Calm
      <4> QED BY <4>1, <4>2
    <3> QED BY <2>1, <2>5, <3>3, <3>4, Zenon DEF Quiet
  <2>9. ASSUME t.block = "none", Finish(lp, th, c, Status("failed", 0)) PROVE Quiet
    <3>1. c = Main \/ \A o \in Sides : ~Listed(th, nthreads, main_done, c, o)
      BY <2>9 DEF Listed, Sides
    <3> HIDE DEF c
    <3>2. Stays(th, th', nthreads, nthreads, main_done, main_done') /\ Calm(th, th', nthreads)
      BY <1>0, <2>2, <2>9, <3>1, FinishStays, Zenon
    <3> QED BY <2>1, <2>5, <3>2, Zenon DEF Quiet
  <2>10. ASSUME th' = th, main_done' = main_done PROVE Quiet
    BY <2>1, <2>5, <2>10, Zenon DEF Quiet, Stays, Calm
  <2>11. ASSUME t.block \notin {"yield", "none"}, th' = B, main_done' = main_done PROVE Quiet
    BY <2>1, <2>5, <2>6, <2>11, Zenon DEF Quiet
  <2> QED BY <2>1, <2>7, <2>8, <2>9, <2>10, <2>11
<1> QED BY <1>3, <1>4, <1>5, <1>6, Zenon DEF RunStep

\* Where nothing waits inside a nested engine: the other builtins, the host.
NoNest == "nested" \notin Ops

\* So do async_go, async_yield and async_await: the caller runs, so it is on no list.
LEMMA OtherQuiet ==
  ASSUME NoNest, ListInv, NEW w \in Workers,
         Go(w) \/ Yield(w) \/ \E id \in Ids, n \in Nested : Await(w, id, n)
  PROVE  Quiet
<1>0. EngineInv /\ TypeOK /\ th \in [Ids -> Task] /\ nthreads \in Nat
  <2>1. EngineInv /\ TypeOK
    BY DEF ListInv, EngineInv
  <2>2. th \in [Ids -> Task] /\ nthreads \in Nat
    BY <2>1, CountIs, Zenon DEF TypeOK
  <2> QED BY <2>1, <2>2
<1> DEFINE c == Cur(w)
           t == th[c]
<1>1. ASSUME Inside(w), Top(w).at = "engine"
      PROVE  c \in Used /\ c \in Ids /\ t \in Task /\ t.state = "ready"
  BY <1>0, <1>1, TopFits
<1>2. CASE Go(w)
  <2> DEFINE x == NewTask(next_worker)
  <2>1. /\ th' = [th EXCEPT ![nthreads] = x] /\ nthreads \in Ids /\ nthreads' = nthreads + 1
        /\ frames' = frames /\ main_done' = main_done
    BY <1>0, <1>2, GoIs DEF Go
  <2> HIDE DEF x
  <2>2. \A i \in 0 .. nthreads - 1 : th'[i] = th[i]
    <3> TAKE i \in 0 .. nthreads - 1
    <3>1. i # nthreads /\ i \in Ids
      BY <1>0, UsedIs DEF Used
    <3> QED BY <1>0, <2>1, <3>1, Zenon
  <2>3. 0 .. nthreads - 1 \subseteq 0 .. nthreads' - 1
    BY <1>0, <2>1
  <2>4. Stays(th, th', nthreads, nthreads', main_done, main_done')
    BY <2>1, <2>2, <2>3, Zenon DEF Stays, Listed
  <2>5. Calm(th, th', nthreads)
    BY <2>2 DEF Calm
  <2> QED BY <2>1, <2>4, <2>5, LevelsSame, Zenon DEF Quiet
<1>3. CASE Yield(w)
  <2> DEFINE x == Mark(t, t.state, "yield")
  <2>1. /\ Inside(w) /\ Top(w).at = "engine" /\ th' = [th EXCEPT ![c] = x]
        /\ frames' = Stand(w, "unwind", None) /\ nthreads' = nthreads /\ main_done' = main_done
    BY <1>0, <1>3, YieldIs, Zenon DEF Yield
  <2>2. x \in Task /\ x.resume = t.resume
    <3> HIDE DEF t
    <3> QED BY <1>1, <2>1, YieldsIs, Zenon
  <2> HIDE DEF x, c
  <2>3. Sets(th, th', c, x)
    BY <1>0, <1>1, <2>1, <2>2, SetsOne, Zenon
  <2>4. Stays(th, th', nthreads, nthreads', main_done, main_done') /\ Calm(th, th', nthreads)
    BY <1>0, <1>1, <2>1, <2>2, <2>3, QuietOne, ZenonT(30)
  <2> QED BY <1>0, <2>1, <2>4, LevelsUnwind, Zenon DEF Quiet
<1>4. ASSUME NEW id \in Ids, Await(w, id, FALSE) PROVE Quiet
  <2> DEFINE x == With(t, "blocked", "await", id, t.send, t.resume)
  <2>1. /\ Inside(w) /\ Top(w).at = "engine" /\ th' = [th EXCEPT ![c] = x]
        /\ frames' = Stand(w, "unwind", None) /\ nthreads' = nthreads /\ main_done' = main_done
    BY <1>0, <1>4, AwaitIs, Zenon DEF Await
  <2>2. x \in Task /\ x.resume = t.resume
    <3> HIDE DEF t
    <3>1. t \in Task
      BY <1>1, <2>1, Zenon
    <3>2. t.send \in Nat /\ t.resume \in Statuses
      BY <3>1, TaskIs, Zenon
    <3> QED BY <3>1, <3>2, Names, WithIs, SMTT(30)
  <2> HIDE DEF x, c
  <2>3. Sets(th, th', c, x)
    BY <1>0, <1>1, <2>1, <2>2, SetsOne, Zenon
  <2>4. Stays(th, th', nthreads, nthreads', main_done, main_done') /\ Calm(th, th', nthreads)
    BY <1>0, <1>1, <2>1, <2>2, <2>3, QuietOne, Zenon
  <2> QED BY <1>0, <2>1, <2>4, LevelsUnwind, Zenon DEF Quiet
<1> QED BY <1>2, <1>3, <1>4, Zenon DEF NoNest, Nested

\* So do the host, the end of the world and a wait that returns for nothing.
LEMMA HostQuiet ==
  ASSUME ListInv, HostStep \/ Ended \/ UNCHANGED vars \/ \E w \in Workers : Spurious(w)
  PROVE  Quiet
<1>1. CASE Start
  <2>1. nthreads = 0 /\ frames' = frames
    BY <1>1 DEF Start
  <2>2. 0 .. nthreads - 1 = {}
    BY <2>1
  <2>3. Stays(th, th', nthreads, nthreads', main_done, main_done') /\ Calm(th, th', nthreads)
    BY <2>2 DEF Stays, Calm, Listed
  <2> QED BY <2>1, <2>3, LevelsSame, Zenon DEF Quiet
<1>2. CASE Stop \/ Ended \/ UNCHANGED vars \/ \E w \in Workers : Spurious(w)
  <2>1. th' = th /\ frames' = frames /\ nthreads' = nthreads /\ main_done' = main_done
    BY <1>2 DEF Stop, Ended, vars, Spurious
  <2> QED BY <2>1, LevelsSame, Zenon DEF Quiet, Stays, Calm
<1> QED BY <1>1, <1>2 DEF HostStep

\* Nobody is in await_here or wait_resume.
LEMMA NestNever ==
  ASSUME NoNest, EngineInv, NEW w \in Workers, NestStep(w)
  PROVE  FALSE
<1>1. Inside(w) /\ Top(w).at \in {"toawait", "await", "toresume", "resume"}
  BY DEF NestStep, AwaitDone, ResumeDone, NestRun, NestDeadlock, NestSleep, NotYet, Turn
<1> QED BY <1>1, TopFits, Zenon DEF NoNest

-----------------------------------------------------------------------------
(* The steps on a channel *)

\* What each update of a channel does to its two lists.
LEMMA PutsIs ==
  ASSUME NEW C \in [Chans -> Channel], NEW c \in Chans, NEW x, NEW D, D = [C EXCEPT ![c] = x],
         NEW o \in Sides, NEW s,
         IF o = "send" THEN x.senders = s /\ x.receivers = C[c].receivers
                       ELSE x.receivers = s /\ x.senders = C[c].senders
  PROVE  Puts(C, D, c, o, s)
<1> SUFFICES ASSUME NEW d \in Chans, NEW p \in Sides
             PROVE  List(D, d, p) = IF d = c /\ p = o THEN s ELSE List(C, d, p)
  BY Zenon DEF Puts
<1>1. CASE d = c
  BY <1>1 DEF List, Sides
<1>2. CASE d # c
  BY <1>2 DEF List
<1> QED BY <1>1, <1>2

\* What a step on channel c leaves of the table: the tasks on the lists afterwards are as
\* they were, but for one that it has put there.
Same(S) == SameBut(th, th', S)
Off(i) == OffAll(chan', i)

\* The first of a list gets its answer and is taken off it.
LEMMA WakeList ==
  ASSUME ListInv, EngineInv', NEW c \in Chans, NEW o \in Sides, NEW s \in Statuses, NEW i,
         List(chan, c, o) # <<>>, i = Head(List(chan, c, o)), Wakes(i, s),
         Puts(chan, chan', c, o, Tail(List(chan, c, o))),
         nthreads' = nthreads, main_done' = main_done
  PROVE  ListInv' /\ Same({i}) /\ Off(i) /\ frames' = frames
<1>0. /\ chan \in [Chans -> Channel] /\ chan' \in [Chans -> Channel] /\ th \in [Ids -> Task]
      /\ StackOK(th, frames, nthreads) /\ Answered(th, frames)
      /\ Waiters(th, chan, nthreads, main_done) /\ Apart(chan)
  BY DEF ListInv, EngineInv, TypeOK, Good
<1>1. i \in Ids /\ th' = [th EXCEPT ![i] = Woken(th[i], s)] /\ frames' = frames
  BY DEF Wakes
<1>2. Same({i})
  BY <1>0, <1>1 DEF Same, SameBut
<1>3. Waiters(th', chan', nthreads, main_done) /\ Apart(chan') /\ Off(i)
  <2> DEFINE U == th'
             D == chan'
  <2>1. /\ D \in [Chans -> Channel] /\ Puts(chan, D, c, o, Tail(List(chan, c, o)))
        /\ SameBut(th, U, {Head(List(chan, c, o))})
    BY <1>0, <1>2 DEF Same
  <2> HIDE DEF U, D
  <2>2. Waiters(U, D, nthreads, main_done) /\ Apart(D) /\ OffAll(D, Head(List(chan, c, o)))
    BY <1>0, <2>1, TakeOff, SMTT(30)
  <2> QED BY <2>2 DEF Off, U, D
<1>4. th[i].state # "ready"
  <2>1. List(chan, c, o)[1] = i /\ 1 \in 1 .. Len(List(chan, c, o))
    BY <1>0, ListIs, SeqTail, SMTT(30)
  <2>2. Listed(th, nthreads, main_done, i, o)
    BY <1>0, <2>1, Zenon DEF Waiters
  <2> QED BY <2>2 DEF Listed
<1>5. Calm(th, th', nthreads)
  <2>1. \A j \in 0 .. nthreads - 1 : j \in Ids
    BY UsedIs DEF ListInv, EngineInv, Used
  <2> QED BY <1>2, <1>4, <2>1, Zenon DEF Calm, Same, SameBut
<1>6. Answered(th', frames')
  BY <1>0, <1>1, <1>5, LevelsSame, AnsweredStep, Zenon
<1> QED BY <1>1, <1>2, <1>3, <1>6, Zenon DEF ListInv

\* The caller blocks and is put on a list.
LEMMA ParkList ==
  ASSUME ListInv, EngineInv', NEW c \in Chans, NEW o \in Sides, NEW v \in Nat, NEW w \in Workers,
         Inside(w), Top(w).at = "engine", Parks(w, o, v, FALSE),
         Puts(chan, chan', c, o, Append(List(chan, c, o), Cur(w))),
         nthreads' = nthreads, main_done' = main_done
  PROVE  /\ ListInv' /\ Same({Cur(w)}) /\ OffAll(chan, Cur(w))
         /\ th'[Cur(w)].send = v /\ Cur(w) \in Ids
<1> DEFINE i == Cur(w)
           t == th[i]
           x == With(t, "blocked", o, t.wait_on, v, t.resume)
<1>0. /\ chan \in [Chans -> Channel] /\ chan' \in [Chans -> Channel] /\ th \in [Ids -> Task]
      /\ StackOK(th, frames, nthreads) /\ Answered(th, frames) /\ TypeOK /\ EngineInv
      /\ Waiters(th, chan, nthreads, main_done) /\ Apart(chan)
  BY ZenonT(30) DEF ListInv, EngineInv, TypeOK, Good
<1>1. /\ i \in Ids /\ i \in Used /\ i \in 0 .. nthreads - 1 /\ t \in Task /\ t.state = "ready"
  BY <1>0, TopFits, Zenon
<1>2. t.resume = NoStatus
  <2>1. Len(frames[w]) \in 1 .. Len(frames[w])
    BY <1>0, TopIs, Zenon
  <2> QED BY <1>0, <2>1, Zenon DEF Answered, Top, Cur
<1>3. th' = [th EXCEPT ![i] = x] /\ frames' = Stand(w, "unwind", None)
  BY DEF Parks
<1>4. /\ x \in Task /\ x.state = "blocked" /\ x.block = o /\ x.send = v /\ x.resume = t.resume
  <2> HIDE DEF t
  <2>1. o \in {"send", "recv"}
    BY DEF Sides
  <2>2. t \in Task
    BY <1>1
  <2> QED BY <2>1, <2>2, WaitsIs
<1> HIDE DEF x, i
<1>5. Sets(th, th', i, x)
  BY <1>0, <1>1, <1>3, <1>4, SetsOne, Zenon
<1>6. Same({i}) /\ th'[i].send = v
  BY <1>4, <1>5, Zenon DEF Same, SameBut, Sets
<1>7. \A p \in Sides : ~Listed(th, nthreads, main_done, i, p)
  BY <1>1, Zenon DEF Listed
<1>8. Listed(th', nthreads, main_done, i, o)
  BY <1>1, <1>2, <1>4, <1>5, Zenon DEF Listed, Sets
<1>9. Waiters(th', chan', nthreads, main_done) /\ Apart(chan')
  <2> DEFINE U == th'
             D == chan'
  <2> HIDE DEF U, D
  <2>1. /\ D \in [Chans -> Channel] /\ Puts(chan, D, c, o, Append(List(chan, c, o), i))
        /\ \A j \in Ids \ {i} : U[j] = th[j]
        /\ Listed(U, nthreads, main_done, i, o)
    <3>1. D \in [Chans -> Channel]
      BY <1>0 DEF D
    <3>2. Puts(chan, D, c, o, Append(List(chan, c, o), i))
      BY Zenon DEF D, i
    <3>3. \A j \in Ids \ {i} : U[j] = th[j]
      BY <1>6, Zenon DEF U, Same, SameBut
    <3>4. Listed(U, nthreads, main_done, i, o)
      BY <1>8, Zenon DEF U
    <3> QED BY <3>1, <3>2, <3>3, <3>4, Zenon
  <2>2. Waiters(U, D, nthreads, main_done) /\ Apart(D)
    <3>1. Blocking(th, U, chan, D, c, o, i, nthreads, main_done)
      BY <1>0, <1>1, <1>7, <2>1, Zenon DEF Blocking
    <3> QED BY <3>1, PutOn, Zenon
  <2> QED BY <2>2 DEF U, D
<1>10. Stays(th, th', nthreads, nthreads', main_done, main_done') /\ Calm(th, th', nthreads)
  BY <1>0, <1>1, <1>4, <1>5, QuietOne, Zenon
<1>11. Answered(th', frames')
  <2>1. Levels(th', frames, frames')
    BY <1>0, <1>3, LevelsUnwind, Zenon
  <2> QED BY <1>0, <1>10, <2>1, AnsweredStep, Zenon
<1>12. OffAll(chan, i)
  BY <1>0, <1>7, Zenon DEF Waiters, OffAll
<1>13. ListInv'
  BY <1>9, <1>11 DEF ListInv
<1> QED BY <1>1, <1>6, <1>12, <1>13, Zenon DEF i

\* A step that moves messages and leaves the lists and the table alone.
LEMMA BareList ==
  ASSUME ListInv, EngineInv', th' = th, frames' = frames, nthreads' = nthreads,
         main_done' = main_done,
         \A d \in Chans : \A p \in Sides : List(chan', d, p) = List(chan, d, p)
  PROVE  ListInv'
<1>1. Waiters(th', chan', nthreads', main_done') /\ Apart(chan')
  BY DEF ListInv, Waiters, Apart
<1> QED BY <1>1 DEF ListInv

\* The senders on the lists of C keep their messages over a step.
Carried(C) ==
  \A d \in Chans : \A k \in 1 .. Len(C[d].senders) :
    th'[C[d].senders[k]].send = th[C[d].senders[k]].send

\* A step that changes one task that is on no list changes no message on a list.
LEMMA CarriedOff ==
  ASSUME NEW C \in [Chans -> Channel], NEW i, Same({i}), OffAll(C, i)
  PROVE  Carried(C)
<1> SUFFICES ASSUME NEW d \in Chans, NEW k \in 1 .. Len(C[d].senders)
             PROVE  th'[C[d].senders[k]].send = th[C[d].senders[k]].send
  BY DEF Carried
<1>1. "send" \in Sides /\ List(C, d, "send") = C[d].senders
  BY DEF Sides, List
<1>2. C[d].senders[k] \in Ids /\ C[d].senders[k] # i
  BY <1>1, ListIs DEF OffAll
<1> QED BY <1>2 DEF Same, SameBut

\* What coco_g_async_send, coco_g_async_recv and coco_g_chan_close make of channel c.
Sending(w, c) ==
  LET q == chan[c]
  IN \/ chan' = chan /\ Carried(chan)
     \/ /\ ~q.closed /\ q.receivers # <<>>
        /\ chan' = [chan EXCEPT ![c] = Passed(q)] /\ Carried(chan')
     \/ /\ ~q.closed /\ q.receivers = <<>> /\ Len(q.buf) < Cap[c]
        /\ chan' = [chan EXCEPT ![c] = Buffered(q)] /\ Carried(chan')
     \/ /\ ~q.closed /\ chan' = [chan EXCEPT ![c] = Queued(q, Cur(w))]
        /\ Carried(chan) /\ Cur(w) \in Ids /\ th'[Cur(w)].send = q.offered + 1

\* What a receive makes of its channel, and of the messages of the blocked senders.
Receiving(w, c) ==
  LET q == chan[c]
      v == th[Head(q.senders)].send
  IN \/ chan' = chan /\ Carried(chan)
     \/ /\ q.buf # <<>> /\ q.senders = <<>>
        /\ chan' = [chan EXCEPT ![c] = Taken(q)] /\ Carried(chan')
     \/ /\ q.buf # <<>> /\ q.senders # <<>>
        /\ chan' = [chan EXCEPT ![c] = Refilled(q, v)] /\ Carried(chan')
     \/ /\ q.buf = <<>> /\ q.senders # <<>>
        /\ chan' = [chan EXCEPT ![c] = Handed(q, v)] /\ Carried(chan')
     \/ chan' = [chan EXCEPT ![c] = Parked(q, Cur(w))] /\ Carried(chan)

\* coco_g_async_send
LEMMA SendList ==
  ASSUME ListInv, EngineInv', NEW w \in Workers, NEW c \in Chans, Send(w, c, FALSE)
  PROVE  ListInv' /\ Sending(w, c)
<1> DEFINE q == chan[c]
           v == q.offered + 1
           s == Status("ok", v)
<1>0. /\ chan \in [Chans -> Channel] /\ chan' \in [Chans -> Channel] /\ q \in Channel
      /\ v \in Nat /\ s \in Statuses /\ "recv" \in Sides /\ "send" \in Sides
  <2>1. chan \in [Chans -> Channel] /\ chan' \in [Chans -> Channel]
    BY Zenon DEF ListInv, EngineInv, TypeOK
  <2>2. q \in Channel /\ v \in Nat
    BY <2>1 DEF Channel
  <2>3. "ok" \in Tags
    BY DEF Tags
  <2> QED BY <2>1, <2>2, <2>3, StatusIs, Zenon DEF Sides
<1>1. /\ Inside(w) /\ Top(w).at = "engine" /\ Sent(w, c, FALSE)
      /\ nthreads' = nthreads /\ main_done' = main_done
  <2>1. TypeOK /\ FALSE \in BOOLEAN
    BY DEF ListInv, EngineInv
  <2> QED BY <2>1, SendIs, Zenon
<1>2. List(chan, c, "send") = q.senders /\ List(chan, c, "recv") = q.receivers
  BY DEF List
<1>3. ASSUME th' = th PROVE Carried(chan) /\ Carried(chan')
  BY <1>3 DEF Carried
<1>4. CASE q.closed /\ th' = th /\ frames' = frames /\ chan' = chan
  BY <1>1, <1>3, <1>4, BareList, ZenonT(30) DEF Sending
<1>5. CASE /\ ~q.closed /\ q.receivers # <<>>
           /\ Wakes(Head(q.receivers), s) /\ chan' = [chan EXCEPT ![c] = Passed(q)]
  <2> DEFINE x == Passed(q)
             i == Head(q.receivers)
  <2>1. x.senders = q.senders /\ x.receivers = Tail(q.receivers)
    BY <1>0, PassedIs, Zenon
  <2> HIDE DEF x, s
  <2>2. Puts(chan, chan', c, "recv", Tail(List(chan, c, "recv")))
    BY <1>0, <1>2, <1>5, <2>1, PutsIs, Zenon DEF x
  <2>3. ListInv' /\ Same({i}) /\ OffAll(chan', i)
    BY <1>0, <1>1, <1>2, <1>5, <2>2, WakeList, Zenon DEF Off
  <2>4. Carried(chan')
    BY <1>0, <2>3, CarriedOff
  <2> QED BY <1>5, <2>3, <2>4, Zenon DEF Sending
<1>6. CASE /\ ~q.closed /\ q.receivers = <<>> /\ Len(q.buf) < Cap[c]
           /\ th' = th /\ frames' = frames /\ chan' = [chan EXCEPT ![c] = Buffered(q)]
  <2> DEFINE x == Buffered(q)
  <2>1. x.senders = q.senders /\ x.receivers = q.receivers
    BY <1>0, BufferedIs, Zenon
  <2> HIDE DEF x, v
  <2>2. \A d \in Chans : \A p \in Sides : List(chan', d, p) = List(chan, d, p)
    BY <1>0, <1>6, <2>1, Zenon DEF List, x
  <2> QED BY <1>1, <1>3, <1>6, <2>2, BareList, Zenon DEF Sending
<1>7. CASE /\ ~q.closed /\ q.receivers = <<>> /\ Len(q.buf) >= Cap[c]
           /\ Parks(w, "send", v, FALSE) /\ chan' = [chan EXCEPT ![c] = Queued(q, Cur(w))]
  <2> DEFINE i == Cur(w)
             x == Queued(q, i)
  <2>1. x.senders = Append(q.senders, i) /\ x.receivers = q.receivers
    BY <1>0, QueuedIs
  <2> HIDE DEF x, v
  <2>2. Puts(chan, chan', c, "send", Append(List(chan, c, "send"), i))
    BY <1>0, <1>2, <1>7, <2>1, PutsIs, Zenon DEF x
  <2>3. ListInv' /\ Same({i}) /\ OffAll(chan, i) /\ i \in Ids /\ th'[i].send = v
    <3>1. PICK u \in Nat : u = v
      BY <1>0
    <3>2. /\ "send" \in Sides /\ Inside(w) /\ Top(w).at = "engine" /\ Parks(w, "send", u, FALSE)
          /\ nthreads' = nthreads /\ main_done' = main_done
      BY <1>0, <1>1, <1>7, <3>1, Zenon
    <3>3. ListInv' /\ Same({i}) /\ OffAll(chan, i) /\ th'[i].send = u
      BY <2>2, <3>1, <3>2, ParkList, ZenonT(30)
    <3>4. i \in Ids
      BY <1>1, TopFits DEF ListInv
    <3> QED BY <3>1, <3>3, <3>4, Zenon
  <2>4. Carried(chan)
    BY <1>0, <2>3, CarriedOff, Zenon
  <2> QED BY <1>7, <2>3, <2>4, Zenon DEF Sending, v
<1> QED BY <1>1, <1>4, <1>5, <1>6, <1>7, Zenon DEF Sent

\* coco_g_async_recv
LEMMA RecvList ==
  ASSUME ListInv, EngineInv', NEW w \in Workers, NEW c \in Chans, Recv(w, c, FALSE)
  PROVE  ListInv' /\ Receiving(w, c)
<1> DEFINE q == chan[c]
           h == Head(q.senders)
           v == th[h].send
           s == Status("ok", 0)
<1>0. /\ chan \in [Chans -> Channel] /\ chan' \in [Chans -> Channel] /\ q \in Channel
      /\ s \in Statuses /\ "recv" \in Sides /\ "send" \in Sides /\ 0 \in Nat
  <2>1. chan \in [Chans -> Channel] /\ chan' \in [Chans -> Channel]
    BY DEF ListInv, EngineInv, TypeOK
  <2>2. q \in Channel /\ 0 \in Nat
    BY <2>1
  <2>3. "ok" \in Tags
    BY DEF Tags
  <2> QED BY <2>1, <2>2, <2>3, StatusIs, Zenon DEF Sides
<1>1. /\ Inside(w) /\ Top(w).at = "engine" /\ Received(w, c, FALSE)
      /\ nthreads' = nthreads /\ main_done' = main_done
  <2>1. TypeOK /\ FALSE \in BOOLEAN
    BY DEF ListInv, EngineInv
  <2> QED BY <2>1, RecvIs, Zenon
<1>2. List(chan, c, "send") = q.senders /\ List(chan, c, "recv") = q.receivers
  BY DEF List
<1>3. ASSUME th' = th PROVE Carried(chan) /\ Carried(chan')
  BY <1>3 DEF Carried
<1>4. CASE /\ q.buf = <<>> /\ q.senders = <<>> /\ q.closed
           /\ th' = th /\ frames' = frames /\ chan' = chan
  BY <1>1, <1>3, <1>4, BareList, Zenon DEF Receiving
<1>5. CASE /\ q.buf # <<>> /\ q.senders = <<>>
           /\ th' = th /\ frames' = frames /\ chan' = [chan EXCEPT ![c] = Taken(q)]
  <2> DEFINE x == Taken(q)
  <2>1. x.senders = q.senders /\ x.receivers = q.receivers
    BY <1>0, TakenIs, Zenon
  <2> HIDE DEF x
  <2>2. \A d \in Chans : \A p \in Sides : List(chan', d, p) = List(chan, d, p)
    BY <1>0, <1>5, <2>1, Zenon DEF List, x
  <2> QED BY <1>1, <1>3, <1>5, <2>2, BareList, ZenonT(30) DEF Receiving
<1>6. ASSUME q.senders # <<>>, Wakes(h, s), NEW x, chan' = [chan EXCEPT ![c] = x],
             x.senders = Tail(q.senders), x.receivers = q.receivers
      PROVE  ListInv' /\ Carried(chan')
  <2> HIDE DEF s
  <2>1. Puts(chan, chan', c, "send", Tail(List(chan, c, "send")))
    BY <1>0, <1>2, <1>6, PutsIs, Zenon
  <2>2. ListInv' /\ Same({h}) /\ OffAll(chan', h)
    BY <1>0, <1>1, <1>2, <1>6, <2>1, WakeList, ZenonT(30) DEF Off
  <2> QED BY <1>0, <2>2, CarriedOff, Zenon
<1>7. CASE /\ q.buf # <<>> /\ q.senders # <<>>
           /\ Wakes(h, s) /\ chan' = [chan EXCEPT ![c] = Refilled(q, v)]
  <2> DEFINE x == Refilled(q, v)
  <2>1. x.senders = Tail(q.senders) /\ x.receivers = q.receivers
    BY <1>0, RefilledIs
  <2> HIDE DEF x
  <2>2. ListInv' /\ Carried(chan')
    BY <1>6, <1>7, <2>1, ZenonT(30) DEF x
  <2> QED BY <1>7, <2>2, Zenon DEF Receiving
<1>8. CASE /\ q.buf = <<>> /\ q.senders # <<>>
           /\ Wakes(h, s) /\ chan' = [chan EXCEPT ![c] = Handed(q, v)]
  <2> DEFINE x == Handed(q, v)
  <2>1. x.senders = Tail(q.senders) /\ x.receivers = q.receivers
    BY <1>0, HandedIs, Zenon
  <2> HIDE DEF x
  <2>2. ListInv' /\ Carried(chan')
    BY <1>6, <1>8, <2>1, Zenon DEF x
  <2> QED BY <1>8, <2>2, Zenon DEF Receiving
<1>9. CASE /\ q.buf = <<>> /\ q.senders = <<>> /\ ~q.closed
           /\ Parks(w, "recv", 0, FALSE) /\ chan' = [chan EXCEPT ![c] = Parked(q, Cur(w))]
  <2> DEFINE i == Cur(w)
             x == Parked(q, i)
  <2>1. x.senders = q.senders /\ x.receivers = Append(q.receivers, i)
    BY <1>0, ParkedIs, Zenon
  <2> HIDE DEF x
  <2>2. Puts(chan, chan', c, "recv", Append(List(chan, c, "recv"), i))
    BY <1>0, <1>2, <1>9, <2>1, PutsIs, Zenon DEF x
  <2>3. ListInv' /\ Same({i}) /\ OffAll(chan, i)
    BY <1>0, <1>1, <1>9, <2>2, ParkList, Zenon
  <2>4. Carried(chan)
    BY <1>0, <2>3, CarriedOff, Zenon
  <2> QED BY <1>9, <2>3, <2>4, Zenon DEF Receiving
<1> QED BY <1>1, <1>4, <1>5, <1>7, <1>8, <1>9, Zenon DEF Received

\* coco_g_chan_close
LEMMA CloseList ==
  ASSUME ListInv, EngineInv', NEW w \in Workers, NEW c \in Chans, Close(w, c)
  PROVE  ListInv' /\ chan' = [chan EXCEPT ![c] = Shut(chan[c])] /\ Carried(chan')
<1>0. /\ TypeOK /\ chan \in [Chans -> Channel] /\ chan' \in [Chans -> Channel]
      /\ StackOK(th, frames, nthreads) /\ Answered(th, frames)
      /\ Waiters(th, chan, nthreads, main_done) /\ Apart(chan)
      /\ \A j \in 0 .. nthreads - 1 : j \in Ids
  <2>1. TypeOK /\ Good(th, frames, nthreads, main_done) /\ TypeOK'
    BY DEF ListInv, EngineInv
  <2>2. chan \in [Chans -> Channel] /\ chan' \in [Chans -> Channel]
    BY <2>1, Zenon DEF TypeOK
  <2>3. \A j \in 0 .. nthreads - 1 : j \in Ids
    BY <2>1, UsedIs, Zenon DEF Used
  <2> QED BY <2>1, <2>2, <2>3, Zenon DEF ListInv, Good
<1>1. /\ frames' = frames /\ nthreads' = nthreads /\ main_done' = main_done
      /\ chan' = [chan EXCEPT ![c] = Shut(chan[c])]
      /\ \A j \in Ids : j \in Told(c) \/ th'[j] = th[j]
  BY <1>0, CloseIs, Zenon
<1>2. /\ \A p \in Sides : List(chan', c, p) = <<>>
      /\ \A d \in Chans \ {c} : \A p \in Sides : List(chan', d, p) = List(chan, d, p)
  <2>1. Shut(chan[c]).senders = <<>> /\ Shut(chan[c]).receivers = <<>>
    BY <1>0, ShutIs, Zenon
  <2> QED BY <1>0, <1>1, <2>1 DEF List
<1>3. Told(c) = Lists(chan, c)
  <2>1. /\ List(chan, c, "send") = chan[c].senders /\ List(chan, c, "recv") = chan[c].receivers
        /\ chan[c].senders \in Seq(Ids) /\ chan[c].receivers \in Seq(Ids)
    BY <1>0 DEF List, Channel
  <2>2. ASSUME NEW s \in Seq(Ids) PROVE Range(s) = {s[k] : k \in 1 .. Len(s)}
    BY DEF Range
  <2>3. Lists(chan, c) = {List(chan, c, "send")[k] : k \in 1 .. Len(List(chan, c, "send"))}
                    \cup {List(chan, c, "recv")[k] : k \in 1 .. Len(List(chan, c, "recv"))}
    BY Zenon DEF Lists, Sides
  <2>4. Told(c) = Range(chan[c].senders) \cup Range(chan[c].receivers)
    BY Zenon DEF Told
  <2> QED BY <2>1, <2>2, <2>3, <2>4, Zenon
<1>4. /\ Waiters(th', chan', nthreads, main_done) /\ Apart(chan')
      /\ \A j \in Told(c) : OffAll(chan', j)
  <2> DEFINE U == th'
             D == chan'
  <2>1. D \in [Chans -> Channel] /\ Emptied(chan, D, c) /\ SameBut(th, U, Lists(chan, c))
    BY <1>0, <1>1, <1>2, <1>3, Zenon DEF SameBut, Emptied
  <2> HIDE DEF U, D
  <2>2. Waiters(U, D, nthreads, main_done) /\ Apart(D) /\ \A j \in Lists(chan, c) : OffAll(D, j)
    BY <1>0, <2>1, ClearOff, Zenon
  <2> QED BY <1>3, <2>2 DEF U, D
<1>5. \A j \in Ids : th[j].state = "ready" => th'[j] = th[j]
  <2> SUFFICES ASSUME NEW j \in Told(c) PROVE th[j].state # "ready"
    BY <1>1, Zenon
  <2>1. PICK p \in Sides : \E k \in 1 .. Len(List(chan, c, p)) : List(chan, c, p)[k] = j
    BY <1>3 DEF Lists
  <2>2. Listed(th, nthreads, main_done, j, p)
    BY <1>0, <2>1, Zenon DEF Waiters
  <2> QED BY <2>2, Zenon DEF Listed
<1>6. Answered(th', frames')
  <2>1. Calm(th, th', nthreads)
    BY <1>0, <1>5, Zenon DEF Calm
  <2> QED BY <1>0, <1>1, <2>1, LevelsSame, AnsweredStep, Zenon
<1>7. Carried(chan')
  <2> SUFFICES ASSUME NEW d \in Chans, NEW k \in 1 .. Len(chan'[d].senders)
               PROVE  th'[chan'[d].senders[k]].send = th[chan'[d].senders[k]].send
    BY DEF Carried
  <2>1. "send" \in Sides /\ List(chan', d, "send") = chan'[d].senders
    BY Zenon DEF Sides, List
  <2>2. chan'[d].senders[k] \in Ids /\ chan'[d].senders[k] \notin Told(c)
    BY <1>0, <1>4, <2>1, ListIs, Zenon DEF OffAll
  <2> QED BY <1>1, <2>2, Zenon
<1> QED BY <1>1, <1>4, <1>6, <1>7 DEF ListInv

-----------------------------------------------------------------------------
(* Every step *)

\* What any step is to the channels and to the senders that wait.
Moves ==
  \/ chan' = chan /\ Carried(chan)
  \/ \E w \in Workers, c \in Chans : Sending(w, c) /\ fuel > 0 /\ fuel' = fuel - 1
  \/ \E w \in Workers, c \in Chans : Receiving(w, c)
  \/ \E c \in Chans : chan' = [chan EXCEPT ![c] = Shut(chan[c])] /\ Carried(chan')

\* Nor does a quiet step.
LEMMA QuietMoves ==
  ASSUME ListInv, Quiet, chan' = chan
  PROVE  Carried(chan)
<1> SUFFICES ASSUME NEW d \in Chans, NEW k \in 1 .. Len(chan[d].senders)
             PROVE  th'[chan[d].senders[k]].send = th[chan[d].senders[k]].send
  BY Zenon DEF Carried
<1>1. /\ "send" \in Sides /\ List(chan, d, "send") = chan[d].senders
      /\ chan \in [Chans -> Channel]
  BY Zenon DEF Sides, List, ListInv, EngineInv, TypeOK
<1>2. /\ chan[d].senders[k] \in Ids
      /\ Listed(th, nthreads, main_done, chan[d].senders[k], "send")
  BY <1>1, ListIs DEF ListInv, Waiters
<1> QED BY <1>1, <1>2, Zenon DEF Quiet, Stays

=============================================================================
