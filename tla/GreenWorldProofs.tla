-------------------------- MODULE GreenWorldProofs --------------------------
(***************************************************************************)
(* The green world as a whole: the invariants of the engines and of the    *)
(* channels together. A task is on one stack, and on it once; who is on a  *)
(* channel's list waits there; every channel is the first-in first-out     *)
(* queue that GreenChannel specifies; and a status is final.               *)
(***************************************************************************)
EXTENDS GreenTasksProofs, GreenChannelProofs, FiniteSetTheorems

\* A set without two members has at most one (the stacks a task's engine is on).
LEMMA AtMostOne ==
  ASSUME NEW S, \A x, y \in S : x = y
  PROVE  Cardinality(S) <= 1
<1>1. CASE S = {}
  BY <1>1, FS_EmptySet
<1>2. CASE S # {}
  <2>1. PICK x : S = {x}
    BY <1>2
  <2> QED BY <2>1, FS_Singleton
<1> QED BY <1>1, <1>2

\* A task is on one C stack, and on it once: coco_g_run enters only ready tasks,
\* and whoever waits inside an engine has made its task nested.
THEOREM OneEngineHolds == ASSUME NoNestedChannel PROVE Spec => []OneEngine
<1>1. ASSUME EngineInv PROVE OneEngine
  <2> SUFFICES ASSUME NEW i \in Used PROVE Cardinality(Stacked(i)) <= 1
    BY DEF OneEngine
  <2>1. ASSUME NEW p \in Stacked(i)
        PROVE  /\ p[1] \in Workers /\ p[2] \in 1 .. Len(frames[p[1]]) /\ p = <<p[1], p[2]>>
               /\ frames[p[1]][p[2]].task = i /\ th[i].worker = p[1]
    <3>1. PICK w \in Workers : p \in {w} \X DOMAIN frames[w]
      BY DEF Stacked
    <3>2. DOMAIN frames[w] = 1 .. Len(frames[w])
      BY <1>1, <3>1, SeqLen, Zenon DEF EngineInv, TypeOK
    <3>3. p[1] \in Workers /\ p[2] \in 1 .. Len(frames[p[1]]) /\ p = <<p[1], p[2]>>
      BY <3>1, <3>2
    <3>4. frames[p[1]][p[2]].task = i
      BY DEF Stacked
    <3>5. LevelFits(th, nthreads, p[1], frames[p[1]][p[2]])
      BY <1>1, <3>3, Zenon DEF EngineInv, Good, StackOK
    <3> QED BY <3>3, <3>4, <3>5, Zenon DEF LevelFits
  <2>2. ASSUME NEW p \in Stacked(i), NEW q \in Stacked(i) PROVE p = q
    <3>1. p[1] = q[1]
      BY <2>1
    <3>2. p[2] = q[2]
      BY <1>1, <2>1, <3>1, SMTT(30) DEF EngineInv, Good, StackOK
    <3> QED BY <2>1, <3>1, <3>2
  <2> QED BY <2>2, AtMostOne
<1> QED BY <1>1, EngineHolds, PTL

\* A queue without repetitions has as many members as places (a channel's list of
\* waiters).
LEMMA DistinctRange ==
  ASSUME NEW S, NEW s \in Seq(S), \A j, k \in 1 .. Len(s) : s[j] = s[k] => j = k
  PROVE  Cardinality(Range(s)) = Len(s)
<1>1. Len(s) \in Nat /\ DOMAIN s = 1 .. Len(s)
  BY SeqLen
<1>2. s \in [1 .. Len(s) -> Range(s)]
  BY <1>1 DEF Range
<1>3. s \in Bijection(1 .. Len(s), Range(s))
  BY <1>1, <1>2 DEF Bijection, Injection, Surjection, IsInjective, Range
<1> QED BY <1>1, <1>3, FS_CountingElements, Zenon DEF ExistsBijection

\* Every step keeps the lists right and moves the channels as the queue's steps do.
LEMMA ListStep ==
  ASSUME NoNest, ListInv, [Next]_vars
  PROVE  ListInv' /\ Moves
<1>1. EngineInv' /\ EngineInv /\ TypeOK
  <2>1. EngineInv /\ TypeOK /\ NoNestedChannel
    BY DEF ListInv, EngineInv, NoNest, NoNestedChannel
  <2> QED BY <2>1, EngineStep
<1>2. ASSUME chan' = chan, Quiet PROVE ListInv' /\ Moves
  BY <1>1, <1>2, QuietKeeps, QuietMoves, Zenon DEF Moves
<1>3. ASSUME NEW w \in Workers, NEW c \in Chans,
             Send(w, c, FALSE) \/ Recv(w, c, FALSE) \/ Close(w, c)
      PROVE  ListInv' /\ Moves
  <2>1. CASE Send(w, c, FALSE)
    <3>1. fuel > 0 /\ fuel' = fuel - 1
      BY <1>1, <2>1, SendIs, Zenon
    <3> QED BY <1>1, <2>1, <3>1, SendList, Zenon DEF Moves
  <2>2. CASE Recv(w, c, FALSE)
    BY <1>1, <2>2, RecvList, Zenon DEF Moves
  <2>3. CASE Close(w, c)
    BY <1>1, <2>3, CloseList, Zenon DEF Moves
  <2> QED BY <1>3, <2>1, <2>2, <2>3, Zenon
<1>4. CASE chan' # chan
  BY <1>3, <1>4, ChanSteps, Zenon DEF Nested, NoNest
<1>5. CASE chan' = chan
  <2>1. CASE HostStep \/ Ended \/ UNCHANGED vars \/ \E w \in Workers : Spurious(w)
    BY <1>2, <1>5, <2>1, HostQuiet, Zenon
  <2>2. ASSUME NEW w \in Workers, Step(w) PROVE ListInv' /\ Moves
    <3>1. CASE LoopStep(w)
      BY <1>2, <1>5, <3>1, LoopQuiet, SMTT(30)
    <3>2. CASE RunStep(w)
      BY <1>2, <1>5, <3>2, RunQuiet, SMTT(30)
    <3>3. CASE NestStep(w)
      BY <1>1, <3>3, NestNever, Zenon
    <3>4. CASE Go(w) \/ Yield(w) \/ \E id \in Ids, n \in Nested : Await(w, id, n)
      BY <1>2, <1>5, <3>4, OtherQuiet, Zenon
    <3> QED BY <1>3, <2>2, <3>1, <3>2, <3>3, <3>4, ZenonT(30) DEF Step, Builtin, Nested, NoNest
  <2> QED BY <2>1, <2>2, Zenon DEF Next
<1> QED BY <1>4, <1>5, Zenon

\* Nobody waits on a channel of a new world.
LEMMA ListInit ==
  ASSUME Init
  PROVE  ListInv
<1>1. \A c \in Chans : chan[c].senders = <<>> /\ chan[c].receivers = <<>>
  BY DEF Init
<1>2. \A c \in Chans : \A o \in Sides : 1 .. Len(List(chan, c, o)) = {}
  <2>1. 1 .. Len(<<>>) = {}
    OBVIOUS
  <2> QED BY <1>1, <2>1, Zenon DEF List
<1>3. \A w \in Workers : 1 .. Len(frames[w]) = {}
  BY DEF Init
<1> QED BY <1>2, <1>3, EngineInit DEF ListInv, Waiters, Apart, Answered

\* Who is on a channel's list is waiting there, and nowhere else, in every world where
\* no task waits inside a nested engine.
THEOREM ListsHold == ASSUME NoNest PROVE Spec => []ListInv
<1>1. ListInv /\ [Next]_vars => ListInv'
  BY ListStep
<1> QED BY <1>1, ListInit, PTL DEF Spec

\* coco_g_async_send and coco_g_async_recv answer the head of a list without looking at
\* it: while the main task runs it is always a task that waits there for an answer, and
\* no task is on a list twice.
THEOREM WaitersWaitHolds == ASSUME NoNest PROVE Spec => []WaitersWait
<1>1. ASSUME ListInv, ~main_done, NEW c \in Chans, NEW o \in Sides, NEW s, s = List(chan, c, o)
      PROVE  /\ \A i \in Range(s) :
                  th[i].state \in {"blocked", "nested"} /\ th[i].block = o /\ th[i].resume = NoStatus
             /\ Cardinality(Range(s)) = Len(s)
  <2>1. /\ chan \in [Chans -> Channel] /\ Waiters(th, chan, nthreads, main_done) /\ Apart(chan)
    BY <1>1 DEF ListInv, EngineInv, TypeOK
  <2>2. s \in Seq(Ids) /\ Range(s) = {s[k] : k \in 1 .. Len(s)}
    <3>1. s \in Seq(Ids)
      BY <1>1, <2>1, ListIs, Zenon
    <3> QED BY <3>1 DEF Range
  <2>3. \A j, k \in 1 .. Len(s) : s[j] = s[k] => j = k
    BY <1>1, <2>1 DEF Apart
  <2>4. \A k \in 1 .. Len(s) : Listed(th, nthreads, main_done, s[k], o)
    BY <1>1, <2>1, Zenon DEF Waiters
  <2>5. \A i \in Range(s) : Listed(th, nthreads, main_done, i, o)
    BY <2>2, <2>4, Zenon
  <2> QED BY <1>1, <2>2, <2>3, <2>5, DistinctRange, Zenon DEF Listed
<1>2. ListInv => WaitersWait
  <2> SUFFICES ASSUME ListInv, ~main_done, NEW c \in Chans
               PROVE  /\ \A i \in Range(chan[c].senders) :
                           /\ th[i].state \in {"blocked", "nested"} /\ th[i].block = "send"
                           /\ th[i].resume = NoStatus
                      /\ \A i \in Range(chan[c].receivers) :
                           /\ th[i].state \in {"blocked", "nested"} /\ th[i].block = "recv"
                           /\ th[i].resume = NoStatus
                      /\ Cardinality(Range(chan[c].senders)) = Len(chan[c].senders)
                      /\ Cardinality(Range(chan[c].receivers)) = Len(chan[c].receivers)
    BY DEF WaitersWait
  <2>1. /\ "send" \in Sides /\ chan[c].senders = List(chan, c, "send")
        /\ "recv" \in Sides /\ chan[c].receivers = List(chan, c, "recv")
    BY DEF Sides, List
  <2> QED BY <1>1, <2>1
<1> QED BY <1>2, ListsHold, PTL

-----------------------------------------------------------------------------
(* Every channel keeps its promise *)

\* The messages still to be offered are no more than the operations left.
Budget == \A c \in Chans : chan[c].offered + fuel <= MaxOps

\* Only a send offers a message, and it uses the fuel up.
LEMMA FuelStep ==
  ASSUME TypeOK, [Next]_vars
  PROVE  fuel' <= fuel
<1>0. fuel \in Nat
  BY TasksAssumption DEF TypeOK
<1>1. fuel' = fuel \/ fuel' = fuel - 1
  <2>1. CASE HostStep \/ Ended \/ UNCHANGED vars
    BY <2>1 DEF HostStep, Start, Stop, Ended, vars
  <2>2. ASSUME NEW w \in Workers, Step(w) \/ Spurious(w) PROVE fuel' = fuel \/ fuel' = fuel - 1
    <3>1. CASE LoopStep(w) \/ Spurious(w)
      BY <3>1, Zenon DEF LoopStep, LoopPick, LoopLeave, LoopDeadlock, LoopIdle, LoopWoken, Spurious
    <3>2. CASE RunStep(w)
      BY <3>2, Zenon DEF RunStep, Quantum, RunFail, RunStop, RunFinish
    <3>3. CASE NestStep(w)
      BY <3>3 DEF NestStep, AwaitDone, ResumeDone, NestRun, NestDeadlock, NestSleep, GoOn
    <3>4. CASE Builtin(w)
      BY <3>4, ZenonT(30) DEF Builtin, Go, Yield, Await, Send, Recv, Close, Does
    <3> QED BY <2>2, <3>1, <3>2, <3>3, <3>4, Zenon DEF Step
  <2> QED BY <2>1, <2>2, Zenon DEF Next
<1> QED BY <1>0, <1>1

\* Every step of the world is, to every channel, a step of its promise.
Promises ==
  \A c \in Chans : Promised(Cap[c], th, chan[c], th', chan'[c])

\* A step on one channel is no step on the others.
LEMMA Elsewhere ==
  ASSUME TypeOK, NEW c \in Chans, NEW x, chan' = [chan EXCEPT ![c] = x],
         Carried(chan) \/ Carried(chan'), Promised(Cap[c], th, chan[c], th', x)
  PROVE  Promises
<1> SUFFICES ASSUME NEW d \in Chans PROVE Promised(Cap[d], th, chan[d], th', chan'[d])
  BY DEF Promises
<1>1. chan \in [Chans -> Channel] /\ th \in [Ids -> Task]
  BY DEF TypeOK
<1>2. CASE d = c
  BY <1>1, <1>2, Zenon
<1>3. CASE d # c
  <2>1. chan'[d] = chan[d]
    BY <1>1, <1>3, Zenon
  <2>2. (Carried(chan') => Keep(th, th', chan'[d].senders)) /\ (Carried(chan) => Keep(th, th', chan[d].senders))
    BY Zenon DEF Keep, Carried
  <2>3. Keep(th, th', chan[d].senders)
    BY <2>1, <2>2, Zenon
  <2> QED BY <1>1, <2>1, <2>3, StayPromise, Zenon
<1> QED BY <1>2, <1>3, Zenon

\* Each step is, for each channel, a step of the queue it promises to be, or none.
LEMMA PromiseStep ==
  ASSUME TypeOK, TypeOK', ChannelShape, Budget, Moves
  PROVE  Promises
<1>0. /\ chan \in [Chans -> Channel] /\ chan' \in [Chans -> Channel]
      /\ th \in [Ids -> Task] /\ th' \in [Ids -> Task]
      /\ Cap \in [Chans -> Nat] /\ \A c \in Chans : Shape(chan[c], Cap[c])
      /\ fuel \in Nat /\ MaxOps \in Nat
  BY TasksAssumption, SMTT(30) DEF TypeOK, ChannelShape, Shape
<1>1. CASE chan' = chan /\ Carried(chan)
  <2> SUFFICES ASSUME NEW d \in Chans PROVE Promised(Cap[d], th, chan[d], th', chan'[d])
    BY DEF Promises
  <2>1. Keep(th, th', chan[d].senders)
    BY <1>1 DEF Keep, Carried
  <2> QED BY <1>0, <1>1, <2>1, StayPromise, Zenon
<1>2. ASSUME NEW w \in Workers, NEW c \in Chans, Sending(w, c), fuel > 0 PROVE Promises
  <2> DEFINE q == chan[c]
             n == Cap[c]
             i == Cur(w)
  <2>1. q \in Channel /\ n \in Nat /\ Shape(q, n) /\ q.offered + 1 \in 1 .. MaxOps
    <3>1. q \in Channel /\ q.offered \in Nat /\ q.offered + fuel <= MaxOps
      BY <1>0, ChannelIs, Zenon DEF Budget
    <3> QED BY <1>0, <1>2, <3>1
  <2>2. Carried(chan) => Keep(th, th', q.senders)
    BY DEF Keep, Carried
  <2>3. \/ chan' = chan /\ Carried(chan)
        \/ /\ ~q.closed /\ q.receivers # <<>>
           /\ chan' = [chan EXCEPT ![c] = Passed(q)] /\ Carried(chan')
        \/ /\ ~q.closed /\ q.receivers = <<>> /\ Len(q.buf) < n
           /\ chan' = [chan EXCEPT ![c] = Buffered(q)] /\ Carried(chan')
        \/ /\ ~q.closed /\ chan' = [chan EXCEPT ![c] = Queued(q, i)]
           /\ i \in Ids /\ Carried(chan) /\ th'[i].send = q.offered + 1
    BY <1>2 DEF Sending
  <2> HIDE DEF q, n, i
  <2>4. ASSUME ~q.closed, q.receivers # <<>> PROVE Promised(n, th, q, th', Passed(q))
    BY <1>0, <2>1, <2>4, PassPromise, Zenon
  <2>5. ASSUME ~q.closed, Len(q.buf) < n, Buffered(q) \in Channel
        PROVE  Promised(n, th, q, th', Buffered(q))
    BY <1>0, <2>1, <2>5, BufferPromise, Zenon
  <2>6. ASSUME ~q.closed, Keep(th, th', q.senders), i \in Ids, th'[i].send = q.offered + 1
        PROVE  Promised(n, th, q, th', Queued(q, i))
    BY <1>0, <2>1, <2>6, QueuePromise, Zenon
  <2>7. \A x : chan' = [chan EXCEPT ![c] = x] => x \in Channel
    BY <1>0, Zenon
  <2> QED BY <1>1, <2>2, <2>3, <2>4, <2>5, <2>6, <2>7, Elsewhere, ZenonT(30) DEF q, n
<1>3. ASSUME NEW w \in Workers, NEW c \in Chans, Receiving(w, c) PROVE Promises
  <2> DEFINE q == chan[c]
             n == Cap[c]
             v == th[Head(q.senders)].send
             i == Cur(w)
  <2>1. q \in Channel /\ \A x : chan' = [chan EXCEPT ![c] = x] => x \in Channel /\ x = chan'[c]
    BY <1>0, Zenon
  <2>2. Carried(chan) => Keep(th, th', q.senders)
    BY DEF Keep, Carried
  <2>3. Carried(chan') => Keep(th, th', chan'[c].senders)
    BY DEF Keep, Carried
  <2>4. \/ chan' = chan /\ Carried(chan)
        \/ q.buf # <<>> /\ chan' = [chan EXCEPT ![c] = Taken(q)] /\ Carried(chan')
        \/ /\ q.buf # <<>> /\ q.senders # <<>>
           /\ chan' = [chan EXCEPT ![c] = Refilled(q, v)] /\ Carried(chan')
        \/ /\ q.buf = <<>> /\ q.senders # <<>>
           /\ chan' = [chan EXCEPT ![c] = Handed(q, v)] /\ Carried(chan')
        \/ chan' = [chan EXCEPT ![c] = Parked(q, i)] /\ Carried(chan)
    BY <1>3 DEF Receiving
  <2> HIDE DEF q, n, i
  <2>5. CASE q.buf # <<>> /\ chan' = [chan EXCEPT ![c] = Taken(q)] /\ Carried(chan')
    <3>1. Keep(th, th', q.senders)
      BY <2>1, <2>3, <2>5, TakenIs, ZenonT(30)
    <3>2. Promised(n, th, q, th', Taken(q))
      BY <1>0, <2>1, <2>5, <3>1, TakePromise, SMTT(30)
    <3> QED BY <2>5, <3>2, Elsewhere, Zenon DEF q, n
  <2>6. CASE /\ q.buf # <<>> /\ q.senders # <<>>
             /\ chan' = [chan EXCEPT ![c] = Refilled(q, v)] /\ Carried(chan')
    <3>1. Keep(th, th', Tail(q.senders))
      <4> HIDE DEF v
      <4> QED BY <2>1, <2>3, <2>6, RefilledIs, Zenon
    <3>2. Promised(n, th, q, th', Refilled(q, v))
      BY <1>0, <2>1, <2>6, <3>1, RefillPromise, Zenon
    <3> HIDE DEF v
    <3> QED BY <2>6, <3>2, Elsewhere, Zenon DEF q, n
  <2>7. CASE /\ q.buf = <<>> /\ q.senders # <<>>
             /\ chan' = [chan EXCEPT ![c] = Handed(q, v)] /\ Carried(chan')
    <3>1. Keep(th, th', Tail(q.senders))
      <4> HIDE DEF v
      <4> QED BY <2>1, <2>3, <2>7, HandedIs, Zenon
    <3>2. Handed(q, v) \in Channel
      <4> HIDE DEF v
      <4> QED BY <2>1, <2>7, Zenon
    <3>3. Promised(n, th, q, th', Handed(q, v))
      BY <1>0, <2>1, <2>7, <3>1, <3>2, HandPromise, Zenon
    <3> HIDE DEF v
    <3> QED BY <2>7, <3>3, Elsewhere, Zenon DEF q, n
  <2>8. CASE chan' = [chan EXCEPT ![c] = Parked(q, i)] /\ Carried(chan)
    <3> DEFINE x == Parked(q, i)
    <3>1. x.buf = q.buf /\ x.senders = q.senders /\ x.got = q.got /\ x.closed = q.closed
      BY <2>1, ParkedIs
    <3> HIDE DEF x
    <3>2. Promised(n, th, q, th', x)
      BY <1>0, <2>1, <2>2, <2>8, <3>1, StayPromise, Zenon
    <3> QED BY <2>8, <3>2, Elsewhere, Zenon DEF q, n, x
  <2> QED BY <1>1, <2>4, <2>5, <2>6, <2>7, <2>8, Zenon
<1>4. ASSUME NEW c \in Chans, chan' = [chan EXCEPT ![c] = Shut(chan[c])], Carried(chan')
      PROVE  Promises
  <2> DEFINE q == chan[c]
             n == Cap[c]
  <2>1. q \in Channel /\ n \in Nat /\ Shape(q, n) /\ Shut(q) \in Channel
    BY <1>0, <1>4, Zenon
  <2> HIDE DEF q, n
  <2>2. Promised(n, th, q, th', Shut(q))
    BY <1>0, <2>1, ClosePromise, Zenon
  <2> QED BY <1>4, <2>2, Elsewhere, Zenon DEF q, n
<1> QED BY <1>1, <1>2, <1>3, <1>4, SMTT(30) DEF Moves

\* In Promised's terms a step of Promise(c) is a step of the channel.
LEMMA PromisedIs ==
  ASSUME NEW c \in Chans, Promised(Cap[c], th, chan[c], th', chan'[c])
  PROVE  Promise(c)!Next \/ UNCHANGED Promise(c)!vars
<1>1. Pending(c) = Held(th, chan[c]) /\ Pending(c)' = Held(th', chan'[c])
  BY Zenon DEF Pending, Held, Msgs
<1> DEFINE p == Held(th, chan[c])
           r == Held(th', chan'[c])
<1> HIDE DEF p, r
<1>2. /\ Promise(c)!Next <=>
           \/ \E v \in 1 .. MaxOps :
                \/ /\ ~chan[c].closed /\ r = Append(p, v)
                   /\ chan'[c].got = chan[c].got /\ chan'[c].closed = chan[c].closed
                \/ /\ ~chan[c].closed /\ p = <<>> /\ chan'[c].got = Append(chan[c].got, v)
                   /\ r = p /\ chan'[c].closed = chan[c].closed
           \/ /\ p # <<>> /\ chan'[c].got = Append(chan[c].got, Head(p)) /\ r = Tail(p)
              /\ chan'[c].closed = chan[c].closed
           \/ /\ chan'[c].closed = TRUE /\ chan'[c].got = chan[c].got
              /\ r = IF Len(p) > Cap[c] THEN SubSeq(p, 1, Cap[c]) ELSE p
      /\ UNCHANGED Promise(c)!vars <=>
           r = p /\ chan'[c].got = chan[c].got /\ chan'[c].closed = chan[c].closed
  BY <1>1, Zenon DEF p, r, Promise!Next, Promise!Offer, Promise!Pass, Promise!Take, Promise!Close, Promise!vars
<1>3. Promised(Cap[c], th, chan[c], th', chan'[c]) <=>
           \/ \E v \in 1 .. MaxOps : /\ ~chan[c].closed /\ r = Append(p, v)
                /\ chan'[c].got = chan[c].got /\ chan'[c].closed = chan[c].closed
           \/ \E v \in 1 .. MaxOps : /\ ~chan[c].closed /\ p = <<>>
                /\ chan'[c].got = Append(chan[c].got, v) /\ r = p /\ chan'[c].closed = chan[c].closed
           \/ /\ p # <<>> /\ chan'[c].got = Append(chan[c].got, Head(p)) /\ r = Tail(p)
              /\ chan'[c].closed = chan[c].closed
           \/ /\ chan'[c].closed = TRUE /\ chan'[c].got = chan[c].got
              /\ r = IF Len(p) > Cap[c] THEN SubSeq(p, 1, Cap[c]) ELSE p
           \/ r = p /\ chan'[c].got = chan[c].got /\ chan'[c].closed = chan[c].closed
  BY DEF Promised, p, r
<1> QED BY <1>2, <1>3, Zenon

\* The messages offered and the fuel left never exceed the bound of the program.
LEMMA BudgetStep ==
  ASSUME TypeOK, TypeOK', Budget, Moves, fuel' <= fuel
  PROVE  Budget'
<1>0. /\ chan \in [Chans -> Channel] /\ chan' \in [Chans -> Channel]
      /\ fuel \in Nat /\ fuel' \in Nat /\ MaxOps \in Nat
      /\ \A c \in Chans : chan[c].offered \in Nat /\ chan'[c].offered \in Nat
  <2>1. /\ chan \in [Chans -> Channel] /\ chan' \in [Chans -> Channel]
        /\ fuel \in Nat /\ fuel' \in Nat /\ MaxOps \in Nat
    BY TasksAssumption DEF TypeOK
  <2> QED BY <2>1, ChannelIs, Zenon
<1>1. ASSUME NEW c \in Chans, NEW x, chan' = [chan EXCEPT ![c] = x],
             \/ x.offered = chan[c].offered
             \/ x.offered = chan[c].offered + 1 /\ fuel > 0 /\ fuel' = fuel - 1
      PROVE  Budget'
  <2> SUFFICES ASSUME NEW d \in Chans PROVE chan'[d].offered + fuel' <= MaxOps
    BY DEF Budget
  <2>1. chan[d].offered + fuel <= MaxOps
    BY DEF Budget
  <2>2. chan'[d].offered = IF d = c THEN x.offered ELSE chan[d].offered
    BY <1>0, <1>1, Zenon
  <2> QED BY <1>0, <1>1, <2>1, <2>2, SMTT(30)
<1>2. CASE chan' = chan
  BY <1>0, <1>2, SMTT(30) DEF Budget
<1>3. ASSUME NEW w \in Workers, NEW c \in Chans, Sending(w, c), fuel > 0, fuel' = fuel - 1
      PROVE  Budget'
  <2> DEFINE q == chan[c]
             i == Cur(w)
  <2>1. \/ chan' = chan
        \/ \E x \in {Passed(q), Buffered(q), Queued(q, i)} : chan' = [chan EXCEPT ![c] = x]
    BY <1>3, Zenon DEF Sending
  <2>2. q \in Channel
    BY <1>0, Zenon
  <2> HIDE DEF q, i
  <2>3. \A x \in {Passed(q), Buffered(q), Queued(q, i)} : x.offered = q.offered + 1
    BY <2>2, PassedIs, BufferedIs, QueuedIs, SMTT(30)
  <2> QED BY <1>1, <1>2, <1>3, <2>1, <2>3, Zenon DEF q
<1>4. ASSUME NEW w \in Workers, NEW c \in Chans, Receiving(w, c) PROVE Budget'
  <2> DEFINE q == chan[c]
             i == Cur(w)
             v == th[Head(q.senders)].send
  <2>1. \/ chan' = chan
        \/ \E x \in {Taken(q), Refilled(q, v), Handed(q, v), Parked(q, i)} :
             chan' = [chan EXCEPT ![c] = x]
    BY <1>4, Zenon DEF Receiving
  <2>2. q \in Channel
    BY <1>0, Zenon
  <2> HIDE DEF q, i, v
  <2>3. \A x \in {Taken(q), Refilled(q, v), Handed(q, v), Parked(q, i)} : x.offered = q.offered
    BY <2>2, TakenIs, RefilledIs, HandedIs, ParkedIs, SMTT(30)
  <2> QED BY <1>1, <1>2, <2>1, <2>3, Zenon DEF q
<1>5. ASSUME NEW c \in Chans, chan' = [chan EXCEPT ![c] = Shut(chan[c])] PROVE Budget'
  <2>1. Shut(chan[c]).offered = chan[c].offered
    BY <1>0, ShutIs, Zenon
  <2> QED BY <1>1, <1>5, <2>1, Zenon
<1> QED BY <1>2, <1>3, <1>4, <1>5, Zenon DEF Moves

\* Every channel is a first-in first-out queue: it implements GreenChannel, in every world
\* where no task waits inside a nested engine.
THEOREM ChannelsKeepOrderHolds == ASSUME NoNest PROVE Spec => ChannelsKeepOrder
<1>1. Init => Budget /\ \A c \in Chans : Promise(c)!Init
  <2> SUFFICES ASSUME Init PROVE Budget /\ \A c \in Chans : Promise(c)!Init
    OBVIOUS
  <2>1. ASSUME NEW c \in Chans
        PROVE  /\ chan[c].offered = 0 /\ chan[c].buf = <<>> /\ chan[c].senders = <<>>
               /\ chan[c].got = <<>> /\ chan[c].closed = FALSE
    BY DEF Init
  <2>2. Budget
    BY <2>1, TasksAssumption DEF Budget, Init
  <2>3. ASSUME NEW c \in Chans PROVE Promise(c)!Init
    <3>1. chan[c] \in Channel /\ th \in [Ids -> Task]
      BY TypeInit, Zenon DEF TypeOK
    <3>2. Pending(c) = Held(th, chan[c])
      BY DEF Pending, Held, Msgs
    <3>3. Held(th, chan[c]) = <<>>
      BY <2>1, <3>1, HeldIs, Zenon
    <3> QED BY <2>1, <3>2, <3>3, Zenon DEF Promise!Init
  <2> QED BY <2>2, <2>3, Zenon
<1>2. ASSUME ListInv, ChannelShape, Budget, [Next]_vars
      PROVE  Budget' /\ \A c \in Chans : Promise(c)!Next \/ UNCHANGED Promise(c)!vars
  <2>1. TypeOK /\ TypeOK' /\ Moves
    <3>1. TypeOK
      BY <1>2 DEF ListInv, EngineInv
    <3> QED BY <1>2, <3>1, TypeStep, ListStep, Zenon
  <2>2. fuel' <= fuel
    BY <1>2, <2>1, FuelStep, Zenon
  <2>3. Budget' /\ Promises
    BY <1>2, <2>1, <2>2, BudgetStep, PromiseStep, Zenon
  <2> QED BY <2>3, PromisedIs, Zenon DEF Promises
<1>3. ListInv /\ ChannelShape /\ Budget /\ [Next]_vars =>
        Budget' /\ \A c \in Chans : Promise(c)!Next \/ UNCHANGED Promise(c)!vars
  BY <1>2
<1> QED BY <1>1, <1>3, ListsHold, ChannelShapeHolds, PTL DEF Spec, ChannelsKeepOrder

-----------------------------------------------------------------------------
(* The statuses *)

\* A step that changes one task and not its status, and the end of a task.
LEMMA OneStatus ==
  ASSUME NEW T \in [Ids -> Task], NEW U, NEW c \in Ids, NEW x, x.status = T[c].status,
         U = [T EXCEPT ![c] = x], NEW i \in Ids
  PROVE  U[i].status = T[i].status
<1>1. CASE i = c
  BY <1>1
<1>2. CASE i # c
  BY <1>2
<1> QED BY <1>1, <1>2, Zenon

\* Setting the other fields of a task keeps its status.
LEMMA WithStatus ==
  ASSUME NEW t \in Task, NEW st, NEW b, NEW o, NEW v, NEW r
  PROVE  With(t, st, b, o, v, r).status = t.status /\ Mark(t, st, b).status = t.status
  BY DEF With, Mark, Task

\* coco_g_finish sets the status of the task it ends; the waiters it wakes keep theirs.
LEMMA FinishStatus ==
  ASSUME TypeOK, NEW T \in [Ids -> Task], NEW ti \in Ids, NEW tag \in Tags,
         NEW L \in [Workers -> {"loop", "wait", "woken", "out"}], Finish(L, T, ti, Status(tag, 0)),
         NEW i \in Ids, i # ti
  PROVE  th'[i].status = T[i].status
<1> DEFINE s == Status(tag, 0)
<1>1. s \in Statuses
  BY StatusIs, Zenon
<1> HIDE DEF s
<1>2. /\ \A j \in Awaiting(T, ti) \ {ti} : th'[j] = Woken(T[j], s)
      /\ \A j \in Ids \ {ti} : j \notin Awaiting(T, ti) => th'[j] = T[j]
  BY <1>1, FinishIs, Zenon DEF s
<1>3. Woken(T[i], s).status = T[i].status
  BY <1>1, WokenIs, Zenon
<1> QED BY <1>2, <1>3, Zenon

\* coco_g_run ends only tasks that are not done.
LEMMA RunStatus ==
  ASSUME EngineInv, NEW w \in Workers, LoopStep(w) \/ RunStep(w),
         NEW i \in Used, th[i].state = "done", Owned(i)
  PROVE  th'[i].status = th[i].status
<1>0. /\ TypeOK /\ i \in Ids /\ th \in [Ids -> Task] /\ Main \in Ids
      /\ lp \in [Workers -> {"loop", "wait", "woken", "out"}]
      /\ {"ok", "error", "failed", "deadlock"} \subseteq Tags
  BY Constants, UsedIs, Zenon DEF EngineInv, TypeOK, Tags
<1>1. ~main_done /\ nthreads > 0 => i # Main
  BY Zenon DEF EngineInv, Good, JoinOK, Owned
<1>2. ASSUME Inside(w) PROVE Cur(w) \in Ids /\ th[Cur(w)] \in Task /\ i # Cur(w)
  <2>1. Cur(w) \in Ids /\ th[Cur(w)] \in Task /\ Cur(w) \in 0 .. nthreads - 1
    BY <1>2, TopFits, Zenon
  <2>2. th[Cur(w)].state = "done" => Cur(w) = Main /\ ~ForkJoin
    BY <1>2, TopFits, Zenon DEF LevelFits, Cur
  <2> QED BY <2>1, <2>2, Zenon DEF Owned
<1>3. CASE LoopPick(w)
  <2> DEFINE t == Pick(th, w)
  <2>1. t \in Ids /\ th' = [th EXCEPT ![t] = Applied(th[t])]
    BY <1>0, <1>3, LoopPickIs, Zenon
  <2>2. Applied(th[t]).status = th[t].status
    BY <1>0, <2>1, AppliedIs, Zenon
  <2> HIDE DEF t
  <2> QED BY <1>0, <2>1, <2>2, OneStatus, Zenon
<1>4. CASE LoopDeadlock(w)
  <2>1. /\ Finish([lp EXCEPT ![w] = "out"], th, Main, Status("deadlock", 0))
        /\ [lp EXCEPT ![w] = "out"] \in [Workers -> {"loop", "wait", "woken", "out"}]
    BY <1>0, <1>4, LoopDeadlockIs, Zenon
  <2>2. i # Main
    BY <1>1, <1>4, Zenon DEF LoopDeadlock, Dead
  <2> QED BY <1>0, <2>1, <2>2, FinishStatus, Zenon
<1>5. CASE LoopLeave(w) \/ LoopIdle(w) \/ LoopWoken(w) \/ RunFail(w)
  BY <1>5 DEF LoopLeave, LoopIdle, LoopWoken, RunFail
<1>6. CASE Quantum(w)
  <2>1. Inside(w) /\ th' = [th EXCEPT ![Cur(w)] = Mark(th[Cur(w)], "ready", "none")]
    BY <1>0, <1>6, QuantumIs, Zenon
  <2>2. Mark(th[Cur(w)], "ready", "none").status = th[Cur(w)].status
    BY <1>2, <2>1, WithStatus, Zenon
  <2> QED BY <1>0, <1>2, <2>1, <2>2, OneStatus, Zenon
<1>7. ASSUME NEW tag \in {"ok", "error"}, RunFinish(w, tag) PROVE th'[i].status = th[i].status
  <2>1. Inside(w) /\ Finish(lp, th, Cur(w), Status(tag, 0)) /\ tag \in Tags
    BY <1>0, <1>7, RunFinishIs, Zenon
  <2> QED BY <1>0, <1>2, <2>1, FinishStatus, Zenon
<1>8. CASE RunStop(w)
  <2> DEFINE c == Cur(w)
             t == th[c]
             b == Mark(t, "blocked", t.block)
             r == Mark(t, "ready", "none")
             B == [th EXCEPT ![c] = b]
  <2>1. /\ Inside(w) /\ B \in [Ids -> Task]
        /\ \/ th' = th
           \/ th' = [th EXCEPT ![c] = r]
           \/ Dead(B, frames) /\ Finish(lp, B, Main, Status("deadlock", 0))
           \/ th' = B
           \/ Finish(lp, th, c, Status("failed", 0))
    BY <1>0, <1>8, RunStopIs, Zenon
  <2>a. c \in Ids /\ t \in Task
    BY <1>2, <2>1, Zenon
  <2> HIDE DEF t
  <2>2. c \in Ids /\ b.status = t.status /\ r.status = t.status
    BY <2>a, WithStatus, Zenon
  <2> HIDE DEF b, r
  <2> USE DEF t
  <2>3. B[i].status = th[i].status
    BY <1>0, <2>2, OneStatus, SMTT(30)
  <2>4. th' = [th EXCEPT ![c] = r] => th'[i].status = th[i].status
    BY <1>0, <2>2, OneStatus, Zenon
  <2> HIDE DEF B, c
  <2>5. ASSUME Dead(B, frames), Finish(lp, B, Main, Status("deadlock", 0))
        PROVE  th'[i].status = th[i].status
    <3>1. i # Main
      BY <1>1, <2>5, Zenon DEF Dead
    <3> QED BY <1>0, <2>1, <2>3, <2>5, <3>1, FinishStatus, Zenon
  <2>6. ASSUME Finish(lp, th, c, Status("failed", 0)) PROVE th'[i].status = th[i].status
    BY <1>0, <1>2, <2>1, <2>2, <2>6, FinishStatus, Zenon DEF c
  <2> QED BY <2>1, <2>3, <2>4, <2>5, <2>6, Zenon
<1> QED BY <1>3, <1>4, <1>5, <1>6, <1>7, <1>8, Zenon DEF LoopStep, RunStep

\* The builtins set no status.
LEMMA BuiltinStatus ==
  ASSUME EngineInv, NEW w \in Workers, Builtin(w), NEW i \in Used
  PROVE  th'[i].status = th[i].status
<1>0. TypeOK /\ i \in Ids /\ th \in [Ids -> Task] /\ \A n \in Nested : n \in BOOLEAN
  BY UsedIs, Zenon DEF EngineInv, TypeOK, Nested
<1>1. ASSUME Inside(w) PROVE Cur(w) \in Ids /\ th[Cur(w)] \in Task
  BY <1>1, TopFits, Zenon
<1>2. CASE Go(w)
  <2>1. th' = [th EXCEPT ![nthreads] = NewTask(next_worker)]
    BY <1>0, <1>2, GoIs, Zenon
  <2>2. i # nthreads
    BY <1>0, Constants DEF Used, TypeOK
  <2> QED BY <1>0, <2>1, <2>2, Zenon
<1>3. CASE Yield(w)
  <2> DEFINE x == Mark(th[Cur(w)], th[Cur(w)].state, "yield")
  <2>1. Inside(w) /\ th' = [th EXCEPT ![Cur(w)] = x]
    BY <1>0, <1>3, YieldIs, Zenon
  <2>2. x.status = th[Cur(w)].status
    BY <1>1, <2>1, WithStatus, Zenon
  <2> HIDE DEF x
  <2> QED BY <1>0, <1>1, <2>1, <2>2, OneStatus, Zenon
<1>4. ASSUME NEW id \in Ids, NEW n \in Nested, Await(w, id, n) PROVE th'[i].status = th[i].status
  <2> DEFINE x == With(th[Cur(w)], "blocked", "await", id, th[Cur(w)].send, th[Cur(w)].resume)
  <2>1. Inside(w) /\ (th' = th \/ th' = [th EXCEPT ![Cur(w)] = x])
    BY <1>0, <1>4, AwaitIs, Zenon
  <2>2. x.status = th[Cur(w)].status
    BY <1>1, <2>1, WithStatus, SMTT(30)
  <2> HIDE DEF x
  <2> QED BY <1>0, <1>1, <2>1, <2>2, OneStatus, Zenon
<1>5. ASSUME Inside(w), NEW o, NEW v, NEW n, Parks(w, o, v, n) PROVE th'[i].status = th[i].status
  <2> DEFINE t == th[Cur(w)]
             x == With(t, IF n THEN "nested" ELSE "blocked", o, t.wait_on, v, t.resume)
  <2>1. th' = [th EXCEPT ![Cur(w)] = x]
    BY <1>5, Zenon DEF Parks
  <2>2. x.status = th[Cur(w)].status
    <3>1. t \in Task
      BY <1>1, <1>5, Zenon
    <3>2. x.status = t.status
      <4> HIDE DEF t
      <4> QED BY <3>1, WithStatus, SMTT(30)
    <3> QED BY <3>2
  <2> HIDE DEF x
  <2> QED BY <1>0, <1>1, <1>5, <2>1, <2>2, OneStatus, Zenon
<1>6. ASSUME NEW j, NEW s \in Statuses, Wakes(j, s) PROVE th'[i].status = th[i].status
  <2>1. j \in Ids /\ th' = [th EXCEPT ![j] = Woken(th[j], s)]
    BY <1>6, Zenon DEF Wakes
  <2>2. Woken(th[j], s).status = th[j].status
    BY <1>0, <2>1, WokenIs, Zenon
  <2> QED BY <1>0, <2>1, <2>2, OneStatus, Zenon
<1>7. ASSUME NEW c \in Chans, NEW n \in Nested, Send(w, c, n) PROVE th'[i].status = th[i].status
  <2> DEFINE v == chan[c].offered + 1
  <2>1. Inside(w) /\ Sent(w, c, n)
    BY <1>0, <1>7, SendIs, Zenon
  <2>2. v \in Nat
    BY <1>0 DEF TypeOK, Channel
  <2> HIDE DEF v
  <2>3. Status("ok", v) \in Statuses
    BY <2>2, StatusIs, Zenon DEF Tags
  <2>4. \/ th' = th \/ Wakes(Head(chan[c].receivers), Status("ok", v)) \/ Parks(w, "send", v, n)
    BY <2>1 DEF Sent, v
  <2> QED BY <1>5, <1>6, <2>1, <2>3, <2>4, Zenon
<1>8. ASSUME NEW c \in Chans, NEW n \in Nested, Recv(w, c, n) PROVE th'[i].status = th[i].status
  <2>1. Inside(w) /\ Received(w, c, n)
    BY <1>0, <1>8, RecvIs, Zenon
  <2>2. Status("ok", 0) \in Statuses
    BY StatusIs, Zenon DEF Tags
  <2>3. \/ th' = th \/ Wakes(Head(chan[c].senders), Status("ok", 0)) \/ Parks(w, "recv", 0, n)
    BY <2>1, Zenon DEF Received
  <2> QED BY <1>5, <1>6, <2>1, <2>2, <2>3, Zenon
<1>9. ASSUME NEW c \in Chans, Close(w, c) PROVE th'[i].status = th[i].status
  <2>1. th'[i] = th[i] \/ \E s \in Statuses : th'[i] = Woken(th[i], s)
    BY <1>0, <1>9, CloseIs, Zenon
  <2>2. \A s \in Statuses : Woken(th[i], s).status = th[i].status
    BY <1>0, WokenIs, Zenon
  <2> QED BY <2>1, <2>2, Zenon
<1> QED BY <1>2, <1>3, <1>4, <1>7, <1>8, <1>9, Zenon DEF Builtin

\* Neither do the nested waits; their deadlock ends nothing.
LEMMA NestStatus ==
  ASSUME EngineInv, NEW w \in Workers, NestStep(w), NEW i \in Used
  PROVE  th'[i].status = th[i].status
<1>0. TypeOK /\ i \in Ids /\ th \in [Ids -> Task]
  BY UsedIs, Zenon DEF EngineInv, TypeOK
<1>1. ASSUME Inside(w) PROVE Cur(w) \in Ids /\ th[Cur(w)] \in Task
  BY <1>1, TopFits
<1>2. CASE AwaitDone(w) \/ NestDeadlock(w)
  <2> DEFINE x == Mark(th[Cur(w)], "ready", th[Cur(w)].block)
  <2>1. Inside(w) /\ th' = [th EXCEPT ![Cur(w)] = x]
    BY <1>0, <1>2, AwaitDoneIs, NestDeadlockIs, Zenon
  <2>2. x.status = th[Cur(w)].status
    BY <1>1, <2>1, WithStatus, Zenon
  <2> HIDE DEF x
  <2> QED BY <1>0, <1>1, <2>1, <2>2, OneStatus, Zenon
<1>3. CASE ResumeDone(w)
  BY <1>0, <1>3, ResumeDoneIs, NestAt, Zenon
<1>4. ASSUME Inside(w) PROVE Waiting(w) \in [Ids -> Task] /\ Waiting(w)[i].status = th[i].status
  <2> DEFINE x == Mark(th[Cur(w)], TurnState(w), th[Cur(w)].block)
  <2>1. Waiting(w) = [th EXCEPT ![Cur(w)] = x] /\ Waiting(w) \in [Ids -> Task]
    BY <1>0, <1>4, WaitingIs, Zenon
  <2>2. x.status = th[Cur(w)].status
    BY <1>1, <1>4, WithStatus, Zenon
  <2> HIDE DEF x
  <2> QED BY <1>0, <1>1, <1>4, <2>1, <2>2, OneStatus, SMTT(30)
<1>5. CASE NestSleep(w)
  BY <1>0, <1>4, <1>5, NestSleepIs, Zenon
<1>6. CASE NestRun(w)
  <2> DEFINE W == Waiting(w)
  <2>1. PICK t \in Ids : th' = [W EXCEPT ![t] = Applied(W[t])]
    BY <1>0, <1>6, NestRunIs, Zenon
  <2>2. W \in [Ids -> Task] /\ W[i].status = th[i].status
    BY <1>0, <1>4, <1>6, NestRunIs, Zenon
  <2> HIDE DEF W
  <2>3. Applied(W[t]).status = W[t].status
    BY <2>1, <2>2, AppliedIs, SMTT(30)
  <2> QED BY <1>0, <2>1, <2>2, <2>3, OneStatus, SMTT(30)
<1> QED BY <1>2, <1>3, <1>5, <1>6, Zenon DEF NestStep

\* The status that coco_g_finish gave stays.
LEMMA StatusStep ==
  ASSUME EngineInv, [Next]_vars, NEW i \in Used, th[i].state = "done", Owned(i)
  PROVE  th'[i].status = th[i].status
<1>1. ASSUME Start PROVE FALSE
  <2>1. nthreads = 0
    BY <1>1, Zenon DEF Start
  <2> QED BY <2>1 DEF Used
<1>2. Stop \/ Ended \/ (\E w \in Workers : Spurious(w)) \/ UNCHANGED vars => th' = th
  BY Zenon DEF Stop, Ended, Spurious, vars
<1>3. ASSUME NEW w \in Workers, Step(w) PROVE th'[i].status = th[i].status
  BY <1>3, RunStatus, BuiltinStatus, NestStatus, SMTT(30) DEF Step
<1> QED BY <1>1, <1>2, <1>3, Zenon DEF Next, HostStep

\* A task that is done stays done with the status it ended with (coco_g_finish), in a
\* program
\* that forks and joins.
THEOREM StatusIsFinalHolds == ASSUME ForkJoin PROVE Spec => StatusIsFinal
<1>1. EngineInv /\ [Next]_vars =>
        [\A i \in Used : th[i].state = "done" => th'[i].status = th[i].status]_vars
  BY StatusStep, Zenon DEF Owned
<1>2. NoNestedChannel
  BY DEF ForkJoin, NoNestedChannel
<1> QED BY <1>1, <1>2, EngineHolds, PTL DEF Spec, StatusIsFinal

\* Of the tasks that async_go made, with channels too.
OthersFinal ==
  [][\A i \in Used \ {Main} : th[i].state = "done" => th'[i].status = th[i].status]_vars

\* With channels the same of every task but the main one.
THEOREM OthersFinalHolds == ASSUME NoNestedChannel PROVE Spec => OthersFinal
<1>1. EngineInv /\ [Next]_vars =>
        [\A i \in Used \ {Main} : th[i].state = "done" => th'[i].status = th[i].status]_vars
  BY StatusStep DEF Owned
<1> QED BY <1>1, EngineHolds, PTL DEF Spec, OthersFinal

=============================================================================
