------------------------- MODULE GreenBarrierProofs -------------------------
(***************************************************************************)
(* The write barrier keeps its promise for every number of workers, every  *)
(* workload and every interleaving: the proofs behind GreenBarrier.        *)
(***************************************************************************)
EXTENDS GreenBarrier, FiniteSetTheorems, TLAPS

\* The invariant that is inductive.
IInv == TypeOK /\ CountsInv /\ BarrierInv

-----------------------------------------------------------------------------
(* Finite sets of workers *)

\* Any set of workers can be counted.
LEMMA SomeWorkers ==
  ASSUME NEW S \in SUBSET Workers
  PROVE  IsFiniteSet(S) /\ Cardinality(S) \in Nat
  BY FS_Subset, FS_CardinalityType, WorldAssumption

\* One more acknowledgement is one more worker.
LEMMA OneMore ==
  ASSUME NEW S \in SUBSET Workers, NEW w \in Workers, w \notin S
  PROVE  Cardinality(S \cup {w}) = Cardinality(S) + 1
  BY SomeWorkers, FS_AddElement

\* As many as were asked, all of them asked: everybody asked.
LEMMA AllOfThem ==
  ASSUME NEW S \in SUBSET Workers, NEW T \in SUBSET S,
         Cardinality(T) >= Cardinality(S)
  PROVE  T = S
  <1>1. IsFiniteSet(S) /\ Cardinality(S) \in Nat /\ Cardinality(T) \in Nat
    BY SomeWorkers
  <1>2. Cardinality(T) <= Cardinality(S) /\ (Cardinality(S) = Cardinality(T) => S = T)
    BY <1>1, FS_Subset
  <1> QED BY <1>1, <1>2

-----------------------------------------------------------------------------
(* The type invariant *)

\* coco_g_finish keeps the task counts natural numbers.
LEMMA FinishType ==
  ASSUME TypeOK, NEW w \in Workers, NEW isMain \in BOOLEAN,
         NEW rd \in [Workers -> Nat], NEW bl \in [Workers -> Nat],
         NEW S \in SUBSET Workers, Finish(w, isMain, rd, bl, S)
  PROVE  /\ ready' \in [Workers -> Nat]
         /\ blocked' \in [Workers -> Nat]
         /\ \A v \in Workers : ready'[v] >= rd[v]
         /\ \A v \in Workers : ready'[v] + blocked'[v] = rd[v] + bl[v]
         /\ poked' \in [Workers -> BOOLEAN]
         /\ asleep' \subseteq Workers /\ chgWait' \subseteq Workers
         /\ main_done' = (main_done \/ isMain)
         /\ main_done' \in BOOLEAN
  <1>1. ready' \in [Workers -> Nat] /\ blocked' \in [Workers -> Nat]
    BY DEF Finish
  <1>2. \A v \in Workers : ready'[v] >= rd[v] /\ ready'[v] + blocked'[v] = rd[v] + bl[v]
    BY DEF Finish
  <1>3. poked' \in [Workers -> BOOLEAN] /\ asleep' \subseteq Workers /\ chgWait' \subseteq Workers
    BY DEF Finish, Poke, TypeOK
  <1>4. main_done' = (main_done \/ isMain) /\ main_done' \in BOOLEAN
    BY DEF Finish, TypeOK
  <1> QED BY <1>1, <1>2, <1>3, <1>4


\* Every step keeps the types; the counts are what makes a decrement safe.
LEMMA TypeStep == TypeOK /\ CountsInv /\ [Next]_vars => TypeOK'
  <1> SUFFICES ASSUME TypeOK, CountsInv, [Next]_vars PROVE TypeOK'
    OBVIOUS
  <1> USE WorldAssumption
  <1>k. ASSUME KillMain, ~main_done, pc[Host] # "start", NoneReady,
               \A v \in Workers : nest[v] = 0
        PROVE  /\ ready' \in [Workers -> Nat] /\ blocked' \in [Workers -> Nat]
               /\ poked' \in [Workers -> BOOLEAN]
               /\ asleep' \subseteq Workers /\ chgWait' \subseteq Workers
               /\ main_done' \in BOOLEAN
    <2>1. blocked[Host] > 0
      BY <1>k DEF CountsInv, Tasks, NoneReady, TypeOK
    <2>2. [blocked EXCEPT ![Host] = @ - 1] \in [Workers -> Nat]
      BY <2>1 DEF TypeOK
    <2>3. PICK S \in SUBSET Workers :
            Finish(Host, TRUE, ready, [blocked EXCEPT ![Host] = @ - 1], S)
      BY <1>k DEF KillMain
    <2> QED BY <2>2, <2>3, FinishType DEF TypeOK
  <1>1. ASSUME NEW w \in Workers, Loop(w) PROVE TypeOK'
    <2>1. CASE LoopStop(w) BY <2>1 DEF LoopStop, Leave, Goto, TypeOK, Labels, ops, tasks, waits
    <2>2. CASE LoopAck(w) BY <2>2 DEF LoopAck, Ack, Goto, TypeOK, Labels, tasks
    <2>3. CASE LoopPick(w) BY <2>3 DEF LoopPick, Goto, TypeOK, Labels, ops, tasks, waits
    <2>4. CASE LoopLeave(w) BY <2>4 DEF LoopLeave, Leave, Goto, TypeOK, Labels, ops, tasks, waits
    <2>5. CASE LoopDeadlock(w)
      <3>1. ~main_done /\ pc[Host] # "start" /\ NoneReady /\ \A v \in Workers : nest[v] = 0
        BY <2>5 DEF LoopDeadlock, DeadWorld, NoneReady
      <3> QED BY <3>1, <2>5, <1>k DEF LoopDeadlock, Leave, Goto, TypeOK, Labels, ops
    <2>6. CASE LoopIdle(w)
      <3>1. CASE poked[w] \/ op # NoOp
        <4>1. poked' = [poked EXCEPT ![w] = FALSE] /\ UNCHANGED <<pc, asleep>>
          BY <3>1, <2>6 DEF LoopIdle
        <4>2. poked' \in [Workers -> BOOLEAN] BY <4>1 DEF TypeOK
        <4> QED BY <4>1, <4>2, <2>6 DEF LoopIdle, TypeOK, ops, tasks
      <3>2. CASE ~(poked[w] \/ op # NoOp)
        <4>1. asleep' = asleep \cup {w} /\ Goto(w, "asleep") /\ UNCHANGED poked
          BY <3>2, <2>6 DEF LoopIdle
        <4> QED BY <4>1, <2>6 DEF LoopIdle, Goto, TypeOK, Labels, ops, tasks
      <3> QED BY <3>1, <3>2
    <2>7. CASE LoopWoken(w) BY <2>7 DEF LoopWoken, Goto, TypeOK, Labels, ops, tasks
    <2>8. CASE AckWait(w)
      <3>1. pc[w] \in {"ackwait", "fbwait", "fewait", "nackwait"} /\ AfterAckWait[pc[w]] \in Labels
        BY <2>8 DEF AckWait, AfterAckWait, Labels
      <3> QED BY <3>1, <2>8 DEF AckWait, Goto, TypeOK, ops, tasks
    <2> QED BY <1>1, <2>1, <2>2, <2>3, <2>4, <2>5, <2>6, <2>7, <2>8 DEF Loop
  <1>2. ASSUME NEW w \in Workers, Run(w) PROVE TypeOK'
    <2>0. Return(w) \in Labels BY DEF Return, Labels
    <2>1. CASE RunYield(w) BY <2>0, <2>1 DEF RunYield, Burn, Goto, TypeOK, ops, tasks, waits
    <2>2. CASE RunBlock(w)
      <3>1. ready[w] > 0 BY <2>2 DEF RunBlock, CountsInv, Inside
      <3> QED BY <3>1, <2>2 DEF RunBlock, Goto, TypeOK, Labels, ops, waits
    <2>3. CASE RunBlocked(w)
      <3>1. CASE DeadWorld(ready)
        <4>1. ~main_done /\ pc[Host] # "start" /\ NoneReady /\ \A v \in Workers : nest[v] = 0
          BY <3>1 DEF DeadWorld, NoneReady
        <4> QED BY <4>1, <3>1, <2>0, <2>3, <1>k DEF RunBlocked, Goto, TypeOK, ops
      <3>2. CASE ~DeadWorld(ready)
        BY <3>2, <2>0, <2>3 DEF RunBlocked, Goto, TypeOK, ops, tasks
      <3> QED BY <3>1, <3>2
    <2>4. ASSUME NEW isMain \in BOOLEAN, RunFinish(w, isMain) PROVE TypeOK'
      <3>1. ready[w] > 0 BY <2>4 DEF RunFinish, CountsInv, Inside
      <3>2. [ready EXCEPT ![w] = @ - 1] \in [Workers -> Nat] BY <3>1 DEF TypeOK
      <3>3. PICK S \in SUBSET Workers :
              Finish(w, isMain, [ready EXCEPT ![w] = @ - 1], blocked, S)
        BY <2>4 DEF RunFinish
      <3>4. /\ ready' \in [Workers -> Nat] /\ blocked' \in [Workers -> Nat]
            /\ poked' \in [Workers -> BOOLEAN]
            /\ asleep' \subseteq Workers /\ chgWait' \subseteq Workers
            /\ main_done' \in BOOLEAN
        <4>1. blocked \in [Workers -> Nat] BY DEF TypeOK
        <4> QED BY <4>1, <3>2, <3>3, <2>4, FinishType
      <3> QED BY <3>4, <2>0, <2>4 DEF RunFinish, Goto, TypeOK, ops
    <2>5. ASSUME NEW v \in Workers, RunSpawn(w, v) PROVE TypeOK'
      BY <2>5 DEF RunSpawn, Burn, Poke, TypeOK, ops
    <2>6. ASSUME NEW v \in Workers, RunWake(w, v) PROVE TypeOK'
      BY <2>6 DEF RunWake, Burn, Poke, TypeOK, ops
    <2> QED BY <1>2, <2>1, <2>2, <2>3, <2>4, <2>5, <2>6 DEF Run
  <1>3. ASSUME NEW w \in Workers, Write(w) PROVE TypeOK'
    <2>1. CASE WriteCheck(w) BY <2>1 DEF WriteCheck, Burn, Goto, TypeOK, Labels, ops, tasks, waits
    <2>2. CASE WriteYield(w) BY <2>2 DEF WriteYield, Ack, TypeOK, ops, tasks
    <2>3. CASE WritePublish(w)
      <3>1. Asked(w) \in SUBSET Workers BY DEF Asked
      <3>2. Cardinality(Asked(w)) \in Nat BY <3>1, SomeWorkers
      <3> QED BY <3>1, <3>2, <2>3 DEF WritePublish, Poke, Enter, Goto, TypeOK, Labels, tasks
    <2>4. CASE WriteAcks(w) BY <2>4 DEF WriteAcks, Enter, Goto, TypeOK, Labels, tasks
    <2>5. CASE WriteNested(w) BY <2>5 DEF WriteNested, Burn, TypeOK, tasks, waits
    <2>6. CASE WriteNestedEnd(w) BY <2>6 DEF WriteNestedEnd, TypeOK, tasks, waits
    <2>7. CASE WriteEnd(w) BY <2>7 DEF WriteEnd, NoOp, Goto, TypeOK, Labels, tasks
    <2>8. CASE BareEnd(w) BY <2>8 DEF BareEnd, Goto, TypeOK, Labels, ops, tasks, waits
    <2> QED BY <1>3, <2>1, <2>2, <2>3, <2>4, <2>5, <2>6, <2>7, <2>8 DEF Write
  <1>4. ASSUME NEW w \in Workers, Away(w) PROVE TypeOK'
    <2>1. CASE ForeignBegin(w)
      BY <2>1 DEF ForeignBegin, AckOrGo, Ack, Burn, Goto, TypeOK, Labels, ops, tasks
    <2>2. CASE ForeignEnd(w)
      BY <2>2 DEF ForeignEnd, AckOrGo, Ack, Goto, TypeOK, Labels, ops, tasks
    <2>3. CASE NestBegin(w)
      <3>1. ready[w] > 0 BY <2>3 DEF NestBegin, CountsInv, Inside
      <3> QED BY <3>1, <2>3 DEF NestBegin, Burn, Goto, TypeOK, Labels, ops, waits
    <2>4. CASE NestEnd(w)
      <3>1. nest[w] > 0 BY <2>4 DEF NestEnd, CountsInv
      <3> QED BY <3>1, <2>4 DEF NestEnd, Goto, TypeOK, Labels, ops, waits
    <2>5. CASE NestAck(w) BY <2>5 DEF NestAck, Ack, Goto, TypeOK, Labels, tasks
    <2>6. CASE NestRun(w) BY <2>6 DEF NestRun, Goto, TypeOK, Labels, ops, tasks, waits
    <2>7. CASE NestSleep(w) BY <2>7 DEF NestSleep, TypeOK, ops, tasks
    <2> QED BY <1>4, <2>1, <2>2, <2>3, <2>4, <2>5, <2>6, <2>7 DEF Away
  <1>5. ASSUME HostStep PROVE TypeOK'
    <2>1. CASE Start BY <2>1 DEF Start, Goto, TypeOK, Labels, ops, waits
    <2>2. CASE Drain BY <2>2 DEF Drain, Poke, Goto, TypeOK, Labels, ops, tasks
    <2>3. CASE Join BY <2>3 DEF Join, Goto, TypeOK, Labels, ops, tasks, waits
    <2> QED BY <1>5, <2>1, <2>2, <2>3 DEF HostStep
  <1>6. ASSUME NEW w \in Workers, Spurious(w) PROVE TypeOK'
    BY <1>6 DEF Spurious, TypeOK, ops, tasks
  <1>7. CASE UNCHANGED vars
    BY <1>7 DEF vars, TypeOK
  <1> QED BY <1>1, <1>2, <1>3, <1>4, <1>5, <1>6, <1>7 DEF Next, Step, Ended

-----------------------------------------------------------------------------
(* The counts *)

\* Every step keeps the task counts in agreement with where the workers are.
LEMMA CountsStep == TypeOK /\ CountsInv /\ [Next]_vars => CountsInv'
  <1> SUFFICES ASSUME TypeOK, CountsInv, [Next]_vars PROVE CountsInv'
    OBVIOUS
  <1> USE WorldAssumption
  <1>t. TypeOK' BY TypeStep
  \* A step that leaves the counts alone moves one worker to a place the
  \* counts allow.
  <1>q. ASSUME NEW w \in Workers, NEW l, pc' = [pc EXCEPT ![w] = l],
               UNCHANGED <<ready, blocked, nest, main_done>>,
               pc[w] # "start",
               l \in Inside => ready[w] > 0,
               l \in {"nloop", "nackwait"} => nest[w] > 0
        PROVE  CountsInv'
    BY <1>q DEF CountsInv, Tasks, TypeOK
  <1>s. ASSUME UNCHANGED <<pc, ready, blocked, nest, main_done>> PROVE CountsInv'
    BY <1>s DEF CountsInv, Tasks
  \* The main task ended: the counts only grew where somebody else stands.
  <1>m. ASSUME NEW w \in Workers, NEW l \in {"loop", "nloop", "drain", "exit"},
               pc' = [pc EXCEPT ![w] = l],
               UNCHANGED nest, l = "nloop" => nest[w] > 0,
               main_done', \A v \in Workers \ {w} : ready'[v] >= ready[v]
        PROVE  CountsInv'
    BY <1>m, <1>t DEF CountsInv, Inside, TypeOK
  <1>k. ASSUME KillMain, ~main_done, pc[Host] # "start", NoneReady,
               \A v \in Workers : nest[v] = 0
        PROVE  main_done' /\ \A v \in Workers : ready'[v] >= ready[v]
    <2>1. blocked[Host] > 0
      BY <1>k DEF CountsInv, Tasks, NoneReady, TypeOK
    <2>2. [blocked EXCEPT ![Host] = @ - 1] \in [Workers -> Nat]
      BY <2>1 DEF TypeOK
    <2>3. PICK S \in SUBSET Workers :
            Finish(Host, TRUE, ready, [blocked EXCEPT ![Host] = @ - 1], S)
      BY <1>k DEF KillMain
    <2> QED BY <2>2, <2>3, FinishType DEF TypeOK
  <1>r. \A w \in Workers : (Return(w) = "nloop" /\ nest[w] > 0) \/ Return(w) = "loop"
    BY DEF Return, TypeOK
  <1>1. ASSUME NEW w \in Workers, Loop(w) PROVE CountsInv'
    <2>1. CASE LoopStop(w) BY <2>1, <1>q DEF LoopStop, Leave, Goto, Inside, tasks
    <2>2. CASE LoopAck(w) BY <2>2, <1>q DEF LoopAck, Goto, Inside, tasks
    <2>3. CASE LoopPick(w) BY <2>3, <1>q DEF LoopPick, Goto, Inside, tasks
    <2>4. CASE LoopLeave(w) BY <2>4, <1>q DEF LoopLeave, Leave, Goto, Inside, tasks
    <2>5. CASE LoopDeadlock(w)
      <3>1. ~main_done /\ pc[Host] # "start" /\ NoneReady /\ \A v \in Workers : nest[v] = 0
        BY <2>5 DEF LoopDeadlock, DeadWorld, NoneReady
      <3>2. main_done' /\ \A v \in Workers : ready'[v] >= ready[v]
        BY <3>1, <2>5, <1>k DEF LoopDeadlock
      <3> QED BY <3>2, <2>5, <1>m DEF LoopDeadlock, Leave, Goto
    <2>6. CASE LoopIdle(w)
      <3>1. CASE UNCHANGED pc BY <3>1, <2>6, <1>s DEF LoopIdle, tasks
      <3>2. CASE Goto(w, "asleep") BY <3>2, <2>6, <1>q DEF LoopIdle, Goto, Inside, tasks
      <3> QED BY <3>1, <3>2, <2>6 DEF LoopIdle
    <2>7. CASE LoopWoken(w) BY <2>7, <1>q DEF LoopWoken, Goto, Inside, tasks
    <2>8. CASE AckWait(w)
      <3>1. CASE UNCHANGED pc BY <3>1, <2>8, <1>s DEF AckWait, tasks
      <3>2. CASE Goto(w, AfterAckWait[pc[w]])
        <4>1. /\ pc[w] # "start"
              /\ AfterAckWait[pc[w]] \in Inside => pc[w] \in Inside
              /\ AfterAckWait[pc[w]] = "nloop" => pc[w] = "nackwait"
              /\ AfterAckWait[pc[w]] # "nackwait"
          BY <2>8 DEF AckWait, AfterAckWait, Inside
        <4>2. /\ AfterAckWait[pc[w]] \in Inside => ready[w] > 0
              /\ AfterAckWait[pc[w]] \in {"nloop", "nackwait"} => nest[w] > 0
          BY <4>1 DEF CountsInv
        <4> QED BY <4>1, <4>2, <3>2, <2>8, <1>q DEF AckWait, Goto, tasks
      <3> QED BY <3>1, <3>2, <2>8 DEF AckWait
    <2> QED BY <1>1, <2>1, <2>2, <2>3, <2>4, <2>5, <2>6, <2>7, <2>8 DEF Loop
  <1>2. ASSUME NEW w \in Workers, Run(w) PROVE CountsInv'
    <2>1. CASE RunYield(w) BY <2>1, <1>q, <1>r DEF RunYield, Goto, Inside, tasks
    <2>2. CASE RunBlock(w)
      BY <2>2, <1>t DEF RunBlock, Goto, CountsInv, Inside, Tasks, TypeOK
    <2>3. CASE RunBlocked(w)
      <3>1. CASE DeadWorld(ready)
        <4>1. ~main_done /\ pc[Host] # "start" /\ NoneReady /\ \A v \in Workers : nest[v] = 0
          BY <3>1 DEF DeadWorld, NoneReady
        <4>2. main_done' /\ \A v \in Workers : ready'[v] >= ready[v]
          BY <4>1, <3>1, <2>3, <1>k DEF RunBlocked
        <4> QED BY <4>2, <3>1, <2>3, <1>m, <1>r DEF RunBlocked, Goto
      <3>2. CASE ~DeadWorld(ready)
        BY <3>2, <2>3, <1>q, <1>r DEF RunBlocked, Goto, Inside, tasks
      <3> QED BY <3>1, <3>2
    <2>4. ASSUME NEW isMain \in BOOLEAN, RunFinish(w, isMain) PROVE CountsInv'
      <3> DEFINE rd == [ready EXCEPT ![w] = @ - 1]
      <3>1. ready[w] > 0 BY <2>4 DEF RunFinish, CountsInv, Inside
      <3>2. rd \in [Workers -> Nat] /\ blocked \in [Workers -> Nat] BY <3>1 DEF TypeOK
      <3>3. PICK S \in SUBSET Workers : Finish(w, isMain, rd, blocked, S)
        BY <2>4 DEF RunFinish
      <3>4. /\ \A v \in Workers : ready'[v] >= rd[v]
            /\ \A v \in Workers : ready'[v] + blocked'[v] = rd[v] + blocked[v]
            /\ main_done' = (main_done \/ isMain)
        <4> HIDE DEF rd
        <4> QED BY <3>2, <3>3, <2>4, FinishType
      <3>5. \A v \in Workers \ {w} : ready'[v] >= ready[v]
        BY <3>4 DEF TypeOK
      <3>6. CASE main_done'
        BY <3>5, <3>6, <2>4, <1>m, <1>r DEF RunFinish, Goto
      <3>9. /\ pc' = [pc EXCEPT ![w] = Return(w)] /\ Return(w) \in {"loop", "nloop"}
            /\ Return(w) = "nloop" => nest[w] > 0
            /\ nest' = nest /\ pc[w] = "run"
        BY <2>4 DEF RunFinish, Goto, Return
      <3>10. \A v \in Workers : pc'[v] \in Inside => ready'[v] > 0
        <4>1. \A v \in Workers \ {w} : pc'[v] = pc[v] BY <3>9 DEF TypeOK
        <4>2. pc'[w] \notin Inside BY <3>9 DEF Inside, TypeOK
        <4>3. \A v \in Workers : ready[v] \in Nat /\ ready'[v] \in Nat BY <1>t DEF TypeOK
        <4>4. ASSUME NEW v \in Workers, pc'[v] \in Inside PROVE ready'[v] > 0
          <5>1. v # w /\ pc[v] \in Inside BY <4>1, <4>2, <4>4
          <5>2. ready[v] > 0 BY <5>1 DEF CountsInv
          <5> QED BY <5>1, <5>2, <4>3, <3>5
        <4> QED BY <4>4
      <3>11. \A v \in Workers : pc'[v] \in {"nloop", "nackwait"} => nest'[v] > 0
        BY <3>9 DEF CountsInv, TypeOK
      <3>7. CASE ~main_done' /\ pc[Host] # "start"
        <4>n. /\ nest[Host] \in Nat /\ ready[Host] \in Nat /\ blocked[Host] \in Nat
              /\ ready'[Host] \in Nat /\ blocked'[Host] \in Nat
          BY <1>t DEF TypeOK
        <4>1. ready'[Host] + blocked'[Host] + nest[Host] > 0
          <5>1. ~isMain /\ ~main_done BY <3>7, <3>4, <2>4 DEF TypeOK
          <5>2. CASE w = Host
            <6>1. ready[Host] + blocked[Host] + nest[Host] > 1
              BY <5>1, <5>2, <2>4 DEF RunFinish, Tasks
            <6>2. ready'[Host] + blocked'[Host] = ready[Host] - 1 + blocked[Host]
              BY <5>2, <3>4 DEF TypeOK
            <6> QED BY <6>1, <6>2, <4>n
          <5>3. CASE w # Host
            <6>1. ready[Host] + blocked[Host] + nest[Host] > 0
              BY <5>1, <3>7 DEF CountsInv, Tasks
            <6>2. ready'[Host] + blocked'[Host] = ready[Host] + blocked[Host]
              BY <5>3, <3>4 DEF TypeOK
            <6> QED BY <6>1, <6>2, <4>n
          <5> QED BY <5>2, <5>3
        <4> QED BY <4>1, <3>9, <3>10, <3>11 DEF CountsInv, Tasks
      <3>8. CASE pc[Host] = "start"
        <4>1. pc'[Host] = "start" BY <3>8, <3>9 DEF TypeOK
        <4> QED BY <4>1, <3>10, <3>11 DEF CountsInv
      <3> QED BY <3>6, <3>7, <3>8
    <2>5. ASSUME NEW v \in Workers, RunSpawn(w, v) PROVE CountsInv'
      BY <2>5, <1>t DEF RunSpawn, CountsInv, Tasks, TypeOK
    <2>6. ASSUME NEW v \in Workers, RunWake(w, v) PROVE CountsInv'
      BY <2>6, <1>t DEF RunWake, CountsInv, Tasks, TypeOK
    <2> QED BY <1>2, <2>1, <2>2, <2>3, <2>4, <2>5, <2>6 DEF Run
  <1>3. ASSUME NEW w \in Workers, Write(w) PROVE CountsInv'
    <2>0. pc[w] \in Inside => ready[w] > 0 BY DEF CountsInv
    <2>1. CASE WriteCheck(w) BY <2>0, <2>1, <1>q DEF WriteCheck, Goto, Inside, tasks
    <2>2. CASE WriteYield(w) BY <2>2, <1>s DEF WriteYield, tasks
    <2>3. CASE WritePublish(w) BY <2>0, <2>3, <1>q DEF WritePublish, Enter, Goto, Inside, tasks
    <2>4. CASE WriteAcks(w)
      <3>1. CASE UNCHANGED pc BY <3>1, <2>4, <1>s DEF WriteAcks, tasks
      <3>2. CASE Enter(w) BY <3>2, <2>0, <2>4, <1>q DEF WriteAcks, Enter, Goto, Inside, tasks
      <3> QED BY <3>1, <3>2, <2>4 DEF WriteAcks
    <2>5. CASE WriteNested(w) BY <2>5, <1>s DEF WriteNested, tasks
    <2>6. CASE WriteNestedEnd(w) BY <2>6, <1>s DEF WriteNestedEnd, tasks
    <2>7. CASE WriteEnd(w) BY <2>0, <2>7, <1>q DEF WriteEnd, Goto, Inside, tasks
    <2>8. CASE BareEnd(w) BY <2>0, <2>8, <1>q DEF BareEnd, Goto, Inside, tasks
    <2> QED BY <1>3, <2>1, <2>2, <2>3, <2>4, <2>5, <2>6, <2>7, <2>8 DEF Write
  <1>4. ASSUME NEW w \in Workers, Away(w) PROVE CountsInv'
    <2>0. /\ pc[w] \in Inside => ready[w] > 0
          /\ pc[w] \in {"nloop", "nackwait"} => nest[w] > 0
      BY DEF CountsInv
    <2>1. CASE ForeignBegin(w)
      BY <2>0, <2>1, <1>q DEF ForeignBegin, AckOrGo, Goto, Inside, tasks
    <2>2. CASE ForeignEnd(w)
      BY <2>0, <2>2, <1>q DEF ForeignEnd, AckOrGo, Goto, Inside, tasks
    <2>3. CASE NestBegin(w)
      BY <2>3, <1>t DEF NestBegin, Goto, CountsInv, Inside, Tasks, TypeOK
    <2>4. CASE NestEnd(w)
      BY <2>4, <1>t DEF NestEnd, Goto, CountsInv, Inside, Tasks, TypeOK
    <2>5. CASE NestAck(w) BY <2>0, <2>5, <1>q DEF NestAck, Goto, Inside, tasks
    <2>6. CASE NestRun(w) BY <2>0, <2>6, <1>q DEF NestRun, Goto, Inside, tasks
    <2>7. CASE NestSleep(w) BY <2>7, <1>s DEF NestSleep, tasks
    <2> QED BY <1>4, <2>1, <2>2, <2>3, <2>4, <2>5, <2>6, <2>7 DEF Away
  <1>5. ASSUME HostStep PROVE CountsInv'
    <2>1. CASE Start
      BY <2>1, <1>t DEF Start, Goto, CountsInv, Inside, Tasks, TypeOK
    <2>2. CASE Drain
      <3>1. CASE UNCHANGED pc BY <3>1, <2>2, <1>s DEF Drain, tasks
      <3>2. CASE Goto(Host, "join") BY <3>2, <2>2, <1>q DEF Drain, Goto, Inside, tasks
      <3> QED BY <3>1, <3>2, <2>2 DEF Drain
    <2>3. CASE Join BY <2>3, <1>q DEF Join, Goto, Inside, tasks
    <2> QED BY <1>5, <2>1, <2>2, <2>3 DEF HostStep
  <1>6. ASSUME NEW w \in Workers, Spurious(w) PROVE CountsInv'
    BY <1>6, <1>s DEF Spurious, tasks
  <1>7. CASE UNCHANGED vars
    BY <1>7, <1>s DEF vars
  <1> QED BY <1>1, <1>2, <1>3, <1>4, <1>5, <1>6, <1>7 DEF Next, Step, Ended

\* Before async_run made the main task nobody has anything to do.
LEMMA InitTypes == Init => TypeOK /\ CountsInv
  <1> SUFFICES ASSUME Init PROVE TypeOK /\ CountsInv
    OBVIOUS
  <1>1. pc \in [Workers -> Labels]
    BY DEF Init, Labels
  <1>2. poked \in [Workers -> BOOLEAN] /\ main_done \in BOOLEAN /\ stop \in BOOLEAN
    BY DEF Init
  <1>3. TypeOK
    BY <1>1, <1>2, WorldAssumption DEF Init, TypeOK, NoOp
  <1>4. CountsInv
    BY WorldAssumption DEF Init, CountsInv, Inside
  <1> QED BY <1>3, <1>4

\* The types and the counts hold in every world: async_run's counts of ready,
\* blocked and nested tasks never go below zero, and a worker inside the engine
\* always has a task whose state is 0.
THEOREM TypeCorrect == Spec => [](TypeOK /\ CountsInv)
  <1>2. (TypeOK /\ CountsInv) /\ [Next]_vars => (TypeOK /\ CountsInv)'
    BY TypeStep, CountsStep
  <1> QED BY InitTypes, <1>2, PTL DEF Spec

-----------------------------------------------------------------------------
(* The barrier *)

\* Every step keeps the books of the write in flight.
LEMMA BarrierStep == IInv /\ [Next]_vars => BarrierInv'
  <1> SUFFICES ASSUME TypeOK, CountsInv, BarrierInv, [Next]_vars PROVE BarrierInv'
    BY DEF IInv
  <1> USE WorldAssumption
  <1>t. TypeOK' BY TypeStep
  <1>s. ASSUME UNCHANGED <<pc, op, op_seq, applied_seq>> PROVE BarrierInv'
    BY <1>s DEF BarrierInv, Acked
  \* A worker that is not writing moves, and leaves its stop only once the
  \* write it acknowledged is over.
  <1>q. ASSUME NEW w \in Workers, NEW l \in Labels, pc' = [pc EXCEPT ![w] = l],
               UNCHANGED <<op, op_seq, applied_seq>>,
               {pc[w], l} \cap {"wacks", "write"} = {},
               pc[w] \in Stopped => l \in Stopped \/ AckedIsOver(w),
               pc[w] = "foreign" => op = NoOp
        PROVE  BarrierInv'
    <2>1. op # NoOp => w # op.writer BY <1>q DEF BarrierInv
    <2>2. op # NoOp /\ w \in Acked => l \in Stopped
      BY <1>q DEF BarrierInv, Acked, AckedIsOver
    <2>3. Acked' = Acked BY <1>q DEF Acked
    <2>4. \A v \in Workers : pc'[v] \in {"wacks", "write"} <=> pc[v] \in {"wacks", "write"}
      BY <1>q DEF TypeOK
    <2>5. \A v \in Workers : pc'[v] \in {"wacks", "write"} => pc'[v] = pc[v]
      BY <1>q DEF TypeOK
    <2>6. op # NoOp => \A v \in Acked : pc'[v] \in Stopped
      BY <2>2, <1>q DEF BarrierInv, Acked, TypeOK
    <2>7. op # NoOp => \A v \in Workers : pc[v] = "foreign" => pc'[v] = "foreign"
      BY <1>q DEF TypeOK
    <2> QED BY <2>1, <2>3, <2>4, <2>5, <2>6, <2>7, <1>q DEF BarrierInv
  \* A worker acknowledges: one more in Acked, and it stands still.
  <1>a. ASSUME NEW w \in Workers, NEW l \in Stopped, pc' = [pc EXCEPT ![w] = l],
               Unacked(w), Ack(w), pc[w] \notin {"wacks", "write"}
        PROVE  BarrierInv'
    <2>1. /\ op # NoOp /\ op.writer # w /\ applied_seq[w] # op.seq
          /\ applied_seq' = [applied_seq EXCEPT ![w] = op.seq]
          /\ op' = [op EXCEPT !.acks = @ + 1] /\ op_seq' = op_seq
      BY <1>a DEF Unacked, Ack
    <2>2. /\ op'.writer = op.writer /\ op'.seq = op.seq /\ op'.need = op.need
          /\ op'.asked = op.asked /\ op'.acks = op.acks + 1
      BY <2>1 DEF TypeOK
    <2>3. Acked' = Acked \cup {w} /\ w \notin Acked
      BY <2>1, <2>2 DEF Acked, TypeOK
    <2>4. Acked \in SUBSET Workers BY DEF Acked
    <2>5. Cardinality(Acked') = Cardinality(Acked) + 1
      BY <2>3, <2>4, OneMore
    <2>6. \A v \in Acked' : pc'[v] \in Stopped
      BY <2>1, <2>3, <2>4, <1>a DEF BarrierInv, TypeOK
    <2>7. \A v \in Workers \ {op.writer} :
            v \in op.asked \/ v \in Acked' \/ pc'[v] = "foreign"
      BY <2>1, <2>3, <1>a DEF BarrierInv, TypeOK
    <2>8. \A v \in Workers : pc'[v] \in {"wacks", "write"} => pc'[v] = pc[v]
      BY <1>a DEF TypeOK, Stopped
    <2>9. \A v \in Workers : applied_seq'[v] <= op_seq'
      BY <2>1 DEF BarrierInv, TypeOK
    <2>10. pc'[op.writer] = pc[op.writer]
      BY <2>1, <1>a DEF TypeOK, BarrierInv
    <2>11. op'.acks >= op'.need \/ \A v \in Workers : pc[v] # "write"
      BY <2>2 DEF BarrierInv, TypeOK
    <2> QED BY <2>1, <2>2, <2>5, <2>6, <2>7, <2>8, <2>9, <2>10, <2>11 DEF BarrierInv
  <1>1. ASSUME NEW w \in Workers, Loop(w) PROVE BarrierInv'
    <2>1. CASE LoopStop(w) BY <2>1, <1>q DEF LoopStop, Leave, Goto, Stopped, Labels, ops
    <2>2. CASE LoopAck(w) BY <2>2, <1>a DEF LoopAck, Goto, Stopped
    <2>3. CASE LoopPick(w) BY <2>3, <1>q DEF LoopPick, Goto, Stopped, Labels, ops
    <2>4. CASE LoopLeave(w) BY <2>4, <1>q DEF LoopLeave, Leave, Goto, Stopped, Labels, ops
    <2>5. CASE LoopDeadlock(w) BY <2>5, <1>q DEF LoopDeadlock, Leave, Goto, Stopped, Labels, ops
    <2>6. CASE LoopIdle(w)
      <3>1. CASE UNCHANGED pc BY <3>1, <2>6, <1>s DEF LoopIdle, ops
      <3>2. CASE Goto(w, "asleep") BY <3>2, <2>6, <1>q DEF LoopIdle, Goto, Stopped, Labels, ops
      <3> QED BY <3>1, <3>2, <2>6 DEF LoopIdle
    <2>7. CASE LoopWoken(w) BY <2>7, <1>q DEF LoopWoken, Goto, Stopped, Labels, ops
    <2>8. CASE AckWait(w)
      <3>1. CASE UNCHANGED pc BY <3>1, <2>8, <1>s DEF AckWait, ops
      <3>2. CASE AckedIsOver(w) /\ Goto(w, AfterAckWait[pc[w]])
        <4>1. /\ pc[w] \in Stopped \ {"wlock"}
              /\ AfterAckWait[pc[w]] \in {"loop", "foreign", "run", "nloop"}
          BY <2>8 DEF AckWait, AfterAckWait, Stopped
        <4> QED BY <4>1, <3>2, <2>8, <1>q DEF AckWait, Goto, Stopped, Labels, ops
      <3> QED BY <3>1, <3>2, <2>8 DEF AckWait
    <2> QED BY <1>1, <2>1, <2>2, <2>3, <2>4, <2>5, <2>6, <2>7, <2>8 DEF Loop
  <1>2. ASSUME NEW w \in Workers, Run(w) PROVE BarrierInv'
    <2>0. Return(w) \in {"loop", "nloop"} BY DEF Return
    <2>1. CASE RunYield(w) BY <2>0, <2>1, <1>q DEF RunYield, Goto, Stopped, Labels, ops
    <2>2. CASE RunBlock(w) BY <2>2, <1>q DEF RunBlock, Goto, Stopped, Labels, ops
    <2>3. CASE RunBlocked(w) BY <2>0, <2>3, <1>q DEF RunBlocked, Goto, Stopped, Labels, ops
    <2>4. ASSUME NEW isMain \in BOOLEAN, RunFinish(w, isMain) PROVE BarrierInv'
      BY <2>0, <2>4, <1>q DEF RunFinish, Goto, Stopped, Labels, ops
    <2>5. ASSUME NEW v \in Workers, RunSpawn(w, v) PROVE BarrierInv'
      BY <2>5, <1>s DEF RunSpawn, ops
    <2>6. ASSUME NEW v \in Workers, RunWake(w, v) PROVE BarrierInv'
      BY <2>6, <1>s DEF RunWake, ops
    <2> QED BY <1>2, <2>1, <2>2, <2>3, <2>4, <2>5, <2>6 DEF Run
  <1>3. ASSUME NEW w \in Workers, Write(w) PROVE BarrierInv'
    <2>1. CASE WriteCheck(w) BY <2>1, <1>q DEF WriteCheck, Goto, Stopped, Labels, ops
    <2>2. CASE WriteYield(w)
      <3>1. pc[w] = "wlock" /\ pc' = [pc EXCEPT ![w] = "wlock"]
        BY <2>2 DEF WriteYield, TypeOK
      <3>2. CASE Unacked(w) BY <3>1, <3>2, <2>2, <1>a DEF WriteYield, Stopped
      <3>3. CASE ~Unacked(w) BY <3>3, <2>2, <1>s DEF WriteYield, ops
      <3> QED BY <3>2, <3>3
    <2>3. CASE WritePublish(w)
      <3>1. op = NoOp /\ pc[w] = "wlock" /\ op_seq' = op_seq + 1
            /\ UNCHANGED applied_seq
            /\ op' = [writer |-> w, seq |-> op_seq + 1,
                      need |-> Cardinality(Asked(w)), acks |-> 0, asked |-> Asked(w)]
        BY <2>3 DEF WritePublish
      <3>2. \A v \in Workers : pc[v] \notin {"wacks", "write"}
        BY <3>1 DEF BarrierInv, NoOp
      <3>3. \E l \in {"wacks", "write"} :
              pc' = [pc EXCEPT ![w] = l] /\ (l = "write" => Asked(w) = {})
        BY <2>3 DEF WritePublish, Enter, Goto
      <3>a. op'.writer = w /\ op'.seq = op_seq + 1 /\ op'.acks = 0
            /\ op'.asked = Asked(w) /\ op'.need = Cardinality(Asked(w))
        BY <3>1
      <3>b. op_seq \in Nat
            /\ \A v \in Workers : applied_seq[v] \in Nat /\ applied_seq[v] <= op_seq
        BY DEF BarrierInv, TypeOK
      <3>4. Acked' = {}
        <4>1. \A v \in Workers : applied_seq'[v] # op'.seq BY <3>1, <3>a, <3>b
        <4> QED BY <4>1 DEF Acked
      <3>5. Cardinality({}) = 0 BY FS_EmptySet
      <3>6. \A v \in Workers \ {w} : pc'[v] = pc[v] /\ (v \in Asked(w) \/ pc[v] = "foreign")
        BY <3>3 DEF Asked, Here, TypeOK
      <3>7. pc'[w] \in {"wacks", "write"} /\ (pc'[w] = "write" => Cardinality(Asked(w)) = 0)
        BY <3>3, <3>5 DEF TypeOK
      <3>8. \A v \in Workers : applied_seq'[v] <= op_seq'
        BY <3>1 DEF BarrierInv, TypeOK
      <3>9. Asked(w) \subseteq Workers \ {w} BY DEF Asked
      <3>10. op'.writer = w /\ op'.seq = op_seq' /\ op'.acks = 0 /\ op'.asked = Asked(w)
             /\ op'.need = Cardinality(Asked(w)) /\ op_seq' > 0 /\ applied_seq'[w] < op_seq'
        BY <3>1, <3>a, <3>b
      <3>11. \A v \in Workers : pc'[v] \in {"wacks", "write"} => v = w
        BY <3>2, <3>6
      <3>12. \A v \in Workers : pc'[v] = "write" => op'.acks >= op'.need
        BY <3>7, <3>10, <3>11
      <3>13. \A v \in Workers \ {w} : v \in op'.asked \/ pc'[v] = "foreign"
        BY <3>6, <3>10
      <3> QED
        BY <3>4, <3>5, <3>7, <3>8, <3>9, <3>10, <3>11, <3>12, <3>13 DEF BarrierInv
    <2>4. CASE WriteAcks(w)
      <3>1. CASE UNCHANGED pc BY <3>1, <2>4, <1>s DEF WriteAcks
      <3>2. CASE Enter(w) /\ op.acks >= op.need
        <4>1. Acked' = Acked BY <2>4 DEF WriteAcks, Acked
        <4>2. pc[w] = "wacks" /\ op.writer = w
          BY <2>4 DEF WriteAcks, BarrierInv
        <4>3. \A v \in Workers \ {w} : pc'[v] = pc[v]
          BY <3>2 DEF Enter, Goto, TypeOK
        <4>4. pc'[w] = "write" BY <3>2 DEF Enter, Goto, TypeOK
        <4>5. w \notin Acked BY <4>2 DEF Acked
        <4>6. Acked \subseteq Workers BY DEF Acked
        <4> QED BY <4>1, <4>2, <4>3, <4>4, <4>5, <4>6, <3>2, <2>4 DEF WriteAcks, BarrierInv
      <3> QED BY <3>1, <3>2, <2>4 DEF WriteAcks
    <2>5. CASE WriteNested(w) BY <2>5, <1>s DEF WriteNested
    <2>6. CASE WriteNestedEnd(w) BY <2>6, <1>s DEF WriteNestedEnd
    <2>7. CASE WriteEnd(w)
      <3>1. \A v \in Workers : pc'[v] \notin {"wacks", "write"}
        BY <2>7 DEF WriteEnd, Goto, BarrierInv, TypeOK
      <3> QED BY <3>1, <2>7 DEF WriteEnd, BarrierInv
    <2>8. CASE BareEnd(w) BY <2>8, <1>q DEF BareEnd, Goto, Stopped, Labels, ops
    <2> QED BY <1>3, <2>1, <2>2, <2>3, <2>4, <2>5, <2>6, <2>7, <2>8 DEF Write
  <1>4. ASSUME NEW w \in Workers, Away(w) PROVE BarrierInv'
    <2>1. CASE ForeignBegin(w)
      <3>1. CASE Unacked(w) BY <3>1, <2>1, <1>a DEF ForeignBegin, AckOrGo, Goto, Stopped
      <3>2. CASE ~Unacked(w)
        BY <3>2, <2>1, <1>q DEF ForeignBegin, AckOrGo, Goto, Stopped, Labels, ops
      <3> QED BY <3>1, <3>2
    <2>2. CASE ForeignEnd(w)
      <3>1. CASE Unacked(w) BY <3>1, <2>2, <1>a DEF ForeignEnd, AckOrGo, Goto, Stopped
      <3>2. CASE ~Unacked(w)
        <4>1. op = NoOp
          BY <3>2, <2>2 DEF ForeignEnd, Unacked, BarrierInv, Acked, Stopped
        <4> QED BY <4>1, <3>2, <2>2, <1>q DEF ForeignEnd, AckOrGo, Goto, Stopped, Labels, ops
      <3> QED BY <3>1, <3>2
    <2>3. CASE NestBegin(w) BY <2>3, <1>q DEF NestBegin, Goto, Stopped, Labels, ops
    <2>4. CASE NestEnd(w) BY <2>4, <1>q DEF NestEnd, Goto, Stopped, Labels, ops
    <2>5. CASE NestAck(w) BY <2>5, <1>a DEF NestAck, Goto, Stopped
    <2>6. CASE NestRun(w) BY <2>6, <1>q DEF NestRun, Goto, Stopped, Labels, ops
    <2>7. CASE NestSleep(w) BY <2>7, <1>s DEF NestSleep, ops
    <2> QED BY <1>4, <2>1, <2>2, <2>3, <2>4, <2>5, <2>6, <2>7 DEF Away
  <1>5. ASSUME HostStep PROVE BarrierInv'
    <2>1. CASE Start BY <2>1, <1>q DEF Start, Goto, Stopped, Labels, ops
    <2>2. CASE Drain
      <3>1. CASE UNCHANGED pc BY <3>1, <2>2, <1>s DEF Drain, ops
      <3>2. CASE Goto(Host, "join") BY <3>2, <2>2, <1>q DEF Drain, Goto, Stopped, Labels, ops
      <3> QED BY <3>1, <3>2, <2>2 DEF Drain
    <2>3. CASE Join BY <2>3, <1>q DEF Join, Goto, Stopped, Labels, ops
    <2> QED BY <1>5, <2>1, <2>2, <2>3 DEF HostStep
  <1>6. ASSUME NEW w \in Workers, Spurious(w) PROVE BarrierInv'
    BY <1>6, <1>s DEF Spurious, ops
  <1>7. CASE UNCHANGED vars
    BY <1>7, <1>s DEF vars
  <1> QED BY <1>1, <1>2, <1>3, <1>4, <1>5, <1>6, <1>7 DEF Next, Step, Ended

\* The books of the barrier are right in every world, with foreign calls,
\* nested waits and a shutdown at any moment: a write has one writer, it goes
\* on with at least as many acknowledgements as it needs, every worker that
\* acknowledged it stands still until it is over, and a worker it did not ask
\* is away in a foreign call or has acknowledged it on its way back.
THEOREM BarrierHolds == Spec => []BarrierInv
  <1>1. Init => IInv
    <2> SUFFICES ASSUME Init PROVE IInv
      OBVIOUS
    <2>1. TypeOK /\ CountsInv BY InitTypes
    <2>2. BarrierInv BY WorldAssumption DEF Init, BarrierInv
    <2> QED BY <2>1, <2>2 DEF IInv
  <1>2. IInv /\ [Next]_vars => IInv'
    BY TypeStep, CountsStep, BarrierStep DEF IInv
  <1>3. IInv => BarrierInv BY DEF IInv
  <1> QED BY <1>1, <1>2, <1>3, PTL DEF Spec

\* The inductive invariant, for the theorems below.
LEMMA IInvHolds == Spec => []IInv
  <1>1. IInv <=> TypeOK /\ CountsInv /\ BarrierInv BY DEF IInv
  <1> QED BY <1>1, TypeCorrect, BarrierHolds, PTL

\* What a writer knows when its count is full, if every acknowledgement came
\* from a worker it asked: nobody else is in the engine.
LEMMA CountIsEnough == IInv /\ AcksAreAsked => WriteExclusive
  <1> SUFFICES ASSUME IInv, AcksAreAsked, NEW w \in Workers, pc[w] = "write",
                      NEW v \in Workers \ {w}
               PROVE  pc[v] \notin Touching
    BY DEF WriteExclusive
  <1> DEFINE Did == {u \in op.asked : applied_seq[u] = op.seq}
  <1>0. BarrierInv BY DEF IInv
  <1>1. op # NoOp /\ op.writer = w
    <2>1. op.writer = w BY <1>0 DEF BarrierInv
    <2>2. NoOp.writer \notin Workers BY WorldAssumption DEF NoOp
    <2> QED BY <2>1, <2>2
  <1>2. /\ op.asked \in SUBSET Workers /\ Did \in SUBSET op.asked
        /\ op.acks >= Cardinality(op.asked)
    BY <1>1 DEF IInv, BarrierInv, TypeOK
  <1>3. op.acks = Cardinality(Did) BY <1>1 DEF AcksAreAsked
  <1>4. Did = op.asked
    <2> HIDE DEF Did
    <2>1. Cardinality(Did) >= Cardinality(op.asked) BY <1>2, <1>3
    <2>2. op.asked \in SUBSET Workers /\ Did \in SUBSET op.asked BY <1>2
    <2> QED BY <2>1, <2>2, AllOfThem
  <1>5. v \in Acked \/ pc[v] = "foreign"
    BY <1>1, <1>4 DEF IInv, BarrierInv, Acked
  <1>6. pc[v] \in Stopped \/ pc[v] = "foreign"
    BY <1>1, <1>5 DEF IInv, BarrierInv
  <1> QED BY <1>6 DEF Stopped, Touching

\* In every world, a write behind the barrier is exclusive as long as only
\* asked workers acknowledge it (coco_g_ack_wait and coco_g_write_begin count
\* an acknowledgement without looking whether the worker was asked).
THEOREM ExclusiveIfAsked == Spec => [](AcksAreAsked => WriteExclusive)
  <1>1. IInv => (AcksAreAsked => WriteExclusive) BY CountIsEnough
  <1> QED BY <1>1, IInvHolds, PTL

-----------------------------------------------------------------------------
(* What a step may do to the write in flight *)

\* A step leaves the write in flight alone, acknowledges it, publishes one
\* where there was none, or ends it.
LEMMA OpStep ==
  ASSUME [Next]_vars
  PROVE  \/ UNCHANGED <<op, applied_seq>>
         \/ \E w \in Workers : Unacked(w) /\ Ack(w)
         \/ \E w \in Workers : op = NoOp /\ WritePublish(w)
         \/ op' = NoOp /\ UNCHANGED applied_seq
  <1>1. ASSUME NEW w \in Workers, Loop(w)
        PROVE  UNCHANGED <<op, applied_seq>> \/ (Unacked(w) /\ Ack(w))
    BY <1>1 DEF Loop, LoopStop, LoopAck, LoopPick, LoopLeave, LoopDeadlock, LoopIdle,
         LoopWoken, AckWait, ops
  <1>2. ASSUME NEW w \in Workers, Run(w) PROVE UNCHANGED <<op, applied_seq>>
    BY <1>2 DEF Run, RunYield, RunBlock, RunBlocked, RunFinish, RunSpawn, RunWake, ops
  <1>3. ASSUME NEW w \in Workers, Write(w)
        PROVE  \/ UNCHANGED <<op, applied_seq>>
               \/ Unacked(w) /\ Ack(w)
               \/ op = NoOp /\ WritePublish(w)
               \/ op' = NoOp /\ UNCHANGED applied_seq
    <2>1. CASE WritePublish(w) BY <2>1 DEF WritePublish
    <2> QED BY <2>1, <1>3 DEF Write, WriteCheck, WriteYield, WriteAcks, WriteNested,
                 WriteNestedEnd, WriteEnd, BareEnd, ops
  <1>4. ASSUME NEW w \in Workers, Away(w)
        PROVE  UNCHANGED <<op, applied_seq>> \/ (Unacked(w) /\ Ack(w))
    BY <1>4 DEF Away, ForeignBegin, ForeignEnd, AckOrGo, NestBegin, NestEnd, NestAck,
         NestRun, NestSleep, ops
  <1>5. ASSUME HostStep PROVE UNCHANGED <<op, applied_seq>>
    BY <1>5 DEF HostStep, Start, Drain, Join, ops
  <1>6. ASSUME NEW w \in Workers, Spurious(w) PROVE UNCHANGED <<op, applied_seq>>
    BY <1>6 DEF Spurious, ops
  <1>7. CASE UNCHANGED vars BY <1>7 DEF vars
  <1> QED BY <1>1, <1>2, <1>3, <1>4, <1>5, <1>6, <1>7 DEF Next, Step, Ended

\* A worker that acknowledged a write touches the store again only once that
\* write is over, in every world: coco_g_ack_wait compares the sequence number.
THEOREM AckedStands == Spec => AckedStandsStill
  <1>1. IInv /\ IInv' /\ [Next]_vars =>
          [\A w \in Workers :
             /\ op # NoOp /\ applied_seq[w] = op.seq
             /\ op'.seq = op.seq
             => pc'[w] \notin Touching]_vars
    <2> SUFFICES ASSUME IInv, IInv', [Next]_vars, NEW w \in Workers,
                        op # NoOp, applied_seq[w] = op.seq, op'.seq = op.seq
                 PROVE  pc'[w] \notin Touching
      OBVIOUS
    <2>1. op.seq > 0 /\ op.seq = op_seq /\ w # op.writer
      <3>1. op.seq = op_seq /\ op_seq > 0 /\ applied_seq[op.writer] < op_seq
        BY DEF IInv, BarrierInv
      <3>2. op_seq \in Nat /\ applied_seq \in [Workers -> Nat] BY DEF IInv, TypeOK
      <3> QED BY <3>1, <3>2
    <2>2. op' # NoOp
      <3>1. NoOp.seq = 0 BY DEF NoOp
      <3> QED BY <2>1, <3>1
    <2>3. op'.writer = op.writer /\ applied_seq'[w] = op.seq
      <3>1. CASE UNCHANGED <<op, applied_seq>> BY <3>1
      <3>2. CASE \E v \in Workers : Unacked(v) /\ Ack(v)
        BY <3>2 DEF Ack, IInv, TypeOK
      <3> QED BY <3>1, <3>2, <2>2, OpStep
    <2>4. w \in Acked' BY <2>1, <2>3 DEF Acked
    <2>5. NoOp' = NoOp BY DEF NoOp
    <2>6. pc'[w] \in Stopped' BY <2>2, <2>4, <2>5 DEF IInv, BarrierInv
    <2> QED BY <2>6 DEF Stopped, Touching
  <1> QED BY <1>1, IInvHolds, PTL DEF Spec, AckedStandsStill

-----------------------------------------------------------------------------
(* A world whose tasks make no foreign calls *)

\* Nobody is away, so every write asks everybody else.
NobodyAway ==
  /\ \A w \in Workers : pc[w] \notin {"foreign", "fbwait"}
  /\ op # NoOp => op.asked = Workers \ {op.writer}

\* Without coco_g_foreign_begin no step takes a worker away.
LEMMA NobodyAwayStep ==
  ASSUME ForeignWorkers = {}
  PROVE  IInv /\ NobodyAway /\ [Next]_vars => NobodyAway'
  <1> SUFFICES ASSUME IInv, NobodyAway, [Next]_vars PROVE NobodyAway'
    OBVIOUS
  <1>1. \A w \in Workers : pc'[w] \notin {"foreign", "fbwait"}
    <2>m. ASSUME NEW w \in Workers, NEW l, pc' = [pc EXCEPT ![w] = l],
                 l \notin {"foreign", "fbwait"}
          PROVE  \A v \in Workers : pc'[v] \notin {"foreign", "fbwait"}
      BY <2>m DEF NobodyAway, IInv, TypeOK
    <2>1. ASSUME NEW w \in Workers, Loop(w) PROVE <1>1!:
      <3>1. CASE AckWait(w)
        <4>1. pc[w] \in {"ackwait", "fewait", "nackwait"}
          BY <3>1 DEF AckWait, AfterAckWait, NobodyAway
        <4>2. AfterAckWait[pc[w]] \notin {"foreign", "fbwait"}
          BY <4>1 DEF AfterAckWait
        <4> QED BY <4>2, <3>1, <2>m DEF AckWait, Goto, NobodyAway
      <3>2. CASE LoopIdle(w) BY <3>2, <2>m DEF LoopIdle, Goto, NobodyAway
      <3>l. CASE Leave(w)
        <4>1. \E l \in {"drain", "exit"} : pc' = [pc EXCEPT ![w] = l]
          BY Zenon, <3>l DEF Leave, Goto
        <4>2. PICK l \in {"drain", "exit"} : pc' = [pc EXCEPT ![w] = l] BY <4>1
        <4>3. l \notin {"foreign", "fbwait"} BY <4>2
        <4> QED BY <4>2, <4>3, <2>m
      <3>3. CASE LoopStop(w) BY <3>3, <3>l DEF LoopStop
      <3>4. CASE LoopAck(w) BY <3>4, <2>m DEF LoopAck, Goto
      <3>5. CASE LoopPick(w) BY <3>5, <2>m DEF LoopPick, Goto
      <3>6. CASE LoopLeave(w) BY <3>6, <3>l DEF LoopLeave
      <3>7. CASE LoopDeadlock(w) BY <3>7, <3>l DEF LoopDeadlock
      <3>8. CASE LoopWoken(w) BY <3>8, <2>m DEF LoopWoken, Goto
      <3> QED BY <3>1, <3>2, <3>3, <3>4, <3>5, <3>6, <3>7, <3>8, <2>1 DEF Loop
    <2>2. ASSUME NEW w \in Workers, Run(w) PROVE <1>1!:
      <3>1. CASE \E l \in {"loop", "nloop", "unwind"} : Goto(w, l)
        BY <3>1, <2>m DEF Goto
      <3>2. CASE UNCHANGED pc BY <3>2 DEF NobodyAway
      <3>3. Return(w) \in {"loop", "nloop"} BY DEF Return
      <3>4. ASSUME NEW isMain \in BOOLEAN, RunFinish(w, isMain) PROVE Goto(w, Return(w))
        BY <3>4 DEF RunFinish
      <3>5. ASSUME NEW v \in Workers, RunSpawn(w, v) \/ RunWake(w, v) PROVE UNCHANGED pc
        BY <3>5 DEF RunSpawn, RunWake
      <3> QED BY <3>1, <3>2, <3>3, <3>4, <3>5, <2>2 DEF Run, RunYield, RunBlock, RunBlocked
    <2>3. ASSUME NEW w \in Workers, Write(w) PROVE <1>1!:
      <3>1. ASSUME WriteCheck(w) PROVE Goto(w, "bare") \/ Goto(w, "wlock")
        BY <3>1 DEF WriteCheck
      <3>2. CASE UNCHANGED pc BY <3>2 DEF NobodyAway
      <3>3. CASE \E l \in {"write", "wacks", "run", "bare", "wlock"} : Goto(w, l)
        BY <3>3, <2>m DEF Goto
      <3>4. ASSUME WriteYield(w) \/ WriteNested(w) \/ WriteNestedEnd(w) PROVE UNCHANGED pc
        BY <3>4 DEF WriteYield, WriteNested, WriteNestedEnd
      <3>5. ASSUME WritePublish(w) PROVE Goto(w, "write") \/ Goto(w, "wacks")
        BY <3>5 DEF WritePublish, Enter
      <3>6. ASSUME WriteAcks(w) PROVE Goto(w, "write") \/ UNCHANGED pc
        BY <3>6 DEF WriteAcks, Enter
      <3>7. ASSUME WriteEnd(w) \/ BareEnd(w) PROVE Goto(w, "run")
        BY <3>7 DEF WriteEnd, BareEnd
      <3> QED BY <3>1, <3>2, <3>3, <3>4, <3>5, <3>6, <3>7, <2>3 DEF Write
    <2>4. ASSUME NEW w \in Workers, Away(w) PROVE <1>1!:
      <3>1. ~ForeignBegin(w) /\ ~ForeignEnd(w)
        BY DEF ForeignBegin, ForeignEnd, NobodyAway
      <3>2. CASE UNCHANGED pc BY <3>2 DEF NobodyAway
      <3>3. CASE \E l \in {"nloop", "nackwait", "run"} : Goto(w, l) BY <3>3, <2>m DEF Goto
      <3>4. ASSUME NestBegin(w) PROVE Goto(w, "nloop") BY <3>4 DEF NestBegin
      <3>5. ASSUME NestEnd(w) \/ NestRun(w) PROVE Goto(w, "run") BY <3>5 DEF NestEnd, NestRun
      <3>6. ASSUME NestAck(w) PROVE Goto(w, "nackwait") BY <3>6 DEF NestAck
      <3>7. ASSUME NestSleep(w) PROVE UNCHANGED pc BY <3>7 DEF NestSleep
      <3> QED BY <3>1, <3>2, <3>3, <3>4, <3>5, <3>6, <3>7, <2>4 DEF Away
    <2>5. ASSUME HostStep PROVE <1>1!:
      <3>1. Host \in Workers BY WorldAssumption
      <3>2. CASE \E l \in {"loop", "join", "end"} : pc' = [pc EXCEPT ![Host] = l]
        BY <3>1, <3>2, <2>m
      <3>3. CASE UNCHANGED pc BY <3>3 DEF NobodyAway
      <3>4. ASSUME Start PROVE pc' = [pc EXCEPT ![Host] = "loop"] BY <3>4 DEF Start, Goto
      <3>5. ASSUME Drain PROVE UNCHANGED pc \/ pc' = [pc EXCEPT ![Host] = "join"]
        BY <3>5 DEF Drain, Goto
      <3>6. ASSUME Join PROVE pc' = [pc EXCEPT ![Host] = "end"] BY <3>6 DEF Join, Goto
      <3> QED BY <3>2, <3>3, <3>4, <3>5, <3>6, <2>5 DEF HostStep
    <2>6. ASSUME UNCHANGED pc PROVE <1>1!:
      BY <2>6 DEF NobodyAway
    <2> QED BY <2>1, <2>2, <2>3, <2>4, <2>5, <2>6 DEF Next, Step, Spurious, Ended, vars
  <1>2. op' # NoOp => op'.asked = Workers \ {op'.writer}
    <2>1. CASE \E w \in Workers : Unacked(w) /\ Ack(w)
      BY <2>1 DEF Unacked, Ack, NobodyAway, IInv, TypeOK
    <2>2. CASE \E w \in Workers : op = NoOp /\ WritePublish(w)
      BY <2>2 DEF WritePublish, Asked, Here, NobodyAway
    <2>3. CASE UNCHANGED op BY <2>3 DEF NobodyAway
    <2> QED BY <2>1, <2>2, <2>3, OpStep
  <1> QED BY <1>1, <1>2 DEF NobodyAway, NoOp

\* Where every write asks everybody else, every acknowledgement is asked for.
LEMMA AskedAll == IInv /\ NobodyAway => AcksAreAsked
  <1> SUFFICES ASSUME IInv, NobodyAway, op # NoOp
               PROVE  op.acks = Cardinality({v \in op.asked : applied_seq[v] = op.seq})
    BY DEF AcksAreAsked
  <1>1. Acked = {v \in op.asked : applied_seq[v] = op.seq}
    BY DEF Acked, NobodyAway
  <1> QED BY <1>1 DEF IInv, BarrierInv

\* A WRITE STOPS THE WORLD BEFORE IT LANDS: with no foreign calls, for any
\* number of workers, any tasks and any interleaving, while one worker is
\* inside coco_g_write_begin .. coco_g_write_end no other is in the engine or
\* the store.
THEOREM ExclusiveWithoutForeign ==
  ASSUME ForeignWorkers = {}
  PROVE  Spec => [](AcksAreAsked /\ WriteExclusive)
  <1>1. Init => NobodyAway BY DEF Init, NobodyAway
  <1>2. IInv /\ NobodyAway /\ [Next]_vars => NobodyAway' BY NobodyAwayStep
  <1>3. IInv /\ NobodyAway => AcksAreAsked /\ WriteExclusive
    BY AskedAll, CountIsEnough
  <1> QED BY <1>1, <1>2, <1>3, IInvHolds, PTL DEF Spec
=============================================================================
