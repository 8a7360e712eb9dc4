---------------------------- MODULE GreenBarrier ----------------------------
(***************************************************************************)
(* The world of green workers (lib/green.cicili): the worker loop, the     *)
(* stop-the-world write barrier, the foreign-call handshake, the nested    *)
(* wait as a safe point, and the end of the world.                         *)
(*                                                                         *)
(* One action is one critical section of the world lock (or one step taken *)
(* outside it).  The tasks are abstracted to how many of them are ready,   *)
(* blocked and waiting inside a nested engine on each worker: what a task  *)
(* computes, and which task a wake is for, is left to GreenTasks.          *)
(***************************************************************************)
EXTENDS Naturals, FiniteSets

CONSTANTS
  Workers,         \* the workers of the world
  Host,            \* worker 0: the thread that called async_run
  Nobody,          \* the writer of no operation
  ForeignWorkers,  \* the workers whose tasks make non-store foreign calls
  NestWorkers,     \* the workers whose tasks wait inside a nested engine
  MainAwaitsAll,   \* TRUE: the main task ends after every other task has
  EndlessTasks,    \* TRUE: a task may yield for ever
  MaxOps           \* bound: operations the whole workload performs

ASSUME WorldAssumption ==
  /\ IsFiniteSet(Workers)
  /\ Host \in Workers
  /\ Nobody \notin Workers
  /\ ForeignWorkers \subseteq Workers
  /\ NestWorkers \subseteq Workers
  /\ MainAwaitsAll \in BOOLEAN
  /\ EndlessTasks \in BOOLEAN
  /\ MaxOps \in Nat

VARIABLES
  pc,           \* where each worker stands (see Labels)
  op,           \* the write in flight, or NoOp
  op_seq,       \* the sequence number of the last write published
  applied_seq,  \* the last write each worker acknowledged
  depth,        \* the barrier scopes each worker is inside
  ready,        \* tasks in state 0 pinned to each worker, the running one too
  blocked,      \* tasks in state 1 pinned to each worker
  nest,         \* tasks in state 3: waiting inside a nested engine
  poked,        \* wgen # wseen: a signal came since the worker last looked
  asleep,       \* workers inside pthread_cond_wait on their own wake
  opWait,       \* workers inside pthread_cond_wait on op_done
  chgWait,      \* workers inside pthread_cond_wait on changed
  main_done,    \* the main task has ended
  stop,         \* the world was told to stop
  fuel          \* operations the workload may still perform

tasks == <<ready, blocked, nest>>
ops   == <<op, op_seq, applied_seq, depth>>
waits == <<poked, asleep, opWait, chgWait>>
vars  == <<pc, op, op_seq, applied_seq, depth, ready, blocked, nest,
           poked, asleep, opWait, chgWait, main_done, stop, fuel>>

NoOp == [writer |-> Nobody, seq |-> 0, need |-> 0, acks |-> 0, asked |-> {}]

Labels == {"start",    \* the host, before it made the main task
           "loop",     \* the top of the worker loop
           "asleep",   \* the loop's wait on the worker's own wake
           "ackwait",  \* the loop acknowledged a write and waits for its end
           "run",      \* inside the engine: the worker reads the store
           "unwind",   \* the task blocked; the engine is returning
           "wlock",    \* write_begin: before, or inside, its wait for op = nil
           "wacks",    \* write_begin: published, waiting for the acks
           "write",    \* changing the store behind the barrier
           "bare",     \* changing the store with no barrier taken
           "fbwait",   \* foreign_begin acknowledged and waits
           "foreign",  \* away in a non-store foreign call
           "fewait",   \* foreign_end acknowledged and waits
           "nloop",    \* the loop of a wait inside a nested engine
           "nackwait", \* that loop acknowledged and waits
           "drain",    \* the host left its loop: waits for op = nil
           "join",     \* the host told the world to stop and joins
           "end",      \* async_run returned
           "exit"}     \* a worker thread that returned

\* A worker in one of these places is inside the engine or the store.
Touching == {"run", "write", "bare"}

-----------------------------------------------------------------------------
Goto(w, l) == pc' = [pc EXCEPT ![w] = l]

\* coco_g_poke on every worker of S: the generation moves, the worker's own
\* wait is signalled, and every nested waiter is woken.
Poke(S) ==
  /\ poked' = [w \in Workers |-> w \in S \/ poked[w]]
  /\ asleep' = asleep \ S
  /\ chgWait' = {}

Unacked(w) == /\ op # NoOp
              /\ op.writer # w
              /\ applied_seq[w] # op.seq

\* Acknowledge the write in flight, tell its writer when it was the last
\* acknowledgement, and go to sleep on op_done.
Ack(w) ==
  /\ applied_seq' = [applied_seq EXCEPT ![w] = op.seq]
  /\ op' = [op EXCEPT !.acks = @ + 1]
  /\ opWait' = (IF op.acks + 1 >= op.need THEN {} ELSE opWait) \cup {w}
  /\ UNCHANGED <<op_seq, depth>>

\* The sequence is compared, never the pointer: a new write at the address of
\* the old one is a different write.
AckedIsOver(w) == op = NoOp \/ op.seq # applied_seq[w]

NoneReady == \A w \in Workers : ready[w] = 0

\* coco_g_deadlock's conditions, on the state after a step.
DeadWorld(rd) ==
  /\ pc[Host] # "start"
  /\ ~main_done
  /\ \A w \in Workers : nest[w] = 0
  /\ op = NoOp
  /\ \A w \in Workers : rd[w] = 0

\* Mutant of Finish: the end of the main task signals only its waiters.
FinishQuietly(w, isMain, rd, bl, S) ==
  /\ S \subseteq {v \in Workers : bl[v] > 0}
  /\ ready' = [v \in Workers |-> IF v \in S THEN rd[v] + 1 ELSE rd[v]]
  /\ blocked' = [v \in Workers |-> IF v \in S THEN bl[v] - 1 ELSE bl[v]]
  /\ main_done' = (main_done \/ isMain)
  /\ Poke(S)

\* coco_g_finish on a task of worker w, waking the tasks that await it: at
\* most one per worker of S.  isMain: the task is the main one.
Finish(w, isMain, rd, bl, S) ==
  /\ S \subseteq {v \in Workers : bl[v] > 0}
  /\ ready' = [v \in Workers |-> IF v \in S THEN rd[v] + 1 ELSE rd[v]]
  /\ blocked' = [v \in Workers |-> IF v \in S THEN bl[v] - 1 ELSE bl[v]]
  /\ main_done' = (main_done \/ isMain)
  /\ Poke(IF isMain THEN Workers ELSE S)

\* coco_g_deadlock ends the main task, which is blocked on the host.
KillMain ==
  \E S \in SUBSET Workers :
    Finish(Host, TRUE, ready, [blocked EXCEPT ![Host] = @ - 1], S)

-----------------------------------------------------------------------------
(* async_run before the loop: the workers run before the main task is made *)

Start ==
  /\ pc[Host] = "start"
  /\ ready' = [ready EXCEPT ![Host] = 1]
  /\ Goto(Host, "loop")
  /\ UNCHANGED <<ops, blocked, nest, waits, main_done, stop, fuel>>

-----------------------------------------------------------------------------
(* coco_g_worker_loop *)

Leave(w) == Goto(w, IF w = Host THEN "drain" ELSE "exit")

LoopStop(w) ==
  /\ pc[w] = "loop" /\ stop
  /\ Leave(w)
  /\ UNCHANGED <<ops, tasks, waits, main_done, stop, fuel>>

LoopAck(w) ==
  /\ pc[w] = "loop" /\ ~stop /\ Unacked(w)
  /\ Ack(w)
  /\ Goto(w, "ackwait")
  /\ UNCHANGED <<tasks, poked, asleep, chgWait, main_done, stop, fuel>>

LoopPick(w) ==
  /\ pc[w] = "loop" /\ ~stop /\ ~Unacked(w)
  /\ ready[w] > 0
  /\ Goto(w, "run")
  /\ UNCHANGED <<ops, tasks, waits, main_done, stop, fuel>>

LoopLeave(w) ==
  /\ pc[w] = "loop" /\ ~stop /\ ~Unacked(w) /\ ready[w] = 0
  /\ main_done
  /\ Leave(w)
  /\ UNCHANGED <<ops, tasks, waits, main_done, stop, fuel>>

LoopDeadlock(w) ==
  /\ pc[w] = "loop" /\ ~stop /\ ~Unacked(w) /\ ready[w] = 0
  /\ DeadWorld(ready)
  /\ KillMain
  /\ Leave(w)
  /\ UNCHANGED <<ops, nest, opWait, stop, fuel>>

\* Nothing to do: look again if a signal came or a write is in flight, and
\* sleep otherwise.
LoopIdle(w) ==
  /\ pc[w] = "loop" /\ ~stop /\ ~Unacked(w) /\ ready[w] = 0
  /\ ~main_done /\ ~DeadWorld(ready)
  /\ IF poked[w] \/ op # NoOp
       THEN /\ poked' = [poked EXCEPT ![w] = FALSE]
            /\ UNCHANGED <<pc, asleep>>
       ELSE /\ asleep' = asleep \cup {w}
            /\ Goto(w, "asleep")
            /\ UNCHANGED poked
  /\ UNCHANGED <<ops, tasks, opWait, chgWait, main_done, stop, fuel>>

LoopWoken(w) ==
  /\ pc[w] = "asleep" /\ w \notin asleep
  /\ poked' = [poked EXCEPT ![w] = FALSE]
  /\ Goto(w, "loop")
  /\ UNCHANGED <<ops, tasks, asleep, opWait, chgWait, main_done, stop, fuel>>

\* Where a worker goes once the write it acknowledged is over.
AfterAckWait == [ackwait  |-> "loop",    fbwait   |-> "foreign",
                 fewait   |-> "run",     nackwait |-> "nloop"]

\* Mutant of AckWait: woken is taken for released, the sequence not compared.
AckWaitOnce(w) ==
  /\ pc[w] \in DOMAIN AfterAckWait /\ w \notin opWait
  /\ Goto(w, AfterAckWait[pc[w]])
  /\ UNCHANGED <<ops, tasks, waits, main_done, stop, fuel>>

AckWait(w) ==
  /\ pc[w] \in DOMAIN AfterAckWait /\ w \notin opWait
  /\ IF AckedIsOver(w)
       THEN Goto(w, AfterAckWait[pc[w]]) /\ UNCHANGED opWait
       ELSE opWait' = opWait \cup {w} /\ UNCHANGED pc
  /\ UNCHANGED <<ops, tasks, poked, asleep, chgWait, main_done, stop, fuel>>

-----------------------------------------------------------------------------
(* coco_g_run: what a task does while its worker is inside the engine *)

\* A run inside a nested wait returns to that wait's loop.
Return(w) == IF nest[w] > 0 THEN "nloop" ELSE "loop"

Burn == fuel > 0 /\ fuel' = fuel - 1

\* The quantum's stop and yield/0: the task stays ready.
RunYield(w) ==
  /\ pc[w] = "run"
  /\ IF EndlessTasks THEN UNCHANGED fuel ELSE Burn
  /\ Goto(w, Return(w))
  /\ UNCHANGED <<ops, tasks, waits, main_done, stop>>

\* await, send or recv outside a nested engine: the task is blocked at once,
\* the engine returns afterwards.
RunBlock(w) ==
  /\ pc[w] = "run"
  /\ ready' = [ready EXCEPT ![w] = @ - 1]
  /\ blocked' = [blocked EXCEPT ![w] = @ + 1]
  /\ Goto(w, "unwind")
  /\ UNCHANGED <<ops, nest, waits, main_done, stop, fuel>>

\* The end of coco_g_run: a block can leave the world dead, and it asks.  What
\* happens when the task that blocked was ended meanwhile is GreenTasks'.
RunBlocked(w) ==
  /\ pc[w] = "unwind"
  /\ Goto(w, Return(w))
  /\ IF DeadWorld(ready)
       THEN KillMain /\ UNCHANGED nest
       ELSE UNCHANGED <<tasks, poked, asleep, chgWait, main_done>>
  /\ UNCHANGED <<ops, opWait, stop, fuel>>

\* The tasks of worker w, in any state.
Tasks(w) == ready[w] + blocked[w] + nest[w]

\* The task ends.  The main task is one of the host's and stays among them
\* until it ends.
RunFinish(w, isMain) ==
  /\ pc[w] = "run"
  /\ isMain => /\ w = Host /\ ~main_done
               /\ MainAwaitsAll =>
                    \A v \in Workers : Tasks(v) = IF v = Host THEN 1 ELSE 0
  /\ (~isMain /\ w = Host /\ ~main_done) => Tasks(Host) > 1
  /\ \E S \in SUBSET Workers :
       Finish(w, isMain, [ready EXCEPT ![w] = @ - 1], blocked, S)
  /\ Goto(w, Return(w))
  /\ UNCHANGED <<ops, nest, opWait, stop, fuel>>

\* coco_g_spawn: a task is made on worker v.
RunSpawn(w, v) ==
  /\ pc[w] = "run" /\ Burn
  /\ ready' = [ready EXCEPT ![v] = @ + 1]
  /\ Poke({v})
  /\ UNCHANGED <<pc, ops, blocked, nest, opWait, main_done, stop>>

\* A send, a receive or a close resumes a task blocked on worker v.
RunWake(w, v) ==
  /\ pc[w] = "run" /\ blocked[v] > 0 /\ Burn
  /\ ready' = [ready EXCEPT ![v] = @ + 1]
  /\ blocked' = [blocked EXCEPT ![v] = @ - 1]
  /\ Poke({v})
  /\ UNCHANGED <<pc, ops, nest, opWait, main_done, stop>>

-----------------------------------------------------------------------------
(* coco_g_write_begin, coco_g_write_end, coco_g_write_end_cleanup *)

\* The checks before the lock.  A world that is ending takes no barrier.
WriteCheck(w) ==
  /\ pc[w] = "run" /\ Burn
  /\ Goto(w, IF stop \/ main_done THEN "bare" ELSE "wlock")
  /\ UNCHANGED <<ops, tasks, waits, main_done, stop>>

\* Mutant of WriteYield: a writer waits its turn without acknowledging.
WriteYieldNoAck(w) ==
  /\ pc[w] = "wlock" /\ w \notin opWait /\ op # NoOp
  /\ opWait' = opWait \cup {w}
  /\ UNCHANGED <<pc, ops, tasks, poked, asleep, chgWait, main_done, stop, fuel>>

\* Another write is in flight: acknowledge it once, and wait for it to clear.
WriteYield(w) ==
  /\ pc[w] = "wlock" /\ w \notin opWait /\ op # NoOp
  /\ IF Unacked(w)
       THEN Ack(w)
       ELSE opWait' = opWait \cup {w} /\ UNCHANGED ops
  /\ UNCHANGED <<pc, tasks, poked, asleep, chgWait, main_done, stop, fuel>>

\* foreign = 0
Here(w) == pc[w] # "foreign"

Asked(w) == {v \in Workers \ {w} : Here(v)}

Enter(w) == Goto(w, "write") /\ depth' = [depth EXCEPT ![w] = 1]

WritePublish(w) ==
  /\ pc[w] = "wlock" /\ w \notin opWait /\ op = NoOp
  /\ op_seq' = op_seq + 1
  /\ op' = [writer |-> w, seq |-> op_seq + 1, need |-> Cardinality(Asked(w)),
            acks |-> 0, asked |-> Asked(w)]
  /\ Poke(Workers)
  /\ IF Asked(w) = {}
       THEN Enter(w) /\ UNCHANGED opWait
       ELSE Goto(w, "wacks") /\ opWait' = opWait \cup {w} /\ UNCHANGED depth
  /\ UNCHANGED <<applied_seq, tasks, main_done, stop, fuel>>

WriteAcks(w) ==
  /\ pc[w] = "wacks" /\ w \notin opWait
  /\ IF op.acks >= op.need
       THEN Enter(w) /\ UNCHANGED opWait
       ELSE opWait' = opWait \cup {w} /\ UNCHANGED <<pc, depth>>
  /\ UNCHANGED <<op, op_seq, applied_seq, tasks, poked, asleep, chgWait,
                 main_done, stop, fuel>>

\* A store call inside another's barrier: write_begin answers 0.
WriteNested(w) ==
  /\ pc[w] = "write" /\ Burn
  /\ depth' = [depth EXCEPT ![w] = @ + 1]
  /\ UNCHANGED <<pc, op, op_seq, applied_seq, tasks, waits, main_done, stop>>

\* Mutant of WriteNestedEnd: the inner scope's cleanup ends the barrier.
WriteNestedEndsAll(w) ==
  /\ pc[w] = "write" /\ depth[w] > 1
  /\ depth' = [depth EXCEPT ![w] = @ - 1]
  /\ op' = NoOp
  /\ opWait' = {}
  /\ UNCHANGED <<pc, op_seq, applied_seq, tasks, poked, asleep, chgWait,
                 main_done, stop, fuel>>

\* The cleanup of a scope that did not begin the barrier ends nothing.
WriteNestedEnd(w) ==
  /\ pc[w] = "write" /\ depth[w] > 1
  /\ depth' = [depth EXCEPT ![w] = @ - 1]
  /\ UNCHANGED <<pc, op, op_seq, applied_seq, tasks, waits,
                 main_done, stop, fuel>>

WriteEnd(w) ==
  /\ pc[w] = "write" /\ depth[w] = 1
  /\ depth' = [depth EXCEPT ![w] = 0]
  /\ op' = NoOp
  /\ opWait' = {}
  /\ Goto(w, "run")
  /\ UNCHANGED <<op_seq, applied_seq, tasks, poked, asleep, chgWait,
                 main_done, stop, fuel>>

BareEnd(w) ==
  /\ pc[w] = "bare"
  /\ Goto(w, "run")
  /\ UNCHANGED <<ops, tasks, waits, main_done, stop, fuel>>

-----------------------------------------------------------------------------
(* coco_g_foreign_begin, coco_g_foreign_end: both through coco_g_ack_wait *)

AckOrGo(w, wait, go) ==
  /\ IF Unacked(w)
       THEN Ack(w) /\ Goto(w, wait)
       ELSE Goto(w, go) /\ UNCHANGED <<ops, opWait>>
  /\ UNCHANGED <<tasks, poked, asleep, chgWait, main_done, stop>>

ForeignBegin(w) ==
  /\ w \in ForeignWorkers
  /\ pc[w] = "run" /\ Burn
  /\ AckOrGo(w, "fbwait", "foreign")

ForeignEnd(w) ==
  /\ pc[w] = "foreign"
  /\ AckOrGo(w, "fewait", "run")
  /\ UNCHANGED fuel

-----------------------------------------------------------------------------
(* coco_g_await_here and coco_g_wait_resume: one turn of their loop *)

NestBegin(w) ==
  /\ w \in NestWorkers
  /\ pc[w] = "run" /\ Burn
  /\ ready' = [ready EXCEPT ![w] = @ - 1]
  /\ nest' = [nest EXCEPT ![w] = @ + 1]
  /\ Goto(w, "nloop")
  /\ UNCHANGED <<ops, blocked, waits, main_done, stop>>

\* The answer is there, or nothing in the world can run and the wait raises
\* the deadlock: either way the task goes on.
NestEnd(w) ==
  /\ pc[w] = "nloop" /\ w \notin chgWait
  /\ ready' = [ready EXCEPT ![w] = @ + 1]
  /\ nest' = [nest EXCEPT ![w] = @ - 1]
  /\ Goto(w, "run")
  /\ UNCHANGED <<ops, blocked, waits, main_done, stop, fuel>>

NestAck(w) ==
  /\ pc[w] = "nloop" /\ w \notin chgWait /\ Unacked(w)
  /\ Ack(w)
  /\ Goto(w, "nackwait")
  /\ UNCHANGED <<tasks, poked, asleep, chgWait, main_done, stop, fuel>>

NestRun(w) ==
  /\ pc[w] = "nloop" /\ w \notin chgWait /\ ~Unacked(w)
  /\ ready[w] > 0
  /\ Goto(w, "run")
  /\ UNCHANGED <<ops, tasks, waits, main_done, stop, fuel>>

NestSleep(w) ==
  /\ pc[w] = "nloop" /\ w \notin chgWait /\ ~Unacked(w)
  /\ ready[w] = 0 /\ ~NoneReady
  /\ chgWait' = chgWait \cup {w}
  /\ UNCHANGED <<pc, ops, tasks, poked, asleep, opWait, main_done, stop, fuel>>

-----------------------------------------------------------------------------
(* async_run after the loop *)

\* A write still in flight finishes before the world stops.
Drain ==
  /\ pc[Host] = "drain" /\ Host \notin opWait
  /\ IF op # NoOp
       THEN /\ opWait' = opWait \cup {Host}
            /\ UNCHANGED <<pc, poked, asleep, chgWait, stop>>
       ELSE /\ stop' = TRUE
            /\ Poke(Workers)
            /\ Goto(Host, "join")
            /\ UNCHANGED opWait
  /\ UNCHANGED <<ops, tasks, main_done, fuel>>

Join ==
  /\ pc[Host] = "join"
  /\ \A w \in Workers \ {Host} : pc[w] = "exit"
  /\ Goto(Host, "end")
  /\ UNCHANGED <<ops, tasks, waits, main_done, stop, fuel>>

\* POSIX lets a condition wait return with nothing signalled.
Spurious(w) ==
  /\ w \in asleep \cup opWait \cup chgWait
  /\ asleep' = asleep \ {w}
  /\ opWait' = opWait \ {w}
  /\ chgWait' = chgWait \ {w}
  /\ UNCHANGED <<pc, ops, tasks, poked, main_done, stop, fuel>>

Ended == pc[Host] = "end" /\ UNCHANGED vars

-----------------------------------------------------------------------------
Init ==
  /\ pc = [w \in Workers |-> IF w = Host THEN "start" ELSE "loop"]
  /\ op = NoOp /\ op_seq = 0
  /\ applied_seq = [w \in Workers |-> 0]
  /\ depth = [w \in Workers |-> 0]
  /\ ready = [w \in Workers |-> 0]
  /\ blocked = [w \in Workers |-> 0]
  /\ nest = [w \in Workers |-> 0]
  /\ poked = [w \in Workers |-> FALSE]
  /\ asleep = {} /\ opWait = {} /\ chgWait = {}
  /\ main_done = FALSE /\ stop = FALSE
  /\ fuel = MaxOps

\* What a worker thread does by itself.
Loop(w) == \/ LoopStop(w) \/ LoopAck(w) \/ LoopPick(w) \/ LoopLeave(w)
           \/ LoopDeadlock(w) \/ LoopIdle(w) \/ LoopWoken(w) \/ AckWait(w)

Run(w) == \/ RunYield(w) \/ RunBlock(w) \/ RunBlocked(w)
          \/ \E isMain \in BOOLEAN : RunFinish(w, isMain)
          \/ \E v \in Workers : RunSpawn(w, v) \/ RunWake(w, v)

Write(w) == \/ WriteCheck(w) \/ WriteYield(w) \/ WritePublish(w)
            \/ WriteAcks(w) \/ WriteNested(w) \/ WriteNestedEnd(w)
            \/ WriteEnd(w) \/ BareEnd(w)

Away(w) == \/ ForeignBegin(w) \/ ForeignEnd(w)
           \/ NestBegin(w) \/ NestEnd(w) \/ NestAck(w) \/ NestRun(w)
           \/ NestSleep(w)

Step(w) == Loop(w) \/ Run(w) \/ Write(w) \/ Away(w)

HostStep == Start \/ Drain \/ Join

Next == \/ \E w \in Workers : Step(w)
        \/ HostStep
        \/ \E w \in Workers : Spurious(w)
        \/ Ended

\* Every thread that can take a step takes one.
Fairness == (\A w \in Workers : WF_vars(Step(w))) /\ WF_vars(HostStep)

Spec == Init /\ [][Next]_vars

FairSpec == Spec /\ Fairness

-----------------------------------------------------------------------------
\* Every variable of the world keeps its type: in particular no count of tasks
\* goes below zero when coco_g_run, coco_g_wake and the nested waits move a
\* task from one state to another.
TypeOK ==
  /\ pc \in [Workers -> Labels]
  /\ op \in [writer : Workers \cup {Nobody}, seq : Nat, need : Nat, acks : Nat,
             asked : SUBSET Workers]
  /\ op_seq \in Nat
  /\ applied_seq \in [Workers -> Nat]
  /\ depth \in [Workers -> Nat]
  /\ ready \in [Workers -> Nat]
  /\ blocked \in [Workers -> Nat]
  /\ nest \in [Workers -> Nat]
  /\ poked \in [Workers -> BOOLEAN]
  /\ asleep \subseteq Workers
  /\ opWait \subseteq Workers
  /\ chgWait \subseteq Workers
  /\ main_done \in BOOLEAN
  /\ stop \in BOOLEAN
  /\ fuel \in Nat

\* The places a worker is at while it is inside a task.
Inside == {"run", "wlock", "wacks", "write", "bare", "fbwait", "foreign",
           "fewait"}

\* What the task counts say of where a worker stands: a worker inside the
\* engine is inside a task whose state is still 0 (the comment on
\* coco_g_deadlock), a wait of coco_g_await_here or coco_g_wait_resume is
\* counted, and until it ends the main task is one of the host's.
CountsInv ==
  /\ \A w \in Workers : pc[w] \in Inside => ready[w] > 0
  /\ \A w \in Workers : pc[w] \in {"nloop", "nackwait"} => nest[w] > 0
  /\ ~main_done /\ pc[Host] # "start" => Tasks(Host) > 0

\* Where a worker that acknowledged the write in flight can be.
Stopped == {"ackwait", "nackwait", "fbwait", "fewait", "wlock"}

Acked == {v \in Workers \ {op.writer} : applied_seq[v] = op.seq}

\* The bookkeeping of the write coco_g_write_begin published: one writer, in
\* its wait or its change; as many acknowledgements as workers that
\* acknowledged, all of them standing still; and whoever was not asked is away
\* (coco_g_foreign_begin) or acknowledged too.
BarrierInv ==
  /\ \A w \in Workers : applied_seq[w] <= op_seq
  /\ \A w \in Workers : pc[w] \in {"wacks", "write"} => op.writer = w
  /\ \A w \in Workers : pc[w] = "write" => op.acks >= op.need
  /\ op # NoOp =>
       /\ op.writer \in Workers
       /\ op.seq = op_seq /\ op_seq > 0 /\ applied_seq[op.writer] < op_seq
       /\ pc[op.writer] \in {"wacks", "write"}
       /\ op.asked \subseteq Workers \ {op.writer}
       /\ op.need = Cardinality(op.asked)
       /\ op.acks = Cardinality(Acked)
       /\ \A v \in Acked : pc[v] \in Stopped
       /\ \A v \in Workers \ {op.writer} :
            v \in op.asked \/ v \in Acked \/ pc[v] = "foreign"

\* A write made between coco_g_write_begin and coco_g_write_end has the store
\* to itself: no other worker is inside the engine or the store.
WriteExclusive ==
  \A w \in Workers : pc[w] = "write" =>
    \A v \in Workers \ {w} : pc[v] \notin Touching

\* An acknowledgement is an asked worker's: op->acks, which coco_g_write_begin
\* compares with op->need, is the number of counted workers that have stopped,
\* whether they acknowledged in their loop, in a write of their own, in a
\* nested wait or around a foreign call.
AcksAreAsked ==
  op # NoOp => op.acks = Cardinality({v \in op.asked : applied_seq[v] = op.seq})

\* A worker that acknowledged a write (the worker loop, coco_g_ack_wait or the
\* wait of coco_g_write_begin) does not go back to the engine or the store
\* before coco_g_write_end of that very write.
AckedStandsStill ==
  [][\A w \in Workers :
       /\ op # NoOp /\ applied_seq[w] = op.seq
       /\ op'.seq = op.seq
       => pc'[w] \notin Touching]_vars

\* A write that coco_g_write_begin published gets its acknowledgements and
\* lands, unless the main task ends first: two writers, or a writer and a
\* nested waiter, never hold each other.
WriteLands ==
  \A w \in Workers : pc[w] = "wacks" ~> (pc[w] = "write" \/ main_done)

\* async_run returns: once no wait inside a nested engine is left, the main
\* task ends, by itself or as the deadlock of coco_g_deadlock, and every worker
\* is told (coco_g_finish) and joined.
Returns == <>[](\A w \in Workers : nest[w] = 0) => <>(pc[Host] = "end")
=============================================================================
