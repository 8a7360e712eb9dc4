# A TLA+ development of cocolog

cocolog is a Prolog system written in Cicili (`lib/*.cicili`), with C clients of
two databases (`client/`), C modules (`modules/`), Prolog libraries (`library/`)
and programs over several processes (`coworker/`). Much of it is sequential work
on terms. This development models the parts whose correctness depends on
interleavings, on failures half way, or on state that outlives a call:

* the green world of `library(async)`: tasks on a few OS threads over one store;
* the database client: processes that take turns, and the protocol on the wire;
* the Zeytun client: one HTTP request, with or without TLS;
* the layout engine: frames over one arena, and the texts and sizes in them;
* the tensor back end: a tape of recorded operations and its compiled closures.

TLC checks each on small instances. TLAPS proves the safety of the write barrier, of
the tasks and channels of the green world, of the turn file, of the Zeytun client and of
the layout's frames for every value of the constants. `PROJECT.json` is the index:
components, runs, mutants, the definition-to-source map, findings, hazards and
theorems.

## 1. The system

| Part | Sources | What makes it hard | Here |
|---|---|---|---|
| Green world: loops, write barrier | `lib/green.cicili` | stop-the-world handshake between threads, foreign calls, shutdown | `GreenBarrier` |
| Green tasks and channels | `lib/green.cicili`, `library/async.pl` | wakes against blocks, nested engines on a C stack, deadlock detection | `GreenTasks`, `GreenChannel` |
| Turn file | `client/zigurat.c` | a flag in the process and a lock in the kernel, lost connections, crashes | `ZiguratTurn` |
| Wire protocol | `client/zigurat.c`, `lib/zigurat-kb.cicili` | two buffers, partial transfers, pipelining, calls stopped half way | `ZiguratWire` |
| Zeytun client | `client/zeytun.c`, `client/tls.c` | every step of a session can fail; two conversions of the text | `ZeytunGet` |
| Layout: frames | `modules/clay/clay.h`, `clay.cicili` | state kept from frame to frame as addresses into a reused arena | `ClayFrame` |
| Layout: texts and sizes | `modules/clay/clay.h` | a cache with eviction, sharing loops, wrapping after sizing | `ClayText` |
| Tensor back end | `modules/tensorflow/backend.c` | reference counts, compiled closures found by a key, two modes over one tape | `TensorBackend` |
| The rest | | see "Not modelled" | |

How they meet: a green task that calls a module (the database, a drawing, a
tensor) does so inside the foreign-call handshake of `GreenBarrier`. A predicate
kept in a database is loaded by the pipelined calls of `ZiguratWire`, each verb of
which first takes the turn of `ZiguratTurn`. The modules are otherwise independent,
since no state is shared between the layout, the tensors and the clients.

### The green world

A call `async_run(Goal, Status)` makes a *world*: a table of tasks, a table of
channels, and N workers. Worker 0 is the thread of the caller (the *host*), the
others are OS threads. A task is pinned to one worker; each worker runs a loop
(`coco_g_worker_loop`) that picks a ready task of its own and runs its engine for
a quantum (`coco_g_run`). All shared state is under one lock, and there are three
kinds of condition variable: each worker's `wake`, the world's `op_done` (a write
was acknowledged or is over) and `changed` (something a nested wait may care
about).

*The store.* All tasks share one clause store. They read it with no lock. A task
that changes it first *publishes* a write (`coco_g_write_begin`) and waits until
every other worker has acknowledged; a worker that acknowledged waits until the
write is over. A worker away in a blocking call that does not touch the store
(`coco_g_foreign_begin` / `_end`) is not counted.

*Blocking.* `await`, `send` and `recv` mark the task blocked and leave the engine.
Inside a nested engine (`findall/3`, `\+`, ...) that is impossible, since the
nested search is on the C stack: the builtin waits there
(`coco_g_await_here`, `coco_g_wait_resume`) and runs the worker's ready tasks
itself, deeper on the same stack.

*The end.* When the main task ends the host leaves its loop, waits for a write in
flight, tells the world to stop and joins the threads. When every task is blocked
the main task is ended with `resource_error(deadlock)`.

## 2. Modules

| Module | Code | What it is |
|---|---|---|
| `GreenBarrier` | green.cicili 121-182, 381-527, 572-612, 635-783, 824-919, 1043-1112 | loops, barrier, foreign calls, nested waits as safe points, start and end |
| `GreenBarrierProofs` | | theorems about `GreenBarrier` |
| `GreenTasks` | green.cicili 49-175, 381-437, 531-659, 746-893, 903-991, 1043-1436 | tasks, scheduling, await, channels, nested waits, deadlock check |
| `GreenChannel` | green.cicili 948-970, 1300-1412 | what one channel promises: a queue |
| `GreenFacts`, `GreenTasksTypes`, `GreenTasksProofs` | | theorems about `GreenTasks`: types and engines |
| `GreenChannelProofs`, `GreenWorldProofs` | | theorems about its channels and their promise, and about statuses |
| `ZiguratTurn` | zigurat.c, the turn and what ends a transaction | connections that share a turn file |
| `ZiguratWire` | zigurat.c, the rest; zigurat-kb.cicili, the load | one connection and its protocol |
| `ZeytunGet` | zeytun.c, zeytun.h, tls.c | one GET after another |
| `ClientProofs` | | theorems about `ZeytunGet` and `ZiguratTurn` |
| `ClayFrame` | clay.h and clay.cicili, elements, pointer, scrolling | one layout context over many frames |
| `ClayFrameProofs` | | theorems about `ClayFrame` |
| `ClayText` | clay.h, text cache, sizing, wrapping | the sizes inside a frame, the cache across frames |
| `TensorBackend` | backend.c | slots, tape, closures, both modes |
| `MC*` | | constants and programs for TLC |

The line ranges of each definition are in `map`. `GreenBarrier` and `GreenTasks`
look at the same world from two sides, and each abstracts what the other is about.
In both, one action is one critical section of the world lock (what happens under
the lock is atomic, what happens between two sections can interleave with
anything), or one step taken without the lock.

### GreenBarrier

Per worker: `pc` (the place in the code, see `Labels`), `applied_seq`, `depth`
(`green_in_write` and the scopes inside it), the counts `ready`, `blocked`,
`nest` of its tasks in states 0, 1 and 3, `poked` (`wgen # wseen`). For the world:
`op` (the `green_op` in flight), `op_seq`, `main_done`, `stop`, and the sets
`asleep`, `opWait`, `chgWait` of workers inside each `pthread_cond_wait`.
`op.asked` is a history field: the workers that were counted in `op.need`. The
code keeps only the number, and that is what several of the properties are about.

`Loop*` are the branches of `coco_g_worker_loop` in their order; `Run*` what a
task does in its engine; `Write*` the steps of `coco_g_write_begin` and
`coco_g_write_end`, with nested scopes (`WriteNested`, `WriteNestedEnd`) and the
unguarded path of an ending world (`bare`, which `library/async/README.md`
documents); `Foreign*` and `Nest*` the two handshakes, through the same
`Ack`/`AckWait` as in the code; `Start`, `Drain`, `Join` are `async_run`.
`Spurious` is POSIX: a condition wait may return with nothing signalled.

Abstracted: which task a wake is for (any subset of the workers that have a
blocked task may get one ready), what a task computes, and when a nested wait
gets its answer. `fuel` bounds how many operations the whole workload performs.

### GreenTasks

`th` is the task table (worker, state, block, wait_on, the message being sent,
the answer `resume_text`, the final status), `frames` each worker's C stack: the
tasks it is inside, each with a place. `cursor`, `next_worker`,
`nthreads`, `poked`, `lp` (the loop's own wait), `chgWait` and `chan` follow the
structs. `inline_wait` is the number of nested-wait frames and is computed from
`frames` (`InlineWait`). A message is a number that says in which order it was
offered to its channel, so that order and duplication can be seen; `offered` and
`got` are history fields of a channel.

A blocking builtin has two halves. `Await`, `Send` and `Recv` are the section
that marks the task; `RunStop` is the section at the end of `coco_g_run`, after
the engine has returned; between them the worker stands at `unwind` and anybody
may act. A nested wait likewise has a gap before it takes the lock (`toawait`,
`toresume`); then `AwaitDone`, `ResumeDone`, `NestRun`, `NestDeadlock` and
`NestSleep` are the turns of its loop.

Abstracted: a task's program is any sequence of the operations in `Ops`; terms
and their texts; store writes (`op = nil` throughout). `celled` is the tasks whose
`resume_cell` is that of the operation they blocked in, which is all the model keeps
of the cell. Not modelled: making a
channel, the 64-entry waiter lists (unbounded here), the task's `chan` field (written, never read for a decision), the predicates
that only read (`thread_ready/1`, `async_workers/1`). A task whose preparation
fails finishes with an error, which is `RunFinish`.

### GreenChannel

One queue of messages offered and not taken; `Offer`, `Take`, `Pass` (to a
receiver that was waiting), `Close` (keeps what the ring holds). `GreenTasks`
instantiates it once per channel with the mapping `Promise`: the queue is the
ring followed by the messages of the blocked senders.

### ZiguratTurn

Connections of several processes name one turn file (`zg_serialise`). Before a verb
a connection polls `flock` (`TakeTurn`, `Poll`, `TimeOut`, and `CannotTake` when `flock`
itself fails), sends, and waits for the
result; the turn is given back at the end of a commit or a rollback, done or refused
(`Received`), but not of a verb the server did not take; and when the connection is lost,
throws, is closed or its process dies (`Lost`, `Exception`, `Close`, `Crash`). `held` is the
flag in the client, `turn` the lock in the kernel. `failed` says that the caller was told
of a failure and has neither redialled nor ended a transaction since. The server is
external: it runs one request of a connection at a time, may hold a request back for a row
another transaction holds, may refuse, and ends the transaction of a connection that is
gone when it notices (`stray` until then).

The repository describes the turn twice. `zigurat.h:176-177` has the lock held "for the
length of one CALL and not for a transaction"; `zigurat.c:956-966` says why it is the
transaction and not the call. The code is the second, and so is the model.

### ZiguratWire

One connection: the outgoing buffer (`wr`, `wr_now`, `flush_out`), the read-ahead
buffer (`rd`), byte order, the encodings of numbers, strings, texts and vectors, the
readers with their refusals, `zg_result`, the drain of a result, the calls and the
pipelined load: `Load` sends the next clause and reads the oldest answer once its window
is full, and sends nothing for a clause that is muted or dead (`skip`). A unit of the stream stands for a byte and remembers the request and
the kind of value it belongs to. The code sees neither; `astray` becomes TRUE when
either end takes a unit for what it is not. A call is straight-line code, so `todo`
holds the rest of it, and `Wr`, `WrNow`, `Rd`, `RdMore` and `Transfer` perform it piece
by piece, each transfer moving any part of what there is. `Broken` is a transport
failure, `Reopen` the next connection. The server is external, from what the client
expects of it; it flushes only when it is about to block.

### ZeytunGet

`Configure` is `coco_client_tls_configure`; `Get`, `Dial`, `TlsStep`, `Send`, `Read` and
`Parse` are the steps of `zt_get2`, each of which can fail. `UrlEncode` and `Unescape`
are the two conversions, on sequences of characters; `UrlDecode` and `Escape` are the
server's, a `%` and two digits undone, the entities made. `Grown` is the buffer of
`slurp` and `Room` what it asks the next read for; with no room a read returns 0, which
`slurp` takes for the end of the stream. `Complete` is its test of `Content-Length`.
OpenSSL and the server are external.

### ClayFrame

`c` is the `Clay_Context`: the element arena `mem`, the open stack, the children
buffer, configurations, clip stack, roots, id map and scroll containers. An element
is its index, the same address in every frame, and what stands there is what was last
written there. `Begin`, `OpenBox`, `AddText`, `CloseBox`, `End` and `Abort` are the
predicates of a frame; `SetPointer` and `UpdateScroll` are `clay_pointer` and
`clay_scroll` between two frames, in the order `library(clay_ray)` calls them.
`plan` is a history of what the program declared, which the tree is compared with.
Where the pointer is and how far a box overflows are chosen freely.

The arrays have their limits: elements and the id map (`Capacity` less one), configurations,
clip stack and roots (`Capacity`), scroll containers (`MaxScrolls`, ten in the code). A full
array of elements sets `exceeded`; a full one of the others reports an error (`err`), which
`clay_end` raises; a full map says nothing. The render commands are not modelled but for running out, which is an input of
`FinalLayout` (`crowded`). So nothing is said of scissors: where a clip starts and ends
among the commands (a start may be culled at 2889 and its end not, 3029-3034), and what a
renderer makes of nested ones.

### ClayText

`k` is the cache of measured texts (`MeasureTextCached`, `AddMeasuredWord`, eviction,
both free lists); `nodes` the elements of a frame. `FinalLayout` is the width pass, the
wrapping, the propagation of heights and the height pass of
`Clay__CalculateFinalLayout`. `Distribute` is the loop that compresses or grows
children. A text is a sequence of glyphs, spaces and newlines. Sizes are whole
numbers of 1/400 pixel, of which `CLAY__EPSILON` is four.

### TensorBackend

`tf` is the static state: slots, cursor, compiled entries, scalar cache. A tensor's
data is the term TensorFlow would compute; `means` is the term the program asked for.
`Produce` is every producing operation in either mode, made of the lines of
`RunEager` or `RunGraph`; `Parameter`, `Step`, `Free`, `Values`, `Grad` and `Switch` are
the other calls. Under graph a record's shape follows from a rule, is refused, is
asked of the compiled graph or found by running it; which one is an input. One call of
the runtime may fail, the adding of a compiled function to the context too: that function is
then `stuck`, and later calls take it for one that was added. A key is the sequence of its
parts, cut where `kput`'s buffer ends (`KeySize`). TensorFlow may refuse any of the
gradients it is asked for (`refused`), which `tfb_grad` answers with zeros.

## 3. Runs

| Run | Instance | Properties |
|---|---|---|
| `barrier_away` | 2 workers, foreign calls and nested waits, main awaits all, tasks end, 4 operations | `WriteExclusive`, `AckedStandsStill`, `WriteLands`, `Returns` |
| `channels` | 2 workers, 3 tasks, a rendezvous and a ring of one, 5 operations | `ChannelShape`, `WaitersWait`, `ChannelsKeepOrder` |
| `forkjoin` | 2 workers, 4 tasks, awaits of younger tasks, nested too, 5 operations | `OneEngine`, `NotFreedInside`, `NoMissedWake`, `StatusIsFinal` |
| `tasks_live` | 2 workers, 3 tasks, a rendezvous, nested waits, tasks that may yield for ever, 4 operations | `ReadyRuns`, `DeadlockReported`, `AnswerArrives` |
| `zg_turn` | 2 connections, a wait of 2 polls | `HeldIsLocked`, `WorkUnderTurn`, `VerbEnds` |
| `zg_wire` | buffers of 4 and 3, values up to 5, loads of 5 with a window of 2, all sent or two skipped, one failure | `InStep`, `CallReturns` |
| `zeytun` | 2 calls, 4 arguments, 3 pages, reconfigured in between | `NothingLeft`, `SentInsideSession`, `Faithful`, `NoTimeoutNeeded` |
| `clay_frame` | 2 frames, an arena of 4, 2 scroll containers, 4 elements: scroll boxes, two kinds of floating element, texts | `TreeWhole`, `CutAsDeclared`, `NothingDropped`, `MapCurrent`, `LossIsTold`, `ScrollRemembered` |
| `clay_text` | 5 frames of short texts; one frame of 3 children in four kinds of panel | `CacheSpells`, `PlacesKept`, `RoomShared`, `SharedLevel`, `LinesTile`, `HeightHolds`, `LayoutEnds` |
| `tensor` | 5 slots, 2 compiled entries, a parameter and 3 calls, one fault, gradients refused or not | `RefsCount`, `HandlesKept`, `ValueStands`, `GradientReaches` |
| `barrier_overack` | 3 workers, one making foreign calls | `WriteExclusive`, expected to be violated |
| `send_cell` | 2 workers, 2 tasks, a rendezvous, no nested waits | `StatusInItsCell`, expected to be violated |

What they show.

* *Green world.* A write has the store to itself between two workers, and between any
  number of them without foreign calls (section 4); whoever
  acknowledged stands still until *that* write is over, also when the next one
  follows at once. Two writers, or a writer and a nested wait, never hold each other.
  A channel is a queue whatever mixture of ring, waiting receivers and blocked senders
  its messages go through, and nobody waits beside what they wait for. In fork-join
  programs no wake is lost, no engine is entered twice or freed under its worker, and
  a status once given is final.
* *Turn file.* The flag and the lock never drift apart; a connection has requests
  at the server only inside its turn, and work in a transaction only inside it or after its
  caller was told of a failure. A process that waits for the turn may hold the row the
  holder waits for; it gives up after its bound, its caller redials, and every verb ends.
* *Wire.* Through partial transfers, refills, a lost connection and a reopened one,
  both ends read every unit for what it is, and a load larger than the sockets ends,
  because its window keeps the answers below what they hold.
* *Zeytun.* Every exit closes and frees; a request goes only where the options say it
  may; a text survives both conversions, and the buffer is never so full that a read of
  nothing is taken for the end; an answer with a length ends the call.
* *Layout.* A frame's tree and its map are what the program declared, whatever the frame
  before left behind. Each element is cut by the clip box it was declared in, a floating one
  by that of the element it is attached to or by none (`CutAsDeclared`). A frame that ends `ok`
  dropped no clip, no floating configuration and no scroll container (`NothingDropped`). The cache spells its texts after any
  evictions and loses no place. Rows are filled, those who shrink or grow do so level,
  the lines show every glyph once, and the loops end but for the empty text below.
* *Tensors.* Counts equal the recorded inputs; nothing is lost but what a failed call
  leaves; a value is what was asked for in either mode, also when another tensor's
  compiled closure computed it; no gradient is cut but those TensorFlow refused.

Each property of a passing run has a mutant: a plausible slip in the code it is about
(a writer that waits its turn without acknowledging, a flag not cleared with its lock,
a read-ahead buffer kept over a reopen, an evicted head left in its bucket, a count
not given back by an undone record, ...), under which TLC finds the property violated.

### Where the properties stop

Several properties name the case in which the code does not keep them. These are facts
about the code as it is, met while modelling.

* `barrier_overack`: a worker back from a foreign call acknowledges a write that did
  not count it. The writer compares two numbers, starts early, and changes the store
  while a counted worker is still in the engine. The line it disagrees with is quoted
  in `findings`. It takes two counted workers, so `barrier_away`, with two workers in all,
  keeps `WriteExclusive` with foreign calls.
* `send_cell`: a send that blocks outside a nested engine does not set `resume_cell`
  (green.cicili:1336-1339), and `coco_g_run` writes its status to the cell some earlier
  operation of the task left there. The send's own status stays unbound and matches the
  first clause of `async_sent` (async.pl:126): a blocked send whose channel is closed
  reports success. `AnswerArrives` therefore speaks of the operations that do set it.
* `Returns` is about worlds whose main task awaits the others and whose tasks end. A
  write published just as the main task ends counts workers that then leave their
  loops (green.cicili:449, 868), and `async_run` waits for it, though line 1101 says "a
  write still in flight finishes before the world stops". The end of the main task is
  looked at only by a worker with nothing to run (859), so a task that never ends keeps
  `async_run` from returning.
* `forkjoin` has tasks await younger tasks only. Otherwise the deadlock check may end
  the main task between its block and the end of `coco_g_run` (1225), and its own worker
  then ends it again as failed; `library/async/README.md:39-40` promises the deadlock.
* `channels` has no nested engines: a nested receive that was answered is in state 0
  until its wait notices, and another wait on the same stack may enter its engine again
  (1306 against the comment at 169-171); and one that ends as a deadlock (811) stays on
  the channel's list, where a later send is answered `ok`.
* `ReadyRuns` and `DeadlockReported` are about times without nested waits, and
  `AnswerArrives` about runs in which waiters really wait. A nested await runs its
  target first at every turn (766) and can starve the others; a task that blocks while a
  nested wait sleeps leaves the deadlock unreported (428 against `async.pl:54-55`); a
  nested await raises the deadlock although another worker's has its answer (777).
* A worker in `coco_g_foreign_begin` (717) is also let go by a second write that
  counted it, and leaves for its call unacknowledged; the writer waits as long as the call
  takes.
* `WorkUnderTurn` speaks of connections that are there. `lost` and an exception give
  the turn back while the server may still be inside the transaction. `simple_verb` gives it
  after a commit that was refused too (zigurat.c:973), when the transaction may still be
  open: hence "or its caller was told". A verb that the server did not take keeps the turn;
  with a `lockwait` of 0 a wait has no bound (the assumption of `VerbEnds` is a bound above
  0, as in the run).
* `InStep` and `CallReturns` stop at a call stopped half way: an argument refused after
  its verb went out (zigurat.h:26-28 says the length limits "are therefore all checked
  BEFORE anything goes out"), and a vector wider than the caller's buffer (1245), whose
  elements stay on the wire.
* `Faithful` excepts a server that dies: a body shorter than its `Content-Length` is
  accepted (against zeytun.c:62-63).
* `MapCurrent` needs room in the id map: the test for a full map comes before the
  lookup (clay.h:1697), so an id already there is not updated either. And it speaks of
  frames in which no error was reported: of two elements with one id the map has the
  first, and the second is reported (1716-1720). The program need not have given that id
  twice: one made for an element without (1754-1762, 4032) is the number of its parent's
  children so far, to which a floating element does not add.
* `CutAsDeclared` is about frames in which the arrays of elements and configurations had
  room, ids were given once, and what a floating element names was declared before it and is
  in the map (a full map may keep the element of an earlier frame).
* An element counts a configuration that no longer fitted (clay.h:1339-1340), so its slice
  reaches past the array; the model takes what is there for no configuration. The frame has
  reported the error by then.
* `Clay_GetScrollOffset` finds a container by the element's address (clay.h:4037), and so may
  answer with the offset of the box that stood there the frame before. The model does the
  same; no property is about the offset a box is drawn with.
* `LinesTile` and `HeightHolds` need a line to spare: the array is tested once a word
  and the last line of a text is added without it.
* `LayoutEnds` excepts the empty text. It is one letter spacing narrower than nothing
  (1677), and as the only child that can still shrink it is neither moved nor dropped by
  the loop (2313-2347), which then does not end.
* `PlacesKept` excepts a text the cache refused: it keeps its item and words.
* `HandlesKept` excepts what a failed call leaves (`spilt`): the intermediates of a
  slice or a standardisation are not freed on its error path. A leak on an error path alone
  is therefore not told from these.
* `GradientReaches` is about gradients TensorFlow did not refuse: for a refused one
  `tfb_grad` answers zeros without a word (backend.c:1004-1013). After a failed
  `TFE_ContextAddFunction` (backend.c:502) the entry keeps its function: the next force of
  it succeeds and leaves no value, and a gradient through it reads a null pointer, where the
  model stops (`Dies`). A closure whose key is longer than 1 MB would share the key of
  another (`kput`); the run's keys are not cut.
* Two calls go through a null pointer, and the model stops there (`fault`):
  `clay_pointer` after a frame that was given up with elements open, and `clay_scroll`
  when a container kept over a frame without `clay_scroll` stands where no clip is.

### Bounds

Three workers are the least with which a writer counts two others and one
acknowledgement can stand for another's, as in `barrier_overack`; two suffice for every
two-party handshake, and are what the liveness runs can afford; the theorems are for any
number. Four or five operations leave room for two
writes, each followed by another operation of a different worker. Three tasks give a
channel a sender, a receiver and a third party; four give a fork-join two levels. A
rendezvous and a ring of one are the two kinds of channel. A quantum or a yield that
repeats for ever is not bounded where a liveness property is about it.

`zg_turn`: two connections, since exclusion and waiting are about pairs; two polls are
the least that tell a counted wait from one that is not. `zg_wire`: buffers smaller than
the longest text, sockets of six units, and a load of five with a window of two, so that
every refill, flush and full socket happens; six requests, one failure. `zeytun`: a
chunk of three, so that the buffer grows within a short answer; an argument that fits the
path and one that does not. `clay_frame`: an arena of four places, reached and exceeded
with four declarations over two frames; four declarations are a scroll box, something
floating in it and something after it; two scroll containers, so that a third box finds no
room. The second frame finds everything the first left.
`clay_text`: seven words and five items, so that both arrays fill and are freed again in
five frames; two buckets with two texts or more in one. `tensor`: five slots, two
compiled entries and one cached scalar, so that each table fills within three calls after
a parameter was made; a `KeySize` above every key of the run.

### Fairness

`GreenBarrier` and `GreenTasks` have weak fairness for the steps of each worker and of
the host: the OS runs every thread that can run, and every section under the lock is
short. There is none for `Spurious`. A foreign call is assumed to return, and a task to go
on with its program; no particular operation of a program is fair, so a task may yield for
ever. The green liveness properties except `Returns` say "or the main task ends", since an
ending world drops what is left in it on purpose.

`ZiguratTurn`: a process in `take_turn` goes on polling, the server runs a request once no
other transaction has its row (weak fairness: it is not obliged to refuse or to throw, so a
request may wait for as long as the row is held), and a client reads the answer that came.
Nobody is obliged to make a further call: a process may keep its turn for ever, and the wait
of the others ends by its bound. One strong assumption is about callers: one that was told
of a failure redials or closes in the end, however often it calls a verb first. `cocolog.cicili`
does so: a failed commit or call is a lost turn (1812-1815), and the worker's loops go through
`recover` (1866), which redials or stops. Without it the row would stay with a caller
that tries again for ever. A transaction a lost connection left is ended in the end, which
is the server's promise. `ZiguratWire`: the client goes on with its call and the server with what it has
received; failures are not fair. `ZeytunGet`: `slurp` reads what has arrived, and parses;
the server is not obliged to do anything.

## 4. Proofs

### The write barrier

`GreenBarrierProofs` proves, for any finite set of workers, any `MaxOps` and any
value of the other constants (`WorldAssumption`):

* `TypeCorrect`: `Spec => [](TypeOK /\ CountsInv)`. The types alone are not
  inductive: a decrement of `ready` is safe only because a worker inside the
  engine has a ready task, and `KillMain` only because the host still has the main
  task. `CountsInv` says both.
* `BarrierHolds`: `Spec => []BarrierInv`, the books of the write in flight. The
  inductive invariant is `IInv == TypeOK /\ CountsInv /\ BarrierInv`. Its centre
  is `op.acks = Cardinality(Acked)`, with `Acked` the workers whose `applied_seq`
  is the write's, all of which stand at a place where they wait.
* `ExclusiveIfAsked`: `Spec => [](AcksAreAsked => WriteExclusive)`. If every
  acknowledgement is an asked worker's, `acks >= need` makes the acknowledged
  subset of `asked` as large as `asked`, hence equal to it (`AllOfThem`); who was
  not asked is away or acknowledged; so nobody is in the engine
  (`CountIsEnough`). It says what `barrier_overack` rests on: the uncounted
  acknowledgement is the *only* way to lose exclusion.
* `ExclusiveWithoutForeign`: with `ForeignWorkers = {}`,
  `Spec => [](AcksAreAsked /\ WriteExclusive)`. Nobody is ever away
  (`NobodyAway`), so everybody else is asked.
* `AckedStands`: `Spec => AckedStandsStill`, foreign calls and nested waits
  included.

The step lemmas (`TypeStep`, `CountsStep`, `BarrierStep`) have one case per action;
`OpStep` says what a step may do to the write in flight and is used by the last two
theorems.

### The turn file

`ClientProofs` proves, for any set of connections and any `LockWait`
(`TurnConstants`, which is `ClientAssumption` and `WaitAssumption` of `ZiguratTurn`;
the module takes `ZiguratTurn` by `Turn == INSTANCE ZiguratTurn`, as it extends
`ZeytunGet`):

* `FlagAndLockAgree`: `Turn!Spec => []Turn!HeldIsLocked`.
* `TurnCoversTransaction`: `Turn!Spec => []Turn!WorkUnderTurn`.
* `EngineAlone`: no two connections have a request inside the server, or work in a
  transaction whose caller was told of no failure, at once. Two that had would both hold the
  one lock.

`WorkUnderTurn` is not inductive: a commit's reply gives the turn back, which is safe
only because nothing of the transaction is left by then or the caller is told of the refusal. `ReplyInv` says so, and that a
request is inside the server only while its process waits. The inductive invariant is
`TurnInv`: these three and `TypeOK`. `GiveTurnAgrees` and
`GoneInv` are the lemmas for giving the turn and for the four ways a connection goes. What
a lost connection leaves running (`stray`) is no connection's, and outside these theorems.

### Tasks and channels

Five modules prove things about `GreenTasks`, for any number of workers, tasks and
channels, any capacities and any `MaxOps` (`TasksAssumption`). `GreenFacts` holds
what does not depend on a step (queues, stacks, lists, the updates of one channel);
`GreenTasksTypes` what each action makes of the tables; `GreenTasksProofs` is about the
engines, `GreenChannelProofs` about the channels, and `GreenWorldProofs` puts both
together.

* `TypeCorrect` (`GreenTasksTypes`): `Spec => []TypeOK`, for every program. Every stack
  level, waiter list and await names a task and a worker that exist.
* `EngineHolds`: `Spec => []EngineInv`. `StackOK` says that every level of a stack fits the
  state of its task, that all but the top wait in `coco_g_await_here`, that no task is on a
  stack twice and that every nested waiter is on one; `AwaitOK` that whoever awaits is
  blocked on a task that is not done; `JoinOK` that in a program of joins a blocked task
  awaits. The three need each other: a worker enters a ready task, and the task is on no
  stack only because its levels say otherwise; `coco_g_finish` wakes those whose `wait_on`
  it is, and that is everybody only because state, block and `wait_on` change together.
* `NoMissedWakeHolds`, `OneEngineHolds`: `NoMissedWake` and `OneEngine` follow from it.
* `NotFreedInsideHolds`, `StatusIsFinalHolds`: `NotFreedInside` and `StatusIsFinal`, in
  fork-join programs. There the deadlock check never fires: of the tasks that are not done
  the youngest awaits nobody (`GreatestMember`).
* `OthersNotFreedHolds`, `OthersFinalHolds`: with channels the same of every task but the
  main one.
* `ChannelShapeHolds`: `Spec => []ChannelShape`, for every program, nested waits included.
* `ListsHold`: `Spec => []ListInv`. Who is on a channel's list waits there with no answer
  yet (`Waiters`), nobody is on two lists or on one twice (`Apart`), and a task that runs
  has taken its answer (`Answered`). Without the last a running task might be put on a list
  with an answer left from before.
* `WaitersWaitHolds`: `WaitersWait` follows from it.
* `ChannelsKeepOrderHolds`: `Spec => ChannelsKeepOrder`, the refinement. The queue of
  `GreenChannel` is the ring followed by the messages of the blocked senders. Initial states
  map to initial states; `PromiseStep` shows that a step of the world is for each channel
  an `Offer`, `Take`, `Pass`, `Close` or nothing, with `FuelStep` and `BudgetStep` for the
  bound on the messages. That the messages of blocked senders do not change under the
  queue is where `ListInv` is used: a step that writes a task's message writes that of a
  task on no list (`CarriedOff`).

The hypotheses are about the program and are those of the runs. `NoNestedChannel`: no
channel is used inside a nested engine (`channels` has no nested waits, `forkjoin` no
channels). `NoNest`, for the lists and the refinement: no nested waits. `ForkJoin`: a task
awaits younger tasks only, and there are no channels. They are needed: section 3, "Where
the properties stop", has what the code does outside each of them.

### The Zeytun client

`ClientProofs`, for any texts, any `Chunk` of two or more and any of the other sizes
(`ChunkAssumption`, `TextsAssumption`, `MaxGetsAssumption`):

* `SessionHolds`: `Spec => []SessionInv`, what is open at each place of `zt_get2` and
  `coco_client_tls_open`. `NothingLeftHolds` and `SentInsideSessionHolds` follow.
* `GrownInTime`: `Spec => []RoomToRead`, from `BufferInv`: what the buffer holds leaves room
  for the NUL, and a read is never asked for nothing. `Grown` is the loop that doubles the
  buffer, a recursive function on all sizes: `DoublesEnds` shows that its equation has a
  solution (the least size for which it had none would have a larger one that had), and
  `GrownIs` that it doubles once at most and leaves room for a chunk.
* `FaithfulHolds`: `RoundTrips` implies `Spec => []Faithful`. `RoundTrips` says that each
  conversion undoes the server's on the texts of the constants; the run evaluates it
  before its first state (`MCRoundTrips`), and would stop there if, say, `zt_unescape` undid
  one entity after the other. `FaithInv` says that the part sent and the part left are the encoded
  argument, that the part read and the part on the wire are one response, and that
  `slurp` stops with nothing of the body left behind (`Complete`).

### Layout frames

`ClayFrameProofs`, for any `Capacity` above one and any `MaxScrolls` (`CapacityAssumption`,
`MaxScrollsAssumption`), any declarations and inputs, and any number of frames:

* `InvHolds`: `Spec => []Inv`. `IsContext` is the shape of the context. In a frame `Inv`
  says that an element that was declared and is not there was lost with `exceeded` set,
  and `Current`: every element of the frame is in the map under its id, with the generation
  of this frame. The generation is what makes `MapCurrent` inductive: an item is overwritten
  only if it is older, so giving one element its id takes it from no other of this frame.
  After a frame `Inv` keeps what the answer depends on.
* `LossIsToldHolds`, `MapCurrentHolds`: `LossIsTold` and `MapCurrent` follow from it.
* `ScrollRememberedHolds`: `Spec => ScrollRemembered`. Every call but `clay_scroll` leaves
  each open container with its position (`Remembers`). `clay_scroll` sweeps the containers,
  taking out those not opened, with the last one put in the freed place while the index
  goes on. `Swept` is the invariant of the loop, over its turns: a container that was open is
  still there, at a place already passed or with its mark. `SweepEnds` shows that the
  loop's function has a solution; both are by the least turn at which it would fail
  (`LeastMember`).

There is a lemma for each operator an action is made of (`AddItem`, `SetId`,
`ConfigureNames`, `OpenOpens`, `BoxDeclares`, `TextDeclares`, `CloseSteady`,
`FinalLayoutSteady`, `BeginLayoutBegins`, `SweepKeeps`) and one for each action.

### Only model-checked

* Liveness, here and in every other module: outside what the prover does.
* `InStep` of the wire, whose invariant would have to follow the rest of every call through
  the stream unit by unit; and what the two conversions compute for every text, which is
  induction over their input.
* `TreeWhole`, `CutAsDeclared` and `NothingDropped` of the frames: what a walk over the
  finished tree meets, or a comparison with every declaration of the frame, which is
  induction over the tree.
* The texts of the layout and the tensor back end: their walks over trees, chains and
  closures are recursive operators, about which the prover cannot reason.
* Tasks and channels outside the hypotheses above, as far as the runs go there.

## 5. Not modelled

* *OS threads* (`modules/thread/thread.cicili`): bounded channels with timed receive,
  recursive mutexes, join and detach. They interleave, and are the next candidate; the
  *crew* of `library/cowork.pl` stands on them (dispatch, acknowledgements, the late
  answer that outlives a drain), and the programs of `coworker/` on the crew.
* *The store under change* (`lib/kb-pred.cicili`): the logical update view. *Frozen
  machines* (`lib/state.cicili`) and the *write-through store* of the database backend
  (dirty list, flush, commit, rollback) come after it.
* *The engine and the collector*: sequential, over terms and a heap; what meets the
  scheduler (a quantum, a block) is in `GreenTasks`. The order of a quantum's stop and a
  block (green.cicili:575) needs the engine's flags.
* In `GreenTasks`: the 64-entry waiter lists (unbounded here) and which cell a stale
  `resume_cell` is.
* In the wire: socket timeouts (a failure stands for one), TLS below the protocol, and
  the embedded arrangement (`ce_*`), which has no wire.
* In the layout: geometry (chosen freely in `ClayFrame`), the debug view, borders, images,
  render commands with their scissors and culling, a line height of its own, aspect ratios, trees deeper than three levels, `clay_capacity`'s new arena.
* In the tensors: shape rules, devices, statistics, CSV, and what TensorFlow computes.
* Reader, writer, arithmetic, builtins, formats, cryptography, bindings: sequential data
  algorithms or thin wrappers of libraries, with nothing for these properties to tell apart.

The reason for each part is in `components` of `PROJECT.json`.
