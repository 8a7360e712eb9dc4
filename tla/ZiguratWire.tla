---------------------------- MODULE ZiguratWire ----------------------------
(***************************************************************************)
(* The wire of client/zigurat.c: one connection to ZiguratIP, its          *)
(* outgoing and read-ahead buffers, the values of the protocol and the     *)
(* calls made of them.                                                     *)
(*                                                                         *)
(* A unit of the stream stands for a byte (a scalar and a Text's or a      *)
(* Vector's length are two, so that their order on the wire shows).  A     *)
(* unit remembers the request it belongs to and what it is; the code       *)
(* cannot see either, and `astray' turns TRUE when a reader of either end  *)
(* takes a unit for what it is not.                                        *)
(*                                                                         *)
(* A call is straight-line code made of wr() and rd(): `todo' is the rest  *)
(* of the call the program is in, one element for each wr and each unit    *)
(* still to read.  The server is not in this repository; it is modelled    *)
(* from what zigurat.c and its comments say of it.                         *)
(***************************************************************************)
EXTENDS Naturals, Sequences, FiniteSets, SequencesExt

CONSTANTS
  OutSize,      \* ZG_OUT_SIZE
  InSize,       \* ZG_IN_SIZE
  MaxString,    \* ZG_MAX_STRING
  MaxText,      \* ZG_MAX_TEXT
  LittleEndian, \* the byte order of the client's machine
  VecCap,       \* the cap a caller gives zg_read_dvector
  Calls,        \* the calls the program makes
  Answers,      \* the answers a procedure gives
  Window,       \* calls sent and not answered, at most
  Burst,        \* calls of one pipelined load
  SocketSize,   \* what either direction of the socket holds
  PutSize,      \* what the server holds back before it has to flush
  MaxAsked,     \* bound: requests
  MaxBreaks     \* bound: transport failures

ASSUME SizeAssumption ==
  /\ {OutSize, InSize, MaxString, MaxText, Window, Burst, SocketSize, PutSize} \subseteq Nat \ {0}
  /\ MaxString < OutSize /\ MaxString <= MaxText
  /\ {VecCap, MaxAsked, MaxBreaks} \subseteq Nat
  /\ LittleEndian \in BOOLEAN

VARIABLES
  c,       \* the connection: fd, out, in, the bytes wr_now is sending, todo
  up,      \* in the socket, on the way to the server
  dn,      \* in the socket, on the way back
  s,       \* the server: what it reads next, what it holds back, hung up
  asked,   \* requests made so far
  breaks,  \* transport failures so far
  cut,     \* why a call on this connection stopped half way, the socket open
  astray   \* a unit was read for what it is not

vars == <<c, up, dn, s, asked, breaks, cut, astray>>

----------------------------------------------------------------------------
(* Units, and the elements of a call *)

\* a byte of a length, a number or a string; and a byte with a meaning: a
\* result, a descriptor, a verb
Unit(q, k, n) == [q |-> q, k |-> k, n |-> n, v |-> ""]
Code(q, k, v) == [q |-> q, k |-> k, n |-> 0, v |-> v]

\* wr of these units in one piece
W(us) == [o |-> "wr", us |-> us]

\* rd of one unit, and what it is to the reader
R(q, k, as) == [o |-> "rd", q |-> q, k |-> k, as |-> as, n |-> 0]

\* the unit is the one the reader takes it for
Fits(op, u) == u.q = op.q /\ u.k = op.k /\ (u.k = "data" => u.n = op.n)

\* `return 0' with the socket left open
Refuse(why) == [o |-> "refuse", why |-> why]

\* lost()
Lose == [o |-> "lose"]

\* a two-unit value as it sits in this machine's memory
Native(q, n) ==
  LET big == <<Unit(q, "hi", n), Unit(q, "lo", n)>>
  IN  IF LittleEndian THEN Reverse(big) ELSE big

Reorder(v) == IF LittleEndian THEN Reverse(v) ELSE v

WrBe(v) == <<W(Reorder(v))>>

\* rd takes the two units in the wire's order: the low one carries the value
RdBe(q, as) == <<R(q, "hi", as), R(q, "lo", as)>>

Data(q, n) == [i \in 1..n |-> Unit(q, "data", i)]
RdData(q, n) == [i \in 1..n |-> [R(q, "data", "byte") EXCEPT !.n = i]]
Times(n, op) == [i \in 1..n |-> op]

----------------------------------------------------------------------------
(* Writing values *)

WrBytes(q, n) == IF n = 0 THEN <<>> ELSE <<W(Data(q, n))>>

WrStdString(q, n) ==
  IF n > MaxString THEN <<Refuse("string")>> ELSE <<W(<<Unit(q, "len", n)>>)>> \o WrBytes(q, n)

WrStdText(q, n) ==
  IF n > MaxText THEN <<Refuse("string")>> ELSE WrBe(Native(q, n)) \o WrBytes(q, n)

WriteNumber(q) == <<W(<<Code(q, "tdb", "num")>>)>> \o WrBe(Native(q, 0))

WriteString(q, n) ==
  IF n > MaxString THEN <<Refuse("parameter")>> ELSE <<W(<<Code(q, "tdb", "str")>>)>> \o WrStdString(q, n)

WriteText(q, n) ==
  IF n > MaxText THEN <<Refuse("parameter")>> ELSE <<W(<<Code(q, "tdb", "txt")>>)>> \o WrStdText(q, n)

WriteDvector(q, n) ==
  <<W(<<Code(q, "tdb", "vec")>>)>> \o WrBe(Native(q, n)) \o FlattenSeq(Times(n, WriteNumber(q)))

\* the argument of a procedure
WriteArg(q, arg) ==
  CASE arg = "num"      -> WriteNumber(q)
    [] arg = "str"      -> WriteString(q, MaxString)
    [] arg = "long str" -> WriteString(q, MaxString + 1)
    [] arg = "txt"      -> WriteText(q, MaxText)
    [] arg = "long txt" -> WriteText(q, MaxText + 1)
    [] arg = "vec"      -> WriteDvector(q, 2)

----------------------------------------------------------------------------
(* Reading values: each answers what is left to read once the descriptor    *)
(* byte, or the length, is known.                                           *)

\* A string that does not fit the buffer it was given is skipped whole, so
\* it takes the same units off the wire as one that fits
RdStdString(q) == <<R(q, "len", "bytes")>>

ReadText(q, t) == IF t = "null" THEN <<>> ELSE RdBe(q, "bytes")

ReadString(q, t) == IF t = "null" THEN <<>> ELSE RdStdString(q)

RdScalar(q, t) == IF t = "null" THEN <<>> ELSE RdBe(q, "num")

ReadDvector(q, t) ==
  CASE t = "null" -> <<>>
    [] t = "vec"  -> RdBe(q, "dvector")
    [] OTHER      -> <<Refuse("vector")>>

SkipField(q, t) ==
  CASE t = "null" -> <<>>
    [] t = "num"  -> RdBe(q, "num")
    [] t = "str"  -> <<R(q, "len", "bytes")>>
    [] t = "txt"  -> RdBe(q, "bytes")
    [] t = "vec"  -> RdBe(q, "fields")

\* the count of a Vector is the caller's: it reads the elements that follow
ReadField(q, t) ==
  CASE t = "null" -> <<>>
    [] t = "num"  -> RdBe(q, "num")
    [] t = "str"  -> RdStdString(q)
    [] t = "txt"  -> RdBe(q, "bytes")
    [] t = "vec"  -> RdBe(q, "fields")

\* the caller reads a column with a reader of its type, or skips it, or asks
\* what it is
Readers(q, t) ==
  {SkipField(q, t), ReadField(q, t)}
    \cup (IF t \in {"null", "num"} THEN {RdScalar(q, t)} ELSE {})
    \cup (IF t \in {"null", "str"} THEN {ReadString(q, t)} ELSE {})
    \cup (IF t \in {"null", "txt"} THEN {ReadText(q, t)} ELSE {})
    \cup (IF t \in {"null", "vec"} THEN {ReadDvector(q, t)} ELSE {})

----------------------------------------------------------------------------
(* Results and calls *)

Field(q) == <<R(q, "tdb", "field")>>

\* zg_result where only `done' will do
Result(q) == <<R(q, "res", "expect")>>

Drain(q) == <<R(q, "res", "drain")>>

\* zg_drain, one turn of its loop (a row here is one field)
DrainOn(q, r) ==
  CASE r = "done"   -> <<>>
    [] r = "open"   -> RdStdString(q) \o Drain(q)
    [] r = "fetch"  -> Field(q) \o Drain(q)
    [] r = "return" -> Field(q) \o Drain(q)
    [] r = "close"  -> Drain(q)

\* zg_result: an exception is read to its end and ends the connection
OnResult(q, as, r) ==
  IF r = "exception"
    THEN RdStdString(q) \o <<Lose>>
    ELSE IF as = "drain" THEN DrainOn(q, r)
    ELSE IF r = "done" THEN <<>> ELSE <<Refuse("result")>>

\* What is left to read after one more unit: the possible continuations
OnUnit(op, u) ==
  CASE op.k = "res" -> {OnResult(op.q, op.as, u.v)}
    [] op.k = "tdb" -> IF op.as = "element" THEN {RdBe(op.q, "num")} ELSE Readers(op.q, u.v)
    [] op.k \in {"len", "lo"} /\ op.as = "bytes"   -> {RdData(op.q, u.n)}
    [] op.k = "len" /\ op.as \in {"verb", "name"} -> {<<R(op.q, op.as, op.as)>>}
    [] op.k = "lo" /\ op.as = "fields"             -> {FlattenSeq(Times(u.n, Field(op.q)))}
    [] op.k = "lo" /\ op.as = "dvector" ->
         {IF u.n > VecCap THEN <<Refuse("vector")>> ELSE Times(u.n, R(op.q, "tdb", "element"))}
    [] OTHER -> {<<>>}

VerbName(q, v) == <<W(<<Unit(q, "len", 1)>>), W(<<Code(q, "verb", v)>>)>>

Verb(q, v) == VerbName(q, v) \o Result(q)

Echo(q, n) ==
  IF n > MaxString THEN <<>> ELSE Verb(q, "echo") \o WrStdString(q, n) \o RdStdString(q)

Compile(q, n) ==
  IF n > MaxText THEN <<>> ELSE Verb(q, "compile") \o WrStdText(q, n) \o Result(q)

CallName(q, procedure) == <<W(<<Unit(q, "len", 1)>>), W(<<Code(q, "name", procedure)>>)>>

\* zg_call, the argument, zg_drain
Call(q, arg) ==
  Verb(q, "call") \o CallName(q, "any") \o Result(q) \o WriteArg(q, arg) \o Drain(q)

CallSend(q) == VerbName(q, "call") \o CallName(q, "assert_clause")

CallWait(q) == Result(q) \o Result(q)

\* auto_commit and isolate: a verb, a byte, a result
Setting(q) == Verb(q, "isolate") \o <<W(Data(q, 1))>> \o Result(q)

SimpleVerb(q) == Verb(q, "commit") \o Result(q)

\* Mutant of Load: the whole load is sent before the first answer is read
LoadAtOnce(q, arg, skip) ==
  LET sent == SetToSortSeq(1..Burst \ skip, <)
  IN  FlattenSeq([i \in DOMAIN sent |-> CallSend(q + sent[i] - 1) \o WriteArg(q + sent[i] - 1, arg)])
        \o FlattenSeq([i \in DOMAIN sent |-> CallWait(q + sent[i] - 1) \o Drain(q + sent[i] - 1)])

\* A consulted predicate's clauses: the one at head is sent while the window has
\* room, else the answer of the one at tail is read.  A module's clause and a
\* dead one (skip) are passed over on both sides.
Load(q, arg, skip) ==
  LET send(k) == IF k \in skip THEN <<>> ELSE CallSend(q + k - 1) \o WriteArg(q + k - 1, arg)
      wait(k) == IF k \in skip THEN <<>> ELSE CallWait(q + k - 1) \o Drain(q + k - 1)
      loop[head, tail \in 1..Burst + 1] ==
        IF tail > Burst THEN <<>>
        ELSE IF head <= Burst /\ head - tail < Window THEN send(head) \o loop[head + 1, tail]
        ELSE wait(tail) \o loop[head, tail + 1]
  IN  loop[1, 1]

Request(q, call) ==
  CASE call.v = "echo"    -> Echo(q, call.n)
    [] call.v = "compile" -> Compile(q, call.n)
    [] call.v = "call"    -> Call(q, call.arg)
    [] call.v = "load"    -> Load(q, call.arg, call.skip)
    [] call.v = "isolate" -> Setting(q)
    [] call.v = "commit"  -> SimpleVerb(q)

Requests(call) == IF call.v = "load" THEN Burst ELSE 1

----------------------------------------------------------------------------
(* The connection *)

Todo == Head(c.todo)
Doing(o) == c.todo # <<>> /\ Todo.o = o /\ c.now = <<>> /\ ~astray
Done == [c EXCEPT !.todo = Tail(@)]

\* lost(): the socket is dropped with whatever was read ahead
LostConn == [c EXCEPT !.fd = FALSE, !.in = <<>>, !.now = <<>>, !.todo = <<>>]

\* flush_out: the buffer is emptied before its bytes are sent
FlushOut(conn) == [conn EXCEPT !.out = <<>>, !.now = conn.out]

\* wr
Wr ==
  /\ Doing("wr") /\ c.fd
  /\ LET n == Len(Todo.us)
     IN  c' = IF n >= OutSize
                THEN IF c.out = <<>> THEN [Done EXCEPT !.now = Todo.us] ELSE FlushOut(c)
              ELSE IF Len(c.out) + n > OutSize THEN FlushOut(c)
              ELSE [Done EXCEPT !.out = @ \o Todo.us]
  /\ UNCHANGED <<up, dn, s, asked, breaks, cut, astray>>

\* wr_now: the socket takes part of it or all of it; a server that has hung
\* up takes it and drops it
WrNow ==
  /\ c.now # <<>> /\ ~astray
  /\ \E k \in {1, Len(c.now)} :
       /\ s.hung \/ Len(up) + k <= SocketSize
       /\ up' = IF s.hung THEN up ELSE up \o SubSeq(c.now, 1, k)
       /\ c' = [c EXCEPT !.now = SubSeq(@, k + 1, Len(@))]
  /\ UNCHANGED <<dn, s, asked, breaks, cut, astray>>

\* rd, from what was read ahead
Rd ==
  /\ Doing("rd") /\ c.in # <<>>
  /\ LET u == Head(c.in)
     IN  IF Fits(Todo, u)
           THEN /\ \E then \in OnUnit(Todo, u) :
                     c' = [c EXCEPT !.in = Tail(@), !.todo = then \o Tail(@)]
                /\ UNCHANGED astray
           ELSE astray' = TRUE /\ UNCHANGED c
  /\ UNCHANGED <<up, dn, s, asked, breaks, cut>>

\* rd, with nothing in hand: what is held goes out first, and then it waits
RdMore ==
  /\ Doing("rd") /\ c.in = <<>> /\ c.fd
  /\ IF c.out # <<>>
       THEN c' = FlushOut(c) /\ UNCHANGED dn
       ELSE /\ dn # <<>>
            /\ \E k \in {1, IF Len(dn) < InSize THEN Len(dn) ELSE InSize} :
                 /\ c' = [c EXCEPT !.in = SubSeq(dn, 1, k)]
                 /\ dn' = SubSeq(dn, k + 1, Len(dn))
  /\ UNCHANGED <<up, s, asked, breaks, cut, astray>>

\* a read or a write under way
Transfer == ~astray /\ c.fd /\ (c.now # <<>> \/ (Doing("rd") /\ c.in = <<>> /\ c.out = <<>>))

\* it meets the end of the stream
Closed ==
  /\ Transfer
  /\ s.hung /\ dn = <<>> /\ s.put = <<>>
  /\ c' = LostConn
  /\ UNCHANGED <<up, dn, s, asked, breaks, cut, astray>>

\* it fails, or times out
Broken ==
  /\ Transfer
  /\ breaks < MaxBreaks
  /\ breaks' = breaks + 1
  /\ c' = LostConn
  /\ UNCHANGED <<up, dn, s, asked, cut, astray>>

\* an exception has been read to its end
Refused ==
  /\ Doing("lose")
  /\ c' = LostConn
  /\ UNCHANGED <<up, dn, s, asked, breaks, cut, astray>>

\* a call stops half way and leaves the socket open
Stop ==
  /\ Doing("refuse")
  /\ c' = [c EXCEPT !.todo = <<>>]
  /\ cut' = Todo.why
  /\ UNCHANGED <<up, dn, s, asked, breaks, astray>>

Idle == c.todo = <<>> /\ c.now = <<>> /\ ~astray /\ asked < MaxAsked

Begin(call) ==
  /\ Idle /\ c.fd
  /\ asked + Requests(call) <= MaxAsked
  /\ c' = [c EXCEPT !.todo = Request(asked + 1, call)]
  /\ asked' = asked + Requests(call)
  /\ UNCHANGED <<up, dn, s, breaks, cut, astray>>

\* Mutant of Fresh: what the old connection was writing is still held
FreshHolds == [fd |-> TRUE, out |-> c.out, in |-> <<>>, now |-> <<>>, todo |-> RdBe(0, "num")]

\* dial: a fresh socket, nothing held, nothing read ahead, and the server
\* speaks first
Fresh == [fd |-> TRUE, out |-> <<>>, in |-> <<>>, now |-> <<>>, todo |-> RdBe(0, "num")]

FreshServer ==
  [put |-> <<Unit(0, "hi", 0), Unit(0, "lo", 0)>>, want |-> <<>>, hung |-> FALSE]

Reopen ==
  /\ Idle
  /\ cut # "no" \/ ~c.fd
  /\ c' = Fresh
  /\ up' = <<>> /\ dn' = <<>>
  /\ s' = FreshServer
  /\ cut' = "no"
  /\ UNCHANGED <<asked, breaks, astray>>

----------------------------------------------------------------------------
(* The server *)

Says(us) == [o |-> "say", us |-> us]
Ok(q) == Code(q, "res", "done")

\* assert_clause answers no rows: a few dozen bytes
Short == {"done", "exception"}

\* what the server reads and says after a verb
Service(q, v) ==
  CASE v = "commit"  -> <<Says(<<Ok(q), Ok(q)>>)>>
    [] v = "echo"    -> <<Says(<<Ok(q)>>), R(q, "len", "bytes"),
                          Says(<<Unit(q, "len", 1), Unit(q, "data", 1)>>)>>
    [] v = "compile" -> <<Says(<<Ok(q)>>)>> \o RdBe(q, "bytes") \o <<Says(<<Ok(q)>>)>>
    [] v = "isolate" -> <<Says(<<Ok(q)>>)>> \o RdData(q, 1) \o <<Says(<<Ok(q)>>)>>
    [] v = "call"    -> <<Says(<<Ok(q)>>), R(q, "len", "name")>>

\* the name of a procedure: the server acknowledges it, reads its argument
\* and runs it
Procedure(q, p) ==
  <<Says(<<Ok(q)>>)>> \o Field(q)
    \o <<[o |-> "run", q |-> q, answers |-> IF p = "any" THEN Answers ELSE Answers \cap Short]>>

Num(q) == <<Code(q, "tdb", "num"), Unit(q, "hi", 0), Unit(q, "lo", 0)>>

ValueUnits(q, t) ==
  CASE t = "null" -> <<Code(q, "tdb", "null")>>
    [] t = "num"  -> Num(q)
    [] t = "str"  -> <<Code(q, "tdb", "str"), Unit(q, "len", 1), Unit(q, "data", 1)>>
    [] t = "txt"  -> <<Code(q, "tdb", "txt"), Unit(q, "hi", 1), Unit(q, "lo", 1), Unit(q, "data", 1)>>
    [] t = "vec"  -> <<Code(q, "tdb", "vec"), Unit(q, "hi", 2), Unit(q, "lo", 2)>> \o Num(q) \o Num(q)

\* the answer of a procedure
Answer(q, a) ==
  CASE a = "done" -> <<Ok(q)>>
    [] a = "rows" -> <<Code(q, "res", "open"), Unit(q, "len", 1), Unit(q, "data", 1),
                       Code(q, "res", "fetch")>> \o ValueUnits(q, "num")
                       \o <<Code(q, "res", "close"), Ok(q)>>
    [] a = "exception" -> <<Code(q, "res", "exception"), Unit(q, "len", 1), Unit(q, "data", 1)>>
    [] OTHER -> <<Code(q, "res", "return")>> \o ValueUnits(q, a) \o <<Ok(q)>>

\* the server takes a unit for what comes next in its request; it is never
\* given a reason to skip one
ServerReads ==
  /\ ~astray /\ ~s.hung /\ up # <<>> /\ Len(s.put) < PutSize
  /\ LET u == Head(up)
         want == IF s.want = <<>> THEN <<R(u.q, "len", "verb")>> ELSE s.want
         op == Head(want)
     IN  /\ op.o = "rd"
         /\ IF Fits(op, u)
              THEN /\ s' = [s EXCEPT !.want =
                              (CASE u.k = "verb" -> Service(u.q, u.v)
                                 [] u.k = "name" -> Procedure(u.q, u.v)
                                 [] u.k = "tdb"  -> SkipField(u.q, u.v)
                                 [] OTHER        -> CHOOSE x \in OnUnit(op, u) : TRUE)
                                \o Tail(want)]
                   /\ up' = Tail(up)
                   /\ UNCHANGED astray
              ELSE astray' = TRUE /\ UNCHANGED <<s, up>>
  /\ UNCHANGED <<c, dn, asked, breaks, cut>>

ServerSays ==
  /\ ~astray /\ ~s.hung /\ s.want # <<>>
  /\ \/ /\ Head(s.want).o = "say"
        /\ s' = [s EXCEPT !.put = @ \o Head(s.want).us, !.want = Tail(@)]
     \/ /\ Head(s.want).o = "run"
        /\ \E a \in Head(s.want).answers :
             s' = [s EXCEPT !.put = @ \o Answer(Head(s.want).q, a), !.want = Tail(@),
                            !.hung = (a = "exception")]
  /\ UNCHANGED <<c, up, dn, asked, breaks, cut, astray>>

\* it dies: nothing it held back is ever sent
ServerDies ==
  /\ ~astray /\ ~s.hung
  /\ breaks < MaxBreaks
  /\ breaks' = breaks + 1
  /\ s' = [s EXCEPT !.put = <<>>, !.want = <<>>, !.hung = TRUE]
  /\ UNCHANGED <<c, up, dn, asked, cut, astray>>

\* it flushes when it is about to block on the socket, or holds too much
ServerFlushes ==
  /\ ~astray /\ s.put # <<>>
  /\ \/ s.hung
     \/ Len(s.put) >= PutSize
     \/ up = <<>> /\ (s.want # <<>> => Head(s.want).o = "rd")
  /\ LET room == SocketSize - Len(dn)
         k == IF room < Len(s.put) THEN room ELSE Len(s.put)
     IN  /\ k > 0
         /\ dn' = dn \o SubSeq(s.put, 1, k)
         /\ s' = [s EXCEPT !.put = SubSeq(@, k + 1, Len(@))]
  /\ UNCHANGED <<c, up, asked, breaks, cut, astray>>

----------------------------------------------------------------------------
Init ==
  /\ c = [fd |-> TRUE, out |-> <<>>, in |-> <<>>, now |-> <<>>, todo |-> RdBe(0, "num")]
  /\ up = <<>> /\ dn = <<>>
  /\ s = FreshServer
  /\ asked = 0 /\ breaks = 0
  /\ cut = "no" /\ astray = FALSE

Client == Wr \/ WrNow \/ Rd \/ RdMore \/ Closed \/ Refused \/ Stop
Server == ServerReads \/ ServerSays \/ ServerFlushes

Next == Client \/ Broken \/ ServerDies \/ Reopen \/ Server \/ \E call \in Calls : Begin(call)

Spec == Init /\ [][Next]_vars

(* The fairness: the program goes on with the call it is in, the server    *)
(* with what it was sent, and a closed stream is read to its end.          *)
FairSpec == Spec /\ WF_vars(Client) /\ WF_vars(Server)

----------------------------------------------------------------------------

(* Either end reads every unit for what it is, whatever the buffers, the   *)
(* partial transfers, the lost connections and the pipelining do, unless a *)
(* call on this connection was stopped half way (a parameter refused after *)
(* its verb went out, a Vector wider than the caller's buffer).            *)
InStep == astray => cut \in {"parameter", "vector"}

(* Every call returns: neither end waits for the other for ever, in a load *)
(* of more clauses than the socket could hold the answers of and with the  *)
(* server flushing only when it is about to block, as long as no call was  *)
(* stopped half way before it.                                             *)
CallReturns == (c.todo # <<>>) ~> (c.todo = <<>> \/ cut # "no")
============================================================================
