----------------------------- MODULE ZeytunGet -----------------------------
(***************************************************************************)
(* One GET of a Zeytun page: client/zeytun.c over client/tls.c.            *)
(*                                                                         *)
(* The argument is percent-encoded into the path, the socket is dialled,   *)
(* a TLS session is put over it when the process was configured for one,   *)
(* the request goes out, the answer is read into a growing buffer until    *)
(* Content-Length is satisfied, and the body is unescaped.  The texts are  *)
(* sequences of characters, because both conversions are about characters; *)
(* a response is its status, its Content-Length line, the two halves of    *)
(* the blank line and the body's characters.                               *)
(***************************************************************************)
EXTENDS Naturals, Sequences, SequencesExt

CONSTANTS
  Args,       \* texts a caller asks about
  PathCap,    \* the buffer zt_urlencode is given
  RequestMax, \* the request line zt_get2 has room for
  Pages,      \* texts a page answers
  Chunk,      \* slurp keeps room for this many (4096), and starts with two
  MaxGets     \* bound: calls of zt_get

ASSUME ChunkAssumption == Chunk \in Nat \ {0, 1}
ASSUME MaxGetsAssumption == MaxGets \in Nat
ASSUME TextsAssumption == \A s \in Args \cup Pages : s \in Seq(Range(s))

VARIABLES
  pc,      \* where zt_get2 stands, coco_client_tls_open included
  opts,    \* the process's TLS options, or Plain
  peer,    \* is the far end the host it was asked for?
  fd,      \* the socket is open
  tls,     \* what is allocated of the TLS half: "ctx", "ssl"; and "up"
  arg,     \* what was asked
  left,    \* characters of the request still to send
  seen,    \* what the page was asked, as the server decoded it
  wire,    \* the response on its way
  shut,    \* the server has closed its end, and how: "", "end", "early"
  page,    \* the text the page answered with
  buf,     \* slurp's buffer
  cap,     \* its size
  result,  \* of the last get
  text,    \* and its body, unescaped
  gets

vars == <<pc, opts, peer, fd, tls, arg, left, seen, wire, shut, page, buf, cap, result, text, gets>>

----------------------------------------------------------------------------
(* The two conversions *)

Safe == {"a", "l", "t", "m", "p", "x", "2", "3", "5", "6", "B", "C"}

\* the two hex digits of a character that is not safe
Hex(ch) == CASE ch = "%" -> <<"2", "5">>
             [] ch = "&" -> <<"2", "6">>
             [] ch = ";" -> <<"3", "B">>
             [] OTHER    -> <<"3", "C">>

\* zt_urlencode, without its bound: a safe character, or `%' and two digits
UrlEncode(in) ==
  FlattenSeq([i \in 1..Len(in) |-> IF in[i] \in Safe THEN <<in[i]>> ELSE <<"%">> \o Hex(in[i])])

\* each character is put in only if what it takes and the NUL fit
Encodes(in) == Len(UrlEncode(in)) + 1 <= PathCap

\* the server's side: wherever a `%' and the digits of a character stand, that
\* character, whoever wrote the `%'
UrlDecode(s) ==
  LET d[r \in 1..Len(s) + 1] ==
        IF r > Len(s) THEN <<>>
        ELSE LET hit == {ch \in {"%", "&", ";", "<"} :
                           /\ s[r] = "%" /\ r + 2 <= Len(s)
                           /\ SubSeq(s, r + 1, r + 2) = Hex(ch)}
             IN  IF hit = {} THEN <<s[r]>> \o d[r + 1]
                 ELSE <<CHOOSE ch \in hit : TRUE>> \o d[r + 3]
  IN  d[1]

\* two of the five entities stand for them all
Entity(ch) == CASE ch = "&" -> <<"&", "a", "m", "p", ";">>
                [] ch = "<" -> <<"&", "l", "t", ";">>
                [] OTHER    -> <<ch>>

\* Zeytun's escaper
Escape(s) == FlattenSeq([i \in 1..Len(s) |-> Entity(s[i])])

\* the entities of chs undone in one pass: u[r] is what is written from
\* position r on
Undo(s, chs) ==
  LET At(r, e) == r + Len(e) - 1 <= Len(s) /\ SubSeq(s, r, r + Len(e) - 1) = e
      u[r \in 1..Len(s) + 1] ==
        IF r > Len(s) THEN <<>>
        ELSE LET hit == {ch \in chs : At(r, Entity(ch))}
             IN  IF hit = {} THEN <<s[r]>> \o u[r + 1]
                 ELSE LET ch == CHOOSE x \in hit : TRUE
                      IN  <<ch>> \o u[r + Len(Entity(ch))]
  IN  u[1]

\* zt_unescape: at an `&' that begins an entity its character, otherwise the
\* character itself, never looking again at what it wrote
Unescape(s) == Undo(s, {"&", "<"})

\* The two conversions undo what the server's two do, on the texts of the world.
RoundTrips ==
  /\ \A a \in Args : UrlDecode(UrlEncode(a)) = a
  /\ \A s \in Pages : Unescape(Escape(s)) = s

----------------------------------------------------------------------------
(* A response *)

Line(k, n) == [k |-> k, n |-> n, ch |-> ""]
BodyChar(ch) == [k |-> "body", n |-> 0, ch |-> ch]

Response(status, s, withLength) ==
  <<Line(status, 0)>> \o (IF withLength THEN <<Line("length", Len(Escape(s)))>> ELSE <<>>)
    \o <<Line("blank", 1), Line("blank", 2)>>
    \o [i \in 1..Len(Escape(s)) |-> BodyChar(Escape(s)[i])]

\* bytes up to and including the blank line, 0 while it is not all there
HeaderLen(b) == LET ends == {i \in 1..Len(b) : b[i].k = "blank" /\ b[i].n = 2}
                IN  IF ends = {} THEN 0 ELSE CHOOSE i \in ends : TRUE

ContentLength(b) == {b[i].n : i \in {j \in 1..Len(b) : b[j].k = "length"}}

\* Mutant of Complete: the answer is read to the end of the file
CompleteNever(b) == FALSE

\* slurp's way out: everything Content-Length promised has come
Complete(b) ==
  /\ HeaderLen(b) > 0
  /\ \E n \in ContentLength(b) : Len(b) >= HeaderLen(b) + n

Body(b) == [i \in 1..Len(b) - HeaderLen(b) |-> b[i + HeaderLen(b)].ch]

----------------------------------------------------------------------------
(* zt_get and coco_client_tls_open *)

Plain == [on |-> FALSE, pair |-> "none", insecure |-> FALSE]
Options == {Plain} \cup [on : {TRUE}, pair : {"none", "both", "half"}, insecure : BOOLEAN]

Session == <<fd, tls>>
Talk == <<left, seen, wire, shut, page, buf, cap>>

\* coco_client_tls_configure
Configure(o) ==
  /\ pc = "idle" /\ gets < MaxGets
  /\ opts' = o
  /\ UNCHANGED <<pc, peer, Session, arg, Talk, result, text, gets>>

\* zt_urlencode by the caller, then the request line of zt_get2
Get(a) ==
  /\ pc = "idle" /\ gets < MaxGets
  /\ gets' = gets + 1
  /\ arg' = a /\ text' = <<>>
  /\ IF Encodes(a) /\ Len(UrlEncode(a)) < RequestMax
       THEN pc' = "dial" /\ result' = "none"
       ELSE pc' = "idle" /\ result' = "too long"
  /\ left' = UrlEncode(a)
  /\ seen' = <<>> /\ wire' = <<>> /\ shut' = "" /\ page' = <<>>
  /\ buf' = <<>> /\ cap' = 2 * Chunk
  /\ \E p \in BOOLEAN : peer' = p
  /\ UNCHANGED <<opts, Session>>

Fail(why) == pc' = "idle" /\ result' = why /\ UNCHANGED text

\* zt_hangup
Hangup == fd' = FALSE /\ tls' = {}

Dial ==
  /\ pc = "dial"
  /\ \/ fd' = TRUE /\ pc' = (IF opts.on THEN "ctx" ELSE "send") /\ UNCHANGED <<result, text>>
     \/ Fail("cannot connect") /\ UNCHANGED fd
  /\ UNCHANGED <<opts, peer, tls, arg, Talk, gets>>

\* the steps of coco_client_tls_open; `name' sets the host name to check and
\* asks for the peer's certificate, and an insecure session leaves it out
After == [ctx |-> "authority", authority |-> "pair", pair |-> "ssl", ssl |-> "name",
          name |-> "socket", socket |-> "connect", connect |-> "send"]

\* Mutant of TlsBad: the socket under a session that failed stays open
TlsBadKeeps == tls' = {} /\ UNCHANGED fd /\ Fail("no session")

\* `bad': what was made is freed, and zt_get2 closes the socket
TlsBad == Hangup /\ Fail("no session")

\* Mutant of NameChecked: an authority of one's own is check enough
NameCheckedByPair == opts.pair = "none" /\ ~opts.insecure

\* is the peer's name checked in the handshake?
NameChecked == ~opts.insecure

TlsStep ==
  /\ pc \in DOMAIN After
  /\ \/ /\ pc = "pair" => opts.pair # "half"
        /\ pc = "connect" /\ NameChecked => peer
        /\ tls' = tls \cup (IF pc \in {"ctx", "ssl"} THEN {pc}
                            ELSE IF pc = "connect" THEN {"up"} ELSE {})
        /\ pc' = After[pc]
        /\ UNCHANGED <<fd, result, text>>
     \/ TlsBad
  /\ UNCHANGED <<opts, peer, arg, Talk, gets>>

Send ==
  /\ pc = "send"
  /\ IF left = <<>>
       THEN pc' = "read" /\ UNCHANGED <<left, seen, Session, result, text>>
       ELSE \/ \E k \in {1, Len(left)} :
                 /\ seen' = seen \o SubSeq(left, 1, k)
                 /\ left' = SubSeq(left, k + 1, Len(left))
                 /\ UNCHANGED <<pc, Session, result, text>>
            \/ Hangup /\ Fail("write failed") /\ UNCHANGED <<left, seen>>
  /\ UNCHANGED <<opts, peer, arg, wire, shut, page, buf, cap, gets>>

\* Mutant of Grown: the buffer is grown only when it is over-full
GrownLate(n) == IF n > cap THEN 2 * cap ELSE cap

\* slurp's buffer is grown before a read
Grown(n) == LET g[c \in Nat] == IF n + Chunk > c THEN g[2 * c] ELSE c IN g[cap]

\* what slurp asks the next read for: the buffer but for the NUL
Room == Grown(Len(buf)) - Len(buf) - 1

\* slurp, one read of its loop; what does not fit the buffer stays in the
\* socket
Read ==
  /\ pc = "read" /\ ~Complete(buf) /\ Room > 0 /\ wire # <<>>
  /\ cap' = Grown(Len(buf))
  /\ LET most == IF Len(wire) < Room THEN Len(wire) ELSE Room
     IN  \E k \in {1, most} :
           /\ buf' = buf \o SubSeq(wire, 1, k)
           /\ wire' = SubSeq(wire, k + 1, Len(wire))
  /\ UNCHANGED <<pc, opts, peer, Session, arg, left, seen, shut, page, result, text, gets>>

\* slurp is done, or a read answers 0, which it takes for the end of the
\* stream: the stream is at its end (a TLS read says so of a broken session
\* too), or nothing was asked for.  zt_get2 then looks at what came.
Parse ==
  /\ pc = "read"
  /\ Complete(buf) \/ Room = 0 \/ (wire = <<>> /\ shut # "")
  /\ Hangup
  /\ pc' = "idle"
  /\ result' = IF buf = <<>> THEN "no status line"
               ELSE IF buf[1].k # "200" THEN "the server answered"
               ELSE IF HeaderLen(buf) = 0 THEN "no end of headers" ELSE "ok"
  /\ text' = IF result' = "ok" THEN Unescape(Body(buf)) ELSE <<>>
  /\ UNCHANGED <<opts, peer, arg, Talk, gets>>

\* a read that fails or times out
ReadFails ==
  /\ pc = "read" /\ ~Complete(buf)
  /\ IF "up" \in tls
       THEN /\ shut' = "early" /\ wire' = <<>>
            /\ UNCHANGED <<pc, Session, result, text>>
       ELSE Hangup /\ Fail("read failed") /\ UNCHANGED <<wire, shut>>
  /\ UNCHANGED <<opts, peer, arg, left, seen, page, buf, cap, gets>>

----------------------------------------------------------------------------
(* The server: one response to the whole request; it keeps the connection  *)
(* alive when it said how long the answer is, and may die half way         *)

Serve ==
  /\ pc = "read" /\ page = <<>> /\ buf = <<>> /\ wire = <<>> /\ shut = ""
  /\ \E s \in Pages, status \in {"200", "404"}, withLength \in BOOLEAN :
       /\ page' = <<s>>
       /\ wire' = Response(status, s, withLength)
       /\ shut' = IF withLength THEN "" ELSE "end"
  /\ UNCHANGED <<pc, opts, peer, Session, arg, left, seen, buf, cap, result, text, gets>>

ServerDies ==
  /\ pc = "read" /\ shut = ""
  /\ shut' = "early"
  /\ \E k \in {0, Len(wire) \div 2} : wire' = SubSeq(wire, 1, k)
  /\ UNCHANGED <<pc, opts, peer, Session, arg, left, seen, page, buf, cap, result, text, gets>>

----------------------------------------------------------------------------
Init ==
  /\ pc = "idle" /\ opts = Plain /\ peer = TRUE
  /\ fd = FALSE /\ tls = {}
  /\ arg = <<>> /\ left = <<>> /\ seen = <<>> /\ wire = <<>> /\ shut = "" /\ page = <<>>
  /\ buf = <<>> /\ cap = 2 * Chunk
  /\ result = "none" /\ text = <<>> /\ gets = 0

Next ==
  \/ \E o \in Options : Configure(o)
  \/ \E a \in Args : Get(a)
  \/ Dial \/ TlsStep \/ Send \/ Read \/ Parse \/ ReadFails
  \/ Serve \/ ServerDies

Spec == Init /\ [][Next]_vars

(* The fairness: the client goes on while it can, and nothing is assumed   *)
(* of timeouts.                                                            *)
FairSpec == Spec /\ WF_vars(Read) /\ WF_vars(Parse)

----------------------------------------------------------------------------
(* slurp never asks a read for nothing, and what it holds leaves room for  *)
(* the NUL.                                                                *)
RoomToRead == Len(buf) < cap /\ (pc = "read" => Room > 0)

(* Whatever way zt_get2 returns, the socket is closed and the session and  *)
(* its context are freed.                                                  *)
NothingLeft == pc = "idle" => ~fd /\ tls = {}

(* Nothing of the request goes to a peer that is not the host it names: a  *)
(* process configured for TLS sends only over a session, and over one      *)
(* whose name was checked unless it asked for none of that.                *)
SentInsideSession ==
  seen # <<>> /\ pc # "idle" => (opts.on => "up" \in tls /\ (peer \/ opts.insecure))

(* What the page was asked is what the caller asked and what the caller    *)
(* gets is what the page answered, through both conversions, unless the    *)
(* server or the session died.                                             *)
Faithful ==
  result = "ok" /\ pc = "idle" /\ shut # "early" => UrlDecode(seen) = arg /\ <<text>> = page

(* An answer that says how long it is ends the call, with the server       *)
(* keeping the connection open: nobody waits for the socket timeout.       *)
NoTimeoutNeeded ==
  (pc = "read" /\ wire # <<>> /\ shut = "" /\ page # <<>>) ~> (pc # "read" \/ shut # "")
============================================================================
