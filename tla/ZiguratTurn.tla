----------------------------- MODULE ZiguratTurn -----------------------------
(***************************************************************************)
(* Taking turns: the connections of client/zigurat.c that share a turn     *)
(* file (zg_serialise), the flock each verb polls for, and the transaction *)
(* each connection has at the server.                                      *)
(*                                                                         *)
(* A connection is named for the process that opened it: what the model    *)
(* says of two connections it says of two processes.  The server is        *)
(* external: it runs one request of a connection at a time, may make it    *)
(* wait for a row another transaction holds, and rolls back the            *)
(* transaction of a connection that is gone, when it notices.              *)
(***************************************************************************)
EXTENDS Naturals

CONSTANTS Clients,    \* the connections
          NoOne,      \* nobody has the turn file locked
          LockWait    \* zg_serialise's bound, in polls; 0: wait for ever

ASSUME ClientAssumption == NoOne \notin Clients
ASSUME WaitAssumption == LockWait \in Nat

VARIABLES
  pc,      \* where the process is: "idle", "turn" (take_turn), "reply" (zg_result)
  verb,    \* the verb it is in the middle of
  waited,  \* polls of the turn file in this call
  open,    \* fd >= 0
  held,    \* c->held
  failed,  \* the caller was told that a verb failed, and no end of a
           \* transaction or new connection has followed
  turn,    \* whose lock the kernel has on the turn file
  busy,    \* the server is inside its request
  needs,   \* ... which needs a row another transaction may hold
  reply,   \* what the server has answered
  work,    \* its transaction has done something
  stray    \* a connection it lost left a transaction at the server

client == <<pc, verb, waited, open, held, failed>>
server == <<busy, needs, reply, work, stray>>
vars == <<pc, verb, waited, open, held, failed, turn, busy, needs, reply, work, stray>>

Verbs == {"call", "commit", "rollback"}

Init ==
  /\ pc = [c \in Clients |-> "idle"]
  /\ verb = [c \in Clients |-> "call"]
  /\ waited = [c \in Clients |-> 0]
  /\ open = [c \in Clients |-> TRUE]
  /\ held = [c \in Clients |-> FALSE]
  /\ failed = [c \in Clients |-> FALSE]
  /\ turn = NoOne
  /\ busy = [c \in Clients |-> FALSE]
  /\ needs = [c \in Clients |-> FALSE]
  /\ reply = [c \in Clients |-> "none"]
  /\ work = [c \in Clients |-> FALSE]
  /\ stray = [c \in Clients |-> FALSE]

-----------------------------------------------------------------------------
(* The turn *)

\* Mutant of GiveTurn: the flag is forgotten.
GiveTurnOnly(c) ==
  /\ turn' = IF held[c] THEN NoOne ELSE turn
  /\ UNCHANGED held

GiveTurn(c) ==
  /\ held' = [held EXCEPT ![c] = FALSE]
  /\ turn' = IF held[c] THEN NoOne ELSE turn

\* A verb is begun: its turn is waited for first.
Verb(c, v) ==
  /\ pc[c] = "idle"
  /\ pc' = [pc EXCEPT ![c] = "turn"]
  /\ verb' = [verb EXCEPT ![c] = v]
  /\ UNCHANGED <<waited, open, held, failed, turn, busy, needs, reply, work, stray>>

\* The request goes out; on a closed connection nothing does, and the turn
\* is kept.
Send(c) ==
  IF open[c]
    THEN /\ pc' = [pc EXCEPT ![c] = "reply"]
         /\ busy' = [busy EXCEPT ![c] = TRUE]
         /\ \E n \in BOOLEAN : needs' = [needs EXCEPT ![c] = n /\ verb[c] = "call"]
         /\ reply' = [reply EXCEPT ![c] = "none"]
         /\ UNCHANGED failed
    ELSE /\ pc' = [pc EXCEPT ![c] = "idle"]
         /\ failed' = [failed EXCEPT ![c] = TRUE]
         /\ UNCHANGED <<busy, needs, reply>>

TakeTurn(c) ==
  /\ pc[c] = "turn" /\ (held[c] \/ turn = NoOne)
  /\ held' = [held EXCEPT ![c] = TRUE]
  /\ turn' = c
  /\ waited' = [waited EXCEPT ![c] = 0]
  /\ Send(c)
  /\ UNCHANGED <<verb, open, work, stray>>

\* Mutant of Poll: the wait is not counted.
PollUncounted(c) ==
  /\ pc[c] = "turn" /\ ~held[c] /\ turn # NoOne
  /\ LockWait > 0 => waited[c] < LockWait
  /\ UNCHANGED vars

Poll(c) ==
  /\ pc[c] = "turn" /\ ~held[c] /\ turn # NoOne
  /\ LockWait > 0 => waited[c] < LockWait
  /\ waited' = [waited EXCEPT ![c] = IF LockWait > 0 THEN @ + 1 ELSE 0]
  /\ UNCHANGED <<pc, verb, open, held, failed, turn, server>>

\* The verb ends before anything was sent.
NoTurn(c) ==
  /\ pc[c] = "turn" /\ ~held[c]
  /\ pc' = [pc EXCEPT ![c] = "idle"]
  /\ waited' = [waited EXCEPT ![c] = 0]
  /\ failed' = [failed EXCEPT ![c] = TRUE]
  /\ UNCHANGED <<verb, open, held, turn, server>>

\* "timed out waiting for another cocolog process"
TimeOut(c) == NoTurn(c) /\ turn # NoOne /\ LockWait > 0 /\ waited[c] >= LockWait

\* "cannot take the turn": flock failed with another error.
CannotTake(c) == NoTurn(c)

-----------------------------------------------------------------------------
(* The server *)

\* A transaction that may hold a row: a connection's, or one it left behind.
Holds(c) == work[c] \/ stray[c]

ServerRuns(c) ==
  /\ busy[c]
  /\ needs[c] => ~stray[c] /\ \A d \in Clients \ {c} : ~Holds(d)
  /\ busy' = [busy EXCEPT ![c] = FALSE]
  /\ needs' = [needs EXCEPT ![c] = FALSE]
  /\ reply' = [reply EXCEPT ![c] = "done"]
  /\ work' = [work EXCEPT ![c] = verb[c] = "call"]
  /\ UNCHANGED <<client, turn, stray>>

\* The server says no and the connection goes on: it does not take the verb
\* ("untaken"), or the verb's own result is not SUCCESSFUL_DONE ("refused").
\* What became of the transaction is the server's; a refused commit may leave
\* it open.
ServerRefuses(c) ==
  /\ busy[c]
  /\ busy' = [busy EXCEPT ![c] = FALSE]
  /\ needs' = [needs EXCEPT ![c] = FALSE]
  /\ \/ /\ reply' = [reply EXCEPT ![c] = "untaken"]
        /\ UNCHANGED work
     \/ /\ reply' = [reply EXCEPT ![c] = "refused"]
        /\ \E w \in {work[c], verb[c] = "call"} : work' = [work EXCEPT ![c] = w]
  /\ UNCHANGED <<client, turn, stray>>

\* An exception ends the connection at the server, and its transaction.
ServerThrows(c) ==
  /\ busy[c]
  /\ busy' = [busy EXCEPT ![c] = FALSE]
  /\ needs' = [needs EXCEPT ![c] = FALSE]
  /\ reply' = [reply EXCEPT ![c] = "exception"]
  /\ work' = [work EXCEPT ![c] = FALSE]
  /\ UNCHANGED <<client, turn, stray>>

ServerEnds(c) ==
  /\ stray[c]
  /\ stray' = [stray EXCEPT ![c] = FALSE]
  /\ UNCHANGED <<client, turn, busy, needs, reply, work>>

\* The connection goes; what it had at the server is there a while longer.
Abandon(c) ==
  /\ stray' = [stray EXCEPT ![c] = @ \/ work[c] \/ busy[c]]
  /\ work' = [work EXCEPT ![c] = FALSE]
  /\ busy' = [busy EXCEPT ![c] = FALSE]
  /\ needs' = [needs EXCEPT ![c] = FALSE]
  /\ reply' = [reply EXCEPT ![c] = "none"]

-----------------------------------------------------------------------------
(* The reply, and the ways a connection ends *)

Answered(c) == pc[c] = "reply" /\ reply[c] \in {"done", "refused", "untaken"}

\* Mutant of Received: the turn goes back at the end of every call.
ReceivedGives(c) ==
  /\ Answered(c)
  /\ pc' = [pc EXCEPT ![c] = "idle"]
  /\ reply' = [reply EXCEPT ![c] = "none"]
  /\ GiveTurn(c)
  /\ failed' = [failed EXCEPT ![c] = reply[c] # "done" \/ (@ /\ verb[c] = "call")]
  /\ UNCHANGED <<verb, waited, open, busy, needs, work, stray>>

\* The end of a transaction is the place the turn goes back, whatever the
\* server made of it; the end of a call is not, nor is a verb that the
\* server did not take.
Received(c) ==
  /\ Answered(c)
  /\ pc' = [pc EXCEPT ![c] = "idle"]
  /\ reply' = [reply EXCEPT ![c] = "none"]
  /\ IF verb[c] = "call" \/ reply[c] = "untaken"
       THEN UNCHANGED <<held, turn>> ELSE GiveTurn(c)
  /\ failed' = [failed EXCEPT ![c] = reply[c] # "done" \/ (@ /\ verb[c] = "call")]
  /\ UNCHANGED <<verb, waited, open, busy, needs, work, stray>>

\* An exception read, a send or receive that failed or timed out.
Lost(c) ==
  /\ pc[c] = "reply"
  /\ pc' = [pc EXCEPT ![c] = "idle"]
  /\ open' = [open EXCEPT ![c] = FALSE]
  /\ failed' = [failed EXCEPT ![c] = TRUE]
  /\ GiveTurn(c)
  /\ Abandon(c)
  /\ UNCHANGED <<verb, waited>>

Exception(c) == reply[c] = "exception" /\ Lost(c)

\* dial: everything of the old connection is over, turn included.
Reopen(c) ==
  /\ pc[c] = "idle"
  /\ \E ok \in BOOLEAN : /\ open' = [open EXCEPT ![c] = ok]
                        /\ failed' = [failed EXCEPT ![c] = ~ok]
  /\ GiveTurn(c)
  /\ Abandon(c)
  /\ UNCHANGED <<pc, verb, waited>>

\* zg_close, or the process dying anywhere: the kernel lets go of the lock
\* and of the socket.  The next process dials.
Ends(c) ==
  /\ pc' = [pc EXCEPT ![c] = "idle"]
  /\ open' = [open EXCEPT ![c] = FALSE]
  /\ waited' = [waited EXCEPT ![c] = 0]
  /\ failed' = [failed EXCEPT ![c] = FALSE]
  /\ GiveTurn(c)
  /\ Abandon(c)
  /\ UNCHANGED verb

Close(c) == pc[c] = "idle" /\ open[c] /\ Ends(c)
Crash(c) == pc[c] # "idle" /\ Ends(c)

Next ==
  \E c \in Clients :
    \/ \E v \in Verbs : Verb(c, v)
    \/ TakeTurn(c) \/ Poll(c) \/ TimeOut(c) \/ CannotTake(c)
    \/ ServerRuns(c) \/ ServerRefuses(c) \/ ServerThrows(c) \/ ServerEnds(c)
    \/ Received(c) \/ Exception(c) \/ Lost(c)
    \/ Reopen(c) \/ Close(c) \/ Crash(c)

Spec == Init /\ [][Next]_vars

\* A process in a verb runs on; the server runs what no row keeps from
\* running and notices a broken socket, but need not refuse or throw, so a
\* request can wait for a row as long as the row is held; the socket has no
\* timeout.  A caller told of a failure tries again, and redials or goes
\* sooner or later; nobody has to begin or to end anything else.
Fairness ==
  \A c \in Clients :
    /\ WF_vars(TakeTurn(c) \/ Poll(c) \/ TimeOut(c))
    /\ WF_vars(ServerRuns(c))
    /\ WF_vars(ServerEnds(c))
    /\ WF_vars(Received(c) \/ Exception(c))
    /\ SF_vars(failed[c] /\ (Reopen(c) \/ Close(c)))

FairSpec == Spec /\ Fairness

-----------------------------------------------------------------------------
(* Properties *)

TypeOK ==
  /\ pc \in [Clients -> {"idle", "turn", "reply"}]
  /\ verb \in [Clients -> Verbs]
  /\ waited \in [Clients -> 0 .. LockWait]
  /\ open \in [Clients -> BOOLEAN]
  /\ held \in [Clients -> BOOLEAN]
  /\ failed \in [Clients -> BOOLEAN]
  /\ turn \in Clients \cup {NoOne}
  /\ busy \in [Clients -> BOOLEAN]
  /\ needs \in [Clients -> BOOLEAN]
  /\ reply \in [Clients -> {"none", "done", "refused", "untaken", "exception"}]
  /\ work \in [Clients -> BOOLEAN]
  /\ stray \in [Clients -> BOOLEAN]

\* A connection that believes it has the turn has the kernel's lock, and the
\* other way round: through lost(), dial, zg_close and a crash in between,
\* c->held and flock never drift apart.
HeldIsLocked == \A c \in Clients : held[c] <=> turn = c

\* A request is inside the server only in its connection's turn, so no two
\* connections are in the storage engine at once; and a transaction with work
\* in it is open only in the turn, so that none is let in between a call and
\* its commit, or in the hands of a caller that was told so: simple_verb gives
\* the turn after a commit that was refused, which may leave the transaction
\* open.  (What a lost connection leaves running there is nobody's any more,
\* and is outside this: lost gives the turn without waiting for it.)
WorkUnderTurn ==
  \A c \in Clients :
    /\ busy[c] => turn = c /\ open[c]
    /\ work[c] => (turn = c \/ failed[c]) /\ open[c]

\* A verb ends, although the server may keep its request waiting for a row:
\* take_turn gives up after a bounded wait, so a process whose uncommitted
\* transaction holds the row another waits for, itself waiting for the turn
\* the other has, fails, redials, and the row is free again.
VerbEnds == \A c \in Clients : pc[c] # "idle" ~> pc[c] = "idle"

\* The strengthening that makes WorkUnderTurn inductive: a request is inside
\* the server only while its process waits for the reply, a reply is there
\* only when the request is over, and the reply that ends a transaction
\* means that nothing of it is left.
ReplyInv ==
  \A c \in Clients :
    /\ pc[c] # "reply" => reply[c] = "none" /\ ~busy[c]
    /\ reply[c] # "none" => ~busy[c]
    /\ reply[c] = "done" /\ verb[c] # "call" => ~work[c]
=============================================================================
