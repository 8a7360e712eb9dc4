---------------------------- MODULE GreenChannel ----------------------------
(***************************************************************************)
(* What a channel of a green world promises its tasks: one queue of the    *)
(* messages offered and not yet taken, those of blocked senders last.  A   *)
(* message is taken in the order it was offered and at most once; a close  *)
(* ends the offers, loses the messages of the blocked senders only, and    *)
(* leaves what the ring holds to be taken.                                 *)
(***************************************************************************)
EXTENDS Naturals, Sequences

CONSTANTS
  Message,  \* what is sent
  Size      \* the ring's size, 0 for a rendezvous

VARIABLES
  queue,   \* messages offered and not taken
  taken,   \* messages taken, oldest first
  closed

vars == <<queue, taken, closed>>

Offer(v) ==
  /\ ~closed
  /\ queue' = Append(queue, v)
  /\ UNCHANGED <<taken, closed>>

Take ==
  /\ queue # <<>>
  /\ taken' = Append(taken, Head(queue))
  /\ queue' = Tail(queue)
  /\ UNCHANGED closed

\* A message handed to a receiver that was waiting.
Pass(v) ==
  /\ ~closed /\ queue = <<>>
  /\ taken' = Append(taken, v)
  /\ UNCHANGED <<queue, closed>>

Close ==
  /\ closed' = TRUE
  /\ queue' = IF Len(queue) > Size THEN SubSeq(queue, 1, Size) ELSE queue
  /\ UNCHANGED taken

Init == queue = <<>> /\ taken = <<>> /\ closed = FALSE

Next == (\E v \in Message : Offer(v) \/ Pass(v)) \/ Take \/ Close

Spec == Init /\ [][Next]_vars
=============================================================================
