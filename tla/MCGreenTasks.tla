---------------------------- MODULE MCGreenTasks ----------------------------
(* Small worlds of tasks and channels for TLC. *)
EXTENDS GreenTasks, TLC

CONSTANTS a, b

Rendezvous == (a :> 0)
Mixed == (a :> 0) @@ (b :> 1)
=============================================================================
