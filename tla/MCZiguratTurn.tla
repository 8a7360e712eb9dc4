---------------------------- MODULE MCZiguratTurn ----------------------------
(* ZiguratTurn for TLC. *)
EXTENDS ZiguratTurn
=============================================================================
