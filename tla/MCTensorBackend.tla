--------------------------- MODULE MCTensorBackend ---------------------------
(* TensorBackend for TLC: a program that has made a parameter from data it  *)
(* then freed, in either mode, and goes on from there.                      *)
EXTENDS TensorBackend

MCInit ==
  LET data == NewValue([slot |-> [h \in Handles |-> FreeSlot], cursor |-> 1,
                        entry |-> <<>>, scalar |-> <<>>, scalarNext |-> 1],
                       Term("data", <<>>, 0), FALSE)
      w == NewValue(data.t, data.t.slot[data.h].eh, FALSE)
      t == TfbFree(w.t, data.h)
  IN  /\ tf = [t EXCEPT !.slot[w.h].is_param = TRUE, !.slot[w.h].pid = 1]
      /\ mode \in {"eager", "graph"} /\ named = {w.h} /\ spilt = {}
      /\ last = NoGrad /\ steps = 0 /\ faults = 0

MCSpec == MCInit /\ [][Next]_vars
=============================================================================
