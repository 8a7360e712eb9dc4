--------------------------- MODULE MCGreenBarrier ---------------------------
(* Small worlds for TLC: the workers are model values, and the configurations *)
(* say which of them make foreign calls or wait inside nested engines.        *)
EXTENDS GreenBarrier
=============================================================================
