--------------------------- MODULE MCZiguratWire ---------------------------
(***************************************************************************)
(* ZiguratWire for TLC.                                                    *)
(***************************************************************************)
EXTENDS ZiguratWire

\* every kind of call, with values at and past the limits
MCCalls ==
  [v : {"echo"}, n : {0, MaxString + 1}] \cup [v : {"compile"}, n : {MaxText, MaxText + 1}]
    \cup [v : {"call"}, arg : {"num", "str", "txt", "vec", "long str", "long txt"}]
    \cup [v : {"load"}, arg : {"num", "long str"}, skip : {{}, {2, 3}}]
    \cup [v : {"commit", "isolate"}]
============================================================================
