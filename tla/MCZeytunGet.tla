---------------------------- MODULE MCZeytunGet ----------------------------
(***************************************************************************)
(* ZeytunGet for TLC.                                                      *)
(***************************************************************************)
EXTENDS ZeytunGet

\* what is safe, what is not, what reads like an escape, and what fits the
\* path and not the request, or neither
MCArgs == {<<>>, <<"a">>, <<"&", "a">>, <<"%", "2", "6">>, <<"&", "&">>, <<"&", "&", "a">>}

\* a text, one that is escaped, and one that reads like an entity
MCPages == {<<>>, <<"x", "<">>, <<"&", "l", "t", ";">>}

\* the hypothesis under which Faithful is proved
ASSUME MCRoundTrips == RoundTrips
============================================================================
