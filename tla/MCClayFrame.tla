---------------------------- MODULE MCClayFrame ----------------------------
EXTENDS ClayFrame

View  == [Root EXCEPT !.id = <<"v">>, !.clip = TRUE, !.scroll = TRUE]
Pop   == [Root EXCEPT !.id = NoId, !.at = "parent", !.pin = TRUE, !.clip = TRUE,
                      !.z = 1]
Tip   == [Root EXCEPT !.id = <<"t">>, !.at = "id", !.to = <<"v">>, !.pin = TRUE,
                      !.clip = TRUE, !.z = -1, !.capture = TRUE]
MCDecls == {View, Pop, Tip}
MCInputs == {[wheel |-> 1, drag |-> FALSE, roll |-> 0, fast |-> FALSE],
             [wheel |-> 0, drag |-> TRUE, roll |-> 1, fast |-> TRUE]}
MCZs == {-1, 0, 1}
=============================================================================
