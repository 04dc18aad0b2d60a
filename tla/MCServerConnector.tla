------------------------- MODULE MCServerConnector -------------------------
(* Instances of ServerConnector for TLC.                                   *)
EXTENDS ServerConnector

CONSTANTS t1, t2, s1, s2
OneCaller == {t1}
TwoCallers == {t1, t2}
Two == <<s1, s2>>
Answers == {<<>>, <<s1>>, <<s2, s1>>, <<s1, Bare>>}
=============================================================================
