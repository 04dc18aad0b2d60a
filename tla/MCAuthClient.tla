---------------------------- MODULE MCAuthClient ----------------------------
(* Instances of AuthClient for TLC.                                        *)
EXTENDS AuthClient

CONSTANTS t1, t2
OneCaller == {t1}
TwoCallers == {t1, t2}
=============================================================================
