------------------------ MODULE MCConfigFilterChain ------------------------
(* Instances of ConfigFilterChain for TLC.                                 *)
EXTENDS ConfigFilterChain

CONSTANTS f1, f2, f3, f4, t1, t2

\* f2 and f3 have one order, f1 and f4 one name.
Orders == [f \in Filters |-> IF f = f1 THEN 1 ELSE IF f = f4 THEN 3 ELSE 2]
Names == [f \in Filters |-> IF f = f4 THEN f1 ELSE f]
=============================================================================
