--------------------------- MODULE MCConfigService ---------------------------
(* An instance of ConfigService for TLC: users that query what the loop    *)
(* refreshes, that list two keys, and that list one key at the same time;  *)
(* and users of get_config alone, with a snapshot and with a failover file.*)
EXTENDS ConfigService, TLC

CONSTANTS u1, u2, k1, k2

TwoLimiters == 1 .. 2

World(calls1, calls2) ==
    [calls |-> (u1 :> calls1) @@ (u2 :> calls2), snapshots |-> {k1, k2},
     failovers |-> {}, disableUseSnapShot |-> TRUE]

Scenarios == {
    World({<<"get", k1>>}, {<<"add", k1>>, <<"publish", k1>>}),
    [World({<<"get", k1>>, <<"get", k2>>}, {<<"publish", k1>>, <<"removeConfig", k1>>})
        EXCEPT !.disableUseSnapShot = FALSE, !.failovers = {k2}],
    World({<<"add", k1>>}, {<<"add", k2>>, <<"publish", k1>>}),
    World({<<"add", k1>>}, {<<"add", k1>>, <<"publish", k1>>}),
    World({<<"add", k1>>}, {<<"remove", k1>>}),
    World({<<"add", k1>>, <<"publish", k1>>}, {<<"removeConfig", k1>>})}
=============================================================================
