--------------------------- MODULE MCConcurrentMap ---------------------------
(* An instance of ConcurrentMap for TLC, of two kinds of runs: every one-  *)
(* key operation on one key, and scans while entries of four keys in two   *)
(* shards come and go.                                                     *)
EXTENDS ConcurrentMap, TLC

CONSTANTS k1, k2, k3, k4, a, b

VARIABLE kind

\* A callback whose result depends on what it was shown, so that a lost update
\* leaves a trace: the other value if there was one, else the new one.
Flip(exist, current, new) ==
    IF exist THEN CHOOSE v \in {a, b} : v # current ELSE new

\* k1, k2 and k3 share a shard.
TwoShards == [k \in {k1, k2, k3, k4} |-> IF k = k4 THEN 2 ELSE 1]
AllOps == {"set", "get", "has", "delete", "pop", "setIfAbsent", "upsert"}
Symmetry == Permutations(Threads) \cup Permutations({k1, k2, k3})

OnOneKey ==
    /\ \A t \in Threads : op[t].key \in {k4, Absent}
    /\ inserts + Cardinality({t \in Threads : op[t].name \in Inserting}) <= 2
OfOneValue ==
    \A t \in Threads : /\ op[t].name \in {"none", "set", "delete"}
                       /\ op[t].value \in {a, Absent}
Kept == (kind = "operations" => OnOneKey) /\ (kind = "scans" => OfOneValue)

MCInit == Init /\ kind \in {"operations", "scans"}
MCNext == Next /\ UNCHANGED kind /\ Kept'
MCSpec == MCInit /\ [][MCNext]_<<vars, kind>>
=============================================================================
