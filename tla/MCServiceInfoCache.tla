------------------------- MODULE MCServiceInfoCache -------------------------
(* Instances of ServiceInfoCache for TLC.                                  *)
EXTENDS ServiceInfoCache

CONSTANTS n1, n2, c1, h1, h2, h3

Snapshots(names, refs, hosts) ==
    [name : names, clusters : {c1}, ref : refs, hosts : hosts]

\* A service in every shape of 'Hosts' that the code tells apart, and a second
\* one under the same lock.
TwoServices == Snapshots({n1}, 1..2, {NoHosts, {}, {h1}, {h2}, {h1, h2}})
                   \cup Snapshots({n2}, 2..3, {{h1}})
\* A service with several instances, 'Hosts' never missing.
SeveralInstances == Snapshots({n1}, 1..3, {{h1}, {h1, h2}, {h2, h3}})
=============================================================================
