----------------------------- MODULE MCRpcClient -----------------------------
(* Instances of RpcClient for TLC.                                         *)
EXTENDS RpcClient

AllRepairs == {"tls", "port", "deadline", "health", "server", "await", "unbound"}
\* The files as they stand, two stages of their repair and all of it.
Stages == {{}, {"tls", "health"}, AllRepairs \ {"server", "unbound"}, AllRepairs}
=============================================================================
