----------------------------- MODULE GrpcClient -----------------------------
(***************************************************************************)
(* transport/grpc_client.py: connect_to_server and the negotiation of      *)
(* abilities.  The thread of the event loop makes one connection at a      *)
(* time; the threads of all bound streams, those of abandoned connections  *)
(* included (GrpcConnection.close is pass), deliver the servers' ability   *)
(* tables through RecAbilityContext.release.  Nothing locks the context.   *)
(*                                                                         *)
(* Completed, because the repository does not define it, and raises always *)
(* without it: who calls release with a table (a request handler run by    *)
(* _handle_server_request), rpc_port_offset (96), ServerInfo.port, the     *)
(* names that client_config lacks, the logger argument of                  *)
(* RecAbilityContext, the await of the server check (76), the connection   *)
(* id and is_support_ability_negotiation of its answer (102 to 111), what  *)
(* GrpcConnection is made from (108), its setters, is_abilities_set and    *)
(* send_request (109 to 129), the setters of the setup request and         *)
(* client_abilities (125 to 128).                                          *)
(*                                                                         *)
(* Line 96 binds port only in the call that makes the executor: any later  *)
(* call raises at line 98.  "port" is that line moved out of the block.    *)
(* "tls" returns None from _get_tls_credentials when there is no ca_file,  *)
(* where line 172 raises, for ssl_context is unbound.                      *)
(***************************************************************************)
EXTENDS Naturals, FiniteSets

CONSTANTS
    Conns,          \* GrpcConnection objects, used again when nothing holds them
    NoConn,         \* None
    Loop,           \* the event loop's thread, as a caller of release
    RepairSets,     \* the sets of repairs a run may have
    MaxReleasing    \* bound: streams that are inside release at once

ASSUME ConnsAssumption == NoConn \notin Conns /\ Loop \notin Conns /\ Loop # NoConn

VARIABLES
    repairs,
    executor,       \* self.grpc_executor is not None
    at,             \* where connect_to_server is
    connecting,     \* its local variable grpc_conn
    result,         \* what it returned
    negotiates,     \* is_support_ability_negotiation of its server
    abilities,      \* each connection's ability table: None, its own server's, another's
    fate,           \* of each connection: open, close() called, or set_abandon, too
    ctxConn, needToSync,    \* fields of rec_ability_context
    release,        \* where each stream's call of release is, and the loop's
    disturbed       \* history: connections that met another's call of release

ctxVars == <<ctxConn, needToSync, release, disturbed>>
connVars == <<abilities, fate>>
grpcVars == <<repairs, executor, at, connecting, result, negotiates, connVars, ctxVars>>

GrpcInit ==
    /\ repairs \in RepairSets
    /\ executor = FALSE
    /\ at = "idle"
    /\ connecting = NoConn
    /\ result = NoConn
    /\ negotiates = FALSE
    /\ abilities = [c \in Conns |-> "None"]
    /\ fate = [c \in Conns |-> "open"]
    /\ ctxConn = NoConn
    /\ needToSync = FALSE
    /\ release = [r \in Conns \cup {Loop} |-> "idle"]
    /\ disturbed = {}

-----------------------------------------------------------------------------
\* connect_to_server, lines 92 to 109: executor, channel and server check.
\* Unusable is a server_info that is None.
PortBound == ~executor \/ "port" \in repairs

\* _get_tls_credentials returns a context, or the None that line 52 expects; an
\* SSLContext has no root_certificates, so that line 54 raises.
TlsCredentials == IF "tls" \in repairs THEN {"context", "None"} ELSE {"context"}
BuildsChannel(credentials) == credentials = "None"
MakesChannel == \E credentials \in TlsCredentials : BuildsChannel(credentials)

CreatesExecutor(unusable) == executor' = (executor \/ ~unusable)
\* An answer says whether the server negotiates; without one, see Fail.
ServerChecked == negotiates' \in BOOLEAN

\* The objects nothing but a stream may hold; one of them is the new one: one
\* whose stream is through with the context, or else its server never answers.
Free(inUse) ==
    {c \in Conns \ (inUse \cup {ctxConn}) : release[c] \in {"idle", "bound", "done"}}

NewConn(inUse) ==
    LET silent == {c \in Free(inUse) : release[c] # "bound"}
    IN  CHOOSE c \in Free(inUse) : silent # {} => c \in silent

Open(inUse, unusable) ==
    /\ at = "begin" /\ PortBound /\ MakesChannel /\ ~unusable
    /\ Free(inUse) # {}
    /\ CreatesExecutor(unusable)
    /\ ServerChecked
    /\ at' = IF negotiates' THEN "resetConn" ELSE "bind"
    /\ connecting' = NewConn(inUse)
    /\ abilities' = [c \in Conns |-> IF c \in Free(inUse) THEN "None" ELSE abilities[c]]
    /\ fate' = [c \in Conns |-> IF c \in Free(inUse) THEN "open" ELSE fate[c]]
    /\ release' = [release EXCEPT ![NewConn(inUse)] = "idle", ![Loop] = "idle"]
    /\ disturbed' = disturbed \ Free(inUse)
    /\ UNCHANGED <<repairs, result, ctxConn, needToSync>>

\* The except branch: release(None), then None.  The port is unbound, the
\* credentials or the channel raise, the server check fails or its answer has
\* no connection id, binding the stream or sending the setup request raises.
Fail(unusable) ==
    /\ at \in {"begin", "bind"}
    /\ CreatesExecutor(unusable)
    /\ at' = "releasing"
    /\ release' = [release EXCEPT ![Loop] = "test"]
    /\ UNCHANGED <<repairs, connecting, result, negotiates, connVars, ctxConn, needToSync, disturbed>>

\* RecAbilityContext.reset, statement by statement, and line 113.
ResetConn ==
    /\ at = "resetConn"
    /\ ctxConn' = connecting
    /\ at' = "resetNeed"
    /\ UNCHANGED <<needToSync, abilities>>

ResetNeed ==
    /\ at = "resetNeed"
    /\ needToSync' = TRUE
    /\ at' = "clearTable"
    /\ UNCHANGED <<ctxConn, abilities>>

ClearTable ==
    /\ at = "clearTable"
    /\ abilities' = [abilities EXCEPT ![connecting] = "None"]
    /\ at' = "bind"
    /\ UNCHANGED <<ctxConn, needToSync>>

Reset ==
    /\ ResetConn \/ ResetNeed \/ ClearTable
    /\ UNCHANGED <<repairs, executor, connecting, result, negotiates, fate, release,
                   disturbed>>

\* The stream is bound and the setup request sent: a server that negotiates
\* may answer from now on.
BindStream ==
    /\ at = "bind"
    /\ release' = [release EXCEPT ![connecting] = IF negotiates THEN "bound" ELSE @]
    /\ at' = "sent"
    /\ UNCHANGED <<repairs, executor, connecting, result, negotiates, connVars, ctxConn, needToSync,
                   disturbed>>

\* Line 132; the other branch only sleeps.
TestNeed ==
    /\ at = "sent"
    /\ IF needToSync
       THEN at' = "await" /\ UNCHANGED result
       ELSE at' = "returned" /\ result' = connecting
    /\ UNCHANGED <<repairs, executor, connecting, negotiates, connVars, ctxVars>>

MutRecAwait ==
    /\ at = "await" /\ release[connecting] = "done"
    /\ needToSync' = FALSE
    /\ at' = "check"
    /\ UNCHANGED <<repairs, executor, connecting, result, negotiates, connVars, ctxConn, release,
                   disturbed>>
\* The wait ends when release has set the blocker, or at the timeout, which
\* may come first: the blocker itself is not kept.
RecAwait ==
    /\ at = "await"
    /\ needToSync' = FALSE
    /\ at' = "check"
    /\ UNCHANGED <<repairs, executor, connecting, result, negotiates, connVars, ctxConn, release,
                   disturbed>>

MutAbilitiesSet(c) == TRUE
AbilitiesSet(c) == abilities[c] # "None"

CheckAbilities ==
    /\ at = "check"
    /\ at' = "returned"
    /\ IF AbilitiesSet(connecting)
       THEN result' = connecting /\ UNCHANGED fate
       ELSE result' = NoConn /\ fate' = [fate EXCEPT ![connecting] = "abandoned"]
    /\ UNCHANGED <<repairs, executor, connecting, negotiates, abilities, ctxVars>>

-----------------------------------------------------------------------------
\* release, by a stream with its server's table or by the loop with None.
\* Table(r) is the argument as the connection that gets it sees it.
Table(r) == IF r = Loop THEN "None" ELSE IF r = ctxConn THEN "own" ELSE "other"

TestConn(r) ==
    /\ release[r] = "test"
    /\ release' = [release EXCEPT ![r] = IF ctxConn # NoConn THEN "set" ELSE "unneed"]
    /\ UNCHANGED <<abilities, ctxConn, needToSync>>

\* self.connection is read again: None by now makes the call raise.
SetTable(r) ==
    /\ release[r] = "set"
    /\ IF ctxConn = NoConn
       THEN release' = [release EXCEPT ![r] = IF r = Loop THEN "raised" ELSE "done"]
            /\ UNCHANGED abilities
       ELSE /\ release' = [release EXCEPT ![r] = "forget"]
            /\ abilities' = [abilities EXCEPT ![ctxConn] = Table(r)]
    /\ UNCHANGED <<ctxConn, needToSync>>

Forget(r) ==
    /\ release[r] = "forget"
    /\ ctxConn' = NoConn
    /\ release' = [release EXCEPT ![r] = "unneed"]
    /\ UNCHANGED <<abilities, needToSync>>

Unneed(r) ==
    /\ release[r] = "unneed"
    /\ needToSync' = FALSE
    /\ release' = [release EXCEPT ![r] = "done"]
    /\ UNCHANGED <<abilities, ctxConn>>

ReleaseStep(r) ==
    /\ TestConn(r) \/ SetTable(r) \/ Forget(r) \/ Unneed(r)
    /\ disturbed' = disturbed \cup (({connecting, ctxConn} \ {r}) \cap Conns)
    /\ UNCHANGED <<repairs, executor, at, connecting, result, negotiates, fate>>

Releasing(r) == release[r] \in {"test", "set", "forget", "unneed"}

\* The server's answer is handled, in time or late.
StreamAnswers(c) ==
    /\ release[c] = "bound"
    /\ Cardinality({d \in Conns : Releasing(d)}) < MaxReleasing
    /\ release' = [release EXCEPT ![c] = "test"]
    /\ UNCHANGED <<repairs, executor, at, connecting, result, negotiates, connVars, ctxConn,
                   needToSync, disturbed>>

\* Back in the except branch; a release that raised leaves connect_to_server,
\* too.
FailReturns ==
    /\ at = "releasing" /\ release[Loop] \in {"done", "raised"}
    /\ result' = NoConn
    /\ at' = "returned"
    /\ UNCHANGED <<repairs, executor, connecting, negotiates, connVars, ctxVars>>

ConnectRaised == release[Loop] = "raised"

ConnectStep(inUse, unusable) ==
    \/ Fail(unusable)
    \/ Open(inUse, unusable)
    \/ Reset
    \/ BindStream
    \/ TestNeed
    \/ RecAwait
    \/ CheckAbilities
    \/ FailReturns
=============================================================================
