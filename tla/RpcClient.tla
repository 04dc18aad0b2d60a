------------------------------ MODULE RpcClient ------------------------------
(***************************************************************************)
(* transport/rpc_client.py over GrpcClient: the status machine of the      *)
(* client, its start, requests, health checks, reconnection and shutdown.  *)
(* Everything runs on one event loop, and no coroutine gives it up on its  *)
(* way: the lock is never contended, waits are time.sleep.  So every call  *)
(* is one action, but for connect_to_server and the loop of reconnect,     *)
(* which streams of connections run beside.                                *)
(*                                                                         *)
(* As the file stands, and here: un-awaited puts and registrations do      *)
(* nothing, so that both queues and the table of request handlers stay     *)
(* empty and reconnection_handler comes down to health checks; the status  *)
(* is never exchanged at lines 376 and 398.  Awaiting those two would wait *)
(* for the lock their caller holds.                                        *)
(* Repaired in some runs, each at its line: "deadline" (360, compares      *)
(* milliseconds with thousandths of them, so that no request is sent),     *)
(* "health" (431 and 435, which raise at every health check), "server"     *)
(* (449: None is not taken for a server that is not appointed, at 485),    *)
(* "await" (195 and 523, a coroutine taken for its result), "unbound" (500 *)
(* and 502: connection_new is not bound before, and the except clause      *)
(* deletes err, so that lines 506 and 529 raise).                          *)
(* Completed, since each raises always: ServerInfo() without arguments, a  *)
(* pair for start to unpack, and GrpcConnection.request, which is pass     *)
(* (grpc_connection.py:23) where line 466 reads its response.              *)
(***************************************************************************)
EXTENDS GrpcClient

CONSTANTS
    RetryTimes      \* Const.REQUEST_DOMAIN_RETRY_TIME

ASSUME RetryTimesAssumption == RetryTimes \in Nat \ {0}

VARIABLES
    status,         \* rpc_client_status
    current,        \* current_connection
    recent,         \* last_active_timestamp is within KEEP_ALIVE_TIME
    loop,           \* the call that has the event loop
    tries,          \* its tries left (start), or made, up to 1 (reconnect)
    errDeleted      \* reconnect's local variable err is deleted

clientVars == <<status, current, recent, loop, tries, errDeleted>>
vars == <<grpcVars, clientVars>>

Repaired(r) == r \in repairs

Init ==
    /\ GrpcInit
    /\ status = "INITIALIZED"
    /\ current = NoConn
    /\ recent = FALSE
    /\ loop = "free"
    /\ tries = 0
    /\ errDeleted = FALSE

Connect == at' = "begin"

\* connect_to_server has been called and has returned.
Returned(call) == loop = call /\ at = "returned"

TakesResult ==
    /\ connecting' = NoConn
    /\ result' = NoConn
    /\ negotiates' = FALSE
    /\ UNCHANGED <<repairs, executor, abilities, ctxVars>>

-----------------------------------------------------------------------------
\* Line 195: the coroutine itself is true, and exchanges nothing.
MayStart == Repaired("await") => status = "INITIALIZED"

Started == IF Repaired("await") THEN "STARTING" ELSE status

Start ==
    /\ loop = "free" /\ MayStart
    /\ IF current = NoConn
       THEN /\ status' = Started
            /\ loop' = "start"
            /\ tries' = RetryTimes
            /\ Connect
       ELSE /\ status' = "RUNNING"
            /\ UNCHANGED <<loop, tries, at>>
    /\ UNCHANGED <<repairs, executor, connecting, result, negotiates, connVars, ctxVars, current, recent,
                   errDeleted>>

StartConnected ==
    /\ Returned("start") /\ result # NoConn
    /\ current' = result
    /\ status' = "RUNNING"
    /\ loop' = "free" /\ at' = "idle" /\ tries' = 0
    /\ TakesResult
    /\ UNCHANGED <<fate, recent, errDeleted>>

\* Tries again, or gives up: also when the call raised.
StartFailed ==
    /\ Returned("start") /\ result = NoConn
    /\ IF tries > 1 /\ ~ConnectRaised
       THEN tries' = tries - 1 /\ Connect /\ UNCHANGED loop
       ELSE tries' = 0 /\ at' = "idle" /\ loop' = "free"
    /\ TakesResult
    /\ UNCHANGED <<fate, status, current, recent, errDeleted>>

IsRunning == status = "RUNNING"
IsShutdown == status = "SHUTDOWN"

\* A request that is answered leaves the time of its answer; every other ending
\* leaves nothing: the status is not exchanged, the switch is put nowhere.
Request ==
    /\ loop = "free" /\ Repaired("deadline")
    /\ current # NoConn /\ IsRunning
    /\ recent' = TRUE
    /\ UNCHANGED <<grpcVars, status, current, loop, tries, errDeleted>>

TimePasses ==
    /\ recent' = FALSE
    /\ UNCHANGED <<grpcVars, status, current, loop, tries, errDeleted>>

CloseCurrent == [fate EXCEPT ![current] = IF @ = "open" THEN "closed" ELSE @]

Shutdown ==
    /\ loop = "free"
    /\ status' = "SHUTDOWN"
    /\ fate' = IF current = NoConn THEN fate ELSE CloseCurrent
    /\ UNCHANGED <<repairs, executor, at, connecting, result, negotiates, abilities, ctxVars,
                   current, recent, loop, tries, errDeleted>>

-----------------------------------------------------------------------------
\* A round of reconnection_handler: health_check, when no answer is recent.
ChecksHealth == loop = "free" /\ Repaired("health") /\ ~recent /\ current # NoConn

HealthCheckSucceeds ==
    /\ ChecksHealth
    /\ recent' = TRUE
    /\ UNCHANGED <<grpcVars, status, current, loop, tries, errDeleted>>

\* The check fails, and reconnect's own check does, too.
HealthCheckFails ==
    /\ ChecksHealth /\ ~IsShutdown
    /\ status' = "UNHEALTHY"
    /\ loop' = "reconnect" /\ tries' = 0
    /\ Connect
    /\ UNCHANGED <<repairs, executor, connecting, result, negotiates, connVars, ctxVars, current, recent,
                   errDeleted>>

\* reconnect's own check succeeds: back to RUNNING.
HealthCheckRecovers ==
    /\ ChecksHealth /\ ~IsShutdown
    /\ status' = "RUNNING"
    /\ UNCHANGED <<grpcVars, current, recent, loop, tries, errDeleted>>

MutReplace ==
    /\ current' = result
    /\ fate' = [fate EXCEPT ![result] = "abandoned"]
\* The previous connection is abandoned and closed before it is replaced.
Replace ==
    /\ current' = result
    /\ fate' = [fate EXCEPT ![current] = "abandoned"]

ReconnectConnected ==
    /\ Returned("reconnect") /\ result # NoConn
    /\ Replace
    /\ status' = "RUNNING"
    /\ loop' = "free" /\ at' = "idle" /\ tries' = 0 /\ errDeleted' = FALSE
    /\ TakesResult
    /\ UNCHANGED recent

\* Line 523: a coroutine that is not awaited is true.
ClosesCurrent == fate' = IF Repaired("await") /\ ~IsShutdown THEN fate ELSE CloseCurrent

Unbound == ~Repaired("unbound")

\* The first call raised, and line 506 reads connection_new; or some call has,
\* and line 529 reads err, at the numbers of tries that the list's length
\* divides.
ReconnectRaises ==
    /\ Returned("reconnect") /\ result = NoConn /\ Unbound
    /\ ConnectRaised \/ errDeleted
    /\ IF tries = 0 THEN UNCHANGED fate ELSE ClosesCurrent
    /\ loop' = "free" /\ at' = "idle" /\ tries' = 0 /\ errDeleted' = FALSE
    /\ TakesResult
    /\ UNCHANGED <<status, current, recent>>

ReconnectFails ==
    /\ Returned("reconnect") /\ result = NoConn
    /\ Unbound => ~(ConnectRaised /\ tries = 0)
    /\ ClosesCurrent
    /\ tries' = 1 /\ errDeleted' = (errDeleted \/ (ConnectRaised /\ Unbound))
    /\ Connect
    /\ TakesResult
    /\ UNCHANGED <<status, current, recent, loop>>

\* reconnect asks for server None unless that counts as not appointed.
Unusable == loop = "reconnect" /\ ~Repaired("server")

LoopStep ==
    \/ ConnectStep({current}, Unusable) /\ UNCHANGED clientVars
    \/ StartConnected \/ StartFailed
    \/ ReconnectConnected \/ ReconnectRaises \/ ReconnectFails

ReleaseRuns(r) == ReleaseStep(r) /\ UNCHANGED clientVars

Next ==
    \/ Start \/ Request \/ Shutdown
    \/ HealthCheckSucceeds \/ HealthCheckFails \/ HealthCheckRecovers
    \/ TimePasses
    \/ LoopStep
    \/ \E r \in Conns \cup {Loop} : ReleaseRuns(r)
    \/ \E c \in Conns : StreamAnswers(c) /\ UNCHANGED clientVars

\* An attempt that is made again and again reaches a server, in the end, and
\* binds its stream.
Spec == Init /\ [][Next]_vars
FairSpec ==
    /\ Spec
    /\ WF_vars(LoopStep)
    /\ WF_vars(\E r \in Conns \cup {Loop} : ReleaseRuns(r))
    /\ SF_vars(Open({current}, Unusable) /\ UNCHANGED clientVars)
    /\ SF_vars(BindStream /\ UNCHANGED clientVars)

-----------------------------------------------------------------------------
\* The type invariant.
Flags ==
    /\ executor \in BOOLEAN /\ negotiates \in BOOLEAN
    /\ needToSync \in BOOLEAN /\ recent \in BOOLEAN /\ errDeleted \in BOOLEAN

TypeOK ==
    /\ Flags
    /\ repairs \in RepairSets
    /\ at \in {"idle", "begin", "resetConn", "resetNeed", "clearTable", "bind",
               "sent", "await", "check", "releasing", "returned"}
    /\ {connecting, result, ctxConn, current} \subseteq Conns \cup {NoConn}
    /\ abilities \in [Conns -> {"None", "own", "other"}]
    /\ fate \in [Conns -> {"open", "closed", "abandoned"}]
    /\ disturbed \subseteq Conns
    /\ release \in [Conns \cup {Loop} ->
                    {"idle", "bound", "test", "set", "forget", "unneed", "done", "raised"}]
    /\ status \in {"INITIALIZED", "STARTING", "UNHEALTHY", "RUNNING", "SHUTDOWN"}
    /\ loop \in {"free", "start", "reconnect"}
    /\ tries \in 0 .. RetryTimes

\* A client that says RUNNING has a connection that nothing has closed or
\* abandoned, once the coroutines are awaited: as the file stands, start after
\* shutdown says RUNNING over the closed connection.
CurrentUsable ==
    Repaired("await") /\ status = "RUNNING" =>
        current # NoConn /\ fate[current] = "open"

\* The connection in use has the ability table of its own server, if that server
\* negotiates, unless another's release met it: that of the stream of an earlier,
\* abandoned connection, which close does not end, or release(None) of a failed
\* set-up.
AbilitiesOwnUnlessLate ==
    \A c \in Conns :
        c = current /\ release[c] # "idle" /\ c \notin disturbed => abilities[c] = "own"

\* Every call of connect_to_server returns, whatever the server leaves out.
ConnectEnds == at # "idle" ~> at \in {"idle", "returned"}

\* From some time on, a server that negotiates has answered when the wait for
\* its answer is over.
AnswersInTime ==
    <>[][at = "await" /\ at' = "check" /\ negotiates => release[connecting] = "done"]_vars

=============================================================================
