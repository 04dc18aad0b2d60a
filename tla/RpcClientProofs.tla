--------------------------- MODULE RpcClientProofs ---------------------------
(***************************************************************************)
(* Proofs about RpcClient, for any connections, repairs, tries and number  *)
(* of streams that release the ability context at once.  The invariant     *)
(* follows the connection that connect_to_server is making until it is in  *)
(* use: nobody else has it, and unless another's release meets it, its own *)
(* stream's release is the only thing that fills its ability table.        *)
(***************************************************************************)
EXTENDS RpcClient, TLAPS

Phases == {"resetConn", "resetNeed", "clearTable", "bind", "sent", "await", "check"}

\* Where a release is when it has stored its table.
Told == {"forget", "unneed", "done"}

\* connect_to_server runs for a call that has the event loop.
LoopBusy == loop = "free" <=> at = "idle"

\* The connection that is being made, or was just made, is not the one in use,
\* and nothing has closed it.
NewConnInPlay ==
    /\ at \in Phases =>
           connecting \in Conns /\ connecting # current /\ fate[connecting] = "open"
    /\ result # NoConn =>
           at = "returned" /\ result = connecting /\ result # current /\ fate[result] = "open"

Usable ==
    Repaired("await") =>
        /\ status = "RUNNING" => current # NoConn
        /\ status # "SHUTDOWN" /\ current # NoConn => fate[current] = "open"
        /\ loop # "free" => status # "SHUTDOWN"

\* A connection that can be used has been told its own table, if its server
\* negotiates, unless another's release met it.
Settled(c) ==
    release[c] # "idle" /\ c \notin disturbed => release[c] \in Told /\ abilities[c] = "own"

InUseSettled == \A c \in Conns : c \in {current, result} => Settled(c)

\* A connection that is being made, phase by phase.
Awaiting ==
    at \in Phases =>
        /\ at \in {"resetConn", "resetNeed", "clearTable", "bind"} => release[connecting] = "idle"
        /\ at \in {"resetConn", "resetNeed", "clearTable"} => negotiates
        /\ connecting \notin disturbed =>
             /\ at \in {"resetNeed", "clearTable", "bind"} /\ negotiates => ctxConn = connecting
             /\ at \in {"clearTable", "bind"} /\ negotiates => needToSync
             /\ release[connecting] \notin Told => abilities[connecting] = "None"
             /\ release[connecting] \in Told => abilities[connecting] = "own"
             /\ release[connecting] \in {"bound", "test", "set"} => ctxConn = connecting
             /\ at = "sent" /\ release[connecting] # "idle" /\ ~needToSync =>
                    release[connecting] = "done"

IInv == TypeOK /\ LoopBusy /\ NewConnInPlay /\ Usable /\ InUseSettled /\ Awaiting

-----------------------------------------------------------------------------
\* The flags stay flags.
LEMMA NextFlags ==
  ASSUME Flags, [Next]_vars
  PROVE  Flags'
  <1> USE Zenon DEF Flags, clientVars, connVars, ctxVars, TakesResult
  <1>1. CASE Start \/ Request \/ Shutdown \/ TimePasses
    BY <1>1 DEF Start, Request, Shutdown, TimePasses, grpcVars
  <1>2. CASE HealthCheckSucceeds \/ HealthCheckFails \/ HealthCheckRecovers
    BY <1>2 DEF HealthCheckSucceeds, HealthCheckFails, HealthCheckRecovers, grpcVars
  <1>3. CASE LoopStep
    <2>1. CASE ConnectStep({current}, Unusable) /\ UNCHANGED clientVars
      <3>1. CASE Open({current}, Unusable)
        BY <2>1, <3>1 DEF Open, CreatesExecutor, ServerChecked
      <3>2. CASE Fail(Unusable)
        BY <2>1, <3>2 DEF Fail, CreatesExecutor
      <3>3. CASE Reset
        BY <2>1, <3>3 DEF Reset, ResetConn, ResetNeed, ClearTable
      <3>4. CASE BindStream \/ TestNeed
        BY <2>1, <3>4 DEF BindStream, TestNeed
      <3>5. CASE RecAwait \/ CheckAbilities \/ FailReturns
        BY <2>1, <3>5 DEF RecAwait, CheckAbilities, FailReturns
      <3> QED BY <2>1, <3>1, <3>2, <3>3, <3>4, <3>5 DEF ConnectStep
    <2>2. CASE StartConnected \/ StartFailed
      BY <2>2 DEF StartConnected, StartFailed
    <2>3. CASE ReconnectConnected \/ ReconnectRaises \/ ReconnectFails
      BY <2>3 DEF ReconnectConnected, ReconnectRaises, ReconnectFails
    <2> QED BY <1>3, <2>1, <2>2, <2>3 DEF LoopStep
  <1>4. ASSUME NEW r \in Conns \cup {Loop}, ReleaseRuns(r) PROVE Flags'
    BY <1>4 DEF ReleaseRuns, ReleaseStep, TestConn, SetTable, Forget, Unneed
  <1>5. ASSUME NEW c \in Conns, StreamAnswers(c), UNCHANGED clientVars PROVE Flags'
    BY <1>5 DEF StreamAnswers
  <1>6. CASE UNCHANGED vars
    BY <1>6 DEF vars, grpcVars
  <1> QED BY <1>1, <1>2, <1>3, <1>4, <1>5, <1>6 DEF Next

LEMMA InitIInv == Init => IInv
  <1> SUFFICES ASSUME Init PROVE IInv
    OBVIOUS
  <1>f. Flags
    BY Zenon DEF Init, GrpcInit, Flags
  <1>1. TypeOK
    BY <1>f, RetryTimesAssumption DEF Init, GrpcInit, TypeOK
  <1>2. LoopBusy /\ NewConnInPlay /\ Usable /\ InUseSettled /\ Awaiting
    BY DEF Init, GrpcInit, LoopBusy, NewConnInPlay, Usable, InUseSettled, Settled,
           Awaiting, Phases
  <1> QED BY <1>1, <1>2 DEF IInv

\* The connection that Open takes is one that nothing holds.
LEMMA NewConnIsFree ==
  ASSUME NEW inUse, Free(inUse) # {}
  PROVE  NewConn(inUse) \in Free(inUse)
  <1> DEFINE silent == {c \in Free(inUse) : release[c] # "bound"}
  <1>1. \E c \in Free(inUse) : silent # {} => c \in silent
    OBVIOUS
  <1> QED BY <1>1 DEF NewConn

\* Calls that have the event loop for one step only.
LEMMA CallKeeps ==
  ASSUME IInv, Flags', Start \/ Request \/ Shutdown \/ HealthCheckSucceeds \/ HealthCheckFails
                 \/ HealthCheckRecovers \/ TimePasses
  PROVE  IInv'
  <1> USE DEF IInv, ChecksHealth, Connect, IsShutdown, IsRunning, MayStart, Started, Repaired,
              grpcVars, connVars, ctxVars
  <1>1. TypeOK'
    <2>1. CASE Start \/ HealthCheckFails
      BY <2>1, RetryTimesAssumption DEF TypeOK, Start, HealthCheckFails
    <2>2. CASE Shutdown
      BY <2>2 DEF TypeOK, Shutdown, CloseCurrent
    <2>3. CASE Request \/ HealthCheckSucceeds \/ HealthCheckRecovers \/ TimePasses
      BY <2>3 DEF TypeOK, Request, HealthCheckSucceeds, HealthCheckRecovers, TimePasses
    <2> QED BY <2>1, <2>2, <2>3
  <1>2. LoopBusy'
    BY DEF LoopBusy, Start, Request, Shutdown, HealthCheckSucceeds, HealthCheckFails,
           HealthCheckRecovers, TimePasses
  <1>3. NewConnInPlay'
    BY DEF TypeOK, LoopBusy, NewConnInPlay, Phases, Start, Request, Shutdown, HealthCheckSucceeds,
           HealthCheckFails, HealthCheckRecovers, TimePasses, CloseCurrent
  <1>4. Usable'
    BY DEF TypeOK, Usable, Start, Request, Shutdown, HealthCheckSucceeds, HealthCheckFails,
           HealthCheckRecovers, TimePasses, CloseCurrent
  <1>5. InUseSettled' /\ Awaiting'
    BY DEF LoopBusy, InUseSettled, Settled, Awaiting, Phases, Start, Request, Shutdown,
           HealthCheckSucceeds, HealthCheckFails, HealthCheckRecovers, TimePasses
  <1> QED BY <1>1, <1>2, <1>3, <1>4, <1>5

\* The calls that take what connect_to_server returned.
LEMMA TakeKeeps ==
  ASSUME IInv, Flags', StartConnected \/ StartFailed \/ ReconnectConnected \/ ReconnectRaises
                 \/ ReconnectFails
  PROVE  IInv'
  <1> USE DEF IInv, Returned, TakesResult, Connect, IsShutdown, Repaired, connVars, ctxVars
  <1>1. TypeOK'
    <2>1. CASE StartConnected \/ ReconnectConnected
      BY <2>1, RetryTimesAssumption
         DEF TypeOK, StartConnected, ReconnectConnected, Replace
    <2>2. CASE StartFailed
      BY <2>2, RetryTimesAssumption DEF TypeOK, StartFailed
    <2>3. CASE ReconnectFails \/ ReconnectRaises
      <3>1. CloseCurrent \in [Conns -> {"open", "closed", "abandoned"}]
        BY DEF TypeOK, CloseCurrent
      <3> QED BY <2>3, <3>1, RetryTimesAssumption
             DEF TypeOK, ReconnectFails, ReconnectRaises, ClosesCurrent
    <2> QED BY <2>1, <2>2, <2>3
  <1>2. LoopBusy'
    BY DEF LoopBusy, StartConnected, StartFailed, ReconnectConnected, ReconnectRaises,
           ReconnectFails
  <1>3. NewConnInPlay'
    BY DEF NewConnInPlay, Phases, StartConnected, StartFailed, ReconnectConnected,
           ReconnectRaises, ReconnectFails
  <1>4. Usable'
    BY DEF TypeOK, Usable, NewConnInPlay, StartConnected, StartFailed, ReconnectConnected,
           ReconnectRaises, ReconnectFails, ClosesCurrent, Replace, CloseCurrent
  <1>5. InUseSettled' /\ Awaiting'
    BY ConnsAssumption
       DEF TypeOK, InUseSettled, Settled, Awaiting, Phases, StartConnected, StartFailed,
           ReconnectConnected, ReconnectRaises, ReconnectFails, Replace
  <1> QED BY <1>1, <1>2, <1>3, <1>4, <1>5

-----------------------------------------------------------------------------
\* connect_to_server takes a connection.
LEMMA OpenKeeps ==
  ASSUME IInv, Flags', Open({current}, Unusable), UNCHANGED clientVars
  PROVE  IInv'
  <1> USE DEF IInv, clientVars
  <1> DEFINE new == NewConn({current})
  <1>1. /\ new \in Free({current}) /\ new \in Conns /\ new # current /\ new # ctxConn
        /\ new # Loop /\ current \notin Free({current})
    BY NewConnIsFree, ConnsAssumption DEF Open, Free
  <1>2. /\ at = "begin" /\ at' \in {"resetConn", "bind"}
        /\ at' = "resetConn" <=> negotiates'
        /\ connecting' = new
        /\ abilities' = [c \in Conns |-> IF c \in Free({current}) THEN "None" ELSE abilities[c]]
        /\ fate' = [c \in Conns |-> IF c \in Free({current}) THEN "open" ELSE fate[c]]
        /\ release' = [release EXCEPT ![new] = "idle", ![Loop] = "idle"]
        /\ disturbed' = disturbed \ Free({current})
        /\ executor' \in BOOLEAN /\ negotiates' \in BOOLEAN
        /\ UNCHANGED <<repairs, result, ctxConn, needToSync>>
    BY DEF Open, CreatesExecutor, ServerChecked
  <1> HIDE DEF new
  <1>3. result = NoConn
    BY <1>2 DEF NewConnInPlay
  <1>4. TypeOK'
    BY <1>1, <1>2 DEF TypeOK
  <1>5. LoopBusy'
    BY <1>2 DEF LoopBusy
  <1>6. NewConnInPlay'
    BY <1>1, <1>2, <1>3 DEF NewConnInPlay
  <1>7. Usable'
    BY <1>1, <1>2, ConnsAssumption DEF TypeOK, Usable, Repaired
  <1>8. InUseSettled'
    BY <1>1, <1>2, <1>3, ConnsAssumption DEF TypeOK, InUseSettled, Settled
  <1>9. Awaiting'
    BY <1>1, <1>2, ConnsAssumption DEF TypeOK, Awaiting, Told
  <1> QED BY <1>4, <1>5, <1>6, <1>7, <1>8, <1>9

\* The other steps of connect_to_server.
LEMMA ConnectKeeps ==
  ASSUME IInv, Flags', UNCHANGED clientVars,
         Fail(Unusable) \/ Reset \/ BindStream \/ TestNeed \/ RecAwait \/ CheckAbilities
             \/ FailReturns
  PROVE  IInv'
  <1> USE ConnsAssumption DEF IInv, clientVars, connVars, ctxVars
  <1>1. TypeOK'
    BY DEF TypeOK, Fail, CreatesExecutor, Unusable, Reset, ResetConn, ResetNeed, ClearTable,
           BindStream, TestNeed, RecAwait, CheckAbilities, FailReturns, NewConnInPlay, Phases
  <1>2. LoopBusy'
    BY DEF LoopBusy, Fail, Reset, ResetConn, ResetNeed, ClearTable, BindStream, TestNeed,
           RecAwait, CheckAbilities, FailReturns
  <1>3. NewConnInPlay'
    BY DEF TypeOK, NewConnInPlay, Phases, Fail, Reset, ResetConn, ResetNeed, ClearTable,
           BindStream, TestNeed, RecAwait, CheckAbilities, FailReturns
  <1>4. Usable'
    BY DEF TypeOK, Usable, NewConnInPlay, Phases, Repaired, Fail, Reset, ResetConn, ResetNeed,
           ClearTable, BindStream, TestNeed, RecAwait, CheckAbilities, FailReturns
  <1>5. InUseSettled'
    <2>1. CASE Fail(Unusable) \/ Reset \/ BindStream \/ RecAwait \/ FailReturns
      BY <2>1 DEF TypeOK, NewConnInPlay, InUseSettled, Settled, Awaiting, Phases, Fail, Reset,
         ResetConn, ResetNeed, ClearTable, BindStream, RecAwait, FailReturns
    <2>2. CASE TestNeed \/ CheckAbilities
      BY <2>2 DEF TypeOK, NewConnInPlay, InUseSettled, Settled, Awaiting, Phases, Told,
         TestNeed, CheckAbilities, AbilitiesSet
    <2> QED BY <2>1, <2>2
  <1>6. Awaiting'
    <2>1. CASE Fail(Unusable) \/ TestNeed \/ RecAwait \/ CheckAbilities \/ FailReturns
      BY <2>1 DEF Awaiting, Phases, Fail, TestNeed, RecAwait, CheckAbilities, FailReturns
    <2>2. CASE Reset
      BY <2>2 DEF TypeOK, NewConnInPlay, Awaiting, Phases, Told, Reset, ResetConn, ResetNeed,
         ClearTable
    <2>3. CASE BindStream
      BY <2>3 DEF TypeOK, NewConnInPlay, Awaiting, Phases, Told, BindStream
    <2> QED BY <2>1, <2>2, <2>3
  <1> QED BY <1>1, <1>2, <1>3, <1>4, <1>5, <1>6

-----------------------------------------------------------------------------
\* A stream's release, or the loop's: it disturbs every connection it meets
\* but its own.
LEMMA ReleaseKeeps ==
  ASSUME IInv, Flags', NEW r \in Conns \cup {Loop}, ReleaseRuns(r)
  PROVE  IInv'
  <1> USE ConnsAssumption DEF IInv, clientVars
  <1>1. /\ UNCHANGED <<repairs, executor, at, connecting, result, negotiates, fate, clientVars>>
        /\ disturbed' = disturbed \cup (({connecting, ctxConn} \ {r}) \cap Conns)
        /\ TestConn(r) \/ SetTable(r) \/ Forget(r) \/ Unneed(r)
    BY DEF ReleaseRuns, ReleaseStep
  <1>2. TypeOK'
    <2>1. CASE TestConn(r) \/ Forget(r) \/ Unneed(r)
      BY <1>1, <2>1 DEF TypeOK, TestConn, Forget, Unneed
    <2>2. CASE SetTable(r)
      BY <1>1, <2>2 DEF TypeOK, SetTable, Table
    <2> QED BY <1>1, <2>1, <2>2
  <1>3. LoopBusy' /\ NewConnInPlay' /\ Usable'
    BY <1>1 DEF LoopBusy, NewConnInPlay, Usable, Repaired
  <1>4. InUseSettled'
    BY <1>1 DEF TypeOK, InUseSettled, Settled, Told, TestConn, SetTable, Forget, Unneed
  <1>5. Awaiting'
    <2> SUFFICES ASSUME at \in Phases PROVE Awaiting'
      BY <1>1 DEF Awaiting
    <2>1. CASE TestConn(r)
      BY <1>1, <2>1 DEF TypeOK, NewConnInPlay, Awaiting, Told, TestConn
    <2>2. CASE SetTable(r)
      BY <1>1, <2>2 DEF TypeOK, NewConnInPlay, Awaiting, Told, SetTable, Table
    <2>3. CASE Forget(r)
      BY <1>1, <2>3 DEF TypeOK, NewConnInPlay, Awaiting, Told, Forget
    <2>4. CASE Unneed(r)
      BY <1>1, <2>4 DEF TypeOK, NewConnInPlay, Awaiting, Told, Unneed
    <2> QED BY <1>1, <2>1, <2>2, <2>3, <2>4
  <1> QED BY <1>2, <1>3, <1>4, <1>5

LEMMA AnswerKeeps ==
  ASSUME IInv, Flags', NEW c \in Conns, StreamAnswers(c), UNCHANGED clientVars
  PROVE  IInv'
  <1> USE ConnsAssumption DEF IInv, StreamAnswers, clientVars, connVars
  <1>1. TypeOK'
    BY DEF TypeOK
  <1>2. LoopBusy' /\ NewConnInPlay' /\ Usable'
    BY DEF LoopBusy, NewConnInPlay, Usable, Repaired
  <1>3. InUseSettled'
    BY DEF TypeOK, InUseSettled, Settled, Told
  <1>4. Awaiting'
    BY DEF TypeOK, NewConnInPlay, Awaiting, Told
  <1> QED BY <1>1, <1>2, <1>3, <1>4

\* Every step keeps the invariant.
LEMMA NextIInv == IInv /\ [Next]_vars => IInv'
  <1> SUFFICES ASSUME IInv, [Next]_vars PROVE IInv'
    OBVIOUS
  <1> Flags'
    BY NextFlags DEF IInv, TypeOK
  <1>1. CASE LoopStep
    <2>1. CASE ConnectStep({current}, Unusable) /\ UNCHANGED clientVars
      BY <2>1, OpenKeeps, ConnectKeeps DEF ConnectStep
    <2> QED BY <1>1, <2>1, TakeKeeps DEF LoopStep
  <1>2. CASE UNCHANGED vars
    BY <1>2 DEF vars, grpcVars, clientVars, connVars, ctxVars, IInv, TypeOK, LoopBusy,
       NewConnInPlay, Usable, Repaired, InUseSettled, Settled, Awaiting, Flags
  <1> QED BY <1>1, <1>2, CallKeeps, ReleaseKeeps, AnswerKeeps DEF Next

\* Every step of the loop and of the streams keeps the conjuncts above.
LEMMA IInvHolds == Spec => []IInv
  BY InitIInv, NextIInv, PTL DEF Spec

\* The types of client and connections.
THEOREM TypeCorrect == Spec => []TypeOK
  <1>1. IInv => TypeOK
    BY DEF IInv
  <1> QED BY <1>1, IInvHolds, PTL

\* A client whose coroutines are awaited never says RUNNING over a connection
\* that is closed, abandoned or missing, however starts, health checks,
\* reconnections and shutdowns follow each other.
THEOREM CurrentUsableHolds == Spec => []CurrentUsable
  <1>1. IInv => CurrentUsable
    BY DEF IInv, Usable, CurrentUsable
  <1> QED BY <1>1, IInvHolds, PTL

\* The connection in use has its own server's abilities unless another's
\* release met it, for any number of streams that answer late.
THEOREM AbilitiesOwnUnlessLateHolds == Spec => []AbilitiesOwnUnlessLate
  <1>1. IInv => AbilitiesOwnUnlessLate
    BY DEF IInv, InUseSettled, Settled, AbilitiesOwnUnlessLate
  <1> QED BY <1>1, IInvHolds, PTL
=============================================================================
