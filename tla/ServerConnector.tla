-------------------------- MODULE ServerConnector --------------------------
(***************************************************************************)
(* class NacosServerConnector of transport/nacos_server_connector.py: its  *)
(* constructor, req_api, which fails over between the servers, and         *)
(* get_next_server, which hands them out in turn; composed with the        *)
(* AuthClient it owns, whose steps are steps of the threads that call it.  *)
(* Main constructs the connector, any number of threads use it.  HttpAgent *)
(* and the servers are external: a request succeeds or fails, the endpoint *)
(* fails or answers any list.                                              *)
(***************************************************************************)
EXTENDS AuthClient, Sequences, FiniteSets

CONSTANTS
    ServerList,         \* client_config.server_list when it is configured
    HasEndpoint,        \* client_config.endpoint is a non-empty string
    EndpointLists,      \* the server lists the endpoint may answer
    Bare,               \* an entry of such a list without a port
    MaxRetry,           \* Constants.MAX_RETRY
    NextCallers         \* the threads that call get_next_server

SetOf(list) == {list[i] : i \in DOMAIN list}
IsList(list) == list \in Seq(SetOf(list))

ASSUME ConfigAssumption ==
    /\ IsList(ServerList) /\ Len(ServerList) = NumServers
    /\ HasEndpoint \in BOOLEAN
    /\ \A list \in EndpointLists : IsList(list)
    /\ MaxRetry \in Nat \ {0}
    /\ NextCallers \subseteq Threads

VARIABLES
    hasCredentials, \* client_config has a username and a password
    serverList,     \* self.server_list
    currentIndex,   \* self.current_index, counted from 0
    phase,          \* where the constructor is
    at,             \* where each thread is in req_api or get_next_server
    index,          \* req_api's index; the value get_next_server has read
    tried,          \* the servers this req_api has tried, in order
    fetched,        \* history: the servers the endpoint answered
    turns           \* history: the last servers handed out in turn

calls == <<at, index, tried>>
object == <<hasCredentials, serverList, currentIndex, phase, fetched>>
connectorVars == <<vars, object, calls, turns>>

Size == Len(serverList)

ConnectorInit ==
    /\ Init
    /\ hasCredentials = FALSE
    /\ serverList = <<>>
    /\ currentIndex = 0
    /\ phase = "unbuilt"
    /\ at = [t \in Threads |-> "idle"]
    /\ index = [t \in Threads |-> 0]
    /\ tried = [t \in Threads |-> <<>>]
    /\ fetched = {}
    /\ turns = <<>>

-----------------------------------------------------------------------------
(* The constructor.  When it raises the program may construct another, from *)
(* a configuration with a server list or one with an endpoint only; one     *)
(* with neither is refused before anything is set.                          *)

Construct(list) ==
    /\ phase = "unbuilt"
    /\ list # <<>> \/ HasEndpoint
    /\ hasCredentials' \in BOOLEAN
    /\ serverList' = list
    /\ currentIndex' = 0
    /\ phase' = IF list = <<>> THEN "fetching" ELSE "listed"
    /\ fetched' = {}
    /\ UNCHANGED <<vars, calls, turns>>

\* The answer replaces the list only if it equals it as a set.
Installs(list) == list # <<>> /\ SetOf(list) = SetOf(serverList)

Fetch(list) ==
    /\ phase = "fetching"
    /\ Bare \notin SetOf(list)
    /\ serverList' = IF Installs(list) THEN list ELSE serverList
    /\ fetched' = SetOf(list)
    /\ phase' = "listed"
    /\ UNCHANGED <<vars, hasCredentials, currentIndex, calls, turns>>

\* sp[0] + ":" + DEFAULT_PORT adds a str and an int.
FetchRaises(list) ==
    /\ phase = "fetching"
    /\ Bare \in SetOf(list)
    /\ phase' = "unbuilt"
    /\ UNCHANGED <<vars, hasCredentials, serverList, currentIndex, calls,
                   fetched, turns>>

\* HttpAgent.request catches HTTPError and URLError and returns them; what else
\* urlopen, the TLS files or the reading of the body raise goes to its caller.
HttpFailures == {"returned", "raised"}

FetchFails ==
    /\ phase = "fetching"
    /\ \E failure \in HttpFailures :
          phase' = IF failure = "returned" THEN "listed" ELSE "unbuilt"
    /\ UNCHANGED <<vars, hasCredentials, serverList, currentIndex, calls,
                   fetched, turns>>

\* "server list is empty"
RaiseEmptyList ==
    /\ phase = "listed"
    /\ Size = 0
    /\ phase' = "unbuilt"
    /\ UNCHANGED <<vars, hasCredentials, serverList, currentIndex, calls,
                   fetched, turns>>

\* The random first index, and get_access_token(True).
StartLogin ==
    /\ phase = "listed"
    /\ Size # 0
    /\ currentIndex' \in 0 .. Size - 1
    /\ phase' = "login"
    /\ Enter(Main, TRUE)
    /\ UNCHANGED <<hasCredentials, serverList, calls, fetched, turns>>

LoginReturns ==
    /\ phase = "login"
    /\ Return(Main)
    /\ phase' = "ready"
    /\ UNCHANGED <<hasCredentials, serverList, currentIndex, calls, fetched, turns>>

AuthRaises(t) == LastLoginFails(t) \/ LoginRaises(t)

MutLoginFailed ==
    /\ phase = "login"
    /\ AuthRaises(Main)
    /\ phase' = "ready"
    /\ UNCHANGED <<hasCredentials, serverList, currentIndex, calls, fetched, turns>>
LoginFailed ==
    /\ phase = "login"
    /\ AuthRaises(Main)
    /\ phase' = "unbuilt"
    /\ UNCHANGED <<hasCredentials, serverList, currentIndex, calls, fetched, turns>>

-----------------------------------------------------------------------------
(* req_api.                                                                *)

Proceed(t, label) == at' = [at EXCEPT ![t] = label]

MayUse(t) == at[t] = "idle" /\ phase = "ready"

\* The loop starts at a random server.
StartTries(t) ==
    /\ Proceed(t, "try")
    /\ \E i \in 0 .. Size - 1 : index' = [index EXCEPT ![t] = i]

ReqApi(t) ==
    /\ MayUse(t)
    /\ ~hasCredentials
    /\ StartTries(t)
    /\ UNCHANGED <<vars, object, tried, turns>>

\* _inject_security_info first asks the AuthClient for a token; if that raises
\* req_api ends before any server is tried.
ReqApiWithToken(t) ==
    /\ MayUse(t)
    /\ hasCredentials
    /\ Enter(t, FALSE)
    /\ Proceed(t, "token")
    /\ UNCHANGED <<object, index, tried, turns>>

TokenInjected(t) ==
    /\ at[t] = "token"
    /\ Return(t)
    /\ StartTries(t)
    /\ UNCHANGED <<object, tried, turns>>

TokenRaises(t) ==
    /\ at[t] = "token"
    /\ AuthRaises(t)
    /\ Proceed(t, "idle")
    /\ UNCHANGED <<object, index, tried, turns>>

Limit == IF Size = 1 THEN MaxRetry ELSE Size

MutNextIndex(i) == i
MutNextIndexUnwrapped(i) == i + 1
NextIndex(i) == (i + 1) % Size

EndCall(t) ==
    /\ Proceed(t, "idle")
    /\ index' = [index EXCEPT ![t] = 0]
    /\ tried' = [tried EXCEPT ![t] = <<>>]

TrySucceeds(t) ==
    /\ at[t] = "try"
    /\ Len(tried[t]) < Limit
    /\ EndCall(t)
    /\ UNCHANGED <<vars, object, turns>>

MutTryFails(t) ==
    /\ at[t] = "try"
    /\ index' = [index EXCEPT ![t] = NextIndex(@)]
    /\ UNCHANGED <<vars, object, at, tried, turns>>
TryFails(t) ==
    /\ at[t] = "try"
    /\ Len(tried[t]) < Limit
    /\ tried' = [tried EXCEPT ![t] = Append(@, serverList[index[t] + 1])]
    /\ index' = [index EXCEPT ![t] = NextIndex(@)]
    /\ UNCHANGED <<vars, object, at, turns>>

\* "failed to request api after 3 tries"
Exhausted(t) == at[t] = "try" /\ Len(tried[t]) = Limit

RaiseExhausted(t) ==
    /\ Exhausted(t)
    /\ EndCall(t)
    /\ UNCHANGED <<vars, object, turns>>

-----------------------------------------------------------------------------
(* get_next_server: read, increment, read again, without a lock.           *)

NextRead(t) ==
    /\ t \in NextCallers
    /\ MayUse(t)
    /\ Proceed(t, "nextWrite")
    /\ index' = [index EXCEPT ![t] = currentIndex]
    /\ UNCHANGED <<vars, object, tried, turns>>

NextWrite(t) ==
    /\ at[t] = "nextWrite"
    /\ currentIndex' = NextIndex(index[t])
    /\ Proceed(t, "nextReturn")
    /\ UNCHANGED <<vars, hasCredentials, serverList, phase, fetched, index,
                   tried, turns>>

\* The history keeps as many servers as there are.
LastTurns(s) == IF Len(s) > Size THEN Tail(s) ELSE s

NextReturn(t) ==
    /\ at[t] = "nextReturn"
    /\ turns' = LastTurns(Append(turns, serverList[currentIndex + 1]))
    /\ EndCall(t)
    /\ UNCHANGED <<vars, object>>

-----------------------------------------------------------------------------
\* Steps inside get_access_token that neither enter nor leave it.
AuthStep(t) ==
    /\ \/ ReadToken(t)
       \/ ReadExpiry(t)
       \/ LoginFails(t)
       \/ \E ttl \in Ttls : LoginSucceeds(t, ttl)
       \/ StoreToken(t)
       \/ StoreTtl(t)
       \/ ReadTtl(t)
       \/ StoreExpiry(t)
    /\ UNCHANGED <<object, calls, turns>>

Constructor ==
    \/ \E list \in EndpointLists : Fetch(list) \/ FetchRaises(list)
    \/ FetchFails
    \/ RaiseEmptyList
    \/ StartLogin
    \/ LoginReturns
    \/ LoginFailed

CallStep(t) ==
    \/ AuthStep(t)
    \/ TokenInjected(t)
    \/ TokenRaises(t)
    \/ TrySucceeds(t)
    \/ TryFails(t)
    \/ RaiseExhausted(t)
    \/ NextWrite(t)
    \/ NextReturn(t)

Start(t) == ReqApi(t) \/ ReqApiWithToken(t) \/ NextRead(t)

ConnectorTick == Tick /\ UNCHANGED <<object, calls, turns>>

ConnectorNext ==
    \/ \E list \in {<<>>, ServerList} : Construct(list)
    \/ Constructor
    \/ \E t \in Threads : CallStep(t) \/ Start(t)
    \/ ConnectorTick

\* Whoever is inside a call or the constructor runs; requests return, at worst
\* with a timeout.
ConnectorFairness ==
    WF_connectorVars(Constructor) /\ \A t \in Threads : WF_connectorVars(CallStep(t))

ConnectorSpec == ConnectorInit /\ [][ConnectorNext]_connectorVars
FairConnectorSpec == ConnectorSpec /\ ConnectorFairness

-----------------------------------------------------------------------------
\* The type invariant; an index always names a server.
ConnectorTypeOK ==
    /\ hasCredentials \in BOOLEAN
    /\ serverList \in {<<>>, ServerList}
    /\ phase \in {"unbuilt", "fetching", "listed", "login", "ready"}
    /\ currentIndex \in 0 .. Len(ServerList) - 1
    /\ at \in [Threads -> {"idle", "token", "try", "nextWrite", "nextReturn"}]
    /\ index \in [Threads -> 0 .. Len(ServerList) - 1]
    /\ \A t \in Threads : Len(tried[t]) <= Limit \/ tried[t] = <<>>

\* req_api gives up only after every server of the list has failed this call,
\* wherever its random start and whatever other threads do.
TriesAllServers ==
    \A t \in Threads : Exhausted(t) => SetOf(tried[t]) = SetOf(serverList)

\* get_next_server called by one thread at a time goes round: as many calls as
\* there are servers return each of them once.
RotationCovers == Len(turns) = Size => SetOf(turns) = SetOf(serverList)

\* A request that was started ends, with a response or an exception.
RequestEnds == \A t \in Threads : at[t] # "idle" ~> at[t] = "idle"

\* The connector uses its AuthClient as AuthClient.tla assumes: one forced
\* login before anyone else calls, none afterwards.
ImplementsAuthClient == Spec
=============================================================================
