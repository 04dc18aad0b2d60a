----------------------- MODULE ServerConnectorProofs -----------------------
(***************************************************************************)
(* Proofs about AuthClient and about ServerConnector, which extends it.    *)
(*                                                                         *)
(* AuthClient, for any number of callers: types, and that the              *)
(* constructor's login keeps everyone from comparing None with a time.     *)
(* For a single caller, that the expiry kept is that of the token kept; a  *)
(* run of TLC shows that two callers break it.                             *)
(*                                                                         *)
(* ServerConnector, for any server list, endpoint and number of threads:   *)
(* types, the fail-over of req_api, the turns of get_next_server called by *)
(* one thread, and that every step of the connector is one its AuthClient  *)
(* allows, so that what is proved of Spec holds of ConnectorSpec.          *)
(***************************************************************************)
EXTENDS ServerConnector, TLAPS

LEMMA InitTypeOK == Init => TypeOK
  <1> SUFFICES ASSUME Init PROVE TypeOK
    OBVIOUS
  <1>1. accessToken \in Nat /\ tokenTtl \in Ttls \cup {0} /\ now \in Nat
    BY DEF Init, None
  <1>2. tokenExpiredTime \in Int
    BY NumbersAssumption DEF Init, NeverSet
  <1>3. server \in [Threads -> 1 .. NumServers]
    BY NumbersAssumption DEF Init
  <1>4. grant \in [Threads -> [token : Nat, ttl : Ttls \cup {0}]]
    BY DEF Init, NoGrant, None
  <1>5. pc \in [Threads -> PCs]
    BY DEF Init, PCs
  <1>6. force \in [Threads -> BOOLEAN] /\ built \in BOOLEAN
    BY Zenon DEF Init
  <1>7. /\ currentTime \in [Threads -> Nat]
        /\ expiry \in [Threads -> Int]
    BY DEF Init
  <1> QED BY <1>1, <1>2, <1>3, <1>4, <1>5, <1>6, <1>7 DEF TypeOK

\* Every step keeps the types.
LEMMA NextTypeOK == TypeOK /\ [Next]_vars => TypeOK'
  <1> SUFFICES ASSUME TypeOK, [Next]_vars PROVE TypeOK'
    OBVIOUS
  <1> USE NumbersAssumption DEF TypeOK, PCs, Storing, Goto, fields, locals
  <1>1. ASSUME NEW t \in Threads, NEW f \in BOOLEAN, Call(t, f) PROVE TypeOK'
    BY <1>1 DEF Call, Enter
  <1>2. ASSUME NEW t \in Threads, ReadToken(t) PROVE TypeOK'
    BY <1>2 DEF ReadToken
  <1>3. ASSUME NEW t \in Threads, ReadExpiry(t) PROVE TypeOK'
    BY <1>3 DEF ReadExpiry
  <1>4. ASSUME NEW t \in Threads, Leave(t), UNCHANGED <<fields, now>>,
               built' \in BOOLEAN
        PROVE  TypeOK'
    BY <1>4 DEF Leave, NoGrant, None
  <1>5. ASSUME NEW t \in Threads, LoginFails(t) PROVE TypeOK'
    BY <1>5 DEF LoginFails, NextServer
  <1>6. ASSUME NEW t \in Threads, NEW ttl \in Ttls, LoginSucceeds(t, ttl)
        PROVE  TypeOK'
    <2>1. PICK token \in {None, now + ttl} :
             grant' = [grant EXCEPT ![t] = [token |-> token, ttl |-> ttl]]
      BY <1>6 DEF LoginSucceeds
    <2>2. token \in Nat
      BY <2>1 DEF None
    <2> QED BY <1>6, <2>1, <2>2 DEF LoginSucceeds
  <1>7. ASSUME NEW t \in Threads, StoreToken(t) PROVE TypeOK'
    BY <1>7 DEF StoreToken
  <1>8. ASSUME NEW t \in Threads, StoreTtl(t) PROVE TypeOK'
    BY <1>8 DEF StoreTtl
  <1>9. ASSUME NEW t \in Threads, ReadTtl(t) PROVE TypeOK'
    BY <1>9 DEF ReadTtl, ExpiryFrom
  <1>10. ASSUME NEW t \in Threads, StoreExpiry(t) PROVE TypeOK'
    BY <1>10 DEF StoreExpiry
  <1>11. CASE Tick \/ UNCHANGED vars
    BY <1>11 DEF Tick, vars
  <1>12. ASSUME NEW t \in Threads, Return(t) \/ LastLoginFails(t) \/ LoginRaises(t)
         PROVE  TypeOK'
    <2>1. Leave(t) /\ UNCHANGED <<fields, now>> /\ built' \in BOOLEAN
      BY <1>12 DEF Return, LastLoginFails, LoginRaises
    <2> HIDE DEF TypeOK, fields
    <2> QED BY <1>4, <2>1
  <1> HIDE DEF TypeOK, PCs, Storing, Goto, fields, locals
  <1> QED BY <1>1, <1>2, <1>3, <1>5, <1>6, <1>7, <1>8, <1>9, <1>10, <1>11, <1>12
          DEF Next, Step

\* Types are an invariant, for any number of callers and servers.
THEOREM TypeCorrect == Spec => []TypeOK
  BY InitTypeOK, NextTypeOK, PTL DEF Spec

-----------------------------------------------------------------------------
(* The constructor's login.                                                *)

\* Until the constructor returns it is alone and past the cached path; once it
\* has returned there is an expiry.
LoginFirst ==
    /\ built => tokenExpiredTime >= -Margin
    /\ ~built => /\ \A t \in Threads : t # Main => pc[t] = "idle"
                 /\ pc[Main] \notin {"readExpiry", "returnCached"}
                 /\ pc[Main] # "idle" => force[Main]
                 /\ pc[Main] = "return" => tokenExpiredTime >= -Margin
    /\ \A t \in Threads : pc[t] = "storeExpiry" => expiry[t] >= -Margin

LEMMA LoginFirstInvariant == Spec => []LoginFirst
  <1>1. Init => LoginFirst
    BY ThreadsAssumption DEF Init, LoginFirst
  <1>2. ASSUME TypeOK, LoginFirst, [Next]_vars PROVE LoginFirst'
    <2> USE <1>2, ThreadsAssumption, NumbersAssumption
        DEF TypeOK, LoginFirst, Goto, fields, locals
    <2>1. ASSUME NEW t \in Threads, NEW f \in BOOLEAN, Call(t, f)
          PROVE  LoginFirst'
      BY <2>1 DEF Call, Enter, MayCall
    <2>2. ASSUME NEW t \in Threads, ReadToken(t) \/ ReadExpiry(t)
          PROVE  LoginFirst'
      BY <2>2 DEF ReadToken, ReadExpiry
    <2>3. ASSUME NEW t \in Threads, Return(t)
          PROVE  LoginFirst'
      BY <2>3 DEF Return, Leave
    <2>4. ASSUME NEW t \in Threads, Leave(t), UNCHANGED <<fields, built, now>>
          PROVE  LoginFirst'
      BY <2>4 DEF Leave
    <2>5. ASSUME NEW t \in Threads,
                 LoginFails(t) \/ StoreToken(t) \/ StoreTtl(t)
          PROVE  LoginFirst'
      BY <2>5 DEF LoginFails, StoreToken, StoreTtl
    <2>6. ASSUME NEW t \in Threads, NEW ttl \in Ttls, LoginSucceeds(t, ttl)
          PROVE  LoginFirst'
      BY <2>6 DEF LoginSucceeds
    <2>7. ASSUME NEW t \in Threads, ReadTtl(t)
          PROVE  LoginFirst'
      <3>1. ExpiryFrom(t, tokenTtl) >= -Margin
        BY DEF ExpiryFrom
      <3> QED BY <2>7, <3>1 DEF ReadTtl
    <2>8. ASSUME NEW t \in Threads, StoreExpiry(t)
          PROVE  LoginFirst'
      BY <2>8 DEF StoreExpiry
    <2>9. CASE Tick \/ UNCHANGED vars
      BY <2>9 DEF Tick, vars
    <2> QED BY <2>1, <2>2, <2>3, <2>4, <2>5, <2>6, <2>7, <2>8, <2>9
            DEF Next, Step, LastLoginFails, LoginRaises
  <1> QED BY <1>1, <1>2, TypeCorrect, PTL DEF Spec

\* NeverComparesNone, for any number of callers: no interleaving lets a thread
\* reach the comparison before an expiry was stored.
THEOREM NeverComparesNoneHolds == Spec => []NeverComparesNone
  <1>1. TypeOK /\ LoginFirst => NeverComparesNone
    BY ThreadsAssumption, NumbersAssumption
       DEF TypeOK, LoginFirst, NeverComparesNone, NeverSet
  <1> QED BY <1>1, TypeCorrect, LoginFirstInvariant, PTL

-----------------------------------------------------------------------------
(* One caller: the stores of a login belong together.                      *)

\* Where the caller is in the stores of a login, and what is stored already.
StoresBelong ==
    LET label == pc[Main] IN
    /\ currentTime[Main] <= now
    /\ label \in Storing /\ grant[Main].token # None =>
          currentTime[Main] + grant[Main].ttl <= grant[Main].token
    /\ label \in {"storeTtl", "readTtl", "storeExpiry"} =>
          accessToken = grant[Main].token
    /\ label \in {"readTtl", "storeExpiry"} => tokenTtl = grant[Main].ttl
    /\ label = "storeExpiry" => expiry[Main] = ExpiryFrom(Main, tokenTtl)
    /\ label \notin {"storeTtl", "readTtl", "storeExpiry"} /\ accessToken # None =>
          tokenExpiredTime + Margin <= accessToken
    /\ label \in {"readExpiry", "returnCached"} => accessToken # None
    /\ label = "returnCached" => StillFresh(Main)

LEMMA StoresBelongInvariant ==
    ASSUME Threads = {Main} PROVE Spec => []StoresBelong
  <1>1. Init => StoresBelong
    BY ThreadsAssumption DEF Init, StoresBelong, Storing, None
  <1>2. ASSUME TypeOK, StoresBelong, [Next]_vars PROVE StoresBelong'
    <2> USE <1>2, ThreadsAssumption, NumbersAssumption
        DEF TypeOK, StoresBelong, Goto, fields, locals, StillFresh, ExpiryFrom
    <2>1. ASSUME NEW f \in BOOLEAN, Call(Main, f) PROVE StoresBelong'
      BY <2>1 DEF Call, Enter, Storing
    <2>2. CASE ReadToken(Main)
      BY <2>2 DEF ReadToken, Storing
    <2>3. CASE ReadExpiry(Main)
      BY <2>3 DEF ReadExpiry, Storing
    <2>4. ASSUME Leave(Main), UNCHANGED <<fields, now>>,
                 pc[Main] \in {"returnCached", "return", "login"}
          PROVE  StoresBelong'
      BY <2>4 DEF Leave, Storing
    <2>5. CASE LoginFails(Main)
      BY <2>5 DEF LoginFails, Storing
    <2>6. ASSUME NEW ttl \in Ttls, LoginSucceeds(Main, ttl)
          PROVE  StoresBelong'
      BY <2>6 DEF LoginSucceeds, Storing
    <2>7. CASE StoreToken(Main)
      BY <2>7 DEF StoreToken, Storing
    <2>8. CASE StoreTtl(Main)
      BY <2>8 DEF StoreTtl, Storing
    <2>9. CASE ReadTtl(Main)
      BY <2>9 DEF ReadTtl, Storing
    <2>10. CASE StoreExpiry(Main)
      BY <2>10 DEF StoreExpiry, Storing
    <2>11. CASE Tick \/ UNCHANGED vars
      BY <2>11 DEF Tick, vars
    <2> QED BY Threads = {Main}, <2>1, <2>2, <2>3, <2>4, <2>5, <2>6, <2>7, <2>8,
               <2>9, <2>10, <2>11
            DEF Next, Step, Return, LastLoginFails, LoginRaises
  <1> QED BY <1>1, <1>2, TypeCorrect, PTL DEF Spec

\* ExpiryWithinToken, for every margin, set of lifetimes and number of servers,
\* of an AuthClient that only one thread calls: the expiry kept is the one
\* computed for the token kept.
THEOREM OneCallerExpiry ==
    ASSUME Threads = {Main} PROVE Spec => []ExpiryWithinToken
  <1>1. TypeOK /\ StoresBelong => ExpiryWithinToken
    BY Threads = {Main}, ThreadsAssumption, NumbersAssumption
       DEF TypeOK, StoresBelong, ExpiryWithinToken, Quiet, Storing
  <1> QED BY <1>1, TypeCorrect, StoresBelongInvariant, PTL

\* CachedTokenLives, under the same hypothesis: what get_access_token returns
\* without a login outlives the margin.
THEOREM OneCallerCachedLives ==
    ASSUME Threads = {Main} PROVE Spec => []CachedTokenLives
  <1>1. TypeOK /\ StoresBelong => CachedTokenLives
    BY Threads = {Main}, ThreadsAssumption, NumbersAssumption
       DEF TypeOK, StoresBelong, CachedTokenLives, Storing, StillFresh
  <1> QED BY <1>1, TypeCorrect, StoresBelongInvariant, PTL

-----------------------------------------------------------------------------
(* ServerConnector: the life of the object.                                *)

Servers == SetOf(ServerList)

\* A list without elements is the empty list; a configured one has some.
LEMMA ServerLists ==
    /\ ServerList \in Seq(Servers) /\ Len(ServerList) = NumServers
    /\ NumServers \in Nat \ {0} /\ ServerList # <<>>
    /\ \A i \in 1 .. NumServers : ServerList[i] \in Servers
    /\ \A list \in EndpointLists : list # <<>> => SetOf(list) # {}
  <1>1. /\ ServerList \in Seq(Servers) /\ Len(ServerList) = NumServers
        /\ NumServers \in Nat \ {0}
    BY ConfigAssumption, NumbersAssumption DEF IsList, Servers
  <1>2. ASSUME NEW list \in EndpointLists, list # <<>> PROVE SetOf(list) # {}
    <2>1. list \in Seq(SetOf(list))
      BY ConfigAssumption DEF IsList
    <2> DEFINE S == SetOf(list)
    <2>2. Len(list) \in Nat \ {0} /\ DOMAIN list = 1 .. Len(list)
      <3> HIDE DEF S
      <3>1. list \in Seq(S)
        BY <2>1 DEF S
      <3> QED BY <3>1, <1>2
    <2>3. list[1] \in SetOf(list)
      BY <2>2 DEF SetOf
    <2> QED BY <2>3
  <1>3. ServerList # <<>> /\ \A i \in 1 .. NumServers : ServerList[i] \in Servers
    <2> HIDE DEF Servers
    <2> QED BY <1>1
  <1> QED BY <1>1, <1>2, <1>3

\* Only an object whose constructor returned is used, with the list it was
\* configured with; it has logged in once.
Lived ==
    /\ built <=> phase = "ready"
    /\ phase \in {"login", "ready"} => serverList = ServerList
    /\ phase = "fetching" => serverList = <<>>
    /\ phase # "ready" => turns = <<>> /\ \A t \in Threads : at[t] = "idle"

\* The k-th server after server s, both counted from 0, for 0 <= k <= NumServers.
After(s, k) ==
    IF NumServers = 1 THEN 0 ELSE IF s + k < NumServers THEN s + k ELSE s + k - NumServers

\* A failing req_api has tried the servers in turn from the one it started at.
TriedInTurn(t) ==
    \E s \in 0 .. NumServers - 1 :
        /\ index[t] = After(s, Len(tried[t]))
        /\ \A k \in 1 .. Len(tried[t]) : tried[t][k] = ServerList[After(s, k - 1) + 1]

Limits == IF NumServers = 1 THEN MaxRetry ELSE NumServers

Tried ==
    /\ tried \in [Threads -> Seq(Servers)]
    /\ \A t \in Threads :
          /\ at[t] # "try" => tried[t] = <<>>
          /\ at[t] = "try" => Len(tried[t]) <= Limits /\ TriedInTurn(t)

ConnectorInv == ConnectorTypeOK /\ Lived /\ Tried

LEMMA InitConnector == ConnectorInit => ConnectorInv
  <1> SUFFICES ASSUME ConnectorInit PROVE ConnectorInv
    OBVIOUS
  <1> USE ServerLists DEF ConnectorInit
  <1>1. \A t \in Threads : tried[t] = <<>> /\ at[t] = "idle"
    OBVIOUS
  <1>2. ConnectorTypeOK
    <2>1. hasCredentials \in BOOLEAN
      BY Zenon
    <2> QED BY <1>1, <2>1 DEF ConnectorTypeOK
  <1>3. Lived
    <2>1. ~built
      BY Zenon DEF Init
    <2> QED BY <1>1, <2>1 DEF Lived
  <1>4. Tried
    <2>1. tried \in [Threads -> Seq(Servers)]
      OBVIOUS
    <2> QED BY <1>1, <2>1 DEF Tried
  <1> QED BY <1>2, <1>3, <1>4 DEF ConnectorInv

\* What the steps of the AuthClient do to the flag that a constructor returned.
LEMMA AuthKeepsBuilt ==
    ASSUME NEW t \in Threads
    PROVE  /\ AuthStep(t) => built' = built
           /\ AuthRaises(t) => built' = built
           /\ Return(t) => built'
           /\ \A f \in BOOLEAN : Enter(t, f) => built' = built
  BY DEF AuthStep, AuthRaises, Return, Enter, ReadToken, ReadExpiry, LoginFails,
         LoginSucceeds, StoreToken, StoreTtl, ReadTtl, StoreExpiry, LastLoginFails,
         LoginRaises

\* The steps of the constructor, which no request is in progress at.
LEMMA ConstructorKeeps ==
    ASSUME ConnectorInv,
           Constructor \/ \E list \in {<<>>, ServerList} : Construct(list)
    PROVE  ConnectorInv'
  <1> USE ServerLists, ThreadsAssumption, AuthKeepsBuilt
  <1>1. /\ phase # "ready" /\ ~built /\ turns = <<>>
        /\ \A t \in Threads : at[t] = "idle" /\ tried[t] = <<>>
    BY DEF ConnectorInv, Lived, Tried, Constructor, Construct, Fetch, FetchRaises,
           FetchFails, RaiseEmptyList, StartLogin, LoginReturns, LoginFailed
  <1>2. UNCHANGED <<calls, turns>>
    BY DEF Constructor, Construct, Fetch, FetchRaises, FetchFails, RaiseEmptyList,
           StartLogin, LoginReturns, LoginFailed
  <1>3. Tried'
    BY <1>1, <1>2 DEF ConnectorInv, Tried, calls
  <1> DEFINE Listed ==
               /\ serverList' \in {<<>>, ServerList}
               /\ phase' \in {"login", "ready"} => serverList' = ServerList
               /\ phase' = "fetching" => serverList' = <<>>
               /\ phase' \in {"unbuilt", "fetching", "listed", "login", "ready"}
               /\ currentIndex' \in 0 .. Len(ServerList) - 1
  <1>4. Listed
    <2> USE DEF ConnectorInv, ConnectorTypeOK, Lived
    <2>1. ASSUME NEW list \in EndpointLists, Fetch(list) \/ FetchRaises(list)
          PROVE  Listed
      <3>1. ~Installs(list)
        <4>1. serverList = <<>> => SetOf(serverList) = {}
          BY DEF SetOf
        <4>2. serverList = <<>>
          BY <2>1 DEF Fetch, FetchRaises
        <4> QED BY <4>1, <4>2 DEF Installs
      <3> QED BY <2>1, <3>1 DEF Fetch, FetchRaises
    <2>2. CASE FetchFails \/ RaiseEmptyList
      BY <2>2 DEF FetchFails, RaiseEmptyList, HttpFailures
    <2>3. CASE StartLogin
      BY <2>3 DEF StartLogin, Size
    <2>4. CASE LoginReturns \/ LoginFailed
      BY <2>4 DEF LoginReturns, LoginFailed
    <2>5. ASSUME NEW list \in {<<>>, ServerList}, Construct(list) PROVE Listed
      BY <2>5 DEF Construct
    <2> QED BY <2>1, <2>2, <2>3, <2>4, <2>5 DEF Constructor
  <1>5. built' <=> phase' = "ready"
    <2>1. CASE LoginReturns
      BY <2>1, Zenon DEF LoginReturns
    <2>2. CASE LoginFailed
      <3>1. built' = built /\ phase' = "unbuilt"
        BY <2>2, Zenon DEF LoginFailed
      <3> QED BY <1>1, <3>1
    <2>3. CASE StartLogin
      <3>1. built' = built /\ phase' = "login"
        BY <2>3, Zenon DEF StartLogin
      <3> QED BY <1>1, <3>1
    <2>4. CASE \/ \E list \in {<<>>, ServerList} : Construct(list)
               \/ \E list \in EndpointLists : Fetch(list) \/ FetchRaises(list)
               \/ FetchFails \/ RaiseEmptyList
      <3>1. built' = built /\ phase' # "ready"
        BY <2>4 DEF Construct, Fetch, FetchRaises, FetchFails, RaiseEmptyList, vars,
                    HttpFailures
      <3> QED BY <1>1, <3>1
    <2> QED BY <2>1, <2>2, <2>3, <2>4 DEF Constructor
  <1>6. Lived'
    BY <1>1, <1>2, <1>4, <1>5 DEF Lived, calls
  <1>7. ConnectorTypeOK'
    <2>1. hasCredentials' \in BOOLEAN
      BY Zenon DEF ConnectorInv, ConnectorTypeOK, Constructor, Construct, Fetch,
         FetchRaises, FetchFails, RaiseEmptyList, StartLogin, LoginReturns, LoginFailed
    <2> QED BY <1>1, <1>2, <1>4, <2>1 DEF ConnectorInv, ConnectorTypeOK, calls
  <1> QED BY <1>3, <1>6, <1>7 DEF ConnectorInv

\* The remainder that wraps an index round.
LEMMA NextIndexWraps ==
    ASSUME serverList = ServerList, NEW i \in 0 .. NumServers - 1
    PROVE  NextIndex(i) = IF i + 1 = NumServers THEN 0 ELSE i + 1
  <1>1. Size = NumServers /\ NumServers \in Nat \ {0}
    BY ServerLists DEF Size
  <1>2. CASE i + 1 = NumServers
    BY <1>1, <1>2 DEF NextIndex
  <1>3. CASE i + 1 < NumServers
    BY <1>1, <1>3 DEF NextIndex
  <1> QED BY <1>1, <1>2, <1>3

LEMMA NextIndexAfter ==
    ASSUME serverList = ServerList, NEW s \in 0 .. NumServers - 1, NEW k \in Nat,
           NumServers = 1 \/ k < NumServers
    PROVE  After(s, k) \in 0 .. NumServers - 1 /\ NextIndex(After(s, k)) = After(s, k + 1)
  <1>1. NumServers \in Nat \ {0}
    BY ServerLists
  <1>2. After(s, k) \in 0 .. NumServers - 1
    BY <1>1 DEF After
  <1> QED BY <1>1, <1>2, NextIndexWraps DEF After

\* Starting to try the servers, and another server's failure.
LEMMA TriesGrow ==
    ASSUME ConnectorInv, NEW t \in Threads, phase = "ready"
    PROVE  /\ tried[t] = <<>> /\ StartTries(t) /\ tried' = tried => TriedInTurn(t)'
           /\ TryFails(t) => Len(tried'[t]) <= Limits /\ TriedInTurn(t)'
  <1> USE ServerLists DEF ConnectorInv, ConnectorTypeOK, Lived, Tried
  <1>1. serverList = ServerList /\ Size = NumServers /\ Limit = Limits /\ Limits \in Nat
    BY ConfigAssumption DEF Size, Limit, Limits
  <1>2. ASSUME tried[t] = <<>>, StartTries(t), tried' = tried PROVE TriedInTurn(t)'
    <2>1. PICK i \in 0 .. Size - 1 : index' = [index EXCEPT ![t] = i]
      BY <1>2 DEF StartTries
    <2>2. index'[t] = After(i, 0) /\ Len(tried'[t]) = 0 /\ i \in 0 .. NumServers - 1
      BY <1>1, <1>2, <2>1 DEF After
    <2> QED BY <2>2 DEF TriedInTurn
  <1>3. ASSUME TryFails(t) PROVE Len(tried'[t]) <= Limits /\ TriedInTurn(t)'
    <2> DEFINE n == Len(tried[t])
               x == ServerList[index[t] + 1]
    <2>1. at[t] = "try" /\ n < Limits /\ n \in Nat /\ tried[t] \in Seq(Servers)
      BY <1>1, <1>3 DEF TryFails
    <2>2. PICK s \in 0 .. NumServers - 1 :
             /\ index[t] = After(s, n)
             /\ \A k \in 1 .. n : tried[t][k] = ServerList[After(s, k - 1) + 1]
      BY <2>1 DEF TriedInTurn
    <2>3. NumServers = 1 \/ n < NumServers
      BY <2>1 DEF Limits
    <2>4. /\ After(s, n) \in 0 .. NumServers - 1
          /\ NextIndex(After(s, n)) = After(s, n + 1)
      BY <1>1, <2>1, <2>3, NextIndexAfter
    <2>5. tried'[t] = Append(tried[t], x) /\ index'[t] = NextIndex(index[t])
      BY <1>1, <1>3 DEF TryFails
    <2>6. x \in Servers
      BY <2>2, <2>4
    <2>7. /\ Len(tried'[t]) = n + 1 /\ tried'[t][n + 1] = x
          /\ \A k \in 1 .. n : tried'[t][k] = tried[t][k]
      <3> HIDE DEF x
      <3> QED BY <2>1, <2>5, <2>6
    <2>8. \A k \in 1 .. n + 1 : tried'[t][k] = ServerList[After(s, k - 1) + 1]
      <3> SUFFICES ASSUME NEW k \in 1 .. n + 1
                   PROVE  tried'[t][k] = ServerList[After(s, k - 1) + 1]
        OBVIOUS
      <3>1. CASE k = n + 1
        BY <2>1, <2>2, <2>7, <3>1
      <3>2. CASE k \in 1 .. n
        BY <2>2, <2>7, <3>2
      <3> QED BY <2>1, <3>1, <3>2
    <2>9. index'[t] = After(s, Len(tried'[t]))
      BY <2>2, <2>4, <2>5, <2>7
    <2> QED BY <1>1, <2>1, <2>7, <2>8, <2>9 DEF TriedInTurn
  <1> QED BY <1>2, <1>3

\* A step of one thread inside a call disturbs nobody else's.
LEMMA OneThreadMoves ==
    ASSUME ConnectorInv, NEW t \in Threads, phase = "ready",
           UNCHANGED <<serverList, hasCredentials, phase>>, built' = TRUE,
           currentIndex' \in 0 .. NumServers - 1,
           NEW label \in {"idle", "token", "try", "nextWrite", "nextReturn"},
           NEW i \in 0 .. NumServers - 1,
           NEW list \in Seq(Servers),
           at' = [at EXCEPT ![t] = label],
           index' = [index EXCEPT ![t] = i],
           tried' = [tried EXCEPT ![t] = list],
           label # "try" => list = <<>>,
           label = "try" => Len(list) <= Limits /\ TriedInTurn(t)'
    PROVE  ConnectorInv'
  <1> USE ServerLists DEF ConnectorInv, ConnectorTypeOK, Lived, Tried
  <1>1. /\ serverList' = ServerList /\ serverList = ServerList
        /\ Limit' = Limits /\ Limit = Limits /\ Limits \in Nat
    BY ConfigAssumption DEF Limit, Limits, Size
  <1>2. \A u \in Threads : u # t => /\ at'[u] = at[u] /\ index'[u] = index[u]
                                    /\ tried'[u] = tried[u]
    OBVIOUS
  <1>3. at'[t] = label /\ index'[t] = i /\ tried'[t] = list
    OBVIOUS
  <1>4. tried' \in [Threads -> Seq(Servers)]
    OBVIOUS
  <1>5. Tried'
    <2> SUFFICES ASSUME NEW u \in Threads
                 PROVE  /\ at'[u] # "try" => tried'[u] = <<>>
                        /\ at'[u] = "try" => Len(tried'[u]) <= Limits /\ TriedInTurn(u)'
      BY <1>4
    <2>1. CASE u = t
      BY <1>3, <2>1
    <2>2. CASE u # t
      <3>1. TriedInTurn(u)' <=> TriedInTurn(u)
        BY <1>2, <2>2 DEF TriedInTurn
      <3> QED BY <1>2, <2>2, <3>1
    <2> QED BY <2>1, <2>2
  <1>6. Lived'
    <2>1. built' <=> phase' = "ready"
      OBVIOUS
    <2> QED BY <1>1, <2>1
  <1>7. ConnectorTypeOK'
    <2>1. \A u \in Threads : Len(tried'[u]) <= Limits \/ tried'[u] = <<>>
      BY <1>5
    <2>2. hasCredentials' \in BOOLEAN
      OBVIOUS
    <2> QED BY <1>1, <2>1, <2>2
  <1> QED BY <1>5, <1>6, <1>7

\* The steps of the threads that use the connector.
LEMMA UseKeeps ==
    ASSUME ConnectorInv, NEW t \in Threads, CallStep(t) \/ Start(t), ~AuthStep(t)
    PROVE  ConnectorInv'
  <1> USE ServerLists, OneThreadMoves
  <1>1. /\ at \in [Threads -> {"idle", "token", "try", "nextWrite", "nextReturn"}]
        /\ index \in [Threads -> 0 .. NumServers - 1]
        /\ currentIndex \in 0 .. NumServers - 1
        /\ tried \in [Threads -> Seq(Servers)]
        /\ phase # "ready" => at[t] = "idle"
        /\ at[t] # "try" => tried[t] = <<>>
        /\ at[t] = "try" => Len(tried[t]) <= Limits /\ TriedInTurn(t)
        /\ <<>> \in Seq(Servers) /\ 0 \in 0 .. NumServers - 1
    BY DEF ConnectorInv, ConnectorTypeOK, Lived, Tried
  <1>2. phase = "ready"
    BY <1>1 DEF CallStep, Start, TokenInjected, TokenRaises, TrySucceeds, TryFails,
                RaiseExhausted, Exhausted, NextWrite, NextReturn, ReqApi,
                ReqApiWithToken, NextRead, MayUse
  <1>3. serverList = ServerList /\ Size = NumServers /\ built = TRUE
    <2>1. built = TRUE
      BY <1>2, Zenon DEF ConnectorInv, Lived, ConnectorTypeOK
    <2> QED BY <1>2, <2>1 DEF ConnectorInv, Lived, Size
  <1>4. UNCHANGED <<serverList, hasCredentials, phase>>
    BY DEF CallStep, Start, TokenInjected, TokenRaises, TrySucceeds, TryFails,
           RaiseExhausted, NextWrite, NextReturn, ReqApi, ReqApiWithToken, NextRead,
           object
  <1>5. built' = TRUE
    <2>1. CASE TokenInjected(t)
      BY <2>1, Zenon DEF TokenInjected, Return
    <2>2. CASE ~TokenInjected(t)
      <3>1. built' = built
        BY <2>2, AuthKeepsBuilt
           DEF CallStep, Start, TokenRaises, TrySucceeds, TryFails, RaiseExhausted,
               NextWrite, NextReturn, ReqApi, ReqApiWithToken, NextRead, vars
      <3> QED BY <1>3, <3>1
    <2> QED BY <2>1, <2>2
  <1>6. \A s \in Seq(Servers) : tried[t] = s => tried = [tried EXCEPT ![t] = s]
    BY <1>1
  <1>7. index = [index EXCEPT ![t] = index[t]] /\ index[t] \in 0 .. NumServers - 1
    BY <1>1
  <1>8. ASSUME tried[t] = <<>>, tried' = tried, StartTries(t),
               currentIndex' = currentIndex
        PROVE  ConnectorInv'
    <2>1. PICK i \in 0 .. NumServers - 1 : index' = [index EXCEPT ![t] = i]
      BY <1>3, <1>8 DEF StartTries
    <2>2. TriedInTurn(t)' /\ Len(tried[t]) <= Limits
      <3>1. Len(tried[t]) <= Limits
        BY <1>8, ConfigAssumption DEF Limits
      <3> QED BY <1>2, <1>8, <3>1, TriesGrow
    <2> QED BY <1>1, <1>2, <1>4, <1>5, <1>6, <1>8, <2>1, <2>2 DEF StartTries, Proceed
  <1>9. CASE ReqApi(t) \/ TokenInjected(t)
    BY <1>1, <1>8, <1>9 DEF ReqApi, TokenInjected, MayUse, object
  <1>10. CASE ReqApiWithToken(t) \/ TokenRaises(t)
    <2>1. PICK label \in {"token", "idle"} : at' = [at EXCEPT ![t] = label]
      BY <1>10 DEF ReqApiWithToken, TokenRaises, Proceed
    <2>2. UNCHANGED <<index, tried, currentIndex>> /\ tried[t] = <<>>
      BY <1>1, <1>10 DEF ReqApiWithToken, TokenRaises, MayUse, object
    <2> QED BY <1>1, <1>2, <1>4, <1>5, <1>6, <1>7, <2>1, <2>2
  <1>11. CASE TrySucceeds(t) \/ RaiseExhausted(t) \/ NextReturn(t)
    <2>1. EndCall(t) /\ currentIndex' = currentIndex
      BY <1>11 DEF TrySucceeds, RaiseExhausted, NextReturn, object
    <2> QED BY <1>1, <1>2, <1>4, <1>5, <2>1 DEF EndCall, Proceed
  <1>12. CASE TryFails(t)
    <2>1. /\ at[t] = "try" /\ at' = [at EXCEPT ![t] = "try"]
          /\ index' = [index EXCEPT ![t] = NextIndex(index[t])]
          /\ tried' = [tried EXCEPT ![t] = tried'[t]]
          /\ currentIndex' = currentIndex
      BY <1>1, <1>12 DEF TryFails, object
    <2>2. tried'[t] \in Seq(Servers)
      <3>1. tried'[t] = Append(tried[t], ServerList[index[t] + 1])
        BY <1>1, <1>3, <1>12 DEF TryFails
      <3>2. ServerList[index[t] + 1] \in Servers
        BY <1>7
      <3> QED BY <1>1, <3>1, <3>2
    <2>3. NextIndex(index[t]) \in 0 .. NumServers - 1
      BY <1>3, <1>7, NextIndexWraps
    <2>4. Len(tried'[t]) <= Limits /\ TriedInTurn(t)'
      BY <1>2, <1>12, TriesGrow
    <2> QED BY <1>1, <1>2, <1>4, <1>5, <2>1, <2>2, <2>3, <2>4
  <1>13. CASE NextRead(t)
    BY <1>1, <1>2, <1>4, <1>5, <1>6, <1>13 DEF NextRead, MayUse, Proceed, object
  <1>14. CASE NextWrite(t)
    <2>1. NextIndex(index[t]) \in 0 .. NumServers - 1
      BY <1>3, <1>7, NextIndexWraps
    <2> QED BY <1>1, <1>2, <1>4, <1>5, <1>6, <1>7, <1>14, <2>1 DEF NextWrite, Proceed
  <1> QED BY <1>9, <1>10, <1>11, <1>12, <1>13, <1>14 DEF CallStep, Start

LEMMA NextConnector == ConnectorInv /\ [ConnectorNext]_connectorVars => ConnectorInv'
  <1> SUFFICES ASSUME ConnectorInv, [ConnectorNext]_connectorVars PROVE ConnectorInv'
    OBVIOUS
  <1>1. ASSUME UNCHANGED <<object, calls, turns>>, built' = built PROVE ConnectorInv'
    BY <1>1 DEF ConnectorInv, ConnectorTypeOK, Lived, Tried, TriedInTurn, Limit, Size,
                object, calls
  <1>2. ASSUME NEW t \in Threads, AuthStep(t) PROVE ConnectorInv'
    BY <1>1, <1>2, AuthKeepsBuilt DEF AuthStep
  <1>3. CASE ConnectorTick \/ UNCHANGED connectorVars
    BY <1>1, <1>3 DEF ConnectorTick, Tick, connectorVars, vars
  <1> QED BY <1>2, <1>3, UseKeeps, ConstructorKeeps DEF ConnectorNext

LEMMA ConnectorInvariant == ConnectorSpec => []ConnectorInv
  BY InitConnector, NextConnector, PTL DEF ConnectorSpec

\* ConnectorTypeOK, for every server list, endpoint and number of threads: no
\* interleaving makes an index name no server.
THEOREM ConnectorTypeCorrect == ConnectorSpec => []ConnectorTypeOK
  BY ConnectorInvariant, PTL DEF ConnectorInv

\* Two lists each of whose entries is one of the other's.
LEMMA SameElements ==
    ASSUME NEW f, NEW g, DOMAIN f = 1 .. Len(f), DOMAIN g = 1 .. Len(g),
           \A k \in 1 .. Len(f) : \E i \in 1 .. Len(g) : f[k] = g[i],
           \A i \in 1 .. Len(g) : \E k \in 1 .. Len(f) : f[k] = g[i]
    PROVE  SetOf(f) = SetOf(g)
  <1>1. ASSUME NEW k \in 1 .. Len(f) PROVE f[k] \in SetOf(g)
    <2>1. PICK i \in 1 .. Len(g) : f[k] = g[i]
      OBVIOUS
    <2>2. g[i] \in SetOf(g)
      BY DEF SetOf
    <2> QED BY <2>1, <2>2
  <1>2. ASSUME NEW i \in 1 .. Len(g) PROVE g[i] \in SetOf(f)
    <2>1. PICK k \in 1 .. Len(f) : f[k] = g[i]
      OBVIOUS
    <2>2. f[k] \in SetOf(f)
      BY DEF SetOf
    <2> QED BY <2>1, <2>2
  <1>3. SetOf(f) \subseteq SetOf(g)
    BY ONLY <1>1, DOMAIN f = 1 .. Len(f) DEF SetOf
  <1>4. SetOf(g) \subseteq SetOf(f)
    BY ONLY <1>2, DOMAIN g = 1 .. Len(g) DEF SetOf
  <1> QED BY <1>3, <1>4

\* TriesAllServers, for every length of the list: a req_api that gives up has
\* gone once round the list, wherever it began.
THEOREM TriesAllServersHolds == ConnectorSpec => []TriesAllServers
  <1>1. ConnectorInv => TriesAllServers
    <2> SUFFICES ASSUME ConnectorInv, NEW t \in Threads, Exhausted(t)
                 PROVE  SetOf(tried[t]) = SetOf(serverList)
      BY DEF TriesAllServers
    <2> USE ServerLists DEF ConnectorInv, Lived, Tried
    <2>1. serverList = ServerList /\ at[t] = "try" /\ Len(tried[t]) = Limits
      <3>1. at[t] = "try" /\ serverList = ServerList
        BY DEF Exhausted
      <3> QED BY <3>1 DEF Exhausted, Limit, Limits, Size
    <2>2. tried[t] \in Seq(Servers) /\ Limits \in Nat \ {0}
      BY ConfigAssumption DEF Limits
    <2>3. DOMAIN tried[t] = 1 .. Limits /\ DOMAIN ServerList = 1 .. NumServers
      <3> HIDE DEF Servers
      <3> QED BY <2>1, <2>2
    <2>4. PICK s \in 0 .. NumServers - 1 :
             \A k \in 1 .. Limits : tried[t][k] = ServerList[After(s, k - 1) + 1]
      BY <2>1 DEF TriedInTurn
    <2>5. \A k \in 1 .. Limits : After(s, k - 1) + 1 \in 1 .. NumServers
      BY <2>2, <2>4 DEF After, Limits
    <2>6. ASSUME NEW i \in 1 .. NumServers
          PROVE  \E k \in 1 .. Limits : i = After(s, k - 1) + 1
      <3>1. CASE NumServers = 1
        <4>1. 1 \in 1 .. Limits /\ i = After(s, 1 - 1) + 1
          BY <2>2, <3>1 DEF After
        <4> QED BY <4>1
      <3>2. CASE NumServers # 1 /\ i > s
        <4>1. i - s \in 1 .. Limits /\ i = After(s, (i - s) - 1) + 1
          BY <3>2 DEF After, Limits
        <4> QED BY <4>1
      <3>3. CASE NumServers # 1 /\ i <= s
        <4>1. /\ i - s + NumServers \in 1 .. Limits
              /\ i = After(s, (i - s + NumServers) - 1) + 1
          BY <3>3 DEF After, Limits
        <4> QED BY <4>1
      <3> QED BY <3>1, <3>2, <3>3
    <2>7. \A k \in 1 .. Limits : \E i \in 1 .. NumServers : tried[t][k] = ServerList[i]
      BY <2>4, <2>5
    <2>8. \A i \in 1 .. NumServers : \E k \in 1 .. Limits : tried[t][k] = ServerList[i]
      BY <2>4, <2>6
    <2>9. Len(ServerList) = NumServers
      OBVIOUS
    <2> QED BY ONLY <2>1, <2>3, <2>7, <2>8, <2>9, SameElements
  <1> QED BY <1>1, ConnectorInvariant, PTL

-----------------------------------------------------------------------------
(* get_next_server, called by one thread at a time.                        *)

OneNextCaller == \A t, u \in NextCallers : t = u

\* The j-th server before server p, both counted from 0, for 0 <= j <= NumServers.
Back(p, j) == IF j <= p THEN p - j ELSE p - j + NumServers

\* The server handed out last: the index runs ahead while a call returns.
HandedOut ==
    IF \E t \in Threads : at[t] = "nextReturn" THEN Back(currentIndex, 1) ELSE currentIndex

\* The turns go backwards through the list from there.
Turning ==
    /\ \A t \in Threads : at[t] \in {"nextWrite", "nextReturn"} => t \in NextCallers
    /\ \A t \in Threads : at[t] = "nextWrite" => index[t] = currentIndex
    /\ turns \in Seq(Servers) /\ Len(turns) <= NumServers
    /\ \A j \in 0 .. Len(turns) - 1 :
          turns[Len(turns) - j] = ServerList[Back(HandedOut, j) + 1]

\* How Back undoes NextIndex, and how it composes.
LEMMA BackAndForth ==
    /\ serverList = ServerList =>
          \A p \in 0 .. NumServers - 1 : Back(NextIndex(p), 1) = p
    /\ \A p \in 0 .. NumServers - 1 : Back(p, 0) = p
    /\ \A p \in 0 .. NumServers - 1, j \in 1 .. NumServers - 1 :
          Back(Back(p, 1), j - 1) = Back(p, j)
  <1>1. NumServers \in Nat \ {0}
    BY ServerLists
  <1> QED BY <1>1, NextIndexWraps DEF Back

\* A server handed out becomes the last of the turns kept.
LEMMA TurnAdded ==
    ASSUME ConnectorInv, Turning, serverList = ServerList,
           HandedOut = Back(currentIndex, 1),
           NEW s, s = LastTurns(Append(turns, serverList[currentIndex + 1]))
    PROVE  /\ s \in Seq(Servers) /\ Len(s) <= NumServers
           /\ \A j \in 0 .. Len(s) - 1 : s[Len(s) - j] = ServerList[Back(currentIndex, j) + 1]
  <1> DEFINE x == ServerList[currentIndex + 1]
             n == Len(turns)
             longer == Append(turns, x)
  <1>1. currentIndex \in 0 .. NumServers - 1 /\ Size = NumServers /\ NumServers \in Nat \ {0}
    BY ServerLists DEF ConnectorInv, ConnectorTypeOK, Size
  <1>2. x \in Servers /\ turns \in Seq(Servers) /\ n \in Nat /\ n <= NumServers
    BY <1>1, ServerLists DEF Turning
  <1>3. /\ longer \in Seq(Servers) /\ Len(longer) = n + 1 /\ longer[n + 1] = x
        /\ \A k \in 1 .. n : longer[k] = turns[k]
    <2> HIDE DEF x
    <2> QED BY <1>2
  <1>4. s = IF n + 1 > NumServers THEN Tail(longer) ELSE longer
    BY <1>1, <1>3 DEF LastTurns
  <1> HIDE DEF x, longer
  <1>5. /\ s \in Seq(Servers) /\ Len(s) = IF n + 1 > NumServers THEN n ELSE n + 1
        /\ Len(s) <= NumServers
        /\ \A j \in 0 .. Len(s) - 1 : s[Len(s) - j] = longer[n + 1 - j]
    <2>1. CASE n + 1 > NumServers
      <3>1. s = Tail(longer) /\ longer # <<>>
        BY <1>3, <1>4, <1>2, <2>1
      <3>2. s \in Seq(Servers) /\ Len(s) = n /\ \A k \in 1 .. n : s[k] = longer[k + 1]
        BY <1>2, <1>3, <3>1
      <3> QED BY <1>2, <2>1, <3>2
    <2>2. CASE ~(n + 1 > NumServers)
      BY <1>1, <1>2, <1>3, <1>4, <2>2
    <2> QED BY <2>1, <2>2
  <1>6. ASSUME NEW j \in 0 .. Len(s) - 1
        PROVE  longer[n + 1 - j] = ServerList[Back(currentIndex, j) + 1]
    <2>1. CASE j = 0
      <3>1. Back(currentIndex, 0) = currentIndex
        BY <1>1, BackAndForth
      <3> QED BY <1>2, <1>3, <2>1, <3>1 DEF x
    <2>2. CASE j # 0
      <3>1. j - 1 \in 0 .. n - 1 /\ j \in 1 .. NumServers - 1
        BY <1>1, <1>2, <1>5, <2>2
      <3>2. turns[n - (j - 1)] = ServerList[Back(HandedOut, j - 1) + 1]
        BY <3>1 DEF Turning
      <3>3. Back(HandedOut, j - 1) = Back(currentIndex, j)
        BY <1>1, <3>1, BackAndForth
      <3>4. n + 1 - j \in 1 .. n /\ n - (j - 1) = n + 1 - j
        BY <1>2, <3>1
      <3> QED BY <1>3, <3>2, <3>3, <3>4
    <2> QED BY <2>1, <2>2
  <1> QED BY <1>5, <1>6

LEMMA TurningInvariant == OneNextCaller /\ ConnectorSpec => []Turning
  <1> SUFFICES ASSUME OneNextCaller PROVE ConnectorSpec => []Turning
    OBVIOUS
  <1>1. ConnectorInit => Turning
    BY ServerLists DEF ConnectorInit, Turning
  <1>2. ASSUME ConnectorInv, ConnectorInv', Turning,
               [ConnectorNext]_connectorVars
        PROVE  Turning'
    <2> USE <1>2 DEF Turning
    <2>1. ASSUME UNCHANGED <<currentIndex, turns>>,
                 \A t \in Threads :
                    \/ at'[t] = at[t] /\ index'[t] = index[t]
                    \/ at[t] \notin {"nextWrite", "nextReturn"}
                       /\ at'[t] \notin {"nextWrite", "nextReturn"}
          PROVE  Turning'
      <3>1. HandedOut' = HandedOut
        BY <2>1 DEF HandedOut
      <3>2. \A t \in Threads : at'[t] \in {"nextWrite", "nextReturn"} =>
               at'[t] = at[t] /\ index'[t] = index[t]
        BY <2>1
      <3> QED BY <2>1, <3>1, <3>2
    <2>2. ASSUME phase # "ready" PROVE Turning'
      <3>1. turns' = <<>> /\ \A t \in Threads : at'[t] = "idle"
        <4>1. turns = <<>> /\ \A t \in Threads : at[t] = "idle"
          BY <2>2 DEF ConnectorInv, Lived
        <4>2. CASE phase' # "ready"
          BY <4>2 DEF ConnectorInv, Lived
        <4>3. CASE phase' = "ready"
          <5>1. \A t \in Threads : (~CallStep(t) /\ ~Start(t)) \/ AuthStep(t)
            BY <4>1, <2>2 DEF CallStep, Start, TokenInjected, TokenRaises, TrySucceeds,
               TryFails, RaiseExhausted, Exhausted, NextWrite, NextReturn, ReqApi,
               ReqApiWithToken, NextRead, MayUse
          <5>2. \A list \in {<<>>, ServerList} : ~Construct(list)
            BY <4>3 DEF Construct
          <5>3. UNCHANGED <<calls, turns>>
            BY <2>2, <4>3, <5>1, <5>2
               DEF ConnectorNext, Constructor, Fetch, FetchRaises, FetchFails,
                   RaiseEmptyList, StartLogin, LoginReturns, LoginFailed, AuthStep,
                   ConnectorTick, connectorVars
          <5> QED BY <4>1, <5>3 DEF calls
        <4> QED BY <4>2, <4>3
      <3> QED BY ServerLists, <3>1
    <2>3. ASSUME phase = "ready", NEW t \in Threads, CallStep(t) \/ Start(t)
          PROVE  Turning'
      <3>1. /\ serverList = ServerList /\ Size = NumServers
            /\ at \in [Threads -> {"idle", "token", "try", "nextWrite", "nextReturn"}]
            /\ index \in [Threads -> 0 .. NumServers - 1]
            /\ currentIndex \in 0 .. NumServers - 1
        BY <2>3, ServerLists DEF ConnectorInv, ConnectorTypeOK, Lived, Size
      <3>2. \A u \in Threads : u # t => at'[u] = at[u] /\ index'[u] = index[u]
        BY <2>3, <3>1 DEF CallStep, Start, AuthStep, TokenInjected, TokenRaises,
           TrySucceeds, TryFails, RaiseExhausted, NextWrite, NextReturn, ReqApi,
           ReqApiWithToken, NextRead, calls, EndCall, Proceed, StartTries
      <3>3. CASE NextRead(t)
        <4>1. /\ t \in NextCallers /\ at[t] = "idle" /\ at'[t] = "nextWrite"
              /\ index'[t] = currentIndex /\ UNCHANGED <<currentIndex, turns>>
          BY <3>1, <3>3 DEF NextRead, MayUse, Proceed, object
        <4>2. \A u \in Threads : at[u] # "nextReturn" /\ at'[u] # "nextReturn"
          BY <3>2, <4>1 DEF OneNextCaller
        <4>3. HandedOut' = HandedOut
          BY <4>1, <4>2 DEF HandedOut
        <4> QED BY <3>2, <4>1, <4>3
      <3>4. CASE NextWrite(t)
        <4>1. /\ at[t] = "nextWrite" /\ at'[t] = "nextReturn" /\ turns' = turns
              /\ currentIndex' = NextIndex(currentIndex)
          BY <3>1, <3>4 DEF NextWrite, Proceed
        <4>2. t \in NextCallers
          BY <4>1
        <4>3. \A u \in Threads : u # t => at[u] \notin {"nextWrite", "nextReturn"}
          BY <4>2 DEF OneNextCaller
        <4>4. HandedOut = currentIndex /\ HandedOut' = Back(currentIndex', 1)
          BY <4>1, <4>3 DEF HandedOut
        <4>5. HandedOut' = HandedOut
          BY <3>1, <4>1, <4>4, BackAndForth
        <4> QED BY <3>2, <4>1, <4>2, <4>3, <4>5
      <3>5. CASE NextReturn(t)
        <4>1. /\ at[t] = "nextReturn" /\ at'[t] = "idle"
              /\ currentIndex' = currentIndex
              /\ turns' = LastTurns(Append(turns, serverList[currentIndex + 1]))
          BY <3>1, <3>5 DEF NextReturn, EndCall, Proceed, object
        <4>2. t \in NextCallers
          BY <4>1
        <4>3. \A u \in Threads : u # t => at[u] \notin {"nextWrite", "nextReturn"}
          BY <4>2 DEF OneNextCaller
        <4>4. HandedOut = Back(currentIndex, 1) /\ HandedOut' = currentIndex
          BY <3>2, <4>1, <4>3 DEF HandedOut
        <4>5. /\ turns' \in Seq(Servers) /\ Len(turns') <= NumServers
              /\ \A j \in 0 .. Len(turns') - 1 :
                    turns'[Len(turns') - j] = ServerList[Back(currentIndex, j) + 1]
          BY <3>1, <4>1, <4>4, TurnAdded
        <4>6. \A j \in 0 .. Len(turns') - 1 :
                 turns'[Len(turns') - j] = ServerList[Back(HandedOut', j) + 1]
          BY <4>4, <4>5
        <4>7. \A u \in Threads : at'[u] \notin {"nextWrite", "nextReturn"}
          BY <3>2, <4>1, <4>3
        <4> QED BY <4>5, <4>6, <4>7
      <3>6. CASE ~NextRead(t) /\ ~NextWrite(t) /\ ~NextReturn(t)
        <4>1. UNCHANGED <<currentIndex, turns>>
          BY <2>3, <3>6 DEF CallStep, Start, AuthStep, TokenInjected, TokenRaises,
             TrySucceeds, TryFails, RaiseExhausted, ReqApi, ReqApiWithToken, object
        <4>2. \/ at'[t] = at[t] /\ index'[t] = index[t]
              \/ /\ at[t] \notin {"nextWrite", "nextReturn"}
                 /\ at'[t] \notin {"nextWrite", "nextReturn"}
          BY <2>3, <3>1, <3>6 DEF CallStep, Start, AuthStep, TokenInjected,
             TokenRaises, TrySucceeds, TryFails, RaiseExhausted, Exhausted, ReqApi,
             ReqApiWithToken, calls, EndCall, Proceed, StartTries, MayUse
        <4> QED BY <2>1, <3>2, <4>1, <4>2
      <3> QED BY <3>3, <3>4, <3>5, <3>6
    <2>4. CASE ConnectorTick \/ UNCHANGED connectorVars
      BY <2>1, <2>4 DEF ConnectorTick, connectorVars, calls, object
    <2>5. ASSUME phase = "ready" PROVE ~Constructor
      BY <2>5 DEF Constructor, Fetch, FetchRaises, FetchFails, RaiseEmptyList,
         StartLogin, LoginReturns, LoginFailed
    <2>6. ASSUME phase = "ready", NEW list PROVE ~Construct(list)
      BY <2>6 DEF Construct
    <2> QED BY <2>2, <2>3, <2>4, <2>5, <2>6 DEF ConnectorNext
  <1> QED BY <1>1, <1>2, ConnectorInvariant, PTL DEF ConnectorSpec

\* RotationCovers, for every length of the list: as many calls as there are
\* servers hand out all of them, when one thread calls get_next_server.
THEOREM OneCallerRotationCovers == OneNextCaller /\ ConnectorSpec => []RotationCovers
  <1>1. ConnectorInv /\ Turning => RotationCovers
    <2> SUFFICES ASSUME ConnectorInv, Turning, Len(turns) = Size
                 PROVE  SetOf(turns) = SetOf(serverList)
      BY DEF RotationCovers
    <2> USE ServerLists
    <2>1. CASE phase # "ready" \* nothing was handed out
      <3>1. turns = <<>> /\ serverList \in {<<>>, ServerList}
        BY <2>1 DEF ConnectorInv, ConnectorTypeOK, Lived
      <3>2. serverList = <<>>
        BY <3>1 DEF Size
      <3> QED BY <3>1, <3>2
    <2>2. CASE phase = "ready"
      <3>1. /\ serverList = ServerList /\ Len(turns) = NumServers
            /\ currentIndex \in 0 .. NumServers - 1
        BY <2>2 DEF ConnectorInv, ConnectorTypeOK, Lived, Size
      <3>2. HandedOut \in 0 .. NumServers - 1
        BY <3>1 DEF HandedOut, Back
      <3>3. DOMAIN turns = 1 .. Len(turns) /\ DOMAIN ServerList = 1 .. Len(ServerList)
        <4> HIDE DEF Servers
        <4> QED BY DEF Turning
      <3>4. \A j \in 0 .. NumServers - 1 :
               turns[NumServers - j] = ServerList[Back(HandedOut, j) + 1]
        BY <3>1 DEF Turning
      <3> DEFINE p == HandedOut
      <3> HIDE DEF p
      <3>5. ASSUME NEW k \in 1 .. NumServers
            PROVE  \E i \in 1 .. NumServers : turns[k] = ServerList[i]
        <4>1. /\ NumServers - k \in 0 .. NumServers - 1
              /\ NumServers - (NumServers - k) = k
          OBVIOUS
        <4>2. Back(HandedOut, NumServers - k) + 1 \in 1 .. NumServers
          BY <3>2, <4>1 DEF Back
        <4> QED BY <3>4, <4>1, <4>2
      <3>6. ASSUME NEW i \in 1 .. NumServers
            PROVE  \E k \in 1 .. NumServers : turns[k] = ServerList[i]
        <4>1. PICK j \in 0 .. NumServers - 1 : Back(HandedOut, j) + 1 = i
          <5>1. CASE i - 1 <= HandedOut
            <6>1. /\ HandedOut - (i - 1) \in 0 .. NumServers - 1
                  /\ Back(HandedOut, HandedOut - (i - 1)) + 1 = i
              BY <3>2, <5>1 DEF Back
            <6> QED BY <6>1
          <5>2. CASE i - 1 > HandedOut
            <6>1. /\ HandedOut - (i - 1) + NumServers \in 0 .. NumServers - 1
                  /\ Back(HandedOut, HandedOut - (i - 1) + NumServers) + 1 = i
              BY <3>2, <5>2 DEF Back
            <6> QED BY <6>1
          <5> QED BY <3>2, <5>1, <5>2
        <4>2. NumServers - j \in 1 .. NumServers
          OBVIOUS
        <4> QED BY <3>4, <4>1, <4>2
      <3>7. Len(ServerList) = NumServers
        BY ServerLists
      <3>8. /\ \A k \in 1 .. Len(turns) : \E i \in 1 .. Len(ServerList) : turns[k] = ServerList[i]
            /\ \A i \in 1 .. Len(ServerList) : \E k \in 1 .. Len(turns) : turns[k] = ServerList[i]
        BY ONLY <3>1, <3>5, <3>6, <3>7
      <3>9. SetOf(turns) = SetOf(ServerList)
        BY ONLY <3>3, <3>8, SameElements, Zenon
      <3> QED BY <3>1, <3>9
    <2> QED BY <2>1, <2>2
  <1> QED BY <1>1, ConnectorInvariant, TurningInvariant, PTL

-----------------------------------------------------------------------------
(* The connector implements AuthClient.                                    *)

\* ImplementsAuthClient: every step of the connector is one that AuthClient
\* allows or leaves it alone; the guards of MayCall come from the life of the
\* object.
THEOREM ConnectorImplementsAuthClient == ConnectorSpec => ImplementsAuthClient
  <1>1. ConnectorInit => Init
    BY DEF ConnectorInit
  <1>2. ConnectorInv /\ [ConnectorNext]_connectorVars => [Next]_vars
    <2> SUFFICES ASSUME ConnectorInv, [ConnectorNext]_connectorVars, ~UNCHANGED vars
                 PROVE  Next
      OBVIOUS
    <2>1. built <=> phase = "ready"
      BY DEF ConnectorInv, Lived
    <2>2. CASE Constructor
      <3>1. LoginReturns \/ LoginFailed => Step(Main)
        BY DEF LoginReturns, LoginFailed, AuthRaises, Step
      <3>2. StartLogin => Call(Main, TRUE)
        BY <2>1 DEF StartLogin, Call, MayCall
      <3> QED BY <2>2, <3>1, <3>2, ThreadsAssumption
              DEF Constructor, Fetch, FetchRaises, FetchFails, RaiseEmptyList, Next
    <2>3. ASSUME NEW t \in Threads, CallStep(t) PROVE Next
      <3>1. AuthStep(t) \/ TokenInjected(t) \/ TokenRaises(t) => Step(t)
        BY DEF AuthStep, TokenInjected, TokenRaises, AuthRaises, Step
      <3> QED BY <2>3, <3>1
              DEF CallStep, TrySucceeds, TryFails, RaiseExhausted, NextWrite,
                  NextReturn, Next
    <2>4. ASSUME NEW t \in Threads, Start(t) PROVE Next
      <3>1. ReqApiWithToken(t) => Call(t, FALSE)
        BY <2>1 DEF ReqApiWithToken, MayUse, Call, MayCall
      <3> QED BY <2>4, <3>1 DEF Start, ReqApi, NextRead, Next
    <2> QED BY <2>2, <2>3, <2>4
            DEF ConnectorNext, Construct, ConnectorTick, Next, connectorVars
  <1> QED BY <1>1, <1>2, ConnectorInvariant, PTL
          DEF ConnectorSpec, Spec, ImplementsAuthClient

\* NeverComparesNone of the composed system: however req_api is called, its
\* token is never asked for before the constructor's login has stored a time.
THEOREM ConnectorNeverComparesNone == ConnectorSpec => []NeverComparesNone
  BY ConnectorImplementsAuthClient, NeverComparesNoneHolds, PTL
     DEF ImplementsAuthClient
=============================================================================
