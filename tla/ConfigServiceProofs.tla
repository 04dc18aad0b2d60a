------------------------- MODULE ConfigServiceProofs -------------------------
(***************************************************************************)
(* Proofs about Limiter and ConfigService, for any threads, keys, rate,    *)
(* worlds and bounds.                                                      *)
(*                                                                         *)
(* The limiter keeps the rate of every key.  RateHolds says nothing of the *)
(* limiter that counts the calls of a key; the invariant says that it is   *)
(* the one stored, that no other key has it, and that a thread about to    *)
(* store one holds mux, found the key absent and brings a limiter nobody   *)
(* has used.                                                               *)
(*                                                                         *)
(* The service's users and loop call is_limited as Limiter allows, so that *)
(* this holds of them.  Listeners and readers never see content go back.   *)
(* The invariant for it has two parts.  The lists: what a listener was     *)
(* told is at most what its entry holds, and that, like the newest that    *)
(* anyone was told or got, at most what the server has, which never takes  *)
(* a version back.  The threads: content in hand was the server's, may be  *)
(* overtaken while in hand, and is still not older than what the entry     *)
(* holds, for the loop, or what was told or got when get_config began, for *)
(* a user.                                                                 *)
(***************************************************************************)
EXTENDS ConfigService, TLAPS, SequenceTheorems, FiniteSetTheorems

-----------------------------------------------------------------------------
(* The limiter.                                                            *)

Inside == {"lookUp", "make", "store", "allow"}

\* What threads are allowed to be inside the with block.
Mutex == \A t \in Threads : pc[t] \in Inside => mux = t

\* Calls of a key are counted by the limiter stored for it.
Counted ==
    \A k \in Keys :
        IF contents[k] = NoLimiter
        THEN admitted[k] = 0
        ELSE contents[k] <= made /\ admitted[k] = spent[contents[k]]

\* No two keys share a limiter.
Unshared ==
    \A k, j \in Keys :
        contents[k] = contents[j] /\ contents[k] # NoLimiter => k = j

\* A limiter that was not made has admitted nothing.
Unused == \A l \in Limiters : l > made => spent[l] = 0

\* A thread that makes and stores a limiter brings a new one to a key without.
Bringing ==
    \A t \in Threads :
        /\ pc[t] \in {"make", "store"} => contents[key[t]] = NoLimiter
        /\ pc[t] = "store" => /\ limiter[t] \in Limiters
                              /\ limiter[t] <= made
                              /\ spent[limiter[t]] = 0
                              /\ \A k \in Keys : contents[k] # limiter[t]

\* A thread asks the limiter stored for its key.
Asking ==
    \A t \in Threads :
        pc[t] = "allow" => limiter[t] \in Limiters /\ contents[key[t]] = limiter[t]

LimiterInv == TypeOK /\ Mutex /\ Counted /\ Unshared /\ Unused /\ Bringing /\ Asking

LEMMA InitLimiter == Init => LimiterInv
  <1> SUFFICES ASSUME Init PROVE LimiterInv
    OBVIOUS
  <1> USE LimiterAssumption DEF Init
  <1>1. contents = [k \in Keys |-> NoLimiter]
    BY DEF Cache!Init
  <1>2. TypeOK
    BY <1>1 DEF TypeOK
  <1> QED BY <1>1, <1>2 DEF LimiterInv, Mutex, Counted, Unshared, Unused, Bringing,
                            Asking, Inside

\* Every step keeps the invariant.
LEMMA NextLimiter == LimiterInv /\ [Next]_vars => LimiterInv'
  <1> SUFFICES ASSUME LimiterInv, [Next]_vars PROVE LimiterInv'
    OBVIOUS
  <1> USE LimiterAssumption, NoThreadAssumption
      DEF LimiterInv, TypeOK, Mutex, Counted, Unshared, Unused, Bringing, Asking,
          Inside, Goto
  <1>1. ASSUME NEW t \in Threads, NEW k \in Keys, Call(t, k) PROVE LimiterInv'
    BY <1>1 DEF Call
  <1>2. ASSUME NEW t \in Threads, Acquire(t) PROVE LimiterInv'
    BY <1>2 DEF Acquire, MuxIsFree
  <1>3. ASSUME NEW t \in Threads, LookUp(t) PROVE LimiterInv'
    <2>1. contents' = contents
      BY <1>3 DEF LookUp, Cache!Get, Cache!Do
    <2> QED BY <1>3, <2>1 DEF LookUp
  <1>4. ASSUME NEW t \in Threads, Make(t) PROVE LimiterInv'
    <2> USE <1>4 DEF Make
    <2>1. TypeOK' /\ Mutex' /\ Unshared' /\ Unused'
      OBVIOUS
    <2>2. Counted'
      <3> SUFFICES ASSUME NEW k \in Keys, contents[k] # NoLimiter
                   PROVE  contents[k] <= made + 1
        OBVIOUS
      <3>1. contents[k] \in Nat
        BY contents[k] \in Limiters
      <3>2. contents[k] <= made
        OBVIOUS
      <3> QED BY <3>1, <3>2
    <2>3. \A k \in Keys : contents[k] # made + 1
      <3> SUFFICES ASSUME NEW k \in Keys PROVE contents[k] # made + 1
        OBVIOUS
      <3>1. contents[k] = NoLimiter \/ contents[k] <= made
        OBVIOUS
      <3> QED BY <3>1
    <2>4. spent[made + 1] = 0
      OBVIOUS
    <2>5. Asking'
      OBVIOUS
    <2>6. contents[key[t]] = NoLimiter
      OBVIOUS
    <2>7. \A u \in Threads : u # t => pc[u] \notin Inside
      OBVIOUS
    <2>8. Bringing'
      BY <2>3, <2>4, <2>6, <2>7
    <2> QED BY <2>1, <2>2, <2>5, <2>8
  <1>5. ASSUME NEW t \in Threads, Store(t) PROVE LimiterInv'
    <2>1. contents' = [contents EXCEPT ![key[t]] = limiter[t]]
      BY <1>5 DEF Store, Cache!Set, Cache!Do
    <2>2. TypeOK'
      BY <1>5, <2>1 DEF Store
    <2>3. Mutex' /\ Unused'
      BY <1>5 DEF Store
    <2>4. Counted'
      BY <1>5, <2>1 DEF Store
    <2>5. Unshared'
      BY <1>5, <2>1 DEF Store
    <2>6. Bringing' /\ Asking'
      BY <1>5, <2>1 DEF Store
    <2> QED BY <2>2, <2>3, <2>4, <2>5, <2>6
  <1>6. ASSUME NEW t \in Threads, Admit(t) PROVE LimiterInv'
    <2> USE <1>6 DEF Admit, Leave, WithinRate
    <2>1. TypeOK' /\ Mutex' /\ Unshared'
      OBVIOUS
    <2>2. Counted'
      OBVIOUS
    <2>3. Unused'
      OBVIOUS
    <2>4. Bringing' /\ Asking'
      OBVIOUS
    <2> QED BY <2>1, <2>2, <2>3, <2>4
  <1>7. ASSUME NEW t \in Threads, Leave(t),
               UNCHANGED <<contents, returned, key, spent, made, admitted>>,
               pc[t] = "allow"
        PROVE  LimiterInv'
    BY <1>7 DEF Leave
  <1>8. CASE NewPeriod
    BY <1>8 DEF NewPeriod
  <1>9. CASE UNCHANGED vars
    BY <1>9 DEF vars
  <1> QED BY <1>1, <1>2, <1>3, <1>4, <1>5, <1>6, <1>7, <1>8, <1>9
          DEF Next, Step, Refuse, Raise

LEMMA LimiterInvHolds == Spec => []LimiterInv
  BY InitLimiter, NextLimiter, PTL DEF Spec

\* Types are an invariant, for any threads, keys and limiters.
THEOREM TypeCorrect == Spec => []TypeOK
  BY LimiterInvHolds, PTL DEF LimiterInv

\* No period admits more than Calls calls of a key, whatever the number of
\* threads that are inside is_limited for it.
THEOREM RateHoldsAlways == Spec => []RateHolds
  <1>1. LimiterInv => RateHolds
    <2> SUFFICES ASSUME LimiterInv, NEW k \in Keys PROVE admitted[k] <= Calls
      BY DEF RateHolds
    <2> USE LimiterAssumption DEF LimiterInv, TypeOK, Counted
    <2>1. CASE contents[k] = NoLimiter
      BY <2>1
    <2>2. CASE contents[k] \in Limiters
      <3>1. spent[contents[k]] \in 0 .. Calls
        BY <2>2
      <3> QED BY <2>2, <3>1
    <2> QED BY <2>1, <2>2
  <1> QED BY <1>1, LimiterInvHolds, PTL

-----------------------------------------------------------------------------
(* The service as a user of the limiter.                                   *)

\* The step of the service seen as a step of the limiter.
LEMMA StepsLimiter == [ServiceNext]_allVars => [Next]_vars
  <1> SUFFICES ASSUME [ServiceNext]_allVars PROVE [Next]_vars
    OBVIOUS
  <1>q. ASSUME QueryOnly PROVE [Next]_vars
    BY <1>q DEF QueryOnly, limiterVars
  <1>l. ASSUME ListenerKeeps PROVE [Next]_vars
    BY <1>l DEF ListenerKeeps, limiterVars
  <1>o. ASSUME ListenerOnly PROVE [Next]_vars
    BY <1>l, <1>o, Zenon DEF ListenerOnly
  <1>a. ASSUME NEW t \in Threads, QueryStep(t) PROVE [Next]_vars
    BY <1>a, <1>q, Zenon DEF QueryStep, AnsweredWith, AnsweredWithError, Unanswered
  <1>1. ASSUME NEW t \in Threads, LimitedStep(t) PROVE [Next]_vars
    BY <1>1 DEF LimitedStep, Next, Step
  <1>2. ASSUME NEW t \in Users, UserStep(t) PROVE [Next]_vars
    <2> t \in Threads
      BY DEF Users
    <2>1. ASSUME NEW k \in Keys, GetConfig(t, k) PROVE [Next]_vars
      BY <2>1 DEF GetConfig, Asks, Next
    <2>2. ASSUME NEW k \in Keys, AddListener(t, k) \/ RemoveListener(t, k)
                     \/ PublishConfig(t, k) \/ RemoveConfig(t, k)
          PROVE [Next]_vars
      BY <2>2 DEF AddListener, RemoveListener, PublishConfig, RemoveConfig, limiterVars
    <2>3. ASSUME GetConfigFallsBack(t) PROVE [Next]_vars
      BY <2>3, <1>q, Zenon DEF GetConfigFallsBack
    <2>4. ASSUME GetConfigReturns(t) \/ Insert(t) PROVE [Next]_vars
      BY <2>4 DEF GetConfigReturns, Insert, limiterVars
    <2> QED BY <1>2, <1>a, <2>1, <2>2, <2>3, <2>4, Zenon DEF UserStep
  <1>3. CASE PeriodBegins
    BY <1>3 DEF PeriodBegins, Next
  <1>4. CASE AllSyncDue
    BY <1>4 DEF AllSyncDue, limiterVars
  <1>5. CASE Wake
    BY <1>5, <1>o, Zenon DEF Wake
  <1>6. CASE LoopStep
    <2>1. ASSUME NEW k \in Keys, Refresh(k) PROVE [Next]_vars
      <3>1. UNCHANGED limiterVars \/ Call(Listener, k)
        BY <2>1, Zenon DEF Refresh, Asks
      <3> QED BY <3>1, ServiceAssumption DEF limiterVars, Next
    <2>2. ASSUME NEW i \in Listed, BuildListenTask(i) \/ Mark(i) PROVE [Next]_vars
      BY <2>2, <1>l, <1>o, Zenon DEF BuildListenTask, Mark
    <2>3. ASSUME NEW n \in 0 .. MaxEntries, SendListenRequest(n) PROVE [Next]_vars
      BY <2>3, <1>o, Zenon DEF SendListenRequest
    <2>4. ASSUME Built \/ RoundEnds \/ ListenRequestFails \/ ListenRequestAnswered
                     \/ QuerySucceeds \/ QueryFails \/ Refreshed \/ Marked
          PROVE [Next]_vars
      BY <2>4, <1>l, <1>o, Zenon DEF Built, RoundEnds, ListenRequestFails,
         ListenRequestAnswered, QuerySucceeds, QueryFails, Refreshed, Marked
    <2> Listener \in Threads
      BY ServiceAssumption
    <2> QED BY <1>6, <1>a, <2>1, <2>2, <2>3, <2>4, Zenon DEF LoopStep
  <1>7. CASE UNCHANGED allVars
    BY <1>7 DEF allVars, limiterVars
  <1> QED BY <1>1, <1>2, <1>3, <1>4, <1>5, <1>6, <1>7, Zenon DEF ServiceNext

\* Whatever the users and the loop of ConfigService do, they use the limiter as
\* Limiter says.
THEOREM ServiceImplementsLimiter == ServiceSpec => Spec
  <1>1. ServiceInit => Init
    BY DEF ServiceInit
  <1> QED BY <1>1, StepsLimiter, PTL DEF ServiceSpec, Spec

\* No configuration is queried more than Calls times in a period, by the users
\* and the listening loop together.
THEOREM ServiceKeepsRate == ServiceSpec => []RateHolds
  BY ServiceImplementsLimiter, RateHoldsAlways, PTL

-----------------------------------------------------------------------------
(* Versions: the lists that all threads share.                             *)

CacheDatas ==
    [key : Keys, content : Nat, told : Nat, synced : BOOLEAN, task : Nat]

ListsTyped ==
    /\ server \in [Keys -> Nat]
    /\ cacheData \in Seq(CacheDatas)
    /\ cacheMap \in [Keys -> 0 .. Len(cacheData)]
    /\ building \in [Users -> CacheDatas]
    /\ seen \in [Keys -> Nat]

\* An entry is ordered under the server's versions.
Ordered(d, versions) == d.told <= d.content /\ d.content <= versions[d.key]

\* The order of the places that hold a version, for each entry, each entry that
\* is about to be stored, and the newest that was told or got.
ListsOrdered ==
    /\ \A k \in Keys : server[k] >= 1 /\ seen[k] <= server[k]
    /\ \A i \in DOMAIN cacheData : Ordered(cacheData[i], server)
    /\ \A t \in Users : Ordered(building[t], server)

\* cache_map has each entry under its own key.
Mapped == \A k \in Keys : cacheMap[k] # 0 => cacheData[cacheMap[k]].key = k

ListsInv == ListsTyped /\ ListsOrdered /\ Mapped

\* What a step does besides keeping the invariant: no place goes back.
Grows ==
    /\ \A k \in Keys : server'[k] >= server[k] /\ seen'[k] >= seen[k]
    /\ \A i \in DOMAIN cacheData :
          /\ i \in DOMAIN cacheData'
          /\ cacheData'[i].key = cacheData[i].key
          /\ cacheData'[i].told >= cacheData[i].told

\* Only an answer to the loop changes what an entry holds.
ContentKept == \A i \in DOMAIN cacheData : cacheData'[i].content = cacheData[i].content

ListsForward == ListsInv' /\ Grows

listVars == <<server, cacheData, cacheMap, building, seen>>

LEMMA InitLists == ServiceInit => ListsInv
  <1> SUFFICES ASSUME ServiceInit PROVE ListsInv
    OBVIOUS
  <1>1. NoData \in CacheDatas /\ NoData.key \in Keys /\ NoData.content = 0 /\ NoData.told = 0
    <2>1. NoData.key \in Keys
      BY ServiceAssumption DEF ServiceInit, Init, NoData
    <2> QED BY <2>1 DEF NoData, CacheDatas
  <1>2. cacheData \in Seq(CacheDatas) /\ Len(cacheData) = 0 /\ DOMAIN cacheData = {}
    BY DEF ServiceInit
  <1>3. ListsTyped
    BY <1>1, <1>2 DEF ServiceInit, ListsTyped, Unheard
  <1>4. \A t \in Users : building[t] = NoData
    BY DEF ServiceInit
  <1>5. \A k \in Keys : server[k] = 1 /\ seen[k] = 0 /\ cacheMap[k] = 0
    BY DEF ServiceInit, Unheard
  <1>6. \A t \in Users : Ordered(building[t], server)
    BY <1>1, <1>4, <1>5 DEF Ordered
  <1>7. ListsOrdered
    BY <1>2, <1>5, <1>6 DEF ListsOrdered
  <1> QED BY <1>3, <1>5, <1>7 DEF ListsInv, Mapped

LEMMA Entries ==
  ASSUME ListsInv, NEW i \in DOMAIN cacheData
  PROVE  /\ cacheData[i] \in CacheDatas
         /\ cacheData[i].key \in Keys
         /\ cacheData[i].content \in Nat
         /\ cacheData[i].told \in Nat
  <1>1. i \in 1 .. Len(cacheData)
    BY LenProperties DEF ListsInv, ListsTyped
  <1>2. cacheData[i] \in CacheDatas
    BY <1>1, ElementOfSeq DEF ListsInv, ListsTyped
  <1> QED BY <1>2 DEF CacheDatas

LEMMA UnchangedForward == ASSUME ListsInv, UNCHANGED listVars PROVE ListsForward
  <1>1. ListsInv'
    BY DEF ListsInv, ListsTyped, ListsOrdered, Mapped, Ordered, listVars
  <1>2. Grows
    BY Entries DEF Grows, listVars, ListsInv, ListsTyped
  <1> QED BY <1>1, <1>2 DEF ListsForward

\* What is told or got of a version that the server has, or had.
LEMMA HeardForward ==
  ASSUME ListsInv, NEW k \in Keys, NEW v \in Nat, v <= server[k], Hears(k, v),
         UNCHANGED server
  PROVE  /\ seen' \in [Keys -> Nat]
         /\ \A j \in Keys : seen'[j] >= seen[j] /\ seen'[j] <= server'[j]
  <1>1. seen \in [Keys -> Nat] /\ server \in [Keys -> Nat]
    BY DEF ListsInv, ListsTyped
  <1>2. \A j \in Keys : seen[j] <= server[j]
    BY DEF ListsInv, ListsOrdered
  <1>3. Newer(seen[k], v) \in Nat /\ Newer(seen[k], v) >= seen[k] /\ Newer(seen[k], v) <= server[k]
    BY <1>1, <1>2 DEF Newer
  <1> QED BY <1>1, <1>2, <1>3 DEF Hears

\* A user gets a version.
LEMMA GotForward ==
  ASSUME ListsInv, UNCHANGED <<server, cacheData, cacheMap, building>>,
         seen' \in [Keys -> Nat],
         \A j \in Keys : seen'[j] >= seen[j] /\ seen'[j] <= server'[j]
  PROVE  ListsForward
  <1>1. ListsInv'
    BY DEF ListsInv, ListsTyped, ListsOrdered, Mapped, Ordered
  <1>2. Grows
    BY Entries DEF Grows, ListsInv, ListsTyped
  <1> QED BY <1>1, <1>2 DEF ListsForward

\* An entry is replaced by one that is no further back.
LEMMA UpdateForward ==
  ASSUME ListsInv, UNCHANGED <<server, cacheMap, building>>,
         seen' \in [Keys -> Nat],
         \A j \in Keys : seen'[j] >= seen[j] /\ seen'[j] <= server'[j],
         NEW e \in DOMAIN cacheData, NEW d \in CacheDatas,
         cacheData' = [cacheData EXCEPT ![e] = d],
         Ordered(d, server), d.key = cacheData[e].key, d.told >= cacheData[e].told
  PROVE  /\ ListsForward
         /\ d.content = cacheData[e].content => ContentKept
  <1>1. e \in 1 .. Len(cacheData)
    BY LenProperties DEF ListsInv, ListsTyped
  <1>2. /\ cacheData' \in Seq(CacheDatas)
        /\ Len(cacheData') = Len(cacheData)
        /\ \A j \in 1 .. Len(cacheData) : cacheData'[j] = IF j = e THEN d ELSE cacheData[j]
    BY <1>1, ExceptSeq DEF ListsInv, ListsTyped
  <1>3. DOMAIN cacheData = 1 .. Len(cacheData) /\ DOMAIN cacheData' = 1 .. Len(cacheData)
    BY <1>2, LenProperties DEF ListsInv, ListsTyped
  <1>4. ListsTyped'
    BY <1>2 DEF ListsInv, ListsTyped
  <1>5. ListsOrdered'
    BY <1>2, <1>3 DEF ListsInv, ListsOrdered, Ordered
  <1>6. \A i \in DOMAIN cacheData : cacheData'[i].key = cacheData[i].key
    BY <1>2, <1>3
  <1>7. Mapped'
    BY <1>3, <1>6 DEF ListsInv, ListsTyped, Mapped
  <1>8. Grows
    BY <1>2, <1>3, <1>6, Entries DEF Grows, ListsInv, ListsTyped
  <1>9. d.content = cacheData[e].content => ContentKept
    BY <1>2, <1>3 DEF ContentKept
  <1> QED BY <1>4, <1>5, <1>7, <1>8, <1>9 DEF ListsForward, ListsInv

\* The steps of users: a new entry, and a new version at the server.
LEMMA AddListenerForward ==
  ASSUME ListsInv, NEW t \in Users, NEW k \in Keys, AddListener(t, k)
  PROVE  ListsForward /\ ContentKept
  <1> DEFINE d == [key |-> k, content |-> 1, told |-> Unheard, synced |-> FALSE,
                   task |-> Cardinality(Listed) \div PerTask]
  <1>1. /\ UNCHANGED <<server, cacheData, cacheMap, seen>>
        /\ building' = [building EXCEPT ![t] = d]
    BY Zenon DEF AddListener, serverVars, readVars
  <1>2. Cardinality(Listed) \in Nat
    <2>1. Listed \subseteq 1 .. Len(cacheData)
      <3> Len(cacheData) \in Nat
        BY LenProperties DEF ListsInv, ListsTyped
      <3> QED BY DEF Listed, ListsInv, ListsTyped
    <2>2. IsFiniteSet(1 .. Len(cacheData))
      BY LenProperties, FS_Interval DEF ListsInv, ListsTyped
    <2> QED BY <2>1, <2>2, FS_Subset, FS_CardinalityType
  <1>3. d \in CacheDatas
    <2> d.task \in Nat
      BY <1>2, ServiceAssumption
    <2> QED BY DEF CacheDatas, Unheard
  <1>4. Ordered(d, server)
    BY DEF Ordered, Unheard, ListsInv, ListsTyped, ListsOrdered
  <1> HIDE DEF d
  <1>5. ListsTyped'
    BY <1>1, <1>3 DEF ListsInv, ListsTyped
  <1>6. ListsOrdered' /\ Mapped'
    BY <1>1, <1>4 DEF ListsInv, ListsTyped, ListsOrdered, Mapped, Ordered
  <1>7. Grows /\ ContentKept
    BY <1>1, Entries DEF Grows, ContentKept, ListsInv, ListsTyped
  <1> QED BY <1>5, <1>6, <1>7 DEF ListsForward, ListsInv

LEMMA InsertForward ==
  ASSUME ListsInv, NEW t \in Users, Insert(t)
  PROVE  ListsForward /\ ContentKept
  <1> DEFINE n == Len(cacheData)
             d == building[t]
  <1>1. /\ server' = server /\ seen' = seen
        /\ cacheData' = Append(cacheData, d)
        /\ cacheMap' = [cacheMap EXCEPT ![d.key] = n + 1]
        /\ building' = [building EXCEPT ![t] = NoData]
    BY DEF Insert, serverVars, readVars
  <1>2. d \in CacheDatas /\ d.key \in Keys /\ Ordered(d, server)
    BY DEF ListsInv, ListsTyped, ListsOrdered, CacheDatas
  <1>3. /\ cacheData' \in Seq(CacheDatas)
        /\ Len(cacheData') = n + 1
        /\ \A i \in 1 .. n : cacheData'[i] = cacheData[i]
        /\ cacheData'[n + 1] = d
        /\ n \in Nat /\ DOMAIN cacheData = 1 .. n /\ DOMAIN cacheData' = 1 .. n + 1
    BY <1>1, <1>2, AppendProperties, LenProperties DEF ListsInv, ListsTyped
  <1>4. NoData \in CacheDatas /\ Ordered(NoData, server)
    <2>1. NoData.key \in Keys
      BY <1>2 DEF NoData
    <2>2. NoData \in CacheDatas /\ NoData.told = 0 /\ NoData.content = 0
      BY <2>1 DEF NoData, CacheDatas
    <2> QED BY <2>1, <2>2 DEF Ordered, ListsInv, ListsOrdered, ListsTyped
  <1>5. ListsTyped'
    <2>1. building' \in [Users -> CacheDatas]
      BY <1>1, <1>4 DEF ListsInv, ListsTyped
    <2>2. cacheMap' \in [Keys -> 0 .. n + 1]
      BY <1>1, <1>2, <1>3 DEF ListsInv, ListsTyped
    <2> QED BY <1>1, <1>3, <2>1, <2>2 DEF ListsInv, ListsTyped
  <1>6. ListsOrdered'
    <2>1. \A i \in DOMAIN cacheData' : Ordered(cacheData'[i], server)
      BY <1>2, <1>3 DEF ListsInv, ListsOrdered
    <2>2. \A u \in Users : Ordered(building'[u], server)
      BY <1>1, <1>4 DEF ListsInv, ListsOrdered, ListsTyped
    <2> QED BY <1>1, <2>1, <2>2 DEF ListsInv, ListsOrdered, Ordered
  <1>7. Mapped'
    BY <1>1, <1>2, <1>3 DEF ListsInv, ListsTyped, Mapped
  <1>8. Grows /\ ContentKept
    BY <1>1, <1>3, Entries DEF Grows, ContentKept, ListsInv, ListsTyped
  <1> QED BY <1>5, <1>6, <1>7, <1>8 DEF ListsForward, ListsInv

LEMMA RemoveListenerForward ==
  ASSUME ListsInv, NEW t \in Users, NEW k \in Keys, RemoveListener(t, k)
  PROVE  ListsForward /\ ContentKept
  <1>1. /\ UNCHANGED <<server, cacheData, building, seen>>
        /\ cacheMap' = [cacheMap EXCEPT ![k] = 0]
    BY DEF RemoveListener, serverVars, readVars
  <1>2. cacheMap' \in [Keys -> 0 .. Len(cacheData)]
    <2> Len(cacheData) \in Nat
      BY LenProperties DEF ListsInv, ListsTyped
    <2> QED BY <1>1 DEF ListsInv, ListsTyped
  <1>3. ListsInv'
    BY <1>1, <1>2 DEF ListsInv, ListsTyped, ListsOrdered, Mapped, Ordered
  <1>4. Grows /\ ContentKept
    BY <1>1, Entries DEF Grows, ContentKept, ListsInv, ListsTyped
  <1> QED BY <1>3, <1>4 DEF ListsForward

LEMMA PublishForward ==
  ASSUME ListsInv, NEW t, NEW k \in Keys, PublishConfig(t, k)
  PROVE  ListsForward /\ ContentKept
  <1>1. /\ server' = [server EXCEPT ![k] = @ + 1]
        /\ UNCHANGED <<cacheData, cacheMap, building, seen>>
    BY DEF PublishConfig, cacheVars, readVars
  <1>2. /\ server' \in [Keys -> Nat]
        /\ \A j \in Keys : server[j] \in Nat /\ server'[j] >= server[j]
    BY <1>1 DEF ListsInv, ListsTyped
  <1>3. ListsTyped'
    BY <1>1, <1>2 DEF ListsInv, ListsTyped
  <1>4. \A d \in CacheDatas : Ordered(d, server) => Ordered(d, server')
    BY <1>2 DEF Ordered, CacheDatas
  <1>5. ListsOrdered'
    <2>1. \A i \in DOMAIN cacheData : Ordered(cacheData[i], server')
      BY <1>4, Entries DEF ListsInv, ListsOrdered
    <2>2. \A u \in Users : Ordered(building[u], server')
      BY <1>4 DEF ListsInv, ListsOrdered, ListsTyped
    <2>3. \A j \in Keys : server'[j] >= 1 /\ seen[j] <= server'[j]
      BY <1>2 DEF ListsInv, ListsOrdered, ListsTyped
    <2> QED BY <1>1, <2>1, <2>2, <2>3 DEF ListsOrdered, Ordered
  <1>6. Mapped'
    BY <1>1 DEF ListsInv, Mapped
  <1>7. Grows /\ ContentKept
    BY <1>1, <1>2, Entries DEF Grows, ContentKept, ListsInv, ListsTyped
  <1> QED BY <1>3, <1>5, <1>6, <1>7 DEF ListsForward, ListsInv

-----------------------------------------------------------------------------
(* Versions: what each thread has in hand.                                 *)

ThreadsTyped ==
    /\ DOMAIN at = Threads
    /\ DOMAIN round = DOMAIN NoRound
    /\ answer \in [Threads -> Nat]
    /\ known \in [Users -> Nat]

\* A thread has content in hand only after a query, of its key, and the server
\* had it.
Holds(t) == answer[t] # NoContent => at[t] = "received" /\ answer[t] <= server[key[t]]

\* What a user's get_config is not to fall behind: until the answer it is some
\* version of its key that was told or got, from then on one the answer reaches.
Reads(t) ==
    /\ at[t] \in {"limit", "query"} => known[t] <= seen[key[t]]
    /\ at[t] = "received" /\ answer[t] # NoContent /\ OnlyServerAnswers(key[t])
          => answer[t] >= known[t]

Querying == at[Listener] \in {"limit", "query", "received"}

\* The loop queries for the entry it found under the key, and the content in
\* its hand is not older than what the entry holds.
Queries ==
    Querying =>
        /\ round.entry \in DOMAIN cacheData
        /\ cacheData[round.entry].key = key[Listener]
        /\ answer[Listener] # NoContent => answer[Listener] >= cacheData[round.entry].content

ThreadsInv ==
    /\ ThreadsTyped
    /\ \A t \in Threads : Holds(t)
    /\ \A t \in Users : Reads(t)
    /\ Queries

VersionsInv == TypeOK /\ ListsInv /\ ThreadsInv

LEMMA InitThreads == ServiceInit => ThreadsInv
  BY ServiceAssumption DEF ServiceInit, ThreadsInv, ThreadsTyped, Holds, Reads, Queries,
     Querying, Unheard, NoContent, Users

LEMMA Turned ==
  ASSUME DOMAIN at = Threads, NEW t \in Threads, NEW from, NEW to, Turn(t, from, to)
  PROVE  /\ DOMAIN at' = Threads
         /\ at[t] = from /\ at'[t] = to
         /\ \A u \in Threads : u # t => at'[u] = at[u]
  BY DEF Turn

\* What a thread has in hand stays good while others go forward.
LEMMA Bystander ==
  ASSUME VersionsInv, ListsForward, UNCHANGED world, NEW t \in Users,
         at'[t] = at[t], key'[t] = key[t], answer'[t] = answer[t], known'[t] = known[t]
  PROVE  Holds(t)' /\ Reads(t)'
  <1>1. t \in Threads /\ key[t] \in Keys
    BY DEF Users, VersionsInv, TypeOK
  <1>2. /\ server[key[t]] \in Nat /\ server'[key[t]] >= server[key[t]]
        /\ seen[key[t]] \in Nat /\ seen'[key[t]] >= seen[key[t]]
        /\ server'[key[t]] \in Nat /\ seen'[key[t]] \in Nat
        /\ answer[t] \in Nat /\ known[t] \in Nat
    BY <1>1 DEF VersionsInv, ListsForward, ListsInv, ListsTyped, ThreadsInv, ThreadsTyped, Grows
  <1>3. OnlyServerAnswers(key[t])' <=> OnlyServerAnswers(key[t])
    BY DEF OnlyServerAnswers, HasSnapshot
  <1>4. Holds(t) /\ Reads(t)
    BY <1>1 DEF VersionsInv, ThreadsInv
  <1>5. Holds(t)'
    BY <1>2, <1>4 DEF Holds, NoContent
  <1>6. Reads(t)'
    BY <1>2, <1>3, <1>4 DEF Reads, NoContent
  <1> QED BY <1>5, <1>6

\* So does the loop's query.
LEMMA LoopBystander ==
  ASSUME VersionsInv, ListsForward, ContentKept,
         at'[Listener] = at[Listener], key'[Listener] = key[Listener],
         answer'[Listener] = answer[Listener], round' = round
  PROVE  Holds(Listener)' /\ Queries'
  <1>1. Listener \in Threads /\ key[Listener] \in Keys
    BY ServiceAssumption DEF VersionsInv, TypeOK
  <1>2. /\ server[key[Listener]] \in Nat /\ server'[key[Listener]] >= server[key[Listener]]
        /\ server'[key[Listener]] \in Nat /\ answer[Listener] \in Nat
    BY <1>1 DEF VersionsInv, ListsForward, ListsInv, ListsTyped, ThreadsInv, ThreadsTyped, Grows
  <1>3. Holds(Listener) /\ Queries
    BY <1>1 DEF VersionsInv, ThreadsInv
  <1>4. Holds(Listener)'
    BY <1>2, <1>3 DEF Holds, NoContent
  <1>5. Queries'
    BY <1>3 DEF Queries, Querying, ListsForward, Grows, ContentKept, NoContent
  <1> QED BY <1>4, <1>5

\* A step of users that touches the lists only.
LEMMA ListStep ==
  ASSUME VersionsInv, ListsForward, ContentKept, DOMAIN at' = Threads,
         \A t \in Threads :
            \/ at'[t] = at[t]
            \/ t \in Users /\ at[t] = "idle" /\ at'[t] = "insert"
            \/ t \in Users /\ at[t] = "insert" /\ at'[t] = "idle",
         UNCHANGED <<world, key, round, answer, known>>
  PROVE  ThreadsInv'
  <1>1. ThreadsTyped'
    BY DEF VersionsInv, ThreadsInv, ThreadsTyped
  <1>2. Holds(Listener)' /\ Queries'
    <2> at'[Listener] = at[Listener]
      BY ServiceAssumption DEF Users
    <2> QED BY LoopBystander
  <1>3. ASSUME NEW t \in Users PROVE Holds(t)' /\ Reads(t)'
    <2> t \in Threads
      BY DEF Users
    <2>1. CASE at'[t] = at[t]
      BY <2>1, Bystander
    <2>2. CASE at'[t] # at[t]
      <3> Holds(t)
        BY DEF VersionsInv, ThreadsInv
      <3> QED BY <2>2 DEF Holds, Reads
    <2> QED BY <2>1, <2>2
  <1> QED BY <1>1, <1>2, <1>3 DEF ThreadsInv, Users

\* A step of one user's get_config; the lists keep their content.
LEMMA UserTurn ==
  ASSUME VersionsInv, ListsForward, ContentKept, UNCHANGED <<world, round>>,
         NEW t \in Users, DOMAIN at' = Threads,
         answer' \in [Threads -> Nat], known' \in [Users -> Nat],
         \A u \in Threads : u # t => /\ at'[u] = at[u] /\ key'[u] = key[u]
                                     /\ answer'[u] = answer[u],
         \A u \in Users : u # t => known'[u] = known[u],
         Holds(t)' /\ Reads(t)'
  PROVE  ThreadsInv'
  <1>1. ThreadsTyped'
    BY DEF VersionsInv, ThreadsInv, ThreadsTyped
  <1>2. Holds(Listener)' /\ Queries'
    BY ServiceAssumption, LoopBystander DEF Users
  <1>3. ASSUME NEW u \in Users, u # t PROVE Holds(u)' /\ Reads(u)'
    BY <1>3, Bystander DEF Users
  <1> QED BY <1>1, <1>2, <1>3 DEF ThreadsInv, Users

\* A step of the loop, from which its query does or does not go on.
LEMMA LoopTurn ==
  ASSUME VersionsInv, ListsForward, UNCHANGED <<world, known>>,
         DOMAIN at' = Threads, DOMAIN round' = DOMAIN NoRound,
         answer' \in [Threads -> Nat],
         \A u \in Users : at'[u] = at[u] /\ key'[u] = key[u] /\ answer'[u] = answer[u],
         Holds(Listener)' /\ Queries'
  PROVE  ThreadsInv'
  <1>1. ThreadsTyped'
    BY DEF VersionsInv, ThreadsInv, ThreadsTyped
  <1>2. ASSUME NEW u \in Users PROVE Holds(u)' /\ Reads(u)'
    BY Bystander
  <1> QED BY <1>1, <1>2 DEF ThreadsInv, Users

\* A step of the loop that leads to no query, with nothing in hand.
LEMMA LoopElsewhere ==
  ASSUME VersionsInv, ListsForward, UNCHANGED <<world, known, key>>,
         DOMAIN at' = Threads, DOMAIN round' = DOMAIN NoRound,
         answer' \in [Threads -> Nat],
         \A u \in Users : at'[u] = at[u] /\ answer'[u] = answer[u],
         at'[Listener] \notin {"limit", "query", "received"}, answer'[Listener] = NoContent
  PROVE  ThreadsInv'
  BY LoopTurn DEF Holds, Queries, Querying

-----------------------------------------------------------------------------
(* The steps.                                                              *)

Forward == ListsForward /\ ThreadsInv'

LEMMA ListsKept ==
  ASSUME VersionsInv, UNCHANGED listVars PROVE ListsForward /\ ContentKept
  BY UnchangedForward DEF VersionsInv, ContentKept, listVars

LEMMA KeysTyped == ASSUME VersionsInv, NEW t \in Threads PROVE key[t] \in Keys
  BY DEF VersionsInv, TypeOK

\* is_limited: the query goes on, or the call ends.
LEMMA LimitedForward ==
  ASSUME VersionsInv, NEW t \in Threads, LimitedStep(t) PROVE Forward
  <1>1. ListsForward /\ ContentKept
    BY ListsKept, Zenon DEF LimitedStep, serverVars, cacheVars, readVars, listVars
  <1>2. UNCHANGED <<world, round, answer, known, key, seen, server>>
    BY DEF LimitedStep, serverVars, readVars, Acquire, LookUp, Make, Store, Admit, Refuse, Raise
  <1>3. /\ DOMAIN at' = Threads /\ \A u \in Threads : u # t => at'[u] = at[u]
        /\ \/ at'[t] = at[t]
           \/ at[t] = "limit" /\ at'[t] \in {"query", "refresh", "fallback", "idle"}
    <2>1. CASE UNCHANGED at
      BY <2>1 DEF VersionsInv, ThreadsInv, ThreadsTyped
    <2>2. ASSUME NEW to \in {"query", "refresh", "fallback", "idle"}, Turn(t, "limit", to)
          PROVE  /\ DOMAIN at' = Threads /\ \A u \in Threads : u # t => at'[u] = at[u]
                 /\ at[t] = "limit" /\ at'[t] \in {"query", "refresh", "fallback", "idle"}
      BY <2>2, Turned DEF VersionsInv, ThreadsInv, ThreadsTyped
    <2> QED BY <2>1, <2>2 DEF LimitedStep
  <1>4. Holds(t)'
    BY <1>2, <1>3 DEF VersionsInv, ThreadsInv, Holds, NoContent
  <1>5. CASE t \in Users
    <2>1. Reads(t)'
      BY <1>1, <1>2, <1>3, <1>5 DEF VersionsInv, ThreadsInv, Reads, NoContent,
         OnlyServerAnswers, HasSnapshot
    <2> QED BY <1>1, <1>2, <1>3, <1>4, <1>5, <2>1, UserTurn
            DEF Forward, VersionsInv, ThreadsInv, ThreadsTyped
  <1>6. CASE t = Listener
    <2>1. Queries'
      BY <1>1, <1>2, <1>3, <1>6 DEF VersionsInv, ThreadsInv, Queries, Querying, NoContent,
         ListsForward, Grows, ContentKept
    <2> QED BY <1>1, <1>2, <1>3, <1>4, <1>6, <2>1, LoopTurn
            DEF Forward, VersionsInv, ThreadsInv, ThreadsTyped, Users
  <1> QED BY <1>5, <1>6 DEF Users

\* An answer is in hand, or none.
LEMMA QueryForward ==
  ASSUME VersionsInv, NEW t \in Threads, QueryStep(t) PROVE Forward
  <1>1. QueryOnly
    BY Zenon DEF QueryStep, AnsweredWith, AnsweredWithError, Unanswered
  <1>2. ListsForward /\ ContentKept
    BY <1>1, ListsKept DEF QueryOnly, serverVars, cacheVars, listVars
  <1>3. UNCHANGED <<world, round, known, key, seen, server>>
    BY <1>1 DEF QueryOnly, limiterVars, vars, serverVars
  <1>4. /\ DOMAIN at' = Threads /\ \A u \in Threads : u # t => at'[u] = at[u]
        /\ at[t] = "query" /\ at'[t] \in {"received", "fallback"}
        /\ at'[t] = "fallback" => answer' = answer
    <2>1. ASSUME NEW to \in {"received", "fallback"}, Turn(t, "query", to)
          PROVE  /\ DOMAIN at' = Threads /\ \A u \in Threads : u # t => at'[u] = at[u]
                 /\ at[t] = "query" /\ at'[t] = to
      BY <2>1, Turned DEF VersionsInv, ThreadsInv, ThreadsTyped
    <2> QED BY <2>1 DEF QueryStep, AnsweredWith, AnsweredWithError, Unanswered
  <1>5. key[t] \in Keys /\ server[key[t]] \in Nat
    BY KeysTyped DEF VersionsInv, ListsInv, ListsTyped
  <1>6. answer[t] = NoContent
    BY <1>4 DEF VersionsInv, ThreadsInv, Holds
  <1>7. /\ answer' \in [Threads -> Nat] /\ \A u \in Threads : u # t => answer'[u] = answer[u]
        /\ \/ answer'[t] = NoContent
           \/ answer'[t] = server[key[t]] /\ at'[t] = "received"
    <2>1. answer \in [Threads -> Nat]
      BY DEF VersionsInv, ThreadsInv, ThreadsTyped
    <2>2. CASE answer' = answer
      BY <1>6, <2>1, <2>2
    <2>3. CASE answer' = [answer EXCEPT ![t] = server[key[t]]] /\ at'[t] = "received"
      BY <1>5, <2>1, <2>3
    <2>4. CASE AnsweredWith(t)
      <3> at'[t] = "received"
        BY <2>4, Turned DEF AnsweredWith, VersionsInv, ThreadsInv, ThreadsTyped
      <3> QED BY <2>3, <2>4 DEF AnsweredWith
    <2> QED BY <2>2, <2>4 DEF QueryStep, AnsweredWithError, Unanswered
  <1>8. Holds(t)'
    BY <1>3, <1>4, <1>5, <1>7 DEF Holds, NoContent
  <1>9. CASE t \in Users
    <2>1. known[t] <= server[key[t]]
      <3>1. known[t] <= seen[key[t]]
        BY <1>4, <1>9 DEF VersionsInv, ThreadsInv, Reads
      <3>2. seen[key[t]] <= server[key[t]] /\ seen[key[t]] \in Nat /\ known[t] \in Nat
        BY <1>5, <1>9 DEF VersionsInv, ListsInv, ListsTyped, ListsOrdered, ThreadsInv, ThreadsTyped
      <3> QED BY <1>5, <3>1, <3>2
    <2>2. Reads(t)'
      BY <1>3, <1>4, <1>7, <2>1 DEF Reads, NoContent
    <2> QED BY <1>2, <1>3, <1>4, <1>7, <1>8, <1>9, <2>2, UserTurn
            DEF Forward, VersionsInv, ThreadsInv, ThreadsTyped
  <1>10. CASE t = Listener
    <2>1. /\ round.entry \in DOMAIN cacheData
          /\ cacheData[round.entry].key = key[t]
      BY <1>4, <1>10 DEF VersionsInv, ThreadsInv, Queries, Querying
    <2>2. server[key[t]] >= cacheData[round.entry].content
      BY <2>1 DEF VersionsInv, ListsInv, ListsOrdered, Ordered
    <2>3. Queries'
      BY <1>2, <1>3, <1>7, <1>10, <2>1, <2>2
         DEF Queries, Querying, NoContent, ListsForward, Grows, ContentKept
    <2> QED BY <1>2, <1>3, <1>4, <1>7, <1>8, <1>10, <2>3, LoopTurn
            DEF Forward, VersionsInv, ThreadsInv, ThreadsTyped, Users
  <1> QED BY <1>9, <1>10 DEF Users

\* get_config begins: what anyone knows of the key is what it may not undercut.
LEMMA GetForward ==
  ASSUME VersionsInv, NEW t \in Users, NEW k \in Keys, GetConfig(t, k) PROVE Forward
  <1>1. ListsForward /\ ContentKept
    BY ListsKept DEF GetConfig, serverVars, cacheVars, listVars
  <1>2. /\ UNCHANGED <<world, round, answer, seen>>
        /\ key' = [key EXCEPT ![t] = k] /\ known' = [known EXCEPT ![t] = seen[k]]
    BY DEF GetConfig, Asks, Call
  <1>3. t \in Threads
    BY DEF Users
  <1>4. /\ DOMAIN at' = Threads /\ \A u \in Threads : u # t => at'[u] = at[u]
        /\ at[t] = "idle" /\ at'[t] = "limit"
    BY <1>3, Turned DEF GetConfig, VersionsInv, ThreadsInv, ThreadsTyped
  <1>5. key \in [Threads -> Keys] /\ seen[k] \in Nat
    BY DEF VersionsInv, TypeOK, ListsInv, ListsTyped
  <1>6. known' \in [Users -> Nat] /\ answer' \in [Threads -> Nat]
    BY <1>2, <1>5 DEF VersionsInv, ThreadsInv, ThreadsTyped
  <1>7. Holds(t)'
    BY <1>2, <1>3, <1>4 DEF VersionsInv, ThreadsInv, Holds, NoContent
  <1>8. Reads(t)'
    <2> key'[t] = k /\ known'[t] = seen[k]
      BY <1>2, <1>3, <1>5 DEF VersionsInv, ThreadsInv, ThreadsTyped
    <2> QED BY <1>2, <1>4, <1>5 DEF Reads
  <1>9. \A u \in Threads : u # t => key'[u] = key[u] /\ answer'[u] = answer[u]
    BY <1>2, <1>5
  <1>10. \A u \in Users : u # t => known'[u] = known[u]
    BY <1>2 DEF VersionsInv, ThreadsInv, ThreadsTyped
  <1> QED BY <1>1, <1>2, <1>4, <1>6, <1>7, <1>8, <1>9, <1>10, UserTurn DEF Forward

\* The snapshot, if it may be read, or nothing.
LEMMA FallBackForward ==
  ASSUME VersionsInv, NEW t \in Users, GetConfigFallsBack(t) PROVE Forward
  <1> DEFINE v == IF ReadsSnapshot(key[t]) THEN 1 ELSE NoContent
  <1>1. QueryOnly /\ answer' = [answer EXCEPT ![t] = v]
    BY Zenon DEF GetConfigFallsBack
  <1>2. ListsForward /\ ContentKept
    BY <1>1, ListsKept DEF QueryOnly, serverVars, cacheVars, listVars
  <1>3. UNCHANGED <<world, round, known, key, seen, server>>
    BY <1>1 DEF QueryOnly, limiterVars, vars, serverVars
  <1>4. t \in Threads
    BY DEF Users
  <1>5. /\ DOMAIN at' = Threads /\ \A u \in Threads : u # t => at'[u] = at[u]
        /\ at'[t] = "received"
    BY <1>4, Turned DEF GetConfigFallsBack, VersionsInv, ThreadsInv, ThreadsTyped
  <1>6. v \in {0, 1} /\ (v # NoContent => ReadsSnapshot(key[t]))
    BY DEF NoContent
  <1>7. server[key[t]] >= 1
    BY <1>4, KeysTyped DEF VersionsInv, ListsInv, ListsOrdered
  <1> HIDE DEF v
  <1>8. answer' \in [Threads -> Nat] /\ answer'[t] = v /\ \A u \in Threads : u # t => answer'[u] = answer[u]
    BY <1>1, <1>4, <1>6 DEF VersionsInv, ThreadsInv, ThreadsTyped
  <1>9. Holds(t)'
    BY <1>3, <1>5, <1>6, <1>7, <1>8 DEF Holds, NoContent
  <1>10. Reads(t)'
    BY <1>3, <1>5, <1>6, <1>8 DEF Reads, NoContent, OnlyServerAnswers, ReadsSnapshot, HasSnapshot
  <1> QED BY <1>2, <1>3, <1>5, <1>8, <1>9, <1>10, UserTurn
          DEF Forward, VersionsInv, ThreadsInv, ThreadsTyped

\* get_config returns what is in hand.
LEMMA ReturnForward ==
  ASSUME VersionsInv, NEW t \in Users, GetConfigReturns(t) PROVE Forward
  <1>1. t \in Threads /\ key[t] \in Keys
    BY KeysTyped DEF Users
  <1>2. answer[t] \in Nat /\ answer[t] <= server[key[t]]
    BY <1>1 DEF VersionsInv, ThreadsInv, ThreadsTyped, Holds, NoContent, ListsInv, ListsTyped
  <1>3. /\ UNCHANGED <<server, cacheData, cacheMap, building, world, round, key>>
        /\ answer' = [answer EXCEPT ![t] = NoContent] /\ known' = [known EXCEPT ![t] = Unheard]
    BY DEF GetConfigReturns, limiterVars, vars, serverVars, cacheVars
  <1>4. ListsForward
    <2>1. CASE Hears(key[t], answer[t])
      BY <1>1, <1>2, <1>3, <2>1, HeardForward, GotForward DEF VersionsInv
    <2>2. CASE UNCHANGED seen
      BY <1>3, <2>2, ListsKept DEF listVars
    <2> QED BY <2>1, <2>2 DEF GetConfigReturns
  <1>5. ContentKept
    BY <1>3 DEF ContentKept
  <1>6. /\ DOMAIN at' = Threads /\ \A u \in Threads : u # t => at'[u] = at[u]
        /\ at'[t] = "idle"
    BY <1>1, Turned DEF GetConfigReturns, VersionsInv, ThreadsInv, ThreadsTyped
  <1>7. /\ answer' \in [Threads -> Nat] /\ answer'[t] = NoContent
        /\ known' \in [Users -> Nat]
        /\ \A u \in Threads : u # t => answer'[u] = answer[u]
        /\ \A u \in Users : u # t => known'[u] = known[u]
    BY <1>1, <1>3 DEF VersionsInv, ThreadsInv, ThreadsTyped, NoContent, Unheard
  <1>8. Holds(t)' /\ Reads(t)'
    BY <1>6, <1>7 DEF Holds, Reads, NoContent
  <1> QED BY <1>3, <1>4, <1>5, <1>6, <1>7, <1>8, UserTurn DEF Forward

\* A step that touches the lists only, and the caller's place in the code, or not.
LEMMA Moves ==
  ASSUME VersionsInv, ListsForward, ContentKept, NEW t \in Users, NEW from, NEW to,
         Turn(t, from, to), <<from, to>> \in {<<"idle", "insert">>, <<"insert", "idle">>},
         UNCHANGED <<world, key, round, answer, known>>
  PROVE  ThreadsInv'
  <1>1. t \in Threads /\ DOMAIN at = Threads
    BY DEF Users, VersionsInv, ThreadsInv, ThreadsTyped
  <1>2. /\ DOMAIN at' = Threads /\ at[t] = from /\ at'[t] = to
        /\ \A u \in Threads : u # t => at'[u] = at[u]
    BY <1>1, Turned
  <1> QED BY <1>2, ListStep

LEMMA Stays ==
  ASSUME VersionsInv, ListsForward, ContentKept,
         UNCHANGED <<world, key, round, answer, known, at>>
  PROVE  ThreadsInv'
  <1>1. DOMAIN at' = Threads /\ \A t \in Threads : at'[t] = at[t]
    BY Zenon DEF VersionsInv, ThreadsInv, ThreadsTyped
  <1> QED BY <1>1, ListStep

LEMMA UserForward ==
  ASSUME VersionsInv, NEW t \in Users, UserStep(t) PROVE Forward
  <1>1. t \in Threads
    BY DEF Users
  <1>3. ASSUME NEW k \in Keys, AddListener(t, k) PROVE Forward
    <2>1. ListsForward /\ ContentKept
      BY <1>3, AddListenerForward DEF VersionsInv
    <2>2. UNCHANGED <<world, key, round, answer, known>>
      BY <1>3 DEF AddListener, limiterVars, vars, readVars
    <2>3. Turn(t, "idle", "insert")
      BY <1>3, Zenon DEF AddListener
    <2> QED BY <2>1, <2>2, <2>3, Moves DEF Forward
  <1>4. ASSUME Insert(t) PROVE Forward
    <2>1. ListsForward /\ ContentKept
      BY <1>4, InsertForward DEF VersionsInv
    <2>2. UNCHANGED <<world, key, round, answer, known>>
      BY <1>4 DEF Insert, limiterVars, vars, readVars
    <2>3. Turn(t, "insert", "idle")
      BY <1>4, Zenon DEF Insert
    <2> QED BY <2>1, <2>2, <2>3, Moves DEF Forward
  <1>5. ASSUME NEW k \in Keys, RemoveListener(t, k) PROVE Forward
    <2>1. ListsForward /\ ContentKept
      BY <1>5, RemoveListenerForward DEF VersionsInv
    <2>2. UNCHANGED <<world, key, round, answer, known, at>>
      BY <1>5 DEF RemoveListener, limiterVars, vars, readVars
    <2> QED BY <2>1, <2>2, Stays, Zenon DEF Forward
  <1>6. ASSUME NEW k \in Keys, PublishConfig(t, k) PROVE Forward
    <2>1. ListsForward /\ ContentKept
      BY <1>6, PublishForward DEF VersionsInv
    <2>2. UNCHANGED <<world, key, round, answer, known, at>>
      BY <1>6 DEF PublishConfig, limiterVars, vars, readVars
    <2> QED BY <2>1, <2>2, Stays, Zenon DEF Forward
  <1>7. ASSUME NEW k \in Keys, RemoveConfig(t, k) PROVE Forward
    <2>1. ListsForward /\ ContentKept
      BY <1>7, ListsKept DEF RemoveConfig, cacheVars, readVars, listVars
    <2>2. UNCHANGED <<world, key, round, answer, known, at>>
      BY <1>7 DEF RemoveConfig, limiterVars, vars, readVars
    <2> QED BY <2>1, <2>2, Stays, Zenon DEF Forward
  <1> QED BY <1>1, <1>3, <1>4, <1>5, <1>6, <1>7, GetForward, QueryForward, FallBackForward,
             ReturnForward, Zenon DEF UserStep

-----------------------------------------------------------------------------
(* The steps of the loop.                                                  *)

LEMMA Told ==
  ASSUME NEW d \in CacheDatas
  PROVE  /\ Tell(d) \in CacheDatas
         /\ Tell(d).key = d.key /\ Tell(d).content = d.content /\ Tell(d).told = d.content
  BY DEF Tell, CacheDatas

\* What ListenerKeeps and ListenerOnly leave alone, in the terms of the lemmas.
LEMMA Keeps ==
  ASSUME ListenerKeeps
  PROVE  UNCHANGED <<world, server, cacheMap, building, known, key>>
  BY DEF ListenerKeeps, limiterVars, vars, serverVars

\* A thread at a label other than "received" has nothing in hand.
LEMMA EmptyHand ==
  ASSUME VersionsInv, NEW t \in Threads, at[t] # "received" PROVE answer[t] = NoContent
  BY DEF VersionsInv, ThreadsInv, Holds

\* A step of the loop that leads elsewhere than to a query.
LEMMA Elsewhere ==
  ASSUME VersionsInv, ListsForward, ListenerKeeps, UNCHANGED answer, answer[Listener] = NoContent,
         DOMAIN round' = DOMAIN NoRound,
         NEW from, NEW to, Turn(Listener, from, to), to \notin {"limit", "query", "received"}
  PROVE  Forward
  <1>1. Listener \in Threads
    BY ServiceAssumption
  <1>2. /\ DOMAIN at' = Threads /\ at'[Listener] = to
        /\ \A u \in Users : at'[u] = at[u] /\ answer'[u] = answer[u]
    BY <1>1, Turned DEF VersionsInv, ThreadsInv, ThreadsTyped, Users
  <1>3. answer' \in [Threads -> Nat]
    BY DEF VersionsInv, ThreadsInv, ThreadsTyped
  <1> QED BY <1>2, <1>3, Keeps, LoopElsewhere DEF Forward

\* So does one that leaves the entries as they are.
LEMMA EntriesKept ==
  ASSUME VersionsInv, ListenerOnly, UNCHANGED cacheData, answer[Listener] = NoContent,
         DOMAIN round' = DOMAIN NoRound,
         NEW from, NEW to, Turn(Listener, from, to), to \notin {"limit", "query", "received"}
  PROVE  Forward
  <1>1. ListenerKeeps /\ UNCHANGED <<answer, seen>>
    BY DEF ListenerOnly
  <1>2. ListsForward
    BY <1>1, Keeps, ListsKept DEF listVars
  <1> QED BY <1>1, <1>2, Elsewhere

\* A step within the iterations over cache_map.
LEMMA SameLabel ==
  ASSUME VersionsInv, ListsForward, ListenerKeeps, UNCHANGED <<at, answer>>,
         DOMAIN round' = DOMAIN NoRound, at[Listener] \in {"build", "mark"}
  PROVE  Forward
  <1>1. answer[Listener] = NoContent
    BY ServiceAssumption, EmptyHand
  <1>2. DOMAIN at' = Threads /\ answer' \in [Threads -> Nat]
    BY DEF VersionsInv, ThreadsInv, ThreadsTyped
  <1> QED BY <1>1, <1>2, Keeps, LoopElsewhere DEF Forward

\* A step of the loop that goes from one place without a query to another.
LEMMA Quiet ==
  ASSUME VersionsInv, ListenerOnly, UNCHANGED cacheData, Listener \in Threads,
         DOMAIN round' = DOMAIN NoRound,
         \E from \in {"idle", "build", "tasks", "answer", "refresh", "mark"} :
         \E to \in {"idle", "build", "tasks", "answer", "refresh", "mark"} :
            Turn(Listener, from, to)
  PROVE  Forward
  <1>1. PICK from \in {"idle", "build", "tasks", "answer", "refresh", "mark"},
             to \in {"idle", "build", "tasks", "answer", "refresh", "mark"} :
                Turn(Listener, from, to)
    OBVIOUS
  <1>2. answer[Listener] = NoContent
    BY <1>1, EmptyHand DEF Turn
  <1> QED BY <1>1, <1>2, EntriesKept

\* The listed entries are among those made.
LEMMA ListedEntries == ASSUME ListsInv PROVE Listed \subseteq DOMAIN cacheData
  BY LenProperties DEF ListsInv, ListsTyped, Listed

LEMMA BuildForward ==
  ASSUME VersionsInv, NEW i \in Listed, BuildListenTask(i)
  PROVE  Forward
  <1>1. ListenerKeeps /\ UNCHANGED <<at, answer>>
    BY Zenon DEF BuildListenTask
  <1>2. UNCHANGED <<world, server, cacheMap, building, known, key>>
    BY <1>1, Keeps
  <1>3. i \in DOMAIN cacheData
    BY ListedEntries DEF VersionsInv
  <1>4. /\ cacheData[i] \in CacheDatas /\ cacheData[i].key \in Keys
        /\ cacheData[i].content \in Nat /\ cacheData[i].told \in Nat
        /\ Ordered(cacheData[i], server)
    BY <1>3, Entries DEF VersionsInv, ListsInv, ListsOrdered
  <1>5. ListsForward
    <2>1. CASE UNCHANGED <<cacheData, seen>>
      BY <1>2, <2>1, ListsKept DEF listVars
    <2>2. CASE /\ cacheData' = [cacheData EXCEPT ![i] = Tell(cacheData[i])]
               /\ Hears(cacheData[i].key, cacheData[i].content)
      <3> DEFINE d == Tell(cacheData[i])
      <3>1. /\ d \in CacheDatas /\ Ordered(d, server) /\ d.key = cacheData[i].key
            /\ d.told >= cacheData[i].told
        BY <1>4, Told DEF Ordered
      <3>2. cacheData' = [cacheData EXCEPT ![i] = d]
        BY <2>2
      <3> HIDE DEF d
      <3>3. /\ seen' \in [Keys -> Nat]
            /\ \A j \in Keys : seen'[j] >= seen[j] /\ seen'[j] <= server'[j]
        BY <1>2, <1>4, <2>2, HeardForward DEF VersionsInv, Ordered
      <3> QED BY <1>2, <1>3, <3>1, <3>2, <3>3, UpdateForward DEF VersionsInv
    <2> QED BY <2>1, <2>2, Zenon DEF BuildListenTask
  <1>6. DOMAIN round' = DOMAIN NoRound
    BY DEF BuildListenTask, VersionsInv, ThreadsInv, ThreadsTyped
  <1>7. at[Listener] = "build"
    BY DEF BuildListenTask
  <1> QED BY <1>1, <1>5, <1>6, <1>7, SameLabel

LEMMA MarkForward ==
  ASSUME VersionsInv, NEW i \in Listed, Mark(i)
  PROVE  Forward
  <1> DEFINE d == [cacheData[i] EXCEPT !.synced = TRUE]
  <1>1. ListenerOnly /\ UNCHANGED at
    BY Zenon DEF Mark
  <1>2. ListenerKeeps /\ UNCHANGED <<answer, seen>>
    BY <1>1 DEF ListenerOnly
  <1>3. i \in DOMAIN cacheData
    BY ListedEntries DEF VersionsInv
  <1>4. cacheData[i] \in CacheDatas /\ cacheData[i].told \in Nat /\ Ordered(cacheData[i], server)
    BY <1>3, Entries DEF VersionsInv, ListsInv, ListsOrdered
  <1>5. /\ d \in CacheDatas /\ d.key = cacheData[i].key
        /\ d.content = cacheData[i].content /\ d.told = cacheData[i].told
    BY <1>4 DEF CacheDatas
  <1>6. cacheData' = [cacheData EXCEPT ![i] = d]
    BY Zenon DEF Mark
  <1> HIDE DEF d
  <1>7. Ordered(d, server) /\ d.told >= cacheData[i].told
    BY <1>4, <1>5 DEF Ordered
  <1>8. /\ seen' \in [Keys -> Nat]
        /\ \A j \in Keys : seen'[j] >= seen[j] /\ seen'[j] <= server'[j]
    BY <1>2, Keeps DEF VersionsInv, ListsInv, ListsTyped, ListsOrdered
  <1>9. ListsForward
    BY <1>2, <1>3, <1>5, <1>6, <1>7, <1>8, Keeps, UpdateForward DEF VersionsInv
  <1>10. DOMAIN round' = DOMAIN NoRound
    BY DEF Mark, VersionsInv, ThreadsInv, ThreadsTyped
  <1>11. at[Listener] = "mark"
    BY DEF Mark
  <1> QED BY <1>1, <1>2, <1>9, <1>10, <1>11, SameLabel

\* The loop asks again for a changed key that is listed, and for its entry.
LEMMA RefreshForward ==
  ASSUME VersionsInv, NEW k \in Keys, Refresh(k)
  PROVE  Forward
  <1> DEFINE r == [round EXCEPT !.changed = @ \ {k}]
  <1>1. UNCHANGED <<loopStarts, world, serverVars, cacheVars, syncDue, readVars>>
    BY Zenon DEF Refresh
  <1>2. UNCHANGED <<world, server, cacheData, cacheMap, building, answer, seen, known>>
    BY <1>1 DEF serverVars, cacheVars, readVars
  <1>3. ListsForward /\ ContentKept
    BY <1>2, ListsKept DEF listVars
  <1>4. Listener \in Threads
    BY ServiceAssumption
  <1>5. DOMAIN round = DOMAIN NoRound /\ DOMAIN at = Threads /\ answer \in [Threads -> Nat]
    BY DEF VersionsInv, ThreadsInv, ThreadsTyped
  <1>6. DOMAIN round' = DOMAIN NoRound /\ round'.entry = cacheMap[k]
    <2>1. DOMAIN r = DOMAIN NoRound /\ "entry" \in DOMAIN NoRound
      BY <1>5 DEF NoRound
    <2>2. round' = [r EXCEPT !.entry = cacheMap[k]]
      BY DEF Refresh
    <2> HIDE DEF r
    <2> QED BY <2>1, <2>2
  <1>7. CASE cacheMap[k] = 0
    <2>1. at[Listener] = "refresh" /\ UNCHANGED <<at, key>>
      BY <1>7 DEF Refresh, limiterVars, vars
    <2>2. answer[Listener] = NoContent
      BY <1>4, <2>1, EmptyHand
    <2> QED BY <1>2, <1>3, <1>5, <1>6, <2>1, <2>2, LoopElsewhere DEF Forward
  <1>8. CASE cacheMap[k] # 0
    <2>1. Turn(Listener, "refresh", "limit") /\ key' = [key EXCEPT ![Listener] = k]
      BY <1>8 DEF Refresh, Asks, Call
    <2>2. /\ DOMAIN at' = Threads /\ at[Listener] = "refresh" /\ at'[Listener] = "limit"
          /\ \A u \in Threads : u # Listener => at'[u] = at[u]
      BY <1>4, <1>5, <2>1, Turned
    <2>3. key'[Listener] = k /\ \A u \in Threads : u # Listener => key'[u] = key[u]
      BY <1>4, <2>1 DEF VersionsInv, TypeOK
    <2>4. answer'[Listener] = NoContent
      BY <1>2, <1>4, <2>2, EmptyHand
    <2>5. Holds(Listener)'
      BY <2>4 DEF Holds, NoContent
    <2>6. cacheMap[k] \in DOMAIN cacheData /\ cacheData[cacheMap[k]].key = k
      BY <1>8, LenProperties DEF VersionsInv, ListsInv, ListsTyped, Mapped
    <2>7. Queries'
      BY <1>2, <1>6, <2>3, <2>4, <2>6 DEF Queries, NoContent
    <2> QED BY <1>2, <1>3, <1>5, <1>6, <2>2, <2>3, <2>5, <2>7, LoopTurn DEF Forward, Users
  <1> QED BY <1>7, <1>8

\* The entry is given the answer, which is not older than what it holds, and
\* its listener is told.
LEMMA SucceedsForward ==
  ASSUME VersionsInv, QuerySucceeds
  PROVE  Forward
  <1> DEFINE e == round.entry
             c == [cacheData[e] EXCEPT !.content = answer[Listener]]
             d == Tell(c)
  <1>1. /\ ListenerKeeps /\ UNCHANGED round /\ Turn(Listener, "received", "refresh")
        /\ answer[Listener] # NoContent
        /\ answer' = [answer EXCEPT ![Listener] = NoContent]
        /\ cacheData' = [cacheData EXCEPT ![e] = d] /\ Hears(cacheData[e].key, answer[Listener])
    BY Zenon DEF QuerySucceeds
  <1>2. UNCHANGED <<world, server, cacheMap, building, known, key>>
    BY <1>1, Keeps
  <1>3. Listener \in Threads /\ key[Listener] \in Keys
    BY ServiceAssumption, KeysTyped
  <1>4. /\ DOMAIN at' = Threads /\ at[Listener] = "received" /\ at'[Listener] = "refresh"
        /\ \A u \in Threads : u # Listener => at'[u] = at[u]
    BY <1>1, <1>3, Turned DEF VersionsInv, ThreadsInv, ThreadsTyped
  <1>5. /\ e \in DOMAIN cacheData /\ cacheData[e].key = key[Listener]
        /\ answer[Listener] >= cacheData[e].content
    BY <1>1, <1>4 DEF VersionsInv, ThreadsInv, Queries, Querying
  <1>6. /\ answer[Listener] \in Nat /\ answer[Listener] <= server[key[Listener]]
        /\ server[key[Listener]] \in Nat
    BY <1>1, <1>3 DEF VersionsInv, ThreadsInv, ThreadsTyped, Holds, ListsInv, ListsTyped
  <1>7. /\ cacheData[e] \in CacheDatas
        /\ cacheData[e].told \in Nat /\ cacheData[e].content \in Nat
        /\ cacheData[e].told <= cacheData[e].content
    BY <1>5, Entries DEF VersionsInv, ListsInv, ListsOrdered, Ordered
  <1>8. c \in CacheDatas /\ c.key = key[Listener] /\ c.content = answer[Listener]
    BY <1>5, <1>6, <1>7 DEF CacheDatas
  <1> HIDE DEF c, e
  <1>9. /\ d \in CacheDatas /\ d.key = cacheData[e].key /\ Ordered(d, server)
        /\ d.told >= cacheData[e].told
    BY <1>5, <1>6, <1>7, <1>8, Told DEF Ordered
  <1> HIDE DEF d
  <1>10. /\ seen' \in [Keys -> Nat]
         /\ \A j \in Keys : seen'[j] >= seen[j] /\ seen'[j] <= server'[j]
    BY <1>1, <1>2, <1>3, <1>5, <1>6, HeardForward DEF VersionsInv
  <1>11. ListsForward
    BY <1>1, <1>2, <1>5, <1>9, <1>10, UpdateForward DEF VersionsInv
  <1>12. /\ answer' \in [Threads -> Nat] /\ answer'[Listener] = NoContent
         /\ \A u \in Threads : u # Listener => answer'[u] = answer[u]
    BY <1>1, <1>3 DEF VersionsInv, ThreadsInv, ThreadsTyped, NoContent
  <1>13. DOMAIN round' = DOMAIN NoRound
    BY <1>1 DEF VersionsInv, ThreadsInv, ThreadsTyped
  <1> QED BY <1>2, <1>4, <1>11, <1>12, <1>13, LoopElsewhere DEF Forward, Users

LEMMA LoopForward ==
  ASSUME VersionsInv, LoopStep PROVE Forward
  <1>1. Listener \in Threads
    BY ServiceAssumption
  <1>2. DOMAIN round = DOMAIN NoRound
    BY DEF VersionsInv, ThreadsInv, ThreadsTyped
  <1>3. ASSUME Built \/ RoundEnds \/ ListenRequestAnswered \/ Refreshed PROVE Forward
    <2>1. /\ ListenerOnly /\ UNCHANGED cacheData
          /\ \E from \in {"build", "tasks", "answer", "refresh"} :
             \E to \in {"tasks", "idle", "refresh", "mark"} : Turn(Listener, from, to)
      BY <1>3 DEF Built, RoundEnds, ListenRequestAnswered, Refreshed
    <2>2. DOMAIN round' = DOMAIN NoRound
      BY <1>2, <1>3 DEF Built, RoundEnds, ListenRequestAnswered, Refreshed
    <2> QED BY <1>1, <2>1, <2>2, Quiet
  <1>4. ASSUME NEW n \in 0 .. MaxEntries, SendListenRequest(n) PROVE Forward
    <2>1. ListenerOnly /\ UNCHANGED cacheData /\ Turn(Listener, "tasks", "answer")
      BY <1>4 DEF SendListenRequest
    <2>2. DOMAIN round' = DOMAIN NoRound
      BY <1>2, <1>4 DEF SendListenRequest
    <2> QED BY <1>1, <2>1, <2>2, Quiet
  <1>5. ASSUME ListenRequestFails \/ Marked PROVE Forward
    <2>1. PICK from \in {"answer", "mark"} : Finally(from) /\ ListenerOnly /\ UNCHANGED cacheData
      BY <1>5, Zenon DEF ListenRequestFails, Marked
    <2>2. \E to \in {"tasks", "idle"} : Turn(Listener, from, to)
      BY <2>1 DEF Finally
    <2>3. DOMAIN round' = DOMAIN NoRound
      BY <2>1 DEF Finally
    <2> QED BY <1>1, <2>1, <2>2, <2>3, Quiet
  <1>6. CASE QueryFails
    <2>1. /\ ListenerOnly /\ UNCHANGED <<cacheData, round>> /\ Turn(Listener, "received", "refresh")
          /\ answer[Listener] = NoContent
      BY <1>6 DEF QueryFails
    <2> QED BY <1>2, <2>1, EntriesKept
  <1> QED BY <1>1, <1>3, <1>4, <1>5, <1>6, BuildForward, MarkForward, RefreshForward,
             SucceedsForward, QueryForward, Zenon DEF LoopStep

\* Every step keeps the invariant and goes forward.
LEMMA NextForward == VersionsInv /\ [ServiceNext]_allVars => Forward
  <1> SUFFICES ASSUME VersionsInv, [ServiceNext]_allVars PROVE Forward
    OBVIOUS
  <1>1. ASSUME UNCHANGED <<world, key, round, answer, known, at, listVars>> PROVE Forward
    <2> ListsForward /\ ContentKept
      BY <1>1, ListsKept
    <2> QED BY <1>1, Stays DEF Forward
  <1>2. CASE PeriodBegins
    BY <1>1, <1>2 DEF PeriodBegins, NewPeriod, serviceVars, serverVars, cacheVars, readVars, listVars
  <1>3. CASE AllSyncDue
    BY <1>1, <1>3 DEF AllSyncDue, limiterVars, vars, serverVars, cacheVars, readVars, listVars
  <1>4. CASE Wake
    <2>1. ListenerOnly /\ UNCHANGED cacheData /\ Turn(Listener, "idle", "build")
      BY <1>4 DEF Wake
    <2>2. DOMAIN round' = DOMAIN NoRound
      BY <1>4 DEF Wake
    <2> QED BY ServiceAssumption, <2>1, <2>2, Quiet
  <1>5. CASE UNCHANGED allVars
    BY <1>1, <1>5 DEF allVars, limiterVars, vars, serviceVars, serverVars, cacheVars, readVars,
       listVars
  <1> QED BY <1>2, <1>3, <1>4, <1>5, LimitedForward, UserForward, LoopForward, Zenon
          DEF ServiceNext

-----------------------------------------------------------------------------
LEMMA VersionsInvHolds == ServiceSpec => []VersionsInv
  <1>1. ServiceSpec => []TypeOK
    BY ServiceImplementsLimiter, TypeCorrect, PTL
  <1>2. ServiceInit => ListsInv /\ ThreadsInv
    BY InitLists, InitThreads
  <1>3. TypeOK /\ (ListsInv /\ ThreadsInv) /\ [ServiceNext]_allVars => (ListsInv /\ ThreadsInv)'
    BY NextForward DEF VersionsInv, Forward, ListsForward
  <1>4. TypeOK /\ (ListsInv /\ ThreadsInv) => VersionsInv
    BY DEF VersionsInv
  <1> QED BY <1>1, <1>2, <1>3, <1>4, PTL DEF ServiceSpec

\* No listener is told of an older version than before, whatever users publish,
\* remove and list meanwhile, and however requests fail.
THEOREM NeverToldBackHolds == ServiceSpec => NeverToldBack
  <1>1. VersionsInv /\ [ServiceNext]_allVars =>
           [\A i \in DOMAIN cacheData : cacheData'[i].told >= cacheData[i].told]_allVars
    BY NextForward DEF Forward, ListsForward, Grows
  <1> QED BY <1>1, VersionsInvHolds, PTL DEF ServiceSpec, NeverToldBack

\* What get_config is about to return, where no snapshot may be read, is at least
\* as new as anything told or got when it was called, however long the answer was
\* on its way and whatever was published and told meanwhile.
THEOREM NeverReadBackHolds == ServiceSpec => []NeverReadBack
  <1>1. VersionsInv => NeverReadBack
    BY DEF VersionsInv, ThreadsInv, Reads, NeverReadBack
  <1> QED BY <1>1, VersionsInvHolds, PTL
=============================================================================
