----------------------- MODULE ServiceInfoCacheProofs -----------------------
(***************************************************************************)
(* Proofs about ServiceInfoCache for every set of services, keys and       *)
(* threads.  The inductive invariant ties the thread inside the critical   *)
(* section to the entry it compared: as long as it has not stored, the     *)
(* entry is still the one it read, and it is older than what it brings.    *)
(***************************************************************************)
EXTENDS ServiceInfoCache, TLAPS

\* The lock is held exactly by the thread that is inside the with block.
Mutex == \A t \in Threads : pc[t] \in Locked <=> lock = t

\* What was compared still holds when it is acted upon.
ComparedIsCurrent ==
    \A t \in Threads : pc[t] \in {"storeTime", "storeService"} =>
        /\ oldDomain[t] = serviceInfoMap[CacheKey(service[t])]
        /\ ~OutOfDate(oldDomain[t], service[t])

StoredIsNewer ==
    \A t \in Threads : pc[t] = "announce" =>
        /\ serviceInfoMap[CacheKey(service[t])] = service[t]
        /\ ~OutOfDate(oldDomain[t], service[t])

\* The history variable lags behind the map only while a thread that stored
\* has not left the call.
SeenOrPending ==
    \A k \in Keys :
        \/ newestSeen[k] = RefOf(serviceInfoMap[k])
        \/ /\ newestSeen[k] < RefOf(serviceInfoMap[k])
           /\ \E t \in Threads : pc[t] = "announce" /\ CacheKey(service[t]) = k

IInv == TypeOK /\ Mutex /\ ComparedIsCurrent /\ StoredIsNewer /\ SeenOrPending

-----------------------------------------------------------------------------
\* A snapshot's key is one of the cache's keys and its time stamp a natural.
LEMMA SnapshotType ==
    ASSUME NEW s \in Services
    PROVE  /\ CacheKey(s) \in Keys
           /\ s.ref \in Nat
           /\ s.hosts \in (SUBSET Hosts) \cup {NoHosts}
           /\ s # NoService
           /\ RefOf(s) = s.ref
  BY ServicesAssumption, NoServiceAssumption DEF ServiceType, CacheKey, Keys, RefOf

\* The time stamp of an entry is an integer, -1 when there is none.
LEMMA EntryType ==
    ASSUME NEW e \in Entries
    PROVE  /\ RefOf(e) \in Int
           /\ e # NoService => e \in Services
           /\ e = NoService => RefOf(e) = -1
  <1>1. CASE e = NoService
    BY <1>1 DEF RefOf
  <1>2. CASE e \in Services
    BY <1>2, SnapshotType DEF RefOf
  <1> QED BY <1>1, <1>2 DEF Entries

\* TypeOK holds initially, with the cache empty or filled from disk.
LEMMA InitTypeOK == Init => TypeOK
  <1> SUFFICES ASSUME Init PROVE TypeOK
    OBVIOUS
  <1>1. serviceInfoMap \in [Keys -> Entries]
    BY DEF Init, LoadCacheFromDisk, Entries
  <1>2. newestSeen \in [Keys -> Int]
    BY <1>1, EntryType DEF Init
  <1>3. announced \in [Keys -> (SUBSET Hosts) \cup {NoHosts}]
    BY <1>1, EntryType, SnapshotType DEF Init
  <1> QED BY <1>1, <1>2, <1>3 DEF Init, TypeOK, PCs, Never, Entries

\* Every step keeps the types.
LEMMA NextTypeOK == TypeOK /\ [Next]_vars => TypeOK'
  <1> SUFFICES ASSUME TypeOK, [Next]_vars PROVE TypeOK'
    OBVIOUS
  <1> USE DEF TypeOK
  <1>1. ASSUME NEW t \in Threads, NEW s \in Services, Call(t, s)
        PROVE  TypeOK'
    BY <1>1 DEF Call, PCs, Entries
  <1>2. ASSUME NEW t \in Threads, ReturnEmpty(t)
        PROVE  TypeOK'
    BY <1>2 DEF ReturnEmpty, Return, PCs, Entries, Never
  <1>3. ASSUME NEW t \in Threads, Acquire(t)
        PROVE  TypeOK'
    BY <1>3 DEF Acquire, PCs
  <1>4. ASSUME NEW t \in Threads, pc[t] # "idle", Finish(t),
               UNCHANGED <<serviceInfoMap, updateTimeMap, now>>,
               announced' \in [Keys -> (SUBSET Hosts) \cup {NoHosts}],
               unannounced' \subseteq Keys
        PROVE  TypeOK'
    <2>1. newestSeen' \in [Keys -> Int]
      BY <1>4, SnapshotType DEF Finish
    <2> QED BY <1>4, <2>1 DEF Finish, Return, PCs, Entries, Never
  <1>5. ASSUME NEW t \in Threads, ReturnOutOfDate(t)
        PROVE  TypeOK'
    BY <1>4, <1>5 DEF ReturnOutOfDate
  <1>6. ASSUME NEW t \in Threads, Compare(t)
        PROVE  TypeOK'
    BY <1>6, SnapshotType DEF Compare, PCs
  <1>7. ASSUME NEW t \in Threads, StoreTime(t)
        PROVE  TypeOK'
    BY <1>7, SnapshotType DEF StoreTime, PCs
  <1>8. ASSUME NEW t \in Threads, StoreService(t)
        PROVE  TypeOK'
    BY <1>8, SnapshotType DEF StoreService, PCs, Entries
  <1>9. ASSUME NEW t \in Threads, Announce(t)
        PROVE  TypeOK'
    <2>1. pc[t] # "idle" /\ service[t] \in Services
      BY <1>9 DEF Announce
    <2>2. announced' \in [Keys -> (SUBSET Hosts) \cup {NoHosts}]
      BY <1>9, <2>1, SnapshotType DEF Announce
    <2>3. unannounced' \subseteq Keys
      BY <1>9 DEF Announce
    <2> QED BY <1>4, <1>9, <2>1, <2>2, <2>3 DEF Announce
  <1>10. ASSUME NEW t \in Threads, Raise(t)
         PROVE  TypeOK'
    <2>1. pc[t] # "idle" /\ service[t] \in Services
      BY <1>10 DEF Raise
    <2>2. unannounced' \subseteq Keys
      BY <1>10, <2>1, SnapshotType DEF Raise
    <2> QED BY <1>4, <1>10, <2>1, <2>2 DEF Raise
  <1>11. CASE Tick
    BY <1>11 DEF Tick
  <1>12. CASE UNCHANGED vars
    BY <1>12 DEF vars
  <1> QED BY <1>1, <1>2, <1>3, <1>5, <1>6, <1>7, <1>8, <1>9, <1>10, <1>11, <1>12
          DEF Next, Step, Processed, Entries

\* Types are an invariant of the cache.
THEOREM TypeCorrect == Spec => []TypeOK
  BY InitTypeOK, NextTypeOK, PTL DEF Spec

-----------------------------------------------------------------------------
\* "Not out of date" is "strictly newer", with -1 for a key without entry.
LEMMA NotOutOfDate ==
    ASSUME NEW e \in Entries, NEW s \in Services
    PROVE  ~OutOfDate(e, s) <=> RefOf(e) < s.ref
  BY EntryType, SnapshotType DEF OutOfDate, RefTime, RefOf

\* A step of one thread that keeps the map, the history and the other threads.
LEMMA OthersUntouched ==
    ASSUME IInv, TypeOK', NEW t \in Threads,
           pc' = [pc EXCEPT ![t] = pc'[t]],
           service' = [service EXCEPT ![t] = service'[t]],
           oldDomain' = [oldDomain EXCEPT ![t] = oldDomain'[t]],
           UNCHANGED <<serviceInfoMap, newestSeen>>,
           pc[t] # "announce"
    PROVE  /\ SeenOrPending'
           /\ \A u \in Threads \ {t} :
                  /\ pc'[u] = pc[u]
                  /\ service'[u] = service[u]
                  /\ oldDomain'[u] = oldDomain[u]
  <1>1. \A u \in Threads \ {t} : /\ pc'[u] = pc[u]
                                /\ service'[u] = service[u]
                                /\ oldDomain'[u] = oldDomain[u]
    BY DEF IInv, TypeOK
  <1> QED BY <1>1 DEF IInv, SeenOrPending

LEMMA InitIInv == Init => IInv
  <1> SUFFICES ASSUME Init PROVE IInv
    OBVIOUS
  <1>1. TypeOK
    BY InitTypeOK
  <1>2. Mutex /\ ComparedIsCurrent /\ StoredIsNewer
    BY NoThreadAssumption
       DEF Init, Mutex, Locked, ComparedIsCurrent, StoredIsNewer
  <1>3. SeenOrPending
    BY DEF Init, SeenOrPending
  <1> QED BY <1>1, <1>2, <1>3 DEF IInv

\* A thread that leaves without having stored: what it brought is no newer
\* than the entry, so the history does not move past the map.
LEMMA OutOfDateKeepsIInv ==
    ASSUME IInv, TypeOK', NEW t \in Threads, ReturnOutOfDate(t)
    PROVE  IInv'
  <1> DEFINE k == CacheKey(service[t])
  <1>1. /\ service[t] \in Services
        /\ k \in Keys
        /\ lock = t
        /\ serviceInfoMap[k] \in Entries
    BY SnapshotType DEF ReturnOutOfDate, IInv, TypeOK, Mutex, Locked
  <1>2. RefOf(serviceInfoMap[k]) >= service[t].ref
    BY <1>1, NotOutOfDate, EntryType, SnapshotType DEF ReturnOutOfDate
  <1>3. newestSeen[k] = RefOf(serviceInfoMap[k])
    <2>1. \A u \in Threads : pc[u] # "announce"
      BY <1>1 DEF ReturnOutOfDate, IInv, Mutex, Locked
    <2> QED BY <1>1, <2>1 DEF IInv, SeenOrPending
  <1>4. newestSeen' = newestSeen
    BY <1>1, <1>2, <1>3, EntryType, SnapshotType
       DEF ReturnOutOfDate, Finish, IInv, TypeOK
  <1>5. SeenOrPending'
    BY <1>1, <1>4 DEF ReturnOutOfDate, Finish, Return, IInv, SeenOrPending, Mutex,
                      Locked, TypeOK
  <1>6. Mutex' /\ ComparedIsCurrent' /\ StoredIsNewer'
    BY <1>1, NoThreadAssumption
       DEF ReturnOutOfDate, Finish, Return, IInv, TypeOK, Mutex, Locked,
           ComparedIsCurrent, StoredIsNewer
  <1> QED BY <1>5, <1>6 DEF IInv

\* The store: the entry it replaces is the one that was compared.
LEMMA StoreKeepsIInv ==
    ASSUME IInv, TypeOK', NEW t \in Threads, StoreService(t)
    PROVE  IInv'
  <1> DEFINE k == CacheKey(service[t])
  <1>1. /\ service[t] \in Services
        /\ k \in Keys
        /\ lock = t
        /\ oldDomain[t] \in Entries
        /\ oldDomain[t] = serviceInfoMap[k]
        /\ ~OutOfDate(oldDomain[t], service[t])
    BY SnapshotType
       DEF StoreService, IInv, TypeOK, Mutex, Locked, ComparedIsCurrent
  <1>2. /\ serviceInfoMap'[k] = service[t]
        /\ \A j \in Keys \ {k} : serviceInfoMap'[j] = serviceInfoMap[j]
        /\ pc'[t] = "announce"
        /\ \A u \in Threads \ {t} : pc'[u] = pc[u] /\ pc[u] \notin Locked
    BY <1>1 DEF StoreService, IInv, TypeOK, Mutex
  <1>3. Mutex'
    BY <1>1, <1>2 DEF StoreService, IInv, Mutex, Locked
  <1>4. ComparedIsCurrent' /\ StoredIsNewer'
    BY <1>1, <1>2 DEF StoreService, ComparedIsCurrent, StoredIsNewer, Locked
  <1>5. SeenOrPending'
    <2>1. ASSUME NEW j \in Keys, j # k
          PROVE  newestSeen'[j] = RefOf(serviceInfoMap'[j])
      BY <1>1, <1>2, <2>1 DEF StoreService, IInv, SeenOrPending, Locked, Mutex
    <2>2. newestSeen[k] = RefOf(serviceInfoMap[k])
      BY <1>1, <1>2 DEF StoreService, IInv, SeenOrPending, Locked
    <2>3. newestSeen'[k] < RefOf(serviceInfoMap'[k])
      BY <1>1, <1>2, <2>2, NotOutOfDate, SnapshotType DEF StoreService
    <2> QED BY <1>2, <2>1, <2>3 DEF SeenOrPending, StoreService
  <1> QED BY <1>3, <1>4, <1>5 DEF IInv

\* Leaving after the store, also by an exception of the change check: the
\* history catches up with the map.
LEMMA AnnounceKeepsIInv ==
    ASSUME IInv, TypeOK', NEW t \in Threads, Announce(t) \/ Raise(t)
    PROVE  IInv'
  <1> DEFINE k == CacheKey(service[t])
  <1>1. /\ service[t] \in Services
        /\ k \in Keys
        /\ lock = t
        /\ serviceInfoMap[k] = service[t]
        /\ \A u \in Threads \ {t} : pc[u] \notin Locked
    BY SnapshotType DEF Announce, Raise, IInv, TypeOK, Mutex, Locked, StoredIsNewer
  <1>2. \A j \in Keys \ {k} : newestSeen[j] = RefOf(serviceInfoMap[j])
    BY <1>1 DEF IInv, SeenOrPending, Locked
  <1>3. newestSeen'[k] = service[t].ref
    <2>1. newestSeen[k] <= service[t].ref /\ newestSeen[k] \in Int
      BY <1>1, SnapshotType DEF IInv, SeenOrPending, TypeOK
    <2>2. newestSeen' = [newestSeen EXCEPT
             ![k] = IF service[t].ref > @ THEN service[t].ref ELSE @]
      BY DEF Announce, Raise, Finish
    <2>3. newestSeen \in [Keys -> Int] /\ service[t].ref \in Nat
      BY <1>1, SnapshotType DEF IInv, TypeOK
    <2> QED BY <1>1, <2>1, <2>2, <2>3
  <1>4. SeenOrPending'
    BY <1>1, <1>2, <1>3, SnapshotType
       DEF Announce, Raise, Finish, IInv, TypeOK, SeenOrPending
  <1>5. Mutex' /\ ComparedIsCurrent' /\ StoredIsNewer'
    BY <1>1, NoThreadAssumption
       DEF Announce, Raise, Finish, Return, IInv, TypeOK, Mutex, Locked,
           ComparedIsCurrent, StoredIsNewer
  <1> QED BY <1>4, <1>5 DEF IInv

\* Every step keeps the inductive invariant.
LEMMA NextIInv == IInv /\ [Next]_vars => IInv'
  <1> SUFFICES ASSUME IInv, [Next]_vars PROVE IInv'
    OBVIOUS
  <1>0. TypeOK /\ TypeOK'
    BY NextTypeOK DEF IInv
  <1>1. ASSUME NEW t \in Threads, NEW s \in Services, Call(t, s)
        PROVE  IInv'
    <2>1. SeenOrPending'
      BY <1>0, <1>1, OthersUntouched DEF Call, TypeOK
    <2>2. Mutex' /\ ComparedIsCurrent' /\ StoredIsNewer'
      BY <1>0, <1>1 DEF Call, IInv, TypeOK, Mutex, Locked, ComparedIsCurrent,
                        StoredIsNewer
    <2> QED BY <1>0, <2>1, <2>2 DEF IInv
  <1>2. ASSUME NEW t \in Threads, ReturnEmpty(t)
        PROVE  IInv'
    <2>1. SeenOrPending'
      BY <1>0, <1>2, OthersUntouched DEF ReturnEmpty, Return, TypeOK
    <2>2. Mutex' /\ ComparedIsCurrent' /\ StoredIsNewer'
      BY <1>0, <1>2 DEF ReturnEmpty, Return, IInv, TypeOK, Mutex, Locked,
                        ComparedIsCurrent, StoredIsNewer
    <2> QED BY <1>0, <2>1, <2>2 DEF IInv
  <1>3. ASSUME NEW t \in Threads, Acquire(t)
        PROVE  IInv'
    <2>1. SeenOrPending'
      BY <1>0, <1>3, OthersUntouched DEF Acquire, TypeOK
    <2>2. Mutex' /\ ComparedIsCurrent' /\ StoredIsNewer'
      BY <1>0, <1>3, NoThreadAssumption
         DEF Acquire, LockIsFree, IInv, TypeOK, Mutex, Locked,
             ComparedIsCurrent, StoredIsNewer
    <2> QED BY <1>0, <2>1, <2>2 DEF IInv
  <1>4. ASSUME NEW t \in Threads, ReturnOutOfDate(t)
        PROVE  IInv'
    BY <1>0, <1>4, OutOfDateKeepsIInv
  <1>5. ASSUME NEW t \in Threads, Compare(t)
        PROVE  IInv'
    <2>1. SeenOrPending'
      BY <1>0, <1>5, OthersUntouched DEF Compare, TypeOK
    <2>2. Mutex'
      BY <1>0, <1>5 DEF Compare, IInv, TypeOK, Mutex, Locked
    <2>3. ComparedIsCurrent' /\ StoredIsNewer'
      BY <1>0, <1>5 DEF Compare, IInv, TypeOK, ComparedIsCurrent, StoredIsNewer
    <2> QED BY <1>0, <2>1, <2>2, <2>3 DEF IInv
  <1>6. ASSUME NEW t \in Threads, StoreTime(t)
        PROVE  IInv'
    <2>1. SeenOrPending'
      BY <1>0, <1>6, OthersUntouched DEF StoreTime, TypeOK
    <2>2. Mutex' /\ ComparedIsCurrent' /\ StoredIsNewer'
      BY <1>0, <1>6 DEF StoreTime, IInv, TypeOK, Mutex, Locked,
                        ComparedIsCurrent, StoredIsNewer
    <2> QED BY <1>0, <2>1, <2>2 DEF IInv
  <1>7. ASSUME NEW t \in Threads, StoreService(t)
        PROVE  IInv'
    BY <1>0, <1>7, StoreKeepsIInv
  <1>8. ASSUME NEW t \in Threads, Announce(t) \/ Raise(t)
        PROVE  IInv'
    BY <1>0, <1>8, AnnounceKeepsIInv
  <1>9. CASE Tick \/ UNCHANGED vars
    BY <1>0, <1>9 DEF Tick, vars, IInv, Mutex, ComparedIsCurrent,
                      StoredIsNewer, SeenOrPending
  <1> QED BY <1>1, <1>2, <1>3, <1>4, <1>5, <1>6, <1>7, <1>8, <1>9
          DEF Next, Step, Processed, Entries

LEMMA Invariance == Spec => []IInv
  BY InitIInv, NextIInv, PTL DEF Spec

-----------------------------------------------------------------------------
\* NewestWins: for every number of threads, keys and snapshots, no finished
\* push and nothing loaded from disk is newer than the entry of its key.
THEOREM NewestWinsHolds == Spec => []NewestWins
  <1>1. IInv => NewestWins
    BY EntryType DEF IInv, TypeOK, SeenOrPending, NewestWins
  <1> QED BY <1>1, Invariance, PTL

\* NothingLost: with the lock free, the entry is the newest finished push.
THEOREM NothingLostHolds == Spec => []NothingLost
  <1>1. IInv => NothingLost
    BY NoThreadAssumption
       DEF IInv, TypeOK, Mutex, Locked, SeenOrPending, NothingLost
  <1> QED BY <1>1, Invariance, PTL

-----------------------------------------------------------------------------
\* What was announced is what is stored, but for the keys whose check raised
\* and the one whose new entry a thread is about to check; what was announced
\* of that one is the entry it replaced.
AnnouncedOrPending ==
    \A k \in Keys \ unannounced :
        \/ serviceInfoMap[k] # NoService => announced[k] = serviceInfoMap[k].hosts
        \/ \E t \in Threads : pc[t] = "announce" /\ CacheKey(service[t]) = k
ReplacedWasAnnounced ==
    \A t \in Threads :
        LET k == CacheKey(service[t]) IN
        pc[t] = "announce" /\ k \notin unannounced /\ oldDomain[t] # NoService =>
            announced[k] = oldDomain[t].hosts

\* A check that neither raises nor finds a change compared equal hosts: the
\* lengths agree, and only an entry that is older was let past the filter.
LEMMA UnchangedHosts ==
    ASSUME NEW old \in Services, NEW s \in Services, ~OutOfDate(old, s),
           ~CheckInstanceChanged(old, s)
    PROVE  old.hosts = s.hosts
  <1>1. old.ref < s.ref /\ old.ref \in Nat /\ s.ref \in Nat
    BY SnapshotType DEF OutOfDate, RefTime
  <1> QED BY <1>1 DEF CheckInstanceChanged

LEMMA AnnouncedInvariant == Spec => [](AnnouncedOrPending /\ ReplacedWasAnnounced)
  <1> DEFINE Inv == AnnouncedOrPending /\ ReplacedWasAnnounced
  <1>1. Init => Inv
    BY DEF Init, AnnouncedOrPending, ReplacedWasAnnounced
  <1>2. ASSUME IInv, IInv', Inv, [Next]_vars PROVE Inv'
    <2> USE <1>2 DEF IInv, TypeOK
    <2>1. ASSUME UNCHANGED <<serviceInfoMap, announced, unannounced>>,
                 \A u \in Threads :
                    \/ /\ pc'[u] = pc[u] /\ service'[u] = service[u]
                       /\ oldDomain'[u] = oldDomain[u]
                    \/ pc[u] # "announce" /\ pc'[u] # "announce"
          PROVE  Inv'
      BY <2>1 DEF AnnouncedOrPending, ReplacedWasAnnounced
    <2>2. ASSUME NEW t \in Threads, NEW s \in Services, Call(t, s) PROVE Inv'
      BY <2>1, <2>2 DEF Call
    <2>3. ASSUME NEW t \in Threads, ReturnEmpty(t) \/ ReturnOutOfDate(t) PROVE Inv'
      BY <2>1, <2>3 DEF ReturnEmpty, ReturnOutOfDate, Finish, Return
    <2>4. ASSUME NEW t \in Threads, Acquire(t) \/ Compare(t) \/ StoreTime(t) PROVE Inv'
      BY <2>1, <2>4 DEF Acquire, Compare, StoreTime
    <2>5. ASSUME NEW t \in Threads, StoreService(t) PROVE Inv'
      <3> DEFINE k == CacheKey(service[t])
      <3>1. /\ k \in Keys /\ oldDomain[t] = serviceInfoMap[k]
            /\ serviceInfoMap' = [serviceInfoMap EXCEPT ![k] = service[t]]
            /\ pc'[t] = "announce"
            /\ UNCHANGED <<service, oldDomain, announced, unannounced>>
        BY <2>5, SnapshotType DEF StoreService, ComparedIsCurrent
      <3>2. \A u \in Threads : pc[u] # "announce" /\ (u # t => pc'[u] # "announce")
        BY <2>5 DEF StoreService, Mutex, Locked
      <3>3. \A j \in Keys \ unannounced :
               serviceInfoMap[j] # NoService => announced[j] = serviceInfoMap[j].hosts
        BY <3>2 DEF AnnouncedOrPending
      <3> HIDE DEF k
      <3>4. \A j \in Keys : j # k => serviceInfoMap'[j] = serviceInfoMap[j]
        BY <3>1
      <3>5. AnnouncedOrPending'
        BY <3>1, <3>3, <3>4 DEF AnnouncedOrPending, k
      <3>6. ReplacedWasAnnounced'
        BY <3>1, <3>2, <3>3 DEF ReplacedWasAnnounced, k
      <3> QED BY <3>5, <3>6
    <2>6. ASSUME NEW t \in Threads, Announce(t) \/ Raise(t) PROVE Inv'
      <3> DEFINE s == service[t]
                 k == CacheKey(s)
                 old == oldDomain[t]
      <3>1. /\ s \in Services /\ k \in Keys /\ serviceInfoMap[k] = s /\ old \in Entries
            /\ ~OutOfDate(old, s) /\ pc[t] = "announce"
        BY <2>6, SnapshotType DEF Announce, Raise, StoredIsNewer
      <3>2. \A u \in Threads : pc'[u] # "announce"
        BY <2>6 DEF Announce, Raise, Finish, Return, Mutex, Locked
      <3>3. \A j \in Keys \ unannounced : j # k /\ serviceInfoMap[j] # NoService =>
               announced[j] = serviceInfoMap[j].hosts
        <4>1. \A u \in Threads : pc[u] = "announce" => u = t
          BY <3>1 DEF Mutex, Locked
        <4> QED BY <4>1 DEF AnnouncedOrPending
      <3>4. k \notin unannounced' => announced'[k] = s.hosts
        <4>1. CASE Raise(t)
          BY <4>1 DEF Raise
        <4>2. CASE Announce(t) /\ CheckInstanceChanged(old, s)
          BY <3>1, <4>2 DEF Announce
        <4>3. CASE Announce(t) /\ ~CheckInstanceChanged(old, s)
          <5>1. old # NoService
            BY <4>3 DEF CheckInstanceChanged
          <5>2. old.hosts = s.hosts
            BY <3>1, <4>3, <5>1, UnchangedHosts DEF Entries
          <5>3. UNCHANGED <<announced, unannounced>>
            BY <4>3 DEF Announce
          <5> QED BY <3>1, <5>1, <5>2, <5>3 DEF ReplacedWasAnnounced
        <4> QED BY <2>6, <4>1, <4>2, <4>3
      <3>5. /\ serviceInfoMap' = serviceInfoMap
            /\ \A j \in Keys : j # k => /\ announced'[j] = announced[j]
                                        /\ j \in unannounced' <=> j \in unannounced
        BY <2>6, <3>1 DEF Announce, Raise
      <3> HIDE DEF s, k, old
      <3>6. AnnouncedOrPending'
        BY <3>1, <3>3, <3>4, <3>5 DEF AnnouncedOrPending
      <3> QED BY <3>2, <3>6 DEF ReplacedWasAnnounced
    <2>7. CASE Tick \/ UNCHANGED vars
      BY <2>1, <2>7 DEF Tick, vars
    <2> QED BY <2>2, <2>3, <2>4, <2>5, <2>6, <2>7 DEF Next, Step, Processed, Entries
  <1> QED BY <1>1, <1>2, Invariance, PTL DEF Spec

\* ChangesAnnounced: for any number of pushes, threads and keys the announced
\* changes add up to the entry, but where the check of the last one raised.
THEOREM ChangesAnnouncedHolds == Spec => []ChangesAnnounced
  <1>1. IInv /\ AnnouncedOrPending => ChangesAnnounced
    BY NoThreadAssumption DEF IInv, TypeOK, Mutex, Locked, AnnouncedOrPending,
                              ChangesAnnounced
  <1> QED BY <1>1, Invariance, AnnouncedInvariant, PTL

-----------------------------------------------------------------------------
\* What the two action properties need beside IInv: recorded times are in the
\* past, and the empty-list filter was passed on the way to the lock.
TimesArePast ==
    /\ \A k \in Keys : updateTimeMap[k] <= now
    /\ \A t \in Threads : reading[t] <= now
    /\ \A t \in Threads : pc[t] = "storeTime" =>
          updateTimeMap[CacheKey(service[t])] <= reading[t]
Filtered == \A t \in Threads : pc[t] \in Locked => ~SkipsEmpty(service[t])

LEMMA FilteredInvariant == Spec => []Filtered
  <1>1. Init => Filtered
    BY DEF Init, Filtered, Locked
  <1>2. ASSUME TypeOK, Filtered, [Next]_vars
        PROVE  Filtered'
    <2> USE <1>2 DEF TypeOK, Filtered, Locked
    <2>1. ASSUME NEW t \in Threads, NEW s \in Services, Call(t, s)
          PROVE  Filtered'
      BY <2>1 DEF Call
    <2>2. ASSUME NEW t \in Threads, Return(t)
          PROVE  Filtered'
      BY <2>2 DEF Return
    <2>3. ASSUME NEW t \in Threads, Acquire(t)
          PROVE  Filtered'
      BY <2>3 DEF Acquire
    <2>4. ASSUME NEW t \in Threads, Compare(t) \/ StoreTime(t) \/ StoreService(t)
          PROVE  Filtered'
      BY <2>4 DEF Compare, StoreTime, StoreService
    <2>5. CASE Tick \/ UNCHANGED vars
      BY <2>5 DEF Tick, vars
    <2> QED BY <2>1, <2>2, <2>3, <2>4, <2>5
            DEF Next, Step, Processed, Entries, ReturnEmpty, ReturnOutOfDate,
                Announce, Raise, Finish
  <1> QED BY <1>1, <1>2, TypeCorrect, PTL DEF Spec

LEMMA PastInvariant == Spec => []TimesArePast
  <1>1. Init => TimesArePast
    BY DEF Init, TimesArePast, Never
  <1>2. ASSUME IInv, TimesArePast, [Next]_vars
        PROVE  TimesArePast'
    <2> USE <1>2 DEF IInv, TypeOK, TimesArePast
    <2>1. ASSUME NEW t \in Threads, NEW s \in Services, Call(t, s)
          PROVE  TimesArePast'
      BY <2>1 DEF Call
    <2>2. ASSUME NEW t \in Threads, Return(t), UNCHANGED <<updateTimeMap, now>>
          PROVE  TimesArePast'
      BY <2>2 DEF Return, Never
    <2>3. ASSUME NEW t \in Threads, Acquire(t) \/ StoreService(t)
          PROVE  TimesArePast'
      BY <2>3 DEF Acquire, StoreService
    <2>4. ASSUME NEW t \in Threads, Compare(t)
          PROVE  TimesArePast'
      BY <2>4, SnapshotType DEF Compare
    <2>5. ASSUME NEW t \in Threads, StoreTime(t)
          PROVE  TimesArePast'
      <3>1. \A u \in Threads \ {t} : pc'[u] # "storeTime"
        BY <2>5 DEF StoreTime, Mutex, Locked
      <3> QED BY <2>5, <3>1, SnapshotType DEF StoreTime
    <2>6. CASE Tick \/ UNCHANGED vars
      BY <2>6 DEF Tick, vars
    <2> QED BY <2>1, <2>2, <2>3, <2>4, <2>5, <2>6
            DEF Next, Step, Processed, Entries, ReturnEmpty, ReturnOutOfDate,
                Announce, Raise, Finish
  <1> QED BY <1>1, <1>2, Invariance, PTL DEF Spec

\* UpdateTimesAdvance: reading the clock inside the critical section keeps
\* update_time_map in step with the order of the stores.
THEOREM UpdateTimesAdvanceHolds == Spec => UpdateTimesAdvance
  <1>1. ASSUME TypeOK, TimesArePast, [Next]_vars
        PROVE  [\A k \in Keys : updateTimeMap'[k] >= updateTimeMap[k]]_vars
    <2>1. ASSUME NEW t \in Threads, StoreTime(t)
          PROVE  \A k \in Keys : updateTimeMap'[k] >= updateTimeMap[k]
      BY <1>1, <2>1 DEF StoreTime, TypeOK, TimesArePast
    <2>2. CASE updateTimeMap' = updateTimeMap
      BY <1>1, <2>2 DEF TypeOK
    <2> QED BY <1>1, <2>1, <2>2
            DEF Next, Step, Call, ReturnEmpty, ReturnOutOfDate, Acquire, Compare,
                StoreService, Announce, Raise, Tick, vars
  <1> QED BY <1>1, TypeCorrect, PastInvariant, PTL DEF Spec, UpdateTimesAdvance

\* NeverEmptied: the filter outside the lock is enough, because what a thread
\* stores is what it filtered.
THEOREM NeverEmptiedHolds == Spec => NeverEmptied
  <1> DEFINE A == ~UpdateCacheWhenEmpty =>
                    \A k \in Keys : serviceInfoMap[k] # serviceInfoMap'[k]
                        => serviceInfoMap'[k].hosts \notin {NoHosts, {}}
  <1>1. ASSUME TypeOK, Filtered, [Next]_vars
        PROVE  [A]_vars
    <2>1. ASSUME NEW t \in Threads, StoreService(t)
          PROVE  A
      BY <1>1, <2>1 DEF StoreService, TypeOK, Filtered, Locked, SkipsEmpty
    <2>2. CASE serviceInfoMap' = serviceInfoMap
      BY <2>2
    <2> QED BY <1>1, <2>1, <2>2
            DEF Next, Step, Call, ReturnEmpty, ReturnOutOfDate, Acquire, Compare,
                StoreTime, Announce, Raise, Tick, vars
  <1> QED BY <1>1, TypeCorrect, FilteredInvariant, PTL DEF Spec, NeverEmptied

-----------------------------------------------------------------------------
\* Refinement: a store by any thread is one atomic Install of the abstract
\* cache, every other step leaves it alone.
THEOREM Implementation == Spec => ImplementsNewestService
  <1>1. Init => Abstract!Init
    BY DEF Init, LoadCacheFromDisk, Abstract!Init, Abstract!Entries, Entries
  <1>2. ASSUME IInv, [Next]_vars
        PROVE  [Abstract!Next]_serviceInfoMap
    <2>1. ASSUME NEW t \in Threads, StoreService(t)
          PROVE  Abstract!Next
      <3>1. service[t] \in Services
        BY <1>2, <2>1 DEF StoreService, IInv, TypeOK
      <3>2. ~OutOfDate(serviceInfoMap[CacheKey(service[t])], service[t])
        BY <1>2, <2>1 DEF StoreService, IInv, ComparedIsCurrent
      <3>3. Abstract!Newer(service[t], serviceInfoMap[CacheKey(service[t])])
        <4>1. serviceInfoMap[CacheKey(service[t])] \in Entries
          BY <1>2, <3>1, SnapshotType DEF IInv, TypeOK
        <4> QED BY <3>1, <3>2, <4>1, SnapshotType, EntryType
                DEF OutOfDate, Abstract!Newer, RefTime
      <3> QED BY <2>1, <3>1, <3>3 DEF StoreService, Abstract!Next, Abstract!Install
    <2>2. CASE serviceInfoMap' = serviceInfoMap
      BY <2>2
    <2> QED BY <1>2, <2>1, <2>2
            DEF Next, Step, Call, ReturnEmpty, ReturnOutOfDate, Acquire, Compare,
                StoreTime, Announce, Raise, Tick, vars
  <1> QED BY <1>1, <1>2, Invariance, PTL
          DEF Spec, ImplementsNewestService, Abstract!Spec
=============================================================================
