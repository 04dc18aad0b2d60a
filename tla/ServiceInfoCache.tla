-------------------------- MODULE ServiceInfoCache --------------------------
(***************************************************************************)
(* class ServiceInfoCache of naming/cache/service_info_cache.py: the       *)
(* naming client's cache of services, filled from disk by the constructor  *)
(* and then by process_service, which any number of threads (UDP push      *)
(* receiver, subscribe, poller) may run at once.                           *)
(*                                                                         *)
(* One action per statement of process_service that another thread can     *)
(* observe.  A service is the JSON object the code works on, cut down to   *)
(* what it reads: the key fields, LastRefTime and Hosts.                   *)
(***************************************************************************)
EXTENDS Integers, FiniteSets

CONSTANTS
    Names, Clusters,        \* the values of service['Name'] and ['Clusters']
    Hosts,                  \* instances a service may list
    NoHosts,                \* the 'Hosts' member is missing from the object
    Services,               \* the service objects that arrive or lie on disk
    NoService,              \* Python's None
    Threads, NoThread,      \* callers of process_service; owner of a free lock
    UpdateCacheWhenEmpty,   \* the constructor's update_cache_when_empty
    NotLoadCacheAtStart,    \* client_config.not_load_cache_at_start
    MaxTime                 \* bound on the wall clock

ServiceType == [name : Names, clusters : Clusters, ref : Nat,
                hosts : (SUBSET Hosts) \cup {NoHosts}]

ASSUME ServicesAssumption == Services \subseteq ServiceType
ASSUME NoServiceAssumption == NoService \notin Services
ASSUME NoThreadAssumption == NoThread \notin Threads
ASSUME FlagsAssumption ==
    UpdateCacheWhenEmpty \in BOOLEAN /\ NotLoadCacheAtStart \in BOOLEAN
ASSUME TimeAssumption == MaxTime \in Nat

VARIABLES
    serviceInfoMap,     \* self.service_info_map
    updateTimeMap,      \* self.update_time_map; Never for a missing key
    lock,               \* self.lock: its owner or NoThread
    pc,                 \* the statement each thread is about to run
    service,            \* the argument of the call each thread is in
    oldDomain,          \* the local variable old_domain
    reading,            \* the clock reading a thread is about to store
    now,                \* the wall clock
    newestSeen,         \* history: newest LastRefTime of finished calls per key
    announced,          \* history: Hosts last logged as "was updated" per key
    unannounced         \* history: keys whose check raised after that

vars == <<serviceInfoMap, updateTimeMap, lock, pc, service, oldDomain,
          reading, now, newestSeen, announced, unannounced>>

Keys == Names \X Clusters
Never == 0
Entries == Services \cup {NoService}

\* f"{Name}@{Clusters}"; rendering the pair keeps pairs apart as long as no
\* cluster list contains '@' (names do: "group@@name").
CacheKey(s) == <<s.name, s.clusters>>
RefTime(s) == s.ref
RefOf(entry) == IF entry = NoService THEN -1 ELSE entry.ref

-----------------------------------------------------------------------------
(* The constructor: an empty cache, or what the disk cache returns (an     *)
(* external reader), stored as it is.                                      *)

LoadCacheFromDisk ==
    IF NotLoadCacheAtStart
    THEN {[k \in Keys |-> NoService]}
    ELSE {m \in [Keys -> Entries] :
             \A k \in Keys : m[k] # NoService => CacheKey(m[k]) = k}

Init ==
    /\ serviceInfoMap \in LoadCacheFromDisk
    /\ updateTimeMap = [k \in Keys |-> Never]
    /\ lock = NoThread
    /\ pc = [t \in Threads |-> "idle"]
    /\ service = [t \in Threads |-> NoService]
    /\ oldDomain = [t \in Threads |-> NoService]
    /\ reading = [t \in Threads |-> Never]
    /\ now = 1
    /\ newestSeen = [k \in Keys |-> RefOf(serviceInfoMap[k])]
    /\ announced = [k \in Keys |-> IF serviceInfoMap[k] = NoService
                                   THEN NoHosts ELSE serviceInfoMap[k].hosts]
    /\ unannounced = {}

-----------------------------------------------------------------------------
(* process_service.                                                        *)

\* if service is None: return
MutProcessed == Entries
Processed == {s \in Entries : s # NoService}

Call(t, s) ==
    /\ pc[t] = "idle"
    /\ pc' = [pc EXCEPT ![t] = "called"]
    /\ service' = [service EXCEPT ![t] = s]
    /\ UNCHANGED <<serviceInfoMap, updateTimeMap, lock, oldDomain, reading, now,
                   newestSeen, announced, unannounced>>

\* 'Hosts' not in service or not service['Hosts'], and the flag is off.
MutSkipsEmpty(s) == ~UpdateCacheWhenEmpty /\ s.hosts = NoHosts
SkipsEmpty(s) == ~UpdateCacheWhenEmpty /\ s.hosts \in {NoHosts, {}}

Return(t) ==
    /\ pc' = [pc EXCEPT ![t] = "idle"]
    /\ service' = [service EXCEPT ![t] = NoService]
    /\ oldDomain' = [oldDomain EXCEPT ![t] = NoService]
    /\ reading' = [reading EXCEPT ![t] = Never]

ReturnEmpty(t) ==
    /\ pc[t] = "called"
    /\ SkipsEmpty(service[t])
    /\ Return(t)
    /\ UNCHANGED <<serviceInfoMap, updateTimeMap, lock, now, newestSeen,
                   announced, unannounced>>

MutLockIsFree == TRUE
LockIsFree == lock = NoThread

Acquire(t) ==
    /\ pc[t] = "called"
    /\ ~SkipsEmpty(service[t])
    /\ LockIsFree
    /\ lock' = t
    /\ pc' = [pc EXCEPT ![t] = "compare"]
    /\ UNCHANGED <<serviceInfoMap, updateTimeMap, service, oldDomain, reading,
                   now, newestSeen, announced, unannounced>>

\* Leaving the with block, by return or by exception, frees the lock.
Finish(t) ==
    LET s == service[t] IN
    /\ lock' = NoThread
    /\ Return(t)
    /\ newestSeen' = [newestSeen EXCEPT
          ![CacheKey(s)] = IF s.ref > @ THEN s.ref ELSE @]

MutOutOfDateNever(entry, s) == FALSE
MutOutOfDateTooSoon(entry, s) == entry # NoService /\ RefTime(entry) + 1 >= RefTime(s)
OutOfDate(entry, s) == entry # NoService /\ RefTime(entry) >= RefTime(s)

ReturnOutOfDate(t) ==
    /\ pc[t] = "compare"
    /\ OutOfDate(serviceInfoMap[CacheKey(service[t])], service[t])
    /\ Finish(t)
    /\ UNCHANGED <<serviceInfoMap, updateTimeMap, now, announced, unannounced>>

\* The comparison is passed and the right-hand side of the next statement,
\* datetime.now(), is evaluated.
Compare(t) ==
    LET entry == serviceInfoMap[CacheKey(service[t])] IN
    /\ pc[t] = "compare"
    /\ ~OutOfDate(entry, service[t])
    /\ oldDomain' = [oldDomain EXCEPT ![t] = entry]
    /\ reading' = [reading EXCEPT ![t] = now]
    /\ pc' = [pc EXCEPT ![t] = "storeTime"]
    /\ UNCHANGED <<serviceInfoMap, updateTimeMap, lock, service, now, newestSeen,
                   announced, unannounced>>

StoreTime(t) ==
    /\ pc[t] = "storeTime"
    /\ updateTimeMap' =
          [updateTimeMap EXCEPT ![CacheKey(service[t])] = reading[t]]
    /\ pc' = [pc EXCEPT ![t] = "storeService"]
    /\ UNCHANGED <<serviceInfoMap, lock, service, oldDomain, reading, now,
                   newestSeen, announced, unannounced>>

StoreService(t) ==
    /\ pc[t] = "storeService"
    /\ serviceInfoMap' =
          [serviceInfoMap EXCEPT ![CacheKey(service[t])] = service[t]]
    /\ pc' = [pc EXCEPT ![t] = "announce"]
    /\ UNCHANGED <<updateTimeMap, lock, service, oldDomain, reading, now,
                   newestSeen, announced, unannounced>>

(* check_instance_changed: 'Hosts' missing on either side is a KeyError,   *)
(* two host objects cannot be sorted (a TypeError); both come after the    *)
(* entry was replaced.                                                     *)
SameLength(old, s) == Cardinality(old.hosts) = Cardinality(s.hosts)

CheckRaises(old, s) ==
    /\ old # NoService
    /\ NoHosts \notin {old.hosts, s.hosts} =>
          SameLength(old, s) /\ old.ref <= s.ref /\ Cardinality(s.hosts) > 1

MutCheckInstanceChanged(old, s) == old = NoService \/ ~SameLength(old, s)
CheckInstanceChanged(old, s) ==
    \/ old = NoService
    \/ ~SameLength(old, s)
    \/ old.ref <= s.ref /\ old.hosts # s.hosts

Announce(t) ==
    LET s == service[t] IN
    /\ pc[t] = "announce"
    /\ ~CheckRaises(oldDomain[t], s)
    /\ IF CheckInstanceChanged(oldDomain[t], s)
       THEN /\ announced' = [announced EXCEPT ![CacheKey(s)] = s.hosts]
            /\ unannounced' = unannounced \ {CacheKey(s)}
       ELSE UNCHANGED <<announced, unannounced>>
    /\ Finish(t)
    /\ UNCHANGED <<serviceInfoMap, updateTimeMap, now>>

MutRaise(t) ==
    /\ pc[t] = "announce"
    /\ CheckRaises(oldDomain[t], service[t])
    /\ Return(t)
    /\ UNCHANGED <<serviceInfoMap, updateTimeMap, lock, now, newestSeen,
                   announced, unannounced>>
Raise(t) ==
    /\ pc[t] = "announce"
    /\ CheckRaises(oldDomain[t], service[t])
    /\ unannounced' = unannounced \cup {CacheKey(service[t])}
    /\ Finish(t)
    /\ UNCHANGED <<serviceInfoMap, updateTimeMap, now, announced>>

Tick ==
    /\ now < MaxTime
    /\ now' = now + 1
    /\ UNCHANGED <<serviceInfoMap, updateTimeMap, lock, pc, service, oldDomain,
                   reading, newestSeen, announced, unannounced>>

-----------------------------------------------------------------------------
Step(t) ==
    \/ ReturnEmpty(t)
    \/ Acquire(t)
    \/ ReturnOutOfDate(t)
    \/ Compare(t)
    \/ StoreTime(t)
    \/ StoreService(t)
    \/ Announce(t)
    \/ Raise(t)

Next ==
    \/ \E t \in Threads : Step(t) \/ \E s \in Processed : Call(t, s)
    \/ Tick

\* A thread that is inside the call and not blocked keeps running.  Nothing
\* is assumed about which of several waiters the lock is handed to.
Fairness == \A t \in Threads : WF_vars(Step(t))

Spec == Init /\ [][Next]_vars
FairSpec == Spec /\ Fairness

-----------------------------------------------------------------------------
PCs == {"idle", "called", "compare", "storeTime", "storeService", "announce"}
Locked == {"compare", "storeTime", "storeService", "announce"}

\* The type invariant.
TypeOK ==
    /\ serviceInfoMap \in [Keys -> Entries]
    /\ updateTimeMap \in [Keys -> Nat]
    /\ lock \in Threads \cup {NoThread}
    /\ pc \in [Threads -> PCs]
    /\ service \in [Threads -> Entries]
    /\ oldDomain \in [Threads -> Entries]
    /\ reading \in [Threads -> Nat]
    /\ now \in Nat
    /\ newestSeen \in [Keys -> Int]
    /\ announced \in [Keys -> (SUBSET Hosts) \cup {NoHosts}]
    /\ unannounced \subseteq Keys
    /\ \A t \in Threads : pc[t] # "idle" => service[t] \in Services

\* Whatever the order in which pushes arrive and their threads interleave,
\* the entry of a key is at least as new as every push that process_service
\* finished with, and as what the disk held.
NewestWins ==
    \A k \in Keys : RefOf(serviceInfoMap[k]) >= newestSeen[k]

\* When nobody is inside the critical section the entry is exactly as new as
\* the newest finished push: no push that was let past the filter is lost.
NothingLost ==
    lock = NoThread =>
        \A k \in Keys : RefOf(serviceInfoMap[k]) = newestSeen[k]

\* Times in update_time_map never go back while the clock does not: it is read
\* and stored under the lock, so no thread overwrites a later reading.
UpdateTimesAdvance ==
    [][\A k \in Keys : updateTimeMap'[k] >= updateTimeMap[k]]_vars

\* With update_cache_when_empty off no step empties a key that had instances,
\* in particular not a push without instances that is newer than the entry.
NeverEmptied ==
    [][~UpdateCacheWhenEmpty =>
         \A k \in Keys :
            serviceInfoMap[k] # serviceInfoMap'[k]
                => serviceInfoMap'[k].hosts \notin {NoHosts, {}}]_vars

\* What was announced last is what is stored, unless the check of a change
\* raised since then: two changes never cancel out, no announcement goes to
\* another key, and an announcement makes up for the ones that were lost.
ChangesAnnounced ==
    lock = NoThread =>
        \A k \in Keys \ unannounced : serviceInfoMap[k] # NoService =>
                                         announced[k] = serviceInfoMap[k].hosts

\* The last change announced is the one stored, when nobody is storing.
AnnouncedIsCurrent ==
    lock = NoThread =>
        \A k \in Keys : serviceInfoMap[k] # NoService =>
                            announced[k] = serviceInfoMap[k].hosts

\* Whoever holds the lock gives it back, also when the change check raises.
LockFreed == \A t \in Threads : lock = t ~> lock # t

Abstract == INSTANCE NewestService WITH newest <- serviceInfoMap
\* Readers of the map see the abstract cache: entries change atomically and
\* only to strictly newer data.
ImplementsNewestService == Abstract!Spec
=============================================================================
