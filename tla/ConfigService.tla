--------------------------- MODULE ConfigService ---------------------------
(***************************************************************************)
(* ConfigService of config/config_client.py with ConfigProxy's queries and *)
(* the snapshots on disk: the cache of listened configurations, the        *)
(* rounds of the listening loop, and the calls of user threads.  Every     *)
(* query asks is_limited first (Limiter), the users' and the loop's alike. *)
(*                                                                         *)
(* A version stands for content and its md5.  Nothing writes a snapshot    *)
(* (lines 40 to 45 of disk_cache.py are stubs), so they keep the version   *)
(* an earlier program left.  is_initializing only reaches a header and the *)
(* log, and is left out.                                                   *)
(*                                                                         *)
(* start_internal is a coroutine that line 144 calls and nothing awaits:   *)
(* loopStarts says whether it runs.  Completed, since each raises always:  *)
(* cache_map is a dict, query_config takes no client and returns a pair,   *)
(* read_config_from_file's pair is unpacked, build_listen_task has its     *)
(* parameter, task_id for taskId and a map of lists, last_all_sync_time is *)
(* the service's own, CacheData has listeners, a list, is_sync_with_server,*)
(* FALSE at first, and cache_data_listener, and the names that the files   *)
(* do not define (execute_listener, last_md5, is_shutdown, listen_execute's*)
(* get, remove_tenant_listener, create_rpc_client, Constant, errorMsg,     *)
(* response.Response, the imports) do what they say.  Not completed, since *)
(* it raises only when something has changed: async_notify_listen_config   *)
(* (430), which does not exist.                                            *)
(***************************************************************************)
EXTENDS Limiter, FiniteSets, Sequences

CONSTANTS
    Listener,       \* the thread of the listening loop
    Worlds,         \* what the user threads may call in a run, with which keys,
                    \* and the files on disk
    MaxVersion,     \* bound: versions of a configuration
    MaxEntries,     \* bound: CacheData objects that are made
    PerTask         \* perTaskConfigSize, 3000 in the code

Operations == {"get", "add", "remove", "publish", "removeConfig"}
ASSUME ServiceAssumption ==
    /\ Listener \in Threads
    /\ Worlds \subseteq [calls : [Threads \ {Listener} -> SUBSET (Operations \X Keys)],
                        snapshots : SUBSET Keys, failovers : SUBSET Keys,
                        disableUseSnapShot : BOOLEAN]
    /\ MaxVersion \in Nat \ {0}
    /\ MaxEntries \in Nat
    /\ PerTask \in Nat \ {0}

VARIABLES
    loopStarts,
    world,          \* the member of Worlds of this run
    server,         \* the latest version of each configuration at the server
    present,        \* the configurations the server has
    cacheData,      \* the CacheData objects made, in order
    cacheMap,       \* cache_map: the object of each key, 0 for none
    syncDue,        \* last_all_sync_time is ALL_SYNC_INTERNAL ago
    at,             \* what each thread does between its calls of is_limited
    building,       \* the object add_listener has made and not yet stored
    round,          \* local variables of execute_config_listen
    answer,         \* the content that a thread has in hand, of key[t]
    seen,           \* history: the newest version of a key that anyone was told or got
    known           \* history: what seen[key[t]] was when the user's get_config began

serverVars == <<server, present>>
cacheVars == <<cacheData, cacheMap, building>>
limiterVars == vars
readVars == <<answer, seen, known>>
serviceVars == <<loopStarts, world, serverVars, cacheVars, syncDue, at, round, readVars>>
allVars == <<limiterVars, serviceVars>>

Users == Threads \ {Listener}
Unheard == 0                        \* no content yet: last_md5 of a listener
NoContent == 0                      \* an error's content, or the blank of a failed query
Listed == {cacheMap[k] : k \in Keys} \ {0}
NoData == [key |-> CHOOSE k \in Keys : TRUE, content |-> 0, told |-> 0, synced |-> FALSE, task |-> 0]
NoRound == [all |-> FALSE, seen |-> {}, size |-> 0, batch |-> {}, sent |-> {}, changed |-> {},
            news |-> FALSE, entry |-> 0]

ServiceInit ==
    /\ Init /\ key = [t \in Threads |-> NoData.key]
    /\ loopStarts \in BOOLEAN
    /\ world \in Worlds
    /\ server = [k \in Keys |-> 1] /\ present = Keys
    /\ cacheData = <<>>
    /\ cacheMap = [k \in Keys |-> 0]
    /\ syncDue = FALSE
    /\ at = [t \in Threads |-> "idle"]
    /\ building = [t \in Users |-> NoData]
    /\ round = NoRound
    /\ answer = [t \in Threads |-> NoContent]
    /\ seen = [k \in Keys |-> Unheard]
    /\ known = [t \in Users |-> Unheard]

Turn(t, from, to) == at[t] = from /\ at' = [at EXCEPT ![t] = to]

-----------------------------------------------------------------------------
\* query_config: is_limited lets the query pass, or ends it as an error would;
\* whatever else is_limited raises ends the caller, too.
Asks(t, k) == Call(t, k)

LimitedStep(t) ==
    /\ \/ (Acquire(t) \/ LookUp(t) \/ Make(t) \/ Store(t)) /\ UNCHANGED at
       \/ Admit(t) /\ Turn(t, "limit", "query")
       \/ Refuse(t) /\ Turn(t, "limit", IF t = Listener THEN "refresh" ELSE "fallback")
       \/ Raise(t) /\ Turn(t, "limit", IF t = Listener THEN "refresh" ELSE "idle")
    /\ UNCHANGED <<loopStarts, world, serverVars, cacheVars, syncDue, round, readVars>>

QueryOnly ==
    UNCHANGED <<limiterVars, loopStarts, world, serverVars, cacheVars, syncDue, round, seen, known>>

\* The server answers with the configuration; the caller has it in hand while
\* others publish, listen and read.
AnsweredWith(t) ==
    /\ key[t] \in present
    /\ Turn(t, "query", "received")
    /\ answer' = [answer EXCEPT ![t] = server[key[t]]]
    /\ QueryOnly

\* An answer with the code of an error, of which 300 is that there is none.
AnsweredWithError(t) ==
    /\ Turn(t, "query", "received")
    /\ UNCHANGED answer /\ QueryOnly

\* No response: request_proxy returns what the client raised, which is no
\* ConfigQueryResponse; code 400 counts as none, too.  The loop's caller then
\* reads the content of None, which raises.
Unanswered(t) ==
    /\ Turn(t, "query", IF t = Listener THEN "received" ELSE "fallback")
    /\ UNCHANGED answer /\ QueryOnly

QueryStep(t) == AnsweredWith(t) \/ AnsweredWithError(t) \/ Unanswered(t)

Newer(v, w) == IF v >= w THEN v ELSE w
Hears(k, v) == seen' = [seen EXCEPT ![k] = Newer(@, v)]

-----------------------------------------------------------------------------
\* A user thread's get_config.  With a failover file the call raises before it
\* queries anything: line 181 returns a pair where line 156 takes three.
HasFailover(k) == k \in world.failovers

GetConfig(t, k) ==
    /\ <<"get", k>> \in world.calls[t]
    /\ ~HasFailover(k)
    /\ Turn(t, "idle", "limit")
    /\ Asks(t, k)
    /\ known' = [known EXCEPT ![t] = seen[k]]
    /\ UNCHANGED <<loopStarts, world, serverVars, cacheVars, syncDue, round, answer, seen>>

\* The file is there, and can be read.
HasSnapshot(k) == k \in world.snapshots

MutReadsSnapshot(k) == HasSnapshot(k)
ReadsSnapshot(k) == HasSnapshot(k) /\ ~world.disableUseSnapShot

\* The snapshot in place of the answer; without one a blank, as if it were the
\* content: what the logger returns, None, stands for the error (190, 194).
GetConfigFallsBack(t) ==
    /\ Turn(t, "fallback", "received")
    /\ answer' = [answer EXCEPT ![t] = IF ReadsSnapshot(key[t]) THEN 1 ELSE NoContent]
    /\ QueryOnly

\* The content in hand, unless a filter raises; or the message of an error.
GetConfigReturns(t) ==
    /\ t \in Users /\ Turn(t, "received", "idle")
    /\ Hears(key[t], answer[t]) \/ UNCHANGED seen
    /\ answer' = [answer EXCEPT ![t] = NoContent]
    /\ known' = [known EXCEPT ![t] = Unheard]
    /\ UNCHANGED <<limiterVars, loopStarts, world, serverVars, cacheVars, syncDue, round>>

\* add_listener: a key that is listed keeps the listeners it has.  A new one
\* starts from its snapshot, of version 1, and is not listed without one;
\* is_sync_with_server is not set.
AddListener(t, k) ==
    /\ <<"add", k>> \in world.calls[t]
    /\ cacheMap[k] = 0 /\ HasSnapshot(k)
    /\ Turn(t, "idle", "insert")
    /\ building' = [building EXCEPT ![t] =
           [key |-> k, content |-> 1, told |-> Unheard, synced |-> FALSE,
            task |-> Cardinality(Listed) \div PerTask]]
    /\ UNCHANGED <<limiterVars, loopStarts, world, serverVars, cacheData, cacheMap, syncDue, round, readVars>>

\* Under the lock, without another look at the map.
Insert(t) ==
    /\ Turn(t, "insert", "idle")
    /\ Len(cacheData) < MaxEntries
    /\ cacheData' = Append(cacheData, building[t])
    /\ cacheMap' = [cacheMap EXCEPT ![building[t].key] = Len(cacheData) + 1]
    /\ building' = [building EXCEPT ![t] = NoData]
    /\ UNCHANGED <<limiterVars, loopStarts, world, serverVars, syncDue, round, readVars>>

RemoveListener(t, k) ==
    /\ <<"remove", k>> \in world.calls[t]
    /\ at[t] = "idle" /\ cacheMap[k] # 0
    /\ cacheMap' = [cacheMap EXCEPT ![k] = 0]
    /\ UNCHANGED <<limiterVars, loopStarts, world, serverVars, cacheData, building, syncDue, at, round, readVars>>

\* publish_config and remove_config; a user thread also stands for another
\* client.  A call that fails changes nothing, although publish_config returns
\* True then, too.
PublishConfig(t, k) ==
    /\ <<"publish", k>> \in world.calls[t]
    /\ server[k] < MaxVersion
    /\ server' = [server EXCEPT ![k] = @ + 1]
    /\ present' = present \cup {k}
    /\ UNCHANGED <<limiterVars, loopStarts, world, cacheVars, syncDue, at, round, readVars>>

RemoveConfig(t, k) ==
    /\ <<"removeConfig", k>> \in world.calls[t]
    /\ present' = present \ {k}
    /\ UNCHANGED <<limiterVars, loopStarts, world, server, cacheVars, syncDue, at, round, readVars>>

-----------------------------------------------------------------------------
\* The loops of execute_config_listen over cache_map take no lock: an iterator
\* raises once the number of entries is not what it was at the start.
Iterates == [seen |-> {}, size |-> Cardinality(Listed)]
Undisturbed == Cardinality(Listed) = round.size
Iterated == ~Undisturbed \/ Listed \subseteq round.seen

AllSyncDue ==
    /\ loopStarts /\ syncDue' = TRUE
    /\ UNCHANGED <<limiterVars, loopStarts, world, serverVars, cacheVars, at, round, readVars>>

ListenerKeeps == UNCHANGED <<limiterVars, loopStarts, world, serverVars, cacheMap, building, known>>
ListenerOnly == ListenerKeeps /\ UNCHANGED <<answer, seen>>

Wake ==
    /\ loopStarts /\ Turn(Listener, "idle", "build")
    /\ round' = [NoRound EXCEPT !.all = syncDue, !.size = Cardinality(Listed)]
    /\ UNCHANGED <<cacheData, syncDue>> /\ ListenerOnly

Tell(e) == [e EXCEPT !.told = e.content]

IsListenedTo(e, all) == ~e.synced \/ all

BuildListenTask(i) ==
    /\ at[Listener] = "build" /\ Undisturbed /\ i \in Listed \ round.seen
    /\ IF cacheData[i].synced
       THEN /\ cacheData' = [cacheData EXCEPT ![i] = Tell(@)]
            /\ Hears(cacheData[i].key, cacheData[i].content)
       ELSE UNCHANGED <<cacheData, seen>>
    /\ round' = [round EXCEPT !.seen = @ \cup {i},
                              !.batch = IF IsListenedTo(cacheData[i], round.all) THEN @ \cup {i} ELSE @]
    /\ UNCHANGED <<syncDue, at, answer>> /\ ListenerKeeps

\* An iterator that raises ends the round.
Built ==
    /\ Turn(Listener, "build", IF Undisturbed THEN "tasks" ELSE "idle") /\ Iterated
    /\ round' = IF Undisturbed THEN [round EXCEPT !.seen = {}, !.size = 0] ELSE NoRound
    /\ UNCHANGED <<cacheData, syncDue>> /\ ListenerOnly

OfTask(n) == {i \in round.batch : cacheData[i].task = n}

SendListenRequest(n) ==
    /\ Turn(Listener, "tasks", "answer") /\ OfTask(n) # {}
    /\ round' = [round EXCEPT !.sent = OfTask(n), !.batch = @ \ OfTask(n)]
    /\ UNCHANGED <<cacheData, syncDue>> /\ ListenerOnly

RoundEnds ==
    /\ Turn(Listener, "tasks", "idle") /\ round.batch = {}
    /\ round' = NoRound
    /\ UNCHANGED <<cacheData, syncDue>> /\ ListenerOnly

\* The finally block resets the time whatever has come of the request.  When
\* something has changed, line 430 then raises out of the round, and the tasks
\* that are left are not asked.
Finally(from) ==
    /\ syncDue' = IF round.all THEN FALSE ELSE syncDue
    /\ Turn(Listener, from, IF round.news THEN "idle" ELSE "tasks")
    /\ round' = IF round.news THEN NoRound
                ELSE [NoRound EXCEPT !.all = round.all, !.batch = round.batch]

ListenRequestFails ==
    /\ Finally("answer")
    /\ UNCHANGED cacheData /\ ListenerOnly

Current(k) == IF k \in present THEN server[k] ELSE 0

SentKeys == {cacheData[i].key : i \in round.sent}

Changed == {k \in SentKeys : \E i \in round.sent :
               cacheData[i].key = k /\ cacheData[i].content # Current(k)}

ListenRequestAnswered ==
    /\ Turn(Listener, "answer", "refresh")
    /\ round' = [round EXCEPT !.sent = {}, !.changed = Changed, !.news = (Changed # {})]
    /\ UNCHANGED <<cacheData, syncDue>> /\ ListenerOnly

\* refresh_content_and_check, for a changed key that is still listed.
Refresh(k) ==
    /\ k \in round.changed
    /\ round' = [round EXCEPT !.changed = @ \ {k}, !.entry = cacheMap[k]]
    /\ UNCHANGED <<loopStarts, world, serverVars, cacheVars, syncDue, readVars>>
    /\ IF cacheMap[k] = 0
       THEN at[Listener] = "refresh" /\ UNCHANGED <<limiterVars, at>>
       ELSE Turn(Listener, "refresh", "limit") /\ Asks(Listener, k)

\* The answer is stored and the listener told of it, if it is news.
QuerySucceeds ==
    /\ Turn(Listener, "received", "refresh") /\ answer[Listener] # NoContent
    /\ cacheData' = [cacheData EXCEPT ![round.entry] = Tell([@ EXCEPT !.content = answer[Listener]])]
    /\ Hears(cacheData[round.entry].key, answer[Listener])
    /\ answer' = [answer EXCEPT ![Listener] = NoContent]
    /\ UNCHANGED <<syncDue, round>> /\ ListenerKeeps

MutQueryFails ==
    /\ Turn(Listener, "received", "refresh") /\ answer[Listener] = NoContent
    /\ cacheData' = [cacheData EXCEPT ![round.entry] = Tell([@ EXCEPT !.content = 1])]
    /\ UNCHANGED <<syncDue, round>> /\ ListenerOnly
\* No answer, an error, or no such configuration: the entry is left as it is.
QueryFails ==
    /\ Turn(Listener, "received", "refresh") /\ answer[Listener] = NoContent
    /\ UNCHANGED <<cacheData, syncDue, round>> /\ ListenerOnly

\* Then every entry counts as synchronised: nothing is put into change_keys.
Refreshed ==
    /\ Turn(Listener, "refresh", "mark") /\ round.changed = {}
    /\ round' = [round EXCEPT !.entry = 0, !.seen = {}, !.size = Cardinality(Listed)]
    /\ UNCHANGED <<cacheData, syncDue>> /\ ListenerOnly

Mark(i) ==
    /\ at[Listener] = "mark" /\ Undisturbed /\ i \in Listed \ round.seen
    /\ cacheData' = [cacheData EXCEPT ![i].synced = TRUE]
    /\ round' = [round EXCEPT !.seen = @ \cup {i}]
    /\ UNCHANGED <<syncDue, at>> /\ ListenerOnly

Marked ==
    /\ Iterated /\ Finally("mark")
    /\ UNCHANGED cacheData /\ ListenerOnly

-----------------------------------------------------------------------------
LoopStep ==
    \/ \E i \in Listed : BuildListenTask(i) \/ Mark(i)
    \/ Built \/ RoundEnds
    \/ \E n \in 0 .. MaxEntries : SendListenRequest(n)
    \/ ListenRequestFails \/ ListenRequestAnswered
    \/ \E k \in Keys : Refresh(k)
    \/ QueryStep(Listener) \/ QuerySucceeds \/ QueryFails
    \/ Refreshed \/ Marked

UserStep(t) ==
    \/ \E k \in Keys :
        \/ GetConfig(t, k) \/ AddListener(t, k) \/ RemoveListener(t, k)
        \/ PublishConfig(t, k) \/ RemoveConfig(t, k)
    \/ QueryStep(t) \/ GetConfigFallsBack(t) \/ GetConfigReturns(t)
    \/ Insert(t)

PeriodBegins == NewPeriod /\ UNCHANGED serviceVars

ServiceNext ==
    \/ \E t \in Threads : LimitedStep(t)
    \/ \E t \in Users : UserStep(t)
    \/ PeriodBegins \/ AllSyncDue \/ Wake \/ LoopStep

ServiceSpec == ServiceInit /\ [][ServiceNext]_allVars

\* The loop goes on, the interval passes, and a call that is in is_limited
\* leaves it: the listener's, too, when users ask for mux again and again.
Progress ==
    /\ WF_allVars(Wake) /\ WF_allVars(LoopStep) /\ WF_allVars(AllSyncDue)
    /\ \A t \in Users : WF_allVars(LimitedStep(t))
    /\ SF_allVars(LimitedStep(Listener))

\* A loop that asks again and again is answered, in the end, in a round of all
\* entries, and about each key; the users do not use up every period first.
Luck ==
    \A k \in Keys :
        /\ SF_allVars(round.all /\ k \in SentKeys /\ ListenRequestAnswered)
        /\ SF_allVars(key[Listener] = k /\ pc[Listener] = "allow" /\ PeriodBegins)
        /\ SF_allVars(key[Listener] = k /\ Admit(Listener) /\ LimitedStep(Listener))
        /\ SF_allVars(key[Listener] = k /\ AnsweredWith(Listener))

ServiceFairSpec == ServiceSpec /\ Progress /\ Luck

-----------------------------------------------------------------------------
NothingMissing == \A k \in Keys : cacheMap[k] # 0 => k \in present


\* The listener of an entry is never told of a version older than the one it
\* was told of last (execute_listener, lines 460 and 471).
NeverToldBack ==
    [][\A i \in DOMAIN cacheData : cacheData'[i].told >= cacheData[i].told]_allVars

\* Nothing else can answer a query of k.
OnlyServerAnswers(k) == world.disableUseSnapShot \/ ~HasSnapshot(k)

\* What get_config is about to return, where no snapshot may stand in for the
\* server, is not older than anything that a user had got or a listener had been
\* told when it was called (lines 184 to 205), although the answer may have been
\* overtaken since.  The blank of a failed query is no content.
NeverReadBack ==
    \A t \in Users :
        at[t] = "received" /\ answer[t] # NoContent /\ OnlyServerAnswers(key[t])
            => answer[t] >= known[t]
=============================================================================
