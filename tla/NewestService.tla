--------------------------- MODULE NewestService ---------------------------
(***************************************************************************)
(* What the naming cache of naming/cache/service_info_cache.py promises    *)
(* its readers: one entry per cache key, replaced atomically and only by   *)
(* data that the server stamped strictly later (LastRefTime).  Threads,    *)
(* the lock and the bookkeeping of the implementation do not appear here.  *)
(***************************************************************************)
EXTENDS Integers

CONSTANTS
    Keys,           \* the cache keys, "Name@Clusters"
    Services,       \* the service snapshots a server may send
    NoService,      \* the value of .get(key, None) for a key that is absent
    CacheKey(_),    \* the key a snapshot is stored under
    RefTime(_)      \* a snapshot's LastRefTime

VARIABLE newest     \* key -> the snapshot readers of that key see

Entries == Services \cup {NoService}

\* A start from disk: each key holds nothing or a snapshot of that key.
Init ==
    newest \in {m \in [Keys -> Entries] :
                   \A k \in Keys : m[k] # NoService => CacheKey(m[k]) = k}

Newer(s, entry) == entry = NoService \/ RefTime(entry) < RefTime(s)

Install(s) ==
    /\ Newer(s, newest[CacheKey(s)])
    /\ newest' = [newest EXCEPT ![CacheKey(s)] = s]

Next == \E s \in Services : Install(s)

Spec == Init /\ [][Next]_newest
=============================================================================
