---------------------------- MODULE ConcurrentMap ----------------------------
(***************************************************************************)
(* config/cache/concurrent_map.py: a dictionary split into shards, each    *)
(* under a lock of its own.  One-key operations test and act under the     *)
(* lock of the key's shard; count locks one shard after another; iterating *)
(* (items, keys, values, iter_cb, marshal_json) locks a shard only while   *)
(* the generator over it is created and reads it without a lock.           *)
(*                                                                         *)
(* A shard's dict is contents restricted to its keys, each at its place in *)
(* the table of entries: a new key goes behind the last place, replacing a *)
(* value keeps the place, a deleted entry leaves a hole, and an iterator   *)
(* moves to the next place in use.  When a table of Capacity places or     *)
(* more is full, an insert rebuilds it without the holes, which moves the  *)
(* entries but not the iterators.                                          *)
(***************************************************************************)
EXTENDS Integers, FiniteSets

CONSTANTS
    Threads, NoThread,
    Keys, Values, Absent, Func(_, _, _),    \* see MapOperations
    Shards,             \* number of shards, SHARD_COUNT
    ShardOf,            \* fnv1a_32(key) % SHARD_COUNT, external
    Capacity,           \* places in the smallest table (5 in CPython), external
    Ops,                \* the one-key operations the callers use
    MaxInserts          \* bound: entries ever created

ASSUME ShardAssumption ==
    /\ Shards \in Nat \ {0}
    /\ ShardOf \in [Keys -> 1 .. Shards]
ASSUME ValueAssumption ==
    /\ Absent \notin Values
    /\ \A e \in BOOLEAN, c \in Values \cup {Absent}, v \in Values :
          Func(e, c, v) \in Values
ASSUME NoThreadAssumption == NoThread \notin Threads
ASSUME BoundAssumption == MaxInserts \in Nat /\ Capacity \in Nat \ {0}

VARIABLES
    contents,   \* the _items of all shards
    place,      \* where each key's entry is in its shard's table, 0 if nowhere
    used,       \* places used up in each shard's table, holes included
    inserts,    \* entries created so far
    lock,       \* each shard's _lock: its owner or NoThread
    pc,
    op,         \* the one-key operation a thread is in: [name, key, value]
    seen,       \* the entry it found when it tested its key
    returned,   \* what its last one-key operation returned
    scan,       \* its count or iteration
    stable,     \* history: keys present ever since its scan began
    ever,       \* history: keys present at some moment since then
    rebuilt     \* history: a table was rebuilt since then

data == <<contents, place, used, inserts>>
history == <<stable, ever, rebuilt>>
vars == <<data, lock, pc, op, seen, returned, scan, history>>

Atomic == INSTANCE AtomicMap
NoOp == Atomic!NoOp
Entries == Values \cup {Absent}
Present == {k \in Keys : contents[k] # Absent}
InShard(i) == {k \in Present : ShardOf[k] = i}

\* A scan is in one shard.  A count has the sum so far; an iteration the size
\* and the remaining length its dict iterator keeps, the place it last visited,
\* the key whose value it reads next and how often it yielded each key.
NoScan == [shard |-> 1, sum |-> 0, size |-> 0, left |-> 0, place |-> 0,
           key |-> Absent, yielded |-> [k \in Keys |-> 0]]

Init ==
    /\ contents = [k \in Keys |-> Absent]
    /\ place = [k \in Keys |-> 0]
    /\ used = [i \in 1 .. Shards |-> 0]
    /\ inserts = 0
    /\ lock = [i \in 1 .. Shards |-> NoThread]
    /\ pc = [t \in Threads |-> "idle"]
    /\ op = [t \in Threads |-> NoOp]
    /\ seen = [t \in Threads |-> Absent]
    /\ returned = [t \in Threads |-> [ok |-> TRUE, value |-> Absent]]
    /\ scan = [t \in Threads |-> NoScan]
    /\ stable = [t \in Threads |-> {}]
    /\ ever = [t \in Threads |-> {}]
    /\ rebuilt = [t \in Threads |-> FALSE]

Goto(t, label) == pc' = [pc EXCEPT ![t] = label]

-----------------------------------------------------------------------------
(* One-key operations: take the lock of the key's shard, test, act.        *)

\* The bound on inserts, which leaves room for the calls already made.
Inserting == {"set", "setIfAbsent", "upsert"}
RoomToInsert ==
    inserts + Cardinality({u \in Threads : op[u].name \in Inserting}) < MaxInserts

Call(t, o) ==
    /\ pc[t] = "idle"
    /\ o.name \in Inserting => RoomToInsert
    /\ op' = [op EXCEPT ![t] = o]
    /\ Goto(t, "acquire")
    /\ UNCHANGED <<data, lock, seen, returned, scan, history>>

MutLockIsFree(i) == TRUE
LockIsFree(i) == lock[i] = NoThread

Acquire(t) ==
    LET i == ShardOf[op[t].key] IN
    /\ pc[t] = "acquire"
    /\ LockIsFree(i)
    /\ lock' = [lock EXCEPT ![i] = t]
    /\ Goto(t, "test")
    /\ UNCHANGED <<data, op, seen, returned, scan, history>>

\* "key in self._items"; upsert's .get as well.
Test(t) ==
    /\ pc[t] = "test"
    /\ seen' = [seen EXCEPT ![t] = contents[op[t].key]]
    /\ Goto(t, "act")
    /\ UNCHANGED <<data, lock, op, returned, scan, history>>

Running(t, name) == pc[t] = "act" /\ op[t].name = name
Current(t) == contents[op[t].key]

ScanPCs == {"count", "counted", "open", "next", "read", "iterated", "failed"}

\* A new key takes the next place, in the table as it is or as rebuilt.
Rank(k, keys) == Cardinality({j \in keys : place[j] <= place[k]})

Place(k, i) ==
    /\ used' = [used EXCEPT ![i] = @ + 1]
    /\ place' = [place EXCEPT ![k] = used[i] + 1]
    /\ UNCHANGED rebuilt

Rebuild(k, i) ==
    LET size == Cardinality(InShard(i)) IN
    /\ used[i] >= Capacity
    /\ used' = [used EXCEPT ![i] = size + 1]
    /\ place' = [j \in Keys |-> IF j = k THEN size + 1
                                ELSE IF j \in InShard(i) THEN Rank(j, InShard(i))
                                ELSE place[j]]
    /\ rebuilt' = [u \in Threads |-> rebuilt[u] \/ pc[u] \in ScanPCs]

\* Leave the entry behind, free the lock, return.
Finish(t, entry, ok, value) ==
    LET k == op[t].key
        i == ShardOf[k]
        creates == contents[k] = Absent /\ entry # Absent
    IN
    /\ contents' = [contents EXCEPT ![k] = entry]
    /\ \/ creates /\ inserts' = inserts + 1 /\ (Place(k, i) \/ Rebuild(k, i))
       \/ /\ ~creates
          /\ place' = [place EXCEPT ![k] = IF entry = Absent THEN 0 ELSE @]
          /\ UNCHANGED <<used, inserts, rebuilt>>
    /\ lock' = [lock EXCEPT ![i] = NoThread]
    /\ returned' = [returned EXCEPT ![t] = [ok |-> ok, value |-> value]]
    /\ op' = [op EXCEPT ![t] = NoOp]
    /\ seen' = [seen EXCEPT ![t] = Absent]
    /\ Goto(t, "idle")
    /\ stable' = [u \in Threads |-> IF entry = Absent THEN stable[u] \ {k}
                                                      ELSE stable[u]]
    /\ ever' = [u \in Threads |-> IF entry # Absent /\ pc[u] \in ScanPCs
                                  THEN ever[u] \cup {k} ELSE ever[u]]
    /\ UNCHANGED scan

Set(t) == Running(t, "set") /\ Finish(t, op[t].value, TRUE, Absent)
Get(t) == Running(t, "get") /\ Finish(t, Current(t), TRUE, Current(t))
Has(t) == Running(t, "has") /\ Finish(t, Current(t), Current(t) # Absent, Absent)

SetIfAbsent(t) ==
    /\ Running(t, "setIfAbsent")
    /\ Finish(t, IF seen[t] = Absent THEN op[t].value ELSE Current(t), TRUE, Absent)

Upsert(t) ==
    LET new == Func(seen[t] # Absent, seen[t], op[t].value) IN
    Running(t, "upsert") /\ Finish(t, new, TRUE, new)

\* del and .pop of a key that was there raise KeyError if it is there no more.
Gone(t) == seen[t] # Absent /\ Current(t) = Absent

Delete(t) ==
    /\ Running(t, "delete")
    /\ Finish(t, IF seen[t] = Absent THEN Current(t) ELSE Absent, ~Gone(t), Absent)

Pop(t) ==
    /\ Running(t, "pop")
    /\ \/ seen[t] = Absent /\ Finish(t, Current(t), TRUE, Absent)
       \/ seen[t] # Absent /\ Finish(t, Absent, ~Gone(t), Current(t))

-----------------------------------------------------------------------------
(* Scans.  Leaving one records nothing: the properties look at the state in *)
(* which it is about to leave.                                              *)

BeginScan(t, label) ==
    /\ pc[t] = "idle"
    /\ Goto(t, label)
    /\ stable' = [stable EXCEPT ![t] = Present]
    /\ ever' = [ever EXCEPT ![t] = Present]
    /\ UNCHANGED <<data, lock, op, seen, returned, scan, rebuilt>>

EndScan(t) ==
    /\ pc[t] \in {"counted", "iterated", "failed"}
    /\ Goto(t, "idle")
    /\ scan' = [scan EXCEPT ![t] = NoScan]
    /\ stable' = [stable EXCEPT ![t] = {}]
    /\ ever' = [ever EXCEPT ![t] = {}]
    /\ rebuilt' = [rebuilt EXCEPT ![t] = FALSE]
    /\ UNCHANGED <<data, lock, op, seen, returned>>

Scanning == <<data, lock, op, seen, returned, history>>
MutLastShard(t) == scan[t].shard + 1 >= Shards
LastShard(t) == scan[t].shard = Shards

\* The lock is taken and freed around one len(), so that this is one step.
CountShard(t) ==
    LET i == scan[t].shard IN
    /\ pc[t] = "count"
    /\ LockIsFree(i)
    /\ scan' = [scan EXCEPT ![t].sum = @ + Cardinality(InShard(i)),
                            ![t].shard = IF LastShard(t) THEN @ ELSE @ + 1]
    /\ Goto(t, IF LastShard(t) THEN "counted" ELSE "count")
    /\ UNCHANGED Scanning

\* Shard.__iter__: the generator and its dict iterator are made under the lock.
OpenShard(t) ==
    LET size == Cardinality(InShard(scan[t].shard)) IN
    /\ pc[t] = "open"
    /\ LockIsFree(scan[t].shard)
    /\ scan' = [scan EXCEPT ![t].size = size, ![t].left = size, ![t].place = 0]
    /\ Goto(t, "next")
    /\ UNCHANGED Scanning

Ahead(t) == {k \in InShard(scan[t].shard) : place[k] > scan[t].place}
SizeChanged(t) == Cardinality(InShard(scan[t].shard)) # scan[t].size

\* "dictionary changed size during iteration", or its keys did.
NextRaises(t) ==
    /\ pc[t] = "next"
    /\ SizeChanged(t) \/ (Ahead(t) # {} /\ scan[t].left = 0)

IterationFails(t) ==
    /\ NextRaises(t)
    /\ Goto(t, "failed")
    /\ UNCHANGED <<scan, Scanning>>

NextKey(t) ==
    /\ pc[t] = "next"
    /\ ~NextRaises(t)
    /\ \E k \in Ahead(t) :
          /\ \A j \in Ahead(t) : place[k] <= place[j]
          /\ scan' = [scan EXCEPT ![t].key = k, ![t].place = place[k],
                                  ![t].left = @ - 1]
    /\ Goto(t, "read")
    /\ UNCHANGED Scanning

\* self._items[key], without the lock: the entry may have gone.
ReadValue(t) ==
    /\ pc[t] = "read"
    /\ contents[scan[t].key] # Absent
    /\ scan' = [scan EXCEPT ![t].yielded[scan[t].key] = @ + 1, ![t].key = Absent]
    /\ Goto(t, "next")
    /\ UNCHANGED Scanning

ReadFails(t) ==
    /\ pc[t] = "read"
    /\ contents[scan[t].key] = Absent
    /\ Goto(t, "failed")
    /\ UNCHANGED <<scan, Scanning>>

EndShard(t) ==
    /\ pc[t] = "next"
    /\ ~NextRaises(t)
    /\ Ahead(t) = {}
    /\ scan' = [scan EXCEPT ![t].shard = IF LastShard(t) THEN @ ELSE @ + 1]
    /\ Goto(t, IF LastShard(t) THEN "iterated" ELSE "open")
    /\ UNCHANGED Scanning

-----------------------------------------------------------------------------
Step(t) ==
    \/ Acquire(t) \/ Test(t)
    \/ Set(t) \/ Get(t) \/ Has(t) \/ Delete(t) \/ Pop(t)
    \/ SetIfAbsent(t) \/ Upsert(t)
    \/ CountShard(t)
    \/ OpenShard(t) \/ NextKey(t) \/ ReadValue(t) \/ EndShard(t)
    \/ IterationFails(t) \/ ReadFails(t)
    \/ EndScan(t)

Start(t) ==
    \/ \E o \in Atomic!Operations : o.name \in Ops /\ Call(t, o)
    \/ BeginScan(t, "count")
    \/ BeginScan(t, "open")

Next == \E t \in Threads : Step(t) \/ Start(t)

Spec == Init /\ [][Next]_vars

-----------------------------------------------------------------------------
PCs == {"idle", "acquire", "test", "act"} \cup ScanPCs

\* The type invariant.
TypeOK ==
    /\ contents \in [Keys -> Entries]
    /\ place \in [Keys -> 0 .. MaxInserts]
    /\ used \in [1 .. Shards -> 0 .. MaxInserts]
    /\ inserts \in 0 .. MaxInserts
    /\ lock \in [1 .. Shards -> Threads \cup {NoThread}]
    /\ pc \in [Threads -> PCs]
    /\ \A t \in Threads : pc[t] \in {"acquire", "test", "act"} =>
          op[t] \in Atomic!Operations
    /\ seen \in [Threads -> Entries]
    /\ returned \in [Threads -> [ok : BOOLEAN, value : Entries]]

\* count() is no snapshot, but not below the number of keys that stayed, nor
\* above the number of keys that were there at some moment while it ran.
CountBetween ==
    \A t \in Threads : pc[t] = "counted" =>
        /\ Cardinality(stable[t]) <= scan[t].sum
        /\ scan[t].sum <= Cardinality(ever[t])

\* An iteration that comes to its end has yielded every key that stayed
\* throughout exactly once, although it read the shards without their locks,
\* unless a table was rebuilt: then it may have skipped some, and repeats none.
StableKeysOnce ==
    \A t \in Threads : pc[t] = "iterated" =>
        \A k \in stable[t] : \/ scan[t].yielded[k] = 1
                             \/ rebuilt[t] /\ scan[t].yielded[k] = 0

\* One-key operations are atomic: no interleaving loses an upsert, stores twice
\* under setIfAbsent, pops a value twice or raises KeyError.
ImplementsAtomicMap == Atomic!Spec
=============================================================================
