------------------------- MODULE ConcurrentMapProofs -------------------------
(***************************************************************************)
(* For every number of threads, keys, values and shards, and whatever      *)
(* upsert's callback does:                                                 *)
(*  - the one-key operations are atomic: a thread that has tested its key  *)
(*    holds the lock of the key's shard, so what it tested is still there  *)
(*    when it acts;                                                        *)
(*  - count() lies between the keys that stayed and those that were there  *)
(*    at some moment: so does what it has summed, over the shards passed;  *)
(*  - an iteration yields the keys that stayed once, although it reads     *)
(*    without a lock: entries stay at their places, or move towards the    *)
(*    front when the table is rebuilt, and the iterator's place tells      *)
(*    which of them it has met.                                            *)
(***************************************************************************)
EXTENDS ConcurrentMap, FiniteSetTheorems, TLAPS

\* The types the argument needs; the bookkeeping of tables and scans is left out.
MapTypeOK ==
    /\ contents \in [Keys -> Entries]
    /\ lock \in [1 .. Shards -> Threads \cup {NoThread}]
    /\ pc \in [Threads -> PCs]
    /\ op \in [Threads -> Atomic!Operations \cup {NoOp}]
    /\ \A t \in Threads : IF pc[t] \in {"acquire", "test", "act"}
                          THEN op[t] \in Atomic!Operations
                          ELSE op[t] = NoOp
    /\ seen \in [Threads -> Entries]
    /\ returned \in [Threads -> [ok : BOOLEAN, value : Entries]]

Inside == {"test", "act"}
LockHeld == \A t \in Threads : pc[t] \in Inside => lock[ShardOf[op[t].key]] = t
SeenIsCurrent == \A t \in Threads : pc[t] = "act" => seen[t] = contents[op[t].key]

IInv == MapTypeOK /\ LockHeld /\ SeenIsCurrent

LEMMA InitIInv == Init => IInv
  <1> SUFFICES ASSUME Init PROVE IInv
    OBVIOUS
  <1>1. MapTypeOK
    BY DEF Init, MapTypeOK, Entries, PCs, ScanPCs
  <1> QED BY <1>1 DEF Init, IInv, LockHeld, SeenIsCurrent, Inside

\* The running operation leaves an entry and returns a value of the right type.
LEMMA FinishKeepsIInv ==
    ASSUME IInv, NEW t \in Threads, pc[t] = "act",
           NEW entry \in Entries, NEW ok \in BOOLEAN, NEW value \in Entries,
           Finish(t, entry, ok, value)
    PROVE  IInv'
  <1> DEFINE k == op[t].key
  <1>1. k \in Keys /\ ShardOf[k] \in 1 .. Shards /\ lock[ShardOf[k]] = t
    <2>1. op[t] \in Atomic!Operations
      BY DEF IInv, MapTypeOK
    <2> QED BY <2>1, ShardAssumption DEF Atomic!Operations, IInv, LockHeld, Inside
  <1>2. MapTypeOK'
    <2> USE DEF IInv, MapTypeOK, Finish, Goto
    <2>1. contents' \in [Keys -> Entries]
      BY <1>1
    <2>2. lock' \in [1 .. Shards -> Threads \cup {NoThread}]
      BY <1>1
    <2>3. pc' \in [Threads -> PCs]
      BY DEF PCs
    <2>4. op' = [op EXCEPT ![t] = NoOp] /\ pc' = [pc EXCEPT ![t] = "idle"]
      OBVIOUS
    <2>5. seen' \in [Threads -> Entries]
      BY DEF Entries
    <2>6. returned' \in [Threads -> [ok : BOOLEAN, value : Entries]]
      OBVIOUS
    <2>7. op' \in [Threads -> Atomic!Operations \cup {NoOp}]
      BY <2>4
    <2>8. ASSUME NEW u \in Threads
          PROVE  IF pc'[u] \in {"acquire", "test", "act"}
                 THEN op'[u] \in Atomic!Operations ELSE op'[u] = NoOp
      BY <2>4
    <2> QED BY <2>1, <2>2, <2>3, <2>5, <2>6, <2>7, <2>8
  <1>3. \A u \in Threads \ {t} : /\ pc'[u] = pc[u]
                                 /\ op'[u] = op[u]
                                 /\ seen'[u] = seen[u]
    BY DEF IInv, MapTypeOK, Finish, Goto
  <1>4. pc'[t] = "idle"
    BY DEF IInv, MapTypeOK, Finish, Goto
  <1>5. \A u \in Threads \ {t} : pc[u] \in Inside =>
           /\ op[u].key \in Keys
           /\ ShardOf[op[u].key] # ShardOf[k]
    <2> SUFFICES ASSUME NEW u \in Threads \ {t}, pc[u] \in Inside
                 PROVE  op[u].key \in Keys /\ ShardOf[op[u].key] # ShardOf[k]
      OBVIOUS
    <2>1. op[u] \in Atomic!Operations
      BY DEF IInv, MapTypeOK, Inside
    <2> QED BY <1>1, <2>1 DEF Atomic!Operations, IInv, LockHeld
  <1>6. LockHeld'
    BY <1>1, <1>3, <1>4, <1>5, ShardAssumption
       DEF IInv, MapTypeOK, LockHeld, Finish, Inside
  <1>7. SeenIsCurrent'
    BY <1>1, <1>3, <1>4, <1>5 DEF IInv, MapTypeOK, SeenIsCurrent, Finish, Inside
  <1> QED BY <1>2, <1>6, <1>7 DEF IInv

\* What each operation leaves and returns, in terms of the entry it found: the
\* step the abstract map takes at that moment.
LEMMA ActIsAtomic ==
    ASSUME IInv, NEW t \in Threads,
           \/ Set(t) \/ Get(t) \/ Has(t) \/ Delete(t) \/ Pop(t)
           \/ SetIfAbsent(t) \/ Upsert(t)
    PROVE  IInv' /\ Atomic!TakeEffect(t)
  <1> DEFINE k == op[t].key
             v == op[t].value
             entry == contents[k]
  <1>1. /\ pc[t] = "act"
        /\ k \in Keys
        /\ entry \in Entries
        /\ seen[t] = entry
        /\ op[t].name \in {"set", "setIfAbsent", "upsert"} => v \in Values
    <2>1. pc[t] = "act"
      BY DEF Set, Get, Has, Delete, Pop, SetIfAbsent, Upsert, Running
    <2>2. op[t] \in Atomic!Operations
      BY <2>1 DEF IInv, MapTypeOK
    <2>3. k \in Keys
          /\ (op[t].name \in {"set", "setIfAbsent", "upsert"} => v \in Values)
      BY <2>2 DEF Atomic!Operations
    <2> QED BY <2>1, <2>3 DEF IInv, MapTypeOK, SeenIsCurrent
  <1>2. v \in Values => Func(entry # Absent, entry, v) \in Values
    BY <1>1, ValueAssumption DEF Entries
  <1>3. ASSUME NEW e, NEW ok, NEW r, Finish(t, e, ok, r)
        PROVE  Atomic!Do(t, k, e, ok, r) /\ op' = [op EXCEPT ![t] = Atomic!NoOp]
    BY <1>3 DEF Finish, Atomic!Do, NoOp
  <1> USE DEF Running, Current, Gone, Entries
  <1>4. CASE Set(t)
    <2>1. Finish(t, v, TRUE, Absent)
      BY <1>4 DEF Set
    <2>2. Atomic!Set(t, k, v)
      BY <1>3, <2>1 DEF Atomic!Set
    <2>3. Atomic!Effect(t, op[t].name, k, v)
      BY <1>4, <2>2 DEF Set, Atomic!Effect
    <2>4. v \in Values
      BY <1>1, <1>4 DEF Set
    <2> QED BY <1>1, <1>3, <2>1, <2>3, <2>4, FinishKeepsIInv
          DEF Atomic!TakeEffect
  <1>5. CASE Get(t)
    <2>1. Finish(t, entry, TRUE, entry)
      BY <1>5 DEF Get
    <2>2. Atomic!Get(t, k)
      BY <1>3, <2>1 DEF Atomic!Get
    <2>3. Atomic!Effect(t, op[t].name, k, v)
      BY <1>5, <2>2 DEF Get, Atomic!Effect
    <2> QED BY <1>1, <1>3, <2>1, <2>3, FinishKeepsIInv
          DEF Atomic!TakeEffect
  <1>6. CASE Has(t)
    <2>1. Finish(t, entry, entry # Absent, Absent)
      BY <1>6 DEF Has
    <2>2. Atomic!Has(t, k)
      BY <1>3, <2>1 DEF Atomic!Has, Atomic!Present
    <2>3. Atomic!Effect(t, op[t].name, k, v)
      BY <1>6, <2>2 DEF Has, Atomic!Effect
    <2> QED BY <1>1, <1>3, <2>1, <2>3, FinishKeepsIInv
          DEF Atomic!TakeEffect
  <1>7. CASE Delete(t)
    <2>1. Finish(t, Absent, TRUE, Absent)
      BY <1>1, <1>7 DEF Delete
    <2>2. Atomic!Delete(t, k)
      BY <1>3, <2>1 DEF Atomic!Delete
    <2>3. Atomic!Effect(t, op[t].name, k, v)
      BY <1>7, <2>2 DEF Delete, Atomic!Effect
    <2> QED BY <1>1, <1>3, <2>1, <2>3, FinishKeepsIInv
          DEF Atomic!TakeEffect
  <1>8. CASE Pop(t)
    <2>1. Finish(t, Absent, TRUE, entry)
      BY <1>1, <1>8 DEF Pop
    <2>2. Atomic!Pop(t, k)
      BY <1>3, <2>1 DEF Atomic!Pop
    <2>3. Atomic!Effect(t, op[t].name, k, v)
      BY <1>8, <2>2 DEF Pop, Atomic!Effect
    <2> QED BY <1>1, <1>3, <2>1, <2>3, FinishKeepsIInv
          DEF Atomic!TakeEffect
  <1>9. CASE SetIfAbsent(t)
    <2>1. Finish(t, IF entry # Absent THEN entry ELSE v, TRUE, Absent)
      BY <1>1, <1>9 DEF SetIfAbsent
    <2>2. Atomic!SetIfAbsent(t, k, v)
      BY <1>3, <2>1 DEF Atomic!SetIfAbsent, Atomic!Present
    <2>3. Atomic!Effect(t, op[t].name, k, v)
      BY <1>9, <2>2 DEF SetIfAbsent, Atomic!Effect
    <2>4. v \in Values
      BY <1>1, <1>9 DEF SetIfAbsent
    <2> QED BY <1>1, <1>3, <2>1, <2>3, <2>4, FinishKeepsIInv
          DEF Atomic!TakeEffect
  <1>10. CASE Upsert(t)
    <2>1. Finish(t, Func(entry # Absent, entry, v), TRUE,
                    Func(entry # Absent, entry, v))
      BY <1>1, <1>10 DEF Upsert
    <2>2. Atomic!Upsert(t, k, v)
      BY <1>3, <2>1 DEF Atomic!Upsert, Atomic!Present
    <2>3. Atomic!Effect(t, op[t].name, k, v)
      BY <1>10, <2>2 DEF Upsert, Atomic!Effect
    <2>4. v \in Values
      BY <1>1, <1>10 DEF Upsert
    <2> QED BY <1>1, <1>2, <1>3, <2>1, <2>3, <2>4, FinishKeepsIInv
          DEF Atomic!TakeEffect
  <1> QED BY <1>4, <1>5, <1>6, <1>7, <1>8, <1>9, <1>10

\* Every step keeps the invariant and is a step of the abstract map or changes
\* nothing of it.
LEMMA NextIInv ==
    ASSUME IInv, [Next]_vars
    PROVE  IInv' /\ [Atomic!Next]_<<contents, returned, op>>
  <1> USE DEF IInv, MapTypeOK, LockHeld, SeenIsCurrent, Inside, Goto, data
  <1>1. ASSUME NEW t \in Threads, NEW o \in Atomic!Operations, Call(t, o)
        PROVE  IInv' /\ Atomic!Call(t, o)
    BY <1>1 DEF Call, PCs, Atomic!Call, NoOp
  <1>2. ASSUME NEW t \in Threads, Acquire(t)
        PROVE  IInv' /\ UNCHANGED <<contents, returned, op>>
    <2>1. ShardOf[op[t].key] \in 1 .. Shards
      <3>1. op[t] \in Atomic!Operations
        BY <1>2 DEF Acquire
      <3> QED BY <3>1, ShardAssumption DEF Atomic!Operations
    <2> QED BY <1>2, <2>1, NoThreadAssumption DEF Acquire, LockIsFree, PCs
  <1>3. ASSUME NEW t \in Threads, Test(t)
        PROVE  IInv' /\ UNCHANGED <<contents, returned, op>>
    <2>1. op[t].key \in Keys
      <3>1. op[t] \in Atomic!Operations
        BY <1>3 DEF Test
      <3> QED BY <3>1 DEF Atomic!Operations
    <2> QED BY <1>3, <2>1 DEF Test, PCs
  <1>4. ASSUME NEW t \in Threads,
               pc[t] \notin {"acquire", "test", "act"},
               NEW label \in ScanPCs \cup {"idle"}, Goto(t, label),
               UNCHANGED <<contents, lock, op, seen, returned>>
        PROVE  IInv' /\ UNCHANGED <<contents, returned, op>>
    BY <1>4 DEF PCs, ScanPCs
  <1>5. ASSUME NEW t \in Threads,
               \/ BeginScan(t, "count") \/ BeginScan(t, "open") \/ EndScan(t)
               \/ CountShard(t) \/ OpenShard(t) \/ NextKey(t) \/ ReadValue(t)
               \/ EndShard(t) \/ IterationFails(t) \/ ReadFails(t)
        PROVE  IInv' /\ UNCHANGED <<contents, returned, op>>
    <2> USE DEF Scanning, ScanPCs
    <2>1. CASE BeginScan(t, "count") \/ BeginScan(t, "open") \/ EndScan(t)
      BY <1>4, <2>1 DEF BeginScan, EndScan
    <2>2. CASE CountShard(t)
      BY <1>4, <2>2 DEF CountShard
    <2>3. CASE OpenShard(t)
      BY <1>4, <2>3 DEF OpenShard
    <2>4. CASE NextKey(t) \/ ReadValue(t)
      BY <1>4, <2>4 DEF NextKey, ReadValue
    <2>5. CASE EndShard(t)
      BY <1>4, <2>5 DEF EndShard
    <2>6. CASE IterationFails(t) \/ ReadFails(t)
      BY <1>4, <2>6 DEF IterationFails, ReadFails, NextRaises
    <2> QED BY <1>5, <2>1, <2>2, <2>3, <2>4, <2>5, <2>6
  <1>6. CASE UNCHANGED vars
    BY <1>6 DEF vars
  <1> QED BY <1>1, <1>2, <1>3, <1>5, <1>6, ActIsAtomic
          DEF Next, Step, Start, Atomic!Next

\* ImplementsAtomicMap, for all constants: each one-key operation of each
\* thread takes effect at one moment, and returns what the map held then.
THEOREM Atomicity == Spec => ImplementsAtomicMap
  <1>1. Init => Atomic!Init /\ op = [t \in Threads |-> Atomic!NoOp]
    BY DEF Init, Atomic!Init, NoOp
  <1> QED BY <1>1, InitIInv, NextIInv, PTL
          DEF Spec, ImplementsAtomicMap, Atomic!Spec

-----------------------------------------------------------------------------
(* The tables.                                                             *)

\* The entries of a shard are at different places of its table.
Tables ==
    /\ place \in [Keys -> Nat] /\ used \in [1 .. Shards -> Nat]
    /\ IsFiniteSet(Present)
    /\ \A k \in Present : place[k] >= 1 /\ place[k] <= used[ShardOf[k]]
    /\ \A j, k \in Present : ShardOf[j] = ShardOf[k] /\ place[j] = place[k] => j = k

-----------------------------------------------------------------------------
(* The scans.                                                              *)

ScanType == [shard : 1 .. Shards, sum : Nat, size : Nat, left : Int, place : Nat,
             key : Keys \cup {Absent}, yielded : [Keys -> Nat]]

\* The histories of a thread's scan enclose what is in the map.
Enclosed ==
    /\ stable \in [Threads -> SUBSET Keys] /\ ever \in [Threads -> SUBSET Keys]
    /\ rebuilt \in [Threads -> BOOLEAN]
    /\ \A t \in Threads :
          /\ stable[t] \subseteq Present
          /\ pc[t] \in ScanPCs => Present \subseteq ever[t]
          /\ IsFiniteSet(ever[t])

ScansTyped ==
    /\ scan \in [Threads -> ScanType]
    /\ \A t \in Threads :
          /\ pc[t] \notin ScanPCs => scan[t] = NoScan
          /\ pc[t] = "read" => /\ scan[t].key \in Keys
                               /\ ShardOf[scan[t].key] = scan[t].shard

\* The keys of a set in the shards a count has passed.
Passed(t, keys) == {k \in keys : ShardOf[k] < scan[t].shard \/ pc[t] = "counted"}

Counting(t) ==
    pc[t] \in {"count", "counted"} =>
        /\ Cardinality(Passed(t, stable[t])) <= scan[t].sum
        /\ scan[t].sum <= Cardinality(Passed(t, ever[t]))

\* How often a key was met: yielded, or about to be.
Met(t, k) ==
    scan[t].yielded[k] + (IF pc[t] = "read" /\ scan[t].key = k THEN 1 ELSE 0)

\* Of the keys that stayed, the ones in the shards passed were met, the ones in
\* the shards to come were not, and in the shard under way it is the place that
\* tells: entries only move to places before their own, and only by a rebuild.
MetByPlace(t, k) ==
    /\ ShardOf[k] < scan[t].shard => Met(t, k) = 1 \/ (rebuilt[t] /\ Met(t, k) = 0)
    /\ ShardOf[k] > scan[t].shard => Met(t, k) = 0
    /\ ShardOf[k] = scan[t].shard /\ pc[t] = "open" => Met(t, k) = 0
    /\ ShardOf[k] = scan[t].shard /\ pc[t] # "open" =>
          /\ Met(t, k) \in {0, 1}
          /\ Met(t, k) = 1 => place[k] <= scan[t].place
          /\ place[k] <= scan[t].place => Met(t, k) = 1 \/ rebuilt[t]

Iterating(t) ==
    /\ pc[t] \in {"open", "next", "read"} => \A k \in stable[t] : MetByPlace(t, k)
    /\ pc[t] = "iterated" =>
          \A k \in stable[t] : \/ scan[t].yielded[k] = 1
                               \/ rebuilt[t] /\ scan[t].yielded[k] = 0

ScanInv ==
    /\ Tables /\ Enclosed /\ ScansTyped
    /\ \A t \in Threads : Counting(t) /\ Iterating(t)

LEMMA PresentOf == Present' = {k \in Keys : contents'[k] # Absent}
  BY DEF Present

LEMMA InShardFinite ==
    ASSUME Tables, NEW i
    PROVE  /\ IsFiniteSet(InShard(i)) /\ InShard(i) \subseteq Present
           /\ Cardinality(InShard(i)) \in Nat
  BY FS_Subset, FS_CardinalityType DEF Tables, InShard

LEMMA InitScanInv == Init => ScanInv
  <1> SUFFICES ASSUME Init PROVE ScanInv
    OBVIOUS
  <1> USE DEF Init
  <1>1. Present = {} /\ IsFiniteSet({}) /\ Cardinality({}) = 0
    BY FS_EmptySet DEF Present
  <1>2. Tables
    BY <1>1 DEF Tables
  <1>3. Enclosed
    <2>1. rebuilt \in [Threads -> BOOLEAN]
      BY Zenon
    <2> QED BY <1>1, <2>1 DEF Enclosed, ScanPCs
  <1>4. NoScan \in ScanType
    BY ShardAssumption DEF NoScan, ScanType
  <1>5. ScansTyped
    BY <1>4 DEF ScansTyped
  <1>6. \A t \in Threads : Counting(t) /\ Iterating(t)
    BY DEF Counting, Iterating
  <1> QED BY <1>2, <1>3, <1>5, <1>6 DEF ScanInv

-----------------------------------------------------------------------------
(* Rebuilding a table.                                                     *)

\* The rank of an entry is no later than its place: the entries before it are
\* at different places, none later than its own.
LEMMA RankBounds ==
    ASSUME Tables, NEW i \in 1 .. Shards, NEW k \in InShard(i)
    PROVE  /\ Rank(k, InShard(i)) \in Nat /\ Rank(k, InShard(i)) >= 1
           /\ Rank(k, InShard(i)) <= Cardinality(InShard(i))
           /\ Rank(k, InShard(i)) <= place[k]
  <1> DEFINE S == {j \in InShard(i) : place[j] <= place[k]}
  <1>1. /\ IsFiniteSet(S) /\ Cardinality(S) \in Nat
        /\ Cardinality(S) <= Cardinality(InShard(i))
    BY InShardFinite, FS_Subset, FS_CardinalityType
  <1>2. k \in S /\ place[k] \in Nat
    BY DEF Tables, InShard, Present
  <1>3. Cardinality(S) >= 1
    BY <1>1, <1>2, FS_EmptySet
  <1>4. Cardinality(S) <= place[k]
    <2> DEFINE f == [j \in S |-> place[j]]
    <2>1. f \in Injection(S, 1 .. place[k])
      <3>1. \A j \in S : place[j] \in 1 .. place[k]
        BY DEF Tables, InShard, Present
      <3>2. \A j, l \in S : place[j] = place[l] => j = l
        BY DEF Tables, InShard
      <3> QED BY <3>1, <3>2 DEF Injection, IsInjective
    <2>2. IsFiniteSet(1 .. place[k]) /\ Cardinality(1 .. place[k]) = place[k]
      BY <1>2, FS_Interval DEF Tables, InShard
    <2> HIDE DEF f, S
    <2> QED BY <2>1, <2>2, FS_Injection
  <1> QED BY <1>1, <1>3, <1>4 DEF Rank

\* Ranks follow the order of the places.
LEMMA RankOrders ==
    ASSUME Tables, NEW i \in 1 .. Shards, NEW j \in InShard(i), NEW k \in InShard(i),
           Rank(j, InShard(i)) = Rank(k, InShard(i))
    PROVE  j = k
  <1>1. ASSUME NEW a \in InShard(i), NEW b \in InShard(i), place[a] < place[b]
        PROVE  Rank(a, InShard(i)) # Rank(b, InShard(i))
    <2> DEFINE A == {m \in InShard(i) : place[m] <= place[a]}
               B == {m \in InShard(i) : place[m] <= place[b]}
    <2>1. IsFiniteSet(B)
      BY InShardFinite, FS_Subset
    <2>2. A \subseteq B /\ b \in B /\ b \notin A
      BY <1>1 DEF Tables, InShard, Present
    <2>3. Cardinality(A) # Cardinality(B)
      <3> HIDE DEF A, B
      <3> QED BY <2>1, <2>2, FS_Subset
    <2> QED BY <2>3 DEF Rank
  <1>2. place[j] \in Nat /\ place[k] \in Nat
    BY DEF Tables, InShard, Present
  <1>3. place[j] = place[k]
    BY <1>1, <1>2
  <1> QED BY <1>3 DEF Tables, InShard

\* What the end of a one-key operation does to the tables: entries that stay
\* keep their places, or all that move do so towards the front.
LEMMA FinishTables ==
    ASSUME MapTypeOK, Tables, NEW t \in Threads, NEW k \in Keys, k = op[t].key,
           NEW entry \in Entries, NEW ok, NEW value, Finish(t, entry, ok, value)
    PROVE  /\ Tables'
           /\ Present' \subseteq Present \cup {k}
           /\ entry = Absent => k \notin Present'
           /\ entry # Absent => k \in Present'
           /\ \A j \in Present : j # k => j \in Present'
           /\ \/ /\ rebuilt' = rebuilt
                 /\ \A j \in Present \cap Present' : place'[j] = place[j]
              \/ /\ rebuilt' = [u \in Threads |-> rebuilt[u] \/ pc[u] \in ScanPCs]
                 /\ \A j \in Present \cap Present' : place'[j] <= place[j]
  <1> DEFINE i == ShardOf[k]
             creates == contents[k] = Absent /\ entry # Absent
  <1>1. /\ i \in 1 .. Shards /\ contents \in [Keys -> Entries]
        /\ contents' = [contents EXCEPT ![k] = entry]
    BY ShardAssumption DEF MapTypeOK, Finish
  <1>2. \A j \in Keys : contents'[j] = IF j = k THEN entry ELSE contents[j]
    BY <1>1
  <1>3. /\ Present' \subseteq Present \cup {k}
        /\ entry = Absent => k \notin Present'
        /\ entry # Absent => k \in Present'
        /\ \A j \in Present : j # k => j \in Present'
    BY <1>2 DEF Present
  <1>4. IsFiniteSet(Present')
    <2>1. IsFiniteSet(Present \cup {k})
      BY FS_AddElement DEF Tables
    <2> QED BY <1>3, <2>1, FS_Subset
  <1>5. /\ place \in [Keys -> Nat] /\ used \in [1 .. Shards -> Nat]
        /\ \A j \in Present : j \in Keys /\ place[j] >= 1 /\ place[j] <= used[ShardOf[j]]
        /\ \A j, l \in Present : ShardOf[j] = ShardOf[l] /\ place[j] = place[l] => j = l
        /\ \A j \in Keys : ShardOf[j] \in 1 .. Shards
    BY ShardAssumption DEF Tables, Present
  <1>6. CASE ~creates
    <2>1. /\ place' = [place EXCEPT ![k] = IF entry = Absent THEN 0 ELSE @]
          /\ UNCHANGED <<used, rebuilt>>
      BY <1>6 DEF Finish
    <2>2. Present' \subseteq Present
      BY <1>3, <1>6 DEF Present
    <2>3. \A j \in Present' : place'[j] = place[j]
      BY <1>3, <1>5, <2>1 DEF Present
    <2>4. place' \in [Keys -> Nat] /\ used' \in [1 .. Shards -> Nat]
      BY <1>5, <2>1
    <2>5. Tables'
      BY <1>4, <1>5, <2>1, <2>2, <2>3, <2>4 DEF Tables
    <2> QED BY <1>3, <2>1, <2>3, <2>5
  <1>7. CASE creates /\ Place(k, i)
    <2>1. /\ used' = [used EXCEPT ![i] = used[i] + 1]
          /\ place' = [place EXCEPT ![k] = used[i] + 1]
          /\ rebuilt' = rebuilt
      BY <1>7 DEF Place
    <2>2. k \notin Present /\ Present' = Present \cup {k}
      BY <1>3, <1>7 DEF Present
    <2>3. /\ place' \in [Keys -> Nat] /\ used' \in [1 .. Shards -> Nat]
          /\ \A j \in Present : place'[j] = place[j]
          /\ place'[k] = used[i] + 1 /\ used'[i] = used[i] + 1 /\ used[i] \in Nat
          /\ \A m \in 1 .. Shards : used'[m] >= used[m] /\ used'[m] \in Nat /\ used[m] \in Nat
      BY <1>1, <1>5, <2>1, <2>2
    <2>4. ASSUME NEW j \in Present'
          PROVE  place'[j] >= 1 /\ place'[j] <= used'[ShardOf[j]]
      <3>1. CASE j = k
        BY <1>1, <2>3, <3>1
      <3>2. CASE j \in Present
        <4>1. /\ ShardOf[j] \in 1 .. Shards /\ place[j] \in Nat /\ place[j] >= 1
              /\ place[j] <= used[ShardOf[j]]
          BY <1>5, <3>2
        <4>2. used'[ShardOf[j]] >= used[ShardOf[j]] /\ place'[j] = place[j]
          BY <2>3, <3>2, <4>1
        <4> HIDE DEF i, creates
        <4> QED BY <2>3, <4>1, <4>2
      <3> QED BY <2>2, <3>1, <3>2
    <2>5. ASSUME NEW j \in Present', NEW l \in Present', ShardOf[j] = ShardOf[l],
                 place'[j] = place'[l]
          PROVE  j = l
      <3>1. CASE j = k /\ l # k
        BY <1>1, <1>5, <2>2, <2>3, <2>5, <3>1
      <3>2. CASE j # k /\ l = k
        BY <1>1, <1>5, <2>2, <2>3, <2>5, <3>2
      <3>3. CASE j # k /\ l # k
        BY <1>5, <2>2, <2>3, <2>5, <3>3
      <3> QED BY <3>1, <3>2, <3>3
    <2>6. Tables'
      BY <1>4, <2>3, <2>4, <2>5 DEF Tables
    <2> QED BY <1>3, <2>1, <2>3, <2>6
  <1>8. CASE creates /\ Rebuild(k, i)
    <2> DEFINE old == InShard(i)
               size == Cardinality(old)
    <2>1. /\ used' = [used EXCEPT ![i] = size + 1]
          /\ place' = [j \in Keys |-> IF j = k THEN size + 1
                                      ELSE IF j \in old THEN Rank(j, old) ELSE place[j]]
          /\ rebuilt' = [u \in Threads |-> rebuilt[u] \/ pc[u] \in ScanPCs]
      BY <1>8 DEF Rebuild
    <2>2. k \notin Present /\ Present' = Present \cup {k}
      BY <1>3, <1>8 DEF Present
    <2>3. size \in Nat
      BY InShardFinite
    <2>4. \A j \in old : /\ Rank(j, old) \in Nat /\ Rank(j, old) >= 1
                         /\ Rank(j, old) <= size /\ Rank(j, old) <= place[j]
      BY <1>1, RankBounds
    <2>5. \A j, l \in old : Rank(j, old) = Rank(l, old) => j = l
      BY <1>1, RankOrders
    <2>6. \A j \in Present : j \in old <=> ShardOf[j] = i
      BY DEF InShard
    <2> HIDE DEF old, size, i
    <2>7. /\ used' \in [1 .. Shards -> Nat] /\ used'[i] = size + 1
          /\ \A m \in 1 .. Shards : m # i => used'[m] = used[m]
          /\ place'[k] = size + 1
          /\ \A j \in Present : place'[j] = IF j \in old THEN Rank(j, old) ELSE place[j]
      BY <1>1, <1>5, <2>1, <2>2, <2>3
    <2>8. place' \in [Keys -> Nat]
      BY <1>5, <2>1, <2>3, <2>4
    <2>9. \A j \in Present' : place'[j] >= 1 /\ place'[j] <= used'[ShardOf[j]]
      <3> SUFFICES ASSUME NEW j \in Present'
                   PROVE  place'[j] >= 1 /\ place'[j] <= used'[ShardOf[j]]
        OBVIOUS
      <3>1. CASE j = k
        BY <2>3, <2>7, <3>1 DEF i
      <3>2. CASE j \in old
        <4>1. j \in Present /\ ShardOf[j] = i
          BY <3>2 DEF old, InShard
        <4>2. place'[j] = Rank(j, old) /\ used'[ShardOf[j]] = size + 1
          BY <2>7, <3>2, <4>1
        <4> QED BY <2>3, <2>4, <3>2, <4>2
      <3>3. CASE j # k /\ j \notin old
        <4>1. j \in Present /\ ShardOf[j] \in 1 .. Shards /\ ShardOf[j] # i
          BY <1>5, <2>2, <2>6, <3>3
        <4>2. place'[j] = place[j] /\ used'[ShardOf[j]] = used[ShardOf[j]]
          BY <2>7, <3>3, <4>1
        <4> QED BY <1>5, <4>1, <4>2
      <3> QED BY <3>1, <3>2, <3>3
    <2>10. ASSUME NEW j \in Present', NEW l \in Present', ShardOf[j] = ShardOf[l],
                  place'[j] = place'[l]
           PROVE  j = l
      <3>1. CASE ShardOf[j] # i
        <4>1. j \in Present /\ l \in Present /\ j \notin old /\ l \notin old
          BY <2>2, <2>6, <2>10, <3>1 DEF i
        <4> QED BY <1>5, <2>7, <2>10, <4>1
      <3>2. CASE ShardOf[j] = i
        <4>1. /\ j \in old \/ j = k
              /\ l \in old \/ l = k
          BY <2>2, <2>6, <2>10, <3>2
        <4>2. \A m \in old : place'[m] = Rank(m, old) /\ place'[m] \in Nat /\ place'[m] <= size
          BY <2>4, <2>7 DEF old, InShard
        <4> QED BY <2>3, <2>5, <2>7, <2>10, <4>1, <4>2
      <3> QED BY <3>1, <3>2
    <2>11. Tables'
      BY <1>4, <2>7, <2>8, <2>9, <2>10 DEF Tables
    <2>12. \A j \in Present : place'[j] <= place[j]
      BY <1>5, <2>4, <2>7
    <2> QED BY <1>3, <2>1, <2>11, <2>12
  <1> QED BY <1>6, <1>7, <1>8 DEF Finish

-----------------------------------------------------------------------------
(* A scan while others insert and delete.                                  *)

LEMMA PassedCardinality ==
    ASSUME Enclosed, NEW t \in Threads, pc[t] \in ScanPCs
    PROVE  /\ IsFiniteSet(Passed(t, stable[t])) /\ IsFiniteSet(Passed(t, ever[t]))
           /\ Cardinality(Passed(t, stable[t])) \in Nat
           /\ Cardinality(Passed(t, ever[t])) \in Nat
  <1>1. stable[t] \subseteq ever[t] /\ IsFiniteSet(ever[t])
    BY DEF Enclosed
  <1>2. Passed(t, stable[t]) \subseteq ever[t] /\ Passed(t, ever[t]) \subseteq ever[t]
    BY <1>1 DEF Passed
  <1> QED BY <1>1, <1>2, FS_Subset, FS_CardinalityType

\* What others do to a scan under way: fewer keys stayed, more were there at
\* some moment, and entries keep their places or move forward by a rebuild.
LEMMA OthersScan ==
    ASSUME ScanInv, Enclosed', NEW t \in Threads, pc[t] \in ScanPCs,
           pc'[t] = pc[t], scan' = scan,
           stable'[t] \subseteq stable[t], ever[t] \subseteq ever'[t],
           place' \in [Keys -> Nat],
           \A k \in stable'[t] : place'[k] = place[k] \/ (rebuilt'[t] /\ place'[k] <= place[k]),
           rebuilt[t] => rebuilt'[t]
    PROVE  Counting(t)' /\ Iterating(t)'
  <1>1. Counting(t) /\ Iterating(t) /\ scan[t] \in ScanType /\ scan'[t] = scan[t]
    BY DEF ScanInv, ScansTyped
  <1>2. ASSUME pc[t] \in {"count", "counted"} PROVE Counting(t)'
    <2> DEFINE low == Passed(t, stable[t])
               low2 == Passed(t, stable[t])'
               high == Passed(t, ever[t])
               high2 == Passed(t, ever[t])'
    <2>1. low2 \subseteq low /\ high \subseteq high2
      BY DEF Passed
    <2>2. IsFiniteSet(low) /\ Cardinality(low) \in Nat /\ Cardinality(high) \in Nat
      BY PassedCardinality DEF ScanInv
    <2>3. IsFiniteSet(high2)
      <3>1. high2 \subseteq ever'[t] /\ IsFiniteSet(ever'[t])
        BY DEF Passed, Enclosed
      <3> QED BY <3>1, FS_Subset
    <2>4. scan[t].sum \in Nat /\ Cardinality(low) <= scan[t].sum /\ scan[t].sum <= Cardinality(high)
      BY <1>1, <1>2 DEF Counting, ScanType
    <2> HIDE DEF low, low2, high, high2
    <2>5. Cardinality(low2) <= Cardinality(low) /\ Cardinality(low2) \in Nat
      BY <2>1, <2>2, FS_Subset, FS_CardinalityType
    <2>6. Cardinality(high) <= Cardinality(high2) /\ Cardinality(high2) \in Nat
      BY <2>1, <2>3, FS_Subset, FS_CardinalityType
    <2>7. Cardinality(low2) <= scan'[t].sum /\ scan'[t].sum <= Cardinality(high2)
      BY <1>1, <2>2, <2>4, <2>5, <2>6
    <2> QED BY <2>7 DEF Counting, low2, high2
  <1>3. ASSUME pc[t] \in {"open", "next", "read"}, NEW k \in stable'[t]
        PROVE  MetByPlace(t, k)'
    <2>1. MetByPlace(t, k) /\ Met(t, k)' = Met(t, k)
      BY <1>1, <1>3 DEF Iterating, Met
    <2>2. place[k] \in Nat /\ place'[k] \in Nat /\ scan[t].place \in Nat
      BY <1>1 DEF ScanInv, Tables, Enclosed, ScanType
    <2>3. rebuilt[t] \in BOOLEAN /\ rebuilt'[t] \in BOOLEAN
      BY DEF ScanInv, Enclosed
    <2>4. place'[k] = place[k] \/ (rebuilt'[t] /\ place'[k] <= place[k])
      OBVIOUS
    <2> QED BY <1>1, <2>1, <2>2, <2>3, <2>4 DEF MetByPlace
  <1>4. Counting(t)'
    BY <1>2 DEF Counting
  <1>5. Iterating(t)'
    <2>1. pc'[t] = "iterated" =>
             \A k \in stable'[t] : \/ scan'[t].yielded[k] = 1
                                   \/ rebuilt'[t] /\ scan'[t].yielded[k] = 0
      BY <1>1, Zenon DEF Iterating
    <2>2. pc'[t] \in {"open", "next", "read"} => \A k \in stable'[t] : MetByPlace(t, k)'
      BY <1>3
    <2> QED BY <2>1, <2>2, Zenon DEF Iterating
  <1> QED BY <1>4, <1>5

\* The end of a one-key operation keeps the scans' invariant.
LEMMA FinishKeepsScans ==
    ASSUME IInv, ScanInv, NEW t \in Threads, pc[t] = "act",
           NEW entry \in Entries, NEW ok, NEW value, Finish(t, entry, ok, value)
    PROVE  ScanInv'
  <1> DEFINE k == op[t].key
  <1>1. k \in Keys /\ MapTypeOK
    BY DEF IInv, MapTypeOK, Atomic!Operations
  <1>2. /\ Tables' /\ Present' \subseteq Present \cup {k}
        /\ entry = Absent => k \notin Present'
        /\ entry # Absent => k \in Present'
        /\ \A j \in Present : j # k => j \in Present'
        /\ \/ /\ rebuilt' = rebuilt
              /\ \A j \in Present \cap Present' : place'[j] = place[j]
           \/ /\ rebuilt' = [u \in Threads |-> rebuilt[u] \/ pc[u] \in ScanPCs]
              /\ \A j \in Present \cap Present' : place'[j] <= place[j]
    <2> HIDE DEF k
    <2>1. k = op[t].key
      BY DEF k
    <2> QED BY <1>1, <2>1, FinishTables DEF ScanInv
  <1>3. /\ pc' = [pc EXCEPT ![t] = "idle"] /\ scan' = scan
        /\ stable' = [u \in Threads |-> IF entry = Absent THEN stable[u] \ {k} ELSE stable[u]]
        /\ ever' = [u \in Threads |-> IF entry # Absent /\ pc[u] \in ScanPCs
                                      THEN ever[u] \cup {k} ELSE ever[u]]
    BY DEF Finish, Goto
  <1>4. /\ pc'[t] = "idle" /\ pc[t] \notin ScanPCs /\ pc'[t] \notin ScanPCs
        /\ \A u \in Threads : u # t => pc'[u] = pc[u]
    BY <1>1, <1>3 DEF MapTypeOK, ScanPCs
  <1>5. rebuilt' \in [Threads -> BOOLEAN] /\ \A u \in Threads : rebuilt[u] => rebuilt'[u]
    <2>1. rebuilt \in [Threads -> BOOLEAN]
      BY DEF ScanInv, Enclosed
    <2> HIDE DEF k
    <2> QED BY <1>2, <2>1, Zenon
  <1>6. ASSUME NEW u \in Threads
        PROVE  /\ stable'[u] \subseteq stable[u] /\ stable'[u] \subseteq Present'
               /\ ever[u] \subseteq ever'[u] /\ ever'[u] \in SUBSET Keys
               /\ IsFiniteSet(ever'[u])
               /\ pc'[u] \in ScanPCs => Present' \subseteq ever'[u]
    <2>1. /\ stable[u] \subseteq Present /\ ever[u] \in SUBSET Keys
          /\ pc[u] \in ScanPCs => Present \subseteq ever[u]
          /\ IsFiniteSet(ever[u])
      BY DEF ScanInv, Enclosed
    <2> HIDE DEF k
    <2>2. IsFiniteSet(ever[u] \cup {k})
      BY <2>1, FS_AddElement
    <2>3. ever'[u] = IF entry # Absent /\ pc[u] \in ScanPCs THEN ever[u] \cup {k} ELSE ever[u]
      BY <1>3
    <2>4. stable'[u] = IF entry = Absent THEN stable[u] \ {k} ELSE stable[u]
      BY <1>3
    <2>5. stable'[u] \subseteq stable[u] /\ stable'[u] \subseteq Present'
      BY <1>2, <2>1, <2>4
    <2>6. IsFiniteSet(ever'[u]) /\ ever'[u] \in SUBSET Keys /\ ever[u] \subseteq ever'[u]
      BY <1>1, <2>1, <2>2, <2>3
    <2>7. pc'[u] \in ScanPCs => Present' \subseteq ever'[u]
      BY <1>2, <1>4, <2>1, <2>3
    <2> QED BY <2>5, <2>6, <2>7
  <1> HIDE DEF k
  <1>7. Enclosed'
    <2>1. stable \in [Threads -> SUBSET Keys]
      BY DEF ScanInv, Enclosed
    <2>2. stable' \in [Threads -> SUBSET Keys]
      BY <1>3, <2>1
    <2>3. ever' \in [Threads -> SUBSET Keys]
      BY <1>3, <1>6
    <2> QED BY <1>5, <1>6, <2>2, <2>3 DEF Enclosed
  <1>8. ScansTyped'
    BY <1>3, <1>4 DEF ScanInv, ScansTyped, ScanPCs
  <1>9. ASSUME NEW u \in Threads PROVE Counting(u)' /\ Iterating(u)'
    <2>1. CASE pc'[u] \notin ScanPCs
      BY <2>1 DEF Counting, Iterating, ScanPCs
    <2>2. CASE pc'[u] \in ScanPCs
      <3>1. pc[u] \in ScanPCs /\ pc'[u] = pc[u]
        BY <1>4, <2>2
      <3>2. place \in [Keys -> Nat] /\ place' \in [Keys -> Nat]
        BY <1>2 DEF ScanInv, Tables
      <3>3. \A j \in stable'[u] : j \in Present /\ j \in Present' /\ j \in Keys
        BY <1>6 DEF ScanInv, Enclosed, Present
      <3>4. \A j \in stable'[u] : place'[j] = place[j] \/ (rebuilt'[u] /\ place'[j] <= place[j])
        BY <1>2, <3>1, <3>3
      <3> QED BY <1>3, <1>5, <1>6, <1>7, <3>1, <3>2, <3>4, OthersScan
    <2> QED BY <2>1, <2>2
  <1> QED BY <1>2, <1>7, <1>8, <1>9 DEF ScanInv

-----------------------------------------------------------------------------
(* The steps of a scan.                                                    *)

LEMMA ScanLeftAlone ==
    ASSUME ScanInv, NEW u \in Threads,
           UNCHANGED <<scan[u], pc[u], stable[u], ever[u], rebuilt[u], place>>
    PROVE  Counting(u)' /\ Iterating(u)'
  <1>1. Counting(u) /\ Iterating(u)
    BY DEF ScanInv
  <1>2. Counting(u)'
    BY <1>1 DEF Counting, Passed
  <1>3. Iterating(u)'
    BY <1>1 DEF Iterating, MetByPlace, Met
  <1> QED BY <1>2, <1>3

\* A step of one thread's scan leaves the tables and the other scans alone.
LEMMA ScanMoves ==
    ASSUME MapTypeOK, ScanInv, NEW t \in Threads, UNCHANGED <<data, history>>,
           pc[t] \in ScanPCs, NEW label \in ScanPCs, pc' = [pc EXCEPT ![t] = label],
           NEW s \in ScanType, scan' = [scan EXCEPT ![t] = s],
           label = "read" => s.key \in Keys /\ ShardOf[s.key] = s.shard,
           Counting(t)', Iterating(t)'
    PROVE  ScanInv'
  <1>1. /\ scan'[t] = s /\ pc'[t] = label
        /\ \A u \in Threads : u # t => scan'[u] = scan[u] /\ pc'[u] = pc[u]
    BY DEF ScanInv, ScansTyped, MapTypeOK
  <1>2. Present' = Present
    BY DEF data, Present
  <1>3. Tables'
    BY <1>2 DEF ScanInv, Tables, data
  <1>4. Enclosed'
    BY <1>1, <1>2 DEF ScanInv, Enclosed, history
  <1>5. ScansTyped'
    BY <1>1 DEF ScanInv, ScansTyped
  <1>6. ASSUME NEW u \in Threads PROVE Counting(u)' /\ Iterating(u)'
    <2>1. CASE u = t
      BY <2>1
    <2>2. CASE u # t
      <3>1. UNCHANGED <<scan[u], pc[u], stable[u], ever[u], rebuilt[u], place>>
        BY <1>1, <2>2 DEF data, history
      <3> QED BY <3>1, ScanLeftAlone
    <2> QED BY <2>1, <2>2
  <1> QED BY <1>3, <1>4, <1>5, <1>6 DEF ScanInv

LEMMA UnionSize ==
    ASSUME NEW A, IsFiniteSet(A), NEW B, IsFiniteSet(B)
    PROVE  Cardinality(A \cup B) = Cardinality(A) + Cardinality(B) - Cardinality(A \cap B)
  BY FS_Union

LEMMA DisjointUnion ==
    ASSUME NEW A, IsFiniteSet(A), NEW B, IsFiniteSet(B), A \cap B = {}
    PROVE  Cardinality(A \cup B) = Cardinality(A) + Cardinality(B)
  <1>1. Cardinality({}) = 0 /\ Cardinality(A) \in Nat /\ Cardinality(B) \in Nat
    BY FS_EmptySet, FS_CardinalityType
  <1> DEFINE AB == A \cap B
  <1>2. Cardinality(A \cup B) = Cardinality(A) + Cardinality(B) - Cardinality(AB)
    BY UnionSize, Zenon
  <1>3. Cardinality(AB) = 0
    BY <1>1
  <1> HIDE DEF AB
  <1> QED BY <1>1, <1>2, <1>3

\* A count adds the size of a shard, which lies between its keys that stayed
\* and those that were there at some moment.
LEMMA CountKeepsScans ==
    ASSUME MapTypeOK, ScanInv, NEW t \in Threads, CountShard(t)
    PROVE  ScanInv'
  <1> DEFINE i == scan[t].shard
             size == Cardinality(InShard(i))
             label == IF LastShard(t) THEN "counted" ELSE "count"
             s == [scan[t] EXCEPT !.sum = @ + size,
                                  !.shard = IF LastShard(t) THEN @ ELSE @ + 1]
  <1>1. /\ scan[t] \in ScanType /\ pc[t] = "count" /\ size \in Nat /\ i \in 1 .. Shards
        /\ Shards \in Nat
    BY InShardFinite, ShardAssumption DEF ScanInv, ScansTyped, CountShard, ScanType
  <1>2. scan' = [scan EXCEPT ![t] = s] /\ pc' = [pc EXCEPT ![t] = label]
    BY <1>1 DEF CountShard, Goto, ScanInv, ScansTyped
  <1>3. UNCHANGED <<data, history>>
    BY DEF CountShard, Scanning
  <1>4. /\ s \in ScanType /\ s.sum = scan[t].sum + size
        /\ LastShard(t) => s.shard = i /\ i = Shards
        /\ ~LastShard(t) => s.shard = i + 1
    <2> DEFINE n == IF LastShard(t) THEN i ELSE i + 1
    <2>1. n \in 1 .. Shards
      BY <1>1 DEF LastShard
    <2> DEFINE q == [scan[t] EXCEPT !.sum = scan[t].sum + size]
    <2>2. q \in ScanType /\ q.sum = scan[t].sum + size /\ q.shard = i
      BY <1>1 DEF ScanType
    <2>4. s = [q EXCEPT !.shard = n]
      BY <1>1 DEF ScanType
    <2> HIDE DEF size, n, s, i, q
    <2>3. s \in ScanType /\ s.sum = scan[t].sum + size /\ s.shard = n
      BY <2>1, <2>2, <2>4 DEF ScanType
    <2> QED BY <2>3 DEF n, i, LastShard
  <1>5. scan'[t] = s /\ pc'[t] = label
    BY <1>2 DEF ScanInv, ScansTyped, MapTypeOK
  <1>6. ASSUME NEW S, S \in SUBSET Keys
        PROVE  Passed(t, S)' = Passed(t, S) \cup {k \in S : ShardOf[k] = i}
    <2>1. \A k \in S : ShardOf[k] \in 1 .. Shards
      BY <1>6, ShardAssumption
    <2>2. \A k \in S : (ShardOf[k] < s.shard \/ label = "counted")
                          <=> (ShardOf[k] < i \/ ShardOf[k] = i)
      BY <1>1, <1>4, <2>1
    <2>3. Passed(t, S)' = {k \in S : ShardOf[k] < s.shard \/ label = "counted"}
      BY <1>5 DEF Passed
    <2>4. Passed(t, S) = {k \in S : ShardOf[k] < i}
      BY <1>1 DEF Passed
    <2> HIDE DEF s, label, i
    <2> QED BY <2>2, <2>3, <2>4
  <1>7. ASSUME NEW S, S \in SUBSET Keys, IsFiniteSet(S)
        PROVE  Cardinality(Passed(t, S)') =
                  Cardinality(Passed(t, S)) + Cardinality({k \in S : ShardOf[k] = i})
    <2> DEFINE A == Passed(t, S)
               B == {k \in S : ShardOf[k] = i}
    <2>1. IsFiniteSet(A) /\ IsFiniteSet(B)
      <3>1. A \subseteq S /\ B \subseteq S
        BY DEF Passed
      <3> QED BY <1>7, <3>1, FS_Subset
    <2>2. A \cap B = {}
      BY <1>1, <1>7, ShardAssumption DEF Passed
    <2>3. Passed(t, S)' = A \cup B
      BY <1>6, <1>7
    <2> HIDE DEF A, B
    <2>4. Cardinality(A \cup B) = Cardinality(A) + Cardinality(B)
      BY <2>1, <2>2, DisjointUnion
    <2> QED BY <2>3, <2>4 DEF A, B
  <1>8. /\ stable[t] \subseteq Present /\ Present \subseteq ever[t]
        /\ ever[t] \in SUBSET Keys /\ IsFiniteSet(ever[t])
        /\ UNCHANGED <<stable, ever>>
    BY <1>1, <1>3 DEF ScanInv, Enclosed, ScanPCs, history
  <1>9. IsFiniteSet(stable[t]) /\ stable[t] \in SUBSET Keys
    <2>1. stable[t] \subseteq ever[t]
      BY <1>8
    <2> QED BY <1>8, <2>1, FS_Subset
  <1>10. Cardinality({k \in stable[t] : ShardOf[k] = i}) <= size
    <2>1. {k \in stable[t] : ShardOf[k] = i} \subseteq InShard(i)
      BY <1>8 DEF InShard
    <2> QED BY <2>1, InShardFinite, FS_Subset DEF ScanInv
  <1>11. size <= Cardinality({k \in ever[t] : ShardOf[k] = i})
    <2>1. InShard(i) \subseteq {k \in ever[t] : ShardOf[k] = i}
      BY <1>8 DEF InShard
    <2>2. IsFiniteSet({k \in ever[t] : ShardOf[k] = i})
      BY <1>8, FS_Subset
    <2> QED BY <2>1, <2>2, FS_Subset
  <1>12. Counting(t)'
    <2> DEFINE a == Cardinality({k \in stable[t] : ShardOf[k] = i})
               b == Cardinality({k \in ever[t] : ShardOf[k] = i})
    <2>1. a \in Nat /\ b \in Nat
      BY <1>8, <1>9, FS_Subset, FS_CardinalityType
    <2>2. /\ Cardinality(Passed(t, stable[t])) <= scan[t].sum
          /\ scan[t].sum <= Cardinality(Passed(t, ever[t]))
          /\ Cardinality(Passed(t, stable[t])) \in Nat
          /\ Cardinality(Passed(t, ever[t])) \in Nat
          /\ scan[t].sum \in Nat
      BY <1>1, PassedCardinality DEF ScanInv, Counting, ScanPCs, ScanType
    <2>3. /\ Cardinality(Passed(t, stable[t])') = Cardinality(Passed(t, stable[t])) + a
          /\ Cardinality(Passed(t, ever[t])') = Cardinality(Passed(t, ever[t])) + b
      <3>1. Passed(t, stable[t])' = {k \in stable[t] : ShardOf[k] < scan'[t].shard \/ pc'[t] = "counted"}
        BY <1>8 DEF Passed
      <3>2. Passed(t, ever[t])' = {k \in ever[t] : ShardOf[k] < scan'[t].shard \/ pc'[t] = "counted"}
        BY <1>8 DEF Passed
      <3> QED BY <1>7, <1>8, <1>9, <3>1, <3>2 DEF Passed
    <2> HIDE DEF a, b, size, s
    <2>4. scan'[t].sum = scan[t].sum + size
      BY <1>4, <1>5
    <2>5. /\ Cardinality(Passed(t, stable[t])') <= scan'[t].sum
          /\ scan'[t].sum <= Cardinality(Passed(t, ever[t])')
      BY <1>1, <1>10, <1>11, <2>1, <2>2, <2>3, <2>4 DEF a, b
    <2> QED BY <2>5 DEF Counting
  <1>13. Iterating(t)'
    BY <1>5 DEF Iterating
  <1> HIDE DEF s, label
  <1>14. label \in ScanPCs /\ label # "read"
    BY DEF label, ScanPCs
  <1> QED BY <1>1, <1>2, <1>3, <1>4, <1>12, <1>13, <1>14, ScanMoves DEF ScanPCs

\* A shard's iterator starts before its first entry: it has met none of its keys.
LEMMA OpenKeepsScans ==
    ASSUME MapTypeOK, ScanInv, NEW t \in Threads, OpenShard(t)
    PROVE  ScanInv'
  <1> DEFINE r == scan[t]
             size == Cardinality(InShard(r.shard))
             q1 == [r EXCEPT !.size = size]
             q2 == [q1 EXCEPT !.left = size]
             s == [q2 EXCEPT !.place = 0]
  <1>1. r \in ScanType /\ pc[t] = "open" /\ size \in Nat
    BY InShardFinite DEF ScanInv, ScansTyped, OpenShard
  <1>2. scan' = [scan EXCEPT ![t] = s] /\ pc' = [pc EXCEPT ![t] = "next"]
    BY DEF OpenShard, Goto, ScanInv, ScansTyped
  <1>3. UNCHANGED <<data, history>>
    BY DEF OpenShard, Scanning
  <1>4. s \in ScanType /\ s.shard = r.shard /\ s.place = 0 /\ s.yielded = r.yielded
    <2> HIDE DEF r, size
    <2>1. q1 \in ScanType /\ q1.shard = r.shard /\ q1.yielded = r.yielded
      BY <1>1 DEF ScanType
    <2> HIDE DEF q1
    <2>2. q2 \in ScanType /\ q2.shard = r.shard /\ q2.yielded = r.yielded
      BY <1>1, <2>1 DEF ScanType
    <2> HIDE DEF q2
    <2> QED BY <2>2 DEF ScanType
  <1> HIDE DEF s
  <1>5. scan'[t] = s /\ pc'[t] = "next"
    BY <1>2 DEF ScanInv, ScansTyped, MapTypeOK
  <1>6. ASSUME NEW k \in stable[t] PROVE MetByPlace(t, k)'
    <2>1. MetByPlace(t, k) /\ place[k] \in Nat /\ place[k] >= 1
      BY <1>1 DEF ScanInv, Iterating, Enclosed, Tables, Present
    <2>2. Met(t, k)' = Met(t, k) /\ place'[k] = place[k] /\ rebuilt'[t] = rebuilt[t]
      BY <1>1, <1>3, <1>4, <1>5 DEF Met, data, history
    <2> QED BY <1>1, <1>4, <1>5, <2>1, <2>2 DEF MetByPlace
  <1>7. Counting(t)' /\ Iterating(t)'
    BY <1>3, <1>5, <1>6 DEF Counting, Iterating, history
  <1> QED BY <1>1, <1>2, <1>3, <1>4, <1>7, ScanMoves DEF ScanPCs

\* The next entry of a shard is the first one ahead: its key was not met before,
\* and no other key's entry lies between.
LEMMA NextKeepsScans ==
    ASSUME MapTypeOK, ScanInv, NEW t \in Threads, NextKey(t)
    PROVE  ScanInv'
  <1> DEFINE r == scan[t]
  <1>1. r \in ScanType /\ pc[t] = "next"
    BY DEF ScanInv, ScansTyped, NextKey
  <1>2. PICK n \in Ahead(t) :
           /\ \A j \in Ahead(t) : place[n] <= place[j]
           /\ scan' = [scan EXCEPT ![t].key = n, ![t].place = place[n],
                                   ![t].left = @ - 1]
    BY DEF NextKey
  <1>3. /\ n \in Present /\ n \in Keys /\ ShardOf[n] = r.shard
        /\ place[n] \in Nat /\ place[n] > r.place
    BY <1>2 DEF Ahead, InShard, Present, ScanInv, Tables
  <1> DEFINE q1 == [r EXCEPT !.key = n]
             q2 == [q1 EXCEPT !.place = place[n]]
             s == [q2 EXCEPT !.left = r.left - 1]
  <1>4. scan' = [scan EXCEPT ![t] = s] /\ pc' = [pc EXCEPT ![t] = "read"]
    BY <1>2 DEF NextKey, Goto, ScanInv, ScansTyped
  <1>5. UNCHANGED <<data, history>>
    BY DEF NextKey, Scanning
  <1>6. /\ s \in ScanType /\ s.shard = r.shard /\ s.place = place[n] /\ s.key = n
        /\ s.yielded = r.yielded
    <2> HIDE DEF r
    <2>1. q1 \in ScanType /\ q1.shard = r.shard /\ q1.yielded = r.yielded /\ q1.key = n
      BY <1>1, <1>3 DEF ScanType
    <2>3. r.left - 1 \in Int
      BY <1>1 DEF ScanType
    <2> HIDE DEF q1
    <2>2. /\ q2 \in ScanType /\ q2.shard = r.shard /\ q2.yielded = r.yielded
          /\ q2.key = n /\ q2.place = place[n]
      BY <1>3, <2>1 DEF ScanType
    <2> HIDE DEF q2
    <2> QED BY <2>2, <2>3 DEF ScanType
  <1> HIDE DEF s
  <1>7. scan'[t] = s /\ pc'[t] = "read"
    BY <1>4 DEF ScanInv, ScansTyped, MapTypeOK
  <1>8. ASSUME NEW k \in stable[t] PROVE MetByPlace(t, k)'
    <2>1. MetByPlace(t, k) /\ k \in Present /\ k \in Keys /\ place[k] \in Nat
      BY <1>1 DEF ScanInv, Iterating, Enclosed, Tables, Present
    <2>2. place'[k] = place[k] /\ rebuilt'[t] = rebuilt[t]
      BY <1>5 DEF data, history
    <2>3. Met(t, k) = r.yielded[k] /\ r.yielded[k] \in Nat /\ r.place \in Nat
      BY <1>1, <2>1 DEF Met, ScanType
    <2>4. CASE k = n
      <3>1. Met(t, k)' = r.yielded[k] + 1
        BY <1>6, <1>7, <2>4 DEF Met
      <3>2. r.yielded[k] = 0
        BY <1>1, <1>3, <2>1, <2>3, <2>4 DEF MetByPlace
      <3>3. ShardOf[k] \in Nat
        BY <2>1, ShardAssumption
      <3> QED BY <1>3, <1>6, <1>7, <2>2, <2>4, <3>1, <3>2, <3>3 DEF MetByPlace
    <2>5. CASE k # n
      <3>1. Met(t, k)' = Met(t, k)
        BY <1>6, <1>7, <2>3, <2>5 DEF Met
      <3>2. ShardOf[k] = r.shard /\ place[k] <= place[n] => place[k] <= r.place
        <4> SUFFICES ASSUME ShardOf[k] = r.shard, place[k] <= place[n], place[k] > r.place
                     PROVE  FALSE
          BY <2>1, <2>3
        <4>1. k \in Ahead(t)
          BY <2>1 DEF Ahead, InShard
        <4>2. place[k] = place[n]
          BY <1>2, <1>3, <2>1, <4>1
        <4> QED BY <1>3, <2>1, <2>5, <4>2 DEF ScanInv, Tables
      <3> QED BY <1>1, <1>3, <1>6, <1>7, <2>1, <2>2, <2>3, <3>1, <3>2 DEF MetByPlace
    <2> QED BY <2>4, <2>5
  <1>9. Counting(t)' /\ Iterating(t)'
    BY <1>5, <1>7, <1>8 DEF Counting, Iterating, history
  <1> QED BY <1>1, <1>3, <1>4, <1>5, <1>6, <1>9, ScanMoves DEF ScanPCs

\* Yielding the key that was met changes nothing about which keys were met.
LEMMA ReadKeepsScans ==
    ASSUME MapTypeOK, ScanInv, NEW t \in Threads, ReadValue(t)
    PROVE  ScanInv'
  <1> DEFINE r == scan[t]
             q == [r EXCEPT !.yielded = [r.yielded EXCEPT ![r.key] = @ + 1]]
             s == [q EXCEPT !.key = Absent]
  <1>1. r \in ScanType /\ pc[t] = "read" /\ r.key \in Keys
    BY DEF ScanInv, ScansTyped, ReadValue
  <1>2. scan' = [scan EXCEPT ![t] = s] /\ pc' = [pc EXCEPT ![t] = "next"]
    BY DEF ReadValue, Goto, ScanInv, ScansTyped
  <1>3. UNCHANGED <<data, history>>
    BY DEF ReadValue, Scanning
  <1>4. /\ s \in ScanType /\ s.shard = r.shard /\ s.place = r.place
        /\ s.yielded = [r.yielded EXCEPT ![r.key] = @ + 1]
    <2> DEFINE y == [r.yielded EXCEPT ![r.key] = @ + 1]
    <2>1. y \in [Keys -> Nat] /\ q = [r EXCEPT !.yielded = y]
      BY <1>1 DEF ScanType
    <2> HIDE DEF r, y, q
    <2>2. q \in ScanType /\ q.shard = r.shard /\ q.place = r.place /\ q.yielded = y
      BY <1>1, <2>1 DEF ScanType
    <2>3. s \in ScanType /\ s.shard = r.shard /\ s.place = r.place /\ s.yielded = y
      BY <2>2 DEF ScanType
    <2> QED BY <2>3 DEF y
  <1> HIDE DEF s
  <1>5. scan'[t] = s /\ pc'[t] = "next"
    BY <1>2 DEF ScanInv, ScansTyped, MapTypeOK
  <1>6. ASSUME NEW k \in stable[t] PROVE MetByPlace(t, k)'
    <2>1. MetByPlace(t, k) /\ k \in Keys
      BY <1>1 DEF ScanInv, Iterating, Enclosed
    <2>2. r.yielded \in [Keys -> Nat]
      BY <1>1 DEF ScanType
    <2>3. Met(t, k)' = Met(t, k)
      BY <1>1, <1>4, <1>5, <2>1, <2>2 DEF Met
    <2>4. place'[k] = place[k] /\ rebuilt'[t] = rebuilt[t]
      BY <1>3 DEF data, history
    <2> QED BY <1>1, <1>4, <1>5, <2>1, <2>3, <2>4 DEF MetByPlace
  <1>7. Counting(t)' /\ Iterating(t)'
    BY <1>3, <1>5, <1>6 DEF Counting, Iterating, history
  <1> QED BY <1>1, <1>2, <1>3, <1>4, <1>7, ScanMoves DEF ScanPCs

\* Whoever leaves a shard has every key of it that stayed behind.
LEMMA EndKeepsScans ==
    ASSUME MapTypeOK, ScanInv, NEW t \in Threads, EndShard(t)
    PROVE  ScanInv'
  <1> DEFINE r == scan[t]
             n == IF LastShard(t) THEN r.shard ELSE r.shard + 1
             s == [r EXCEPT !.shard = n]
             label == IF LastShard(t) THEN "iterated" ELSE "open"
  <1>1. r \in ScanType /\ pc[t] = "next" /\ Ahead(t) = {}
    BY DEF ScanInv, ScansTyped, EndShard
  <1>2. scan' = [scan EXCEPT ![t] = s] /\ pc' = [pc EXCEPT ![t] = label]
    BY DEF EndShard, Goto, ScanInv, ScansTyped
  <1>3. UNCHANGED <<data, history>>
    BY DEF EndShard, Scanning
  <1>4. /\ s \in ScanType /\ s.shard = n /\ s.yielded = r.yielded
        /\ n \in 1 .. Shards
    <2>1. r.shard \in 1 .. Shards /\ Shards \in Nat
      BY <1>1, ShardAssumption DEF ScanType
    <2>2. n \in 1 .. Shards
      BY <2>1 DEF LastShard
    <2> HIDE DEF r, n
    <2> QED BY <1>1, <2>2 DEF ScanType
  <1> HIDE DEF s
  <1>5. scan'[t] = s /\ pc'[t] = label
    BY <1>2 DEF ScanInv, ScansTyped, MapTypeOK
  <1>6. ASSUME NEW k \in stable[t]
        PROVE  /\ MetByPlace(t, k) /\ Met(t, k) = r.yielded[k]
               /\ ShardOf[k] \in 1 .. Shards
               /\ ShardOf[k] <= r.shard => r.yielded[k] = 1 \/ (rebuilt[t] /\ r.yielded[k] = 0)
    <2>1. MetByPlace(t, k) /\ k \in Present /\ k \in Keys /\ place[k] \in Nat
      BY <1>1 DEF ScanInv, Iterating, Enclosed, Tables, Present
    <2>2. Met(t, k) = r.yielded[k] /\ r.place \in Nat /\ r.shard \in 1 .. Shards
      BY <1>1, <2>1 DEF Met, ScanType
    <2>3. ShardOf[k] \in 1 .. Shards
      BY <2>1, ShardAssumption
    <2>4. ShardOf[k] = r.shard => place[k] <= r.place
      BY <1>1, <2>1, <2>2 DEF Ahead, InShard
    <2> QED BY <1>1, <2>1, <2>2, <2>3, <2>4, ShardAssumption DEF MetByPlace
  <1>7. CASE LastShard(t)
    <2>1. ASSUME NEW k \in stable[t]
          PROVE  r.yielded[k] = 1 \/ (rebuilt[t] /\ r.yielded[k] = 0)
      BY <1>6, <1>7, ShardAssumption DEF LastShard
    <2>2. pc'[t] = "iterated" /\ scan'[t].yielded = r.yielded
      BY <1>4, <1>5, <1>7
    <2>3. Counting(t)' /\ Iterating(t)'
      BY <1>3, <2>1, <2>2 DEF Counting, Iterating, history
    <2> QED BY <1>1, <1>2, <1>3, <1>4, <1>7, <2>3, ScanMoves DEF ScanPCs
  <1>8. CASE ~LastShard(t)
    <2>1. pc'[t] = "open" /\ scan'[t].yielded = r.yielded /\ scan'[t].shard = r.shard + 1
      BY <1>4, <1>5, <1>8
    <2>2. ASSUME NEW k \in stable[t] PROVE MetByPlace(t, k)'
      <3>1. Met(t, k)' = r.yielded[k] /\ rebuilt'[t] = rebuilt[t]
        <4>1. r.yielded[k] \in Nat
          BY <1>1 DEF ScanType, ScanInv, Enclosed
        <4> QED BY <1>3, <2>1, <4>1 DEF Met, history
      <3>2. r.shard \in Nat /\ ShardOf[k] \in Nat
        BY <1>1, <1>6, ShardAssumption DEF ScanType
      <3> QED BY <1>6, <2>1, <3>1, <3>2 DEF MetByPlace
    <2>3. Counting(t)' /\ Iterating(t)'
      BY <1>3, <2>1, <2>2 DEF Counting, Iterating, history
    <2> QED BY <1>1, <1>2, <1>3, <1>4, <1>8, <2>3, ScanMoves DEF ScanPCs
  <1> QED BY <1>7, <1>8

LEMMA FailKeepsScans ==
    ASSUME MapTypeOK, ScanInv, NEW t \in Threads, IterationFails(t) \/ ReadFails(t)
    PROVE  ScanInv'
  <1>1. /\ pc[t] \in {"next", "read"} /\ pc' = [pc EXCEPT ![t] = "failed"]
        /\ scan' = scan /\ UNCHANGED <<data, history>>
    BY DEF IterationFails, NextRaises, ReadFails, Goto, Scanning
  <1>2. scan' = [scan EXCEPT ![t] = scan[t]] /\ scan[t] \in ScanType /\ pc'[t] = "failed"
    BY <1>1 DEF ScanInv, ScansTyped, MapTypeOK
  <1>3. Counting(t)' /\ Iterating(t)'
    BY <1>2 DEF Counting, Iterating
  <1> QED BY <1>1, <1>2, <1>3, ScanMoves DEF ScanPCs

\* A scan begins with all that is present as its history, and has met nothing.
LEMMA BeginKeepsScans ==
    ASSUME MapTypeOK, ScanInv, NEW t \in Threads,
           BeginScan(t, "count") \/ BeginScan(t, "open")
    PROVE  ScanInv'
  <1>1. PICK label \in {"count", "open"} : BeginScan(t, label)
    OBVIOUS
  <1>2. /\ pc[t] = "idle" /\ pc' = [pc EXCEPT ![t] = label]
        /\ stable' = [stable EXCEPT ![t] = Present]
        /\ ever' = [ever EXCEPT ![t] = Present]
        /\ UNCHANGED <<data, scan, rebuilt>>
    BY <1>1 DEF BeginScan, Goto
  <1>3. /\ pc'[t] = label /\ stable'[t] = Present /\ ever'[t] = Present
        /\ \A u \in Threads : u # t => UNCHANGED <<pc[u], stable[u], ever[u]>>
    BY <1>2 DEF MapTypeOK, ScanInv, Enclosed
  <1>4. Present' = Present
    BY <1>2 DEF data, Present
  <1>5. Tables'
    BY <1>2, <1>4 DEF ScanInv, Tables, data
  <1>6. Present \in SUBSET Keys /\ IsFiniteSet(Present)
    BY DEF Present, ScanInv, Tables
  <1>7. Enclosed'
    BY <1>2, <1>3, <1>4, <1>6 DEF ScanInv, Enclosed
  <1>8. ScansTyped'
    <2>1. scan' = scan /\ label \in ScanPCs /\ label # "read"
      BY <1>2 DEF ScanPCs
    <2> QED BY <1>3, <2>1 DEF ScanInv, ScansTyped
  <1>9. ASSUME NEW u \in Threads PROVE Counting(u)' /\ Iterating(u)'
    <2>1. CASE u # t
      <3>1. UNCHANGED <<scan[u], pc[u], stable[u], ever[u], rebuilt[u], place>>
        BY <1>2, <1>3, <2>1 DEF data
      <3> QED BY <3>1, ScanLeftAlone
    <2>2. CASE u = t
      <3>1. scan'[t] = NoScan
        BY <1>2 DEF ScanInv, ScansTyped, ScanPCs
      <3>2. \A k \in Keys : ~(ShardOf[k] < 1)
        BY ShardAssumption
      <3>3. Counting(t)'
        <4>1. Passed(t, stable[t])' = {} /\ Passed(t, ever[t])' = {}
          BY <1>3, <1>6, <3>1, <3>2 DEF Passed, NoScan
        <4>2. Cardinality({}) = 0
          BY FS_EmptySet
        <4>3. scan'[t].sum = 0
          BY <3>1 DEF NoScan
        <4> QED BY <4>1, <4>2, <4>3 DEF Counting
      <3>4. ASSUME NEW k \in stable'[t], pc'[t] = "open" PROVE MetByPlace(t, k)'
        <4>1. k \in Keys
          BY <1>3, <1>6
        <4>2. Met(t, k)' = 0 /\ scan'[t].shard = 1
          BY <3>1, <3>4, <4>1 DEF Met, NoScan
        <4> QED BY <3>2, <3>4, <4>1, <4>2 DEF MetByPlace
      <3>5. Iterating(t)'
        BY <1>3, <3>4 DEF Iterating
      <3> QED BY <2>2, <3>3, <3>5
    <2> QED BY <2>1, <2>2
  <1> QED BY <1>5, <1>7, <1>8, <1>9 DEF ScanInv

LEMMA LeaveKeepsScans ==
    ASSUME MapTypeOK, ScanInv, NEW t \in Threads, EndScan(t)
    PROVE  ScanInv'
  <1>1. /\ pc' = [pc EXCEPT ![t] = "idle"] /\ scan' = [scan EXCEPT ![t] = NoScan]
        /\ stable' = [stable EXCEPT ![t] = {}] /\ ever' = [ever EXCEPT ![t] = {}]
        /\ rebuilt' = [rebuilt EXCEPT ![t] = FALSE] /\ UNCHANGED data
    BY DEF EndScan, Goto
  <1>2. /\ pc'[t] = "idle" /\ stable'[t] = {} /\ ever'[t] = {} /\ scan'[t] = NoScan
        /\ \A u \in Threads : u # t => /\ pc'[u] = pc[u] /\ stable'[u] = stable[u]
                                       /\ ever'[u] = ever[u] /\ scan'[u] = scan[u]
    BY <1>1 DEF MapTypeOK, ScanInv, Enclosed, ScansTyped
  <1>3. /\ rebuilt' \in [Threads -> BOOLEAN]
        /\ \A u \in Threads : u # t => rebuilt'[u] = rebuilt[u]
    BY <1>1, Zenon DEF ScanInv, Enclosed
  <1>4. Present' = Present
    BY <1>1 DEF data, Present
  <1>5. Tables'
    BY <1>1, <1>4 DEF ScanInv, Tables, data
  <1>6. Enclosed'
    <2>1. stable' \in [Threads -> SUBSET Keys] /\ ever' \in [Threads -> SUBSET Keys]
      BY <1>1 DEF ScanInv, Enclosed
    <2>2. ASSUME NEW u \in Threads
          PROVE  /\ stable'[u] \subseteq Present'
                 /\ pc'[u] \in ScanPCs => Present' \subseteq ever'[u]
                 /\ IsFiniteSet(ever'[u])
      BY <1>2, <1>4, FS_EmptySet DEF ScanInv, Enclosed, ScanPCs
    <2> QED BY <1>3, <2>1, <2>2 DEF Enclosed
  <1>7. ScansTyped'
    <2>1. NoScan \in ScanType
      BY ShardAssumption DEF NoScan, ScanType
    <2>2. scan' \in [Threads -> ScanType]
      BY <1>1, <2>1 DEF ScanInv, ScansTyped
    <2> QED BY <1>2, <2>2 DEF ScanInv, ScansTyped
  <1>8. ASSUME NEW u \in Threads PROVE Counting(u)' /\ Iterating(u)'
    <2>1. CASE u # t
      <3>1. UNCHANGED <<scan[u], pc[u], stable[u], ever[u], rebuilt[u], place>>
        BY <1>1, <1>2, <1>3, <2>1 DEF data
      <3> QED BY <3>1, ScanLeftAlone
    <2>2. CASE u = t
      BY <1>2, <2>2 DEF Counting, Iterating
    <2> QED BY <2>1, <2>2
  <1> QED BY <1>5, <1>6, <1>7, <1>8 DEF ScanInv

LEMMA ActKeepsScans ==
    ASSUME IInv, ScanInv, NEW t \in Threads,
           \/ Set(t) \/ Get(t) \/ Has(t) \/ Delete(t) \/ Pop(t)
           \/ SetIfAbsent(t) \/ Upsert(t)
    PROVE  ScanInv'
  <1>1. pc[t] = "act"
    BY DEF Set, Get, Has, Delete, Pop, SetIfAbsent, Upsert, Running
  <1>2. op[t] \in Atomic!Operations /\ seen[t] \in Entries
    BY <1>1 DEF IInv, MapTypeOK
  <1>3. /\ op[t].key \in Keys
        /\ op[t].name \in Inserting => op[t].value \in Values
    BY <1>2 DEF Atomic!Operations, Inserting
  <1>4. Current(t) \in Entries /\ Absent \in Entries /\ Values \subseteq Entries
    BY <1>3 DEF Current, Entries, IInv, MapTypeOK
  <1>5. ASSUME NEW e \in Entries, NEW ok, NEW r, Finish(t, e, ok, r)
        PROVE  ScanInv'
    BY <1>1, <1>5, FinishKeepsScans
  <1>6. CASE Set(t)
    <2>1. op[t].value \in Entries /\ Finish(t, op[t].value, TRUE, Absent)
      BY <1>3, <1>4, <1>6 DEF Set, Running, Inserting
    <2> QED BY <1>5, <2>1
  <1>7. CASE Get(t)
    BY <1>4, <1>5, <1>7 DEF Get
  <1>8. CASE Has(t)
    BY <1>4, <1>5, <1>8 DEF Has
  <1>9. CASE SetIfAbsent(t)
    <2> DEFINE e == IF seen[t] = Absent THEN op[t].value ELSE Current(t)
    <2>1. e \in Entries /\ Finish(t, e, TRUE, Absent)
      BY <1>3, <1>4, <1>9 DEF SetIfAbsent, Running, Inserting
    <2> QED BY <1>5, <2>1
  <1>10. CASE Upsert(t)
    <2> DEFINE e == Func(seen[t] # Absent, seen[t], op[t].value)
    <2>1. (seen[t] # Absent) \in BOOLEAN /\ op[t].value \in Values
      BY <1>3, <1>10 DEF Upsert, Running, Inserting
    <2>2. e \in Entries
      BY <1>2, <1>4, <2>1, ValueAssumption DEF Entries
    <2>3. Finish(t, e, TRUE, e)
      BY <1>10 DEF Upsert
    <2> QED BY <1>5, <2>2, <2>3
  <1>11. CASE Delete(t)
    <2> DEFINE e == IF seen[t] = Absent THEN Current(t) ELSE Absent
    <2>1. e \in Entries /\ Finish(t, e, ~Gone(t), Absent)
      BY <1>4, <1>11 DEF Delete
    <2> QED BY <1>5, <2>1
  <1>12. CASE Pop(t)
    <2>1. \/ Finish(t, Current(t), TRUE, Absent)
          \/ Finish(t, Absent, ~Gone(t), Current(t))
      BY <1>12 DEF Pop
    <2> QED BY <1>4, <1>5, <2>1
  <1> QED BY <1>6, <1>7, <1>8, <1>9, <1>10, <1>11, <1>12

\* Taking a lock and testing a key, and doing nothing at all, leave the tables
\* and the scans alone.
LEMMA QuietKeepsScans ==
    ASSUME ScanInv, UNCHANGED <<data, scan, history>>,
           \A u \in Threads : \/ pc'[u] = pc[u]
                              \/ pc[u] \notin ScanPCs /\ pc'[u] \notin ScanPCs
    PROVE  ScanInv'
  <1>1. Present' = Present
    BY DEF data, Present
  <1>2. Tables'
    BY <1>1 DEF ScanInv, Tables, data
  <1>3. Enclosed'
    BY <1>1 DEF ScanInv, Enclosed, history
  <1>4. ScansTyped'
    BY DEF ScanInv, ScansTyped, ScanPCs
  <1>5. ASSUME NEW u \in Threads PROVE Counting(u)' /\ Iterating(u)'
    <2>1. CASE pc'[u] = pc[u]
      BY <2>1, ScanLeftAlone DEF data, history
    <2>2. CASE pc'[u] \notin ScanPCs
      BY <2>2 DEF Counting, Iterating, ScanPCs
    <2> QED BY <2>1, <2>2
  <1> QED BY <1>2, <1>3, <1>4, <1>5 DEF ScanInv

\* Every step of every thread keeps what the scans rest on.
LEMMA NextScanInv ==
    ASSUME IInv, ScanInv, [Next]_vars
    PROVE  ScanInv'
  <1>1. MapTypeOK
    BY DEF IInv
  <1>2. ASSUME NEW t \in Threads,
               \/ \E o \in Atomic!Operations : Call(t, o)
               \/ Acquire(t) \/ Test(t)
        PROVE  ScanInv'
    <2>1. /\ UNCHANGED <<data, scan, history>>
          /\ \E label \in PCs \ ScanPCs : pc' = [pc EXCEPT ![t] = label]
          /\ pc[t] \notin ScanPCs
      BY <1>2 DEF Call, Acquire, Test, Goto, PCs, ScanPCs
    <2>2. \A u \in Threads : \/ pc'[u] = pc[u]
                             \/ pc[u] \notin ScanPCs /\ pc'[u] \notin ScanPCs
      BY <1>1, <2>1 DEF MapTypeOK
    <2> QED BY <2>1, <2>2, QuietKeepsScans
  <1>3. ASSUME NEW t \in Threads,
               \/ Set(t) \/ Get(t) \/ Has(t) \/ Delete(t) \/ Pop(t)
               \/ SetIfAbsent(t) \/ Upsert(t)
        PROVE  ScanInv'
    BY <1>3, ActKeepsScans
  <1>4. ASSUME NEW t \in Threads,
               \/ CountShard(t)
               \/ OpenShard(t) \/ NextKey(t) \/ ReadValue(t) \/ EndShard(t)
               \/ IterationFails(t) \/ ReadFails(t)
        PROVE  ScanInv'
    BY <1>1, <1>4, CountKeepsScans, OpenKeepsScans, NextKeepsScans, ReadKeepsScans,
       EndKeepsScans, FailKeepsScans
  <1>5. ASSUME NEW t \in Threads,
               BeginScan(t, "count") \/ BeginScan(t, "open") \/ EndScan(t)
        PROVE  ScanInv'
    BY <1>1, <1>5, BeginKeepsScans, LeaveKeepsScans
  <1>6. CASE UNCHANGED vars
    BY <1>6, QuietKeepsScans DEF vars
  <1> QED BY <1>2, <1>3, <1>4, <1>5, <1>6 DEF Next, Step, Start

LEMMA ScanInvariant == Spec => [](IInv /\ ScanInv)
  BY InitIInv, InitScanInv, NextIInv, NextScanInv, PTL DEF Spec

\* CountBetween, for all constants: what count() returns, one shard after the
\* other, lies between the number of keys that stayed and the number of keys
\* that were there at some moment while it ran.
THEOREM CountBetweenHolds == Spec => []CountBetween
  <1>1. ScanInv => CountBetween
    <2> SUFFICES ASSUME ScanInv, NEW t \in Threads, pc[t] = "counted"
                 PROVE  /\ Cardinality(stable[t]) <= scan[t].sum
                        /\ scan[t].sum <= Cardinality(ever[t])
      BY DEF CountBetween
    <2>1. Passed(t, stable[t]) = stable[t] /\ Passed(t, ever[t]) = ever[t]
      BY DEF Passed
    <2> QED BY <2>1 DEF ScanInv, Counting
  <1> QED BY <1>1, ScanInvariant, PTL

\* StableKeysOnce, for all constants: an iteration that ends has yielded every
\* key that stayed exactly once, or, if a table was rebuilt, at most once.
THEOREM StableKeysOnceHolds == Spec => []StableKeysOnce
  <1>1. ScanInv => StableKeysOnce
    BY DEF ScanInv, Iterating, StableKeysOnce
  <1> QED BY <1>1, ScanInvariant, PTL
=============================================================================
