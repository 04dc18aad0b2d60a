----------------------------- MODULE AtomicMap -----------------------------
(***************************************************************************)
(* What config/cache/concurrent_map.py promises its callers: a map each of *)
(* whose one-key operations takes effect once, at one moment between its   *)
(* call and its return.                                                    *)
(***************************************************************************)
EXTENDS MapOperations

VARIABLE op     \* the operation each thread has called: [name, key, value]

Operations ==
    [name : {"set", "setIfAbsent", "upsert"}, key : Keys, value : Values] \cup
    [name : {"get", "has", "delete", "pop"}, key : Keys, value : {Absent}]
NoOp == [name |-> "none", key |-> Absent, value |-> Absent]

Call(t, o) ==
    /\ op[t] = NoOp
    /\ op' = [op EXCEPT ![t] = o]
    /\ UNCHANGED <<contents, returned>>

Effect(t, name, k, v) ==
    \/ name = "set" /\ Set(t, k, v)
    \/ name = "get" /\ Get(t, k)
    \/ name = "has" /\ Has(t, k)
    \/ name = "delete" /\ Delete(t, k)
    \/ name = "pop" /\ Pop(t, k)
    \/ name = "setIfAbsent" /\ SetIfAbsent(t, k, v)
    \/ name = "upsert" /\ Upsert(t, k, v)

\* The effect; the operation returns.
TakeEffect(t) ==
    /\ Effect(t, op[t].name, op[t].key, op[t].value)
    /\ op' = [op EXCEPT ![t] = NoOp]

Next == \E t \in Threads : TakeEffect(t) \/ \E o \in Operations : Call(t, o)

Spec == Init /\ op = [t \in Threads |-> NoOp] /\ [][Next]_<<contents, returned, op>>
=============================================================================
