--------------------------- MODULE MapOperations ---------------------------
(***************************************************************************)
(* What each one-key operation of config/cache/concurrent_map.py does to   *)
(* the map and what it gives back, when nothing else runs meanwhile.       *)
(***************************************************************************)
CONSTANTS
    Threads, Keys, Values,
    Absent,             \* no entry; None
    Func(_, _, _)       \* upsert's callback: exist, current value, new value

VARIABLES
    contents,   \* the value of each key
    returned    \* what each thread's last operation gave back: whether it
                \* succeeded, and the value, Absent for None

Init ==
    /\ contents = [k \in Keys |-> Absent]
    /\ returned = [t \in Threads |-> [ok |-> TRUE, value |-> Absent]]

Do(t, k, entry, ok, value) ==
    /\ contents' = [contents EXCEPT ![k] = entry]
    /\ returned' = [returned EXCEPT ![t] = [ok |-> ok, value |-> value]]

Present(k) == contents[k] # Absent

Set(t, k, v) == Do(t, k, v, TRUE, Absent)
Get(t, k) == Do(t, k, contents[k], TRUE, contents[k])
Has(t, k) == Do(t, k, contents[k], Present(k), Absent)
Delete(t, k) == Do(t, k, Absent, TRUE, Absent)
Pop(t, k) == Do(t, k, Absent, TRUE, contents[k])

\* Returns True whether or not it stored the value.
SetIfAbsent(t, k, v) ==
    Do(t, k, IF Present(k) THEN contents[k] ELSE v, TRUE, Absent)

Upsert(t, k, v) ==
    LET new == Func(Present(k), contents[k], v) IN Do(t, k, new, TRUE, new)
=============================================================================
