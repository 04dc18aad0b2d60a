------------------------------ MODULE Limiter ------------------------------
(***************************************************************************)
(* is_limited of config/model/limiter.py: one rate limiter per key, made   *)
(* on first use and kept in a ConcurrentMap.  That map implements          *)
(* AtomicMap, so that MapOperations stand for it here.  The look-up and    *)
(* the store are two operations; the lock mux keeps them together.         *)
(*                                                                         *)
(* The limiter object is external (ratelimit.limits): it admits Calls      *)
(* calls in a period and refuses with RateLimitException until the next.   *)
(***************************************************************************)
EXTENDS Integers

CONSTANTS
    Threads, NoThread,
    Keys,           \* check keys
    Limiters,       \* the limiter objects that may be made: numbers from 1
    NoLimiter,      \* None
    Calls           \* calls admitted per period, 5 in the code

ASSUME LimiterAssumption ==
    /\ Limiters \subseteq Nat \ {0}
    /\ NoLimiter \notin Limiters
    /\ Calls \in Nat
ASSUME NoThreadAssumption == NoThread \notin Threads

VARIABLES
    contents, returned,     \* checker['rate_limiter_cache']
    mux,                    \* checker['mux']
    pc,
    key,                    \* the argument check_key of each thread's call
    limiter,                \* its local variable limiter
    spent,                  \* calls each limiter has admitted this period
    made,                   \* number of limiters made
    admitted                \* history: calls answered False this period, per key

vars == <<contents, returned, mux, pc, key, limiter, spent, made, admitted>>

First(exist, current, new) == new
Cache == INSTANCE MapOperations WITH Values <- Limiters, Absent <- NoLimiter, Func <- First

Init ==
    /\ Cache!Init
    /\ mux = NoThread
    /\ pc = [t \in Threads |-> "idle"]
    /\ key \in [Threads -> Keys]
    /\ limiter = [t \in Threads |-> NoLimiter]
    /\ spent = [l \in Limiters |-> 0]
    /\ made = 0
    /\ admitted = [k \in Keys |-> 0]

Goto(t, label) == pc' = [pc EXCEPT ![t] = label]

Call(t, k) ==
    /\ pc[t] = "idle"
    /\ key' = [key EXCEPT ![t] = k]
    /\ Goto(t, "acquire")
    /\ UNCHANGED <<contents, returned, mux, limiter, spent, made, admitted>>

MutMuxIsFree == TRUE
MuxIsFree == mux = NoThread

Acquire(t) ==
    /\ pc[t] = "acquire"
    /\ MuxIsFree
    /\ mux' = t
    /\ Goto(t, "lookUp")
    /\ UNCHANGED <<contents, returned, key, limiter, spent, made, admitted>>

LookUp(t) ==
    /\ pc[t] = "lookUp"
    /\ Cache!Get(t, key[t])
    /\ limiter' = [limiter EXCEPT ![t] = contents[key[t]]]
    /\ Goto(t, IF contents[key[t]] = NoLimiter THEN "make" ELSE "allow")
    /\ UNCHANGED <<mux, key, spent, made, admitted>>

Make(t) ==
    /\ pc[t] = "make"
    /\ made + 1 \in Limiters
    /\ made' = made + 1
    /\ limiter' = [limiter EXCEPT ![t] = made + 1]
    /\ Goto(t, "store")
    /\ UNCHANGED <<contents, returned, mux, key, spent, admitted>>

Store(t) ==
    /\ pc[t] = "store"
    /\ Cache!Set(t, key[t], limiter[t])
    /\ Goto(t, "allow")
    /\ UNCHANGED <<mux, key, limiter, spent, made, admitted>>

\* Both returns are inside the with block and free mux.
Leave(t) ==
    /\ mux' = NoThread
    /\ limiter' = [limiter EXCEPT ![t] = NoLimiter]
    /\ Goto(t, "idle")

WithinRate(l) == spent[l] < Calls

Admit(t) ==
    /\ pc[t] = "allow"
    /\ WithinRate(limiter[t])
    /\ spent' = [spent EXCEPT ![limiter[t]] = @ + 1]
    /\ admitted' = [admitted EXCEPT ![key[t]] = @ + 1]
    /\ Leave(t)
    /\ UNCHANGED <<contents, returned, key, made>>

MutRefuse(t) ==
    /\ pc[t] = "allow"
    /\ ~WithinRate(limiter[t])
    /\ Goto(t, "idle")
    /\ UNCHANGED <<contents, returned, mux, key, limiter, spent, made, admitted>>
Refuse(t) ==
    /\ pc[t] = "allow"
    /\ ~WithinRate(limiter[t])
    /\ Leave(t)
    /\ UNCHANGED <<contents, returned, key, spent, made, admitted>>

\* Any other exception of allow_n leaves the with block, and is_limited, too.
Raise(t) ==
    /\ pc[t] = "allow"
    /\ Leave(t)
    /\ UNCHANGED <<contents, returned, key, spent, made, admitted>>

\* Periods of all limiters are taken to start together.
NewPeriod ==
    /\ spent' = [l \in Limiters |-> 0]
    /\ admitted' = [k \in Keys |-> 0]
    /\ UNCHANGED <<contents, returned, mux, pc, key, limiter, made>>

Step(t) ==
    \/ Acquire(t)
    \/ LookUp(t)
    \/ Make(t)
    \/ Store(t)
    \/ Admit(t)
    \/ Refuse(t)
    \/ Raise(t)

Next ==
    \/ \E t \in Threads : Step(t) \/ \E k \in Keys : Call(t, k)
    \/ NewPeriod

\* A thread that holds mux runs; nothing is assumed about who gets it next.
Spec == Init /\ [][Next]_vars
FairSpec == Spec /\ \A t \in Threads : WF_vars(Step(t))

-----------------------------------------------------------------------------
\* The type invariant.
TypeOK ==
    /\ contents \in [Keys -> Limiters \cup {NoLimiter}]
    /\ mux \in Threads \cup {NoThread}
    /\ pc \in [Threads -> {"idle", "acquire", "lookUp", "make", "store", "allow"}]
    /\ key \in [Threads -> Keys]
    /\ limiter \in [Threads -> Limiters \cup {NoLimiter}]
    /\ spent \in [Limiters -> 0 .. Calls]
    /\ made \in Nat
    /\ admitted \in [Keys -> Nat]

\* No period admits more than Calls calls of a key, however many threads make
\* the first call of that key at once.
RateHolds == \A k \in Keys : admitted[k] <= Calls

\* mux is free again and again: whoever holds it gives it back, whether the
\* limiter admits, refuses or raises something else.
MuxFreed == []<>(mux = NoThread)
=============================================================================
