----------------------------- MODULE AuthClient -----------------------------
(***************************************************************************)
(* class AuthClient of transport/auth_client.py: get_access_token, which   *)
(* returns the cached token while it is fresh and logs in otherwise.  The  *)
(* method takes no lock; every read and write of the object's fields is a  *)
(* step of its own, in the order Python evaluates them.                    *)
(*                                                                         *)
(* The only owner of an AuthClient is NacosServerConnector, whose          *)
(* constructor logs in once (nacos_server_connector.py:56) before any      *)
(* other thread can reach the object; if that call raises there is no      *)
(* object, and the program may construct another.                          *)
(*                                                                         *)
(* The login servers are external: they fail, answer something that is no  *)
(* JSON object, or grant a token.  A token is written as the time at which *)
(* its server stops accepting it, None standing for a reply without one.   *)
(***************************************************************************)
EXTENDS Integers

CONSTANTS
    Threads,        \* callers of get_access_token
    Main,           \* the one that runs the constructor
    NumServers,     \* length of get_server_list()
    Ttls,           \* 'tokenTtl' values servers answer, the default included
    Margin,         \* the 10 seconds a token is renewed ahead of its end
    MaxTime         \* bound on the wall clock

ASSUME ThreadsAssumption == Main \in Threads
ASSUME NumbersAssumption ==
    /\ NumServers \in Nat \ {0}
    /\ Ttls \subseteq Nat \ {0}
    /\ Margin \in Nat
    /\ MaxTime \in Nat

VARIABLES
    accessToken, tokenTtl, tokenExpiredTime,    \* the object's fields
    built,          \* whether a constructor has returned
    now,            \* time.time()
    pc,             \* the next read or write of each thread
    force,          \* its argument force_refresh
    currentTime,    \* its local current_time
    server,         \* the server its loop is at
    grant,          \* the login reply it holds: [token, ttl]
    expiry          \* the sum it is about to store

fields == <<accessToken, tokenTtl, tokenExpiredTime>>
locals == <<force, currentTime, server, grant, expiry>>
vars == <<fields, built, now, pc, locals>>

None == 0               \* access_token is None
NeverSet == -Margin - 1 \* token_expired_time is None; below any stored time
NoGrant == [token |-> None, ttl |-> 0]

Init ==
    /\ accessToken = None /\ tokenTtl = 0 /\ tokenExpiredTime = NeverSet
    /\ built = FALSE
    /\ now = 1
    /\ pc = [t \in Threads |-> "idle"]
    /\ force = [t \in Threads |-> FALSE]
    /\ currentTime = [t \in Threads |-> 0]
    /\ server = [t \in Threads |-> 1]
    /\ grant = [t \in Threads |-> NoGrant]
    /\ expiry = [t \in Threads |-> 0]

-----------------------------------------------------------------------------
(* Entering: the constructor's forced call first, then calls of any thread *)
(* by _inject_security_info, which never forces.                           *)

MayCall(t, f) ==
    \/ ~built /\ t = Main /\ f
    \/ built /\ ~f

\* The call itself, for the composition with its callers.
Enter(t, f) ==
    /\ pc[t] = "idle"
    /\ pc' = [pc EXCEPT ![t] = "readToken"]
    /\ force' = [force EXCEPT ![t] = f]
    /\ currentTime' = [currentTime EXCEPT ![t] = now]
    /\ UNCHANGED <<fields, built, now, server, grant, expiry>>

Call(t, f) == MayCall(t, f) /\ Enter(t, f)

Goto(t, label) == pc' = [pc EXCEPT ![t] = label]

\* Leaving the call forgets its locals.
Leave(t) ==
    /\ Goto(t, "idle")
    /\ force' = [force EXCEPT ![t] = FALSE]
    /\ currentTime' = [currentTime EXCEPT ![t] = 0]
    /\ server' = [server EXCEPT ![t] = 1]
    /\ grant' = [grant EXCEPT ![t] = NoGrant]
    /\ expiry' = [expiry EXCEPT ![t] = 0]

\* self.access_token and not force_refresh
ReadToken(t) ==
    /\ pc[t] = "readToken"
    /\ Goto(t, IF accessToken # None /\ ~force[t] THEN "readExpiry" ELSE "login")
    /\ UNCHANGED <<fields, built, now, locals>>

\* self.token_expired_time > current_time
MutStillFresh(t) == tokenExpiredTime + Margin >= currentTime[t]
StillFresh(t) == tokenExpiredTime > currentTime[t]

ReadExpiry(t) ==
    /\ pc[t] = "readExpiry"
    /\ Goto(t, IF StillFresh(t) THEN "returnCached" ELSE "login")
    /\ UNCHANGED <<fields, built, now, locals>>

\* return self.access_token, read again.
Return(t) ==
    /\ pc[t] \in {"returnCached", "return"}
    /\ Leave(t)
    /\ built' = TRUE
    /\ UNCHANGED <<fields, now>>

-----------------------------------------------------------------------------
(* The loop over the servers.                                              *)

\* not resp or error: the next server, or the exception after the last one.
NextServer(t) == server[t] + 1

LoginFails(t) ==
    /\ pc[t] = "login"
    /\ server[t] < NumServers
    /\ server' = [server EXCEPT ![t] = NextServer(t)]
    /\ UNCHANGED <<fields, built, now, pc, force, currentTime, grant, expiry>>

MutLastLoginFails(t) ==
    /\ pc[t] = "login"
    /\ server[t] = NumServers
    /\ server' = [server EXCEPT ![t] = 1]
    /\ UNCHANGED <<fields, built, now, pc, force, currentTime, grant, expiry>>
LastLoginFails(t) ==
    /\ pc[t] = "login"
    /\ server[t] = NumServers
    /\ Leave(t)
    /\ UNCHANGED <<fields, built, now>>

\* json.loads, .get on its result, or the request raises (a timeout while the
\* body is read is no URLError); the other servers go unasked.
LoginRaises(t) ==
    /\ pc[t] = "login"
    /\ Leave(t)
    /\ UNCHANGED <<fields, built, now>>

\* The server grants a token for ttl from now on, or answers without one.
LoginSucceeds(t, ttl) ==
    /\ pc[t] = "login"
    /\ \E token \in {None, now + ttl} :
          grant' = [grant EXCEPT ![t] = [token |-> token, ttl |-> ttl]]
    /\ Goto(t, "storeToken")
    /\ UNCHANGED <<fields, built, now, force, currentTime, server, expiry>>

StoreToken(t) ==
    /\ pc[t] = "storeToken"
    /\ accessToken' = grant[t].token
    /\ Goto(t, "storeTtl")
    /\ UNCHANGED <<tokenTtl, tokenExpiredTime, built, now, locals>>

StoreTtl(t) ==
    /\ pc[t] = "storeTtl"
    /\ tokenTtl' = grant[t].ttl
    /\ Goto(t, "readTtl")
    /\ UNCHANGED <<accessToken, tokenExpiredTime, built, now, locals>>

\* current_time + self.token_ttl - 10; current_time is when the call began.
MutExpiryFrom(t, ttl) == now + ttl - Margin
ExpiryFrom(t, ttl) == currentTime[t] + ttl - Margin

ReadTtl(t) ==
    /\ pc[t] = "readTtl"
    /\ expiry' = [expiry EXCEPT ![t] = ExpiryFrom(t, tokenTtl)]
    /\ Goto(t, "storeExpiry")
    /\ UNCHANGED <<fields, built, now, force, currentTime, server, grant>>

StoreExpiry(t) ==
    /\ pc[t] = "storeExpiry"
    /\ tokenExpiredTime' = expiry[t]
    /\ Goto(t, "return")
    /\ UNCHANGED <<accessToken, tokenTtl, built, now, locals>>

Tick ==
    /\ now < MaxTime
    /\ now' = now + 1
    /\ UNCHANGED <<fields, built, pc, locals>>

-----------------------------------------------------------------------------
Step(t) ==
    \/ ReadToken(t)
    \/ ReadExpiry(t)
    \/ Return(t)
    \/ LoginFails(t)
    \/ LastLoginFails(t)
    \/ LoginRaises(t)
    \/ \E ttl \in Ttls : LoginSucceeds(t, ttl)
    \/ StoreToken(t)
    \/ StoreTtl(t)
    \/ ReadTtl(t)
    \/ StoreExpiry(t)

Next ==
    \/ \E t \in Threads : Step(t) \/ \E f \in BOOLEAN : Call(t, f)
    \/ Tick

\* A thread inside a call runs; HttpAgent.request returns, at worst with the
\* error of its timeout.
Fairness == \A t \in Threads : WF_vars(Step(t))

Spec == Init /\ [][Next]_vars
FairSpec == Spec /\ Fairness

-----------------------------------------------------------------------------
Storing == {"storeToken", "storeTtl", "readTtl", "storeExpiry"}
PCs == {"idle", "readToken", "readExpiry", "returnCached", "login", "return"}
           \cup Storing

\* The type invariant.
TypeOK ==
    /\ accessToken \in Nat
    /\ tokenTtl \in Ttls \cup {0}
    /\ tokenExpiredTime \in Int
    /\ built \in BOOLEAN
    /\ now \in Nat
    /\ pc \in [Threads -> PCs]
    /\ force \in [Threads -> BOOLEAN]
    /\ currentTime \in [Threads -> Nat]
    /\ server \in [Threads -> 1 .. NumServers]
    /\ grant \in [Threads -> [token : Nat, ttl : Ttls \cup {0}]]
    /\ expiry \in [Threads -> Int]

\* "token_expired_time > current_time" never compares None: between the two
\* stores of a first login the token is set and the time is not, and only the
\* constructor's login keeps other threads out of that window.
NeverComparesNone ==
    \A t \in Threads : pc[t] = "readExpiry" => tokenExpiredTime # NeverSet

Quiet == \A t \in Threads : pc[t] \notin Storing

\* Between logins token_expired_time lies Margin before the end of the token it
\* was stored with.  True of one caller; two logins at once mix their stores.
ExpiryWithinToken ==
    Quiet /\ accessToken # None => tokenExpiredTime + Margin <= accessToken

\* A token returned from the cache has more than Margin to live, counted from
\* the start of the call that returns it.
CachedTokenLives ==
    \A t \in Threads :
        pc[t] = "returnCached" => accessToken > currentTime[t] + Margin

\* Every call ends, by returning or by raising, whatever the servers do.
CallEnds == \A t \in Threads : pc[t] # "idle" ~> pc[t] = "idle"
=============================================================================
