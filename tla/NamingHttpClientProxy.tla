------------------------ MODULE NamingHttpClientProxy ------------------------
(***************************************************************************)
(* register_instance of naming/remote/http/naming_http_client_proxy.py over *)
(* the heartbeat reactor: any number of threads register instances while   *)
(* beats go on, are removed and are stopped.  The class inherits abstract   *)
(* methods it does not define; only register_instance is modelled.         *)
(*                                                                         *)
(* req_api is ServerConnector's: it returns the server's bytes or raises   *)
(* NacosException.  Line 56 calls read() on those bytes, which raises      *)
(* unless the repair "read" is there; the branch for HTTPError (76-80) is  *)
(* never taken, as http_agent returns those errors instead of raising.     *)
(***************************************************************************)
EXTENDS HeartbeatReactor

CONSTANTS
    Callers

VARIABLES
    pc,
    key,            \* the instance each caller registers
    info,           \* its local variable beat_info
    made,           \* number of HeartbeatInfo objects made
    promised        \* history: instances whose caller was last told True

vars == <<repairs, beatInfoMap, task, interval, overlapped, pc, key, info, made, promised>>

Init ==
    /\ ReactorInit
    /\ pc = [c \in Callers |-> "idle"]
    /\ key \in [Callers -> Keys]
    /\ info = [c \in Callers |-> NoInfo]
    /\ made = 0
    /\ promised = {}

Goto(c, label) == pc' = [pc EXCEPT ![c] = label]

Call(c, k) ==
    /\ pc[c] = "idle"
    /\ key' = [key EXCEPT ![c] = k]
    /\ Goto(c, "request")
    /\ UNCHANGED <<reactorVars, info, made, promised>>

\* The server said ok to an ephemeral instance: its info is made.  Metadata
\* without an interval, or none, gives the default number; metadata values of
\* the server's protocol are texts.
Accepted(c, kind) ==
    /\ pc[c] = "request"
    /\ "read" \in repairs
    /\ made + 1 \in Infos
    /\ made' = made + 1
    /\ info' = [info EXCEPT ![c] = made + 1]
    /\ interval' = [interval EXCEPT ![made + 1] = kind]
    /\ Goto(c, "addBeat")
    /\ UNCHANGED <<repairs, beatInfoMap, task, overlapped, key, promised>>

\* No beat is started: the instance is persistent, the server refused, req_api
\* raised, or read() of an accepted registration did.
EndsWithoutBeat(c) ==
    /\ pc[c] = "request"
    /\ Goto(c, "idle")
    /\ UNCHANGED <<reactorVars, key, info, made, promised>>

\* add_beat_info returns and so does register_instance, with True; or it raises
\* and the caller is told of an exception.
AddBeat(c) ==
    /\ pc[c] = "addBeat"
    /\ AddBeatInfo(key[c], info[c])
    /\ promised' = IF CanSchedule THEN promised \cup {key[c]} ELSE promised
    /\ info' = [info EXCEPT ![c] = NoInfo]
    /\ Goto(c, "idle")
    /\ UNCHANGED <<repairs, interval, key, made>>

\* The operations nothing in the repository calls yet.
Remove(k) ==
    /\ RemoveBeatInfo(k)
    /\ promised' = promised \ {k}
    /\ UNCHANGED <<pc, key, info, made>>

StopAll ==
    /\ StopAllBeats
    /\ promised' = {}
    /\ UNCHANGED <<pc, key, info, made>>

CallerStep(c) ==
    \/ \E kind \in {"number", "text"} : Accepted(c, kind)
    \/ EndsWithoutBeat(c)
    \/ AddBeat(c)

Timer(i) == TimerStep(i) /\ UNCHANGED <<pc, key, info, made, promised>>

Next ==
    \/ \E c \in Callers : CallerStep(c) \/ \E k \in Keys : Call(c, k)
    \/ \E k \in Keys : Remove(k)
    \/ StopAll
    \/ \E i \in Infos : Timer(i)

\* A timer's thread runs when its time has come, and req_api always ends.
Spec == Init /\ [][Next]_vars
FairSpec == Spec /\ \A i \in Infos : WF_vars(Timer(i))

-----------------------------------------------------------------------------
\* The type invariant.
TypeOK ==
    /\ repairs \subseteq Repairs
    /\ beatInfoMap \in [Keys -> Infos \cup {NoInfo}]
    /\ task \in [Infos -> {"none", "waiting", "sending", "cancelled", "died"}]
    /\ interval \in [Infos -> {"number", "text"}]
    /\ overlapped \subseteq Infos
    /\ pc \in [Callers -> {"idle", "request", "addBeat"}]
    /\ key \in [Callers -> Keys]
    /\ info \in [Callers -> Infos \cup {NoInfo}]
    /\ made \in Nat
    /\ promised \subseteq Keys

\* A beat outlives its place in the map only when the removal or replacement
\* fell into a sending of it: line 83 makes the next timer without a look at
\* the map, and that is the one way to a beat nobody can cancel.
GhostsOnlyFromOverlap ==
    \A i \in Infos : Live(i) => InMap(i) \/ i \in overlapped

\* Whoever was told True for an ephemeral instance has an info in the map with
\* a running timer, until it is removed; concurrent registrations of the same
\* instance leave one of theirs.  An interval that is a text is the exception:
\* its timer's thread dies at the first wait.
PromisedBeats ==
    \A k \in promised :
        /\ beatInfoMap[k] \in Infos
        /\ Live(beatInfoMap[k]) \/ interval[beatInfoMap[k]] = "text"

\* A started info keeps sending beats for as long as it is in the map, however
\* often sending one fails.
KeepsBeating ==
    \A i \in Infos :
        /\ InMap(i) /\ task[i] = "waiting" /\ interval[i] = "number"
               ~> task[i] = "sending" \/ ~InMap(i)
        /\ InMap(i) /\ task[i] = "sending" ~> task[i] = "waiting" \/ ~InMap(i)
=============================================================================
