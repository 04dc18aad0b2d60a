-------------------------- MODULE HeartbeatReactor --------------------------
(***************************************************************************)
(* naming/remote/http/heart_beat_reactor.py: a map from instances to their *)
(* heartbeat infos, and a threading.Timer per info that sends a beat and   *)
(* makes the next timer.  The map is changed under self.lock; the timers'  *)
(* threads take no lock and never look at the map.                         *)
(*                                                                         *)
(* cancel() reaches a timer that still waits; it does nothing to one whose *)
(* function already runs, and the next timer of that run is made all the   *)
(* same.  Steps of a lock holder that commute with every timer step are    *)
(* one action.                                                             *)
(*                                                                         *)
(* Line 98 calls schedule_heartbeat, the method is _schedule_heartbeat:    *)
(* the call raises AttributeError after the info was stored.  The constant *)
(* Repairs lets a run have the name repaired or not; both are checked.     *)
(***************************************************************************)
EXTENDS Naturals

CONSTANTS
    Keys,           \* service_name#ip#port
    Infos,          \* the HeartbeatInfo objects that may be made: from 1
    NoInfo,         \* None, not in the map
    Repairs         \* the repairs a run may have: subset of {"schedule", "read"}

ASSUME InfosAssumption == Infos \subseteq Nat \ {0} /\ NoInfo \notin Infos

VARIABLES
    repairs,        \* those this program has; never changes
    beatInfoMap,    \* self.beat_info_map
    task,           \* state of the timer in each info's field task
    interval,       \* heartbeat_interval: a number or a text
    overlapped      \* history: infos dropped while their beat was being sent

reactorVars == <<repairs, beatInfoMap, task, interval, overlapped>>

ReactorInit ==
    /\ repairs \in SUBSET Repairs
    /\ beatInfoMap = [k \in Keys |-> NoInfo]
    /\ task = [i \in Infos |-> "none"]
    /\ interval = [i \in Infos |-> "number"]
    /\ overlapped = {}

InMap(i) == \E k \in Keys : beatInfoMap[k] = i
Live(i) == task[i] \in {"waiting", "sending"}

MutCancelled(infos) == task
\* Timer.cancel for every info in infos that has a timer.
Cancelled(infos) ==
    [i \in Infos |-> IF i \in infos /\ task[i] = "waiting" THEN "cancelled" ELSE task[i]]

\* What happens to the infos that leave the map.
Dropped(infos) ==
    overlapped' = overlapped \cup {i \in infos \cap Infos : task[i] = "sending"}

\* The name resolved at line 98.
CanSchedule == "schedule" \in repairs

MutAddBeatInfo(k, i) ==
    /\ beatInfoMap' = [beatInfoMap EXCEPT ![k] = i]
    /\ Dropped({beatInfoMap[k]})
    /\ task' = [Cancelled({beatInfoMap[k]}) EXCEPT ![i] = "cancelled"]

\* Cancel the old timer, store the info, start its timer; the last may raise.
AddBeatInfo(k, i) ==
    /\ beatInfoMap' = [beatInfoMap EXCEPT ![k] = i]
    /\ Dropped({beatInfoMap[k]})
    /\ task' = [Cancelled({beatInfoMap[k]}) EXCEPT ![i] = IF CanSchedule THEN "waiting" ELSE @]

RemoveBeatInfo(k) ==
    /\ task' = Cancelled({beatInfoMap[k]})
    /\ Dropped({beatInfoMap[k]})
    /\ beatInfoMap' = [beatInfoMap EXCEPT ![k] = NoInfo]
    /\ UNCHANGED <<repairs, interval>>

StopAllBeats ==
    /\ task' = Cancelled({i \in Infos : InMap(i)})
    /\ Dropped({i \in Infos : InMap(i)})
    /\ beatInfoMap' = [k \in Keys |-> NoInfo]
    /\ UNCHANGED <<repairs, interval>>

\* The timer's thread: Event.wait raises TypeError for an interval that is a
\* text, and the thread is gone; otherwise _send_heartbeat is called.
Fire(i) ==
    /\ task[i] = "waiting"
    /\ task' = [task EXCEPT ![i] = IF interval[i] = "number" THEN "sending" ELSE "died"]
    /\ UNCHANGED <<repairs, beatInfoMap, interval, overlapped>>

ScheduleHeartbeat(i) ==
    /\ task[i] = "sending"
    /\ task' = [task EXCEPT ![i] = "waiting"]
    /\ UNCHANGED <<repairs, beatInfoMap, interval, overlapped>>

SendSucceeds(i) == ScheduleHeartbeat(i)

MutSendFails(i) ==
    /\ task[i] = "sending"
    /\ task' = [task EXCEPT ![i] = "died"]
    /\ UNCHANGED <<repairs, beatInfoMap, interval, overlapped>>
\* json.loads of the metadata or req_api raised: logged, and on to line 83.
SendFails(i) == ScheduleHeartbeat(i)

TimerStep(i) == Fire(i) \/ SendSucceeds(i) \/ SendFails(i)
=============================================================================
