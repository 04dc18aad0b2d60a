--------------------- MODULE NamingHttpClientProxyProofs ---------------------
(***************************************************************************)
(* Proofs about heartbeats and registrations, for any callers, instances   *)
(* and infos, with the broken lines as they stand or repaired.  A beat can *)
(* be lost only to a cancel meant for another: the invariant says that no  *)
(* info is in two places, in the map or in the hands of a caller.          *)
(***************************************************************************)
EXTENDS NamingHttpClientProxy, TLAPS

\* An info that a caller holds is made and not yet in the map, nor is it
\* another caller's.
HeldOnce ==
    \A c \in Callers :
        /\ pc[c] = "addBeat" => info[c] # NoInfo
        /\ info[c] # NoInfo =>
               /\ info[c] <= made
               /\ \A k \in Keys : beatInfoMap[k] # info[c]
               /\ \A d \in Callers : info[d] = info[c] => d = c

StoredOnce ==
    \A k \in Keys : beatInfoMap[k] # NoInfo =>
        /\ beatInfoMap[k] <= made
        /\ \A j \in Keys : beatInfoMap[j] = beatInfoMap[k] => j = k

\* As line 98 stands, nobody is told True.
NothingPromised == ~CanSchedule => promised = {}

IInv ==
    TypeOK /\ HeldOnce /\ StoredOnce /\ NothingPromised /\ GhostsOnlyFromOverlap /\ PromisedBeats

LEMMA InitIInv == Init => IInv
  BY InfosAssumption
     DEF Init, ReactorInit, IInv, TypeOK, HeldOnce, StoredOnce, NothingPromised,
         GhostsOnlyFromOverlap, PromisedBeats, Live

-----------------------------------------------------------------------------
\* The caller's steps.
LEMMA CallerKeeps ==
  ASSUME IInv, NEW c \in Callers,
         EndsWithoutBeat(c) \/ \E k \in Keys : Call(c, k)
  PROVE  IInv'
  BY DEF IInv, TypeOK, HeldOnce, StoredOnce, NothingPromised, CanSchedule,
         GhostsOnlyFromOverlap, PromisedBeats, Live, InMap, EndsWithoutBeat, Call, Goto,
         reactorVars

LEMMA AcceptedKeeps ==
  ASSUME IInv, NEW c \in Callers, NEW kind \in {"number", "text"}, Accepted(c, kind)
  PROVE  IInv'
  <1> USE InfosAssumption DEF IInv, Accepted, Goto
  <1>1. TypeOK'
    BY DEF TypeOK
  <1>2. made \in Nat /\ made + 1 \in Infos /\ made + 1 # NoInfo
    BY DEF TypeOK
  <1>3. ASSUME NEW k \in Keys, beatInfoMap[k] # NoInfo
        PROVE  beatInfoMap[k] <= made + 1 /\ beatInfoMap[k] # made + 1
    <2> beatInfoMap[k] \in Nat /\ beatInfoMap[k] <= made
      BY <1>3 DEF TypeOK, StoredOnce
    <2> QED BY <1>2
  <1>4. ASSUME NEW d \in Callers, info[d] # NoInfo
        PROVE  info[d] <= made + 1 /\ info[d] # made + 1
    <2> info[d] \in Nat /\ info[d] <= made
      BY <1>4 DEF TypeOK, HeldOnce
    <2> QED BY <1>2
  <1>5. info' = [info EXCEPT ![c] = made + 1] /\ made' = made + 1 /\ beatInfoMap' = beatInfoMap
    BY DEF Accepted
  <1>6. HeldOnce'
    BY <1>2, <1>3, <1>4, <1>5 DEF TypeOK, HeldOnce
  <1>7. StoredOnce'
    BY <1>3, <1>5 DEF StoredOnce
  <1>8. NothingPromised' /\ GhostsOnlyFromOverlap'
    BY DEF NothingPromised, CanSchedule, GhostsOnlyFromOverlap, Live, InMap
  <1>9. PromisedBeats'
    BY <1>2, <1>3 DEF TypeOK, PromisedBeats, Live
  <1> QED BY <1>1, <1>6, <1>7, <1>8, <1>9

LEMMA AddBeatKeeps ==
  ASSUME IInv, NEW c \in Callers, AddBeat(c)
  PROVE  IInv'
  <1> USE InfosAssumption DEF IInv, AddBeat, AddBeatInfo, Cancelled, Dropped, Goto
  <1>1. /\ key[c] \in Keys /\ info[c] \in Infos /\ info[c] # NoInfo
        /\ \A k \in Keys : beatInfoMap[k] # info[c]
    BY DEF TypeOK, HeldOnce
  <1>2. TypeOK'
    BY <1>1 DEF TypeOK
  <1>3. HeldOnce'
    BY <1>1 DEF TypeOK, HeldOnce
  <1>4. StoredOnce'
    BY <1>1 DEF TypeOK, StoredOnce, HeldOnce
  <1>5. NothingPromised'
    BY DEF NothingPromised, CanSchedule
  <1>6. GhostsOnlyFromOverlap'
    BY <1>1 DEF TypeOK, GhostsOnlyFromOverlap, Live, InMap
  <1>7. PromisedBeats'
    <2> SUFFICES ASSUME NEW k \in Keys, k \in promised'
                 PROVE  /\ beatInfoMap'[k] \in Infos
                        /\ Live(beatInfoMap[k])' \/ interval'[beatInfoMap'[k]] = "text"
      BY <1>2 DEF TypeOK, PromisedBeats
    <2>1. CASE k = key[c]
      <3>1. CanSchedule
        BY <2>1 DEF NothingPromised
      <3> QED BY <1>1, <2>1, <3>1 DEF TypeOK, Live
    <2>2. CASE k # key[c]
      <3>1. k \in promised /\ beatInfoMap'[k] = beatInfoMap[k]
        BY <2>2 DEF TypeOK
      <3>2. beatInfoMap[k] \in Infos /\ beatInfoMap[k] # beatInfoMap[key[c]]
        BY <1>1, <2>2, <3>1 DEF StoredOnce, PromisedBeats
      <3>3. task'[beatInfoMap[k]] = task[beatInfoMap[k]]
        BY <1>1, <3>2 DEF TypeOK
      <3> QED BY <3>1, <3>2, <3>3 DEF PromisedBeats, Live
    <2> QED BY <2>1, <2>2
  <1> QED BY <1>2, <1>3, <1>4, <1>5, <1>6, <1>7

-----------------------------------------------------------------------------
\* What leaves the map is cancelled, or is being sent.
LEMMA RemoveKeeps ==
  ASSUME IInv, NEW k \in Keys, Remove(k)
  PROVE  IInv'
  <1> USE InfosAssumption DEF IInv, Remove, RemoveBeatInfo, Cancelled, Dropped
  <1>1. TypeOK'
    BY DEF TypeOK
  <1>2. HeldOnce' /\ StoredOnce' /\ NothingPromised'
    BY DEF TypeOK, HeldOnce, StoredOnce, NothingPromised, CanSchedule
  <1>3. GhostsOnlyFromOverlap'
    BY DEF TypeOK, GhostsOnlyFromOverlap, Live, InMap
  <1>4. PromisedBeats'
    BY DEF TypeOK, StoredOnce, PromisedBeats, Live
  <1> QED BY <1>1, <1>2, <1>3, <1>4

LEMMA StopAllKeeps ==
  ASSUME IInv, StopAll
  PROVE  IInv'
  <1> USE InfosAssumption DEF IInv, StopAll, StopAllBeats, Cancelled, Dropped
  <1>1. TypeOK'
    BY DEF TypeOK
  <1>2. HeldOnce' /\ StoredOnce' /\ NothingPromised' /\ PromisedBeats'
    BY DEF TypeOK, HeldOnce, StoredOnce, NothingPromised, PromisedBeats
  <1>3. GhostsOnlyFromOverlap'
    BY DEF TypeOK, GhostsOnlyFromOverlap, Live, InMap
  <1> QED BY <1>1, <1>2, <1>3

LEMMA TimerKeeps ==
  ASSUME IInv, NEW i \in Infos, Timer(i)
  PROVE  IInv'
  <1> USE DEF IInv, Timer, TimerStep, Fire, SendSucceeds, SendFails, ScheduleHeartbeat
  <1>1. TypeOK' /\ HeldOnce' /\ StoredOnce' /\ NothingPromised'
    BY DEF TypeOK, HeldOnce, StoredOnce, NothingPromised, CanSchedule
  <1>2. GhostsOnlyFromOverlap' /\ PromisedBeats'
    BY DEF TypeOK, GhostsOnlyFromOverlap, PromisedBeats, Live, InMap
  <1> QED BY <1>1, <1>2

LEMMA NextIInv == IInv /\ [Next]_vars => IInv'
  <1> SUFFICES ASSUME IInv, [Next]_vars PROVE IInv'
    OBVIOUS
  <1>1. ASSUME NEW c \in Callers, CallerStep(c) PROVE IInv'
    BY <1>1, CallerKeeps, AcceptedKeeps, AddBeatKeeps DEF CallerStep
  <1>2. CASE UNCHANGED vars
    BY <1>2 DEF vars, IInv, TypeOK, HeldOnce, StoredOnce, NothingPromised, CanSchedule,
       GhostsOnlyFromOverlap, PromisedBeats, Live, InMap
  <1> QED BY <1>1, <1>2, CallerKeeps, RemoveKeeps, StopAllKeeps, TimerKeeps DEF Next

LEMMA IInvHolds == Spec => []IInv
  BY InitIInv, NextIInv, PTL DEF Spec

\* The types of the reactor and its callers.
THEOREM TypeCorrect == Spec => []TypeOK
  <1>1. IInv => TypeOK
    BY DEF IInv
  <1> QED BY <1>1, IInvHolds, PTL

\* However registrations, removals and stops meet the timers, a beat outlives
\* its place in the map only by a sending that was under way.
THEOREM GhostsOnlyFromOverlapHolds == Spec => []GhostsOnlyFromOverlap
  <1>1. IInv => GhostsOnlyFromOverlap
    BY DEF IInv
  <1> QED BY <1>1, IInvHolds, PTL

\* Whoever was told True has a beat, for any number of threads that register
\* the same instance at once.
THEOREM PromisedBeatsHolds == Spec => []PromisedBeats
  <1>1. IInv => PromisedBeats
    BY DEF IInv
  <1> QED BY <1>1, IInvHolds, PTL
=============================================================================
