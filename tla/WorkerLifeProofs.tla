-------------------------- MODULE WorkerLifeProofs --------------------------
(***************************************************************************)
(* Theorems about WorkerLife, for any set of workers.                      *)
(*                                                                         *)
(* GoneIsForgotten needs the order of the cleanup (Left): a worker is off  *)
(* the scheduler before it is off the monitor.  OfflineIsFinal needs that  *)
(* the list of lost workers is stale only towards removal (LostOnline):    *)
(* Degrade writes "degraded" without looking at the status again.          *)
(***************************************************************************)
EXTENDS WorkerLife, TLAPS

(* A worker that is being cleaned up is off the scheduler, then off the    *)
(* monitor.                                                                *)
Left ==
    \A w \in Workers :
        /\ at[w] \in {"unmonitor", "gone"} => w \notin sched
        /\ at[w] = "gone" => status[w] = "none"

(* The monitor does not know a worker before Register reaches it.          *)
Unknown == \A w \in Workers : at[w] \in {"none", "schedule", "monitor"} => status[w] = "none"

(* What the check found lost has not changed since, or was removed.        *)
LostOnline == \A w \in lost : status[w] \in {"online", "none"}

IInv == TypeOK /\ Left /\ Unknown /\ LostOnline
----------------------------------------------------------------------------
LEMMA InitIInv == Init => IInv
<1>1. Init => TypeOK
  <2> SUFFICES ASSUME Init PROVE TypeOK
    OBVIOUS
  <2>1. age \in [Workers -> 0..2] /\ now \in [Workers -> 0..2]
    BY SMT DEF Init
  <2>2. at \in [Workers -> Places] /\ connected \in [Workers -> BOOLEAN]
    BY Zenon DEF Init, Places
  <2>3. status \in [Workers -> {"none", "online", "degraded", "offline"}]
    BY Zenon DEF Init
  <2> QED BY <2>1, <2>2, <2>3, Zenon DEF Init, TypeOK
<1>2. Init => Left /\ Unknown /\ LostOnline
  BY DEF Init, Left, Unknown, LostOnline
<1> QED BY <1>1, <1>2 DEF IInv

(* The gRPC goroutines of one worker.                                      *)
LEMMA SessionIInv ==
    ASSUME IInv, NEW w \in Workers,
           \/ Register(w) \/ Session(w) \/ OpenStream(w)
           \/ heartbeatLoop(w) \/ EndStream(w)
    PROVE  IInv'
<1> USE DEF IInv, Go
<1>1. CASE Register(w)
  BY <1>1 DEF Register, sessionVars, monitorVars, TypeOK, Left, Unknown, LostOnline, Places
<1>2. CASE RegisterWorker(w)
  BY <1>2 DEF RegisterWorker, monitorVars, TypeOK, Left, Unknown, LostOnline, Places
<1>3. CASE MonitorRegister(w)
  BY <1>3 DEF MonitorRegister, monitorVars, TypeOK, Left, Unknown, LostOnline, Places
<1>4. CASE OpenStream(w)
  BY <1>4 DEF OpenStream, monitorVars, TypeOK, Left, Unknown, LostOnline, Places
<1>5. ASSUME NEW from \in Places, NEW to \in Places, Heartbeat(w, from, to),
             from \in {"beat", "running"}, to \in {"report", "running"}
      PROVE  IInv'
  <2>1. TypeOK'
    BY <1>5 DEF Heartbeat, StatusAfterBeat, TypeOK
  <2>2. (Left /\ Unknown)'
    BY <1>5 DEF Heartbeat, StatusAfterBeat, TypeOK, Left, Unknown
  <2>3. LostOnline'
    BY <1>5 DEF Heartbeat, StatusAfterBeat, TypeOK, LostOnline
  <2> QED BY <2>1, <2>2, <2>3
<1>6. CASE CapabilityUpdate(w)
  BY <1>6 DEF CapabilityUpdate, monitorVars, TypeOK, Left, Unknown, LostOnline, Places
<1>7. CASE EndStream(w)
  BY <1>7 DEF EndStream, monitorVars, TypeOK, Left, Unknown, LostOnline, Places
<1>8. CASE RemoveWorker(w)
  BY <1>8 DEF RemoveWorker, ScheduleWithout, monitorVars, TypeOK, Left, Unknown, LostOnline, Places
<1>9. CASE MonitorRemove(w)
  BY <1>9 DEF MonitorRemove, monitorVars, TypeOK, Left, Unknown, LostOnline, Places
<1> QED BY <1>1, <1>2, <1>3, <1>4, <1>5, <1>6, <1>7, <1>8, <1>9 DEF Session, heartbeatLoop, Places

(* The monitor's goroutine.                                                *)
LEMMA MonitorIInv ==
    ASSUME IInv, Monitor PROVE IInv'
<1> USE DEF IInv
<1>1. CASE CheckHeartbeats
  BY <1>1 DEF CheckHeartbeats, sessionVars, TypeOK, Left, Unknown, LostOnline
<1>2. ASSUME NEW w \in Workers, Degrade(w) PROVE IInv'
  BY <1>2 DEF Degrade, StatusAfterLost, sessionVars, TypeOK, Left, Unknown, LostOnline
<1>3. CASE OnWorkerLost
  BY <1>3 DEF OnWorkerLost, ScheduleAfterLost, sessionVars, TypeOK, Left, Unknown, LostOnline
<1>4. CASE HardTimeout
  BY <1>4 DEF HardTimeout, sessionVars, TypeOK, Left, Unknown, LostOnline
<1> QED BY <1>1, <1>2, <1>3, <1>4 DEF Monitor

LEMMA NextIInv == IInv /\ [Next]_vars => IInv'
<1> SUFFICES ASSUME IInv, [Next]_vars PROVE IInv'
  OBVIOUS
<1>1. ASSUME NEW w \in Workers, Silence(w) PROVE IInv'
  BY <1>1 DEF IInv, Silence, sessionVars, monitorVars, TypeOK, Left, Unknown, LostOnline
<1>2. CASE MapRace
  BY <1>2 DEF IInv, MapRace, sessionVars, monitorVars, TypeOK, Left, Unknown, LostOnline
<1>3. CASE UNCHANGED vars
  BY <1>3 DEF IInv, vars, sessionVars, monitorVars, TypeOK, Left, Unknown, LostOnline
<1> QED BY <1>1, <1>2, <1>3, SessionIInv, MonitorIInv DEF Next

LEMMA Invariance == Spec => []IInv
BY InitIInv, NextIInv, PTL DEF Spec

(* TypeOK holds in every reachable state.                                  *)
THEOREM TypeCorrect == Spec => []TypeOK
<1>1. IInv => TypeOK
  BY DEF IInv
<1> QED BY <1>1, Invariance, PTL

(* The monitor, whatever stale list it works through, does not bring back  *)
(* a worker whose stream has ended (workers.go:126-141,                    *)
(* grpc_server.go:236-253).                                                *)
THEOREM GoneStaysForgotten == Spec => []GoneIsForgotten
<1>1. IInv => GoneIsForgotten
  BY DEF IInv, Left, GoneIsForgotten
<1> QED BY <1>1, Invariance, PTL

(* A worker that is offline stays so until it is removed                   *)
(* (workers.go:77-90, 126-157).                                            *)
LEMMA OfflineStep ==
    ASSUME IInv, [Next]_vars, NEW w \in Workers, status[w] = "offline"
    PROVE  status'[w] \in {"offline", "none"}
<1> USE DEF IInv, Go
<1>1. CASE UNCHANGED vars
  BY <1>1 DEF vars
<1>2. CASE MapRace \/ CheckHeartbeats \/ OnWorkerLost
  BY <1>2 DEF MapRace, CheckHeartbeats, OnWorkerLost
<1>3. CASE HardTimeout
  BY <1>3 DEF HardTimeout
<1>4. ASSUME NEW v \in Workers, Degrade(v) PROVE status'[w] \in {"offline", "none"}
  BY <1>4 DEF Degrade, StatusAfterLost, TypeOK, LostOnline
<1>5. ASSUME NEW v \in Workers,
             \/ Register(v) \/ RegisterWorker(v) \/ OpenStream(v) \/ CapabilityUpdate(v)
             \/ EndStream(v) \/ RemoveWorker(v) \/ Silence(v)
      PROVE  status'[w] \in {"offline", "none"}
  BY <1>5 DEF Register, RegisterWorker, OpenStream, CapabilityUpdate, EndStream, RemoveWorker, Silence
<1>6. ASSUME NEW v \in Workers, MonitorRegister(v) \/ MonitorRemove(v)
      PROVE  status'[w] \in {"offline", "none"}
  BY <1>6 DEF MonitorRegister, MonitorRemove, TypeOK, Unknown
<1>7. ASSUME NEW v \in Workers,
             Heartbeat(v, "beat", "report") \/ Heartbeat(v, "running", "running")
      PROVE  status'[w] \in {"offline", "none"}
  BY <1>7 DEF Heartbeat, StatusAfterBeat, TypeOK
<1> QED BY <1>1, <1>2, <1>3, <1>4, <1>5, <1>6, <1>7 DEF Next, Session, heartbeatLoop, Monitor

THEOREM OfflineFinal == Spec => OfflineIsFinal
<1>1. IInv /\ [Next]_vars =>
        [\A w \in Workers : status[w] = "offline" => status'[w] \in {"offline", "none"}]_vars
  BY OfflineStep
<1> QED BY <1>1, Invariance, PTL DEF Spec, OfflineIsFinal
=============================================================================
