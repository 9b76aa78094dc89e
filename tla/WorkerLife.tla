----------------------------- MODULE WorkerLife -----------------------------
(***************************************************************************)
(* What the core believes of a worker, kept in three places:               *)
(*   the session    OrchestratorService, vgpu/server/grpc_server.go        *)
(*   the scheduler  its Workers map, vgpu/scheduler/split.go               *)
(*   the monitor    WorkerMonitor, vgpu/monitor/workers.go                 *)
(* and wired together in vgpu/main.go.  A session is written by the gRPC   *)
(* goroutines of its worker (Register, then the receive loop of            *)
(* ControlChannel); the monitor's goroutine checks the heartbeats of all   *)
(* of them every 5 s, and takes no lock for longer than one lookup.        *)
(*                                                                         *)
(* Time is the age of the last heartbeat in units of HeartbeatTimeout, up  *)
(* to two.  Straight-line code takes less than a unit, so nothing ages     *)
(* while its worker's goroutine or the monitor is between two statements.  *)
(***************************************************************************)
EXTENDS Naturals, FiniteSets

CONSTANT Workers   (* worker ids; every registration makes a new one       *)

VARIABLES
    at,         (* at[w]: how far the gRPC goroutines of w are             *)
    connected,  (* connected[w]: WorkerSession.connected                   *)
    sched,      (* keys of Scheduler.Workers                               *)
    status,     (* status[w]: WorkerState.Status, "none" if not monitored  *)
    age,        (* age[w]: units since LastHeartbeat                       *)
    check,      (* the statement checkHeartbeats is at                     *)
    now,        (* now[w]: age of the last heartbeat at the check's "now"  *)
    lost,       (* workers the check found lost and has not handled yet    *)
    dropping,   (* the worker OnWorkerLost is about to remove              *)
    aborted     (* the Go runtime stopped the process                      *)

sessionVars == <<at, connected>>
monitorVars == <<check, now, lost, dropping>>
vars == <<sessionVars, sched, status, age, monitorVars, aborted>>

Places == {"none", "schedule", "monitor", "registered", "beat", "report",
           "running", "unschedule", "unmonitor", "gone"}

Init ==
    /\ at = [w \in Workers |-> "none"]
    /\ connected = [w \in Workers |-> FALSE]
    /\ sched = {}
    /\ status = [w \in Workers |-> "none"]
    /\ age = [w \in Workers |-> 0]
    /\ check = "idle"
    /\ now = [w \in Workers |-> 0]
    /\ lost = {}
    /\ dropping = {}
    /\ aborted = FALSE

Go(w, from, to) == at[w] = from /\ at' = [at EXCEPT ![w] = to]
----------------------------------------------------------------------------
(* Register: the session, then the scheduler, then the monitor.            *)
Register(w) ==
    /\ Go(w, "none", "schedule")
    /\ UNCHANGED <<connected, sched, status, age, monitorVars, aborted>>

RegisterWorker(w) ==
    /\ Go(w, "schedule", "monitor")
    /\ sched' = sched \cup {w}
    /\ UNCHANGED <<connected, status, age, monitorVars, aborted>>

(* WorkerMonitor.Register; ids are new, so the branch for a known worker,  *)
(* and with it OnWorkerReturn, is never taken.                             *)
MonitorRegister(w) ==
    /\ Go(w, "monitor", "registered")
    /\ status' = [status EXCEPT ![w] = "online"]
    /\ age' = [age EXCEPT ![w] = 0]
    /\ UNCHANGED <<connected, sched, monitorVars, aborted>>

(* ControlChannel: the first capability report names the worker ...        *)
OpenStream(w) ==
    /\ Go(w, "registered", "beat")
    /\ connected' = [connected EXCEPT ![w] = TRUE]
    /\ UNCHANGED <<sched, status, age, monitorVars, aborted>>

(* updateHeartbeat, for every message: a degraded worker is online again.  *)
SlipBackOnline(w) == IF status[w] = "none" THEN "none" ELSE "online"
StatusAfterBeat(w) == IF status[w] = "degraded" THEN "online" ELSE status[w]

Heartbeat(w, from, to) ==
    /\ Go(w, from, to)
    /\ status' = [status EXCEPT ![w] = StatusAfterBeat(w)]
    /\ age' = [age EXCEPT ![w] = 0]
    /\ now' = [now EXCEPT ![w] = 0]
    /\ UNCHANGED <<connected, sched, check, lost, dropping, aborted>>

(* ... and handleCapabilityUpdate schedules it with its score.  The agent  *)
(* sends one report, when it connects.                                     *)
CapabilityUpdate(w) ==
    /\ Go(w, "report", "running")
    /\ sched' = sched \cup {w}
    /\ UNCHANGED <<connected, status, age, monitorVars, aborted>>

(* The agent beats every 5 s; any other message counts as well.            *)
heartbeatLoop(w) == Heartbeat(w, "running", "running")

(* The stream ends: the session, the scheduler, the monitor.               *)
EndStream(w) ==
    /\ Go(w, "running", "unschedule")
    /\ connected' = [connected EXCEPT ![w] = FALSE]
    /\ UNCHANGED <<sched, status, age, monitorVars, aborted>>

ScheduleWithout(w) == sched \ {w}

RemoveWorker(w) ==
    /\ Go(w, "unschedule", "unmonitor")
    /\ sched' = ScheduleWithout(w)
    /\ UNCHANGED <<connected, status, age, monitorVars, aborted>>

MonitorRemove(w) ==
    /\ Go(w, "unmonitor", "gone")
    /\ status' = [status EXCEPT ![w] = "none"]
    /\ UNCHANGED <<connected, sched, age, monitorVars, aborted>>
----------------------------------------------------------------------------
(* checkHeartbeats.                                                        *)

(* Who is online and silent for more than one unit.                        *)
CheckHeartbeats ==
    /\ check = "idle"
    /\ check' = "lost"
    /\ now' = age
    /\ lost' = {w \in Workers : status[w] = "online" /\ age[w] >= 1}
    /\ UNCHANGED <<sessionVars, sched, status, age, dropping, aborted>>

(* Each of them is degraded, unless it has been removed meanwhile ...      *)
SlipDegradeAny(w) == "degraded"
StatusAfterLost(w) == IF status[w] = "none" THEN "none" ELSE "degraded"

Degrade(w) ==
    /\ check = "lost" /\ w \in lost /\ dropping = {}
    /\ status' = [status EXCEPT ![w] = StatusAfterLost(w)]
    /\ lost' = lost \ {w}
    /\ dropping' = IF status[w] = "none" THEN {} ELSE {w}
    /\ UNCHANGED <<sessionVars, sched, age, check, now, aborted>>

(* ... and OnWorkerLost takes it off the scheduler.                        *)
SlipNotDropped(ws) == sched
ScheduleAfterLost(ws) == sched \ ws

OnWorkerLost ==
    /\ dropping # {}
    /\ sched' = ScheduleAfterLost(dropping)
    /\ dropping' = {}
    /\ UNCHANGED <<sessionVars, status, age, check, now, lost, aborted>>

(* Who is degraded and was silent for more than two units at "now" is      *)
(* offline, and taken off again.                                           *)
HardTimeout ==
    LET out == {w \in Workers : status[w] = "degraded" /\ now[w] >= 2} IN
    /\ check = "lost" /\ lost = {} /\ dropping = {}
    /\ status' = [w \in Workers |-> IF w \in out THEN "offline" ELSE status[w]]
    /\ dropping' = out
    /\ check' = "idle"
    /\ UNCHANGED <<sessionVars, sched, age, now, lost, aborted>>
----------------------------------------------------------------------------
(* A unit passes without a heartbeat of w.                                 *)
Silence(w) ==
    /\ at[w] \in {"registered", "running"}
    /\ check = "idle" /\ dropping = {}
    /\ age[w] < 2
    /\ age' = [age EXCEPT ![w] = @ + 1]
    /\ UNCHANGED <<sessionVars, sched, status, monitorVars, aborted>>

(* The scheduler's map has no lock: two goroutines that write it at the    *)
(* same time stop the process, "fatal error: concurrent map writes".       *)
Writing == {w \in Workers : at[w] \in {"schedule", "report", "unschedule"}}

MapRace ==
    /\ Cardinality(Writing) > 1 \/ (Writing # {} /\ dropping # {})
    /\ aborted' = TRUE
    /\ UNCHANGED <<sessionVars, sched, status, age, monitorVars>>

Session(w) ==
    \/ RegisterWorker(w) \/ MonitorRegister(w)
    \/ Heartbeat(w, "beat", "report") \/ CapabilityUpdate(w)
    \/ RemoveWorker(w) \/ MonitorRemove(w)

Monitor == CheckHeartbeats \/ (\E w \in Workers : Degrade(w)) \/ OnWorkerLost \/ HardTimeout

Next ==
    /\ ~aborted
    /\ \/ \E w \in Workers :
            \/ Register(w) \/ Session(w) \/ OpenStream(w)
            \/ heartbeatLoop(w)
            \/ EndStream(w) \/ Silence(w)
       \/ Monitor
       \/ MapRace

Spec == Init /\ [][Next]_vars

(* The monitor's ticker fires, a handler that runs goes on, and a worker   *)
(* that has been silent for one unit and stays so is for two.  No worker   *)
(* has to connect, send anything, fall silent or end its stream.           *)
FairSpec ==
    /\ Spec
    /\ WF_vars(~aborted /\ Monitor)
    /\ \A w \in Workers :
         WF_vars(~aborted /\ Session(w)) /\ SF_vars(~aborted /\ age[w] > 0 /\ Silence(w))
----------------------------------------------------------------------------
TypeOK ==
    /\ at \in [Workers -> Places]
    /\ connected \in [Workers -> BOOLEAN]
    /\ sched \subseteq Workers
    /\ status \in [Workers -> {"none", "online", "degraded", "offline"}]
    /\ age \in [Workers -> 0..2]
    /\ check \in {"idle", "lost"}
    /\ now \in [Workers -> 0..2]
    /\ lost \subseteq Workers
    /\ dropping \subseteq Workers
    /\ aborted \in BOOLEAN

(* A worker whose stream has ended is nowhere: the monitor, which may have *)
(* found it lost before, does not bring it back (workers.go:126-141,       *)
(* grpc_server.go:236-253).                                                *)
GoneIsForgotten ==
    \A w \in Workers : at[w] = "gone" => w \notin sched /\ status[w] = "none"

(* A worker the monitor has given up stays given up, whatever messages     *)
(* and checks follow, until its stream ends (workers.go:77-90, 126-157).   *)
OfflineIsFinal ==
    [][\A w \in Workers : status[w] = "offline" => status'[w] \in {"offline", "none"}]_vars

(* A worker that falls silent for ever leaves the scheduler, unless it was *)
(* offline already when its capability report came to be handled: the      *)
(* report schedules it again and the monitor has done with it              *)
(* (workers.go:111-158, main.go:65-68).                                    *)
SilentLeaves ==
    \A w \in Workers :
        <>[](age[w] > 0) =>
            \/ <>[](w \notin sched)
            \/ <>(at[w] = "report" /\ status[w] = "offline")
            \/ <>aborted

(* What the comments promise.                                              *)

(* The monitor "triggers rescheduling when workers join or leave"          *)
(* (workers.go:5): a worker that is connected and online, and not being    *)
(* handled by the monitor, is scheduled.                                   *)
OnlineIsScheduled ==
    \A w \in Workers :
        at[w] = "running" /\ status[w] = "online" /\ w \notin lost \cup dropping =>
            w \in sched
=============================================================================
