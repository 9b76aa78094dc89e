------------------------------- MODULE Watchers -------------------------------
(***************************************************************************)
(* Those who watch the cluster:                                            *)
(*   SSEHub, SSEHandler, StartDashboardCollector   vgpu/server/dashboard.go*)
(*       the core collects the list of workers every 3 s and sends it to   *)
(*       every open event stream; nobody waits for a slow reader           *)
(*   ConsolePanel   cmd/distribox/console.go                               *)
(*       asks the HTTP API every 2 s                                       *)
(* The hub is one goroutine, each event stream is one, the collector is    *)
(* one.  A step is one case of a select, or one request.                   *)
(***************************************************************************)
EXTENDS Naturals, Sequences, FiniteSets

CONSTANTS
    Watching,     (* event streams that may be open                        *)
    Devices,      (* workers that may be in the scheduler                  *)
    StreamCap,    (* messages a stream's channel holds (64)                *)
    HubCap,       (* messages the hub's channel holds (256)                *)
    MaxChanges    (* bound on the changes of the scheduler                 *)

VARIABLES
    listed,    (* Scheduler.Workers                                        *)
    changes,   (* changes of it so far                                     *)
    clients,   (* SSEHub.clients                                           *)
    broadcast, (* SSEHub.broadcast                                         *)
    stream,    (* stream[c]: the channel of event stream c                 *)
    at,        (* at[c]: how far its handler is                            *)
    stalled,   (* clients that do not read: the handler's write blocks     *)
    view,      (* view[c]: the last list written to c                      *)
    screen,    (* the list of workers on the console                       *)
    down       (* the core does not run, or the Go runtime ended it        *)

hubVars == <<clients, broadcast, stream, at, stalled, view>>
watchVars == <<listed, changes, hubVars, screen, down>>

Blank == {"nothing shown"}

WatchInit ==
    /\ listed = {}
    /\ changes = 0
    /\ clients = {}
    /\ broadcast = <<>>
    /\ stream = [c \in Watching |-> <<>>]
    /\ at = [c \in Watching |-> "closed"]
    /\ stalled = {}
    /\ view = [c \in Watching |-> Blank]
    /\ screen = Blank
    /\ down \in BOOLEAN
----------------------------------------------------------------------------
(* RegisterWorker and RemoveWorker, called by gRPC and by the monitor.     *)
Change(w) ==
    /\ changes < MaxChanges
    /\ changes' = changes + 1
    /\ listed' = IF w \in listed THEN listed \ {w} ELSE listed \cup {w}
    /\ UNCHANGED <<hubVars, screen, down>>

(* Nothing protects Scheduler.Workers: the runtime may notice that it is   *)
(* read by the collector or by a request while it is written.              *)
MapRace ==
    /\ changes < MaxChanges
    /\ down' = TRUE
    /\ at' = [c \in Watching |-> "closed"]
    /\ UNCHANGED <<listed, changes, clients, broadcast, stream, stalled, view, screen>>

(* NotifyWorkersUpdated on the collector's tick.  A full hub drops it.     *)
Room(queue, cap) == Len(queue) < cap
Offer(queue, cap, msg) == IF Room(queue, cap) THEN Append(queue, msg) ELSE queue
BroadcastJSON(msg) == broadcast' = Offer(broadcast, HubCap, msg)

Tick ==
    /\ BroadcastJSON(listed)
    /\ UNCHANGED <<listed, changes, clients, stream, at, stalled, view, screen, down>>

(* The hub passes one message on.  A stream that is full misses it.        *)
SlipDeliver ==    (* the hub waits for room in every stream *)
    /\ broadcast # <<>>
    /\ \A c \in clients : Room(stream[c], StreamCap)
    /\ broadcast' = Tail(broadcast)
    /\ stream' = [c \in Watching |-> IF c \in clients THEN Append(stream[c], Head(broadcast)) ELSE stream[c]]
    /\ UNCHANGED <<listed, changes, clients, at, stalled, view, screen, down>>
Deliver ==
    /\ broadcast # <<>>
    /\ broadcast' = Tail(broadcast)
    /\ stream' = [c \in Watching |-> IF c \in clients THEN Offer(stream[c], StreamCap, Head(broadcast))
                                     ELSE stream[c]]
    /\ UNCHANGED <<listed, changes, clients, at, stalled, view, screen, down>>
----------------------------------------------------------------------------
(* SSEHandler.  Both channels to the hub have no buffer.                   *)
Open(c) ==
    /\ at[c] = "closed"
    /\ at' = [at EXCEPT ![c] = "register"]
    /\ stream' = [stream EXCEPT ![c] = <<>>]
    /\ view' = [view EXCEPT ![c] = Blank]
    /\ stalled' = stalled \ {c}
    /\ UNCHANGED <<listed, changes, clients, broadcast, screen, down>>

Register(c) ==
    /\ at[c] = "register"
    /\ at' = [at EXCEPT ![c] = "serve"]
    /\ clients' = clients \cup {c}
    /\ UNCHANGED <<listed, changes, broadcast, stream, stalled, view, screen, down>>

(* One message is taken and written.                                       *)
SendEvent(c) ==
    /\ at[c] = "serve" /\ stream[c] # <<>> /\ c \notin stalled
    /\ view' = [view EXCEPT ![c] = Head(stream[c])]
    /\ stream' = [stream EXCEPT ![c] = Tail(@)]
    /\ UNCHANGED <<listed, changes, clients, broadcast, at, stalled, screen, down>>

Stall(c) ==
    /\ at[c] = "serve"
    /\ stalled' = IF c \in stalled THEN stalled \ {c} ELSE stalled \cup {c}
    /\ UNCHANGED <<listed, changes, clients, broadcast, stream, at, view, screen, down>>

(* The request's context ends, which also fails a write that blocks.       *)
Leave(c) ==
    /\ at[c] = "serve"
    /\ at' = [at EXCEPT ![c] = "unregister"]
    /\ UNCHANGED <<listed, changes, clients, broadcast, stream, stalled, view, screen, down>>

Unregister(c) ==
    /\ at[c] = "unregister"
    /\ at' = [at EXCEPT ![c] = "closed"]
    /\ clients' = clients \ {c}
    /\ UNCHANGED <<listed, changes, broadcast, stream, stalled, view, screen, down>>

(* ConsolePanel.draw: the list comes from HandleWorkers.                   *)
HandleWorkers == listed
Draw ==
    /\ screen' = HandleWorkers
    /\ UNCHANGED <<listed, changes, hubVars, down>>
----------------------------------------------------------------------------
WatchNext ==
    /\ ~down
    /\ \/ \E w \in Devices : Change(w)
       \/ MapRace
       \/ Tick
       \/ Deliver
       \/ \E c \in Watching : \/ Open(c) \/ Register(c) \/ SendEvent(c)
                              \/ Stall(c) \/ Leave(c) \/ Unregister(c)
       \/ Draw

(* Tickers go on; a select takes each case that stays ready at some time.  *)
(* A client need not open a stream, read, or leave.                        *)
WatchFairness ==
    /\ WF_watchVars(~down /\ Tick)
    /\ WF_watchVars(~down /\ Deliver)
    /\ WF_watchVars(~down /\ Draw)
    /\ \A c \in Watching : /\ WF_watchVars(~down /\ Register(c))
                           /\ WF_watchVars(~down /\ SendEvent(c))
                           /\ WF_watchVars(~down /\ Unregister(c))
----------------------------------------------------------------------------
(* Messages are dropped at two places, and a client may read as slowly as  *)
(* it likes; yet one that is reading from some time on sees the workers as *)
(* they are in the end, whatever the others do: the collector repeats the  *)
(* whole list, and a slow reader holds up nobody else.  So does the        *)
(* console.                                                                *)
Reading(c) == at[c] = "serve" /\ c \notin stalled
EveryoneCatchesUp ==
    /\ \A c \in Watching : <>[]Reading(c) => <>[](view[c] = listed)
    /\ <>[](down \/ screen = listed)
=============================================================================
