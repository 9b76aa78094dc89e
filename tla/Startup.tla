------------------------------- MODULE Startup -------------------------------
(***************************************************************************)
(* How the programs start, find each other and stop:                       *)
(*   core     vgpu/main.go             the core alone                      *)
(*   vgpu     distribox --mode vgpu    the core, from the desktop program  *)
(*   full     distribox                core, local worker and console      *)
(*   worker   cmd/worker/main.go       mDNS, then a UDP broadcast          *)
(*   simple   distribox --mode worker  mDNS only                           *)
(* with pkg/discovery between them.  A process runs once.  Datagrams get   *)
(* lost and answers come late; TCP does what it promises.                  *)
(*                                                                         *)
(* What a core and its workers say to each other once connected is in      *)
(* WorkerLife and Orchestrator.                                            *)
(***************************************************************************)
EXTENDS Naturals, FiniteSets

CONSTANTS
    Procs,         (* processes                                            *)
    Layouts,       (* which program each of them is, and on which host     *)
    None,          (* no address, no process                               *)
    MaxAttempts    (* queries a browser sends: 15                          *)

Kinds == {"core", "vgpu", "full", "worker", "simple"}
Hosts == UNION {{l[p].host : p \in Procs} : l \in Layouts}

ASSUME NoneAssumption == None \notin Hosts \cup Procs

localhost == "localhost"   (* the address by which a worker knows its own host *)

VARIABLES
    runs,      (* runs[p]: [kind, host], fixed                             *)
    core,      (* core[p]: how far its core is                             *)
    ipc,       (* ipc[p]: how far the goroutine in IPCServer.Serve is      *)
    work,      (* work[p]: how far its worker is                           *)
    open,      (* open[p]: ports it listens on                             *)
    tries,     (* tries[p]: queries its browser has sent                   *)
    browser,   (* browser[p]: "off", "on", "stopped" (stopCh closed)       *)
    devices,   (* devices[p]: cores its browser has found                  *)
    asked,     (* asked[p]: responders that have its probe still to answer *)
    addr,      (* addr[p]: host its worker dials, or localhost             *)
    peer,      (* peer[p]: the process its ControlChannel goes to          *)
    retry,     (* retry[p]: its broadcastRetryLoop                         *)
    found,     (* found[p]: host the retry loop has found                  *)
    missed     (* ghost: a datagram was lost or came too late              *)

agent == <<tries, browser, devices, asked, addr, peer, retry, found>>
startupVars == <<runs, core, ipc, work, open, agent, missed>>

Kind(p) == runs[p].kind
Host(p) == runs[p].host
HasCore(p) == Kind(p) \in {"core", "vgpu", "full"}

StartupInit ==
    /\ runs \in Layouts
    /\ core = [p \in Procs |-> "off"]
    /\ ipc = [p \in Procs |-> "off"]
    /\ work = [p \in Procs |-> "off"]
    /\ open = [p \in Procs |-> {}]
    /\ tries = [p \in Procs |-> 0]
    /\ browser = [p \in Procs |-> "off"]
    /\ devices = [p \in Procs |-> {}]
    /\ asked = [p \in Procs |-> {}]
    /\ addr = [p \in Procs |-> None]
    /\ peer = [p \in Procs |-> None]
    /\ retry = [p \in Procs |-> "off"]
    /\ found = [p \in Procs |-> None]
    /\ missed = FALSE

Taken(h, port) == \E q \in Procs : Host(q) = h /\ port \in open[q]
Serving(h) == {q \in Procs : Host(q) = h /\ "grpc" \in open[q]}

CoreGoes(p, from, to) == core[p] = from /\ core' = [core EXCEPT ![p] = to]
WorkGoes(p, from, to) == work[p] = from /\ work' = [work EXCEPT ![p] = to]

(* The process is gone: its ports are free, streams to it break, and the   *)
(* workers at their other end never dial again (Run returns).              *)
Ended(p) == core[p] = "exit" \/ work[p] = "exit"
Orphans(p) == {w \in Procs : peer[w] = p /\ w # p}
Exit(p) ==
    /\ core' = [core EXCEPT ![p] = "exit"]
    /\ ipc' = [ipc EXCEPT ![p] = "off"]
    /\ work' = [w \in Procs |-> IF w = p THEN "exit"
                                ELSE IF w \in Orphans(p) THEN "orphan" ELSE work[w]]
    /\ open' = [open EXCEPT ![p] = {}]
    /\ peer' = [w \in Procs |-> IF w = p \/ w \in Orphans(p) THEN None ELSE peer[w]]
    /\ asked' = [w \in Procs |-> IF w = p THEN {} ELSE asked[w] \ {p}]
    /\ browser' = [browser EXCEPT ![p] = "off"]
    /\ retry' = [retry EXCEPT ![p] = "off"]
    /\ missed' = (missed \/ \E w \in Procs \ {p} : p \in asked[w])
    /\ UNCHANGED <<runs, tries, devices, addr, found>>
----------------------------------------------------------------------------
(* The core.  The local worker of "full" waits for its core.               *)
Start(p) ==
    /\ core[p] = "off" /\ work[p] = "off"
    /\ core' = [core EXCEPT ![p] = IF HasCore(p) THEN "grpc" ELSE "none"]
    /\ ipc' = [ipc EXCEPT ![p] = IF HasCore(p) THEN "listen" ELSE "off"]
    /\ work' = [work EXCEPT ![p] = CASE Kind(p) = "full" -> "wait"
                                     [] Kind(p) \in {"worker", "simple"} -> "browse"
                                     [] OTHER -> "none"]
    /\ browser' = [browser EXCEPT ![p] = IF HasCore(p) THEN "off" ELSE "on"]
    /\ UNCHANGED <<runs, open, tries, devices, asked, addr, peer, retry, found, missed>>

SlipListen(p, port) == open' = [open EXCEPT ![p] = @ \cup {port}]
Listen(p, port) ==
    /\ ~Taken(Host(p), port)
    /\ open' = [open EXCEPT ![p] = @ \cup {port}]

(* IPCServer.Serve, in a goroutine: vgpu/main.go ends when the port is     *)
(* taken, the desktop program ignores it and runs without applications.    *)
ListenIPC(p) ==
    /\ ipc[p] = "listen"
    /\ Listen(p, "ipc")
    /\ ipc' = [ipc EXCEPT ![p] = "on"]
    /\ UNCHANGED <<runs, core, work, agent, missed>>

NoIPC(p) ==
    /\ ipc[p] = "listen" /\ Taken(Host(p), "ipc")
    /\ IF Kind(p) = "core" THEN Exit(p)
       ELSE /\ ipc' = [ipc EXCEPT ![p] = "off"]
            /\ UNCHANGED <<runs, core, work, open, agent, missed>>

(* net.Listen for gRPC: log.Fatal when the port is taken.                  *)
ListenGRPC(p) ==
    /\ CoreGoes(p, "grpc", "mdns")
    /\ Listen(p, "grpc")
    /\ UNCHANGED <<runs, ipc, work, agent, missed>>

ListenFails(p) ==
    /\ core[p] = "grpc" /\ Taken(Host(p), "grpc")
    /\ Exit(p)

(* Advertise: the multicast port is shared.  vgpu/main.go then waits for   *)
(* its signal; startVGPU goes on to say that it is ready.                  *)
Advertise(p) ==
    /\ CoreGoes(p, "mdns", IF Kind(p) = "core" THEN "serving" ELSE "announce")
    /\ open' = [open EXCEPT ![p] = @ \cup {"mdns"}]
    /\ UNCHANGED <<runs, ipc, work, agent, missed>>

(* ready <- struct{}{}: a channel without a buffer.  runFullStack receives *)
(* and starts the local worker; runVGPUOnly called startVGPU itself, and   *)
(* nobody ever receives: the core of "vgpu" stays here.                    *)
SlipReceiver(p) == work[p] = "dial"
Receiver(p) == work[p] = "wait"
Ready(p) ==
    /\ Receiver(p)
    /\ CoreGoes(p, "announce", "udp")
    /\ work' = [work EXCEPT ![p] = "dial"]
    /\ addr' = [addr EXCEPT ![p] = localhost]
    /\ UNCHANGED <<runs, ipc, open, tries, browser, devices, asked, peer, retry, found, missed>>

(* runFullStack gives startVGPU 5 s.                                       *)
NotReady(p) ==
    /\ work[p] = "wait" /\ core[p] # "announce"
    /\ Exit(p)

(* startBroadcastResponder: a port that is taken is "non-fatal".           *)
Respond(p) ==
    /\ CoreGoes(p, "udp", "serving")
    /\ open' = IF Taken(Host(p), "udp") THEN open ELSE [open EXCEPT ![p] = @ \cup {"udp"}]
    /\ UNCHANGED <<runs, ipc, work, agent, missed>>
----------------------------------------------------------------------------
(* mDNS.  buildQuery writes the service name as labels with their lengths; *)
(* listenAndRespond looks for the name with its dots.                      *)
QueryForm == "labels"
Understands(form) == form = "dots"

Query(p) ==
    /\ browser[p] = "on" /\ tries[p] < MaxAttempts
    /\ tries' = [tries EXCEPT ![p] = @ + 1]
    /\ \E hear \in SUBSET {q \in Procs : "mdns" \in open[q]} :
          devices' = [devices EXCEPT ![p] = @ \cup {q \in hear : Understands(QueryForm)}]
    /\ UNCHANGED <<runs, ipc, core, work, open, browser, asked, addr, peer, retry, found, missed>>

(* The loop ends by itself, or by StopAdvertising closing stopCh.          *)
BrowserEnds(p) ==
    /\ browser[p] = "stopped" \/ (browser[p] = "on" /\ tries[p] = MaxAttempts)
    /\ browser' = [browser EXCEPT ![p] = "off"]
    /\ UNCHANGED <<runs, ipc, core, work, open, tries, devices, asked, addr, peer, retry, found, missed>>

(* The select on the first device and the timer: 15 s or 10 s.  The worker *)
(* program goes on to the broadcast when it has no address.                *)
Browsed(p) ==
    /\ work[p] = "browse"
    /\ \E d \in devices[p] \cup {None} :
          /\ addr' = [addr EXCEPT ![p] = IF d # None THEN Host(d)
                                         ELSE IF Kind(p) = "simple" THEN localhost ELSE None]
          /\ work' = [work EXCEPT ![p] = IF d = None /\ Kind(p) = "worker" THEN "probe" ELSE "dial"]
    /\ browser' = [browser EXCEPT ![p] = IF @ = "on" THEN "stopped" ELSE @]
    /\ UNCHANGED <<runs, ipc, core, open, tries, devices, asked, peer, retry, found, missed>>
----------------------------------------------------------------------------
(* udpBroadcastDiscover, by main and by broadcastRetryLoop.                *)
Responders == {q \in Procs : "udp" \in open[q]}
Send(p) ==
    /\ Listen(p, "probe")
    /\ asked' = [asked EXCEPT ![p] = Responders]
CloseProbe(p) ==
    /\ open' = [open EXCEPT ![p] = @ \ {"probe"}]
    /\ asked' = [asked EXCEPT ![p] = {}]
    /\ missed' = (missed \/ asked[p] # {})

Probe(p) ==
    /\ WorkGoes(p, "probe", "probing")
    /\ Send(p)
    /\ UNCHANGED <<runs, ipc, core, tries, browser, devices, addr, peer, retry, found, missed>>

(* Nobody: localhost, and a loop in the background.                        *)
GiveUp(p) ==
    /\ work' = [work EXCEPT ![p] = "dial"]
    /\ addr' = [addr EXCEPT ![p] = localhost]
    /\ retry' = [retry EXCEPT ![p] = "sleep"]

PortTaken(p) ==
    /\ work[p] = "probe" /\ Taken(Host(p), "probe")
    /\ GiveUp(p)
    /\ UNCHANGED <<runs, ipc, core, open, tries, browser, devices, asked, peer, found, missed>>

Timeout(p) ==
    /\ work[p] = "probing"
    /\ GiveUp(p)
    /\ CloseProbe(p)
    /\ UNCHANGED <<runs, ipc, core, tries, browser, devices, peer, found>>

(* The hello of q arrives: it names q's gRPC port, and comes from q's      *)
(* host.  The first one ends the wait; later ones find the port closed.    *)
SlipHelloHost(p, q) == Host(p)
HelloHost(p, q) == Host(q)

Hello(p, q) ==
    /\ work[p] = "probing" /\ q \in asked[p]
    /\ work' = [work EXCEPT ![p] = "dial"]
    /\ addr' = [addr EXCEPT ![p] = HelloHost(p, q)]
    /\ open' = [open EXCEPT ![p] = @ \ {"probe"}]
    /\ asked' = [asked EXCEPT ![p] = {}]
    /\ UNCHANGED <<runs, ipc, core, tries, browser, devices, peer, retry, found, missed>>

Lose(p, q) ==
    /\ q \in asked[p]
    /\ asked' = [asked EXCEPT ![p] = @ \ {q}]
    /\ missed' = TRUE
    /\ UNCHANGED <<runs, ipc, core, work, open, tries, browser, devices, addr, peer, retry, found>>

(* The loop: probes every 30 s until it is answered, and says so in the    *)
(* log.  The address of the worker is not touched.                         *)
Retry(p) ==
    /\ retry[p] = "sleep"
    /\ retry' = [retry EXCEPT ![p] = "probing"]
    /\ Send(p)
    /\ UNCHANGED <<runs, ipc, core, work, tries, browser, devices, addr, peer, found, missed>>

RetryTimeout(p) ==
    /\ retry[p] = "probing"
    /\ retry' = [retry EXCEPT ![p] = "sleep"]
    /\ CloseProbe(p)
    /\ UNCHANGED <<runs, ipc, core, work, tries, browser, devices, addr, peer, found>>

RetryHello(p, q) ==
    /\ retry[p] = "probing" /\ q \in asked[p]
    /\ retry' = [retry EXCEPT ![p] = "done"]
    /\ found' = [found EXCEPT ![p] = HelloHost(p, q)]
    /\ open' = [open EXCEPT ![p] = @ \ {"probe"}]
    /\ asked' = [asked EXCEPT ![p] = {}]
    /\ UNCHANGED <<runs, ipc, core, work, tries, browser, devices, addr, peer, missed>>
----------------------------------------------------------------------------
(* Connect: DialContext blocks until there is a server, for ever if need   *)
(* be; then Register and the ControlChannel.                               *)
Target(p) == IF addr[p] = localhost THEN Host(p) ELSE addr[p]
Dial(p) ==
    /\ WorkGoes(p, "dial", "connected")
    /\ \E q \in Serving(Target(p)) : peer' = [peer EXCEPT ![p] = q]
    /\ UNCHANGED <<runs, ipc, core, open, tries, browser, devices, asked, addr, retry, found, missed>>

(* Who gets a share of an NDRange.  The address a worker comes from is the *)
(* loopback one when it dialled localhost; a worker on the core's own host *)
(* that found it by a broadcast comes from the host's address in the LAN.  *)
IsSameHost(w) == addr[w] = localhost
filterRemoteWorkers(p) == {w \in Procs : peer[w] = p /\ ~IsSameHost(w)}

(* SIGINT.  Only vgpu/main.go stops its server before it goes: no new      *)
(* connections, and the streams there are run to their end.                *)
Drains(p) == Kind(p) = "core" /\ core[p] = "serving"

Interrupt(p) ==
    /\ core[p] # "off" /\ ~Ended(p) /\ ~Drains(p) /\ core[p] # "drain"
    /\ Exit(p)

GracefulStop(p) ==
    /\ Drains(p)
    /\ core' = [core EXCEPT ![p] = "drain"]
    /\ open' = [open EXCEPT ![p] = @ \ {"grpc"}]
    /\ UNCHANGED <<runs, ipc, work, agent, missed>>

SlipStreamsEnded(p) == \A w \in Procs : peer[w] # p /\ ~(work[w] = "dial" /\ Target(w) = Host(p))
StreamsEnded(p) == \A w \in Procs : peer[w] # p

Stopped(p) ==
    /\ core[p] = "drain" /\ StreamsEnded(p)
    /\ Exit(p)
----------------------------------------------------------------------------
Core(p) ==
    \/ ListenIPC(p) \/ NoIPC(p)
    \/ ListenGRPC(p) \/ ListenFails(p)
    \/ Advertise(p) \/ Ready(p) \/ Respond(p)
    \/ Stopped(p)

Worker(p) ==
    \/ Browsed(p)
    \/ Probe(p) \/ PortTaken(p)
    \/ \E q \in Procs : Hello(p, q)
    \/ Dial(p)

Browser(p) == Query(p) \/ BrowserEnds(p)

RetryLoop(p) ==
    \/ Retry(p) \/ RetryTimeout(p)
    \/ \E q \in Procs : RetryHello(p, q)

Environment(p) ==
    \/ Start(p) \/ NotReady(p) \/ Timeout(p)
    \/ \E q \in Procs : Lose(p, q)
    \/ Interrupt(p) \/ GracefulStop(p)

StartupNext == \E p \in Procs : Core(p) \/ Worker(p) \/ Browser(p) \/ RetryLoop(p) \/ Environment(p)

(* A goroutine that can go on does, and a timer that is reached fires.     *)
(* Nobody has to start or to interrupt a program, and nothing has to be    *)
(* lost.                                                                   *)
Fairness == \A p \in Procs : /\ WF_startupVars(Core(p))
                             /\ WF_startupVars(Worker(p))
                             /\ WF_startupVars(Timeout(p))
                             /\ WF_startupVars(Browser(p))
                             /\ WF_startupVars(RetryLoop(p))

----------------------------------------------------------------------------
StartupTypeOK ==
    /\ runs \in Layouts
    /\ core \in [Procs -> {"off", "none", "grpc", "mdns", "announce", "udp", "serving", "drain", "exit"}]
    /\ ipc \in [Procs -> {"off", "listen", "on"}]
    /\ work \in [Procs -> {"off", "none", "wait", "browse", "probe", "probing", "dial", "connected", "orphan", "exit"}]
    /\ open \in [Procs -> SUBSET {"ipc", "grpc", "mdns", "udp", "probe"}]
    /\ addr \in [Procs -> Hosts \cup {localhost, None}]
    /\ peer \in [Procs -> Procs \cup {None}]
    /\ devices \in [Procs -> SUBSET Procs] /\ asked \in [Procs -> SUBSET Procs]

(* The local worker of the desktop program works for the core of its own   *)
(* process, whatever else is started on the computer: the address is       *)
(* localhost, but a program whose core does not get its ports is gone      *)
(* before its worker dials.  And it gets no share of an NDRange, which it  *)
(* would hand back to the core through the OpenCL library                  *)
(* (ipc_server.go:380-392).                                                *)
LocalIsOwn == \A p \in Procs : Kind(p) = "full" /\ peer[p] # None =>
                 peer[p] = p /\ p \notin filterRemoteWorkers(p)

(* The desktop program, once started, ends up serving with its worker      *)
(* connected, or it is gone: it does not hang half started.                *)
FullStackServes == \A p \in Procs :
    Kind(p) = "full" /\ core[p] = "grpc" ~> (core[p] = "serving" /\ work[p] = "connected") \/ Ended(p)

(* "fallback when mDNS multicast blocked": a worker program that is looking *)
(* while a broadcast responder runs gets connected, unless a datagram is   *)
(* lost or late, a core goes, or another program on the worker's own       *)
(* computer has the port of the answer.                                    *)
Crowded(p) == \E q \in Procs \ {p} : Kind(q) = "worker" /\ Host(q) = Host(p)
FallbackConnects == \A p \in Procs :
    work[p] = "browse" /\ Kind(p) = "worker" /\ Responders # {} /\ ~Crowded(p)
      ~> work[p] \in {"connected", "orphan", "exit"} \/ missed \/ (\E r \in Procs : HasCore(r) /\ Ended(r))

(* "Shutting down..." is followed by the end of the core once no worker is *)
(* connected; workers that stay keep it from ending, since the server      *)
(* waits for their streams.                                                *)
StopEnds == \A p \in Procs : core[p] = "drain" ~> Ended(p) \/ \E w \in Procs : peer[w] = p
=============================================================================
