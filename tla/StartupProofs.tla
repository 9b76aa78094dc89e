--------------------------- MODULE StartupProofs ---------------------------
(***************************************************************************)
(* Theorems about how the programs start, for any processes on any hosts:  *)
(* the desktop program is served by its own worker or by none.             *)
(***************************************************************************)
EXTENDS Services, TLAPS
----------------------------------------------------------------------------
(* LocalIsOwn.  A worker dials localhost, and any core of that host may    *)
(* hold the port.  It is its own, since a core that is past its gRPC step  *)
(* has the port open (Serves), a port is open in one process of a host at  *)
(* a time (StartupInv), and the worker of the desktop program dials only   *)
(* once its core is that far (FullInv).                                    *)
FullInv(p) == Kind(p) = "full" =>
    /\ work[p] \in {"off", "wait", "dial", "connected", "exit"}
    /\ work[p] \in {"dial", "connected"} =>
          addr[p] = localhost /\ core[p] \in {"udp", "serving"}
    /\ peer[p] # None => work[p] = "connected" /\ peer[p] = p
    /\ core[p] = "off" <=> work[p] = "off"

Serves(p) == core[p] \in {"mdns", "announce", "udp", "serving"} => "grpc" \in open[p]

StartupInv ==
    /\ StartupTypeOK
    /\ \A p \in Procs : Serves(p) /\ FullInv(p)
    /\ \A p, q \in Procs : "grpc" \in open[p] /\ "grpc" \in open[q] /\ Host(p) = Host(q) => p = q

(* What an address may be.                                                 *)
LEMMA HostsAre == ASSUME runs \in Layouts, NEW p \in Procs PROVE Host(p) \in Hosts
BY DEF Host, Hosts

(* What a step of process p alone has to show.                             *)
LEMMA OneMoves ==
    ASSUME StartupInv, StartupTypeOK', UNCHANGED runs, NEW p \in Procs,
           \A q \in Procs \ {p} : /\ core'[q] = core[q] /\ work'[q] = work[q] /\ addr'[q] = addr[q]
                                  /\ peer'[q] = peer[q] /\ open'[q] = open[q],
           Serves(p)', FullInv(p)', "grpc" \in open'[p] => "grpc" \in open[p] \/ ~Taken(Host(p), "grpc")
    PROVE  StartupInv'
<1>1. \A q \in Procs : Serves(q)' /\ FullInv(q)'
  BY DEF StartupInv, Serves, FullInv, Kind
<1>2. \A q \in Procs : Host(q)' = Host(q)
  BY DEF Host
<1> QED BY <1>1, <1>2 DEF StartupInv, Taken

----------------------------------------------------------------------------
(* The steps of a core, of a worker and of the discovery.                  *)
LEMMA StartKeeps == ASSUME StartupInv, NEW p \in Procs, Start(p) PROVE StartupInv'
<1>1. StartupTypeOK'
  BY HostsAre DEF Start, HasCore, StartupInv, StartupTypeOK, agent
<1>2. /\ UNCHANGED runs
      /\ \A r \in Procs \ {p} : /\ core'[r] = core[r] /\ work'[r] = work[r] /\ addr'[r] = addr[r]
                                  /\ peer'[r] = peer[r] /\ open'[r] = open[r]
  BY DEF Start, HasCore, StartupInv, StartupTypeOK, agent
<1>3. Serves(p)' /\ ("grpc" \in open'[p] => "grpc" \in open[p] \/ ~Taken(Host(p), "grpc"))
  BY DEF Start, HasCore, StartupInv, StartupTypeOK, agent, Serves
<1>4. FullInv(p)'
  BY DEF Start, HasCore, StartupInv, StartupTypeOK, agent, FullInv, Kind
<1> QED BY <1>1, <1>2, <1>3, <1>4, OneMoves

LEMMA ListenIPCKeeps == ASSUME StartupInv, NEW p \in Procs, ListenIPC(p) PROVE StartupInv'
<1>1. StartupTypeOK'
  BY HostsAre DEF ListenIPC, Listen, StartupInv, StartupTypeOK, agent
<1>2. /\ UNCHANGED runs
      /\ \A r \in Procs \ {p} : /\ core'[r] = core[r] /\ work'[r] = work[r] /\ addr'[r] = addr[r]
                                  /\ peer'[r] = peer[r] /\ open'[r] = open[r]
  BY DEF ListenIPC, Listen, StartupInv, StartupTypeOK, agent
<1>3. Serves(p)' /\ ("grpc" \in open'[p] => "grpc" \in open[p] \/ ~Taken(Host(p), "grpc"))
  BY DEF ListenIPC, Listen, StartupInv, StartupTypeOK, agent, Serves
<1>4. FullInv(p)'
  BY DEF ListenIPC, Listen, StartupInv, StartupTypeOK, agent, FullInv, Kind
<1> QED BY <1>1, <1>2, <1>3, <1>4, OneMoves

LEMMA ListenGRPCKeeps == ASSUME StartupInv, NEW p \in Procs, ListenGRPC(p) PROVE StartupInv'
<1>1. StartupTypeOK'
  BY HostsAre DEF ListenGRPC, CoreGoes, Listen, Taken, StartupInv, StartupTypeOK, agent
<1>2. /\ UNCHANGED runs
      /\ \A r \in Procs \ {p} : /\ core'[r] = core[r] /\ work'[r] = work[r] /\ addr'[r] = addr[r]
                                  /\ peer'[r] = peer[r] /\ open'[r] = open[r]
  BY DEF ListenGRPC, CoreGoes, Listen, Taken, StartupInv, StartupTypeOK, agent
<1>3. Serves(p)' /\ ("grpc" \in open'[p] => "grpc" \in open[p] \/ ~Taken(Host(p), "grpc"))
  BY DEF ListenGRPC, CoreGoes, Listen, Taken, StartupInv, StartupTypeOK, agent, Serves
<1>4. FullInv(p)'
  BY DEF ListenGRPC, CoreGoes, Listen, Taken, StartupInv, StartupTypeOK, agent, FullInv, Kind
<1> QED BY <1>1, <1>2, <1>3, <1>4, OneMoves

LEMMA AdvertiseKeeps == ASSUME StartupInv, NEW p \in Procs, Advertise(p) PROVE StartupInv'
<1>1. StartupTypeOK'
  BY HostsAre DEF Advertise, CoreGoes, StartupInv, StartupTypeOK, agent
<1>2. /\ UNCHANGED runs
      /\ \A r \in Procs \ {p} : /\ core'[r] = core[r] /\ work'[r] = work[r] /\ addr'[r] = addr[r]
                                  /\ peer'[r] = peer[r] /\ open'[r] = open[r]
  BY DEF Advertise, CoreGoes, StartupInv, StartupTypeOK, agent
<1>3. Serves(p)' /\ ("grpc" \in open'[p] => "grpc" \in open[p] \/ ~Taken(Host(p), "grpc"))
  BY DEF Advertise, CoreGoes, StartupInv, StartupTypeOK, agent, Serves
<1>4. FullInv(p)'
  BY DEF Advertise, CoreGoes, StartupInv, StartupTypeOK, agent, FullInv, Kind
<1> QED BY <1>1, <1>2, <1>3, <1>4, OneMoves

LEMMA ReadyKeeps == ASSUME StartupInv, NEW p \in Procs, Ready(p) PROVE StartupInv'
<1>1. StartupTypeOK'
  BY HostsAre DEF Ready, CoreGoes, Receiver, StartupInv, StartupTypeOK, agent
<1>2. /\ UNCHANGED runs
      /\ \A r \in Procs \ {p} : /\ core'[r] = core[r] /\ work'[r] = work[r] /\ addr'[r] = addr[r]
                                  /\ peer'[r] = peer[r] /\ open'[r] = open[r]
  BY DEF Ready, CoreGoes, Receiver, StartupInv, StartupTypeOK, agent
<1>3. Serves(p)' /\ ("grpc" \in open'[p] => "grpc" \in open[p] \/ ~Taken(Host(p), "grpc"))
  BY DEF Ready, CoreGoes, Receiver, StartupInv, StartupTypeOK, agent, Serves
<1>4. FullInv(p)'
  BY DEF Ready, CoreGoes, Receiver, StartupInv, StartupTypeOK, agent, FullInv, Kind
<1> QED BY <1>1, <1>2, <1>3, <1>4, OneMoves

LEMMA RespondKeeps == ASSUME StartupInv, NEW p \in Procs, Respond(p) PROVE StartupInv'
<1>1. StartupTypeOK'
  BY HostsAre DEF Respond, CoreGoes, StartupInv, StartupTypeOK, agent
<1>2. /\ UNCHANGED runs
      /\ \A r \in Procs \ {p} : /\ core'[r] = core[r] /\ work'[r] = work[r] /\ addr'[r] = addr[r]
                                  /\ peer'[r] = peer[r] /\ open'[r] = open[r]
  BY DEF Respond, CoreGoes, StartupInv, StartupTypeOK, agent
<1>3. Serves(p)' /\ ("grpc" \in open'[p] => "grpc" \in open[p] \/ ~Taken(Host(p), "grpc"))
  BY DEF Respond, CoreGoes, StartupInv, StartupTypeOK, agent, Serves
<1>4. FullInv(p)'
  BY DEF Respond, CoreGoes, StartupInv, StartupTypeOK, agent, FullInv, Kind
<1> QED BY <1>1, <1>2, <1>3, <1>4, OneMoves

LEMMA QueryKeeps == ASSUME StartupInv, NEW p \in Procs, Query(p) PROVE StartupInv'
<1>1. StartupTypeOK'
  BY HostsAre DEF Query, StartupInv, StartupTypeOK, agent
<1>2. /\ UNCHANGED runs
      /\ \A r \in Procs \ {p} : /\ core'[r] = core[r] /\ work'[r] = work[r] /\ addr'[r] = addr[r]
                                  /\ peer'[r] = peer[r] /\ open'[r] = open[r]
  BY DEF Query, StartupInv, StartupTypeOK, agent
<1>3. Serves(p)' /\ ("grpc" \in open'[p] => "grpc" \in open[p] \/ ~Taken(Host(p), "grpc"))
  BY DEF Query, StartupInv, StartupTypeOK, agent, Serves
<1>4. FullInv(p)'
  BY DEF Query, StartupInv, StartupTypeOK, agent, FullInv, Kind
<1> QED BY <1>1, <1>2, <1>3, <1>4, OneMoves

LEMMA BrowserEndsKeeps == ASSUME StartupInv, NEW p \in Procs, BrowserEnds(p) PROVE StartupInv'
<1>1. StartupTypeOK'
  BY HostsAre DEF BrowserEnds, StartupInv, StartupTypeOK, agent
<1>2. /\ UNCHANGED runs
      /\ \A r \in Procs \ {p} : /\ core'[r] = core[r] /\ work'[r] = work[r] /\ addr'[r] = addr[r]
                                  /\ peer'[r] = peer[r] /\ open'[r] = open[r]
  BY DEF BrowserEnds, StartupInv, StartupTypeOK, agent
<1>3. Serves(p)' /\ ("grpc" \in open'[p] => "grpc" \in open[p] \/ ~Taken(Host(p), "grpc"))
  BY DEF BrowserEnds, StartupInv, StartupTypeOK, agent, Serves
<1>4. FullInv(p)'
  BY DEF BrowserEnds, StartupInv, StartupTypeOK, agent, FullInv, Kind
<1> QED BY <1>1, <1>2, <1>3, <1>4, OneMoves

LEMMA BrowsedKeeps == ASSUME StartupInv, NEW p \in Procs, Browsed(p) PROVE StartupInv'
<1>1. StartupTypeOK'
  <2>1. PICK d \in devices[p] \cup {None} :
          /\ addr' = [addr EXCEPT ![p] = IF d # None THEN Host(d)
                                         ELSE IF Kind(p) = "simple" THEN localhost ELSE None]
          /\ work' = [work EXCEPT ![p] = IF d = None /\ Kind(p) = "worker" THEN "probe" ELSE "dial"]
    BY DEF Browsed
  <2>2. d # None => Host(d) \in Hosts
    BY HostsAre DEF StartupInv, StartupTypeOK
  <2>3. addr' \in [Procs -> Hosts \cup {localhost, None}]
    BY <2>1, <2>2 DEF StartupInv, StartupTypeOK
  <2>4. work' \in [Procs -> {"off", "none", "wait", "browse", "probe", "probing", "dial", "connected", "orphan", "exit"}]
    BY <2>1 DEF StartupInv, StartupTypeOK
  <2> QED BY <2>3, <2>4 DEF Browsed, StartupInv, StartupTypeOK
<1>2. /\ UNCHANGED runs
      /\ \A r \in Procs \ {p} : /\ core'[r] = core[r] /\ work'[r] = work[r] /\ addr'[r] = addr[r]
                                  /\ peer'[r] = peer[r] /\ open'[r] = open[r]
  BY DEF Browsed, StartupInv, StartupTypeOK, agent
<1>3. Serves(p)' /\ ("grpc" \in open'[p] => "grpc" \in open[p] \/ ~Taken(Host(p), "grpc"))
  BY DEF Browsed, StartupInv, StartupTypeOK, agent, Serves
<1>4. FullInv(p)'
  BY DEF Browsed, StartupInv, StartupTypeOK, agent, FullInv, Kind
<1> QED BY <1>1, <1>2, <1>3, <1>4, OneMoves

LEMMA ProbeKeeps == ASSUME StartupInv, NEW p \in Procs, Probe(p) PROVE StartupInv'
<1>1. StartupTypeOK'
  BY HostsAre DEF Probe, WorkGoes, Send, Listen, Responders, StartupInv, StartupTypeOK, agent
<1>2. /\ UNCHANGED runs
      /\ \A r \in Procs \ {p} : /\ core'[r] = core[r] /\ work'[r] = work[r] /\ addr'[r] = addr[r]
                                  /\ peer'[r] = peer[r] /\ open'[r] = open[r]
  BY DEF Probe, WorkGoes, Send, Listen, Responders, StartupInv, StartupTypeOK, agent
<1>3. Serves(p)' /\ ("grpc" \in open'[p] => "grpc" \in open[p] \/ ~Taken(Host(p), "grpc"))
  BY DEF Probe, WorkGoes, Send, Listen, Responders, StartupInv, StartupTypeOK, agent, Serves
<1>4. FullInv(p)'
  BY DEF Probe, WorkGoes, Send, Listen, Responders, StartupInv, StartupTypeOK, agent, FullInv, Kind
<1> QED BY <1>1, <1>2, <1>3, <1>4, OneMoves

LEMMA PortTakenKeeps == ASSUME StartupInv, NEW p \in Procs, PortTaken(p) PROVE StartupInv'
<1>1. StartupTypeOK'
  BY HostsAre DEF PortTaken, GiveUp, StartupInv, StartupTypeOK, agent
<1>2. /\ UNCHANGED runs
      /\ \A r \in Procs \ {p} : /\ core'[r] = core[r] /\ work'[r] = work[r] /\ addr'[r] = addr[r]
                                  /\ peer'[r] = peer[r] /\ open'[r] = open[r]
  BY DEF PortTaken, GiveUp, StartupInv, StartupTypeOK, agent
<1>3. Serves(p)' /\ ("grpc" \in open'[p] => "grpc" \in open[p] \/ ~Taken(Host(p), "grpc"))
  BY DEF PortTaken, GiveUp, StartupInv, StartupTypeOK, agent, Serves
<1>4. FullInv(p)'
  BY DEF PortTaken, GiveUp, StartupInv, StartupTypeOK, agent, FullInv, Kind
<1> QED BY <1>1, <1>2, <1>3, <1>4, OneMoves

LEMMA TimeoutKeeps == ASSUME StartupInv, NEW p \in Procs, Timeout(p) PROVE StartupInv'
<1>1. StartupTypeOK'
  BY HostsAre DEF Timeout, GiveUp, CloseProbe, StartupInv, StartupTypeOK, agent
<1>2. /\ UNCHANGED runs
      /\ \A r \in Procs \ {p} : /\ core'[r] = core[r] /\ work'[r] = work[r] /\ addr'[r] = addr[r]
                                  /\ peer'[r] = peer[r] /\ open'[r] = open[r]
  BY DEF Timeout, GiveUp, CloseProbe, StartupInv, StartupTypeOK, agent
<1>3. Serves(p)' /\ ("grpc" \in open'[p] => "grpc" \in open[p] \/ ~Taken(Host(p), "grpc"))
  BY DEF Timeout, GiveUp, CloseProbe, StartupInv, StartupTypeOK, agent, Serves
<1>4. FullInv(p)'
  BY DEF Timeout, GiveUp, CloseProbe, StartupInv, StartupTypeOK, agent, FullInv, Kind
<1> QED BY <1>1, <1>2, <1>3, <1>4, OneMoves

LEMMA HelloKeeps == ASSUME StartupInv, NEW p \in Procs, NEW q \in Procs, Hello(p, q) PROVE StartupInv'
<1>1. StartupTypeOK'
  BY HostsAre DEF Hello, HelloHost, StartupInv, StartupTypeOK, agent
<1>2. /\ UNCHANGED runs
      /\ \A r \in Procs \ {p} : /\ core'[r] = core[r] /\ work'[r] = work[r] /\ addr'[r] = addr[r]
                                  /\ peer'[r] = peer[r] /\ open'[r] = open[r]
  BY DEF Hello, HelloHost, StartupInv, StartupTypeOK, agent
<1>3. Serves(p)' /\ ("grpc" \in open'[p] => "grpc" \in open[p] \/ ~Taken(Host(p), "grpc"))
  BY DEF Hello, HelloHost, StartupInv, StartupTypeOK, agent, Serves
<1>4. FullInv(p)'
  BY DEF Hello, HelloHost, StartupInv, StartupTypeOK, agent, FullInv, Kind
<1> QED BY <1>1, <1>2, <1>3, <1>4, OneMoves

LEMMA LoseKeeps == ASSUME StartupInv, NEW p \in Procs, NEW q \in Procs, Lose(p, q) PROVE StartupInv'
<1>1. StartupTypeOK'
  BY HostsAre DEF Lose, StartupInv, StartupTypeOK, agent
<1>2. /\ UNCHANGED runs
      /\ \A r \in Procs \ {p} : /\ core'[r] = core[r] /\ work'[r] = work[r] /\ addr'[r] = addr[r]
                                  /\ peer'[r] = peer[r] /\ open'[r] = open[r]
  BY DEF Lose, StartupInv, StartupTypeOK, agent
<1>3. Serves(p)' /\ ("grpc" \in open'[p] => "grpc" \in open[p] \/ ~Taken(Host(p), "grpc"))
  BY DEF Lose, StartupInv, StartupTypeOK, agent, Serves
<1>4. FullInv(p)'
  BY DEF Lose, StartupInv, StartupTypeOK, agent, FullInv, Kind
<1> QED BY <1>1, <1>2, <1>3, <1>4, OneMoves

LEMMA RetryKeeps == ASSUME StartupInv, NEW p \in Procs, Retry(p) PROVE StartupInv'
<1>1. StartupTypeOK'
  BY HostsAre DEF Retry, Send, Listen, Responders, StartupInv, StartupTypeOK, agent
<1>2. /\ UNCHANGED runs
      /\ \A r \in Procs \ {p} : /\ core'[r] = core[r] /\ work'[r] = work[r] /\ addr'[r] = addr[r]
                                  /\ peer'[r] = peer[r] /\ open'[r] = open[r]
  BY DEF Retry, Send, Listen, Responders, StartupInv, StartupTypeOK, agent
<1>3. Serves(p)' /\ ("grpc" \in open'[p] => "grpc" \in open[p] \/ ~Taken(Host(p), "grpc"))
  BY DEF Retry, Send, Listen, Responders, StartupInv, StartupTypeOK, agent, Serves
<1>4. FullInv(p)'
  BY DEF Retry, Send, Listen, Responders, StartupInv, StartupTypeOK, agent, FullInv, Kind
<1> QED BY <1>1, <1>2, <1>3, <1>4, OneMoves

LEMMA RetryTimeoutKeeps == ASSUME StartupInv, NEW p \in Procs, RetryTimeout(p) PROVE StartupInv'
<1>1. StartupTypeOK'
  BY HostsAre DEF RetryTimeout, CloseProbe, StartupInv, StartupTypeOK, agent
<1>2. /\ UNCHANGED runs
      /\ \A r \in Procs \ {p} : /\ core'[r] = core[r] /\ work'[r] = work[r] /\ addr'[r] = addr[r]
                                  /\ peer'[r] = peer[r] /\ open'[r] = open[r]
  BY DEF RetryTimeout, CloseProbe, StartupInv, StartupTypeOK, agent
<1>3. Serves(p)' /\ ("grpc" \in open'[p] => "grpc" \in open[p] \/ ~Taken(Host(p), "grpc"))
  BY DEF RetryTimeout, CloseProbe, StartupInv, StartupTypeOK, agent, Serves
<1>4. FullInv(p)'
  BY DEF RetryTimeout, CloseProbe, StartupInv, StartupTypeOK, agent, FullInv, Kind
<1> QED BY <1>1, <1>2, <1>3, <1>4, OneMoves

LEMMA RetryHelloKeeps == ASSUME StartupInv, NEW p \in Procs, NEW q \in Procs, RetryHello(p, q) PROVE StartupInv'
<1>1. StartupTypeOK'
  BY HostsAre DEF RetryHello, StartupInv, StartupTypeOK, agent
<1>2. /\ UNCHANGED runs
      /\ \A r \in Procs \ {p} : /\ core'[r] = core[r] /\ work'[r] = work[r] /\ addr'[r] = addr[r]
                                  /\ peer'[r] = peer[r] /\ open'[r] = open[r]
  BY DEF RetryHello, StartupInv, StartupTypeOK, agent
<1>3. Serves(p)' /\ ("grpc" \in open'[p] => "grpc" \in open[p] \/ ~Taken(Host(p), "grpc"))
  BY DEF RetryHello, StartupInv, StartupTypeOK, agent, Serves
<1>4. FullInv(p)'
  BY DEF RetryHello, StartupInv, StartupTypeOK, agent, FullInv, Kind
<1> QED BY <1>1, <1>2, <1>3, <1>4, OneMoves

LEMMA GracefulStopKeeps == ASSUME StartupInv, NEW p \in Procs, GracefulStop(p) PROVE StartupInv'
<1>1. StartupTypeOK'
  BY HostsAre DEF GracefulStop, Drains, StartupInv, StartupTypeOK, agent
<1>2. /\ UNCHANGED runs
      /\ \A r \in Procs \ {p} : /\ core'[r] = core[r] /\ work'[r] = work[r] /\ addr'[r] = addr[r]
                                  /\ peer'[r] = peer[r] /\ open'[r] = open[r]
  BY DEF GracefulStop, Drains, StartupInv, StartupTypeOK, agent
<1>3. Serves(p)' /\ ("grpc" \in open'[p] => "grpc" \in open[p] \/ ~Taken(Host(p), "grpc"))
  BY DEF GracefulStop, Drains, StartupInv, StartupTypeOK, agent, Serves
<1>4. FullInv(p)'
  BY DEF GracefulStop, Drains, StartupInv, StartupTypeOK, agent, FullInv, Kind
<1> QED BY <1>1, <1>2, <1>3, <1>4, OneMoves

LEMMA DialKeeps == ASSUME StartupInv, NEW p \in Procs, Dial(p) PROVE StartupInv'
<1>1. StartupTypeOK'
  BY HostsAre DEF Dial, WorkGoes, Serving, StartupInv, StartupTypeOK, agent
<1>2. /\ UNCHANGED runs
      /\ \A r \in Procs \ {p} : /\ core'[r] = core[r] /\ work'[r] = work[r] /\ addr'[r] = addr[r]
                                  /\ peer'[r] = peer[r] /\ open'[r] = open[r]
  BY DEF Dial, WorkGoes, Serving, StartupInv, StartupTypeOK, agent
<1>3. Serves(p)' /\ ("grpc" \in open'[p] => "grpc" \in open[p] \/ ~Taken(Host(p), "grpc"))
  BY DEF Dial, WorkGoes, Serving, StartupInv, StartupTypeOK, agent, Serves
<1>4. FullInv(p)'
  <2> SUFFICES ASSUME Kind(p) = "full" PROVE FullInv(p)'
    BY <1>2 DEF FullInv, Kind
  <2>1. addr[p] = localhost /\ core[p] \in {"udp", "serving"} /\ work[p] = "dial"
    BY DEF Dial, WorkGoes, StartupInv, FullInv
  <2>2. PICK q \in Serving(Host(p)) : peer' = [peer EXCEPT ![p] = q]
    BY <2>1 DEF Dial, Target
  <2>3. q = p
    BY <2>1, <2>2 DEF Serving, StartupInv, Serves
  <2> QED BY <2>1, <2>2, <2>3 DEF Dial, WorkGoes, StartupInv, StartupTypeOK, FullInv, Kind
<1> QED BY <1>1, <1>2, <1>3, <1>4, OneMoves

(* The workers of others that lose their core are none of the desktop's.   *)
LEMMA ExitKeeps == ASSUME StartupInv, NEW p \in Procs, Exit(p) PROVE StartupInv'
<1>1. StartupTypeOK'
  BY DEF Exit, StartupInv, StartupTypeOK
<1>2. ASSUME NEW q \in Procs \ {p}, Kind(q) = "full" PROVE q \notin Orphans(p)
  BY <1>2, NoneAssumption DEF Orphans, StartupInv, FullInv
<1>3. /\ UNCHANGED <<runs, addr>> /\ core'[p] = "exit" /\ work'[p] = "exit" /\ peer'[p] = None /\ open'[p] = {}
      /\ \A q \in Procs \ {p} : /\ core'[q] = core[q] /\ open'[q] = open[q]
                                /\ q \notin Orphans(p) => work'[q] = work[q] /\ peer'[q] = peer[q]
  BY DEF Exit, StartupInv, StartupTypeOK
<1>4. \A q \in Procs : Serves(q)' /\ FullInv(q)'
  BY <1>2, <1>3 DEF StartupInv, Serves, FullInv, Kind
<1>5. \A q \in Procs : Host(q)' = Host(q)
  BY <1>3 DEF Host
<1> QED BY <1>1, <1>3, <1>4, <1>5 DEF StartupInv

LEMMA NoIPCKeeps == ASSUME StartupInv, NEW p \in Procs, NoIPC(p) PROVE StartupInv'
<1>1. CASE Kind(p) = "core"
  BY <1>1, ExitKeeps DEF NoIPC
<1>2. CASE Kind(p) # "core"
  BY <1>2 DEF NoIPC, StartupInv, StartupTypeOK, Serves, FullInv, Kind, Host, agent
<1> QED BY <1>1, <1>2

----------------------------------------------------------------------------
LEMMA InitStartup == StartupInit => StartupInv
BY DEF StartupInit, StartupInv, StartupTypeOK, Serves, FullInv

LEMMA NextStartup == StartupInv /\ [StartupNext]_startupVars => StartupInv'
<1> SUFFICES ASSUME StartupInv, [StartupNext]_startupVars PROVE StartupInv'
  OBVIOUS
<1>1. CASE UNCHANGED startupVars
  BY <1>1 DEF startupVars, agent, StartupInv, StartupTypeOK, Serves, FullInv, Kind, Host
<1>2. ASSUME NEW p \in Procs, Core(p) PROVE StartupInv'
  <2>1. Stopped(p) \/ ListenFails(p) => Exit(p)
    BY DEF Stopped, ListenFails
  <2> QED BY <1>2, <2>1, ExitKeeps, NoIPCKeeps, ListenIPCKeeps, ListenGRPCKeeps, AdvertiseKeeps, ReadyKeeps,
             RespondKeeps DEF Core
<1>3. ASSUME NEW p \in Procs, Worker(p) PROVE StartupInv'
  BY <1>3, BrowsedKeeps, ProbeKeeps, PortTakenKeeps, HelloKeeps, DialKeeps DEF Worker
<1>4. ASSUME NEW p \in Procs, Browser(p) \/ RetryLoop(p) PROVE StartupInv'
  BY <1>4, QueryKeeps, BrowserEndsKeeps, RetryKeeps, RetryTimeoutKeeps, RetryHelloKeeps DEF Browser, RetryLoop
<1>5. ASSUME NEW p \in Procs, Environment(p) PROVE StartupInv'
  <2>1. NotReady(p) \/ Interrupt(p) => Exit(p)
    BY DEF NotReady, Interrupt
  <2> QED BY <1>5, <2>1, ExitKeeps, StartKeeps, TimeoutKeeps, LoseKeeps, GracefulStopKeeps DEF Environment
<1> QED BY <1>1, <1>2, <1>3, <1>4, <1>5 DEF StartupNext

LEMMA StartupGoesOn == ServicesSpec => []StartupInv
<1>1. ServicesInit => StartupInv
  BY InitStartup DEF ServicesInit
<1>2. [ServicesNext]_servicesVars => [StartupNext]_startupVars
  BY DEF ServicesNext, StartupPart, WatchersPart, DevicePart, servicesVars
<1> QED BY <1>1, <1>2, NextStartup, PTL DEF ServicesSpec

(* Whatever is started on the computer and wherever it is cut off, the     *)
(* worker of the desktop program works for the core of its own process and *)
(* gets no share of an NDRange (cmd/distribox/main.go:286-336,             *)
(* ipc_server.go:380-392).                                                 *)
THEOREM LocalWorkersAreOwn == ServicesSpec => []LocalIsOwn
<1>1. StartupInv => LocalIsOwn
  <2> SUFFICES ASSUME StartupInv, NEW p \in Procs, Kind(p) = "full", peer[p] # None
               PROVE  peer[p] = p /\ p \notin filterRemoteWorkers(p)
    BY DEF LocalIsOwn
  <2>1. peer[p] = p /\ addr[p] = localhost
    BY DEF StartupInv, FullInv
  <2> QED BY <2>1 DEF filterRemoteWorkers, IsSameHost
<1> QED BY <1>1, StartupGoesOn, PTL

(* The variables have their types: an address is one a program may have.   *)
THEOREM StartupTypesCorrect == ServicesSpec => []StartupTypeOK
<1>1. StartupInv => StartupTypeOK
  BY DEF StartupInv
<1> QED BY <1>1, StartupGoesOn, PTL
=============================================================================
