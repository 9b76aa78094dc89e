------------------------------ MODULE CmdQueue ------------------------------
(***************************************************************************)
(* vgpu/queue/cmdqueue.go under the handlers of vgpu/server/ipc_server.go  *)
(* that call it.                                                           *)
(*                                                                         *)
(* Every IPC connection is served by one goroutine (handleConnection) that *)
(* handles one message at a time.  A launch (handleNDRange) lists its      *)
(* command on the queue, runs, and marks it complete on return; a finish   *)
(* (handleQueueFinish) takes the queue's current signal channel and blocks *)
(* until that channel is closed.  Queues are found by the id the client    *)
(* sent, so connections that send the same queue id share the queue; and   *)
(* every application counts its ids from 1 (icd.c:222), so that two of     *)
(* them send launches with the same command id to the same queue.  A       *)
(* connection that was hung up while idle and a new one are the same here. *)
(*                                                                         *)
(* The Commands list is only ever scanned for an id or for "all done", so  *)
(* it is the set of its entries.  A Go channel is a number: make(chan)     *)
(* takes the next one, close adds it to closed[q].                         *)
(***************************************************************************)
EXTENDS Naturals, FiniteSets

CONSTANTS Conns,   (* IPC connections                                      *)
          Queues,  (* queue ids                                            *)
          Cmds,    (* kernel launches; the bound on how many are made      *)
          IdOf,    (* IdOf[cmd]: the command id "task-<msg id>"; launches  *)
                   (* of different applications may share it               *)
          None     (* a local variable that holds nothing yet              *)

ASSUME NoneAssumption == None \notin Queues /\ None \notin Cmds

VARIABLES created,   (* keys of CommandQueueManager.Queues                 *)
          listed,    (* listed[q]: entries of q.Commands                   *)
          complete,  (* commands whose Status is StatusComplete            *)
          signal,    (* signal[q]: the channel q.signal                    *)
          closed,    (* closed[q]: the channels of q that are closed       *)
          pc,        (* pc[c]: where the goroutine of c is                 *)
          queueOf,   (* queueOf[c]: the queue of its current message       *)
          cmdOf,     (* cmdOf[c]: the command of its current launch        *)
          sigOf,     (* sigOf[c]: the channel a finish waits on            *)
          aborted,   (* the Go runtime stopped the process                 *)
          fresh,     (* launches nobody has sent yet                       *)
          owed       (* history: the launches running when c's finish took *)
                     (* the signal                                         *)

vars == <<created, listed, complete, signal, closed, pc, queueOf, cmdOf,
          sigOf, aborted, fresh, owed>>
queueVars == <<created, listed, complete, signal, closed>>

PCs == {"idle", "lookup", "append", "running", "finish", "take", "blocked"}

Init ==
    /\ created = {}
    /\ listed = [q \in Queues |-> {}]
    /\ complete = {}
    /\ signal = [q \in Queues |-> 0]
    /\ closed = [q \in Queues |-> {}]
    /\ pc = [c \in Conns |-> "idle"]
    /\ queueOf = [c \in Conns |-> None]
    /\ cmdOf = [c \in Conns |-> None]
    /\ sigOf = [c \in Conns |-> None]
    /\ aborted = FALSE
    /\ fresh = Cmds
    /\ owed = [c \in Conns |-> {}]

(* Launches on q whose handler has listed its command and not yet marked   *)
(* it complete.                                                            *)
Executing(q) == {cmdOf[c] : c \in {d \in Conns : pc[d] = "running" /\ queueOf[d] = q}}

Goto(c, label) == pc' = [pc EXCEPT ![c] = label]

(* The handler returns: its locals are gone and the next message is read.  *)
Reply(c) ==
    /\ Goto(c, "idle")
    /\ queueOf' = [queueOf EXCEPT ![c] = None]
    /\ cmdOf' = [cmdOf EXCEPT ![c] = None]
    /\ sigOf' = [sigOf EXCEPT ![c] = None]
    /\ owed' = [owed EXCEPT ![c] = {}]

(* GetOrCreate: a new queue starts with a channel that is already closed.  *)
GetOrCreate(q) ==
    /\ created' = created \cup {q}
    /\ closed' = [closed EXCEPT ![q] = IF q \in created THEN @ ELSE {signal[q]}]
    /\ UNCHANGED <<listed, complete, signal>>

(* Slips the runs must notice: the old signal is kept, it is dropped, it   *)
(* is replaced while somebody waits on it, it is closed with every         *)
(* command, it is closed by a check made too early.                        *)
SlipKeepSignal(q) == signal[q]
SlipNoSignal(q) == None
SlipNewSignal(q) == signal[q] + 1
SlipCloseAlways(q, done) == closed[q] \cup {signal[q]}
SlipCheckFirst(q, done) ==
    IF listed[q] \subseteq complete THEN closed[q] \cup {signal[q]} ELSE closed[q]

(* New work on a queue whose signal is closed gets a new, open signal.     *)
SignalAfterEnqueue(q) == IF signal[q] \in closed[q] THEN signal[q] + 1 ELSE signal[q]

(* The signal is closed once no command of the queue is left to wait for.  *)
ClosedAfterComplete(q, done) ==
    IF listed[q] \subseteq done THEN closed[q] \cup {signal[q]} ELSE closed[q]
----------------------------------------------------------------------------
(* The client of c sends a launch on q.                                    *)
ReceiveNDRange(c, q, cmd) ==
    /\ pc[c] = "idle"
    /\ cmd \in fresh
    /\ fresh' = fresh \ {cmd}
    /\ queueOf' = [queueOf EXCEPT ![c] = q]
    /\ cmdOf' = [cmdOf EXCEPT ![c] = cmd]
    /\ Goto(c, "lookup")
    /\ UNCHANGED <<queueVars, sigOf, aborted, owed>>

(* Enqueue, first under the manager's lock ...                             *)
EnqueueLookup(c) ==
    /\ pc[c] = "lookup"
    /\ GetOrCreate(queueOf[c])
    /\ Goto(c, "append")
    /\ UNCHANGED <<queueOf, cmdOf, sigOf, aborted, fresh, owed>>

(* ... then under the queue's: a closed signal is replaced.                *)
Enqueue(c) ==
    LET q == queueOf[c] IN
    /\ pc[c] = "append"
    /\ listed' = [listed EXCEPT ![q] = @ \cup {cmdOf[c]}]
    /\ signal' = [signal EXCEPT ![q] = SignalAfterEnqueue(q)]
    /\ Goto(c, "running")
    /\ UNCHANGED <<created, complete, closed, queueOf, cmdOf, sigOf, aborted, fresh, owed>>

(* The deferred MarkComplete of handleNDRange: every entry with the id is  *)
(* completed, and the signal is closed once nothing is left to wait for.   *)
MarkComplete(c) ==
    LET q    == queueOf[c]
        same == {cmd \in listed[q] : IdOf[cmd] = IdOf[cmdOf[c]]}
    IN  /\ pc[c] = "running"
        /\ q \in created
        /\ complete' = complete \cup same
        /\ closed' = [closed EXCEPT ![q] = ClosedAfterComplete(q, complete')]
        /\ Reply(c)
        /\ UNCHANGED <<created, listed, signal, aborted, fresh>>

(* The client of c sends queue_finish for q.  (A queue_finish without a    *)
(* queue id is answered at once and changes nothing.)                      *)
ReceiveFinish(c, q) ==
    /\ pc[c] = "idle"
    /\ queueOf' = [queueOf EXCEPT ![c] = q]
    /\ Goto(c, "finish")
    /\ UNCHANGED <<queueVars, cmdOf, sigOf, aborted, fresh, owed>>

FinishLookup(c) ==
    /\ pc[c] = "finish"
    /\ GetOrCreate(queueOf[c])
    /\ Goto(c, "take")
    /\ UNCHANGED <<queueOf, cmdOf, sigOf, aborted, fresh, owed>>

(* WaitForQueue reads q.signal under the lock and waits on what it read.   *)
WaitForQueue(c) ==
    /\ pc[c] = "take"
    /\ sigOf' = [sigOf EXCEPT ![c] = signal[queueOf[c]]]
    /\ owed' = [owed EXCEPT ![c] = Executing(queueOf[c])]
    /\ Goto(c, "blocked")
    /\ UNCHANGED <<queueVars, queueOf, cmdOf, aborted, fresh>>

Released(c) == sigOf[c] \in closed[queueOf[c]]

FinishReturn(c) ==
    /\ pc[c] = "blocked"
    /\ Released(c)
    /\ Reply(c)
    /\ UNCHANGED <<queueVars, aborted, fresh>>

(* MarkComplete reads the Queues map without the manager's lock.  When     *)
(* another goroutine is inserting a queue, the runtime may stop the whole  *)
(* process: "fatal error: concurrent map read and map write".              *)
MapRace(c, d) ==
    /\ pc[c] = "running"
    /\ pc[d] \in {"lookup", "finish"} /\ queueOf[d] \notin created
    /\ aborted' = TRUE
    /\ UNCHANGED <<queueVars, pc, queueOf, cmdOf, sigOf, fresh, owed>>

Step(c) ==
    \/ EnqueueLookup(c) \/ Enqueue(c) \/ MarkComplete(c)
    \/ FinishLookup(c) \/ WaitForQueue(c) \/ FinishReturn(c)

Next ==
    /\ ~aborted
    /\ \E c \in Conns :
         \/ Step(c)
         \/ \E q \in Queues : ReceiveFinish(c, q) \/ \E cmd \in Cmds : ReceiveNDRange(c, q, cmd)
         \/ \E d \in Conns : MapRace(c, d)

Spec == Init /\ [][Next]_vars

(* A handler's goroutine is scheduled as long as the process lives, and    *)
(* every launch ends: each wait in it is bounded by a timeout.             *)
FairSpec == Spec /\ \A c \in Conns : WF_vars(~aborted /\ Step(c))
----------------------------------------------------------------------------
TypeOK ==
    /\ created \subseteq Queues
    /\ listed \in [Queues -> SUBSET Cmds]
    /\ complete \subseteq Cmds
    /\ signal \in [Queues -> Nat]
    /\ closed \in [Queues -> SUBSET Nat]
    /\ pc \in [Conns -> PCs]
    /\ queueOf \in [Conns -> Queues \cup {None}]
    /\ cmdOf \in [Conns -> Cmds \cup {None}]
    /\ sigOf \in [Conns -> Nat \cup {None}]
    /\ aborted \in BOOLEAN
    /\ fresh \subseteq Cmds
    /\ owed \in [Conns -> SUBSET Cmds]

(* The signal of a queue is closed exactly while no listed command is      *)
(* pending, whatever order launches end in (cmdqueue.go:58, 103-110,       *)
(* 159-175).                                                               *)
SignalIffDrained ==
    \A q \in created : signal[q] \in closed[q] <=> listed[q] \subseteq complete

(* A launch that was sent and whose handler has returned.                  *)
Ended(cmd) == cmd \notin fresh /\ \A c \in Conns : cmdOf[c] # cmd

(* A finish whose channel is closed may return: of the launches that were  *)
(* running when it started none is running still, even when the channel it *)
(* took has been replaced since - but those that a launch with the same id *)
(* has completed by its own end (cmdqueue.go:133-140, 152-158).            *)
FinishIsBarrier ==
    \A c \in Conns : pc[c] = "blocked" /\ Released(c) =>
        \A cmd \in owed[c] \cap Executing(queueOf[c]) :
            \E other \in listed[queueOf[c]] : IdOf[other] = IdOf[cmd] /\ Ended(other)

(* A finish is answered unless the process was stopped: no order of ends   *)
(* and new launches loses the close it waits for.                          *)
FinishReturns ==
    \A c \in Conns : pc[c] = "blocked" ~> pc[c] = "idle" \/ aborted

(* The queue implements the barrier: what a connection waits for is never  *)
(* the channel it captured but the work that is left, and the launch that  *)
(* completes the last of it lets go everybody, at once and for good        *)
(* (cmdqueue.go:93-111, 132-176).                                          *)
Pending(q) == listed[q] \ complete
Waiters(q) == {c \in Conns : pc[c] = "blocked" /\ queueOf[c] = q /\ ~Released(c)}
Freed == {c \in Conns : pc[c] = "blocked" /\ Released(c)}

B == INSTANCE QueueBarrier WITH
        pending <- [q \in Queues |-> Pending(q)],
        waiters <- [q \in Queues |-> Waiters(q)],
        freed   <- Freed
Barrier == B!Spec
=============================================================================
