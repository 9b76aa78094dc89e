------------------------------ MODULE Dispatch ------------------------------
(***************************************************************************)
(* A launch from the application's message to its reply:                   *)
(* handleNDRange, dispatchToWorkers, dispatchViaGRPC and executeLocally of *)
(* vgpu/server/ipc_server.go over the sessions of Orchestrator.            *)
(*                                                                         *)
(* One application on one connection writes the input buffer and launches  *)
(* a kernel, again and again: request r is its r-th launch, on input data  *)
(* r.  Worker w computes the slice w of the output buffer.  The handler    *)
(* starts a goroutine that dispatches and waits for it for 5 s; then it    *)
(* runs the kernel locally and replies, and the goroutine goes on.         *)
(*                                                                         *)
(* The goroutine reads the input buffer when it starts; the local run      *)
(* reads and writes video memory with nobody else active but the           *)
(* goroutines of earlier launches.                                         *)
(***************************************************************************)
EXTENDS Orchestrator, FiniteSets

ASSUME DispatchAssumption ==
    /\ Requests \subseteq Nat \ {0} /\ \A r \in Requests : 1..r \subseteq Requests
    /\ None # "ok"

VARIABLES
    vramIn,     (* the input buffer in video memory: whose data            *)
    vramOut,    (* vramOut[w]: the slice w of the output buffer            *)
    parts,      (* parts[r]: the workers r was split over                  *)
    handler,    (* handler[r]: the IPC goroutine in handleNDRange          *)
    reply,      (* reply[r]: what the application was told                 *)
    gor,        (* gor[r]: the goroutine in dispatchViaGRPC                *)
    succeeded,  (* succeeded[r]: workers whose subtask was complete        *)
    outputData  (* outputData[r]: the slices of the last output collected  *)

launchVars == <<parts, handler, reply>>
mergeVars == <<gor, succeeded, outputData>>
vram == <<vramIn, vramOut>>
dvars == <<vars, vram, launchVars, mergeVars>>

DInit ==
    /\ Init
    /\ vramIn = Empty
    /\ vramOut = [w \in Workers |-> Empty]
    /\ parts = [r \in Requests |-> {}]
    /\ handler = [r \in Requests |-> "idle"]
    /\ reply = [r \in Requests |-> None]
    /\ gor = [r \in Requests |-> "none"]
    /\ succeeded = [r \in Requests |-> {}]
    /\ outputData = [r \in Requests |-> None]
----------------------------------------------------------------------------
(* The application and its IPC goroutine.                                  *)

Reply(r, status) ==
    /\ reply' = [reply EXCEPT ![r] = status]
    /\ handler' = [handler EXCEPT ![r] = "replied"]

(* handleBufferWrite of the next input.                                    *)
BufferWrite(r) ==
    /\ handler[r] = "idle"
    /\ \A p \in 1..(r - 1) : handler[p] = "replied"
    /\ vramIn' = r
    /\ handler' = [handler EXCEPT ![r] = "written"]
    /\ UNCHANGED <<vars, vramOut, parts, reply, mergeVars>>

(* executeLocally: the kernel fails, or every slice is computed from what  *)
(* video memory holds.                                                     *)
ExecuteLocally(r) ==
    /\ \/ Reply(r, "error") /\ UNCHANGED vramOut
       \/ Reply(r, "ok") /\ vramOut' = [w \in Workers |-> vramIn]
    /\ UNCHANGED <<vars, vramIn, mergeVars>>

(* No remote worker is active, or the split fails.                         *)
LaunchLocally(r) ==
    /\ handler[r] = "written"
    /\ \/ ExecuteLocally(r)
       \/ Reply(r, "error") /\ UNCHANGED <<vars, vram, mergeVars>>
    /\ UNCHANGED parts

(* The launch is split over some of the workers that have a score: the     *)
(* scheduler forgets a worker when its stream ends, or if it falls silent. *)
LaunchRemotely(r, ws) ==
    /\ handler[r] = "written"
    /\ ws # {} /\ \A w \in ws : connected[w]
    /\ parts' = [parts EXCEPT ![r] = ws]
    /\ gor' = [gor EXCEPT ![r] = "sending"]
    /\ handler' = [handler EXCEPT ![r] = "dispatched"]
    /\ UNCHANGED <<vars, vram, reply, succeeded, outputData>>

(* Five seconds have passed.                                               *)
Fallback(r) ==
    /\ handler[r] = "dispatched"
    /\ ExecuteLocally(r)
    /\ UNCHANGED parts

(* The goroutine ended in time: its response is the reply.                 *)
SlipSilentFailure(r) == IF succeeded[r] = {} THEN None ELSE "ok"
Response(r) == IF succeeded[r] = {} THEN "error" ELSE "ok"

DispatchReturns(r) ==
    /\ handler[r] = "dispatched"
    /\ gor[r] = "done"
    /\ Reply(r, Response(r))
    /\ UNCHANGED <<vars, vram, parts, mergeVars>>
----------------------------------------------------------------------------
(* The goroutine in dispatchViaGRPC.                                       *)

All(r, labels) == \A w \in parts[r] : sub[w][r] \in labels
Step(r, label) == gor' = [gor EXCEPT ![r] = label]

(* Data to every worker, then a task to every worker.                      *)
Send(w, r) ==
    /\ gor[r] = "sending"
    /\ w \in parts[r]
    /\ \/ SendInputs(w, r)
       \/ (\A v \in parts[r] : sub[v][r] # "idle") /\ AssignTask(w, r)
    /\ UNCHANGED <<vram, launchVars, mergeVars>>

(* The waits, each in a goroutine of its own.                              *)
Wait(w, r) ==
    /\ RegisterWait(w, r) \/ TakeResult(w, r) \/ WaitTimeout(w, r)
    /\ UNCHANGED <<vram, launchVars, mergeVars>>

SlipAnyAnswer(r) == {w \in parts[r] : sub[w][r] \in Outcomes}
Succeeded(r) == {w \in parts[r] : sub[w][r] = "complete"}

(* One result per subtask has arrived on the goroutine's channel.          *)
CollectResults(r) ==
    /\ gor[r] = "sending"
    /\ All(r, Ended)
    /\ Step(r, "polling")
    /\ succeeded' = [succeeded EXCEPT ![r] = Succeeded(r)]
    /\ UNCHANGED <<vars, vram, launchVars, outputData>>

(* The slices of the output buffer that worker w sends back whole: its own *)
(* is computed from data, the others are not.                              *)
Slices(w, data) == [v \in Workers |-> IF v = w THEN data ELSE Empty]

(* Poll one worker after the other: outputs of one buffer replace each     *)
(* other.                                                                  *)
Poll(w, r) ==
    /\ gor[r] = "polling"
    /\ w \in parts[r]
    /\ \/ /\ CollectReturned(w, r)
          /\ outputData' = [outputData EXCEPT ![r] = Slices(w, CHOOSE x \in returned[w] : TRUE)]
       \/ CollectNothing(w, r) /\ UNCHANGED outputData
    /\ UNCHANGED <<vram, launchVars, gor, succeeded>>

(* The merged output is written over the whole buffer.                     *)
WriteBack(r) ==
    /\ gor[r] = "polling"
    /\ All(r, {"collected"})
    /\ vramOut' = IF outputData[r] = None THEN vramOut ELSE outputData[r]
    /\ Step(r, "done")
    /\ UNCHANGED <<vars, vramIn, launchVars, succeeded, outputData>>
----------------------------------------------------------------------------
Control ==
    /\ \/ \E w \in Workers : Session(w) \/ BreakStream(w) \/ Agent(w)
       \/ \E r \in Requests : Expire(r)
    /\ UNCHANGED <<vram, launchVars, mergeVars>>

App(r) ==
    \/ BufferWrite(r) \/ LaunchLocally(r) \/ Fallback(r) \/ DispatchReturns(r)
    \/ \E ws \in SUBSET Workers : LaunchRemotely(r, ws)

Goroutine(r) ==
    \/ CollectResults(r) \/ WriteBack(r)
    \/ \E w \in Workers : Send(w, r) \/ Wait(w, r) \/ Poll(w, r)

DNext ==
    \/ Control
    \/ \E r \in Requests : App(r) \/ Goroutine(r)

DSpec == DInit /\ [][DNext]_dvars

(* Timers fire and goroutines are scheduled; the waits of a goroutine end  *)
(* one by one.  No worker has to connect, run or answer anything.          *)
DFairSpec ==
    /\ DSpec
    /\ \A r \in Requests :
         /\ WF_dvars(Expire(r) /\ UNCHANGED <<vram, launchVars, mergeVars>>)
         /\ WF_dvars(Fallback(r) \/ DispatchReturns(r))
         /\ WF_dvars(LaunchLocally(r) \/ \E ws \in SUBSET Workers : LaunchRemotely(r, ws))
         /\ WF_dvars(CollectResults(r)) /\ WF_dvars(WriteBack(r))
         /\ \A w \in Workers :
              WF_dvars(Send(w, r)) /\ WF_dvars(Wait(w, r)) /\ WF_dvars(Poll(w, r))
----------------------------------------------------------------------------
DTypeOK ==
    /\ TypeOK
    /\ vramIn \in Requests \cup {Empty}
    /\ vramOut \in [Workers -> Data]
    /\ parts \in [Requests -> SUBSET Workers]
    /\ handler \in [Requests -> {"idle", "written", "dispatched", "replied"}]
    /\ reply \in [Requests -> {"ok", "error", None}]
    /\ gor \in [Requests -> {"none", "sending", "polling", "done"}]
    /\ succeeded \in [Requests -> SUBSET Workers]
    /\ outputData \in [Requests -> [Workers -> Data] \cup {None}]

(* A launch is reported as done only when the core has computed all of its *)
(* output from its own input, or some worker ran a share of this very      *)
(* launch to completion - one is enough for the code, whatever became of   *)
(* the others - though launches given up earlier still send results and    *)
(* outputs on the same sessions (ipc_server.go:417-434, 554-616).          *)
SuccessIsReal ==
    [][\A r \in Requests : reply[r] = None /\ reply'[r] = "ok" =>
         \/ vramOut' = [w \in Workers |-> r]
         \/ \E w \in parts[r] : job[w][r].status = "complete"]_dvars

(* The application is answered whatever workers and streams do: launches,  *)
(* waits and polls are all bounded by timeouts (ipc_server.go:417-434).    *)
LaunchAnswered == \A r \in Requests : handler[r] = "written" ~> reply[r] # None

(* No dispatch goroutine stays behind for ever, whether its reply was      *)
(* awaited or not (ipc_server.go:509-510, 554-587).                        *)
GoroutineEnds == \A r \in Requests : gor[r] = "sending" ~> gor[r] = "done"

(* What the comments promise.                                              *)

(* The outputs of the workers are merged (ipc_server.go:572, 597): a slice *)
(* a worker returned for the launch is in what is written back.            *)
MergeKeepsSlices ==
    \A r \in Requests : gor[r] = "done" =>
        \A w \in parts[r] : collected[w][r] # {} => outputData[r][w] \in collected[w][r]
=============================================================================
