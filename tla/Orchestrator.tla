---------------------------- MODULE Orchestrator ----------------------------
(***************************************************************************)
(* The control plane: OrchestratorService of vgpu/server/grpc_server.go    *)
(* and the worker agent at the other end of its streams                    *)
(* (cmd/worker/agent/grpc_client.go, execute.go).                          *)
(*                                                                         *)
(* A request r that is dispatched to worker w goes through the session of  *)
(* w: its input data and its task are put on sendCh, the sender goroutine  *)
(* writes them to the stream, the agent caches the data and runs the task  *)
(* in a goroutine of its own, and the result and then the output come back *)
(* on the stream to the receive loop.  The core's goroutine for <<r, w>>   *)
(* registers a result channel and waits on it, under a timeout.            *)
(*                                                                         *)
(* All requests use the same buffers, one for input and one for output:    *)
(* data is known by the request it was written for or computed from.       *)
(* A worker registers with a new id each time it connects and never opens  *)
(* a second stream, so a session lives once.                               *)
(***************************************************************************)
EXTENDS Naturals, Sequences, SequencesExt

CONSTANTS Workers,   (* sessions, already registered                       *)
          Requests,  (* launches that are dispatched                       *)
          TaskId,    (* TaskId[r]: the subtask id of r                     *)
          SendCap,   (* capacity of sendCh (64 in the code)                *)
          Empty,     (* contents of a buffer the executor made up          *)
          None

ASSUME OrchestratorAssumption ==
    /\ SendCap \in Nat \ {0}
    /\ None \notin Requests /\ None # Empty /\ None \notin {"complete", "error"}
    /\ Empty \notin Requests

VARIABLES
    stream,       (* stream[w]: none, open, broken (not noticed), closed   *)
    connected,    (* ws.connected                                          *)
    tasks,        (* ws.Tasks: ids assigned and not answered               *)
    sendCh,       (* ws.sendCh                                             *)
    taskResults,  (* taskResults[w][id]: whose channel is registered       *)
    returned,     (* ws.returnedBuffers: data of the output buffer         *)
    down,         (* messages on the stream towards the worker             *)
    up,           (* messages on the stream towards the core               *)
    cache,        (* the agent's bufferCache: data of the input buffer     *)
    engine,       (* the executor's buffers: data of the input buffer      *)
    job,          (* job[w][r]: the agent's goroutine for the task         *)
    sub,          (* sub[w][r]: the core's goroutine for the subtask       *)
    resultCh,     (* resultCh[w][r]: what its result channel holds         *)
    collected,    (* collected[w][r]: output data the poll returned        *)
    expired       (* requests whose 30 s context is done                   *)

wireVars == <<sendCh, down, up>>
sessionVars == <<stream, connected, tasks, taskResults, returned>>
agentVars == <<cache, engine, job>>
coreVars == <<sub, resultCh, collected, expired>>
vars == <<wireVars, sessionVars, agentVars, coreVars>>

Ids == {TaskId[r] : r \in Requests}
Msgs == [kind : {"input", "task"}, req : Requests]
Outcomes == {"complete", "error"}
Data == Requests \cup {Empty}
Answers == [kind : {"result"}, id : Ids, status : Outcomes] \cup [kind : {"output"}, data : Data]

NoJob == [at |-> "none", input |-> None, ran |-> None, status |-> None]
Ended == {"complete", "error", "timeout", "failed"}

Init ==
    /\ stream = [w \in Workers |-> "none"]
    /\ connected = [w \in Workers |-> FALSE]
    /\ tasks = [w \in Workers |-> {}]
    /\ sendCh = [w \in Workers |-> <<>>]
    /\ taskResults = [w \in Workers |-> [id \in Ids |-> None]]
    /\ returned = [w \in Workers |-> {}]
    /\ down = [w \in Workers |-> <<>>]
    /\ up = [w \in Workers |-> <<>>]
    /\ cache = [w \in Workers |-> None]
    /\ engine = [w \in Workers |-> None]
    /\ job = [w \in Workers |-> [r \in Requests |-> NoJob]]
    /\ sub = [w \in Workers |-> [r \in Requests |-> "idle"]]
    /\ resultCh = [w \in Workers |-> [r \in Requests |-> None]]
    /\ collected = [w \in Workers |-> [r \in Requests |-> {}]]
    /\ expired = {}

SetSub(w, r, label) == sub' = [sub EXCEPT ![w][r] = label]

(* Both AssignTask and SendToWorker put a message on sendCh without        *)
(* blocking, and report an error when there is no stream or no room.       *)
Accepts(w) == connected[w] /\ Len(sendCh[w]) < SendCap

SlipTasksFirst(w, kind, r) ==
    sendCh' = [sendCh EXCEPT ![w] =
                 IF kind = "task" THEN <<[kind |-> kind, req |-> r]>> \o @
                                  ELSE Append(@, [kind |-> kind, req |-> r])]
Post(w, kind, r) == sendCh' = [sendCh EXCEPT ![w] = Append(@, [kind |-> kind, req |-> r])]
----------------------------------------------------------------------------
(* The stream of a session.                                                *)

(* ControlChannel: the first capability report names the worker.           *)
OpenStream(w) ==
    /\ stream[w] = "none"
    /\ stream' = [stream EXCEPT ![w] = "open"]
    /\ connected' = [connected EXCEPT ![w] = TRUE]
    /\ UNCHANGED <<wireVars, tasks, taskResults, returned, agentVars, coreVars>>

(* The sender goroutine writes the next message to the stream.             *)
SenderSend(w) ==
    /\ stream[w] = "open"
    /\ sendCh[w] # <<>>
    /\ sendCh' = [sendCh EXCEPT ![w] = Tail(@)]
    /\ down' = [down EXCEPT ![w] = Append(@, Head(sendCh[w]))]
    /\ UNCHANGED <<up, sessionVars, agentVars, coreVars>>

(* The connection or the worker is lost: nothing on the stream arrives any *)
(* more.  The core does not know yet and goes on accepting tasks.  This is *)
(* also how the agent ends when two of its goroutines touch bufferCache or *)
(* the executor's buffers at once, which the Go runtime stops.             *)
BreakStream(w) ==
    /\ stream[w] = "open"
    /\ stream' = [stream EXCEPT ![w] = "broken"]
    /\ down' = [down EXCEPT ![w] = <<>>]
    /\ up' = [up EXCEPT ![w] = <<>>]
    /\ UNCHANGED <<sendCh, connected, tasks, taskResults, returned, agentVars, coreVars>>

(* The receive loop ends and cleans the session up; pending tasks and what *)
(* is left on sendCh stay as they are.                                     *)
EndStream(w) ==
    /\ stream[w] = "broken"
    /\ stream' = [stream EXCEPT ![w] = "closed"]
    /\ connected' = [connected EXCEPT ![w] = FALSE]
    /\ UNCHANGED <<wireVars, tasks, taskResults, returned, agentVars, coreVars>>
----------------------------------------------------------------------------
(* The core's goroutine for the subtask <<r, w>>.                          *)

(* The input data is sent first; a failure is only logged.  A worker has a *)
(* share of a launch only once its first capability report has given it a  *)
(* score, so its stream has been open.                                     *)
SendInputs(w, r) ==
    /\ sub[w][r] = "idle"
    /\ stream[w] # "none"
    /\ \/ Accepts(w) /\ Post(w, "input", r) /\ SetSub(w, r, "sent")
       \/ ~Accepts(w) /\ UNCHANGED sendCh /\ SetSub(w, r, "unsent")
    /\ UNCHANGED <<down, up, sessionVars, agentVars, resultCh, collected, expired>>

(* AssignTask lists the task as pending before it knows whether sendCh has *)
(* room, and takes it back when it has not.                                *)
SlipStaysPending(w, r) == tasks[w] \cup {TaskId[r]}
TasksIfFull(w, r) == tasks[w] \ {TaskId[r]}

AssignTask(w, r) ==
    /\ sub[w][r] \in {"sent", "unsent"}
    /\ \/ /\ Accepts(w)
          /\ Post(w, "task", r)
          /\ tasks' = [tasks EXCEPT ![w] = @ \cup {TaskId[r]}]
          /\ SetSub(w, r, "assigned")
       \/ /\ connected[w] /\ ~Accepts(w)
          /\ tasks' = [tasks EXCEPT ![w] = TasksIfFull(w, r)]
          /\ SetSub(w, r, "failed")
          /\ UNCHANGED sendCh
       \/ /\ ~connected[w]
          /\ SetSub(w, r, "failed")
          /\ UNCHANGED <<sendCh, tasks>>
    /\ UNCHANGED <<down, up, stream, connected, taskResults, returned, agentVars,
                   resultCh, collected, expired>>

(* WaitForTaskResult, in a goroutine started after AssignTask returned.    *)
RegisterWait(w, r) ==
    /\ sub[w][r] = "assigned"
    /\ taskResults' = [taskResults EXCEPT ![w][TaskId[r]] = r]
    /\ SetSub(w, r, "waiting")
    /\ UNCHANGED <<wireVars, stream, connected, tasks, returned, agentVars,
                   resultCh, collected, expired>>

(* The deferred delete removes whatever is registered under the id.        *)
Unregister(w, r) == taskResults' = [taskResults EXCEPT ![w][TaskId[r]] = None]

TakeResult(w, r) ==
    /\ sub[w][r] = "waiting"
    /\ resultCh[w][r] # None
    /\ SetSub(w, r, resultCh[w][r])
    /\ Unregister(w, r)
    /\ UNCHANGED <<wireVars, stream, connected, tasks, returned, agentVars,
                   resultCh, collected, expired>>

SlipNoTimeout(w, r) == FALSE
WaitTimeout(w, r) ==
    /\ sub[w][r] = "waiting"
    /\ r \in expired
    /\ SetSub(w, r, "timeout")
    /\ Unregister(w, r)
    /\ UNCHANGED <<wireVars, stream, connected, tasks, returned, agentVars,
                   resultCh, collected, expired>>

(* context.WithTimeout: at some time while the dispatch goes on.           *)
Expire(r) ==
    /\ r \notin expired
    /\ \E w \in Workers : sub[w][r] \notin {"idle", "collected"}
    /\ expired' = expired \cup {r}
    /\ UNCHANGED <<wireVars, sessionVars, agentVars, sub, resultCh, collected>>

(* The poll for output: GetReturnedBuffers hands over what is there and    *)
(* clears it; after 3 s without data the poll gives up.                    *)
CollectReturned(w, r) ==
    /\ sub[w][r] \in Ended
    /\ returned[w] # {}
    /\ collected' = [collected EXCEPT ![w][r] = returned[w]]
    /\ returned' = [returned EXCEPT ![w] = {}]
    /\ SetSub(w, r, "collected")
    /\ UNCHANGED <<wireVars, stream, connected, tasks, taskResults, agentVars,
                   resultCh, expired>>

CollectNothing(w, r) ==
    /\ sub[w][r] \in Ended
    /\ SetSub(w, r, "collected")
    /\ UNCHANGED <<wireVars, sessionVars, agentVars, resultCh, collected, expired>>
----------------------------------------------------------------------------
(* The receive loop of the core.                                           *)

(* handleTaskResult: the task is no longer pending; the result goes to the *)
(* channel registered for its id, and is dropped when there is none or it  *)
(* is full.                                                                *)
SlipFirstWaiter(w, id) ==
    IF \E r \in Requests : sub[w][r] = "waiting"
    THEN CHOOSE r \in Requests : sub[w][r] = "waiting" ELSE None
Waiter(w, id) == taskResults[w][id]

TasksAfterResult(w, id) == tasks[w] \ {id}

HandleTaskResult(w, m) ==
    LET r == Waiter(w, m.id) IN
    /\ tasks' = [tasks EXCEPT ![w] = TasksAfterResult(w, m.id)]
    /\ resultCh' = IF r # None /\ resultCh[w][r] = None
                   THEN [resultCh EXCEPT ![w][r] = m.status]
                   ELSE resultCh
    /\ UNCHANGED returned

(* handleWorkerBufferTransfer: the last data of a buffer replaces earlier. *)
HandleWorkerBufferTransfer(w, m) ==
    /\ returned' = [returned EXCEPT ![w] = {m.data}]
    /\ UNCHANGED <<tasks, resultCh>>

ReceiveUp(w) ==
    /\ up[w] # <<>>
    /\ LET m == Head(up[w]) IN
         \/ m.kind = "result" /\ HandleTaskResult(w, m)
         \/ m.kind = "output" /\ HandleWorkerBufferTransfer(w, m)
    /\ up' = [up EXCEPT ![w] = Tail(@)]
    /\ UNCHANGED <<sendCh, down, stream, connected, taskResults, agentVars,
                   sub, collected, expired>>
----------------------------------------------------------------------------
(* The agent of worker w.                                                  *)

SetJob(w, r, j) == job' = [job EXCEPT ![w][r] = j]

(* Send on the stream fails, or is lost, once the stream is gone.          *)
SendUp(w, m) == up' = IF stream[w] = "open" THEN [up EXCEPT ![w] = Append(@, m)] ELSE up

(* Run: data is cached at once, a task gets a goroutine.                   *)
AgentReceive(w) ==
    /\ down[w] # <<>>
    /\ LET m == Head(down[w]) IN
         \/ /\ m.kind = "input"
            /\ cache' = [cache EXCEPT ![w] = m.req]
            /\ UNCHANGED job
         \/ /\ m.kind = "task"
            /\ SetJob(w, m.req, [NoJob EXCEPT !.at = "started"])
            /\ UNCHANGED cache
    /\ down' = [down EXCEPT ![w] = Tail(@)]
    /\ UNCHANGED <<sendCh, up, sessionVars, engine, coreVars>>

(* handleTaskAssignment takes the inputs from the cache as it is now.      *)
TakeInputs(w, r) ==
    /\ job[w][r].at = "started"
    /\ SetJob(w, r, [job[w][r] EXCEPT !.at = "ready", !.input = cache[w]])
    /\ UNCHANGED <<wireVars, sessionVars, cache, engine, coreVars>>

(* Execute creates the engine's buffer only if there is none yet, an empty *)
(* one when no data has arrived, and runs on the engine's buffer.  It may  *)
(* fail (unknown kernel, bad arguments).                                   *)
LoadBuffer(w, data) ==
    IF engine[w] # None THEN engine[w] ELSE IF data = None THEN Empty ELSE data

Execute(w, r) ==
    /\ job[w][r].at = "ready"
    /\ engine' = [engine EXCEPT ![w] = LoadBuffer(w, job[w][r].input)]
    /\ \E status \in Outcomes :
         /\ SetJob(w, r, IF status = "complete"
                         THEN [job[w][r] EXCEPT !.at = "output", !.ran = engine'[w], !.status = status]
                         ELSE [NoJob EXCEPT !.at = "done", !.status = status])
         /\ SendUp(w, [kind |-> "result", id |-> TaskId[r], status |-> status])
    /\ UNCHANGED <<sendCh, down, sessionVars, cache, coreVars>>

(* The output follows the result, as a message of its own.                 *)
SendOutput(w, r) ==
    /\ job[w][r].at = "output"
    /\ SetJob(w, r, [NoJob EXCEPT !.at = "done", !.status = job[w][r].status])
    /\ SendUp(w, [kind |-> "output", data |-> job[w][r].ran])
    /\ UNCHANGED <<sendCh, down, sessionVars, cache, engine, coreVars>>
----------------------------------------------------------------------------
Core(w, r) ==
    \/ SendInputs(w, r) \/ AssignTask(w, r) \/ RegisterWait(w, r)
    \/ TakeResult(w, r) \/ WaitTimeout(w, r)
    \/ CollectReturned(w, r) \/ CollectNothing(w, r)

Session(w) == OpenStream(w) \/ SenderSend(w) \/ EndStream(w) \/ ReceiveUp(w)

Agent(w) ==
    \/ AgentReceive(w)
    \/ \E r \in Requests : TakeInputs(w, r) \/ Execute(w, r) \/ SendOutput(w, r)

Next ==
    \/ \E w \in Workers :
         \/ Session(w)
         \/ BreakStream(w)
         \/ Agent(w)
         \/ \E r \in Requests : Core(w, r)
    \/ \E r \in Requests : Expire(r)

Spec == Init /\ [][Next]_vars
----------------------------------------------------------------------------
SubStates == {"idle", "sent", "unsent", "assigned", "waiting", "collected"} \cup Ended
JobStates == [at     : {"none", "started", "ready", "output", "done"},
              input  : Requests \cup {None},
              ran    : Data \cup {None},
              status : Outcomes \cup {None}]

TypeOK ==
    /\ stream \in [Workers -> {"none", "open", "broken", "closed"}]
    /\ connected \in [Workers -> BOOLEAN]
    /\ tasks \in [Workers -> SUBSET Ids]
    /\ sendCh \in [Workers -> Seq(Msgs)]
    /\ \A w \in Workers : Len(sendCh[w]) <= SendCap
    /\ taskResults \in [Workers -> [Ids -> Requests \cup {None}]]
    /\ returned \in [Workers -> SUBSET Data]
    /\ down \in [Workers -> Seq(Msgs)]
    /\ up \in [Workers -> Seq(Answers)]
    /\ cache \in [Workers -> Requests \cup {None}]
    /\ engine \in [Workers -> Data \cup {None}]
    /\ job \in [Workers -> [Requests -> JobStates]]
    /\ sub \in [Workers -> [Requests -> SubStates]]
    /\ resultCh \in [Workers -> [Requests -> Outcomes \cup {None}]]
    /\ collected \in [Workers -> [Requests -> SUBSET Data]]
    /\ expired \subseteq Requests

Queued(w) == down[w] \o sendCh[w]
TaskQueued(w, id) == \E m \in Range(Queued(w)) : m.kind = "task" /\ TaskId[m.req] = id
TaskRunning(w, id) ==
    \E r \in Requests : job[w][r].at \in {"started", "ready"} /\ TaskId[r] = id
ResultComing(w, id) == \E m \in Range(up[w]) : m.kind = "result" /\ m.id = id

(* While the stream is open the pending list of a session is exactly the   *)
(* tasks that are still to be answered: queued in either direction or run  *)
(* by the agent.  None is forgotten, none stays listed after its answer,   *)
(* and a task that found sendCh full is not listed (grpc_server.go:424-440 *)
(* and 295-297).                                                           *)
PendingTasksAccounted ==
    \A w \in Workers : stream[w] = "open" =>
        \A id \in Ids :
            id \in tasks[w] <=> TaskQueued(w, id) \/ TaskRunning(w, id) \/ ResultComing(w, id)

(* A subtask ends with the status its own task ended with on that worker,  *)
(* however many tasks are waited for at the same time                      *)
(* (grpc_server.go:299-309, 444-468).                                      *)
ResultIsOwn ==
    \A w \in Workers, r \in Requests :
        sub[w][r] \in Outcomes => job[w][r].status = sub[w][r]

(* A task reaches the agent once, and what it needs never after it:        *)
(* nothing between the core and the agent overtakes or comes twice.  Data  *)
(* for which there was no room do not come at all                          *)
(* (ipc_server.go:487-504, 542).                                           *)
InputsPrecedeTask ==
    \A w \in Workers, r \in Requests :
        LET q     == Queued(w)
            At(k) == {i \in 1..Len(q) : q[i] = [kind |-> k, req |-> r]}
        IN  /\ \A i \in At("input") \cup At("task"), j \in At("task") : i <= j
            /\ job[w][r].at # "none" => At("input") \cup At("task") = {}

(* What the comments promise.                                              *)

(* A result can be waited for after AssignTask returned                    *)
(* (grpc_server.go:406-407): while a subtask waits on an empty channel its *)
(* task is still to be answered.                                           *)
NoResultDropped ==
    \A w \in Workers, r \in Requests :
        sub[w][r] = "waiting" /\ resultCh[w][r] = None => TaskId[r] \in tasks[w]
=============================================================================
