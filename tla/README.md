# DistriBox: a verification project

DistriBox presents a cluster of machines to applications as one OpenCL device.
An application's kernel launches are split over the workers of the cluster, run
there, and merged back. This directory holds TLA+ models of that program, the
TLC configurations that check them, and proofs that TLAPS checks. Everything is
translated from the Go and C sources; each section below names the files.

## 1. The system

    application -- OpenCL --> ICD library (C) -- JSON lines over TCP --> core
    core (Go): IPC server, queues, video memory, scheduler, orchestrator, monitor
    core <-- gRPC, one bidirectional stream per worker --> worker agent (Go)
    worker agent --> task executor --> compute engine

| component | code | state it keeps | operations |
|---|---|---|---|
| ICD library | `icd/` | one socket, reference-counted objects, a staging copy of every buffer, one id counter per process | OpenCL calls; most send one line and read one reply |
| proxies, layer, hook | `cuda_proxy/`, `vk_layer/`, `gl_proxy/`, `icd/proxy/`, `hook/` | a socket, pointers into the original library | forward calls, send launches to the core |
| IPC server | `vgpu/server/ipc_server.go` | nothing but its components | one goroutine per connection handles one message at a time: buffers, launches, finish, VK and CUDA launches |
| command queues | `vgpu/queue/cmdqueue.go` | per queue: commands and their status, a signal channel | Enqueue, MarkComplete, WaitForQueue |
| video memory | `vgpu/mem/vram.go` | buffers by id, allocated total, device specification | Allocate, Release, Read, Write, UpdateSpec |
| KV cache | `vgpu/mem/kvcache.go` | keys and values per layer, sequence length | Store, GetKeys, GetValues, Clear; called by the examples only |
| scheduler | `vgpu/scheduler/split.go` | workers with their scores | RegisterWorker, UnregisterWorker, SplitNDRange |
| orchestrator | `vgpu/server/grpc_server.go` | per worker: stream, send channel, pending tasks, result channels, returned buffers | Register, ControlChannel, AssignTask, SendToWorker, WaitForTaskResult |
| monitor | `vgpu/monitor/workers.go` | per worker: status, last heartbeat | Register, Heartbeat, checkHeartbeats, Remove, callbacks |
| calibration | `vgpu/calibrate/calibrate.go` | the matched profile | Recalibrate every 5 s, then UpdateSpec |
| dashboard, API | `vgpu/server/dashboard.go`, `api.go` | SSE clients | broadcast, HTTP reads, device configuration |
| worker agent | `cmd/worker/agent/` | stream, buffer cache, executor's buffers | receive loop, one goroutine per task, heartbeats (`register.go`, `heartbeat.go` are a skeleton nothing calls) |
| engines | `cmd/worker/engine/`, `engine/` | buffers, programs | kernels on the CPU in Go or C, OpenCL |
| discovery | `pkg/discovery/mdns.go`, `cmd/worker/main.go` | found cores | advertise, browse, fall back to UDP |
| capability, resources | `cmd/worker/capability/`, `cmd/worker/monitor/` | none | reads of the operating system |
| desktop program, CLI | `cmd/distribox`, `cmd/cli` | process wiring, user interface | start and stop the components above, show and set the device |
| Android | `android/` | user interface | starts a worker agent |
| installer | `pkg/installer`, `vgpu/server/dashboard.go` | DLLs of the system and their backups | install and uninstall proxies |
| TLS, protocol | `pkg/` | certificates, generated code | nothing of their own in the running protocol |

How they interact: a launch message makes the IPC server list a command on its
queue, ask the scheduler for a split, send every worker's buffers and then its
task through the orchestrator, wait for one result per worker, poll for the
outputs, write them to video memory, mark the command complete and reply. The
orchestrator tells the monitor of every message of a worker; the monitor calls
back to take a silent worker off the scheduler. All of them are shared by the
goroutines of the connections, the streams, the monitor's ticker and the timers.

What is hard, and where the properties aim:

- a finish must outlast the launches before it while other connections launch
  and complete on the same queue;
- results, timeouts, lost streams and late outputs race on one session;
- a launch that was given up after 5 s keeps running beside its replacement;
- one worker is described in three places that are updated by three goroutines;
- proportional shares, work groups and rounding must cover a range exactly;
- ids come from counters that start at 1 in every client process;
- a kernel is written three times, and may be run whole or in portions;
- the core's memory is allotted, resized by calibration and by commands, and
  copied for launches, by goroutines that know nothing of each other;
- programs start in any order, find each other by datagrams, and collide on
  ports.

`PROJECT.json` lists the hazards line by line under "hazards", each with the
properties that watch it, or the reason why none does.

## 2. The modules

Parameters are CONSTANTS with a named assumption where a proof or a run needs
one. A module `MCx` only gives constants their values; `x.cfg` files select the
specification and the properties. Definitions called `Slip...` are plausible
mistakes at the definition that follows them. They are never used by a
specification: putting one in place of that definition must break a property,
which shows that the property says something about the code.

| module | models | state and actions |
|---|---|---|
| `QueueBarrier` | what a queue promises (abstract) | per queue the pending commands and who waits for them, and who was let go; submit, complete, await, go on. The completion that leaves nothing pending lets all waiters go |
| `CmdQueue` | `cmdqueue.go` under the handlers of `ipc_server.go` | one process per connection, split where locks are released: `GetOrCreate`, `EnqueueLookup`, `Enqueue`, `MarkComplete`, `FinishLookup`, `WaitForQueue`, `FinishReturn`; `MapRace` is the unlocked read of the queue map in `MarkComplete`; `IdOf` gives the ids of launches, which several may share |
| `Orchestrator` | `grpc_server.go` and the agent (`grpc_client.go`, `execute.go`) | per worker a stream, a bounded send channel and two FIFO directions; per subtask the core's goroutine (`SendInputs`, `AssignTask`, `RegisterWait`, `TakeResult`, `WaitTimeout`, `Collect...`) and the agent's (`TakeInputs`, `Execute`, `SendOutput`); `BreakStream` loses everything in flight |
| `Dispatch` | `handleNDRange`, `dispatchToWorkers`, `dispatchViaGRPC`, `executeLocally` | extends `Orchestrator`: the handler of each launch, the goroutine it starts, video memory as one slice per worker, replies |
| `IcdClient` | `icd/ipc/ipc_client.c`, `icd/api/memory.c`, `kernel.c`, `commandqueue.c` and the handlers their messages reach | per thread the call in progress, one socket as two FIFOs, per buffer a staging copy, a dirty flag and the core's copy; an action per OpenCL call, per send, per receive and per handled message; the core may stop and start |
| `WorkerLife` | registration, heartbeats and timeouts over `grpc_server.go`, `monitor/workers.go`, `scheduler/split.go`, `main.go` | session, scheduler and monitor as three variables, the handlers and `checkHeartbeats` statement by statement where locks are released; time in units of the heartbeat timeout |
| `Split` | `SplitNDRange`, `SplitNDRangeForWorkers` | the two loops as steps, the shares as intervals |
| `Kernels` | the fourteen kernels of `fallback.go`, the OpenCL sources and `executeOnGPU` of `execute.go`, the argument rules of `executeLocally` and `dispatchViaGRPC` | an element is the set of elements it was computed from; a kernel is its loops, with sizes found as the code finds them; an action per route: on the core, on a GPU worker, on a worker whole, and two portions |
| `Calibration` | `calibrate.go` | operators: what a worker is taken for, the sum, the card it is most like |
| `CoreMemory` | `vram.go`, the buffer map of `GoEngine`, `executeLocally`, `executeLocallyVKWithBuffers`, the calibration loop | buffers, allocated total, device size, the engine's copies; per connection the launch in progress, split where locks are released; arithmetic modulo `Width` |
| `KvCache` | `kvcache.go` | `Store` and `Clear` as one step each, a read as the two it takes |
| `Installer` | `installer.go`, install handlers of `dashboard.go` | the DLLs and their backups; an installer is a list of steps, each of which may fail, and may be cut off after any |
| `Startup` | `main.go` of core, worker and desktop program, `mdns.go` | per process its program, how far its core, IPC server and worker are, ports, browser, probes; datagrams get lost and come late |
| `Watchers` | `dashboard.go` (hub, streams, collector), `console.go` | the hub's channel and each stream's, who reads, what each has seen |
| `DeviceCli` | `api.go`, device commands of `distribox` and `cli`, the calibration loop | the specification, active workers, one command as the requests it sends |
| `Parts`, `Services` | nothing of their own | one behaviour is of one component: `Parts` chooses among `Kernels`, `CoreMemory`, `Split`, `KvCache`, `Installer`; `Services` among `Startup`, `Watchers`, `DeviceCli`. They share no state, so that nothing is lost by not interleaving them |

What interacts is composed: `Dispatch` extends `Orchestrator`, `CoreMemory` and
`DeviceCli` extend `Calibration`, and `WorkerLife` has session, scheduler and
monitor in one module.

Simplifications that hold throughout: data is known by where it came from (the
launch that wrote it, or the elements it was computed from), never by its
bytes; logging and wording are left out. A goroutine may stop between any two critical
sections, never inside one. The Go runtime stops the process when it catches
two goroutines in one map; that outcome is an action (`MapRace`, part of
`BreakStream`), never assumed away.

## 3. The runs

| run | shows |
|---|---|
| `cmdqueue` | under every interleaving of three connections, two queues and three launches, two with the same id, the signal is closed exactly while nothing is pending, a finish returns only after the launches that ran when it began, but for those a namesake completed, `CmdQueue` implements `QueueBarrier`, and every finish returns if launches end or the process is stopped |
| `dispatch` | two launches on one session: the pending list is exact while the stream is open, a subtask ends with its own task's status, a task arrives once and data that were sent never after it, and "ok" is said of a launch only when the core computed it from its own input or one of its workers completed its task (one of several is enough for the code) |
| `dispatch_live` | one launch over two workers that may break at any moment: it is answered, its goroutine ends |
| `worker_life` | two workers: a worker that is gone is nowhere, offline is final, a worker that stays silent leaves the scheduler, unless it was given up before the report that schedules it |
| `icd` | replies and calls stay in step while no reply is skipped; statuses and reads are then true; a launch computes on what the application put into its buffers but for the writes the library never sends, whatever happens to replies and to the core |
| `parts` | kernels: for launches whose sizes, numbers and buffers fit together (`Described`) what the core computes is what the comments say, in place too where the kernel allows it; portions are right for the kernels that heed their offset; GPU workers, Go workers and the core agree where they are meant to. Memory: a launch runs on its own copies however many failed before it, accounting stays exact until an id is used twice and never falls below what is in use, no allocation goes beyond what the device had, inline data leave with their launch. Split: shares contiguous, in whole groups, disjoint, sizes add up. Cache: no read returns a number of before a `Clear`, or too few. Installers: the vendor's DLL is never lost |
| `services` | startup: the local worker works for its own program's core and gets no NDRange, the desktop program serves or ends, the broadcast finds a core where mDNS does not, a core told to stop ends once its workers are gone. Watchers: whoever reads, sees in the end what is. Device: whatever commands sent, calibration sets it right while there is a worker |
| `result_before_waiter` | (violated) a fast result is dropped before its waiter registers |
| `merge_overwrites` | (violated) of two workers' outputs one is lost in the merge |
| `degraded_worker` | (violated) a worker that recovers from degraded is online but never scheduled again |
| `split_overlap` | (violated) the rest given to the first share makes it run into the second one |
| `icd_writes` | (violated) a host write after the first launch on a buffer reaches no later launch |

Each violated run checks one sentence of the repository (quoted in
`PROJECT.json`, "findings") against what the code does.

Deadlock is not checked: connections may stay idle, workers may never connect,
and a launch or a split that is over has nothing left to do.

### Bounds, and why they are enough

- `CmdQueue`: a lost or early wake-up takes one finish and two launches on one
  queue; three connections and three launches leave room for one more of each,
  and a second queue for mixing them up. Two launches share an id, as those of
  two applications do that have sent equally many requests.
- `Orchestrator`, `Dispatch`: sessions of different workers share nothing, so
  one worker with two launches shows every interference of two tasks on a
  session, and one launch on two workers merging and partial failure. `SendCap`
  is 3 instead of 64, which is reached.
- `WorkerLife`: two workers make the monitor's two passes interleave with two
  sessions; age saturates at two units, beyond which the code makes no further
  distinction.
- `IcdClient`: six messages are a hello, two creations, two flushes and a
  launch, or one buffer, two launches and a read; two skipped replies put the
  socket two lines out of step, from where more skips only repeat what one did.
  One thread, because the library keeps no two calls apart.
- `Split`: three workers with scores 0 to 3, two dimensions of sizes 0, 1, 4, 7
  and group sizes 0 to 3 give shares of nothing, exact shares, clamped shares
  and a rest. The proofs cover all other values.
- `Kernels`: up to 3 by 2 elements (3 by 3 by 2 for products) tell rows from
  columns and an odd number of rows from an even one; sizes are given in each
  of the ways a kernel's comment or its code knows: flat, as a grid, by rows,
  not at all. The proofs cover all other sizes.
- `CoreMemory`: two connections and two ids make the numbers of copies collide;
  with two copies a launch that failed leaks one and a launch with inline data
  has its own beside it; `Width` 8 with sizes 1 and 7 wraps around; the device
  has 2 units at first, 3 with a worker, or none when the user says so.
- `KvCache`: two layers, two positions, one reader, three stores: a store to
  either layer or a clear between the two halves of a read.
- `Installer`: two installers of any kind, three runs: install, install again,
  restore, each cut off anywhere.
- `Startup`: three processes on two computers, four layouts in which each kind of
  program meets each other kind it interacts with, on its own computer and on
  another. One query per browser, because a query is never understood
  (`Understands`), so that more of them only repeat it.
- `Watchers`: two streams, channels of one message instead of 64 and 256, one
  change of the scheduler: what is dropped is the last message there is.
- `DeviceCli`: two workers that come or go twice, two commands one at a time.

### Fairness

Only what the runtime gives: a goroutine that can run does (weak fairness of
its next step), a timer that was set fires (`Expire`, `Fallback`, the monitor's
ticker), a broken stream is noticed in the end. Launches, connections,
failures, heartbeats and results of workers are never required. In `cmdqueue` a
launch that runs ends, which `dispatch_live` establishes for the dispatch path.
`WorkerLife` needs strong fairness of `Silence`: its guard excludes the short
time while the monitor works, so it is enabled again and again and not always.
`IcdClient` assumes no fairness: every receive has a time limit, so that its
calls cannot hang, and its properties are safety; so with the components of
`Parts`. In `Services` a program that has been started goes on, answers that
were received are handled, tickers tick (the collector's 3 s, the console's
2 s, calibration's 5 s) and the selects of hub and handlers take what is there.
Nobody is obliged to start or stop a program, to read an event stream, to give
a command, or to come or go as a worker. That a datagram arrives is never
assumed: `FallbackConnects` has the loss as one of its outcomes.

### Which properties say what the code does not do

A property that holds under a stated condition is as important for the
condition. These are real limits of the code, found while modelling:

- after 5 s a launch is run locally and answered, and its abandoned goroutine
  later writes video memory over what came after (`ipc_server.go:432`); buffers
  returned by workers are kept per worker, so that it may collect what another
  launch left. Nothing in the code excludes that, and no run claims it.
- launches of several applications may carry the same id (`icd.c:222`,
  `ipc_server.go:354`): the end of one completes the other, and a finish
  that waits for the other may return, although `cmdqueue.go:132` has it wait for
  all commands (`FinishIsBarrier` excepts it); and the result channel of one replaces that
  of the other, so that `ResultIsOwn`, `PendingTasksAccounted` and the theorems
  about them are for ids that differ, that is for one application.
- one worker of several is enough for a launch to be reported as done
  (`ipc_server.go:602`), and an input for which a channel has no room is dropped
  with a log line (`grpc_server.go:514`): `SuccessIsReal` and `InputsPrecedeTask` ask
  for no more.
- overlapping launches on the core, and launches that name a buffer twice, may
  run on each other's copies, since a copy is numbered by how many there are
  (`RunIsOwn`, `fallback.go:78`); launches that fail leak theirs.
- most kernels ignore the offset of their portion, so that a launch over several
  workers is right for `vector_add` and for `matmul` cut by rows only
  (`PortionIsRight`); the flattened forms of `matmul` and `transpose` are wrong
  (`Understood`); float scalars go to workers as the bytes of an int
  (`ipc_server.go:467`, `Plain`); a kernel whose weights follow its output brings
  back the weights (`ipc_server.go:538`). The ICD sends scalars without a value
  (`kernel.c:247`); the GPU path passes the first dimension only
  (`opencl_engine.go:146`).
- a size may wrap around the allocation test (`Accounted` survives it, the
  process does not: `make` panics); an id used by two applications is allocated
  over; buffers are not freed when their connection ends.
- `--mode vgpu` never gets past `ready <-` (`distribox/main.go:499`, called from
  line 345 with a channel nobody receives from): its core serves, without
  console, broadcast responder or handling of signals.
- the mDNS query is written as labels and looked for with dots, so that it never
  matches and discovery rests on the broadcast, which `vgpu/main.go` does not
  answer; the retry loop of a worker finds a core and does not change whom the
  worker dials; a worker never reconnects.
- launches of the CUDA and Vulkan paths go to all workers, the core's own
  included (`ipc_server.go:767`, `862`), and a worker program on the core's computer
  is not known as local when the broadcast gave it the network address
  (`LocalIsOwn` is about the desktop program's own worker and NDRange).
- `device create` sends keys the core does not read, so that the memory is 0
  until calibration, which runs only with workers (`DeviceRecovers`); the
  console and `status` read keys the API does not send; `device remove` is
  refused and prints that it was removed; `worker set` posts to a path nobody
  serves and prints that it was updated.
- without a vendor's DLL an uninstallation leaves the proxy, and the next
  installation backs up the proxy; installers that overlap do so, too
  (`VendorKept` names both conditions).
- a `KVCache` counts a position with the first layer's `Store`, so that other
  layers read zeros there; a vector that is too long spills into the next.

## 4. The proofs

Constants are arbitrary within the named assumptions of the modules, which TLC
evaluates on the runs. An invariant proof has the form `Init => IInv`,
`IInv /\ [Next]_vars => IInv'`, `IInv => Inv`; what is inductive and the property
alone is not is the point of each row.

| module | theorem | argument |
|---|---|---|
| `CmdQueueProofs` | `TypeCorrect`, `SignalTracksCommands`, `FinishBarrier` | the invariant ties each blocked finish to the channel it captured: a closed one was closed when nothing was pending, so that what the finish owes is complete or over. Nothing is assumed of the ids, which the clients make up and which all count from 1: what is complete while it runs was completed by the end of a launch with its id |
| `CmdQueueProofs` | `ImplementsBarrier` | step simulation: each action maps to an action of `QueueBarrier` or to a stutter; a channel that is open while somebody waits on it is the current one, so that the completion that closes it lets go all waiters of the queue, and a new channel none |
| `OrchestratorProofs` | `TypeCorrect`, `InputsFirst` | `Base` follows a task: before it is posted nothing about it is queued or run, it is queued once, and each of its inputs that is queued at all is queued before it |
| `OrchestratorProofs` | `TasksAccounted`, `OwnResults` | `Links` goes on from there: a result on the way is the only one for its task and has the status the job ended with, the waiter's channel is the task's own, and an id is pending exactly while its task is queued, run or answered. Under `DistinctIds`: ids are made of the client's request ids, so that it holds for one client process |
| `OrchestratorProofs` | `DispatchImplements`, `DispatchInputsFirst`, `DispatchTasksAccounted`, `DispatchOwnResults` | `Dispatch` refines `Orchestrator`: every step of a handler, of its goroutine or of the merge is a step of the control plane or leaves it alone, so that the promises of sessions hold of launches, the last two under `DistinctIds` |
| `OrchestratorProofs` | `DispatchTypeCorrect`, `RealSuccess` | a job's status is final (`StatusFinal`), so that the result a launch has taken for its own stays true of the job (`Counted`, which needs `DistinctIds`); and while a handler is at work the input buffer is its own launch's, since one application waits for its replies (`OwnInput`) |
| `IcdClientProofs` | `IcdTypeCorrect`, `LagIsBounded` | for any number of threads: a line on the socket is waited for or its reply was skipped, so that lines never outnumber the waiters by more than `skipped` |
| `IcdClientProofs` | `LaunchesSeeTruth` | `Sync`: until a create is answered nothing else about its buffer is on the way, then the buffer is dirty until the first launch sends it, and that message stays behind the create and before every launch. It holds however many replies were skipped and when the core restarts |
| `IcdClientProofs` | `AnswersAreOwn`, `StatusesAreTrue`, `ReadsSeeContents` | while nothing was skipped the socket has at most one line, of the call in progress (`Own`) |
| `WorkerLifeProofs` | `TypeCorrect`, `GoneStaysForgotten`, `OfflineFinal` | the invariant adds what is true between the statements of a stream's end: once unscheduled it stays so because only an online worker is found lost, and a worker not monitored is not touched by the check |
| `CoreMemoryProofs` | `GivenOutWithinPeak` | a sum that passes the check without stopping the process has not wrapped, so that it is at most the total, and the total never exceeds `peak`; releases and resizes cannot raise the sum |
| `CoreMemoryProofs` | `InlineDataLeave` | every buffer is a client's or is listed in `own` of the launch that brought it, and no connection is idle while its `own` is not empty, because every return runs the deferred clean-up. Data stored at an offset are never released: `created` counts them as the client's |
| `CoreMemoryProofs` | `RunsAreOwn` | the copies in the engine are `1..n` and those of the launch under way, which begin after `n`; what a failed launch leaves only raises `n` |
| `CoreMemoryProofs` | `AllocatedAccounted`, `MemoryTypesCorrect` | the sum of the sizes changes by the size of the buffer that comes or goes (`SumSplit`), modulo `Width`; a size that wraps is subtracted again by the clean-up or stops the process |
| `KernelsProofs` | `KernelsTypesCorrect` | every kernel is a finite number of steps, for any dimensions, scalars and sizes, missing ones included (`KernelEnds`) |
| `KernelsProofs` | `WorkerAsCore` | plain arguments reach both routes unchanged (`PlainArgs`), no step of a kernel writes another buffer than its output (`OthersStay`), and a kernel that ran had found its output, which is the last buffer |
| `KernelsProofs` | `LocalAsDocumented` | a kernel `Carries` an assignment W of sources to elements: its steps write all elements of W and no other, each from the sources W names, and whatever of the output a step reads no earlier step has overwritten. By induction over the steps (`Computed`) it leaves in each element of W what the sources held before the launch, and all others alone. Lemmas for each family of kernels give its W and show that W is what the comment promises; in between is the arithmetic of rows and columns (`Placed`, `RowOf`, `InRow`) and, for `rope` in place, that pairs are disjoint, so that each step reads its own two elements only (`OwnCarry`) |
| `KernelsProofs` | `PortionsAreRight` | the same with W on the rows of the portion: an offset shifts the elements a share writes and those it reads by the same number of rows (`AddShare`, `ProductShare`) |
| `KernelsProofs` | `GpuAsGo` | the work items are a finite set, each run once (`ItemsInOrder`); they write the elements of the W that the Go kernel carries, and read none of the output, which is not the input |
| `PartsProofs` | `SplitTypeCorrect`, `SharesContiguous`, `SharesDisjoint`, `SharesAligned`, `SharesAddUp` | integer arithmetic of rounding down to groups, as lemmas (`AlignDownBounded`, `RoundedNat`, `GrantedFits`); the invariant orders the ends of all earlier shares before the current offset; for `SharesAligned` all quantities of the loop are multiples of the group, since `alignDown` comes last; for `SharesAddUp` the sum so far is the current offset, and the rest is added once |
| `PartsProofs` | `VendorsAreKept` | what an installer may rely on follows from what it has still to do (`At`): with one installer at a time the original is in its place until the step after its copy, and behind it afterwards |
| `PartsProofs` | `ReadsAreCurrent` | a number in the cache is 0 or younger than the last `Clear`, and each position holds one vector, the last stored there, unless a vector spilled; positions counted when a read began stay below its length |
| `PartsProofs` | `PartsKeepApart`, `PartsStaySafe`, `PartsTypesCorrect` | every behaviour of `PartsSpec` is one of each part, so that their theorems hold of the composition the run checks |
| `StartupProofs` | `LocalWorkersAreOwn`, `StartupTypesCorrect` | a gRPC port is open in one process of a host at a time, a core past that step has it open, and the desktop program's worker dials only then: who answers on localhost is its own core |

`SingleThread`, which four theorems of `IcdClient` assume, is the application's
part: the library serializes sends and receives but not pairs of them.

Induction. The provers have no induction over data. What the proofs need of it
rests on one lemma, `Reaches`: a subset of `0..n` that has 0 and, with each number
below `n`, its successor, has `n`, since otherwise adding one would map it
injectively into itself without 0. From that follow induction over the subsets of
a finite set (`BySize`), the existence and uniqueness of the recursive function
behind a fold (`SumExists`, `SumsAgree`, `FoldExists`), the sum over a set
(`SumSplit`), the sum over a sequence (`SumOf...`), greatest elements (`MaxIn`) and
the memories between the steps of a kernel (`Traced`).

Only model-checked:

- liveness and everything under fairness (`FinishReturns`, `LaunchAnswered`,
  `GoroutineEnds`, `SilentLeaves`, `FullStackServes`, `FallbackConnects`, `StopEnds`,
  `EveryoneCatchesUp`, `DeviceRecovers`): out of the prover's reach.

`SizesAssumption` says that sizes are naturals, also those calibration computes;
`LaunchesAssumption`, that a launch is made of the arguments the messages can carry,
with dimensions that are `uint64`.

`LocalIsDocumented`, `PortionIsRight` and `GpuAgrees` are about launches that are
`Described`: buffers as long as the input and weights their kernel's comment
speaks of, numbers that say the same as the buffers, no offset (the scheduler
adds one when it cuts), and an output apart from inputs that are read after it is
first written. The code checks little of that: a launch that is not `Described`
is run with what there is, fails or stops the process, which the model follows
(`Checked`, `Panic`) and `KernelsTypesCorrect` and `WorkerAsCore` cover.

Every safety invariant a passing run checks is proved. Every type invariant a
module states is, those of `Installer` and `KvCache`
as parts of the invariants of their theorems; `Watchers` and `DeviceCli` state none.

## 5. Not modelled, and the plan

Left out for good:

- operating system reads: capability detection (about 1,200 lines for three
  systems) and the resource monitor (about 680). What they report is an input;
- generated protocol code (about 3,650 lines), token code nothing calls, the
  examples (about 950), the HTML and the screens;
- wrappers of the driver's functions for OpenCL, and the C engine, which the
  Go programs reach only through a constructor nothing calls;
- the proxies and the hook: calls forwarded to the original library, and
  messages over a socket of the same kind as the ICD's;
- the Android application, whose Go bridge calls discovery with a nil context;
- `SendCompileRequest`, `UpdateStatus`, `PendingCount`, `DiscoverLoop`,
  `MarkWorkerHasBuffer`, `WorkerHasBuffer`, `GetDirtyBuffers`, `NotifyTaskDispatched`,
  which have no caller, and the registry entries of installer and dashboard.

Without the first two the definitions cover about half of the Go code; with
them, about a third.

Planned, in this order:

1. `ProxyLaunch`: the CUDA proxy and the Vulkan layer, whose launches carry
   their buffers, with a lock per direction, reconnects and a local run after a
   time limit.
2. `IcdObjects`: reference counts of contexts, queues, programs, kernels,
   buffers and events.

In `IcdClient` the application is taken to ignore the signal of a send on a
closed socket; elsewhere that signal ends it.
