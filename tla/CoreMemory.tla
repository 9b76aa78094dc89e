----------------------------- MODULE CoreMemory -----------------------------
(***************************************************************************)
(* The memory of the core, and the launches it runs itself:                *)
(*   VRAMManager   vgpu/mem/vram.go: the buffers clients see               *)
(*   GoEngine      cmd/worker/engine/fallback.go: the copies a kernel runs *)
(*                 on, one set per launch, in one map for all connections  *)
(*   IPCServer     executeLocally and executeLocallyVKWithBuffers          *)
(*   calibrate     vgpu/calibrate: the size of the memory follows the      *)
(*                 workers, every 5 s (Calibration)                        *)
(*                                                                         *)
(* Contents are left out (IcdClient has them); what is kept is which copy  *)
(* an argument of a kernel is found to be.  Each connection is a           *)
(* goroutine; a step is what runs under one lock.                          *)
(***************************************************************************)
EXTENDS FiniteSets, FiniteSetsExt, Calibration

CONSTANTS
    Conns,         (* connections of applications, one goroutine each      *)
    Ids,           (* buffer ids; they are chosen by the clients           *)
    Amounts,       (* sizes clients ask for                                *)
    Totals,        (* device sizes the user sets                           *)
    ArgLists,      (* buffer arguments of NDRange: sequences of ids        *)
    InlineLists,   (* buffers that come inline with a CUDALaunch           *)
    Clusters,      (* lists of workers that may be active: see Calibration *)
    DefaultTotal,  (* VRAMTotal at the start                               *)
    Width,         (* sizes are uint64: arithmetic is modulo Width         *)
    MaxCopies      (* bound: copies on the engine, leaked ones included    *)

ASSUME ArgsAssumption == ArgLists \cup InlineLists \subseteq Seq(Ids)
ASSUME SizesAssumption ==
    /\ Amounts \subseteq Nat /\ Totals \subseteq Nat
    /\ DefaultTotal \in Nat /\ Width \in Nat \ {0}
    /\ \A ws \in Clusters \ {<<>>} : aggregate(ws).vram \in Nat

VARIABLES
    buffers,    (* VRAMManager.Buffers: id -> size                         *)
    allocated,  (* TotalAllocated                                          *)
    total,      (* Spec.VRAMTotal                                          *)
    engine,     (* GoEngine.buffers: number n of "buf-n" -> the copy       *)
    at,         (* at[c]: how far the launch of connection c is            *)
    args,       (* args[c]: its buffer arguments                           *)
    made,       (* made[c]: the numbers of the copies made, per argument   *)
    found,      (* found[c]: the copies the kernel ran on, per argument    *)
    left,       (* left[c]: arguments whose copy is still to be released   *)
    own,        (* own[c]: ids its inline data has in video memory         *)
    stopped,    (* the Go runtime ended the process                        *)
    mixed,      (* ghost: two launches overlapped                          *)
    doubled,    (* ghost: a launch named a buffer twice                    *)
    clash,      (* ghost: an id was allocated while it was in use          *)
    created,    (* ghost: ids clients created and did not release          *)
    peak        (* ghost: the largest VRAMTotal so far                     *)

memory == <<buffers, allocated, total, created, clash, peak>>
runs == <<at, args, made, found, left, own>>
memoryVars == <<memory, engine, runs, stopped, mixed, doubled>>

MemoryInit ==
    /\ buffers = [id \in {} |-> 0]
    /\ allocated = 0
    /\ total = DefaultTotal
    /\ engine = [n \in {} |-> <<>>]
    /\ at = [c \in Conns |-> "idle"]
    /\ args = [c \in Conns |-> <<>>]
    /\ made = [c \in Conns |-> <<>>]
    /\ found = [c \in Conns |-> <<>>]
    /\ left = [c \in Conns |-> {}]
    /\ own = [c \in Conns |-> {}]
    /\ stopped = FALSE
    /\ mixed = FALSE
    /\ doubled = FALSE
    /\ clash = FALSE
    /\ created = {}
    /\ peak = DefaultTotal

Put(f, x, v) == [y \in DOMAIN f \cup {x} |-> IF y = x THEN v ELSE f[y]]
Drop(f, x) == [y \in DOMAIN f \ {x} |-> f[y]]
----------------------------------------------------------------------------
(* VRAMManager.Allocate, to the end of the check: the sum wraps around.    *)
SlipCheckSizeOnly(size) == size <= total
Fits(size) == (allocated + size) % Width <= total

(* An id in use is replaced and stays counted.                             *)
Allocate(id, size) ==
    /\ buffers' = Put(buffers, id, size)
    /\ allocated' = allocated + size
    /\ clash' = (clash \/ id \in DOMAIN buffers)
    /\ UNCHANGED <<total, peak>>

SlipRelease(id) ==   (* not taken off the sum                              *)
    /\ buffers' = Drop(buffers, id)
    /\ UNCHANGED <<allocated, total, peak, clash>>
Release(id) ==
    /\ buffers' = Drop(buffers, id)
    /\ allocated' = allocated - buffers[id]
    /\ UNCHANGED <<total, peak, clash>>

(* A size that passes the check by wrapping cannot be made: make panics.   *)
Crashes(size) == allocated + size >= Width

BufferCreate(c, id, size) ==
    /\ at[c] = "idle" /\ Fits(size)
    /\ IF Crashes(size)
       THEN /\ stopped' = TRUE
            /\ UNCHANGED memory
       ELSE /\ Allocate(id, size)
            /\ created' = created \cup {id}
            /\ UNCHANGED stopped
    /\ UNCHANGED <<engine, runs, mixed, doubled>>

BufferRelease(c, id) ==
    /\ at[c] = "idle" /\ id \in DOMAIN buffers
    /\ Release(id)
    /\ created' = created \ {id}
    /\ UNCHANGED <<engine, runs, stopped, mixed, doubled>>

(* POST /api/v1/device: any total the user likes, also below what is used. *)
UpdateSpec(size) ==
    /\ total' = size
    /\ peak' = Max({peak, size})
    /\ UNCHANGED <<buffers, allocated, created, clash>>

HandleDevice(size) ==
    /\ UpdateSpec(size)
    /\ UNCHANGED <<engine, runs, stopped, mixed, doubled>>
----------------------------------------------------------------------------
(* Recalibrate, every 5 s.  With no worker the profile is cleared and the  *)
(* device left as it was.                                                  *)
Recalibrate(ws) ==
    /\ ws # <<>>
    /\ UpdateSpec(aggregate(ws).vram)
    /\ UNCHANGED <<engine, runs, stopped, mixed, doubled>>
----------------------------------------------------------------------------
(* A launch on the core.  The ghosts are set when it begins.               *)
Twice(as) == \E j, k \in DOMAIN as : j # k /\ as[j] = as[k]
BeginLaunch(c, as, place) ==
    /\ at[c] = "idle"
    /\ at' = [at EXCEPT ![c] = place]
    /\ args' = [args EXCEPT ![c] = as]
    /\ made' = [made EXCEPT ![c] = <<>>]
    /\ found' = [found EXCEPT ![c] = <<>>]
    /\ mixed' = (mixed \/ \E d \in Conns \ {c} : at[d] # "idle")
    /\ doubled' = (doubled \/ Twice(as))
    /\ UNCHANGED <<memory, engine, left, own, stopped>>

NDRange(c, as) == BeginLaunch(c, as, "map")

(* A CUDA launch brings its buffers.  A Vulkan dispatch has none; without  *)
(* workers it is left to the GPU of the application.                       *)
CUDALaunch(c, as) == BeginLaunch(c, as, "store")
VKDispatch(c) == BeginLaunch(c, <<>>, "away")

SlipNoDefer(c) == "idle"
After(c) == IF own[c] = {} THEN "idle" ELSE "clean"   (* the defer *)

Goes(c, place) == at' = [at EXCEPT ![c] = place]

(* The launch is answered: its locals are gone.                            *)
Return(c) ==
    /\ Goes(c, After(c))
    /\ args' = [args EXCEPT ![c] = <<>>]
    /\ made' = [made EXCEPT ![c] = <<>>]
    /\ found' = [found EXCEPT ![c] = <<>>]

(* writeBuffersToVRAM, one inline buffer: not allocated when there is no   *)
(* room; allocated but not among the ids to clean up when its data do not  *)
(* go in, as with any offset above 0.  The launch goes on all the same.    *)
Inside(size, offset, len) == offset + len <= size    (* VRAMManager.Write *)

Store(c, size, offset) ==
    /\ at[c] = "store" /\ Len(made[c]) < Len(args[c])
    /\ LET id == args[c][Len(made[c]) + 1]
           ok == Fits(size) /\ ~Crashes(size)
           in == Inside(size, offset, size)
       IN  /\ IF ok THEN Allocate(id, size) ELSE UNCHANGED <<buffers, allocated, total, clash, peak>>
           /\ own' = IF ok /\ in THEN [own EXCEPT ![c] = @ \cup {id}] ELSE own
           /\ created' = IF ok /\ ~in THEN created \cup {id} ELSE created
    /\ made' = [made EXCEPT ![c] = Append(@, 0)]
    /\ UNCHANGED <<engine, at, args, found, left, stopped, mixed, doubled>>

StoreDone(c, place) ==
    /\ at[c] = "store" /\ Len(made[c]) = Len(args[c])
    /\ Goes(c, place)
    /\ made' = [made EXCEPT ![c] = <<>>]
    /\ UNCHANGED <<memory, engine, args, found, left, own, stopped, mixed, doubled>>

(* On the core's engine or, if there were workers, on theirs.              *)
executeLocallyVK(c) == StoreDone(c, "copy")
dispatchVKCUDA(c) == StoreDone(c, "away")

(* dispatchToWorkers (Dispatch has what happens there): it answers, with   *)
(* an error or not, or 5 s pass and the launch is run like an NDRange on   *)
(* what is in video memory.                                                *)
WorkersAnswer(c) ==
    /\ at[c] = "away"
    /\ Return(c)
    /\ UNCHANGED <<memory, engine, left, own, stopped, mixed, doubled>>

WorkersLate(c) ==
    /\ at[c] = "away"
    /\ Goes(c, "map")
    /\ UNCHANGED <<memory, engine, args, made, found, left, own, stopped, mixed, doubled>>

(* GoEngine.CreateBuffer: the next number is one more than there are.      *)
SlipNumber == Max({1, Cardinality(DOMAIN engine)})
NextNumber == Cardinality(DOMAIN engine) + 1
CreateCopy(c) ==
    /\ engine' = Put(engine, NextNumber, <<c, Len(made[c]) + 1>>)
    /\ made' = [made EXCEPT ![c] = Append(@, NextNumber)]

(* The next argument: from video memory, where it may not be, or inline.   *)
Map(c) ==
    /\ at[c] \in {"map", "copy"} /\ Len(made[c]) < Len(args[c])
    /\ at[c] = "map" => args[c][Len(made[c]) + 1] \in DOMAIN buffers
    /\ Cardinality(DOMAIN engine) < MaxCopies
    /\ CreateCopy(c)
    /\ UNCHANGED <<memory, at, args, found, left, own, stopped, mixed, doubled>>

(* An error return: the copies made so far are not released.               *)
MapFails(c) ==
    /\ at[c] = "map" /\ Len(made[c]) < Len(args[c])
    /\ args[c][Len(made[c]) + 1] \notin DOMAIN buffers
    /\ Return(c)
    /\ UNCHANGED <<memory, engine, left, own, stopped, mixed, doubled>>

(* ExecuteNDRange looks its arguments up by number, without the lock.      *)
Mapped(c) == at[c] \in {"map", "copy"} /\ Len(made[c]) = Len(args[c])
Writing(d) == at[d] \in {"map", "copy"} \/ left[d] # {}

LastOf(as, id) == Max({k \in DOMAIN as : as[k] = id})
Execute(c) ==
    /\ Mapped(c)
    /\ \A k \in DOMAIN made[c] : made[c][k] \in DOMAIN engine
    /\ found' = [found EXCEPT ![c] = [k \in DOMAIN made[c] |-> engine[made[c][k]]]]
    /\ left' = [left EXCEPT ![c] = {LastOf(args[c], args[c][k]) : k \in DOMAIN args[c]}]
    /\ Goes(c, "release")
    /\ UNCHANGED <<memory, engine, args, made, own, stopped, mixed, doubled>>

(* A copy that is gone, or sizes the kernel refuses.                       *)
ExecuteFails(c) ==
    /\ Mapped(c)
    /\ Return(c)
    /\ UNCHANGED <<memory, engine, left, own, stopped, mixed, doubled>>

(* The runtime may notice a map that is read while another goroutine       *)
(* writes it, and end the process.                                         *)
MapRace(c, d) ==
    /\ c # d /\ Mapped(c) /\ Writing(d)
    /\ stopped' = TRUE
    /\ UNCHANGED <<memory, engine, runs, mixed, doubled>>

(* Cleanup: whatever copy has the number now is forgotten.  engBufs knows  *)
(* the last copy of a buffer only.                                         *)
Forget(c, k) == Drop(engine, made[c][k])
ReleaseCopy(c, k) ==
    /\ at[c] = "release" /\ k \in left[c]
    /\ engine' = Forget(c, k)
    /\ left' = [left EXCEPT ![c] = @ \ {k}]
    /\ UNCHANGED <<memory, at, args, made, found, own, stopped, mixed, doubled>>

ReleaseDone(c) ==
    /\ at[c] = "release" /\ left[c] = {}
    /\ Return(c)
    /\ UNCHANGED <<memory, engine, left, own, stopped, mixed, doubled>>

(* cleanupVRAMBuffers, one id; it may have been released meanwhile.        *)
Clean(c, id) ==
    /\ at[c] = "clean" /\ id \in own[c]
    /\ own' = [own EXCEPT ![c] = @ \ {id}]
    /\ Goes(c, IF own[c] = {id} THEN "idle" ELSE "clean")
    /\ IF id \in DOMAIN buffers THEN Release(id) ELSE UNCHANGED <<buffers, allocated, total, clash, peak>>
    /\ UNCHANGED <<created, engine, args, made, found, left, stopped, mixed, doubled>>
----------------------------------------------------------------------------
Connection(c) ==
    \/ \E id \in Ids, size \in Amounts : BufferCreate(c, id, size)
    \/ \E id \in Ids : BufferRelease(c, id)
    \/ \E as \in ArgLists : NDRange(c, as)
    \/ \E as \in InlineLists : CUDALaunch(c, as)
    \/ VKDispatch(c)
    \/ \E size \in Amounts, offset \in {0, 1} : Store(c, size, offset)
    \/ executeLocallyVK(c) \/ dispatchVKCUDA(c)
    \/ WorkersAnswer(c) \/ WorkersLate(c)
    \/ Map(c)
    \/ MapFails(c)
    \/ Execute(c)
    \/ ExecuteFails(c)
    \/ \E d \in Conns : MapRace(c, d)
    \/ \E k \in left[c] : ReleaseCopy(c, k)
    \/ ReleaseDone(c)
    \/ \E id \in own[c] : Clean(c, id)

MemoryNext ==
    /\ ~stopped
    /\ \/ \E c \in Conns : Connection(c)
       \/ \E ws \in Clusters : Recalibrate(ws)
       \/ \E size \in Totals : HandleDevice(size)

----------------------------------------------------------------------------
Places == {"idle", "store", "away", "map", "copy", "release", "clean"}
Copies == Conns \X Nat

MemoryTypeOK ==
    /\ DOMAIN buffers \subseteq Ids
    /\ allocated \in 0..(Width - 1)
    /\ total \in Nat
    /\ \A n \in DOMAIN engine : engine[n] \in Copies
    /\ at \in [Conns -> Places]
    /\ args \in [Conns -> ArgLists \cup InlineLists \cup {<<>>}]
    /\ own \in [Conns -> SUBSET Ids]

(* A kernel runs on the copies its own launch made, argument by argument,  *)
(* whatever launches failed before it and left their copies behind, as     *)
(* long as no two launches overlap and none names a buffer twice: the      *)
(* numbers of CreateBuffer are then never those of a copy in use.          *)
OnOwnCopies == \A c \in Conns : at[c] = "release" => \A k \in DOMAIN found[c] : found[c][k] = <<c, k>>
RunIsOwn == ~mixed /\ ~doubled => OnOwnCopies

(* TotalAllocated never runs below what the buffers take, so that no       *)
(* release wraps it around, and it is what they take until a client        *)
(* allocates an id that is in use.                                         *)
SumOfSizes == MapThenSumSet(LAMBDA id : buffers[id], DOMAIN buffers)
Accounted == /\ allocated >= SumOfSizes
             /\ ~clash => allocated = SumOfSizes

(* However often calibration or the user changes the device under it, the  *)
(* memory given out never exceeded what the device had at some time.       *)
LimitHolds == allocated <= peak

(* The data that came inline with a launch leave the video memory with it, *)
(* also when it fails: once nothing runs, all buffers are clients'.  (Data *)
(* stored at an offset are never released: they count as the client's.)    *)
NoLeftovers == (\A c \in Conns : at[c] = "idle") => DOMAIN buffers \subseteq created
=============================================================================
