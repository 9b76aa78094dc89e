-------------------------- MODULE CoreMemoryProofs --------------------------
(***************************************************************************)
(* Theorems about CoreMemory, for any number of connections, ids, sizes,   *)
(* workers and copies.                                                     *)
(***************************************************************************)
EXTENDS CoreMemory, FiniteSetTheorems, TLAPS

MemorySpec == MemoryInit /\ [][MemoryNext]_memoryVars
----------------------------------------------------------------------------
(* LimitHolds is inductive once buffers have sizes and the device never    *)
(* had more than peak.                                                     *)
Sized ==
    /\ allocated \in Int
    /\ total \in Nat /\ peak \in Nat
    /\ total <= peak
    /\ \A id \in DOMAIN buffers : buffers[id] \in Nat

LimitInv == Sized /\ LimitHolds

LEMMA AllocateWithinLimit ==
    ASSUME LimitInv, NEW id, NEW size \in Nat, Fits(size), ~Crashes(size), Allocate(id, size)
    PROVE  LimitInv'
<1>1. allocated + size <= total
  <2>1. CASE allocated + size < 0
    BY <2>1, SMT DEF LimitInv, Sized
  <2>2. CASE allocated + size >= 0
    <3>1. allocated + size \in 0..(Width - 1)
      BY <2>2, SizesAssumption, SMT DEF LimitInv, Sized, Crashes
    <3>2. (allocated + size) % Width = allocated + size
      BY <3>1, SizesAssumption, SMT
    <3> QED BY <3>2 DEF Fits
  <2> QED BY <2>1, <2>2, SMT DEF LimitInv, Sized
<1>2. \A y \in DOMAIN buffers' : buffers'[y] \in Nat
  BY DEF Allocate, Put, LimitInv, Sized
<1> QED BY <1>1, <1>2, SMT DEF Allocate, LimitInv, Sized, LimitHolds

LEMMA ReleaseWithinLimit ==
    ASSUME LimitInv, NEW id \in DOMAIN buffers, Release(id)
    PROVE  LimitInv'
<1>1. \A y \in DOMAIN buffers' : buffers'[y] \in Nat
  BY DEF Release, Drop, LimitInv, Sized
<1>2. buffers[id] \in Nat
  BY DEF LimitInv, Sized
<1> QED BY <1>1, <1>2, SMT DEF Release, LimitInv, Sized, LimitHolds

LEMMA UpdateWithinLimit ==
    ASSUME LimitInv, NEW size \in Nat, UpdateSpec(size)
    PROVE  LimitInv'
<1>1. peak' \in {peak, size} /\ peak' >= peak /\ peak' >= size
  <2>1. \E m \in {peak, size} : \A n \in {peak, size} : m >= n
    BY SMT DEF LimitInv, Sized
  <2> QED BY <2>1, Zenon DEF UpdateSpec, Max
<1> QED BY <1>1, SMT DEF UpdateSpec, LimitInv, Sized, LimitHolds

LEMMA NextLimit == LimitInv /\ [MemoryNext]_memoryVars => LimitInv'
<1> SUFFICES ASSUME LimitInv, [MemoryNext]_memoryVars PROVE LimitInv'
  OBVIOUS
<1>0. ASSUME UNCHANGED <<buffers, allocated, total, peak>> PROVE LimitInv'
  BY <1>0 DEF LimitInv, Sized, LimitHolds
<1>1. ASSUME NEW c \in Conns, Connection(c) PROVE LimitInv'
  <2>1. ASSUME NEW id \in Ids, NEW size \in Amounts, BufferCreate(c, id, size) PROVE LimitInv'
    <3>1. CASE Crashes(size)
      BY <1>0, <2>1, <3>1 DEF BufferCreate, memory
    <3>2. CASE ~Crashes(size)
      BY <2>1, <3>2, SizesAssumption, AllocateWithinLimit DEF BufferCreate
    <3> QED BY <3>1, <3>2
  <2>2. ASSUME NEW id \in Ids, BufferRelease(c, id) PROVE LimitInv'
    BY <2>2, ReleaseWithinLimit DEF BufferRelease
  <2>3. ASSUME NEW size \in Amounts, NEW offset \in {0, 1}, Store(c, size, offset) PROVE LimitInv'
    <3> DEFINE id == args[c][Len(made[c]) + 1]
    <3>1. CASE Fits(size) /\ ~Crashes(size)
      BY <2>3, <3>1, SizesAssumption, AllocateWithinLimit DEF Store
    <3>2. CASE ~(Fits(size) /\ ~Crashes(size))
      BY <1>0, <2>3, <3>2 DEF Store
    <3> QED BY <3>1, <3>2
  <2>4. ASSUME NEW id \in own[c], Clean(c, id) PROVE LimitInv'
    <3>1. CASE id \in DOMAIN buffers
      BY <2>4, <3>1, ReleaseWithinLimit DEF Clean
    <3>2. CASE id \notin DOMAIN buffers
      BY <1>0, <2>4, <3>2 DEF Clean
    <3> QED BY <3>1, <3>2
  <2>5. CASE UNCHANGED memory
    BY <1>0, <2>5 DEF memory
  <2> QED
    BY <1>1, <2>1, <2>2, <2>3, <2>4, <2>5
    DEF Connection, NDRange, CUDALaunch, VKDispatch, BeginLaunch, executeLocallyVK, dispatchVKCUDA,
        StoreDone, WorkersAnswer, WorkersLate, Map, MapFails, Execute, ExecuteFails, MapRace,
        ReleaseCopy, ReleaseDone
<1>2. ASSUME NEW ws \in Clusters, Recalibrate(ws) PROVE LimitInv'
  BY <1>2, SizesAssumption, UpdateWithinLimit DEF Recalibrate
<1>3. ASSUME NEW size \in Totals, HandleDevice(size) PROVE LimitInv'
  BY <1>3, SizesAssumption, UpdateWithinLimit DEF HandleDevice
<1>4. CASE UNCHANGED memoryVars
  BY <1>0, <1>4 DEF memoryVars, memory
<1> QED BY <1>1, <1>2, <1>3, <1>4 DEF MemoryNext

(* However the device is changed under it, by calibration or by the user,  *)
(* the memory never gives out more than the device had at some time        *)
(* (vram.go:99-112), wrap-around included.                                 *)
THEOREM GivenOutWithinPeak == MemorySpec => []LimitHolds
<1>1. MemoryInit => LimitInv
  BY SizesAssumption, SMT DEF MemoryInit, LimitInv, Sized, LimitHolds
<1>2. LimitInv => LimitHolds
  BY DEF LimitInv
<1> QED BY <1>1, <1>2, NextLimit, PTL DEF MemorySpec
----------------------------------------------------------------------------
(* NoLeftovers is about moments when nothing runs.  Inductive is what holds*)
(* at all times: every buffer is a client's or still to be cleaned up, and *)
(* a connection is not idle while it has something to clean up.            *)
Kept(id) == id \in created \/ \E c \in Conns : id \in own[c]

OwnInv ==
    /\ at \in [Conns -> Places]
    /\ own = [c \in Conns |-> own[c]]
    /\ \A c \in Conns : at[c] = "idle" => own[c] = {}
    /\ \A id \in DOMAIN buffers : Kept(id)

(* A step of one launch that ends it, or leaves it under way, and changes  *)
(* no buffer.                                                              *)
LEMMA LaunchKeeps ==
    ASSUME OwnInv, NEW c \in Conns, UNCHANGED <<buffers, created, own>>,
           NEW place \in Places, Goes(c, place), place = "idle" => own[c] = {}
    PROVE  OwnInv'
BY DEF OwnInv, Kept, Goes

LEMMA ReturnKeeps ==
    ASSUME OwnInv, NEW c \in Conns, UNCHANGED <<buffers, created, own>>, Return(c)
    PROVE  OwnInv'
<1>1. After(c) \in Places /\ (After(c) = "idle" => own[c] = {})
  BY DEF After, Places
<1> QED BY <1>1, LaunchKeeps DEF Return

LEMMA NextOwn == OwnInv /\ [MemoryNext]_memoryVars => OwnInv'
<1> SUFFICES ASSUME OwnInv, [MemoryNext]_memoryVars PROVE OwnInv'
  OBVIOUS
<1>0. ASSUME UNCHANGED <<buffers, created, own, at>> PROVE OwnInv'
  BY <1>0 DEF OwnInv, Kept
<1>1. ASSUME NEW c \in Conns, Connection(c) PROVE OwnInv'
  <2>1. ASSUME NEW id \in Ids, NEW size \in Amounts, BufferCreate(c, id, size) PROVE OwnInv'
    <3>1. CASE Crashes(size)
      BY <1>0, <2>1, <3>1 DEF BufferCreate, memory, runs
    <3>2. CASE ~Crashes(size)
      BY <2>1, <3>2 DEF BufferCreate, Allocate, Put, OwnInv, Kept, runs
    <3> QED BY <3>1, <3>2
  <2>2. ASSUME NEW id \in Ids, BufferRelease(c, id) PROVE OwnInv'
    BY <2>2 DEF BufferRelease, Release, Drop, OwnInv, Kept, runs
  <2>3. ASSUME NEW size \in Amounts, NEW offset \in {0, 1}, Store(c, size, offset) PROVE OwnInv'
    <3> DEFINE id == args[c][Len(made[c]) + 1]
    <3>1. CASE Fits(size) /\ ~Crashes(size)
      <4>1. DOMAIN buffers' = DOMAIN buffers \cup {id}
        BY <2>3, <3>1 DEF Store, Allocate, Put
      <4>2. CASE Inside(size, offset, size)
        <5>1. /\ at[c] = "store" /\ UNCHANGED <<at, created>>
              /\ own' = [own EXCEPT ![c] = @ \cup {id}]
          BY <2>3, <3>1, <4>2 DEF Store
        <5>2. \A d \in Conns : own[d] \subseteq own'[d] /\ (d # c => own'[d] = own[d])
          BY <5>1 DEF OwnInv
        <5>3. id \in own'[c]
          BY <5>1 DEF OwnInv
        <5>4. own' = [d \in Conns |-> own'[d]]
          BY <5>1 DEF OwnInv
        <5> QED BY <4>1, <5>1, <5>2, <5>3, <5>4 DEF OwnInv, Kept
      <4>3. CASE ~Inside(size, offset, size)
        BY <2>3, <3>1, <4>1, <4>3 DEF Store, OwnInv, Kept
      <4> QED BY <4>2, <4>3
    <3>2. CASE ~(Fits(size) /\ ~Crashes(size))
      BY <1>0, <2>3, <3>2 DEF Store
    <3> QED BY <3>1, <3>2
  <2>4. ASSUME NEW id \in own[c], Clean(c, id) PROVE OwnInv'
    <3>1. DOMAIN buffers' = DOMAIN buffers \ {id}
      BY <2>4 DEF Clean, Release, Drop
    <3> QED BY <2>4, <3>1 DEF Clean, Goes, OwnInv, Kept, Places
  <2>5. ASSUME NEW as, NEW place \in Places \ {"idle"}, BeginLaunch(c, as, place) PROVE OwnInv'
    BY <2>5, LaunchKeeps DEF BeginLaunch, Goes, memory
  <2>6. CASE VKDispatch(c) \/ (\E as \in ArgLists : NDRange(c, as))
                \/ \E as \in InlineLists : CUDALaunch(c, as)
    BY <2>5, <2>6 DEF NDRange, VKDispatch, CUDALaunch, Places
  <2>7. CASE executeLocallyVK(c) \/ dispatchVKCUDA(c) \/ WorkersLate(c) \/ Execute(c)
    BY <2>7, LaunchKeeps DEF executeLocallyVK, dispatchVKCUDA, StoreDone, WorkersLate, Execute, Places, memory
  <2>8. CASE WorkersAnswer(c) \/ MapFails(c) \/ ExecuteFails(c) \/ ReleaseDone(c)
    BY <2>8, ReturnKeeps DEF WorkersAnswer, MapFails, ExecuteFails, ReleaseDone, memory
  <2>9. CASE Map(c) \/ (\E d \in Conns : MapRace(c, d)) \/ \E k \in left[c] : ReleaseCopy(c, k)
    BY <1>0, <2>9 DEF Map, MapRace, ReleaseCopy, memory, runs
  <2> QED BY <1>1, <2>1, <2>2, <2>3, <2>4, <2>6, <2>7, <2>8, <2>9 DEF Connection
<1>2. CASE (\E ws \in Clusters : Recalibrate(ws)) \/ \E size \in Totals : HandleDevice(size)
  BY <1>0, <1>2 DEF Recalibrate, HandleDevice, UpdateSpec, runs
<1>3. CASE UNCHANGED memoryVars
  BY <1>0, <1>3 DEF memoryVars, memory, runs
<1> QED BY <1>1, <1>2, <1>3 DEF MemoryNext

(* Whatever becomes of the launches they came with, and however these      *)
(* overlap, inline data leave the video memory with them                   *)
(* (ipc_server.go:966, 901-905).                                           *)
THEOREM InlineDataLeave == MemorySpec => []NoLeftovers
<1>1. MemoryInit => OwnInv
  BY DEF MemoryInit, OwnInv, Kept, Places
<1>2. OwnInv => NoLeftovers
  BY DEF OwnInv, Kept, NoLeftovers
<1> QED BY <1>1, <1>2, NextOwn, PTL DEF MemorySpec
----------------------------------------------------------------------------
(* RunIsOwn.  CreateBuffer numbers a copy by how many there are, so that a *)
(* number in use would be given out again if the numbers in use were not   *)
(* the first so many.  As long as launches do not overlap, they are: 1 to n*)
(* were left behind by launches that failed, and what the launch under way *)
(* has made comes after these.  While it releases them there are gaps, but *)
(* nobody makes a copy then.                                               *)
Working(c) == at[c] \in {"map", "copy", "release"}
NoGaps == \E n \in Nat : DOMAIN engine = 1..n

Counted(c) == \E n \in Nat :
    /\ DOMAIN engine = 1..(n + Len(made[c]))
    /\ \A k \in 1..Len(made[c]) : made[c][k] = n + k /\ engine[n + k] = <<c, k>>

Leaving(c) ==
    /\ \A k \in DOMAIN found[c] : found[c][k] = <<c, k>>
    /\ left[c] \subseteq 1..Len(made[c])
    /\ \E n \in Nat : /\ DOMAIN engine = (1..n) \cup {n + k : k \in left[c]}
                      /\ \A k \in 1..Len(made[c]) : made[c][k] = n + k

OneRun ==
    /\ \A c, d \in Conns : at[c] # "idle" /\ at[d] # "idle" => c = d
    /\ \A c \in Conns : ~Twice(args[c])
    /\ \A c \in Conns : at[c] = "away" => made[c] = <<>>
    /\ (\A c \in Conns : ~Working(c)) => NoGaps
    /\ \A c \in Conns : at[c] \in {"map", "copy"} => Counted(c)
    /\ \A c \in Conns : at[c] = "release" => Leaving(c)

RunTypes ==
    /\ at \in [Conns -> Places]
    /\ args \in [Conns -> Seq(Ids)]
    /\ made \in [Conns -> Seq(Nat)]
    /\ found = [c \in Conns |-> found[c]]
    /\ left = [c \in Conns |-> left[c]]
    /\ IsFiniteSet(DOMAIN engine)

RunInv == RunTypes /\ (~mixed /\ ~doubled => OneRun)

(* What a step of the only launch under way has to show.                   *)
LEMMA OnlyRun ==
    ASSUME NEW c \in Conns,
           \A d \in Conns \ {c} : at'[d] = "idle",
           \A d \in Conns : ~Twice(args[d])',
           (at[c] = "away" => made[c] = <<>>)',
           ~Working(c)' => NoGaps',
           at'[c] \in {"map", "copy"} => Counted(c)',
           at'[c] = "release" => Leaving(c)'
    PROVE  OneRun'
BY DEF OneRun, Working

LEMMA OthersIdle ==
    ASSUME OneRun, NEW c \in Conns, at[c] # "idle"
    PROVE  \A d \in Conns \ {c} : at[d] = "idle"
BY DEF OneRun

LEMMA FinitePlus == ASSUME NEW S, IsFiniteSet(S), NEW n, NEW T, T = S \cup {n} PROVE IsFiniteSet(T)
BY FS_AddElement

LEMMA FiniteMinus == ASSUME NEW S, IsFiniteSet(S), NEW n, NEW T, T = S \ {n} PROVE IsFiniteSet(T)
BY FS_RemoveElement

LEMMA NextTypes == RunTypes /\ [MemoryNext]_memoryVars => RunTypes'
<1> SUFFICES ASSUME RunTypes, [MemoryNext]_memoryVars PROVE RunTypes'
  OBVIOUS
<1>0. ASSUME UNCHANGED <<at, args, made, found, left, engine>> PROVE RunTypes'
  BY <1>0 DEF RunTypes
<1>1. ASSUME NEW c \in Conns, Connection(c) PROVE RunTypes'
  <2>1. CASE \/ \E id \in Ids, size \in Amounts : BufferCreate(c, id, size)
             \/ \E id \in Ids : BufferRelease(c, id)
             \/ \E d \in Conns : MapRace(c, d)
    BY <1>0, <2>1 DEF BufferCreate, BufferRelease, MapRace, runs
  <2>2. ASSUME NEW as \in Seq(Ids), NEW place \in Places, BeginLaunch(c, as, place) PROVE RunTypes'
    <3>1. <<>> \in Seq(Nat)
      OBVIOUS
    <3> QED BY <2>2, <3>1 DEF BeginLaunch, RunTypes
  <2>3. CASE VKDispatch(c) \/ (\E as \in ArgLists : NDRange(c, as))
                \/ \E as \in InlineLists : CUDALaunch(c, as)
    <3>1. <<>> \in Seq(Ids) /\ {"away", "map", "store"} \subseteq Places
      BY DEF Places
    <3> QED BY <2>2, <2>3, <3>1, ArgsAssumption DEF NDRange, VKDispatch, CUDALaunch
  <2>4. ASSUME NEW size \in Amounts, NEW offset \in {0, 1}, Store(c, size, offset) PROVE RunTypes'
    BY <2>4 DEF Store, RunTypes
  <2>5. CASE executeLocallyVK(c) \/ dispatchVKCUDA(c)
    <3>1. <<>> \in Seq(Nat)
      OBVIOUS
    <3> QED BY <2>5, <3>1 DEF executeLocallyVK, dispatchVKCUDA, StoreDone, Goes, RunTypes, Places
  <2>6. CASE WorkersAnswer(c) \/ MapFails(c) \/ ExecuteFails(c) \/ ReleaseDone(c)
    <3>1. Return(c) /\ UNCHANGED <<left, engine>>
      BY <2>6 DEF WorkersAnswer, MapFails, ExecuteFails, ReleaseDone
    <3>2. After(c) \in Places /\ <<>> \in Seq(Ids) /\ <<>> \in Seq(Nat)
      BY DEF After, Places
    <3> QED BY <3>1, <3>2 DEF Return, Goes, RunTypes
  <2>7. CASE WorkersLate(c)
    BY <2>7 DEF WorkersLate, Goes, RunTypes, Places
  <2>8. CASE Map(c)
    <3>1. NextNumber \in Nat
      BY FS_CardinalityType DEF NextNumber, RunTypes
    <3>2. DOMAIN engine' = DOMAIN engine \cup {NextNumber}
      BY <2>8 DEF Map, CreateCopy, Put
    <3>3. IsFiniteSet(DOMAIN engine')
      BY <3>2, FinitePlus DEF RunTypes
    <3>4. made' \in [Conns -> Seq(Nat)]
      BY <2>8, <3>1 DEF Map, CreateCopy, RunTypes
    <3> QED BY <2>8, <3>3, <3>4 DEF Map, RunTypes
  <2>9. CASE Execute(c)
    BY <2>9 DEF Execute, Goes, RunTypes, Places
  <2>10. ASSUME NEW k \in left[c], ReleaseCopy(c, k) PROVE RunTypes'
    <3>1. DOMAIN engine' = DOMAIN engine \ {made[c][k]}
      BY <2>10 DEF ReleaseCopy, Forget, Drop
    <3>2. IsFiniteSet(DOMAIN engine')
      BY <3>1, FiniteMinus DEF RunTypes
    <3> QED BY <2>10, <3>2 DEF ReleaseCopy, RunTypes
  <2>11. ASSUME NEW id \in own[c], Clean(c, id) PROVE RunTypes'
    BY <2>11 DEF Clean, Goes, RunTypes, Places
  <2> QED BY <1>1, <2>1, <2>3, <2>4, <2>5, <2>6, <2>7, <2>8, <2>9, <2>10, <2>11 DEF Connection
<1>2. CASE (\E ws \in Clusters : Recalibrate(ws)) \/ \E size \in Totals : HandleDevice(size)
  BY <1>0, <1>2 DEF Recalibrate, HandleDevice, runs
<1>3. CASE UNCHANGED memoryVars
  BY <1>0, <1>3 DEF memoryVars, runs
<1> QED BY <1>1, <1>2, <1>3 DEF MemoryNext
----------------------------------------------------------------------------
(* The steps of the only launch under way.                                 *)
LEMMA MapNumbers ==
    ASSUME RunTypes, OneRun, NEW c \in Conns, Map(c) PROVE OneRun'
<1>1. \A d \in Conns \ {c} : at[d] = "idle"
  BY OthersIdle DEF Map
<1>2. Counted(c) /\ UNCHANGED <<at, args>>
  BY DEF OneRun, Map
<1>3. PICK n \in Nat : /\ DOMAIN engine = 1..(n + Len(made[c]))
                       /\ \A k \in 1..Len(made[c]) : made[c][k] = n + k /\ engine[n + k] = <<c, k>>
  BY <1>2 DEF Counted
<1>4. made[c] \in Seq(Nat)
  BY DEF RunTypes
<1>5. PICK m \in Nat : m = Len(made[c])
  BY <1>4
<1>6. NextNumber = n + m + 1
  <2>1. n + m \in Nat /\ 1..(n + m) = 1..(n + Len(made[c]))
    BY <1>5
  <2>2. Cardinality(1..(n + m)) = n + m
    BY <2>1, FS_Interval
  <2> QED BY <1>3, <2>1, <2>2 DEF NextNumber
<1>7. /\ made'[c] = Append(made[c], n + m + 1)
      /\ engine' = Put(engine, n + m + 1, <<c, m + 1>>)
  BY <1>5, <1>6 DEF Map, CreateCopy, RunTypes
<1>8. /\ Len(made'[c]) = m + 1
      /\ \A k \in 1..m : made'[c][k] = made[c][k]
      /\ made'[c][m + 1] = n + m + 1
  BY <1>4, <1>5, <1>7
<1>9. PICK q \in Nat : q = n + m + 1
  BY <1>5
<1>10. /\ DOMAIN engine' = 1..q
       /\ engine'[q] = <<c, m + 1>>
       /\ \A i \in 1..(q - 1) : engine'[i] = engine[i]
  <2>1. DOMAIN engine = 1..(q - 1)
    BY <1>3, <1>5, <1>9
  <2>2. engine' = Put(engine, q, <<c, m + 1>>)
    BY <1>7, <1>9
  <2>3. 1..q = (1..(q - 1)) \cup {q}
    BY <1>5, <1>9
  <2>4. q \notin 1..(q - 1)
    OBVIOUS
  <2> QED BY <2>1, <2>2, <2>3, <2>4, Zenon DEF Put
<1>11. Counted(c)'
  <2>1. Len(made'[c]) = m + 1 /\ n + (m + 1) = q /\ m + 1 \in Nat
    BY <1>5, <1>8, <1>9
  <2>2. ASSUME NEW k \in 1..(m + 1) PROVE made'[c][k] = n + k /\ engine'[n + k] = <<c, k>>
    <3>1. CASE k = m + 1
      BY <1>8, <1>9, <1>10, <2>1, <3>1
    <3>2. CASE k # m + 1
      <4>1. k \in 1..m /\ n + k \in 1..(q - 1)
        BY <1>5, <1>9, <3>2
      <4> QED BY <1>3, <1>5, <1>8, <1>10, <4>1
    <3> QED BY <3>1, <3>2
  <2>3. DOMAIN engine' = 1..(n + Len(made'[c]))
    BY <1>10, <2>1
  <2> QED BY <2>1, <2>2, <2>3 DEF Counted
<1> QED
  BY <1>1, <1>2, <1>11, OnlyRun DEF OneRun, Map, Twice, Working

LEMMA ExecuteNumbers ==
    ASSUME RunTypes, OneRun, NEW c \in Conns, Execute(c) PROVE OneRun'
<1>1. \A d \in Conns \ {c} : at[d] = "idle"
  BY OthersIdle DEF Execute, Mapped
<1>2. Counted(c) /\ UNCHANGED <<args, made, engine>> /\ ~Twice(args[c]) /\ Len(made[c]) = Len(args[c])
  BY DEF OneRun, Execute, Mapped
<1>3. PICK n \in Nat : /\ DOMAIN engine = 1..(n + Len(made[c]))
                       /\ \A k \in 1..Len(made[c]) : made[c][k] = n + k /\ engine[n + k] = <<c, k>>
  BY <1>2 DEF Counted
<1>4. made[c] \in Seq(Nat) /\ args[c] \in Seq(Ids)
  BY DEF RunTypes
<1>5. PICK m \in Nat : m = Len(made[c])
  BY <1>4
<1>6. DOMAIN made[c] = 1..m /\ DOMAIN args[c] = 1..m
  BY <1>2, <1>4, <1>5
<1>7. found'[c] = [k \in DOMAIN made[c] |-> engine[made[c][k]]]
  BY DEF Execute, RunTypes
<1>8. left'[c] = 1..m
  <2>1. ASSUME NEW k \in 1..m PROVE LastOf(args[c], args[c][k]) = k
    <3>1. {j \in DOMAIN args[c] : args[c][j] = args[c][k]} = {k}
      BY <1>2, <1>6 DEF Twice
    <3>2. Max({k}) = k
      <4>1. k \in {k} /\ \A y \in {k} : k >= y
        OBVIOUS
      <4> QED BY <4>1, Zenon DEF Max
    <3> QED BY <3>1, <3>2 DEF LastOf
  <2>2. left'[c] = {LastOf(args[c], args[c][k]) : k \in DOMAIN args[c]}
    BY DEF Execute, RunTypes
  <2> QED BY <1>6, <2>1, <2>2
<1>9. DOMAIN engine = (1..n) \cup {n + k : k \in 1..m}
  <2>1. ASSUME NEW i \in 1..(n + m), i \notin 1..n PROVE i - n \in 1..m /\ i = n + (i - n)
    BY <1>5, <2>1
  <2>2. \A k \in 1..m : n + k \in 1..(n + m)
    BY <1>5
  <2>3. \A i \in 1..n : i \in 1..(n + m)
    BY <1>5
  <2>4. 1..(n + m) \subseteq (1..n) \cup {n + k : k \in 1..m}
    BY <2>1
  <2>5. (1..n) \cup {n + k : k \in 1..m} \subseteq 1..(n + m)
    BY <2>2, <2>3
  <2> QED BY <1>3, <1>5, <2>4, <2>5
<1>10. Leaving(c)'
  <2>1. \A k \in DOMAIN found'[c] : found'[c][k] = <<c, k>>
    BY <1>3, <1>5, <1>6, <1>7
  <2> QED BY <1>2, <1>3, <1>5, <1>8, <1>9, <2>1 DEF Leaving
<1>11. at'[c] = "release" /\ \A d \in Conns \ {c} : at'[d] = "idle"
  BY <1>1 DEF Execute, Goes, RunTypes
<1> QED
  BY <1>2, <1>10, <1>11, OnlyRun DEF OneRun, Twice, Working

LEMMA ReleaseNumbers ==
    ASSUME RunTypes, OneRun, NEW c \in Conns, NEW k \in left[c], ReleaseCopy(c, k) PROVE OneRun'
<1>1. \A d \in Conns \ {c} : at[d] = "idle"
  BY OthersIdle DEF ReleaseCopy
<1>2. Leaving(c) /\ at[c] = "release" /\ UNCHANGED <<at, args, made, found>>
  BY DEF OneRun, ReleaseCopy
<1>3. PICK n \in Nat : /\ DOMAIN engine = (1..n) \cup {n + j : j \in left[c]}
                       /\ \A j \in 1..Len(made[c]) : made[c][j] = n + j
  BY <1>2 DEF Leaving
<1>4. left[c] \subseteq 1..Len(made[c]) /\ left'[c] = left[c] \ {k}
  BY <1>2 DEF Leaving, ReleaseCopy, RunTypes
<1>5. PICK m \in Nat : m = Len(made[c])
  <2>1. made[c] \in Seq(Nat)
    BY DEF RunTypes
  <2> QED BY <2>1
<1>6. DOMAIN engine' = DOMAIN engine \ {n + k}
  <2>1. made[c][k] = n + k
    BY <1>3, <1>4
  <2> QED BY <2>1 DEF ReleaseCopy, Forget, Drop
<1>7. \A j \in left[c] : j \in Int /\ j >= 1
  BY <1>4, <1>5
<1>8. DOMAIN engine' = (1..n) \cup {n + j : j \in left'[c]}
  <2>1. \A i \in 1..n : i # n + k
    BY <1>7
  <2>2. \A j \in left[c] : j # k => n + j # n + k
    BY <1>7
  <2> QED BY <1>3, <1>4, <1>6, <2>1, <2>2
<1>9. Leaving(c)'
  BY <1>2, <1>3, <1>4, <1>8 DEF Leaving
<1> QED BY <1>1, <1>2, <1>9, OnlyRun DEF OneRun, Twice, Working

(* A launch that ends leaves its copies behind, as many as it has made, or *)
(* has released them all.                                                  *)
LEMMA CountedNoGaps ==
    ASSUME RunTypes, NEW c \in Conns, Counted(c) PROVE NoGaps
<1>1. PICK n \in Nat : DOMAIN engine = 1..(n + Len(made[c]))
  BY DEF Counted
<1>2. n + Len(made[c]) \in Nat
  BY DEF RunTypes
<1> QED BY <1>1, <1>2 DEF NoGaps

LEMMA EndNumbers ==
    ASSUME RunTypes, OneRun, NEW c \in Conns, at[c] # "idle", Return(c), UNCHANGED engine,
           at[c] = "release" => left[c] = {}
    PROVE  OneRun'
<1>1. \A d \in Conns \ {c} : at[d] = "idle"
  BY OthersIdle
<1>2. at'[c] \in {"idle", "clean"} /\ args'[c] = <<>> /\ \A d \in Conns \ {c} : at'[d] = at[d] /\ args'[d] = args[d]
  BY DEF Return, Goes, After, RunTypes
<1>3. NoGaps
  <2>1. CASE at[c] \in {"map", "copy"}
    BY <2>1, CountedNoGaps DEF OneRun
  <2>2. CASE at[c] = "release"
    <3>1. PICK n \in Nat : DOMAIN engine = (1..n) \cup {n + j : j \in left[c]}
      BY <2>2 DEF OneRun, Leaving
    <3> QED BY <2>2, <3>1 DEF NoGaps
  <2>3. CASE at[c] \notin {"map", "copy", "release"}
    BY <1>1, <2>3 DEF OneRun, Working
  <2> QED BY <2>1, <2>2, <2>3
<1>4. NoGaps'
  BY <1>3 DEF NoGaps
<1>5. \A d \in Conns : ~Twice(args[d])'
  BY <1>1, <1>2 DEF OneRun, Twice
<1> QED BY <1>1, <1>2, <1>4, <1>5, OnlyRun

(* A step that makes no copy and runs no kernel.                           *)
LEMMA QuietNumbers ==
    ASSUME RunTypes, OneRun, NEW c \in Conns, at[c] \in {"store", "away", "clean"},
           NEW place \in Places, place # "release", Goes(c, place), UNCHANGED <<engine, args>>,
           made'[c] = <<>>
    PROVE  OneRun'
<1>1. \A d \in Conns \ {c} : at[d] = "idle"
  BY OthersIdle
<1>2. NoGaps
  BY <1>1 DEF OneRun, Working
<1>3. at'[c] = place /\ \A d \in Conns \ {c} : at'[d] = "idle"
  BY <1>1 DEF Goes, RunTypes
<1>4. PICK n \in Nat : DOMAIN engine = 1..n
  BY <1>2 DEF NoGaps
<1>5. Counted(c)'
  <2>1. Len(made'[c]) = 0 /\ n + 0 = n
    OBVIOUS
  <2>2. 1..Len(made'[c]) = {}
    BY <2>1
  <2> QED BY <1>4, <2>1, <2>2 DEF Counted
<1>6. NoGaps' /\ \A d \in Conns : ~Twice(args[d])'
  BY <1>2 DEF NoGaps, OneRun, Twice
<1> QED BY <1>3, <1>5, <1>6, OnlyRun

LEMMA BeginNumbers ==
    ASSUME RunTypes, OneRun, NEW c \in Conns, NEW as, NEW place \in {"store", "map", "away"},
           BeginLaunch(c, as, place), ~mixed', ~doubled'
    PROVE  OneRun'
<1>1. (\A d \in Conns \ {c} : at[d] = "idle") /\ at[c] = "idle" /\ ~Twice(as)
  BY DEF BeginLaunch
<1>2. NoGaps
  BY <1>1 DEF OneRun, Working
<1>3. PICK n \in Nat : DOMAIN engine = 1..n
  BY <1>2 DEF NoGaps
<1>4. at'[c] = place /\ made'[c] = <<>> /\ \A d \in Conns \ {c} : at'[d] = "idle"
  BY <1>1 DEF BeginLaunch, RunTypes
<1>5. Counted(c)'
  <2>1. Len(made'[c]) = 0 /\ n + 0 = n
    BY <1>4
  <2>2. 1..Len(made'[c]) = {}
    BY <2>1
  <2> QED BY <1>3, <2>1, <2>2 DEF Counted, BeginLaunch
<1>6. \A d \in Conns : ~Twice(args[d])'
  <2>1. args'[c] = as /\ \A d \in Conns \ {c} : args'[d] = args[d]
    BY DEF BeginLaunch, RunTypes
  <2>2. \A d \in Conns \ {c} : ~Twice(args[d])
    BY DEF OneRun
  <2>3. \A d \in Conns : ~Twice(args'[d])
    BY <1>1, <2>1, <2>2, Zenon
  <2> QED BY <2>3 DEF Twice
<1>7. NoGaps'
  BY <1>2 DEF BeginLaunch, NoGaps
<1> QED BY <1>4, <1>5, <1>6, <1>7, OnlyRun
----------------------------------------------------------------------------
LEMMA NextRun == RunInv /\ [MemoryNext]_memoryVars => RunInv'
<1> SUFFICES ASSUME RunInv, [MemoryNext]_memoryVars, ~mixed', ~doubled' PROVE OneRun'
  BY NextTypes DEF RunInv
<1>0. ASSUME UNCHANGED <<at, args, made, found, left, engine>>, ~mixed, ~doubled PROVE OneRun'
  <2>1. OneRun
    BY <1>0 DEF RunInv
  <2>2. \A c \in Conns : (Working(c) <=> Working(c)') /\ (Twice(args[c]) <=> Twice(args[c])')
    BY <1>0 DEF Working, Twice
  <2>3. NoGaps <=> NoGaps'
    BY <1>0 DEF NoGaps
  <2>4. \A c \in Conns : (Counted(c) <=> Counted(c)') /\ (Leaving(c) <=> Leaving(c)')
    BY <1>0 DEF Counted, Leaving
  <2> QED BY <1>0, <2>1, <2>2, <2>3, <2>4 DEF OneRun
<1> USE DEF RunInv
<1>1. ASSUME NEW c \in Conns, Connection(c) PROVE OneRun'
  <2>0. ~mixed /\ ~doubled
    <3>1. CASE UNCHANGED <<mixed, doubled>>
      BY <3>1
    <3>2. ASSUME NEW as, NEW place, BeginLaunch(c, as, place) PROVE ~mixed /\ ~doubled
      BY <3>2 DEF BeginLaunch
    <3> QED
      BY <1>1, <3>1, <3>2
      DEF Connection, BufferCreate, BufferRelease, MapRace, NDRange, CUDALaunch, VKDispatch,
          Store, executeLocallyVK, dispatchVKCUDA, StoreDone, WorkersAnswer, WorkersLate, Map, MapFails,
          Execute, ExecuteFails, ReleaseCopy, ReleaseDone, Clean
  <2>1. CASE \/ \E id \in Ids, size \in Amounts : BufferCreate(c, id, size)
             \/ \E id \in Ids : BufferRelease(c, id)
             \/ \E d \in Conns : MapRace(c, d)
    BY <1>0, <2>0, <2>1 DEF BufferCreate, BufferRelease, MapRace, runs
  <2>2. CASE VKDispatch(c) \/ (\E as \in ArgLists : NDRange(c, as))
                \/ \E as \in InlineLists : CUDALaunch(c, as)
    BY <2>0, <2>2, BeginNumbers DEF NDRange, VKDispatch, CUDALaunch
  <2>3. ASSUME NEW size \in Amounts, NEW offset \in {0, 1}, Store(c, size, offset) PROVE OneRun'
    <3>1. \A d \in Conns \ {c} : at[d] = "idle"
      BY <2>0, <2>3, OthersIdle DEF Store
    <3>2. NoGaps' /\ \A d \in Conns : ~Twice(args[d])'
      BY <2>0, <2>3, <3>1 DEF Store, OneRun, Working, NoGaps, Twice
    <3> QED BY <2>3, <3>1, <3>2, OnlyRun DEF Store
  <2>4. CASE executeLocallyVK(c) \/ dispatchVKCUDA(c)
    <3>1. PICK place \in {"copy", "away"} : StoreDone(c, place)
      BY <2>4 DEF executeLocallyVK, dispatchVKCUDA
    <3> QED BY <2>0, <3>1, QuietNumbers DEF StoreDone, RunTypes, Places
  <2>5. CASE WorkersAnswer(c) \/ MapFails(c) \/ ExecuteFails(c) \/ ReleaseDone(c)
    BY <2>0, <2>5, EndNumbers DEF WorkersAnswer, MapFails, ExecuteFails, ReleaseDone, Mapped
  <2>6. CASE WorkersLate(c)
    <3>1. made[c] = <<>>
      BY <2>0, <2>6 DEF WorkersLate, OneRun
    <3> QED BY <2>0, <2>6, <3>1, QuietNumbers DEF WorkersLate, Places
  <2>7. CASE Map(c)
    BY <2>0, <2>7, MapNumbers
  <2>8. CASE Execute(c)
    BY <2>0, <2>8, ExecuteNumbers
  <2>9. ASSUME NEW k \in left[c], ReleaseCopy(c, k) PROVE OneRun'
    BY <2>0, <2>9, ReleaseNumbers
  <2>10. ASSUME NEW id \in own[c], Clean(c, id) PROVE OneRun'
    <3>1. \A d \in Conns \ {c} : at[d] = "idle"
      BY <2>0, <2>10, OthersIdle DEF Clean
    <3>2. at'[c] \in {"idle", "clean"} /\ \A d \in Conns \ {c} : at'[d] = "idle"
      BY <2>10, <3>1 DEF Clean, Goes, RunTypes
    <3>3. NoGaps' /\ \A d \in Conns : ~Twice(args[d])'
      BY <2>0, <2>10, <3>1 DEF Clean, OneRun, Working, NoGaps, Twice
    <3> QED BY <3>2, <3>3, OnlyRun
  <2> QED BY <1>1, <2>1, <2>2, <2>3, <2>4, <2>5, <2>6, <2>7, <2>8, <2>9, <2>10 DEF Connection
<1>2. CASE (\E ws \in Clusters : Recalibrate(ws)) \/ \E size \in Totals : HandleDevice(size)
  BY <1>0, <1>2 DEF Recalibrate, HandleDevice, runs
<1>3. CASE UNCHANGED memoryVars
  BY <1>0, <1>3 DEF memoryVars, runs
<1> QED BY <1>1, <1>2, <1>3 DEF MemoryNext

LEMMA StartsRun == MemoryInit => RunInv
<1> SUFFICES ASSUME MemoryInit PROVE RunInv
  OBVIOUS
<1>1. DOMAIN engine = {} /\ IsFiniteSet({}) /\ 1..0 = {}
  BY FS_EmptySet DEF MemoryInit
<1>2. <<>> \in Seq(Ids) /\ <<>> \in Seq(Nat) /\ \A c \in Conns : args[c] = <<>>
  BY DEF MemoryInit
<1>3. RunTypes
  BY <1>1, <1>2 DEF MemoryInit, RunTypes, Places
<1>4. NoGaps
  BY <1>1 DEF NoGaps
<1>5. OneRun
  BY <1>2, <1>4 DEF MemoryInit, OneRun, Twice
<1> QED BY <1>3, <1>5 DEF RunInv

(* As long as launches do not overlap and name no buffer twice, a kernel   *)
(* runs on the copies of its own arguments, whatever earlier launches      *)
(* failed and left behind (fallback.go:73-88, ipc_server.go:626-726).      *)
THEOREM RunsAreOwn == MemorySpec => []RunIsOwn
<1>1. RunInv => RunIsOwn
  BY DEF RunInv, OneRun, Leaving, RunIsOwn, OnOwnCopies
<1> QED BY <1>1, StartsRun, NextRun, PTL DEF MemorySpec
----------------------------------------------------------------------------
(* Induction.  A set of numbers up to n that has 0 and, with a number, the *)
(* next one has n: otherwise one more would map it into itself without 0,  *)
(* and it would have as many elements as it has without 0.                 *)
LEMMA Reaches ==
    ASSUME NEW n \in Nat, NEW S \in SUBSET (0..n), 0 \in S, \A x \in S : x < n => x + 1 \in S
    PROVE  n \in S
<1> SUFFICES ASSUME n \notin S PROVE FALSE
  OBVIOUS
<1>1. IsFiniteSet(S) /\ Cardinality(S) \in Nat
  <2>1. IsFiniteSet(0..n)
    BY FS_Interval
  <2>2. IsFiniteSet(S)
    BY <2>1, FS_Subset
  <2> QED BY <2>2, FS_CardinalityType
<1>2. IsFiniteSet(S \ {0}) /\ Cardinality(S \ {0}) = Cardinality(S) - 1
  BY <1>1, FS_RemoveElement
<1> PICK next : next = [x \in S |-> x + 1]
  OBVIOUS
<1>3. next \in Injection(S, S \ {0})
  <2>1. ASSUME NEW x \in S PROVE x + 1 \in S \ {0}
    OBVIOUS
  <2>2. next \in [S -> S \ {0}]
    BY <2>1
  <2>3. ASSUME NEW x \in S, NEW y \in S, next[x] = next[y] PROVE x = y
    BY <2>3
  <2> QED BY <2>2, <2>3 DEF Injection, IsInjective
<1>4. Cardinality(S) <= Cardinality(S \ {0})
  BY <1>2, <1>3, FS_Injection
<1> QED BY <1>1, <1>2, <1>4

(* A set of subsets of S has them all if it has each whose smaller ones    *)
(* are all in it.                                                          *)
Grows(U, S) == \A s \in SUBSET S : (\A t \in SUBSET S : Cardinality(t) < Cardinality(s) => t \in U) => s \in U

LEMMA BySize ==
    ASSUME NEW S, IsFiniteSet(S), NEW U, Grows(U, S) PROVE SUBSET S \subseteq U
<1> USE DEF Grows
<1> PICK n : n = Cardinality(S)
  OBVIOUS
<1>1. n \in Nat /\ \A s \in SUBSET S : IsFiniteSet(s) /\ Cardinality(s) \in 0..n
  <2>1. \A s \in SUBSET S : IsFiniteSet(s) /\ Cardinality(s) <= n
    BY FS_Subset
  <2>2. \A s \in SUBSET S : Cardinality(s) \in Nat
    BY <2>1, FS_CardinalityType
  <2> QED BY <2>1, <2>2
<1> PICK N : N = {m \in 0..n : \A s \in SUBSET S : Cardinality(s) <= m => s \in U}
  OBVIOUS
<1>2. 0 \in N
  <2>1. ASSUME NEW s \in SUBSET S, Cardinality(s) <= 0 PROVE s \in U
    <3>1. \A t \in SUBSET S : ~(Cardinality(t) < Cardinality(s))
      BY <1>1, <2>1
    <3> QED BY <3>1
  <2> QED BY <1>1, <2>1
<1>3. ASSUME NEW m \in N, m < n PROVE m + 1 \in N
  <2>1. ASSUME NEW s \in SUBSET S, Cardinality(s) <= m + 1 PROVE s \in U
    <3>1. \A t \in SUBSET S : Cardinality(t) < Cardinality(s) => t \in U
      BY <1>1, <2>1
    <3> QED BY <3>1
  <2> QED BY <1>1, <1>3, <2>1
<1>4. n \in N
  BY <1>1, <1>2, <1>3, Reaches
<1> QED BY <1>1, <1>4

(* The sum over a finite set, as the fold of the community modules has it: *)
(* a recursive function that takes out some element after the other.  It   *)
(* exists, is the same on any larger set and with any first element.       *)
Sum(f, S) == MapThenSumSet(LAMBDA x : f[x], S)
First(s) == CHOOSE x \in s : TRUE
Summing(g, f, S) == g = [s \in SUBSET S |-> IF s = {} THEN 0 ELSE f[First(s)] + g[s \ {First(s)}]]

LEMMA SumIsChosen == ASSUME NEW f, NEW S PROVE Sum(f, S) = (CHOOSE g : Summing(g, f, S))[S]
BY DEF Sum, MapThenSumSet, MapThenFoldSet, Summing, First

LEMMA Smaller ==
    ASSUME NEW S, IsFiniteSet(S), NEW s \in SUBSET S, NEW x \in s
    PROVE  /\ s \ {x} \in SUBSET S /\ Cardinality(s) \in Nat /\ Cardinality(s) >= 1
           /\ Cardinality(s \ {x}) = Cardinality(s) - 1
<1>1. IsFiniteSet(s)
  BY FS_Subset
<1>2. Cardinality(s \ {x}) = Cardinality(s) - 1 /\ Cardinality(s) \in Nat /\ Cardinality(s \ {x}) \in Nat
  BY <1>1, FS_RemoveElement, FS_CardinalityType
<1> QED BY <1>2

LEMMA FirstIn == \A s : s # {} => First(s) \in s
BY DEF First

Alike(g, k, S) == \A s \in SUBSET S : g[s] = k[s]

LEMMA SumsAgree ==
    ASSUME NEW S, IsFiniteSet(S), NEW T, S \subseteq T, NEW f, NEW h, \A x \in S : f[x] = h[x],
           NEW g, Summing(g, f, S), NEW k, Summing(k, h, T)
    PROVE  Alike(g, k, S)
<1> PICK U : U = {s \in SUBSET S : g[s] = k[s]}
  OBVIOUS
<1>1. ASSUME NEW s \in SUBSET S, \A t \in SUBSET S : Cardinality(t) < Cardinality(s) => t \in U
      PROVE  s \in U
  <2>1. CASE s = {}
    BY <2>1 DEF Summing
  <2>2. CASE s # {}
    <3> PICK x : x = First(s)
      OBVIOUS
    <3>1. x \in s /\ x \in S
      BY <2>2, FirstIn
    <3>2. s \ {x} \in U
      BY <1>1, <3>1, Smaller
    <3>3. g[s] = f[x] + g[s \ {x}] /\ k[s] = h[x] + k[s \ {x}]
      BY <2>2, <3>1 DEF Summing
    <3> QED BY <3>1, <3>2, <3>3
  <2> QED BY <2>1, <2>2
<1>2. Grows(U, S)
  BY <1>1 DEF Grows
<1>3. SUBSET S \subseteq U
  BY <1>2, BySize
<1> QED BY <1>3 DEF Alike

Counts(f, S) == \A x \in S : f[x] \in Nat

SumRule(g, f, s) == g[s] = IF s = {} THEN 0 ELSE f[First(s)] + g[s \ {First(s)}]

LEMMA SumExists ==
    ASSUME NEW S, IsFiniteSet(S), NEW f, \A x \in S : f[x] \in Nat
    PROVE  \E g \in [SUBSET S -> Nat] : Summing(g, f, S)
<1> PICK n : n = Cardinality(S)
  OBVIOUS
<1>1. n \in Nat /\ \A s \in SUBSET S : IsFiniteSet(s) /\ Cardinality(s) \in 0..n
  <2>1. \A s \in SUBSET S : IsFiniteSet(s) /\ Cardinality(s) <= n
    BY FS_Subset
  <2>2. \A s \in SUBSET S : Cardinality(s) \in Nat
    BY <2>1, FS_CardinalityType
  <2> QED BY <2>1, <2>2
<1> PICK N : N = {m \in 0..n : \E g \in [SUBSET S -> Nat] : \A s \in SUBSET S : Cardinality(s) <= m => SumRule(g, f, s)}
  OBVIOUS
<1>2. 0 \in N
  <2> PICK g : g = [s \in SUBSET S |-> 0]
    OBVIOUS
  <2>1. ASSUME NEW s \in SUBSET S, Cardinality(s) <= 0 PROVE SumRule(g, f, s)
    <3>1. s = {}
      BY <1>1, <2>1, FS_EmptySet
    <3> QED BY <3>1 DEF SumRule
  <2>2. g \in [SUBSET S -> Nat] /\ 0 \in 0..n
    BY <1>1
  <2> QED BY <2>1, <2>2
<1>3. ASSUME NEW m \in N, m < n PROVE m + 1 \in N
  <2>1. PICK g \in [SUBSET S -> Nat] : \A s \in SUBSET S : Cardinality(s) <= m => SumRule(g, f, s)
    OBVIOUS
  <2> PICK k : k = [s \in SUBSET S |-> IF s = {} THEN 0 ELSE f[First(s)] + g[s \ {First(s)}]]
    OBVIOUS
  <2>2. ASSUME NEW s \in SUBSET S, s # {} PROVE First(s) \in s /\ f[First(s)] \in Nat /\ g[s \ {First(s)}] \in Nat
    BY <2>2, FirstIn
  <2>3. k \in [SUBSET S -> Nat]
    BY <2>2
  <2>4. ASSUME NEW s \in SUBSET S, Cardinality(s) <= m PROVE k[s] = g[s]
    BY <2>1, <2>4 DEF SumRule
  <2>5. ASSUME NEW s \in SUBSET S, Cardinality(s) <= m + 1 PROVE SumRule(k, f, s)
    <3>1. CASE s = {}
      BY <3>1 DEF SumRule
    <3>2. CASE s # {}
      <4> PICK t : t = s \ {First(s)}
        OBVIOUS
      <4>1. t \in SUBSET S /\ Cardinality(t) <= m
        <5>1. First(s) \in s
          BY <2>2, <3>2
        <5>2. t \in SUBSET S /\ Cardinality(t) = Cardinality(s) - 1
          BY <5>1, Smaller
        <5>3. m \in Int /\ Cardinality(s) \in Int
          BY <1>1, <1>3
        <5> QED BY <2>5, <5>2, <5>3
      <4>2. k[t] = g[t]
        BY <2>4, <4>1
      <4> QED BY <3>2, <4>2 DEF SumRule
    <3> QED BY <3>1, <3>2
  <2>6. m + 1 \in 0..n
    BY <1>1, <1>3
  <2> QED BY <2>3, <2>5, <2>6
<1>4. n \in N
  BY <1>1, <1>2, <1>3, Reaches
<1>5. PICK g \in [SUBSET S -> Nat] : \A s \in SUBSET S : Cardinality(s) <= n => SumRule(g, f, s)
  BY <1>4
<1>6. \A s \in SUBSET S : SumRule(g, f, s)
  BY <1>1, <1>5
<1>7. g = [s \in SUBSET S |-> IF s = {} THEN 0 ELSE f[First(s)] + g[s \ {First(s)}]]
  BY <1>6 DEF SumRule
<1> QED BY <1>7 DEF Summing

LEMMA SumIs ==
    ASSUME NEW S, IsFiniteSet(S), NEW T, S \subseteq T, NEW f, NEW h, \A x \in S : f[x] \in Nat /\ f[x] = h[x],
           NEW g, Summing(g, h, T)
    PROVE  Sum(f, S) = g[S]
<1> PICK k : k = CHOOSE a : Summing(a, f, S)
  OBVIOUS
<1>1. Summing(k, f, S)
  BY SumExists
<1>2. Alike(k, g, S)
  BY <1>1, SumsAgree
<1>3. k[S] = g[S]
  BY <1>2 DEF Alike
<1> QED BY <1>3, SumIsChosen

AnyOrder(g, f, S) == \A s \in SUBSET S : \A x \in s : g[s] = f[x] + g[s \ {x}]

LEMMA AnyFirst ==
    ASSUME NEW S, IsFiniteSet(S), NEW f, \A x \in S : f[x] \in Nat,
           NEW g, g \in [SUBSET S -> Nat], Summing(g, f, S)
    PROVE  AnyOrder(g, f, S)
<1> PICK U : U = {s \in SUBSET S : \A x \in s : g[s] = f[x] + g[s \ {x}]}
  OBVIOUS
<1>1. ASSUME NEW s \in SUBSET S, \A t \in SUBSET S : Cardinality(t) < Cardinality(s) => t \in U
      PROVE  s \in U
  <2> SUFFICES ASSUME NEW x \in s PROVE g[s] = f[x] + g[s \ {x}]
    OBVIOUS
  <2> PICK y : y = First(s)
    OBVIOUS
  <2>1. y \in s /\ g[s] = f[y] + g[s \ {y}]
    BY FirstIn DEF Summing
  <2>2. CASE x # y
    <3>0. ASSUME NEW z \in s PROVE s \ {z} \in U
      <4>1. s \ {z} \in SUBSET S /\ Cardinality(s \ {z}) < Cardinality(s)
        BY Smaller
      <4> QED BY <1>1, <4>1
    <3>1. s \ {x} \in U /\ s \ {y} \in U
      BY <2>1, <3>0
    <3> PICK t : t = (s \ {x}) \ {y}
      OBVIOUS
    <3>2. (s \ {y}) \ {x} = t /\ t \in SUBSET S
      OBVIOUS
    <3>3. g[s \ {x}] = f[y] + g[t] /\ g[s \ {y}] = f[x] + g[t]
      BY <2>1, <2>2, <3>1, <3>2
    <3>4. g[t] \in Nat /\ f[x] \in Nat /\ f[y] \in Nat
      BY <2>1, <3>2
    <3>5. \A u, v, w \in Nat : u + (v + w) = v + (u + w)
      OBVIOUS
    <3> QED BY <2>1, <3>3, <3>4, <3>5
  <2> QED BY <2>1, <2>2
<1>2. SUBSET S \subseteq U
  <2>1. Grows(U, S)
    BY <1>1 DEF Grows
  <2> QED BY <2>1, BySize
<1> QED BY <1>2 DEF AnyOrder

(* What is used of it.                                                     *)
LEMMA SumEmpty == ASSUME NEW f PROVE Sum(f, {}) = 0
<1>1. \E g \in [SUBSET {} -> Nat] : Summing(g, f, {})
  BY SumExists, FS_EmptySet
<1> PICK k : k = CHOOSE a : Summing(a, f, {})
  OBVIOUS
<1>2. k[{}] = 0
  BY <1>1 DEF Summing
<1> QED BY <1>2, SumIsChosen

LEMMA SumNat ==
    ASSUME NEW S, IsFiniteSet(S), NEW f, \A x \in S : f[x] \in Nat PROVE Sum(f, S) \in Nat
<1>1. PICK g \in [SUBSET S -> Nat] : Summing(g, f, S)
  BY SumExists
<1>2. Sum(f, S) = g[S]
  BY <1>1, SumIs
<1> QED BY <1>2

LEMMA SumSplit ==
    ASSUME NEW S, IsFiniteSet(S), NEW f, \A x \in S : f[x] \in Nat, NEW x \in S
    PROVE  Sum(f, S) = f[x] + Sum(f, S \ {x})
<1>1. PICK g \in [SUBSET S -> Nat] : Summing(g, f, S)
  BY SumExists
<1>2. Sum(f, S) = g[S]
  BY <1>1, SumIs
<1>3. IsFiniteSet(S \ {x}) /\ S \ {x} \subseteq S
  BY FS_RemoveElement
<1>4. Sum(f, S \ {x}) = g[S \ {x}]
  BY <1>1, <1>3, SumIs
<1>5. AnyOrder(g, f, S)
  BY <1>1, AnyFirst
<1>6. g[S] = f[x] + g[S \ {x}]
  BY <1>5 DEF AnyOrder
<1> QED BY <1>2, <1>4, <1>6

LEMMA SumSame ==
    ASSUME NEW S, IsFiniteSet(S), NEW f, NEW h, \A x \in S : f[x] \in Nat /\ f[x] = h[x]
    PROVE  Sum(f, S) = Sum(h, S)
<1>1. PICK g \in [SUBSET S -> Nat] : Summing(g, h, S)
  BY SumExists
<1>2. Sum(f, S) = g[S] /\ Sum(h, S) = g[S]
  BY <1>1, SumIs
<1> QED BY <1>2
----------------------------------------------------------------------------
(* Accounted and the types.  The ids in use are finitely many, so that the *)
(* sum is taken; nothing else is needed: a release takes off what its id   *)
(* added, and an id allocated again leaves its old size in the sum.        *)
Room ==
    /\ DOMAIN buffers \subseteq Ids /\ IsFiniteSet(DOMAIN buffers)
    /\ \A id \in DOMAIN buffers : buffers[id] \in Nat
    /\ allocated \in 0..(Width - 1) /\ total \in Nat
    /\ clash \in BOOLEAN /\ Accounted

Launching ==
    /\ \A n \in DOMAIN engine : engine[n] \in Copies
    /\ at \in [Conns -> Places]
    /\ args \in [Conns -> ArgLists \cup InlineLists \cup {<<>>}]
    /\ own \in [Conns -> SUBSET Ids]

Same(f, g, S) == \A x \in S : f[x] \in Nat /\ f[x] = g[x]

LEMMA SizesAre ==
    /\ SumOfSizes = Sum(buffers, DOMAIN buffers)
    /\ SumOfSizes' = Sum(buffers', DOMAIN buffers')
<1>1. SumOfSizes = Sum(buffers, DOMAIN buffers)
  BY DEF SumOfSizes, Sum
<1>2. SumOfSizes' = Sum(buffers', DOMAIN buffers')
  BY DEF SumOfSizes, Sum, MapThenSumSet, MapThenFoldSet
<1> QED BY <1>1, <1>2

LEMMA SumKept ==
    ASSUME NEW S, IsFiniteSet(S), NEW f, NEW h, Same(f, h, S) PROVE Sum(f, S) = Sum(h, S)
BY SumSame DEF Same

LEMMA SumTakeOut ==
    ASSUME NEW S, IsFiniteSet(S), NEW f, Counts(f, S), NEW x \in S
    PROVE  /\ Sum(f, S) = f[x] + Sum(f, S \ {x})
           /\ Sum(f, S \ {x}) \in Nat /\ f[x] \in Nat /\ IsFiniteSet(S \ {x})
<1>1. IsFiniteSet(S \ {x}) /\ f[x] \in Nat /\ \A y \in S \ {x} : f[y] \in Nat
  BY FS_RemoveElement DEF Counts
<1>2. Sum(f, S) = f[x] + Sum(f, S \ {x})
  BY SumSplit DEF Counts
<1>3. Sum(f, S \ {x}) \in Nat
  BY <1>1, SumNat
<1> QED BY <1>1, <1>2, <1>3

LEMMA AllocateAccounted ==
    ASSUME Room, NEW id, NEW size \in Nat, Allocate(id, size)
    PROVE  Accounted' /\ clash' \in BOOLEAN /\ IsFiniteSet(DOMAIN buffers')
<1> PICK D, E, after : D = DOMAIN buffers /\ E = DOMAIN buffers \ {id} /\ after = Put(buffers, id, size)
  OBVIOUS
<1>1. /\ DOMAIN after = D \cup {id} /\ after[id] = size /\ Same(after, buffers, E)
      /\ Counts(buffers, D) /\ Counts(after, D \cup {id})
  BY DEF Put, Room, Same, Counts
<1>2. IsFiniteSet(D) /\ IsFiniteSet(D \cup {id}) /\ IsFiniteSet(E)
  BY FS_AddElement, FS_RemoveElement DEF Room
<1>3. (D \cup {id}) \ {id} = E
  OBVIOUS
<1>4. Sum(after, D \cup {id}) = size + Sum(after, E) /\ Sum(after, E) \in Nat
  BY <1>1, <1>2, <1>3, SumTakeOut
<1>5. Sum(after, E) = Sum(buffers, E)
  BY <1>1, <1>2, SumKept
<1>6. Sum(buffers, D) >= Sum(buffers, E) /\ (id \notin D => Sum(buffers, D) = Sum(buffers, E)) /\ Sum(buffers, D) \in Nat
  <2>1. CASE id \in D
    BY <1>1, <1>2, <2>1, SumTakeOut
  <2>2. CASE id \notin D
    <3>1. E = D
      BY <2>2
    <3>2. Sum(buffers, D) = Sum(buffers, E) /\ Sum(buffers, E) \in Nat
      BY <1>4, <1>5, <3>1
    <3> QED BY <2>2, <3>2
  <2> QED BY <2>1, <2>2
<1>7. SumOfSizes = Sum(buffers, D)
  BY SizesAre
<1>8. buffers' = after /\ SumOfSizes' = Sum(after, D \cup {id})
  BY <1>1, SizesAre DEF Allocate
<1>9. allocated' = allocated + size /\ (clash' <=> clash \/ id \in D) /\ allocated \in Nat
  <2>1. clash' <=> clash \/ id \in DOMAIN buffers
    BY DEF Allocate
  <2>2. allocated' = allocated + size /\ allocated \in Nat
    BY DEF Allocate, Room
  <2> QED BY <2>1, <2>2
<1>10. allocated >= SumOfSizes /\ (~clash => allocated = SumOfSizes)
  BY DEF Room, Accounted
<1>11. Accounted'
  BY <1>4, <1>5, <1>6, <1>7, <1>8, <1>9, <1>10 DEF Accounted
<1>12. clash' \in BOOLEAN
  BY Zenon DEF Allocate
<1> QED BY <1>1, <1>2, <1>8, <1>11, <1>12

LEMMA ReleaseAccounted ==
    ASSUME Room, NEW id \in DOMAIN buffers, Release(id)
    PROVE  Accounted' /\ clash' \in BOOLEAN /\ IsFiniteSet(DOMAIN buffers') /\ allocated' \in 0..(Width - 1)
<1> PICK D, E, after : D = DOMAIN buffers /\ E = DOMAIN buffers \ {id} /\ after = Drop(buffers, id)
  OBVIOUS
<1>1. DOMAIN after = E /\ Same(after, buffers, E) /\ Counts(buffers, D) /\ E = D \ {id}
  BY DEF Drop, Room, Same, Counts
<1>2. IsFiniteSet(D) /\ IsFiniteSet(E)
  BY FS_RemoveElement DEF Room
<1>3. Sum(buffers, D) = buffers[id] + Sum(buffers, E) /\ Sum(buffers, E) \in Nat /\ buffers[id] \in Nat
  BY <1>1, <1>2, SumTakeOut
<1>4. Sum(after, E) = Sum(buffers, E)
  BY <1>1, <1>2, SumKept
<1>5. SumOfSizes = Sum(buffers, D)
  BY SizesAre
<1>6. buffers' = after /\ SumOfSizes' = Sum(after, E)
  BY <1>1, SizesAre DEF Release
<1>7. allocated' = allocated - buffers[id] /\ clash' = clash /\ clash \in BOOLEAN /\ allocated \in 0..(Width - 1)
  BY DEF Release, Room
<1>8. allocated >= SumOfSizes /\ (~clash => allocated = SumOfSizes)
  BY DEF Room, Accounted
<1>9. Accounted'
  BY <1>3, <1>4, <1>5, <1>6, <1>7, <1>8 DEF Accounted
<1>10. allocated' \in 0..(Width - 1)
  BY <1>3, <1>5, <1>7, <1>8, SizesAssumption
<1> QED BY <1>1, <1>2, <1>6, <1>7, <1>9, <1>10

LEMMA NextAccount ==
    Room /\ Launching /\ RunTypes /\ [MemoryNext]_memoryVars => Room' /\ Launching'
<1> SUFFICES ASSUME Room, Launching, RunTypes, [MemoryNext]_memoryVars PROVE Room' /\ Launching'
  OBVIOUS
<1>1. ASSUME UNCHANGED <<buffers, allocated, total, clash>> PROVE Room'
  BY <1>1, SizesAre DEF Room, Accounted
<1>2. ASSUME NEW id \in Ids, NEW size \in Nat, Allocate(id, size), ~Crashes(size) PROVE Room'
  <2>1. Accounted' /\ clash' \in BOOLEAN /\ IsFiniteSet(DOMAIN buffers')
    BY <1>2, AllocateAccounted
  <2>2. allocated' \in 0..(Width - 1)
    BY <1>2, SizesAssumption DEF Allocate, Crashes, Room
  <2> QED BY <1>2, <2>1, <2>2 DEF Allocate, Put, Room
<1>3. ASSUME NEW id \in DOMAIN buffers, Release(id) PROVE Room'
  <2>1. Accounted' /\ clash' \in BOOLEAN /\ IsFiniteSet(DOMAIN buffers') /\ allocated' \in 0..(Width - 1)
    BY <1>3, ReleaseAccounted
  <2> QED BY <1>3, <2>1 DEF Release, Drop, Room
<1>4. ASSUME NEW size \in Nat, UpdateSpec(size) PROVE Room'
  <2>1. UNCHANGED <<buffers, allocated, clash>> /\ total' \in Nat
    BY <1>4 DEF UpdateSpec
  <2> QED BY <2>1, SizesAre DEF Room, Accounted
<1>5. ASSUME UNCHANGED <<engine, at, args, own>> PROVE Launching'
  BY <1>5 DEF Launching
<1>6. Launching
  OBVIOUS
<1>7. ASSUME NEW c \in Conns, Connection(c) PROVE Room' /\ Launching'
  <2>1. ASSUME NEW id \in Ids, NEW size \in Amounts, BufferCreate(c, id, size) PROVE Room' /\ Launching'
    BY <2>1, <1>1, <1>2, <1>5, SizesAssumption DEF BufferCreate, memory, runs
  <2>2. ASSUME NEW id \in Ids, BufferRelease(c, id) PROVE Room' /\ Launching'
    BY <2>2, <1>3, <1>5 DEF BufferRelease, runs
  <2>3. ASSUME NEW size \in Amounts, NEW offset \in {0, 1}, Store(c, size, offset) PROVE Room' /\ Launching'
    <3> DEFINE id == args[c][Len(made[c]) + 1]
    <3>1. id \in Ids
      BY <2>3 DEF Store, RunTypes
    <3>2. ASSUME Fits(size), ~Crashes(size) PROVE Room'
      <4>1. Allocate(id, size) /\ size \in Nat
        BY <2>3, <3>2, SizesAssumption DEF Store
      <4> HIDE DEF id
      <4> QED BY <3>1, <3>2, <4>1, <1>2
    <3>3. ASSUME ~(Fits(size) /\ ~Crashes(size)) PROVE Room'
      <4>1. UNCHANGED <<buffers, allocated, total, clash>>
        BY <2>3, <3>3 DEF Store
      <4> QED BY <4>1, <1>1
    <3>4. own' \in [Conns -> SUBSET Ids]
      BY <1>6, <2>3, <3>1 DEF Launching, Store
    <3>5. Launching'
      BY <1>6, <2>3, <3>4 DEF Launching, Store
    <3> QED BY <3>2, <3>3, <3>5
  <2>4. ASSUME NEW id \in own[c], Clean(c, id) PROVE Room' /\ Launching'
    <3>1. Launching'
      BY <1>6, <2>4 DEF Launching, Clean, Goes, Places
    <3> QED BY <2>4, <3>1, <1>1, <1>3 DEF Clean
  <2>5. ASSUME NEW as \in ArgLists \cup InlineLists \cup {<<>>}, NEW place \in Places, BeginLaunch(c, as, place)
        PROVE  Room' /\ Launching'
    BY <1>1, <1>6, <2>5 DEF Launching, BeginLaunch, memory
  <2>6. CASE VKDispatch(c) \/ (\E as \in ArgLists : NDRange(c, as)) \/ \E as \in InlineLists : CUDALaunch(c, as)
    BY <2>5, <2>6 DEF NDRange, VKDispatch, CUDALaunch, Places
  <2>7. CASE WorkersAnswer(c) \/ MapFails(c) \/ ExecuteFails(c) \/ ReleaseDone(c)
    <3>1. Return(c) /\ UNCHANGED <<memory, engine, own>>
      BY <2>7 DEF WorkersAnswer, MapFails, ExecuteFails, ReleaseDone
    <3>2. After(c) \in Places
      BY DEF After, Places
    <3>3. Launching'
      BY <1>6, <3>1, <3>2 DEF Launching, Return, Goes
    <3> QED BY <1>1, <3>1, <3>3 DEF memory
  <2>8. CASE executeLocallyVK(c) \/ dispatchVKCUDA(c) \/ WorkersLate(c) \/ Execute(c)
    <3>1. /\ UNCHANGED <<memory, engine, args, own>>
          /\ \E place \in Places : at' = [at EXCEPT ![c] = place]
      BY <2>8 DEF executeLocallyVK, dispatchVKCUDA, StoreDone, WorkersLate, Execute, Goes, Places
    <3>2. Launching'
      BY <1>6, <3>1 DEF Launching
    <3> QED BY <1>1, <3>1, <3>2 DEF memory
  <2>9. CASE Map(c)
    <3>1. \A n \in DOMAIN engine' : engine'[n] \in {engine[n], <<c, Len(made[c]) + 1>>} 
                                    /\ (n \notin DOMAIN engine => engine'[n] = <<c, Len(made[c]) + 1>>)
      BY <2>9 DEF Map, CreateCopy, Put
    <3>2. <<c, Len(made[c]) + 1>> \in Copies
      BY DEF Copies, RunTypes
    <3>3. \A n \in DOMAIN engine' : engine'[n] \in Copies
      BY <1>6, <3>1, <3>2 DEF Launching
    <3> QED BY <1>1, <1>6, <2>9, <3>3 DEF Launching, Map, memory
  <2>10. ASSUME NEW k \in left[c], ReleaseCopy(c, k) PROVE Room' /\ Launching'
    BY <1>1, <1>6, <2>10 DEF Launching, ReleaseCopy, Forget, Drop, memory
  <2>11. CASE \E d \in Conns : MapRace(c, d)
    BY <1>1, <1>5, <2>11 DEF MapRace, memory, runs
  <2> QED BY <1>7, <2>1, <2>2, <2>3, <2>4, <2>6, <2>7, <2>8, <2>9, <2>10, <2>11 DEF Connection
<1>8. CASE (\E ws \in Clusters : Recalibrate(ws)) \/ \E size \in Totals : HandleDevice(size)
  <2>1. ASSUME NEW ws \in Clusters, Recalibrate(ws) PROVE Room' /\ Launching'
    <3>1. aggregate(ws).vram \in Nat
      BY <2>1, SizesAssumption DEF Recalibrate
    <3> QED BY <2>1, <3>1, <1>4, <1>5 DEF Recalibrate, runs
  <2>2. ASSUME NEW size \in Totals, HandleDevice(size) PROVE Room' /\ Launching'
    BY <2>2, <1>4, <1>5, SizesAssumption DEF HandleDevice, runs
  <2> QED BY <1>8, <2>1, <2>2
<1>9. CASE UNCHANGED memoryVars
  <2>1. UNCHANGED <<buffers, allocated, total, clash>> /\ UNCHANGED <<engine, at, args, own>>
    BY <1>9 DEF memoryVars, memory, runs
  <2> QED BY <1>1, <1>5, <2>1
<1>10. Room' /\ Launching'
  <2> QED BY <1>7, <1>8, <1>9 DEF MemoryNext
<1> QED BY <1>10

(* The types of the launches are those RunsAreOwn needs.                   *)
AccountInv == RunInv /\ Room /\ Launching

LEMMA AccountHolds == MemorySpec => []AccountInv
<1>1. MemoryInit => AccountInv
  <2> SUFFICES ASSUME MemoryInit PROVE RunInv /\ Room /\ Launching
    BY DEF AccountInv
  <2>1. Room
    <3>1. SumOfSizes = Sum(buffers, {})
      BY SizesAre DEF MemoryInit
    <3>2. DOMAIN buffers = {} /\ allocated = 0 /\ total = DefaultTotal /\ clash \in BOOLEAN
      BY Zenon DEF MemoryInit
    <3>3. allocated \in 0..(Width - 1) /\ total \in Nat
      BY <3>2, SizesAssumption
    <3>4. Accounted
      BY <3>1, <3>2, SumEmpty DEF Accounted
    <3> QED BY <3>2, <3>3, <3>4, FS_EmptySet DEF Room
  <2>2. Launching
    BY DEF MemoryInit, Launching, Places
  <2> QED BY <2>1, <2>2, StartsRun
<1>2. AccountInv /\ [MemoryNext]_memoryVars => AccountInv'
  BY NextRun, NextAccount DEF AccountInv, RunInv
<1> QED BY <1>1, <1>2, PTL DEF MemorySpec

(* TotalAllocated is never below what the buffers take, so that no release *)
(* wraps it around, and it is what they take until a client allocates an   *)
(* id that is in use (vram.go:95-135).                                     *)
THEOREM AllocatedAccounted == MemorySpec => []Accounted
<1>1. AccountInv => Accounted
  BY DEF AccountInv, Room
<1> QED BY <1>1, AccountHolds, PTL

(* The variables have their types; TotalAllocated does not wrap around.    *)
THEOREM MemoryTypesCorrect == MemorySpec => []MemoryTypeOK
<1>1. AccountInv => MemoryTypeOK
  BY DEF AccountInv, Room, Launching, MemoryTypeOK
<1> QED BY <1>1, AccountHolds, PTL
=============================================================================
