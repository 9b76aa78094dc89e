---------------------------- MODULE KernelsProofs ----------------------------
(***************************************************************************)
(* Theorems about Kernels, for any launches: whatever its name, arguments, *)
(* dimensions and sizes.                                                   *)
(*                                                                         *)
(* A kernel is a sequence of steps, so the memory it leaves is a fold over *)
(* them.  Traced gives the memories in between as a function of the number *)
(* of steps, on which Reaches (of CoreMemoryProofs) is the induction.      *)
(***************************************************************************)
EXTENDS CoreMemoryProofs, Kernels, SequenceTheorems

KernelsSpec == KernelsInit /\ [][KernelsNext]_kernelsVars
-----------------------------------------------------------------------------
(* The outcomes of a kernel on a core.                                     *)
Ends == {"done", "error", "panic"}

(* A message whose dimensions are numbers, on buffers that have a size.    *)
Measured(c, mem) == /\ c.gs \in Seq(Nat)
                    /\ \A n \in 1..5 : IntArg(c, n) \in Int /\ Size(c, mem, n) \in Nat

LEMMA CheckedEnds ==
    ASSUME NEW c, NEW mem, NEW count, NEW bufs, NEW dims, NEW loop
    PROVE  /\ Checked(c, mem, count, bufs, dims, loop) \in {Error, Panic, loop}
           /\ Checked(c, mem, count, bufs, dims, loop).end = "done" => \A n \in bufs : Found(c, mem, n)
BY DEF Checked, Error, Panic

(* What a loop is run over: a number of steps.                             *)
Stepped(k) == k.end \in Ends /\ \E n \in Nat : DOMAIN k.steps = 1..n

LEMMA KernelEnds ==
    ASSUME NEW c, NEW mem, Measured(c, mem) PROVE Stepped(Kernel(c, mem))
<1>1. Stepped(Error) /\ Stepped(Panic)
  BY DEF Error, Panic, Ends, Stepped
<1>2. ASSUME NEW count, NEW bufs, NEW dims, NEW loop, Stepped(loop)
      PROVE  Stepped(Checked(c, mem, count, bufs, dims, loop))
  BY <1>1, <1>2, CheckedEnds
<1>3. ASSUME NEW f PROVE Stepped(Loop(<<f>>))
  <2>1. DOMAIN <<f>> = 1..1
    OBVIOUS
  <2> QED BY <2>1 DEF Loop, Ends, Stepped
<1>4. ASSUME NEW n \in Int, NEW steps, DOMAIN steps = 1..n PROVE Stepped(Loop(steps))
  <2>1. PICK m : m = IF n < 0 THEN 0 ELSE n
    OBVIOUS
  <2>2. m \in Nat /\ 1..n = 1..m
    BY <2>1
  <2> QED BY <1>4, <2>2 DEF Loop, Ends, Stepped
<1>5. Dim(c, 1) \in Nat /\ Dim(c, 2) \in Nat
  <2> PICK gs : gs = c.gs
    OBVIOUS
  <2>1. gs \in Seq(Nat)
    BY DEF Measured
  <2>2. Len(gs) \in Nat /\ \A d \in 1..Len(gs) : gs[d] \in Nat
    BY <2>1
  <2> QED BY <2>2 DEF Dim
<1>6. \A n \in 1..5 : IntArg(c, n) \in Int /\ Size(c, mem, n) \in Nat
  BY DEF Measured
<1>7. ASSUME NEW n \in Int, NEW m \in Int PROVE Or(n, m) \in Int
  BY DEF Or
<1>8. \A bufs, reads : Stepped(Each(c, mem, bufs, reads))
  BY <1>3 DEF Each
<1>9. /\ Stepped(ReLU(c, mem)) /\ Stepped(Sigmoid(c, mem)) /\ Stepped(GELU(c, mem))
      /\ Stepped(ElementWiseMul(c, mem)) /\ Stepped(ScalarMul(c, mem))
  BY <1>2, <1>8 DEF ReLU, Sigmoid, GELU, ElementWiseMul, ScalarMul
<1>10. Stepped(VectorAdd(c, mem))
  BY <1>1, <1>3 DEF VectorAdd
<1>11. Stepped(Softmax(c, mem)) /\ Stepped(ReduceSum(c, mem))
  BY <1>1, <1>2, <1>3 DEF Softmax, ReduceSum
<1>12. Stepped(MatMul(c, mem))
  <2>1. Or(Dim(c, 2), 1) \in Int
    BY <1>5, <1>7
  <2>2. Dim(c, 1) * Or(Dim(c, 2), 1) \in Int
    BY <1>5, <2>1
  <2> QED BY <1>1, <1>2, <1>4, <2>2 DEF MatMul
<1>13. Stepped(Transpose(c, mem))
  <2> PICK rows, cols : /\ rows = IF Or(Dim(c, 2), IntArg(c, 3)) = 0 \/ Dim(c, 1) = 0 THEN Size(c, mem, 1) ELSE Dim(c, 1)
                        /\ cols = IF Or(Dim(c, 2), IntArg(c, 3)) = 0 \/ Dim(c, 1) = 0 THEN 1 ELSE Or(Dim(c, 2), IntArg(c, 3))
    OBVIOUS
  <2>1. rows \in Int /\ cols \in Int
    BY <1>5, <1>6 DEF Or
  <2>2. rows * cols \in Int
    BY <2>1
  <2> QED BY <1>2, <1>4, <2>2 DEF Transpose
<1>15. \A dim \in Int : Shape(c, mem, dim).rows \in Int
  BY <1>5, <1>6 DEF Shape
<1>16. Stepped(LayerNorm(c, mem))
  <2>1. Or(Dim(c, 2), IntArg(c, 5)) \in Int
    BY <1>5, <1>6 DEF Or
  <2>2. Shape(c, mem, Or(Dim(c, 2), IntArg(c, 5))).rows \in Int
    BY <1>15, <2>1
  <2> QED BY <1>2, <1>4, <2>2 DEF LayerNorm, Rows
<1>17. Stepped(RMSNorm(c, mem))
  <2>1. Or(Dim(c, 2), IntArg(c, 4)) \in Int
    BY <1>5, <1>6 DEF Or
  <2>2. Shape(c, mem, Or(Dim(c, 2), IntArg(c, 4))).rows \in Int
    BY <1>15, <2>1
  <2> QED BY <1>2, <1>4, <2>2 DEF RMSNorm, Rows
<1>18. Stepped(AddBias(c, mem))
  BY <1>1, <1>2, <1>4, <1>6, <1>15 DEF AddBias, Rows
<1>19. Stepped(RoPE(c, mem))
  <2> PICK head, rows : /\ head = Or(Or(Dim(c, 2), IntArg(c, 4)), Size(c, mem, 1))
                        /\ rows = Or(Dim(c, 1), IF head > 0 THEN Size(c, mem, 1) \div head ELSE 0)
    OBVIOUS
  <2>1. head \in Int
    BY <1>5, <1>6 DEF Or
  <2>2. rows \in Int /\ head \div 2 \in Int
    BY <1>5, <1>6, <2>1 DEF Or
  <2>3. rows * (head \div 2) \in Int
    BY <2>2
  <2> QED BY <1>1, <1>2, <1>4, <2>3 DEF RoPE
<1> QED
  BY <1>1, <1>9, <1>10, <1>11, <1>12, <1>13, <1>16, <1>17, <1>18, <1>19 DEF Kernel

LEMMA MaxIn ==
    ASSUME NEW n \in Nat, NEW s \in SUBSET (0..n), s # {}
    PROVE  Max(s) \in s /\ \A x \in s : x <= Max(s)
<1> PICK N : N = {m \in 0..n : \A t \in SUBSET (0..m) : t # {} => \E x \in t : \A y \in t : x >= y}
  OBVIOUS
<1>1. 0 \in N
  <2>1. 0..0 = {0}
    OBVIOUS
  <2>2. ASSUME NEW t \in SUBSET (0..0), t # {} PROVE \E x \in t : \A y \in t : x >= y
    <3>1. t = {0}
      BY <2>1, <2>2
    <3> QED BY <3>1
  <2> QED BY <2>2
<1>2. ASSUME NEW m \in N, m < n PROVE m + 1 \in N
  <2>1. ASSUME NEW t \in SUBSET (0..(m + 1)), t # {} PROVE \E x \in t : \A y \in t : x >= y
    <3>1. CASE m + 1 \in t
      BY <3>1
    <3>2. CASE m + 1 \notin t
      <4>1. t \in SUBSET (0..m)
        BY <3>2
      <4> QED BY <2>1, <4>1
    <3> QED BY <3>1, <3>2
  <2> QED BY <1>2, <2>1
<1>3. n \in N
  BY <1>1, <1>2, Reaches
<1>4. \E x \in s : \A y \in s : x >= y
  BY <1>3
<1> QED BY <1>4 DEF Max

LEMMA MaxOfInterval == ASSUME NEW n \in Nat \ {0} PROVE Max(1..n) = n
<1>1. n \in Nat /\ n \in 1..n /\ 1..n \in SUBSET (0..n) /\ 1..n # {}
  OBVIOUS
<1>2. Max(1..n) \in 1..n /\ \A x \in 1..n : x <= Max(1..n)
  BY <1>1, MaxIn
<1> QED BY <1>1, <1>2
-----------------------------------------------------------------------------
(* The memory a loop leaves is the last of those its steps leave one after *)
(* the other.                                                              *)
Reduced(c, mem, steps) == FoldLeft(LAMBDA m, s : StepOf(c, m, s), mem, steps)
Folding(g, c, mem, steps) ==
    g = [s \in SUBSET DOMAIN steps |->
           IF s = {} THEN mem ELSE StepOf(c, g[s \ {Max(s)}], steps[Max(s)])]
FoldRule(g, c, mem, steps, s) ==
    g[s] = IF s = {} THEN mem ELSE StepOf(c, g[s \ {Max(s)}], steps[Max(s)])

LEMMA ReducedIsChosen ==
    ASSUME NEW c, NEW mem, NEW steps
    PROVE  Reduced(c, mem, steps) = (CHOOSE g : Folding(g, c, mem, steps))[DOMAIN steps]
BY DEF Reduced, FoldLeft, MapThenFoldSet, Folding

LEMMA FoldExists ==
    ASSUME NEW c, NEW mem, NEW steps, NEW n \in Nat, DOMAIN steps = 1..n
    PROVE  \E g : Folding(g, c, mem, steps)
<1> PICK S : S = 1..n
  OBVIOUS
<1>1. IsFiniteSet(S) /\ Cardinality(S) = n
  BY FS_Interval
<1>2. \A s \in SUBSET S : IsFiniteSet(s) /\ Cardinality(s) \in 0..n
  <2>1. \A s \in SUBSET S : IsFiniteSet(s) /\ Cardinality(s) <= n
    BY <1>1, FS_Subset
  <2>2. \A s \in SUBSET S : Cardinality(s) \in Nat
    BY <2>1, FS_CardinalityType
  <2> QED BY <2>1, <2>2
<1> PICK N : N = {m \in 0..n : \E g : \A s \in SUBSET S : Cardinality(s) <= m => FoldRule(g, c, mem, steps, s)}
  OBVIOUS
<1>3. 0 \in N
  <2> PICK g : g = [s \in SUBSET S |-> mem]
    OBVIOUS
  <2>1. ASSUME NEW s \in SUBSET S, Cardinality(s) <= 0 PROVE FoldRule(g, c, mem, steps, s)
    <3>1. s = {}
      BY <1>2, <2>1, FS_EmptySet
    <3> QED BY <3>1 DEF FoldRule
  <2> QED BY <2>1
<1>4. ASSUME NEW m \in N, m < n PROVE m + 1 \in N
  <2>1. PICK g : \A s \in SUBSET S : Cardinality(s) <= m => FoldRule(g, c, mem, steps, s)
    OBVIOUS
  <2> PICK k : k = [s \in SUBSET S |-> IF s = {} THEN mem ELSE StepOf(c, g[s \ {Max(s)}], steps[Max(s)])]
    OBVIOUS
  <2>2. ASSUME NEW s \in SUBSET S, Cardinality(s) <= m PROVE k[s] = g[s]
    BY <2>1, <2>2 DEF FoldRule
  <2>3. ASSUME NEW s \in SUBSET S, Cardinality(s) <= m + 1 PROVE FoldRule(k, c, mem, steps, s)
    <3>1. CASE s = {}
      BY <3>1 DEF FoldRule
    <3>2. CASE s # {}
      <4> PICK t : t = s \ {Max(s)}
        OBVIOUS
      <4>1. t \in SUBSET S /\ Cardinality(t) <= m
        <5>1. Max(s) \in s
          <6>1. s \in SUBSET (0..n)
            OBVIOUS
          <6> QED BY <3>2, <6>1, MaxIn
        <5>2. t \in SUBSET S /\ Cardinality(t) = Cardinality(s) - 1
          BY <1>1, <5>1, Smaller
        <5>3. m \in Int /\ Cardinality(s) \in Int
          BY <1>2, <1>4
        <5> QED BY <2>3, <5>2, <5>3
      <4>2. k[t] = g[t]
        BY <2>2, <4>1
      <4>3. k[s] = StepOf(c, g[t], steps[Max(s)])
        BY <3>2
      <4> QED BY <3>2, <4>2, <4>3 DEF FoldRule
    <3> QED BY <3>1, <3>2
  <2>4. m + 1 \in 0..n
    BY <1>4
  <2> QED BY <2>3, <2>4
<1>5. n \in N
  BY <1>3, <1>4, Reaches
<1>6. PICK g : \A s \in SUBSET S : Cardinality(s) <= n => FoldRule(g, c, mem, steps, s)
  BY <1>5
<1>7. \A s \in SUBSET S : FoldRule(g, c, mem, steps, s)
  BY <1>2, <1>6
<1> PICK k : k = [s \in SUBSET S |-> g[s]]
  OBVIOUS
<1>8. ASSUME NEW s \in SUBSET S
      PROVE  k[s] = IF s = {} THEN mem ELSE StepOf(c, k[s \ {Max(s)}], steps[Max(s)])
  <2>1. s \ {Max(s)} \in SUBSET S
    OBVIOUS
  <2>2. k[s] = g[s] /\ k[s \ {Max(s)}] = g[s \ {Max(s)}]
    BY <2>1
  <2> QED BY <1>7, <2>2 DEF FoldRule
<1>9. k = [s \in SUBSET S |-> IF s = {} THEN mem ELSE StepOf(c, k[s \ {Max(s)}], steps[Max(s)])]
  BY <1>8
<1>10. Folding(k, c, mem, steps)
  BY <1>9 DEF Folding
<1> QED BY <1>10

Trace(M, c, mem, steps, n) ==
    M[0] = mem /\ \A m \in 1..n : M[m] = StepOf(c, M[m - 1], steps[m])

LEMMA Traced ==
    ASSUME NEW c, NEW mem, NEW steps, NEW n \in Nat, DOMAIN steps = 1..n
    PROVE  \E M : Trace(M, c, mem, steps, n) /\ M[n] = Reduced(c, mem, steps)
<1> PICK g : g = CHOOSE a : Folding(a, c, mem, steps)
  OBVIOUS
<1>1. Folding(g, c, mem, steps)
  BY FoldExists
<1> PICK M : M = [m \in 0..n |-> g[1..m]]
  OBVIOUS
<1>2. M[0] = mem
  <2>1. 1..0 = {} /\ {} \in SUBSET (1..n)
    OBVIOUS
  <2>2. g[{}] = mem
    BY <1>1, <2>1 DEF Folding
  <2>3. M[0] = g[1..0]
    OBVIOUS
  <2> QED BY <2>1, <2>2, <2>3
<1>3. ASSUME NEW m \in 1..n PROVE M[m] = StepOf(c, M[m - 1], steps[m])
  <2>1. Max(1..m) = m
    BY MaxOfInterval
  <2>2. 1..m # {} /\ 1..m \in SUBSET (1..n) /\ (1..m) \ {m} = 1..(m - 1) /\ m - 1 \in 0..n /\ m \in 0..n
    <3>1. m \in 1..m /\ 1..m \in SUBSET (1..n)
      OBVIOUS
    <3>3. m - 1 \in 0..n /\ m \in 0..n
      OBVIOUS
    <3>2. (1..m) \ {m} = 1..(m - 1)
      OBVIOUS
    <3> QED BY <3>1, <3>2, <3>3
  <2>3. g[1..m] = StepOf(c, g[(1..m) \ {m}], steps[m])
    BY <1>1, <2>1, <2>2 DEF Folding
  <2>4. M[m] = g[1..m] /\ M[m - 1] = g[1..(m - 1)]
    BY <2>2
  <2> QED BY <2>2, <2>3, <2>4
<1>4. M[n] = Reduced(c, mem, steps)
  BY ReducedIsChosen
<1> QED BY <1>2, <1>3, <1>4 DEF Trace

(* No step writes a buffer that is not the output.                         *)
WritesOnly(b, before, after) ==
    DOMAIN after = DOMAIN before /\ \A a \in DOMAIN before : a # b => after[a] = before[a]

LEMMA OthersStay ==
    ASSUME NEW c, NEW mem, NEW steps, NEW n \in Nat, DOMAIN steps = 1..n
    PROVE  WritesOnly(c.args[OutArg(c)].id, mem, Reduced(c, mem, steps))
<1>1. PICK M : Trace(M, c, mem, steps, n) /\ M[n] = Reduced(c, mem, steps)
  BY Traced
<1> PICK N : N = {m \in 0..n : WritesOnly(c.args[OutArg(c)].id, mem, M[m])}
  OBVIOUS
<1>2. 0 \in N
  BY <1>1 DEF Trace, WritesOnly
<1>3. ASSUME NEW m \in N, m < n PROVE m + 1 \in N
  <2>1. m + 1 \in 1..n /\ (m + 1) - 1 = m
    BY <1>3
  <2>2. M[m + 1] = StepOf(c, M[m], steps[m + 1])
    BY <1>1, <2>1 DEF Trace
  <2>3. WritesOnly(c.args[OutArg(c)].id, mem, StepOf(c, M[m], steps[m + 1]))
    <3>1. WritesOnly(c.args[OutArg(c)].id, mem, M[m])
      OBVIOUS
    <3> QED BY <3>1 DEF StepOf, WritesOnly
  <2> QED BY <2>1, <2>2, <2>3
<1>4. n \in N
  BY <1>2, <1>3, Reaches
<1> QED BY <1>1, <1>4
-----------------------------------------------------------------------------
(* What a route made of the launch is known from the launch.               *)
Answered(outcome, ids) == [end |-> outcome.end, out |-> outcome.mem[launch.args[OutArg(launch)].id],
                           vram |-> WriteBack(Vram(launch), outcome, ids)]
OnCore == ExecuteNDRange([launch EXCEPT !.args = LocalArgs(@)], Vram(launch))
OnOneWorker == ExecuteNDRange(OnWorker, Vram(launch))
OnGpu == executeOnGPU(OnWorker, Vram(launch))
OnShare(lo, n) == ExecuteNDRange(Cut(lo, n), Vram(launch))
OnLow == OnShare(0, launch.cut)
OnHigh == OnShare(launch.cut, Dim(launch, CutDim) - launch.cut)

KInv == /\ KernelsTypeOK
        /\ DOMAIN ran = Routes
        /\ Ran("local") => ran["local"] = Answered(OnCore, BufferIds(launch.args))
        /\ Ran("whole") => ran["whole"] = Answered(OnOneWorker, {LastBuffer(launch.args)})
        /\ Ran("gpu") => ran["gpu"] = Answered(OnGpu, {LastBuffer(launch.args)})
        /\ Ran("low") => ran["low"] = Answered(OnLow, {LastBuffer(launch.args)})
        /\ Ran("high") => ran["high"] = Answered(OnHigh, {LastBuffer(launch.args)})

LEMMA Measures ==
    ASSUME LaunchesAssumption, NEW l \in Launches, NEW k \in Nat,
           NEW c, DOMAIN c.args = 1..k, c.gs \in Seq(Nat), c.args \in Seq(Arguments)
    PROVE  Measured(c, Vram(l))
<1>1. ASSUME NEW n \in 1..5 PROVE IntArg(c, n) \in Int
  <2>1. CASE Has(c, n, {"int"})
    <3>1. c.args[n] \in Arguments /\ c.args[n].is = "int"
      BY <2>1 DEF Has
    <3>2. c.args[n].val \in Int
      BY <3>1 DEF Arguments
    <3> QED BY <2>1, <3>2 DEF IntArg
  <2> QED BY <2>1 DEF IntArg
<1>2. ASSUME NEW n \in 1..5 PROVE Size(c, Vram(l), n) \in Nat
  <2>1. CASE Found(c, Vram(l), n)
    <3> PICK b : b = c.args[n].id
      OBVIOUS
    <3>1. b \in DOMAIN l.sizes /\ l.sizes[b] \in Nat
      BY <2>1 DEF Found, Vram, LaunchesAssumption
    <3>2. Vram(l)[b] = [x \in 1..l.sizes[b] |-> {<<b, x - 1>>}]
      BY <3>1 DEF Vram
    <3>3. Len(Vram(l)[b]) \in Nat
      BY <3>1, <3>2
    <3> QED BY <2>1, <3>3 DEF Size, Buffer, Found
  <2>2. CASE ~Found(c, Vram(l), n)
    BY <2>2 DEF Size, Buffer, Found
  <2> QED BY <2>1, <2>2
<1> QED BY <1>1, <1>2 DEF Measured

LEMMA LocalArgsAre ==
    ASSUME NEW list \in Seq(Arguments) PROVE LocalArgs(list) \in Seq(Arguments)
<1> PICK s : s = {0} \cup {n \in DOMAIN list : list[n].is # "none"}
  OBVIOUS
<1>1. s \in SUBSET (0..Len(list)) /\ s # {} /\ Len(list) \in Nat
  OBVIOUS
<1>2. Max(s) \in 0..Len(list)
  BY <1>1, MaxIn
<1>3. ASSUME NEW n \in 1..Max(s) PROVE Keep(list[n]) \in Arguments
  <2>1. list[n] \in Arguments
    BY <1>2
  <2> QED BY <2>1 DEF Keep, Arguments
<1>4. LocalArgs(list) = [n \in 1..Max(s) |-> Keep(list[n])]
  BY DEF LocalArgs
<1> QED BY <1>2, <1>3, <1>4

LEMMA RemoteArgsAre ==
    ASSUME NEW list \in Seq(Arguments) PROVE RemoteArgs(list) \in Seq(Arguments)
<1>1. ASSUME NEW n \in DOMAIN list PROVE RemoteArgs(list)[n] \in Arguments
  <2>1. list[n] \in Arguments
    OBVIOUS
  <2> QED BY <2>1 DEF RemoteArgs, Arguments
<1>2. DOMAIN RemoteArgs(list) = 1..Len(list) /\ Len(list) \in Nat
  BY DEF RemoteArgs
<1>3. RemoteArgs(list) = [n \in 1..Len(list) |-> RemoteArgs(list)[n]]
  BY DEF RemoteArgs
<1>4. DOMAIN list = 1..Len(list)
  BY LenProperties
<1>5. RemoteArgs(list) \in [1..Len(list) -> Arguments]
  BY <1>1, <1>3, <1>4
<1> QED BY <1>2, <1>5, SeqDef

LEMMA ListedBy == ASSUME NEW S, NEW n \in Nat, NEW f \in [1..n -> S] PROVE f \in Seq(S)
BY SeqDef

LEMMA Runs ==
    ASSUME LaunchesAssumption, launch \in Launches, NEW c, c.args \in Seq(Arguments), c.gs \in Seq(Nat)
    PROVE  Stepped(Kernel(c, Vram(launch)))
<1>1. Len(c.args) \in Nat /\ DOMAIN c.args = 1..Len(c.args)
  BY LenProperties
<1> QED BY <1>1, Measures, KernelEnds

LEMMA Shaped ==
    ASSUME NEW outcome, NEW ids
    PROVE  /\ Answered(outcome, ids).end = outcome.end
           /\ DOMAIN Answered(outcome, ids).vram = DOMAIN launch.sizes
           /\ Answered(outcome, ids) # <<>>
<1>1. DOMAIN Vram(launch) = DOMAIN launch.sizes
  BY DEF Vram
<1>2. DOMAIN WriteBack(Vram(launch), outcome, ids) = DOMAIN Vram(launch)
  BY DEF WriteBack
<1>3. Answered(outcome, ids) # <<>>
  <2>1. "end" \in DOMAIN Answered(outcome, ids) /\ DOMAIN <<>> = {}
    BY DEF Answered
  <2> QED BY <2>1
<1> QED BY <1>1, <1>2, <1>3 DEF Answered

LEMMA AnswerKeeps ==
    ASSUME KInv, NEW r \in Routes, NEW outcome, NEW ids, Answer(r, outcome, ids),
           outcome.end \in Ends \cup {"undefined"},
           r = "local" => outcome = OnCore /\ ids = BufferIds(launch.args),
           r = "whole" => outcome = OnOneWorker, r = "gpu" => outcome = OnGpu,
           r = "low" => outcome = OnLow, r = "high" => outcome = OnHigh,
           r # "local" => ids = {LastBuffer(launch.args)}
    PROVE  KInv'
<1>1. launch' = launch /\ ran' = [ran EXCEPT ![r] = Answered(outcome, ids)]
  BY DEF Answer, Answered
<1>2. /\ DOMAIN ran' = Routes /\ ran'[r] = Answered(outcome, ids)
      /\ \A q \in Routes \ {r} : ran'[q] = ran[q]
  BY <1>1 DEF KInv
<1>3. KernelsTypeOK'
  <2>1. \A q \in Routes : ran'[q] # <<>> =>
           /\ ran'[q].end \in {"done", "error", "panic", "undefined"}
           /\ DOMAIN ran'[q].vram = DOMAIN launch.sizes
    BY <1>2, Shaped DEF KInv, KernelsTypeOK, Ran, Ends
  <2> QED BY <1>1, <2>1 DEF KInv, KernelsTypeOK, Ran
<1>4. OnCore' = OnCore /\ OnOneWorker' = OnOneWorker /\ OnGpu' = OnGpu /\ OnLow' = OnLow /\ OnHigh' = OnHigh
  BY <1>1 DEF OnCore, OnOneWorker, OnWorker, OnGpu, OnLow, OnHigh, OnShare, Cut, CutDim
<1>5. \A o, i : Answered(o, i)' = Answered(o, i)
  BY <1>1 DEF Answered
<1> QED
  BY <1>1, <1>2, <1>3, <1>4, <1>5 DEF KInv, Ran, Routes

LEMMA InitKernels == KernelsInit => KInv
BY DEF KernelsInit, KInv, KernelsTypeOK, Ran, Routes

LEMMA NextKernels == ASSUME LaunchesAssumption, KInv, [KernelsNext]_kernelsVars PROVE KInv'
<1> PICK c : c = launch
  OBVIOUS
<1>1. c \in Launches /\ {"args", "gs", "go", "cut"} \subseteq DOMAIN c
      /\ c.args \in Seq(Arguments) /\ c.gs \in Seq(Nat) /\ c.cut \in Nat
  BY DEF KInv, KernelsTypeOK, LaunchesAssumption
<1>2. LocalArgs(c.args) \in Seq(Arguments) /\ RemoteArgs(c.args) \in Seq(Arguments)
  BY <1>1, LocalArgsAre, RemoteArgsAre
<1>3. CASE ExecuteLocally
  <2>1. Stepped(Kernel([c EXCEPT !.args = LocalArgs(@)], Vram(launch)))
    BY <1>1, <1>2, Runs
  <2>2. OnCore.end \in Ends
    BY <2>1 DEF OnCore, ExecuteNDRange, Stepped
  <2>3. Answer("local", OnCore, BufferIds(launch.args))
    BY <1>3 DEF ExecuteLocally, OnCore
  <2> QED BY <2>2, <2>3, AnswerKeeps DEF Routes
<1>4. CASE ExecuteOnGpuWorker
  <2>1. executeOnGPU(OnWorker, Vram(launch)).end \in Ends \cup {"undefined"}
    BY DEF executeOnGPU, Ends
  <2>2. Answer("gpu", OnGpu, {LastBuffer(launch.args)})
    BY <1>4 DEF ExecuteOnGpuWorker, OnGpu
  <2> QED BY <2>1, <2>2, AnswerKeeps DEF Routes, OnGpu
<1>5. CASE ExecuteOnWorker
  <2>1. Stepped(Kernel(OnWorker, Vram(launch)))
    BY <1>1, <1>2, Runs DEF OnWorker
  <2>2. OnOneWorker.end \in Ends
    BY <2>1 DEF OnOneWorker, ExecuteNDRange, Stepped
  <2>3. Answer("whole", OnOneWorker, {LastBuffer(launch.args)})
    BY <1>5 DEF ExecuteOnWorker, OnOneWorker
  <2> QED BY <2>2, <2>3, AnswerKeeps DEF Routes
<1>6. ASSUME NEW r \in {"low", "high"}, NEW lo, NEW n \in Int, ExecuteShare(r, lo, n),
             r = "low" => OnShare(lo, n) = OnLow, r = "high" => OnShare(lo, n) = OnHigh
      PROVE  KInv'
  <2>1. Cut(lo, n).args = RemoteArgs(c.args) /\ Cut(lo, n).gs = [c.gs EXCEPT ![CutDim] = n]
    BY <1>1 DEF Cut, OnWorker
  <2>2. n \in Nat
    BY <1>6 DEF ExecuteShare
  <2>3. [c.gs EXCEPT ![CutDim] = n] \in Seq(Nat)
    <3> PICK gs : gs = c.gs
      OBVIOUS
    <3>1. gs \in [1..Len(gs) -> Nat] /\ Len(gs) \in Nat
      BY <1>1, LenProperties
    <3> PICK h : h = [gs EXCEPT ![CutDim] = n]
      OBVIOUS
    <3>2. h \in [1..Len(gs) -> Nat]
      BY <2>2, <3>1
    <3>3. h \in Seq(Nat)
      BY <3>1, <3>2, ListedBy
    <3> QED BY <3>3
  <2>4. Stepped(Kernel(Cut(lo, n), Vram(launch)))
    BY <1>1, <1>2, <2>1, <2>3, Runs
  <2>5. OnShare(lo, n).end \in Ends
    BY <2>4 DEF ExecuteNDRange, Stepped, OnShare
  <2>6. Answer(r, OnShare(lo, n), {LastBuffer(launch.args)})
    BY <1>6 DEF ExecuteShare, OnShare
  <2> QED BY <1>6, <2>5, <2>6, AnswerKeeps DEF Routes
<1>7. CASE ExecuteLow
  <2>1. launch.cut \in Int
    BY <1>1
  <2> QED BY <1>6, <1>7, <2>1 DEF ExecuteLow, OnLow
<1>8. CASE ExecuteHigh
  <2>1. Dim(launch, CutDim) - launch.cut \in Int
    <3>1. Dim(c, 1) \in Nat /\ Dim(c, 2) \in Nat
      <4> PICK gs : gs = c.gs
        OBVIOUS
      <4>1. Len(gs) \in Nat /\ \A d \in 1..Len(gs) : gs[d] \in Nat
        BY <1>1
      <4> QED BY <4>1 DEF Dim
    <3> QED BY <1>1, <3>1 DEF CutDim
  <2> QED BY <1>6, <1>8, <2>1 DEF ExecuteHigh, OnHigh
<1>9. CASE UNCHANGED kernelsVars
  BY <1>9 DEF kernelsVars, KInv, KernelsTypeOK, Ran, Answered, OnCore, OnOneWorker, OnWorker, OnGpu, OnLow, OnHigh,
              OnShare, Cut, CutDim
<1> QED BY <1>3, <1>4, <1>5, <1>7, <1>8, <1>9 DEF KernelsNext

(* Every route ends a launch in an outcome the code knows, and keeps the   *)
(* buffers of the client (kernelsVars of ipc_server.go and fallback.go).   *)
THEOREM KernelsTypesCorrect == KernelsSpec => []KernelsTypeOK
<1>1. KInv => KernelsTypeOK
  BY DEF KInv
<1> QED BY <1>1, LaunchesAssumption, InitKernels, NextKernels, PTL DEF KernelsSpec

(* A launch of integers and buffers reaches the kernel as the client gave  *)
(* it, whichever route carries it.                                         *)
LEMMA PlainArgs ==
    ASSUME NEW list \in Seq(Arguments), \A n \in DOMAIN list : list[n].is \in {"buffer", "int"}
    PROVE  LocalArgs(list) = list /\ RemoteArgs(list) = list
<1>1. Len(list) \in Nat /\ list \in [1..Len(list) -> Arguments] /\ DOMAIN list = 1..Len(list)
  BY LenProperties
<1> PICK s : s = {0} \cup {n \in DOMAIN list : list[n].is # "none"}
  OBVIOUS
<1>2. s = 0..Len(list)
  BY <1>1
<1>3. Max(s) = Len(list)
  <2>1. s \in SUBSET (0..Len(list)) /\ s # {} /\ Len(list) \in s
    BY <1>1, <1>2
  <2>2. Max(s) \in 0..Len(list) /\ Len(list) <= Max(s)
    BY <1>1, <1>2, <2>1, MaxIn
  <2> QED BY <1>1, <2>2
<1>4. LocalArgs(list) = [n \in 1..Len(list) |-> Keep(list[n])]
  BY <1>3 DEF LocalArgs
<1>5. \A n \in 1..Len(list) : Keep(list[n]) = list[n]
  BY <1>1 DEF Keep
<1>6. LocalArgs(list) = list
  BY <1>1, <1>4, <1>5
<1>7. RemoteArgs(list) = list
  BY <1>1 DEF RemoteArgs
<1> QED BY <1>6, <1>7

(* A kernel that ran had found its output.                                 *)
LEMMA DoneFound ==
    ASSUME NEW c, NEW mem, Kernel(c, mem).end = "done" PROVE Found(c, mem, OutArg(c))
<1>1. Error.end = "error" /\ Panic.end = "panic"
  BY DEF Error, Panic
<1>2. ASSUME NEW count, NEW bufs, NEW dims, NEW loop, Checked(c, mem, count, bufs, dims, loop).end = "done",
             NEW n \in bufs
      PROVE  Found(c, mem, n)
  BY <1>2, CheckedEnds
<1>3. CASE c.name \in {"matmul", "matrix_mul", "gemm"}
  <2>1. Kernel(c, mem) = MatMul(c, mem) /\ OutArg(c) = 3
    BY <1>3 DEF Kernel, OutArg
  <2> QED BY <1>2, <2>1 DEF MatMul
<1>4. CASE c.name = "vector_add"
  <2>1. Kernel(c, mem) = VectorAdd(c, mem) /\ OutArg(c) = 3
    BY <1>4 DEF Kernel, OutArg
  <2> QED BY <1>1, <2>1 DEF VectorAdd
<1>5. CASE c.name \in {"element_wise_mul", "hadamard"}
  <2>1. Kernel(c, mem) = ElementWiseMul(c, mem) /\ OutArg(c) = 3
    BY <1>5 DEF Kernel, OutArg
  <2> QED BY <1>2, <2>1 DEF ElementWiseMul
<1>6. CASE c.name \notin {"vector_add", "matmul", "matrix_mul", "gemm", "element_wise_mul", "hadamard"}
  <2>1. OutArg(c) = 2
    BY <1>6 DEF OutArg
  <2> SUFFICES ASSUME ~Found(c, mem, 2) PROVE FALSE
    BY <2>1
  <2>2. ASSUME NEW count, NEW dims, NEW loop PROVE Checked(c, mem, count, {1, 2}, dims, loop).end # "done"
    BY <2>2, CheckedEnds
  <2>3. /\ Softmax(c, mem).end # "done" /\ ReLU(c, mem).end # "done" /\ GELU(c, mem).end # "done"
        /\ ScalarMul(c, mem).end # "done" /\ Transpose(c, mem).end # "done"
        /\ ReduceSum(c, mem).end # "done" /\ Sigmoid(c, mem).end # "done"
    BY <2>2 DEF Softmax, ReLU, GELU, ScalarMul, Transpose, ReduceSum, Sigmoid
  <2>4. /\ LayerNorm(c, mem).end # "done" /\ RMSNorm(c, mem).end # "done" /\ RoPE(c, mem).end # "done"
    BY <2>2 DEF LayerNorm, RMSNorm, RoPE
  <2>5. AddBias(c, mem).end # "done"
    BY <1>1, <2>2 DEF AddBias
  <2> QED BY <1>1, <1>6, <2>3, <2>4, <2>5 DEF Kernel
<1> QED BY <1>3, <1>4, <1>5, <1>6

(* Of the buffers of a plain launch only the output is last.               *)
LEMMA LastIsOutput ==
    ASSUME NEW l, l.args \in Seq(Arguments), Plain(l), Has(l, OutArg(l), {"buffer"})
    PROVE  LastBuffer(l.args) = l.args[OutArg(l)].id
<1>1. Len(l.args) \in Nat /\ DOMAIN l.args = 1..Len(l.args)
  BY LenProperties
<1> PICK s : s = {m \in DOMAIN l.args : l.args[m].is = "buffer"}
  OBVIOUS
<1>2. OutArg(l) \in s /\ \A m \in s : m <= OutArg(l)
  BY <1>1 DEF Plain, Has, OutArg
<1>3. s \in SUBSET (0..Len(l.args)) /\ s # {}
  BY <1>1, <1>2
<1>4. Max(s) = OutArg(l)
  <2>1. Max(s) \in s /\ OutArg(l) <= Max(s)
    BY <1>1, <1>2, <1>3, MaxIn
  <2>2. Max(s) <= OutArg(l) /\ Max(s) \in Int
    <3> PICK top : top = Max(s)
      OBVIOUS
    <3>1. top \in s
      BY <2>1
    <3>2. top <= OutArg(l)
      BY <1>2, <3>1
    <3>3. top \in 0..Len(l.args)
      BY <1>3, <3>1
    <3> QED BY <1>1, <3>2, <3>3
  <2>3. OutArg(l) \in Int
    BY DEF OutArg
  <2> QED BY <2>1, <2>2, <2>3
<1> QED BY <1>4 DEF LastBuffer

LEMMA SameWhenPlain ==
    ASSUME LaunchesAssumption, KInv, Ran("local"), Ran("whole"), Plain(launch) PROVE SameAnswer
<1> PICK c : c = [launch EXCEPT !.args = launch.args]
  OBVIOUS
<1>1. {"args", "gs", "name"} \subseteq DOMAIN launch /\ launch.args \in Seq(Arguments) /\ launch.gs \in Seq(Nat)
  BY DEF KInv, KernelsTypeOK, LaunchesAssumption
<1>2. c.args = launch.args /\ c.gs = launch.gs /\ c.name = launch.name
  BY <1>1
<1>3. OnCore = ExecuteNDRange(c, Vram(launch)) /\ OnOneWorker = ExecuteNDRange(c, Vram(launch))
  BY <1>1, PlainArgs DEF OnCore, OnOneWorker, OnWorker, Plain
<1> PICK o : o = ExecuteNDRange(c, Vram(launch))
  OBVIOUS
<1>4. ran["local"] = Answered(o, BufferIds(launch.args)) /\ ran["whole"] = Answered(o, {LastBuffer(launch.args)})
  BY <1>3 DEF KInv
<1>5. ASSUME o.end = "done"
      PROVE  WriteBack(Vram(launch), o, BufferIds(launch.args)) = WriteBack(Vram(launch), o, {LastBuffer(launch.args)})
  <2>1. Kernel(c, Vram(launch)).end = "done" /\ o.mem = Reduced(c, Vram(launch), Kernel(c, Vram(launch)).steps)
    BY <1>5 DEF ExecuteNDRange, Reduced
  <2>2. PICK n \in Nat : DOMAIN Kernel(c, Vram(launch)).steps = 1..n
    BY <1>1, <1>2, Runs DEF KInv, KernelsTypeOK, Stepped
  <2>3. \A b \in DOMAIN Vram(launch) : b # c.args[OutArg(c)].id => o.mem[b] = Vram(launch)[b]
    <3> PICK steps, mem : steps = Kernel(c, Vram(launch)).steps /\ mem = Vram(launch)
      OBVIOUS
    <3>1. DOMAIN steps = 1..n /\ o.mem = Reduced(c, mem, steps)
      BY <2>1, <2>2
    <3>2. WritesOnly(c.args[OutArg(c)].id, mem, o.mem)
      BY <2>2, <3>1, OthersStay
    <3> QED BY <3>2 DEF WritesOnly
  <2>4. Found(c, Vram(launch), OutArg(c))
    BY <2>1, DoneFound
  <2>5. OutArg(c) = OutArg(launch)
    BY <1>2 DEF OutArg
  <2>6. Has(launch, OutArg(launch), {"buffer"})
    BY <1>2, <2>4, <2>5 DEF Found, Has
  <2>7. LastBuffer(launch.args) = c.args[OutArg(c)].id
    BY <1>1, <1>2, <2>5, <2>6, LastIsOutput
  <2>8. LastBuffer(launch.args) \in BufferIds(launch.args)
    <3>1. OutArg(launch) \in DOMAIN launch.args
      BY <1>1, <2>6, LenProperties DEF Has, OutArg
    <3> QED BY <1>2, <2>5, <2>6, <2>7, <3>1 DEF BufferIds, Has
  <2> QED BY <2>3, <2>7, <2>8 DEF WriteBack
<1>6. ASSUME o.end # "done"
      PROVE  WriteBack(Vram(launch), o, BufferIds(launch.args)) = WriteBack(Vram(launch), o, {LastBuffer(launch.args)})
  BY <1>6 DEF WriteBack
<1> QED BY <1>4, <1>5, <1>6 DEF SameAnswer, Answered

(* A launch of buffers and integers whose output is its last buffer leaves *)
(* the client's memory the same on one worker as on the core, though the   *)
(* core writes every buffer back and the worker's answer only the last     *)
(* (ipc_server.go:440-520, 626-726).                                       *)
THEOREM WorkerAsCore == KernelsSpec => []WorkerIsCore
<1>1. KInv => WorkerIsCore
  BY LaunchesAssumption, SameWhenPlain DEF WorkerIsCore
<1> QED BY <1>1, LaunchesAssumption, InitKernels, NextKernels, PTL DEF KernelsSpec
-----------------------------------------------------------------------------
(* What a loop leaves in the output, when each cell has a set of sources   *)
(* of its own, W[x], every step writes its cells from these, and no step   *)
(* reads a cell an earlier one wrote.                                      *)
IsOutput(c, mem, src) == Found(c, mem, src[1]) /\ c.args[src[1]].id = c.args[OutArg(c)].id
Fresh(c, mem, steps, m, src) ==
    IsOutput(c, mem, src) => /\ src[2] + 1 \in DOMAIN mem[c.args[OutArg(c)].id]
                             /\ \A j \in 1..(m - 1) : src[2] \notin DOMAIN steps[j]
Follows(c, mem, steps, m, W) ==
    \A x \in DOMAIN steps[m] : /\ x \in DOMAIN W /\ steps[m][x] = W[x]
                               /\ \A src \in W[x] : src[2] \in Int /\ Fresh(c, mem, steps, m, src)
CarriesIn(c, mem, steps, n, W) ==
    /\ DOMAIN steps = 1..n
    /\ \A m \in 1..n : Follows(c, mem, steps, m, W)
    /\ \A x \in DOMAIN W : x \in Int /\ \E m \in 1..n : x \in DOMAIN steps[m]
Carries(c, mem, k, W) == k.end = "done" /\ \E n \in Nat : CarriesIn(c, mem, k.steps, n, W)

Now(c, mem, W, x) == UNION {Value(c, mem, src) : src \in W[x]}
Outcome(c, mem, W) ==
    [y \in DOMAIN mem[c.args[OutArg(c)].id] |->
        IF y - 1 \in DOMAIN W THEN Now(c, mem, W, y - 1) ELSE mem[c.args[OutArg(c)].id][y]]

LEMMA ValueStays ==
    ASSUME NEW c, NEW mem, NEW M, NEW src, WritesOnly(c.args[OutArg(c)].id, mem, M),
           IsOutput(c, mem, src) =>
              M[c.args[OutArg(c)].id][src[2] + 1] = mem[c.args[OutArg(c)].id][src[2] + 1]
    PROVE  Value(c, M, src) = Value(c, mem, src)
<1> PICK o, b : o = c.args[OutArg(c)].id /\ b = c.args[src[1]].id
  OBVIOUS
<1>1. DOMAIN M = DOMAIN mem
  BY DEF WritesOnly
<1>2. Found(c, M, src[1]) = Found(c, mem, src[1])
  BY <1>1 DEF Found
<1>3. CASE ~Found(c, mem, src[1])
  BY <1>2, <1>3 DEF Value
<1>4. CASE Found(c, mem, src[1])
  <2>1. Buffer(c, M, src[1]) = M[b] /\ Buffer(c, mem, src[1]) = mem[b]
    BY <1>2, <1>4 DEF Buffer, Found
  <2>2. M[b][src[2] + 1] = mem[b][src[2] + 1]
    <3>1. CASE b = o
      BY <1>4, <3>1 DEF IsOutput
    <3>2. CASE b # o
      <4>1. b \in DOMAIN mem
        BY <1>4 DEF Found
      <4> QED BY <3>2, <4>1 DEF WritesOnly
    <3> QED BY <3>1, <3>2
  <2> QED BY <1>2, <1>4, <2>1, <2>2 DEF Value
<1> QED BY <1>3, <1>4

(* Midway m steps.                                                          *)
WrittenBy(steps, m, x) == \E j \in 1..m : x \in DOMAIN steps[j]
Midway(c, mem, steps, m, W, M) ==
    /\ WritesOnly(c.args[OutArg(c)].id, mem, M)
    /\ M[c.args[OutArg(c)].id] =
          [y \in DOMAIN mem[c.args[OutArg(c)].id] |->
             IF WrittenBy(steps, m, y - 1) THEN Now(c, mem, W, y - 1) ELSE mem[c.args[OutArg(c)].id][y]]

LEMMA MidwayStep ==
    ASSUME NEW c, NEW mem, NEW steps, NEW n \in Nat, NEW W, CarriesIn(c, mem, steps, n, W),
           NEW m \in 0..(n - 1), NEW M, Midway(c, mem, steps, m, W, M),
           c.args[OutArg(c)].id \in DOMAIN mem
    PROVE  Midway(c, mem, steps, m + 1, W, StepOf(c, M, steps[m + 1]))
<1> PICK o, s, L : o = c.args[OutArg(c)].id /\ s = steps[m + 1] /\ L = StepOf(c, M, steps[m + 1])
  OBVIOUS
<1>0. m + 1 \in 1..n /\ (m + 1) - 1 = m
  OBVIOUS
<1>1. WritesOnly(o, mem, M) /\ o \in DOMAIN M /\ DOMAIN M[o] = DOMAIN mem[o]
  BY DEF Midway, WritesOnly
<1>2. /\ DOMAIN L = DOMAIN M /\ \A b \in DOMAIN M : b # o => L[b] = M[b]
      /\ L[o] = [y \in DOMAIN M[o] |-> IF y - 1 \in DOMAIN s
                                       THEN UNION {Value(c, M, src) : src \in s[y - 1]} ELSE M[o][y]]
  BY <1>1 DEF StepOf
<1>3. WritesOnly(o, mem, L)
  BY <1>1, <1>2 DEF WritesOnly
<1>4. ASSUME NEW x \in DOMAIN s
      PROVE  UNION {Value(c, M, src) : src \in s[x]} = Now(c, mem, W, x)
  <2>1. s[x] = W[x] /\ \A src \in W[x] : src[2] \in Int /\ Fresh(c, mem, steps, m + 1, src)
    BY <1>0 DEF CarriesIn, Follows
  <2>2. ASSUME NEW src \in W[x] PROVE Value(c, M, src) = Value(c, mem, src)
    <3>1. ASSUME IsOutput(c, mem, src) PROVE M[o][src[2] + 1] = mem[o][src[2] + 1]
      <4>1. src[2] \in Int /\ src[2] + 1 \in DOMAIN mem[o] /\ \A j \in 1..m : src[2] \notin DOMAIN steps[j]
        BY <1>0, <2>1, <3>1 DEF Fresh
      <4>2. (src[2] + 1) - 1 = src[2]
        BY <4>1
      <4>3. ~WrittenBy(steps, m, (src[2] + 1) - 1)
        BY <4>1, <4>2 DEF WrittenBy
      <4> QED BY <4>1, <4>3 DEF Midway
    <3> QED BY <1>1, <3>1, ValueStays
  <2> QED BY <2>1, <2>2 DEF Now
<1>5. ASSUME NEW y \in DOMAIN mem[o]
      PROVE  L[o][y] = IF WrittenBy(steps, m + 1, y - 1) THEN Now(c, mem, W, y - 1) ELSE mem[o][y]
  <2>1. WrittenBy(steps, m + 1, y - 1) <=> WrittenBy(steps, m, y - 1) \/ y - 1 \in DOMAIN s
    <3>1. 1..(m + 1) = (1..m) \cup {m + 1}
      OBVIOUS
    <3> QED BY <3>1 DEF WrittenBy
  <2>2. CASE y - 1 \in DOMAIN s
    BY <1>1, <1>2, <1>4, <2>1, <2>2
  <2>3. CASE y - 1 \notin DOMAIN s
    <3>1. L[o][y] = M[o][y]
      BY <1>1, <1>2, <2>3
    <3> QED BY <2>1, <2>3, <3>1 DEF Midway
  <2> QED BY <2>2, <2>3
<1>6. L[o] = [y \in DOMAIN mem[o] |->
                IF WrittenBy(steps, m + 1, y - 1) THEN Now(c, mem, W, y - 1) ELSE mem[o][y]]
  <2>1. DOMAIN L[o] = DOMAIN mem[o] /\ L[o] = [y \in DOMAIN mem[o] |-> L[o][y]]
    BY <1>1, <1>2
  <2> QED BY <1>5, <2>1
<1> QED BY <1>3, <1>6 DEF Midway

CellsFrom(f) == f = [y \in DOMAIN f |-> f[y]] /\ DOMAIN f \subseteq Int

LEMMA Computed ==
    ASSUME NEW c, NEW mem, NEW k, NEW W, Carries(c, mem, k, W), Found(c, mem, OutArg(c)),
           CellsFrom(mem[c.args[OutArg(c)].id])
    PROVE  Reduced(c, mem, k.steps)[c.args[OutArg(c)].id] = Outcome(c, mem, W)
<1> PICK steps, o : steps = k.steps /\ o = c.args[OutArg(c)].id
  OBVIOUS
<1>1. PICK n \in Nat : CarriesIn(c, mem, steps, n, W)
  BY DEF Carries
<1>2. PICK M : Trace(M, c, mem, steps, n) /\ M[n] = Reduced(c, mem, steps)
  <2>1. DOMAIN steps = 1..n
    BY <1>1 DEF CarriesIn
  <2> QED BY <2>1, Traced
<1>3. o \in DOMAIN mem
  BY DEF Found
<1> PICK N : N = {m \in 0..n : Midway(c, mem, steps, m, W, M[m])}
  OBVIOUS
<1>4. 0 \in N
  <2>1. M[0] = mem
    BY <1>2 DEF Trace
  <2>2. \A x : ~WrittenBy(steps, 0, x)
    BY DEF WrittenBy
  <2>3. WritesOnly(o, mem, mem)
    BY DEF WritesOnly
  <2>4. mem[o] = [y \in DOMAIN mem[o] |-> mem[o][y]]
    BY DEF CellsFrom
  <2> QED BY <2>1, <2>2, <2>3, <2>4 DEF Midway
<1>5. ASSUME NEW m \in N, m < n PROVE m + 1 \in N
  <2>1. m + 1 \in 1..n /\ (m + 1) - 1 = m /\ m \in 0..(n - 1) /\ m + 1 \in 0..n
    BY <1>5
  <2>2. M[m + 1] = StepOf(c, M[m], steps[m + 1])
    BY <1>2, <2>1 DEF Trace
  <2>3. Midway(c, mem, steps, m + 1, W, M[m + 1])
    BY <1>1, <1>3, <1>5, <2>1, <2>2, MidwayStep
  <2> QED BY <2>1, <2>3
<1>6. Midway(c, mem, steps, n, W, M[n])
  BY <1>4, <1>5, Reaches
<1>7. ASSUME NEW x \in Int PROVE WrittenBy(steps, n, x) <=> x \in DOMAIN W
  BY <1>1 DEF WrittenBy, CarriesIn, Follows
<1>8. \A y \in DOMAIN mem[o] : y - 1 \in Int
  BY DEF CellsFrom
<1> QED BY <1>2, <1>6, <1>7, <1>8 DEF Midway, Outcome
-----------------------------------------------------------------------------
(* Rows and columns.                                                       *)
LEMMA DivMod ==
    ASSUME NEW a \in Nat, NEW b \in Nat \ {0}
    PROVE  a \div b \in Nat /\ a % b \in 0..(b - 1) /\ a = (a \div b)*b + (a % b) /\ a % b \in Nat
<1>1. a \div b \in Nat
  BY SMT
<1>2. a = b * (a \div b) + (a % b) /\ a % b \in 0..(b - 1)
  BY SMT
<1>3. b * (a \div b) = (a \div b) * b
  BY <1>1
<1> QED BY <1>1, <1>2, <1>3

LEMMA Monotonic ==
    ASSUME NEW a \in Nat, NEW b \in Nat, NEW m \in Nat, a <= b
    PROVE  a*m <= b*m /\ a*m \in Nat /\ b*m \in Nat
<1>1. PICK d \in Nat : b = a + d
  <2>1. b - a \in Nat /\ b = a + (b - a)
    OBVIOUS
  <2> QED BY <2>1
<1>2. a*m \in Nat /\ d*m \in Nat
  BY SMT
<1>3. b*m = a*m + d*m
  BY <1>1
<1> QED BY <1>2, <1>3

LEMMA NextRow ==
    ASSUME NEW q \in Nat, NEW m \in Nat PROVE (q + 1)*m = q*m + m /\ q*m \in Nat
BY SMT

LEMMA Placed ==
    ASSUME NEW b \in Nat \ {0}, NEW q \in Nat, NEW r \in 0..(b - 1)
    PROVE  (q*b + r) \div b = q /\ (q*b + r) % b = r /\ q*b + r \in Nat
<1> PICK a : a = q*b + r
  OBVIOUS
<1>0. a \in Nat /\ q*b \in Nat
  BY SMT
<1> PICK d, e : d = a \div b /\ e = a % b
  OBVIOUS
<1>1. d \in Nat /\ e \in 0..(b - 1) /\ a = d*b + e
  BY <1>0, DivMod
<1>2. ~(d < q)
  <2> SUFFICES ASSUME d < q PROVE FALSE
    OBVIOUS
  <2>1. (d + 1)*b <= q*b
    BY <1>1, Monotonic
  <2>2. (d + 1)*b = d*b + b /\ d*b \in Nat
    BY <1>1, NextRow
  <2> QED BY <1>0, <1>1, <2>1, <2>2
<1>3. ~(q < d)
  <2> SUFFICES ASSUME q < d PROVE FALSE
    OBVIOUS
  <2>1. (q + 1)*b <= d*b
    BY <1>1, Monotonic
  <2>2. (q + 1)*b = q*b + b /\ d*b \in Nat
    BY <1>1, NextRow
  <2> QED BY <1>0, <1>1, <2>1, <2>2
<1>4. d = q
  BY <1>1, <1>2, <1>3
<1> QED BY <1>0, <1>1, <1>4

LEMMA RowOf ==
    ASSUME NEW rows \in Nat, NEW cols \in Nat \ {0}, NEW p \in 0..(rows*cols - 1)
    PROVE  p \div cols \in 0..(rows - 1)
<1>0. rows*cols \in Nat
  BY SMT
<1>1. p \in Nat
  BY <1>0
<1>2. p \div cols \in Nat /\ p % cols \in 0..(cols - 1) /\ p = (p \div cols)*cols + (p % cols)
  BY <1>1, DivMod
<1> PICK d : d = p \div cols
  OBVIOUS
<1>3. ASSUME rows <= d PROVE FALSE
  <2>1. rows*cols <= d*cols /\ d*cols \in Nat
    BY <1>2, <1>3, Monotonic
  <2> QED BY <1>0, <1>1, <1>2, <2>1
<1> QED BY <1>2, <1>3

LEMMA InRow ==
    ASSUME NEW rows \in Nat, NEW cols \in Nat \ {0}, NEW q \in 0..(rows - 1), NEW r \in 0..(cols - 1)
    PROVE  q*cols + r \in 0..(rows*cols - 1)
<1>1. (q + 1)*cols <= rows*cols /\ rows*cols \in Nat
  BY Monotonic
<1>2. (q + 1)*cols = q*cols + cols /\ q*cols \in Nat
  BY NextRow
<1> QED BY <1>1, <1>2

LEMMA MinIs ==
    ASSUME NEW S \in SUBSET Int, NEW m \in S, \A x \in S : m <= x PROVE Min(S) = m
<1>1. Min(S) \in S /\ \A x \in S : Min(S) <= x
  BY DEF Min
<1> PICK x : x = Min(S)
  OBVIOUS
<1>2. x \in S /\ m \in Int /\ x <= m /\ m <= x
  BY <1>1
<1>3. x \in Int
  BY <1>2
<1> QED BY <1>2, <1>3
-----------------------------------------------------------------------------
(* Argument k is a buffer of m elements.                                   *)
Holds(c, mem, k, m) ==
    m \in Nat /\ Found(c, mem, k) /\ Size(c, mem, k) = m /\ DOMAIN mem[c.args[k].id] = 1..m

LEMMA InRange ==
    ASSUME NEW c, NEW mem, NEW m, Holds(c, mem, OutArg(c), m), NEW i \in Int
    PROVE  i + 1 \in DOMAIN mem[c.args[OutArg(c)].id] <=> i \in 0..(m - 1)
BY DEF Holds

LEMMA SameLength ==
    ASSUME NEW c, NEW mem, NEW k, NEW m, NEW n, Holds(c, mem, OutArg(c), m), Holds(c, mem, k, n),
           c.args[k].id = c.args[OutArg(c)].id
    PROVE  m = n
<1>1. Buffer(c, mem, k) = Buffer(c, mem, OutArg(c))
  BY DEF Holds, Buffer, Found
<1> QED BY <1>1 DEF Holds, Size

(* Kernels of one step: nothing was written before.                        *)
LEMMA OneStep ==
    ASSUME NEW c, NEW mem, NEW W, NEW k, k.end = "done", k.steps = <<W>>,
           \A x \in DOMAIN W : /\ x \in Int
                               /\ \A src \in W[x] : /\ src[2] \in Int
                                                    /\ IsOutput(c, mem, src) =>
                                                          src[2] + 1 \in DOMAIN mem[c.args[OutArg(c)].id]
    PROVE  Carries(c, mem, k, W)
<1> PICK steps : steps = k.steps
  OBVIOUS
<1>1. steps = <<W>> /\ DOMAIN steps = 1..1 /\ steps[1] = W
  OBVIOUS
<1>2. Follows(c, mem, steps, 1, W)
  <2>1. ASSUME NEW src, IsOutput(c, mem, src) => src[2] + 1 \in DOMAIN mem[c.args[OutArg(c)].id]
        PROVE  Fresh(c, mem, steps, 1, src)
    BY <2>1 DEF Fresh
  <2> QED BY <1>1, <2>1 DEF Follows
<1>3. CarriesIn(c, mem, steps, 1, W)
  <2>1. \A m \in 1..1 : m = 1
    OBVIOUS
  <2>2. 1 \in 1..1
    OBVIOUS
  <2> QED BY <1>1, <1>2, <2>1, <2>2 DEF CarriesIn
<1> QED BY <1>3 DEF Carries

LEMMA EachCarries ==
    ASSUME NEW c, NEW mem, NEW n \in Nat, NEW bufs \in SUBSET (1..3), NEW reads \in SUBSET (1..3),
           1 \in bufs, \A k \in bufs : Holds(c, mem, k, n), OutArg(c) \in bufs,
           \A k \in reads \ bufs : ~Found(c, mem, k), Dim(c, 1) \in {0, n}
    PROVE  Carries(c, mem, Each(c, mem, bufs, reads), [e \in 0..(n - 1) |-> {<<k, e>> : k \in reads}])
<1> PICK W : W = [e \in 0..(n - 1) |-> {<<k, e>> : k \in reads}]
  OBVIOUS
<1>1. \A k \in bufs : Size(c, mem, k) = n
  BY DEF Holds
<1>2. Elements(c, mem) = n
  BY <1>1 DEF Elements, Or
<1>3. {Elements(c, mem)} \cup {Size(c, mem, k) : k \in bufs} = {n}
  BY <1>1, <1>2
<1>4. Min({n}) = n
  BY MinIs
<1>5. Each(c, mem, bufs, reads) = Loop(<<W>>)
  BY <1>3, <1>4 DEF Each
<1>6. ASSUME NEW x \in DOMAIN W
      PROVE  /\ x \in Int
             /\ \A src \in W[x] : /\ src[2] \in Int
                                  /\ IsOutput(c, mem, src) => src[2] + 1 \in DOMAIN mem[c.args[OutArg(c)].id]
  <2>1. x \in 0..(n - 1) /\ W[x] = {<<k, x>> : k \in reads}
    OBVIOUS
  <2>2. x + 1 \in DOMAIN mem[c.args[OutArg(c)].id]
    <3>1. Holds(c, mem, OutArg(c), n)
      OBVIOUS
    <3>2. x \in Int
      BY <2>1
    <3> QED BY <2>1, <3>1, <3>2, InRange
  <2> QED BY <2>1, <2>2
<1>7. Loop(<<W>>).end = "done" /\ Loop(<<W>>).steps = <<W>>
  BY DEF Loop
<1>8. Carries(c, mem, Loop(<<W>>), W)
  BY <1>6, <1>7, OneStep
<1> QED BY <1>5, <1>8

LEMMA VectorAddCarries ==
    ASSUME NEW c, NEW mem, NEW len \in Nat, NEW lo \in Nat, NEW n \in Nat, lo + n <= len,
           Len(c.args) >= 3, c.gs # <<>>, OutArg(c) = 3,
           \A k \in 1..3 : Holds(c, mem, k, len), Offset(c, 1) = lo,
           Dim(c, 1) = n, Len(c.args) >= 4 /\ ~Has(c, 4, {"buffer"}) => IntArg(c, 4) = n
    PROVE  Carries(c, mem, VectorAdd(c, mem), [e \in lo..(lo + n - 1) |-> {<<1, e>>, <<2, e>>}])
<1> PICK W : W = [e \in lo..(lo + n - 1) |-> {<<1, e>>, <<2, e>>}]
  OBVIOUS
<1>1. \A k \in 1..3 : Size(c, mem, k) = len /\ Found(c, mem, k)
  BY DEF Holds
<1>2. {Size(c, mem, k) : k \in 1..3} = {len}
  BY <1>1
<1>3. Min({len}) = len /\ Min({len, n}) = n
  <2>1. Min({len}) = len
    BY MinIs
  <2>2. {len, n} \in SUBSET Int /\ \A i \in {len, n} : n <= i
    OBVIOUS
  <2> QED BY <2>1, <2>2, MinIs
<1>4. VectorAdd(c, mem) = Loop(<<W>>)
  <2>1. Min({Size(c, mem, k) : k \in 1..3}) = len
    BY <1>2, <1>3
  <2>2. Min({len, IF Len(c.args) >= 4 /\ ~Has(c, 4, {"buffer"}) THEN IntArg(c, 4) ELSE Dim(c, 1)}) = n
    BY <1>3
  <2>3. ~(n > 0 /\ lo + n > len) /\ ~(Len(c.args) < 3) /\ ~\E k \in 1..3 : ~Found(c, mem, k)
    BY <1>1
  <2> QED BY <2>1, <2>2, <2>3 DEF VectorAdd
<1>5. ASSUME NEW x \in DOMAIN W
      PROVE  /\ x \in Int
             /\ \A src \in W[x] : /\ src[2] \in Int
                                  /\ IsOutput(c, mem, src) => src[2] + 1 \in DOMAIN mem[c.args[OutArg(c)].id]
  <2>1. x \in lo..(lo + n - 1) /\ W[x] = {<<1, x>>, <<2, x>>}
    OBVIOUS
  <2>2. x + 1 \in DOMAIN mem[c.args[OutArg(c)].id]
    <3>1. Holds(c, mem, OutArg(c), len) /\ x \in Int /\ x \in 0..(len - 1)
      BY <2>1
    <3> QED BY <3>1, InRange
  <2> QED BY <2>1, <2>2
<1>6. Loop(<<W>>).end = "done" /\ Loop(<<W>>).steps = <<W>>
  BY DEF Loop
<1>7. Carries(c, mem, Loop(<<W>>), W)
  BY <1>5, <1>6, OneStep
<1> QED BY <1>4, <1>7

(* softmax and reduce_sum read the whole input.                            *)
LEMMA WholeCarries ==
    ASSUME NEW c, NEW mem, NEW n \in Nat, NEW m \in Nat \ {0}, Len(c.args) >= 2, Len(c.gs) >= 1, OutArg(c) = 2,
           Holds(c, mem, 1, n), Holds(c, mem, 2, m), Dim(c, 1) \in {0, n}
    PROVE  /\ Carries(c, mem, ReduceSum(c, mem), [e \in {0} |-> {<<1, j>> : j \in 0..(n - 1)}])
           /\ m = n => Carries(c, mem, Softmax(c, mem), [e \in 0..(n - 1) |-> {<<1, j>> : j \in 0..(n - 1)}])
<1>1. Size(c, mem, 1) = n /\ Size(c, mem, 2) = m /\ \A k \in {1, 2} : Found(c, mem, k)
  BY DEF Holds
<1>2. Elements(c, mem) = n
  BY <1>1 DEF Elements, Or
<1>3. Min({n}) = n /\ {n, n} = {n}
  <2>1. {n, n} = {n} /\ {n} \in SUBSET Int /\ n \in {n} /\ \A i \in {n} : n <= i
    OBVIOUS
  <2> QED BY <2>1, MinIs
<1>4. \A loop : Checked(c, mem, 2, {1, 2}, 1, loop) = loop
  BY <1>1 DEF Checked
<1>5. ASSUME NEW S \in SUBSET Int, NEW W, W = [e \in S |-> {<<1, j>> : j \in 0..(n - 1)}]
      PROVE  Carries(c, mem, Loop(<<W>>), W)
  <2>1. ASSUME NEW x \in DOMAIN W
        PROVE  /\ x \in Int
               /\ \A src \in W[x] : /\ src[2] \in Int
                                    /\ IsOutput(c, mem, src) => src[2] + 1 \in DOMAIN mem[c.args[OutArg(c)].id]
    <3>1. x \in S /\ W[x] = {<<1, j>> : j \in 0..(n - 1)}
      BY <1>5
    <3>2. ASSUME NEW j \in 0..(n - 1), IsOutput(c, mem, <<1, j>>) PROVE j + 1 \in DOMAIN mem[c.args[OutArg(c)].id]
      <4>1. m = n
        BY <3>2, SameLength DEF IsOutput
      <4>2. Holds(c, mem, OutArg(c), n) /\ j \in Int
        BY <4>1
      <4> QED BY <4>2, InRange
    <3>3. ASSUME NEW src \in W[x]
          PROVE  src[2] \in Int /\ (IsOutput(c, mem, src) => src[2] + 1 \in DOMAIN mem[c.args[OutArg(c)].id])
      <4>1. PICK j \in 0..(n - 1) : src = <<1, j>>
        BY <3>1
      <4>2. src[2] = j
        BY <4>1
      <4> QED BY <3>2, <4>1, <4>2
    <3> QED BY <3>1, <3>3
  <2>2. Loop(<<W>>).end = "done" /\ Loop(<<W>>).steps = <<W>>
    BY DEF Loop
  <2> QED BY <2>1, <2>2, OneStep
<1>6. Carries(c, mem, ReduceSum(c, mem), [e \in {0} |-> {<<1, j>> : j \in 0..(n - 1)}])
  <2>1. {0} \cap 0..(m - 1) = {0}
    OBVIOUS
  <2>2. ReduceSum(c, mem) = Loop(<<[e \in {0} |-> {<<1, j>> : j \in 0..(n - 1)}]>>)
    BY <1>1, <1>2, <1>3, <1>4, <2>1 DEF ReduceSum
  <2> QED BY <1>5, <2>2
<1>7. ASSUME m = n
      PROVE  Carries(c, mem, Softmax(c, mem), [e \in 0..(n - 1) |-> {<<1, j>> : j \in 0..(n - 1)}])
  <2>1. Softmax(c, mem) = Loop(<<[e \in 0..(n - 1) |-> {<<1, j>> : j \in 0..(n - 1)}]>>)
    BY <1>1, <1>2, <1>4, <1>7 DEF Softmax
  <2>2. 0..(n - 1) \in SUBSET Int
    OBVIOUS
  <2> QED BY <1>5, <2>1, <2>2
<1> QED BY <1>6, <1>7
-----------------------------------------------------------------------------
(* Kernels that read no cell of their output.                              *)
Reached(k, n, W) ==
    /\ k.end = "done" /\ DOMAIN k.steps = 1..n
    /\ \A m \in 1..n : \A x \in DOMAIN k.steps[m] : x \in DOMAIN W /\ k.steps[m][x] = W[x]
    /\ \A x \in DOMAIN W : x \in Int /\ \E m \in 1..n : x \in DOMAIN k.steps[m]

LEMMA ApartCarries ==
    ASSUME NEW c, NEW mem, NEW W, NEW k, NEW n \in Nat, Reached(k, n, W),
           \A x \in DOMAIN W : \A src \in W[x] : src[2] \in Int /\ ~IsOutput(c, mem, src)
    PROVE  Carries(c, mem, k, W)
<1> PICK steps : steps = k.steps
  OBVIOUS
<1>1. ASSUME NEW m \in 1..n PROVE Follows(c, mem, steps, m, W)
  <2>1. \A src : ~IsOutput(c, mem, src) => Fresh(c, mem, steps, m, src)
    BY DEF Fresh
  <2> QED BY <2>1 DEF Reached, Follows
<1>2. CarriesIn(c, mem, steps, n, W)
  BY <1>1 DEF Reached, CarriesIn
<1> QED BY <1>2 DEF Carries, Reached

Products(inner, cols, e) ==
    UNION {{<<1, (e \div cols)*inner + k>>, <<2, k*cols + (e % cols)>>} : k \in 0..(inner - 1)}

LEMMA RunOfCells ==
    ASSUME NEW a \in Nat, NEW t \in Nat, NEW W, DOMAIN W = a..(a + t - 1), NEW k, k.end = "done", DOMAIN k.steps = 1..t,
           \A q \in 1..t : k.steps[q] = WriteCell(a + (q - 1), W[a + (q - 1)])
    PROVE  Reached(k, t, W)
<1>1. ASSUME NEW q \in 1..t
      PROVE  /\ a + (q - 1) \in DOMAIN W /\ DOMAIN k.steps[q] = {a + (q - 1)}
             /\ k.steps[q][a + (q - 1)] = W[a + (q - 1)]
  <2>1. k.steps[q] = WriteCell(a + (q - 1), W[a + (q - 1)])
    OBVIOUS
  <2>2. a + (q - 1) \in a..(a + t - 1)
    OBVIOUS
  <2> QED BY <2>1, <2>2 DEF WriteCell
<1>2. ASSUME NEW x \in DOMAIN W PROVE x \in Int /\ \E q \in 1..t : x \in DOMAIN k.steps[q]
  <2>1. x \in a..(a + t - 1)
    OBVIOUS
  <2>2. (x - a) + 1 \in 1..t /\ a + (((x - a) + 1) - 1) = x /\ x \in Int
    BY <2>1
  <2>3. DOMAIN k.steps[(x - a) + 1] = {x}
    BY <1>1, <2>2
  <2> QED BY <2>2, <2>3
<1>3. \A m \in 1..t : \A x \in DOMAIN k.steps[m] : x \in DOMAIN W /\ k.steps[m][x] = W[x]
  <2> TAKE m \in 1..t
  <2>1. \A x \in DOMAIN k.steps[m] : x = a + (m - 1)
    BY <1>1
  <2> QED BY <1>1, <2>1
<1>4. DOMAIN k.steps = 1..t
  OBVIOUS
<1> QED BY <1>2, <1>3, <1>4 DEF Reached

LEMMA ElementOf ==
    ASSUME NEW r0 \in Nat, NEW N \in Nat \ {0}, NEW p \in Nat
    PROVE  /\ (r0*N + p) \div N = r0 + (p \div N) /\ (r0*N + p) % N = p % N
           /\ (r0 + (p \div N))*N + (p % N) = r0*N + p
<1>0. PICK d, e : d = p \div N /\ e = p % N
  OBVIOUS
<1>1. d \in Nat /\ e \in 0..(N - 1) /\ p = d*N + e
  BY <1>0, DivMod
<1>2. (r0 + d)*N = r0*N + d*N /\ r0*N \in Nat /\ d*N \in Nat
  BY <1>1
<1>3. (r0 + d)*N + e = r0*N + p
  BY <1>1, <1>2
<1>4. r0 + d \in Nat
  BY <1>1
<1>5. ((r0 + d)*N + e) \div N = r0 + d /\ ((r0 + d)*N + e) % N = e
  BY <1>1, <1>4, Placed
<1> QED BY <1>0, <1>3, <1>5

LEMMA ProductSource ==
    ASSUME NEW K \in Nat, NEW N \in Nat \ {0}, NEW x \in Nat, NEW src \in Products(K, N, x)
    PROVE  src[1] \in {1, 2} /\ src[2] \in Int
<1>1. PICK d, e : d = x \div N /\ e = x % N
  OBVIOUS
<1>2. x \div N \in Nat /\ x % N \in Nat
  BY DivMod
<1>3. PICK k \in 0..(K - 1) : src \in {<<1, d*K + k>>, <<2, k*N + e>>}
  BY <1>1 DEF Products
<1>4. PICK f, g : f = d*K + k /\ g = k*N + e
  OBVIOUS
<1>5. f \in Int /\ g \in Int
  BY <1>1, <1>2, <1>4
<1>6. src = <<1, f>> \/ src = <<2, g>>
  BY <1>3, <1>4
<1> QED BY <1>5, <1>6

ProductCell(K, N, r0, p) ==
    WriteCell((r0 + (p \div N))*N + (0 + (p % N)),
              UNION {{<<1, (r0 + (p \div N))*K + k>>, <<2, k*N + (0 + (p % N))>>} : k \in 0..(K - 1)})

LEMMA ProductCellIs ==
    ASSUME NEW K \in Nat, NEW N \in Nat \ {0}, NEW r0 \in Nat, NEW p \in Nat
    PROVE  ProductCell(K, N, r0, p) = WriteCell(r0*N + p, Products(K, N, r0*N + p))
<1>1. PICK d, e, x : d = p \div N /\ e = p % N /\ x = r0*N + p
  OBVIOUS
<1>2. x \div N = r0 + d /\ x % N = e /\ (r0 + d)*N + e = x
  BY <1>1, ElementOf
<1>3. p % N \in Nat
  BY DivMod
<1>4. 0 + e = e
  BY <1>1, <1>3
<1>5. Products(K, N, x) = UNION {{<<1, (r0 + d)*K + k>>, <<2, k*N + e>>} : k \in 0..(K - 1)}
  BY <1>2, Zenon DEF Products
<1>6. ProductCell(K, N, r0, p) = WriteCell((r0 + d)*N + (0 + e),
         UNION {{<<1, (r0 + d)*K + k>>, <<2, k*N + (0 + e)>>} : k \in 0..(K - 1)})
  BY <1>1, Zenon DEF ProductCell
<1> QED BY <1>1, <1>2, <1>4, <1>5, <1>6, Zenon

ProductCells(K, N, r0, t) == [q \in 1..t |-> ProductCell(K, N, r0, q - 1)]

(* A product the checks of the code let through.                           *)
Multiplies(c, mem, M, N, K, r0) ==
    /\ N # 0 /\ K # 0 /\ Len(c.args) >= 3 /\ Len(c.gs) >= 2 /\ \A k \in 1..3 : Found(c, mem, k)
    /\ Dim(c, 1) = M /\ Dim(c, 2) = N /\ Offset(c, 1) = r0 /\ Offset(c, 2) = 0 /\ Inner(c, mem, M, N) = K
    /\ ~((r0 + M)*K > Size(c, mem, 1)) /\ ~(K*N + 0 > Size(c, mem, 2)) /\ ~((r0 + M)*N + 0 > Size(c, mem, 3))
    /\ ~(Size(c, mem, 1) < M*K) /\ ~(Size(c, mem, 2) < K*N) /\ ~(Size(c, mem, 3) < M*N)

LEMMA MatMulLoop ==
    ASSUME NEW c, NEW mem, NEW M, NEW N, NEW K, NEW r0, Multiplies(c, mem, M, N, K, r0),
           Len(c.args) \in Nat, Len(c.gs) \in Nat
    PROVE  MatMul(c, mem) = Loop(ProductCells(K, N, r0, M*N))
<1>1. Or(Dim(c, 2), 1) = N
  BY DEF Or, Multiplies
<1>2. \A loop : Checked(c, mem, 3, {1, 2, 3}, 2, loop) = loop
  BY DEF Checked, Multiplies
<1> QED BY <1>1, <1>2 DEF MatMul, ProductCells, ProductCell, Multiplies

(* Rows r0 .. r0+M-1 of a product of a rows by K and a K by N matrix.        *)
ProductOf(c, mem, rows, M, N, K, r0) ==
    /\ rows \in Nat /\ M \in Nat /\ N \in Nat \ {0} /\ K \in Nat \ {0} /\ r0 \in Nat /\ r0 + M <= rows
    /\ OutArg(c) = 3 /\ Len(c.args) \in Nat /\ Len(c.args) >= 3 /\ Len(c.gs) \in Nat /\ Len(c.gs) >= 2
    /\ Dim(c, 1) = M /\ Dim(c, 2) = N /\ Offset(c, 1) = r0 /\ Offset(c, 2) = 0 /\ Inner(c, mem, M, N) = K
    /\ Holds(c, mem, 1, rows*K) /\ Holds(c, mem, 2, K*N) /\ Holds(c, mem, 3, rows*N)
    /\ \A k \in {1, 2} : c.args[k].id # c.args[3].id

LEMMA ProductRuns ==
    ASSUME NEW c, NEW mem, NEW rows, NEW M, NEW N, NEW K, NEW r0, ProductOf(c, mem, rows, M, N, K, r0)
    PROVE  MatMul(c, mem) = Loop(ProductCells(K, N, r0, M*N))
<1>1. /\ rows \in Nat /\ M \in Nat /\ N \in Nat \ {0} /\ K \in Nat \ {0} /\ r0 \in Nat
      /\ r0 + M <= rows /\ M <= rows
  <2>1. /\ rows \in Nat /\ M \in Nat /\ N \in Nat \ {0} /\ K \in Nat \ {0} /\ r0 \in Nat /\ r0 + M <= rows
    BY DEF ProductOf
  <2> QED BY <2>1
<1>2. (r0 + M)*K <= rows*K /\ (r0 + M)*K \in Nat /\ rows*K \in Nat
  BY <1>1, Monotonic
<1>3. M*K <= rows*K /\ M*K \in Nat
  BY <1>1, Monotonic
<1>4. (r0 + M)*N <= rows*N /\ (r0 + M)*N \in Nat /\ rows*N \in Nat
  BY <1>1, Monotonic
<1>5. M*N <= rows*N /\ M*N \in Nat
  BY <1>1, Monotonic
<1>6. PICK s1, s2, s3, t1, t3, m1, m3 : /\ s1 = rows*K /\ s2 = K*N /\ s3 = rows*N /\ t1 = (r0 + M)*K
                                        /\ t3 = (r0 + M)*N /\ m1 = M*K /\ m3 = M*N
  OBVIOUS
<1>7. {s1, s2, s3, t1, t3, m1, m3} \subseteq Nat /\ t1 <= s1 /\ t3 <= s3 /\ m1 <= s1 /\ m3 <= s3
  <2>1. K*N \in Nat
    BY <1>1
  <2> QED BY <1>2, <1>3, <1>4, <1>5, <1>6, <2>1
<1>8. ~(t1 > s1) /\ ~(s2 + 0 > s2) /\ ~(t3 + 0 > s3) /\ ~(s1 < m1) /\ ~(s2 < s2) /\ ~(s3 < m3)
  BY <1>7
<1>9. Size(c, mem, 1) = s1 /\ Size(c, mem, 2) = s2 /\ Size(c, mem, 3) = s3 /\ \A k \in 1..3 : Found(c, mem, k)
  <2>1. \A k \in 1..3 : k = 1 \/ k = 2 \/ k = 3
    OBVIOUS
  <2> QED BY <1>6, <2>1 DEF Holds, ProductOf
<1>10. /\ ~((r0 + M)*K > Size(c, mem, 1)) /\ ~(K*N + 0 > Size(c, mem, 2)) /\ ~((r0 + M)*N + 0 > Size(c, mem, 3))
       /\ ~(Size(c, mem, 1) < M*K) /\ ~(Size(c, mem, 2) < K*N) /\ ~(Size(c, mem, 3) < M*N)
  BY <1>6, <1>8, <1>9, Zenon
<1>11. Multiplies(c, mem, M, N, K, r0)
  BY <1>1, <1>9, <1>10, Zenon DEF Multiplies, ProductOf
<1>12. Len(c.args) \in Nat /\ Len(c.gs) \in Nat
  BY DEF ProductOf
<1> QED BY <1>11, <1>12, MatMulLoop

LEMMA MatMulCarries ==
    ASSUME NEW c, NEW mem, NEW rows, NEW M, NEW N, NEW K, NEW r0, ProductOf(c, mem, rows, M, N, K, r0)
    PROVE  Carries(c, mem, MatMul(c, mem), [e \in (r0*N)..(r0*N + M*N - 1) |-> Products(K, N, e)])
<1>1. PICK a, t : a = r0*N /\ t = M*N
  OBVIOUS
<1>2. PICK steps : steps = ProductCells(K, N, r0, t)
  OBVIOUS
<1>3. M \in Nat /\ N \in Nat \ {0} /\ K \in Nat /\ r0 \in Nat
  BY DEF ProductOf
<1>4. a \in Nat /\ t \in Nat
  BY <1>1, <1>3
<1>5. PICK W : W = [e \in a..(a + t - 1) |-> Products(K, N, e)]
  OBVIOUS
<1>6. MatMul(c, mem) = Loop(steps)
  BY <1>1, <1>2, ProductRuns
<1>7. DOMAIN steps = 1..t /\ \A q \in 1..t : steps[q] = ProductCell(K, N, r0, q - 1)
  BY <1>2 DEF ProductCells
<1>8. ASSUME NEW q \in 1..t PROVE ProductCell(K, N, r0, q - 1) = WriteCell(a + (q - 1), W[a + (q - 1)])
  <2>1. q - 1 \in Nat /\ a + (q - 1) \in a..(a + t - 1)
    BY <1>4
  <2>2. ProductCell(K, N, r0, q - 1) = WriteCell(r0*N + (q - 1), Products(K, N, r0*N + (q - 1)))
    BY <1>3, <2>1, ProductCellIs
  <2>3. W[a + (q - 1)] = Products(K, N, a + (q - 1))
    BY <1>5, <2>1
  <2> QED BY <1>1, <2>2, <2>3
<1>9. Reached(Loop(steps), t, W)
  <2>1. Loop(steps).end = "done" /\ Loop(steps).steps = steps
    BY DEF Loop
  <2>2. DOMAIN W = a..(a + t - 1)
    BY <1>5
  <2>3. \A q \in 1..t : steps[q] = WriteCell(a + (q - 1), W[a + (q - 1)])
    BY <1>7, <1>8
  <2> QED BY <1>4, <1>7, <2>1, <2>2, <2>3, RunOfCells
<1>10. ASSUME NEW x \in DOMAIN W, NEW src \in W[x] PROVE src[2] \in Int /\ ~IsOutput(c, mem, src)
  <2>1. x \in Nat /\ src \in Products(K, N, x)
    BY <1>4, <1>5
  <2>2. src[1] \in {1, 2} /\ src[2] \in Int
    BY <1>3, <2>1, ProductSource
  <2> QED BY <2>2 DEF IsOutput, ProductOf
<1>11. Carries(c, mem, Loop(steps), W)
  BY <1>4, <1>9, <1>10, ApartCarries
<1> QED BY <1>1, <1>5, <1>6, <1>11
-----------------------------------------------------------------------------
(* The place of element x of a matrix of some rows in one of cols rows.    *)
Flip(rows, cols, x) == ((x % rows)*cols) + (x \div rows)

LEMMA FlipBack ==
    ASSUME NEW rows \in Nat \ {0}, NEW cols \in Nat \ {0}, NEW x \in 0..(rows*cols - 1)
    PROVE  Flip(rows, cols, x) \in 0..(rows*cols - 1) /\ Flip(cols, rows, Flip(rows, cols, x)) = x
<1>1. PICK q, r : q = x % rows /\ r = x \div rows
  OBVIOUS
<1>2. rows*cols = cols*rows /\ rows*cols \in Nat
  OBVIOUS
<1>3. x \in Nat
  BY <1>2
<1>4. x % rows \in 0..(rows - 1) /\ x = (x \div rows)*rows + (x % rows)
  BY <1>3, DivMod
<1>5. x \div rows \in 0..(cols - 1)
  <2>1. x \in 0..(cols*rows - 1)
    BY <1>2
  <2> QED BY <2>1, RowOf
<1>6. PICK y : y = q*cols + r
  OBVIOUS
<1>7. Flip(rows, cols, x) = y
  BY <1>1, <1>6 DEF Flip
<1>8. q \in 0..(rows - 1) /\ r \in 0..(cols - 1) /\ x = r*rows + q
  BY <1>1, <1>4, <1>5
<1>9. q*cols + r \in 0..(rows*cols - 1)
  BY <1>8, InRow
<1>10. (q*cols + r) \div cols = q /\ (q*cols + r) % cols = r
  <2>1. q \in Nat
    BY <1>8
  <2> QED BY <1>8, <2>1, Placed
<1>11. Flip(cols, rows, y) = r*rows + q
  BY <1>6, <1>10 DEF Flip
<1> QED BY <1>6, <1>7, <1>8, <1>9, <1>11

TransposeOf(c, mem, rows, cols) ==
    /\ rows \in Nat \ {0} /\ cols \in Nat \ {0} /\ OutArg(c) = 2
    /\ Len(c.args) \in Nat /\ Len(c.args) >= 2 /\ Len(c.gs) \in Nat /\ Len(c.gs) >= 2
    /\ Dim(c, 1) = rows /\ Or(Dim(c, 2), IntArg(c, 3)) = cols
    /\ Holds(c, mem, 1, rows*cols) /\ Holds(c, mem, 2, rows*cols) /\ c.args[1].id # c.args[2].id

FlippedCells(rows, cols, n) == [q \in 1..n |-> WriteCell(Flip(cols, rows, q - 1), {<<1, q - 1>>})]

LEMMA TransposeRuns ==
    ASSUME NEW c, NEW mem, NEW rows, NEW cols, TransposeOf(c, mem, rows, cols)
    PROVE  Transpose(c, mem) = Loop(FlippedCells(rows, cols, rows*cols))
<1>1. PICK n : n = rows*cols
  OBVIOUS
<1>2. rows \in Nat \ {0} /\ cols \in Nat \ {0}
  BY DEF TransposeOf
<1>3. n \in Nat /\ rows*cols = cols*rows
  BY <1>1, <1>2
<1>4. Found(c, mem, 1) /\ Found(c, mem, 2) /\ Size(c, mem, 1) = n /\ Size(c, mem, 2) = n
  BY <1>1 DEF TransposeOf, Holds
<1>5. \A loop : Checked(c, mem, 2, {1, 2}, 2, loop) = loop
  BY <1>4 DEF Checked, TransposeOf
<1>6. ASSUME NEW q \in 1..n PROVE q - 1 < n /\ ((q - 1) % cols)*rows + ((q - 1) \div cols) < n
  <2>1. q - 1 \in 0..(cols*rows - 1)
    BY <1>1, <1>3
  <2>2. Flip(cols, rows, q - 1) \in 0..(cols*rows - 1)
    BY <1>2, <2>1, FlipBack
  <2>3. Flip(cols, rows, q - 1) < n
    BY <1>1, <1>3, <2>2
  <2>4. q - 1 < n
    BY <1>3
  <2> QED BY <2>3, <2>4 DEF Flip
<1>7. ~(Or(Dim(c, 2), IntArg(c, 3)) = 0 \/ Dim(c, 1) = 0)
  BY <1>2 DEF TransposeOf
<1>8. Transpose(c, mem) = Loop([q \in 1..n |->
         IF q - 1 < n /\ ((q - 1) % cols)*rows + ((q - 1) \div cols) < n
         THEN WriteCell(((q - 1) % cols)*rows + ((q - 1) \div cols), {<<1, q - 1>>}) ELSE <<>>])
  <2>1. Dim(c, 1) = rows /\ Or(Dim(c, 2), IntArg(c, 3)) = cols
    BY DEF TransposeOf
  <2> QED BY <1>1, <1>4, <1>5, <1>7, <2>1 DEF Transpose
<1>9. [q \in 1..n |->
         IF q - 1 < n /\ ((q - 1) % cols)*rows + ((q - 1) \div cols) < n
         THEN WriteCell(((q - 1) % cols)*rows + ((q - 1) \div cols), {<<1, q - 1>>}) ELSE <<>>]
      = FlippedCells(rows, cols, n)
  BY <1>6, Zenon DEF FlippedCells, Flip
<1> QED BY <1>1, <1>8, <1>9

LEMMA TransposeCarries ==
    ASSUME NEW c, NEW mem, NEW rows, NEW cols, TransposeOf(c, mem, rows, cols)
    PROVE  Carries(c, mem, Transpose(c, mem), [e \in 0..(rows*cols - 1) |-> {<<1, Flip(rows, cols, e)>>}])
<1>1. PICK n : n = rows*cols
  OBVIOUS
<1>2. PICK W : W = [e \in 0..(n - 1) |-> {<<1, Flip(rows, cols, e)>>}]
  OBVIOUS
<1>3. PICK steps : steps = FlippedCells(rows, cols, n)
  OBVIOUS
<1>4. rows \in Nat \ {0} /\ cols \in Nat \ {0}
  BY DEF TransposeOf
<1>5. n \in Nat /\ n = cols*rows
  BY <1>1, <1>4
<1>6. DOMAIN steps = 1..n /\ \A q \in 1..n : steps[q] = WriteCell(Flip(cols, rows, q - 1), {<<1, q - 1>>})
  BY <1>3 DEF FlippedCells
<1>7. ASSUME NEW q \in 1..n, NEW x \in DOMAIN steps[q] PROVE x \in DOMAIN W /\ steps[q][x] = W[x]
  <2>1. q - 1 \in 0..(n - 1)
    BY <1>5
  <2>2. x = Flip(cols, rows, q - 1) /\ steps[q][x] = {<<1, q - 1>>}
    BY <1>6 DEF WriteCell
  <2>3. q - 1 \in 0..(cols*rows - 1)
    BY <1>5, <2>1
  <2>4. Flip(cols, rows, q - 1) \in 0..(cols*rows - 1) /\ Flip(rows, cols, Flip(cols, rows, q - 1)) = q - 1
    BY <1>4, <2>3, FlipBack
  <2>5. x \in 0..(n - 1) /\ Flip(rows, cols, x) = q - 1
    BY <1>5, <2>2, <2>4
  <2> QED BY <1>2, <2>2, <2>5
<1>8. ASSUME NEW x \in DOMAIN W PROVE x \in Int /\ \E q \in 1..n : x \in DOMAIN steps[q]
  <2>1. x \in 0..(n - 1) /\ x \in Int
    BY <1>2, <1>5
  <2>2. x \in 0..(rows*cols - 1)
    BY <1>1, <2>1
  <2>3. PICK y : y = Flip(rows, cols, x)
    OBVIOUS
  <2>4. y \in 0..(rows*cols - 1) /\ Flip(cols, rows, y) = x
    BY <1>4, <2>2, <2>3, FlipBack
  <2>5. y + 1 \in 1..n /\ (y + 1) - 1 = y
    BY <1>1, <1>5, <2>4
  <2>6. DOMAIN steps[y + 1] = {x}
    BY <1>6, <2>4, <2>5 DEF WriteCell
  <2> QED BY <2>1, <2>5, <2>6
<1>9. Reached(Loop(steps), n, W)
  <2>1. Loop(steps).end = "done" /\ Loop(steps).steps = steps
    BY DEF Loop
  <2> QED BY <1>6, <1>7, <1>8, <2>1 DEF Reached
<1>10. ASSUME NEW x \in DOMAIN W, NEW src \in W[x] PROVE src[2] \in Int /\ ~IsOutput(c, mem, src)
  <2>1. x \in 0..(rows*cols - 1) /\ src = <<1, Flip(rows, cols, x)>>
    BY <1>1, <1>2
  <2>2. Flip(rows, cols, x) \in 0..(rows*cols - 1)
    BY <1>4, <2>1, FlipBack
  <2>3. src[1] = 1 /\ src[2] \in 0..(n - 1)
    BY <1>1, <2>1, <2>2
  <2>4. src[2] \in Int
    BY <1>5, <2>3
  <2> QED BY <2>3, <2>4 DEF IsOutput, TransposeOf
<1>11. Carries(c, mem, Loop(steps), W)
  BY <1>5, <1>9, <1>10, ApartCarries
<1> QED BY <1>1, <1>2, <1>3, <1>11, TransposeRuns
-----------------------------------------------------------------------------
(* Kernels of one step a row, which read of the input only the row they    *)
(* write: a row given twice is computed in its place.  Steps beyond the    *)
(* rows there are write nothing.                                           *)
InOwnRow(cols, x, i) == i \in ((x \div cols)*cols)..((x \div cols)*cols + (cols - 1))
RowByRow(c, mem, steps, given, rows, cols, W) ==
    /\ rows \in Nat /\ cols \in Nat \ {0} /\ given \in Nat /\ rows <= given
    /\ Holds(c, mem, OutArg(c), rows*cols)
    /\ DOMAIN steps = 1..given /\ DOMAIN W = 0..(rows*cols - 1)
    /\ \A q \in 1..rows : /\ DOMAIN steps[q] = ((q - 1)*cols)..((q - 1)*cols + (cols - 1))
                          /\ \A x \in DOMAIN steps[q] : steps[q][x] = W[x]
    /\ \A q \in (rows + 1)..given : DOMAIN steps[q] = {}
    /\ \A x \in DOMAIN W : \A src \in W[x] : /\ src[2] \in Int
                                             /\ IsOutput(c, mem, src) => InOwnRow(cols, x, src[2])

LEMMA RowIs ==
    ASSUME NEW cols \in Nat \ {0}, NEW q \in Nat, NEW x \in (q*cols)..(q*cols + (cols - 1))
    PROVE  x \in Nat /\ x \div cols = q /\ x % cols = x - q*cols /\ x % cols \in 0..(cols - 1)
<1>1. PICK a : a = q*cols
  OBVIOUS
<1>2. a \in Nat
  BY <1>1
<1>3. x \in a..(a + (cols - 1))
  BY <1>1
<1>4. x \in Nat /\ x - a \in 0..(cols - 1) /\ x = a + (x - a)
  BY <1>2, <1>3
<1>5. (q*cols + (x - a)) \div cols = q /\ (q*cols + (x - a)) % cols = x - a
  BY <1>4, Placed
<1> QED BY <1>1, <1>4, <1>5

LEMMA RowsApart ==
    ASSUME NEW cols \in Nat \ {0}, NEW q \in Nat, NEW p \in Nat,
           NEW x \in (q*cols)..(q*cols + (cols - 1)), x \in (p*cols)..(p*cols + (cols - 1))
    PROVE  p = q
<1>1. x \div cols = q
  BY RowIs
<1>2. x \div cols = p
  BY RowIs
<1> QED BY <1>1, <1>2

LEMMA RowsCarry ==
    ASSUME NEW c, NEW mem, NEW steps, NEW given, NEW rows, NEW cols, NEW W,
           RowByRow(c, mem, steps, given, rows, cols, W)
    PROVE  Carries(c, mem, Loop(steps), W)
<1>1. rows \in Nat /\ cols \in Nat \ {0} /\ given \in Nat /\ rows <= given /\ DOMAIN steps = 1..given
  BY DEF RowByRow
<1>2. PICK n : n = rows*cols
  OBVIOUS
<1>3. n \in Nat
  BY <1>1, <1>2
<1>4. DOMAIN W = 0..(n - 1)
  BY <1>2 DEF RowByRow
<1>5. ASSUME NEW m \in 1..given, NEW x \in DOMAIN steps[m]
      PROVE  /\ m \in 1..rows /\ m - 1 \in 0..(rows - 1) /\ x \in ((m - 1)*cols)..((m - 1)*cols + (cols - 1))
             /\ x \in DOMAIN W /\ steps[m][x] = W[x] /\ x \div cols = m - 1
  <2>1. m \in 1..rows
    <3>1. m \notin (rows + 1)..given
      BY DEF RowByRow
    <3>2. m \in Int
      OBVIOUS
    <3> QED BY <1>1, <3>1, <3>2
  <2>2. x \in ((m - 1)*cols)..((m - 1)*cols + (cols - 1)) /\ steps[m][x] = W[x]
    BY <2>1 DEF RowByRow
  <2>3. m - 1 \in 0..(rows - 1) /\ m - 1 \in Nat
    BY <1>1, <2>1
  <2>4. x \in Nat /\ x \div cols = m - 1 /\ x % cols = x - (m - 1)*cols /\ x % cols \in 0..(cols - 1)
    BY <1>1, <2>2, <2>3, RowIs
  <2>5. PICK r, a : r = x % cols /\ a = (m - 1)*cols
    OBVIOUS
  <2>6. a \in Int
    BY <1>1, <2>3, <2>5
  <2>7. x = a + r /\ r \in 0..(cols - 1)
    BY <2>4, <2>5, <2>6
  <2>8. (m - 1)*cols + r \in 0..(rows*cols - 1)
    BY <1>1, <2>3, <2>7, InRow
  <2>9. x \in 0..(n - 1)
    BY <1>2, <2>5, <2>7, <2>8
  <2> QED BY <1>4, <2>1, <2>2, <2>3, <2>4, <2>9
<1>6. ASSUME NEW m \in 1..given PROVE Follows(c, mem, steps, m, W)
  <2>1. ASSUME NEW x \in DOMAIN steps[m], NEW src \in W[x]
        PROVE  src[2] \in Int /\ Fresh(c, mem, steps, m, src)
    <3>1. x \in DOMAIN W /\ x \div cols = m - 1 /\ m - 1 \in 0..(rows - 1) /\ m \in Int
      BY <1>5
    <3>2. src[2] \in Int
      BY <3>1 DEF RowByRow
    <3>3. ASSUME IsOutput(c, mem, src)
          PROVE  /\ src[2] + 1 \in DOMAIN mem[c.args[OutArg(c)].id]
                 /\ \A j \in 1..(m - 1) : src[2] \notin DOMAIN steps[j]
      <4>1. PICK i : i = src[2]
        OBVIOUS
      <4>2. i \in Int /\ i \in ((m - 1)*cols)..((m - 1)*cols + (cols - 1))
        BY <3>1, <3>2, <3>3, <4>1 DEF RowByRow, InOwnRow
      <4>3. m - 1 \in Nat
        BY <3>1
      <4>4. i \in 0..(n - 1)
        <5>1. PICK r, a : r = i % cols /\ a = (m - 1)*cols
          OBVIOUS
        <5>2. a \in Int
          BY <1>1, <4>3, <5>1
        <5>3. i % cols = i - (m - 1)*cols /\ i % cols \in 0..(cols - 1)
          BY <1>1, <4>2, <4>3, RowIs
        <5>4. i = a + r /\ r \in 0..(cols - 1)
          BY <4>2, <5>1, <5>2, <5>3
        <5>5. (m - 1)*cols + r \in 0..(rows*cols - 1)
          BY <1>1, <3>1, <5>4, InRow
        <5> QED BY <1>2, <5>1, <5>4, <5>5
      <4>5. i + 1 \in DOMAIN mem[c.args[OutArg(c)].id]
        <5>1. Holds(c, mem, OutArg(c), n)
          BY <1>2 DEF RowByRow
        <5> QED BY <4>2, <4>4, <5>1, InRange
      <4>6. ASSUME NEW j \in 1..(m - 1), i \in DOMAIN steps[j] PROVE FALSE
        <5>1. j \in 1..given
          <6>1. j \in Int /\ 1 <= j /\ j <= m - 1 /\ m <= given /\ given \in Int
            BY <1>1, <3>1
          <6> QED BY <3>1, <6>1
        <5>2. i \in ((j - 1)*cols)..((j - 1)*cols + (cols - 1)) /\ j - 1 \in 0..(rows - 1)
          BY <1>5, <4>6, <5>1
        <5>3. j - 1 \in Nat
          BY <5>2
        <5>4. j - 1 = m - 1
          BY <1>1, <4>2, <4>3, <5>2, <5>3, RowsApart
        <5>5. j \in Int /\ j <= m - 1
          BY <3>1
        <5> QED BY <3>1, <5>4, <5>5
      <4> QED BY <4>1, <4>5, <4>6
    <3> QED BY <3>2, <3>3 DEF Fresh
  <2> QED BY <1>5, <2>1 DEF Follows
<1>7. ASSUME NEW x \in DOMAIN W PROVE x \in Int /\ \E m \in 1..given : x \in DOMAIN steps[m]
  <2>1. x \in 0..(n - 1) /\ x \in Int /\ x \in Nat
    BY <1>3, <1>4
  <2>2. PICK d, r : d = x \div cols /\ r = x % cols
    OBVIOUS
  <2>3. x \in 0..(rows*cols - 1)
    BY <1>2, <2>1
  <2>4. d \in 0..(rows - 1)
    BY <1>1, <2>2, <2>3, RowOf
  <2>5. r \in 0..(cols - 1) /\ x = d*cols + r
    BY <1>1, <2>1, <2>2, DivMod
  <2>6. d + 1 \in 1..rows /\ (d + 1) - 1 = d /\ d + 1 \in 1..given
    BY <1>1, <2>4
  <2>7. DOMAIN steps[d + 1] = (((d + 1) - 1)*cols)..(((d + 1) - 1)*cols + (cols - 1))
    BY <2>6 DEF RowByRow
  <2>8. x \in (d*cols)..(d*cols + (cols - 1))
    <3>1. PICK a : a = d*cols
      OBVIOUS
    <3>2. a \in Int
      BY <1>1, <2>4, <3>1
    <3>3. x = a + r /\ r \in 0..(cols - 1) /\ cols \in Int
      BY <1>1, <2>5, <3>1
    <3>4. x \in a..(a + (cols - 1))
      BY <3>2, <3>3
    <3> QED BY <3>1, <3>4
  <2> QED BY <2>1, <2>6, <2>7, <2>8
<1>8. CarriesIn(c, mem, steps, given, W)
  BY <1>1, <1>6, <1>7 DEF CarriesIn
<1>9. Loop(steps).end = "done" /\ Loop(steps).steps = steps
  BY DEF Loop
<1> QED BY <1>1, <1>8, <1>9 DEF Carries
-----------------------------------------------------------------------------
(* layer_norm, rms_norm, add_bias: given rows, of which there are rows.    *)
LEMMA RowRange ==
    ASSUME NEW rows \in Nat, NEW cols \in Nat \ {0}, NEW q \in Nat \ {0}
    PROVE  /\ q <= rows => ((q - 1)*cols)..(Min({q*cols, rows*cols}) - 1) = ((q - 1)*cols)..((q - 1)*cols + (cols - 1))
           /\ q > rows => ((q - 1)*cols)..(Min({q*cols, rows*cols}) - 1) = {}
<1>1. q - 1 \in Nat /\ (q - 1) + 1 = q
  OBVIOUS
<1>2. PICK a, b, n : a = (q - 1)*cols /\ b = q*cols /\ n = rows*cols
  OBVIOUS
<1>3. ((q - 1) + 1)*cols = (q - 1)*cols + cols /\ (q - 1)*cols \in Nat
  BY <1>1, NextRow
<1>4. a \in Nat /\ b = a + cols /\ n \in Nat /\ b \in Nat
  <2>1. n \in Nat
    BY <1>2
  <2>2. b = a + cols /\ a \in Nat
    BY <1>1, <1>2, <1>3
  <2> QED BY <2>1, <2>2
<1>5. CASE q <= rows
  <2>1. b <= n
    BY <1>2, <1>5, Monotonic
  <2>2. Min({b, n}) = b
    <3>1. {b, n} \in SUBSET Int /\ b \in {b, n} /\ \A i \in {b, n} : b <= i
      BY <1>4, <2>1
    <3> QED BY <3>1, MinIs
  <2>3. b - 1 = a + (cols - 1)
    BY <1>4
  <2> QED BY <1>2, <1>5, <2>2, <2>3
<1>6. CASE q > rows
  <2>1. rows <= q - 1 /\ rows <= q
    BY <1>6
  <2>2. n <= a /\ n <= b
    BY <1>1, <1>2, <2>1, Monotonic
  <2>3. Min({b, n}) = n
    <3>1. {b, n} \in SUBSET Int /\ n \in {b, n} /\ \A i \in {b, n} : n <= i
      BY <1>4, <2>2
    <3> QED BY <3>1, MinIs
  <2>4. a..(n - 1) = {}
    BY <1>4, <2>2
  <2>5. ~(q <= rows)
    BY <1>6
  <2> QED BY <1>2, <2>3, <2>4, <2>5
<1> QED BY <1>5, <1>6

RowSources(cols, x) == {<<1, j>> : j \in ((x \div cols)*cols)..((x \div cols)*cols + (cols - 1))}
WeightSources(ns, cols, x) == {<<n, x % cols>> : n \in ns}

(* The mean of row q is of that row whole.                                 *)
WholeRow(c, mem, cols, q) ==
    OfRow(c, mem, (q - 1)*cols, cols) = {<<1, j>> : j \in ((q - 1)*cols)..((q - 1)*cols + (cols - 1))}

LEMMA OfRowIs ==
    ASSUME NEW c, NEW mem, NEW rows \in Nat, NEW cols \in Nat \ {0}, NEW q \in 1..rows, Size(c, mem, 1) = rows*cols
    PROVE  WholeRow(c, mem, cols, q)
<1>1. q \in Nat \ {0} /\ q <= rows /\ q - 1 \in Nat /\ (q - 1) + 1 = q
  OBVIOUS
<1>2. ((q - 1) + 1)*cols = (q - 1)*cols + cols
  BY <1>1, NextRow
<1>3. (q - 1)*cols + cols = q*cols
  BY <1>1, <1>2
<1>4. ((q - 1)*cols)..(Min({q*cols, rows*cols}) - 1) = ((q - 1)*cols)..((q - 1)*cols + (cols - 1))
  BY <1>1, RowRange
<1> QED BY <1>3, <1>4, Zenon DEF OfRow, WholeRow

LEMMA WeightsAre ==
    ASSUME NEW c, NEW mem, NEW ns, NEW cols \in Nat, NEW j \in 0..(cols - 1), \A k \in ns : Size(c, mem, k) = cols
    PROVE  Weights(c, mem, ns, j) = {<<n, j>> : n \in ns}
<1>1. j < cols
  OBVIOUS
<1>2. {m \in ns : j < Size(c, mem, m)} = ns
  BY <1>1
<1> QED BY <1>2 DEF Weights

NormSteps(c, mem, given, cols, len, ns) ==
    [q \in 1..given |-> [e \in ((q - 1)*cols)..(Min({q*cols, len}) - 1) |->
        OfRow(c, mem, (q - 1)*cols, cols) \cup Weights(c, mem, ns, e - (q - 1)*cols)]]
NormSources(ns, rows, cols) ==
    [x \in 0..(rows*cols - 1) |-> RowSources(cols, x) \cup WeightSources(ns, cols, x)]

BiasSteps(given, cols, len) ==
    [q \in 1..given |-> [e \in ((q - 1)*cols)..(Min({q*cols, len}) - 1) |-> {<<1, e>>, <<3, e - (q - 1)*cols>>}]]
BiasSources(rows, cols) == [x \in 0..(rows*cols - 1) |-> {<<1, x>>, <<3, x % cols>>}]

(* Rows of cols elements, in and out, with weights ns apart from the output.*)
RowsOf(c, mem, ns, given, rows, cols) ==
    /\ rows \in Nat /\ cols \in Nat \ {0} /\ given \in Nat /\ rows <= given
    /\ OutArg(c) = 2 /\ Holds(c, mem, 1, rows*cols) /\ Holds(c, mem, 2, rows*cols)
    /\ ns \subseteq Nat \ {1, 2} /\ \A k \in ns : Size(c, mem, k) = cols /\ c.args[k].id # c.args[2].id
    /\ Len(c.args) \in Nat /\ Len(c.gs) \in Nat /\ Len(c.gs) >= 2
    /\ Shape(c, mem, cols) = [rows |-> given, dim |-> cols]

LEMMA NormCarries ==
    ASSUME NEW c, NEW mem, NEW ns, NEW given, NEW rows, NEW cols, RowsOf(c, mem, ns, given, rows, cols)
    PROVE  Carries(c, mem, Loop(NormSteps(c, mem, given, cols, rows*cols, ns)), NormSources(ns, rows, cols))
<1>1. PICK steps, W : steps = NormSteps(c, mem, given, cols, rows*cols, ns) /\ W = NormSources(ns, rows, cols)
  OBVIOUS
<1>2. rows \in Nat /\ cols \in Nat \ {0} /\ given \in Nat /\ rows <= given
  BY DEF RowsOf
<1>3. DOMAIN steps = 1..given /\ DOMAIN W = 0..(rows*cols - 1)
  BY <1>1 DEF NormSteps, NormSources
<1>4. ASSUME NEW q \in 1..given
      PROVE  /\ DOMAIN steps[q] = ((q - 1)*cols)..(Min({q*cols, rows*cols}) - 1)
             /\ \A e \in DOMAIN steps[q] : steps[q][e] = OfRow(c, mem, (q - 1)*cols, cols)
                                                          \cup Weights(c, mem, ns, e - (q - 1)*cols)
  BY <1>1 DEF NormSteps
<1>5. ASSUME NEW q \in 1..rows
      PROVE  /\ DOMAIN steps[q] = ((q - 1)*cols)..((q - 1)*cols + (cols - 1))
             /\ \A x \in DOMAIN steps[q] : steps[q][x] = W[x]
  <2>1. q \in 1..given /\ q \in Nat \ {0} /\ q <= rows /\ q - 1 \in Nat /\ q - 1 \in 0..(rows - 1)
    BY <1>2
  <2>2. DOMAIN steps[q] = ((q - 1)*cols)..((q - 1)*cols + (cols - 1))
    <3>1. DOMAIN steps[q] = ((q - 1)*cols)..(Min({q*cols, rows*cols}) - 1)
      BY <1>4, <2>1
    <3> QED BY <1>2, <2>1, <3>1, RowRange
  <2>3. ASSUME NEW x \in DOMAIN steps[q] PROVE steps[q][x] = W[x]
    <3>1. x \in Nat /\ x \div cols = q - 1 /\ x % cols = x - (q - 1)*cols /\ x % cols \in 0..(cols - 1)
      BY <1>2, <2>1, <2>2, RowIs
    <3>2. steps[q][x] = OfRow(c, mem, (q - 1)*cols, cols) \cup Weights(c, mem, ns, x % cols)
      <4>1. x - (q - 1)*cols = x % cols
        BY <3>1
      <4> QED BY <1>4, <2>1, <4>1
    <3>3. Size(c, mem, 1) = rows*cols /\ \A k \in ns : Size(c, mem, k) = cols
      BY DEF RowsOf, Holds
    <3>4. OfRow(c, mem, (q - 1)*cols, cols) = RowSources(cols, x)
      <4>1. OfRow(c, mem, (q - 1)*cols, cols) = {<<1, j>> : j \in ((q - 1)*cols)..((q - 1)*cols + (cols - 1))}
        <5>1. rows \in Nat /\ cols \in Nat \ {0} /\ q \in 1..rows
          BY <1>2
        <5>2. WholeRow(c, mem, cols, q)
          BY <3>3, <5>1, OfRowIs
        <5> QED BY <5>2, Zenon DEF WholeRow
      <4> QED BY <3>1, <4>1, Zenon DEF RowSources
    <3>5. Weights(c, mem, ns, x % cols) = WeightSources(ns, cols, x)
      <4>1. cols \in Nat
        BY <1>2
      <4> QED BY <3>1, <3>3, <4>1, WeightsAre DEF WeightSources
    <3>6. x \in 0..(rows*cols - 1)
      <4>1. (q - 1)*cols + (x - (q - 1)*cols) \in 0..(rows*cols - 1)
        BY <1>2, <2>1, <3>1, InRow
      <4>2. PICK a : a = (q - 1)*cols
        OBVIOUS
      <4>3. a \in Int /\ a + (x - a) = x
        BY <1>2, <2>1, <3>1, <4>2
      <4> QED BY <4>1, <4>2, <4>3
    <3> QED BY <1>1, <3>2, <3>4, <3>5, <3>6 DEF NormSources
  <2> QED BY <2>2, <2>3
<1>6. ASSUME NEW q \in (rows + 1)..given PROVE DOMAIN steps[q] = {}
  <2>1. q \in 1..given /\ q \in Nat \ {0} /\ q > rows
    BY <1>2
  <2>2. DOMAIN steps[q] = ((q - 1)*cols)..(Min({q*cols, rows*cols}) - 1)
    BY <1>4, <2>1
  <2> QED BY <1>2, <2>1, <2>2, RowRange
<1>7. ASSUME NEW x \in DOMAIN W, NEW src \in W[x]
      PROVE  src[2] \in Int /\ (IsOutput(c, mem, src) => InOwnRow(cols, x, src[2]))
  <2>1. x \in Nat /\ W[x] = RowSources(cols, x) \cup WeightSources(ns, cols, x)
    <3>1. rows*cols \in Nat
      BY <1>2
    <3> QED BY <1>1, <1>3, <3>1 DEF NormSources
  <2>2. x \div cols \in Nat /\ x % cols \in Nat
    BY <1>2, <2>1, DivMod
  <2>3. CASE src \in RowSources(cols, x)
    <3>1. PICK j \in ((x \div cols)*cols)..((x \div cols)*cols + (cols - 1)) : src = <<1, j>>
      BY <2>3 DEF RowSources
    <3>2. j \in Int
      BY <2>2, <3>1
    <3> QED BY <3>1, <3>2 DEF InOwnRow
  <2>4. CASE src \in WeightSources(ns, cols, x)
    <3>1. PICK k \in ns : src = <<k, x % cols>>
      BY <2>4 DEF WeightSources
    <3>2. ~IsOutput(c, mem, src)
      BY <3>1 DEF IsOutput, RowsOf
    <3> QED BY <2>2, <3>1, <3>2
  <2> QED BY <2>1, <2>3, <2>4
<1>8. Holds(c, mem, OutArg(c), rows*cols)
  BY DEF RowsOf
<1>9. RowByRow(c, mem, steps, given, rows, cols, W)
  BY <1>2, <1>3, <1>5, <1>6, <1>7, <1>8 DEF RowByRow
<1> QED BY <1>1, <1>9, RowsCarry

LEMMA BiasCarries ==
    ASSUME NEW c, NEW mem, NEW given, NEW rows, NEW cols, RowsOf(c, mem, {3}, given, rows, cols)
    PROVE  Carries(c, mem, Loop(BiasSteps(given, cols, rows*cols)), BiasSources(rows, cols))
<1>1. PICK steps, W : steps = BiasSteps(given, cols, rows*cols) /\ W = BiasSources(rows, cols)
  OBVIOUS
<1>2. rows \in Nat /\ cols \in Nat \ {0} /\ given \in Nat /\ rows <= given
  BY DEF RowsOf
<1>3. DOMAIN steps = 1..given /\ DOMAIN W = 0..(rows*cols - 1)
  BY <1>1 DEF BiasSteps, BiasSources
<1>4. ASSUME NEW q \in 1..given
      PROVE  /\ DOMAIN steps[q] = ((q - 1)*cols)..(Min({q*cols, rows*cols}) - 1)
             /\ \A e \in DOMAIN steps[q] : steps[q][e] = {<<1, e>>, <<3, e - (q - 1)*cols>>}
  BY <1>1 DEF BiasSteps
<1>5. ASSUME NEW q \in 1..rows
      PROVE  /\ DOMAIN steps[q] = ((q - 1)*cols)..((q - 1)*cols + (cols - 1))
             /\ \A x \in DOMAIN steps[q] : steps[q][x] = W[x]
  <2>1. q \in 1..given /\ q \in Nat \ {0} /\ q <= rows /\ q - 1 \in Nat /\ q - 1 \in 0..(rows - 1)
    BY <1>2
  <2>2. DOMAIN steps[q] = ((q - 1)*cols)..((q - 1)*cols + (cols - 1))
    <3>1. DOMAIN steps[q] = ((q - 1)*cols)..(Min({q*cols, rows*cols}) - 1)
      BY <1>4, <2>1
    <3> QED BY <1>2, <2>1, <3>1, RowRange
  <2>3. ASSUME NEW x \in DOMAIN steps[q] PROVE steps[q][x] = W[x]
    <3>1. x \in Nat /\ x \div cols = q - 1 /\ x % cols = x - (q - 1)*cols /\ x % cols \in 0..(cols - 1)
      BY <1>2, <2>1, <2>2, RowIs
    <3>2. steps[q][x] = {<<1, x>>, <<3, x % cols>>}
      <4>1. x - (q - 1)*cols = x % cols
        BY <3>1
      <4> QED BY <1>4, <2>1, <4>1
    <3>3. x \in 0..(rows*cols - 1)
      <4>1. (q - 1)*cols + (x - (q - 1)*cols) \in 0..(rows*cols - 1)
        BY <1>2, <2>1, <3>1, InRow
      <4>2. PICK a : a = (q - 1)*cols
        OBVIOUS
      <4>3. a \in Int /\ a + (x - a) = x
        BY <1>2, <2>1, <3>1, <4>2
      <4> QED BY <4>1, <4>2, <4>3
    <3> QED BY <1>1, <3>2, <3>3 DEF BiasSources
  <2> QED BY <2>2, <2>3
<1>6. ASSUME NEW q \in (rows + 1)..given PROVE DOMAIN steps[q] = {}
  <2>1. q \in 1..given /\ q \in Nat \ {0} /\ q > rows
    BY <1>2
  <2>2. DOMAIN steps[q] = ((q - 1)*cols)..(Min({q*cols, rows*cols}) - 1)
    BY <1>4, <2>1
  <2> QED BY <1>2, <2>1, <2>2, RowRange
<1>7. ASSUME NEW x \in DOMAIN W, NEW src \in W[x]
      PROVE  src[2] \in Int /\ (IsOutput(c, mem, src) => InOwnRow(cols, x, src[2]))
  <2>1. x \in Nat /\ W[x] = {<<1, x>>, <<3, x % cols>>}
    <3>1. rows*cols \in Nat
      BY <1>2
    <3> QED BY <1>1, <1>3, <3>1 DEF BiasSources
  <2>2. x \div cols \in Nat /\ x % cols \in 0..(cols - 1) /\ x = (x \div cols)*cols + (x % cols) /\ x % cols \in Nat
    BY <1>2, <2>1, DivMod
  <2>3. InOwnRow(cols, x, x)
    <3>1. PICK a, r : a = (x \div cols)*cols /\ r = x % cols
      OBVIOUS
    <3>2. a \in Int /\ r \in 0..(cols - 1) /\ x = a + r
      BY <1>2, <2>2, <3>1
    <3>3. x \in a..(a + (cols - 1))
      BY <1>2, <3>2
    <3> QED BY <3>1, <3>3 DEF InOwnRow
  <2>4. CASE src = <<1, x>>
    BY <2>1, <2>3, <2>4
  <2>5. CASE src = <<3, x % cols>>
    <3>1. ~IsOutput(c, mem, src)
      BY <2>5 DEF IsOutput, RowsOf
    <3> QED BY <2>2, <2>5, <3>1
  <2> QED BY <2>1, <2>4, <2>5
<1>8. Holds(c, mem, OutArg(c), rows*cols)
  BY DEF RowsOf
<1>9. RowByRow(c, mem, steps, given, rows, cols, W)
  BY <1>2, <1>3, <1>5, <1>6, <1>7, <1>8 DEF RowByRow
<1> QED BY <1>1, <1>9, RowsCarry
-----------------------------------------------------------------------------
(* Described, one operator per idea, and what it says of each kernel.      *)
OfSize(l, k, m) == Has(l, k, {"buffer"}) /\ l.args[k].id \in DOMAIN l.sizes /\ l.sizes[l.args[k].id] = m
Says(l, k, m) == Has(l, k, {"int"}) /\ l.args[k].val = m
MaySay(l, k, m) == Len(l.args) >= k => Says(l, k, m)
Apart(l, k) == l.args[k].id # l.args[OutArg(l)].id

LEMMA DescribedSizes ==
    ASSUME NEW l, Described(l)
    PROVE  /\ l.rows \in Nat \ {0} /\ l.cols \in Nat \ {0} /\ l.inner \in Nat \ {0} /\ l.rows*l.cols \in Nat \ {0}
           /\ \A k \in DOMAIN l.args : l.args[k].is \in {"buffer", "int", "float"}
           /\ \A d \in DOMAIN l.go : l.go[d] = 0
           /\ l.name # "matmul" => OfSize(l, 1, l.rows*l.cols)
           /\ l.name # "reduce_sum" => OfSize(l, OutArg(l), l.rows*l.cols)
<1>1. l.rows \in Nat \ {0} /\ l.cols \in Nat \ {0} /\ l.inner \in Nat \ {0}
  BY DEF Described
<1>2. l.rows*l.cols \in Nat \ {0}
  BY <1>1
<1> QED BY <1>1, <1>2, Zenon DEF Described, OfSize

LEMMA DescribedKernel ==
    ASSUME NEW l, Described(l)
    PROVE  /\ l.name \in {"relu", "sigmoid", "gelu", "softmax", "vector_add", "element_wise_mul", "scalar_mul",
                          "reduce_sum", "transpose", "matmul", "layer_norm", "rms_norm", "add_bias", "rope"}
           /\ l.name = "vector_add" => OfSize(l, 2, l.rows*l.cols) /\ MaySay(l, 4, l.rows*l.cols)
           /\ l.name = "element_wise_mul" => OfSize(l, 2, l.rows*l.cols)
           /\ l.name = "scalar_mul" => Has(l, 3, {"float"})
           /\ l.name = "reduce_sum" => /\ MaySay(l, 3, l.rows*l.cols)
                                       /\ \E m \in {l.sizes[b] : b \in DOMAIN l.sizes} \ {0} : OfSize(l, 2, m)
           /\ l.name = "transpose" => MaySay(l, 3, l.cols) /\ Apart(l, 1)
           /\ l.name = "matmul" => /\ OfSize(l, 1, l.rows*l.inner) /\ OfSize(l, 2, l.inner*l.cols)
                                   /\ MaySay(l, 4, l.inner) /\ Apart(l, 1) /\ Apart(l, 2)
           /\ l.name = "layer_norm" => /\ OfSize(l, 3, l.cols) /\ OfSize(l, 4, l.cols) /\ Says(l, 5, l.cols)
                                       /\ Apart(l, 3) /\ Apart(l, 4)
           /\ l.name = "rms_norm" => OfSize(l, 3, l.cols) /\ Says(l, 4, l.cols) /\ Apart(l, 3)
           /\ l.name = "add_bias" => OfSize(l, 3, l.cols) /\ MaySay(l, 4, l.cols) /\ Apart(l, 3)
           /\ l.name = "rope" => Has(l, 3, {"int"}) /\ Says(l, 4, l.cols) /\ l.cols % 2 = 0
BY DEF Described, OfSize, Says, MaySay, Apart

(* The output has room for what is promised of it; a sum may have more.    *)
LEMMA OutputRoom ==
    ASSUME NEW l, Described(l), \A b \in DOMAIN l.sizes : l.sizes[b] \in Nat
    PROVE  \E m \in Nat \ {0} : OfSize(l, OutArg(l), m) /\ Outputs(l) \subseteq 0..(m - 1)
<1>1. CASE l.name # "reduce_sum"
  <2>1. l.rows*l.cols \in Nat \ {0} /\ OfSize(l, OutArg(l), l.rows*l.cols)
    BY <1>1, DescribedSizes
  <2>2. Outputs(l) = 0..(l.rows*l.cols - 1)
    BY <1>1 DEF Outputs
  <2> QED BY <2>1, <2>2
<1>2. CASE l.name = "reduce_sum"
  <2>1. PICK m \in {l.sizes[b] : b \in DOMAIN l.sizes} \ {0} : OfSize(l, 2, m)
    BY <1>2, DescribedKernel
  <2>2. OutArg(l) = 2 /\ Outputs(l) = {0}
    BY <1>2 DEF OutArg, Outputs
  <2>3. m \in Nat \ {0}
    OBVIOUS
  <2>4. Outputs(l) \subseteq 0..(m - 1)
    BY <2>2, <2>3
  <2> QED BY <2>1, <2>2, <2>3, <2>4
<1> QED BY <1>1, <1>2

(* A message c that carries launch l: the kernel and the buffers are the   *)
(* client's, a float may have become an int.                               *)
Carried(c, l) ==
    /\ c.name = l.name /\ Len(c.args) = Len(l.args) /\ Len(l.args) \in Nat /\ DOMAIN l.args = 1..Len(l.args)
    /\ \A k \in 1..Len(l.args) : \/ l.args[k].is \in {"buffer", "int"} /\ c.args[k] = l.args[k]
                                 \/ l.args[k].is = "float" /\ c.args[k].is \in {"float", "int"}
    /\ \A b \in DOMAIN l.sizes : l.sizes[b] \in Nat

LEMMA CarriedArgs ==
    ASSUME NEW list \in Seq(Arguments), \A k \in DOMAIN list : list[k].is \in {"buffer", "int", "float"}
    PROVE  /\ LocalArgs(list) = list
           /\ Len(RemoteArgs(list)) = Len(list) /\ DOMAIN list = 1..Len(list) /\ Len(list) \in Nat
           /\ \A k \in 1..Len(list) : \/ list[k].is \in {"buffer", "int"} /\ RemoteArgs(list)[k] = list[k]
                                      \/ list[k].is = "float" /\ RemoteArgs(list)[k].is = "int"
<1>1. Len(list) \in Nat /\ list \in [1..Len(list) -> Arguments] /\ DOMAIN list = 1..Len(list)
  BY LenProperties
<1> PICK s : s = {0} \cup {n \in DOMAIN list : list[n].is # "none"}
  OBVIOUS
<1>2. s = 0..Len(list)
  BY <1>1
<1>3. Max(s) = Len(list)
  <2>1. s \in SUBSET (0..Len(list)) /\ s # {} /\ Len(list) \in s
    BY <1>1, <1>2
  <2>2. Max(s) \in 0..Len(list) /\ Len(list) <= Max(s)
    BY <1>1, <1>2, <2>1, MaxIn
  <2> QED BY <1>1, <2>2
<1>4. LocalArgs(list) = [n \in 1..Len(list) |-> Keep(list[n])]
  BY <1>3 DEF LocalArgs
<1>5. \A n \in 1..Len(list) : Keep(list[n]) = list[n]
  BY <1>1 DEF Keep
<1>6. LocalArgs(list) = list
  BY <1>1, <1>4, <1>5
<1>7. Len(RemoteArgs(list)) = Len(list)
  <2>1. RemoteArgs(list) \in Seq(Arguments) /\ DOMAIN RemoteArgs(list) = DOMAIN list
    BY RemoteArgsAre DEF RemoteArgs
  <2>2. Len(RemoteArgs(list)) \in Nat /\ DOMAIN RemoteArgs(list) = 1..Len(RemoteArgs(list))
    BY <2>1, LenProperties
  <2> QED BY <1>1, <2>1, <2>2
<1>8. ASSUME NEW k \in 1..Len(list)
      PROVE  \/ list[k].is \in {"buffer", "int"} /\ RemoteArgs(list)[k] = list[k]
             \/ list[k].is = "float" /\ RemoteArgs(list)[k].is = "int"
  <2>1. list[k].is \in {"buffer", "int", "float"} /\ list[k] \in Arguments
    BY <1>1
  <2>2. CASE list[k].is = "float"
    <3>1. RemoteArgs(list)[k] = [list[k] EXCEPT !.is = "int"] /\ "is" \in DOMAIN list[k]
      BY <1>1, <2>1, <2>2 DEF RemoteArgs, Arguments
    <3> QED BY <2>2, <3>1
  <2>3. CASE list[k].is \in {"buffer", "int"}
    BY <1>1, <2>3 DEF RemoteArgs
  <2> QED BY <2>1, <2>2, <2>3
<1> QED BY <1>1, <1>6, <1>7, <1>8

LEMMA BufferOf ==
    ASSUME NEW c, NEW l, Carried(c, l), NEW k \in Nat \ {0}, NEW m, OfSize(l, k, m)
    PROVE  /\ Holds(c, Vram(l), k, m) /\ c.args[k] = l.args[k] /\ Has(c, k, {"buffer"})
           /\ \A i \in 0..(m - 1) : Value(c, Vram(l), <<k, i>>) = {<<l.args[k].id, i>>}
<1>1. k \in 1..Len(l.args) /\ l.args[k].is = "buffer" /\ m \in Nat
  BY DEF Carried, OfSize, Has
<1>2. c.args[k] = l.args[k] /\ Len(c.args) = Len(l.args)
  BY <1>1 DEF Carried
<1>3. Has(c, k, {"buffer"})
  BY <1>1, <1>2 DEF Has, Carried
<1>4. PICK b : b = l.args[k].id
  OBVIOUS
<1>5. b \in DOMAIN l.sizes /\ l.sizes[b] = m
  BY <1>4 DEF OfSize
<1>6. DOMAIN Vram(l) = DOMAIN l.sizes /\ Vram(l)[b] = [x \in 1..m |-> {<<b, x - 1>>}]
  BY <1>5 DEF Vram
<1>7. Found(c, Vram(l), k) /\ Buffer(c, Vram(l), k) = Vram(l)[b]
  BY <1>2, <1>3, <1>4, <1>5, <1>6 DEF Found, Buffer
<1>8. Len(Vram(l)[b]) = m /\ DOMAIN Vram(l)[b] = 1..m
  BY <1>1, <1>6
<1>9. Holds(c, Vram(l), k, m)
  BY <1>1, <1>2, <1>4, <1>7, <1>8 DEF Holds, Size
<1>10. ASSUME NEW i \in 0..(m - 1) PROVE Value(c, Vram(l), <<k, i>>) = {<<b, i>>}
  <2>1. i + 1 \in 1..m /\ (i + 1) - 1 = i
    BY <1>1
  <2>2. Vram(l)[b][i + 1] = {<<b, i>>}
    BY <1>6, <2>1
  <2> QED BY <1>7, <2>2 DEF Value
<1> QED BY <1>2, <1>3, <1>4, <1>9, <1>10

LEMMA NumberOf ==
    ASSUME NEW c, NEW l, Carried(c, l), NEW k \in Nat \ {0}, Has(l, k, {"int", "float"})
    PROVE  /\ Has(c, k, {"int", "float"}) /\ ~Has(c, k, {"buffer"}) /\ ~Found(c, Vram(l), k) /\ Size(c, Vram(l), k) = 0
           /\ \A i : Value(c, Vram(l), <<k, i>>) = {<<c.args[k].is, k>>}
           /\ Has(l, k, {"int"}) => c.args[k] = l.args[k] /\ Has(c, k, {"int"}) /\ IntArg(c, k) = l.args[k].val
<1>1. k \in 1..Len(l.args) /\ l.args[k].is \in {"int", "float"} /\ Len(c.args) = Len(l.args) /\ Len(c.args) >= k
  BY DEF Carried, Has
<1>2. c.args[k].is \in {"int", "float"} /\ (l.args[k].is = "int" => c.args[k] = l.args[k])
  BY <1>1 DEF Carried
<1>3. ~Has(c, k, {"buffer"})
  BY <1>2 DEF Has
<1>4. ~Found(c, Vram(l), k) /\ Size(c, Vram(l), k) = 0
  BY <1>3 DEF Found, Size, Buffer
<1>5. \A i : Value(c, Vram(l), <<k, i>>) = {<<c.args[k].is, k>>}
  BY <1>4 DEF Value
<1>6. ASSUME Has(l, k, {"int"}) PROVE c.args[k] = l.args[k] /\ Has(c, k, {"int"}) /\ IntArg(c, k) = l.args[k].val
  BY <1>1, <1>2, <1>6 DEF Has, IntArg
<1>7. Has(c, k, {"int", "float"})
  BY <1>1, <1>2 DEF Has
<1> QED BY <1>3, <1>4, <1>5, <1>6, <1>7

LEMMA SaidOf ==
    ASSUME NEW c, NEW l, Carried(c, l), NEW k \in Nat \ {0}, NEW m, MaySay(l, k, m)
    PROVE  /\ Len(c.args) >= k => Has(c, k, {"int"}) /\ IntArg(c, k) = m /\ ~Has(c, k, {"buffer"})
           /\ ~(Len(c.args) >= k) => IntArg(c, k) = 0
           /\ ~Found(c, Vram(l), k)
<1>1. CASE Len(l.args) >= k
  <2>1. Has(l, k, {"int"}) /\ Has(l, k, {"int", "float"}) /\ l.args[k].val = m
    BY <1>1 DEF MaySay, Says, Has
  <2>2. Has(c, k, {"int"}) /\ IntArg(c, k) = m /\ ~Has(c, k, {"buffer"}) /\ ~Found(c, Vram(l), k)
    BY <2>1, NumberOf
  <2>3. Len(c.args) = Len(l.args)
    BY DEF Carried
  <2> QED BY <1>1, <2>2, <2>3
<1>2. CASE ~(Len(l.args) >= k)
  BY <1>2 DEF Carried, IntArg, Has, Found
<1> QED BY <1>1, <1>2
-----------------------------------------------------------------------------
(* What a kernel that carries W leaves in the output, of n elements.       *)
Output(c, l, W, n) ==
    [y \in 1..n |-> IF y - 1 \in DOMAIN W THEN Now(c, Vram(l), W, y - 1) ELSE {<<l.args[OutArg(l)].id, y - 1>>}]

LEMMA OutputIs ==
    ASSUME NEW c, NEW l, Carried(c, l), NEW n, OfSize(l, OutArg(l), n), NEW W,
           NEW k, Carries(c, Vram(l), k, W)
    PROVE  Reduced(c, Vram(l), k.steps)[l.args[OutArg(l)].id] = Output(c, l, W, n)
<1>1. OutArg(c) = OutArg(l) /\ OutArg(c) \in Nat \ {0}
  BY DEF Carried, OutArg
<1>2. PICK o, mem : o = l.args[OutArg(l)].id /\ mem = Vram(l)
  OBVIOUS
<1>3. Holds(c, mem, OutArg(c), n) /\ c.args[OutArg(c)].id = o
  BY <1>1, <1>2, BufferOf
<1>4. o \in DOMAIN l.sizes /\ l.sizes[o] = n /\ n \in Nat
  BY <1>2 DEF OfSize, Carried
<1>5. mem[o] = [x \in 1..n |-> {<<o, x - 1>>}]
  BY <1>2, <1>4 DEF Vram
<1>6. CellsFrom(mem[o])
  BY <1>4, <1>5 DEF CellsFrom
<1>7. Found(c, mem, OutArg(c))
  BY <1>3 DEF Holds
<1>8. Reduced(c, mem, k.steps)[o] = Outcome(c, mem, W)
  BY <1>2, <1>3, <1>6, <1>7, Computed
<1>9. Outcome(c, mem, W) = [y \in 1..n |-> IF y - 1 \in DOMAIN W THEN Now(c, mem, W, y - 1) ELSE {<<o, y - 1>>}]
  <2>1. DOMAIN mem[o] = 1..n /\ \A y \in 1..n : mem[o][y] = {<<o, y - 1>>}
    BY <1>5
  <2> QED BY <1>3, <2>1 DEF Outcome
<1> QED BY <1>2, <1>8, <1>9 DEF Output

LEMMA RunOf ==
    ASSUME NEW c, NEW l, Carried(c, l), NEW n, OfSize(l, OutArg(l), n), NEW W,
           Carries(c, Vram(l), Kernel(c, Vram(l)), W)
    PROVE  /\ ExecuteNDRange(c, Vram(l)).end = "done"
           /\ ExecuteNDRange(c, Vram(l)).mem[l.args[OutArg(l)].id] = Output(c, l, W, n)
<1>1. /\ ExecuteNDRange(c, Vram(l)).end = Kernel(c, Vram(l)).end
      /\ ExecuteNDRange(c, Vram(l)).mem = Reduced(c, Vram(l), Kernel(c, Vram(l)).steps)
  BY DEF ExecuteNDRange, Reduced
<1>2. Kernel(c, Vram(l)).end = "done"
  BY DEF Carries
<1> QED BY <1>1, <1>2, OutputIs
-----------------------------------------------------------------------------
(* The sources a kernel reads are those the comment over it promises.      *)
AsPromised(c, l, W, e) == Now(c, Vram(l), W, e) = Documented(l, e)

LEMMA NowOfOne ==
    ASSUME NEW c, NEW mem, NEW W, NEW e, NEW s, W[e] = {s} PROVE Now(c, mem, W, e) = Value(c, mem, s)
BY DEF Now

LEMMA NowOfTwo ==
    ASSUME NEW c, NEW mem, NEW W, NEW e, NEW s, NEW t, W[e] = {s, t}
    PROVE  Now(c, mem, W, e) = Value(c, mem, s) \cup Value(c, mem, t)
BY DEF Now

LEMMA PairPromised ==
    ASSUME NEW c, NEW l, Carried(c, l), Described(l), NEW W, NEW e \in 0..(l.rows*l.cols - 1),
           l.name \in {"vector_add", "element_wise_mul"}, W[e] = {<<1, e>>, <<2, e>>}
    PROVE  AsPromised(c, l, W, e)
<1>1. PICK n : n = l.rows*l.cols
  OBVIOUS
<1>2. OfSize(l, 1, n) /\ OfSize(l, 2, n)
  BY <1>1, DescribedSizes, DescribedKernel
<1>3. Value(c, Vram(l), <<1, e>>) = {<<l.args[1].id, e>>} /\ Value(c, Vram(l), <<2, e>>) = {<<l.args[2].id, e>>}
  BY <1>1, <1>2, BufferOf
<1>4. Now(c, Vram(l), W, e) = {<<l.args[1].id, e>>, <<l.args[2].id, e>>}
  BY <1>3, NowOfTwo
<1>5. Documented(l, e) = {<<l.args[1].id, e>>, <<l.args[2].id, e>>}
  BY DEF Documented, Input
<1> QED BY <1>4, <1>5 DEF AsPromised

LEMMA ProductInput ==
    ASSUME NEW rows \in Nat, NEW N \in Nat \ {0}, NEW K \in Nat \ {0}, NEW e \in 0..(rows*N - 1), NEW k \in 0..(K - 1)
    PROVE  (e \div N)*K + k \in 0..(rows*K - 1) /\ k*N + (e % N) \in 0..(K*N - 1)
<1>1. PICK d, f : d = e \div N /\ f = e % N
  OBVIOUS
<1>2. d \in 0..(rows - 1)
  BY <1>1, RowOf
<1>3. f \in 0..(N - 1)
  <2>1. rows*N \in Nat
    OBVIOUS
  <2>2. e \in Nat
    BY <2>1
  <2> QED BY <1>1, <2>2, DivMod
<1>4. d*K + k \in 0..(rows*K - 1)
  BY <1>2, InRow
<1>5. k*N + f \in 0..(K*N - 1)
  <2>1. K \in Nat
    OBVIOUS
  <2> QED BY <1>3, <2>1, InRow
<1> QED BY <1>1, <1>4, <1>5

LEMMA ProductPromised ==
    ASSUME NEW c, NEW l, Carried(c, l), Described(l), NEW W, NEW e \in 0..(l.rows*l.cols - 1),
           l.name = "matmul", W[e] = Products(l.inner, l.cols, e)
    PROVE  AsPromised(c, l, W, e)
<1>1. PICK s1, s2, K, N, mem : s1 = l.rows*l.inner /\ s2 = l.inner*l.cols /\ K = l.inner /\ N = l.cols /\ mem = Vram(l)
  OBVIOUS
<1>2. OfSize(l, 1, s1) /\ OfSize(l, 2, s2)
  BY <1>1, DescribedKernel
<1>3. l.rows \in Nat \ {0} /\ l.cols \in Nat \ {0} /\ l.inner \in Nat \ {0}
  BY DescribedSizes
<1>4. PICK f : f = [k \in 0..(K - 1) |-> (e \div N)*K + k]
  OBVIOUS
<1>5. PICK g : g = [k \in 0..(K - 1) |-> k*N + (e % N)]
  OBVIOUS
<1>6. ASSUME NEW k \in 0..(K - 1) PROVE f[k] \in 0..(s1 - 1) /\ g[k] \in 0..(s2 - 1)
  <2>1. (e \div l.cols)*l.inner + k \in 0..(l.rows*l.inner - 1) /\ k*l.cols + (e % l.cols) \in 0..(l.inner*l.cols - 1)
    <3>1. k \in 0..(l.inner - 1) /\ l.rows \in Nat
      BY <1>1, <1>3
    <3> QED BY <1>3, <3>1, ProductInput
  <2> QED BY <1>1, <1>4, <1>5, <2>1
<1>7. \A i \in 0..(s1 - 1) : Value(c, mem, <<1, i>>) = {<<l.args[1].id, i>>}
  BY <1>1, <1>2, BufferOf
<1>8. \A i \in 0..(s2 - 1) : Value(c, mem, <<2, i>>) = {<<l.args[2].id, i>>}
  BY <1>1, <1>2, BufferOf
<1>9. W[e] = UNION {{<<1, f[k]>>, <<2, g[k]>>} : k \in 0..(K - 1)}
  BY <1>1, <1>4, <1>5 DEF Products
<1>10. Documented(l, e) = UNION {{<<l.args[1].id, f[k]>>, <<l.args[2].id, g[k]>>} : k \in 0..(K - 1)}
  BY <1>1, <1>4, <1>5 DEF Documented, Input
<1>11. \A k \in 0..(K - 1) : /\ Value(c, mem, <<1, f[k]>>) = {<<l.args[1].id, f[k]>>}
                             /\ Value(c, mem, <<2, g[k]>>) = {<<l.args[2].id, g[k]>>}
  BY <1>6, <1>7, <1>8
<1>12. Now(c, mem, W, e) = UNION {{<<l.args[1].id, f[k]>>, <<l.args[2].id, g[k]>>} : k \in 0..(K - 1)}
  <2>1. ASSUME NEW y, y \in Now(c, mem, W, e)
        PROVE  \E k \in 0..(K - 1) : y \in {<<l.args[1].id, f[k]>>, <<l.args[2].id, g[k]>>}
    <3>1. PICK src \in W[e] : y \in Value(c, mem, src)
      BY <2>1 DEF Now
    <3>2. PICK k \in 0..(K - 1) : src = <<1, f[k]>> \/ src = <<2, g[k]>>
      BY <1>9, <3>1
    <3> QED BY <1>11, <3>1, <3>2
  <2>2. ASSUME NEW k \in 0..(K - 1), NEW y \in {<<l.args[1].id, f[k]>>, <<l.args[2].id, g[k]>>}
        PROVE  y \in Now(c, mem, W, e)
    <3>1. <<1, f[k]>> \in W[e] /\ <<2, g[k]>> \in W[e]
      BY <1>9
    <3> QED BY <1>11, <3>1 DEF Now
  <2> HIDE <1>9, <1>10, <1>11
  <2>3. \A y : y \in Now(c, mem, W, e)
               <=> \E k \in 0..(K - 1) : y \in {<<l.args[1].id, f[k]>>, <<l.args[2].id, g[k]>>}
    BY <2>1, <2>2, Zenon
  <2> QED BY <2>3, Zenon
<1> QED BY <1>1, <1>10, <1>12 DEF AsPromised
-----------------------------------------------------------------------------
(* What is recorded of a route that carried out W.                         *)
RightIn(r, done, n) ==
    /\ Right(r, done)
    /\ \A e \in (0..(n - 1)) \ done : ran[r].out[e + 1] = {<<launch.args[OutArg(launch)].id, e>>}

LEMMA RanRight ==
    ASSUME NEW r, NEW c, NEW W, NEW n, NEW ids, ran[r] = Answered(ExecuteNDRange(c, Vram(launch)), ids),
           Carried(c, launch), OfSize(launch, OutArg(launch), n), DOMAIN W \subseteq 0..(n - 1),
           Carries(c, Vram(launch), Kernel(c, Vram(launch)), W), \A e \in DOMAIN W : AsPromised(c, launch, W, e)
    PROVE  RightIn(r, DOMAIN W, n)
<1>1. ran[r].end = "done" /\ ran[r].out = Output(c, launch, W, n)
  BY RunOf DEF Answered
<1>2. n \in Nat
  BY DEF OfSize, Carried
<1>3. ASSUME NEW e \in 0..(n - 1)
      PROVE  ran[r].out[e + 1] = IF e \in DOMAIN W THEN Now(c, Vram(launch), W, e)
                                 ELSE {<<launch.args[OutArg(launch)].id, e>>}
  <2>1. e + 1 \in 1..n /\ (e + 1) - 1 = e
    BY <1>2
  <2> QED BY <1>1, <2>1 DEF Output
<1> QED BY <1>1, <1>3 DEF Right, AsPromised, RightIn

(* A share of the launch, cut along dimension 1.                           *)
LEMMA ShareIs ==
    ASSUME LaunchesAssumption, launch \in Launches, Described(launch), Understood(launch), CutDim = 1,
           launch.name \in {"vector_add", "matmul"}, NEW lo \in Nat, NEW n \in Nat
    PROVE  /\ Carried(Cut(lo, n), launch) /\ Len(Cut(lo, n).gs) = 3 /\ Dim(Cut(lo, n), 1) = n
           /\ Dim(Cut(lo, n), 2) = Dim(launch, 2) /\ Offset(Cut(lo, n), 1) = lo /\ Offset(Cut(lo, n), 2) = 0
           /\ Cut(lo, n).name = launch.name
<1>1. /\ {"name", "args", "gs", "go"} \subseteq DOMAIN launch /\ launch.args \in Seq(Arguments)
      /\ \A b \in DOMAIN launch.sizes : launch.sizes[b] \in Nat
  BY DEF LaunchesAssumption
<1>2. PICK c : c = Cut(lo, n)
  OBVIOUS
<1>3. /\ c.name = launch.name /\ c.args = RemoteArgs(launch.args) /\ c.gs = [launch.gs EXCEPT ![1] = n]
      /\ c.go = [d \in DOMAIN launch.gs |-> IF d = 1 THEN lo ELSE 0]
  BY <1>1, <1>2 DEF Cut, OnWorker
<1>4. PICK a, b : launch.gs = <<a, b, 0>>
  BY DEF Understood
<1>5. c.gs = <<n, b, 0>>
  BY <1>3, <1>4
<1>6. Len(c.gs) = 3 /\ Dim(c, 1) = n /\ Dim(c, 2) = b /\ Dim(launch, 2) = b
  BY <1>4, <1>5 DEF Dim
<1>7. c.go = <<lo, 0, 0>>
  <2>1. DOMAIN launch.gs = 1..3
    BY <1>4
  <2> QED BY <1>3, <2>1
<1>8. Offset(c, 1) = lo /\ Offset(c, 2) = 0
  BY <1>7 DEF Offset
<1>9. Carried(c, launch)
  <2>1. \A k \in DOMAIN launch.args : launch.args[k].is \in {"buffer", "int", "float"}
    BY DescribedSizes
  <2>2. /\ Len(c.args) = Len(launch.args) /\ DOMAIN launch.args = 1..Len(launch.args) /\ Len(launch.args) \in Nat
        /\ \A k \in 1..Len(launch.args) :
              \/ launch.args[k].is \in {"buffer", "int"} /\ c.args[k] = launch.args[k]
              \/ launch.args[k].is = "float" /\ c.args[k].is = "int"
    BY <1>1, <1>3, <2>1, CarriedArgs
  <2> QED BY <1>1, <1>3, <2>2 DEF Carried
<1> QED BY <1>2, <1>3, <1>6, <1>8, <1>9
-----------------------------------------------------------------------------
(* A share computes the elements of its rows (of a sum: its elements).     *)
Stride == IF launch.name = "matmul" THEN launch.cols ELSE 1
ShareOf(lo, n, W) ==
    /\ DOMAIN W = (lo*Stride)..(lo*Stride + n*Stride - 1)
    /\ Carries(Cut(lo, n), Vram(launch), Kernel(Cut(lo, n), Vram(launch)), W)
    /\ \A e \in DOMAIN W : AsPromised(Cut(lo, n), launch, W, e)

LEMMA CutAlongRows == ASSUME Cuttable(launch)
    PROVE  /\ CutDim = 1 /\ Dim(launch, 1)*Stride = launch.rows*launch.cols /\ Dim(launch, 1) \in Nat /\ Stride \in Nat
           /\ launch.name \in {"vector_add", "matmul"} /\ Described(launch) /\ Understood(launch)
           /\ launch.name = "vector_add" => Dim(launch, 1) = launch.rows*launch.cols
           /\ launch.name = "matmul" => Dim(launch, 1) = launch.rows /\ Dim(launch, 2) = launch.cols
<1>1. /\ launch.name \in {"vector_add", "matmul"} /\ Described(launch) /\ Understood(launch)
      /\ launch.name = "matmul" => launch.rows >= launch.cols
  BY DEF Cuttable
<1>2. PICK n : n = launch.rows*launch.cols
  OBVIOUS
<1>3. launch.rows \in Nat \ {0} /\ launch.cols \in Nat \ {0} /\ n \in Nat \ {0}
  BY <1>1, <1>2, DescribedSizes
<1>4. CASE launch.name = "vector_add"
  <2>1. launch.gs = <<n, 0, 0>>
    BY <1>1, <1>2, <1>4 DEF Understood
  <2>2. Dim(launch, 1) = n /\ Dim(launch, 2) = 0 /\ Stride = 1
    BY <1>4, <2>1 DEF Dim, Stride
  <2>3. CutDim = 1 /\ n*1 = n
    BY <1>3, <2>2 DEF CutDim
  <2> QED BY <1>1, <1>2, <1>3, <1>4, <2>2, <2>3
<1>5. CASE launch.name = "matmul"
  <2>1. launch.gs = <<launch.rows, launch.cols, 0>>
    BY <1>1, <1>5 DEF Understood
  <2>2. Dim(launch, 1) = launch.rows /\ Dim(launch, 2) = launch.cols /\ Stride = launch.cols
    BY <1>5, <2>1 DEF Dim, Stride
  <2>3. CutDim = 1
    BY <1>1, <1>3, <1>5, <2>2 DEF CutDim
  <2> QED BY <1>1, <1>3, <1>5, <2>2, <2>3
<1> QED BY <1>1, <1>4, <1>5

LEMMA AddShare ==
    ASSUME LaunchesAssumption, launch \in Launches, Cuttable(launch), launch.name = "vector_add",
           NEW lo \in Nat, NEW n \in Nat, lo + n <= Dim(launch, 1)
    PROVE  \E W : ShareOf(lo, n, W)
<1>1. PICK c, N : c = Cut(lo, n) /\ N = launch.rows*launch.cols
  OBVIOUS
<1>2. CutDim = 1 /\ Described(launch) /\ Understood(launch) /\ N = Dim(launch, 1) /\ N \in Nat
  BY <1>1, CutAlongRows
<1>3. Carried(c, launch) /\ Len(c.gs) = 3 /\ Dim(c, 1) = n /\ Offset(c, 1) = lo /\ c.name = launch.name
  BY <1>1, <1>2, ShareIs
<1>4. OutArg(launch) = 3 /\ OutArg(c) = 3
  BY <1>3 DEF OutArg
<1>5. OfSize(launch, 1, N) /\ OfSize(launch, 2, N) /\ OfSize(launch, 3, N)
  BY <1>1, <1>2, <1>4, DescribedSizes, DescribedKernel
<1>6. \A k \in 1..3 : Holds(c, Vram(launch), k, N)
  <2>1. \A k \in 1..3 : k = 1 \/ k = 2 \/ k = 3
    OBVIOUS
  <2>2. Holds(c, Vram(launch), 1, N) /\ Holds(c, Vram(launch), 2, N) /\ Holds(c, Vram(launch), 3, N)
    BY <1>3, <1>5, BufferOf
  <2> QED BY <2>1, <2>2
<1>7. Len(c.args) = 3
  BY <1>3 DEF Carried, Cuttable
<1>8. c.gs # <<>>
  <2>1. Len(c.gs) = 3 /\ Len(<<>>) = 0
    BY <1>3
  <2>2. ASSUME c.gs = <<>> PROVE Len(c.gs) = Len(<<>>)
    BY <2>2, Zenon
  <2> QED BY <2>1, <2>2
<1> PICK W : W = [e \in lo..(lo + n - 1) |-> {<<1, e>>, <<2, e>>}]
  OBVIOUS
<1>9. Carries(c, Vram(launch), VectorAdd(c, Vram(launch)), W)
  <2>1. lo + n <= N /\ Len(c.args) >= 3 /\ ~(Len(c.args) >= 4)
    BY <1>2, <1>7
  <2> QED BY <1>2, <1>3, <1>4, <1>6, <1>8, <2>1, VectorAddCarries
<1>10. Kernel(c, Vram(launch)) = VectorAdd(c, Vram(launch))
  BY <1>3 DEF Kernel
<1>11. ASSUME NEW e \in DOMAIN W PROVE AsPromised(c, launch, W, e)
  <2>1. e \in 0..(N - 1) /\ W[e] = {<<1, e>>, <<2, e>>}
    BY <1>2
  <2> QED BY <1>1, <1>2, <1>3, <2>1, PairPromised
<1>12. DOMAIN W = (lo*Stride)..(lo*Stride + n*Stride - 1)
  <2>1. Stride = 1 /\ lo*1 = lo /\ n*1 = n
    BY DEF Stride
  <2> QED BY <2>1
<1> QED BY <1>1, <1>9, <1>10, <1>11, <1>12 DEF ShareOf

LEMMA ProductShare ==
    ASSUME LaunchesAssumption, launch \in Launches, Cuttable(launch), launch.name = "matmul",
           NEW lo \in Nat, NEW n \in Nat, lo + n <= Dim(launch, 1)
    PROVE  \E W : ShareOf(lo, n, W)
<1>1. PICK c, R, N, K : c = Cut(lo, n) /\ R = launch.rows /\ N = launch.cols /\ K = launch.inner
  OBVIOUS
<1>2. CutDim = 1 /\ Described(launch) /\ Understood(launch) /\ R = Dim(launch, 1) /\ N = Dim(launch, 2)
  BY <1>1, CutAlongRows
<1>3. R \in Nat \ {0} /\ N \in Nat \ {0} /\ K \in Nat \ {0}
  BY <1>1, <1>2, DescribedSizes
<1>4. /\ Carried(c, launch) /\ Len(c.gs) = 3 /\ Dim(c, 1) = n /\ Dim(c, 2) = N
      /\ Offset(c, 1) = lo /\ Offset(c, 2) = 0 /\ c.name = launch.name
  BY <1>1, <1>2, ShareIs
<1>5. OutArg(launch) = 3 /\ OutArg(c) = 3
  BY <1>4 DEF OutArg
<1>6. /\ OfSize(launch, 1, R*K) /\ OfSize(launch, 2, K*N) /\ OfSize(launch, 3, R*N)
      /\ Apart(launch, 1) /\ Apart(launch, 2) /\ MaySay(launch, 4, K)
  BY <1>1, <1>2, <1>5, DescribedSizes, DescribedKernel
<1>7. /\ Holds(c, Vram(launch), 1, R*K) /\ Holds(c, Vram(launch), 2, K*N) /\ Holds(c, Vram(launch), 3, R*N)
      /\ \A k \in {1, 2} : c.args[k].id # c.args[3].id
  <2>1. c.args[1] = launch.args[1] /\ c.args[2] = launch.args[2] /\ c.args[3] = launch.args[3]
    BY <1>4, <1>6, BufferOf
  <2>2. Holds(c, Vram(launch), 1, R*K) /\ Holds(c, Vram(launch), 2, K*N) /\ Holds(c, Vram(launch), 3, R*N)
    BY <1>4, <1>6, BufferOf
  <2> QED BY <1>5, <1>6, <2>1, <2>2 DEF Apart
<1>8. Len(c.args) \in Nat /\ Len(c.args) >= 4
  BY <1>4 DEF Carried, Cuttable, Has
<1>9. IntArg(c, 4) = K
  BY <1>4, <1>6, <1>8, SaidOf
<1>10. Inner(c, Vram(launch), n, N) = K
  BY <1>3, <1>9 DEF Inner, Or
<1>11. ProductOf(c, Vram(launch), R, n, N, K, lo)
  <2>1. lo + n <= R /\ Len(c.args) >= 3 /\ Len(c.gs) \in Nat /\ Len(c.gs) >= 2 /\ R \in Nat
    BY <1>2, <1>3, <1>4, <1>8
  <2> QED BY <1>3, <1>4, <1>5, <1>7, <1>8, <1>10, <2>1, Zenon DEF ProductOf
<1>12. PICK W : W = [e \in (lo*N)..(lo*N + n*N - 1) |-> Products(K, N, e)]
  OBVIOUS
<1>13. Carries(c, Vram(launch), MatMul(c, Vram(launch)), W)
  <2>1. Carries(c, Vram(launch), MatMul(c, Vram(launch)), [e \in (lo*N)..(lo*N + n*N - 1) |-> Products(K, N, e)])
    BY <1>11, MatMulCarries
  <2> QED BY <1>12, <2>1, Zenon
<1>14. Kernel(c, Vram(launch)) = MatMul(c, Vram(launch))
  BY <1>4 DEF Kernel
<1>15. DOMAIN W = (lo*N)..(lo*N + n*N - 1) /\ \A e \in DOMAIN W : W[e] = Products(K, N, e)
  BY <1>12, Zenon
<1>16. ASSUME NEW e \in DOMAIN W PROVE e \in 0..(launch.rows*launch.cols - 1)
  <2>1. (lo + n)*N <= R*N /\ R*N \in Nat
    BY <1>2, <1>3, Monotonic
  <2>2. (lo + n)*N = lo*N + n*N /\ lo*N \in Nat /\ n*N \in Nat
    BY <1>3
  <2>3. PICK a, b, t : a = lo*N /\ b = n*N /\ t = R*N
    OBVIOUS
  <2>4. a \in Nat /\ b \in Nat /\ t \in Nat /\ a + b <= t
    BY <2>1, <2>2, <2>3
  <2>5. e \in a..(a + b - 1)
    BY <1>15, <2>3
  <2>6. e \in 0..(t - 1)
    BY <2>4, <2>5
  <2> QED BY <1>1, <2>3, <2>6
<1>17. ASSUME NEW e \in DOMAIN W PROVE AsPromised(c, launch, W, e)
  <2>1. W[e] = Products(launch.inner, launch.cols, e)
    BY <1>1, <1>15
  <2> QED BY <1>2, <1>4, <1>16, <2>1, ProductPromised
<1>18. Stride = N
  BY <1>1 DEF Stride
<1> QED BY <1>1, <1>13, <1>14, <1>15, <1>17, <1>18, Zenon DEF ShareOf

LEMMA PortionDone ==
    ASSUME LaunchesAssumption, launch \in Launches, Cuttable(launch), NEW r, NEW ids,
           NEW lo \in Nat, NEW n \in Nat, lo + n <= Dim(launch, 1), ran[r] = Answered(OnShare(lo, n), ids)
    PROVE  RightIn(r, (lo*Stride)..((lo + n)*Stride - 1), launch.rows*launch.cols)
<1>1. /\ CutDim = 1 /\ Dim(launch, 1)*Stride = launch.rows*launch.cols /\ Stride \in Nat /\ Dim(launch, 1) \in Nat
      /\ launch.name \in {"vector_add", "matmul"} /\ Described(launch) /\ Understood(launch)
  BY CutAlongRows
<1>2. PICK W : ShareOf(lo, n, W)
  BY <1>1, AddShare, ProductShare
<1>3. PICK c, N, a, b : c = Cut(lo, n) /\ N = launch.rows*launch.cols /\ a = lo*Stride /\ b = n*Stride
  OBVIOUS
<1>4. (lo + n)*Stride = a + b /\ a \in Nat /\ b \in Nat /\ a + b <= N
  <2>1. (lo + n)*Stride <= Dim(launch, 1)*Stride
    <3>1. lo + n \in Nat
      OBVIOUS
    <3> QED BY <1>1, <3>1, Monotonic
  <2>2. (lo + n)*Stride = lo*Stride + n*Stride /\ lo*Stride \in Nat /\ n*Stride \in Nat
    BY <1>1
  <2> QED BY <1>1, <1>3, <2>1, <2>2
<1>5. Carried(c, launch) /\ OfSize(launch, OutArg(launch), N) /\ N \in Nat
  BY <1>1, <1>3, ShareIs, DescribedSizes
<1>6. DOMAIN W = a..(a + b - 1) /\ (lo*Stride)..((lo + n)*Stride - 1) = a..(a + b - 1)
  BY <1>2, <1>3, <1>4 DEF ShareOf
<1>7. DOMAIN W \subseteq 0..(N - 1)
  BY <1>4, <1>5, <1>6
<1>8. Carries(c, Vram(launch), Kernel(c, Vram(launch)), W) /\ \A e \in DOMAIN W : AsPromised(c, launch, W, e)
  BY <1>2, <1>3 DEF ShareOf
<1>9. ran[r] = Answered(ExecuteNDRange(c, Vram(launch)), ids)
  BY <1>3 DEF OnShare
<1>10. RightIn(r, DOMAIN W, N)
  <2>1. Carried(c, launch) /\ OfSize(launch, OutArg(launch), N)
    BY <1>5
  <2> QED BY <1>7, <1>8, <1>9, <2>1, RanRight
<1> QED BY <1>3, <1>6, <1>10, Zenon

LEMMA PortionsRight ==
    ASSUME LaunchesAssumption, KInv, NEW r \in {"low", "high"}, Ran(r), Cuttable(launch)
    PROVE  /\ Right(r, Portion(r))
           /\ \A e \in Outputs(launch) \ Portion(r) : ran[r].out[e + 1] = {<<launch.args[OutArg(launch)].id, e>>}
<1>1. launch \in Launches /\ launch.cut \in Nat
  BY DEF KInv, KernelsTypeOK, LaunchesAssumption
<1>2. /\ Dim(launch, 1)*Stride = launch.rows*launch.cols /\ Dim(launch, 1) \in Nat /\ Stride \in Nat
      /\ CutDim = 1 /\ launch.name \in {"vector_add", "matmul"}
  BY CutAlongRows
<1>3. launch.cut <= Dim(launch, 1)
  BY DEF Cuttable
<1>4. Outputs(launch) = 0..(launch.rows*launch.cols - 1)
  BY <1>2 DEF Outputs
<1>5. CASE r = "low"
  <2>1. ran[r] = Answered(OnShare(0, launch.cut), {LastBuffer(launch.args)})
    BY <1>5 DEF KInv, OnLow
  <2>2. 0 \in Nat /\ 0 + launch.cut <= Dim(launch, 1) /\ 0*Stride = 0 /\ 0 + launch.cut = launch.cut
    BY <1>1, <1>2, <1>3
  <2>3. Portion(r) = (0*Stride)..((0 + launch.cut)*Stride - 1)
    BY <1>5, <2>2 DEF Portion, Stride
  <2>4. RightIn(r, (0*Stride)..((0 + launch.cut)*Stride - 1), launch.rows*launch.cols)
    BY <1>1, <2>1, <2>2, PortionDone
  <2> QED BY <1>4, <2>3, <2>4, Zenon DEF RightIn
<1>6. CASE r = "high"
  <2>1. PICK n : n = Dim(launch, 1) - launch.cut
    OBVIOUS
  <2>2. n \in Nat /\ launch.cut + n = Dim(launch, 1) /\ launch.cut + n <= Dim(launch, 1)
    BY <1>1, <1>2, <1>3, <2>1
  <2>3. ran[r] = Answered(OnShare(launch.cut, n), {LastBuffer(launch.args)})
    BY <1>2, <1>6, <2>1 DEF KInv, OnHigh
  <2>4. Portion(r) = (launch.cut*Stride)..((launch.cut + n)*Stride - 1)
    BY <1>2, <1>6, <2>2 DEF Portion, Stride
  <2>5. RightIn(r, (launch.cut*Stride)..((launch.cut + n)*Stride - 1), launch.rows*launch.cols)
    BY <1>1, <2>2, <2>3, PortionDone
  <2> QED BY <1>4, <2>4, <2>5, Zenon DEF RightIn
<1> QED BY <1>5, <1>6

(* The two shares of a sum or of a product cut by rows compute their       *)
(* elements, and write nothing else: fallback.go's offsets, the scheduler's *)
(* cut (split.go:127-177) and the write-back of ipc_server.go agree.       *)
THEOREM PortionsAreRight == KernelsSpec => []PortionIsRight
<1>1. KInv => PortionIsRight
  BY LaunchesAssumption, PortionsRight DEF PortionIsRight
<1> QED BY <1>1, LaunchesAssumption, InitKernels, NextKernels, PTL DEF KernelsSpec
-----------------------------------------------------------------------------
(* Steps that write each its own cells and read of the output no other:    *)
(* the pairs of rope, the items of a GPU.                                  *)
OwnCells(c, mem, steps, n, W) ==
    /\ DOMAIN steps = 1..n
    /\ \A m \in 1..n : \A x \in DOMAIN steps[m] :
          /\ x \in DOMAIN W /\ steps[m][x] = W[x]
          /\ \A src \in W[x] : /\ src[2] \in Int
                               /\ IsOutput(c, mem, src) => /\ src[2] \in DOMAIN steps[m]
                                                           /\ src[2] + 1 \in DOMAIN mem[c.args[OutArg(c)].id]
    /\ \A m, j \in 1..n : m # j => DOMAIN steps[m] \cap DOMAIN steps[j] = {}
    /\ \A x \in DOMAIN W : x \in Int /\ \E m \in 1..n : x \in DOMAIN steps[m]

LEMMA OwnCarry ==
    ASSUME NEW c, NEW mem, NEW steps, NEW n \in Nat, NEW W, OwnCells(c, mem, steps, n, W)
    PROVE  Carries(c, mem, Loop(steps), W)
<1>1. ASSUME NEW m \in 1..n PROVE Follows(c, mem, steps, m, W)
  <2>1. ASSUME NEW x \in DOMAIN steps[m], NEW src \in W[x] PROVE Fresh(c, mem, steps, m, src)
    <3>1. ASSUME IsOutput(c, mem, src), NEW j \in 1..(m - 1) PROVE src[2] \notin DOMAIN steps[j]
      <4>1. src[2] \in DOMAIN steps[m]
        BY <3>1 DEF OwnCells
      <4>2. j \in 1..n /\ m # j
        OBVIOUS
      <4> QED BY <4>1, <4>2 DEF OwnCells
    <3>2. IsOutput(c, mem, src) => src[2] + 1 \in DOMAIN mem[c.args[OutArg(c)].id]
      BY DEF OwnCells
    <3> QED BY <3>1, <3>2 DEF Fresh
  <2> QED BY <2>1 DEF Follows, OwnCells
<1>2. CarriesIn(c, mem, steps, n, W)
  BY <1>1 DEF CarriesIn, OwnCells
<1>3. Loop(steps).end = "done" /\ Loop(steps).steps = steps
  BY DEF Loop
<1> QED BY <1>2, <1>3 DEF Carries
-----------------------------------------------------------------------------
(* The pair p of rows of cols elements, and where it is.                   *)
FirstOf(cols, half, p) == (p \div half)*cols + (p % half)
PairOf(cols, half, p) == Pair((p \div half)*cols, p % half, half, {<<3, 0>>})
RotateSources(cols, half, x) ==
    {<<1, (x \div cols)*cols + ((x % cols) % half)>>, <<1, (x \div cols)*cols + ((x % cols) % half) + half>>, <<3, 0>>}

PairAt(cols, half, p, a) ==
    /\ a \in Nat /\ DOMAIN PairOf(cols, half, p) = {a, a + half}
    /\ \A x \in {a, a + half} :
          /\ x \div cols = p \div half /\ (x % cols) % half = p % half
          /\ PairOf(cols, half, p)[x] = {<<1, a>>, <<1, a + half>>, <<3, 0>>}
          /\ RotateSources(cols, half, x) = {<<1, a>>, <<1, a + half>>, <<3, 0>>}

LEMMA PairIs ==
    ASSUME NEW half \in Nat \ {0}, NEW cols, cols = half + half, NEW p \in Nat, NEW a, a = FirstOf(cols, half, p)
    PROVE  PairAt(cols, half, p, a)
<1>1. PICK d, e, b : d = p \div half /\ e = p % half /\ b = d*cols
  OBVIOUS
<1>2. d \in Nat /\ e \in 0..(half - 1) /\ cols \in Nat \ {0}
  <2>1. d \in Nat /\ e \in 0..(half - 1)
    BY <1>1, DivMod
  <2>2. cols \in Nat \ {0}
    OBVIOUS
  <2> QED BY <2>1, <2>2
<1>3. b \in Nat /\ a = b + e
  BY <1>1, <1>2 DEF FirstOf
<1>4. a \in Nat
  BY <1>2, <1>3
<1>5. a \div cols = d /\ a % cols = e
  <2>1. e \in 0..(cols - 1)
    BY <1>2
  <2>2. (d*cols + e) \div cols = d /\ (d*cols + e) % cols = e
    BY <1>2, <2>1, Placed
  <2> QED BY <1>1, <1>3, <2>2
<1>6. (a + half) \div cols = d /\ (a + half) % cols = e + half
  <2>1. e + half \in 0..(cols - 1)
    BY <1>2
  <2>2. (d*cols + (e + half)) \div cols = d /\ (d*cols + (e + half)) % cols = e + half
    BY <1>2, <2>1, Placed
  <2>3. b + (e + half) = a + half
    BY <1>2, <1>3
  <2> QED BY <1>1, <2>2, <2>3
<1>7. e % half = e /\ (e + half) % half = e
  <2>1. (0*half + e) % half = e /\ (1*half + e) % half = e
    BY <1>2, Placed
  <2>2. 0*half + e = e /\ 1*half + e = e + half
    BY <1>2
  <2> QED BY <2>1, <2>2
<1>8. DOMAIN PairOf(cols, half, p) = {a, a + half}
      /\ \A x \in {a, a + half} : PairOf(cols, half, p)[x] = {<<1, a>>, <<1, a + half>>, <<3, 0>>}
  <2>1. PairOf(cols, half, p) = Pair(b, e, half, {<<3, 0>>})
    BY <1>1 DEF PairOf
  <2> QED BY <1>3, <2>1 DEF Pair
<1>9. ASSUME NEW x \in {a, a + half}
      PROVE  /\ x \div cols = d /\ (x % cols) % half = e
             /\ RotateSources(cols, half, x) = {<<1, a>>, <<1, a + half>>, <<3, 0>>}
  <2>1. x \div cols = d /\ (x % cols) % half = e
    BY <1>5, <1>6, <1>7
  <2>2. (x \div cols)*cols + ((x % cols) % half) = a
    BY <1>1, <1>3, <2>1
  <2> QED BY <2>1, <2>2 DEF RotateSources
<1> QED BY <1>1, <1>4, <1>8, <1>9 DEF PairAt

LEMMA PairFor ==
    ASSUME NEW half \in Nat \ {0}, NEW cols, cols = half + half, NEW rows \in Nat, NEW x \in 0..(rows*cols - 1)
    PROVE  \E p \in 0..(rows*half - 1) : /\ x \in DOMAIN PairOf(cols, half, p)
                                         /\ FirstOf(cols, half, p) + half \in 0..(rows*cols - 1)
<1>1. cols \in Nat \ {0} /\ rows*cols \in Nat
  OBVIOUS
<1>2. x \in Nat
  BY <1>1
<1>3. PICK d, f, e : d = x \div cols /\ f = x % cols /\ e = (x % cols) % half
  OBVIOUS
<1>4. d \in 0..(rows - 1) /\ d \in Nat
  <2>1. d \in 0..(rows - 1)
    BY <1>1, <1>3, RowOf
  <2> QED BY <2>1
<1>5. f \in 0..(cols - 1) /\ x = d*cols + f /\ f \in Nat
  BY <1>1, <1>2, <1>3, DivMod
<1>6. e \in 0..(half - 1)
  BY <1>3, <1>5, DivMod
<1>7. PICK p : p = d*half + e
  OBVIOUS
<1>8. p \in 0..(rows*half - 1) /\ p \div half = d /\ p % half = e /\ p \in Nat
  <2>1. d*half + e \in 0..(rows*half - 1)
    BY <1>4, <1>6, InRow
  <2>2. (d*half + e) \div half = d /\ (d*half + e) % half = e /\ d*half + e \in Nat
    BY <1>4, <1>6, Placed
  <2> QED BY <1>7, <2>1, <2>2
<1>9. PICK a, b : a = FirstOf(cols, half, p) /\ b = d*cols
  OBVIOUS
<1>10. a = b + e /\ b \in Nat
  <2>1. b \in Nat
    BY <1>1, <1>4, <1>9
  <2> QED BY <1>8, <1>9, <2>1 DEF FirstOf
<1>11. DOMAIN PairOf(cols, half, p) = {a, a + half}
  <2>1. PairAt(cols, half, p, a)
    BY <1>8, <1>9, PairIs
  <2> QED BY <2>1 DEF PairAt
<1>12. f = e \/ f = e + half
  <2>1. CASE f < half
    <3>1. (0*half + f) % half = f
      <4>1. f \in 0..(half - 1) /\ 0 \in Nat
        BY <1>5, <2>1
      <4> QED BY <4>1, Placed
    <3>2. 0*half + f = f
      BY <1>5
    <3> QED BY <1>3, <3>1, <3>2
  <2>2. CASE ~(f < half)
    <3>1. f - half \in 0..(half - 1)
      BY <1>1, <1>5, <2>2
    <3>2. (1*half + (f - half)) % half = f - half
      BY <3>1, Placed
    <3>3. 1*half + (f - half) = f
      BY <1>5
    <3>4. e = f - half
      BY <1>3, <3>2, <3>3
    <3> QED BY <1>5, <3>4
  <2> QED BY <2>1, <2>2
<1>13. x = a \/ x = a + half
  BY <1>5, <1>6, <1>9, <1>10, <1>12
<1>14. a + half \in 0..(rows*cols - 1)
  <2>1. e + half \in 0..(cols - 1)
    BY <1>6
  <2>2. d*cols + (e + half) \in 0..(rows*cols - 1)
    BY <1>1, <1>4, <2>1, InRow
  <2>3. b + (e + half) = a + half
    BY <1>6, <1>10
  <2> QED BY <1>9, <2>2, <2>3
<1> QED BY <1>8, <1>9, <1>11, <1>13, <1>14
-----------------------------------------------------------------------------
(* Rows of pairs, in and out; given rows, of which there are rows.         *)
RopeOf(c, mem, given, rows, cols, half) ==
    /\ rows \in Nat /\ half \in Nat \ {0} /\ cols = half + half /\ cols \div 2 = half /\ given \in Nat /\ rows <= given
    /\ OutArg(c) = 2 /\ Holds(c, mem, 1, rows*cols) /\ Holds(c, mem, 2, rows*cols) /\ Has(c, 3, {"int"})
    /\ Len(c.args) \in Nat /\ Len(c.args) >= 2 /\ Len(c.gs) \in Nat /\ Len(c.gs) >= 2
    /\ Or(Or(Dim(c, 2), IntArg(c, 4)), rows*cols) = cols
    /\ Or(Dim(c, 1), IF cols > 0 THEN (rows*cols) \div cols ELSE 0) = given
RopeSteps(cols, half, given, n) ==
    [q \in 1..(given*half) |-> IF FirstOf(cols, half, q - 1) + half < n THEN PairOf(cols, half, q - 1) ELSE <<>>]
RopeSources(rows, cols, half) == [x \in 0..(rows*cols - 1) |-> RotateSources(cols, half, x)]

LEMMA RopeRuns ==
    ASSUME NEW c, NEW mem, NEW given, NEW rows, NEW cols, NEW half, RopeOf(c, mem, given, rows, cols, half)
    PROVE  RoPE(c, mem) = Loop(RopeSteps(cols, half, given, rows*cols))
<1>1. PICK n : n = rows*cols
  OBVIOUS
<1>2. rows \in Nat /\ half \in Nat \ {0} /\ cols = half + half /\ cols \div 2 = half /\ given \in Nat
  BY DEF RopeOf
<1>3. n \in Nat /\ cols \in Nat \ {0} /\ cols > 0
  <2>1. cols \in Nat \ {0}
    BY <1>2
  <2>2. n \in Nat
    BY <1>1, <1>2, <2>1
  <2> QED BY <2>1, <2>2
<1>4. Found(c, mem, 1) /\ Found(c, mem, 2) /\ Size(c, mem, 1) = n /\ Size(c, mem, 2) = n
  BY <1>1 DEF RopeOf, Holds
<1>5. \A loop : Checked(c, mem, 2, {1, 2}, 2, loop) = loop
  BY <1>4 DEF Checked, RopeOf
<1>6. {<<k, 0>> : k \in {m \in {3} : Has(c, m, {"int"})}} = {<<3, 0>>}
  BY DEF RopeOf
<1>7. Or(Or(Dim(c, 2), IntArg(c, 4)), n) = cols /\ Or(Dim(c, 1), IF cols > 0 THEN n \div cols ELSE 0) = given
  BY <1>1 DEF RopeOf
<1>8. n..(n - 1) = {} /\ ~(cols = 0)
  BY <1>3
<1>9. ~(\E q \in 1..given*half : ((q - 1) \div half)*cols + ((q - 1) % half) + half \in n..(n - 1))
  BY <1>8
<1>10. RoPE(c, mem) = Loop([q \in 1..given*half |->
            IF ((q - 1) \div half)*cols + ((q - 1) % half) + half < n
            THEN Pair(((q - 1) \div half)*cols, (q - 1) % half, half, {<<3, 0>>}) ELSE <<>>])
  BY <1>2, <1>4, <1>5, <1>6, <1>7, <1>8, <1>9, Zenon DEF RoPE
<1> QED BY <1>1, <1>10, Zenon DEF RopeSteps, FirstOf, PairOf

LEMMA RopeCarries ==
    ASSUME NEW c, NEW mem, NEW given, NEW rows, NEW cols, NEW half, RopeOf(c, mem, given, rows, cols, half)
    PROVE  Carries(c, mem, RoPE(c, mem), RopeSources(rows, cols, half))
<1>1. PICK n, t, steps, W : /\ n = rows*cols /\ t = given*half /\ steps = RopeSteps(cols, half, given, n)
                            /\ W = RopeSources(rows, cols, half)
  OBVIOUS
<1>2. rows \in Nat /\ half \in Nat \ {0} /\ cols = half + half /\ given \in Nat /\ rows <= given
  BY DEF RopeOf
<1>3. n \in Nat /\ t \in Nat /\ rows*half <= t /\ rows*half \in Nat
  <2>1. cols \in Nat
    BY <1>2
  <2>2. rows*half <= given*half /\ rows*half \in Nat
    BY <1>2, Monotonic
  <2> QED BY <1>1, <1>2, <2>1, <2>2
<1>4. /\ DOMAIN steps = 1..t
      /\ \A q \in 1..t : steps[q] = IF FirstOf(cols, half, q - 1) + half < n THEN PairOf(cols, half, q - 1) ELSE <<>>
  BY <1>1 DEF RopeSteps
<1>5. DOMAIN W = 0..(n - 1) /\ \A x \in 0..(n - 1) : W[x] = RotateSources(cols, half, x)
  BY <1>1 DEF RopeSources
<1>6. ASSUME NEW q \in 1..t, NEW x \in DOMAIN steps[q]
      PROVE  /\ x \in DOMAIN W /\ steps[q][x] = W[x] /\ x \in DOMAIN PairOf(cols, half, q - 1)
             /\ \A src \in W[x] : /\ src[2] \in Int
                                  /\ src[1] # 3 => src[2] \in DOMAIN steps[q] /\ src[2] \in 0..(n - 1)
  <2>1. PICK a : a = FirstOf(cols, half, q - 1)
    OBVIOUS
  <2>2. q - 1 \in Nat
    OBVIOUS
  <2>3. PairAt(cols, half, q - 1, a)
    BY <1>2, <2>1, <2>2, PairIs
  <2>4. a + half < n
    <3>1. DOMAIN <<>> = {}
      OBVIOUS
    <3> QED BY <1>4, <2>1, <3>1
  <2>5. steps[q] = PairOf(cols, half, q - 1)
    BY <1>4, <2>1, <2>4
  <2>6. a \in Nat /\ DOMAIN steps[q] = {a, a + half} /\ x \in {a, a + half}
    BY <2>3, <2>5 DEF PairAt
  <2>7. a \in 0..(n - 1) /\ a + half \in 0..(n - 1)
    BY <1>2, <1>3, <2>4, <2>6
  <2>8. x \in 0..(n - 1) /\ W[x] = {<<1, a>>, <<1, a + half>>, <<3, 0>>} /\ steps[q][x] = W[x]
    BY <1>5, <2>3, <2>5, <2>6, <2>7 DEF PairAt
  <2>9. a \in Int /\ a + half \in Int
    BY <1>2, <2>6
  <2>10. ASSUME NEW src \in W[x]
         PROVE  src[2] \in Int /\ (src[1] # 3 => src[2] \in DOMAIN steps[q] /\ src[2] \in 0..(n - 1))
    <3>1. src = <<1, a>> \/ src = <<1, a + half>> \/ src = <<3, 0>>
      BY <2>8
    <3> QED BY <2>6, <2>7, <2>9, <3>1
  <2> QED BY <1>5, <2>5, <2>8, <2>10
<1>7. ASSUME NEW q \in 1..t, NEW p \in 1..t, NEW x, x \in DOMAIN steps[q], x \in DOMAIN steps[p] PROVE p = q
  <2>1. x \in DOMAIN PairOf(cols, half, q - 1) /\ x \in DOMAIN PairOf(cols, half, p - 1)
    BY <1>6, <1>7
  <2>2. q - 1 \in Nat /\ p - 1 \in Nat
    OBVIOUS
  <2>3. PairAt(cols, half, q - 1, FirstOf(cols, half, q - 1)) /\ PairAt(cols, half, p - 1, FirstOf(cols, half, p - 1))
    BY <1>2, <2>2, PairIs
  <2>4. (q - 1) \div half = (p - 1) \div half /\ (q - 1) % half = (p - 1) % half
    BY <2>1, <2>3 DEF PairAt
  <2>5. q - 1 = ((q - 1) \div half)*half + ((q - 1) % half) /\ p - 1 = ((p - 1) \div half)*half + ((p - 1) % half)
    BY <1>2, <2>2, DivMod
  <2>6. q - 1 = p - 1
    BY <2>4, <2>5, Zenon
  <2> QED BY <2>6
<1>8. ASSUME NEW x \in DOMAIN W PROVE x \in Int /\ \E q \in 1..t : x \in DOMAIN steps[q]
  <2>1. x \in 0..(rows*cols - 1) /\ x \in Int
    BY <1>1, <1>3, <1>5
  <2>2. PICK p \in 0..(rows*half - 1) : /\ x \in DOMAIN PairOf(cols, half, p)
                                        /\ FirstOf(cols, half, p) + half \in 0..(rows*cols - 1)
    BY <1>2, <2>1, PairFor
  <2>3. p + 1 \in 1..t /\ (p + 1) - 1 = p
    BY <1>3
  <2>4. FirstOf(cols, half, p) + half < n
    BY <1>1, <1>3, <2>2
  <2>5. steps[p + 1] = PairOf(cols, half, p)
    BY <1>4, <2>3, <2>4
  <2> QED BY <2>1, <2>2, <2>3, <2>5
<1>9. ASSUME NEW src, IsOutput(c, mem, src) PROVE src[1] # 3
  <2>1. ~Found(c, mem, 3)
    BY DEF RopeOf, Has, Found
  <2> QED BY <1>9, <2>1 DEF IsOutput
<1>10. \A i \in 0..(n - 1) : i + 1 \in DOMAIN mem[c.args[OutArg(c)].id]
  <2>1. Holds(c, mem, OutArg(c), n)
    BY <1>1 DEF RopeOf
  <2> QED BY <1>3, <2>1, InRange
<1>11. OwnCells(c, mem, steps, t, W)
  BY <1>4, <1>6, <1>7, <1>8, <1>9, <1>10 DEF OwnCells
<1> QED BY <1>1, <1>3, <1>11, OwnCarry, RopeRuns
-----------------------------------------------------------------------------
(* The launch as the core and a worker of its own run it: the client's     *)
(* size and offset.                                                        *)
Sent(c, l) == Carried(c, l) /\ c.gs = l.gs /\ c.go = l.go

(* What each kernel reads for element x, in the code's own terms.          *)
Reads(l, x) ==
    CASE l.name \in {"relu", "sigmoid", "gelu"} -> {<<1, x>>}
      [] l.name \in {"vector_add", "element_wise_mul"} -> {<<1, x>>, <<2, x>>}
      [] l.name = "scalar_mul" -> {<<1, x>>, <<3, x>>}
      [] l.name \in {"softmax", "reduce_sum"} -> {<<1, j>> : j \in 0..(l.rows*l.cols - 1)}
      [] l.name = "transpose" -> {<<1, Flip(l.rows, l.cols, x)>>}
      [] l.name = "matmul" -> Products(l.inner, l.cols, x)
      [] l.name = "layer_norm" -> RowSources(l.cols, x) \cup WeightSources({3, 4}, l.cols, x)
      [] l.name = "rms_norm" -> RowSources(l.cols, x) \cup WeightSources({3}, l.cols, x)
      [] l.name = "add_bias" -> {<<1, x>>, <<3, x % l.cols>>}
      [] l.name = "rope" -> RotateSources(l.cols, l.cols \div 2, x)
SourcesOf(l) == [x \in Outputs(l) |-> Reads(l, x)]
Carry(c, l) == Carries(c, Vram(l), Kernel(c, Vram(l)), SourcesOf(l))

(* The sizes a launch may give, those of GPU launches included.            *)
Allowed(l) == Understood(l) \/ (GpuForm(l) /\ l.name \notin {"matmul", "softmax", "transpose"})

LEMMA SizesFit ==
    ASSUME NEW rows \in Nat \ {0}, NEW cols \in Nat \ {0}
    PROVE  /\ (rows*cols) \div cols = rows /\ (rows*cols) \div rows = cols
           /\ rows <= rows*cols /\ rows*cols \in Nat \ {0}
<1>1. (rows*cols + 0) \div cols = rows /\ (cols*rows + 0) \div rows = cols
  <2>1. rows \in Nat /\ cols \in Nat /\ 0 \in 0..(cols - 1) /\ 0 \in 0..(rows - 1)
    OBVIOUS
  <2> QED BY <2>1, Placed
<1>2. rows*cols \in Nat \ {0} /\ rows*cols = cols*rows
  OBVIOUS
<1>3. rows*cols + 0 = rows*cols /\ cols*rows + 0 = rows*cols
  BY <1>2
<1>4. rows <= rows*cols
  <2>1. 1*rows <= cols*rows
    <3>1. 1 \in Nat /\ cols \in Nat /\ rows \in Nat /\ 1 <= cols
      OBVIOUS
    <3> QED BY <3>1, Monotonic
  <2> QED BY <1>2, <2>1
<1> QED BY <1>1, <1>2, <1>3, <1>4

LEMMA DimsOf ==
    ASSUME NEW c, NEW a, NEW b, c.gs = <<a, b, 0>>
    PROVE  Len(c.gs) = 3 /\ Dim(c, 1) = a /\ Dim(c, 2) = b /\ Len(c.gs) \in Nat /\ Len(c.gs) >= 2 /\ c.gs # <<>>
<1>1. Len(c.gs) = 3 /\ Dim(c, 1) = a /\ Dim(c, 2) = b
  BY DEF Dim
<1>2. Len(<<>>) = 0
  OBVIOUS
<1>3. ASSUME c.gs = <<>> PROVE Len(c.gs) = Len(<<>>)
  BY <1>3, Zenon
<1> QED BY <1>1, <1>2, <1>3

LEMMA OffsetsOf ==
    ASSUME NEW c, NEW l, Sent(c, l), Described(l), l.go \in Seq(Nat) PROVE Offset(c, 1) = 0 /\ Offset(c, 2) = 0
<1>1. Len(l.go) \in Nat /\ DOMAIN l.go = 1..Len(l.go)
  BY LenProperties
<1>2. \A d \in DOMAIN l.go : l.go[d] = 0
  BY DescribedSizes
<1>3. c.go = l.go
  BY DEF Sent
<1> QED BY <1>1, <1>2, <1>3 DEF Offset

LEMMA Buffers ==
    ASSUME NEW c, NEW l, Sent(c, l), Described(l), l.name # "matmul"
    PROVE  /\ Holds(c, Vram(l), 1, l.rows*l.cols) /\ OutArg(c) = OutArg(l)
           /\ l.name # "reduce_sum" => Holds(c, Vram(l), OutArg(c), l.rows*l.cols)
           /\ c.args[1] = l.args[1] /\ c.args[OutArg(c)] = l.args[OutArg(c)]
           /\ Len(c.args) \in Nat /\ Len(c.args) >= OutArg(c) /\ c.name = l.name
<1>1. Carried(c, l) /\ c.name = l.name /\ OutArg(c) = OutArg(l) /\ OutArg(c) \in Nat \ {0} /\ Len(c.args) \in Nat
  BY DEF Sent, Carried, OutArg
<1>2. OfSize(l, 1, l.rows*l.cols) /\ (l.name # "reduce_sum" => OfSize(l, OutArg(c), l.rows*l.cols))
  BY <1>1, DescribedSizes
<1>3. PICK m \in Nat \ {0} : OfSize(l, OutArg(c), m)
  BY <1>1, OutputRoom DEF Carried
<1>4. /\ Holds(c, Vram(l), 1, l.rows*l.cols) /\ c.args[1] = l.args[1]
      /\ l.name # "reduce_sum" => Holds(c, Vram(l), OutArg(c), l.rows*l.cols)
  BY <1>1, <1>2, BufferOf
<1>5. c.args[OutArg(c)] = l.args[OutArg(c)] /\ Has(c, OutArg(c), {"buffer"})
  BY <1>1, <1>3, BufferOf
<1> QED BY <1>1, <1>4, <1>5 DEF Has

LEMMA GoElement ==
    ASSUME NEW c, NEW l, Sent(c, l), Described(l), Allowed(l),
           l.name \in {"relu", "sigmoid", "gelu", "element_wise_mul", "scalar_mul"}
    PROVE  Carry(c, l)
<1>1. PICK n, mem : n = l.rows*l.cols /\ mem = Vram(l)
  OBVIOUS
<1>2. l.gs = <<n, 0, 0>> \/ l.gs = <<0, 0, 0>>
  BY <1>1 DEF Allowed, Understood, GpuForm
<1>3. Dim(c, 1) \in {0, n} /\ Len(c.gs) = 3
  BY <1>2, DimsOf DEF Sent
<1>4. /\ Holds(c, mem, 1, n) /\ Holds(c, mem, OutArg(c), n) /\ c.name = l.name /\ n \in Nat
      /\ Len(c.args) \in Nat /\ Len(c.args) >= OutArg(c)
  BY <1>1, Buffers, DescribedSizes
<1>5. Carried(c, l)
  BY DEF Sent
<1>6. Outputs(l) = 0..(n - 1)
  BY <1>1 DEF Outputs
<1>7. CASE l.name \in {"relu", "sigmoid", "gelu"}
  <2>1. OutArg(c) = 2 /\ Found(c, mem, 1) /\ Found(c, mem, 2) /\ Holds(c, mem, 2, n)
    BY <1>4, <1>7 DEF OutArg, Holds
  <2>2. Kernel(c, mem) = Each(c, mem, {1, 2}, {1})
    BY <1>3, <1>4, <1>7, <2>1 DEF Kernel, ReLU, Sigmoid, GELU, Checked
  <2>3. Carries(c, mem, Each(c, mem, {1, 2}, {1}), [e \in 0..(n - 1) |-> {<<k, e>> : k \in {1}}])
    <3>1. PICK bufs, reads : bufs = {1, 2} /\ reads = {1}
      OBVIOUS
    <3>2. bufs \in SUBSET (1..3) /\ reads \in SUBSET (1..3) /\ 1 \in bufs /\ \A k \in reads \ bufs : ~Found(c, mem, k)
      BY <3>1
    <3>3. (\A k \in bufs : Holds(c, mem, k, n)) /\ OutArg(c) \in bufs
      BY <1>4, <2>1, <3>1
    <3>4. Carries(c, mem, Each(c, mem, bufs, reads), [e \in 0..(n - 1) |-> {<<k, e>> : k \in reads}])
      BY <1>3, <1>4, <3>2, <3>3, EachCarries
    <3> QED BY <3>1, <3>4
  <2>4. SourcesOf(l) = [e \in 0..(n - 1) |-> {<<k, e>> : k \in {1}}]
    BY <1>6, <1>7 DEF SourcesOf, Reads
  <2> QED BY <1>1, <2>2, <2>3, <2>4, Zenon DEF Carry
<1>8. CASE l.name = "element_wise_mul"
  <2>1. OutArg(c) = 3 /\ OfSize(l, 2, n)
    BY <1>1, <1>4, <1>8, DescribedKernel DEF OutArg
  <2>2. Holds(c, mem, 2, n) /\ Found(c, mem, 1) /\ Found(c, mem, 2) /\ Found(c, mem, 3) /\ Holds(c, mem, 3, n)
    BY <1>1, <1>4, <1>5, <2>1, BufferOf DEF Holds
  <2>3. Kernel(c, mem) = Each(c, mem, {1, 2, 3}, {1, 2})
    BY <1>3, <1>4, <1>8, <2>1, <2>2 DEF Kernel, ElementWiseMul, Checked
  <2>4. Carries(c, mem, Each(c, mem, {1, 2, 3}, {1, 2}), [e \in 0..(n - 1) |-> {<<k, e>> : k \in {1, 2}}])
    <3>1. PICK bufs, reads : bufs = {1, 2, 3} /\ reads = {1, 2}
      OBVIOUS
    <3>2. /\ bufs \in SUBSET (1..3) /\ reads \in SUBSET (1..3) /\ 1 \in bufs
          /\ \A k \in bufs : Holds(c, mem, k, n)
          /\ \A k \in reads \ bufs : ~Found(c, mem, k)
          /\ OutArg(c) \in bufs
      BY <1>4, <2>1, <2>2, <3>1
    <3>3. Carries(c, mem, Each(c, mem, bufs, reads), [e \in 0..(n - 1) |-> {<<k, e>> : k \in reads}])
      BY <1>3, <1>4, <3>2, EachCarries
    <3> QED BY <3>1, <3>3, Zenon
  <2>5. SourcesOf(l) = [e \in 0..(n - 1) |-> {<<k, e>> : k \in {1, 2}}]
    BY <1>6, <1>8 DEF SourcesOf, Reads
  <2> QED BY <1>1, <2>3, <2>4, <2>5, Zenon DEF Carry
<1>9. CASE l.name = "scalar_mul"
  <2>1. OutArg(c) = 2 /\ Found(c, mem, 1) /\ Found(c, mem, 2) /\ Holds(c, mem, 2, n)
    BY <1>4, <1>9 DEF OutArg, Holds
  <2>2. Has(c, 3, {"int", "float"}) /\ ~Found(c, mem, 3) /\ Len(c.args) >= 3
    <3>1. Has(l, 3, {"int", "float"})
      BY <1>9, DescribedKernel DEF Has
    <3>2. Has(c, 3, {"int", "float"}) /\ ~Found(c, mem, 3)
      BY <1>1, <1>5, <3>1, NumberOf
    <3> QED BY <3>2 DEF Has
  <2>3. {1} \cup {m \in {3} : Has(c, m, {"int", "float"})} = {1, 3}
    BY <2>2
  <2>4. Kernel(c, mem) = Each(c, mem, {1, 2}, {1, 3})
    <3>1. \A loop : Checked(c, mem, 3, {1, 2}, 1, loop) = loop
      BY <1>3, <2>1, <2>2 DEF Checked
    <3>2. Kernel(c, mem) = ScalarMul(c, mem)
      BY <1>4, <1>9 DEF Kernel
    <3>3. ScalarMul(c, mem) = Each(c, mem, {1, 2}, {1} \cup {m \in {3} : Has(c, m, {"int", "float"})})
      BY <3>1, Zenon DEF ScalarMul
    <3> QED BY <2>3, <3>2, <3>3, Zenon
  <2>5. Carries(c, mem, Each(c, mem, {1, 2}, {1, 3}), [e \in 0..(n - 1) |-> {<<k, e>> : k \in {1, 3}}])
    <3>1. PICK bufs, reads : bufs = {1, 2} /\ reads = {1, 3}
      OBVIOUS
    <3>2. /\ bufs \in SUBSET (1..3) /\ reads \in SUBSET (1..3) /\ 1 \in bufs
          /\ \A k \in bufs : Holds(c, mem, k, n)
          /\ \A k \in reads \ bufs : ~Found(c, mem, k)
          /\ OutArg(c) \in bufs
      BY <1>4, <2>1, <2>2, <3>1
    <3>3. Carries(c, mem, Each(c, mem, bufs, reads), [e \in 0..(n - 1) |-> {<<k, e>> : k \in reads}])
      BY <1>3, <1>4, <3>2, EachCarries
    <3> QED BY <3>1, <3>3, Zenon
  <2>6. SourcesOf(l) = [e \in 0..(n - 1) |-> {<<k, e>> : k \in {1, 3}}]
    BY <1>6, <1>9 DEF SourcesOf, Reads
  <2> QED BY <1>1, <2>4, <2>5, <2>6, Zenon DEF Carry
<1> QED BY <1>7, <1>8, <1>9

LEMMA GoVector ==
    ASSUME NEW c, NEW l, Sent(c, l), Described(l), Allowed(l), l.go \in Seq(Nat), l.name = "vector_add"
    PROVE  Carry(c, l)
<1>1. PICK n, mem : n = l.rows*l.cols /\ mem = Vram(l)
  OBVIOUS
<1>2. l.gs = <<n, 0, 0>>
  BY <1>1 DEF Allowed, Understood, GpuForm
<1>3. Dim(c, 1) = n /\ Len(c.gs) = 3 /\ c.gs # <<>>
  BY <1>2, DimsOf DEF Sent
<1>4. /\ Holds(c, mem, 1, n) /\ Holds(c, mem, OutArg(c), n) /\ c.name = l.name /\ n \in Nat
      /\ Len(c.args) \in Nat /\ Len(c.args) >= OutArg(c)
  BY <1>1, Buffers, DescribedSizes
<1>5. Carried(c, l) /\ OutArg(c) = 3 /\ OfSize(l, 2, n) /\ MaySay(l, 4, n)
  BY <1>1, <1>4, DescribedKernel DEF Sent, OutArg
<1>6. Offset(c, 1) = 0
  BY OffsetsOf
<1>7. \A k \in 1..3 : Holds(c, mem, k, n)
  <2>1. \A k \in 1..3 : k = 1 \/ k = 2 \/ k = 3
    OBVIOUS
  <2>2. Holds(c, mem, 1, n) /\ Holds(c, mem, 2, n) /\ Holds(c, mem, 3, n)
    BY <1>1, <1>4, <1>5, BufferOf
  <2> QED BY <2>1, <2>2
<1>8. Len(c.args) >= 4 /\ ~Has(c, 4, {"buffer"}) => IntArg(c, 4) = n
  BY <1>5, SaidOf
<1>9. Carries(c, mem, VectorAdd(c, mem), [e \in 0..(0 + n - 1) |-> {<<1, e>>, <<2, e>>}])
  <2>1. 0 \in Nat /\ 0 + n <= n /\ Len(c.args) >= 3
    BY <1>4, <1>5
  <2> QED BY <1>3, <1>4, <1>5, <1>6, <1>7, <1>8, <2>1, VectorAddCarries
<1>10. SourcesOf(l) = [e \in 0..(0 + n - 1) |-> {<<1, e>>, <<2, e>>}]
  <2>1. Outputs(l) = 0..(n - 1) /\ 0 + n - 1 = n - 1
    BY <1>1, <1>4 DEF Outputs
  <2> QED BY <2>1 DEF SourcesOf, Reads
<1>11. Kernel(c, mem) = VectorAdd(c, mem)
  BY <1>4 DEF Kernel
<1> QED BY <1>1, <1>9, <1>10, <1>11, Zenon DEF Carry

LEMMA GoWhole ==
    ASSUME NEW c, NEW l, Sent(c, l), Described(l), Allowed(l), l.name \in {"softmax", "reduce_sum"}
    PROVE  Carry(c, l)
<1>1. PICK n, mem : n = l.rows*l.cols /\ mem = Vram(l)
  OBVIOUS
<1>2. l.gs = <<n, 0, 0>> \/ l.gs = <<0, 0, 0>>
  BY <1>1 DEF Allowed, Understood, GpuForm
<1>3. Dim(c, 1) \in {0, n} /\ Len(c.gs) >= 1
  BY <1>2, DimsOf DEF Sent
<1>4. /\ Holds(c, mem, 1, n) /\ (l.name = "softmax" => Holds(c, mem, 2, n)) /\ c.name = l.name /\ n \in Nat \ {0}
      /\ Len(c.args) >= 2 /\ OutArg(c) = 2 /\ OutArg(l) = 2
  <2>1. OutArg(c) = 2 /\ OutArg(l) = 2
    BY DEF OutArg, Sent, Carried
  <2> QED BY <1>1, <2>1, Buffers, DescribedSizes
<1>5. PICK m \in Nat \ {0} : Holds(c, mem, 2, m) /\ (l.name = "softmax" => m = n)
  <2>1. CASE l.name = "softmax"
    BY <1>4, <2>1
  <2>2. CASE l.name # "softmax"
    <3>1. Carried(c, l) /\ \A b \in DOMAIN l.sizes : l.sizes[b] \in Nat
      BY DEF Sent, Carried
    <3>2. PICK m \in Nat \ {0} : OfSize(l, 2, m)
      BY <1>4, <3>1, OutputRoom
    <3>3. 2 \in Nat \ {0}
      OBVIOUS
    <3>4. Holds(c, mem, 2, m)
      BY <1>1, <3>1, <3>2, <3>3, BufferOf
    <3> QED BY <2>2, <3>4
  <2> QED BY <2>1, <2>2
<1>6. /\ Carries(c, mem, ReduceSum(c, mem), [e \in {0} |-> {<<1, j>> : j \in 0..(n - 1)}])
      /\ m = n => Carries(c, mem, Softmax(c, mem), [e \in 0..(n - 1) |-> {<<1, j>> : j \in 0..(n - 1)}])
  <2>1. n \in Nat
    BY <1>4
  <2> QED BY <1>3, <1>4, <1>5, <2>1, WholeCarries
<1>7. CASE l.name = "softmax"
  <2>1. Kernel(c, mem) = Softmax(c, mem)
    BY <1>4, <1>7 DEF Kernel
  <2>2. SourcesOf(l) = [e \in 0..(n - 1) |-> {<<1, j>> : j \in 0..(n - 1)}]
    BY <1>1, <1>7 DEF SourcesOf, Reads, Outputs
  <2> QED BY <1>1, <1>5, <1>6, <1>7, <2>1, <2>2, Zenon DEF Carry
<1>8. CASE l.name = "reduce_sum"
  <2>1. Kernel(c, mem) = ReduceSum(c, mem)
    BY <1>4, <1>8 DEF Kernel
  <2>2. SourcesOf(l) = [e \in {0} |-> {<<1, j>> : j \in 0..(n - 1)}]
    BY <1>1, <1>8 DEF SourcesOf, Reads, Outputs
  <2> QED BY <1>1, <1>6, <2>1, <2>2, Zenon DEF Carry
<1> QED BY <1>7, <1>8
-----------------------------------------------------------------------------
LEMMA GoTranspose ==
    ASSUME NEW c, NEW l, Sent(c, l), Described(l), Allowed(l), l.name = "transpose"
    PROVE  Carry(c, l)
<1>1. PICK R, N, n, mem : R = l.rows /\ N = l.cols /\ n = l.rows*l.cols /\ mem = Vram(l)
  OBVIOUS
<1>2. l.gs = <<R, N, 0>> \/ (l.gs = <<R, 0, 0>> /\ Has(l, 3, {"int"}))
  BY <1>1 DEF Allowed, Understood
<1>3. /\ Holds(c, mem, 1, n) /\ Holds(c, mem, 2, n) /\ c.name = l.name /\ Len(c.args) \in Nat /\ Len(c.args) >= 2
      /\ OutArg(c) = 2 /\ c.args[1] = l.args[1] /\ c.args[2] = l.args[2] /\ OutArg(l) = 2
  <2>1. OutArg(c) = 2
    BY DEF OutArg, Sent, Carried
  <2> QED BY <1>1, <2>1, Buffers
<1>4. Carried(c, l) /\ MaySay(l, 3, N) /\ Apart(l, 1) /\ R \in Nat \ {0} /\ N \in Nat \ {0}
  BY <1>1, DescribedKernel, DescribedSizes DEF Sent
<1>5. c.args[1].id # c.args[2].id
  BY <1>3, <1>4 DEF Apart
<1>6. Len(c.gs) \in Nat /\ Len(c.gs) >= 2 /\ Dim(c, 1) = R /\ Or(Dim(c, 2), IntArg(c, 3)) = N
  <2>1. CASE l.gs = <<R, N, 0>>
    BY <1>4, <2>1, DimsOf DEF Sent, Or
  <2>2. CASE l.gs = <<R, 0, 0>> /\ Has(l, 3, {"int"})
    <3>1. Len(c.args) >= 3
      BY <1>4, <2>2 DEF Has, Carried
    <3>2. IntArg(c, 3) = N
      BY <1>4, <3>1, SaidOf
    <3> QED BY <2>2, <3>2, DimsOf DEF Sent, Or
  <2> QED BY <1>2, <2>1, <2>2
<1>7. TransposeOf(c, mem, R, N)
  BY <1>1, <1>3, <1>4, <1>5, <1>6, Zenon DEF TransposeOf
<1>8. Carries(c, mem, Transpose(c, mem), [e \in 0..(R*N - 1) |-> {<<1, Flip(R, N, e)>>}])
  BY <1>7, TransposeCarries
<1>9. SourcesOf(l) = [e \in 0..(R*N - 1) |-> {<<1, Flip(R, N, e)>>}]
  <2>1. Outputs(l) = 0..(R*N - 1) /\ \A x : Reads(l, x) = {<<1, Flip(R, N, x)>>}
    BY <1>1 DEF Outputs, Reads
  <2> QED BY <2>1, Zenon DEF SourcesOf
<1>10. Kernel(c, mem) = Transpose(c, mem)
  BY <1>3 DEF Kernel
<1> QED BY <1>1, <1>8, <1>9, <1>10, Zenon DEF Carry

LEMMA GoProduct ==
    ASSUME NEW c, NEW l, Sent(c, l), Described(l), Allowed(l), l.go \in Seq(Nat), l.name = "matmul"
    PROVE  Carry(c, l)
<1>1. PICK R, N, K, mem : R = l.rows /\ N = l.cols /\ K = l.inner /\ mem = Vram(l)
  OBVIOUS
<1>2. l.gs = <<R, N, 0>>
  BY <1>1 DEF Allowed, Understood
<1>3. Len(c.gs) \in Nat /\ Len(c.gs) >= 2 /\ Dim(c, 1) = R /\ Dim(c, 2) = N /\ Offset(c, 1) = 0 /\ Offset(c, 2) = 0
  BY <1>2, DimsOf, OffsetsOf DEF Sent
<1>4. /\ Carried(c, l) /\ c.name = l.name /\ OutArg(l) = 3 /\ OutArg(c) = 3
      /\ R \in Nat \ {0} /\ N \in Nat \ {0} /\ K \in Nat \ {0}
  BY <1>1, DescribedSizes DEF Sent, Carried, OutArg
<1>5. /\ OfSize(l, 1, R*K) /\ OfSize(l, 2, K*N) /\ OfSize(l, 3, R*N)
      /\ Apart(l, 1) /\ Apart(l, 2) /\ MaySay(l, 4, K)
  BY <1>1, <1>4, DescribedSizes, DescribedKernel
<1>6. /\ Holds(c, mem, 1, R*K) /\ Holds(c, mem, 2, K*N) /\ Holds(c, mem, 3, R*N)
      /\ \A k \in {1, 2} : c.args[k].id # c.args[3].id
      /\ Len(c.args) \in Nat /\ Len(c.args) >= 3
  <2>1. c.args[1] = l.args[1] /\ c.args[2] = l.args[2] /\ c.args[3] = l.args[3] /\ Has(c, 3, {"buffer"})
    BY <1>4, <1>5, BufferOf
  <2>2. Holds(c, mem, 1, R*K) /\ Holds(c, mem, 2, K*N) /\ Holds(c, mem, 3, R*N)
    BY <1>1, <1>4, <1>5, BufferOf
  <2>3. Len(c.args) \in Nat /\ Len(c.args) >= 3
    BY <1>4, <2>1 DEF Has, Carried
  <2> QED BY <1>4, <1>5, <2>1, <2>2, <2>3 DEF Apart
<1>7. Inner(c, mem, R, N) = K
  <2>1. CASE Len(c.args) >= 4
    <3>1. IntArg(c, 4) = K
      BY <1>4, <1>5, <2>1, SaidOf
    <3> QED BY <1>4, <3>1 DEF Inner, Or
  <2>2. CASE ~(Len(c.args) >= 4)
    <3>1. IntArg(c, 4) = 0
      BY <1>4, <1>5, <2>2, SaidOf
    <3>2. Size(c, mem, 1) = R*K /\ (R*K) \div R = K
      BY <1>4, <1>6, SizesFit DEF Holds
    <3>3. R > 0
      BY <1>4
    <3> QED BY <1>4, <3>1, <3>2, <3>3 DEF Inner, Or
  <2> QED BY <2>1, <2>2
<1>8. ProductOf(c, mem, R, R, N, K, 0)
  <2>1. 0 \in Nat /\ 0 + R <= R /\ R \in Nat
    BY <1>4
  <2> QED BY <1>3, <1>4, <1>6, <1>7, <2>1, Zenon DEF ProductOf
<1>9. Carries(c, mem, MatMul(c, mem), [e \in (0*N)..(0*N + R*N - 1) |-> Products(K, N, e)])
  BY <1>8, MatMulCarries
<1>10. SourcesOf(l) = [e \in (0*N)..(0*N + R*N - 1) |-> Products(K, N, e)]
  <2>1. 0*N = 0 /\ 0 + R*N = R*N
    BY <1>4
  <2>2. Outputs(l) = (0*N)..(0*N + R*N - 1)
    <3>1. Outputs(l) = 0..(R*N - 1)
      BY <1>1 DEF Outputs
    <3>2. PICK z, t : z = 0*N /\ t = R*N
      OBVIOUS
    <3>3. 0..(t - 1) = z..(z + t - 1)
      BY <2>1, <3>2
    <3> QED BY <3>1, <3>2, <3>3, Zenon
  <2>3. \A x : Reads(l, x) = Products(K, N, x)
    BY <1>1 DEF Reads
  <2> QED BY <2>2, <2>3, Zenon DEF SourcesOf
<1>11. Kernel(c, mem) = MatMul(c, mem)
  BY <1>4 DEF Kernel
<1> QED BY <1>1, <1>9, <1>10, <1>11, Zenon DEF Carry

(* The rows of the kernels that take their input row by row.               *)
RowForms(l) == l.gs \in {<<l.rows, l.cols, 0>>, <<l.rows, 0, 0>>, <<0, 0, 0>>, <<l.rows*l.cols, 0, 0>>}

InRows(c, mem, rows, cols) ==
    /\ Len(c.gs) \in Nat /\ Len(c.gs) >= 2 /\ Dim(c, 2) \in {0, cols}
    /\ \E given \in Nat : /\ rows <= given /\ Shape(c, mem, cols) = [rows |-> given, dim |-> cols]
                          /\ Or(Dim(c, 1), IF cols > 0 THEN (rows*cols) \div cols ELSE 0) = given

LEMMA ShapeIs ==
    ASSUME NEW c, NEW mem, NEW rows \in Nat \ {0}, NEW cols \in Nat \ {0}, Size(c, mem, 1) = rows*cols,
           c.gs \in {<<rows, cols, 0>>, <<rows, 0, 0>>, <<0, 0, 0>>, <<rows*cols, 0, 0>>}
    PROVE  InRows(c, mem, rows, cols)
<1>1. PICK n : n = rows*cols
  OBVIOUS
<1>2. n \div cols = rows /\ rows <= n /\ n \in Nat \ {0} /\ cols > 0
  BY <1>1, SizesFit
<1>3. PICK a, b : c.gs = <<a, b, 0>> /\ a \in {0, rows, n} /\ b \in {0, cols}
  BY <1>1
<1>4. Len(c.gs) \in Nat /\ Len(c.gs) >= 2 /\ Dim(c, 1) = a /\ Dim(c, 2) = b
  BY <1>3, DimsOf
<1>5. PICK given : given = IF a = 0 THEN rows ELSE a
  OBVIOUS
<1>6. given \in Nat /\ rows <= given
  BY <1>2, <1>3, <1>5
<1>7. Shape(c, mem, cols) = [rows |-> given, dim |-> cols]
  BY <1>1, <1>2, <1>4, <1>5 DEF Shape
<1>8. Or(Dim(c, 1), IF cols > 0 THEN n \div cols ELSE 0) = given
  BY <1>2, <1>4, <1>5 DEF Or
<1> QED BY <1>1, <1>3, <1>4, <1>6, <1>7, <1>8 DEF InRows

LEMMA Rowwise ==
    ASSUME NEW c, NEW l, Sent(c, l), Described(l), Allowed(l), NEW ns \in SUBSET {3, 4}, NEW given \in Nat,
           l.name \in {"layer_norm", "rms_norm", "add_bias"}, RowForms(l), l.rows <= given,
           Shape(c, Vram(l), l.cols) = [rows |-> given, dim |-> l.cols],
           \A k \in ns : OfSize(l, k, l.cols) /\ Apart(l, k)
    PROVE  RowsOf(c, Vram(l), ns, given, l.rows, l.cols)
<1>1. PICK R, N, n, mem : R = l.rows /\ N = l.cols /\ n = l.rows*l.cols /\ mem = Vram(l)
  OBVIOUS
<1>2. /\ Holds(c, mem, 1, n) /\ Holds(c, mem, 2, n) /\ c.name = l.name /\ Len(c.args) \in Nat
      /\ OutArg(c) = 2 /\ c.args[2] = l.args[2] /\ OutArg(l) = 2
  <2>1. OutArg(c) = 2
    BY DEF OutArg, Sent, Carried
  <2> QED BY <1>1, <2>1, Buffers
<1>3. R \in Nat \ {0} /\ N \in Nat \ {0} /\ Carried(c, l)
  BY <1>1, DescribedSizes DEF Sent
<1>4. Len(c.gs) \in Nat /\ Len(c.gs) >= 2
  <2>1. PICK a, b : l.gs = <<a, b, 0>>
    BY DEF RowForms
  <2> QED BY <2>1, DimsOf DEF Sent
<1>5. ASSUME NEW k \in ns PROVE Size(c, mem, k) = N /\ c.args[k].id # c.args[2].id
  <2>1. k \in Nat \ {0} /\ OfSize(l, k, N) /\ Apart(l, k)
    BY <1>1
  <2>2. Holds(c, mem, k, N) /\ c.args[k] = l.args[k]
    BY <1>1, <1>3, <2>1, BufferOf
  <2> QED BY <1>2, <2>1, <2>2 DEF Apart, Holds
<1>6. ns \subseteq Nat \ {1, 2} /\ R \in Nat
  BY <1>3
<1> QED BY <1>1, <1>2, <1>3, <1>4, <1>5, <1>6, Zenon DEF RowsOf
-----------------------------------------------------------------------------
LEMMA NormRuns ==
    ASSUME NEW c, NEW mem, NEW given, NEW rows, NEW cols, NEW ns, RowsOf(c, mem, ns, given, rows, cols)
    PROVE  /\ ns = {3, 4} /\ Or(Dim(c, 2), IntArg(c, 5)) = cols =>
                 LayerNorm(c, mem) = Loop(NormSteps(c, mem, given, cols, rows*cols, ns))
           /\ ns = {3} /\ Or(Dim(c, 2), IntArg(c, 4)) = cols =>
                 RMSNorm(c, mem) = Loop(NormSteps(c, mem, given, cols, rows*cols, ns))
           /\ ns = {3} /\ Len(c.args) >= 3 =>
                 AddBias(c, mem) = Loop(BiasSteps(given, cols, rows*cols))
<1>1. PICK n : n = rows*cols
  OBVIOUS
<1>2. /\ Size(c, mem, 1) = n /\ Size(c, mem, 2) = n /\ Found(c, mem, 1) /\ Found(c, mem, 2) /\ n \in Nat
      /\ cols \in Nat \ {0} /\ Len(c.args) \in Nat /\ Len(c.args) >= 2 /\ Len(c.gs) \in Nat /\ Len(c.gs) >= 2
      /\ Shape(c, mem, cols) = [rows |-> given, dim |-> cols]
  <2>1. Holds(c, mem, 1, n) /\ Holds(c, mem, 2, n)
    BY <1>1 DEF RowsOf
  <2>2. Len(c.args) >= 2
    BY <2>1 DEF RowsOf, Holds, Found, Has
  <2> QED BY <2>1, <2>2 DEF RowsOf, Holds
<1>3. Min({n, n}) = n
  <2>1. {n, n} \in SUBSET Int /\ n \in {n, n} /\ \A x \in {n, n} : n <= x
    BY <1>2
  <2> QED BY <2>1, MinIs
<1>4. \A loop : Checked(c, mem, 2, {1, 2}, 2, loop) = loop
  BY <1>2 DEF Checked
<1>5. Shape(c, mem, cols).rows = given /\ Shape(c, mem, cols).dim = cols
  BY <1>2
<1>6. ASSUME ns = {3, 4}, Or(Dim(c, 2), IntArg(c, 5)) = cols
      PROVE  LayerNorm(c, mem) = Loop(NormSteps(c, mem, given, cols, n, ns))
  <2>1. LayerNorm(c, mem) = Loop([q \in 1..given |-> [e \in ((q - 1)*cols)..(Min({q*cols, n}) - 1) |->
           OfRow(c, mem, (q - 1)*cols, cols) \cup Weights(c, mem, {3, 4}, e - (q - 1)*cols)]])
    BY <1>2, <1>3, <1>4, <1>5, <1>6, Zenon DEF LayerNorm, Rows
  <2> QED BY <1>6, <2>1, Zenon DEF NormSteps
<1>7. ASSUME ns = {3}, Or(Dim(c, 2), IntArg(c, 4)) = cols
      PROVE  RMSNorm(c, mem) = Loop(NormSteps(c, mem, given, cols, n, ns))
  <2>1. RMSNorm(c, mem) = Loop([q \in 1..given |-> [e \in ((q - 1)*cols)..(Min({q*cols, n}) - 1) |->
           OfRow(c, mem, (q - 1)*cols, cols) \cup Weights(c, mem, {3}, e - (q - 1)*cols)]])
    BY <1>2, <1>3, <1>4, <1>5, <1>7, Zenon DEF RMSNorm, Rows
  <2> QED BY <1>7, <2>1, Zenon DEF NormSteps
<1>8. ASSUME ns = {3}, Len(c.args) >= 3 PROVE AddBias(c, mem) = Loop(BiasSteps(given, cols, n))
  <2>1. Size(c, mem, 3) = cols /\ ~(Size(c, mem, 3) = 0)
    BY <1>2, <1>8 DEF RowsOf
  <2>2. \A loop : Checked(c, mem, 3, {1, 2}, 1, loop) = loop
    BY <1>2, <1>8 DEF Checked
  <2>3. AddBias(c, mem) = Loop([q \in 1..given |-> [e \in ((q - 1)*cols)..(Min({q*cols, n}) - 1) |->
           {<<1, e>>, <<3, e - (q - 1)*cols>>}]])
    BY <1>2, <1>3, <1>5, <2>1, <2>2, Zenon DEF AddBias, Rows
  <2> QED BY <2>3, Zenon DEF BiasSteps
<1> QED BY <1>1, <1>6, <1>7, <1>8, Zenon

LEMMA GoRows ==
    ASSUME NEW c, NEW l, Sent(c, l), Described(l), Allowed(l), l.name \in {"layer_norm", "rms_norm", "add_bias"}
    PROVE  Carry(c, l)
<1>1. PICK R, N, n, mem : R = l.rows /\ N = l.cols /\ n = l.rows*l.cols /\ mem = Vram(l)
  OBVIOUS
<1>2. R \in Nat \ {0} /\ N \in Nat \ {0} /\ Carried(c, l) /\ c.name = l.name /\ Outputs(l) = 0..(n - 1)
  BY <1>1, DescribedSizes DEF Sent, Carried, Outputs
<1>3. RowForms(l)
  BY DEF Allowed, Understood, GpuForm, RowForms
<1>4. Size(c, mem, 1) = R*N
  BY <1>1, Buffers DEF Holds
<1>5. Len(c.gs) \in Nat /\ Len(c.gs) >= 2 /\ Dim(c, 2) \in {0, N}
      /\ \E given \in Nat : R <= given /\ Shape(c, mem, N) = [rows |-> given, dim |-> N]
  <2>1. c.gs \in {<<R, N, 0>>, <<R, 0, 0>>, <<0, 0, 0>>, <<R*N, 0, 0>>}
    BY <1>1, <1>3, Zenon DEF Sent, RowForms
  <2>2. InRows(c, mem, R, N)
    BY <1>2, <1>4, <2>1, ShapeIs
  <2> QED BY <2>2, Zenon DEF InRows
<1>6. PICK given \in Nat : R <= given /\ Shape(c, mem, N) = [rows |-> given, dim |-> N]
  BY <1>5
<1>7. ASSUME NEW ns \in SUBSET {3, 4}, \A k \in ns : OfSize(l, k, N) /\ Apart(l, k) PROVE RowsOf(c, mem, ns, given, R, N)
  BY <1>1, <1>3, <1>6, <1>7, Rowwise
<1>8. CASE l.name = "layer_norm"
  <2>1. PICK ns : ns = {3, 4}
    OBVIOUS
  <2>2. OfSize(l, 3, N) /\ OfSize(l, 4, N) /\ Says(l, 5, N) /\ Apart(l, 3) /\ Apart(l, 4)
    BY <1>1, <1>8, DescribedKernel
  <2>3. RowsOf(c, mem, ns, given, R, N)
    BY <1>7, <2>1, <2>2
  <2>4. Or(Dim(c, 2), IntArg(c, 5)) = N
    <3>1. IntArg(c, 5) = N
      <4>1. Has(l, 5, {"int", "float"}) /\ Has(l, 5, {"int"})
        BY <2>2 DEF Says, Has
      <4> QED BY <1>2, <2>2, <4>1, NumberOf DEF Says
    <3> QED BY <1>2, <1>5, <3>1 DEF Or
  <2>5. LayerNorm(c, mem) = Loop(NormSteps(c, mem, given, N, R*N, ns))
    BY <2>1, <2>3, <2>4, NormRuns
  <2>6. Kernel(c, mem) = LayerNorm(c, mem)
    BY <1>2, <1>8 DEF Kernel
  <2>7. Carries(c, mem, Loop(NormSteps(c, mem, given, N, R*N, ns)), NormSources(ns, R, N))
    BY <2>3, NormCarries
  <2>8. SourcesOf(l) = NormSources(ns, R, N)
    <3>1. \A x : Reads(l, x) = RowSources(N, x) \cup WeightSources(ns, N, x)
      BY <1>1, <1>8, <2>1 DEF Reads
    <3> QED BY <1>1, <1>2, <3>1, Zenon DEF SourcesOf, NormSources
  <2> QED BY <1>1, <2>5, <2>6, <2>7, <2>8, Zenon DEF Carry
<1>9. CASE l.name = "rms_norm"
  <2>1. PICK ns : ns = {3}
    OBVIOUS
  <2>2. OfSize(l, 3, N) /\ Says(l, 4, N) /\ Apart(l, 3)
    BY <1>1, <1>9, DescribedKernel
  <2>3. RowsOf(c, mem, ns, given, R, N)
    BY <1>7, <2>1, <2>2
  <2>4. Or(Dim(c, 2), IntArg(c, 4)) = N
    <3>1. IntArg(c, 4) = N
      <4>1. Has(l, 4, {"int", "float"}) /\ Has(l, 4, {"int"})
        BY <2>2 DEF Says, Has
      <4> QED BY <1>2, <2>2, <4>1, NumberOf DEF Says
    <3> QED BY <1>2, <1>5, <3>1 DEF Or
  <2>5. RMSNorm(c, mem) = Loop(NormSteps(c, mem, given, N, R*N, ns))
    BY <2>1, <2>3, <2>4, NormRuns
  <2>6. Kernel(c, mem) = RMSNorm(c, mem)
    BY <1>2, <1>9 DEF Kernel
  <2>7. Carries(c, mem, Loop(NormSteps(c, mem, given, N, R*N, ns)), NormSources(ns, R, N))
    BY <2>3, NormCarries
  <2>8. SourcesOf(l) = NormSources(ns, R, N)
    <3>1. \A x : Reads(l, x) = RowSources(N, x) \cup WeightSources(ns, N, x)
      BY <1>1, <1>9, <2>1 DEF Reads
    <3> QED BY <1>1, <1>2, <3>1, Zenon DEF SourcesOf, NormSources
  <2> QED BY <1>1, <2>5, <2>6, <2>7, <2>8, Zenon DEF Carry
<1>10. CASE l.name = "add_bias"
  <2>1. PICK ns : ns = {3}
    OBVIOUS
  <2>2. OfSize(l, 3, N) /\ Apart(l, 3)
    BY <1>1, <1>10, DescribedKernel
  <2>3. RowsOf(c, mem, ns, given, R, N)
    BY <1>7, <2>1, <2>2
  <2>4. Len(c.args) >= 3
    <3>1. Has(c, 3, {"buffer"})
      BY <1>2, <2>2, BufferOf
    <3> QED BY <3>1 DEF Has
  <2>5. AddBias(c, mem) = Loop(BiasSteps(given, N, R*N))
    BY <2>1, <2>3, <2>4, NormRuns
  <2>6. Kernel(c, mem) = AddBias(c, mem)
    BY <1>2, <1>10 DEF Kernel
  <2>7. Carries(c, mem, Loop(BiasSteps(given, N, R*N)), BiasSources(R, N))
    BY <2>1, <2>3, BiasCarries
  <2>8. SourcesOf(l) = BiasSources(R, N)
    <3>1. \A x : Reads(l, x) = {<<1, x>>, <<3, x % N>>}
      BY <1>1, <1>10 DEF Reads
    <3> QED BY <1>1, <1>2, <3>1, Zenon DEF SourcesOf, BiasSources
  <2> QED BY <1>1, <2>5, <2>6, <2>7, <2>8, Zenon DEF Carry
<1> QED BY <1>8, <1>9, <1>10

LEMMA GoRope ==
    ASSUME NEW c, NEW l, Sent(c, l), Described(l), Allowed(l), l.name = "rope"
    PROVE  Carry(c, l)
<1>1. PICK R, N, n, mem, half : R = l.rows /\ N = l.cols /\ n = l.rows*l.cols /\ mem = Vram(l) /\ half = l.cols \div 2
  OBVIOUS
<1>2. R \in Nat \ {0} /\ N \in Nat \ {0} /\ Carried(c, l) /\ c.name = l.name /\ Outputs(l) = 0..(n - 1)
  BY <1>1, DescribedSizes DEF Sent, Carried, Outputs
<1>3. l.gs \in {<<R, N, 0>>, <<R, 0, 0>>, <<0, 0, 0>>, <<R*N, 0, 0>>}
  BY <1>1 DEF Allowed, Understood, GpuForm
<1>4. /\ Holds(c, mem, 1, n) /\ Holds(c, mem, 2, n) /\ Len(c.args) \in Nat /\ Len(c.args) >= 2 /\ OutArg(c) = 2
  <2>1. OutArg(c) = 2
    BY DEF OutArg, Sent, Carried
  <2> QED BY <1>1, <2>1, Buffers
<1>5. Has(l, 3, {"int"}) /\ Says(l, 4, N) /\ N % 2 = 0
  BY <1>1, DescribedKernel
<1>6. half \in Nat \ {0} /\ N = half + half /\ N \div 2 = half
  <2>1. half = N \div 2
    BY <1>1
  <2> QED BY <1>2, <1>5, <2>1
<1>7. Size(c, mem, 1) = R*N
  BY <1>1, <1>4 DEF Holds
<1>8. Len(c.gs) \in Nat /\ Len(c.gs) >= 2 /\ Dim(c, 2) \in {0, N}
      /\ \E given \in Nat : R <= given /\ Or(Dim(c, 1), IF N > 0 THEN (R*N) \div N ELSE 0) = given
  <2>1. c.gs \in {<<R, N, 0>>, <<R, 0, 0>>, <<0, 0, 0>>, <<R*N, 0, 0>>}
    BY <1>3 DEF Sent
  <2>2. InRows(c, mem, R, N)
    BY <1>2, <1>7, <2>1, ShapeIs
  <2> QED BY <2>2, Zenon DEF InRows
<1>9. PICK given \in Nat : R <= given /\ Or(Dim(c, 1), IF N > 0 THEN (R*N) \div N ELSE 0) = given
  BY <1>8
<1>10. Has(c, 3, {"int"}) /\ IntArg(c, 4) = N
  <2>1. Has(l, 3, {"int", "float"}) /\ Has(l, 4, {"int", "float"}) /\ Has(l, 4, {"int"}) /\ l.args[4].val = N
    BY <1>5 DEF Says, Has
  <2> QED BY <1>2, <1>5, <2>1, NumberOf
<1>11. Or(Or(Dim(c, 2), IntArg(c, 4)), R*N) = N
  BY <1>2, <1>8, <1>10 DEF Or
<1>12. RopeOf(c, mem, given, R, N, half)
  <2>1. Holds(c, mem, 1, R*N) /\ Holds(c, mem, 2, R*N) /\ R \in Nat
    BY <1>1, <1>2, <1>4
  <2> QED BY <1>4, <1>6, <1>8, <1>9, <1>10, <1>11, <2>1, Zenon DEF RopeOf
<1>13. Carries(c, mem, RoPE(c, mem), RopeSources(R, N, half))
  BY <1>12, RopeCarries
<1>14. SourcesOf(l) = RopeSources(R, N, half)
  <2>1. \A x : Reads(l, x) = RotateSources(N, half, x)
    BY <1>1 DEF Reads
  <2> QED BY <1>1, <1>2, <2>1, Zenon DEF SourcesOf, RopeSources
<1>15. Kernel(c, mem) = RoPE(c, mem)
  BY <1>2 DEF Kernel
<1> QED BY <1>1, <1>13, <1>14, <1>15, Zenon DEF Carry

LEMMA GoCarries ==
    ASSUME NEW c, NEW l, Sent(c, l), Described(l), Allowed(l), l.go \in Seq(Nat) PROVE Carry(c, l)
<1>1. l.name \in {"relu", "sigmoid", "gelu", "softmax", "vector_add", "element_wise_mul", "scalar_mul",
                  "reduce_sum", "transpose", "matmul", "layer_norm", "rms_norm", "add_bias", "rope"}
  BY DescribedKernel
<1>2. CASE l.name \in {"relu", "sigmoid", "gelu", "element_wise_mul", "scalar_mul"}
  BY <1>2, GoElement
<1>3. CASE l.name \in {"softmax", "reduce_sum"}
  BY <1>3, GoWhole
<1>4. CASE l.name = "vector_add"
  BY <1>4, GoVector
<1>5. CASE l.name = "transpose"
  BY <1>5, GoTranspose
<1>6. CASE l.name = "matmul"
  BY <1>6, GoProduct
<1>7. CASE l.name \in {"layer_norm", "rms_norm", "add_bias"}
  BY <1>7, GoRows
<1>8. CASE l.name = "rope"
  BY <1>8, GoRope
<1> QED BY <1>1, <1>2, <1>3, <1>4, <1>5, <1>6, <1>7, <1>8
-----------------------------------------------------------------------------
(* What the sources R hold; every element of S of the input in its place.   *)
Gathered(c, mem, R) == UNION {Value(c, mem, src) : src \in R}
Span(k, S) == {<<k, j>> : j \in S}
InPlaceOf(c, mem, a, S) == \A j \in S : Value(c, mem, <<1, j>>) = {<<a, j>>}

Spanned(c, mem, a, S) == Gathered(c, mem, Span(1, S)) = Span(a, S)
Joined(c, mem, S, T) == Gathered(c, mem, S \cup T) = Gathered(c, mem, S) \cup Gathered(c, mem, T)

LEMMA NowGathered == \A c, mem, W, x : Now(c, mem, W, x) = Gathered(c, mem, W[x])
BY Zenon DEF Now, Gathered

LEMMA NowOfSpan ==
    ASSUME NEW c, NEW mem, NEW a, NEW S, InPlaceOf(c, mem, a, S) PROVE Spanned(c, mem, a, S)
<1>1. ASSUME NEW y, y \in Gathered(c, mem, Span(1, S)) PROVE y \in Span(a, S)
  <2>1. PICK src \in Span(1, S) : y \in Value(c, mem, src)
    BY <1>1 DEF Gathered
  <2>2. PICK j \in S : src = <<1, j>>
    BY <2>1 DEF Span
  <2> QED BY <2>1, <2>2 DEF InPlaceOf, Span
<1>2. ASSUME NEW j \in S PROVE <<a, j>> \in Gathered(c, mem, Span(1, S))
  <2>1. <<a, j>> \in Value(c, mem, <<1, j>>) /\ <<1, j>> \in Span(1, S)
    BY DEF InPlaceOf, Span
  <2> QED BY <2>1 DEF Gathered
<1>3. \A y : y \in Span(a, S) => \E j \in S : y = <<a, j>>
  BY DEF Span
<1>4. \A y : y \in Gathered(c, mem, Span(1, S)) <=> y \in Span(a, S)
  BY <1>1, <1>2, <1>3, Zenon
<1> QED BY <1>4, Zenon DEF Spanned

LEMMA MoreSources ==
    ASSUME NEW c, NEW mem, NEW S, NEW T PROVE Joined(c, mem, S, T)
BY DEF Gathered, Joined

LEMMA OneSource ==
    ASSUME NEW c, NEW mem, NEW s
    PROVE  Gathered(c, mem, {s}) = Value(c, mem, s)
BY DEF Gathered

LEMMA TwoSources ==
    ASSUME NEW c, NEW mem, NEW s, NEW t
    PROVE  Gathered(c, mem, {s, t}) = Value(c, mem, s) \cup Value(c, mem, t)
BY DEF Gathered

(* Every kernel reads what the comment over it promises, when a float      *)
(* stays one.                                                              *)
LEMMA CellsPromised ==
    ASSUME NEW c, NEW l, Carried(c, l), Described(l), c.args = l.args, NEW W, NEW x \in Outputs(l), W[x] = Reads(l, x),
           l.name \in {"relu", "sigmoid", "gelu", "scalar_mul", "softmax", "reduce_sum", "transpose"}
    PROVE  AsPromised(c, l, W, x)
<1>1. PICK n, mem, a : n = l.rows*l.cols /\ mem = Vram(l) /\ a = l.args[1].id
  OBVIOUS
<1>2. n \in Nat \ {0} /\ OfSize(l, 1, n) /\ l.rows \in Nat \ {0} /\ l.cols \in Nat \ {0}
  BY <1>1, DescribedSizes
<1>3. \A i \in 0..(n - 1) : Value(c, mem, <<1, i>>) = {<<a, i>>}
  BY <1>1, <1>2, BufferOf
<1>4. x \in 0..(n - 1)
  BY <1>1, <1>2 DEF Outputs
<1>5. CASE l.name \in {"relu", "sigmoid", "gelu"}
  <2>1. W[x] = {<<1, x>>}
    BY <1>5 DEF Reads
  <2>2. Now(c, mem, W, x) = {<<a, x>>}
    <3>1. Value(c, mem, <<1, x>>) = {<<a, x>>}
      BY <1>3, <1>4
    <3>2. Now(c, mem, W, x) = Value(c, mem, <<1, x>>)
      BY <2>1, NowGathered, OneSource, Zenon
    <3> QED BY <3>1, <3>2
  <2>3. Documented(l, x) = {<<a, x>>}
    BY <1>1, <1>5 DEF Documented, Input
  <2> QED BY <1>1, <2>2, <2>3 DEF AsPromised
<1>6. CASE l.name = "scalar_mul"
  <2>1. W[x] = {<<1, x>>, <<3, x>>}
    BY <1>6 DEF Reads
  <2>2. Value(c, mem, <<3, x>>) = {<<"float", 3>>}
    <3>1. Has(l, 3, {"int", "float"}) /\ c.args[3].is = "float"
      BY <1>6, DescribedKernel DEF Has
    <3> QED BY <1>1, <3>1, NumberOf
  <2>3. Now(c, mem, W, x) = {<<a, x>>, <<"float", 3>>}
    <3>1. Value(c, mem, <<1, x>>) = {<<a, x>>}
      BY <1>3, <1>4
    <3>2. Now(c, mem, W, x) = Value(c, mem, <<1, x>>) \cup Value(c, mem, <<3, x>>)
      BY <2>1, NowGathered, TwoSources, Zenon
    <3> QED BY <2>2, <3>1, <3>2
  <2>4. Documented(l, x) = {<<a, x>>, <<"float", 3>>}
    BY <1>1, <1>6 DEF Documented, Input
  <2> QED BY <1>1, <2>3, <2>4 DEF AsPromised
<1>7. CASE l.name \in {"softmax", "reduce_sum"}
  <2>1. W[x] = {<<1, j>> : j \in 0..(n - 1)}
    BY <1>1, <1>7 DEF Reads
  <2>2. Now(c, mem, W, x) = {<<a, j>> : j \in 0..(n - 1)}
    <3>1. PICK S : S = 0..(n - 1)
      OBVIOUS
    <3>2. InPlaceOf(c, mem, a, S)
      BY <1>3, <3>1, Zenon DEF InPlaceOf
    <3>3. Gathered(c, mem, Span(1, S)) = Span(a, S)
      <4>1. Spanned(c, mem, a, S)
        BY <3>2, NowOfSpan, Zenon
      <4> QED BY <4>1, Zenon DEF Spanned
    <3> QED BY <2>1, <3>1, <3>3, NowGathered, Zenon DEF Span
  <2>3. Documented(l, x) = {<<a, j>> : j \in 0..(n - 1)}
    BY <1>1, <1>7 DEF Documented, Input
  <2> QED BY <1>1, <2>2, <2>3 DEF AsPromised
<1>8. CASE l.name = "transpose"
  <2>1. PICK y : y = Flip(l.rows, l.cols, x)
    OBVIOUS
  <2>2. W[x] = {<<1, y>>}
    BY <1>8, <2>1 DEF Reads
  <2>3. y \in 0..(n - 1)
    BY <1>1, <1>2, <1>4, <2>1, FlipBack
  <2>4. Now(c, mem, W, x) = {<<a, y>>}
    <3>1. Value(c, mem, <<1, y>>) = {<<a, y>>}
      BY <1>3, <2>3
    <3>2. Now(c, mem, W, x) = Value(c, mem, <<1, y>>)
      BY <2>2, NowGathered, OneSource, Zenon
    <3> QED BY <3>1, <3>2
  <2>5. Documented(l, x) = {<<a, y>>}
    BY <1>1, <1>8, <2>1 DEF Documented, Input, Flip
  <2> QED BY <1>1, <2>4, <2>5 DEF AsPromised
<1> QED BY <1>5, <1>6, <1>7, <1>8

(* An element of row d, and where the row is.                              *)
RowPlace(rows, cols, x) ==
    /\ x \div cols \in 0..(rows - 1) /\ x % cols \in 0..(cols - 1)
    /\ ((x \div cols)*cols)..((x \div cols)*cols + (cols - 1)) \subseteq 0..(rows*cols - 1)
    /\ ((x \div cols) + 1)*cols - 1 = (x \div cols)*cols + (cols - 1)

LEMMA RowCells ==
    ASSUME NEW rows \in Nat \ {0}, NEW cols \in Nat \ {0}, NEW x \in 0..(rows*cols - 1)
    PROVE  RowPlace(rows, cols, x)
<1>1. rows*cols \in Nat /\ rows \in Nat
  OBVIOUS
<1>2. x \in Nat
  BY <1>1
<1>3. PICK d, b, n : d = x \div cols /\ b = d*cols /\ n = rows*cols
  OBVIOUS
<1>4. d \in 0..(rows - 1) /\ d \in Nat
  <2>1. d \in 0..(rows - 1)
    BY <1>1, <1>3, RowOf
  <2> QED BY <2>1
<1>5. (d + 1)*cols = b + cols /\ b \in Nat
  BY <1>3, <1>4, NextRow
<1>6. (d + 1)*cols - 1 = b + (cols - 1)
  BY <1>5
<1>7. b + (cols - 1) \in 0..(n - 1)
  <2>1. cols - 1 \in 0..(cols - 1)
    OBVIOUS
  <2> QED BY <1>1, <1>3, <1>4, <2>1, InRow
<1>8. b..(b + (cols - 1)) \subseteq 0..(n - 1)
  BY <1>1, <1>3, <1>5, <1>7
<1>9. x % cols \in 0..(cols - 1)
  BY <1>2, DivMod
<1> QED BY <1>3, <1>4, <1>6, <1>8, <1>9 DEF RowPlace

LEMMA RowPromised ==
    ASSUME NEW c, NEW l, Carried(c, l), Described(l), NEW W, NEW x \in Outputs(l), W[x] = Reads(l, x),
           l.name \in {"layer_norm", "rms_norm", "add_bias"}
    PROVE  AsPromised(c, l, W, x)
<1>1. PICK n, mem, a, N, col, d, b : /\ n = l.rows*l.cols /\ mem = Vram(l) /\ a = l.args[1].id /\ N = l.cols
                                     /\ d = x \div N /\ col = x % N /\ b = d*N
  OBVIOUS
<1>2. n \in Nat \ {0} /\ OfSize(l, 1, n) /\ l.rows \in Nat \ {0} /\ N \in Nat \ {0}
  BY <1>1, DescribedSizes
<1>3. \A i \in 0..(n - 1) : Value(c, mem, <<1, i>>) = {<<a, i>>}
  BY <1>1, <1>2, BufferOf
<1>4. x \in 0..(n - 1)
  BY <1>1 DEF Outputs
<1>5. col \in 0..(N - 1) /\ b..(b + (N - 1)) \subseteq 0..(n - 1) /\ (d + 1)*N - 1 = b + (N - 1)
  <2>1. RowPlace(l.rows, N, x)
    BY <1>1, <1>2, <1>4, RowCells
  <2> QED BY <1>1, <2>1, Zenon DEF RowPlace
<1>6. OfSize(l, 3, N)
  BY <1>1, DescribedKernel
<1>7. Value(c, mem, <<3, col>>) = {<<l.args[3].id, col>>}
  BY <1>1, <1>5, <1>6, BufferOf
<1>8. PICK row : row = {<<a, j>> : j \in b..(b + (N - 1))}
  OBVIOUS
<1>9. RowSources(N, x) = {<<1, j>> : j \in b..(b + (N - 1))}
  BY <1>1, Zenon DEF RowSources
<1>10. Gathered(c, mem, RowSources(N, x)) = row
  <2>1. PICK S : S = b..(b + (N - 1))
    OBVIOUS
  <2>2. InPlaceOf(c, mem, a, S)
    BY <1>3, <1>5, <2>1, Zenon DEF InPlaceOf
  <2>3. Gathered(c, mem, Span(1, S)) = Span(a, S)
    <3>1. Spanned(c, mem, a, S)
      BY <2>2, NowOfSpan, Zenon
    <3> QED BY <3>1, Zenon DEF Spanned
  <2> QED BY <1>8, <1>9, <2>1, <2>3, Zenon DEF Span
<1>11. {<<a, y>> : y \in (d*N)..((d + 1)*N - 1)} = row
  BY <1>1, <1>5, <1>8, Zenon
<1>12. CASE l.name = "layer_norm"
  <2>1. OfSize(l, 4, N)
    BY <1>1, <1>12, DescribedKernel
  <2>2. Value(c, mem, <<4, col>>) = {<<l.args[4].id, col>>}
    BY <1>1, <1>5, <2>1, BufferOf
  <2>3. W[x] = RowSources(N, x) \cup {<<3, col>>, <<4, col>>}
    <3>1. WeightSources({3, 4}, N, x) = {<<3, col>>, <<4, col>>}
      BY <1>1 DEF WeightSources
    <3>2. W[x] = RowSources(N, x) \cup WeightSources({3, 4}, N, x)
      BY <1>1, <1>12 DEF Reads
    <3> QED BY <3>1, <3>2
  <2>4. Gathered(c, mem, {<<3, col>>, <<4, col>>}) = {<<l.args[3].id, col>>, <<l.args[4].id, col>>}
    <3>1. Gathered(c, mem, {<<3, col>>, <<4, col>>}) = Value(c, mem, <<3, col>>) \cup Value(c, mem, <<4, col>>)
      BY TwoSources, Zenon
    <3> QED BY <1>7, <2>2, <3>1
  <2>5. Now(c, mem, W, x) = row \cup {<<l.args[3].id, col>>, <<l.args[4].id, col>>}
    <3>1. Joined(c, mem, RowSources(N, x), {<<3, col>>, <<4, col>>})
      BY MoreSources, Zenon
    <3>2. Now(c, mem, W, x) = Gathered(c, mem, RowSources(N, x)) \cup Gathered(c, mem, {<<3, col>>, <<4, col>>})
      BY <2>3, <3>1, NowGathered, Zenon DEF Joined
    <3> QED BY <1>10, <2>4, <3>2, Zenon
  <2>6. Documented(l, x) = {<<a, y>> : y \in (d*N)..((d + 1)*N - 1)} \cup {<<l.args[3].id, col>>, <<l.args[4].id, col>>}
    BY <1>1, <1>12 DEF Documented, Input
  <2> QED BY <1>1, <1>11, <2>5, <2>6, Zenon DEF AsPromised
<1>13. CASE l.name = "rms_norm"
  <2>3. W[x] = RowSources(N, x) \cup {<<3, col>>}
    <3>1. WeightSources({3}, N, x) = {<<3, col>>}
      BY <1>1 DEF WeightSources
    <3>2. W[x] = RowSources(N, x) \cup WeightSources({3}, N, x)
      BY <1>1, <1>13 DEF Reads
    <3> QED BY <3>1, <3>2
  <2>4. Gathered(c, mem, {<<3, col>>}) = {<<l.args[3].id, col>>}
    <3>1. Gathered(c, mem, {<<3, col>>}) = Value(c, mem, <<3, col>>)
      BY OneSource, Zenon
    <3> QED BY <1>7, <3>1
  <2>5. Now(c, mem, W, x) = row \cup {<<l.args[3].id, col>>}
    <3>1. Joined(c, mem, RowSources(N, x), {<<3, col>>})
      BY MoreSources, Zenon
    <3>2. Now(c, mem, W, x) = Gathered(c, mem, RowSources(N, x)) \cup Gathered(c, mem, {<<3, col>>})
      BY <2>3, <3>1, NowGathered, Zenon DEF Joined
    <3> QED BY <1>10, <2>4, <3>2, Zenon
  <2>6. Documented(l, x) = {<<a, y>> : y \in (d*N)..((d + 1)*N - 1)} \cup {<<l.args[3].id, col>>}
    BY <1>1, <1>13 DEF Documented, Input
  <2> QED BY <1>1, <1>11, <2>5, <2>6, Zenon DEF AsPromised
<1>14. CASE l.name = "add_bias"
  <2>1. W[x] = {<<1, x>>, <<3, col>>}
    BY <1>1, <1>14 DEF Reads
  <2>2. Now(c, mem, W, x) = {<<a, x>>, <<l.args[3].id, col>>}
    <3>1. Value(c, mem, <<1, x>>) = {<<a, x>>}
      BY <1>3, <1>4
    <3>2. Now(c, mem, W, x) = Value(c, mem, <<1, x>>) \cup Value(c, mem, <<3, col>>)
      BY <2>1, NowGathered, TwoSources, Zenon
    <3> QED BY <1>7, <3>1, <3>2
  <2>3. Documented(l, x) = {<<a, x>>, <<l.args[3].id, col>>}
    BY <1>1, <1>14 DEF Documented, Input
  <2> QED BY <1>1, <2>2, <2>3 DEF AsPromised
<1> QED BY <1>12, <1>13, <1>14

LEMMA RopePromised ==
    ASSUME NEW c, NEW l, Carried(c, l), Described(l), NEW W, NEW x \in Outputs(l), W[x] = Reads(l, x), l.name = "rope"
    PROVE  AsPromised(c, l, W, x)
<1>1. PICK n, mem, a, N, half, d, e : /\ n = l.rows*l.cols /\ mem = Vram(l) /\ a = l.args[1].id /\ N = l.cols
                                      /\ half = l.cols \div 2 /\ d = x \div N /\ e = (x % N) % half
  OBVIOUS
<1>2. n \in Nat \ {0} /\ OfSize(l, 1, n) /\ l.rows \in Nat \ {0} /\ N \in Nat \ {0} /\ N % 2 = 0 /\ Has(l, 3, {"int"})
  BY <1>1, DescribedSizes, DescribedKernel
<1>3. half \in Nat \ {0} /\ N = half + half
  BY <1>1, <1>2
<1>4. \A i \in 0..(n - 1) : Value(c, mem, <<1, i>>) = {<<a, i>>}
  BY <1>1, <1>2, BufferOf
<1>5. x \in 0..(n - 1)
  BY <1>1 DEF Outputs
<1>6. d \in 0..(l.rows - 1) /\ x % N \in 0..(N - 1)
  <2>1. RowPlace(l.rows, N, x)
    BY <1>1, <1>2, <1>5, RowCells
  <2> QED BY <1>1, <2>1, Zenon DEF RowPlace
<1>7. e \in 0..(half - 1)
  <2>1. x % N \in Nat
    BY <1>2, <1>6
  <2> QED BY <1>1, <1>3, <2>1, DivMod
<1>8. PICK i, j : i = d*N + e /\ j = d*N + e + half
  OBVIOUS
<1>9. i \in 0..(n - 1) /\ j \in 0..(n - 1)
  <2>1. e \in 0..(N - 1) /\ e + half \in 0..(N - 1)
    BY <1>3, <1>7
  <2>2. l.rows \in Nat /\ d*N + e \in 0..(l.rows*N - 1) /\ d*N + (e + half) \in 0..(l.rows*N - 1)
    BY <1>2, <1>6, <2>1, InRow
  <2>3. PICK b : b = d*N
    OBVIOUS
  <2>4. b \in Int /\ b + (e + half) = b + e + half
    BY <1>2, <1>3, <1>6, <1>7, <2>3
  <2> QED BY <1>1, <1>8, <2>2, <2>3, <2>4
<1>10. Value(c, mem, <<3, 0>>) = {<<"int", 3>>}
  <2>1. Has(l, 3, {"int", "float"}) /\ l.args[3].is = "int"
    BY <1>2 DEF Has
  <2>2. c.args[3].is = "int"
    BY <1>2, <2>1, NumberOf
  <2> QED BY <1>1, <2>1, <2>2, NumberOf
<1>11. W[x] = {<<1, i>>, <<1, j>>, <<3, 0>>}
  <2>1. W[x] = RotateSources(N, half, x)
    BY <1>1 DEF Reads
  <2> QED BY <1>1, <1>8, <2>1, Zenon DEF RotateSources
<1>12. Now(c, mem, W, x) = {<<a, i>>, <<a, j>>, <<"int", 3>>}
  BY <1>4, <1>9, <1>10, <1>11 DEF Now
<1>13. Documented(l, x) = {<<a, i>>, <<a, j>>, <<"int", 3>>}
  BY <1>1, <1>8 DEF Documented, Input
<1> QED BY <1>1, <1>12, <1>13 DEF AsPromised

LEMMA AllPromised ==
    ASSUME NEW c, NEW l, Carried(c, l), Described(l), c.args = l.args, NEW x \in Outputs(l)
    PROVE  AsPromised(c, l, SourcesOf(l), x)
<1>1. PICK W : W = SourcesOf(l)
  OBVIOUS
<1>2. W[x] = Reads(l, x)
  BY <1>1 DEF SourcesOf
<1>3. l.name \in {"relu", "sigmoid", "gelu", "softmax", "vector_add", "element_wise_mul", "scalar_mul",
                  "reduce_sum", "transpose", "matmul", "layer_norm", "rms_norm", "add_bias", "rope"}
  BY DescribedKernel
<1>4. CASE l.name \in {"relu", "sigmoid", "gelu", "scalar_mul", "softmax", "reduce_sum", "transpose"}
  BY <1>1, <1>2, <1>4, CellsPromised
<1>5. CASE l.name \in {"layer_norm", "rms_norm", "add_bias"}
  BY <1>1, <1>2, <1>5, RowPromised
<1>6. CASE l.name = "rope"
  BY <1>1, <1>2, <1>6, RopePromised
<1>7. CASE l.name \in {"vector_add", "element_wise_mul"}
  <2>1. x \in 0..(l.rows*l.cols - 1) /\ W[x] = {<<1, x>>, <<2, x>>}
    BY <1>2, <1>7 DEF Outputs, Reads
  <2> QED BY <1>1, <1>7, <2>1, PairPromised
<1>8. CASE l.name = "matmul"
  <2>1. x \in 0..(l.rows*l.cols - 1) /\ W[x] = Products(l.inner, l.cols, x)
    BY <1>2, <1>8 DEF Outputs, Reads
  <2> QED BY <1>1, <1>8, <2>1, ProductPromised
<1> QED BY <1>3, <1>4, <1>5, <1>6, <1>7, <1>8

LEMMA LocalRight ==
    ASSUME LaunchesAssumption, KInv, Ran("local"), Described(launch), Understood(launch)
    PROVE  Right("local", Outputs(launch))
<1>1. PICK c : c = [launch EXCEPT !.args = LocalArgs(@)]
  OBVIOUS
<1>2. /\ launch \in Launches /\ {"name", "args", "gs", "go"} \subseteq DOMAIN launch
      /\ launch.args \in Seq(Arguments) /\ launch.go \in Seq(Nat)
      /\ \A b \in DOMAIN launch.sizes : launch.sizes[b] \in Nat
  BY DEF KInv, KernelsTypeOK, LaunchesAssumption
<1>3. \A k \in DOMAIN launch.args : launch.args[k].is \in {"buffer", "int", "float"}
  BY DescribedSizes
<1>4. c.args = launch.args /\ c.name = launch.name /\ c.gs = launch.gs /\ c.go = launch.go
  BY <1>1, <1>2, <1>3, CarriedArgs
<1>5. Carried(c, launch)
  <2>1. Len(launch.args) \in Nat /\ DOMAIN launch.args = 1..Len(launch.args)
    BY <1>2, LenProperties
  <2> QED BY <1>2, <1>3, <1>4, <2>1 DEF Carried
<1>6. Sent(c, launch) /\ Allowed(launch)
  BY <1>4, <1>5 DEF Sent, Allowed
<1>7. Carries(c, Vram(launch), Kernel(c, Vram(launch)), SourcesOf(launch))
  BY <1>2, <1>6, GoCarries DEF Carry
<1>8. ran["local"] = Answered(ExecuteNDRange(c, Vram(launch)), BufferIds(launch.args))
  BY <1>1 DEF KInv, OnCore
<1>9. DOMAIN SourcesOf(launch) = Outputs(launch)
  BY DEF SourcesOf
<1>10. PICK n \in Nat \ {0} : OfSize(launch, OutArg(launch), n) /\ Outputs(launch) \subseteq 0..(n - 1)
  BY <1>2, OutputRoom
<1>11. \A e \in DOMAIN SourcesOf(launch) : AsPromised(c, launch, SourcesOf(launch), e)
  BY <1>4, <1>5, <1>9, AllPromised
<1>12. RightIn("local", Outputs(launch), n)
  BY <1>5, <1>7, <1>8, <1>9, <1>10, <1>11, RanRight
<1> QED BY <1>12 DEF RightIn

(* Whatever the sizes, a launch its kernel's comment describes computes on  *)
(* the core what the comment says, in any of the forms the code takes its  *)
(* dimensions in (fallback.go, executeLocally of ipc_server.go).           *)
THEOREM LocalAsDocumented == KernelsSpec => []LocalIsDocumented
<1>1. KInv => LocalIsDocumented
  BY LaunchesAssumption, LocalRight DEF LocalIsDocumented
<1> QED BY <1>1, LaunchesAssumption, InitKernels, NextKernels, PTL DEF KernelsSpec
-----------------------------------------------------------------------------
(* The work items of the GPU, in the order the model runs them in.         *)
InOrder(q, n, S) ==
    /\ DOMAIN q = 1..n /\ \A m \in 1..n : q[m] \in S
    /\ \A s \in S : \E m \in 1..n : q[m] = s
    /\ \A m, j \in 1..n : m # j => q[m] # q[j]

LEMMA ItemsInOrder == ASSUME NEW S, IsFiniteSet(S) PROVE \E n \in Nat : InOrder(SetToSeq(S), n, S)
<1>1. PICK n : n = Cardinality(S)
  OBVIOUS
<1>2. n \in Nat /\ ExistsBijection(1..n, S)
  BY <1>1, FS_CardinalityType
<1>3. PICK f : f \in Bijection(1..n, S)
  BY <1>2 DEF ExistsBijection
<1>4. f \in [1..n -> S] /\ IsInjective(f)
  BY <1>3 DEF Bijection, Injection, IsInjective
<1>5. PICK q : q = SetToSeq(S)
  OBVIOUS
<1>6. q \in [1..n -> S] /\ IsInjective(q)
  BY <1>1, <1>4, <1>5 DEF SetToSeq
<1>7. q \in Injection(1..n, S)
  BY <1>6 DEF Injection, IsInjective
<1>8. q \in Surjection(1..n, S)
  <2>1. IsFiniteSet(1..n) /\ Cardinality(1..n) = n
    <3>1. IsFiniteSet(1..n) /\ Cardinality(1..n) = IF 1 > n THEN 0 ELSE n - 1 + 1
      BY <1>2, FS_Interval
    <3> QED BY <1>2, <3>1
  <2> QED BY <1>1, <1>7, <2>1, FS_Injection
<1>9. \A s \in S : \E m \in 1..n : q[m] = s
  BY <1>8 DEF Surjection
<1>10. InOrder(q, n, S)
  BY <1>6, <1>9 DEF InOrder, IsInjective
<1> QED BY <1>2, <1>5, <1>10

LEMMA ItemsFinite ==
    ASSUME NEW c, NEW t \in Nat, Dim(c, 1) = t, Offset(c, 1) = 0
    PROVE  GpuItems(c) = {Item(c, e, t) : e \in 0..(t - 1)} /\ IsFiniteSet(GpuItems(c))
<1>1. PICK I, S : I = 0..(t - 1) /\ S = {Item(c, e, t) : e \in I}
  OBVIOUS
<1>2. GpuItems(c) = S
  <2>1. 0..(0 + t - 1) = I
    BY <1>1
  <2> QED BY <1>1, <2>1, Zenon DEF GpuItems
<1>3. IsFiniteSet(I)
  BY <1>1, FS_Interval
<1>4. PICK f : f = [e \in I |-> Item(c, e, t)]
  OBVIOUS
<1>5. f \in Surjection(I, S)
  BY <1>1, <1>4 DEF Surjection
<1> QED BY <1>1, <1>2, <1>3, <1>5, FS_Surjection
-----------------------------------------------------------------------------
(* Items that write every cell of W, each from its sources.                *)
AllFit(items, W) ==
    /\ \A s \in items : \A x \in DOMAIN s : x \in DOMAIN W /\ s[x] = W[x]
    /\ \A x \in DOMAIN W : x \in Int /\ \E s \in items : x \in DOMAIN s

Aside(c, mem, k) == ~Found(c, mem, k) \/ c.args[k].id # c.args[OutArg(c)].id

LEMMA AsideCarry ==
    ASSUME NEW c, NEW mem, NEW W, IsFiniteSet(GpuItems(c)), AllFit(GpuItems(c), W),
           \A x \in DOMAIN W : \A src \in W[x] : src[2] \in Int /\ Aside(c, mem, src[1])
    PROVE  Carries(c, mem, Loop(SetToSeq(GpuItems(c))), W)
<1>1. PICK S, q : S = GpuItems(c) /\ q = SetToSeq(S)
  OBVIOUS
<1>2. PICK n \in Nat : InOrder(q, n, S)
  BY <1>1, ItemsInOrder
<1>3. Loop(q).end = "done" /\ Loop(q).steps = q
  BY DEF Loop
<1>4. \A m \in 1..n : \A x \in DOMAIN q[m] : x \in DOMAIN W /\ q[m][x] = W[x]
  BY <1>1, <1>2 DEF InOrder, AllFit
<1>5. ASSUME NEW x \in DOMAIN W PROVE x \in Int /\ \E m \in 1..n : x \in DOMAIN q[m]
  <2>1. x \in Int
    BY DEF AllFit
  <2>2. PICK s \in S : x \in DOMAIN s
    BY <1>1 DEF AllFit
  <2>3. PICK m \in 1..n : q[m] = s
    BY <1>2 DEF InOrder
  <2> QED BY <2>1, <2>2, <2>3
<1>6. Reached(Loop(q), n, W)
  BY <1>2, <1>3, <1>4, <1>5 DEF Reached, InOrder
<1>7. \A x \in DOMAIN W : \A src \in W[x] : src[2] \in Int /\ ~IsOutput(c, mem, src)
  BY DEF Aside, IsOutput
<1> QED BY <1>1, <1>6, <1>7, ApartCarries

LEMMA CellsFit ==
    ASSUME NEW n \in Nat, NEW W, DOMAIN W = 0..(n - 1) PROVE AllFit({WriteCell(e, W[e]) : e \in 0..(n - 1)}, W)
<1>1. \A e : DOMAIN WriteCell(e, W[e]) = {e} /\ WriteCell(e, W[e])[e] = W[e]
  BY DEF WriteCell
<1>2. \A x \in 0..(n - 1) : x \in Int
  OBVIOUS
<1>3. PICK S : S = {WriteCell(e, W[e]) : e \in 0..(n - 1)}
  OBVIOUS
<1>4. ASSUME NEW s \in S, NEW x \in DOMAIN s PROVE x \in DOMAIN W /\ s[x] = W[x]
  <2>1. PICK e \in 0..(n - 1) : s = WriteCell(e, W[e])
    BY <1>3
  <2>2. DOMAIN s = {e} /\ s[e] = W[e]
    BY <1>1, <2>1, Zenon
  <2>3. x = e
    BY <2>2
  <2> QED BY <2>2, <2>3
<1>5. ASSUME NEW x \in DOMAIN W PROVE x \in Int /\ \E s \in S : x \in DOMAIN s
  <2>1. WriteCell(x, W[x]) \in S
    BY <1>3
  <2>2. DOMAIN WriteCell(x, W[x]) = {x}
    BY <1>1, Zenon
  <2>3. x \in DOMAIN WriteCell(x, W[x])
    BY <2>2
  <2> QED BY <1>2, <2>1, <2>3
<1>6. AllFit(S, W)
  BY <1>4, <1>5, Zenon DEF AllFit
<1> QED BY <1>3, <1>6

(* Items of one cell each: what they read of the output is their cell.     *)
LEMMA CellsCarry ==
    ASSUME NEW c, NEW mem, NEW n \in Nat, NEW W, DOMAIN W = 0..(n - 1), IsFiniteSet(GpuItems(c)),
           GpuItems(c) = {WriteCell(e, W[e]) : e \in 0..(n - 1)}, Holds(c, mem, OutArg(c), n),
           \A x \in 0..(n - 1) : \A src \in W[x] : src[2] = x
    PROVE  Carries(c, mem, Loop(SetToSeq(GpuItems(c))), W)
<1>1. PICK S, q, o : S = GpuItems(c) /\ q = SetToSeq(S) /\ o = c.args[OutArg(c)].id
  OBVIOUS
<1>2. PICK t \in Nat : InOrder(q, t, S)
  BY <1>1, ItemsInOrder
<1>3. \A e : DOMAIN WriteCell(e, W[e]) = {e} /\ WriteCell(e, W[e])[e] = W[e]
  BY DEF WriteCell
<1>4. ASSUME NEW m \in 1..t PROVE \E e \in 0..(n - 1) : q[m] = WriteCell(e, W[e])
  BY <1>1, <1>2 DEF InOrder
<1>5. \A x \in 0..(n - 1) : x \in Int /\ x + 1 \in DOMAIN mem[o]
  BY <1>1 DEF Holds
<1>6. ASSUME NEW m \in 1..t, NEW x \in DOMAIN q[m]
      PROVE  /\ x \in DOMAIN W /\ q[m][x] = W[x]
             /\ \A src \in W[x] : /\ src[2] \in Int
                                  /\ IsOutput(c, mem, src) => src[2] \in DOMAIN q[m] /\ src[2] + 1 \in DOMAIN mem[o]
  <2>1. PICK e \in 0..(n - 1) : q[m] = WriteCell(e, W[e])
    BY <1>4
  <2>2. x = e
    <3>1. DOMAIN q[m] = {e}
      BY <1>3, <2>1, Zenon
    <3> QED BY <3>1
  <2>3. \A src \in W[x] : src[2] = x
    BY <2>2
  <2>4. x \in Int /\ x + 1 \in DOMAIN mem[o]
    BY <1>5, <2>2
  <2>5. q[m][x] = W[x]
    BY <1>3, <2>1, <2>2, Zenon
  <2> QED BY <2>2, <2>3, <2>4, <2>5
<1>7. ASSUME NEW m \in 1..t, NEW j \in 1..t, m # j PROVE DOMAIN q[m] \cap DOMAIN q[j] = {}
  <2>1. PICK e \in 0..(n - 1) : q[m] = WriteCell(e, W[e])
    BY <1>4
  <2>2. PICK f \in 0..(n - 1) : q[j] = WriteCell(f, W[f])
    BY <1>4
  <2>3. e # f
    BY <1>2, <1>7, <2>1, <2>2 DEF InOrder
  <2>4. DOMAIN q[m] = {e} /\ DOMAIN q[j] = {f}
    BY <1>3, <2>1, <2>2, Zenon
  <2> QED BY <2>3, <2>4
<1>8. ASSUME NEW x \in DOMAIN W PROVE x \in Int /\ \E m \in 1..t : x \in DOMAIN q[m]
  <2>1. WriteCell(x, W[x]) \in S
    BY <1>1
  <2>2. PICK m \in 1..t : q[m] = WriteCell(x, W[x])
    BY <1>2, <2>1 DEF InOrder
  <2>3. x \in DOMAIN q[m]
    BY <1>3, <2>2, Zenon
  <2> QED BY <1>5, <2>3
<1>9. OwnCells(c, mem, q, t, W)
  <2>1. DOMAIN q = 1..t
    BY <1>2 DEF InOrder
  <2>2. \A m \in 1..t : \A x \in DOMAIN q[m] :
          /\ x \in DOMAIN W /\ q[m][x] = W[x]
          /\ \A src \in W[x] : /\ src[2] \in Int
                               /\ IsOutput(c, mem, src) => /\ src[2] \in DOMAIN q[m]
                                                           /\ src[2] + 1 \in DOMAIN mem[c.args[OutArg(c)].id]
    BY <1>1, <1>6
  <2>3. \A m, j \in 1..t : m # j => DOMAIN q[m] \cap DOMAIN q[j] = {}
    BY <1>7
  <2>4. \A x \in DOMAIN W : x \in Int /\ \E m \in 1..t : x \in DOMAIN q[m]
    BY <1>8
  <2> QED BY <2>1, <2>2, <2>3, <2>4, Zenon DEF OwnCells
<1> QED BY <1>1, <1>9, OwnCarry
-----------------------------------------------------------------------------
(* What the item of the OpenCL source that writes element x reads.         *)
GpuReads(l, x) == IF l.name = "scalar_mul" THEN {<<1, x>>, <<3, 0>>} ELSE Reads(l, x)
GpuSources(l) == [x \in Outputs(l) |-> GpuReads(l, x)]
GpuCarry(c, l) == Carries(c, Vram(l), Loop(SetToSeq(GpuItems(c))), GpuSources(l))
ToGpu(c, l) == Sent(c, l) /\ Described(l) /\ GpuForm(l) /\ l.go \in Seq(Nat) /\ Apart(l, 1) /\ l.name # "matmul"

LEMMA ItemsOf ==
    ASSUME NEW c, NEW l, ToGpu(c, l), NEW t \in Nat, l.gs = <<t, 0, 0>>
    PROVE  GpuItems(c) = {Item(c, e, t) : e \in 0..(t - 1)} /\ IsFiniteSet(GpuItems(c))
<1>1. Dim(c, 1) = t
  BY DimsOf DEF ToGpu, Sent
<1>2. Offset(c, 1) = 0
  BY OffsetsOf DEF ToGpu
<1> QED BY <1>1, <1>2, ItemsFinite

LEMMA Beside ==
    ASSUME NEW c, NEW l, ToGpu(c, l)
    PROVE  /\ Aside(c, Vram(l), 1)
           /\ \A k \in Nat \ {0} : Has(l, k, {"int", "float"}) => Aside(c, Vram(l), k)
           /\ \A k \in Nat \ {0} : OfSize(l, k, l.cols) /\ Apart(l, k) => Aside(c, Vram(l), k)
<1>1. Carried(c, l) /\ OutArg(c) = OutArg(l) /\ c.args[1] = l.args[1] /\ c.args[OutArg(c)] = l.args[OutArg(c)]
  BY Buffers DEF ToGpu, Sent
<1>2. Aside(c, Vram(l), 1)
  BY <1>1 DEF Aside, Apart, ToGpu
<1>3. ASSUME NEW k \in Nat \ {0}, Has(l, k, {"int", "float"}) PROVE Aside(c, Vram(l), k)
  BY <1>1, <1>3, NumberOf DEF Aside
<1>4. ASSUME NEW k \in Nat \ {0}, OfSize(l, k, l.cols), Apart(l, k) PROVE Aside(c, Vram(l), k)
  <2>1. c.args[k] = l.args[k]
    BY <1>1, <1>4, BufferOf
  <2> QED BY <1>1, <1>4, <2>1 DEF Aside, Apart
<1> QED BY <1>2, <1>3, <1>4

LEMMA GpuCells ==
    ASSUME NEW c, NEW l, ToGpu(c, l),
           l.name \in {"relu", "sigmoid", "gelu", "vector_add", "element_wise_mul", "scalar_mul", "add_bias"},
           l.name = "add_bias" => Len(c.args) >= 4
    PROVE  GpuCarry(c, l)
<1>1. PICK n, mem, W : n = l.rows*l.cols /\ mem = Vram(l) /\ W = GpuSources(l)
  OBVIOUS
<1>2. /\ n \in Nat \ {0} /\ l.gs = <<n, 0, 0>> /\ c.name = l.name /\ Carried(c, l) /\ Holds(c, mem, OutArg(c), n)
      /\ l.cols \in Nat \ {0}
  <2>1. l.gs = <<n, 0, 0>>
    BY <1>1 DEF ToGpu, GpuForm
  <2>2. c.name = l.name /\ Carried(c, l) /\ Holds(c, mem, OutArg(c), n)
    BY <1>1, Buffers DEF ToGpu, Sent
  <2> QED BY <1>1, <2>1, <2>2, DescribedSizes DEF ToGpu
<1>3. GpuItems(c) = {Item(c, e, n) : e \in 0..(n - 1)} /\ IsFiniteSet(GpuItems(c))
  BY <1>2, ItemsOf
<1>4. DOMAIN W = 0..(n - 1) /\ \A e \in 0..(n - 1) : W[e] = GpuReads(l, e)
  BY <1>1 DEF GpuSources, Outputs
<1>5. l.name = "add_bias" => IntArg(c, 4) = l.cols
  BY <1>2, SaidOf, DescribedKernel DEF ToGpu
<1>6. ASSUME NEW e \in 0..(n - 1) PROVE Item(c, e, n) = WriteCell(e, W[e])
  <2>1. CASE l.name \in {"relu", "sigmoid", "gelu"}
    BY <1>2, <1>4, <2>1 DEF Item, GpuReads, Reads
  <2>2. CASE l.name \in {"vector_add", "element_wise_mul"}
    BY <1>2, <1>4, <2>2 DEF Item, GpuReads, Reads
  <2>3. CASE l.name = "scalar_mul"
    BY <1>2, <1>4, <2>3 DEF Item, GpuReads
  <2>4. CASE l.name = "add_bias"
    BY <1>2, <1>4, <1>5, <2>4 DEF Item, GpuReads, Reads
  <2> QED BY <2>1, <2>2, <2>3, <2>4
<1>7. GpuItems(c) = {WriteCell(e, W[e]) : e \in 0..(n - 1)}
  BY <1>3, <1>6, Zenon
<1>8. CASE l.name \in {"relu", "sigmoid", "gelu", "vector_add", "element_wise_mul"}
  <2>1. \A x \in 0..(n - 1) : \A src \in W[x] : src[2] = x
    <3>1. \A x \in 0..(n - 1) : W[x] \subseteq {<<1, x>>, <<2, x>>}
      BY <1>4, <1>8 DEF GpuReads, Reads
    <3> QED BY <3>1
  <2>2. n \in Nat
    BY <1>2
  <2>3. Carries(c, mem, Loop(SetToSeq(GpuItems(c))), W)
    BY <1>2, <1>3, <1>4, <1>7, <2>1, <2>2, CellsCarry
  <2> QED BY <1>1, <2>3 DEF GpuCarry
<1>9. CASE l.name \in {"scalar_mul", "add_bias"}
  <2>1. n \in Nat /\ Aside(c, mem, 1) /\ Aside(c, mem, 3)
    <3>1. CASE l.name = "scalar_mul"
      <4>1. Has(l, 3, {"int", "float"})
        BY <3>1, DescribedKernel DEF ToGpu, Has
      <4> QED BY <1>1, <1>2, <4>1, Beside
    <3>2. CASE l.name = "add_bias"
      <4>1. OfSize(l, 3, l.cols) /\ Apart(l, 3)
        BY <3>2, DescribedKernel DEF ToGpu
      <4> QED BY <1>1, <1>2, <4>1, Beside
    <3> QED BY <1>9, <3>1, <3>2
  <2>2. ASSUME NEW x \in 0..(n - 1), NEW src \in W[x] PROVE src[2] \in Int /\ Aside(c, mem, src[1])
    <3>1. W[x] \in {{<<1, x>>, <<3, 0>>}, {<<1, x>>, <<3, x % l.cols>>}}
      BY <1>4, <1>9 DEF GpuReads, Reads
    <3>2. x \in Nat /\ x % l.cols \in Int
      <4>1. x \in Nat
        BY <2>1
      <4>2. x % l.cols \in Nat
        BY <1>2, <4>1, DivMod
      <4> QED BY <4>1, <4>2
    <3> QED BY <2>1, <3>1, <3>2
  <2>3. AllFit(GpuItems(c), W)
    BY <1>4, <1>7, <2>1, CellsFit
  <2>4. Carries(c, mem, Loop(SetToSeq(GpuItems(c))), W)
    BY <1>3, <1>4, <2>2, <2>3, AsideCarry
  <2> QED BY <1>1, <2>4 DEF GpuCarry
<1> QED BY <1>8, <1>9

(* One item sums, the others write nothing.                                *)
LEMMA GpuSum ==
    ASSUME NEW c, NEW l, ToGpu(c, l), l.name = "reduce_sum", Len(c.args) >= 3
    PROVE  GpuCarry(c, l)
<1>1. PICK n, mem, W : n = l.rows*l.cols /\ mem = Vram(l) /\ W = GpuSources(l)
  OBVIOUS
<1>2. n \in Nat \ {0} /\ l.gs = <<n, 0, 0>> /\ c.name = l.name /\ Carried(c, l)
  <2>1. l.gs = <<n, 0, 0>>
    BY <1>1 DEF ToGpu, GpuForm
  <2>2. c.name = l.name /\ Carried(c, l)
    BY DEF ToGpu, Sent, Carried
  <2> QED BY <1>1, <2>1, <2>2, DescribedSizes DEF ToGpu
<1>3. GpuItems(c) = {Item(c, e, n) : e \in 0..(n - 1)} /\ IsFiniteSet(GpuItems(c))
  BY <1>2, ItemsOf
<1>4. IntArg(c, 3) = n
  <2>1. MaySay(l, 3, n)
    BY <1>1, DescribedKernel DEF ToGpu
  <2> QED BY <1>2, <2>1, SaidOf
<1>5. PICK all : all = {<<1, j>> : j \in 0..(n - 1)}
  OBVIOUS
<1>6. DOMAIN W = {0} /\ W[0] = all
  BY <1>1, <1>5 DEF GpuSources, Outputs, GpuReads, Reads
<1>7. ASSUME NEW e \in 0..(n - 1) PROVE Item(c, e, n) = [x \in {0} \cap {e} |-> all]
  BY <1>2, <1>4, <1>5 DEF Item
<1>8. ASSUME NEW s \in GpuItems(c), NEW x \in DOMAIN s PROVE x \in DOMAIN W /\ s[x] = W[x]
  <2>1. PICK e \in 0..(n - 1) : s = Item(c, e, n)
    BY <1>3
  <2>2. s = [y \in {0} \cap {e} |-> all]
    BY <1>7, <2>1
  <2> QED BY <1>6, <2>2
<1>9. ASSUME NEW x \in DOMAIN W PROVE x \in Int /\ \E s \in GpuItems(c) : x \in DOMAIN s
  <2>1. x = 0 /\ 0 \in 0..(n - 1)
    BY <1>2, <1>6
  <2>2. Item(c, 0, n) \in GpuItems(c)
    BY <1>3, <2>1
  <2>3. Item(c, 0, n) = [y \in {0} \cap {0} |-> all]
    BY <1>7, <2>1
  <2>4. 0 \in DOMAIN Item(c, 0, n)
    BY <2>3
  <2> QED BY <2>1, <2>2, <2>4
<1>10. AllFit(GpuItems(c), W)
  BY <1>8, <1>9, Zenon DEF AllFit
<1>11. \A x \in DOMAIN W : \A src \in W[x] : src[2] \in Int /\ Aside(c, mem, src[1])
  <2>1. Aside(c, mem, 1)
    BY <1>1, Beside
  <2>2. ASSUME NEW src \in all PROVE src[1] = 1 /\ src[2] \in Int
    BY <1>2, <1>5
  <2> QED BY <1>6, <2>1, <2>2
<1>12. Carries(c, mem, Loop(SetToSeq(GpuItems(c))), W)
  BY <1>3, <1>10, <1>11, AsideCarry
<1> QED BY <1>1, <1>12 DEF GpuCarry
-----------------------------------------------------------------------------
(* The item of a row, and what its elements read.                          *)
RowItem(e, cols, ns) ==
    [x \in (e*cols)..((e + 1)*cols - 1) |->
        {<<1, j>> : j \in (e*cols)..((e + 1)*cols - 1)} \cup {<<k, x - e*cols>> : k \in ns}]
RowReads(cols, ns, x) == RowSources(cols, x) \cup WeightSources(ns, cols, x)
RowItemReads(rows, cols, ns, e) ==
    \A x \in DOMAIN RowItem(e, cols, ns) : /\ x \in 0..(rows*cols - 1)
                                           /\ RowItem(e, cols, ns)[x] = RowReads(cols, ns, x)

LEMMA RowItemIs ==
    ASSUME NEW rows \in Nat \ {0}, NEW cols \in Nat \ {0}, NEW ns, NEW e \in 0..(rows - 1)
    PROVE  RowItemReads(rows, cols, ns, e)
<1>1. PICK b, n, I : b = e*cols /\ n = rows*cols /\ I = b..(b + (cols - 1))
  OBVIOUS
<1>2. b \in Nat /\ (e + 1)*cols = b + cols /\ n \in Nat
  BY <1>1, NextRow
<1>3. (e + 1)*cols - 1 = b + (cols - 1)
  BY <1>2
<1>4. RowItem(e, cols, ns) = [x \in I |-> {<<1, j>> : j \in I} \cup {<<k, x - b>> : k \in ns}]
  BY <1>1, <1>3, Zenon DEF RowItem
<1>5. ASSUME NEW x \in I PROVE x \in 0..(n - 1) /\ RowItem(e, cols, ns)[x] = RowReads(cols, ns, x)
  <2>1. PICK r : r = x - b
    OBVIOUS
  <2>2. r \in 0..(cols - 1) /\ x = b + r
    BY <1>1, <1>2, <2>1
  <2>3. x \div cols = e /\ x % cols = r
    BY <1>1, <2>2, Placed
  <2>4. x \in 0..(n - 1)
    <3>1. e*cols + r \in 0..(rows*cols - 1)
      <4>1. rows \in Nat
        OBVIOUS
      <4> QED BY <2>2, <4>1, InRow
    <3> QED BY <1>1, <2>2, <3>1
  <2>5. RowSources(cols, x) = {<<1, j>> : j \in I}
    BY <1>1, <2>3, Zenon DEF RowSources
  <2>6. WeightSources(ns, cols, x) = {<<k, x - b>> : k \in ns}
    BY <2>1, <2>3, Zenon DEF WeightSources
  <2>7. RowItem(e, cols, ns)[x] = {<<1, j>> : j \in I} \cup {<<k, x - b>> : k \in ns}
    BY <1>4, Zenon
  <2> QED BY <2>4, <2>5, <2>6, <2>7, Zenon DEF RowReads
<1>6. DOMAIN RowItem(e, cols, ns) = I
  BY <1>4, Zenon
<1> QED BY <1>1, <1>5, <1>6, Zenon DEF RowItemReads

LEMMA RowItemFor ==
    ASSUME NEW rows \in Nat \ {0}, NEW cols \in Nat \ {0}, NEW ns, NEW x \in 0..(rows*cols - 1)
    PROVE  \E e \in 0..(rows - 1) : x \in DOMAIN RowItem(e, cols, ns)
<1>1. PICK e, b, r, n : e = x \div cols /\ b = e*cols /\ r = x % cols /\ n = rows*cols
  OBVIOUS
<1>2. n \in Nat /\ rows \in Nat
  BY <1>1
<1>3. x \in Nat
  BY <1>1, <1>2
<1>4. e \in 0..(rows - 1) /\ e \in Nat
  BY <1>1, <1>2, <1>3, RowOf, DivMod
<1>5. x = b + r /\ r \in 0..(cols - 1)
  BY <1>1, <1>3, DivMod
<1>6. b \in Nat /\ (e + 1)*cols = b + cols
  BY <1>1, <1>4, NextRow
<1>7. x \in b..(b + cols - 1)
  BY <1>5, <1>6
<1>8. DOMAIN RowItem(e, cols, ns) = b..(b + cols - 1)
  <2>1. (e + 1)*cols - 1 = b + cols - 1
    BY <1>6
  <2>2. DOMAIN RowItem(e, cols, ns) = (e*cols)..((e + 1)*cols - 1)
    BY Zenon DEF RowItem
  <2> QED BY <1>1, <2>1, <2>2, Zenon
<1> QED BY <1>4, <1>7, <1>8

LEMMA RowSource ==
    ASSUME NEW cols \in Nat \ {0}, NEW ns, NEW x \in Nat, NEW src \in RowReads(cols, ns, x)
    PROVE  src[1] \in {1} \cup ns /\ src[2] \in Int
<1>1. PICK b : b = (x \div cols)*cols
  OBVIOUS
<1>2. b \in Nat /\ x % cols \in Int
  <2>1. x \div cols \in Nat /\ x % cols \in Nat
    BY DivMod
  <2> QED BY <1>1, <2>1, NextRow
<1>3. ASSUME src \in RowSources(cols, x) PROVE src[1] = 1 /\ src[2] \in Int
  <2>1. PICK j \in b..(b + (cols - 1)) : src = <<1, j>>
    BY <1>1, <1>3 DEF RowSources
  <2> QED BY <1>2, <2>1
<1>4. ASSUME src \in WeightSources(ns, cols, x) PROVE src[1] \in ns /\ src[2] \in Int
  <2>1. PICK k \in ns : src = <<k, x % cols>>
    BY <1>4 DEF WeightSources
  <2> QED BY <1>2, <2>1
<1> QED BY <1>3, <1>4 DEF RowReads

LEMMA GpuRows ==
    ASSUME NEW c, NEW l, ToGpu(c, l), l.name \in {"layer_norm", "rms_norm"}
    PROVE  GpuCarry(c, l)
<1>1. PICK R, N, mem, W, ns : /\ R = l.rows /\ N = l.cols /\ mem = Vram(l) /\ W = GpuSources(l)
                              /\ ns = IF l.name = "layer_norm" THEN {3, 4} ELSE {3}
  OBVIOUS
<1>2. /\ R \in Nat \ {0} /\ N \in Nat \ {0} /\ R*N \in Nat /\ l.gs = <<R, 0, 0>> /\ c.name = l.name /\ Carried(c, l)
  <2>1. l.gs = <<R, 0, 0>>
    BY <1>1 DEF ToGpu, GpuForm
  <2>2. c.name = l.name /\ Carried(c, l)
    BY DEF ToGpu, Sent, Carried
  <2> QED BY <1>1, <2>1, <2>2, DescribedSizes DEF ToGpu
<1>3. GpuItems(c) = {Item(c, e, R) : e \in 0..(R - 1)} /\ IsFiniteSet(GpuItems(c))
  BY <1>2, ItemsOf
<1>4. \A k \in ns : k \in {3, 4} /\ OfSize(l, k, N) /\ Apart(l, k)
  BY <1>1, DescribedKernel DEF ToGpu
<1>5. DOMAIN W = 0..(R*N - 1) /\ \A x \in 0..(R*N - 1) : W[x] = RowReads(N, ns, x)
  <2>1. Outputs(l) = 0..(R*N - 1)
    BY <1>1 DEF Outputs
  <2>2. \A x : GpuReads(l, x) = RowReads(N, ns, x)
    BY <1>1 DEF GpuReads, Reads, RowReads
  <2> QED BY <1>1, <2>1, <2>2, Zenon DEF GpuSources
<1>6. ASSUME NEW e \in 0..(R - 1) PROVE Item(c, e, R) = RowItem(e, N, ns)
  <2>1. CASE l.name = "layer_norm"
    <3>1. IntArg(c, 5) = N
      <4>1. MaySay(l, 5, N) /\ Len(c.args) >= 5
        BY <1>1, <1>2, <2>1, DescribedKernel DEF ToGpu, MaySay, Says, Has, Carried
      <4> QED BY <1>2, <4>1, SaidOf
    <3>2. Item(c, e, R) = [x \in (e*N)..((e + 1)*N - 1) |->
              {<<1, j>> : j \in (e*N)..((e + 1)*N - 1)} \cup {<<3, x - e*N>>, <<4, x - e*N>>}]
      BY <1>2, <2>1, <3>1 DEF Item, ItemRow
    <3>3. \A y : {<<k, y>> : k \in ns} = {<<3, y>>, <<4, y>>}
      BY <1>1, <2>1
    <3> QED BY <3>2, <3>3, Zenon DEF RowItem
  <2>2. CASE l.name = "rms_norm"
    <3>1. IntArg(c, 4) = N
      <4>1. MaySay(l, 4, N) /\ Len(c.args) >= 4
        BY <1>1, <1>2, <2>2, DescribedKernel DEF ToGpu, MaySay, Says, Has, Carried
      <4> QED BY <1>2, <4>1, SaidOf
    <3>2. Item(c, e, R) = [x \in (e*N)..((e + 1)*N - 1) |->
              {<<1, j>> : j \in (e*N)..((e + 1)*N - 1)} \cup {<<3, x - e*N>>}]
      BY <1>2, <2>2, <3>1 DEF Item, ItemRow
    <3>3. \A y : {<<k, y>> : k \in ns} = {<<3, y>>}
      BY <1>1, <2>2
    <3> QED BY <3>2, <3>3, Zenon DEF RowItem
  <2> QED BY <2>1, <2>2
<1>7. ASSUME NEW s \in GpuItems(c), NEW x \in DOMAIN s PROVE x \in DOMAIN W /\ s[x] = W[x]
  <2>1. PICK e \in 0..(R - 1) : s = Item(c, e, R)
    BY <1>3
  <2>2. RowItemReads(R, N, ns, e) /\ s = RowItem(e, N, ns)
    BY <1>2, <1>6, <2>1, RowItemIs
  <2>3. x \in 0..(R*N - 1) /\ s[x] = RowReads(N, ns, x)
    BY <2>2, Zenon DEF RowItemReads
  <2> QED BY <1>5, <2>3, Zenon
<1>8. ASSUME NEW x \in DOMAIN W PROVE x \in Int /\ \E s \in GpuItems(c) : x \in DOMAIN s
  <2>1. x \in 0..(R*N - 1)
    BY <1>5
  <2>2. PICK e \in 0..(R - 1) : x \in DOMAIN RowItem(e, N, ns)
    BY <1>2, <2>1, RowItemFor
  <2>3. RowItem(e, N, ns) \in GpuItems(c)
    BY <1>3, <1>6
  <2>4. x \in Int
    BY <1>2, <2>1
  <2> QED BY <2>2, <2>3, <2>4
<1>9. AllFit(GpuItems(c), W)
  BY <1>7, <1>8, Zenon DEF AllFit
<1>10. \A x \in DOMAIN W : \A src \in W[x] : src[2] \in Int /\ Aside(c, mem, src[1])
  <2>1. \A k \in {1} \cup ns : Aside(c, mem, k)
    <3>1. Aside(c, mem, 1)
      BY <1>1, Beside
    <3>2. ASSUME NEW k \in ns PROVE Aside(c, mem, k)
      BY <1>1, <1>4, Beside
    <3> QED BY <3>1, <3>2
  <2>2. ASSUME NEW x \in DOMAIN W, NEW src \in W[x] PROVE src[2] \in Int /\ Aside(c, mem, src[1])
    <3>1. x \in Nat /\ src \in RowReads(N, ns, x)
      BY <1>2, <1>5
    <3>2. src[1] \in {1} \cup ns /\ src[2] \in Int
      BY <1>2, <3>1, RowSource
    <3> QED BY <2>1, <3>2
  <2> QED BY <2>2
<1>11. Carries(c, mem, Loop(SetToSeq(GpuItems(c))), W)
  BY <1>3, <1>9, <1>10, AsideCarry
<1> QED BY <1>1, <1>11 DEF GpuCarry
-----------------------------------------------------------------------------
(* The item of element e turns the pair e belongs to.                      *)
TurnOf(cols, half, e) == (e \div cols)*half + ((e % cols) % half)

LEMMA ModHalf ==
    ASSUME NEW half \in Nat \ {0}, NEW cols, cols = half + half, NEW e \in Nat
    PROVE  e % half = (e % cols) % half /\ (e % cols) % half \in 0..(half - 1)
<1>1. PICK d, f, q, r : d = e \div cols /\ f = e % cols /\ q = f \div half /\ r = f % half
  OBVIOUS
<1>2. d \in Nat /\ f \in Nat /\ e = d*cols + f
  <2>1. cols \in Nat \ {0}
    OBVIOUS
  <2> QED BY <1>1, <2>1, DivMod
<1>3. q \in Nat /\ r \in 0..(half - 1) /\ f = q*half + r
  BY <1>1, <1>2, DivMod
<1>4. d*cols = d*half + d*half
  BY <1>2
<1>5. PICK m : m = d + d + q
  OBVIOUS
<1>6. m*half = d*half + d*half + q*half /\ m \in Nat
  BY <1>2, <1>3, <1>5
<1>7. e = m*half + r
  <2>1. d*half \in Nat /\ q*half \in Nat /\ m*half \in Nat /\ r \in Nat
    BY <1>2, <1>3, <1>6
  <2> QED BY <1>2, <1>3, <1>4, <1>6, <2>1
<1>8. (m*half + r) % half = r
  BY <1>3, <1>6, Placed
<1> QED BY <1>1, <1>3, <1>7, <1>8

LEMMA TurnIs ==
    ASSUME NEW half \in Nat \ {0}, NEW cols, cols = half + half, NEW e \in Nat
    PROVE  /\ TurnOf(cols, half, e) \in Nat
           /\ Pair((e \div cols)*cols, e % half, half, {<<3, 0>>}) = PairOf(cols, half, TurnOf(cols, half, e))
           /\ FirstOf(cols, half, TurnOf(cols, half, e)) = (e \div cols)*cols + ((e % cols) % half)
<1>1. PICK d, r, p : d = e \div cols /\ r = (e % cols) % half /\ p = TurnOf(cols, half, e)
  OBVIOUS
<1>2. d \in Nat
  <2>1. cols \in Nat \ {0}
    OBVIOUS
  <2> QED BY <1>1, <2>1, DivMod
<1>3. e % half = r /\ r \in 0..(half - 1)
  BY <1>1, ModHalf
<1>4. p = d*half + r
  BY <1>1, Zenon DEF TurnOf
<1>5. p \div half = d /\ p % half = r /\ p \in Nat
  BY <1>2, <1>3, <1>4, Placed
<1>6. PairOf(cols, half, p) = Pair(d*cols, r, half, {<<3, 0>>})
  BY <1>5, Zenon DEF PairOf
<1>7. FirstOf(cols, half, p) = d*cols + r
  BY <1>5, Zenon DEF FirstOf
<1> QED BY <1>1, <1>3, <1>5, <1>6, <1>7, Zenon

(* It writes two elements of the row of e, and each of them as the kernel  *)
(* should.                                                                 *)
TurnReads(rows, cols, half, e) ==
    \A x \in DOMAIN PairOf(cols, half, TurnOf(cols, half, e)) :
        /\ x \in 0..(rows*cols - 1)
        /\ PairOf(cols, half, TurnOf(cols, half, e))[x] = RotateSources(cols, half, x)

LEMMA TurnWrites ==
    ASSUME NEW half \in Nat \ {0}, NEW cols, cols = half + half, NEW rows \in Nat \ {0}, NEW e \in 0..(rows*cols - 1)
    PROVE  TurnReads(rows, cols, half, e)
<1>1. PICK d, r, p, a, b : /\ d = e \div cols /\ r = (e % cols) % half /\ p = TurnOf(cols, half, e)
                           /\ a = FirstOf(cols, half, p) /\ b = d*cols
  OBVIOUS
<1>2. cols \in Nat \ {0} /\ rows*cols \in Nat /\ rows \in Nat
  OBVIOUS
<1>3. e \in Nat
  BY <1>2
<1>4. d \in 0..(rows - 1) /\ d \in Nat
  BY <1>1, <1>2, <1>3, RowOf, DivMod
<1>5. r \in 0..(half - 1)
  BY <1>1, <1>3, ModHalf
<1>6. p \in Nat /\ a = b + r
  BY <1>1, <1>3, TurnIs
<1>7. PairAt(cols, half, p, a)
  BY <1>1, <1>6, PairIs
<1>8. r \in 0..(cols - 1) /\ r + half \in 0..(cols - 1)
  BY <1>5
<1>9. b + r \in 0..(rows*cols - 1) /\ b + (r + half) \in 0..(rows*cols - 1)
  BY <1>1, <1>2, <1>4, <1>8, InRow
<1>10. b \in Nat
  BY <1>1, <1>2, <1>4, NextRow
<1>11. a \in 0..(rows*cols - 1) /\ a + half \in 0..(rows*cols - 1)
  <2>1. b + (r + half) = a + half
    BY <1>5, <1>6, <1>10
  <2> QED BY <1>6, <1>9, <2>1
<1>12. ASSUME NEW x \in DOMAIN PairOf(cols, half, p)
       PROVE  x \in 0..(rows*cols - 1) /\ PairOf(cols, half, p)[x] = RotateSources(cols, half, x)
  <2>1. DOMAIN PairOf(cols, half, p) = {a, a + half}
    BY <1>7, Zenon DEF PairAt
  <2>2. x \in {a, a + half}
    BY <2>1, Zenon
  <2>3. PairOf(cols, half, p)[x] = RotateSources(cols, half, x)
    BY <1>7, <2>2, Zenon DEF PairAt
  <2>4. x \in 0..(rows*cols - 1)
    BY <1>11, <2>2
  <2> QED BY <2>3, <2>4
<1> QED BY <1>1, <1>12, Zenon DEF TurnReads

LEMMA TurnFor ==
    ASSUME NEW half \in Nat \ {0}, NEW cols, cols = half + half, NEW rows \in Nat \ {0}, NEW x \in 0..(rows*cols - 1)
    PROVE  \E e \in 0..(rows*cols - 1) : x \in DOMAIN PairOf(cols, half, TurnOf(cols, half, e))
<1>1. PICK n, t : n = rows*cols /\ t = rows*half
  OBVIOUS
<1>2. n \in Nat /\ t \in Nat /\ rows \in Nat
  BY <1>1
<1>3. PICK p \in 0..(t - 1) : x \in DOMAIN PairOf(cols, half, p) /\ FirstOf(cols, half, p) + half \in 0..(n - 1)
  BY <1>1, <1>2, PairFor
<1>4. PICK a : a = FirstOf(cols, half, p)
  OBVIOUS
<1>5. p \in Nat
  BY <1>2
<1>6. PairAt(cols, half, p, a)
  BY <1>4, <1>5, PairIs
<1>7. a \in Nat /\ a \div cols = p \div half /\ (a % cols) % half = p % half
  BY <1>6 DEF PairAt
<1>8. a \in 0..(n - 1)
  BY <1>2, <1>3, <1>4, <1>7
<1>9. (p \div half)*half + (p % half) = p
  BY <1>5, DivMod
<1>10. TurnOf(cols, half, a) = p
  BY <1>7, <1>9, Zenon DEF TurnOf
<1> QED BY <1>1, <1>3, <1>8, <1>10

LEMMA GpuRope ==
    ASSUME NEW c, NEW l, ToGpu(c, l), l.name = "rope"
    PROVE  GpuCarry(c, l)
<1>1. PICK R, N, n, half, mem, W : /\ R = l.rows /\ N = l.cols /\ n = l.rows*l.cols /\ half = l.cols \div 2
                                   /\ mem = Vram(l) /\ W = GpuSources(l)
  OBVIOUS
<1>2. /\ R \in Nat \ {0} /\ N \in Nat \ {0} /\ n \in Nat /\ n = R*N /\ l.gs = <<n, 0, 0>>
      /\ c.name = l.name /\ Carried(c, l) /\ N % 2 = 0
  <2>1. l.gs = <<n, 0, 0>>
    BY <1>1 DEF ToGpu, GpuForm
  <2>2. c.name = l.name /\ Carried(c, l)
    BY DEF ToGpu, Sent, Carried
  <2>3. l.cols % 2 = 0
    BY DescribedKernel DEF ToGpu
  <2> QED BY <1>1, <2>1, <2>2, <2>3, DescribedSizes DEF ToGpu
<1>3. half \in Nat \ {0} /\ N = half + half
  BY <1>1, <1>2
<1>4. GpuItems(c) = {Item(c, e, n) : e \in 0..(n - 1)} /\ IsFiniteSet(GpuItems(c))
  BY <1>2, ItemsOf
<1>5. IntArg(c, 4) = N
  <2>1. MaySay(l, 4, N) /\ Len(c.args) >= 4
    BY <1>1, <1>2, DescribedKernel DEF ToGpu, MaySay, Says, Has, Carried
  <2> QED BY <1>2, <2>1, SaidOf
<1>6. DOMAIN W = 0..(n - 1) /\ \A x \in 0..(n - 1) : W[x] = RotateSources(N, half, x)
  BY <1>1 DEF GpuSources, GpuReads, Reads, Outputs
<1>7. ASSUME NEW e \in 0..(n - 1) PROVE Item(c, e, n) = PairOf(N, half, TurnOf(N, half, e))
  <2>1. e \in Nat
    BY <1>2
  <2>2. Item(c, e, n) = Pair((e \div N)*N, e % (N \div 2), N \div 2, {<<3, 0>>})
    BY <1>2, <1>5 DEF Item
  <2>3. Item(c, e, n) = Pair((e \div N)*N, e % half, half, {<<3, 0>>})
    BY <1>1, <2>2, Zenon
  <2>4. Pair((e \div N)*N, e % half, half, {<<3, 0>>}) = PairOf(N, half, TurnOf(N, half, e))
    BY <1>3, <2>1, TurnIs
  <2> QED BY <2>3, <2>4, Zenon
<1>8. ASSUME NEW s \in GpuItems(c), NEW x \in DOMAIN s PROVE x \in DOMAIN W /\ s[x] = W[x]
  <2>1. PICK e \in 0..(n - 1) : s = Item(c, e, n)
    BY <1>4
  <2>2. s = PairOf(N, half, TurnOf(N, half, e))
    BY <1>7, <2>1
  <2>3. TurnReads(R, N, half, e)
    BY <1>2, <1>3, TurnWrites
  <2>4. x \in 0..(R*N - 1) /\ s[x] = RotateSources(N, half, x)
    BY <2>2, <2>3, Zenon DEF TurnReads
  <2> QED BY <1>2, <1>6, <2>4, Zenon
<1>9. ASSUME NEW x \in DOMAIN W PROVE x \in Int /\ \E s \in GpuItems(c) : x \in DOMAIN s
  <2>1. x \in 0..(n - 1)
    BY <1>6
  <2>2. PICK e \in 0..(n - 1) : x \in DOMAIN PairOf(N, half, TurnOf(N, half, e))
    BY <1>2, <1>3, <2>1, TurnFor
  <2>3. PairOf(N, half, TurnOf(N, half, e)) \in GpuItems(c)
    BY <1>4, <1>7
  <2>4. x \in Int
    BY <1>2, <2>1
  <2> QED BY <2>2, <2>3, <2>4
<1>10. AllFit(GpuItems(c), W)
  BY <1>8, <1>9, Zenon DEF AllFit
<1>11. ASSUME NEW x \in DOMAIN W, NEW src \in W[x] PROVE src[2] \in Int /\ Aside(c, mem, src[1])
  <2>1. Aside(c, mem, 1) /\ Aside(c, mem, 3)
    <3>1. Has(l, 3, {"int", "float"})
      BY DescribedKernel DEF ToGpu, Has
    <3> QED BY <1>1, <3>1, Beside
  <2>2. x \in 0..(n - 1)
    BY <1>6
  <2>3. x \in Nat
    BY <1>2, <2>2
  <2>4. PICK i, j : i = (x \div N)*N + ((x % N) % half) /\ j = (x \div N)*N + ((x % N) % half) + half
    OBVIOUS
  <2>5. RotateSources(N, half, x) = {<<1, i>>, <<1, j>>, <<3, 0>>}
    BY <2>4, Zenon DEF RotateSources
  <2>6. W[x] = {<<1, i>>, <<1, j>>, <<3, 0>>}
    BY <1>6, <2>2, <2>5
  <2>7. i \in Int /\ j \in Int
    <3>1. PICK b : b = (x \div N)*N
      OBVIOUS
    <3>2. b \in Nat /\ (x % N) % half \in Int
      <4>1. x \div N \in Nat
        BY <1>2, <2>3, DivMod
      <4>2. (x % N) % half \in 0..(half - 1)
        BY <1>3, <2>3, ModHalf
      <4> QED BY <1>2, <3>1, <4>1, <4>2, NextRow
    <3> QED BY <1>3, <2>4, <3>1, <3>2
  <2> QED BY <2>1, <2>6, <2>7
<1>12. Carries(c, mem, Loop(SetToSeq(GpuItems(c))), W)
  BY <1>4, <1>10, <1>11, AsideCarry
<1> QED BY <1>1, <1>12 DEF GpuCarry
-----------------------------------------------------------------------------
LEMMA GpuRuns ==
    ASSUME NEW c, NEW mem, executeOnGPU(c, mem).end = "done"
    PROVE  /\ c.name # "matmul" /\ executeOnGPU(c, mem).mem = Reduced(c, mem, SetToSeq(GpuItems(c)))
           /\ c.name = "add_bias" => ~(Len(c.args) < 4)
           /\ c.name = "reduce_sum" => ~(Len(c.args) < 3)
<1>1. /\ c.name # "matmul" /\ ~(Len(c.args) < Params[c.name])
      /\ executeOnGPU(c, mem).mem = FoldLeft(LAMBDA m, s : StepOf(c, m, s), mem, SetToSeq(GpuItems(c)))
  BY DEF executeOnGPU
<1>2. Params["add_bias"] = 4 /\ Params["reduce_sum"] = 3
  BY DEF Params
<1> QED BY <1>1, <1>2 DEF Reduced

LEMMA GpuCarries ==
    ASSUME NEW c, NEW l, ToGpu(c, l), l.name \notin {"softmax", "transpose"},
           l.name = "add_bias" => Len(c.args) >= 4, l.name = "reduce_sum" => Len(c.args) >= 3
    PROVE  GpuCarry(c, l)
<1>1. l.name \in {"relu", "sigmoid", "gelu", "vector_add", "element_wise_mul", "scalar_mul", "add_bias",
                  "reduce_sum", "layer_norm", "rms_norm", "rope"}
  BY DescribedKernel DEF ToGpu
<1>2. CASE l.name \in {"relu", "sigmoid", "gelu", "vector_add", "element_wise_mul", "scalar_mul", "add_bias"}
  BY <1>2, GpuCells
<1>3. CASE l.name = "reduce_sum"
  BY <1>3, GpuSum
<1>4. CASE l.name \in {"layer_norm", "rms_norm"}
  BY <1>4, GpuRows
<1>5. CASE l.name = "rope"
  BY <1>5, GpuRope
<1> QED BY <1>1, <1>2, <1>3, <1>4, <1>5

(* A scalar is the same for every element.                                 *)
LEMMA SameReads ==
    ASSUME NEW c, NEW l, ToGpu(c, l), NEW n PROVE Output(c, l, SourcesOf(l), n) = Output(c, l, GpuSources(l), n)
<1>1. PICK V, W, mem : V = SourcesOf(l) /\ W = GpuSources(l) /\ mem = Vram(l)
  OBVIOUS
<1>2. DOMAIN V = Outputs(l) /\ DOMAIN W = Outputs(l)
  BY <1>1 DEF SourcesOf, GpuSources
<1>3. ASSUME NEW x \in Outputs(l) PROVE Now(c, mem, V, x) = Now(c, mem, W, x)
  <2>1. V[x] = Reads(l, x) /\ W[x] = GpuReads(l, x)
    BY <1>1 DEF SourcesOf, GpuSources
  <2>2. CASE l.name # "scalar_mul"
    <3>1. V[x] = W[x]
      BY <2>1, <2>2 DEF GpuReads
    <3> QED BY <3>1, NowGathered, Zenon
  <2>3. CASE l.name = "scalar_mul"
    <3>1. V[x] = {<<1, x>>, <<3, x>>} /\ W[x] = {<<1, x>>, <<3, 0>>}
      BY <2>1, <2>3 DEF Reads, GpuReads
    <3>2. Carried(c, l) /\ Has(l, 3, {"int", "float"})
      BY <2>3, DescribedKernel DEF ToGpu, Sent, Has
    <3>3. Value(c, mem, <<3, x>>) = Value(c, mem, <<3, 0>>)
      <4>1. \A i : Value(c, mem, <<3, i>>) = {<<c.args[3].is, 3>>}
        BY <1>1, <3>2, NumberOf
      <4> QED BY <4>1
    <3>4. Now(c, mem, V, x) = Value(c, mem, <<1, x>>) \cup Value(c, mem, <<3, x>>)
      BY <3>1, NowGathered, TwoSources, Zenon
    <3>5. Now(c, mem, W, x) = Value(c, mem, <<1, x>>) \cup Value(c, mem, <<3, 0>>)
      BY <3>1, NowGathered, TwoSources, Zenon
    <3> QED BY <3>3, <3>4, <3>5, Zenon
  <2> QED BY <2>2, <2>3
<1>4. ASSUME NEW y \in 1..n
      PROVE  (IF y - 1 \in DOMAIN V THEN Now(c, mem, V, y - 1) ELSE {<<l.args[OutArg(l)].id, y - 1>>})
             = (IF y - 1 \in DOMAIN W THEN Now(c, mem, W, y - 1) ELSE {<<l.args[OutArg(l)].id, y - 1>>})
  <2>1. CASE y - 1 \in Outputs(l)
    <3>1. Now(c, mem, V, y - 1) = Now(c, mem, W, y - 1)
      BY <1>3, <2>1
    <3> QED BY <1>2, <3>1, Zenon
  <2>2. CASE ~(y - 1 \in Outputs(l))
    BY <1>2, <2>2, Zenon
  <2> QED BY <2>1, <2>2
<1>5. Output(c, l, V, n) = Output(c, l, W, n)
  BY <1>1, <1>4, Zenon DEF Output
<1> QED BY <1>1, <1>5

LEMMA GpuAsWhole ==
    ASSUME LaunchesAssumption, KInv, Ran("gpu"), Ran("whole"), Described(launch), GpuForm(launch), ~InPlace(launch),
           launch.name \notin {"softmax", "transpose"}, ran["gpu"].end = "done"
    PROVE  ran["whole"].end = "done" /\ ran["whole"].out = ran["gpu"].out
<1>1. PICK c, mem, o : c = OnWorker /\ mem = Vram(launch) /\ o = launch.args[OutArg(launch)].id
  OBVIOUS
<1>2. /\ launch \in Launches /\ {"name", "args", "gs", "go"} \subseteq DOMAIN launch
      /\ launch.args \in Seq(Arguments) /\ launch.go \in Seq(Nat)
      /\ \A b \in DOMAIN launch.sizes : launch.sizes[b] \in Nat
  BY DEF KInv, KernelsTypeOK, LaunchesAssumption
<1>3. c.args = RemoteArgs(launch.args) /\ c.name = launch.name /\ c.gs = launch.gs /\ c.go = launch.go
  BY <1>1, <1>2 DEF OnWorker
<1>4. Carried(c, launch)
  <2>1. \A k \in DOMAIN launch.args : launch.args[k].is \in {"buffer", "int", "float"}
    BY DescribedSizes
  <2>2. /\ Len(c.args) = Len(launch.args) /\ DOMAIN launch.args = 1..Len(launch.args) /\ Len(launch.args) \in Nat
        /\ \A k \in 1..Len(launch.args) :
              \/ launch.args[k].is \in {"buffer", "int"} /\ c.args[k] = launch.args[k]
              \/ launch.args[k].is = "float" /\ c.args[k].is = "int"
    BY <1>2, <1>3, <2>1, CarriedArgs
  <2> QED BY <1>2, <1>3, <2>2 DEF Carried
<1>5. /\ ran["gpu"].end = executeOnGPU(c, mem).end /\ ran["gpu"].out = executeOnGPU(c, mem).mem[o]
      /\ ran["whole"].end = ExecuteNDRange(c, mem).end /\ ran["whole"].out = ExecuteNDRange(c, mem).mem[o]
  BY <1>1 DEF KInv, OnGpu, OnOneWorker, Answered
<1>6. /\ c.name # "matmul" /\ executeOnGPU(c, mem).mem = Reduced(c, mem, SetToSeq(GpuItems(c)))
      /\ c.name = "add_bias" => ~(Len(c.args) < 4)
      /\ c.name = "reduce_sum" => ~(Len(c.args) < 3)
  BY <1>5, GpuRuns
<1>7. ToGpu(c, launch)
  <2>1. Sent(c, launch)
    BY <1>3, <1>4 DEF Sent
  <2>2. Apart(launch, 1)
    BY DEF Apart, InPlace, Input
  <2> QED BY <1>2, <1>3, <1>6, <2>1, <2>2 DEF ToGpu
<1>8. PICK n : OfSize(launch, OutArg(launch), n)
  BY <1>2, OutputRoom
<1>9. Carries(c, mem, Kernel(c, mem), SourcesOf(launch))
  <2>1. Sent(c, launch) /\ Allowed(launch)
    BY <1>3, <1>6, <1>7 DEF ToGpu, Allowed
  <2> QED BY <1>1, <1>2, <2>1, GoCarries DEF Carry
<1>10. ran["whole"].end = "done" /\ ran["whole"].out = Output(c, launch, SourcesOf(launch), n)
  BY <1>1, <1>4, <1>5, <1>8, <1>9, RunOf
<1>11. GpuCarry(c, launch)
  <2>1. Len(c.args) \in Nat
    BY <1>4 DEF Carried
  <2>2. /\ launch.name = "add_bias" => Len(c.args) >= 4
        /\ launch.name = "reduce_sum" => Len(c.args) >= 3
    BY <1>3, <1>6, <2>1
  <2> QED BY <1>7, <2>2, GpuCarries
<1>12. ran["gpu"].out = Output(c, launch, GpuSources(launch), n)
  <2>1. PICK k : k = Loop(SetToSeq(GpuItems(c)))
    OBVIOUS
  <2>2. k.steps = SetToSeq(GpuItems(c))
    BY <2>1 DEF Loop
  <2>3. Carries(c, mem, k, GpuSources(launch))
    BY <1>1, <1>11, <2>1 DEF GpuCarry
  <2>4. Reduced(c, mem, k.steps)[o] = Output(c, launch, GpuSources(launch), n)
    BY <1>1, <1>4, <1>8, <2>3, OutputIs
  <2> QED BY <1>5, <1>6, <2>2, <2>4, Zenon
<1> QED BY <1>7, <1>10, <1>12, SameReads

(* Whatever the sizes, when the OpenCL source of a kernel runs over the    *)
(* items its launch has, what the GPU leaves in the output is what the Go  *)
(* kernel of a worker without one computes (execute.go, opencl_engine.go).    *)
THEOREM GpuAsGo == KernelsSpec => []GpuAgrees
<1>1. KInv => GpuAgrees
  BY LaunchesAssumption, GpuAsWhole DEF GpuAgrees
<1> QED BY <1>1, LaunchesAssumption, InitKernels, NextKernels, PTL DEF KernelsSpec
=============================================================================
