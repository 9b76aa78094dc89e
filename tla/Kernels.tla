------------------------------ MODULE Kernels ------------------------------
(***************************************************************************)
(* The compute kernels a launch ends in, run three ways:                   *)
(*   on the core     executeLocally, vgpu/server/ipc_server.go             *)
(*   on a worker     GoEngine, cmd/worker/engine/fallback.go               *)
(*   on a GPU worker the OpenCL sources of cmd/worker/agent/execute.go     *)
(*                                                                         *)
(* The numbers are left out.  An element is the set of elements it was     *)
(* computed from: <<b, i>> is what buffer b held at index i before the     *)
(* launch, and scalar argument n is the element <<"int" or "float", n>>.   *)
(* Indices start at 0, as in the code; arguments and dimensions at 1.      *)
(*                                                                         *)
(* A kernel is its loops: a sequence of steps, each the elements of the    *)
(* output written from values all read before, in the code's order.        *)
(***************************************************************************)
EXTENDS Integers, Sequences, SequencesExt, FiniteSetsExt

CONSTANT Launches   (* messages of clients: [name, args, gs, go, sizes, and rows, cols, inner, cut] *)

(* An argument is a buffer's name, a number, or nothing; sizes are not     *)
(* negative.  Any buffer, dimension or scalar may be missing.              *)
Arguments == [is : {"buffer"}, id : STRING] \cup [is : {"int", "uint", "float"}, val : Int]
             \cup [is : {"none", "empty"}]
ASSUME LaunchesAssumption ==
    \A l \in Launches :
        /\ {"name", "args", "gs", "go", "sizes", "rows", "cols", "inner", "cut"} \subseteq DOMAIN l
        /\ l.args \in Seq(Arguments) /\ l.gs \in Seq(Nat) /\ l.go \in Seq(Nat)
        /\ l.cut \in Nat /\ \A b \in DOMAIN l.sizes : l.sizes[b] \in Nat

VARIABLES
    launch,   (* the launch being run                                      *)
    ran       (* ran[r]: what route r made of it, <<>> before it ran       *)

kernelsVars == <<launch, ran>>
----------------------------------------------------------------------------
(* Arguments.  A buffer is [is |-> "buffer", id], a scalar [is |-> "int"   *)
(* or "float", val], a gap left by SetKernelArg [is |-> "empty"].          *)
Has(c, n, kinds) == Len(c.args) >= n /\ c.args[n].is \in kinds
Buffer(c, mem, n) == IF Has(c, n, {"buffer"}) /\ c.args[n].id \in DOMAIN mem
                     THEN mem[c.args[n].id] ELSE <<>>
Found(c, mem, n) == Has(c, n, {"buffer"}) /\ c.args[n].id \in DOMAIN mem
Size(c, mem, n) == Len(Buffer(c, mem, n))
IntArg(c, n) == IF Has(c, n, {"int"}) THEN c.args[n].val ELSE 0

(* The four bytes of an int are not those of the float of that value.      *)
Value(c, mem, src) ==
    IF Found(c, mem, src[1]) THEN Buffer(c, mem, src[1])[src[2] + 1]
    ELSE {<<c.args[src[1]].is, src[1]>>}

WriteCell(x, sources) == [y \in {x} |-> sources]   (* a step of one element *)
Error == [end |-> "error", steps |-> <<>>]
Panic == [end |-> "panic", steps |-> <<>>]    (* index out of range: the process ends *)
Loop(steps) == [end |-> "done", steps |-> steps]

(* The checks a kernel starts with: enough arguments, buffers that exist,  *)
(* and globalSize[0] .. globalSize[dims-1] read without a check.           *)
Checked(c, mem, count, bufs, dims, loop) ==
    IF Len(c.args) < count \/ \E n \in bufs : ~Found(c, mem, n) THEN Error
    ELSE IF Len(c.gs) < dims THEN Panic ELSE loop

Dim(c, d) == IF Len(c.gs) >= d THEN c.gs[d] ELSE 0
Offset(c, d) == IF Len(c.go) >= d THEN c.go[d] ELSE 0
Or(n, m) == IF n = 0 THEN m ELSE n
Elements(c, mem) == Or(Dim(c, 1), Size(c, mem, 1))
----------------------------------------------------------------------------
(* Element by element: output[i] from index i of the arguments in reads.   *)
Each(c, mem, bufs, reads) ==
    LET count == Min({Elements(c, mem)} \cup {Size(c, mem, n) : n \in bufs})
    IN  Loop(<<[e \in 0..count-1 |-> {<<n, e>> : n \in reads}]>>)

ReLU(c, mem) == Checked(c, mem, 2, {1, 2}, 1, Each(c, mem, {1, 2}, {1}))
Sigmoid(c, mem) == Checked(c, mem, 2, {1, 2}, 1, Each(c, mem, {1, 2}, {1}))
GELU(c, mem) == Checked(c, mem, 2, {1, 2}, 1, Each(c, mem, {1, 2}, {1}))
ElementWiseMul(c, mem) ==
    Checked(c, mem, 3, {1, 2, 3}, 1, Each(c, mem, {1, 2, 3}, {1, 2}))
ScalarMul(c, mem) ==   (* a scalar that is not there is 1.0                *)
    Checked(c, mem, 3, {1, 2}, 1, Each(c, mem, {1, 2},
            {1} \cup {n \in {3} : Has(c, n, {"int", "float"})}))

(* The only element-wise kernel that starts at the offset.  Its bound does *)
(* not know of the offset; arg 4, when there is one, replaces the size.    *)
SlipAddFromZero(c, mem) ==
    LET len   == Min({Size(c, mem, n) : n \in 1..3})
        count == Min({len, IF Len(c.args) >= 4 /\ ~Has(c, 4, {"buffer"})
                           THEN IntArg(c, 4) ELSE Dim(c, 1)})
    IN  IF Len(c.args) < 3 THEN Error
        ELSE Loop(<<[e \in 0..count-1 |-> {<<1, e>>, <<2, e>>}]>>)
VectorAdd(c, mem) ==
    LET len   == Min({Size(c, mem, n) : n \in 1..3})
        count == Min({len, IF Len(c.args) >= 4 /\ ~Has(c, 4, {"buffer"})
                           THEN IntArg(c, 4) ELSE Dim(c, 1)})
        o     == Offset(c, 1)
    IN  IF Len(c.args) < 3 THEN Error
        ELSE IF c.gs = <<>> THEN Panic
        ELSE IF \E n \in 1..3 : ~Found(c, mem, n) THEN Error
        ELSE IF count > 0 /\ o + count > len THEN Panic
        ELSE Loop(<<[e \in o..o+count-1 |-> {<<1, e>>, <<2, e>>}]>>)

(* One vector, whatever its rows.                                          *)
Softmax(c, mem) ==
    LET n == Elements(c, mem)
    IN  Checked(c, mem, 2, {1, 2}, 1,
            IF Size(c, mem, 1) < n \/ Size(c, mem, 2) < n THEN Error
            ELSE Loop(<<[e \in 0..n-1 |-> {<<1, j>> : j \in 0..n-1}]>>))

ReduceSum(c, mem) ==
    LET n == Min({Elements(c, mem), Size(c, mem, 1)})
    IN  Checked(c, mem, 2, {1, 2}, 1,
            Loop(<<[e \in {0} \cap 0..Size(c, mem, 2)-1 |-> {<<1, j>> : j \in 0..n-1}]>>))
----------------------------------------------------------------------------
(* Matrices.  Row p \div cols, column p % cols, one step each.             *)
Inner(c, mem, M, N) ==   (* K: arg 4, or from A's size, or from B's        *)
    LET fromA == IF M > 0 THEN Size(c, mem, 1) \div M ELSE 0
        fromB == IF N > 0 THEN Size(c, mem, 2) \div N ELSE 0
    IN  Or(IntArg(c, 4), Or(fromA, fromB))

MatMul(c, mem) ==
    LET M  == Dim(c, 1)
        N  == Or(Dim(c, 2), 1)
        K  == Inner(c, mem, M, N)
        r0 == Offset(c, 1)
        c0 == Offset(c, 2)
        Cell(p) == LET row == r0 + (p \div N)
                       col == c0 + (p % N)
                   IN  WriteCell(row*N + col, UNION {{<<1, row*K + k>>, <<2, k*N + col>>} : k \in 0..K-1})
        beyond == \/ (r0 + M)*K > Size(c, mem, 1)
                  \/ K*N + c0 > Size(c, mem, 2)
                  \/ (r0 + M)*N + c0 > Size(c, mem, 3)
    IN  Checked(c, mem, 3, {1, 2, 3}, 2,
            IF K = 0 \/ Size(c, mem, 3) < M*N \/ Size(c, mem, 1) < M*K \/ Size(c, mem, 2) < K*N
            THEN Error
            ELSE IF M > 0 /\ beyond THEN Panic
            ELSE Loop([q \in 1..M*N |-> Cell(q - 1)]))

Transpose(c, mem) ==
    LET given == Or(Dim(c, 2), IntArg(c, 3))
        flat  == given = 0 \/ Dim(c, 1) = 0
        rows  == IF flat THEN Size(c, mem, 1) ELSE Dim(c, 1)
        cols  == IF flat THEN 1 ELSE given
        Dst(p) == ((p % cols)*rows) + (p \div cols)
        within(p) == p < Size(c, mem, 1) /\ Dst(p) < Size(c, mem, 2)
    IN  Checked(c, mem, 2, {1, 2}, 2,
            Loop([q \in 1..rows*cols |-> IF within(q - 1) THEN WriteCell(Dst(q - 1), {<<1, q - 1>>}) ELSE <<>>]))

(* Rows of dim elements: how many of each, from the size, a scalar, the    *)
(* input.  Each row is one step.                                           *)
Shape(c, mem, dim) ==
    IF Dim(c, 1) # 0 THEN [rows |-> Dim(c, 1), dim |-> dim]
    ELSE IF dim > 0 THEN [rows |-> Size(c, mem, 1) \div dim, dim |-> dim]
    ELSE [rows |-> Size(c, mem, 1), dim |-> 1]

Rows(c, mem, sh, Reads(_, _)) ==
    LET len == Min({Size(c, mem, 1), Size(c, mem, 2)})
        Row(q) == [e \in ((q - 1)*sh.dim)..(Min({q*sh.dim, len}) - 1) |->
                     Reads(e, (q - 1)*sh.dim)]
    IN  Loop([q \in 1..sh.rows |-> Row(q)])

(* What a row's mean or root mean square is made of, and the weights that  *)
(* are there: arguments of ns whose buffer is found and long enough.       *)
OfRow(c, mem, base, dim) == {<<1, j>> : j \in base..(Min({base + dim, Size(c, mem, 1)}) - 1)}
Weights(c, mem, ns, j) == {<<n, j>> : n \in {m \in ns : j < Size(c, mem, m)}}

LayerNorm(c, mem) ==
    LET sh == Shape(c, mem, Or(Dim(c, 2), IntArg(c, 5)))
        Reads(e, base) == OfRow(c, mem, base, sh.dim) \cup Weights(c, mem, {3, 4}, e - base)
    IN  Checked(c, mem, 2, {1, 2}, 2, Rows(c, mem, sh, Reads))

SlipNormInput(c, mem) ==   (* the statistics of the whole input            *)
    LET sh == Shape(c, mem, Or(Dim(c, 2), IntArg(c, 4)))
        Reads(e, base) == OfRow(c, mem, 0, Size(c, mem, 1)) \cup Weights(c, mem, {3}, e - base)
    IN  Checked(c, mem, 2, {1, 2}, 2, Rows(c, mem, sh, Reads))
RMSNorm(c, mem) ==
    LET sh == Shape(c, mem, Or(Dim(c, 2), IntArg(c, 4)))
        Reads(e, base) == OfRow(c, mem, base, sh.dim) \cup Weights(c, mem, {3}, e - base)
    IN  Checked(c, mem, 2, {1, 2}, 2, Rows(c, mem, sh, Reads))

AddBias(c, mem) ==
    LET sh == Shape(c, mem, Size(c, mem, 3))
        Reads(e, base) == {<<1, e>>, <<3, e - base>>}
    IN  IF Len(c.args) >= 3 /\ Size(c, mem, 3) = 0 THEN Error
        ELSE Checked(c, mem, 3, {1, 2}, 1, Rows(c, mem, sh, Reads))

(* Pairs (i, i + half) of a row; the output is not checked.                *)
Pair(base, e, half, more) ==
    [x \in {base + e, base + e + half} |-> {<<1, base + e>>, <<1, base + e + half>>} \cup more]
SlipRotateInTwo(c, mem) ==   (* the second of a pair from what the first wrote *)
    LET head == Or(Or(Dim(c, 2), IntArg(c, 4)), Size(c, mem, 1))
        half == head \div 2
        rows == Or(Dim(c, 1), Size(c, mem, 1) \div head)
        Base(p) == ((p \div 2) \div half)*head
        At(p) == Base(p) + ((p \div 2) % half) + half*(p % 2)
        Half(p) == WriteCell(At(p), Pair(Base(p), (p \div 2) % half, half, {})[At(p)])
    IN  Checked(c, mem, 2, {1, 2}, 2, Loop([q \in 1..2*rows*half |->
            IF At(q - 1) + half*(q % 2) < Size(c, mem, 1) THEN Half(q - 1) ELSE <<>>]))
RoPE(c, mem) ==
    LET head == Or(Or(Dim(c, 2), IntArg(c, 4)), Size(c, mem, 1))
        half == head \div 2
        rows == Or(Dim(c, 1), IF head > 0 THEN Size(c, mem, 1) \div head ELSE 0)
        Base(p) == (p \div half)*head
        Second(p) == Base(p) + (p % half) + half
        more == {<<n, 0>> : n \in {m \in {3} : Has(c, m, {"int"})}}
        beyond == \E q \in 1..rows*half : Second(q - 1) \in Size(c, mem, 2)..(Size(c, mem, 1) - 1)
    IN  Checked(c, mem, 2, {1, 2}, 2,
            IF (head = 0 /\ Dim(c, 1) = 0) \/ beyond THEN Panic
            ELSE Loop([q \in 1..rows*half |->
                         IF Second(q - 1) < Size(c, mem, 1)
                         THEN Pair(Base(q - 1), (q - 1) % half, half, more) ELSE <<>>]))
----------------------------------------------------------------------------
(* ExecuteNDRange: the kernel is known by its name.                        *)
Kernel(c, mem) ==
    CASE c.name = "vector_add" -> VectorAdd(c, mem)
      [] c.name \in {"matmul", "matrix_mul", "gemm"} -> MatMul(c, mem)
      [] c.name = "softmax" -> Softmax(c, mem)
      [] c.name = "relu" -> ReLU(c, mem)
      [] c.name = "gelu" -> GELU(c, mem)
      [] c.name \in {"scalar_mul", "scalar_multiply"} -> ScalarMul(c, mem)
      [] c.name \in {"element_wise_mul", "hadamard"} -> ElementWiseMul(c, mem)
      [] c.name = "transpose" -> Transpose(c, mem)
      [] c.name = "reduce_sum" -> ReduceSum(c, mem)
      [] c.name = "sigmoid" -> Sigmoid(c, mem)
      [] c.name = "layer_norm" -> LayerNorm(c, mem)
      [] c.name = "rms_norm" -> RMSNorm(c, mem)
      [] c.name = "rope" -> RoPE(c, mem)
      [] c.name = "add_bias" -> AddBias(c, mem)
      [] OTHER -> Error

OutArg(c) == IF c.name \in {"vector_add", "matmul", "matrix_mul", "gemm",
                            "element_wise_mul", "hadamard"} THEN 3 ELSE 2

StepOf(c, mem, s) ==
    [mem EXCEPT ![c.args[OutArg(c)].id] =
        [x \in DOMAIN @ |-> IF x - 1 \in DOMAIN s
                            THEN UNION {Value(c, mem, src) : src \in s[x - 1]} ELSE @[x]]]

(* The outcome and the memory the loops leave; a failed launch left it as  *)
(* it was, and after a panic nobody reads it.                              *)
ExecuteNDRange(c, mem) ==
    LET k == Kernel(c, mem)
    IN  [end |-> k.end, mem |-> FoldLeft(LAMBDA m, s : StepOf(c, m, s), mem, k.steps)]
----------------------------------------------------------------------------
(* The OpenCL source of a kernel: what the work item i of dimension 0, of  *)
(* total, writes.  Offsets are part of i.  Names that are aliases have no  *)
(* source, and no source checks an index.                                  *)
Params == [vector_add |-> 3, relu |-> 2, sigmoid |-> 2, gelu |-> 2, scalar_mul |-> 3,
           element_wise_mul |-> 3, transpose |-> 3, reduce_sum |-> 3, add_bias |-> 4,
           rope |-> 4, layer_norm |-> 5, rms_norm |-> 4, softmax |-> 3, matmul |-> 4]

ItemRow(e, dim, Reads(_)) == [x \in (e*dim)..((e + 1)*dim - 1) |->
                                {<<1, j>> : j \in (e*dim)..((e + 1)*dim - 1)} \cup Reads(x - e*dim)]
Item(c, e, total) ==
    CASE c.name \in {"relu", "sigmoid", "gelu"} -> WriteCell(e, {<<1, e>>})
      [] c.name \in {"vector_add", "element_wise_mul"} -> WriteCell(e, {<<1, e>>, <<2, e>>})
      [] c.name = "scalar_mul" -> WriteCell(e, {<<1, e>>, <<3, 0>>})
      [] c.name = "transpose" ->
            WriteCell((e % IntArg(c, 3))*(total \div IntArg(c, 3)) + (e \div IntArg(c, 3)), {<<1, e>>})
      [] c.name = "reduce_sum" -> [x \in {0} \cap {e} |-> {<<1, j>> : j \in 0..IntArg(c, 3)-1}]
      [] c.name = "add_bias" -> WriteCell(e, {<<1, e>>, <<3, e % IntArg(c, 4)>>})
      [] c.name = "rope" -> Pair((e \div IntArg(c, 4))*IntArg(c, 4), e % (IntArg(c, 4) \div 2),
                                 IntArg(c, 4) \div 2, {<<3, 0>>})
      [] c.name = "layer_norm" ->
            LET affine(j) == {<<3, j>>, <<4, j>>} IN ItemRow(e, IntArg(c, 5), affine)
      [] c.name = "rms_norm" ->
            LET scale(j) == {<<3, j>>} IN ItemRow(e, IntArg(c, 4), scale)
      [] c.name = "softmax" ->
            LET plain(j) == {} IN ItemRow(e, IntArg(c, 3), plain)

(* executeOnGPU: no source, or an argument that was never set, is an error.*)
(* The shim hands the driver one dimension however many the launch has, so *)
(* the outcome of a launch of two is not defined, nor that of an index out *)
(* of range, a division by zero or an item that reads what another wrote.  *)
GpuItems(c) == {Item(c, e, Dim(c, 1)) : e \in Offset(c, 1)..(Offset(c, 1) + Dim(c, 1) - 1)}
Defined(c, mem) ==
    /\ Dim(c, 2) = 0
    /\ c.name \in {"transpose", "softmax"} => IntArg(c, 3) > 0
    /\ c.name \in {"add_bias", "rms_norm"} => IntArg(c, 4) > 0
    /\ c.name = "rope" => IntArg(c, 4) > 1
    /\ c.name = "layer_norm" => IntArg(c, 5) > 0
    /\ \A s \in GpuItems(c) : \A x \in DOMAIN s :
          /\ x < Size(c, mem, OutArg(c))
          /\ \A src \in s[x] : Has(c, src[1], {"buffer"}) => src[2] < Size(c, mem, src[1])

executeOnGPU(c, mem) ==
    IF c.name \notin DOMAIN Params THEN [end |-> "error", mem |-> mem]
    ELSE IF Len(c.args) < Params[c.name] \/ \E n \in 1..Params[c.name] : c.args[n].is = "empty"
         THEN [end |-> "error", mem |-> mem]
    ELSE IF Dim(c, 1) = 0 THEN [end |-> "error", mem |-> mem]
    ELSE IF c.name = "matmul" \/ ~Defined(c, mem) THEN [end |-> "undefined", mem |-> mem]
    ELSE [end |-> "done",
          mem |-> FoldLeft(LAMBDA m, s : StepOf(c, m, s), mem, SetToSeq(GpuItems(c)))]
----------------------------------------------------------------------------
(* What the client's message says of an argument, and what is left of it.  *)
(* executeLocally keeps the type of a number and leaves out an argument    *)
(* with no value; dispatchViaGRPC makes int32 of every number it knows,    *)
(* and sends an argument of any other kind with nothing in it.             *)
Keep(a) == IF a.is = "uint" THEN [a EXCEPT !.is = "int"]
           ELSE IF a.is = "none" THEN [is |-> "empty"] ELSE a
LocalArgs(args) ==
    LET last == Max({0} \cup {n \in DOMAIN args : args[n].is # "none"})
    IN  [n \in 1..last |-> Keep(args[n])]

RemoteArgs(args) ==
    [n \in DOMAIN args |->
        IF args[n].is = "float" THEN [args[n] EXCEPT !.is = "int"]
        ELSE IF args[n].is \in {"buffer", "int"} THEN args[n] ELSE [is |-> "empty"]]

(* Every buffer goes back to video memory after a local run; after a run   *)
(* on a worker the last buffer argument does.                              *)
BufferIds(args) == {args[n].id : n \in {m \in DOMAIN args : args[m].is = "buffer"}}
SlipFirstBuffer(args) == args[Min({n \in DOMAIN args : args[n].is = "buffer"})].id
LastBuffer(args) == args[Max({n \in DOMAIN args : args[n].is = "buffer"})].id
WriteBack(vram, outcome, ids) ==
    IF outcome.end = "done" THEN [b \in DOMAIN vram |-> IF b \in ids THEN outcome.mem[b] ELSE vram[b]]
    ELSE vram

Vram(l) == [b \in DOMAIN l.sizes |-> [x \in 1..l.sizes[b] |-> {<<b, x - 1>>}]]
----------------------------------------------------------------------------
(* One launch, by each of the routes; the worker's may be one of two       *)
(* shares, cut along the larger dimension.                                 *)
Routes == {"local", "gpu", "whole", "low", "high"}

KernelsInit == /\ launch \in Launches
               /\ ran = [r \in Routes |-> <<>>]

Answer(r, outcome, ids) ==
    /\ ran[r] = <<>>
    /\ ran' = [ran EXCEPT ![r] = [end |-> outcome.end,
                                        out |-> outcome.mem[launch.args[OutArg(launch)].id],
                                        vram |-> WriteBack(Vram(launch), outcome, ids)]]
    /\ UNCHANGED launch

ExecuteLocally ==
    Answer("local", ExecuteNDRange([launch EXCEPT !.args = LocalArgs(@)], Vram(launch)),
           BufferIds(launch.args))

OnWorker == [launch EXCEPT !.args = RemoteArgs(@)]
ExecuteOnGpuWorker ==
    Answer("gpu", executeOnGPU(OnWorker, Vram(launch)), {LastBuffer(launch.args)})

ExecuteOnWorker ==
    Answer("whole", ExecuteNDRange(OnWorker, Vram(launch)), {LastBuffer(launch.args)})

CutDim == IF Dim(launch, 2) > Dim(launch, 1) THEN 2 ELSE 1
Cut(lo, n) == [OnWorker EXCEPT !.gs[CutDim] = n,
                               !.go = [d \in DOMAIN launch.gs |-> IF d = CutDim THEN lo ELSE 0]]
ExecuteShare(r, lo, n) ==
    /\ n > 0
    /\ Answer(r, ExecuteNDRange(Cut(lo, n), Vram(launch)), {LastBuffer(launch.args)})
ExecuteLow == ExecuteShare("low", 0, launch.cut)
ExecuteHigh == ExecuteShare("high", launch.cut, Dim(launch, CutDim) - launch.cut)

KernelsNext == ExecuteLocally \/ ExecuteOnGpuWorker \/ ExecuteOnWorker \/ ExecuteLow \/ ExecuteHigh

(* What the comments over the kernels promise of output[i], for an input   *)
(* of rows by cols elements (inner: the K of a matrix product).            *)
Input(l) == l.args[1].id
Documented(l, e) ==
    LET n       == l.rows*l.cols
        row     == e \div l.cols
        col     == e % l.cols
        half    == l.cols \div 2
        in(x)   == <<Input(l), x>>
        ofRow   == {in(x) : x \in (row*l.cols)..((row + 1)*l.cols - 1)}
        second  == l.args[2].id
        third   == l.args[3].id
    IN  CASE l.name \in {"relu", "sigmoid", "gelu"} -> {in(e)}
          [] l.name \in {"vector_add", "element_wise_mul"} -> {in(e), <<second, e>>}
          [] l.name = "scalar_mul" -> {in(e), <<"float", 3>>}
          [] l.name \in {"softmax", "reduce_sum"} -> {in(x) : x \in 0..n-1}
          [] l.name = "transpose" -> {in((e % l.rows)*l.cols + (e \div l.rows))}
          [] l.name = "matmul" -> UNION {{in(row*l.inner + k), <<second, k*l.cols + col>>} : k \in 0..l.inner-1}
          [] l.name = "layer_norm" -> ofRow \cup {<<third, col>>, <<l.args[4].id, col>>}
          [] l.name = "rms_norm" -> ofRow \cup {<<third, col>>}
          [] l.name = "add_bias" -> {in(e), <<third, col>>}
          [] l.name = "rope" -> {in(row*l.cols + (col % half)), in(row*l.cols + (col % half) + half), <<"int", 3>>}

Outputs(l) == IF l.name = "reduce_sum" THEN {0} ELSE 0..(l.rows*l.cols - 1)
InPlace(l) == l.args[OutArg(l)].id = Input(l)
Ran(r) == ran[r] # <<>>
Right(r, portion) == /\ ran[r].end = "done"
                     /\ \A e \in portion : ran[r].out[e + 1] = Documented(launch, e)

(* The launches whose sizes the kernel's comment allows and its code       *)
(* understands.  A size of 0 is the whole buffer, except for vector_add.   *)
(* The flattened forms of matmul and transpose are not among them.         *)
Understood(l) ==
    LET flat == l.gs = <<l.rows*l.cols, 0, 0>>
        none == l.gs = <<0, 0, 0>>
        grid == l.gs = <<l.rows, l.cols, 0>>
        rows == l.gs = <<l.rows, 0, 0>>
    IN  CASE l.name = "vector_add" -> flat
          [] l.name = "matmul" -> grid
          [] l.name = "transpose" -> grid \/ (rows /\ Has(l, 3, {"int"}))
          [] l.name \in {"layer_norm", "rms_norm", "rope"} -> grid \/ rows \/ none
          [] l.name = "add_bias" -> grid \/ rows \/ none \/ flat
          [] OTHER -> flat \/ none

(* The launches the comment over a kernel describes: buffers as long as an  *)
(* input of rows by cols elements and its weights are, numbers that say    *)
(* what the buffers do, pairs that fill a row, no offset, and an output    *)
(* that is none of the inputs read after it is first written.  A sum needs *)
(* room for one element.                                                   *)
Described(l) ==
    LET n           == l.rows*l.cols
        Sized(k, m) == Has(l, k, {"buffer"}) /\ l.args[k].id \in DOMAIN l.sizes /\ l.sizes[l.args[k].id] = m
        Says(k, m)  == Has(l, k, {"int"}) /\ l.args[k].val = m
        MaySay(k, m) == Len(l.args) >= k => Says(k, m)
        Apart(k)    == l.args[k].id # l.args[OutArg(l)].id
    IN  /\ {l.rows, l.cols, l.inner} \subseteq Nat \ {0}
        /\ \A k \in DOMAIN l.args : l.args[k].is \in {"buffer", "int", "float"}
        /\ \A d \in DOMAIN l.go : l.go[d] = 0
        /\ l.name # "matmul" => Sized(1, n)
        /\ l.name # "reduce_sum" => Sized(OutArg(l), n)
        /\ CASE l.name \in {"relu", "sigmoid", "gelu", "softmax"} -> TRUE
             [] l.name = "vector_add" -> Sized(2, n) /\ MaySay(4, n)
             [] l.name = "element_wise_mul" -> Sized(2, n)
             [] l.name = "scalar_mul" -> Has(l, 3, {"float"})
             [] l.name = "reduce_sum" -> /\ MaySay(3, n)
                                         /\ \E m \in {l.sizes[b] : b \in DOMAIN l.sizes} \ {0} : Sized(2, m)
             [] l.name = "transpose" -> MaySay(3, l.cols) /\ Apart(1)
             [] l.name = "matmul" -> /\ Sized(1, l.rows*l.inner) /\ Sized(2, l.inner*l.cols)
                                     /\ MaySay(4, l.inner) /\ Apart(1) /\ Apart(2)
             [] l.name = "layer_norm" -> /\ Sized(3, l.cols) /\ Sized(4, l.cols) /\ Says(5, l.cols)
                                         /\ Apart(3) /\ Apart(4)
             [] l.name = "rms_norm" -> Sized(3, l.cols) /\ Says(4, l.cols) /\ Apart(3)
             [] l.name = "add_bias" -> Sized(3, l.cols) /\ MaySay(4, l.cols) /\ Apart(3)
             [] l.name = "rope" -> Has(l, 3, {"int"}) /\ Says(4, l.cols) /\ l.cols % 2 = 0
             [] OTHER -> FALSE

KernelsTypeOK ==
    /\ launch \in Launches
    /\ \A r \in Routes : Ran(r) => /\ ran[r].end \in {"done", "error", "panic", "undefined"}
                                  /\ DOMAIN ran[r].vram = DOMAIN launch.sizes

(* A launch run on the core computes what the comment over its kernel says,*)
(* of the elements it says and of no other: the dimensions are found in    *)
(* the size, a scalar or the buffers, as the launch gives them.  A client  *)
(* that gives the input as the output too gets the same numbers: but for   *)
(* the two kernels that move elements between rows, none reads an element  *)
(* after a step that overwrote it.                                         *)
LocalIsDocumented ==
    Ran("local") /\ Described(launch) /\ Understood(launch) => Right("local", Outputs(launch))

(* The scheduler cuts a launch and every worker gets the whole buffers, an *)
(* offset and a size.  A sum of vectors, and a product of matrices cut by  *)
(* rows that says its K, compute their portion and touch nothing else.     *)
Cuttable(l) == /\ Described(l) /\ Understood(l) /\ l.cut <= Dim(l, 1)
               /\ \/ l.name = "vector_add" /\ Len(l.args) = 3
                  \/ l.name = "matmul" /\ Has(l, 4, {"int"}) /\ l.rows >= l.cols
Portion(r) == LET width == IF launch.name = "matmul" THEN launch.cols ELSE 1
              IN  IF r = "low" THEN 0..(launch.cut*width - 1)
                  ELSE (launch.cut*width)..(launch.rows*launch.cols - 1)
PortionIsRight ==
    \A r \in {"low", "high"} : Ran(r) /\ Cuttable(launch) =>
        /\ Right(r, Portion(r))
        /\ \A e \in Outputs(launch) \ Portion(r) :
              ran[r].out[e + 1] = {<<launch.args[OutArg(launch)].id, e>>}

(* A worker with a GPU and one without compute the same: whenever the      *)
(* OpenCL source runs, over as many items as it has work for, its output   *)
(* is that of the Go kernel.  (softmax and transpose are never launched    *)
(* the same way for both.)                                                 *)
GpuForm(l) == IF l.name \in {"layer_norm", "rms_norm"} THEN l.gs = <<l.rows, 0, 0>>
              ELSE l.gs = <<l.rows*l.cols, 0, 0>>
GpuAgrees ==
    /\ Ran("gpu") /\ Ran("whole") /\ Described(launch) /\ GpuForm(launch) /\ ~InPlace(launch)
    /\ launch.name \notin {"softmax", "transpose"}
    /\ ran["gpu"].end = "done"
    => ran["whole"].end = "done" /\ ran["whole"].out = ran["gpu"].out

(* A launch sent to one worker leaves the video memory a local run leaves, *)
(* when its output is its last buffer and its numbers are integers.        *)
Plain(l) == /\ \A n \in DOMAIN l.args : l.args[n].is \in {"buffer", "int"}
            /\ \A n \in DOMAIN l.args : n > OutArg(l) => l.args[n].is # "buffer"
SameAnswer == ran["whole"].end = ran["local"].end /\ ran["whole"].vram = ran["local"].vram
WorkerIsCore == Ran("local") /\ Ran("whole") /\ Plain(launch) => SameAnswer
=============================================================================
