------------------------------- MODULE MCParts -------------------------------
(* Kernels: every one on inputs of up to 3 by 2 elements, with the          *)
(* dimensions given in each of the ways its comment or its code knows, in   *)
(* place and into another buffer.                                           *)
(* Memory: two connections and two buffer ids; 2 units at first, 3 with     *)
(* one worker, 0 when the user sets it; one size that wraps around.         *)
(* Split: three workers; sizes that are and are not multiples of the       *)
(* group, no group, empty dimensions.                                      *)
(* Cache: two layers of two positions.  Files: two installers, three runs.  *)
EXTENDS Parts, TLC

B(id) == [is |-> "buffer", id |-> id]
I(val) == [is |-> "int", val |-> val]
F(val) == [is |-> "float", val |-> val]

ArgsOf(name, r, c, k, out) ==
    CASE name \in {"relu", "sigmoid", "gelu"} -> {<<B("A"), B(out)>>}
      [] name = "vector_add" -> {<<B("A"), B("B"), B(out)>>, <<B("A"), B("B"), B(out), I(r*c)>>}
      [] name = "element_wise_mul" -> {<<B("A"), B("B"), B(out)>>}
      [] name = "scalar_mul" -> {<<B("A"), B(out), F(2)>>}
      [] name = "softmax" -> {<<B("A"), B(out)>>, <<B("A"), B(out), I(r*c)>>}
      [] name = "reduce_sum" -> {<<B("A"), B(out), I(r*c)>>}
      [] name = "transpose" -> {<<B("A"), B(out)>>, <<B("A"), B(out), I(c)>>}
      [] name = "matmul" -> {<<B("A"), B("B"), B(out)>>, <<B("A"), B("B"), B(out), I(k)>>}
      [] name = "layer_norm" -> {<<B("A"), B(out), B("B"), B("C"), I(c)>>}
      [] name = "rms_norm" -> {<<B("A"), B(out), B("B"), I(c)>>}
      [] name = "rope" -> {<<B("A"), B(out), I(1), I(c)>>}
      [] name = "add_bias" -> {<<B("A"), B(out), B("B"), I(c)>>}

SizesOf(name, r, c, k) ==
    CASE name \in {"vector_add", "element_wise_mul"} -> [A |-> r*c, B |-> r*c, C |-> 1, O |-> r*c]
      [] name = "reduce_sum" -> [A |-> r*c, B |-> 1, C |-> 1, O |-> 1]
      [] name = "matmul" -> [A |-> r*k, B |-> k*c, C |-> 1, O |-> r*c]
      [] OTHER -> [A |-> r*c, B |-> c, C |-> c, O |-> r*c]

Forms(r, c) == {<<r*c, 0, 0>>, <<0, 0, 0>>, <<r, c, 0>>, <<r, 0, 0>>}

KernelNames == DOMAIN Params

LaunchesOf(name, r, c, k) ==
    {[name |-> name, args |-> as, gs |-> gs, go |-> <<0, 0, 0>>, sizes |-> SizesOf(name, r, c, k),
      rows |-> r, cols |-> c, inner |-> k, cut |-> 1] :
         as \in UNION {ArgsOf(name, r, c, k, out) :
                    out \in IF name \in {"matmul", "transpose"} THEN {"O"} ELSE {"A", "O"}},
         gs \in Forms(r, c)}

MCLaunches == UNION {LaunchesOf(name, r, 2, 1) : name \in KernelNames \ {"matmul"}, r \in 1..3}
              \cup UNION {LaunchesOf("matmul", r, 2, k) : r \in 1..3, k \in {1, 3}}
----------------------------------------------------------------------------
CONSTANTS c1, c2, x, y

Connections == {c1, c2}
Separate == {<<x, y>>}
OneInline == {<<y>>}
OnePhone == {<<>>, <<[ram |-> 6, gpu |-> TRUE, fast |-> FALSE]>>}
SmallScores == 0..3
SmallSizes == {0, 1, 4, 7}
SmallLocals == 0..3

Symmetry == Permutations(Connections)
=============================================================================
