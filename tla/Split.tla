------------------------------- MODULE Split --------------------------------
(***************************************************************************)
(* splitNDRange of vgpu/scheduler/split.go: one launch is divided among    *)
(* workers in proportion to their scores.  The loop over the workers is    *)
(* the state machine; a subtask is its worker and the interval             *)
(* [offset, offset + size) of the split dimension, the other dimensions    *)
(* are copied.                                                             *)
(*                                                                         *)
(* Scores are integers and a share is rounded exactly; the code divides    *)
(* float64 values, so a share that is exactly half way between two         *)
(* integers may be rounded the other way there.                            *)
(***************************************************************************)
EXTENDS Integers, Sequences

CONSTANTS NumWorkers,  (* length of the list of workers                    *)
          WorkDim,     (* dimensions of the launch                         *)
          Scores,      (* capability scores                                *)
          Sizes,       (* global sizes                                     *)
          Locals       (* local (work-group) sizes; 0 is "not given"       *)

ASSUME SplitAssumption ==
    /\ NumWorkers \in Nat
    /\ WorkDim \in 1..3
    /\ Scores \subseteq Nat /\ Sizes \subseteq Nat /\ Locals \subseteq Nat

VARIABLES
    score,    (* score[i]: of the i-th worker, fastest first               *)
    global,   (* task.GlobalSize                                           *)
    local,    (* task.LocalSize, which may have fewer dimensions           *)
    i,        (* the worker the loop is at                                 *)
    totalCap, (* the sum of the scores                                     *)
    current,  (* currentOffset                                             *)
    subTasks, (* the subtasks so far                                       *)
    result    (* sum and loop are the two loops, then ok or error         *)

input == <<score, global, local>>
vars == <<input, i, totalCap, current, subTasks, result>>

List == 1..NumWorkers

(* The first of the largest dimensions.                                    *)
SplitDim(g) ==
    CHOOSE d \in 1..WorkDim :
        /\ \A e \in 1..WorkDim : g[e] <= g[d]
        /\ \A e \in 1..(d - 1) : g[e] < g[d]

TotalItems == global[SplitDim(global)]
LocalGroupSize ==
    LET d == SplitDim(global) IN
    IF d \in DOMAIN local /\ local[d] # 0 THEN local[d] ELSE 1

AlignDown(val, align) == (val \div align) * align

(* What the i-th worker is due, in whole work groups.                      *)
Rounded(num, den) == (2 * num + den) \div (2 * den)
Share == AlignDown(Rounded(score[i] * TotalItems, totalCap), LocalGroupSize)

(* It gets no more than is left, again in whole groups.                    *)
SlipUnclamped(due) == due
SlipPartialGroup(due) == IF current + due > TotalItems THEN TotalItems - current ELSE due
Granted(due) ==
    IF current + due > TotalItems
    THEN AlignDown(TotalItems - current, LocalGroupSize)
    ELSE due
----------------------------------------------------------------------------
Init ==
    /\ score \in [List -> Scores]
    /\ \A k \in List : k > 1 => score[k] <= score[k - 1]
    /\ global \in [1..WorkDim -> Sizes]
    /\ local \in UNION {[1..n -> Locals] : n \in 0..WorkDim}
    /\ i = 1
    /\ totalCap = 0
    /\ current = 0
    /\ subTasks = <<>>
    /\ result = "sum"

(* SplitNDRangeForWorkers sums the scores ...                              *)
SumCapability ==
    /\ result = "sum" /\ i <= NumWorkers
    /\ totalCap' = totalCap + score[i]
    /\ i' = i + 1
    /\ UNCHANGED <<input, current, subTasks, result>>

(* ... and splits only if there is a worker and some capability.           *)
StartSplit ==
    /\ result = "sum" /\ i > NumWorkers
    /\ result' = IF totalCap = 0 THEN "error" ELSE "loop"
    /\ i' = 1
    /\ UNCHANGED <<input, totalCap, current, subTasks>>

Looping == result = "loop" /\ i <= NumWorkers

(* The share rounds to nothing: the worker is passed over.                 *)
PassOver ==
    /\ Looping
    /\ Share = 0
    /\ i' = i + 1
    /\ UNCHANGED <<input, totalCap, current, subTasks, result>>

(* Nothing that is left makes a group: the loop ends.                      *)
StopShort ==
    /\ Looping
    /\ Share # 0 /\ Granted(Share) = 0
    /\ i' = NumWorkers + 1
    /\ UNCHANGED <<input, totalCap, current, subTasks, result>>

SlipOffsetAfter(size) == [worker |-> i, offset |-> current + size, size |-> size]
SubTask(size) == [worker |-> i, offset |-> current, size |-> size]

(* A subtask; the loop ends when nothing is left.                          *)
Grant ==
    /\ Looping
    /\ Share # 0 /\ Granted(Share) # 0
    /\ subTasks' = Append(subTasks, SubTask(Granted(Share)))
    /\ current' = current + Granted(Share)
    /\ i' = IF current' >= TotalItems THEN NumWorkers + 1 ELSE i + 1
    /\ UNCHANGED <<input, totalCap, result>>

(* After the loop, the first subtask is enlarged by what is left; with no  *)
(* subtask at all the split fails.                                         *)
SlipNoLeftover == subTasks
SlipLeftoverTaken == [subTasks EXCEPT ![1].size = @ - (TotalItems - current)]
WithLeftover == [subTasks EXCEPT ![1].size = @ + (TotalItems - current)]

Finish ==
    /\ result = "loop" /\ i > NumWorkers
    /\ IF subTasks = <<>>
       THEN result' = "error" /\ UNCHANGED subTasks
       ELSE result' = "ok" /\ subTasks' = WithLeftover
    /\ UNCHANGED <<input, i, totalCap, current>>

Next == SumCapability \/ StartSplit \/ PassOver \/ StopShort \/ Grant \/ Finish

Spec == Init /\ [][Next]_vars
----------------------------------------------------------------------------
SubTasks == [worker : List, offset : Nat, size : Nat \ {0}]

TypeOK ==
    /\ score \in [List -> Scores]
    /\ global \in [1..WorkDim -> Sizes]
    /\ local \in UNION {[1..n -> Locals] : n \in 0..WorkDim}
    /\ i \in 1..(NumWorkers + 1)
    /\ totalCap \in Nat
    /\ current \in Nat
    /\ subTasks \in Seq(SubTasks)
    /\ result \in {"sum", "loop", "ok", "error"}

End(k) == subTasks[k].offset + subTasks[k].size

(* The loop hands out one interval after the other: each subtask begins    *)
(* where the one before it ended, and none reaches beyond the launch       *)
(* (split.go:162-201).                                                     *)
Contiguous ==
    result \in {"sum", "loop"} =>
        /\ current <= TotalItems
        /\ subTasks = <<>> => current = 0
        /\ subTasks # <<>> => subTasks[1].offset = 0 /\ End(Len(subTasks)) = current
        /\ \A k \in 1..(Len(subTasks) - 1) : subTasks[k + 1].offset = End(k)

(* Every subtask starts at a work-group boundary, and all but the first    *)
(* are whole groups, whatever was clamped (split.go:166-179).              *)
GroupAligned ==
    \A k \in 1..Len(subTasks) :
        /\ subTasks[k].offset % LocalGroupSize = 0
        /\ k > 1 => subTasks[k].size % LocalGroupSize = 0

(* No subtask of a finished split reaches beyond the launch, and all but   *)
(* the first are disjoint, though the first has been enlarged              *)
(* (split.go:206-210).                                                     *)
RestDisjoint ==
    result = "ok" =>
        /\ \A k \in 1..Len(subTasks) : End(k) <= TotalItems
        /\ \A k, l \in 2..Len(subTasks) : k < l => End(k) <= subTasks[l].offset

(* The sizes of a finished split add up to the launch                      *)
(* (grpc_server_test.go:217-221).                                          *)
SizesAddUp ==
    LET sum[n \in 0..Len(subTasks)] == IF n = 0 THEN 0 ELSE sum[n - 1] + subTasks[n].size
    IN  result = "ok" => sum[Len(subTasks)] = TotalItems

(* What the tests promise.                                                 *)

(* "Total coverage" (grpc_server_test.go:217): every item of the launch is *)
(* computed, and by one worker.                                            *)
CoveredOnce ==
    result = "ok" =>
        \A item \in 0..(TotalItems - 1) :
            \E k \in 1..Len(subTasks) :
                \A l \in 1..Len(subTasks) :
                    (subTasks[l].offset <= item /\ item < End(l)) <=> l = k
=============================================================================
