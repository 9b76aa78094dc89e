----------------------------- MODULE PartsProofs -----------------------------
(***************************************************************************)
(* Theorems about the split of a launch, the installers and the KV cache,  *)
(* and about PartsSpec: since each part keeps to its own specification,    *)
(* what is proved of one holds of the composition.  They hold for any      *)
(* workers, scores, sizes, installers and runs, layers and readers.        *)
(***************************************************************************)
EXTENDS KernelsProofs, Parts
----------------------------------------------------------------------------
(* The split.  Contiguous and RestDisjoint are not inductive: what Finish  *)
(* makes of the first subtask is harmless to the others' intervals only    *)
(* because the loop kept every interval below currentOffset, and that      *)
(* below the size of the launch.  IInv says so while the loops run.        *)
Running == result \in {"sum", "loop"}

(* Every interval ends below currentOffset, and before the next begins.    *)
Ordered ==
    Running =>
        /\ \A k \in 1..Len(subTasks) : End(k) <= current
        /\ \A k, l \in 1..Len(subTasks) : k < l => End(k) <= subTasks[l].offset

(* What the loops have established when they reach each other.             *)
Phases ==
    /\ result = "sum" => subTasks = <<>> /\ current = 0
    /\ result = "loop" => totalCap # 0
    /\ result = "ok" => subTasks # <<>>

IInv == TypeOK /\ Phases /\ Contiguous /\ Ordered /\ RestDisjoint
----------------------------------------------------------------------------
(* alignDown returns no more than it is given (split.go:222-227).          *)
LEMMA AlignDownBounded ==
    ASSUME NEW v \in Nat, NEW g \in Nat \ {0}
    PROVE  AlignDown(v, g) \in Nat /\ AlignDown(v, g) <= v
<1>1. v \div g \in Nat
  BY SMT
<1>2. v = g * (v \div g) + (v % g) /\ v % g \in 0..(g - 1)
  BY SMT
<1>3. AlignDown(v, g) \in Nat
  BY <1>1, SMT DEF AlignDown
<1>4. AlignDown(v, g) <= v
  BY <1>1, <1>2, SMT DEF AlignDown
<1> QED BY <1>3, <1>4

(* A share rounds to a natural number when there is some capability.       *)
LEMMA RoundedNat ==
    ASSUME NEW n \in Nat, NEW d \in Nat \ {0} PROVE Rounded(n, d) \in Nat
BY SMT DEF Rounded

(* A largest dimension exists (split.go:141-148).                          *)
LEMMA SplitDimExists ==
    ASSUME SplitAssumption, NEW g \in [1..WorkDim -> Nat]
    PROVE  SplitDim(g) \in 1..WorkDim
<1> DEFINE Largest(d) == /\ \A e \in 1..WorkDim : g[e] <= g[d]
                         /\ \A e \in 1..(d - 1) : g[e] < g[d]
<1>1. \E d \in 1..WorkDim : Largest(d)
  <2>1. CASE WorkDim = 1
    BY <2>1, SMT
  <2>2. CASE WorkDim = 2
    BY <2>2, SMT
  <2>3. CASE WorkDim = 3
    BY <2>3, SMT
  <2> QED BY <2>1, <2>2, <2>3 DEF SplitAssumption
<1> QED BY <1>1, Zenon DEF SplitDim

(* The size of the launch and the work group are what the loop computes    *)
(* with: a natural number and a positive one.                              *)
LEMMA InputNat ==
    ASSUME TypeOK
    PROVE  TotalItems \in Nat /\ LocalGroupSize \in Nat \ {0}
<1>1. global \in [1..WorkDim -> Nat]
  BY SplitAssumption DEF TypeOK, SplitAssumption
<1>2. SplitDim(global) \in 1..WorkDim
  BY <1>1, SplitDimExists, SplitAssumption
<1>3. TotalItems \in Nat
  BY <1>1, <1>2 DEF TotalItems
<1>4. PICK n \in 0..WorkDim : local \in [1..n -> Locals]
  BY DEF TypeOK
<1>5. \A d \in DOMAIN local : local[d] \in Nat
  BY <1>4, SplitAssumption DEF SplitAssumption
<1>6. LocalGroupSize \in Nat \ {0}
  <2> DEFINE d == SplitDim(global)
  <2>1. CASE d \in DOMAIN local /\ local[d] # 0
    BY <1>5, <2>1 DEF LocalGroupSize
  <2>2. CASE ~(d \in DOMAIN local /\ local[d] # 0)
    <3>1. LocalGroupSize = 1
      BY <2>2, Zenon DEF LocalGroupSize
    <3> QED BY <3>1
  <2> QED BY <2>1, <2>2
<1> QED BY <1>3, <1>6

(* The scores are natural numbers.                                         *)
LEMMA ScoreNat ==
    ASSUME TypeOK, i <= NumWorkers PROVE score[i] \in Nat /\ i \in List
<1>1. i \in List
  BY SplitAssumption DEF TypeOK, List, SplitAssumption
<1>2. score[i] \in Scores
  BY <1>1, Zenon DEF TypeOK
<1> QED BY <1>1, <1>2, SplitAssumption DEF SplitAssumption

(* A share and what is granted of it: never more than is left.             *)
LEMMA GrantedFits ==
    ASSUME TypeOK, Phases, Looping, current <= TotalItems
    PROVE  /\ Share \in Nat
           /\ Granted(Share) \in Nat
           /\ Granted(Share) # 0 => current + Granted(Share) <= TotalItems
<1>1. TotalItems \in Nat /\ LocalGroupSize \in Nat \ {0} /\ current \in Nat
  BY InputNat DEF TypeOK
<1>2. score[i] \in Nat
  BY ScoreNat DEF Looping
<1>3. score[i] * TotalItems \in Nat
  BY <1>1, <1>2, SMT
<1>4. totalCap \in Nat \ {0}
  BY DEF TypeOK, Phases, Looping
<1>5. Rounded(score[i] * TotalItems, totalCap) \in Nat
  BY <1>3, <1>4, RoundedNat
<1>6. Share \in Nat
  BY <1>1, <1>5, AlignDownBounded DEF Share
<1>7. TotalItems - current \in Nat
  BY <1>1, SMT
<1>8. /\ AlignDown(TotalItems - current, LocalGroupSize) \in Nat
      /\ AlignDown(TotalItems - current, LocalGroupSize) <= TotalItems - current
  BY <1>1, <1>7, AlignDownBounded
<1> QED BY <1>1, <1>6, <1>8, SMT DEF Granted
----------------------------------------------------------------------------
(* The launch to be split does not change.                                 *)
LEMMA InputFixed ==
    ASSUME [Next]_vars
    PROVE  UNCHANGED input /\ TotalItems' = TotalItems
<1>1. UNCHANGED input
  BY DEF Next, SumCapability, StartSplit, PassOver, StopShort, Grant, Finish, vars
<1> QED BY <1>1 DEF input, TotalItems

LEMMA InitIInv == Init => IInv
<1> SUFFICES ASSUME Init PROVE IInv
  OBVIOUS
<1>1. TypeOK
  BY SplitAssumption, SMT DEF Init, TypeOK, SplitAssumption
<1>2. TotalItems \in Nat
  BY <1>1, InputNat
<1> QED BY <1>1, <1>2, SMT DEF Init, IInv, Phases, Contiguous, Ordered, RestDisjoint, Running

LEMMA NextIInv == IInv /\ [Next]_vars => IInv'
<1> SUFFICES ASSUME IInv, [Next]_vars PROVE IInv'
  OBVIOUS
<1> USE SplitAssumption
<1>0. /\ UNCHANGED input
      /\ TotalItems' = TotalItems
      /\ TotalItems \in Nat
      /\ subTasks \in Seq(SubTasks)
      /\ current \in Nat
  BY InputFixed, InputNat DEF IInv, TypeOK
<1>1. CASE SumCapability
  <2>1. score[i] \in Nat
    BY <1>1, ScoreNat DEF IInv, SumCapability
  <2>2. TypeOK'
    BY <1>0, <1>1, <2>1 DEF IInv, TypeOK, SumCapability, SplitAssumption, input
  <2>3. (Phases /\ Contiguous /\ Ordered /\ RestDisjoint)'
    BY <1>0, <1>1 DEF IInv, SumCapability, Phases, Contiguous, Ordered, RestDisjoint, Running, End
  <2> QED BY <2>2, <2>3 DEF IInv
<1>2. CASE StartSplit
  <2>1. TypeOK'
    BY <1>0, <1>2 DEF IInv, TypeOK, StartSplit, SplitAssumption, input
  <2>2. (Phases /\ Contiguous /\ Ordered /\ RestDisjoint)'
    BY <1>0, <1>2 DEF IInv, StartSplit, Phases, Contiguous, Ordered, RestDisjoint, Running, End
  <2> QED BY <2>1, <2>2 DEF IInv
<1>3. CASE PassOver \/ StopShort
  <2>1. TypeOK'
    BY <1>0, <1>3 DEF IInv, TypeOK, PassOver, StopShort, Looping, SplitAssumption, input
  <2>2. (Phases /\ Contiguous /\ Ordered /\ RestDisjoint)'
    BY <1>0, <1>3 DEF IInv, PassOver, StopShort, Phases, Contiguous, Ordered, RestDisjoint, Running, End
  <2> QED BY <2>1, <2>2 DEF IInv
<1>4. CASE Grant
  <2> DEFINE size == Granted(Share)
  <2> PICK n \in Nat : n = Len(subTasks)
    BY <1>0
  <2>1. current <= TotalItems
    BY <1>4 DEF IInv, Contiguous, Grant, Looping
  <2>2. size \in Nat \ {0} /\ current + size <= TotalItems
    BY <1>4, <2>1, GrantedFits DEF IInv, Grant
  <2>3. SubTask(size) \in SubTasks
    <3>1. i \in List
      BY <1>4, ScoreNat DEF IInv, Grant, Looping
    <3> QED BY <1>0, <2>2, <3>1 DEF SubTask, SubTasks
  <2>4. subTasks' = Append(subTasks, SubTask(size)) /\ current' = current + size
    BY <1>4 DEF Grant
  <2>5. subTasks' \in Seq(SubTasks)
    BY <1>0, <2>3, <2>4
  <2> HIDE DEF size
  <2>6. TypeOK'
    BY <1>0, <1>4, <2>2, <2>4, <2>5 DEF IInv, TypeOK, Grant, Looping, SplitAssumption, input
  <2>7. /\ Len(subTasks') = n + 1
        /\ \A k \in 1..n : subTasks'[k] = subTasks[k]
        /\ subTasks'[n + 1] = [worker |-> i, offset |-> current, size |-> size]
    BY <1>0, <2>3, <2>4 DEF SubTask
  <2>8. \A k \in 1..n : End(k)' = End(k) /\ End(k) \in Nat
    <3>1. \A k \in 1..n : subTasks[k] \in SubTasks
      BY <1>0
    <3> QED BY <2>7, <3>1 DEF End, SubTasks
  <2>9. End(n + 1)' = current' /\ End(n + 1)' \in Nat
    <3>1. End(n + 1)' = current + size
      BY <2>7 DEF End
    <3> QED BY <1>0, <2>2, <2>4, <3>1
  <2>10. Phases'
    BY <1>4, <2>4, <2>5, <2>7 DEF IInv, Phases, Grant, Looping
  <2>11. Contiguous'
    <3>1. n = 0 => current = 0
      BY <1>0, <1>4, <2>7 DEF IInv, Contiguous, Grant, Looping
    <3>2. n # 0 => subTasks[1].offset = 0 /\ End(n) = current
      BY <1>4 DEF IInv, Contiguous, Grant, Looping
    <3>3. \A k \in 1..(n - 1) : subTasks[k + 1].offset = End(k)
      BY <1>4 DEF IInv, Contiguous, Grant, Looping
    <3>4. subTasks'[1].offset = 0
      <4>1. CASE n = 0
        BY <2>7, <3>1, <4>1
      <4>2. CASE n # 0
        BY <2>7, <3>2, <4>2
      <4> QED BY <4>1, <4>2
    <3>5. ASSUME NEW k \in 1..n PROVE subTasks'[k + 1].offset = End(k)'
      <4>1. CASE k = n
        BY <2>7, <2>8, <3>2, <4>1
      <4>2. CASE k # n
        BY <2>7, <2>8, <3>3, <4>2
      <4> QED BY <4>1, <4>2
    <3>6. End(Len(subTasks))' = current'
      BY <2>7, <2>9
    <3>7. current' <= TotalItems'
      BY <1>0, <2>2, <2>4
    <3>8. subTasks' # <<>> /\ Len(subTasks') - 1 = n
      BY <2>5, <2>7
    <3>9. \A k \in 1..(Len(subTasks') - 1) : subTasks'[k + 1].offset = End(k)'
      BY <3>5, <3>8
    <3> QED BY <3>4, <3>6, <3>7, <3>8, <3>9, Zenon DEF Contiguous
  <2>12. Ordered'
    <3>1. \A k \in 1..n : End(k) <= current
      BY <1>4 DEF IInv, Ordered, Running, Grant, Looping
    <3>2. \A k, l \in 1..n : k < l => End(k) <= subTasks[l].offset
      BY <1>4 DEF IInv, Ordered, Running, Grant, Looping
    <3>3. ASSUME NEW k \in 1..(n + 1) PROVE End(k)' <= current'
      <4>1. CASE k = n + 1
        BY <1>0, <2>2, <2>4, <2>9, <4>1
      <4>2. CASE k # n + 1
        BY <1>0, <2>2, <2>4, <2>8, <3>1, <4>2
      <4> QED BY <4>1, <4>2
    <3>4. ASSUME NEW k \in 1..(n + 1), NEW l \in 1..(n + 1), k < l
          PROVE  End(k)' <= subTasks'[l].offset
      <4>1. CASE l = n + 1
        BY <2>7, <2>8, <3>1, <3>4, <4>1
      <4>2. CASE l # n + 1
        BY <2>7, <2>8, <3>2, <3>4, <4>2
      <4> QED BY <4>1, <4>2
    <3> QED BY <2>7, <3>3, <3>4 DEF Ordered
  <2>13. RestDisjoint'
    BY <1>4 DEF RestDisjoint, Grant, Looping
  <2> QED BY <2>6, <2>10, <2>11, <2>12, <2>13 DEF IInv
<1>5. CASE Finish
  <2>1. CASE subTasks = <<>>
    BY <1>0, <1>5, <2>1 DEF Finish, IInv, TypeOK, Phases, Contiguous, Ordered, RestDisjoint,
                            Running, SplitAssumption, input
  <2>2. CASE subTasks # <<>>
    <3> DEFINE rest == TotalItems - current
    <3> PICK n \in Nat : n = Len(subTasks)
      BY <1>0
    <3>1. result' = "ok" /\ subTasks' = WithLeftover /\ result = "loop" /\ UNCHANGED <<i, totalCap, current>>
      BY <1>5, <2>2 DEF Finish
    <3>2. rest \in Nat /\ n \in Nat \ {0}
      BY <1>0, <2>2, <3>1 DEF IInv, Contiguous
    <3>3. \A k \in 1..n : subTasks[k] \in SubTasks
      BY <1>0
    <3> DEFINE first == [subTasks[1] EXCEPT !.size = @ + rest]
    <3>4. /\ first \in SubTasks
          /\ first.offset = subTasks[1].offset
          /\ first.size = subTasks[1].size + rest
      <4>1. 1 \in 1..n
        BY <3>2
      <4>2. subTasks[1] \in SubTasks
        BY <3>3, <4>1
      <4> HIDE DEF rest
      <4> QED BY <3>2, <4>2 DEF SubTasks
    <3>5. subTasks' = [subTasks EXCEPT ![1] = first]
      BY <3>1, Zenon DEF WithLeftover
    <3> HIDE DEF first, rest
    <3>6. /\ subTasks' \in Seq(SubTasks)
          /\ Len(subTasks') = n
          /\ \A k \in 2..n : subTasks'[k] = subTasks[k]
          /\ subTasks'[1] = first
      BY <1>0, <3>2, <3>4, <3>5
    <3>7. TypeOK'
      BY <1>0, <3>1, <3>6 DEF IInv, TypeOK, input, SplitAssumption
    <3>8. \A k \in 2..n : End(k)' = End(k)
      BY <3>6 DEF End
    <3>9. \A k \in 1..n : End(k) <= current
      BY <3>1 DEF IInv, Ordered, Running
    <3>10. End(1) \in Nat /\ End(1)' = End(1) + rest
      BY <3>2, <3>3, <3>4, <3>6 DEF End, SubTasks
    <3>11. \A k \in 2..n : End(k) \in Nat
      BY <3>3 DEF End, SubTasks
    <3>12. RestDisjoint'
      <4>1. \A k \in 1..n : End(k)' <= TotalItems
        <5>1. End(1)' <= TotalItems
          BY <1>0, <3>2, <3>9, <3>10 DEF rest
        <5>2. \A k \in 2..n : End(k)' <= TotalItems
          BY <1>0, <3>2, <3>8, <3>9, <3>11 DEF rest
        <5> QED BY <3>2, <5>1, <5>2
      <4>2. \A k, l \in 2..n : k < l => End(k)' <= subTasks'[l].offset
        <5>1. \A k, l \in 2..n : k < l => End(k) <= subTasks[l].offset
          BY <3>1, <3>2 DEF IInv, Ordered, Running
        <5> QED BY <3>6, <3>8, <5>1
      <4> QED BY <1>0, <3>6, <4>1, <4>2 DEF RestDisjoint
    <3>13. (Phases /\ Contiguous /\ Ordered)'
      BY <3>1, <3>2, <3>6 DEF Phases, Contiguous, Ordered, Running
    <3> QED BY <3>7, <3>12, <3>13 DEF IInv
  <2> QED BY <2>1, <2>2
<1>6. CASE UNCHANGED vars
  BY <1>0, <1>6 DEF vars, input, IInv, TypeOK, Phases, Contiguous, Ordered, RestDisjoint, Running, End
<1> QED BY <1>1, <1>2, <1>3, <1>4, <1>5, <1>6 DEF Next

LEMMA Invariance == Spec => []IInv
BY InitIInv, NextIInv, PTL DEF Spec

(* TypeOK holds in every reachable state.                                  *)
THEOREM SplitTypeCorrect == Spec => []TypeOK
<1>1. IInv => TypeOK
  BY DEF IInv
<1> QED BY <1>1, Invariance, PTL

(* The loop hands out one interval after the other and never more than the *)
(* launch has (split.go:162-201).                                          *)
THEOREM SharesContiguous == Spec => []Contiguous
<1>1. IInv => Contiguous
  BY DEF IInv
<1> QED BY <1>1, Invariance, PTL

(* A finished split stays within the launch, and no two subtasks but the   *)
(* first overlap, for any workers, scores, sizes and work groups           *)
(* (split.go:206-210).                                                     *)
THEOREM SharesDisjoint == Spec => []RestDisjoint
<1>1. IInv => RestDisjoint
  BY DEF IInv
<1> QED BY <1>1, Invariance, PTL
(* Every subtask starts at a work-group boundary and all but the first are *)
(* whole groups (split.go:166-179).  GroupAligned is not inductive: the    *)
(* next offset is current, and the first subtask is in whole groups, too,  *)
(* until Finish enlarges it.                                               *)
Multiple(v, g) == \E q \in Nat : v = q * g
Whole(v) == Multiple(v, LocalGroupSize)

InGroups ==
    /\ Running => Whole(current)
    /\ \A k \in 1..Len(subTasks) : Whole(subTasks[k].offset)
    /\ \A k \in 1..Len(subTasks) : k > 1 => Whole(subTasks[k].size)

LEMMA WholeMod ==
    ASSUME NEW q \in Nat, NEW g \in Nat \ {0} PROVE (q * g) % g = 0
BY SMT

LEMMA WholeSum ==
    ASSUME LocalGroupSize \in Nat, NEW v, NEW w, Whole(v), Whole(w) PROVE Whole(v + w)
<1>1. PICK q \in Nat : v = q * LocalGroupSize
  BY DEF Whole, Multiple
<1>2. PICK r \in Nat : w = r * LocalGroupSize
  BY DEF Whole, Multiple
<1>3. q + r \in Nat /\ v + w = (q + r) * LocalGroupSize
  BY <1>1, <1>2, SMT
<1> QED BY <1>3, Zenon DEF Whole, Multiple

(* What is granted is in whole groups, because alignDown is the last that  *)
(* happens to it.                                                          *)
LEMMA GrantedWhole ==
    ASSUME TypeOK, Phases, Looping, current <= TotalItems
    PROVE  Whole(Granted(Share))
<1>1. TotalItems \in Nat /\ LocalGroupSize \in Nat \ {0} /\ current \in Nat
  BY InputNat DEF TypeOK
<1>2. \A v \in Nat : Whole(AlignDown(v, LocalGroupSize))
  <2>1. \A v \in Nat : v \div LocalGroupSize \in Nat
    BY <1>1, SMT
  <2> QED BY <2>1, Zenon DEF Whole, Multiple, AlignDown
<1>3. score[i] * TotalItems \in Nat
  <2>1. score[i] \in Nat
    BY ScoreNat DEF Looping
  <2> QED BY <1>1, <2>1, SMT
<1>4. Rounded(score[i] * TotalItems, totalCap) \in Nat
  BY <1>3, RoundedNat DEF TypeOK, Phases, Looping
<1>5. TotalItems - current \in Nat
  BY <1>1, SMT
<1> QED BY <1>2, <1>4, <1>5, Zenon DEF Granted, Share

LEMMA NextInGroups == IInv /\ InGroups /\ [Next]_vars => InGroups'
<1> SUFFICES ASSUME IInv, InGroups, [Next]_vars PROVE InGroups'
  OBVIOUS
<1>0. /\ LocalGroupSize' = LocalGroupSize
      /\ LocalGroupSize \in Nat \ {0}
      /\ subTasks \in Seq(SubTasks)
      /\ current \in Nat
  <2>1. LocalGroupSize' = LocalGroupSize
    BY InputFixed DEF input, LocalGroupSize
  <2> QED BY <2>1, InputNat DEF IInv, TypeOK
<1>1. CASE SumCapability \/ PassOver \/ StopShort \/ UNCHANGED vars
  <2>1. UNCHANGED <<current, subTasks>> /\ (Running' => Running)
    BY <1>1 DEF SumCapability, PassOver, StopShort, vars, Running
  <2> QED BY <1>0, <2>1 DEF InGroups, Whole
<1>2. CASE StartSplit
  <2>1. UNCHANGED <<current, subTasks>> /\ Running
    BY <1>2 DEF StartSplit, Running
  <2> QED BY <1>0, <2>1 DEF InGroups, Whole
<1>3. CASE Grant
  <2> DEFINE size == Granted(Share)
  <2> PICK n \in Nat : n = Len(subTasks)
    BY <1>0
  <2>1. Whole(size) /\ Whole(current)
    <3>1. current <= TotalItems
      BY <1>3 DEF IInv, Contiguous, Grant, Looping
    <3> QED BY <1>3, <3>1, GrantedWhole DEF IInv, InGroups, Running, Grant, Looping
  <2>2. Whole(current + size)
    BY <1>0, <2>1, WholeSum
  <2>3. subTasks' = Append(subTasks, SubTask(size)) /\ current' = current + size
    BY <1>3 DEF Grant
  <2> HIDE DEF size
  <2>4. /\ Len(subTasks') = n + 1
        /\ \A k \in 1..n : subTasks'[k] = subTasks[k]
        /\ subTasks'[n + 1].offset = current /\ subTasks'[n + 1].size = size
    BY <1>0, <2>3 DEF SubTask
  <2>5. ASSUME NEW v, Whole(v) PROVE Multiple(v, LocalGroupSize')
    BY <1>0, <2>5 DEF Whole
  <2>6. Running' => Multiple(current', LocalGroupSize')
    BY <2>2, <2>3, <2>5
  <2>7. ASSUME NEW k \in 1..(n + 1)
        PROVE  /\ Multiple(subTasks'[k].offset, LocalGroupSize')
               /\ k > 1 => Multiple(subTasks'[k].size, LocalGroupSize')
    <3>1. CASE k = n + 1
      BY <2>1, <2>4, <2>5, <3>1
    <3>2. CASE k # n + 1
      <4>1. k \in 1..n
        BY <3>2
      <4>2. Whole(subTasks[k].offset) /\ (k > 1 => Whole(subTasks[k].size))
        BY <4>1 DEF InGroups
      <4> QED BY <2>4, <2>5, <4>1, <4>2
    <3> QED BY <3>1, <3>2
  <2> QED BY <2>4, <2>6, <2>7 DEF InGroups, Whole
<1>4. CASE Finish
  <2>1. ~Running'
    BY <1>4 DEF Finish, Running
  <2>2. CASE subTasks = <<>>
    BY <1>0, <1>4, <2>1, <2>2 DEF Finish, InGroups, Whole
  <2>3. CASE subTasks # <<>>
    <3> PICK n \in Nat : n = Len(subTasks)
      BY <1>0
    <3>1. subTasks' = WithLeftover
      BY <1>4, <2>3 DEF Finish
    <3>2. /\ Len(subTasks') = n
          /\ \A k \in 1..n : subTasks'[k].offset = subTasks[k].offset
          /\ \A k \in 2..n : subTasks'[k] = subTasks[k]
      <4>1. \A k \in 1..n : subTasks[k] \in SubTasks
        BY <1>0
      <4> DEFINE first == [subTasks[1] EXCEPT !.size = @ + (TotalItems - current)]
      <4>2. 1 \in 1..n
        BY <1>0, <2>3
      <4>3. first.offset = subTasks[1].offset
        BY <4>1, <4>2 DEF SubTasks
      <4>4. subTasks' = [subTasks EXCEPT ![1] = first]
        BY <3>1, Zenon DEF WithLeftover
      <4> HIDE DEF first
      <4>5. /\ Len(subTasks') = n /\ subTasks'[1] = first
            /\ \A k \in 2..n : subTasks'[k] = subTasks[k]
        BY <1>0, <4>2, <4>4
      <4> QED BY <4>3, <4>5
    <3> QED BY <1>0, <2>1, <3>2 DEF InGroups, Whole
  <2> QED BY <2>2, <2>3
<1> QED BY <1>1, <1>2, <1>3, <1>4 DEF Next

(* Whatever was clamped, every subtask starts at a work-group boundary and *)
(* all but the first are whole groups, for any scores, sizes and groups.   *)
THEOREM SharesAligned == Spec => []GroupAligned
<1>1. Init => InGroups
  <2> SUFFICES ASSUME Init PROVE InGroups
    OBVIOUS
  <2>1. IInv
    BY InitIInv
  <2>2. LocalGroupSize \in Nat
    BY <2>1, InputNat DEF IInv
  <2>3. 0 = 0 * LocalGroupSize
    BY <2>2
  <2>4. Whole(0)
    BY <2>3, SMT DEF Whole, Multiple
  <2> QED BY <2>4, SMT DEF Init, InGroups
<1>2. IInv /\ InGroups => GroupAligned
  <2> SUFFICES ASSUME IInv, InGroups PROVE GroupAligned
    OBVIOUS
  <2>1. LocalGroupSize \in Nat \ {0}
    BY InputNat DEF IInv
  <2>2. ASSUME NEW v, Whole(v) PROVE v % LocalGroupSize = 0
    BY <2>1, <2>2, WholeMod DEF Whole, Multiple
  <2> QED BY <2>2 DEF InGroups, GroupAligned
<1> QED BY <1>1, <1>2, Invariance, NextInGroups, PTL DEF Spec
----------------------------------------------------------------------------

(* VendorKept.  What an installer may rely on follows from what it has     *)
(* still to do, and that is the rest s of a script for one DLL.            *)
Seek(d) == <<"test", d, BackupOf[d]>>
SetAside(d) == <<"keep", d, BackupOf[d]>>
Place(d) == Copy("build", d)
Rename32 == <<"rename", "opengl32_proxy", "opengl32">>
Look(d) == <<"test", BackupOf[d], "none">>
Restore(d) == <<"restore", BackupOf[d], d>>
Delete(d) == <<"remove", BackupOf[d], "none">>
Actions == {Seek(d) : d \in Dlls} \cup {SetAside(d) : d \in Dlls} \cup {Place(f) : f \in Names}
           \cup {Look(d) : d \in Dlls} \cup {Restore(d) : d \in Dlls} \cup {Delete(d) : d \in Dlls}
           \cup {Rename32}

Only(s, a) == Len(s) = 1 /\ s[1] = a
Two(s, a, b) == Len(s) = 2 /\ s[1] = a /\ s[2] = b
Three(s, a, b, c) == Len(s) = 3 /\ s[1] = a /\ s[2] = b /\ s[3] = c
Four(s, a, b, c, e) == Len(s) = 4 /\ s[1] = a /\ s[2] = b /\ s[3] = c /\ s[4] = e

ToSeek(d, s) ==
    \/ d # "opengl32" /\ Three(s, Seek(d), SetAside(d), Place(d))
    \/ d = "opengl32" /\ Four(s, Seek(d), SetAside(d), Place("opengl32_proxy"), Rename32)
ToKeep(d, s) ==
    \/ d # "opengl32" /\ Two(s, SetAside(d), Place(d))
    \/ d = "opengl32" /\ Three(s, SetAside(d), Place("opengl32_proxy"), Rename32)
ToReplace(d, s) ==
    \/ d # "opengl32" /\ Only(s, Place(d))
    \/ d = "opengl32" /\ (Two(s, Place("opengl32_proxy"), Rename32) \/ Only(s, Rename32))
ToLook(d, s) ==
    \/ d = "nvcuda" /\ Three(s, Look(d), Restore(d), Delete(d))
    \/ d = "OpenCL" /\ Two(s, Look(d), Restore(d))
ToRestore(d, s) ==
    \/ d = "nvcuda" /\ Two(s, Restore(d), Delete(d))
    \/ d = "OpenCL" /\ Only(s, Restore(d))
ToDelete(d, s) == d = "nvcuda" /\ Only(s, Delete(d))

LEMMA ScriptsAre ==
    ASSUME NEW s \in Scripts
    PROVE  s \in Seq(Actions) /\ \E d \in Dlls : ToSeek(d, s) \/ ToLook(d, s)
<1>1. ASSUME NEW d \in Dlls
      PROVE  Seek(d) \in Actions /\ SetAside(d) \in Actions /\ Place(d) \in Actions /\ Look(d) \in Actions
             /\ Restore(d) \in Actions /\ Delete(d) \in Actions
  BY DEF Actions, Names
<1>2. Place("opengl32_proxy") \in Actions /\ Rename32 \in Actions
  BY DEF Actions, Names
<1>3. ASSUME NEW d \in Dlls, d # "opengl32", s = Backup(d) \o <<Copy("build", d)>>
      PROVE  s \in Seq(Actions) /\ Three(s, Seek(d), SetAside(d), Place(d))
  <2>1. s = <<Seek(d), SetAside(d)>> \o <<Place(d)>>
    BY <1>3 DEF Backup, Seek, SetAside, Place
  <2>2. <<Seek(d), SetAside(d)>> \in Seq(Actions) /\ <<Place(d)>> \in Seq(Actions)
    BY <1>1
  <2> QED BY <2>1, <2>2 DEF Three
<1>4. CASE s = InstallICD
  BY <1>3, <1>4 DEF InstallICD, ToSeek, Dlls
<1>5. CASE s = HandleICDInstall
  BY <1>3, <1>5 DEF HandleICDInstall, ToSeek, Dlls
<1>6. CASE s = HandleGLProxyInstall
  <2> DEFINE d == "opengl32"
  <2>1. s = <<Seek(d), SetAside(d)>> \o <<Place("opengl32_proxy"), Rename32>>
    BY <1>6 DEF HandleGLProxyInstall, Backup, Seek, SetAside, Place, Rename32
  <2>2. d \in Dlls
    BY DEF Dlls
  <2>3. <<Seek(d), SetAside(d)>> \in Seq(Actions) /\ <<Place("opengl32_proxy"), Rename32>> \in Seq(Actions)
    BY <1>1, <1>2, <2>2
  <2>4. s \in Seq(Actions) /\ Four(s, Seek(d), SetAside(d), Place("opengl32_proxy"), Rename32)
    BY <2>1, <2>3 DEF Four
  <2> QED BY <2>2, <2>4 DEF ToSeek
<1>7. CASE s = UninstallICD
  <2> DEFINE d == "nvcuda"
  <2>1. s = <<Look(d), Restore(d), Delete(d)>> /\ d \in Dlls
    BY <1>7 DEF UninstallICD, Look, Restore, Delete, BackupOf, Dlls
  <2>2. s \in Seq(Actions) /\ Three(s, Look(d), Restore(d), Delete(d))
    BY <1>1, <2>1 DEF Three
  <2> QED BY <2>1, <2>2 DEF ToLook
<1>8. CASE s = HandleICDUninstall
  <2> DEFINE d == "OpenCL"
  <2>1. s = <<Look(d), Restore(d)>> /\ d \in Dlls
    BY <1>8 DEF HandleICDUninstall, Look, Restore, BackupOf, Dlls
  <2>2. s \in Seq(Actions) /\ Two(s, Look(d), Restore(d))
    BY <1>1, <2>1 DEF Two
  <2> QED BY <2>1, <2>2 DEF ToLook
<1> QED BY <1>4, <1>5, <1>6, <1>7, <1>8 DEF Scripts

(* What comes next, and what after it.                                     *)
LEMMA Steps ==
    ASSUME NEW d \in Dlls, NEW s \in Seq(Actions)
    PROVE  /\ ToSeek(d, s) => s # <<>> /\ Head(s) = Seek(d) /\ ToKeep(d, Tail(s))
           /\ ToKeep(d, s) => s # <<>> /\ Head(s) = SetAside(d) /\ ToReplace(d, Tail(s))
           /\ ToReplace(d, s) =>
                /\ s # <<>>
                /\ \/ d # "opengl32" /\ Head(s) = Place(d) /\ Tail(s) = <<>>
                   \/ d = "opengl32" /\ Head(s) = Place("opengl32_proxy") /\ ToReplace(d, Tail(s))
                   \/ d = "opengl32" /\ Head(s) = Rename32 /\ Tail(s) = <<>>
           /\ ToLook(d, s) => s # <<>> /\ Head(s) = Look(d) /\ ToRestore(d, Tail(s))
           /\ ToRestore(d, s) =>
                s # <<>> /\ Head(s) = Restore(d) /\ (ToDelete(d, Tail(s)) \/ Tail(s) = <<>>)
           /\ ToDelete(d, s) => s # <<>> /\ Head(s) = Delete(d) /\ Tail(s) = <<>>
           /\ s # <<>> => Tail(s) \in Seq(Actions)
<1>1. PICK t : t = Tail(s)
  OBVIOUS
<1>2. s # <<>> => Head(s) = s[1] /\ t \in Seq(Actions) /\ Len(t) = Len(s) - 1
  BY <1>1
<1>3. \A n \in 1..(Len(s) - 1) : t[n] = s[n + 1]
  BY <1>1
<1>4. Len(s) > 0 => s # <<>>
  OBVIOUS
<1>5. \A r \in Seq(Actions) : Len(r) = 0 => r = <<>>
  OBVIOUS
<1>6. ASSUME NEW a, Only(s, a) PROVE s # <<>> /\ Head(s) = a /\ t = <<>>
  BY <1>2, <1>4, <1>5, <1>6 DEF Only
<1>7. ASSUME NEW a, NEW b, Two(s, a, b) PROVE s # <<>> /\ Head(s) = a /\ Only(t, b)
  BY <1>2, <1>3, <1>4, <1>7 DEF Two, Only
<1>8. ASSUME NEW a, NEW b, NEW c, Three(s, a, b, c) PROVE s # <<>> /\ Head(s) = a /\ Two(t, b, c)
  BY <1>2, <1>3, <1>4, <1>8 DEF Three, Two
<1>9. ASSUME NEW a, NEW b, NEW c, NEW e, Four(s, a, b, c, e) PROVE s # <<>> /\ Head(s) = a /\ Three(t, b, c, e)
  BY <1>2, <1>3, <1>4, <1>9 DEF Four, Three
<1> USE <1>6, <1>7, <1>8, <1>9
<1>10. ToSeek(d, s) => s # <<>> /\ Head(s) = Seek(d) /\ ToKeep(d, t)
  BY DEF ToSeek, ToKeep
<1>11. ToKeep(d, s) => s # <<>> /\ Head(s) = SetAside(d) /\ ToReplace(d, t)
  BY DEF ToKeep, ToReplace
<1>12. ToReplace(d, s) =>
        /\ s # <<>>
        /\ \/ d # "opengl32" /\ Head(s) = Place(d) /\ t = <<>>
           \/ d = "opengl32" /\ Head(s) = Place("opengl32_proxy") /\ ToReplace(d, t)
           \/ d = "opengl32" /\ Head(s) = Rename32 /\ t = <<>>
  BY DEF ToReplace
<1>13. ToLook(d, s) => s # <<>> /\ Head(s) = Look(d) /\ ToRestore(d, t)
  BY DEF ToLook, ToRestore
<1>14. ToRestore(d, s) => s # <<>> /\ Head(s) = Restore(d) /\ (ToDelete(d, t) \/ t = <<>>)
  BY DEF ToRestore, ToDelete
<1>15. ToDelete(d, s) => s # <<>> /\ Head(s) = Delete(d) /\ t = <<>>
  BY DEF ToDelete
<1> QED BY <1>1, <1>2, <1>10, <1>11, <1>12, <1>13, <1>14, <1>15
----------------------------------------------------------------------------
FilesTypes ==
    /\ files \in [Names -> {"vendor", "proxy", "none", "partial"}]
    /\ vendors \subseteq Dlls
    /\ job \in [Jobs -> Seq(Actions)]
    /\ test \in [Jobs -> BOOLEAN]

LEMMA NextFilesTypes == FilesTypes /\ [FilesNext]_filesVars => FilesTypes'
<1> SUFFICES ASSUME FilesTypes, [FilesNext]_filesVars PROVE FilesTypes'
  OBVIOUS
<1> USE DEF FilesTypes
<1>1. ASSUME NEW j \in Jobs, NEW script \in Scripts, Begin(j, script) PROVE FilesTypes'
  BY <1>1, ScriptsAre DEF Begin
<1>2. ASSUME NEW j \in Jobs, Done(j), job[j] # <<>> PROVE job' \in [Jobs -> Seq(Actions)]
  BY <1>2, Steps DEF Done
<1>3. ASSUME NEW j \in Jobs, Test(j) PROVE FilesTypes'
  <2>1. (There(From(j)) /\ ~There(To(j))) \in BOOLEAN
    BY DEF There
  <2>2. test' \in [Jobs -> BOOLEAN]
    BY <1>3, <2>1 DEF Test
  <2> QED BY <1>2, <1>3, <2>2 DEF Test, Step
<1>4. ASSUME NEW j \in Jobs, Write(j) PROVE FilesTypes'
  BY <1>2, <1>4 DEF Write, Writes, Step, There
<1>5. ASSUME NEW j \in Jobs, WriteFails(j) PROVE FilesTypes'
  BY <1>2, <1>5 DEF WriteFails, Writes, Step
<1>6. ASSUME NEW j \in Jobs, Skip(j) \/ Rename(j) PROVE FilesTypes'
  BY <1>2, <1>6 DEF Skip, Rename, Writes, Step
<1>7. ASSUME NEW j \in Jobs, RemoveBackup(j) PROVE FilesTypes'
  BY <1>2, <1>7 DEF RemoveBackup, Step
<1>8. CASE Reboot
  <2>1. <<>> \in Seq(Actions) /\ "opengl32_proxy" \in Names
    BY DEF Names
  <2>2. files' \in [Names -> {"vendor", "proxy", "none", "partial"}]
    BY <1>8, <2>1 DEF Reboot
  <2> QED BY <1>8, <2>1, <2>2 DEF Reboot
<1>9. CASE UNCHANGED filesVars
  BY <1>9 DEF filesVars
<1> QED BY <1>1, <1>3, <1>4, <1>5, <1>6, <1>7, <1>8, <1>9 DEF FilesNext

LEMMA BackupNames ==
    /\ \A d \in Dlls : /\ d \in Names /\ BackupOf[d] \in Names /\ BackupOf[d] \notin Dlls
                       /\ {d, BackupOf[d]} \cap {"build", "opengl32_proxy", "none"} = {}
                       /\ \A e \in Dlls : BackupOf[d] = BackupOf[e] => d = e
    /\ {"build", "opengl32_proxy"} \subseteq Names /\ "none" \notin Names
    /\ "opengl32" \in Dlls
<1>1. BackupOf["OpenCL"] = "OpenCL_orig" /\ BackupOf["nvcuda"] = "nvcuda_orig" /\ BackupOf["opengl32"] = "opengl32_orig"
  BY DEF BackupOf
<1> QED BY <1>1 DEF Dlls, Names, Backups

LEMMA Fields ==
    /\ \A d : /\ Seek(d)[1] = "test" /\ Seek(d)[2] = d /\ Seek(d)[3] = BackupOf[d]
             /\ SetAside(d)[1] = "keep" /\ SetAside(d)[2] = d /\ SetAside(d)[3] = BackupOf[d]
             /\ Place(d)[1] = "copy" /\ Place(d)[2] = "build" /\ Place(d)[3] = d
             /\ Look(d)[1] = "test" /\ Look(d)[2] = BackupOf[d] /\ Look(d)[3] = "none"
             /\ Restore(d)[1] = "restore" /\ Restore(d)[2] = BackupOf[d] /\ Restore(d)[3] = d
             /\ Delete(d)[1] = "remove" /\ Delete(d)[2] = BackupOf[d]
    /\ Rename32[1] = "rename"
BY DEF Seek, SetAside, Place, Copy, Look, Restore, Delete, Rename32

(* A vendor's DLL is in its place or behind a proxy, and nothing but the   *)
(* vendor's is ever under the name of its backup.                          *)
Behind(d) == d \in vendors => files[BackupOf[d]] = "vendor"
Owned(d) == d \in vendors =>
    /\ files[d] = "vendor" \/ (files[d] = "proxy" /\ files[BackupOf[d]] = "vendor")
    /\ files[BackupOf[d]] \in {"none", "vendor"}

At(d, s, seen) ==
    \/ ToSeek(d, s)
    \/ ToKeep(d, s) /\ (seen <=> There(d) /\ ~There(BackupOf[d]))
    \/ ToReplace(d, s) /\ Behind(d)
    \/ ToLook(d, s)
    \/ ToRestore(d, s) /\ (seen => There(BackupOf[d]))
    \/ ToDelete(d, s) /\ (seen /\ d \in vendors => files[d] = "vendor")

OneInstaller ==
    /\ files["build"] = "proxy" /\ files["opengl32_proxy"] \in {"none", "proxy"}
    /\ \A d \in Dlls : Owned(d)
    /\ pending => Behind("opengl32")
    /\ \A j \in Jobs : job[j] = <<>> \/ \E d \in Dlls : At(d, job[j], test[j])
    /\ \A j, k \in Jobs : job[j] # <<>> /\ job[k] # <<>> => j = k

VendorInv == FilesTypes /\ (~failed /\ ~overlapped => OneInstaller)

LEMMA Advances ==
    ASSUME FilesTypes, OneInstaller, NEW j \in Jobs, job[j] # <<>>, Done(j)
    PROVE  /\ job'[j] = Tail(job[j])
           /\ \A k \in Jobs \ {j} : job'[k] = <<>>
           /\ job[j] \in Seq(Actions)
           /\ \E d \in Dlls : At(d, job[j], test[j])
BY DEF FilesTypes, OneInstaller, Done

LEMMA Concludes ==
    ASSUME NEW j \in Jobs, \A k \in Jobs \ {j} : job'[k] = <<>>,
           files'["build"] = "proxy", files'["opengl32_proxy"] \in {"none", "proxy"},
           \A d \in Dlls : Owned(d)',
           pending' => Behind("opengl32")',
           job'[j] = <<>> \/ \E d \in Dlls : At(d, job[j], test[j])'
    PROVE  OneInstaller'
BY DEF OneInstaller

LEMMA TestKeeps ==
    ASSUME FilesTypes, OneInstaller, NEW j \in Jobs, Test(j) PROVE OneInstaller'
<1> PICK s : s = job[j]
  OBVIOUS
<1>1. PICK d \in Dlls : At(d, s, test[j])
  BY Advances DEF Test, Step
<1>2. s \in Seq(Actions) /\ job'[j] = Tail(s) /\ \A k \in Jobs \ {j} : job'[k] = <<>>
  BY Advances DEF Test, Step
<1>3. /\ Head(s)[1] = "test" /\ UNCHANGED <<files, vendors, pending>>
      /\ test'[j] <=> There(Head(s)[2]) /\ ~There(Head(s)[3])
  BY DEF Test, Step, FilesTypes, From, To
<1>4. At(d, Tail(s), test'[j])
  <2>1. CASE ToSeek(d, s)
    <3>1. Head(s) = Seek(d) /\ ToKeep(d, Tail(s))
      BY <1>2, <2>1, Steps
    <3> QED BY <1>3, <3>1, Fields DEF At
  <2>2. CASE ToLook(d, s)
    <3>1. Head(s) = Look(d) /\ ToRestore(d, Tail(s))
      BY <1>2, <2>2, Steps
    <3> QED BY <1>3, <3>1, Fields DEF At
  <2> QED BY <1>1, <1>2, <1>3, <2>1, <2>2, Steps, Fields DEF At
<1>5. At(d, job[j], test[j])'
  BY <1>2, <1>3, <1>4 DEF At, There, Behind
<1>6. Behind("opengl32") <=> Behind("opengl32")'
  BY <1>3 DEF Behind
<1>7. \A e \in Dlls : Owned(e)'
  BY <1>3 DEF OneInstaller, Owned
<1> QED BY <1>2, <1>3, <1>5, <1>6, <1>7, Concludes DEF OneInstaller

(* What writing a name other than these leaves alone.                      *)
LEMMA OthersKept ==
    ASSUME FilesTypes, OneInstaller, NEW d \in Dlls, UNCHANGED vendors,
           \A f \in Names : f # d /\ f # BackupOf[d] => files'[f] = files[f]
    PROVE  /\ files'["build"] = "proxy" /\ files'["opengl32_proxy"] \in {"none", "proxy"}
           /\ \A e \in Dlls \ {d} : Owned(e)' /\ (Behind(e)' <=> Behind(e))
<1>1. files'["build"] = "proxy" /\ files'["opengl32_proxy"] \in {"none", "proxy"}
  BY BackupNames DEF OneInstaller
<1>2. \A e \in Dlls \ {d} : files'[e] = files[e] /\ files'[BackupOf[e]] = files[BackupOf[e]]
  BY BackupNames
<1> QED BY <1>1, <1>2 DEF OneInstaller, Owned, Behind

(* The five steps that change a file, for the DLL they are about.          *)
LEMMA KeepEffect ==
    ASSUME FilesTypes, OneInstaller, NEW d \in Dlls, There(d), ~There(BackupOf[d]),
           files' = [files EXCEPT ![BackupOf[d]] = files[d]], UNCHANGED vendors
    PROVE  Owned(d)' /\ Behind(d)' /\ \A f \in Names : f # BackupOf[d] => files'[f] = files[f]
<1>1. files'[BackupOf[d]] = files[d] /\ \A f \in Names : f # BackupOf[d] => files'[f] = files[f]
  BY BackupNames DEF FilesTypes
<1>2. d \in vendors => files[d] = "vendor"
  BY BackupNames DEF OneInstaller, Owned, There
<1>3. files'[d] = files[d]
  BY <1>1, BackupNames
<1> QED BY <1>1, <1>2, <1>3 DEF Owned, Behind

LEMMA PlaceEffect ==
    ASSUME FilesTypes, OneInstaller, NEW d \in Dlls, Behind(d),
           files' = [files EXCEPT ![d] = files["build"]], UNCHANGED vendors
    PROVE  Owned(d)' /\ Behind(d)' /\ \A f \in Names : f # d => files'[f] = files[f]
<1>1. files'[d] = "proxy" /\ \A f \in Names : f # d => files'[f] = files[f]
  BY BackupNames DEF FilesTypes, OneInstaller
<1>2. files'[BackupOf[d]] = files[BackupOf[d]]
  BY <1>1, BackupNames
<1> QED BY <1>1, <1>2 DEF Owned, Behind

LEMMA RestoreEffect ==
    ASSUME FilesTypes, OneInstaller, NEW d \in Dlls, There(BackupOf[d]),
           files' = [files EXCEPT ![d] = files[BackupOf[d]]], UNCHANGED vendors
    PROVE  /\ Owned(d)' /\ (Behind(d)' <=> Behind(d)) /\ (d \in vendors => files'[d] = "vendor")
           /\ \A f \in Names : f # d => files'[f] = files[f]
<1>1. files'[d] = files[BackupOf[d]] /\ \A f \in Names : f # d => files'[f] = files[f]
  BY BackupNames DEF FilesTypes
<1>2. d \in vendors => files[BackupOf[d]] = "vendor"
  BY DEF OneInstaller, Owned, There
<1>3. files'[BackupOf[d]] = files[BackupOf[d]]
  BY <1>1, BackupNames
<1> QED BY <1>1, <1>2, <1>3 DEF Owned, Behind

LEMMA DeleteEffect ==
    ASSUME FilesTypes, OneInstaller, NEW d \in Dlls, d \in vendors => files[d] = "vendor",
           files' = [files EXCEPT ![BackupOf[d]] = "none"], UNCHANGED vendors
    PROVE  Owned(d)' /\ \A f \in Names : f # BackupOf[d] => files'[f] = files[f]
<1>1. files'[BackupOf[d]] = "none" /\ \A f \in Names : f # BackupOf[d] => files'[f] = files[f]
  BY BackupNames DEF FilesTypes
<1>2. files'[d] = files[d]
  BY <1>1, BackupNames
<1> QED BY <1>1, <1>2 DEF Owned

LEMMA ProxyEffect ==
    ASSUME FilesTypes, OneInstaller,
           files' = [files EXCEPT !["opengl32_proxy"] = files["build"]], UNCHANGED vendors
    PROVE  /\ files'["build"] = "proxy" /\ files'["opengl32_proxy"] = "proxy"
           /\ \A d \in Dlls : Owned(d)' /\ (Behind(d)' <=> Behind(d))
<1>1. files'["opengl32_proxy"] = "proxy" /\ \A f \in Names : f # "opengl32_proxy" => files'[f] = files[f]
  BY BackupNames DEF FilesTypes, OneInstaller
<1>2. files'["build"] = "proxy"
  BY <1>1, BackupNames DEF OneInstaller
<1>3. \A d \in Dlls : files'[d] = files[d] /\ files'[BackupOf[d]] = files[BackupOf[d]]
  BY <1>1, BackupNames
<1> QED BY <1>1, <1>2, <1>3 DEF OneInstaller, Owned, Behind

(* Which DLL an installer is at, and what it relies on.                    *)
LEMMA WhereItIs ==
    ASSUME FilesTypes, OneInstaller, NEW j \in Jobs, job[j] # <<>>, Done(j)
    PROVE  /\ \A k \in Jobs \ {j} : job'[k] = <<>>
           /\ \E d \in Dlls :
                \/ /\ Head(job[j]) = Seek(d) /\ ToKeep(d, job'[j])
                \/ /\ Head(job[j]) = SetAside(d) /\ ToReplace(d, job'[j])
                   /\ test[j] <=> There(d) /\ ~There(BackupOf[d])
                \/ /\ d # "opengl32" /\ Head(job[j]) = Place(d) /\ job'[j] = <<>> /\ Behind(d)
                \/ /\ d = "opengl32" /\ Head(job[j]) = Place("opengl32_proxy")
                   /\ ToReplace(d, job'[j]) /\ Behind(d)
                \/ /\ d = "opengl32" /\ Head(job[j]) = Rename32 /\ job'[j] = <<>> /\ Behind(d)
                \/ /\ Head(job[j]) = Look(d) /\ ToRestore(d, job'[j])
                \/ /\ Head(job[j]) = Restore(d) /\ (ToDelete(d, job'[j]) \/ job'[j] = <<>>)
                   /\ test[j] => There(BackupOf[d])
                \/ /\ d = "nvcuda" /\ Head(job[j]) = Delete(d) /\ job'[j] = <<>>
                   /\ test[j] /\ d \in vendors => files[d] = "vendor"
<1>1. PICK s : s = job[j]
  OBVIOUS
<1>2. PICK d \in Dlls : At(d, s, test[j])
  BY <1>1, Advances
<1>3. s \in Seq(Actions) /\ job'[j] = Tail(s) /\ \A k \in Jobs \ {j} : job'[k] = <<>>
  BY <1>1, Advances
<1>4. CASE ToSeek(d, s)
  BY <1>1, <1>3, <1>4, Steps
<1>5. CASE ToKeep(d, s) /\ (test[j] <=> There(d) /\ ~There(BackupOf[d]))
  BY <1>1, <1>3, <1>5, Steps
<1>6. CASE ToReplace(d, s) /\ Behind(d)
  BY <1>1, <1>3, <1>6, Steps
<1>7. CASE ToLook(d, s)
  BY <1>1, <1>3, <1>7, Steps
<1>8. CASE ToRestore(d, s) /\ (test[j] => There(BackupOf[d]))
  BY <1>1, <1>3, <1>8, Steps
<1>9. CASE ToDelete(d, s) /\ (test[j] /\ d \in vendors => files[d] = "vendor")
  <2>1. d = "nvcuda"
    BY <1>9 DEF ToDelete
  <2> QED BY <1>1, <1>3, <1>9, <2>1, Steps
<1> QED BY <1>2, <1>3, <1>4, <1>5, <1>6, <1>7, <1>8, <1>9 DEF At

LEMMA WriteKeeps ==
    ASSUME FilesTypes, OneInstaller, NEW j \in Jobs, Write(j) PROVE OneInstaller'
<1>1. /\ job[j] # <<>> /\ Done(j) /\ There(From(j)) /\ UNCHANGED <<vendors, pending, test>>
      /\ files' = [files EXCEPT ![To(j)] = files[From(j)]]
      /\ Head(job[j])[1] = "copy" \/ (test[j] /\ Head(job[j])[1] \in {"keep", "restore"})
  BY DEF Write, Writes, Step
<1>2. \A k \in Jobs \ {j} : job'[k] = <<>>
  BY <1>1, WhereItIs
<1>3. ASSUME NEW d \in Dlls, Owned(d)', Behind(d) => Behind(d)',
             \A f \in Names : f # d /\ f # BackupOf[d] => files'[f] = files[f],
             job'[j] = <<>> \/ \E e \in Dlls : At(e, job[j], test[j])'
      PROVE  OneInstaller'
  <2>1. /\ files'["build"] = "proxy" /\ files'["opengl32_proxy"] \in {"none", "proxy"}
        /\ \A e \in Dlls \ {d} : Owned(e)' /\ (Behind(e)' <=> Behind(e))
    BY <1>1, <1>3, OthersKept
  <2>2. \A e \in Dlls : Owned(e)'
    BY <1>3, <2>1
  <2>3. pending' => Behind("opengl32")'
    BY <1>1, <1>3, <2>1, BackupNames DEF OneInstaller
  <2> QED BY <1>2, <1>3, <2>1, <2>2, <2>3, Concludes
<1>4. ASSUME NEW d \in Dlls, Head(job[j]) = SetAside(d), ToReplace(d, job'[j]),
             test[j] <=> There(d) /\ ~There(BackupOf[d])
      PROVE  OneInstaller'
  <2> DEFINE h == Head(job[j])
  <2>0. test[j] /\ From(j) = d /\ To(j) = BackupOf[d]
    <3>1. test[j] /\ h[2] = d /\ h[3] = BackupOf[d]
      BY <1>1, <1>4, Fields
    <3> QED BY <3>1 DEF From, To
  <2>1. test[j] /\ files' = [files EXCEPT ![BackupOf[d]] = files[d]]
    BY <1>1, <2>0
  <2>2. Owned(d)' /\ Behind(d)' /\ \A f \in Names : f # BackupOf[d] => files'[f] = files[f]
    BY <1>1, <1>4, <2>1, KeepEffect
  <2>3. At(d, job[j], test[j])'
    BY <1>4, <2>2 DEF At
  <2> QED BY <1>3, <2>2, <2>3
<1>5. ASSUME NEW d \in Dlls, Head(job[j]) = Place(d), job'[j] = <<>>, Behind(d)
      PROVE  OneInstaller'
  <2> DEFINE h == Head(job[j])
  <2>0. From(j) = "build" /\ To(j) = d
    <3>1. h[2] = "build" /\ h[3] = d
      BY <1>1, <1>5, Fields
    <3> QED BY <3>1 DEF From, To
  <2>1. files' = [files EXCEPT ![d] = files["build"]]
    BY <1>1, <2>0
  <2>2. Owned(d)' /\ Behind(d)' /\ \A f \in Names : f # d => files'[f] = files[f]
    BY <1>1, <1>5, <2>1, PlaceEffect
  <2> QED BY <1>3, <1>5, <2>2
<1>6. ASSUME Head(job[j]) = Place("opengl32_proxy"), ToReplace("opengl32", job'[j]), Behind("opengl32")
      PROVE  OneInstaller'
  <2> DEFINE h == Head(job[j])
  <2>0. From(j) = "build" /\ To(j) = "opengl32_proxy"
    <3>1. h[2] = "build" /\ h[3] = "opengl32_proxy"
      BY <1>1, <1>6, Fields
    <3> QED BY <3>1 DEF From, To
  <2>1. files' = [files EXCEPT !["opengl32_proxy"] = files["build"]]
    BY <1>1, <2>0
  <2>2. /\ files'["build"] = "proxy" /\ files'["opengl32_proxy"] = "proxy"
        /\ \A d \in Dlls : Owned(d)' /\ (Behind(d)' <=> Behind(d))
    BY <1>1, <2>1, ProxyEffect
  <2>3. At("opengl32", job[j], test[j])'
    BY <1>6, <2>2, BackupNames DEF At
  <2> QED BY <1>2, <1>6, <2>2, <2>3, Concludes, BackupNames
<1>7. ASSUME NEW d \in Dlls, Head(job[j]) = Restore(d), ToDelete(d, job'[j]) \/ job'[j] = <<>>,
             test[j] => There(BackupOf[d])
      PROVE  OneInstaller'
  <2> DEFINE h == Head(job[j])
  <2>0. test[j] /\ From(j) = BackupOf[d] /\ To(j) = d
    <3>1. test[j] /\ h[2] = BackupOf[d] /\ h[3] = d
      BY <1>1, <1>7, Fields
    <3> QED BY <3>1 DEF From, To
  <2>1. test[j] /\ files' = [files EXCEPT ![d] = files[BackupOf[d]]]
    BY <1>1, <2>0
  <2>2. /\ Owned(d)' /\ (Behind(d)' <=> Behind(d)) /\ (d \in vendors => files'[d] = "vendor")
        /\ \A f \in Names : f # d => files'[f] = files[f]
    BY <1>1, <1>7, <2>1, RestoreEffect
  <2>3. job'[j] = <<>> \/ At(d, job[j], test[j])'
    BY <1>1, <1>7, <2>2 DEF At
  <2> QED BY <1>3, <2>2, <2>3
<1>8. \A d : /\ Head(job[j]) # Seek(d) /\ Head(job[j]) # Look(d)
             /\ Head(job[j]) # Delete(d) /\ Head(job[j]) # Rename32
  BY <1>1, Fields
<1> QED BY <1>1, <1>4, <1>5, <1>6, <1>7, <1>8, WhereItIs

LEMMA SkipKeeps ==
    ASSUME FilesTypes, OneInstaller, NEW j \in Jobs, Skip(j) PROVE OneInstaller'
<1>1. /\ job[j] # <<>> /\ Done(j) /\ UNCHANGED <<files, vendors, pending, test>>
      /\ \/ Head(job[j])[1] \in {"copy", "keep", "restore"} /\ ~There(From(j))
         \/ ~test[j] /\ Head(job[j])[1] \in {"keep", "restore", "remove"}
  BY DEF Skip, Writes, Step
<1>2. \A k \in Jobs \ {j} : job'[k] = <<>>
  BY <1>1, WhereItIs
<1>3. /\ files'["build"] = "proxy" /\ files'["opengl32_proxy"] \in {"none", "proxy"}
      /\ pending' => Behind("opengl32")' 
      /\ \A e \in Dlls : Owned(e)' /\ (Behind(e)' <=> Behind(e))
  BY <1>1 DEF OneInstaller, Owned, Behind
<1>4. There("build")
  BY BackupNames DEF OneInstaller, There
<1>5. ASSUME NEW d \in Dlls, Head(job[j]) = SetAside(d), ToReplace(d, job'[j]),
             test[j] <=> There(d) /\ ~There(BackupOf[d])
      PROVE  At(d, job[j], test[j])'
  <2>1. ~There(d) \/ ~test[j]
    BY <1>1, <1>5, Fields DEF From
  <2>2. d \in vendors => files[d] # "none"
    BY DEF OneInstaller, Owned
  <2>3. d \in vendors => There(d)
    BY <2>2, BackupNames DEF There
  <2>4. d \in vendors => There(BackupOf[d])
    BY <1>5, <2>1, <2>3
  <2>5. Behind(d)
    BY <2>4 DEF Behind, OneInstaller, Owned, There
  <2> QED BY <1>3, <1>5, <2>5 DEF At
<1>6. ASSUME NEW d \in Dlls, Head(job[j]) = Restore(d), ToDelete(d, job'[j]) \/ job'[j] = <<>>,
             test[j] => There(BackupOf[d])
      PROVE  job'[j] = <<>> \/ At(d, job[j], test[j])'
  <2>1. ~test'[j]
    BY <1>1, <1>6, Fields DEF From
  <2> QED BY <1>6, <2>1 DEF At
<1>7. \A f : Head(job[j]) = Place(f) => FALSE
  BY <1>1, <1>4, Fields DEF From
<1>8. \A d : /\ Head(job[j]) # Seek(d) /\ Head(job[j]) # Look(d) /\ Head(job[j]) # Rename32
  BY <1>1, Fields
<1>9. job'[j] = <<>> \/ \E d \in Dlls : At(d, job[j], test[j])'
  BY <1>1, <1>5, <1>6, <1>7, <1>8, WhereItIs
<1> QED BY <1>2, <1>3, <1>9, Concludes

LEMMA RemoveKeeps ==
    ASSUME FilesTypes, OneInstaller, NEW j \in Jobs, RemoveBackup(j) PROVE OneInstaller'
<1>1. /\ job[j] # <<>> /\ Done(j) /\ UNCHANGED <<vendors, pending, test>> /\ test[j]
      /\ files' = [files EXCEPT ![From(j)] = "none"] /\ Head(job[j])[1] = "remove"
  BY DEF RemoveBackup, Step
<1>2. \A k \in Jobs \ {j} : job'[k] = <<>>
  BY <1>1, WhereItIs
<1>3. \A d : /\ Head(job[j]) # Seek(d) /\ Head(job[j]) # SetAside(d) /\ Head(job[j]) # Place(d)
             /\ Head(job[j]) # Look(d) /\ Head(job[j]) # Restore(d) /\ Head(job[j]) # Rename32
  BY <1>1, Fields
<1>4. PICK d \in Dlls : /\ d = "nvcuda" /\ Head(job[j]) = Delete(d) /\ job'[j] = <<>>
                        /\ test[j] /\ d \in vendors => files[d] = "vendor"
  BY <1>1, <1>3, WhereItIs
<1>5. files' = [files EXCEPT ![BackupOf[d]] = "none"]
  <2>1. From(j) = BackupOf[d]
    BY <1>4, Fields DEF From
  <2> QED BY <1>1, <2>1
<1>6. Owned(d)' /\ \A f \in Names : f # BackupOf[d] => files'[f] = files[f]
  BY <1>1, <1>4, <1>5, DeleteEffect
<1>7. /\ files'["build"] = "proxy" /\ files'["opengl32_proxy"] \in {"none", "proxy"}
      /\ \A e \in Dlls \ {d} : Owned(e)' /\ (Behind(e)' <=> Behind(e))
  BY <1>1, <1>6, OthersKept
<1>8. \A e \in Dlls : Owned(e)'
  BY <1>6, <1>7
<1>9. pending' => Behind("opengl32")'
  BY <1>1, <1>4, <1>7, BackupNames DEF OneInstaller
<1> QED BY <1>2, <1>4, <1>7, <1>8, <1>9, Concludes

LEMMA RenameKeeps ==
    ASSUME FilesTypes, OneInstaller, NEW j \in Jobs, Rename(j) PROVE OneInstaller'
<1>1. /\ job[j] # <<>> /\ Done(j) /\ UNCHANGED <<files, vendors, test>>
      /\ Head(job[j])[1] = "rename"
  BY DEF Rename, Step
<1>2. \A k \in Jobs \ {j} : job'[k] = <<>>
  BY <1>1, WhereItIs
<1>3. \A d : /\ Head(job[j]) # Seek(d) /\ Head(job[j]) # SetAside(d) /\ Head(job[j]) # Place(d)
             /\ Head(job[j]) # Look(d) /\ Head(job[j]) # Restore(d) /\ Head(job[j]) # Delete(d)
  BY <1>1, Fields
<1>4. Behind("opengl32") /\ job'[j] = <<>>
  BY <1>1, <1>3, WhereItIs
<1>5. /\ files'["build"] = "proxy" /\ files'["opengl32_proxy"] \in {"none", "proxy"}
      /\ Behind("opengl32")' /\ \A e \in Dlls : Owned(e)'
  BY <1>1, <1>4 DEF OneInstaller, Owned, Behind
<1> QED BY <1>2, <1>4, <1>5, Concludes

LEMMA BeginKeeps ==
    ASSUME FilesTypes, OneInstaller, NEW j \in Jobs, NEW script \in Scripts, Begin(j, script), ~overlapped'
    PROVE  OneInstaller'
<1>1. /\ UNCHANGED <<files, vendors, pending, test>>
      /\ \A k \in Jobs \ {j} : job'[k] = <<>>
      /\ job'[j] = script
  BY DEF Begin, FilesTypes
<1>2. \E d \in Dlls : At(d, job[j], test[j])'
  BY <1>1, ScriptsAre DEF At
<1>3. /\ files'["build"] = "proxy" /\ files'["opengl32_proxy"] \in {"none", "proxy"}
      /\ pending' => Behind("opengl32")' 
      /\ \A e \in Dlls : Owned(e)'
  BY <1>1 DEF OneInstaller, Owned, Behind
<1> QED BY <1>1, <1>2, <1>3, Concludes

LEMMA RebootKeeps == ASSUME FilesTypes, OneInstaller, Reboot PROVE OneInstaller'
<1>1. UNCHANGED vendors /\ ~pending' /\ \A j \in Jobs : job'[j] = <<>>
  BY DEF Reboot
<1>2. /\ files'["build"] = "proxy" /\ files'["opengl32_proxy"] \in {"none", "proxy"}
      /\ \A d \in Dlls : Owned(d)'
  <2>1. CASE ~(pending /\ There("opengl32_proxy"))
    BY <1>1, <2>1 DEF Reboot, OneInstaller, Owned
  <2>2. CASE pending /\ There("opengl32_proxy")
    <3>1. files' = [files EXCEPT !["opengl32"] = files["opengl32_proxy"], !["opengl32_proxy"] = "none"]
      BY <2>2 DEF Reboot
    <3>2. /\ files'["opengl32"] = files["opengl32_proxy"] /\ files'["opengl32_proxy"] = "none"
          /\ \A f \in Names \ {"opengl32", "opengl32_proxy"} : files'[f] = files[f]
      BY <3>1, BackupNames DEF FilesTypes
    <3>3. files["opengl32_proxy"] = "proxy" /\ files'["build"] = "proxy"
      BY <2>2, <3>2, BackupNames DEF OneInstaller, There
    <3>4. \A d \in Dlls : files'[BackupOf[d]] = files[BackupOf[d]] /\ (d # "opengl32" => files'[d] = files[d])
      BY <3>2, BackupNames
    <3>5. Owned("opengl32")'
      BY <1>1, <2>2, <3>2, <3>3, <3>4, BackupNames DEF OneInstaller, Owned, Behind
    <3>6. \A d \in Dlls : d # "opengl32" => Owned(d)'
      BY <1>1, <3>4 DEF OneInstaller, Owned
    <3> QED BY <3>2, <3>3, <3>5, <3>6
  <2> QED BY <2>1, <2>2
<1> QED BY <1>1, <1>2 DEF OneInstaller

LEMMA InitVendor == FilesInit => VendorInv
<1> SUFFICES ASSUME FilesInit PROVE VendorInv
  OBVIOUS
<1>1. \A f \in Names : files[f] = IF f \in vendors THEN "vendor" ELSE IF f = "build" THEN "proxy" ELSE "none"
  BY DEF FilesInit
<1>2. vendors \subseteq Dlls /\ <<>> \in Seq(Actions)
  BY DEF FilesInit
<1>3. FilesTypes
  BY <1>2 DEF FilesInit, FilesTypes
<1>4. files["build"] = "proxy" /\ files["opengl32_proxy"] = "none"
  BY <1>1, <1>2, BackupNames
<1>5. \A d \in Dlls : (d \in vendors => files[d] = "vendor") /\ files[BackupOf[d]] = "none"
  BY <1>1, <1>2, BackupNames
<1> QED BY <1>3, <1>4, <1>5 DEF VendorInv, OneInstaller, Owned, FilesInit

LEMMA NextVendor == VendorInv /\ [FilesNext]_filesVars => VendorInv'
<1> SUFFICES ASSUME VendorInv, [FilesNext]_filesVars, ~failed', ~overlapped' PROVE OneInstaller'
  BY NextFilesTypes DEF VendorInv
<1>1. FilesTypes
  BY DEF VendorInv
<1>2. CASE UNCHANGED filesVars
  <2>1. OneInstaller /\ UNCHANGED <<files, vendors, pending, job, test>>
    BY <1>2 DEF VendorInv, filesVars
  <2>2. \A d \in Dlls : (Owned(d) <=> Owned(d)') /\ (Behind(d) <=> Behind(d)')
    BY <2>1 DEF Owned, Behind
  <2>3. ASSUME NEW d \in Dlls, NEW j \in Jobs PROVE At(d, job[j], test[j]) <=> At(d, job[j], test[j])'
    BY <2>1, <2>2 DEF At, There
  <2> QED BY <2>1, <2>2, <2>3, BackupNames DEF OneInstaller
<1>3. CASE FilesNext
  <2>1. ASSUME NEW j \in Jobs, NEW script \in Scripts, Begin(j, script) PROVE OneInstaller'
    <3>1. OneInstaller
      BY <2>1 DEF VendorInv, Begin
    <3> QED BY <1>1, <2>1, <3>1, BeginKeeps
  <2>2. ASSUME NEW j \in Jobs, Test(j) \/ Write(j) \/ Skip(j) \/ RemoveBackup(j) \/ Rename(j)
        PROVE  OneInstaller'
    <3>1. OneInstaller
      BY <2>2 DEF VendorInv, Test, Write, Skip, RemoveBackup, Rename
    <3> QED BY <1>1, <2>2, <3>1, TestKeeps, WriteKeeps, SkipKeeps, RemoveKeeps, RenameKeeps
  <2>3. ASSUME NEW j \in Jobs, WriteFails(j) PROVE FALSE
    BY <2>3 DEF WriteFails
  <2>4. CASE Reboot
    <3>1. OneInstaller
      BY <2>4 DEF VendorInv, Reboot
    <3> QED BY <1>1, <2>4, <3>1, RebootKeeps
  <2> QED BY <1>3, <2>1, <2>2, <2>3, <2>4 DEF FilesNext
<1> QED BY <1>2, <1>3
----------------------------------------------------------------------------
(* ReadIsCurrent.  Nothing in the cache is older than the last Clear, the  *)
(* length covers what has been stored and is what a reader still holds,    *)
(* and vectors of the right size lie side by side.                         *)
KvTypes ==
    /\ cache \in [Layers -> [Cells -> Nat]]
    /\ last \in [Layers -> [Positions -> Nat]]
    /\ seqLen \in 0..MaxSeqLen /\ stores \in Nat /\ epoch \in 0..stores
    /\ spilled \in BOOLEAN
    /\ reader \in [Readers -> [at : Layers \cup {"idle"}, length : 0..MaxSeqLen, held : SUBSET Positions]]
    /\ got \in [Readers -> Seq(Nat)]

KvInv ==
    /\ KvTypes
    /\ \A l \in Layers, cell \in Cells : cache[l][cell] = 0 \/ (epoch < cache[l][cell] /\ cache[l][cell] <= stores)
    /\ \A l \in Layers, p \in Positions : last[l][p] # 0 => p < seqLen
    /\ ~spilled => \A l \in Layers, p \in Positions, n \in 0..(HeadDim - 1) :
                      cache[l][p * HeadDim + n] = last[l][p]
    /\ \A r \in Readers : \A p \in reader[r].held : p < reader[r].length

(* Where a vector lies, and that no other shares its numbers.              *)
LEMMA CellOf ==
    ASSUME KvAssumption, NEW p \in Positions, NEW n \in 0..(HeadDim - 1)
    PROVE  p * HeadDim + n \in Cells
<1>1. HeadDim \in Nat /\ MaxSeqLen \in Nat /\ p \in Nat /\ n \in Nat /\ p + 1 <= MaxSeqLen /\ n + 1 <= HeadDim
  BY DEF KvAssumption, Positions
<1>2. (p + 1) * HeadDim <= MaxSeqLen * HeadDim
  BY <1>1, SMT
<1>3. (p + 1) * HeadDim = p * HeadDim + HeadDim
  BY <1>1, SMT
<1>4. p * HeadDim \in Nat /\ MaxSeqLen * HeadDim \in Nat
  BY <1>1, SMT
<1> QED BY <1>1, <1>2, <1>3, <1>4, SMT DEF Cells

LEMMA WrittenIs ==
    ASSUME KvAssumption, NEW p \in Positions, NEW q \in Positions, NEW n \in 0..(HeadDim - 1)
    PROVE  p * HeadDim + n \in Written(q, HeadDim) <=> p = q
<1>1. HeadDim \in Nat /\ p \in Nat /\ q \in Nat /\ n \in Nat /\ n < HeadDim
  BY DEF KvAssumption, Positions
<1>2. p * HeadDim \in Nat /\ q * HeadDim \in Nat
  BY <1>1, SMT
<1>3. CASE p = q
  BY <1>1, <1>2, <1>3, CellOf DEF Written
<1>4. ASSUME p < q PROVE p * HeadDim + HeadDim <= q * HeadDim
  <2>1. (p + 1) * HeadDim <= q * HeadDim
    BY <1>1, <1>4, SMT
  <2> QED BY <1>1, <2>1, SMT
<1>5. ASSUME q < p PROVE q * HeadDim + HeadDim <= p * HeadDim
  <2>1. (q + 1) * HeadDim <= p * HeadDim
    BY <1>1, <1>5, SMT
  <2> QED BY <1>1, <2>1, SMT
<1> QED BY <1>1, <1>2, <1>3, <1>4, <1>5 DEF Written

LEMMA StoreKeeps ==
    ASSUME KvAssumption, KvInv, NEW l \in Layers, NEW pos \in Positions, NEW size \in 1..(2 * HeadDim),
           StoreVectors(l, pos, size)
    PROVE  KvInv'
<1>1. stores \in Nat /\ stores' = stores + 1 /\ stores' # 0
  BY DEF StoreVectors, KvInv, KvTypes
<1>2. /\ \A k \in Layers, cell \in Cells :
           cache'[k][cell] = IF k = l /\ cell \in Written(pos, size) THEN stores' ELSE cache[k][cell]
      /\ cache' \in [Layers -> [Cells -> Nat]]
  <2>1. [cell \in Cells |-> IF cell \in Written(pos, size) THEN stores' ELSE cache[l][cell]] \in [Cells -> Nat]
    BY <1>1 DEF KvInv, KvTypes
  <2>2. cache' = [cache EXCEPT ![l] = [cell \in Cells |-> IF cell \in Written(pos, size) THEN stores' ELSE cache[l][cell]]]
    BY DEF StoreVectors
  <2> QED BY <2>1, <2>2 DEF KvInv, KvTypes
<1>3. /\ \A k \in Layers, p \in Positions : last'[k][p] = IF k = l /\ p = pos THEN stores' ELSE last[k][p]
      /\ last' \in [Layers -> [Positions -> Nat]]
  BY <1>1 DEF StoreVectors, KvInv, KvTypes
<1>4. seqLen' \in 0..MaxSeqLen /\ seqLen <= seqLen' /\ pos < seqLen'
  BY DEF StoreVectors, Grow, KvInv, KvTypes, Positions, KvAssumption
<1>5. UNCHANGED <<reader, got, epoch>> /\ spilled' \in BOOLEAN /\ (~spilled' => ~spilled /\ size = HeadDim)
  BY DEF StoreVectors, KvInv, KvTypes
<1>6. KvTypes'
  BY <1>1, <1>2, <1>3, <1>4, <1>5 DEF KvInv, KvTypes
<1>7. \A k \in Layers, cell \in Cells :
        cache'[k][cell] = 0 \/ (epoch' < cache'[k][cell] /\ cache'[k][cell] <= stores')
  <2> SUFFICES ASSUME NEW k \in Layers, NEW cell \in Cells
               PROVE  cache'[k][cell] = 0 \/ (epoch' < cache'[k][cell] /\ cache'[k][cell] <= stores')
    OBVIOUS
  <2>1. epoch \in Nat /\ epoch <= stores /\ cache[k][cell] \in Nat
    BY <1>1 DEF KvInv, KvTypes
  <2>2. cache'[k][cell] = stores' \/ cache'[k][cell] = cache[k][cell]
    BY <1>2
  <2>3. cache[k][cell] = 0 \/ (epoch < cache[k][cell] /\ cache[k][cell] <= stores)
    BY DEF KvInv
  <2> QED BY <1>1, <1>5, <2>1, <2>2, <2>3
<1>8. \A k \in Layers, p \in Positions : last'[k][p] # 0 => p < seqLen'
  <2> SUFFICES ASSUME NEW k \in Layers, NEW p \in Positions, last'[k][p] # 0 PROVE p < seqLen'
    OBVIOUS
  <2>1. p = pos \/ p < seqLen
    BY <1>3 DEF KvInv
  <2>2. seqLen \in Nat /\ seqLen' \in Nat /\ p \in Nat
    BY <1>4 DEF KvInv, KvTypes, Positions, KvAssumption
  <2> QED BY <1>4, <2>1, <2>2
<1>9. ~spilled' => \A k \in Layers, p \in Positions, n \in 0..(HeadDim - 1) :
                      cache'[k][p * HeadDim + n] = last'[k][p]
  <2> SUFFICES ASSUME ~spilled', NEW k \in Layers, NEW p \in Positions, NEW n \in 0..(HeadDim - 1)
               PROVE  cache'[k][p * HeadDim + n] = last'[k][p]
    OBVIOUS
  <2> PICK cell \in Cells : cell = p * HeadDim + n
    BY CellOf
  <2>1. cache[k][cell] = last[k][p]
    BY <1>5 DEF KvInv
  <2>2. cell \in Written(pos, size) <=> p = pos
    BY <1>5, WrittenIs
  <2> QED BY <1>2, <1>3, <2>1, <2>2
<1>10. \A r \in Readers : \A p \in reader'[r].held : p < reader'[r].length
  BY <1>5 DEF KvInv
<1> QED BY <1>6, <1>7, <1>8, <1>9, <1>10 DEF KvInv

LEMMA ClearKeeps == ASSUME KvAssumption, KvInv, Clear PROVE KvInv'
<1>1. /\ cache' = [l \in Layers |-> Zeros] /\ last' = [l \in Layers |-> [p \in Positions |-> 0]]
      /\ seqLen' = 0 /\ epoch' = stores /\ UNCHANGED <<stores, spilled>>
  BY DEF Clear, Erased
<1>2. UNCHANGED <<reader, got>>
  BY DEF Clear
<1>3. Zeros \in [Cells -> Nat] /\ \A cell \in Cells : Zeros[cell] = 0
  BY DEF Zeros
<1>4. KvTypes'
  BY <1>1, <1>2, <1>3 DEF KvInv, KvTypes, KvAssumption
<1>5. \A l \in Layers, p \in Positions, n \in 0..(HeadDim - 1) : cache'[l][p * HeadDim + n] = last'[l][p]
  BY <1>1, <1>3, CellOf
<1> QED BY <1>1, <1>2, <1>3, <1>4, <1>5 DEF KvInv

LEMMA ReadKeeps ==
    ASSUME KvAssumption, KvInv, NEW r \in Readers, (\E l \in Layers : GetKeys(r, l)) \/ Contents(r)
    PROVE  KvInv'
<1>1. UNCHANGED <<cache, seqLen, stores, epoch, last, spilled>>
  BY DEF GetKeys, Contents
<1>2. CASE \E l \in Layers : GetKeys(r, l)
  <2>1. Stored \subseteq Positions /\ seqLen \in 0..MaxSeqLen /\ \A p \in Stored : p < seqLen
    BY DEF Stored, KvInv, KvTypes
  <2>2. <<>> \in Seq(Nat)
    OBVIOUS
  <2>3. PICK l \in Layers : GetKeys(r, l)
    BY <1>2
  <2>4. CASE seqLen = 0
    <3>1. UNCHANGED reader /\ got' \in [Readers -> Seq(Nat)]
      BY <2>2, <2>3, <2>4 DEF GetKeys, KvInv, KvTypes
    <3> QED BY <1>1, <3>1 DEF KvInv, KvTypes
  <2>5. CASE seqLen # 0
    <3> DEFINE one == [at |-> l, length |-> seqLen, held |-> Stored]
    <3>1. UNCHANGED got /\ reader' = [reader EXCEPT ![r] = one]
      BY <2>3, <2>5 DEF GetKeys
    <3>2. one \in [at : Layers \cup {"idle"}, length : 0..MaxSeqLen, held : SUBSET Positions]
      BY <2>1
    <3>3. \A p \in one.held : p < one.length
      BY <2>1
    <3> HIDE DEF one
    <3> QED BY <1>1, <3>1, <3>2, <3>3 DEF KvInv, KvTypes
  <2> QED BY <2>4, <2>5
<1>3. CASE Contents(r)
  <2>1. reader' = [reader EXCEPT ![r] = Nowhere]
    BY <1>3 DEF Contents
  <2>2. Nowhere \in [at : Layers \cup {"idle"}, length : 0..MaxSeqLen, held : SUBSET Positions]
    BY DEF Nowhere, KvAssumption
  <2>3. got' \in [Readers -> Seq(Nat)]
    <3>1. PICK l \in Layers, m \in 0..MaxSeqLen : l = reader[r].at /\ m = reader[r].length
      BY <1>3 DEF Contents, KvInv, KvTypes
    <3>2. m * HeadDim \in Nat /\ m * HeadDim <= MaxSeqLen * HeadDim /\ MaxSeqLen * HeadDim \in Nat
      BY SMT DEF KvAssumption
    <3>3. \A n \in 1..(m * HeadDim) : n - 1 \in Cells
      BY <3>2, SMT DEF Cells
    <3>4. [n \in 1..(m * HeadDim) |-> cache[l][n - 1]] \in Seq(Nat)
      <4>1. \A n \in 1..(m * HeadDim) : cache[l][n - 1] \in Nat
        BY <3>3 DEF KvInv, KvTypes
      <4> QED BY <3>2, <4>1
    <3> QED BY <1>3, <3>1, <3>4 DEF Contents, KvInv, KvTypes
  <2>4. /\ reader' \in [Readers -> [at : Layers \cup {"idle"}, length : 0..MaxSeqLen, held : SUBSET Positions]]
        /\ \A s \in Readers : reader'[s] \in {reader[s], Nowhere}
    BY <2>1, <2>2 DEF KvInv, KvTypes
  <2>5. \A s \in Readers : \A p \in reader'[s].held : p < reader'[s].length
    BY <2>4 DEF KvInv, Nowhere
  <2> QED BY <1>1, <2>3, <2>4, <2>5 DEF KvInv, KvTypes
<1> QED BY <1>2, <1>3

LEMMA InitKv == ASSUME KvAssumption, KvInit PROVE KvInv
<1>1. Zeros \in [Cells -> Nat] /\ \A cell \in Cells : Zeros[cell] = 0
  BY DEF Zeros
<1>2. KvTypes
  <2>1. Nowhere \in [at : Layers \cup {"idle"}, length : 0..MaxSeqLen, held : SUBSET Positions]
    BY DEF Nowhere, KvAssumption
  <2>2. <<>> \in Seq(Nat)
    OBVIOUS
  <2>3. reader \in [Readers -> [at : Layers \cup {"idle"}, length : 0..MaxSeqLen, held : SUBSET Positions]]
    BY <2>1 DEF KvInit
  <2>4. cache \in [Layers -> [Cells -> Nat]] /\ last \in [Layers -> [Positions -> Nat]]
    BY <1>1 DEF KvInit
  <2>5. got \in [Readers -> Seq(Nat)]
    BY <2>2 DEF KvInit
  <2>6. seqLen \in 0..MaxSeqLen /\ stores \in Nat /\ epoch \in 0..stores
    BY DEF KvInit, KvAssumption
  <2>7. spilled \in BOOLEAN
    BY Zenon DEF KvInit
  <2> QED BY <2>3, <2>4, <2>5, <2>6, <2>7 DEF KvTypes
<1> QED BY <1>1, <1>2, CellOf DEF KvInit, KvInv, Nowhere

LEMMA NextKv == ASSUME KvAssumption, KvInv, [KvNext]_kvVars PROVE KvInv'
<1>1. CASE UNCHANGED kvVars
  BY <1>1 DEF kvVars, KvInv, KvTypes, Cells, Positions
<1> QED BY <1>1, StoreKeeps, ClearKeeps, ReadKeeps DEF KvNext

(* What the second half of a read returns.                                 *)
LEMMA ReadRight ==
    ASSUME KvAssumption, KvInv, KvNext, NEW r \in Readers, Returns(r)
    PROVE  /\ \A n \in DOMAIN got'[r] : got'[r][n] = 0 \/ got'[r][n] > epoch
           /\ \A p \in reader[r].held : Len(got'[r]) >= (p + 1) * HeadDim
           /\ ~spilled => \A p \in 0..(reader[r].length - 1) : Vector(got'[r], p) = {last[reader[r].at][p]}
<1>1. Contents(r)
  <2>1. ~UNCHANGED reader
    BY DEF Returns
  <2>2. ASSUME NEW s \in Readers, NEW l \in Layers, GetKeys(s, l) PROVE FALSE
    BY <2>2 DEF GetKeys, Returns, KvInv, KvTypes
  <2>3. ~Clear
    BY DEF Clear, Returns, KvInv, KvTypes
  <2>4. PICK s \in Readers : Contents(s)
    BY <2>1, <2>2, <2>3 DEF KvNext, StoreVectors
  <2>5. s = r
    BY <2>4 DEF Contents, Returns, KvInv, KvTypes
  <2> QED BY <2>4, <2>5
<1>2. PICK l \in Layers, m \in 0..MaxSeqLen : l = reader[r].at /\ m = reader[r].length
  BY <1>1 DEF Contents, KvInv, KvTypes
<1>3. m * HeadDim \in Nat /\ m * HeadDim <= MaxSeqLen * HeadDim /\ MaxSeqLen * HeadDim \in Nat
  BY SMT DEF KvAssumption
<1>4. \A n \in 1..(m * HeadDim) : n - 1 \in Cells
  BY <1>3, SMT DEF Cells
<1>5. /\ DOMAIN got'[r] = 1..(m * HeadDim) /\ Len(got'[r]) = m * HeadDim
      /\ \A n \in 1..(m * HeadDim) : got'[r][n] = cache[l][n - 1]
  BY <1>1, <1>2, <1>3 DEF Contents, KvInv, KvTypes
<1>6. \A n \in DOMAIN got'[r] : got'[r][n] = 0 \/ got'[r][n] > epoch
  BY <1>4, <1>5 DEF KvInv, KvTypes
<1>7. \A p \in reader[r].held : Len(got'[r]) >= (p + 1) * HeadDim
  <2> TAKE p \in reader[r].held
  <2>1. p \in Nat /\ p + 1 <= m
    <3>1. p \in Positions /\ p < reader[r].length
      BY DEF KvInv, KvTypes
    <3> QED BY <1>2, <3>1 DEF Positions, KvAssumption
  <2> QED BY <1>5, <2>1, SMT DEF KvAssumption
<1>8. ASSUME ~spilled, NEW p \in 0..(m - 1) PROVE Vector(got'[r], p) = {last[l][p]}
  <2>1. p \in Positions /\ HeadDim \in Nat
    BY DEF Positions, KvAssumption
  <2>2. ASSUME NEW n \in 1..HeadDim PROVE got'[r][p * HeadDim + n] = last[l][p]
    <3>1. n - 1 \in 0..(HeadDim - 1) /\ p * HeadDim \in Nat
      BY <2>1, SMT DEF Positions, KvAssumption
    <3>2. cache[l][p * HeadDim + (n - 1)] = last[l][p]
      BY <1>8, <2>1, <3>1 DEF KvInv
    <3>3. p * HeadDim + HeadDim <= m * HeadDim
      <4>1. (p + 1) * HeadDim <= m * HeadDim
        BY <2>1, SMT
      <4> QED BY <2>1, <4>1, SMT
    <3>4. p * HeadDim + n \in 1..(m * HeadDim) /\ (p * HeadDim + n) - 1 = p * HeadDim + (n - 1)
      BY <1>3, <2>1, <3>1, <3>3
    <3> QED BY <1>5, <3>2, <3>4
  <2>3. 1 \in 1..HeadDim
    BY DEF KvAssumption
  <2> QED BY <2>2, <2>3 DEF Vector
<1> QED BY <1>2, <1>6, <1>7, <1>8
----------------------------------------------------------------------------
(* SizesAddUp.  Its function takes the sizes one after the other, as the   *)
(* loop gives them out: b is that function for the subtasks so far.        *)
Adds(b, s) == b = [n \in 0..Len(s) |-> IF n = 0 THEN 0 ELSE b[n - 1] + s[n].size]
HasSum(s, v) == \E b : Adds(b, s) /\ b \in [0..Len(s) -> Nat] /\ b[Len(s)] = v
SumOf(s) == (CHOOSE b : Adds(b, s))[Len(s)]

LEMMA SumIsFold == SizesAddUp <=> (result = "ok" => SumOf(subTasks) = TotalItems)
BY DEF SizesAddUp, SumOf, Adds

LEMMA SumIsOne ==
    ASSUME NEW s \in Seq(SubTasks), NEW v, HasSum(s, v) PROVE SumOf(s) = v
<1>1. PICK b : Adds(b, s) /\ b[Len(s)] = v
  BY DEF HasSum
<1> PICK g : g = CHOOSE a : Adds(a, s)
  OBVIOUS
<1>2. Adds(g, s)
  BY <1>1
<1> PICK n : n = Len(s)
  OBVIOUS
<1> PICK N : N = {m \in 0..n : g[m] = b[m]}
  OBVIOUS
<1>3. n \in Nat /\ 0 \in N
  <2>1. n \in Nat /\ 0 \in 0..n
    OBVIOUS
  <2>2. g[0] = 0 /\ b[0] = 0
    BY <1>1, <1>2, <2>1 DEF Adds
  <2> QED BY <2>1, <2>2
<1>4. ASSUME NEW m \in N, m < n PROVE m + 1 \in N
  <2>1. m \in 0..n /\ m + 1 \in 0..n /\ m + 1 # 0 /\ (m + 1) - 1 = m
    BY <1>3, <1>4
  <2>2. g[m + 1] = g[m] + s[m + 1].size
    BY <1>2, <2>1 DEF Adds
  <2>3. b[m + 1] = b[m] + s[m + 1].size
    BY <1>1, <2>1 DEF Adds
  <2> QED BY <2>1, <2>2, <2>3
<1>5. n \in N
  BY <1>3, <1>4, Reaches
<1> QED BY <1>1, <1>5 DEF SumOf

LEMMA SumOfNone == HasSum(<<>>, 0)
<1> PICK b : b = [n \in 0..0 |-> 0]
  OBVIOUS
<1>1. Adds(b, <<>>) /\ b \in [0..0 -> Nat] /\ b[0] = 0
  BY DEF Adds
<1> QED BY <1>1 DEF HasSum

LEMMA SumOfMore ==
    ASSUME NEW s \in Seq(SubTasks), NEW v, HasSum(s, v), NEW t \in SubTasks
    PROVE  HasSum(Append(s, t), v + t.size)
<1>1. PICK b : Adds(b, s) /\ b \in [0..Len(s) -> Nat] /\ b[Len(s)] = v
  BY DEF HasSum
<1> PICK n, r : n = Len(s) /\ r = Append(s, t)
  OBVIOUS
<1>2. n \in Nat /\ Len(r) = n + 1 /\ r[n + 1] = t /\ \A m \in 1..n : r[m] = s[m]
  OBVIOUS
<1>3. t.size \in Nat
  BY DEF SubTasks
<1> PICK g : g = [m \in 0..(n + 1) |-> IF m = n + 1 THEN v + t.size ELSE b[m]]
  OBVIOUS
<1>4. g \in [0..Len(r) -> Nat] /\ g[Len(r)] = v + t.size
  BY <1>1, <1>2, <1>3
<1>5. ASSUME NEW m \in 0..(n + 1) PROVE g[m] = IF m = 0 THEN 0 ELSE g[m - 1] + r[m].size
  <2>1. CASE m = n + 1
    BY <1>1, <1>2, <2>1
  <2>2. CASE m # n + 1
    <3>1. m \in 0..n /\ g[m] = b[m] /\ (m # 0 => m - 1 \in 0..n /\ g[m - 1] = b[m - 1] /\ r[m] = s[m])
      BY <1>2, <2>2
    <3>2. b[m] = IF m = 0 THEN 0 ELSE b[m - 1] + s[m].size
      BY <1>1, <3>1 DEF Adds
    <3> QED BY <3>1, <3>2
  <2> QED BY <2>1, <2>2
<1>6. Adds(g, r)
  BY <1>2, <1>5 DEF Adds
<1> QED BY <1>4, <1>6 DEF HasSum

LEMMA SumOfEnlarged ==
    ASSUME NEW s \in Seq(SubTasks), s # <<>>, NEW v, HasSum(s, v), NEW more \in Nat
    PROVE  HasSum([s EXCEPT ![1].size = @ + more], v + more)
<1>1. PICK b : Adds(b, s) /\ b \in [0..Len(s) -> Nat] /\ b[Len(s)] = v
  BY DEF HasSum
<1> PICK n, r : n = Len(s) /\ r = [s EXCEPT ![1].size = @ + more]
  OBVIOUS
<1>2. n \in Nat \ {0} /\ Len(r) = n
  OBVIOUS
<1>3. r[1].size = s[1].size + more /\ s[1].size \in Nat /\ \A m \in 1..n : m # 1 => r[m] = s[m]
  <2> PICK first : first = [s[1] EXCEPT !.size = @ + more]
    OBVIOUS
  <2>1. s[1] \in SubTasks
    BY <1>2
  <2>2. first.size = s[1].size + more /\ s[1].size \in Nat
    BY <2>1 DEF SubTasks
  <2>3. r = [s EXCEPT ![1] = first]
    BY Zenon
  <2> QED BY <1>2, <2>2, <2>3
<1> PICK g : g = [m \in 0..n |-> IF m = 0 THEN 0 ELSE b[m] + more]
  OBVIOUS
<1>4. g \in [0..n -> Nat] /\ g[n] = v + more
  BY <1>1, <1>2
<1>5. ASSUME NEW m \in 0..n PROVE g[m] = IF m = 0 THEN 0 ELSE g[m - 1] + r[m].size
  <2>1. CASE m = 0
    BY <2>1
  <2>2. CASE m = 1
    <3>1. b[1] = b[0] + s[1].size /\ b[0] = 0
      BY <1>1, <1>2, <2>2 DEF Adds
    <3>2. g[0] = 0 /\ g[1] = b[1] + more
      BY <1>2
    <3> QED BY <1>3, <2>2, <3>1, <3>2
  <2>3. CASE m # 0 /\ m # 1
    <3>1. m - 1 \in 0..n /\ m - 1 # 0 /\ r[m] = s[m] /\ s[m].size \in Nat
      <4>1. m \in 1..n
        BY <2>3
      <4>2. s[m] \in SubTasks
        BY <4>1
      <4>3. s[m].size \in Nat
        BY <4>2 DEF SubTasks
      <4> QED BY <1>3, <2>3, <4>1, <4>3
    <3>2. b[m] = b[m - 1] + s[m].size /\ b[m - 1] \in Nat
      BY <1>1, <2>3, <3>1 DEF Adds
    <3>3. g[m] = b[m] + more /\ g[m - 1] = b[m - 1] + more
      BY <2>3, <3>1
    <3> QED BY <2>3, <3>1, <3>2, <3>3
  <2> QED BY <2>1, <2>2, <2>3
<1>6. Adds(g, r)
  BY <1>2, <1>5 DEF Adds
<1> QED BY <1>2, <1>4, <1>6 DEF HasSum

SumInv == HasSum(subTasks, IF result = "ok" THEN TotalItems ELSE current)

LEMMA NextSum == IInv /\ SumInv /\ [Next]_vars => SumInv'
<1> SUFFICES ASSUME IInv, SumInv, [Next]_vars PROVE SumInv'
  OBVIOUS
<1>1. TotalItems' = TotalItems /\ TotalItems \in Nat /\ current \in Nat /\ subTasks \in Seq(SubTasks)
  BY InputFixed, InputNat DEF IInv, TypeOK
<1>2. CASE SumCapability \/ PassOver \/ StopShort \/ StartSplit \/ UNCHANGED vars
  <2>1. UNCHANGED <<subTasks, current>> /\ (result' = "ok" <=> result = "ok")
    BY <1>2 DEF SumCapability, PassOver, StopShort, StartSplit, vars
  <2> QED BY <1>1, <2>1 DEF SumInv
<1>3. CASE Grant
  <2> PICK size : size = Granted(Share)
    OBVIOUS
  <2>1. /\ subTasks' = Append(subTasks, SubTask(size)) /\ current' = current + size
        /\ result # "ok" /\ result' # "ok" /\ HasSum(subTasks, current)
    BY <1>3 DEF Grant, Looping, SumInv
  <2>2. SubTask(size) \in SubTasks
    <3>1. current <= TotalItems
      BY <1>3 DEF IInv, Contiguous, Grant, Looping
    <3>2. size \in Nat \ {0}
      BY <1>3, <3>1, GrantedFits DEF IInv, Grant
    <3>3. i \in List
      BY <1>3, ScoreNat DEF IInv, Grant, Looping
    <3> QED BY <1>1, <3>2, <3>3 DEF SubTask, SubTasks
  <2>3. HasSum(subTasks', current + SubTask(size).size)
    BY <1>1, <2>1, <2>2, SumOfMore
  <2> QED BY <2>1, <2>3 DEF SubTask, SumInv
<1>4. CASE Finish
  <2>1. result = "loop" /\ HasSum(subTasks, current) /\ current' = current
    BY <1>4 DEF Finish, SumInv
  <2>2. CASE subTasks = <<>>
    BY <1>4, <2>1, <2>2 DEF Finish, SumInv
  <2>3. CASE subTasks # <<>>
    <3>1. result' = "ok" /\ subTasks' = [subTasks EXCEPT ![1].size = @ + (TotalItems - current)]
      BY <1>4, <2>3 DEF Finish, WithLeftover
    <3>2. current <= TotalItems
      BY <2>1 DEF IInv, Contiguous
    <3>3. TotalItems - current \in Nat /\ current + (TotalItems - current) = TotalItems
      BY <1>1, <3>2
    <3>4. HasSum(subTasks', TotalItems)
      <4> PICK more : more = TotalItems - current
        OBVIOUS
      <4>1. HasSum([subTasks EXCEPT ![1].size = @ + more], current + more)
        BY <1>1, <2>1, <2>3, <3>3, SumOfEnlarged
      <4> QED BY <3>1, <3>3, <4>1
    <3> QED BY <1>1, <3>1, <3>4 DEF SumInv
  <2> QED BY <2>2, <2>3
<1> QED BY <1>2, <1>3, <1>4 DEF Next

(* The sizes of a finished split add up to the launch: what the clamps and *)
(* the workers passed over left out, the first subtask gets                *)
(* (split.go:162-210).                                                     *)
THEOREM SharesAddUp == Spec => []SizesAddUp
<1>1. Init => SumInv
  BY SumOfNone DEF Init, SumInv
<1>2. IInv /\ SumInv => SizesAddUp
  <2> SUFFICES ASSUME IInv, SumInv, result = "ok" PROVE SumOf(subTasks) = TotalItems
    BY SumIsFold
  <2>1. subTasks \in Seq(SubTasks) /\ HasSum(subTasks, TotalItems)
    BY DEF IInv, TypeOK, SumInv
  <2> QED BY <2>1, SumIsOne
<1> QED BY <1>1, <1>2, NextSum, Invariance, PTL DEF Spec
----------------------------------------------------------------------------
(* The parts together.                                                     *)
LEMMA PartsSteps ==
    ASSUME [PartsNext]_partsVars
    PROVE  /\ [KernelsNext]_kernelsVars /\ [MemoryNext]_memoryVars /\ [Next]_vars
           /\ [KvNext]_kvVars /\ [FilesNext]_filesVars
BY DEF PartsNext, KernelsPart, MemoryPart, SplitPart, CachePart, FilesPart, partsVars

(* A behaviour of the program is one of each of its parts: none of them    *)
(* disturbs another.                                                       *)
THEOREM PartsKeepApart ==
    PartsSpec => /\ KernelsSpec /\ MemorySpec /\ Spec
                 /\ KvInit /\ [][KvNext]_kvVars
                 /\ FilesInit /\ [][FilesNext]_filesVars
<1>1. PartsInit => KernelsInit /\ MemoryInit /\ Init /\ KvInit /\ FilesInit
  BY DEF PartsInit
<1> QED BY <1>1, PartsSteps, PTL DEF PartsSpec, KernelsSpec, MemorySpec, Spec

(* As long as installers run one at a time and no step of them fails, a    *)
(* vendor's DLL is in its place or is the backup its proxy hands on to,    *)
(* whatever is run, how often, and wherever it is cut off                  *)
(* (pkg/installer/icd.go, vgpu/server/dashboard.go:512-706).               *)
THEOREM VendorsAreKept == PartsSpec => []VendorKept
<1>1. VendorInv => VendorKept
  BY DEF VendorInv, FilesTypes, OneInstaller, Owned, VendorKept
<1> QED BY <1>1, InitVendor, NextVendor, PartsKeepApart, PTL

(* GetKeys returns no number of a sequence that was cleared, covers what   *)
(* had been stored when it began, and gives the last vector stored at each *)
(* position, though it gives its lock up half-way (kvcache.go:75-150).     *)
THEOREM ReadsAreCurrent == PartsSpec => ReadIsCurrent
<1>1. KvInv /\ [KvNext]_kvVars => [\A r \in Readers : Returns(r) =>
    /\ \A n \in DOMAIN got'[r] : got'[r][n] = 0 \/ got'[r][n] > epoch
    /\ \A p \in reader[r].held : Len(got'[r]) >= (p + 1) * HeadDim
    /\ ~spilled => \A p \in 0..(reader[r].length - 1) : Vector(got'[r], p) = {last[reader[r].at][p]}]_kvVars
  BY KvAssumption, ReadRight
<1> QED BY <1>1, KvAssumption, InitKv, NextKv, PartsKeepApart, PTL DEF ReadIsCurrent

(* In the part that runs a launch has an outcome the code knows, an        *)
(* engine's copy is of a buffer, no share is empty and no offset negative. *)
THEOREM PartsTypesCorrect == PartsSpec => []PartsTypeOK
<1>1. KernelsTypeOK /\ MemoryTypeOK /\ TypeOK => PartsTypeOK
  BY DEF PartsTypeOK
<1> QED BY <1>1, PartsKeepApart, KernelsTypesCorrect, MemoryTypesCorrect, SplitTypeCorrect, PTL

(* What is proved of each part, on the composition.                        *)
THEOREM PartsStaySafe ==
    PartsSpec => [](/\ WorkerIsCore /\ LocalIsDocumented /\ PortionIsRight /\ GpuAgrees
                    /\ LimitHolds /\ NoLeftovers /\ RunIsOwn /\ Accounted
                    /\ Contiguous /\ GroupAligned /\ RestDisjoint /\ SizesAddUp)
BY PartsKeepApart, WorkerAsCore, LocalAsDocumented, PortionsAreRight, GpuAsGo, SharesContiguous, SharesAligned,
   SharesDisjoint, SharesAddUp, GivenOutWithinPeak, InlineDataLeave, RunsAreOwn, AllocatedAccounted, PTL
=============================================================================
