------------------------- MODULE OrchestratorProofs -------------------------
(***************************************************************************)
(* No answer goes astray between the core and its workers, for any number  *)
(* of sessions, launches and messages on the way - provided that no two    *)
(* launches carry the same subtask id.  And a launch with its reply        *)
(* (Dispatch) is a run of the control plane, so that this holds of every   *)
(* launch, and a launch is reported as done only when the core computed    *)
(* all of it or some worker of its own ran a share to completion.          *)
(***************************************************************************)
EXTENDS Dispatch, SequenceTheorems, TLAPS

DistinctIds == \A r, s \in Requests : TaskId[r] = TaskId[s] => r = s
----------------------------------------------------------------------------
(* The inductive invariant follows a task: it is posted at most once, is   *)
(* queued, run or answered, and answered at most once.                     *)
TaskMsg(r) == [kind |-> "task", req |-> r]
InputMsg(r) == [kind |-> "input", req |-> r]
IsResult(m, r) == m.kind = "result" /\ m.id = TaskId[r]

Unposted == {"idle", "sent", "unsent", "failed"}

Sessions ==
    \A w \in Workers :
        /\ connected[w] <=> stream[w] \in {"open", "broken"}
        /\ stream[w] = "none" => tasks[w] = {} /\ \A r \in Requests : sub[w][r] = "idle"

Jobs ==
    \A w \in Workers, r \in Requests :
        /\ job[w][r].at \in {"none", "started", "ready"} => job[w][r].status = None
        /\ job[w][r].at = "output" => job[w][r].status = "complete"
        /\ job[w][r].at = "done" => job[w][r].status \in Outcomes

(* An output that is to be sent has been computed.                         *)
Computed == \A w \in Workers, r \in Requests : job[w][r].at = "output" => job[w][r].ran \in Data

Posted ==
    \A w \in Workers, r \in Requests :
        /\ sub[w][r] \in Unposted => job[w][r].at = "none"
        /\ \A i \in 1..Len(Queued(w)) : Queued(w)[i] = TaskMsg(r) =>
             /\ sub[w][r] \notin Unposted
             /\ job[w][r].at = "none"
             /\ \A j \in 1..Len(Queued(w)) : Queued(w)[j] = TaskMsg(r) => i = j

InOrder ==
    \A w \in Workers, r \in Requests :
        \A i \in 1..Len(Queued(w)) : Queued(w)[i] = InputMsg(r) =>
            /\ job[w][r].at = "none"
            /\ \A j \in 1..Len(Queued(w)) : Queued(w)[j] = TaskMsg(r) => i < j

Answered ==
    \A w \in Workers, r \in Requests :
        \A i \in 1..Len(up[w]) : IsResult(up[w][i], r) =>
            /\ job[w][r].status \in Outcomes
            /\ job[w][r].status = up[w][i].status
            /\ \A j \in 1..Len(up[w]) : IsResult(up[w][j], r) => i = j

Delivered ==
    \A w \in Workers, r \in Requests :
        /\ taskResults[w][TaskId[r]] \in {r, None}
        /\ resultCh[w][r] # None => job[w][r].status = resultCh[w][r]
        /\ sub[w][r] \in Outcomes => job[w][r].status = sub[w][r]

Pending(w, r) ==
    \/ \E i \in 1..Len(Queued(w)) : Queued(w)[i] = TaskMsg(r)
    \/ job[w][r].at \in {"started", "ready"}
    \/ \E i \in 1..Len(up[w]) : IsResult(up[w][i], r)

Accounted ==
    \A w \in Workers : stream[w] = "open" =>
        \A r \in Requests : TaskId[r] \in tasks[w] <=> Pending(w, r)

Base == TypeOK /\ Sessions /\ Jobs /\ Computed /\ Posted /\ InOrder
Links == DistinctIds /\ Answered /\ Delivered /\ Accounted
----------------------------------------------------------------------------
(* The sequences the model is built from.                                  *)

(* Concatenation and Append, Head, Tail, and single elements.              *)
LEMMA ConcatAppend ==
    ASSUME NEW S, NEW s \in Seq(S), NEW t \in Seq(S), NEW m \in S
    PROVE  s \o Append(t, m) = Append(s \o t, m)
<1>1. <<m>> \in Seq(S) /\ Append(t, m) = t \o <<m>>
  BY AppendIsConcat
<1>2. s \o t \in Seq(S)
  BY ConcatProperties
<1>3. Append(s \o t, m) = (s \o t) \o <<m>>
  BY <1>2, AppendIsConcat
<1>4. (s \o t) \o <<m>> = s \o (t \o <<m>>)
  BY <1>1, ConcatAssociative
<1> QED BY <1>1, <1>3, <1>4

LEMMA ConcatMove ==
    ASSUME NEW S, NEW s \in Seq(S), NEW t \in Seq(S), t # <<>>
    PROVE  Append(s, Head(t)) \o Tail(t) = s \o t
<1> DEFINE m == Head(t)
<1>1. m \in S /\ Tail(t) \in Seq(S) /\ <<m>> \in Seq(S)
  BY HeadTailProperties
<1>2. Append(s, m) = s \o <<m>>
  BY <1>1, AppendIsConcat
<1>3. (s \o <<m>>) \o Tail(t) = s \o (<<m>> \o Tail(t))
  BY <1>1, ConcatAssociative
<1>4. <<m>> \o Tail(t) = t
  BY <1>1, SMT
<1> QED BY <1>2, <1>3, <1>4

LEMMA ConcatAt ==
    ASSUME NEW S, NEW s \in Seq(S), NEW t \in Seq(S)
    PROVE  /\ s \o t \in Seq(S)
           /\ Len(s) \in Nat /\ Len(t) \in Nat
           /\ Len(s \o t) = Len(s) + Len(t)
           /\ \A i \in 1..Len(s) : (s \o t)[i] = s[i]
           /\ \A i \in 1..Len(t) : (s \o t)[Len(s) + i] = t[i]
<1>1. Len(s) \in Nat /\ Len(t) \in Nat
  BY LenProperties
<1>2. /\ s \o t \in Seq(S)
      /\ Len(s \o t) = Len(s) + Len(t)
      /\ \A i \in 1..Len(s) + Len(t) : (s \o t)[i] = IF i <= Len(s) THEN s[i] ELSE t[i - Len(s)]
  BY ConcatProperties
<1> QED BY <1>1, <1>2, SMT

LEMMA QueuedType ==
    ASSUME TypeOK, NEW w \in Workers
    PROVE  /\ down[w] \in Seq(Msgs) /\ sendCh[w] \in Seq(Msgs)
           /\ Queued(w) \in Seq(Msgs)
           /\ Len(Queued(w)) \in Nat
<1>1. down[w] \in Seq(Msgs) /\ sendCh[w] \in Seq(Msgs)
  BY DEF TypeOK
<1> QED BY <1>1, ConcatAt, LenProperties DEF Queued

(* What is posted comes last in the queue.                                 *)
LEMMA QueuedPost ==
    ASSUME TypeOK, NEW w \in Workers, NEW kind \in {"input", "task"}, NEW r \in Requests,
           Post(w, kind, r), UNCHANGED down
    PROVE  /\ Len(Queued(w)') = Len(Queued(w)) + 1
           /\ \A i \in 1..Len(Queued(w)) : Queued(w)'[i] = Queued(w)[i]
           /\ Queued(w)'[Len(Queued(w)) + 1] = [kind |-> kind, req |-> r]
           /\ \A v \in Workers \ {w} : Queued(v)' = Queued(v)
<1> DEFINE m == [kind |-> kind, req |-> r]
<1>1. m \in Msgs
  BY DEF Msgs
<1>2. sendCh'[w] = Append(sendCh[w], m) /\ \A v \in Workers \ {w} : sendCh'[v] = sendCh[v]
  BY DEF Post, TypeOK
<1> HIDE DEF m
<1>0. down[w] \in Seq(Msgs) /\ sendCh[w] \in Seq(Msgs)
  BY QueuedType
<1>3. Queued(w)' = Append(Queued(w), m)
  <2> DEFINE d == down[w]
            s == sendCh[w]
  <2>1. d \in Seq(Msgs) /\ s \in Seq(Msgs)
    BY <1>0
  <2>2. Queued(w) = d \o s /\ Queued(w)' = d \o Append(s, m)
    BY <1>2 DEF Queued
  <2> HIDE DEF d, s
  <2> QED BY <1>1, <2>1, <2>2, ConcatAppend
<1>4. \A v \in Workers \ {w} : Queued(v)' = Queued(v)
  BY <1>2 DEF Queued
<1>5. /\ Len(Append(Queued(w), m)) = Len(Queued(w)) + 1
      /\ \A i \in 1..Len(Queued(w)) : Append(Queued(w), m)[i] = Queued(w)[i]
      /\ Append(Queued(w), m)[Len(Queued(w)) + 1] = m
  BY <1>1, QueuedType, AppendProperties
<1> QED BY <1>3, <1>4, <1>5 DEF m

(* The sender moves a message from one part of the queue to the other.     *)
LEMMA QueuedSend ==
    ASSUME TypeOK, NEW w \in Workers, SenderSend(w)
    PROVE  \A v \in Workers : Queued(v)' = Queued(v)
<1>1. Append(down[w], Head(sendCh[w])) \o Tail(sendCh[w]) = Queued(w)
  BY QueuedType, ConcatMove DEF Queued, SenderSend
<1> QED BY <1>1 DEF Queued, SenderSend, TypeOK

(* The agent takes the first message.                                      *)
LEMMA QueuedReceive ==
    ASSUME TypeOK, NEW w \in Workers, down[w] # <<>>,
           down' = [down EXCEPT ![w] = Tail(@)], UNCHANGED sendCh
    PROVE  /\ Len(Queued(w)) > 0 /\ Head(down[w]) = Queued(w)[1]
           /\ Queued(w)[1] \in Msgs
           /\ Len(Queued(w)') = Len(Queued(w)) - 1
           /\ \A i \in 1..Len(Queued(w)') : Queued(w)'[i] = Queued(w)[i + 1]
           /\ \A v \in Workers \ {w} : Queued(v)' = Queued(v)
<1> DEFINE d == down[w]
          s == sendCh[w]
<1>1. d \in Seq(Msgs) /\ s \in Seq(Msgs) /\ d # <<>>
  BY QueuedType
<1>2. Queued(w) = d \o s /\ Queued(w)' = Tail(d) \o s /\ \A v \in Workers \ {w} : Queued(v)' = Queued(v)
  BY DEF Queued, TypeOK
<1> HIDE DEF d, s
<1>3. /\ Tail(d) \in Seq(Msgs) /\ Len(Tail(d)) = Len(d) - 1
      /\ \A i \in 1..Len(Tail(d)) : Tail(d)[i] = d[i + 1]
      /\ Len(d) \in Nat \ {0} /\ Len(s) \in Nat
      /\ Head(d) = d[1] /\ Head(d) \in Msgs
  BY <1>1, HeadTailProperties, EmptySeq, LenProperties
<1>4. /\ Len(d \o s) = Len(d) + Len(s)
      /\ \A i \in 1..Len(d) + Len(s) : (d \o s)[i] = IF i <= Len(d) THEN d[i] ELSE s[i - Len(d)]
  BY <1>1, ConcatProperties
<1>5. /\ Len(Tail(d) \o s) = Len(Tail(d)) + Len(s)
      /\ \A i \in 1..Len(Tail(d)) + Len(s) : (Tail(d) \o s)[i] =
           IF i <= Len(Tail(d)) THEN Tail(d)[i] ELSE s[i - Len(Tail(d))]
  BY <1>1, <1>3, ConcatProperties
<1>6. Len(d \o s) > 0 /\ Head(d) = (d \o s)[1]
  BY <1>3, <1>4
<1>7. Len(Tail(d) \o s) = Len(d \o s) - 1
  BY <1>3, <1>4, <1>5
<1>8. \A i \in 1..Len(Tail(d) \o s) : (Tail(d) \o s)[i] = (d \o s)[i + 1]
  BY <1>3, <1>4, <1>5
<1> QED BY <1>2, <1>3, <1>6, <1>7, <1>8 DEF d

(* What a broken stream loses is the first part of the queue.              *)
LEMMA QueuedBreak ==
    ASSUME TypeOK, NEW w \in Workers, BreakStream(w)
    PROVE  /\ \E n \in Nat :
                /\ Len(Queued(w)') = Len(Queued(w)) - n
                /\ \A i \in 1..Len(Queued(w)') : Queued(w)'[i] = Queued(w)[n + i]
           /\ \A v \in Workers \ {w} : Queued(v)' = Queued(v)
<1>1. Queued(w)' = sendCh[w] /\ \A v \in Workers \ {w} : Queued(v)' = Queued(v)
  BY QueuedType, ConcatEmptySeq DEF Queued, BreakStream, TypeOK
<1>2. /\ Len(down[w]) \in Nat /\ Len(sendCh[w]) \in Nat
      /\ Len(Queued(w)) = Len(down[w]) + Len(sendCh[w])
      /\ \A i \in 1..Len(sendCh[w]) : Queued(w)[Len(down[w]) + i] = sendCh[w][i]
  <2> DEFINE d == down[w]
            s == sendCh[w]
  <2>1. d \in Seq(Msgs) /\ s \in Seq(Msgs) /\ Queued(w) = d \o s
    BY QueuedType DEF Queued
  <2> HIDE DEF d, s
  <2>2. /\ Len(d) \in Nat /\ Len(s) \in Nat
        /\ Len(d \o s) = Len(d) + Len(s)
        /\ \A i \in 1..Len(s) : (d \o s)[Len(d) + i] = s[i]
    BY <2>1, ConcatAt
  <2> QED BY <2>1, <2>2 DEF d, s
<1>3. Len(sendCh[w]) = Len(Queued(w)) - Len(down[w])
  BY <1>2
<1> QED BY <1>1, <1>2, <1>3
----------------------------------------------------------------------------
(* Steps change one entry of a table of all subtasks.                      *)
LEMMA SetSubEffect ==
    ASSUME TypeOK, NEW w \in Workers, NEW r \in Requests, NEW label \in SubStates, SetSub(w, r, label)
    PROVE  /\ sub' \in [Workers -> [Requests -> SubStates]]
           /\ sub'[w][r] = label
           /\ \A v \in Workers, s \in Requests : (v # w \/ s # r) => sub'[v][s] = sub[v][s]
<1>1. sub'[w] = [sub[w] EXCEPT ![r] = label] /\ \A v \in Workers \ {w} : sub'[v] = sub[v]
  BY DEF SetSub, TypeOK
<1>2. sub[w] \in [Requests -> SubStates]
  BY DEF TypeOK
<1>3. sub' = [v \in Workers |-> sub'[v]]
  BY DEF SetSub, TypeOK
<1>4. sub'[w] \in [Requests -> SubStates] /\ sub'[w][r] = label
  BY <1>1, <1>2
<1>5. \A v \in Workers : sub'[v] \in [Requests -> SubStates]
  BY <1>1, <1>4 DEF TypeOK
<1>6. \A v \in Workers, s \in Requests : (v # w \/ s # r) => sub'[v][s] = sub[v][s]
  BY <1>1, <1>2
<1>7. sub' \in [Workers -> [Requests -> SubStates]]
  BY <1>3, <1>5
<1> QED BY <1>4, <1>6, <1>7

LEMMA JobType ==
    ASSUME TypeOK, NEW w \in Workers, NEW r \in Requests
    PROVE  job[w][r] \in JobStates
BY DEF TypeOK

LEMMA SetJobEffect ==
    ASSUME TypeOK, NEW w \in Workers, NEW r \in Requests, NEW j \in JobStates, SetJob(w, r, j)
    PROVE  /\ job' \in [Workers -> [Requests -> JobStates]]
           /\ job'[w][r] = j
           /\ \A v \in Workers, s \in Requests : (v # w \/ s # r) => job'[v][s] = job[v][s]
<1>1. job'[w] = [job[w] EXCEPT ![r] = j] /\ \A v \in Workers \ {w} : job'[v] = job[v]
  BY DEF SetJob, TypeOK
<1>2. job[w] \in [Requests -> JobStates]
  BY DEF TypeOK
<1>3. job' = [v \in Workers |-> job'[v]]
  BY DEF SetJob, TypeOK
<1>4. job'[w] \in [Requests -> JobStates] /\ job'[w][r] = j
  BY <1>1, <1>2
<1>5. \A v \in Workers : job'[v] \in [Requests -> JobStates]
  BY <1>1, <1>4 DEF TypeOK
<1>6. \A v \in Workers, s \in Requests : (v # w \/ s # r) => job'[v][s] = job[v][s]
  BY <1>1, <1>2
<1>7. job' \in [Workers -> [Requests -> JobStates]]
  BY <1>3, <1>5
<1> QED BY <1>4, <1>6, <1>7

SetWaiter(w, r, x) == taskResults' = [taskResults EXCEPT ![w][TaskId[r]] = x]

LEMMA TaskResultsEffect ==
    ASSUME TypeOK, NEW w \in Workers, NEW r \in Requests, NEW x \in Requests \cup {None},
           SetWaiter(w, r, x)
    PROVE  /\ taskResults' \in [Workers -> [Ids -> Requests \cup {None}]]
           /\ taskResults'[w][TaskId[r]] = x
           /\ \A v \in Workers, id \in Ids :
                (v # w \/ id # TaskId[r]) => taskResults'[v][id] = taskResults[v][id]
<1>0. TaskId[r] \in Ids
  BY DEF Ids
<1>1. /\ taskResults'[w] = [taskResults[w] EXCEPT ![TaskId[r]] = x]
      /\ \A v \in Workers \ {w} : taskResults'[v] = taskResults[v]
  BY DEF SetWaiter, TypeOK
<1>2. taskResults[w] \in [Ids -> Requests \cup {None}]
  BY DEF SetWaiter, TypeOK
<1>3. taskResults' = [v \in Workers |-> taskResults'[v]]
  BY DEF SetWaiter, TypeOK
<1>4. taskResults'[w] \in [Ids -> Requests \cup {None}]
  BY <1>0, <1>1, <1>2
<1> QED BY <1>0, <1>1, <1>2, <1>3, <1>4 DEF SetWaiter, TypeOK
----------------------------------------------------------------------------
LEMMA InitTypeOK == Init => TypeOK
<1> SUFFICES ASSUME Init PROVE TypeOK
  OBVIOUS
<1> USE OrchestratorAssumption
<1>1. /\ sendCh \in [Workers -> Seq(Msgs)]
      /\ down \in [Workers -> Seq(Msgs)]
      /\ up \in [Workers -> Seq(Answers)]
      /\ \A w \in Workers : Len(sendCh[w]) <= SendCap
  BY EmptySeq DEF Init
<1>2. job \in [Workers -> [Requests -> JobStates]]
  BY DEF Init, NoJob, JobStates
<1> QED BY <1>1, <1>2 DEF Init, TypeOK, SubStates

LEMMA NextTypeOK == TypeOK /\ Computed /\ [Next]_vars => TypeOK'
<1> SUFFICES ASSUME TypeOK, Computed, [Next]_vars PROVE TypeOK'
  OBVIOUS
<1> USE OrchestratorAssumption
<1>s. ASSUME NEW w \in Workers, Session(w) PROVE TypeOK'
  <2>1. CASE OpenStream(w)
    BY <2>1 DEF OpenStream, TypeOK, wireVars, agentVars, coreVars
  <2>2. CASE SenderSend(w)
    <3>1. sendCh[w] \in Seq(Msgs) /\ sendCh[w] # <<>> /\ down[w] \in Seq(Msgs)
      BY <2>2 DEF SenderSend, TypeOK
    <3>2. /\ Tail(sendCh[w]) \in Seq(Msgs) /\ Len(Tail(sendCh[w])) <= SendCap
          /\ Append(down[w], Head(sendCh[w])) \in Seq(Msgs)
      <4>1. Len(sendCh[w]) <= SendCap
        BY DEF TypeOK
      <4> QED BY <3>1, <4>1, HeadTailProperties, AppendProperties, LenProperties
    <3> QED BY <2>2, <3>2 DEF SenderSend, TypeOK, sessionVars, agentVars, coreVars
  <2>3. CASE EndStream(w)
    BY <2>3 DEF EndStream, TypeOK, wireVars, agentVars, coreVars
  <2>4. CASE ReceiveUp(w)
    <3> DEFINE m == Head(up[w])
    <3>1. m \in Answers /\ Tail(up[w]) \in Seq(Answers)
      BY <2>4, HeadTailProperties DEF ReceiveUp, TypeOK
    <3>2. up' \in [Workers -> Seq(Answers)]
      BY <2>4, <3>1 DEF ReceiveUp, TypeOK
    <3>3. CASE m.kind = "result" /\ HandleTaskResult(w, m)
      <4>1. m.id \in Ids /\ m.status \in Outcomes
        BY <3>1, <3>3 DEF Answers
      <4>2. resultCh' \in [Workers -> [Requests -> Outcomes \cup {None}]]
        BY <3>3, <4>1 DEF HandleTaskResult, Waiter, TypeOK
      <4>3. tasks' \in [Workers -> SUBSET Ids]
        BY <3>3, <4>1 DEF HandleTaskResult, TasksAfterResult, TypeOK
      <4> QED BY <2>4, <3>2, <3>3, <4>2, <4>3 DEF ReceiveUp, HandleTaskResult, TypeOK, agentVars
    <3>4. CASE m.kind = "output" /\ HandleWorkerBufferTransfer(w, m)
      <4>1. m.data \in Data
        BY <3>1, <3>4 DEF Answers
      <4> QED BY <2>4, <3>2, <3>4, <4>1 DEF ReceiveUp, HandleWorkerBufferTransfer, TypeOK, agentVars
    <3> QED BY <2>4, <3>3, <3>4 DEF ReceiveUp
  <2> QED BY <1>s, <2>1, <2>2, <2>3, <2>4 DEF Session
<1>b. ASSUME NEW w \in Workers, BreakStream(w) PROVE TypeOK'
  BY <1>b, EmptySeq DEF BreakStream, TypeOK, agentVars, coreVars
<1>a. ASSUME NEW w \in Workers, Agent(w) PROVE TypeOK'
  <2>0. ASSUME NEW m \in Answers, SendUp(w, m) PROVE up' \in [Workers -> Seq(Answers)]
    <3>1. Append(up[w], m) \in Seq(Answers)
      BY AppendProperties DEF TypeOK
    <3> QED BY <2>0, <3>1 DEF SendUp, TypeOK
  <2>1. CASE AgentReceive(w)
    <3> DEFINE m == Head(down[w])
    <3>1. m \in Msgs /\ Tail(down[w]) \in Seq(Msgs)
      BY <2>1, HeadTailProperties DEF AgentReceive, TypeOK
    <3>2. down' \in [Workers -> Seq(Msgs)]
      BY <2>1, <3>1 DEF AgentReceive, TypeOK
    <3>3. m.req \in Requests
      BY <3>1 DEF Msgs
    <3>4. CASE m.kind = "input" /\ cache' = [cache EXCEPT ![w] = m.req] /\ UNCHANGED job
      BY <2>1, <3>2, <3>3, <3>4 DEF AgentReceive, TypeOK, sessionVars, coreVars
    <3>5. CASE m.kind = "task" /\ SetJob(w, m.req, [NoJob EXCEPT !.at = "started"]) /\ UNCHANGED cache
      <4>1. [NoJob EXCEPT !.at = "started"] \in JobStates
        BY DEF NoJob, JobStates
      <4> QED BY <2>1, <3>2, <3>3, <3>5, <4>1, SetJobEffect DEF AgentReceive, TypeOK, sessionVars, coreVars
    <3> QED BY <2>1, <3>4, <3>5 DEF AgentReceive
  <2>2. ASSUME NEW r \in Requests, TakeInputs(w, r) PROVE TypeOK'
    <3>1. [job[w][r] EXCEPT !.at = "ready", !.input = cache[w]] \in JobStates
      <4>1. job[w][r] \in JobStates /\ cache[w] \in Requests \cup {None}
        BY JobType DEF TypeOK
      <4> QED BY <4>1 DEF JobStates
    <3> QED BY <2>2, <3>1, SetJobEffect DEF TakeInputs, TypeOK, wireVars, sessionVars, coreVars
  <2>3. ASSUME NEW r \in Requests, Execute(w, r) PROVE TypeOK'
    <3>1. PICK status \in Outcomes :
            /\ SetJob(w, r, IF status = "complete"
                            THEN [job[w][r] EXCEPT !.at = "output", !.ran = engine'[w], !.status = status]
                            ELSE [NoJob EXCEPT !.at = "done", !.status = status])
            /\ SendUp(w, [kind |-> "result", id |-> TaskId[r], status |-> status])
      BY <2>3 DEF Execute
    <3>2. [kind |-> "result", id |-> TaskId[r], status |-> status] \in Answers
      BY DEF Answers, Ids
    <3>3. up' \in [Workers -> Seq(Answers)]
      BY <2>0, <3>1, <3>2
    <3>4. engine' \in [Workers -> Data \cup {None}]
      <4>1. engine[w] \in Data \cup {None} /\ job[w][r].input \in Requests \cup {None}
        BY JobType DEF TypeOK, JobStates
      <4>2. LoadBuffer(w, job[w][r].input) \in Data
        BY <4>1 DEF LoadBuffer, Data
      <4> QED BY <2>3, <4>2 DEF Execute, TypeOK
    <3>5. job' \in [Workers -> [Requests -> JobStates]]
      <4>1. (IF status = "complete"
             THEN [job[w][r] EXCEPT !.at = "output", !.ran = engine'[w], !.status = status]
             ELSE [NoJob EXCEPT !.at = "done", !.status = status]) \in JobStates
        <5>1. CASE status = "complete"
          <6>1. job[w][r] \in JobStates /\ engine'[w] \in Data \cup {None}
            BY <3>4, JobType
          <6> QED BY <5>1, <6>1 DEF JobStates
        <5>2. CASE status # "complete"
          BY <5>2 DEF JobStates, NoJob
        <5> QED BY <5>1, <5>2
      <4> QED BY <3>1, <4>1, SetJobEffect
    <3> QED BY <2>3, <3>3, <3>4, <3>5 DEF Execute, TypeOK, sessionVars, coreVars
  <2>4. ASSUME NEW r \in Requests, SendOutput(w, r) PROVE TypeOK'
    <3>1. [kind |-> "output", data |-> job[w][r].ran] \in Answers
      BY <2>4 DEF SendOutput, Computed, Answers
    <3>2. up' \in [Workers -> Seq(Answers)]
      BY <2>0, <2>4, <3>1 DEF SendOutput
    <3>3. [NoJob EXCEPT !.at = "done", !.status = job[w][r].status] \in JobStates
      BY JobType DEF NoJob, JobStates
    <3> QED BY <2>4, <3>2, <3>3, SetJobEffect DEF SendOutput, TypeOK, sessionVars, coreVars
  <2> QED BY <1>a, <2>1, <2>2, <2>3, <2>4 DEF Agent
<1>c. ASSUME NEW w \in Workers, NEW r \in Requests, Core(w, r) PROVE TypeOK'
  <2>0. ASSUME NEW kind \in {"input", "task"}, Accepts(w), Post(w, kind, r)
        PROVE  sendCh' \in [Workers -> Seq(Msgs)] /\ \A v \in Workers : Len(sendCh'[v]) <= SendCap
    <3>1. [kind |-> kind, req |-> r] \in Msgs
      BY DEF Msgs
    <3>2. sendCh[w] \in Seq(Msgs) /\ Len(sendCh[w]) < SendCap /\ Len(sendCh[w]) \in Nat
      BY <2>0, LenProperties DEF Accepts, TypeOK
    <3>3. /\ Append(sendCh[w], [kind |-> kind, req |-> r]) \in Seq(Msgs)
          /\ Len(Append(sendCh[w], [kind |-> kind, req |-> r])) <= SendCap
      BY <3>1, <3>2, AppendProperties
    <3> QED BY <2>0, <3>3 DEF Post, TypeOK
  <2> USE DEF SubStates, Ended
  <2>1. CASE SendInputs(w, r)
    BY <2>0, <2>1, SetSubEffect DEF SendInputs, TypeOK, sessionVars, agentVars
  <2>2. CASE AssignTask(w, r)
    <3>1. TaskId[r] \in Ids
      BY DEF Ids
    <3>2. CASE /\ Accepts(w) /\ Post(w, "task", r) /\ SetSub(w, r, "assigned")
               /\ tasks' = [tasks EXCEPT ![w] = @ \cup {TaskId[r]}]
      BY <2>0, <2>2, <3>1, <3>2, SetSubEffect DEF AssignTask, TypeOK, agentVars
    <3>3. CASE /\ SetSub(w, r, "failed") /\ UNCHANGED sendCh
               /\ tasks' = [tasks EXCEPT ![w] = TasksIfFull(w, r)] \/ UNCHANGED tasks
      <4>1. tasks' \in [Workers -> SUBSET Ids]
        <5>1. tasks[w] \in SUBSET Ids
          BY DEF TypeOK
        <5>2. TasksIfFull(w, r) \in SUBSET Ids
          BY <5>1 DEF TasksIfFull
        <5> HIDE DEF TasksIfFull
        <5> QED BY <3>3, <5>2 DEF TypeOK
      <4> QED BY <2>2, <3>3, <4>1, SetSubEffect DEF AssignTask, TypeOK, agentVars
    <3> QED BY <2>2, <3>2, <3>3 DEF AssignTask
  <2>3. CASE RegisterWait(w, r)
    BY <2>3, SetSubEffect, TaskResultsEffect DEF SetWaiter, RegisterWait, TypeOK, wireVars, agentVars
  <2>4. CASE WaitTimeout(w, r)
    BY <2>4, SetSubEffect, TaskResultsEffect DEF SetWaiter, WaitTimeout, Unregister, TypeOK, wireVars, agentVars
  <2>5. CASE TakeResult(w, r)
    <3>1. resultCh[w][r] \in SubStates
      BY <2>5 DEF TakeResult, TypeOK, Outcomes
    <3> QED BY <2>5, <3>1, SetSubEffect, TaskResultsEffect DEF SetWaiter, TakeResult, Unregister, TypeOK, wireVars, agentVars
  <2>6. CASE CollectReturned(w, r)
    <3>1. collected' \in [Workers -> [Requests -> SUBSET Data]]
      BY <2>6 DEF CollectReturned, TypeOK
    <3> QED BY <2>6, <3>1, SetSubEffect DEF CollectReturned, TypeOK, wireVars, agentVars
  <2>7. CASE CollectNothing(w, r)
    BY <2>7, SetSubEffect DEF CollectNothing, TypeOK, wireVars, sessionVars, agentVars
  <2> QED BY <1>c, <2>1, <2>2, <2>3, <2>4, <2>5, <2>6, <2>7 DEF Core
<1>e. ASSUME NEW r \in Requests, Expire(r) PROVE TypeOK'
  BY <1>e DEF Expire, TypeOK, wireVars, sessionVars, agentVars
<1>u. CASE UNCHANGED vars
  BY <1>u DEF vars, TypeOK, wireVars, sessionVars, agentVars, coreVars
<1> QED BY <1>s, <1>b, <1>a, <1>c, <1>e, <1>u DEF Next
----------------------------------------------------------------------------
LEMMA InitKeeps == Init => Base /\ (DistinctIds => Links)
<1> SUFFICES ASSUME Init PROVE Base /\ (DistinctIds => Links)
  OBVIOUS
<1>1. TypeOK
  BY InitTypeOK
<1>2. \A w \in Workers : Len(Queued(w)) = 0 /\ Len(up[w]) = 0
  BY EmptySeq, ConcatEmptySeq DEF Init, Queued
<1>3. Sessions
  BY DEF Init, Sessions
<1>4. Jobs /\ Computed
  BY DEF Init, NoJob, Jobs, Computed
<1>5. Posted /\ InOrder /\ Answered
  BY <1>2 DEF Init, NoJob, Posted, InOrder, Answered
<1>6. Delivered
  BY OrchestratorAssumption DEF Init, Delivered, Ids, Outcomes
<1>7. Accounted
  BY DEF Init, Accounted
<1> QED BY <1>1, <1>3, <1>4, <1>5, <1>6, <1>7 DEF Base, Links

(* A table that is not touched keeps what is said of it.                   *)
LEMMA QueuedSame ==
    ASSUME UNCHANGED <<down, sendCh>>
    PROVE  \A v \in Workers : Queued(v)' = Queued(v)
BY DEF Queued

(* The stream opens: until then nothing was sent, and nothing is pending.  *)
LEMMA OpenStreamKeeps ==
    ASSUME Base, NEW w \in Workers, OpenStream(w), TypeOK'
    PROVE  Base' /\ (Links => Links')
<1>1. /\ UNCHANGED <<sub, job, up, tasks, taskResults, resultCh>>
      /\ \A v \in Workers : Queued(v)' = Queued(v)
      /\ \A v \in Workers \ {w} : stream'[v] = stream[v] /\ connected'[v] = connected[v]
      /\ stream[w] = "none" /\ stream'[w] = "open" /\ connected'[w] = TRUE
  BY QueuedSame DEF OpenStream, Base, TypeOK, wireVars, agentVars, coreVars
<1>2. Sessions'
  BY <1>1 DEF Base, Sessions
<1>3. Jobs' /\ Computed' /\ Posted' /\ InOrder' /\ (Links => Answered' /\ Delivered')
  BY <1>1 DEF Base, Links, Jobs, Computed, Posted, InOrder, Answered, Delivered
<1>4. Links => Accounted'
  <2> SUFFICES ASSUME Links PROVE Accounted'
    OBVIOUS
  <2>1. tasks[w] = {} /\ \A r \in Requests : sub[w][r] \in Unposted
    BY <1>1 DEF Base, Sessions, Unposted
  <2>2. \A r \in Requests : job[w][r].at = "none" /\ \A i \in 1..Len(Queued(w)) : Queued(w)[i] # TaskMsg(r)
    BY <2>1 DEF Base, Posted
  <2>3. \A r \in Requests : \A i \in 1..Len(up[w]) : ~IsResult(up[w][i], r)
    BY <2>2, OrchestratorAssumption DEF Base, Links, Answered, Jobs, Outcomes
  <2>4. \A r \in Requests : ~Pending(w, r)
    BY <2>2, <2>3 DEF Pending
  <2> QED BY <1>1, <2>1, <2>4 DEF Links, Accounted, Pending, IsResult
<1> QED BY <1>2, <1>3, <1>4 DEF Base, Links

LEMMA SenderSendKeeps ==
    ASSUME Base, NEW w \in Workers, SenderSend(w), TypeOK'
    PROVE  Base' /\ (Links => Links')
<1>1. /\ UNCHANGED <<stream, connected, sub, job, up, tasks, taskResults, resultCh>>
      /\ \A v \in Workers : Queued(v)' = Queued(v)
  BY QueuedSend DEF SenderSend, Base, sessionVars, agentVars, coreVars
<1> QED
  BY <1>1 DEF Base, Links, Sessions, Jobs, Computed, Posted, InOrder, Answered, Delivered, Accounted, Pending, IsResult

(* What is left of a queue when its first messages are lost.               *)
LEMMA BreakStreamKeeps ==
    ASSUME Base, NEW w \in Workers, BreakStream(w), TypeOK'
    PROVE  Base' /\ (Links => Links')
<1> PICK n \in Nat :
      /\ Len(Queued(w)') = Len(Queued(w)) - n
      /\ \A i \in 1..Len(Queued(w)') : Queued(w)'[i] = Queued(w)[n + i]
  BY QueuedBreak DEF Base
<1>1. /\ UNCHANGED <<connected, sub, job, tasks, taskResults, resultCh>>
      /\ \A v \in Workers \ {w} : Queued(v)' = Queued(v) /\ up'[v] = up[v] /\ stream'[v] = stream[v]
      /\ up'[w] = <<>> /\ stream[w] = "open" /\ stream'[w] = "broken"
  <2>1. \A v \in Workers \ {w} : Queued(v)' = Queued(v)
    BY QueuedBreak DEF Base
  <2>2. UNCHANGED <<connected, sub, job, tasks, taskResults, resultCh>>
    BY DEF BreakStream, agentVars, coreVars
  <2>3. /\ \A v \in Workers \ {w} : up'[v] = up[v] /\ stream'[v] = stream[v]
        /\ up'[w] = <<>> /\ stream[w] = "open" /\ stream'[w] = "broken"
    BY DEF BreakStream, Base, TypeOK
  <2> QED BY <2>1, <2>2, <2>3
<1>2. Len(Queued(w)) \in Nat /\ Len(Queued(w)') \in Nat
  BY QueuedType DEF Base
<1>3. Sessions' /\ Jobs' /\ Computed' /\ (Links => Delivered')
  BY <1>1 DEF Base, Links, Sessions, Jobs, Computed, Delivered
<1>i. \A i \in 1..Len(Queued(w)') : n + i \in 1..Len(Queued(w)) /\ Queued(w)'[i] = Queued(w)[n + i]
  BY <1>2
<1>4. Posted'
  <2> SUFFICES ASSUME NEW v \in Workers, NEW r \in Requests
               PROVE  /\ sub'[v][r] \in Unposted => job'[v][r].at = "none"
                      /\ \A i \in 1..Len(Queued(v)') : Queued(v)'[i] = TaskMsg(r) =>
                           /\ sub'[v][r] \notin Unposted
                           /\ job'[v][r].at = "none"
                           /\ \A j \in 1..Len(Queued(v)') : Queued(v)'[j] = TaskMsg(r) => i = j
    BY DEF Posted, TaskMsg, Unposted
  <2>1. CASE v = w
    <3>1. ASSUME NEW i \in 1..Len(Queued(w)'), NEW j \in 1..Len(Queued(w)'),
                 Queued(w)'[i] = TaskMsg(r), Queued(w)'[j] = TaskMsg(r)
          PROVE  i = j
      <4>1. /\ n + i \in 1..Len(Queued(w)) /\ Queued(w)[n + i] = TaskMsg(r)
            /\ n + j \in 1..Len(Queued(w)) /\ Queued(w)[n + j] = TaskMsg(r)
        BY <1>i, <3>1
      <4>2. \A k, l \in 1..Len(Queued(w)) :
              Queued(w)[k] = TaskMsg(r) /\ Queued(w)[l] = TaskMsg(r) => k = l
        BY DEF Base, Posted
      <4>3. n + i = n + j
        BY <4>1, <4>2
      <4> QED BY <4>3
    <3> QED BY <1>1, <1>i, <2>1, <3>1 DEF Base, Posted
  <2>2. CASE v # w
    BY <1>1, <2>2 DEF Base, Posted
  <2> QED BY <2>1, <2>2
<1>5. InOrder'
  <2> SUFFICES ASSUME NEW v \in Workers, NEW r \in Requests, NEW i \in 1..Len(Queued(v)'),
                      Queued(v)'[i] = InputMsg(r)
               PROVE  /\ job'[v][r].at = "none"
                      /\ \A j \in 1..Len(Queued(v)') : Queued(v)'[j] = TaskMsg(r) => i < j
    BY DEF InOrder, TaskMsg, InputMsg
  <2>1. CASE v = w
    <3>1. ASSUME NEW j \in 1..Len(Queued(w)'), Queued(w)'[j] = TaskMsg(r)
          PROVE  i < j
      <4>1. n + i < n + j
        BY <1>i, <2>1, <3>1 DEF Base, InOrder
      <4> QED BY <2>1, <4>1
    <3> QED BY <1>1, <1>i, <2>1, <3>1 DEF Base, InOrder
  <2>2. CASE v # w
    BY <1>1, <2>2 DEF Base, InOrder
  <2> QED BY <2>1, <2>2
<1>6. Links => Answered'
  <2>1. Len(up'[w]) = 0
    BY <1>1, EmptySeq
  <2> QED BY <1>1, <2>1 DEF Links, Answered, IsResult
<1>7. Links => Accounted'
  <2> SUFFICES ASSUME Links, NEW v \in Workers, stream'[v] = "open", NEW r \in Requests
               PROVE  TaskId[r] \in tasks'[v] <=> Pending(v, r)'
    BY DEF Accounted
  <2>1. v # w /\ stream[v] = "open" /\ Queued(v)' = Queued(v) /\ up'[v] = up[v]
    BY <1>1
  <2> QED BY <1>1, <2>1 DEF Links, Accounted, Pending, IsResult, TaskMsg
<1> QED BY <1>3, <1>4, <1>5, <1>6, <1>7 DEF Base, Links

LEMMA EndStreamKeeps ==
    ASSUME Base, NEW w \in Workers, EndStream(w), TypeOK'
    PROVE  Base' /\ (Links => Links')
<1>1. /\ UNCHANGED <<sub, job, up, tasks, taskResults, resultCh>>
      /\ \A v \in Workers : Queued(v)' = Queued(v)
      /\ \A v \in Workers \ {w} : stream'[v] = stream[v] /\ connected'[v] = connected[v]
      /\ stream'[w] = "closed" /\ connected'[w] = FALSE
  BY QueuedSame DEF EndStream, Base, TypeOK, wireVars, agentVars, coreVars
<1>2. Sessions'
  BY <1>1 DEF Base, Sessions
<1> QED
  BY <1>1, <1>2 DEF Base, Links, Jobs, Computed, Posted, InOrder, Answered, Delivered, Accounted, Pending, IsResult

(* A message from the worker is taken off the stream.                      *)
LEMMA UpReceive ==
    ASSUME TypeOK, NEW w \in Workers, up[w] # <<>>, up' = [up EXCEPT ![w] = Tail(@)]
    PROVE  /\ Head(up[w]) = up[w][1] /\ up[w][1] \in Answers /\ 1 \in 1..Len(up[w])
           /\ Len(up[w]) \in Nat /\ Len(up'[w]) = Len(up[w]) - 1
           /\ \A i \in 1..Len(up'[w]) : i + 1 \in 1..Len(up[w]) /\ up'[w][i] = up[w][i + 1]
           /\ \A i \in 1..Len(up[w]) : i # 1 => i - 1 \in 1..Len(up'[w])
           /\ \A v \in Workers \ {w} : up'[v] = up[v]
<1>1. up[w] \in Seq(Answers) /\ up'[w] = Tail(up[w]) /\ \A v \in Workers \ {w} : up'[v] = up[v]
  BY DEF TypeOK
<1>2. /\ Len(Tail(up[w])) = Len(up[w]) - 1
      /\ \A i \in 1..Len(Tail(up[w])) : Tail(up[w])[i] = up[w][i + 1]
      /\ Head(up[w]) = up[w][1] /\ up[w][1] \in Answers
      /\ Len(up[w]) \in Nat \ {0}
  BY <1>1, HeadTailProperties, EmptySeq, LenProperties
<1>3. Len(up'[w]) = Len(up[w]) - 1 /\ \A i \in 1..Len(up'[w]) : up'[w][i] = up[w][i + 1]
  BY <1>1, <1>2
<1>4. 1 \in 1..Len(up[w]) /\ Len(up[w]) \in Nat
  BY <1>2
<1>5. \A i \in 1..Len(up'[w]) : i + 1 \in 1..Len(up[w])
  BY <1>3, <1>4
<1>6. \A i \in 1..Len(up[w]) : i # 1 => i - 1 \in 1..Len(up'[w])
  BY <1>3, <1>4
<1> QED BY <1>1, <1>2, <1>3, <1>4, <1>5, <1>6

LEMMA ReceiveUpKeeps ==
    ASSUME Base, NEW w \in Workers, ReceiveUp(w), TypeOK'
    PROVE  Base' /\ (Links => Links')
<1> DEFINE m == up[w][1]
<1>1. /\ UNCHANGED <<stream, connected, sub, job, taskResults>>
      /\ \A v \in Workers : Queued(v)' = Queued(v)
  BY QueuedSame DEF ReceiveUp, agentVars
<1>2. /\ m = Head(up[w]) /\ m \in Answers /\ 1 \in 1..Len(up[w])
      /\ Len(up[w]) \in Nat /\ Len(up'[w]) = Len(up[w]) - 1
      /\ \A i \in 1..Len(up'[w]) : i + 1 \in 1..Len(up[w]) /\ up'[w][i] = up[w][i + 1]
      /\ \A i \in 1..Len(up[w]) : i # 1 => i - 1 \in 1..Len(up'[w])
      /\ \A v \in Workers \ {w} : up'[v] = up[v]
  BY UpReceive DEF ReceiveUp, Base
<1>3. Sessions'
  <2>1. (\E id : tasks' = [tasks EXCEPT ![w] = @ \ {id}]) \/ UNCHANGED tasks
    BY DEF ReceiveUp, HandleTaskResult, HandleWorkerBufferTransfer, TasksAfterResult
  <2>2. \A v \in Workers : tasks'[v] \subseteq tasks[v]
    <3>1. ASSUME NEW id, tasks' = [tasks EXCEPT ![w] = @ \ {id}], NEW v \in Workers
          PROVE  tasks'[v] \subseteq tasks[v]
      <4>1. tasks'[v] = IF v = w THEN tasks[w] \ {id} ELSE tasks[v]
        BY <3>1 DEF Base, TypeOK
      <4> QED BY <4>1
    <3> QED BY <2>1, <3>1
  <2> QED BY <1>1, <2>2 DEF Base, Sessions
<1>4. Jobs' /\ Computed' /\ Posted' /\ InOrder'
  BY <1>1 DEF Base, Jobs, Computed, Posted, InOrder
<1>5. Links => Answered'
  <2> SUFFICES ASSUME Links, NEW v \in Workers, NEW r \in Requests, NEW i \in 1..Len(up'[v]), IsResult(up'[v][i], r)
               PROVE  /\ job'[v][r].status \in Outcomes
                      /\ job'[v][r].status = up'[v][i].status
                      /\ \A j \in 1..Len(up'[v]) : IsResult(up'[v][j], r) => i = j
    BY DEF Answered, IsResult, Outcomes
  <2>1. CASE v = w
    <3>1. ASSUME NEW j \in 1..Len(up'[w]), IsResult(up'[w][j], r) PROVE i = j
      <4>1. /\ i + 1 \in 1..Len(up[w]) /\ IsResult(up[w][i + 1], r)
            /\ j + 1 \in 1..Len(up[w]) /\ IsResult(up[w][j + 1], r)
        BY <1>2, <2>1, <3>1
      <4>2. \A k, l \in 1..Len(up[w]) : IsResult(up[w][k], r) /\ IsResult(up[w][l], r) => k = l
        BY DEF Links, Answered
      <4>3. i + 1 = j + 1
        BY <4>1, <4>2
      <4> QED BY <2>1, <4>3
    <3>2. i + 1 \in 1..Len(up[w]) /\ IsResult(up[w][i + 1], r) /\ up'[w][i] = up[w][i + 1]
      BY <1>2, <2>1
    <3>3. job[w][r].status \in Outcomes /\ job[w][r].status = up'[w][i].status
      BY <3>2 DEF Links, Answered
    <3> QED BY <1>1, <2>1, <3>1, <3>3
  <2>2. CASE v # w
    BY <1>1, <1>2, <2>2 DEF Links, Answered
  <2> QED BY <2>1, <2>2
<1>b. Base'
  BY <1>3, <1>4 DEF Base
<1>6. CASE m.kind = "output" /\ HandleWorkerBufferTransfer(w, m)
  <2>1. UNCHANGED <<tasks, resultCh>>
    BY <1>6 DEF HandleWorkerBufferTransfer
  <2>2. Links => Delivered'
    BY <1>1, <2>1 DEF Links, Delivered
  <2>3. \A r \in Requests : ~IsResult(m, r)
    BY <1>6 DEF IsResult
  <2>4. \A v \in Workers, r \in Requests : Pending(v, r)' <=> Pending(v, r)
    <3> SUFFICES ASSUME NEW v \in Workers, NEW r \in Requests
                 PROVE  (\E i \in 1..Len(up'[v]) : IsResult(up'[v][i], r))
                          <=> (\E i \in 1..Len(up[v]) : IsResult(up[v][i], r))
      BY <1>1 DEF Pending, IsResult
    <3>1. CASE v = w
      <4>1. ASSUME NEW i \in 1..Len(up[w]), IsResult(up[w][i], r)
            PROVE  \E k \in 1..Len(up'[w]) : IsResult(up'[w][k], r)
        <5>1. i # 1
          BY <2>3, <4>1
        <5>2. i - 1 \in 1..Len(up'[w]) /\ up'[w][i - 1] = up[w][i]
          BY <1>2, <5>1
        <5> QED BY <4>1, <5>2
      <4> QED BY <1>2, <3>1, <4>1
    <3>2. CASE v # w
      BY <1>2, <3>2
    <3> QED BY <3>1, <3>2
  <2>5. Links => Accounted'
    BY <1>1, <2>1, <2>4 DEF Links, Accounted
  <2> QED BY <1>b, <1>5, <2>2, <2>5 DEF Links
<1>7. CASE m.kind = "result" /\ HandleTaskResult(w, m)
  <2> SUFFICES ASSUME Links PROVE Delivered' /\ Accounted'
    BY <1>b, <1>5 DEF Links
  <2> PICK s \in Requests : m.id = TaskId[s]
    BY <1>2, <1>7 DEF Answers, Ids
  <2>1. IsResult(m, s) /\ m.status \in Outcomes /\ job[w][s].status = m.status
    BY <1>2, <1>7 DEF IsResult, Links, Answered
  <2>2. \A r \in Requests : IsResult(m, r) => r = s
    BY DEF Links, DistinctIds, IsResult
  <2>3. tasks'[w] = tasks[w] \ {TaskId[s]} /\ \A v \in Workers \ {w} : tasks'[v] = tasks[v]
    BY <1>7 DEF HandleTaskResult, TasksAfterResult, Base, TypeOK
  <2>4. Delivered'
    <3>1. Waiter(w, m.id) \in {s, None}
      BY DEF Waiter, Links, Delivered
    <3>2. \A v \in Workers, r \in Requests :
            resultCh'[v][r] = resultCh[v][r] \/ (v = w /\ r = s /\ resultCh'[v][r] = m.status)
      BY <1>7, <3>1 DEF HandleTaskResult, Base, TypeOK
    <3> QED BY <1>1, <2>1, <3>2 DEF Links, Delivered
  <2>5. \A r \in Requests \ {s} : Pending(w, r)' <=> Pending(w, r)
    <3> SUFFICES ASSUME NEW r \in Requests \ {s}
                 PROVE  (\E i \in 1..Len(up'[w]) : IsResult(up'[w][i], r))
                          <=> (\E i \in 1..Len(up[w]) : IsResult(up[w][i], r))
      BY <1>1 DEF Pending, IsResult
    <3>1. ASSUME NEW i \in 1..Len(up[w]), IsResult(up[w][i], r)
          PROVE  \E k \in 1..Len(up'[w]) : IsResult(up'[w][k], r)
      <4>1. i # 1
        BY <2>2, <3>1
      <4>2. i - 1 \in 1..Len(up'[w]) /\ up'[w][i - 1] = up[w][i]
        BY <1>2, <4>1
      <4> QED BY <3>1, <4>2
    <3> QED BY <1>2, <3>1
  <2>6. ~Pending(w, s)'
    <3>1. job[w][s].at \notin {"none", "started", "ready"}
      BY <2>1, OrchestratorAssumption DEF Base, Jobs, Outcomes
    <3>2. \A i \in 1..Len(Queued(w)) : Queued(w)[i] # TaskMsg(s)
      BY <3>1 DEF Base, Posted
    <3>3. ASSUME NEW i \in 1..Len(up'[w]), IsResult(up'[w][i], s) PROVE FALSE
      <4>1. i + 1 = 1
        BY <1>2, <2>1, <3>3 DEF Links, Answered
      <4> QED BY <4>1
    <3> QED BY <1>1, <3>1, <3>2, <3>3 DEF Pending, IsResult, TaskMsg
  <2>7. \A v \in Workers \ {w}, r \in Requests : Pending(v, r)' <=> Pending(v, r)
    BY <1>1, <1>2 DEF Pending, IsResult, TaskMsg
  <2>8. Accounted'
    BY <1>1, <2>3, <2>5, <2>6, <2>7 DEF Links, Accounted, DistinctIds
  <2> QED BY <2>4, <2>8
<1> QED BY <1>2, <1>6, <1>7 DEF ReceiveUp
----------------------------------------------------------------------------
(* The core's goroutines.  Most of their steps only move a subtask on.     *)
LEMMA MoveKeeps ==
    ASSUME Base, NEW w \in Workers, NEW r \in Requests, NEW label \in SubStates,
           SetSub(w, r, label), stream[w] # "none",
           label \in Unposted => sub[w][r] \in Unposted,
           Links /\ label \in Outcomes => job[w][r].status = label,
           UNCHANGED <<stream, connected, tasks, sendCh, down, up, job, resultCh>>,
           \/ UNCHANGED taskResults
           \/ \E x \in {r, None} : SetWaiter(w, r, x),
           TypeOK'
    PROVE  Base' /\ (Links => Links')
<1>1. /\ sub'[w][r] = label
      /\ \A v \in Workers, s \in Requests : (v # w \/ s # r) => sub'[v][s] = sub[v][s]
  BY SetSubEffect DEF Base
<1>2. \A v \in Workers : Queued(v)' = Queued(v)
  BY QueuedSame
<1>3. Links => \A v \in Workers, s \in Requests : taskResults'[v][TaskId[s]] \in {s, None}
  <2> SUFFICES ASSUME Links PROVE \A v \in Workers, s \in Requests : taskResults'[v][TaskId[s]] \in {s, None}
    OBVIOUS
  <2>1. \A v \in Workers, s \in Requests : taskResults[v][TaskId[s]] \in {s, None} /\ TaskId[s] \in Ids
    BY DEF Links, Delivered, Ids
  <2>2. ASSUME NEW x \in {r, None}, SetWaiter(w, r, x)
        PROVE  \A v \in Workers, s \in Requests : taskResults'[v][TaskId[s]] \in {s, None}
    <3>0. TypeOK /\ x \in Requests \cup {None}
      BY DEF Base
    <3>1. /\ taskResults'[w][TaskId[r]] = x
          /\ \A v \in Workers, id \in Ids : (v # w \/ id # TaskId[r]) => taskResults'[v][id] = taskResults[v][id]
      BY <2>2, <3>0, TaskResultsEffect
    <3> QED BY <2>1, <2>2, <3>1 DEF Links, DistinctIds
  <2> QED BY <2>1, <2>2
<1>4. Sessions'
  BY <1>1 DEF Base, Sessions
<1>5. Jobs' /\ Computed' /\ InOrder' /\ (Links => Answered')
  BY <1>2 DEF Base, Links, Jobs, Computed, InOrder, Answered, IsResult
<1>6. Posted'
  BY <1>1, <1>2 DEF Base, Posted, Unposted, TaskMsg
<1>7. Links => Delivered'
  BY <1>1, <1>3 DEF Links, Delivered, Outcomes
<1>8. Links => Accounted'
  BY <1>2 DEF Links, Accounted, Pending, IsResult, TaskMsg
<1> QED BY <1>4, <1>5, <1>6, <1>7, <1>8 DEF Base, Links

LEMMA SendInputsKeeps ==
    ASSUME Base, NEW w \in Workers, NEW r \in Requests, SendInputs(w, r), TypeOK'
    PROVE  Base' /\ (Links => Links')
<1>0. /\ UNCHANGED <<stream, connected, tasks, taskResults, down, up, job, resultCh>>
      /\ sub[w][r] = "idle" /\ stream[w] # "none"
  BY DEF SendInputs, sessionVars, agentVars
<1>a. CASE UNCHANGED sendCh /\ SetSub(w, r, "unsent")
  BY <1>0, <1>a, MoveKeeps DEF SubStates, Unposted, Outcomes
<1>b. CASE Post(w, "input", r) /\ SetSub(w, r, "sent")
  <2> DEFINE n == Len(Queued(w))
  <2>1. /\ sub'[w][r] = "sent"
        /\ \A v \in Workers, s \in Requests : (v # w \/ s # r) => sub'[v][s] = sub[v][s]
    BY <1>b, SetSubEffect DEF Base, SubStates
  <2>2. /\ n \in Nat /\ Len(Queued(w)') = n + 1
        /\ \A i \in 1..n : Queued(w)'[i] = Queued(w)[i]
        /\ Queued(w)'[n + 1] = InputMsg(r)
        /\ \A v \in Workers \ {w} : Queued(v)' = Queued(v)
    BY <1>0, <1>b, QueuedPost, QueuedType DEF Base, InputMsg
  <2>3. \A i \in 1..Len(Queued(w)') : i \in 1..n \/ i = n + 1
    BY <2>2
  <2>4. \A s \in Requests : Queued(w)'[n + 1] # TaskMsg(s) /\ (Queued(w)'[n + 1] = InputMsg(s) => s = r)
    BY <2>2 DEF InputMsg, TaskMsg
  <2> HIDE DEF n
  <2>5. Sessions'
    BY <1>0, <2>1 DEF Base, Sessions
  <2>6. Jobs' /\ Computed' /\ (Links => Answered' /\ Delivered')
    BY <1>0, <2>1 DEF Base, Links, Jobs, Computed, Answered, Delivered, IsResult, Outcomes
  <2>7. Posted'
    <3> SUFFICES ASSUME NEW v \in Workers, NEW s \in Requests
                 PROVE  /\ sub'[v][s] \in Unposted => job[v][s].at = "none"
                        /\ \A i \in 1..Len(Queued(v)') : Queued(v)'[i] = TaskMsg(s) =>
                             /\ sub'[v][s] \notin Unposted
                             /\ job[v][s].at = "none"
                             /\ \A j \in 1..Len(Queued(v)') : Queued(v)'[j] = TaskMsg(s) => i = j
      BY <1>0 DEF Posted, TaskMsg, Unposted
    <3>1. (sub'[v][s] \in Unposted) <=> (sub[v][s] \in Unposted)
      BY <1>0, <2>1 DEF Unposted
    <3>2. CASE v # w
      BY <2>2, <3>1, <3>2 DEF Base, Posted
    <3>3. CASE v = w
      <4>1. \A i \in 1..Len(Queued(w)') : Queued(w)'[i] = TaskMsg(s) => i \in 1..n /\ Queued(w)[i] = TaskMsg(s)
        BY <2>2, <2>3, <2>4
      <4> QED BY <3>1, <3>3, <4>1 DEF Base, Posted, n
    <3> QED BY <3>2, <3>3
  <2>8. InOrder'
    <3> SUFFICES ASSUME NEW v \in Workers, NEW s \in Requests, NEW i \in 1..Len(Queued(v)'),
                        Queued(v)'[i] = InputMsg(s)
                 PROVE  /\ job[v][s].at = "none"
                        /\ \A j \in 1..Len(Queued(v)') : Queued(v)'[j] = TaskMsg(s) => i < j
      BY <1>0 DEF InOrder, TaskMsg, InputMsg
    <3>1. CASE v # w
      BY <2>2, <3>1 DEF Base, InOrder
    <3>2. CASE v = w /\ i \in 1..n
      <4>1. \A j \in 1..Len(Queued(w)') : Queued(w)'[j] = TaskMsg(s) => j \in 1..n /\ Queued(w)[j] = TaskMsg(s)
        BY <2>2, <2>3, <2>4
      <4>2. Queued(w)[i] = InputMsg(s)
        BY <2>2, <3>2
      <4> QED BY <3>2, <4>1, <4>2 DEF Base, InOrder, n
    <3>3. CASE v = w /\ i = n + 1
      <4>1. s = r
        BY <2>4, <3>3
      <4>2. job[w][r].at = "none" /\ \A j \in 1..n : Queued(w)[j] # TaskMsg(r)
        BY <1>0 DEF Base, Posted, Unposted, n
      <4> QED BY <2>2, <2>3, <2>4, <3>3, <4>1, <4>2
    <3> QED BY <2>3, <3>1, <3>2, <3>3
  <2>9. Links => Accounted'
    <3>1. \A v \in Workers, s \in Requests : Pending(v, s)' <=> Pending(v, s)
      <4> SUFFICES ASSUME NEW v \in Workers, NEW s \in Requests
                   PROVE  (\E i \in 1..Len(Queued(v)') : Queued(v)'[i] = TaskMsg(s))
                            <=> (\E i \in 1..Len(Queued(v)) : Queued(v)[i] = TaskMsg(s))
        BY <1>0 DEF Pending, TaskMsg, IsResult
      <4>1. CASE v # w
        BY <2>2, <4>1
      <4>2. CASE v = w
        BY <2>2, <2>3, <2>4, <4>2 DEF n
      <4> QED BY <4>1, <4>2
    <3> QED BY <1>0, <3>1 DEF Links, Accounted
  <2> QED BY <2>5, <2>6, <2>7, <2>8, <2>9 DEF Base, Links
<1> QED BY <1>a, <1>b DEF SendInputs

LEMMA AssignTaskKeeps ==
    ASSUME Base, NEW w \in Workers, NEW r \in Requests, AssignTask(w, r), TypeOK'
    PROVE  Base' /\ (Links => Links')
<1>0. /\ UNCHANGED <<stream, connected, taskResults, down, up, job, resultCh>>
      /\ sub[w][r] \in {"sent", "unsent"} /\ stream[w] # "none"
  BY DEF AssignTask, agentVars, Base, Sessions
<1>1. /\ job[w][r].at = "none" /\ job[w][r].status = None
      /\ \A i \in 1..Len(Queued(w)) : Queued(w)[i] # TaskMsg(r)
  BY <1>0 DEF Base, Posted, Jobs, Unposted
<1>2. Links => ~Pending(w, r)
  BY <1>1, OrchestratorAssumption DEF Links, Answered, Pending, Outcomes
<1>a. CASE ~connected[w] /\ SetSub(w, r, "failed") /\ UNCHANGED <<sendCh, tasks>>
  BY <1>0, <1>a, MoveKeeps DEF SubStates, Ended, Unposted, Outcomes
<1>b. CASE SetSub(w, r, "failed") /\ UNCHANGED sendCh /\ tasks' = [tasks EXCEPT ![w] = TasksIfFull(w, r)]
  <2>1. /\ sub'[w][r] = "failed"
        /\ \A v \in Workers, s \in Requests : (v # w \/ s # r) => sub'[v][s] = sub[v][s]
    BY <1>b, SetSubEffect DEF Base, SubStates, Ended
  <2>2. \A v \in Workers : Queued(v)' = Queued(v)
    BY <1>0, <1>b, QueuedSame
  <2>3. tasks'[w] = tasks[w] \ {TaskId[r]} /\ \A v \in Workers \ {w} : tasks'[v] = tasks[v]
    BY <1>b DEF TasksIfFull, Base, TypeOK
  <2>4. Sessions'
    BY <1>0, <2>1, <2>3 DEF Base, Sessions
  <2>5. Jobs' /\ Computed' /\ InOrder' /\ (Links => Answered' /\ Delivered')
    BY <1>0, <2>1, <2>2 DEF Base, Links, Jobs, Computed, InOrder, Answered, Delivered, IsResult, Outcomes
  <2>6. Posted'
    BY <1>0, <1>1, <2>1, <2>2 DEF Base, Posted, Unposted, TaskMsg
  <2>7. \A v \in Workers, s \in Requests : Pending(v, s)' <=> Pending(v, s)
    BY <1>0, <2>2 DEF Pending, TaskMsg, IsResult
  <2>8. Links => Accounted'
    BY <1>0, <1>2, <2>3, <2>7 DEF Links, Accounted, DistinctIds
  <2> QED BY <2>4, <2>5, <2>6, <2>8 DEF Base, Links
<1>c. CASE /\ Post(w, "task", r) /\ SetSub(w, r, "assigned")
           /\ tasks' = [tasks EXCEPT ![w] = @ \cup {TaskId[r]}]
  <2> DEFINE n == Len(Queued(w))
  <2>1. /\ sub'[w][r] = "assigned"
        /\ \A v \in Workers, s \in Requests : (v # w \/ s # r) => sub'[v][s] = sub[v][s]
    BY <1>c, SetSubEffect DEF Base, SubStates
  <2>2. /\ n \in Nat /\ Len(Queued(w)') = n + 1
        /\ \A i \in 1..n : Queued(w)'[i] = Queued(w)[i]
        /\ Queued(w)'[n + 1] = TaskMsg(r)
        /\ \A v \in Workers \ {w} : Queued(v)' = Queued(v)
    BY <1>0, <1>c, QueuedPost, QueuedType DEF Base, TaskMsg
  <2>3. \A i \in 1..Len(Queued(w)') : i \in 1..n \/ i = n + 1
    BY <2>2
  <2>4. \A s \in Requests : Queued(w)'[n + 1] # InputMsg(s) /\ (Queued(w)'[n + 1] = TaskMsg(s) => s = r)
    BY <2>2 DEF InputMsg, TaskMsg
  <2>5. tasks'[w] = tasks[w] \cup {TaskId[r]} /\ \A v \in Workers \ {w} : tasks'[v] = tasks[v]
    BY <1>c DEF Base, TypeOK
  <2>6. Sessions'
    BY <1>0, <2>1, <2>5 DEF Base, Sessions
  <2>7. Jobs' /\ Computed' /\ (Links => Answered' /\ Delivered')
    BY <1>0, <2>1 DEF Base, Links, Jobs, Computed, Answered, Delivered, IsResult, Outcomes
  <2>8. Posted'
    <3> SUFFICES ASSUME NEW v \in Workers, NEW s \in Requests
                 PROVE  /\ sub'[v][s] \in Unposted => job[v][s].at = "none"
                        /\ \A i \in 1..Len(Queued(v)') : Queued(v)'[i] = TaskMsg(s) =>
                             /\ sub'[v][s] \notin Unposted
                             /\ job[v][s].at = "none"
                             /\ \A j \in 1..Len(Queued(v)') : Queued(v)'[j] = TaskMsg(s) => i = j
      BY <1>0 DEF Posted, TaskMsg, Unposted
    <3>1. CASE v # w
      BY <2>1, <2>2, <3>1 DEF Base, Posted
    <3>2. CASE v = w /\ s = r
      <4>1. \A i \in 1..Len(Queued(w)') : Queued(w)'[i] = TaskMsg(r) => i = n + 1
        BY <1>1, <2>2, <2>3 DEF n
      <4> QED BY <1>1, <2>1, <3>2, <4>1 DEF Unposted
    <3>3. CASE v = w /\ s # r
      <4>1. \A i \in 1..Len(Queued(w)') : Queued(w)'[i] = TaskMsg(s) => i \in 1..n /\ Queued(w)[i] = TaskMsg(s)
        BY <2>2, <2>3, <2>4, <3>3
      <4> QED BY <2>1, <3>3, <4>1 DEF Base, Posted, n
    <3> QED BY <3>1, <3>2, <3>3
  <2>9. InOrder'
    <3> SUFFICES ASSUME NEW v \in Workers, NEW s \in Requests, NEW i \in 1..Len(Queued(v)'),
                        Queued(v)'[i] = InputMsg(s)
                 PROVE  /\ job[v][s].at = "none"
                        /\ \A j \in 1..Len(Queued(v)') : Queued(v)'[j] = TaskMsg(s) => i < j
      BY <1>0 DEF InOrder, TaskMsg, InputMsg
    <3>1. CASE v # w
      BY <2>2, <3>1 DEF Base, InOrder
    <3>2. CASE v = w
      <4>1. i \in 1..n /\ Queued(w)[i] = InputMsg(s)
        BY <2>2, <2>3, <2>4, <3>2
      <4>2. job[w][s].at = "none" /\ \A j \in 1..n : Queued(w)[j] = TaskMsg(s) => i < j
        BY <4>1 DEF Base, InOrder, n
      <4> QED BY <2>2, <2>3, <3>2, <4>1, <4>2
    <3> QED BY <3>1, <3>2
  <2>10. Links => Accounted'
    <3>1. \A v \in Workers, s \in Requests : (v # w \/ s # r) => (Pending(v, s)' <=> Pending(v, s))
      <4> SUFFICES ASSUME NEW v \in Workers, NEW s \in Requests, v # w \/ s # r
                   PROVE  (\E i \in 1..Len(Queued(v)') : Queued(v)'[i] = TaskMsg(s))
                            <=> (\E i \in 1..Len(Queued(v)) : Queued(v)[i] = TaskMsg(s))
        BY <1>0 DEF Pending, TaskMsg, IsResult
      <4>1. CASE v # w
        BY <2>2, <4>1
      <4>2. CASE v = w
        BY <2>2, <2>3, <2>4, <4>2 DEF n
      <4> QED BY <4>1, <4>2
    <3>2. Pending(w, r)'
      <4>1. n + 1 \in 1..Len(Queued(w)')
        BY <2>2
      <4>2. \E i \in 1..Len(Queued(w)') : Queued(w)'[i] = TaskMsg(r)
        BY <2>2, <4>1
      <4> QED BY <4>2 DEF Pending, TaskMsg
    <3> QED BY <1>0, <2>5, <3>1, <3>2 DEF Links, Accounted, DistinctIds
  <2> QED BY <2>6, <2>7, <2>8, <2>9, <2>10 DEF Base, Links
<1> QED BY <1>a, <1>b, <1>c DEF AssignTask

LEMMA CoreKeeps ==
    ASSUME Base, NEW w \in Workers, NEW r \in Requests, Core(w, r), TypeOK'
    PROVE  Base' /\ (Links => Links')
<1>0. sub[w][r] # "idle" => stream[w] # "none"
  BY DEF Base, Sessions
<1> USE <1>0, MoveKeeps DEF SubStates, Ended, Unposted, Outcomes, wireVars, sessionVars, agentVars
<1>1. CASE RegisterWait(w, r)
  BY <1>1 DEF SetWaiter, RegisterWait
<1>2. CASE TakeResult(w, r)
  <2>1. /\ Links => job[w][r].status = resultCh[w][r]
        /\ resultCh[w][r] \in SubStates \ Unposted /\ sub[w][r] = "waiting"
    BY <1>2 DEF TakeResult, Base, Links, Delivered, TypeOK
  <2> QED BY <1>2, <2>1 DEF SetWaiter, TakeResult, Unregister
<1>3. CASE WaitTimeout(w, r)
  BY <1>3 DEF SetWaiter, WaitTimeout, Unregister
<1>4. CASE CollectReturned(w, r)
  BY <1>4 DEF CollectReturned
<1>5. CASE CollectNothing(w, r)
  BY <1>5 DEF CollectNothing
<1> QED BY <1>1, <1>2, <1>3, <1>4, <1>5, SendInputsKeeps, AssignTaskKeeps DEF Core
----------------------------------------------------------------------------
(* The agent.                                                              *)

(* The agent takes the head of the queue; a task starts.                   *)
LEMMA AgentReceiveKeeps ==
    ASSUME Base, NEW w \in Workers, AgentReceive(w), TypeOK'
    PROVE  Base' /\ (Links => Links')
<1> DEFINE q == Queued(w)
           m == q[1]
<1>1. /\ UNCHANGED <<stream, connected, tasks, taskResults, up, sub, resultCh>>
      /\ m = Head(down[w]) /\ m \in Msgs /\ Len(q) \in Nat /\ 1 \in 1..Len(q)
      /\ Len(Queued(w)') \in Nat /\ Len(Queued(w)') = Len(q) - 1
      /\ \A i \in 1..Len(Queued(w)') : Queued(w)'[i] = q[i + 1]
      /\ \A v \in Workers \ {w} : Queued(v)' = Queued(v)
  <2>1. TypeOK /\ down[w] # <<>> /\ down' = [down EXCEPT ![w] = Tail(@)] /\ UNCHANGED sendCh
    BY DEF Base, AgentReceive
  <2>2. Len(q) \in Nat /\ Len(Queued(w)') \in Nat
    BY QueuedType DEF Base
  <2>3. /\ Len(q) > 0 /\ Head(down[w]) = m /\ m \in Msgs
        /\ Len(Queued(w)') = Len(q) - 1
        /\ \A i \in 1..Len(Queued(w)') : Queued(w)'[i] = q[i + 1]
        /\ \A v \in Workers \ {w} : Queued(v)' = Queued(v)
    BY <2>1, QueuedReceive
  <2>4. UNCHANGED <<stream, connected, tasks, taskResults, up, sub, resultCh>>
    BY DEF AgentReceive, sessionVars, coreVars
  <2> HIDE DEF q
  <2>5. 1 \in 1..Len(q)
    BY <2>2, <2>3
  <2> QED BY <2>2, <2>3, <2>4, <2>5
<1>2. /\ \A i \in 1..Len(Queued(w)') : i + 1 \in 1..Len(q)
      /\ \A i \in 1..Len(q) : i # 1 => i - 1 \in 1..Len(Queued(w)') /\ Queued(w)'[i - 1] = q[i]
  BY <1>1
<1>3. \A r \in Requests, i \in 1..Len(q), j \in 1..Len(q) :
        /\ q[i] = TaskMsg(r) /\ q[j] = TaskMsg(r) => i = j
        /\ q[i] = InputMsg(r) /\ q[j] = TaskMsg(r) => i < j
        /\ q[i] = InputMsg(r) => job[w][r].at = "none"
  BY DEF Base, Posted, InOrder
<1> HIDE DEF q
<1>s. Sessions'
  BY <1>1 DEF Base, Sessions
<1>4. CASE m.kind = "input" /\ UNCHANGED job
  <2>1. \A r \in Requests : m # TaskMsg(r)
    BY <1>4 DEF TaskMsg
  <2>2. Jobs' /\ Computed' /\ (Links => Answered' /\ Delivered')
    BY <1>1, <1>4 DEF Base, Links, Jobs, Computed, Answered, Delivered, IsResult
  <2>3. Posted'
    <3> SUFFICES ASSUME NEW v \in Workers, NEW r \in Requests
                 PROVE  /\ sub[v][r] \in Unposted => job[v][r].at = "none"
                        /\ \A i \in 1..Len(Queued(v)') : Queued(v)'[i] = TaskMsg(r) =>
                             /\ sub[v][r] \notin Unposted
                             /\ job[v][r].at = "none"
                             /\ \A j \in 1..Len(Queued(v)') : Queued(v)'[j] = TaskMsg(r) => i = j
      BY <1>1, <1>4 DEF Posted, TaskMsg, Unposted
    <3>1. CASE v = w
      <4>1. ASSUME NEW i \in 1..Len(Queued(w)'), NEW j \in 1..Len(Queued(w)'),
                   Queued(w)'[i] = TaskMsg(r), Queued(w)'[j] = TaskMsg(r)
            PROVE  i = j
        <5>1. i + 1 \in 1..Len(q) /\ j + 1 \in 1..Len(q) /\ q[i + 1] = TaskMsg(r) /\ q[j + 1] = TaskMsg(r)
          BY <1>1, <1>2, <4>1
        <5>2. i + 1 = j + 1
          BY <1>3, <5>1
        <5> QED BY <5>2
      <4>2. /\ sub[w][r] \in Unposted => job[w][r].at = "none"
            /\ \A i \in 1..Len(q) : q[i] = TaskMsg(r) => sub[w][r] \notin Unposted /\ job[w][r].at = "none"
        BY DEF Base, Posted, q
      <4> QED BY <1>1, <1>2, <3>1, <4>1, <4>2
    <3>2. CASE v # w
      BY <1>1, <3>2 DEF Base, Posted
    <3> QED BY <3>1, <3>2
  <2>4. InOrder'
    <3> SUFFICES ASSUME NEW v \in Workers, NEW r \in Requests, NEW i \in 1..Len(Queued(v)'),
                        Queued(v)'[i] = InputMsg(r)
                 PROVE  /\ job[v][r].at = "none"
                        /\ \A j \in 1..Len(Queued(v)') : Queued(v)'[j] = TaskMsg(r) => i < j
      BY <1>4 DEF InOrder, TaskMsg, InputMsg
    <3>1. CASE v = w
      <4>1. ASSUME NEW j \in 1..Len(Queued(w)'), Queued(w)'[j] = TaskMsg(r)
            PROVE  i < j
        <5>1. i + 1 \in 1..Len(q) /\ j + 1 \in 1..Len(q) /\ q[i + 1] = InputMsg(r) /\ q[j + 1] = TaskMsg(r)
          BY <1>1, <1>2, <3>1, <4>1
        <5>2. i + 1 < j + 1
          BY <1>3, <5>1
        <5> QED BY <3>1, <5>2
      <4> QED BY <1>1, <1>2, <3>1, <4>1 DEF Base, InOrder, q
    <3>2. CASE v # w
      BY <1>1, <3>2 DEF Base, InOrder
    <3> QED BY <3>1, <3>2
  <2>5. \A v \in Workers, r \in Requests : Pending(v, r)' <=> Pending(v, r)
    <3> SUFFICES ASSUME NEW v \in Workers, NEW r \in Requests
                 PROVE  (\E i \in 1..Len(Queued(v)') : Queued(v)'[i] = TaskMsg(r))
                          <=> (\E i \in 1..Len(Queued(v)) : Queued(v)[i] = TaskMsg(r))
      BY <1>1, <1>4 DEF Pending, TaskMsg, IsResult
    <3>1. CASE v # w
      BY <1>1, <3>1
    <3>2. CASE v = w
      BY <1>1, <1>2, <2>1, <3>2 DEF q
    <3> QED BY <3>1, <3>2
  <2>6. Links => Accounted'
    BY <1>1, <2>5 DEF Links, Accounted
  <2> QED BY <1>s, <2>2, <2>3, <2>4, <2>6 DEF Base, Links
<1>5. CASE m.kind = "task" /\ SetJob(w, m.req, [NoJob EXCEPT !.at = "started"])
  <2> PICK s \in Requests : m = TaskMsg(s) /\ m.req = s
    BY <1>1, <1>5 DEF Msgs, TaskMsg
  <2> DEFINE j1 == [NoJob EXCEPT !.at = "started"]
  <2>1. s \in Requests /\ m = TaskMsg(s) /\ j1 \in JobStates /\ j1.at = "started" /\ j1.status = None
    BY DEF NoJob, JobStates
  <2>2. SetJob(w, s, j1)
    BY <1>5
  <2> HIDE DEF j1
  <2>3. /\ job'[w][s] = j1
        /\ \A v \in Workers, t \in Requests : (v # w \/ t # s) => job'[v][t] = job[v][t]
    BY <2>1, <2>2, SetJobEffect DEF Base
  <2>4. /\ sub[w][s] \notin Unposted /\ job[w][s].at = "none"
        /\ \A i \in 1..Len(q) : q[i] = TaskMsg(s) => i = 1
    BY <1>1, <2>1 DEF Base, Posted, q
  <2>5. \A v \in Workers, t \in Requests : job'[v][t].status = job[v][t].status
    BY <2>1, <2>3, <2>4 DEF Base, Jobs
  <2>6. ASSUME NEW i \in 1..Len(Queued(w)') PROVE Queued(w)'[i] \notin {TaskMsg(s), InputMsg(s)}
    <3>1. i + 1 \in 1..Len(q) /\ Queued(w)'[i] = q[i + 1] /\ i + 1 # 1 /\ ~(i + 1 < 1)
      BY <1>1, <1>2
    <3>2. q[i + 1] # TaskMsg(s)
      BY <2>4, <3>1
    <3>3. q[i + 1] # InputMsg(s)
      BY <1>1, <2>1, <3>1 DEF Base, InOrder, q
    <3> QED BY <3>1, <3>2, <3>3
  <2>7. Jobs' /\ Computed'
    BY <2>1, <2>3 DEF Base, Jobs, Computed, Outcomes, Data
  <2>8. Links => Answered' /\ Delivered'
    <3>1. UNCHANGED <<taskResults, up, sub, resultCh>>
      BY <1>1
    <3>2. Links => Answered'
      BY <2>5, <3>1 DEF Links, Answered, IsResult, Outcomes
    <3>3. Links => Delivered'
      BY <2>5, <3>1 DEF Links, Delivered, Outcomes
    <3> QED BY <3>2, <3>3
  <2>9. Posted'
    <3> SUFFICES ASSUME NEW v \in Workers, NEW r \in Requests
                 PROVE  /\ sub[v][r] \in Unposted => job'[v][r].at = "none"
                        /\ \A i \in 1..Len(Queued(v)') : Queued(v)'[i] = TaskMsg(r) =>
                             /\ sub[v][r] \notin Unposted
                             /\ job'[v][r].at = "none"
                             /\ \A j \in 1..Len(Queued(v)') : Queued(v)'[j] = TaskMsg(r) => i = j
      BY <1>1 DEF Posted, TaskMsg, Unposted
    <3>1. CASE v = w /\ r = s
      BY <2>4, <2>6, <3>1
    <3>2. CASE v = w /\ r # s
      <4>1. ASSUME NEW i \in 1..Len(Queued(w)'), NEW j \in 1..Len(Queued(w)'),
                   Queued(w)'[i] = TaskMsg(r), Queued(w)'[j] = TaskMsg(r)
            PROVE  i = j
        <5>1. i + 1 \in 1..Len(q) /\ j + 1 \in 1..Len(q) /\ q[i + 1] = TaskMsg(r) /\ q[j + 1] = TaskMsg(r)
          BY <1>1, <1>2, <4>1
        <5>2. i + 1 = j + 1
          BY <1>3, <5>1
        <5> QED BY <5>2
      <4>2. /\ sub[w][r] \in Unposted => job[w][r].at = "none"
            /\ \A i \in 1..Len(q) : q[i] = TaskMsg(r) => sub[w][r] \notin Unposted /\ job[w][r].at = "none"
        BY DEF Base, Posted, q
      <4>3. job'[w][r] = job[w][r]
        BY <2>1, <2>3, <3>2
      <4> QED BY <1>1, <1>2, <3>2, <4>1, <4>2, <4>3
    <3>3. CASE v # w
      BY <1>1, <2>3, <3>3 DEF Base, Posted
    <3> QED BY <3>1, <3>2, <3>3
  <2>10. InOrder'
    <3> SUFFICES ASSUME NEW v \in Workers, NEW r \in Requests, NEW i \in 1..Len(Queued(v)'),
                        Queued(v)'[i] = InputMsg(r)
                 PROVE  /\ job'[v][r].at = "none"
                        /\ \A j \in 1..Len(Queued(v)') : Queued(v)'[j] = TaskMsg(r) => i < j
      BY DEF InOrder, TaskMsg, InputMsg
    <3>1. CASE v = w
      <4>1. ASSUME NEW j \in 1..Len(Queued(w)'), Queued(w)'[j] = TaskMsg(r)
            PROVE  i < j
        <5>1. i + 1 \in 1..Len(q) /\ j + 1 \in 1..Len(q) /\ q[i + 1] = InputMsg(r) /\ q[j + 1] = TaskMsg(r)
          BY <1>1, <1>2, <3>1, <4>1
        <5>2. i + 1 < j + 1
          BY <1>3, <5>1
        <5> QED BY <3>1, <5>2
      <4>2. r # s
        BY <2>6, <3>1
      <4>3. job'[w][r] = job[w][r]
        BY <2>1, <2>3, <4>2
      <4>4. job[w][r].at = "none"
        <5>1. i + 1 \in 1..Len(q) /\ q[i + 1] = InputMsg(r)
          BY <1>1, <1>2, <3>1
        <5> QED BY <1>3, <5>1
      <4> QED BY <3>1, <4>1, <4>3, <4>4
    <3>2. CASE v # w
      BY <1>1, <2>3, <3>2 DEF Base, InOrder
    <3> QED BY <3>1, <3>2
  <2>11. \A v \in Workers, r \in Requests : Pending(v, r)' <=> Pending(v, r)
    <3>1. Pending(w, s)'
      BY <2>1, <2>3 DEF Pending
    <3>2. Pending(w, s)
      BY <1>1, <2>1 DEF Pending, q
    <3>3. ASSUME NEW v \in Workers, NEW r \in Requests, v # w \/ r # s
          PROVE  (\E i \in 1..Len(Queued(v)') : Queued(v)'[i] = TaskMsg(r))
                    <=> (\E i \in 1..Len(Queued(v)) : Queued(v)[i] = TaskMsg(r))
      <4>1. CASE v # w
        BY <1>1, <4>1
      <4>2. CASE v = w /\ r # s
        <5>1. m # TaskMsg(r)
          BY <2>1, <4>2 DEF TaskMsg
        <5> QED BY <1>1, <1>2, <4>2, <5>1 DEF q
      <4> QED BY <3>3, <4>1, <4>2
    <3>4. ASSUME NEW v \in Workers, NEW r \in Requests, v # w \/ r # s
          PROVE  Pending(v, r)' <=> Pending(v, r)
      <4>1. job'[v][r] = job[v][r] /\ up'[v] = up[v]
        BY <1>1, <2>1, <2>3, <3>4
      <4> QED BY <3>3, <3>4, <4>1 DEF Pending, TaskMsg, IsResult
    <3> QED BY <2>1, <3>1, <3>2, <3>4
  <2>12. Links => Accounted'
    BY <1>1, <2>11 DEF Links, Accounted
  <2> QED BY <1>s, <2>7, <2>8, <2>9, <2>10, <2>12 DEF Base, Links
<1> QED BY <1>1, <1>4, <1>5 DEF AgentReceive

LEMMA TakeInputsKeeps ==
    ASSUME Base, NEW w \in Workers, NEW r \in Requests, TakeInputs(w, r), TypeOK'
    PROVE  Base' /\ (Links => Links')
<1> DEFINE j1 == [job[w][r] EXCEPT !.at = "ready", !.input = cache[w]]
<1>1. job[w][r] \in JobStates /\ cache[w] \in Requests \cup {None}
  BY JobType DEF Base, TypeOK
<1>2. j1 \in JobStates /\ j1.at = "ready" /\ j1.status = job[w][r].status
  BY <1>1 DEF JobStates
<1>3. SetJob(w, r, j1) /\ job[w][r].at = "started"
  BY DEF TakeInputs
<1> HIDE DEF j1
<1>4. /\ job'[w][r] = j1
      /\ \A v \in Workers, s \in Requests : (v # w \/ s # r) => job'[v][s] = job[v][s]
  BY <1>2, <1>3, SetJobEffect DEF Base
<1>5. /\ UNCHANGED <<stream, connected, tasks, taskResults, up, sub, resultCh>>
      /\ \A v \in Workers : Queued(v)' = Queued(v)
  BY QueuedSame DEF TakeInputs, wireVars, sessionVars, coreVars
<1>6. \A v \in Workers, s \in Requests :
        /\ job'[v][s].status = job[v][s].status
        /\ (job'[v][s].at = "none") <=> (job[v][s].at = "none")
        /\ (job'[v][s].at \in {"started", "ready"}) <=> (job[v][s].at \in {"started", "ready"})
  BY <1>2, <1>3, <1>4
<1>7. Sessions'
  BY <1>5 DEF Base, Sessions
<1>8. Jobs' /\ Computed'
  BY <1>2, <1>3, <1>4 DEF Base, Jobs, Computed, Outcomes, Data
<1>9. Posted' /\ InOrder'
  BY <1>5, <1>6 DEF Base, Posted, InOrder, TaskMsg, InputMsg, Unposted
<1>10. Links => Answered' /\ Delivered'
  BY <1>5, <1>6 DEF Links, Answered, Delivered, IsResult, Outcomes
<1>11. Links => Accounted'
  BY <1>5, <1>6 DEF Links, Accounted, Pending, IsResult, TaskMsg
<1> QED BY <1>7, <1>8, <1>9, <1>10, <1>11 DEF Base, Links

(* An answer is put on the stream, or lost when the stream is gone.        *)
LEMMA UpSend ==
    ASSUME TypeOK, NEW w \in Workers, NEW m \in Answers, SendUp(w, m)
    PROVE  /\ \A v \in Workers \ {w} : up'[v] = up[v]
           /\ Len(up[w]) \in Nat
           /\ \/ stream[w] # "open" /\ up'[w] = up[w]
              \/ /\ Len(up'[w]) = Len(up[w]) + 1
                 /\ \A i \in 1..Len(up[w]) : up'[w][i] = up[w][i]
                 /\ up'[w][Len(up[w]) + 1] = m
<1>1. up[w] \in Seq(Answers)
  BY DEF TypeOK
<1>2. CASE stream[w] # "open"
  BY <1>1, <1>2, LenProperties DEF SendUp
<1>3. CASE stream[w] = "open"
  <2>1. up'[w] = Append(up[w], m) /\ \A v \in Workers \ {w} : up'[v] = up[v]
    BY <1>3 DEF SendUp, TypeOK
  <2> QED BY <1>1, <2>1, AppendProperties, LenProperties
<1> QED BY <1>2, <1>3

(* The first answer of a task takes it over from the agent.                *)
LEMMA ExecuteKeeps ==
    ASSUME Base, NEW w \in Workers, NEW r \in Requests, Execute(w, r), TypeOK'
    PROVE  Base' /\ (Links => Links')
<1> PICK status \in Outcomes :
      /\ SetJob(w, r, IF status = "complete"
                      THEN [job[w][r] EXCEPT !.at = "output", !.ran = engine'[w], !.status = status]
                      ELSE [NoJob EXCEPT !.at = "done", !.status = status])
      /\ SendUp(w, [kind |-> "result", id |-> TaskId[r], status |-> status])
  BY DEF Execute
<1> DEFINE n == Len(up[w])
<1>1. /\ UNCHANGED <<stream, connected, tasks, taskResults, sub, resultCh>>
      /\ \A v \in Workers : Queued(v)' = Queued(v)
      /\ job[w][r].at = "ready"
  BY QueuedSame DEF Execute, sessionVars, coreVars
<1>2. PICK j1 \in JobStates : /\ SetJob(w, r, j1)
                              /\ j1.at = (IF status = "complete" THEN "output" ELSE "done")
                              /\ j1.status = status
                              /\ j1.at = "output" => j1.ran \in Data
  <2>1. engine'[w] \in Data
    <3>1. engine[w] \in Data \cup {None} /\ job[w][r].input \in Requests \cup {None}
      BY JobType DEF Base, TypeOK, JobStates
    <3>2. LoadBuffer(w, job[w][r].input) \in Data
      BY <3>1 DEF LoadBuffer, Data
    <3> QED BY <3>2 DEF Execute, Base, TypeOK
  <2>2. CASE status = "complete"
    <3> DEFINE j2 == [job[w][r] EXCEPT !.at = "output", !.ran = engine'[w], !.status = status]
    <3>1. job[w][r] \in JobStates
      BY JobType DEF Base
    <3>2. j2 \in JobStates /\ j2.at = "output" /\ j2.status = status /\ j2.ran = engine'[w]
      BY <2>1, <3>1 DEF JobStates
    <3>3. SetJob(w, r, j2)
      BY <2>2
    <3> HIDE DEF j2
    <3> QED BY <2>1, <2>2, <3>2, <3>3
  <2>3. CASE status # "complete"
    <3> DEFINE j2 == [NoJob EXCEPT !.at = "done", !.status = status]
    <3>1. j2 \in JobStates /\ j2.at = "done" /\ j2.status = status
      BY DEF JobStates, NoJob
    <3>2. SetJob(w, r, j2)
      BY <2>3
    <3> HIDE DEF j2
    <3> QED BY <2>3, <3>1, <3>2
  <2> QED BY <2>2, <2>3
<1>3. /\ job'[w][r] = j1
      /\ \A v \in Workers, s \in Requests : (v # w \/ s # r) => job'[v][s] = job[v][s]
  BY <1>2, SetJobEffect DEF Base
<1> DEFINE m == [kind |-> "result", id |-> TaskId[r], status |-> status]
<1>4. /\ \A v \in Workers \ {w} : up'[v] = up[v]
      /\ n \in Nat
      /\ \/ stream[w] # "open" /\ up'[w] = up[w]
         \/ /\ Len(up'[w]) = n + 1
            /\ \A i \in 1..n : up'[w][i] = up[w][i]
            /\ up'[w][n + 1] = m
  <2>1. m \in Answers
    BY DEF Answers, Ids
  <2>2. SendUp(w, m)
    OBVIOUS
  <2> HIDE DEF m
  <2> QED BY <2>1, <2>2, UpSend DEF Base
<1>5. m.status = status /\ (Links => \A s \in Requests : IsResult(m, s) <=> s = r)
  BY DEF IsResult, Links, DistinctIds
<1>6. /\ job[w][r].status = None
      /\ sub[w][r] \notin Unposted
      /\ \A i \in 1..Len(Queued(w)) : Queued(w)[i] # TaskMsg(r) /\ Queued(w)[i] # InputMsg(r)
      /\ Links => /\ \A i \in 1..n : ~IsResult(up[w][i], r)
                  /\ resultCh[w][r] = None /\ sub[w][r] \notin Outcomes
  <2>1. job[w][r].status = None
    BY <1>1 DEF Base, Jobs
  <2>2. sub[w][r] \notin Unposted
        /\ \A i \in 1..Len(Queued(w)) : Queued(w)[i] # TaskMsg(r) /\ Queued(w)[i] # InputMsg(r)
    BY <1>1 DEF Base, Posted, InOrder
  <2>3. Links => \A i \in 1..n : ~IsResult(up[w][i], r)
    BY <2>1, OrchestratorAssumption DEF Links, Answered, Outcomes
  <2>4. Links => resultCh[w][r] = None /\ sub[w][r] \notin Outcomes
    BY <2>1, OrchestratorAssumption DEF Base, Links, Delivered, Outcomes, TypeOK
  <2> QED BY <2>1, <2>2, <2>3, <2>4
<1> HIDE DEF m, n
<1>7. Sessions'
  BY <1>1 DEF Base, Sessions
<1>8. Jobs' /\ Computed'
  BY <1>2, <1>3 DEF Base, Jobs, Computed, Outcomes, Data
<1>9. Posted'
  <2> SUFFICES ASSUME NEW v \in Workers, NEW s \in Requests
               PROVE  /\ sub[v][s] \in Unposted => job'[v][s].at = "none"
                      /\ \A i \in 1..Len(Queued(v)) : Queued(v)[i] = TaskMsg(s) =>
                           /\ sub[v][s] \notin Unposted
                           /\ job'[v][s].at = "none"
                           /\ \A j \in 1..Len(Queued(v)) : Queued(v)[j] = TaskMsg(s) => i = j
    BY <1>1 DEF Posted, TaskMsg, Unposted
  <2>1. CASE v = w /\ s = r
    BY <1>6, <2>1
  <2>2. CASE v # w \/ s # r
    BY <1>3, <2>2 DEF Base, Posted
  <2> QED BY <2>1, <2>2
<1>10. InOrder'
  <2> SUFFICES ASSUME NEW v \in Workers, NEW s \in Requests, NEW i \in 1..Len(Queued(v)),
                      Queued(v)[i] = InputMsg(s)
               PROVE  /\ job'[v][s].at = "none"
                      /\ \A j \in 1..Len(Queued(v)) : Queued(v)[j] = TaskMsg(s) => i < j
    <3>1. \A v \in Workers : Queued(v)' = Queued(v)
      BY <1>1
    <3> QED BY <3>1 DEF InOrder, TaskMsg, InputMsg
  <2>1. v # w \/ s # r
    BY <1>6
  <2> QED BY <1>3, <2>1 DEF Base, InOrder
<1>11. Links => Answered'
  <2> SUFFICES ASSUME Links, NEW v \in Workers, NEW s \in Requests, NEW i \in 1..Len(up'[v]), IsResult(up'[v][i], s)
               PROVE  /\ job'[v][s].status \in Outcomes
                      /\ job'[v][s].status = up'[v][i].status
                      /\ \A j \in 1..Len(up'[v]) : IsResult(up'[v][j], s) => i = j
    BY DEF Answered, IsResult, Outcomes
  <2>1. CASE v # w
    BY <1>3, <1>4, <2>1 DEF Links, Answered
  <2>2. CASE v = w /\ stream[w] # "open" /\ up'[w] = up[w]
    <3>1. s # r
      BY <1>6, <2>2 DEF n
    <3> QED BY <1>3, <2>2, <3>1 DEF Links, Answered
  <2>3. CASE /\ v = w /\ Len(up'[w]) = n + 1
             /\ \A k \in 1..n : up'[w][k] = up[w][k]
             /\ up'[w][n + 1] = m
    <3>1. \A k \in 1..Len(up'[w]) : k \in 1..n \/ k = n + 1
      BY <1>4, <2>3
    <3>2. CASE s = r
      <4>1. \A k \in 1..Len(up'[w]) : IsResult(up'[w][k], r) => k = n + 1
        BY <1>6, <2>3, <3>1
      <4>2. i = n + 1
        BY <2>3, <3>2, <4>1
      <4> QED BY <1>2, <1>3, <1>5, <2>3, <3>2, <4>1, <4>2
    <3>3. CASE s # r
      <4>1. \A k \in 1..Len(up'[w]) : IsResult(up'[w][k], s) => k \in 1..n /\ IsResult(up[w][k], s)
        BY <1>5, <2>3, <3>1, <3>3
      <4>2. i \in 1..n /\ IsResult(up[w][i], s) /\ up'[w][i] = up[w][i]
        BY <2>3, <4>1
      <4>3. job'[w][s] = job[w][s]
        BY <1>3, <3>3
      <4>4. /\ job[w][s].status \in Outcomes /\ job[w][s].status = up[w][i].status
            /\ \A k \in 1..n : IsResult(up[w][k], s) => i = k
        BY <4>2 DEF Links, Answered, n
      <4> QED BY <2>3, <4>1, <4>2, <4>3, <4>4
    <3> QED BY <3>2, <3>3
  <2> QED BY <1>4, <2>1, <2>2, <2>3
<1>12. Links => Delivered'
  <2> SUFFICES ASSUME Links, NEW v \in Workers, NEW s \in Requests
               PROVE  /\ taskResults[v][TaskId[s]] \in {s, None}
                      /\ resultCh[v][s] # None => job'[v][s].status = resultCh[v][s]
                      /\ sub[v][s] \in Outcomes => job'[v][s].status = sub[v][s]
    BY <1>1 DEF Delivered, Outcomes
  <2>1. CASE v = w /\ s = r
    BY <1>6, <2>1 DEF Links, Delivered
  <2>2. CASE v # w \/ s # r
    BY <1>3, <2>2 DEF Links, Delivered
  <2> QED BY <2>1, <2>2
<1>13. Links => Accounted'
  <2> SUFFICES ASSUME Links, NEW v \in Workers, stream[v] = "open", NEW s \in Requests
               PROVE  TaskId[s] \in tasks[v] <=> Pending(v, s)'
    BY <1>1 DEF Accounted
  <2>1. TaskId[s] \in tasks[v] <=> Pending(v, s)
    BY DEF Links, Accounted
  <2>2. CASE v # w
    <3>1. Pending(v, s)' <=> Pending(v, s)
      BY <1>1, <1>3, <1>4, <2>2 DEF Pending, TaskMsg, IsResult
    <3> QED BY <2>1, <3>1
  <2>3. CASE v = w
    <3>1. /\ Len(up'[w]) = n + 1
          /\ \A i \in 1..n : up'[w][i] = up[w][i]
          /\ up'[w][n + 1] = m
      BY <1>4, <2>3
    <3>2. \A k \in 1..Len(up'[w]) : k \in 1..n \/ k = n + 1
      BY <1>4, <3>1
    <3>3. CASE s = r
      <4>1. n + 1 \in 1..Len(up'[w]) /\ IsResult(up'[w][n + 1], r)
        BY <1>4, <1>5, <3>1
      <4>2. Pending(w, r)'
        BY <4>1 DEF Pending, IsResult
      <4>3. Pending(w, r)
        BY <1>1 DEF Pending
      <4> QED BY <2>1, <2>3, <3>3, <4>2, <4>3
    <3>4. CASE s # r
      <4>1. (\E i \in 1..Len(up'[w]) : IsResult(up'[w][i], s)) <=> (\E i \in 1..n : IsResult(up[w][i], s))
        BY <1>4, <1>5, <3>1, <3>2, <3>4
      <4>2. job'[w][s] = job[w][s]
        BY <1>3, <3>4
      <4>3. Pending(w, s)' <=> Pending(w, s)
        BY <1>1, <4>1, <4>2 DEF Pending, TaskMsg, IsResult, n
      <4> QED BY <2>1, <2>3, <4>3
    <3> QED BY <3>3, <3>4
  <2> QED BY <2>2, <2>3
<1> QED BY <1>7, <1>8, <1>9, <1>10, <1>11, <1>12, <1>13 DEF Base, Links

(* The output that follows is no result.                                   *)
LEMMA SendOutputKeeps ==
    ASSUME Base, NEW w \in Workers, NEW r \in Requests, SendOutput(w, r), TypeOK'
    PROVE  Base' /\ (Links => Links')
<1> DEFINE n == Len(up[w])
           m == [kind |-> "output", data |-> job[w][r].ran]
           j1 == [NoJob EXCEPT !.at = "done", !.status = job[w][r].status]
<1>1. /\ UNCHANGED <<stream, connected, tasks, taskResults, sub, resultCh>>
      /\ \A v \in Workers : Queued(v)' = Queued(v)
      /\ job[w][r].at = "output" /\ SetJob(w, r, j1) /\ SendUp(w, m)
  BY QueuedSame DEF SendOutput, sessionVars, coreVars
<1>2. m \in Answers /\ \A s \in Requests : ~IsResult(m, s)
  BY <1>1 DEF Answers, Base, Computed, IsResult
<1>3. j1 \in JobStates /\ j1.at = "done" /\ j1.status = job[w][r].status
  BY JobType DEF Base, NoJob, JobStates
<1> HIDE DEF m, j1
<1>4. /\ job'[w][r] = j1
      /\ \A v \in Workers, s \in Requests : (v # w \/ s # r) => job'[v][s] = job[v][s]
  BY <1>1, <1>3, SetJobEffect DEF Base
<1>5. \A v \in Workers, s \in Requests :
        /\ job'[v][s].status = job[v][s].status
        /\ (job'[v][s].at = "none") <=> (job[v][s].at = "none")
        /\ (job'[v][s].at \in {"started", "ready"}) <=> (job[v][s].at \in {"started", "ready"})
  BY <1>1, <1>3, <1>4
<1>6. /\ \A v \in Workers \ {w} : up'[v] = up[v]
      /\ n \in Nat
      /\ \/ up'[w] = up[w]
         \/ /\ Len(up'[w]) = n + 1
            /\ \A i \in 1..n : up'[w][i] = up[w][i]
            /\ up'[w][n + 1] = m
  BY <1>1, <1>2, UpSend DEF Base
<1> HIDE DEF n
<1>7. \A v \in Workers, s \in Requests : \A i \in 1..Len(up'[v]) : IsResult(up'[v][i], s) =>
        i \in 1..Len(up[v]) /\ IsResult(up[v][i], s) /\ up'[v][i] = up[v][i]
  <2> SUFFICES ASSUME NEW v \in Workers, NEW s \in Requests, NEW i \in 1..Len(up'[v]), IsResult(up'[v][i], s)
               PROVE  i \in 1..Len(up[v]) /\ IsResult(up[v][i], s) /\ up'[v][i] = up[v][i]
    OBVIOUS
  <2>1. CASE up'[v] = up[v]
    BY <2>1
  <2>2. CASE /\ v = w /\ Len(up'[w]) = n + 1
             /\ \A k \in 1..n : up'[w][k] = up[w][k]
             /\ up'[w][n + 1] = m
    <3>1. i \in 1..n \/ i = n + 1
      BY <1>6, <2>2
    <3> QED BY <1>2, <2>2, <3>1 DEF n
  <2> QED BY <1>6, <2>1, <2>2
<1>8. \A v \in Workers, s \in Requests : \A i \in 1..Len(up[v]) : IsResult(up[v][i], s) =>
        i \in 1..Len(up'[v]) /\ IsResult(up'[v][i], s)
  <2> SUFFICES ASSUME NEW v \in Workers, NEW s \in Requests, NEW i \in 1..Len(up[v]), IsResult(up[v][i], s)
               PROVE  i \in 1..Len(up'[v]) /\ IsResult(up'[v][i], s)
    OBVIOUS
  <2>1. CASE up'[v] = up[v]
    BY <2>1
  <2>2. CASE /\ v = w /\ Len(up'[w]) = n + 1
             /\ \A k \in 1..n : up'[w][k] = up[w][k]
    <3>1. i \in 1..n + 1
      BY <1>6, <2>2 DEF n
    <3> QED BY <2>2, <3>1 DEF n
  <2> QED BY <1>6, <2>1, <2>2
<1>9. Sessions'
  BY <1>1 DEF Base, Sessions
<1>10. Jobs' /\ Computed'
  BY <1>1, <1>3, <1>4 DEF Base, Jobs, Computed, Outcomes, Data
<1>11. Posted' /\ InOrder'
  BY <1>1, <1>5 DEF Base, Posted, InOrder, TaskMsg, InputMsg, Unposted
<1>12. Links => Delivered'
  BY <1>1, <1>5 DEF Links, Delivered, Outcomes
<1>13. Links => Answered'
  <2> SUFFICES ASSUME Links, NEW v \in Workers, NEW s \in Requests, NEW i \in 1..Len(up'[v]), IsResult(up'[v][i], s)
               PROVE  /\ job'[v][s].status \in Outcomes
                      /\ job'[v][s].status = up'[v][i].status
                      /\ \A j \in 1..Len(up'[v]) : IsResult(up'[v][j], s) => i = j
    BY DEF Answered, IsResult, Outcomes
  <2>1. i \in 1..Len(up[v]) /\ IsResult(up[v][i], s) /\ up'[v][i] = up[v][i]
    BY <1>7
  <2>2. /\ job[v][s].status \in Outcomes /\ job[v][s].status = up[v][i].status
        /\ \A j \in 1..Len(up[v]) : IsResult(up[v][j], s) => i = j
    BY <2>1 DEF Links, Answered
  <2> QED BY <1>5, <1>7, <2>1, <2>2
<1>14. Links => Accounted'
  <2>1. \A v \in Workers, s \in Requests : Pending(v, s)' <=> Pending(v, s)
    <3> SUFFICES ASSUME NEW v \in Workers, NEW s \in Requests PROVE Pending(v, s)' <=> Pending(v, s)
      OBVIOUS
    <3>1. (\E i \in 1..Len(up'[v]) : IsResult(up'[v][i], s)) <=> (\E i \in 1..Len(up[v]) : IsResult(up[v][i], s))
      BY <1>7, <1>8
    <3> QED BY <1>1, <1>5, <3>1 DEF Pending, TaskMsg, IsResult
  <2> QED BY <1>1, <2>1 DEF Links, Accounted
<1> QED BY <1>9, <1>10, <1>11, <1>12, <1>13, <1>14 DEF Base, Links

LEMMA StutterKeeps ==
    ASSUME Base, UNCHANGED <<stream, connected, tasks, taskResults, sendCh, down, up, job, sub, resultCh>>, TypeOK'
    PROVE  Base' /\ (Links => Links')
<1>1. \A v \in Workers : Queued(v)' = Queued(v)
  BY QueuedSame
<1> QED
  BY <1>1 DEF Base, Links, Sessions, Jobs, Computed, Posted, InOrder, Answered, Delivered, Accounted, Pending, IsResult, TaskMsg, InputMsg, Unposted, Outcomes

LEMMA NextKeeps == ASSUME Base, [Next]_vars PROVE Base' /\ (Links => Links')
<1> DEFINE Keeps == Base' /\ (Links => Links')
<1>1. TypeOK'
  BY NextTypeOK DEF Base
<1>2. ASSUME NEW w \in Workers, Session(w) \/ BreakStream(w) PROVE Keeps
  BY <1>1, <1>2, OpenStreamKeeps, SenderSendKeeps, EndStreamKeeps, ReceiveUpKeeps, BreakStreamKeeps DEF Session
<1>3. ASSUME NEW w \in Workers, Agent(w) PROVE Keeps
  BY <1>1, <1>3, AgentReceiveKeeps, TakeInputsKeeps, ExecuteKeeps, SendOutputKeeps DEF Agent
<1>4. ASSUME NEW w \in Workers, NEW r \in Requests, Core(w, r) PROVE Keeps
  BY <1>1, <1>4, CoreKeeps
<1>5. ASSUME NEW r \in Requests, Expire(r) PROVE Keeps
  BY <1>1, <1>5, StutterKeeps DEF Expire, wireVars, sessionVars, agentVars
<1>6. ASSUME UNCHANGED vars PROVE Keeps
  BY <1>1, <1>6, StutterKeeps DEF vars, wireVars, sessionVars, agentVars, coreVars
<1> HIDE DEF Keeps
<1>7. Keeps
  BY <1>2, <1>3, <1>4, <1>5, <1>6 DEF Next
<1> QED BY <1>7 DEF Keeps
----------------------------------------------------------------------------
(* What the invariant means for tasks and their ids.                       *)
LEMMA AccountedMeans == Base /\ Links => PendingTasksAccounted
<1> SUFFICES ASSUME Base, Links, NEW w \in Workers, stream[w] = "open", NEW id \in Ids
             PROVE  id \in tasks[w] <=> TaskQueued(w, id) \/ TaskRunning(w, id) \/ ResultComing(w, id)
  BY DEF PendingTasksAccounted
<1>1. Queued(w) \in Seq(Msgs) /\ up[w] \in Seq(Answers)
  BY QueuedType DEF Base, TypeOK
<1>2. /\ Range(Queued(w)) = {Queued(w)[i] : i \in 1..Len(Queued(w))}
      /\ Range(up[w]) = {up[w][i] : i \in 1..Len(up[w])}
  BY <1>1 DEF Range
<1>3. \A r \in Requests : TaskId[r] \in tasks[w] <=> Pending(w, r)
  BY DEF Links, Accounted
<1>4. TaskQueued(w, id) <=> \E r \in Requests : TaskId[r] = id /\ \E i \in 1..Len(Queued(w)) : Queued(w)[i] = TaskMsg(r)
  <2>1. \A i \in 1..Len(Queued(w)) : Queued(w)[i] \in Msgs
    BY <1>1
  <2>2. \A m \in Msgs : m.kind = "task" <=> m = TaskMsg(m.req)
    BY DEF Msgs, TaskMsg
  <2>3. \A m \in Msgs : m.req \in Requests
    BY DEF Msgs
  <2>4. \A r \in Requests : TaskMsg(r).kind = "task" /\ TaskMsg(r).req = r
    BY DEF TaskMsg
  <2> QED BY <1>2, <2>1, <2>2, <2>3, <2>4 DEF TaskQueued
<1>5. ResultComing(w, id) <=> \E r \in Requests : TaskId[r] = id /\ \E i \in 1..Len(up[w]) : IsResult(up[w][i], r)
  BY <1>2 DEF ResultComing, IsResult, Ids
<1>6. TaskRunning(w, id) <=> \E r \in Requests : TaskId[r] = id /\ job[w][r].at \in {"started", "ready"}
  BY DEF TaskRunning
<1>7. (TaskQueued(w, id) \/ TaskRunning(w, id) \/ ResultComing(w, id))
        <=> \E r \in Requests : TaskId[r] = id /\ Pending(w, r)
  BY <1>4, <1>5, <1>6 DEF Pending
<1> QED BY <1>3, <1>7 DEF Ids

LEMMA InOrderMeans == Base => InputsPrecedeTask
<1> SUFFICES ASSUME Base, NEW w \in Workers, NEW r \in Requests
             PROVE  LET q     == Queued(w)
                        At(k) == {i \in 1..Len(q) : q[i] = [kind |-> k, req |-> r]}
                    IN  /\ \A i \in At("input") \cup At("task"), j \in At("task") : i <= j
                        /\ job[w][r].at # "none" => At("input") \cup At("task") = {}
  BY DEF InputsPrecedeTask
<1>1. Len(Queued(w)) \in Nat
  BY QueuedType DEF Base
<1>2. \A i \in 1..Len(Queued(w)) : Queued(w)[i] = InputMsg(r) =>
        job[w][r].at = "none" /\ \A j \in 1..Len(Queued(w)) : Queued(w)[j] = TaskMsg(r) => i < j
  BY DEF Base, InOrder
<1>3. \A i \in 1..Len(Queued(w)) : Queued(w)[i] = TaskMsg(r) =>
        job[w][r].at = "none" /\ \A j \in 1..Len(Queued(w)) : Queued(w)[j] = TaskMsg(r) => i = j
  BY DEF Base, Posted
<1> QED BY <1>1, <1>2, <1>3 DEF InputMsg, TaskMsg

LEMMA DeliveredMeans == Links => ResultIsOwn
BY DEF Links, Delivered, ResultIsOwn

LEMMA BaseInvariance == Spec => []Base
<1>1. Init => Base
  BY InitKeeps
<1>2. Base /\ [Next]_vars => Base'
  BY NextKeeps
<1> QED BY <1>1, <1>2, PTL DEF Spec

LEMMA LinksInvariance == ASSUME DistinctIds PROVE Spec => [](Base /\ Links)
<1>1. Init => Base /\ Links
  BY InitKeeps
<1>2. Base /\ Links /\ [Next]_vars => Base' /\ Links'
  BY NextKeeps
<1> QED BY <1>1, <1>2, PTL DEF Spec

(* The states and messages of the control plane are what they should be:   *)
(* whatever the ids of the tasks, what is sent up was computed.            *)
THEOREM TypeCorrect == Spec => []TypeOK
<1>1. Base => TypeOK
  BY DEF Base
<1> QED BY <1>1, BaseInvariance, PTL

(* On the way to a worker no input data comes after the task it is for,    *)
(* and no task comes twice; nothing is said of data that were dropped for  *)
(* want of room (ipc_server.go:487-504, 542).                              *)
THEOREM InputsFirst == Spec => []InputsPrecedeTask
BY BaseInvariance, InOrderMeans, PTL

(* The pending list of a session is what is still to be answered: no task  *)
(* is forgotten and none is listed after its answer, whatever the stream   *)
(* has queued, lost or delivered (grpc_server.go:424-440, 295-297).        *)
THEOREM TasksAccounted == ASSUME DistinctIds PROVE Spec => []PendingTasksAccounted
BY LinksInvariance, AccountedMeans, PTL

(* A subtask ends with the status of its own run on its own worker         *)
(* (grpc_server.go:299-309, 444-468).                                      *)
THEOREM OwnResults == ASSUME DistinctIds PROVE Spec => []ResultIsOwn
BY LinksInvariance, DeliveredMeans, PTL
----------------------------------------------------------------------------
(* Launches: Dispatch implements Orchestrator.                             *)
LEMMA DispatchStepRefines == [DNext]_dvars => [Next]_vars
<1> SUFFICES ASSUME [DNext]_dvars PROVE [Next]_vars
  OBVIOUS
<1>1. CASE Control
  BY <1>1 DEF Control, Next
<1>2. ASSUME NEW r \in Requests, App(r) PROVE UNCHANGED vars
  BY <1>2 DEF App, BufferWrite, LaunchLocally, Fallback, DispatchReturns, LaunchRemotely, ExecuteLocally
<1>3. ASSUME NEW r \in Requests, Goroutine(r) PROVE [Next]_vars
  <2>1. CASE CollectResults(r) \/ WriteBack(r)
    BY <2>1 DEF CollectResults, WriteBack
  <2>2. ASSUME NEW w \in Workers, Send(w, r) \/ Wait(w, r) \/ Poll(w, r) PROVE Next
    <3>1. Core(w, r)
      BY <2>2 DEF Send, Wait, Poll, Core
    <3> QED BY <3>1 DEF Next
  <2> QED BY <1>3, <2>1, <2>2 DEF Goroutine
<1>4. CASE UNCHANGED dvars
  BY <1>4 DEF dvars
<1> QED BY <1>1, <1>2, <1>3, <1>4 DEF DNext

(* Every behaviour of the dispatch is one of the control plane: launches,  *)
(* time limits and write-backs add no step of a session, a worker or a     *)
(* waiting goroutine that is not there (ipc_server.go:354-616).            *)
THEOREM DispatchImplements == DSpec => Spec
<1>1. DInit => Init
  BY DEF DInit
<1> QED BY <1>1, DispatchStepRefines, PTL DEF DSpec, Spec

(* So the launches of an application keep the promises of the sessions.    *)
THEOREM DispatchInputsFirst == DSpec => []InputsPrecedeTask
BY DispatchImplements, InputsFirst, PTL

THEOREM DispatchTasksAccounted == ASSUME DistinctIds PROVE DSpec => []PendingTasksAccounted
BY DispatchImplements, TasksAccounted, PTL

THEOREM DispatchOwnResults == ASSUME DistinctIds PROVE DSpec => []ResultIsOwn
BY DispatchImplements, OwnResults, PTL
----------------------------------------------------------------------------
LEMMA InitDTypeOK == DInit => DTypeOK
BY InitTypeOK DEF DInit, DTypeOK, Data

LEMMA NextDTypeOK == DTypeOK /\ Computed /\ [DNext]_dvars => DTypeOK'
<1> SUFFICES ASSUME DTypeOK, Computed, [DNext]_dvars PROVE DTypeOK'
  OBVIOUS
<1>0. TypeOK'
  BY NextTypeOK, DispatchStepRefines DEF DTypeOK
<1> USE <1>0 DEF launchVars, mergeVars, vram
<1>1. CASE Control \/ UNCHANGED dvars
  BY <1>1 DEF Control, DTypeOK, dvars
<1>2. ASSUME NEW r \in Requests, App(r) PROVE DTypeOK'
  <2>0. ASSUME ExecuteLocally(r), UNCHANGED parts PROVE DTypeOK'
    BY <2>0 DEF ExecuteLocally, Reply, DTypeOK, Data
  <2>1. CASE BufferWrite(r)
    BY <2>1 DEF BufferWrite, DTypeOK
  <2>2. CASE LaunchLocally(r)
    BY <2>0, <2>2 DEF LaunchLocally, Reply, DTypeOK
  <2>3. CASE Fallback(r)
    BY <2>0, <2>3 DEF Fallback
  <2>4. CASE DispatchReturns(r)
    BY <2>4 DEF DispatchReturns, Reply, Response, DTypeOK
  <2>5. ASSUME NEW ws \in SUBSET Workers, LaunchRemotely(r, ws) PROVE DTypeOK'
    BY <2>5 DEF LaunchRemotely, DTypeOK
  <2> QED BY <1>2, <2>1, <2>2, <2>3, <2>4, <2>5 DEF App
<1>3. ASSUME NEW r \in Requests, Goroutine(r) PROVE DTypeOK'
  <2>1. CASE CollectResults(r)
    <3>1. Succeeded(r) \in SUBSET Workers
      BY DEF Succeeded, DTypeOK
    <3> QED BY <2>1, <3>1 DEF CollectResults, Step, DTypeOK
  <2>2. CASE WriteBack(r)
    <3>1. outputData[r] \in [Workers -> Data] \cup {None}
      BY DEF DTypeOK
    <3> QED BY <2>2, <3>1 DEF WriteBack, Step, DTypeOK
  <2>3. ASSUME NEW w \in Workers, Send(w, r) \/ Wait(w, r) PROVE DTypeOK'
    BY <2>3 DEF Send, Wait, DTypeOK
  <2>4. ASSUME NEW w \in Workers, Poll(w, r) PROVE DTypeOK'
    <3>1. CASE CollectReturned(w, r) /\ outputData' = [outputData EXCEPT ![r] = Slices(w, CHOOSE x \in returned[w] : TRUE)]
      <4>1. (CHOOSE x \in returned[w] : TRUE) \in Data
        BY <3>1 DEF CollectReturned, DTypeOK, TypeOK
      <4>2. Slices(w, CHOOSE x \in returned[w] : TRUE) \in [Workers -> Data]
        BY <4>1 DEF Slices, Data
      <4> QED BY <2>4, <3>1, <4>2 DEF Poll, DTypeOK
    <3>2. CASE UNCHANGED outputData
      BY <2>4, <3>2 DEF Poll, DTypeOK
    <3> QED BY <2>4, <3>1, <3>2 DEF Poll
  <2> QED BY <1>3, <2>1, <2>2, <2>3, <2>4 DEF Goroutine
<1> QED BY <1>1, <1>2, <1>3 DEF DNext

(* Video memory, replies and the state of the goroutines are what they     *)
(* should be; what is polled and merged is data.                           *)
THEOREM DispatchTypeCorrect == DSpec => []DTypeOK
<1>1. Spec => []Computed
  <2>1. Base => Computed
    BY DEF Base
  <2> QED BY <2>1, BaseInvariance, PTL
<1> QED BY <1>1, InitDTypeOK, NextDTypeOK, DispatchImplements, PTL DEF DSpec
----------------------------------------------------------------------------
(* How a run ended is final: a task that comes late, the output that       *)
(* follows the result and later launches leave it alone.                   *)
LEMMA StatusFinal ==
    ASSUME Base, [Next]_vars, NEW w \in Workers, NEW r \in Requests, job[w][r].status # None
    PROVE  job'[w][r].status = job[w][r].status
<1>1. TypeOK
  BY DEF Base
<1>2. CASE UNCHANGED job
  BY <1>2
<1>3. ASSUME NEW v \in Workers, AgentReceive(v) PROVE job'[w][r].status = job[w][r].status
  <2>1. CASE UNCHANGED job
    BY <2>1
  <2>2. CASE Head(down[v]).kind = "task" /\ SetJob(v, Head(down[v]).req, [NoJob EXCEPT !.at = "started"])
    <3>1. /\ down[v] # <<>> /\ down' = [down EXCEPT ![v] = Tail(@)] /\ UNCHANGED sendCh
          /\ Head(down[v]) = Queued(v)[1] /\ Len(Queued(v)) > 0 /\ Queued(v)[1] \in Msgs
      BY <1>1, <1>3, QueuedReceive DEF AgentReceive
    <3>2. PICK s \in Requests : Queued(v)[1] = TaskMsg(s) /\ Head(down[v]).req = s
      BY <2>2, <3>1 DEF Msgs, TaskMsg
    <3>3. 1 \in 1..Len(Queued(v))
      BY <1>1, <3>1, QueuedType
    <3>4. job[v][s].status = None
      BY <3>2, <3>3 DEF Base, Posted, Jobs
    <3>5. [NoJob EXCEPT !.at = "started"] \in JobStates
      BY DEF NoJob, JobStates
    <3>6. \A x \in Workers, y \in Requests : (x # v \/ y # s) => job'[x][y] = job[x][y]
      BY <1>1, <2>2, <3>2, <3>5, SetJobEffect
    <3> QED BY <3>4, <3>6
  <2> QED BY <1>3, <2>1, <2>2 DEF AgentReceive
<1>4. ASSUME NEW v \in Workers, NEW s \in Requests, TakeInputs(v, s) \/ Execute(v, s) \/ SendOutput(v, s)
      PROVE  job'[w][r].status = job[w][r].status
  <2>1. PICK j : SetJob(v, s, j) /\ (job[v][s].status = None \/ j.status = job[v][s].status)
    <3>1. job[v][s] \in JobStates
      BY <1>1, JobType
    <3>2. CASE TakeInputs(v, s)
      BY <3>1, <3>2 DEF TakeInputs, Base, Jobs
    <3>3. CASE Execute(v, s)
      BY <3>3 DEF Execute, Base, Jobs
    <3>4. CASE SendOutput(v, s)
      <4> DEFINE j3 == [NoJob EXCEPT !.at = "done", !.status = job[v][s].status]
      <4>1. j3.status = job[v][s].status
        BY DEF NoJob
      <4>2. SetJob(v, s, j3)
        BY <3>4 DEF SendOutput
      <4> HIDE DEF j3
      <4> QED BY <4>1, <4>2
    <3> QED BY <1>4, <3>2, <3>3, <3>4
  <2>2. /\ job'[v][s] = j
        /\ \A x \in Workers, y \in Requests : (x # v \/ y # s) => job'[x][y] = job[x][y]
    BY <1>1, <2>1 DEF SetJob, TypeOK
  <2> QED BY <2>1, <2>2
<1>5. ASSUME NEW v \in Workers, Session(v) \/ BreakStream(v) PROVE UNCHANGED job
  BY <1>5 DEF Session, OpenStream, SenderSend, EndStream, ReceiveUp, BreakStream, agentVars
<1>6. ASSUME NEW v \in Workers, NEW s \in Requests, Core(v, s) PROVE UNCHANGED job
  BY <1>6 DEF Core, SendInputs, AssignTask, RegisterWait, TakeResult, WaitTimeout, CollectReturned,
              CollectNothing, agentVars
<1>7. CASE UNCHANGED vars \/ \E s \in Requests : Expire(s)
  BY <1>2, <1>7 DEF vars, agentVars, Expire
<1> QED BY <1>2, <1>3, <1>4, <1>5, <1>6, <1>7 DEF Next, Agent

(* What a launch counts as a success ran its own share; the handler and    *)
(* the goroutine of a launch go through their states in order.             *)
Counted ==
    \A r \in Requests :
        /\ succeeded[r] \subseteq {w \in parts[r] : job[w][r].status = "complete"}
        /\ handler[r] \in {"idle", "written"} => gor[r] = "none"
        /\ gor[r] \in {"none", "sending"} => succeeded[r] = {}

(* One launch is at work at a time, on its own input.                      *)
AtWork == {"written", "dispatched"}
OwnInput ==
    \A r \in Requests :
        /\ handler[r] \in AtWork => vramIn = r
        /\ handler[r] # "idle" => \A p \in 1..(r - 1) : handler[p] = "replied"

LEMMA CountedStep ==
    ASSUME DTypeOK, Base, ResultIsOwn, Counted, [DNext]_dvars
    PROVE  Counted'
<1> DEFINE Ran(w, r) == job[w][r].status = "complete"
<1>1. \A w \in Workers, r \in Requests : Ran(w, r) => Ran(w, r)'
  BY OrchestratorAssumption, StatusFinal, DispatchStepRefines
<1>2. \A r \in Requests : parts[r] \subseteq Workers
  BY DEF DTypeOK
<1> HIDE DEF Ran
<1>3. CASE UNCHANGED mergeVars /\ UNCHANGED launchVars
  BY <1>1, <1>2, <1>3 DEF mergeVars, launchVars, Counted, Ran
<1>4. ASSUME NEW r \in Requests, App(r) PROVE Counted'
  <2>0. UNCHANGED job
    BY <1>4 DEF App, BufferWrite, LaunchLocally, Fallback, DispatchReturns, LaunchRemotely, ExecuteLocally,
                vars, agentVars
  <2>1. ASSUME UNCHANGED <<parts, mergeVars>>, NEW to \in {"written", "replied"},
               handler' = [handler EXCEPT ![r] = to],
               to = "written" => handler[r] = "idle"
        PROVE Counted'
    BY <2>0, <2>1 DEF mergeVars, Counted, DTypeOK
  <2>2. CASE BufferWrite(r)
    BY <2>1, <2>2 DEF BufferWrite
  <2>3. CASE LaunchLocally(r) \/ Fallback(r) \/ DispatchReturns(r)
    BY <2>1, <2>3 DEF LaunchLocally, Fallback, DispatchReturns, ExecuteLocally, Reply, mergeVars
  <2>4. ASSUME NEW ws \in SUBSET Workers, LaunchRemotely(r, ws) PROVE Counted'
    <3>1. gor[r] = "none" /\ succeeded[r] = {}
      BY <2>4 DEF LaunchRemotely, Counted
    <3> QED BY <2>0, <2>4, <3>1 DEF LaunchRemotely, Counted, DTypeOK
  <2> QED BY <1>4, <2>2, <2>3, <2>4 DEF App
<1>5. ASSUME NEW r \in Requests, CollectResults(r) PROVE Counted'
  <2>1. UNCHANGED <<job, parts, handler>> /\ gor[r] = "sending" /\ gor' = [gor EXCEPT ![r] = "polling"]
        /\ succeeded' = [succeeded EXCEPT ![r] = Succeeded(r)]
    BY <1>5 DEF CollectResults, Step, vars, agentVars, launchVars
  <2>2. Succeeded(r) \subseteq {w \in parts[r] : job[w][r].status = "complete"}
    BY <1>2 DEF Succeeded, ResultIsOwn, Outcomes
  <2> QED BY <2>1, <2>2 DEF Counted, DTypeOK
<1>6. ASSUME NEW r \in Requests, WriteBack(r) PROVE Counted'
  <2>1. UNCHANGED <<job, parts, handler, succeeded>> /\ gor[r] = "polling" /\ gor' = [gor EXCEPT ![r] = "done"]
    BY <1>6 DEF WriteBack, Step, vars, agentVars, launchVars
  <2> QED BY <2>1 DEF Counted, DTypeOK
<1>7. ASSUME NEW r \in Requests, NEW w \in Workers, Send(w, r) \/ Wait(w, r) PROVE Counted'
  BY <1>3, <1>7 DEF Send, Wait
<1>8. ASSUME NEW r \in Requests, NEW w \in Workers, Poll(w, r) PROVE Counted'
  <2>1. UNCHANGED <<parts, handler, gor, succeeded>>
    BY <1>8 DEF Poll, launchVars
  <2> QED BY <1>1, <1>2, <2>1 DEF Counted, Ran
<1>9. CASE Control \/ UNCHANGED dvars
  BY <1>3, <1>9 DEF Control, dvars
<1> QED BY <1>4, <1>5, <1>6, <1>7, <1>8, <1>9 DEF DNext, Goroutine

LEMMA OwnInputStep ==
    ASSUME DTypeOK, OwnInput, [DNext]_dvars
    PROVE  OwnInput'
<1> USE DispatchAssumption
<1>1. CASE UNCHANGED <<handler, vramIn>>
  BY <1>1 DEF OwnInput
<1>2. ASSUME NEW r \in Requests, BufferWrite(r) PROVE OwnInput'
  <2>1. /\ handler' = [handler EXCEPT ![r] = "written"] /\ vramIn' = r
        /\ handler[r] = "idle" /\ \A p \in 1..(r - 1) : handler[p] = "replied"
    BY <1>2 DEF BufferWrite
  <2>2. ASSUME NEW s \in Requests, s # r, handler[s] # "idle" PROVE s < r /\ handler[s] = "replied"
    <3>1. r \in Nat \ {0} /\ s \in Nat \ {0}
      OBVIOUS
    <3>2. ~(r < s)
      <4>1. r < s => r \in 1..(s - 1)
        BY <3>1
      <4> QED BY <2>1, <2>2, <4>1 DEF OwnInput
    <3>3. s \in 1..(r - 1)
      BY <2>2, <3>1, <3>2
    <3> QED BY <2>1, <3>1, <3>3
  <2>3. \A s \in Requests \ {r} : handler'[s] = handler[s] /\ handler'[r] = "written"
    BY <2>1 DEF DTypeOK
  <2> SUFFICES ASSUME NEW s \in Requests
               PROVE  /\ handler'[s] \in AtWork => vramIn' = s
                      /\ handler'[s] # "idle" => \A p \in 1..(s - 1) : handler'[p] = "replied"
    BY DEF OwnInput
  <2>4. CASE s = r
    <3>1. \A p \in 1..(r - 1) : p \in Requests \ {r}
      BY DEF DTypeOK
    <3> QED BY <2>1, <2>3, <2>4, <3>1
  <2>5. CASE s # r
    <3>1. handler'[s] # "idle" => handler'[s] = "replied" /\ s < r
      BY <2>2, <2>3, <2>5
    <3>2. handler'[s] # "idle" => \A p \in 1..(s - 1) : p \in Requests \ {r} /\ handler[p] = "replied"
      BY <2>3, <2>5, <3>1 DEF OwnInput
    <3> QED BY <2>3, <3>1, <3>2 DEF AtWork
  <2> QED BY <2>4, <2>5
<1>3. ASSUME NEW r \in Requests, UNCHANGED vramIn, NEW to \in {"dispatched", "replied"},
             handler[r] \in AtWork, handler' = [handler EXCEPT ![r] = to]
      PROVE  OwnInput'
  BY <1>3 DEF OwnInput, AtWork, DTypeOK
<1>4. ASSUME NEW r \in Requests, App(r) PROVE OwnInput'
  <2>1. CASE LaunchLocally(r) \/ Fallback(r) \/ DispatchReturns(r)
    BY <1>3, <2>1 DEF LaunchLocally, Fallback, DispatchReturns, ExecuteLocally, Reply, AtWork, vram
  <2>2. ASSUME NEW ws \in SUBSET Workers, LaunchRemotely(r, ws) PROVE OwnInput'
    BY <1>3, <2>2 DEF LaunchRemotely, AtWork, vram
  <2> QED BY <1>2, <1>4, <2>1, <2>2 DEF App
<1>5. CASE Control \/ UNCHANGED dvars \/ \E r \in Requests : Goroutine(r)
  BY <1>1, <1>5 DEF Control, Goroutine, CollectResults, WriteBack, Send, Wait, Poll, dvars, vram, launchVars
<1> QED BY <1>4, <1>5 DEF DNext

(* The step that says "ok".                                                *)
LEMMA SuccessStep ==
    ASSUME DTypeOK, Counted, OwnInput, [DNext]_dvars,
           NEW r \in Requests, reply[r] = None, reply'[r] = "ok"
    PROVE  \/ vramOut' = [w \in Workers |-> r]
           \/ \E w \in parts[r] : job[w][r].status = "complete"
<1> USE OrchestratorAssumption
<1>0. None # "ok"
  BY DispatchAssumption
<1>1. PICK s \in Requests : App(s)
  BY <1>0 DEF DNext, Control, Goroutine, CollectResults, WriteBack, Send, Wait, Poll, dvars, launchVars
<1>2. CASE BufferWrite(s) \/ \E ws \in SUBSET Workers : LaunchRemotely(s, ws)
  BY <1>0, <1>2 DEF BufferWrite, LaunchRemotely
<1>3. ASSUME NEW status, Reply(s, status) PROVE s = r /\ status = "ok"
  BY <1>0, <1>3 DEF Reply, DTypeOK
<1>4. CASE LaunchLocally(s) \/ Fallback(s)
  <2>1. ExecuteLocally(s) \/ Reply(s, "error")
    BY <1>4 DEF LaunchLocally, Fallback
  <2>2. s = r /\ vramOut' = [w \in Workers |-> vramIn]
    BY <1>3, <2>1 DEF ExecuteLocally
  <2>3. vramIn = r
    BY <1>4, <2>2 DEF LaunchLocally, Fallback, OwnInput, AtWork
  <2> QED BY <2>2, <2>3
<1>5. CASE DispatchReturns(s)
  <2>1. s = r /\ Response(r) = "ok"
    BY <1>3, <1>5 DEF DispatchReturns
  <2>2. PICK w \in succeeded[r] : TRUE
    BY <2>1 DEF Response
  <2> QED BY <2>2 DEF Counted
<1> QED BY <1>1, <1>2, <1>4, <1>5 DEF App

(* "ok" is said of a launch only when its output was computed from its own *)
(* input by the core, or one of its workers ran its share to completion,   *)
(* however many earlier launches are still answered on the same sessions   *)
(* (ipc_server.go:417-434, 554-616).  One worker of several is enough.     *)
THEOREM RealSuccess == ASSUME DistinctIds PROVE DSpec => SuccessIsReal
<1> DEFINE OkIsReal ==
      \A r \in Requests : reply[r] = None /\ reply'[r] = "ok" =>
         \/ vramOut' = [w \in Workers |-> r]
         \/ \E w \in parts[r] : job[w][r].status = "complete"
<1>1. DInit => Counted /\ OwnInput
  BY DEF DInit, Counted, OwnInput, AtWork
<1>2. DTypeOK /\ Base /\ ResultIsOwn /\ Counted /\ OwnInput /\ [DNext]_dvars => Counted' /\ OwnInput'
  BY CountedStep, OwnInputStep
<1>3. DTypeOK /\ Counted /\ OwnInput /\ [DNext]_dvars => [OkIsReal]_dvars
  BY SuccessStep
<1>4. DSpec => []Base
  BY DispatchImplements, BaseInvariance, PTL
<1>5. DSpec => [][OkIsReal]_dvars
  BY <1>1, <1>2, <1>3, <1>4, DispatchTypeCorrect, DispatchOwnResults, PTL DEF DSpec
<1> QED BY <1>5, PTL DEF SuccessIsReal, OkIsReal
=============================================================================
