--------------------------- MODULE CmdQueueProofs ---------------------------
(***************************************************************************)
(* CmdQueue keeps its signal in step with its commands, lets a finish      *)
(* return only when what it owes is complete, and implements QueueBarrier, *)
(* for any number of connections, queues and launches, and whatever        *)
(* command ids the applications send.                                      *)
(***************************************************************************)
EXTENDS CmdQueue, TLAPS

Holding == {"lookup", "append", "running"}

(* A launch is listed at most once, by the handler that received it, and   *)
(* only what is listed is ever complete.                                   *)
Launches ==
    /\ \A c \in Conns :
         /\ pc[c] \in Holding => cmdOf[c] \in Cmds \ fresh
         /\ pc[c] \notin Holding => cmdOf[c] = None
         /\ pc[c] \in {"lookup", "append"} => \A q \in Queues : cmdOf[c] \notin listed[q]
         /\ pc[c] = "running" => \A q \in Queues : cmdOf[c] \in listed[q] <=> q = queueOf[c]
    /\ \A c, d \in Conns : pc[c] \in Holding /\ pc[d] \in Holding /\ cmdOf[c] = cmdOf[d] => c = d
    /\ \A q \in Queues :
         /\ listed[q] \cap fresh = {}
         /\ \A p \in Queues \ {q} : listed[q] \cap listed[p] = {}
    /\ \A cmd \in complete : \E q \in Queues : cmd \in listed[q]

(* What is complete was completed by the end of a launch with its id.      *)
Namesakes ==
    \A q \in Queues : \A cmd \in listed[q] \cap complete :
        \E other \in listed[q] : IdOf[other] = IdOf[cmd] /\ Ended(other)

(* Every handler past its lookup works on a queue that exists.             *)
Lookups ==
    \A c \in Conns :
        /\ pc[c] # "idle" => queueOf[c] \in Queues
        /\ pc[c] \in {"append", "running", "take", "blocked"} => queueOf[c] \in created

(* Channels are numbered in the order they are made.                       *)
Channels ==
    \A q \in Queues :
        /\ \A n \in closed[q] : n <= signal[q]
        /\ q \notin created => closed[q] = {} /\ listed[q] = {}

(* The channel a finish holds is the current one until it is closed, and   *)
(* it is closed only when all that the finish owes is complete.            *)
Waits ==
    \A c \in Conns : pc[c] = "blocked" =>
        /\ sigOf[c] \in Nat
        /\ owed[c] \subseteq listed[queueOf[c]]
        /\ IF Released(c) THEN owed[c] \subseteq complete ELSE sigOf[c] = signal[queueOf[c]]

IInv ==
    /\ TypeOK
    /\ Launches
    /\ Namesakes
    /\ Lookups
    /\ Channels
    /\ SignalIffDrained
    /\ Waits

LEMMA InitIInv == Init => IInv
<1> SUFFICES ASSUME Init PROVE IInv
  OBVIOUS
<1> USE DEF Init
<1>1. TypeOK
  BY DEF TypeOK, PCs
<1>2. Launches /\ Namesakes
  BY DEF Launches, Holding, Namesakes
<1>3. Lookups /\ Channels
  BY DEF Lookups, Channels
<1>4. SignalIffDrained /\ Waits
  BY DEF SignalIffDrained, Waits
<1>5. QED
  BY <1>1, <1>2, <1>3, <1>4 DEF IInv

(* GetOrCreate changes the channels of a queue it creates and of no other. *)
LEMMA GetOrCreateChannels ==
  ASSUME TypeOK, NEW q \in Queues, GetOrCreate(q)
  PROVE  /\ created' = created \cup {q}
         /\ closed' \in [Queues -> SUBSET Nat]
         /\ \A p \in created : closed'[p] = closed[p]
         /\ \A p \in Queues \ {q} : closed'[p] = closed[p]
         /\ q \notin created => closed'[q] = {signal[q]}
  BY DEF GetOrCreate, TypeOK

(* What runs on a queue is listed there.                                   *)
LEMMA ExecutingListed ==
  ASSUME TypeOK, Launches, NEW q \in Queues
  PROVE  Executing(q) \subseteq listed[q] \cap Cmds
  BY DEF Executing, Launches, Holding, TypeOK

(* What has ended stays so in a step that takes no launch up.              *)
LEMMA EndedStays ==
  ASSUME NEW cmd \in Cmds, Ended(cmd), cmd # None,
         fresh' \subseteq fresh,
         \A c \in Conns : cmdOf'[c] \in {cmdOf[c], None} \cup fresh
  PROVE  Ended(cmd)'
  BY DEF Ended

(* Steps that neither list nor complete a command, and give no launch back.*)
LEMMA NamesakesStay ==
  ASSUME TypeOK, Launches, Namesakes,
         UNCHANGED <<listed, complete>>,
         fresh' \subseteq fresh,
         \A c \in Conns : cmdOf'[c] \in {cmdOf[c], None} \cup fresh
  PROVE  Namesakes'
<1> SUFFICES ASSUME NEW q \in Queues, NEW cmd \in listed[q] \cap complete
             PROVE  \E other \in listed[q] : IdOf[other] = IdOf[cmd] /\ Ended(other)'
  BY DEF Namesakes
<1>1. PICK other \in listed[q] : IdOf[other] = IdOf[cmd] /\ Ended(other)
  BY DEF Namesakes
<1>2. other \in Cmds /\ other # None
  BY NoneAssumption DEF TypeOK
<1>3. QED
  BY <1>1, <1>2, EndedStays

(* Every step of a handler, and of the runtime, keeps the invariant.       *)
LEMMA NextIInv == ASSUME IInv, [Next]_vars PROVE IInv'
<1> USE NoneAssumption DEF IInv, PCs, queueVars, Goto, SignalAfterEnqueue, ClosedAfterComplete
<1> TypeOK
  OBVIOUS
<1>1. ASSUME NEW c \in Conns, NEW q \in Queues, NEW cmd \in Cmds, ReceiveNDRange(c, q, cmd) PROVE IInv'
  <2>1. TypeOK'
    BY <1>1 DEF ReceiveNDRange, TypeOK
  <2>2. Launches'
    BY <1>1 DEF ReceiveNDRange, Launches, Holding, TypeOK
  <2>3. Namesakes'
    BY <1>1, NamesakesStay DEF ReceiveNDRange, TypeOK
  <2>4. Lookups'
    BY <1>1 DEF ReceiveNDRange, Lookups, TypeOK
  <2>5. Channels'
    BY <1>1 DEF ReceiveNDRange, Channels, TypeOK
  <2>6. SignalIffDrained'
    BY <1>1 DEF ReceiveNDRange, SignalIffDrained, TypeOK
  <2>7. Waits'
    BY <1>1 DEF ReceiveNDRange, Waits, Released, TypeOK
  <2>8. QED
    BY <2>1, <2>2, <2>3, <2>4, <2>5, <2>6, <2>7
<1>2. ASSUME NEW c \in Conns, EnqueueLookup(c) PROVE IInv'
  <2> queueOf[c] \in Queues /\ GetOrCreate(queueOf[c])
    BY <1>2 DEF EnqueueLookup, Lookups
  <2> UNCHANGED <<listed, complete, signal>>
    BY DEF GetOrCreate
  <2> USE GetOrCreateChannels
  <2>1. TypeOK'
    BY <1>2 DEF EnqueueLookup, TypeOK
  <2>2. Launches'
    BY <1>2 DEF EnqueueLookup, Launches, Holding, TypeOK
  <2>3. Namesakes'
    BY <1>2, NamesakesStay DEF EnqueueLookup, TypeOK
  <2>4. Lookups'
    BY <1>2 DEF EnqueueLookup, Lookups, TypeOK
  <2>5. Channels'
    BY <1>2 DEF EnqueueLookup, Channels, TypeOK
  <2>6. SignalIffDrained'
    BY <1>2 DEF EnqueueLookup, SignalIffDrained, TypeOK, Channels
  <2>7. Waits'
    BY <1>2 DEF EnqueueLookup, Waits, Released, TypeOK, Lookups
  <2>8. QED
    BY <2>1, <2>2, <2>3, <2>4, <2>5, <2>6, <2>7
<1>3. ASSUME NEW c \in Conns, Enqueue(c) PROVE IInv'
  <2> DEFINE q == queueOf[c]
  <2> q \in created /\ q \in Queues /\ cmdOf[c] \in Cmds \ fresh
    BY <1>3 DEF Enqueue, Lookups, Launches, Holding
  <2> /\ signal'[q] = IF signal[q] \in closed[q] THEN signal[q] + 1 ELSE signal[q]
     /\ \A p \in Queues \ {q} : signal'[p] = signal[p] /\ listed'[p] = listed[p]
     /\ listed'[q] = listed[q] \cup {cmdOf[c]}
    BY <1>3 DEF Enqueue, TypeOK
  <2> \A p \in Queues : cmdOf[c] \notin listed[p]
    BY <1>3 DEF Enqueue, Launches, Holding
  <2> cmdOf[c] \notin complete
    BY DEF Launches
  <2>1. TypeOK'
    BY <1>3 DEF Enqueue, TypeOK
  <2>2. Launches'
    BY <1>3 DEF Enqueue, Launches, Holding, TypeOK
  <2>3. Namesakes'
    <3> SUFFICES ASSUME NEW p \in Queues, NEW cmd \in listed'[p] \cap complete
                 PROVE  \E other \in listed'[p] : IdOf[other] = IdOf[cmd] /\ Ended(other)'
      BY <1>3 DEF Enqueue, Namesakes
    <3>1. cmd \in listed[p] /\ listed[p] \subseteq listed'[p]
      <4>1. listed'[p] = IF p = q THEN listed[p] \cup {cmdOf[c]} ELSE listed[p]
        BY <1>3 DEF Enqueue, TypeOK
      <4>2. cmd # cmdOf[c]
        BY DEF Launches
      <4>3. QED
        BY <4>1, <4>2
    <3>2. PICK other \in listed[p] : IdOf[other] = IdOf[cmd] /\ Ended(other)
      BY <3>1 DEF Namesakes
    <3>3. other \in listed'[p]
      BY <3>1, <3>2
    <3>4. Ended(other)'
      BY <1>3, <3>2 DEF Enqueue, Ended
    <3>5. QED
      BY <3>2, <3>3, <3>4
  <2>4. Lookups'
    BY <1>3 DEF Enqueue, Lookups, TypeOK
  <2>5. Channels'
    BY <1>3 DEF Enqueue, Channels, TypeOK
  <2>6. SignalIffDrained'
    BY <1>3 DEF Enqueue, SignalIffDrained, TypeOK, Channels
  <2>7. Waits'
    BY <1>3 DEF Enqueue, Waits, Released, TypeOK
  <2>8. QED
    BY <2>1, <2>2, <2>3, <2>4, <2>5, <2>6, <2>7
<1>4. ASSUME NEW c \in Conns, MarkComplete(c) PROVE IInv'
  <2> DEFINE q == queueOf[c]
            same == {cmd \in listed[q] : IdOf[cmd] = IdOf[cmdOf[c]]}
  <2> /\ q \in created /\ q \in Queues
     /\ cmdOf[c] \in Cmds \ fresh /\ cmdOf[c] \in listed[q]
    BY <1>4 DEF MarkComplete, Launches, Holding, TypeOK
  <2> complete' = complete \cup same
    BY <1>4 DEF MarkComplete
  <2> same \subseteq listed[q] /\ \A p \in Queues \ {q} : same \cap listed[p] = {}
    BY DEF Launches
  <2> /\ closed'[q] = IF listed[q] \subseteq complete' THEN closed[q] \cup {signal[q]} ELSE closed[q]
     /\ \A p \in Queues \ {q} : closed'[p] = closed[p]
    BY <1>4 DEF MarkComplete, TypeOK
  <2>0. PICK mine \in Cmds : mine = cmdOf[c]
    OBVIOUS
  <2>e. Ended(mine)'
    <3>1. mine \notin fresh' /\ mine # None
      BY <1>4, <2>0 DEF MarkComplete
    <3>2. ASSUME NEW d \in Conns PROVE cmdOf'[d] # mine
      <4>1. CASE d = c
        BY <1>4, <3>1, <4>1 DEF MarkComplete, Reply, TypeOK
      <4>2. CASE d # c
        BY <1>4, <2>0, <3>1, <4>2 DEF MarkComplete, Reply, TypeOK, Launches, Holding
      <4>3. QED
        BY <4>1, <4>2
    <3>3. QED
      BY <3>1, <3>2 DEF Ended
  <2>1. TypeOK'
    BY <1>4 DEF MarkComplete, Reply, TypeOK
  <2>2. Launches'
    BY <1>4 DEF MarkComplete, Reply, Launches, Holding, TypeOK
  <2>3. Namesakes'
    <3> SUFFICES ASSUME NEW p \in Queues, NEW cmd \in listed[p] \cap complete'
                 PROVE  \E other \in listed[p] : IdOf[other] = IdOf[cmd] /\ Ended(other)'
      BY <1>4 DEF MarkComplete, Namesakes
    <3>1. CASE cmd \in same
      <4>1. p = q /\ mine \in listed[p] /\ IdOf[mine] = IdOf[cmd]
        BY <2>0, <3>1
      <4>2. QED
        BY <2>e, <4>1
    <3>2. CASE cmd \in complete
      <4>1. PICK other \in listed[p] : IdOf[other] = IdOf[cmd] /\ Ended(other)
        BY <3>2 DEF Namesakes
      <4>2. other \in Cmds
        BY DEF TypeOK
      <4>3. Ended(other)'
        BY <1>4, <4>1, <4>2, EndedStays DEF MarkComplete, Reply, TypeOK
      <4>4. QED
        BY <4>1, <4>3
    <3>3. QED
      BY <3>1, <3>2
  <2>4. Lookups'
    BY <1>4 DEF MarkComplete, Reply, Lookups, TypeOK
  <2>5. Channels'
    BY <1>4 DEF MarkComplete, Reply, Channels, TypeOK
  <2>6. SignalIffDrained'
    BY <1>4 DEF MarkComplete, Reply, SignalIffDrained, TypeOK
  <2>7. Waits'
    BY <1>4 DEF MarkComplete, Reply, Waits, Released, TypeOK
  <2>8. QED
    BY <2>1, <2>2, <2>3, <2>4, <2>5, <2>6, <2>7
<1>5. ASSUME NEW c \in Conns, NEW q \in Queues, ReceiveFinish(c, q) PROVE IInv'
  <2>1. TypeOK'
    BY <1>5 DEF ReceiveFinish, TypeOK
  <2>2. Launches'
    BY <1>5 DEF ReceiveFinish, Launches, Holding, TypeOK
  <2>3. Namesakes'
    BY <1>5, NamesakesStay DEF ReceiveFinish, TypeOK
  <2>4. Lookups'
    BY <1>5 DEF ReceiveFinish, Lookups, TypeOK
  <2>5. Channels'
    BY <1>5 DEF ReceiveFinish, Channels, TypeOK
  <2>6. SignalIffDrained'
    BY <1>5 DEF ReceiveFinish, SignalIffDrained, TypeOK
  <2>7. Waits'
    BY <1>5 DEF ReceiveFinish, Waits, Released, TypeOK
  <2>8. QED
    BY <2>1, <2>2, <2>3, <2>4, <2>5, <2>6, <2>7
<1>6. ASSUME NEW c \in Conns, FinishLookup(c) PROVE IInv'
  <2> queueOf[c] \in Queues /\ GetOrCreate(queueOf[c])
    BY <1>6 DEF FinishLookup, Lookups
  <2> UNCHANGED <<listed, complete, signal>>
    BY DEF GetOrCreate
  <2> USE GetOrCreateChannels
  <2>1. TypeOK'
    BY <1>6 DEF FinishLookup, TypeOK
  <2>2. Launches'
    BY <1>6 DEF FinishLookup, Launches, Holding, TypeOK
  <2>3. Namesakes'
    BY <1>6, NamesakesStay DEF FinishLookup, TypeOK
  <2>4. Lookups'
    BY <1>6 DEF FinishLookup, Lookups, TypeOK
  <2>5. Channels'
    BY <1>6 DEF FinishLookup, Channels, TypeOK
  <2>6. SignalIffDrained'
    BY <1>6 DEF FinishLookup, SignalIffDrained, TypeOK, Channels
  <2>7. Waits'
    BY <1>6 DEF FinishLookup, Waits, Released, TypeOK, Lookups
  <2>8. QED
    BY <2>1, <2>2, <2>3, <2>4, <2>5, <2>6, <2>7
<1>7. ASSUME NEW c \in Conns, WaitForQueue(c) PROVE IInv'
  <2>1. TypeOK'
    BY <1>7, ExecutingListed DEF WaitForQueue, TypeOK, Lookups
  <2>2. Launches'
    BY <1>7 DEF WaitForQueue, Launches, Holding, TypeOK
  <2>3. Namesakes'
    BY <1>7, NamesakesStay DEF WaitForQueue, TypeOK
  <2>4. Lookups'
    BY <1>7 DEF WaitForQueue, Lookups, TypeOK
  <2>5. Channels'
    BY <1>7 DEF WaitForQueue, Channels, TypeOK
  <2>6. SignalIffDrained'
    BY <1>7 DEF WaitForQueue, SignalIffDrained, TypeOK
  <2>7. Waits'
    BY <1>7, ExecutingListed DEF WaitForQueue, Waits, Released, TypeOK, Lookups, SignalIffDrained
  <2>8. QED
    BY <2>1, <2>2, <2>3, <2>4, <2>5, <2>6, <2>7
<1>8. ASSUME NEW c \in Conns, FinishReturn(c) PROVE IInv'
  <2>1. TypeOK'
    BY <1>8 DEF FinishReturn, Reply, TypeOK
  <2>2. Launches'
    BY <1>8 DEF FinishReturn, Reply, Launches, Holding, TypeOK
  <2>3. Namesakes'
    BY <1>8, NamesakesStay DEF FinishReturn, Reply, TypeOK
  <2>4. Lookups'
    BY <1>8 DEF FinishReturn, Reply, Lookups, TypeOK
  <2>5. Channels'
    BY <1>8 DEF FinishReturn, Reply, Channels, TypeOK
  <2>6. SignalIffDrained'
    BY <1>8 DEF FinishReturn, Reply, SignalIffDrained, TypeOK
  <2>7. Waits'
    BY <1>8 DEF FinishReturn, Reply, Waits, Released, TypeOK
  <2>8. QED
    BY <2>1, <2>2, <2>3, <2>4, <2>5, <2>6, <2>7
<1>9. ASSUME NEW c \in Conns, NEW d \in Conns, MapRace(c, d) PROVE IInv'
  <2>1. TypeOK'
    BY <1>9 DEF MapRace, TypeOK
  <2>2. Launches'
    BY <1>9 DEF MapRace, Launches, Holding, TypeOK
  <2>3. Namesakes'
    BY <1>9, NamesakesStay DEF MapRace, TypeOK
  <2>4. Lookups'
    BY <1>9 DEF MapRace, Lookups, TypeOK
  <2>5. Channels'
    BY <1>9 DEF MapRace, Channels, TypeOK
  <2>6. SignalIffDrained'
    BY <1>9 DEF MapRace, SignalIffDrained, TypeOK
  <2>7. Waits'
    BY <1>9 DEF MapRace, Waits, Released, TypeOK
  <2>8. QED
    BY <2>1, <2>2, <2>3, <2>4, <2>5, <2>6, <2>7
<1>10. CASE UNCHANGED vars
  <2>1. TypeOK'
    BY <1>10 DEF vars, TypeOK
  <2>2. Launches'
    BY <1>10 DEF vars, Launches, Holding, TypeOK
  <2>3. Namesakes'
    BY <1>10, NamesakesStay DEF vars, TypeOK
  <2>4. Lookups'
    BY <1>10 DEF vars, Lookups, TypeOK
  <2>5. Channels'
    BY <1>10 DEF vars, Channels, TypeOK
  <2>6. SignalIffDrained'
    BY <1>10 DEF vars, SignalIffDrained, TypeOK
  <2>7. Waits'
    BY <1>10 DEF vars, Waits, Released, TypeOK
  <2>8. QED
    BY <2>1, <2>2, <2>3, <2>4, <2>5, <2>6, <2>7
<1>11. QED
  BY <1>1, <1>2, <1>3, <1>4, <1>5, <1>6, <1>7, <1>8, <1>9, <1>10 DEF Next, Step

THEOREM Invariance == Spec => []IInv
<1>1. IInv /\ [Next]_vars => IInv'
  BY NextIInv
<1>2. QED
  BY <1>1, InitIInv, PTL DEF Spec

(* The variables hold what their names say, in every reachable state.      *)
THEOREM TypeCorrect == Spec => []TypeOK
<1>1. IInv => TypeOK
  BY DEF IInv
<1>2. QED
  BY <1>1, Invariance, PTL

(* A queue's signal is closed exactly while nothing listed on it is        *)
(* pending.                                                                *)
THEOREM SignalTracksCommands == Spec => []SignalIffDrained
<1>1. IInv => SignalIffDrained
  BY DEF IInv
<1>2. QED
  BY <1>1, Invariance, PTL

LEMMA IInvBarrier == IInv => FinishIsBarrier
<1> SUFFICES ASSUME IInv,
                    NEW c \in Conns, pc[c] = "blocked", Released(c),
                    NEW cmd \in owed[c] \cap Executing(queueOf[c])
             PROVE  \E other \in listed[queueOf[c]] : IdOf[other] = IdOf[cmd] /\ Ended(other)
  BY DEF FinishIsBarrier
<1>1. queueOf[c] \in Queues
  BY DEF IInv, Lookups
<1>2. cmd \in listed[queueOf[c]] \cap complete
  BY DEF IInv, Waits
<1>3. QED
  BY <1>1, <1>2 DEF IInv, Namesakes

(* A finish that may return has outlived every launch that was running     *)
(* when it began, but those that an ended launch shares the id of.         *)
THEOREM FinishBarrier == Spec => []FinishIsBarrier
<1>1. QED
  BY Invariance, IInvBarrier, PTL

----------------------------------------------------------------------------
(* The refinement.  The barrier sees a finish only while it is blocked, as *)
(* a waiter or as freed.                                                   *)

(* A step that completes nothing and leaves alone who is blocked, and      *)
(* whether its channel is closed, is invisible to the barrier.             *)
LEMMA InvisibleStep ==
  ASSUME UNCHANGED <<listed, complete>>,
         \A c \in Conns : pc'[c] = "blocked" <=> pc[c] = "blocked",
         \A c \in Conns : pc[c] = "blocked" =>
             /\ queueOf'[c] = queueOf[c]
             /\ Released(c)' <=> Released(c)
  PROVE  UNCHANGED B!vars
<1>1. \A q \in Queues : Pending(q)' = Pending(q)
  BY DEF Pending
<1>2. \A q \in Queues : Waiters(q)' = Waiters(q)
  BY DEF Waiters
<1>3. Freed' = Freed
  BY DEF Freed
<1>4. QED
  BY <1>1, <1>2, <1>3 DEF B!vars

(* Creating a queue closes no channel that somebody waits on.              *)
LEMMA LookupInvisible ==
  ASSUME IInv, NEW c \in Conns, EnqueueLookup(c) \/ FinishLookup(c)
  PROVE  UNCHANGED B!vars
<1> USE DEF IInv
<1>1. queueOf[c] \in Queues /\ GetOrCreate(queueOf[c])
  BY DEF EnqueueLookup, FinishLookup, Lookups
<1>2. \A d \in Conns : pc[d] = "blocked" => queueOf[d] \in created
  BY DEF Lookups
<1>3. \A d \in Conns : pc[d] = "blocked" => (Released(d)' <=> Released(d))
  BY <1>1, <1>2, GetOrCreateChannels DEF EnqueueLookup, FinishLookup, Released
<1>4. QED
  BY <1>1, <1>3, InvisibleStep DEF EnqueueLookup, FinishLookup, Goto, GetOrCreate, TypeOK

(* A command is listed: work is submitted, nobody is let go or caught.     *)
LEMMA EnqueueSubmits ==
  ASSUME IInv, NEW c \in Conns, NEW q \in Queues, q = queueOf[c], Enqueue(c)
  PROVE  B!Submit(q, cmdOf[c])
<1> USE DEF IInv, TypeOK
<1>1. \A p \in Queues : cmdOf[c] \notin Pending(p)
  BY DEF Enqueue, Launches, Pending
<1>2. cmdOf[c] \notin complete
  BY DEF Enqueue, Launches
<1>3. \A p \in Queues : listed'[p] = IF p = q THEN listed[p] \cup {cmdOf[c]} ELSE listed[p]
  BY DEF Enqueue
<1>4. \A p \in Queues : Pending(p)' = IF p = q THEN Pending(p) \cup {cmdOf[c]} ELSE Pending(p)
  BY <1>2, <1>3 DEF Enqueue, Pending
<1>5. \A d \in Conns : pc'[d] = "blocked" <=> pc[d] = "blocked"
  BY DEF Enqueue, Goto
<1>6. \A p \in Queues : Waiters(p)' = Waiters(p)
  BY <1>5 DEF Enqueue, Waiters, Released
<1>7. Freed' = Freed
  BY <1>5 DEF Enqueue, Freed, Released
<1>8. QED
  BY <1>1, <1>4, <1>6, <1>7 DEF B!Submit

(* Commands are marked: everybody who waits on the queue holds its current *)
(* channel, so that the close that follows the last of them reaches all.   *)
LEMMA MarkCompletes ==
  ASSUME IInv, NEW c \in Conns, NEW q \in Queues, q = queueOf[c], MarkComplete(c)
  PROVE  \E cmds \in SUBSET Pending(q) : B!Complete(q, cmds)
<1> USE DEF IInv, TypeOK
<1> DEFINE same == {cmd \in listed[q] : IdOf[cmd] = IdOf[cmdOf[c]]}
           cmds == same \cap Pending(q)
           left == Pending(q) \ cmds
           go   == IF left = {} THEN Waiters(q) ELSE {}
<1>1. UNCHANGED listed /\ complete' = complete \cup same
  BY DEF MarkComplete
<1>2. \A p \in Queues : Pending(p)' = IF p = q THEN left ELSE Pending(p)
  <2>1. \A p \in Queues \ {q} : same \cap listed[p] = {}
    BY DEF Launches
  <2>2. QED
    BY <1>1, <2>1 DEF Pending
<1>3. left = {} <=> listed[q] \subseteq complete'
  BY <1>1 DEF Pending
<1>4. \A p \in Queues : closed'[p] = IF p = q /\ left = {} THEN closed[p] \cup {signal[p]} ELSE closed[p]
  BY <1>3 DEF MarkComplete, ClosedAfterComplete
<1>5. \A d \in Conns : /\ pc'[d] = "blocked" <=> pc[d] = "blocked"
                       /\ pc[d] = "blocked" => queueOf'[d] = queueOf[d] /\ sigOf'[d] = sigOf[d]
  BY DEF MarkComplete, Reply, Goto
<1>6. \A d \in Conns : pc[d] = "blocked" => queueOf[d] \in Queues
  BY DEF Lookups
<1>7. \A d \in Conns : pc[d] = "blocked" => (Released(d)' <=> Released(d) \/ d \in go)
  <2> SUFFICES ASSUME NEW d \in Conns, pc[d] = "blocked"
               PROVE  Released(d)' <=> Released(d) \/ d \in go
    OBVIOUS
  <2>1. ~Released(d) => sigOf[d] = signal[queueOf[d]]
    BY DEF Waits
  <2>2. d \in go <=> left = {} /\ queueOf[d] = q /\ ~Released(d)
    BY DEF Waiters
  <2>3. Released(d)' <=> sigOf[d] \in closed'[queueOf[d]]
    BY <1>5 DEF Released
  <2> HIDE DEF go, left
  <2>4. CASE Released(d)
    BY <1>4, <1>6, <2>3, <2>4 DEF Released
  <2>5. CASE ~Released(d)
    BY <1>4, <1>6, <2>1, <2>2, <2>3, <2>5 DEF Released
  <2>6. QED
    BY <2>4, <2>5
<1>8. \A d \in go : d \in Conns /\ pc[d] = "blocked" /\ queueOf[d] = q
  BY DEF Waiters
<1> HIDE DEF go, left
<1>9. \A p \in Queues : Waiters(p)' = IF p = q THEN Waiters(p) \ go ELSE Waiters(p)
  BY <1>5, <1>7, <1>8 DEF Waiters
<1>10. Freed' = Freed \cup go
  BY <1>5, <1>7, <1>8 DEF Freed
<1>11. B!Complete(q, cmds)
  BY <1>2, <1>9, <1>10 DEF B!Complete, go, left
<1>12. QED
  BY <1>11

(* The channel a finish captures is closed exactly when nothing is left.   *)
LEMMA WaitAwaits ==
  ASSUME IInv, NEW c \in Conns, NEW q \in Queues, q = queueOf[c], WaitForQueue(c)
  PROVE  B!Await(c, q)
<1> USE DEF IInv, TypeOK
<1>1. c \notin Freed /\ \A p \in Queues : c \notin Waiters(p)
  BY DEF WaitForQueue, Freed, Waiters
<1>2. \A d \in Conns \ {c} : /\ pc'[d] = pc[d] /\ queueOf'[d] = queueOf[d]
                             /\ Released(d)' <=> Released(d)
  BY DEF WaitForQueue, Goto, queueVars, Released
<1>3. pc'[c] = "blocked" /\ queueOf'[c] = q
  BY DEF WaitForQueue, Goto
<1>4. Released(c)' <=> Pending(q) = {}
  <2>1. q \in created
    BY DEF WaitForQueue, Lookups
  <2>2. Released(c)' <=> signal[q] \in closed[q]
    BY DEF WaitForQueue, queueVars, Released
  <2>3. QED
    BY <2>1, <2>2 DEF SignalIffDrained, Pending
<1>5. \A p \in Queues : Pending(p)' = Pending(p)
  BY DEF WaitForQueue, queueVars, Pending
<1>6. CASE Pending(q) = {}
  <2>1. Freed' = Freed \cup {c}
    BY <1>2, <1>3, <1>4, <1>6 DEF Freed
  <2>2. \A p \in Queues : Waiters(p)' = Waiters(p)
    BY <1>1, <1>2, <1>4, <1>6 DEF Waiters
  <2>3. QED
    BY <1>1, <1>5, <1>6, <2>1, <2>2 DEF B!Await
<1>7. CASE Pending(q) # {}
  <2>1. Freed' = Freed
    BY <1>1, <1>2, <1>4, <1>7 DEF Freed
  <2>2. \A p \in Queues : Waiters(p)' = IF p = q THEN Waiters(p) \cup {c} ELSE Waiters(p)
    BY <1>1, <1>2, <1>3, <1>4, <1>7 DEF Waiters
  <2>3. QED
    BY <1>1, <1>5, <1>7, <2>1, <2>2 DEF B!Await
<1>8. QED
  BY <1>6, <1>7

LEMMA FinishGoesOn ==
  ASSUME IInv, NEW c \in Conns, FinishReturn(c)
  PROVE  B!GoOn(c)
<1> USE DEF IInv, TypeOK
<1>1. c \in Freed
  BY DEF FinishReturn, Freed
<1>2. \A d \in Conns \ {c} : /\ pc'[d] = pc[d] /\ queueOf'[d] = queueOf[d]
                             /\ Released(d)' <=> Released(d)
  BY DEF FinishReturn, Reply, Goto, queueVars, Released
<1>3. pc'[c] # "blocked" /\ \A p \in Queues : c \notin Waiters(p)
  BY DEF FinishReturn, Reply, Goto, Waiters
<1>4. Freed' = Freed \ {c}
  BY <1>2, <1>3 DEF Freed
<1>5. \A p \in Queues : Waiters(p)' = Waiters(p)
  BY <1>2, <1>3 DEF Waiters
<1>6. \A p \in Queues : Pending(p)' = Pending(p)
  BY DEF FinishReturn, queueVars, Pending
<1>7. QED
  BY <1>1, <1>4, <1>5, <1>6 DEF B!GoOn

LEMMA StepRefines == ASSUME IInv, [Next]_vars PROVE [B!Next]_(B!vars)
<1> USE DEF IInv
<1>1. ASSUME NEW c \in Conns, NEW q \in Queues,
             ReceiveFinish(c, q) \/ \E cmd \in Cmds : ReceiveNDRange(c, q, cmd)
      PROVE  UNCHANGED B!vars
  BY <1>1, InvisibleStep DEF ReceiveFinish, ReceiveNDRange, queueVars, Goto, Released, TypeOK
<1>2. ASSUME NEW c \in Conns, NEW d \in Conns, MapRace(c, d) PROVE UNCHANGED B!vars
  BY <1>2, InvisibleStep DEF MapRace, queueVars, Released
<1>3. CASE UNCHANGED vars
  BY <1>3, InvisibleStep DEF vars, Released
<1>4. ASSUME NEW c \in Conns, Step(c) PROVE [B!Next]_(B!vars)
  <2>1. pc[c] # "idle" => queueOf[c] \in Queues
    BY DEF Lookups
  <2>2. CASE EnqueueLookup(c) \/ FinishLookup(c)
    BY <2>2, LookupInvisible
  <2>3. CASE Enqueue(c)
    <3>1. PICK q \in Queues : q = queueOf[c]
      BY <2>1, <2>3 DEF Enqueue
    <3>2. cmdOf[c] \in Cmds
      BY <2>3 DEF Enqueue, Launches, Holding
    <3>3. QED
      BY <2>3, <3>1, <3>2, EnqueueSubmits DEF B!Next
  <2>4. CASE MarkComplete(c)
    <3>1. PICK q \in Queues : q = queueOf[c]
      BY <2>1, <2>4 DEF MarkComplete
    <3>2. PICK cmds \in SUBSET Pending(q) : B!Complete(q, cmds)
      BY <2>4, <3>1, MarkCompletes
    <3>3. QED
      BY <3>2 DEF B!Next
  <2>5. CASE WaitForQueue(c)
    <3>1. PICK q \in Queues : q = queueOf[c]
      BY <2>1, <2>5 DEF WaitForQueue
    <3>2. B!Await(c, q)
      BY <2>5, <3>1, WaitAwaits
    <3>3. QED
      BY <3>2 DEF B!Next
  <2>6. CASE FinishReturn(c)
    BY <2>6, FinishGoesOn DEF B!Next
  <2>7. QED
    BY <1>4, <2>2, <2>3, <2>4, <2>5, <2>6 DEF Step
<1>5. QED
  BY <1>1, <1>2, <1>3, <1>4 DEF Next

(* CmdQueue implements the barrier: whichever channel a finish captured,   *)
(* it goes on at once when nothing is left on its queue, and is let go,    *)
(* with all others, by the very step that completes the last of the work,  *)
(* for good.                                                               *)
THEOREM ImplementsBarrier == Spec => Barrier
<1>1. Init => B!Init
  BY DEF Init, B!Init, Pending, Waiters, Freed
<1>2. IInv /\ [Next]_vars => [B!Next]_(B!vars)
  BY StepRefines
<1>3. QED
  BY <1>1, <1>2, Invariance, PTL DEF Spec, Barrier, B!Spec
=============================================================================
