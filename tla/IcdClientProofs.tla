-------------------------- MODULE IcdClientProofs --------------------------
(***************************************************************************)
(* What one application may rely on when the library does not match        *)
(* replies with requests: for any number of buffers, messages and launches.*)
(***************************************************************************)
EXTENDS IcdClient, FiniteSetTheorems, TLAPS

(* Calls and how they change.                                              *)
Ops == {"none", "create", "write", "read", "launch", "finish", "flush", "build"}
ResultsOf(op) == IF op = "launch" THEN {None, "success", "error"} ELSE Contents
CallsOfOp(op) == CallsOf({op}, ResultsOf(op))

LEMMA CallHasOp == ASSUME NEW c \in Calls PROVE c.op \in Ops /\ c \in CallsOfOp(c.op)
BY DEF Calls, CallsOf, CallsOfOp, Ops, ResultsOf

LEMMA OpsAreCalls == ASSUME NEW op \in Ops PROVE CallsOfOp(op) \subseteq Calls
BY DEF Calls, CallsOf, CallsOfOp, Ops, ResultsOf

LEMMA CallFields ==
    ASSUME NEW c \in Calls
    PROVE  /\ c.op \in Ops /\ c.at \in Places \cup Buffers /\ c.bufs \subseteq Buffers
           /\ c.req \in Ids \cup {0} /\ c.got \in Seq(Replies) /\ c.result \in ResultsOf(c.op)
BY CallHasOp DEF CallsOfOp, CallsOf

LEMMA CallGoes ==
    ASSUME NEW c \in Calls, NEW at \in Places \cup Buffers
    PROVE  LET d == [c EXCEPT !.at = at] IN
           /\ d \in Calls
           /\ d.op = c.op /\ d.at = at /\ d.bufs = c.bufs /\ d.req = c.req
           /\ d.got = c.got /\ d.result = c.result
BY DEF Calls, CallsOf

Requested(c, at, req) == [c EXCEPT !.at = at, !.req = req]

LEMMA CallSends ==
    ASSUME NEW c \in Calls, NEW at \in Places \cup Buffers, NEW req \in Ids
    PROVE  LET d == Requested(c, at, req) IN
           /\ d \in Calls
           /\ d.op = c.op /\ d.at = at /\ d.bufs = c.bufs /\ d.req = req
           /\ d.got = c.got /\ d.result = c.result
BY DEF Calls, CallsOf, Requested

LEMMA CallEnds ==
    ASSUME NEW c \in Calls, NEW result \in ResultsOf(c.op)
    PROVE  LET d == [c EXCEPT !.at = "done", !.result = result] IN
           /\ d \in Calls
           /\ d.op = c.op /\ d.at = "done" /\ d.bufs = c.bufs /\ d.req = c.req
           /\ d.got = c.got /\ d.result = result
<1> DEFINE d == [c EXCEPT !.at = "done", !.result = result]
<1>1. d.op = c.op /\ d.at = "done" /\ d.bufs = c.bufs /\ d.req = c.req
      /\ d.got = c.got /\ d.result = result
  BY DEF Calls, CallsOf
<1>2. d \in CallsOfOp(c.op)
  BY CallHasOp DEF CallsOfOp, CallsOf, Places
<1>3. QED  BY <1>1, <1>2, CallHasOp, OpsAreCalls

Returned(c, got, result) == [c EXCEPT !.at = "done", !.got = got, !.result = result]

LEMMA CallReturns ==
    ASSUME NEW c \in Calls, NEW got \in Seq(Replies), NEW result \in ResultsOf(c.op)
    PROVE  LET d == Returned(c, got, result) IN
           /\ d \in Calls
           /\ d.op = c.op /\ d.at = "done" /\ d.bufs = c.bufs /\ d.req = c.req
           /\ d.got = got /\ d.result = result
<1> DEFINE d == Returned(c, got, result)
<1>1. d.op = c.op /\ d.at = "done" /\ d.bufs = c.bufs /\ d.req = c.req
      /\ d.got = got /\ d.result = result
  BY DEF Calls, CallsOf, Returned
<1>2. d \in CallsOfOp(c.op)
  BY CallHasOp DEF CallsOfOp, CallsOf, Places, Returned
<1>3. QED  BY <1>1, <1>2, CallHasOp, OpsAreCalls

Begun(op, at, bufs) == [NoCall EXCEPT !.op = op, !.at = at, !.bufs = bufs]
BegunRead(bufs, at, result) ==
    [NoCall EXCEPT !.op = "read", !.at = at, !.bufs = bufs, !.result = result]

LEMMA CallReads ==
    ASSUME NEW at \in Places \cup Buffers, NEW bufs \in SUBSET Buffers, NEW result \in Contents
    PROVE  LET d == BegunRead(bufs, at, result) IN
           /\ d \in Calls
           /\ d.op = "read" /\ d.at = at /\ d.bufs = bufs /\ d.req = 0 /\ d.result = result
<1> DEFINE W == CallsOf(Ops, {result, None})
           d == BegunRead(bufs, at, result)
<1>1. NoCall \in W
  BY DEF NoCall, CallsOf, Ops, Places
<1>2. d \in W
  BY <1>1 DEF CallsOf, BegunRead, Ops
<1>3. d.op = "read" /\ d.at = at /\ d.bufs = bufs /\ d.req = 0 /\ d.result = result
  BY DEF NoCall, BegunRead
<1>4. d \in CallsOfOp("read")
  BY <1>2, <1>3 DEF CallsOf, CallsOfOp, ResultsOf
<1>5. "read" \in Ops
  BY DEF Ops
<1>6. QED  BY <1>3, <1>4, <1>5, OpsAreCalls

LEMMA CallBegins ==
    ASSUME NEW op \in Ops, NEW at \in Places \cup Buffers, NEW bufs \in SUBSET Buffers
    PROVE  LET d == Begun(op, at, bufs) IN
           /\ d \in Calls /\ d.op = op /\ d.at = at /\ d.bufs = bufs /\ d.req = 0
<1> DEFINE W == CallsOf(Ops, {None})
           d == Begun(op, at, bufs)
<1>1. NoCall \in W
  BY DEF NoCall, CallsOf, Ops, Places
<1>2. d \in W
  BY <1>1 DEF CallsOf, Begun
<1>3. d.op = op /\ d.at = at /\ d.bufs = bufs /\ d.req = 0
  BY DEF NoCall, Begun
<1>4. d \in CallsOfOp(op)
  BY <1>2, <1>3 DEF CallsOf, CallsOfOp, ResultsOf, Contents
<1>5. QED  BY <1>3, <1>4, OpsAreCalls
----------------------------------------------------------------------------
(* The base of the invariant holds for any number of threads.              *)
WellFormed(c) ==
    /\ c.op = "read" => \E b \in Buffers : c.bufs = {b}
    /\ c.at \notin {"answer", "done"} => c.req = 0
    /\ c.at \in {"connect", "hello"} => c.op \in {"create", "launch", "build"}
    /\ c.at \in Buffers => c.op = "launch"
    /\ c.op = "none" => c.at = "done"

CallsFormed == \A t \in Threads : WellFormed(call[t]) /\ \A b \in call[t].bufs : host[b] # None

(* What the library has not created nobody knows.                          *)
Fresh ==
    \A b \in Buffers :
        /\ host[b] = None <=> truth[b] = None
        /\ host[b] = None => vram[b] = None /\ ~dirty[b] /\ b \notin unsynced
        /\ host[b] = None => \A i \in 1..Len(toCore) : b \notin toCore[i].bufs

(* Without a connection nothing is on the way and no buffer is loaded.     *)
Closed == socket # "open" => toCore = <<>> /\ toApp = <<>> /\ \A b \in Buffers : vram[b] = None

Base == TypeOK /\ CallsFormed /\ Fresh /\ Closed

LEMMA SetCallDoes ==
    ASSUME call \in [Threads -> Calls], NEW t \in Threads, NEW c \in Calls, SetCall(t, c)
    PROVE  /\ call' \in [Threads -> Calls] /\ call'[t] = c
           /\ \A s \in Threads : s # t => call'[s] = call[s]
BY DEF SetCall

LEMMA SomeContents ==
    ASSUME NEW c \in Contents, c # None
    PROVE  c \in [Cells -> Stamps] /\ c["head"] \in Stamps /\ c["tail"] \in Stamps
BY DEF Contents, Cells

LEMMA FullContents ==
    ASSUME NEW c \in [Cells -> Stamps]
    PROVE  c # None /\ c \in Contents
BY NoneAssumption DEF Contents

LEMMA FilledDoes ==
    ASSUME NEW b \in Buffers, NEW n \in Stamps
    PROVE  Filled(b, n) \in [Cells -> Stamps] /\ Filled(b, n)["head"] = n
BY IcdAssumption DEF Filled, Cells, CellsOf, Stamps

LEMMA HostWritesDoes ==
    ASSUME Base, NEW b \in Buffers, NEW c \in [Cells -> Stamps], NEW d \in [Cells -> Stamps],
           HostWrites(b, c, d)
    PROVE  /\ host' \in [Buffers -> Contents] /\ truth' \in [Buffers -> Contents]
           /\ unsynced' \subseteq Buffers
           /\ host'[b] = c /\ truth'[b] = d /\ host'[b] # None /\ truth'[b] # None
           /\ \A a \in Buffers : a # b => host'[a] = host[a] /\ truth'[a] = truth[a]
           /\ \A a \in Buffers : a # b => (a \in unsynced' <=> a \in unsynced)
           /\ b \notin unsynced' => (host[b] = None \/ dirty[b]) /\ c["head"] = d["head"]
<1>1. c \in Contents /\ d \in Contents /\ c # None /\ d # None
  BY FullContents
<1>2. b \notin unsynced' => (host[b] = None \/ dirty[b]) /\ c["head"] = d["head"]
  BY DEF HostWrites
<1>3. QED
  BY <1>1, <1>2 DEF HostWrites, Base, TypeOK

(* A call of the application: only the library's objects and the calls     *)
(* change.                                                                 *)
LEMMA AppKeepsBase ==
    ASSUME Base, UNCHANGED <<alive, socket, dirty, sent, toCore, toApp, vram, ran, skipped>>,
           stamp' \in Stamps, host' \in [Buffers -> Contents], truth' \in [Buffers -> Contents],
           unsynced' \subseteq Buffers,
           \A b \in Buffers : /\ host[b] # None => host'[b] # None
                              /\ host'[b] = None <=> truth'[b] = None
                              /\ host'[b] = None => b \notin unsynced',
           call' \in [Threads -> Calls],
           \A t \in Threads : call'[t] = call[t] \/
               (WellFormed(call'[t]) /\ \A b \in call'[t].bufs : host'[b] # None)
    PROVE  Base'
<1>1. TypeOK'
  BY DEF Base, TypeOK
<1>2. CallsFormed'
  <2> SUFFICES ASSUME NEW t \in Threads
               PROVE  WellFormed(call'[t]) /\ \A b \in call'[t].bufs : host'[b] # None
    BY DEF CallsFormed, WellFormed
  <2>1. CASE call'[t] = call[t]
    <3>1. call[t].bufs \subseteq Buffers
      BY CallFields DEF Base, TypeOK
    <3>2. QED  BY <2>1, <3>1 DEF Base, CallsFormed
  <2>2. QED  BY <2>1
<1>3. Fresh'
  BY DEF Base, Fresh
<1>4. Closed'
  BY DEF Base, Closed
<1>5. QED  BY <1>1, <1>2, <1>3, <1>4 DEF Base
----------------------------------------------------------------------------
(* What a call of the application does.                                    *)
Keeps(b) == host'[b] = host[b] /\ truth'[b] = truth[b] /\ (b \in unsynced' <=> b \in unsynced)
Writes(b) ==
    /\ host'[b] # None /\ truth'[b] # None
    /\ b \notin unsynced' => (host[b] = None \/ dirty[b]) /\ host'[b]["head"] = truth'[b]["head"]

Begins(t) ==
    /\ WellFormed(call'[t]) /\ \A b \in call'[t].bufs : host'[b] # None
    /\ call'[t].req = 0 /\ call'[t].at \in {"connect", "send", "done"}
    /\ call'[t].at = "done" => call'[t].op \notin {"create", "launch"}
    /\ call'[t].op = "create" => \A b \in call'[t].bufs : host[b] = None
    /\ call'[t].op = "read" /\ call'[t].at = "done" =>
         socket = "none" /\ \A b \in call'[t].bufs : call'[t].result = host[b]

AppDoes(t) ==
    /\ UNCHANGED <<alive, socket, dirty, sent, toCore, toApp, vram, ran, skipped>>
    /\ stamp' \in Stamps /\ host' \in [Buffers -> Contents] /\ truth' \in [Buffers -> Contents]
    /\ unsynced' \subseteq Buffers
    /\ \A b \in Buffers : Keeps(b) \/ Writes(b)
    /\ call' \in [Threads -> Calls]
    /\ call[t].at = "done" /\ (call'[t] = call[t] \/ Begins(t))
    /\ \A s \in Threads : s # t => call'[s] = call[s]
    /\ \A b \in Buffers : host[b] = None /\ host'[b] # None =>
         call'[t].op = "create" /\ b \in call'[t].bufs

LEMMA BeginDoes ==
    ASSUME Base, NEW t \in Threads, NEW op \in Ops, NEW bufs \in SUBSET Buffers,
           NEW at \in {"connect", "send", "done"}, Begin(t, op, bufs, at)
    PROVE  /\ call[t].at = "done" /\ call' \in [Threads -> Calls]
           /\ call'[t].op = op /\ call'[t].at = at /\ call'[t].bufs = bufs /\ call'[t].req = 0
           /\ \A s \in Threads : s # t => call'[s] = call[s]
<1>1. at \in Places \cup Buffers
  BY DEF Places
<1> DEFINE d == Begun(op, at, bufs)
<1>2. d \in Calls /\ d.op = op /\ d.at = at /\ d.bufs = bufs /\ d.req = 0
  BY <1>1, CallBegins
<1>3. SetCall(t, d) /\ call[t].at = "done"
  BY DEF Begin, Begun
<1>4. QED  BY <1>2, <1>3, SetCallDoes DEF Base, TypeOK

LEMMA StampedDoes ==
    ASSUME Base, NEW b \in Buffers, Stamped(b)
    PROVE  /\ stamp' \in Stamps /\ host' \in [Buffers -> Contents]
           /\ truth' \in [Buffers -> Contents] /\ unsynced' \subseteq Buffers
           /\ Writes(b) /\ \A a \in Buffers : a # b => Keeps(a)
<1>1. stamp' \in Stamps
  BY IcdAssumption DEF Stamped, Base, TypeOK, Stamps
<1>2. Filled(b, stamp') \in [Cells -> Stamps]
  BY <1>1, FilledDoes
<1>3. QED
  BY <1>1, <1>2, HostWritesDoes DEF Stamped, Keeps, Writes

LEMMA CreateIsApp ==
    ASSUME Base, NEW t \in Threads, NEW b \in Buffers, CreateBuffer(t, b)
    PROVE  AppDoes(t)
<1>1. /\ call[t].at = "done" /\ call' \in [Threads -> Calls]
      /\ call'[t].op = "create" /\ call'[t].at \in {"connect", "send"} /\ call'[t].bufs = {b}
      /\ call'[t].req = 0 /\ \A s \in Threads : s # t => call'[s] = call[s]
  BY BeginDoes DEF CreateBuffer, Connecting, Ops
<1>2. /\ stamp' \in Stamps /\ host' \in [Buffers -> Contents]
      /\ truth' \in [Buffers -> Contents] /\ unsynced' \subseteq Buffers
      /\ Writes(b) /\ \A a \in Buffers : a # b => Keeps(a)
  BY StampedDoes DEF CreateBuffer
<1>3. host[b] = None /\ UNCHANGED <<alive, socket, dirty, sent, toCore, toApp, vram, ran, skipped>>
  BY DEF CreateBuffer, wire
<1>4. Begins(t)
  BY <1>1, <1>2, <1>3, NoneAssumption DEF Begins, WellFormed, Writes, Places
<1>5. \A a \in Buffers : host[a] = None /\ host'[a] # None => a = b
  BY <1>2 DEF Keeps
<1>6. QED  BY <1>1, <1>2, <1>3, <1>4, <1>5 DEF AppDoes

LEMMA WriteIsApp ==
    ASSUME Base, NEW t \in Threads, NEW b \in Buffers,
           EnqueueWriteBuffer(t, b) \/ EnqueueFillBuffer(t, b)
    PROVE  AppDoes(t)
<1>1. /\ stamp' \in Stamps /\ host' \in [Buffers -> Contents]
      /\ truth' \in [Buffers -> Contents] /\ unsynced' \subseteq Buffers
      /\ Writes(b) /\ \A a \in Buffers : a # b => Keeps(a)
  BY StampedDoes DEF EnqueueWriteBuffer, EnqueueFillBuffer
<1>2. /\ host[b] # None /\ call[t].at = "done"
      /\ UNCHANGED <<alive, socket, dirty, sent, toCore, toApp, vram, ran, skipped>>
  BY DEF EnqueueWriteBuffer, EnqueueFillBuffer, Begin, wire, Exists
<1>3. \A a \in Buffers : ~(host[a] = None /\ host'[a] # None)
  BY <1>1, <1>2 DEF Keeps
<1>4. CASE EnqueueWriteBuffer(t, b)
  <2>1. /\ call' \in [Threads -> Calls]
        /\ call'[t].op = "write" /\ call'[t].at \in {"send", "done"} /\ call'[t].bufs = {b}
        /\ call'[t].req = 0 /\ \A s \in Threads : s # t => call'[s] = call[s]
    BY <1>4, BeginDoes DEF EnqueueWriteBuffer, IfConnected, Ops
  <2>2. Begins(t)
    BY <1>1, <2>1, NoneAssumption DEF Begins, WellFormed, Writes, Places
  <2>3. QED  BY <1>1, <1>2, <1>3, <2>1, <2>2 DEF AppDoes
<1>5. CASE EnqueueFillBuffer(t, b)
  <2>1. call' = call
    BY <1>5 DEF EnqueueFillBuffer
  <2>2. QED  BY <1>1, <1>2, <1>3, <2>1 DEF AppDoes, Base, TypeOK
<1>6. QED  BY <1>4, <1>5

LEMMA CopyIsApp ==
    ASSUME Base, NEW t \in Threads, NEW a \in Buffers, NEW b \in Buffers, EnqueueCopyBuffer(t, a, b)
    PROVE  AppDoes(t)
<1> DEFINE Copied(of) == [c \in Cells |-> IF c \in CellsOf(a) THEN of[a][c] ELSE of[b][c]]
<1>1. HostWrites(b, Copied(host), Copied(truth)) /\ host[a] # None /\ host[b] # None
  BY DEF EnqueueCopyBuffer, Exists
<1>2. truth[a] # None /\ truth[b] # None
  BY <1>1 DEF Base, Fresh
<1>3. /\ host[a] \in [Cells -> Stamps] /\ host[b] \in [Cells -> Stamps]
      /\ truth[a] \in [Cells -> Stamps] /\ truth[b] \in [Cells -> Stamps]
  BY <1>1, <1>2, SomeContents DEF Base, TypeOK
<1>4. Copied(host) \in [Cells -> Stamps] /\ Copied(truth) \in [Cells -> Stamps]
  BY <1>3
<1> HIDE DEF Copied
<1>5. /\ host' \in [Buffers -> Contents]
      /\ truth' \in [Buffers -> Contents] /\ unsynced' \subseteq Buffers
      /\ Writes(b) /\ \A d \in Buffers : d # b => Keeps(d)
  BY <1>1, <1>4, HostWritesDoes DEF Keeps, Writes
<1>6. /\ call[t].at = "done" /\ call' = call /\ stamp' = stamp
      /\ UNCHANGED <<alive, socket, dirty, sent, toCore, toApp, vram, ran, skipped>>
  BY DEF EnqueueCopyBuffer, wire
<1>7. \A d \in Buffers : ~(host[d] = None /\ host'[d] # None)
  BY <1>1, <1>5 DEF Keeps
<1>8. QED  BY <1>5, <1>6, <1>7 DEF AppDoes, Base, TypeOK

LEMMA ReadIsApp ==
    ASSUME Base, NEW t \in Threads, NEW b \in Buffers, ReadBuffer(t, b)
    PROVE  AppDoes(t)
<1> DEFINE result == IF socket = "none" THEN host[b] ELSE None
<1>1. result \in Contents /\ IfConnected \in Places \cup Buffers /\ {b} \in SUBSET Buffers
  BY DEF Base, TypeOK, Contents, IfConnected, Places
<1>2. PICK d : d = BegunRead({b}, IfConnected, result)
  OBVIOUS
<1>3. SetCall(t, d)
  BY <1>2 DEF ReadBuffer, BegunRead
<1> HIDE DEF result
<1>4. PICK at, res : at = IfConnected /\ res = result
  OBVIOUS
<1>5. d \in Calls /\ d.op = "read" /\ d.at = IfConnected /\ d.bufs = {b}
      /\ d.req = 0 /\ d.result = result
  BY <1>1, <1>2, <1>4, CallReads
<1>6. /\ call' \in [Threads -> Calls]
      /\ call'[t].op = "read" /\ call'[t].at = IfConnected /\ call'[t].bufs = {b}
      /\ call'[t].req = 0 /\ call'[t].result = result
      /\ \A s \in Threads : s # t => call'[s] = call[s]
  BY <1>3, <1>5, SetCallDoes DEF Base, TypeOK
<1>7. /\ call[t].at = "done" /\ stamp' = stamp /\ host' = host /\ truth' = truth
      /\ unsynced' = unsynced /\ host[b] # None
      /\ UNCHANGED <<alive, socket, dirty, sent, toCore, toApp, vram, ran, skipped>>
  BY DEF ReadBuffer, wire, ghosts, Exists
<1>8. Begins(t)
  BY <1>6, <1>7, NoneAssumption DEF Begins, WellFormed, Places, IfConnected, result
<1>9. QED  BY <1>6, <1>7, <1>8 DEF AppDoes, Base, TypeOK, Keeps

LEMMA LaunchIsApp ==
    ASSUME Base, NEW t \in Threads, NEW bufs \in Launches, EnqueueNDRange(t, bufs)
    PROVE  AppDoes(t)
<1>1. bufs \in SUBSET Buffers /\ "launch" \in Ops
  BY IcdAssumption DEF Ops
<1>2. /\ call[t].at = "done" /\ call' \in [Threads -> Calls]
      /\ call'[t].op = "launch" /\ call'[t].at \in {"connect", "send"} /\ call'[t].bufs = bufs
      /\ call'[t].req = 0 /\ \A s \in Threads : s # t => call'[s] = call[s]
  BY <1>1, BeginDoes DEF EnqueueNDRange, Connecting
<1>3. /\ stamp' = stamp /\ host' = host /\ truth' = truth /\ unsynced' = unsynced
      /\ \A b \in bufs : host[b] # None
      /\ UNCHANGED <<alive, socket, dirty, sent, toCore, toApp, vram, ran, skipped>>
  BY DEF EnqueueNDRange, wire, ghosts, Exists
<1>4. Begins(t)
  BY <1>2, <1>3, NoneAssumption DEF Begins, WellFormed, Places
<1>5. QED  BY <1>2, <1>3, <1>4 DEF AppDoes, Base, TypeOK, Keeps

LEMMA PlainIsApp ==
    ASSUME Base, NEW t \in Threads, NEW op \in {"finish", "flush", "build"}, PlainCall(t, op)
    PROVE  AppDoes(t)
<1>1. /\ call[t].at = "done" /\ call' \in [Threads -> Calls]
      /\ call'[t].op = op /\ call'[t].at \in {"connect", "send", "done"} /\ call'[t].bufs = {}
      /\ call'[t].at = "connect" => op = "build"
      /\ call'[t].req = 0 /\ \A s \in Threads : s # t => call'[s] = call[s]
  BY BeginDoes DEF PlainCall, Connecting, IfConnected, Ops
<1>2. /\ stamp' = stamp /\ host' = host /\ truth' = truth /\ unsynced' = unsynced
      /\ UNCHANGED <<alive, socket, dirty, sent, toCore, toApp, vram, ran, skipped>>
  BY DEF PlainCall, wire, ghosts
<1>3. Begins(t)
  BY <1>1, <1>2, NoneAssumption DEF Begins, WellFormed, Places
<1>4. QED  BY <1>1, <1>2, <1>3 DEF AppDoes, Base, TypeOK, Keeps

LEMMA AppIs ==
    ASSUME Base, NEW t \in Threads, App(t)
    PROVE  AppDoes(t)
BY CreateIsApp, WriteIsApp, CopyIsApp, ReadIsApp, LaunchIsApp, PlainIsApp DEF App

LEMMA AppBase ==
    ASSUME Base, NEW t \in Threads, AppDoes(t)
    PROVE  Base'
<1>1. \A b \in Buffers : /\ host[b] # None => host'[b] # None
                         /\ host'[b] = None <=> truth'[b] = None
                         /\ host'[b] = None => b \notin unsynced'
  BY DEF AppDoes, Keeps, Writes, Base, Fresh
<1>2. \A s \in Threads : call'[s] = call[s] \/
           (WellFormed(call'[s]) /\ \A b \in call'[s].bufs : host'[b] # None)
  BY DEF AppDoes, Begins
<1>3. QED  BY <1>1, <1>2, AppKeepsBase DEF AppDoes
----------------------------------------------------------------------------
(* What a step of the library does.                                        *)
Moves(t, at) ==
    /\ call' \in [Threads -> Calls] /\ \A s \in Threads : s # t => call'[s] = call[s]
    /\ call'[t].op = call[t].op /\ call'[t].bufs = call[t].bufs /\ call'[t].at = at

Posts(m) ==
    /\ m \in Requests /\ m.id = sent + 1
    /\ sent' = sent + 1 /\ sent' \in Ids
    /\ toCore' = IF socket' = "open" THEN Append(toCore, m) ELSE toCore

ConnectDoes(t) ==
    /\ call[t].at = "connect"
    /\ UNCHANGED <<alive, host, dirty, toApp, vram, ran, truth, unsynced, stamp, skipped>>
    /\ call'[t].req = call[t].req
    /\ \/ socket # "none" /\ Moves(t, "send") /\ UNCHANGED <<socket, sent, toCore>>
       \/ /\ socket = "none" /\ socket' = "open" /\ Moves(t, "hello")
          /\ \E m : Posts(m) /\ m.op = "hello" /\ m.bufs = {}
       \/ /\ socket = "none" /\ Moves(t, "done") /\ UNCHANGED <<socket, sent, toCore>>
          /\ call[t].op = "launch" => call'[t].result = "error"

FlushDoes(t, b) ==
    /\ call[t].at = "send" /\ call[t].op = "launch" /\ b \in call[t].bufs /\ dirty[b]
    /\ UNCHANGED <<alive, socket, host, dirty, toApp, vram, ran, truth, unsynced, stamp, skipped>>
    /\ Moves(t, b) /\ call'[t].req = call[t].req
    /\ \E m : Posts(m) /\ m.op = "write" /\ m.bufs = {b} /\ m.data = host[b]["head"] /\ m.data # None

CommandDoes(t) ==
    /\ call[t].at = "send"
    /\ call[t].op = "launch" => \A b \in call[t].bufs : ~dirty[b]
    /\ UNCHANGED <<alive, socket, host, dirty, toApp, vram, ran, truth, unsynced, stamp, skipped>>
    /\ Moves(t, "answer") /\ call'[t].req = sent'
    /\ \E m : Posts(m) /\ m.op = call[t].op /\ m.bufs = call[t].bufs /\ m.data = None

ForgetDoes(t) ==
    /\ call[t].at = "send" /\ call[t].op = "flush"
    /\ UNCHANGED <<alive, socket, host, dirty, toApp, vram, ran, truth, unsynced, stamp>>
    /\ Moves(t, "done") /\ call'[t].req = call[t].req
    /\ skipped' = skipped + 1 /\ skipped' \in 0..MaxSkipped
    /\ \E m : Posts(m) /\ m.op = "finish" /\ m.bufs = {}

FailDoes(t) ==
    /\ call[t].at = "send" /\ call[t].op = "launch" /\ call'[t].result = "error"
    /\ UNCHANGED <<alive, socket, host, dirty, sent, toCore, toApp, vram, ran, truth, unsynced,
                   stamp, skipped>>
    /\ Moves(t, "done") /\ call'[t].req = call[t].req

ReceiveDoes(t) ==
    /\ Waiting(t)
    /\ UNCHANGED <<alive, socket, host, sent, toCore, vram, ran, truth, unsynced, stamp>>
    /\ Moves(t, IF call[t].at = "answer" THEN "done" ELSE "send") /\ call'[t].req = call[t].req
    /\ dirty' \in [Buffers -> BOOLEAN]
    /\ \A b \in Buffers :
         dirty'[b] <=> (call[t].at # b /\ (dirty[b] \/ (call[t].at = "answer" /\ call[t].op = "create"
                                                      /\ b \in call[t].bufs)))
    /\ toApp' \in Seq(Replies) /\ \A i \in 1..Len(toApp') : toApp'[i].whole
    /\ skipped' \in {skipped, skipped + 1} /\ skipped' \in 0..MaxSkipped
    /\ Len(toApp') + 1 <= Len(toApp) + (skipped' - skipped)

LEMMA SendDoes ==
    ASSUME Base, NEW op \in {"hello", "create", "write", "read", "launch", "finish", "build"},
           NEW bufs \in SUBSET Buffers, NEW data \in Stamps \cup {None},
           SendOn(socket', Msg(op, bufs, data))
    PROVE  LET m == Msg(op, bufs, data) IN
           Posts(m) /\ m.op = op /\ m.bufs = bufs /\ m.data = data
<1>1. sent + 1 \in Ids /\ sent' = sent + 1
  BY IcdAssumption DEF SendOn, Ids, Base, TypeOK
<1>2. QED
  BY <1>1 DEF SendOn, Msg, Posts, Requests

LEMMA GoDoes ==
    ASSUME Base, NEW t \in Threads, NEW at \in Places \cup Buffers, Go(t, at)
    PROVE  Moves(t, at) /\ call'[t].req = call[t].req
<1> DEFINE d == [call[t] EXCEPT !.at = at]
<1>1. call[t] \in Calls
  BY DEF Base, TypeOK
<1>2. PICK c : c = d
  OBVIOUS
<1>3. c \in Calls /\ c.op = call[t].op /\ c.at = at /\ c.bufs = call[t].bufs /\ c.req = call[t].req
  BY <1>1, <1>2, CallGoes
<1>4. SetCall(t, c)
  BY <1>2 DEF Go
<1>5. QED  BY <1>3, <1>4, SetCallDoes DEF Moves, Base, TypeOK

LEMMA EndDoes ==
    ASSUME Base, NEW t \in Threads, NEW result \in ResultsOf(call[t].op), End(t, result)
    PROVE  Moves(t, "done") /\ call'[t].req = call[t].req /\ call'[t].result = result
<1> DEFINE d == [call[t] EXCEPT !.at = "done", !.result = result]
<1>1. call[t] \in Calls
  BY DEF Base, TypeOK
<1>2. PICK c : c = d
  OBVIOUS
<1>3. c \in Calls /\ c.op = call[t].op /\ c.at = "done" /\ c.bufs = call[t].bufs
      /\ c.req = call[t].req /\ c.result = result
  BY <1>1, <1>2, CallEnds
<1>4. SetCall(t, c)
  BY <1>2 DEF End
<1>5. QED  BY <1>3, <1>4, SetCallDoes DEF Moves, Base, TypeOK

LEMMA CommandSends ==
    ASSUME Base, NEW t \in Threads, NEW at \in Places \cup Buffers, sent' \in Ids,
           SetCall(t, [call[t] EXCEPT !.at = at, !.req = sent'])
    PROVE  Moves(t, at) /\ call'[t].req = sent'
<1>1. call[t] \in Calls
  BY DEF Base, TypeOK
<1>2. PICK n \in Ids : n = sent'
  OBVIOUS
<1>3. PICK c : c = Requested(call[t], at, n)
  OBVIOUS
<1>4. c \in Calls /\ c.op = call[t].op /\ c.at = at /\ c.bufs = call[t].bufs /\ c.req = n
  BY <1>1, <1>2, <1>3, CallSends
<1>5. SetCall(t, c)
  BY <1>2, <1>3 DEF Requested
<1>6. QED  BY <1>2, <1>4, <1>5, SetCallDoes DEF Moves, Base, TypeOK

LEMMA NoResult == ASSUME NEW op PROVE None \in ResultsOf(op)
BY DEF ResultsOf, Contents

LEMMA ConnectIs ==
    ASSUME Base, NEW t \in Threads, Connect(t)
    PROVE  ConnectDoes(t)
<1>1. /\ call[t].at = "connect"
      /\ UNCHANGED <<alive, host, dirty, toApp, vram, ran, truth, unsynced, stamp, skipped>>
  BY DEF Connect, ghosts
<1>2. CASE socket # "none" /\ Go(t, "send") /\ UNCHANGED <<socket, sent, toCore>>
  BY <1>1, <1>2, GoDoes DEF ConnectDoes, Places
<1>3. CASE socket = "none" /\ socket' = "open" /\ SendOn("open", Msg("hello", {}, None)) /\ Go(t, "hello")
  <2>1. \E m : Posts(m) /\ m.op = "hello" /\ m.bufs = {}
    BY <1>3, SendDoes
  <2>2. QED  BY <1>1, <1>3, <2>1, GoDoes DEF ConnectDoes, Places
<1>4. CASE /\ socket = "none" /\ UNCHANGED <<socket, sent, toCore>>
           /\ End(t, IF call[t].op = "launch" THEN "error" ELSE None)
  <2>1. PICK r : r = IF call[t].op = "launch" THEN "error" ELSE None
    OBVIOUS
  <2>2. r \in ResultsOf(call[t].op) /\ End(t, r)
    BY <1>4, <2>1, NoResult DEF ResultsOf
  <2>3. QED  BY <1>1, <1>4, <2>1, <2>2, EndDoes DEF ConnectDoes
<1>5. QED  BY <1>2, <1>3, <1>4 DEF Connect

LEMMA FlushIs ==
    ASSUME Base, NEW t \in Threads, NEW b \in Buffers, SendFlush(t, b)
    PROVE  FlushDoes(t, b)
<1>1. /\ call[t].at = "send" /\ call[t].op = "launch" /\ b \in call[t].bufs /\ dirty[b]
      /\ UNCHANGED <<alive, socket, host, dirty, toApp, vram, ran, truth, unsynced, stamp, skipped>>
  BY DEF SendFlush, ToFlush, ghosts
<1>2. host[b]["head"] \in Stamps
  BY <1>1, SomeContents DEF Base, TypeOK, Fresh
<1>3. host[b]["head"] # None
  BY <1>2, NoneAssumption
<1>4. \E m : Posts(m) /\ m.op = "write" /\ m.bufs = {b} /\ m.data = host[b]["head"] /\ m.data # None
  BY <1>1, <1>2, <1>3, SendDoes DEF SendFlush, Send
<1>5. Moves(t, b) /\ call'[t].req = call[t].req
  BY GoDoes DEF SendFlush, Go
<1>6. QED  BY <1>1, <1>4, <1>5 DEF FlushDoes

LEMMA CommandIs ==
    ASSUME Base, NEW t \in Threads, SendCommand(t)
    PROVE  CommandDoes(t)
<1>1. /\ call[t].at = "send" /\ call[t].op # "flush"
      /\ UNCHANGED <<alive, socket, host, dirty, toApp, vram, ran, truth, unsynced, stamp, skipped>>
  BY DEF SendCommand, ghosts
<1>2. call[t].bufs \in SUBSET Buffers /\ call[t].op \in Ops /\ call[t].op # "none"
  BY <1>1, CallFields DEF Base, TypeOK, CallsFormed, WellFormed
<1>3. \E m : Posts(m) /\ m.op = call[t].op /\ m.bufs = call[t].bufs /\ m.data = None
  <2>1. PICK op, bufs : op = call[t].op /\ bufs = call[t].bufs
    OBVIOUS
  <2>2. SendOn(socket', Msg(op, bufs, None))
    BY <1>1, <2>1 DEF SendCommand, Send
  <2>3. QED  BY <1>1, <1>2, <2>1, <2>2, SendDoes DEF Ops
<1>4. sent' \in Ids
  BY <1>3 DEF Posts
<1>5. Moves(t, "answer") /\ call'[t].req = sent'
  BY <1>4, CommandSends DEF SendCommand, AfterSend, Places
<1>6. call[t].op = "launch" => \A b \in call[t].bufs : ~dirty[b]
  BY DEF SendCommand, ToFlush
<1>7. QED  BY <1>1, <1>3, <1>5, <1>6 DEF CommandDoes

LEMMA ForgetIs ==
    ASSUME Base, NEW t \in Threads, SendAndForget(t)
    PROVE  ForgetDoes(t)
<1>1. /\ call[t].at = "send" /\ call[t].op = "flush" /\ skipped' = skipped + 1
      /\ UNCHANGED <<alive, socket, host, dirty, toApp, vram, ran, truth, unsynced, stamp>>
  BY DEF SendAndForget
<1>2. skipped' \in 0..MaxSkipped
  BY IcdAssumption DEF SendAndForget, Base, TypeOK
<1>3. \E m : Posts(m) /\ m.op = "finish" /\ m.bufs = {}
  BY <1>1, SendDoes DEF SendAndForget, Send
<1>4. Moves(t, "done") /\ call'[t].req = call[t].req
  BY EndDoes, NoResult DEF SendAndForget
<1>5. QED  BY <1>1, <1>2, <1>3, <1>4 DEF ForgetDoes

LEMMA FailIs ==
    ASSUME Base, NEW t \in Threads, SendFails(t)
    PROVE  FailDoes(t)
<1>1. /\ call[t].at = "send" /\ call[t].op = "launch" /\ End(t, "error")
      /\ UNCHANGED <<alive, socket, host, dirty, sent, toCore, toApp, vram, ran, truth, unsynced,
                     stamp, skipped>>
  BY DEF SendFails, ghosts, wire
<1>2. "error" \in ResultsOf(call[t].op)
  BY <1>1 DEF ResultsOf
<1>3. QED  BY <1>1, <1>2, EndDoes DEF FailDoes

LEMMA UnitsAre ==
    ASSUME Base, NEW k \in 0..Len(toApp), NEW rest \in BOOLEAN, Takes(k, rest)
    PROVE  /\ Units(k, rest) \in Seq(Replies) /\ Leaves(k, rest) \in Seq(Replies)
           /\ \A i \in 1..Len(Leaves(k, rest)) : Leaves(k, rest)[i].whole
           /\ Len(Leaves(k, rest)) = Len(toApp) - k
           /\ k = 0 /\ ~rest => Units(k, rest) = <<>>
           /\ k = 1 /\ ~rest => Len(Units(k, rest)) = 1 /\ Units(k, rest)[1] = toApp[1]
<1>1. toApp \in Seq(Replies) /\ \A i \in 1..Len(toApp) : toApp[i].whole
  BY DEF Base, TypeOK
<1>2. CASE ~rest
  <2>1. SubSeq(toApp, 1, k) \in Seq(Replies) /\ Len(SubSeq(toApp, 1, k)) = k
        /\ SubSeq(toApp, 1, k) \o <<>> = SubSeq(toApp, 1, k)
    BY <1>1
  <2>2. Units(k, rest) = SubSeq(toApp, 1, k)
    BY <1>2, <2>1 DEF Units
  <2>3. k = 1 => SubSeq(toApp, 1, k)[1] = toApp[1]
    BY <1>1
  <2>4. k = 0 => SubSeq(toApp, 1, k) = <<>>
    BY <1>1
  <2>5. Leaves(k, rest) = SubSeq(toApp, k + 1, Len(toApp))
    BY <1>2 DEF Leaves
  <2>6. /\ SubSeq(toApp, k + 1, Len(toApp)) \in Seq(Replies)
        /\ Len(SubSeq(toApp, k + 1, Len(toApp))) = Len(toApp) - k
        /\ \A i \in 1..(Len(toApp) - k) :
             k + i \in 1..Len(toApp) /\ SubSeq(toApp, k + 1, Len(toApp))[i] = toApp[k + i]
    BY <1>1
  <2>7. QED  BY <1>1, <1>2, <2>1, <2>2, <2>3, <2>4, <2>5, <2>6
<1>3. CASE rest
  <2>1. k + 1 \in 1..Len(toApp) /\ toApp[k + 1] \in Replies /\ toApp[k + 1].whole
    BY <1>1, <1>3 DEF Takes
  <2>2. PICK a : a = toApp[k + 1]
    OBVIOUS
  <2>3. [a EXCEPT !.whole = FALSE] \in Replies
    BY <2>1, <2>2 DEF Replies
  <2>4. [a EXCEPT !.kind = "rest"] \in Replies /\ [a EXCEPT !.kind = "rest"].whole
    BY <2>1, <2>2 DEF Replies
  <2>5. PICK u, v : u = [a EXCEPT !.whole = FALSE] /\ v = [a EXCEPT !.kind = "rest"]
    OBVIOUS
  <2>6. Units(k, rest) = SubSeq(toApp, 1, k) \o <<u>> /\ u \in Replies
    BY <1>3, <2>2, <2>3, <2>5 DEF Units
  <2>7. Leaves(k, rest) = <<v>> \o SubSeq(toApp, k + 2, Len(toApp)) /\ v \in Replies /\ v.whole
    BY <1>3, <2>2, <2>4, <2>5 DEF Leaves
  <2>8. SubSeq(toApp, 1, k) \in Seq(Replies)
    BY <1>1
  <2>9. PICK r : r = SubSeq(toApp, k + 2, Len(toApp))
    OBVIOUS
  <2>10. /\ r \in Seq(Replies) /\ Len(r) = Len(toApp) - k - 1
         /\ \A i \in 1..Len(r) : r[i] = toApp[k + 1 + i] /\ k + 1 + i \in 1..Len(toApp)
    BY <1>1, <2>1, <2>9
  <2>11. <<v>> \in Seq(Replies) /\ <<u>> \in Seq(Replies)
    BY <2>6, <2>7
  <2>12. /\ <<v>> \o r \in Seq(Replies) /\ Len(<<v>> \o r) = 1 + Len(r)
         /\ (<<v>> \o r)[1] = v
         /\ \A i \in 2..(1 + Len(r)) : (<<v>> \o r)[i] = r[i - 1] /\ i - 1 \in 1..Len(r)
    BY <2>10, <2>11
  <2>13. SubSeq(toApp, 1, k) \o <<u>> \in Seq(Replies)
    BY <2>8, <2>11
  <2>14. \A i \in 1..Len(<<v>> \o r) : (<<v>> \o r)[i].whole
    BY SMTT(20), <1>1, <2>7, <2>10, <2>12
  <2>15. PICK l : l = <<v>> \o r
    OBVIOUS
  <2>16. l \in Seq(Replies) /\ Len(l) = Len(toApp) - k /\ \A i \in 1..Len(l) : l[i].whole
    BY <1>1, <2>10, <2>12, <2>14, <2>15
  <2>17. Leaves(k, rest) = l
    BY <2>7, <2>9, <2>15
  <2>18. QED  BY <1>3, <2>6, <2>13, <2>16, <2>17
<1>4. QED  BY <1>2, <1>3

LEMMA DataReadIs ==
    ASSUME Base, NEW b \in Buffers, NEW got \in Seq(Replies)
    PROVE  /\ DataRead(b, got) \in Contents
           /\ (\A i \in 1..Len(got) : got[i].kind # "data") => DataRead(b, got) = host[b]
           /\ Len(got) = 1 /\ got[1].kind = "data" /\ got[1].whole /\ got[1].bufs = {b}
                => DataRead(b, got) = got[1].data
<1> DEFINE IsFirst(j) == got[j].kind = "data" /\ \A i \in 1..(j - 1) : got[i].kind # "data"
           Fits(u)    == u.whole /\ (b \in Long \/ u.bufs \cap Long = {})
           Usable     == {j \in 1..Len(got) : IsFirst(j) /\ Fits(got[j])}
<1>1. DataRead(b, got) = IF Usable # {} THEN got[CHOOSE j \in Usable : TRUE].data ELSE host[b]
  BY DEF DataRead
<1>2. Usable # {} => (CHOOSE j \in Usable : TRUE) \in Usable
  OBVIOUS
<1>3. \A i \in 1..Len(got) : got[i].data \in Contents
  <2>1. \A u \in Replies : u.data \in Contents
    BY DEF Replies
  <2>2. \A i \in 1..Len(got) : got[i] \in Replies
    OBVIOUS
  <2>3. QED  BY <2>1, <2>2
<1>4. host[b] \in Contents
  BY DEF Base, TypeOK
<1>5. (\A i \in 1..Len(got) : got[i].kind # "data") => Usable = {}
  OBVIOUS
<1>6. ASSUME Len(got) = 1, got[1].kind = "data", got[1].whole, got[1].bufs = {b}
      PROVE  Usable = {1}
  <2>1. IsFirst(1) /\ Fits(got[1])
    BY <1>6
  <2>2. QED  BY <1>6, <2>1
<1>7. (\A j : j \in Usable => j \in 1..Len(got))
  OBVIOUS
<1> HIDE DEF Usable
<1>8. QED  BY <1>1, <1>2, <1>3, <1>4, <1>5, <1>6, <1>7

LEMMA ResultIs ==
    ASSUME Base, NEW t \in Threads, NEW got \in Seq(Replies)
    PROVE  Result(t, got) \in ResultsOf(call[t].op)
<1>1. call[t].op = "read" => \E b \in Buffers : call[t].bufs = {b}
  BY DEF Base, CallsFormed, WellFormed
<1>2. call[t].op = "read" => (CHOOSE b \in call[t].bufs : TRUE) \in Buffers
  BY <1>1
<1>3. QED
  BY <1>2, DataReadIs, NoResult DEF Result, ResultsOf, LaunchStatus

LEMMA ReceiveIs ==
    ASSUME Base, NEW t \in Threads, NEW k \in 0..Len(toApp), NEW rest \in BOOLEAN,
           Receive(t, k, rest)
    PROVE  /\ ReceiveDoes(t)
           /\ call[t].at = "answer" =>
                call'[t].got = Units(k, rest) /\ call'[t].result = Result(t, Units(k, rest))
           /\ skipped' = 0 /\ Len(toApp) <= 1 => k = 1 /\ ~rest /\ Len(toApp) = 1
<1> DEFINE got == Units(k, rest)
<1>1. /\ Waiting(t) /\ Takes(k, rest) /\ toApp' = Leaves(k, rest)
      /\ UNCHANGED <<alive, socket, host, sent, toCore, vram, ran, truth, unsynced, stamp>>
      /\ skipped' = IF got # <<>> /\ ~rest THEN skipped ELSE skipped + 1
      /\ skipped' <= MaxSkipped /\ dirty' = DirtyAfter(t)
  BY DEF Receive
<1>2. /\ got \in Seq(Replies) /\ toApp' \in Seq(Replies)
      /\ \A i \in 1..Len(toApp') : toApp'[i].whole
      /\ Len(toApp') = Len(toApp) - k
      /\ k = 0 /\ ~rest => got = <<>>
  BY <1>1, UnitsAre
<1>3. dirty \in [Buffers -> BOOLEAN] /\ skipped \in 0..MaxSkipped /\ MaxSkipped \in Nat
      /\ toApp \in Seq(Replies)
  BY IcdAssumption DEF Base, TypeOK
<1>4. /\ dirty' \in [Buffers -> BOOLEAN]
      /\ \A b \in Buffers :
         dirty'[b] <=> (call[t].at # b /\ (dirty[b] \/ (call[t].at = "answer" /\ call[t].op = "create"
                                                      /\ b \in call[t].bufs)))
  BY <1>1, <1>3, Zenon DEF DirtyAfter
<1> HIDE DEF got
<1>5. /\ skipped' \in {skipped, skipped + 1} /\ skipped' \in 0..MaxSkipped
      /\ Len(toApp') + 1 <= Len(toApp) + (skipped' - skipped)
  BY <1>1, <1>2, <1>3
<1>6. skipped' = 0 /\ Len(toApp) <= 1 => k = 1 /\ ~rest /\ Len(toApp) = 1
  BY <1>1, <1>2, <1>3
<1>7. CASE call[t].at = "answer"
  <2>1. SetCall(t, [call[t] EXCEPT !.at = "done", !.got = got, !.result = Result(t, got)])
    BY <1>7 DEF Receive, got
  <2>2. PICK g, r : g = got /\ r = Result(t, got)
    OBVIOUS
  <2>3. g \in Seq(Replies) /\ r \in ResultsOf(call[t].op)
    BY <1>2, <2>2, ResultIs
  <2>4. call[t] \in Calls
    BY DEF Base, TypeOK
  <2>5. PICK c : c = Returned(call[t], g, r)
    OBVIOUS
  <2>6. c \in Calls /\ c.op = call[t].op /\ c.at = "done" /\ c.bufs = call[t].bufs
        /\ c.req = call[t].req /\ c.got = g /\ c.result = r
    BY <2>3, <2>4, <2>5, CallReturns
  <2>7. SetCall(t, c)
    BY <2>1, <2>2, <2>5 DEF Returned
  <2>8. Moves(t, "done") /\ call'[t].req = call[t].req /\ call'[t].got = g /\ call'[t].result = r
    BY <2>6, <2>7, SetCallDoes DEF Moves, Base, TypeOK
  <2>9. QED  BY <1>1, <1>2, <1>4, <1>5, <1>6, <1>7, <2>2, <2>8 DEF ReceiveDoes, got
<1>8. CASE call[t].at # "answer"
  <2>1. Go(t, "send")
    BY <1>8 DEF Receive
  <2>2. Moves(t, "send") /\ call'[t].req = call[t].req
    BY <2>1, GoDoes DEF Places
  <2>3. QED  BY <1>1, <1>2, <1>4, <1>5, <1>6, <1>8, <2>2 DEF ReceiveDoes
<1>9. QED  BY <1>7, <1>8

LEMMA PostDoes ==
    ASSUME Base, NEW m, Posts(m)
    PROVE  /\ toCore' \in Seq(Requests)
           /\ Len(toCore') = IF socket' = "open" THEN Len(toCore) + 1 ELSE Len(toCore)
           /\ \A i \in 1..Len(toCore) : i \in 1..Len(toCore') /\ toCore'[i] = toCore[i]
           /\ \A i \in 1..Len(toCore') :
                i \in 1..Len(toCore) \/ (socket' = "open" /\ i = Len(toCore) + 1 /\ toCore'[i] = m)
<1>1. m \in Requests /\ toCore \in Seq(Requests)
  BY DEF Posts, Base, TypeOK
<1>2. CASE socket' = "open"
  <2>1. toCore' = Append(toCore, m)
    BY <1>2 DEF Posts
  <2>2. QED  BY <1>1, <1>2, <2>1
<1>3. CASE socket' # "open"
  <2>1. toCore' = toCore
    BY <1>3 DEF Posts
  <2>2. QED  BY <1>1, <1>3, <2>1
<1>4. QED  BY <1>2, <1>3

LEMMA MoveKeepsCalls ==
    ASSUME Base, NEW t \in Threads, NEW at \in {"hello", "send", "answer", "done"} \cup Buffers,
           Moves(t, at), host' = host, at \notin {"answer", "done"} => call'[t].req = 0,
           at = "hello" => call[t].op \in {"create", "launch", "build"},
           at \in Buffers => call[t].op = "launch", at # "done" => call[t].op # "none"
    PROVE  CallsFormed'
<1>1. WellFormed(call'[t]) /\ \A b \in call'[t].bufs : host[b] # None
  BY NoneAssumption DEF Moves, Base, CallsFormed, WellFormed, Places
<1>2. QED  BY <1>1 DEF Moves, Base, CallsFormed

LEMMA SendBase ==
    ASSUME Base, NEW t \in Threads, NEW at \in {"hello", "answer", "done"} \cup Buffers, NEW m,
           Posts(m), Moves(t, at), CallsFormed', \A b \in m.bufs : host[b] # None,
           socket' = "open" \/ socket' = socket, skipped' \in 0..MaxSkipped,
           UNCHANGED <<alive, host, dirty, toApp, vram, ran, truth, unsynced, stamp>>
    PROVE  Base'
<1>1. toCore' \in Seq(Requests) /\ sent' \in 0..MaxRequests
  BY PostDoes, IcdAssumption DEF Posts, Ids
<1>2. TypeOK'
  BY <1>1 DEF Base, TypeOK, Moves
<1>3. Fresh'
  <2> SUFFICES ASSUME NEW b \in Buffers
               PROVE  /\ host[b] = None <=> truth[b] = None
                      /\ host[b] = None => vram[b] = None /\ ~dirty[b] /\ b \notin unsynced
                      /\ host[b] = None => \A i \in 1..Len(toCore') : b \notin toCore'[i].bufs
    BY DEF Fresh
  <2>1. ASSUME host[b] = None, NEW i \in 1..Len(toCore')
        PROVE  b \notin toCore'[i].bufs
    BY <2>1, PostDoes DEF Base, Fresh
  <2>2. QED  BY <2>1 DEF Base, Fresh
<1>4. Closed'
  BY DEF Base, Closed, Posts
<1>5. QED  BY <1>2, <1>3, <1>4 DEF Base

LEMMA StayBase ==
    ASSUME Base, NEW t \in Threads, NEW at \in {"send", "done"}, Moves(t, at), CallsFormed',
           UNCHANGED <<alive, socket, host, sent, toCore, vram, ran, truth, unsynced, stamp>>,
           dirty' \in [Buffers -> BOOLEAN], \A b \in Buffers : host[b] = None => ~dirty'[b],
           toApp' \in Seq(Replies) /\ \A i \in 1..Len(toApp') : toApp'[i].whole,
           Len(toApp') <= Len(toApp), skipped' \in 0..MaxSkipped
    PROVE  Base'
<1>1. TypeOK'
  BY DEF Base, TypeOK, Moves
<1>2. Fresh'
  BY DEF Base, Fresh
<1>3. Closed'
  <2>1. toApp = <<>> => toApp' = <<>>
    <3>1. toApp = <<>> => Len(toApp') = 0
      OBVIOUS
    <3>2. Len(toApp') = 0 => toApp' = <<>>
      OBVIOUS
    <3>3. QED  BY <3>1, <3>2
  <2>2. QED  BY <2>1 DEF Base, Closed
<1>4. QED  BY <1>1, <1>2, <1>3 DEF Base

LEMMA LibraryBase ==
    ASSUME Base, NEW t \in Threads,
           \/ ConnectDoes(t) \/ CommandDoes(t) \/ ForgetDoes(t) \/ FailDoes(t) \/ ReceiveDoes(t)
           \/ \E b \in Buffers : FlushDoes(t, b)
    PROVE  Base'
<1>1. /\ call[t] \in Calls /\ call[t].bufs \subseteq Buffers /\ WellFormed(call[t])
      /\ \A b \in call[t].bufs : host[b] # None
      /\ skipped \in 0..MaxSkipped /\ dirty \in [Buffers -> BOOLEAN]
      /\ toApp \in Seq(Replies) /\ \A i \in 1..Len(toApp) : toApp[i].whole
      /\ \A b \in Buffers : host[b] = None => ~dirty[b]
  BY CallFields DEF Base, TypeOK, CallsFormed, Fresh
<1>2. \A b \in Buffers : b \notin Places
  BY NoneAssumption
<1>3. CASE ConnectDoes(t)
  <2>1. call[t].req = 0 /\ call[t].op \in {"create", "launch", "build"}
    BY <1>1, <1>3 DEF ConnectDoes, WellFormed
  <2>2. ASSUME NEW at \in {"hello", "send", "done"}, Moves(t, at)
        PROVE  CallsFormed'
    BY <1>2, <1>3, <2>1, <2>2, MoveKeepsCalls DEF ConnectDoes, Places
  <2>3. ASSUME NEW m, Posts(m), m.bufs = {}, socket' = "open", Moves(t, "hello")
        PROVE  Base'
    BY <1>1, <1>3, <2>2, <2>3, SendBase DEF ConnectDoes
  <2>4. ASSUME Moves(t, "send") \/ Moves(t, "done"), UNCHANGED <<socket, sent, toCore>>
        PROVE  Base'
    BY <1>1, <1>3, <2>2, <2>4, StayBase DEF ConnectDoes
  <2>5. QED  BY <1>3, <2>3, <2>4 DEF ConnectDoes
<1>4. CASE CommandDoes(t)
  <2>1. CallsFormed'
    BY <1>1, <1>2, <1>4, MoveKeepsCalls DEF CommandDoes, WellFormed, Places
  <2>2. PICK m : Posts(m) /\ m.bufs = call[t].bufs
    BY <1>4 DEF CommandDoes
  <2>3. QED  BY <1>1, <1>4, <2>1, <2>2, SendBase DEF CommandDoes
<1>5. CASE ForgetDoes(t)
  <2>1. CallsFormed'
    BY <1>2, <1>5, MoveKeepsCalls DEF ForgetDoes, Places
  <2>2. PICK m : Posts(m) /\ m.bufs = {}
    BY <1>5 DEF ForgetDoes
  <2>3. QED  BY <1>5, <2>1, <2>2, SendBase DEF ForgetDoes
<1>6. CASE FailDoes(t)
  <2>1. CallsFormed'
    BY <1>2, <1>6, MoveKeepsCalls DEF FailDoes, Places
  <2>2. QED  BY <1>1, <1>6, <2>1, StayBase DEF FailDoes
<1>7. CASE ReceiveDoes(t)
  <2>1. PICK at \in {"send", "done"} : Moves(t, at) /\ (at = "send" => call[t].at # "answer")
    BY <1>7 DEF ReceiveDoes
  <2>2. call[t].at \in {"hello", "answer"} \cup Buffers /\ call'[t].req = call[t].req
    BY <1>7 DEF ReceiveDoes, Waiting
  <2>3. CallsFormed'
    <3>1. at # "done" => call'[t].req = 0 /\ call[t].op # "none"
      BY <1>1, <1>2, <2>1, <2>2 DEF WellFormed, Places
    <3>2. host' = host
      BY <1>7 DEF ReceiveDoes
    <3>3. QED  BY <2>1, <3>1, <3>2, <1>2, MoveKeepsCalls DEF Places
  <2>4. \A b \in Buffers : host[b] = None => ~dirty'[b]
    BY <1>1, <1>7 DEF ReceiveDoes
  <2>5. Len(toApp') <= Len(toApp)
    BY <1>1, <1>7 DEF ReceiveDoes
  <2>6. QED  BY <1>7, <2>1, <2>3, <2>4, <2>5, StayBase DEF ReceiveDoes
<1>8. ASSUME NEW b \in Buffers, FlushDoes(t, b)
      PROVE  Base'
  <2>1. CallsFormed'
    BY <1>1, <1>2, <1>8, MoveKeepsCalls DEF FlushDoes, WellFormed, Places
  <2>2. PICK m : Posts(m) /\ m.bufs = {b}
    BY <1>8 DEF FlushDoes
  <2>3. QED  BY <1>1, <1>8, <2>1, <2>2, SendBase DEF FlushDoes
<1>9. QED  BY <1>3, <1>4, <1>5, <1>6, <1>7, <1>8
----------------------------------------------------------------------------
(* What a step of the core does.                                           *)
Handles(m, u) ==
    /\ alive /\ toCore # <<>> /\ m = toCore[1] /\ m \in Requests /\ toCore' = Tail(toCore)
    /\ UNCHANGED <<alive, socket, host, dirty, call, sent, skipped>>
    /\ u \in Replies /\ u.of = m.id /\ u.bufs = m.bufs /\ u.whole /\ toApp' = Append(toApp, u)
    /\ vram' \in [Buffers -> Contents] /\ truth' \in [Buffers -> Contents]
    /\ unsynced' \subseteq unsynced /\ stamp' \in Stamps /\ ran' \in Runs \cup {None}

LoadDoes(m) ==
    /\ m.op = "create" /\ UNCHANGED <<truth, unsynced, ran>>
    /\ \A b \in Buffers : vram'[b] = vram[b] \/ (b \in m.bufs /\ vram'[b] # None)

StoreDoes(m) ==
    /\ m.op = "write" /\ UNCHANGED <<truth, unsynced, ran>>
    /\ \A b \in Buffers :
         IF b \in m.bufs /\ vram[b] # None /\ m.data # None
         THEN vram'[b] # None /\ vram'[b]["head"] = m.data ELSE vram'[b] = vram[b]

FetchDoes(m, u) ==
    /\ m.op = "read" /\ UNCHANGED <<vram, truth, unsynced, ran>>
    /\ IF \A b \in m.bufs : vram[b] # None
       THEN \E b \in m.bufs : u.kind = "data" /\ u.data = vram[b] ELSE u.kind = "error"

RunDoes(m, u) ==
    /\ m.op = "launch"
    /\ \E outs \in SUBSET m.bufs : \A b \in Buffers :
         IF b \in outs
         THEN /\ vram[b] # None /\ vram'[b] # None /\ truth'[b] # None /\ b \notin unsynced'
              /\ vram'[b]["head"] = truth'[b]["head"]
         ELSE vram'[b] = vram[b] /\ truth'[b] = truth[b] /\ (b \in unsynced' <=> b \in unsynced)
    /\ \/ u.kind = "error" /\ ran' = ran
       \/ ran' = [id    |-> m.id,
                  saw   |-> [b \in m.bufs |-> vram[b]],
                  wants |-> [b \in m.bufs |-> truth[b]],
                  stale |-> m.bufs \cap unsynced]

PlainDoes(m) == m.op \in {"hello", "finish", "build"} /\ UNCHANGED <<vram, truth, unsynced, ran>>

CoreDoes(m, u) ==
    /\ Handles(m, u)
    /\ LoadDoes(m) \/ StoreDoes(m) \/ FetchDoes(m, u) \/ RunDoes(m, u) \/ PlainDoes(m)

LEMMA AnswerDoes ==
    ASSUME NEW m \in Requests, NEW kind \in {"ok", "error", "data"}, NEW data \in Contents
    PROVE  LET u == Unit(m, kind, data) IN
           u \in Replies /\ u.of = m.id /\ u.bufs = m.bufs /\ u.whole /\ u.kind = kind /\ u.data = data
BY DEF Requests, Replies, Unit

LEMMA CoreIs ==
    ASSUME Base, CoreHandle
    PROVE  \E m, u : CoreDoes(m, u)
<1> DEFINE m == Head(toCore)
<1>1. /\ alive /\ toCore # <<>> /\ m = toCore[1] /\ m \in Requests /\ toCore' = Tail(toCore)
      /\ UNCHANGED <<alive, socket, host, dirty, call, sent, skipped>>
  BY DEF CoreHandle, Base, TypeOK, lib
<1>2. /\ vram \in [Buffers -> Contents] /\ truth \in [Buffers -> Contents] /\ unsynced \subseteq Buffers
      /\ stamp \in Stamps /\ ran \in Runs \cup {None} /\ toApp \in Seq(Replies)
  BY DEF Base, TypeOK
<1>3. m.bufs \in SUBSET Buffers /\ m.data \in Stamps \cup {None} /\ m.id \in Ids
  BY <1>1 DEF Requests
<1>4. None \in Contents
  BY DEF Contents
<1>5. \/ m.op = "create" /\ HandleCreate(m)
      \/ m.op = "write" /\ HandleWrite(m)
      \/ m.op = "read" /\ HandleRead(m)
      \/ m.op = "launch" /\ HandleNDRange(m)
      \/ m.op \in {"hello", "finish", "build"} /\ HandlePlain(m)
  BY DEF CoreHandle
<1> HIDE DEF m
<1> DEFINE H(u) == /\ u \in Replies /\ u.of = m.id /\ u.bufs = m.bufs /\ u.whole
                   /\ toApp' = Append(toApp, u)
<1>6. \A kind \in {"ok", "error", "data"}, data \in Contents :
        Answer(m, kind, data) => \E u : H(u) /\ u.kind = kind /\ u.data = data
  BY <1>1, AnswerDoes DEF Answer
<1> HIDE DEF H
<1>7. CASE m.op = "create" /\ HandleCreate(m)
  <2>1. UNCHANGED <<truth, unsynced, stamp, ran>>
    BY <1>7 DEF HandleCreate
  <2>2. \E u : H(u)
    BY <1>4, <1>6, <1>7 DEF HandleCreate
  <2>3. \A b \in Buffers : Filled(b, 0) \in Contents /\ Filled(b, 0) # None
    <3>1. 0 \in Stamps
      BY IcdAssumption DEF Stamps
    <3>2. QED  BY <3>1, FilledDoes, FullContents
  <2>4. /\ vram' \in [Buffers -> Contents]
        /\ \A b \in Buffers : vram'[b] = vram[b] \/ (b \in m.bufs /\ vram'[b] # None)
    <3>1. CASE vram' = vram
      BY <1>2, <3>1
    <3>2. CASE vram' = [b \in Buffers |-> IF b \in m.bufs THEN Filled(b, 0) ELSE vram[b]]
      BY <1>2, <2>3, <3>2
    <3>3. QED  BY <1>7, <3>1, <3>2 DEF HandleCreate
  <2>5. QED  BY <1>1, <1>2, <1>7, <2>1, <2>2, <2>4 DEF CoreDoes, Handles, LoadDoes, H
<1>8. CASE m.op = "write" /\ HandleWrite(m)
  <2>1. UNCHANGED <<truth, unsynced, stamp, ran>>
    BY <1>8 DEF HandleWrite
  <2>2. \E u : H(u)
    BY <1>4, <1>6, <1>8 DEF HandleWrite
  <2>3. ASSUME NEW b \in Buffers, b \in m.bufs /\ vram[b] # None /\ m.data # None
        PROVE  LET v == [vram[b] EXCEPT !["head"] = m.data] IN
               v \in [Cells -> Stamps] /\ v \in Contents /\ v # None /\ v["head"] = m.data
    <3>1. vram[b] \in [Cells -> Stamps]
      BY <1>2, <2>3, SomeContents
    <3>2. PICK v : v = [vram[b] EXCEPT !["head"] = m.data]
      OBVIOUS
    <3>3. v \in [Cells -> Stamps] /\ v["head"] = m.data
      BY <1>3, <2>3, <3>1, <3>2 DEF Cells
    <3>4. QED  BY <3>2, <3>3, FullContents
  <2>4. vram' = [b \in Buffers |->
                  IF b \in m.bufs /\ vram[b] # None /\ m.data # None
                  THEN [vram[b] EXCEPT !["head"] = m.data] ELSE vram[b]]
    BY <1>8 DEF HandleWrite
  <2>5. vram' \in [Buffers -> Contents]
    BY <1>2, <2>3, <2>4
  <2>6. StoreDoes(m)
    BY <1>8, <2>1, <2>3, <2>4 DEF StoreDoes
  <2>7. QED  BY <1>1, <1>2, <2>1, <2>2, <2>5, <2>6 DEF CoreDoes, Handles, H
<1>9. CASE m.op = "read" /\ HandleRead(m)
  <2>1. UNCHANGED <<vram, truth, unsynced, stamp, ran>>
    BY <1>9 DEF HandleRead
  <2>2. \E u : H(u) /\ IF \A b \in m.bufs : vram[b] # None
                       THEN \E b \in m.bufs : u.kind = "data" /\ u.data = vram[b]
                       ELSE u.kind = "error"
    <3>1. CASE \A b \in m.bufs : vram[b] # None
      <4>1. PICK b \in m.bufs : Answer(m, "data", vram[b])
        BY <1>9, <3>1 DEF HandleRead, Known
      <4>2. vram[b] \in Contents
        BY <1>2, <1>3
      <4>3. QED  BY <1>6, <3>1, <4>1, <4>2
    <3>2. CASE ~\A b \in m.bufs : vram[b] # None
      <4>1. Answer(m, "error", None)
        BY <1>9, <3>2 DEF HandleRead, Known
      <4>2. QED  BY <1>4, <1>6, <3>2, <4>1
    <3>3. QED  BY <3>1, <3>2
  <2>3. QED  BY <1>1, <1>2, <1>9, <2>1, <2>2 DEF CoreDoes, Handles, FetchDoes, H
<1>10. CASE m.op = "launch" /\ HandleNDRange(m)
  <2> DEFINE Running == [id    |-> m.id,
                         saw   |-> [b \in m.bufs |-> vram[b]],
                         wants |-> [b \in m.bufs |-> truth[b]],
                         stale |-> m.bufs \cap unsynced]
             New(outs, of) == [b \in Buffers |-> IF b \in outs THEN Filled(b, stamp') ELSE of[b]]
  <2>1. PICK outs \in SUBSET {b \in m.bufs : vram[b] # None} :
            /\ stamp' = (IF outs = {} THEN stamp ELSE stamp + 1) /\ stamp' <= MaxStamp
            /\ vram' = New(outs, vram) /\ truth' = New(outs, truth) /\ unsynced' = unsynced \ outs
            /\ \/ Answer(m, "error", None) /\ ran' = ran
               \/ Answer(m, "ok", None) /\ ran' = Running
    BY <1>10 DEF HandleNDRange
  <2>2. stamp' \in Stamps
    BY <1>2, <2>1, IcdAssumption DEF Stamps
  <2>3. Running \in Runs
    <3>1. PICK saw, wants : saw = [b \in m.bufs |-> vram[b]] /\ wants = [b \in m.bufs |-> truth[b]]
      OBVIOUS
    <3>2. saw \in [m.bufs -> Contents] /\ wants \in [m.bufs -> Contents]
      BY <1>2, <1>3, <3>1
    <3>3. saw \in Copies /\ wants \in Copies
      BY <1>3, <3>2 DEF Copies
    <3>4. m.bufs \cap unsynced \in SUBSET Buffers
      BY <1>2
    <3>5. QED  BY <1>3, <3>1, <3>3, <3>4 DEF Runs
  <2>4. \A b \in Buffers :
         IF b \in outs
         THEN /\ vram[b] # None /\ vram'[b] # None /\ truth'[b] # None /\ b \notin unsynced'
              /\ vram'[b]["head"] = truth'[b]["head"]
         ELSE vram'[b] = vram[b] /\ truth'[b] = truth[b] /\ (b \in unsynced' <=> b \in unsynced)
    BY <2>1, <2>2, FilledDoes, FullContents
  <2>5. vram' \in [Buffers -> Contents] /\ truth' \in [Buffers -> Contents]
    BY <1>2, <2>1, <2>2, FilledDoes, FullContents
  <2>6. outs \in SUBSET m.bufs /\ unsynced' \subseteq unsynced
    BY <2>1
  <2> HIDE DEF Running, New
  <2>7. PICK u : H(u) /\ ((u.kind = "error" /\ ran' = ran) \/ ran' = Running)
    BY <1>4, <1>6, <2>1
  <2>8. ran' \in Runs \cup {None}
    BY <1>2, <2>3, <2>7
  <2>9. RunDoes(m, u)
    BY <1>10, <2>4, <2>6, <2>7 DEF RunDoes, Running
  <2>10. Handles(m, u)
    BY <1>1, <2>2, <2>5, <2>6, <2>7, <2>8 DEF Handles, H
  <2>11. QED  BY <2>9, <2>10 DEF CoreDoes
<1>11. CASE m.op \in {"hello", "finish", "build"} /\ HandlePlain(m)
  <2>1. UNCHANGED <<vram, truth, unsynced, stamp, ran>>
    BY <1>11 DEF HandlePlain
  <2>2. \E u : H(u)
    BY <1>4, <1>6, <1>11 DEF HandlePlain
  <2>3. QED  BY <1>1, <1>2, <1>11, <2>1, <2>2 DEF CoreDoes, Handles, PlainDoes, H
<1>12. QED  BY <1>5, <1>7, <1>8, <1>9, <1>10, <1>11

LEMMA HandleDoes ==
    ASSUME Base, NEW m, NEW u, CoreDoes(m, u)
    PROVE  /\ toCore' \in Seq(Requests) /\ Len(toCore') = Len(toCore) - 1
           /\ \A i \in 1..Len(toCore') : i + 1 \in 2..Len(toCore) /\ toCore'[i] = toCore[i + 1]
           /\ \A i \in 2..Len(toCore) : i - 1 \in 1..Len(toCore') /\ toCore'[i - 1] = toCore[i]
           /\ 1 \in 1..Len(toCore) /\ toCore[1] = m
           /\ toApp' \in Seq(Replies) /\ Len(toApp') = Len(toApp) + 1
           /\ \A i \in 1..Len(toApp) : toApp'[i] = toApp[i]
           /\ toApp'[Len(toApp) + 1] = u
<1>1. toCore \in Seq(Requests) /\ toApp \in Seq(Replies)
  BY DEF Base, TypeOK
<1>2. toCore # <<>> /\ m = toCore[1] /\ toCore' = Tail(toCore) /\ u \in Replies /\ toApp' = Append(toApp, u)
  BY DEF CoreDoes, Handles
<1>3. QED  BY <1>1, <1>2

LEMMA CoreBase ==
    ASSUME Base, NEW m, NEW u, CoreDoes(m, u)
    PROVE  Base'
<1>1. /\ UNCHANGED <<alive, socket, host, dirty, call, sent, skipped>>
      /\ m \in Requests /\ u \in Replies /\ u.whole
      /\ vram' \in [Buffers -> Contents] /\ truth' \in [Buffers -> Contents]
      /\ unsynced' \subseteq unsynced /\ stamp' \in Stamps /\ ran' \in Runs \cup {None}
  BY DEF CoreDoes, Handles
<1>2. /\ toApp' \in Seq(Replies) /\ \A i \in 1..Len(toApp') : toApp'[i].whole
      /\ toCore' \in Seq(Requests)
  <2>1. \A i \in 1..Len(toApp) : toApp[i].whole
    BY DEF Base, TypeOK
  <2>2. \A i \in 1..(Len(toApp) + 1) : i \in 1..Len(toApp) \/ i = Len(toApp) + 1
    BY DEF Base, TypeOK
  <2>3. QED  BY <1>1, <2>1, <2>2, HandleDoes
<1>3. TypeOK'
  BY <1>1, <1>2 DEF Base, TypeOK
<1>4. CallsFormed'
  BY <1>1 DEF Base, CallsFormed
<1>5. \A b \in Buffers : host[b] = None => b \notin m.bufs
  BY HandleDoes DEF Base, Fresh
<1>6. \A b \in Buffers : (truth'[b] = truth[b] \/ (truth[b] # None /\ truth'[b] # None))
                         /\ (vram[b] = None /\ b \notin m.bufs => vram'[b] = None)
  BY <1>5 DEF CoreDoes, LoadDoes, StoreDoes, FetchDoes, RunDoes, PlainDoes, Base, Fresh
<1>7. Fresh'
  <2> SUFFICES ASSUME NEW b \in Buffers
               PROVE  /\ host[b] = None <=> truth'[b] = None
                      /\ host[b] = None => vram'[b] = None /\ ~dirty[b] /\ b \notin unsynced'
                      /\ host[b] = None => \A i \in 1..Len(toCore') : b \notin toCore'[i].bufs
    BY <1>1 DEF Fresh
  <2>1. ASSUME host[b] = None, NEW i \in 1..Len(toCore')
        PROVE  b \notin toCore'[i].bufs
    <3>1. i + 1 \in 1..Len(toCore) /\ toCore'[i] = toCore[i + 1]
      BY HandleDoes
    <3>2. QED  BY <2>1, <3>1 DEF Base, Fresh
  <2>2. QED  BY <1>1, <1>5, <1>6, <2>1 DEF Base, Fresh
<1>8. Closed'
  <2>1. socket = "open"
    BY DEF Base, Closed, CoreDoes, Handles
  <2>2. QED  BY <1>1, <2>1 DEF Closed
<1>9. QED  BY <1>3, <1>4, <1>7, <1>8 DEF Base

StopDoes ==
    /\ UNCHANGED <<host, dirty, call, sent, ran, truth, unsynced, stamp, skipped>>
    /\ socket' = (IF socket = "open" THEN "dead" ELSE socket)
    /\ toCore' = <<>> /\ toApp' = <<>> /\ vram' \in [Buffers -> Contents]
    /\ \A b \in Buffers : vram'[b] = None

LEMMA StopIs == ASSUME CoreStop PROVE StopDoes
BY DEF CoreStop, StopDoes, ghosts, Contents

LEMMA StopBase == ASSUME Base, CoreStop PROVE Base'
<1>1. StopDoes /\ alive' \in BOOLEAN
  BY StopIs DEF CoreStop
<1>2. TypeOK'
  BY <1>1 DEF Base, TypeOK, StopDoes
<1>3. CallsFormed'
  BY <1>1 DEF Base, CallsFormed, StopDoes
<1>4. Fresh'
  BY <1>1 DEF Base, Fresh, StopDoes
<1>5. Closed'
  BY <1>1 DEF Closed, StopDoes
<1>6. QED  BY <1>2, <1>3, <1>4, <1>5 DEF Base

LEMMA StartBase == ASSUME Base, CoreStart PROVE Base'
BY DEF CoreStart, lib, wire, ghosts, Base, TypeOK, CallsFormed, Fresh, Closed

LEMMA StutterBase == ASSUME Base, UNCHANGED vars PROVE Base'
BY DEF vars, lib, wire, ghosts, Base, TypeOK, CallsFormed, Fresh, Closed

LEMMA InitBase == ASSUME Init PROVE Base
<1>1. NoCall \in Calls
  BY DEF NoCall, Calls, CallsOf, Places, Contents
<1>2. TypeOK
  BY <1>1, IcdAssumption DEF Init, TypeOK, Contents, Stamps
<1>3. CallsFormed
  BY NoneAssumption DEF Init, CallsFormed, NoCall, WellFormed, Places
<1>4. QED  BY <1>2, <1>3 DEF Init, Base, Fresh, Closed

LEMMA LibraryIs ==
    ASSUME Base, NEW t \in Threads, Library(t)
    PROVE  \/ ConnectDoes(t) \/ CommandDoes(t) \/ ForgetDoes(t) \/ FailDoes(t) \/ ReceiveDoes(t)
           \/ \E b \in Buffers : FlushDoes(t, b)
BY ConnectIs, FlushIs, CommandIs, ForgetIs, FailIs, ReceiveIs DEF Library

LEMMA NextBase == ASSUME Base, [Next]_vars PROVE Base'
<1>1. ASSUME NEW t \in Threads, App(t) PROVE Base'
  BY <1>1, AppIs, AppBase
<1>2. ASSUME NEW t \in Threads, Library(t) PROVE Base'
  BY <1>2, LibraryIs, LibraryBase
<1>3. ASSUME CoreHandle PROVE Base'
  BY <1>3, CoreIs, CoreBase
<1>4. QED  BY <1>1, <1>2, <1>3, StartBase, StopBase, StutterBase DEF Next

LEMMA AlwaysBase == Spec => []Base
<1>1. Init => Base  BY InitBase
<1>2. Base /\ [Next]_vars => Base'  BY NextBase
<1>3. QED  BY <1>1, <1>2, PTL DEF Spec

(* The library, its socket and the core's copies keep their types.         *)
THEOREM IcdTypeCorrect == Spec => []TypeOK
<1>1. Base => TypeOK  BY DEF Base
<1>2. QED  BY <1>1, AlwaysBase, PTL
----------------------------------------------------------------------------
(* With one thread the core's copies follow the application: until the     *)
(* create was answered nothing else about the buffer is on the way, then   *)
(* it is dirty until the first launch sends its contents, and that message *)
(* stays behind the create and before every launch.                        *)
SingleThread == \A s, t \in Threads : s = t

IsCreate(m, b) == m.op = "create" /\ b \in m.bufs
IsFlush(m, b) == m.op = "write" /\ m.data # None /\ b \in m.bufs
IsLaunch(m, b) == m.op = "launch" /\ b \in m.bufs

NoCreate(b) == \A i \in 1..Len(toCore) : ~IsCreate(toCore[i], b)
NoFlush(b) == \A i \in 1..Len(toCore) : ~IsFlush(toCore[i], b)
NoLaunch(b) == \A i \in 1..Len(toCore) : ~IsLaunch(toCore[i], b)
AllFlush(b, data) == \A i \in 1..Len(toCore) : IsFlush(toCore[i], b) => toCore[i].data = data

Creating(b) == \E t \in Threads : call[t].op = "create" /\ b \in call[t].bufs /\ call[t].at # "done"
Unposted(b) ==
    \E t \in Threads :
        call[t].op = "create" /\ b \in call[t].bufs /\ call[t].at \in {"connect", "hello", "send"}
Flushing(b) == \E t \in Threads : call[t].at = b

Ordered(b) ==
    \A i, j \in 1..Len(toCore) :
        /\ IsLaunch(toCore[j], b) /\ (IsCreate(toCore[i], b) \/ IsFlush(toCore[i], b)) => i < j
        /\ IsFlush(toCore[j], b) /\ IsCreate(toCore[i], b) => i < j

Unloaded(b) ==
    /\ dirty[b] \/ Creating(b) => NoLaunch(b)
    /\ (dirty[b] /\ ~Flushing(b)) \/ Creating(b) => NoFlush(b)
    /\ Creating(b) => ~dirty[b]
    /\ Unposted(b) => vram[b] = None /\ NoCreate(b)
    /\ Flushing(b) => dirty[b]

(* What the next flush, or a read without the core, takes is the truth.    *)
Staged(b) ==
    host[b] # None /\ b \notin unsynced
        /\ (dirty[b] \/ Creating(b) \/ (socket # "dead" /\ vram[b] = None))
      => host[b]["head"] = truth[b]["head"]

(* What was sent is the truth, and what the core has once it arrived.      *)
Loaded(b) ==
    host[b] # None /\ b \notin unsynced /\ ~Creating(b) /\ (~dirty[b] \/ Flushing(b)) =>
        /\ AllFlush(b, truth[b]["head"])
        /\ NoFlush(b) => NoCreate(b) /\ (vram[b] = None \/ vram[b]["head"] = truth[b]["head"])

InStep(b) == Ordered(b) /\ Unloaded(b) /\ Staged(b) /\ Loaded(b)
Sync == Base /\ \A b \in Buffers : InStep(b)

LEMMA PostOrders ==
    ASSUME Base, NEW m, Posts(m), NEW b \in Buffers, NEW data
    PROVE  /\ NoCreate(b)' <=> NoCreate(b) /\ (socket' = "open" => ~IsCreate(m, b))
           /\ NoFlush(b)' <=> NoFlush(b) /\ (socket' = "open" => ~IsFlush(m, b))
           /\ NoLaunch(b)' <=> NoLaunch(b) /\ (socket' = "open" => ~IsLaunch(m, b))
           /\ AllFlush(b, data)' <=>
                AllFlush(b, data) /\ (socket' = "open" /\ IsFlush(m, b) => m.data = data)
           /\ Ordered(b) /\ (IsCreate(m, b) => NoFlush(b) /\ NoLaunch(b))
                /\ (IsFlush(m, b) => NoLaunch(b)) => Ordered(b)'
<1>1. PICK new : new = toCore'
  OBVIOUS
<1>2. /\ toCore \in Seq(Requests) /\ new \in Seq(Requests)
      /\ Len(new) = IF socket' = "open" THEN Len(toCore) + 1 ELSE Len(toCore)
      /\ \A i \in 1..Len(toCore) : i \in 1..Len(new) /\ new[i] = toCore[i]
      /\ \A i \in 1..Len(new) :
           i \in 1..Len(toCore) \/ (socket' = "open" /\ i = Len(toCore) + 1 /\ new[i] = m)
  BY <1>1, PostDoes DEF Base, TypeOK
<1>3. socket' = "open" => Len(toCore) + 1 \in 1..Len(new) /\ new[Len(toCore) + 1] = m
  BY <1>2
<1>4. NoCreate(b)' <=> \A i \in 1..Len(new) : ~IsCreate(new[i], b)
  BY <1>1 DEF NoCreate, IsCreate
<1>5. NoFlush(b)' <=> \A i \in 1..Len(new) : ~IsFlush(new[i], b)
  BY <1>1 DEF NoFlush, IsFlush
<1>6. NoLaunch(b)' <=> \A i \in 1..Len(new) : ~IsLaunch(new[i], b)
  BY <1>1 DEF NoLaunch, IsLaunch
<1>7. AllFlush(b, data)' <=> \A i \in 1..Len(new) : IsFlush(new[i], b) => new[i].data = data
  BY <1>1 DEF AllFlush, IsFlush
<1>8. ASSUME Ordered(b), IsCreate(m, b) => NoFlush(b) /\ NoLaunch(b), IsFlush(m, b) => NoLaunch(b)
      PROVE  Ordered(b)'
  <2> SUFFICES ASSUME NEW i \in 1..Len(new), NEW j \in 1..Len(new)
               PROVE  /\ IsLaunch(new[j], b) /\ (IsCreate(new[i], b) \/ IsFlush(new[i], b)) => i < j
                      /\ IsFlush(new[j], b) /\ IsCreate(new[i], b) => i < j
    BY <1>1 DEF Ordered, IsLaunch, IsCreate, IsFlush
  <2>1. CASE i \in 1..Len(toCore) /\ j \in 1..Len(toCore)
    BY <1>2, <1>8, <2>1 DEF Ordered
  <2>2. CASE j = Len(toCore) + 1 /\ i \in 1..Len(toCore)
    BY <1>2, <2>2
  <2>3. CASE i = Len(toCore) + 1 /\ j \in 1..Len(toCore) /\ new[i] = m
    BY <1>2, <1>8, <2>3 DEF NoFlush, NoLaunch
  <2>4. CASE i = Len(toCore) + 1 /\ j = Len(toCore) + 1
    BY <2>4 DEF IsLaunch, IsCreate, IsFlush
  <2>5. QED  BY <1>2, <2>1, <2>2, <2>3, <2>4
<1>9. QED
  BY <1>2, <1>3, <1>4, <1>5, <1>6, <1>7, <1>8 DEF NoCreate, NoFlush, NoLaunch, AllFlush

LEMMA HandleOrders ==
    ASSUME Base, NEW m, NEW u, CoreDoes(m, u), NEW b \in Buffers, NEW data
    PROVE  /\ NoCreate(b) => NoCreate(b)' /\ ~IsCreate(m, b)
           /\ NoFlush(b) => NoFlush(b)' /\ ~IsFlush(m, b)
           /\ NoLaunch(b) => NoLaunch(b)' /\ ~IsLaunch(m, b)
           /\ NoFlush(b)' /\ ~IsFlush(m, b) => NoFlush(b)
           /\ AllFlush(b, data) => AllFlush(b, data)' /\ (IsFlush(m, b) => m.data = data)
           /\ NoFlush(b) => AllFlush(b, data)
           /\ Ordered(b) => /\ Ordered(b)'
                            /\ IsFlush(m, b) => NoCreate(b)
                            /\ IsLaunch(m, b) => NoCreate(b) /\ NoFlush(b)
<1>1. PICK new : new = toCore'
  OBVIOUS
<1>2. /\ toCore \in Seq(Requests) /\ new \in Seq(Requests) /\ Len(new) = Len(toCore) - 1
      /\ \A i \in 1..Len(new) : i + 1 \in 1..Len(toCore) /\ new[i] = toCore[i + 1]
      /\ \A i \in 2..Len(toCore) : i - 1 \in 1..Len(new) /\ new[i - 1] = toCore[i]
      /\ 1 \in 1..Len(toCore) /\ toCore[1] = m
  <2>1. toCore \in Seq(Requests)
    BY DEF Base, TypeOK
  <2>2. /\ new \in Seq(Requests) /\ Len(new) = Len(toCore) - 1
        /\ \A i \in 1..Len(new) : i + 1 \in 2..Len(toCore) /\ new[i] = toCore[i + 1]
        /\ \A i \in 2..Len(toCore) : i - 1 \in 1..Len(new) /\ new[i - 1] = toCore[i]
        /\ 1 \in 1..Len(toCore) /\ toCore[1] = m
    BY <1>1, HandleDoes
  <2>3. \A i \in 2..Len(toCore) : i \in 1..Len(toCore)
    OBVIOUS
  <2>4. QED  BY <2>1, <2>2, <2>3
<1>3. \A i \in 1..Len(toCore) : i = 1 \/ i \in 2..Len(toCore)
  BY <1>2
<1>4. NoCreate(b)' <=> \A i \in 1..Len(new) : ~IsCreate(new[i], b)
  BY <1>1 DEF NoCreate, IsCreate
<1>5. NoFlush(b)' <=> \A i \in 1..Len(new) : ~IsFlush(new[i], b)
  BY <1>1 DEF NoFlush, IsFlush
<1>6. NoLaunch(b)' <=> \A i \in 1..Len(new) : ~IsLaunch(new[i], b)
  BY <1>1 DEF NoLaunch, IsLaunch
<1>7. AllFlush(b, data)' <=> \A i \in 1..Len(new) : IsFlush(new[i], b) => new[i].data = data
  BY <1>1 DEF AllFlush, IsFlush
<1>8. ASSUME Ordered(b) PROVE Ordered(b)'
  <2> SUFFICES ASSUME NEW i \in 1..Len(new), NEW j \in 1..Len(new)
               PROVE  /\ IsLaunch(new[j], b) /\ (IsCreate(new[i], b) \/ IsFlush(new[i], b)) => i < j
                      /\ IsFlush(new[j], b) /\ IsCreate(new[i], b) => i < j
    BY <1>1 DEF Ordered, IsLaunch, IsCreate, IsFlush
  <2>1. /\ i + 1 \in 1..Len(toCore) /\ new[i] = toCore[i + 1]
        /\ j + 1 \in 1..Len(toCore) /\ new[j] = toCore[j + 1]
    BY <1>2
  <2>2. /\ IsLaunch(new[j], b) /\ (IsCreate(new[i], b) \/ IsFlush(new[i], b)) => i + 1 < j + 1
        /\ IsFlush(new[j], b) /\ IsCreate(new[i], b) => i + 1 < j + 1
    BY <1>8, <2>1 DEF Ordered
  <2>3. QED  BY <1>2, <2>2
<1>9. ASSUME Ordered(b)
      PROVE  /\ IsFlush(m, b) => NoCreate(b)
             /\ IsLaunch(m, b) => NoCreate(b) /\ NoFlush(b)
  <2> SUFFICES ASSUME NEW i \in 1..Len(toCore)
               PROVE  /\ IsFlush(m, b) => ~IsCreate(toCore[i], b)
                      /\ IsLaunch(m, b) => ~IsCreate(toCore[i], b) /\ ~IsFlush(toCore[i], b)
    BY DEF NoCreate, NoFlush
  <2>1. ~(i < 1)
    BY <1>2
  <2>2. QED  BY <1>2, <1>9, <2>1 DEF Ordered
<1>10. NoCreate(b) => NoCreate(b)' /\ ~IsCreate(m, b)
  BY <1>2, <1>4 DEF NoCreate
<1>11. NoFlush(b) => NoFlush(b)' /\ ~IsFlush(m, b) /\ AllFlush(b, data)
  BY <1>2, <1>5 DEF NoFlush, AllFlush
<1>12. NoLaunch(b) => NoLaunch(b)' /\ ~IsLaunch(m, b)
  BY <1>2, <1>6 DEF NoLaunch
<1>13. NoFlush(b)' /\ ~IsFlush(m, b) => NoFlush(b)
  BY <1>2, <1>3, <1>5 DEF NoFlush
<1>14. AllFlush(b, data) => AllFlush(b, data)' /\ (IsFlush(m, b) => m.data = data)
  BY <1>2, <1>7 DEF AllFlush
<1>15. QED  BY <1>8, <1>9, <1>10, <1>11, <1>12, <1>13, <1>14

LEMMA EmptyOrders ==
    ASSUME toCore = <<>>, NEW b \in Buffers, NEW data
    PROVE  NoCreate(b) /\ NoFlush(b) /\ NoLaunch(b) /\ AllFlush(b, data) /\ Ordered(b)
BY DEF NoCreate, NoFlush, NoLaunch, AllFlush, Ordered

LEMMA UnknownOrders ==
    ASSUME Base, NEW b \in Buffers, host[b] = None
    PROVE  NoCreate(b) /\ NoFlush(b) /\ NoLaunch(b)
BY DEF Base, Fresh, NoCreate, NoFlush, NoLaunch, IsCreate, IsFlush, IsLaunch

LEMMA OneThread ==
    ASSUME SingleThread, NEW t \in Threads, NEW b \in Buffers
    PROVE  /\ Creating(b) <=> call[t].op = "create" /\ b \in call[t].bufs /\ call[t].at # "done"
           /\ Unposted(b) <=> /\ call[t].op = "create" /\ b \in call[t].bufs
                              /\ call[t].at \in {"connect", "hello", "send"}
           /\ Flushing(b) <=> call[t].at = b
           /\ Creating(b)' <=> call'[t].op = "create" /\ b \in call'[t].bufs /\ call'[t].at # "done"
           /\ Unposted(b)' <=> /\ call'[t].op = "create" /\ b \in call'[t].bufs
                               /\ call'[t].at \in {"connect", "hello", "send"}
           /\ Flushing(b)' <=> call'[t].at = b
BY DEF SingleThread, Creating, Unposted, Flushing

LEMMA SameOrders ==
    ASSUME NEW b \in Buffers, NEW data, toCore' = toCore
    PROVE  /\ NoCreate(b)' <=> NoCreate(b)
           /\ NoFlush(b)' <=> NoFlush(b)
           /\ NoLaunch(b)' <=> NoLaunch(b)
           /\ AllFlush(b, data)' <=> AllFlush(b, data)
           /\ Ordered(b)' <=> Ordered(b)
BY DEF NoCreate, NoFlush, NoLaunch, AllFlush, Ordered, IsCreate, IsFlush, IsLaunch

(* The last conjunct of Loaded after a step, the truth being d.            *)
LEMMA LoadedNext ==
    ASSUME NEW b \in Buffers, NEW d, d = truth'[b]["head"],
           host'[b] # None /\ b \notin unsynced' /\ ~Creating(b)' /\ (~dirty'[b] \/ Flushing(b)') =>
             /\ AllFlush(b, d)'
             /\ NoFlush(b)' => NoCreate(b)' /\ (vram'[b] = None \/ vram'[b]["head"] = d)
    PROVE  Loaded(b)'
<1>1. AllFlush(b, d)' => AllFlush(b, truth[b]["head"])'
  BY DEF AllFlush
<1>2. QED  BY <1>1 DEF Loaded

LEMMA AppSync ==
    ASSUME SingleThread, Sync, NEW t \in Threads, AppDoes(t), NEW b \in Buffers
    PROVE  InStep(b)'
<1> USE OneThread
<1>1. /\ toCore' = toCore /\ dirty' = dirty /\ vram' = vram /\ socket' = socket
      /\ Keeps(b) \/ Writes(b)
      /\ call[t].at = "done" /\ (call'[t] = call[t] \/ Begins(t))
      /\ host[b] = None /\ host'[b] # None => call'[t].op = "create" /\ b \in call'[t].bufs
  BY DEF AppDoes
<1>2. Base /\ InStep(b) /\ (host[b] # None => host'[b] # None)
  BY <1>1 DEF Sync, Keeps, Writes
<1>3. ~Creating(b) /\ ~Flushing(b) /\ ~Flushing(b)' /\ ~Unposted(b)
  BY <1>1, NoneAssumption DEF Places, Begins
<1>4. Creating(b)' => host[b] = None
  BY <1>1 DEF Begins
<1>5. Unposted(b)' => Creating(b)'
  OBVIOUS
<1>6. host[b] = None /\ host'[b] # None => Creating(b)'
  <2>1. host[b] = None /\ host'[b] # None => call'[t] # call[t]
    BY <1>1, <1>2 DEF Base, CallsFormed
  <2>2. QED  BY <1>1, <2>1 DEF Begins
<1>7. host[b] = None => NoCreate(b) /\ NoFlush(b) /\ NoLaunch(b) /\ vram[b] = None /\ ~dirty[b]
  BY <1>2, UnknownOrders DEF Base, Fresh
<1>8. Ordered(b)'
  BY <1>1, <1>2, SameOrders DEF InStep
<1>9. Unloaded(b)'
  BY <1>1, <1>2, <1>3, <1>4, <1>5, <1>7, SameOrders DEF InStep, Unloaded
<1>10. Staged(b)'
  BY <1>1, <1>2, <1>3, <1>4, <1>6 DEF InStep, Staged, Keeps, Writes
<1>11. Loaded(b)'
  <2>1. PICK d : d = truth'[b]["head"]
    OBVIOUS
  <2>2. ASSUME host'[b] # None, b \notin unsynced', ~Creating(b)', ~dirty'[b] \/ Flushing(b)'
        PROVE  AllFlush(b, d) /\ (NoFlush(b) => NoCreate(b) /\ (vram[b] = None \/ vram[b]["head"] = d))
    <3>1. Keeps(b) /\ host[b] # None /\ ~dirty[b]
      BY <1>1, <1>3, <1>6, <2>2 DEF Writes
    <3>2. QED  BY <1>2, <1>3, <2>1, <2>2, <3>1 DEF InStep, Loaded, Keeps
  <2>3. QED  BY <1>1, <2>1, <2>2, SameOrders, LoadedNext
<1>12. QED  BY <1>8, <1>9, <1>10, <1>11 DEF InStep

(* A message that is none of these three leaves the buffer alone.          *)
Neutral(m, b) == ~IsCreate(m, b) /\ ~IsFlush(m, b) /\ ~IsLaunch(m, b)

LEMMA NeutralSync ==
    ASSUME Base, NEW b \in Buffers, InStep(b),
           toCore' = toCore \/ \E m : Posts(m) /\ Neutral(m, b),
           UNCHANGED <<host, dirty, vram, truth, unsynced>>,
           socket' = socket \/ socket = "none",
           Creating(b)' <=> Creating(b), Unposted(b)' => Unposted(b), Flushing(b)' <=> Flushing(b)
    PROVE  InStep(b)'
<1> DEFINE d == truth[b]["head"]
<1>1. PICK x : x = d
  OBVIOUS
<1>2. /\ NoCreate(b)' <=> NoCreate(b)
      /\ NoFlush(b)' <=> NoFlush(b)
      /\ NoLaunch(b)' <=> NoLaunch(b)
      /\ AllFlush(b, x)' <=> AllFlush(b, x)
      /\ Ordered(b) => Ordered(b)'
  BY SameOrders, PostOrders DEF Neutral
<1>3. Ordered(b)' /\ Unloaded(b)'
  BY <1>2 DEF InStep, Unloaded
<1>4. Staged(b)'
  BY DEF InStep, Staged
<1>5. Loaded(b)'
  BY <1>1, <1>2, LoadedNext DEF InStep, Loaded
<1>6. QED  BY <1>3, <1>4, <1>5 DEF InStep

LEMMA ConnectSync ==
    ASSUME SingleThread, Sync, NEW t \in Threads, ConnectDoes(t), NEW b \in Buffers
    PROVE  InStep(b)'
<1>1. /\ call[t].at = "connect" /\ Base /\ InStep(b)
      /\ UNCHANGED <<host, dirty, vram, truth, unsynced, toApp>>
  BY DEF ConnectDoes, Sync
<1>2. \A at \in {"connect", "send", "hello", "done"} : at # b
  BY NoneAssumption DEF Places
<1>3. CASE socket # "none" /\ Moves(t, "send") /\ UNCHANGED <<socket, sent, toCore>>
  BY <1>1, <1>2, <1>3, OneThread, NeutralSync DEF Moves
<1>4. CASE socket = "none" /\ Moves(t, "hello") /\ \E m : Posts(m) /\ m.op = "hello" /\ m.bufs = {}
  <2>1. \E m : Posts(m) /\ Neutral(m, b)
    BY <1>4 DEF Neutral, IsCreate, IsFlush, IsLaunch
  <2>2. QED  BY <1>1, <1>2, <1>4, <2>1, OneThread, NeutralSync DEF Moves
<1>5. CASE socket = "none" /\ Moves(t, "done") /\ UNCHANGED <<socket, sent, toCore>>
  <2>1. toCore = <<>> /\ vram[b] = None
    BY <1>1, <1>5 DEF Base, Closed
  <2>2. /\ ~Creating(b)' /\ ~Unposted(b)' /\ ~Flushing(b)' /\ ~Flushing(b)
    BY <1>1, <1>2, <1>5, OneThread DEF Moves
  <2>3. PICK d : d = truth[b]["head"]
    OBVIOUS
  <2>4. /\ NoCreate(b)' /\ NoFlush(b)' /\ NoLaunch(b)' /\ AllFlush(b, d)' /\ Ordered(b)'
    BY <1>5, <2>1, EmptyOrders, SameOrders
  <2>5. Unloaded(b)'
    BY <2>2, <2>4 DEF Unloaded
  <2>6. Staged(b)'
    BY <1>1, <1>5, <2>2 DEF InStep, Staged
  <2>7. Loaded(b)'
    BY <1>1, <2>1, <2>3, <2>4, LoadedNext
  <2>8. QED  BY <2>4, <2>5, <2>6, <2>7 DEF InStep
<1>6. QED  BY <1>3, <1>4, <1>5 DEF ConnectDoes

LEMMA FlushSync ==
    ASSUME SingleThread, Sync, NEW t \in Threads, NEW a \in Buffers, FlushDoes(t, a), NEW b \in Buffers
    PROVE  InStep(b)'
<1>1. /\ Base /\ InStep(b) /\ call[t].at = "send" /\ call[t].op = "launch" /\ dirty[a]
      /\ UNCHANGED <<socket, host, dirty, vram, truth, unsynced>>
      /\ call'[t].op = "launch" /\ call'[t].at = a
  BY DEF FlushDoes, Moves, Sync
<1>2. PICK m : Posts(m) /\ m.op = "write" /\ m.bufs = {a} /\ m.data = host[a]["head"] /\ m.data # None
  BY DEF FlushDoes
<1>3. ~Creating(b) /\ ~Creating(b)' /\ ~Unposted(b)' /\ ~Flushing(b) /\ (Flushing(b)' <=> a = b)
  BY <1>1, OneThread, NoneAssumption DEF Places
<1>4. CASE a # b
  <2>1. Neutral(m, b)
    BY <1>2, <1>4 DEF Neutral, IsCreate, IsFlush, IsLaunch
  <2>2. QED  BY <1>1, <1>2, <1>3, <1>4, <2>1, NeutralSync
<1>5. CASE a = b
  <2>1. NoLaunch(b) /\ NoFlush(b) /\ host[b] # None
    BY <1>1, <1>3, <1>5 DEF InStep, Unloaded, Base, Fresh
  <2>2. IsFlush(m, b) /\ ~IsCreate(m, b) /\ ~IsLaunch(m, b)
    BY <1>2, <1>5 DEF IsFlush, IsCreate, IsLaunch
  <2>3. PICK d : d = truth[b]["head"]
    OBVIOUS
  <2>4. /\ NoCreate(b)' <=> NoCreate(b)
        /\ NoFlush(b)' <=> NoFlush(b) /\ socket # "open"
        /\ NoLaunch(b)'
        /\ AllFlush(b, d)' <=> AllFlush(b, d) /\ (socket = "open" => m.data = d)
        /\ Ordered(b)'
    BY <1>1, <1>2, <2>1, <2>2, PostOrders DEF InStep
  <2>5. AllFlush(b, d)
    BY <2>1 DEF AllFlush, NoFlush
  <2>6. b \notin unsynced => m.data = d
    BY <1>1, <1>2, <1>5, <2>1, <2>3 DEF InStep, Staged
  <2>7. socket # "open" => NoCreate(b) /\ vram[b] = None
    BY <1>1, EmptyOrders DEF Base, Closed
  <2>8. Unloaded(b)'
    BY <1>1, <1>3, <1>5, <2>4 DEF Unloaded
  <2>9. Staged(b)'
    BY <1>1, <1>5 DEF InStep, Staged
  <2>10. Loaded(b)'
    BY <1>1, <1>3, <2>3, <2>4, <2>5, <2>6, <2>7, LoadedNext
  <2>11. QED  BY <2>4, <2>8, <2>9, <2>10 DEF InStep
<1>6. QED  BY <1>4, <1>5

LEMMA CommandSync ==
    ASSUME SingleThread, Sync, NEW t \in Threads, CommandDoes(t), NEW b \in Buffers
    PROVE  InStep(b)'
<1>1. /\ Base /\ InStep(b) /\ call[t].at = "send"
      /\ UNCHANGED <<socket, host, dirty, vram, truth, unsynced>>
      /\ call'[t].op = call[t].op /\ call'[t].bufs = call[t].bufs /\ call'[t].at = "answer"
      /\ call[t].op = "launch" /\ b \in call[t].bufs => ~dirty[b]
  BY DEF CommandDoes, Moves, Sync
<1>2. PICK m : Posts(m) /\ m.op = call[t].op /\ m.bufs = call[t].bufs /\ m.data = None
  BY DEF CommandDoes
<1>3. /\ Creating(b)' <=> Creating(b)
      /\ ~Unposted(b)' /\ ~Flushing(b) /\ ~Flushing(b)'
      /\ Creating(b) => Unposted(b)
      /\ Creating(b) => call[t].op = "create"
  BY <1>1, OneThread, NoneAssumption DEF Places
<1>4. ~IsFlush(m, b) /\ (IsCreate(m, b) => Creating(b)) /\ (IsLaunch(m, b) => ~dirty[b] /\ ~Creating(b))
  BY <1>1, <1>2, <1>3, OneThread DEF IsFlush, IsCreate, IsLaunch
<1>5. PICK d : d = truth[b]["head"]
  OBVIOUS
<1>6. /\ NoCreate(b)' <=> NoCreate(b) /\ (socket = "open" => ~IsCreate(m, b))
      /\ NoFlush(b)' <=> NoFlush(b)
      /\ NoLaunch(b)' <=> NoLaunch(b) /\ (socket = "open" => ~IsLaunch(m, b))
      /\ AllFlush(b, d)' <=> AllFlush(b, d)
  BY <1>1, <1>2, <1>4, PostOrders
<1>7. Ordered(b)'
  <2>1. IsCreate(m, b) => NoFlush(b) /\ NoLaunch(b)
    BY <1>1, <1>4 DEF InStep, Unloaded
  <2>2. QED  BY <1>1, <1>2, <1>4, <2>1, PostOrders DEF InStep
<1>8. Unloaded(b)'
  BY <1>1, <1>3, <1>4, <1>6 DEF InStep, Unloaded, IsLaunch
<1>9. Staged(b)'
  BY <1>1, <1>3 DEF InStep, Staged
<1>10. Loaded(b)'
  BY <1>1, <1>3, <1>4, <1>5, <1>6, LoadedNext DEF InStep, Loaded
<1>11. QED  BY <1>7, <1>8, <1>9, <1>10 DEF InStep

LEMMA QuietSync ==
    ASSUME SingleThread, Sync, NEW t \in Threads, ForgetDoes(t) \/ FailDoes(t), NEW b \in Buffers
    PROVE  InStep(b)'
<1>1. /\ Base /\ InStep(b) /\ call[t].at = "send" /\ call[t].op \in {"flush", "launch"}
      /\ UNCHANGED <<socket, host, dirty, vram, truth, unsynced>>
      /\ call'[t].op = call[t].op /\ call'[t].at = "done"
  BY DEF ForgetDoes, FailDoes, Moves, Sync
<1>2. ~Creating(b) /\ ~Creating(b)' /\ ~Unposted(b)' /\ ~Flushing(b) /\ ~Flushing(b)'
  BY <1>1, OneThread, NoneAssumption DEF Places
<1>3. toCore' = toCore \/ \E m : Posts(m) /\ Neutral(m, b)
  BY DEF ForgetDoes, FailDoes, Neutral, IsCreate, IsFlush, IsLaunch
<1>4. QED  BY <1>1, <1>2, <1>3, NeutralSync

LEMMA ReceiveSync ==
    ASSUME SingleThread, Sync, NEW t \in Threads, ReceiveDoes(t), NEW b \in Buffers
    PROVE  InStep(b)'
<1>1. /\ Base /\ InStep(b) /\ call[t].at \in {"hello", "answer"} \cup Buffers
      /\ UNCHANGED <<socket, host, toCore, vram, truth, unsynced>>
      /\ call'[t].op = call[t].op /\ call'[t].bufs = call[t].bufs
      /\ call'[t].at = (IF call[t].at = "answer" THEN "done" ELSE "send")
      /\ dirty'[b] <=> (call[t].at # b /\ (dirty[b] \/ (call[t].at = "answer" /\ call[t].op = "create"
                                                      /\ b \in call[t].bufs)))
  BY DEF ReceiveDoes, Moves, Sync, Waiting
<1>2. PICK d : d = truth[b]["head"]
  OBVIOUS
<1>3. /\ NoCreate(b)' <=> NoCreate(b)
      /\ NoFlush(b)' <=> NoFlush(b)
      /\ NoLaunch(b)' <=> NoLaunch(b)
      /\ AllFlush(b, d)' <=> AllFlush(b, d)
      /\ Ordered(b)' <=> Ordered(b)
  BY <1>1, SameOrders
<1>4. WellFormed(call[t])
  BY <1>1 DEF Base, CallsFormed
<1>5. CASE call[t].at = "answer"
  <2>1. /\ ~Flushing(b) /\ ~Flushing(b)' /\ ~Creating(b)' /\ ~Unposted(b)'
        /\ dirty'[b] <=> dirty[b] \/ Creating(b)
    BY <1>1, <1>5, OneThread, NoneAssumption DEF Places, Base, TypeOK
  <2>2. Unloaded(b)' /\ Staged(b)'
    BY <1>1, <1>3, <2>1 DEF InStep, Unloaded, Staged
  <2>3. Loaded(b)'
    BY <1>1, <1>2, <1>3, <2>1, LoadedNext DEF InStep, Loaded
  <2>4. QED  BY <1>1, <1>3, <2>2, <2>3 DEF InStep
<1>6. CASE call[t].at = "hello"
  <2>1. /\ ~Flushing(b) /\ ~Flushing(b)' /\ (Creating(b)' <=> Creating(b)) /\ (Unposted(b)' <=> Unposted(b))
        /\ dirty'[b] <=> dirty[b]
    BY <1>1, <1>6, OneThread, NoneAssumption DEF Places, Base, TypeOK
  <2>2. Unloaded(b)' /\ Staged(b)'
    BY <1>1, <1>3, <2>1 DEF InStep, Unloaded, Staged
  <2>3. Loaded(b)'
    BY <1>1, <1>2, <1>3, <2>1, LoadedNext DEF InStep, Loaded
  <2>4. QED  BY <1>1, <1>3, <2>2, <2>3 DEF InStep
<1>7. CASE call[t].at \in Buffers
  <2>1. /\ ~Creating(b) /\ ~Creating(b)' /\ ~Unposted(b)' /\ ~Flushing(b)'
        /\ Flushing(b) <=> call[t].at = b
        /\ dirty'[b] <=> dirty[b] /\ ~Flushing(b)
    BY <1>1, <1>4, <1>7, OneThread, NoneAssumption DEF Places, WellFormed, Base, TypeOK
  <2>2. Unloaded(b)' /\ Staged(b)'
    BY <1>1, <1>3, <2>1 DEF InStep, Unloaded, Staged
  <2>3. Loaded(b)'
    BY <1>1, <1>2, <1>3, <2>1, LoadedNext DEF InStep, Loaded
  <2>4. QED  BY <1>1, <1>3, <2>2, <2>3 DEF InStep
<1>8. QED  BY <1>1, <1>5, <1>6, <1>7

LEMMA SameCalls ==
    ASSUME call' = call, NEW b \in Buffers
    PROVE  /\ Creating(b)' <=> Creating(b)
           /\ Unposted(b)' <=> Unposted(b)
           /\ Flushing(b)' <=> Flushing(b)
BY DEF Creating, Unposted, Flushing

LEMMA CoreSync ==
    ASSUME Sync, NEW m, NEW u, CoreDoes(m, u), NEW b \in Buffers
    PROVE  InStep(b)'
<1>1. /\ Base /\ InStep(b) /\ Base' /\ socket = "open"
      /\ UNCHANGED <<socket, host, dirty, call>>
      /\ unsynced' \subseteq unsynced
  BY CoreBase DEF Sync, CoreDoes, Handles, Base, Closed
<1>2. PICK d, e : d = truth[b]["head"] /\ e = truth'[b]["head"]
  OBVIOUS
<1>3. /\ NoCreate(b) => NoCreate(b)' /\ ~IsCreate(m, b)
      /\ NoFlush(b) => NoFlush(b)' /\ ~IsFlush(m, b)
      /\ NoLaunch(b) => NoLaunch(b)' /\ ~IsLaunch(m, b)
      /\ NoFlush(b)' /\ ~IsFlush(m, b) => NoFlush(b)
      /\ \A x : AllFlush(b, x) => AllFlush(b, x)' /\ (IsFlush(m, b) => m.data = x)
      /\ \A x : NoFlush(b) => AllFlush(b, x)
      /\ Ordered(b)'
      /\ IsFlush(m, b) => NoCreate(b)
      /\ IsLaunch(m, b) => NoCreate(b) /\ NoFlush(b)
  BY <1>1, HandleOrders DEF InStep
<1>4. /\ Creating(b)' <=> Creating(b)
      /\ Unposted(b)' <=> Unposted(b)
      /\ Flushing(b)' <=> Flushing(b)
  BY <1>1, SameCalls
<1>5. ~IsLaunch(m, b) => truth'[b] = truth[b] /\ (b \in unsynced' <=> b \in unsynced)
  BY DEF CoreDoes, LoadDoes, StoreDoes, FetchDoes, RunDoes, PlainDoes, IsLaunch
<1>6. vram[b] # None => vram'[b] # None
  BY <1>1 DEF CoreDoes, LoadDoes, StoreDoes, FetchDoes, RunDoes, PlainDoes
<1>7. CASE IsLaunch(m, b)
  <2>1. NoFlush(b) /\ NoCreate(b) /\ ~dirty[b] /\ ~Creating(b) /\ RunDoes(m, u)
    BY <1>1, <1>3, <1>7 DEF InStep, Unloaded, CoreDoes, IsLaunch, LoadDoes, StoreDoes, FetchDoes, PlainDoes
  <2>2. \/ vram[b] # None /\ vram'[b]["head"] = truth'[b]["head"]
        \/ vram'[b] = vram[b] /\ truth'[b] = truth[b] /\ (b \in unsynced' <=> b \in unsynced)
    BY <2>1 DEF RunDoes
  <2>3. Unposted(b) => Creating(b)
    BY DEF Unposted, Creating
  <2>4. Unloaded(b)'
    BY <1>1, <1>3, <1>4, <2>1, <2>3 DEF InStep, Unloaded
  <2>5. Staged(b)'
    BY <1>1, <1>4, <1>6, <2>1, <2>2 DEF InStep, Staged
  <2>6. Loaded(b)'
    BY <1>1, <1>2, <1>3, <1>4, <2>1, <2>2, LoadedNext DEF InStep, Loaded
  <2>7. QED  BY <1>3, <2>4, <2>5, <2>6 DEF InStep
<1>8. CASE ~IsLaunch(m, b)
  <2>1. ~IsCreate(m, b) /\ ~IsFlush(m, b) => vram'[b] = vram[b]
    BY <1>8 DEF CoreDoes, LoadDoes, StoreDoes, FetchDoes, RunDoes, PlainDoes, IsCreate, IsFlush, IsLaunch
  <2>2. IsFlush(m, b) => IF vram[b] # None THEN vram'[b]["head"] = m.data ELSE vram'[b] = vram[b]
    BY <1>8 DEF CoreDoes, LoadDoes, StoreDoes, FetchDoes, RunDoes, PlainDoes, IsFlush
  <2>3. Unloaded(b)'
    BY <1>1, <1>3, <1>4, <2>1, <2>2 DEF InStep, Unloaded
  <2>4. Staged(b)'
    BY <1>1, <1>4, <1>5, <1>6, <1>8 DEF InStep, Staged
  <2>5. ASSUME host[b] # None, b \notin unsynced, ~Creating(b), ~dirty[b] \/ Flushing(b)
        PROVE  /\ AllFlush(b, d)'
               /\ NoFlush(b)' => NoCreate(b)' /\ (vram'[b] = None \/ vram'[b]["head"] = d)
    <3>1. /\ AllFlush(b, d)
          /\ NoFlush(b) => NoCreate(b) /\ (vram[b] = None \/ vram[b]["head"] = d)
      BY <1>1, <1>2, <2>5 DEF InStep, Loaded
    <3>2. QED  BY <1>3, <2>1, <2>2, <3>1
  <2>6. Loaded(b)'
    BY <1>1, <1>2, <1>4, <1>5, <1>8, <2>5, LoadedNext
  <2>7. QED  BY <1>3, <2>3, <2>4, <2>6 DEF InStep
<1>9. QED  BY <1>7, <1>8

LEMMA StopSync ==
    ASSUME Sync, CoreStop, NEW b \in Buffers
    PROVE  InStep(b)'
<1>1. StopDoes /\ Base /\ InStep(b) /\ Base'
  BY StopIs, StopBase DEF Sync
<1>2. PICK d : d = truth'[b]["head"]
  OBVIOUS
<1>3. /\ NoCreate(b)' /\ NoFlush(b)' /\ NoLaunch(b)' /\ AllFlush(b, d)' /\ Ordered(b)'
  BY <1>1 DEF StopDoes, NoCreate, NoFlush, NoLaunch, AllFlush, Ordered
<1>4. /\ Creating(b)' <=> Creating(b)
      /\ Unposted(b)' <=> Unposted(b)
      /\ Flushing(b)' <=> Flushing(b)
  BY <1>1, SameCalls DEF StopDoes
<1>5. vram'[b] = None /\ (socket' # "dead" => socket # "dead" /\ vram[b] = None)
  BY <1>1 DEF StopDoes, Base, Closed
<1>6. Unloaded(b)'
  BY <1>1, <1>3, <1>4, <1>5 DEF InStep, Unloaded, StopDoes
<1>7. Staged(b)'
  BY <1>1, <1>4, <1>5 DEF InStep, Staged, StopDoes
<1>8. Loaded(b)'
  BY <1>2, <1>3, <1>5, LoadedNext
<1>9. QED  BY <1>3, <1>6, <1>7, <1>8 DEF InStep

LEMMA IdleSync ==
    ASSUME Sync, NEW b \in Buffers,
           UNCHANGED <<socket, host, dirty, call, toCore, vram, truth, unsynced>>
    PROVE  InStep(b)'
<1>1. /\ Creating(b)' <=> Creating(b)
      /\ Unposted(b)' <=> Unposted(b)
      /\ Flushing(b)' <=> Flushing(b)
  BY SameCalls
<1>2. QED  BY <1>1, NeutralSync DEF Sync

LEMMA NextSync == ASSUME SingleThread, Sync, [Next]_vars PROVE Sync'
<1>1. Base /\ Base'
  BY NextBase DEF Sync
<1>2. ASSUME NEW b \in Buffers PROVE InStep(b)'
  <2>1. ASSUME NEW t \in Threads, App(t) PROVE InStep(b)'
    BY <1>1, <2>1, AppIs, AppSync
  <2>2. ASSUME NEW t \in Threads, Library(t) PROVE InStep(b)'
    BY <1>1, <2>2, LibraryIs, ConnectSync, FlushSync, CommandSync, QuietSync, ReceiveSync
  <2>3. ASSUME CoreHandle PROVE InStep(b)'
    BY <1>1, <2>3, CoreIs, CoreSync
  <2>4. ASSUME CoreStart \/ UNCHANGED vars PROVE InStep(b)'
    BY <2>4, IdleSync DEF CoreStart, vars, lib, wire, ghosts
  <2>5. QED  BY <2>1, <2>2, <2>3, <2>4, StopSync DEF Next
<1>3. QED  BY <1>1, <1>2 DEF Sync, InStep, Ordered, Unloaded, Staged, Loaded

LEMMA InitSync == ASSUME Init PROVE Sync
<1>1. ASSUME NEW b \in Buffers PROVE InStep(b)
  <2>1. NoCreate(b) /\ NoFlush(b) /\ NoLaunch(b) /\ Ordered(b)
    BY EmptyOrders DEF Init
  <2>2. ~Creating(b) /\ ~Unposted(b) /\ ~Flushing(b) /\ ~dirty[b] /\ host[b] = None
    BY NoneAssumption DEF Init, NoCall, Creating, Unposted, Flushing, Places
  <2>3. QED  BY <2>1, <2>2 DEF InStep, Unloaded, Staged, Loaded
<1>2. QED  BY <1>1, InitBase DEF Sync

LEMMA AlwaysSync == ASSUME SingleThread PROVE Spec => []Sync
<1>1. Init => Sync  BY InitSync
<1>2. Sync /\ [Next]_vars => Sync'  BY NextSync
<1>3. QED  BY <1>1, <1>2, PTL DEF Spec

(* Whatever happens to replies and to the core, a kernel computes on what  *)
(* the application put into its buffers, but for those written or copied   *)
(* to after a launch had flushed them.                                     *)
THEOREM LaunchesSeeTruth == ASSUME SingleThread PROVE Spec => []LaunchSeesTruth
<1>1. Init => LaunchSeesTruth
  BY DEF Init, LaunchSeesTruth
<1>2. Sync /\ LaunchSeesTruth /\ [Next]_vars => LaunchSeesTruth'
  <2> SUFFICES ASSUME Sync, LaunchSeesTruth, [Next]_vars PROVE LaunchSeesTruth'
    OBVIOUS
  <2>1. Base
    BY DEF Sync
  <2>2. ASSUME CoreHandle PROVE LaunchSeesTruth'
    <3>1. PICK m, u : CoreDoes(m, u)
      BY <2>1, <2>2, CoreIs
    <3>2. CASE ran' = ran
      BY <3>2 DEF LaunchSeesTruth
    <3>3. CASE ran' # ran
      <4>1. /\ m \in Requests /\ m.op = "launch"
            /\ ran' = [id    |-> m.id,
                       saw   |-> [b \in m.bufs |-> vram[b]],
                       wants |-> [b \in m.bufs |-> truth[b]],
                       stale |-> m.bufs \cap unsynced]
        BY <3>1, <3>3 DEF CoreDoes, Handles, LoadDoes, StoreDoes, FetchDoes, RunDoes, PlainDoes
      <4>2. ASSUME NEW b \in m.bufs, b \notin unsynced, vram[b] # None
            PROVE  vram[b]["head"] = truth[b]["head"]
        <5>1. b \in Buffers /\ InStep(b) /\ IsLaunch(m, b)
          BY <4>1, <4>2 DEF Sync, IsLaunch, Requests
        <5>2. ~NoLaunch(b) /\ NoFlush(b)
          BY <2>1, <3>1, <5>1, HandleOrders DEF InStep
        <5>3. host[b] # None /\ ~dirty[b] /\ ~Creating(b)
          BY <2>1, <4>2, <5>1, <5>2 DEF InStep, Unloaded, Base, Fresh
        <5>4. QED  BY <4>2, <5>1, <5>2, <5>3 DEF InStep, Loaded
      <4>3. QED  BY <4>1, <4>2 DEF LaunchSeesTruth
    <3>4. QED  BY <3>2, <3>3
  <2>3. ASSUME NEW t \in Threads, App(t) \/ Library(t) PROVE ran' = ran
    BY <2>1, <2>3, AppIs, LibraryIs
       DEF AppDoes, ConnectDoes, FlushDoes, CommandDoes, ForgetDoes, FailDoes, ReceiveDoes
  <2>4. ASSUME CoreStart \/ CoreStop \/ UNCHANGED vars PROVE ran' = ran
    BY <2>4 DEF CoreStart, CoreStop, vars, ghosts
  <2>5. QED  BY <2>2, <2>3, <2>4 DEF Next, LaunchSeesTruth
<1>3. QED  BY <1>1, <1>2, AlwaysSync, PTL DEF Spec
----------------------------------------------------------------------------
(* With one thread and no reply skipped there is nothing on the socket but *)
(* the exchange the thread waits for, and its reply speaks of its message. *)
Tells(t, u) ==
    /\ u.of = call[t].req /\ u.bufs = call[t].bufs
    /\ call[t].op = "launch" /\ u.kind # "error" => ran # None /\ ran.id = call[t].req
    /\ call[t].op = "read" =>
         \A b \in call[t].bufs :
             IF vram[b] # None THEN u.kind = "data" /\ u.data = vram[b] ELSE u.kind = "error"

Prompt(t) ==
    /\ ~Waiting(t) => toCore = <<>> /\ toApp = <<>>
    /\ Len(toCore) + Len(toApp) <= 1
    /\ call[t].at = "answer" =>
         /\ \A i \in 1..Len(toCore) :
              /\ toCore[i].id = call[t].req /\ toCore[i].op = call[t].op
              /\ toCore[i].bufs = call[t].bufs
         /\ \A i \in 1..Len(toApp) : Tells(t, toApp[i])

Answered(t) ==
    call[t].at = "done" /\ call[t].req # 0 =>
        /\ Len(call[t].got) = 1
        /\ call[t].got[1].of = call[t].req /\ call[t].got[1].whole

Status(t) ==
    call[t].at = "done" /\ call[t].op = "launch" /\ call[t].result = "success" =>
        ran # None /\ ran.id = call[t].req

Seen(t) ==
    call[t].at = "done" /\ call[t].op = "read" =>
        \A b \in call[t].bufs : ~dirty[b] /\ b \notin unsynced =>
            call[t].result["head"] = truth[b]["head"]

Mine(t) == Prompt(t) /\ Answered(t) /\ Status(t) /\ Seen(t)
Own == Sync /\ (skipped = 0 => \A t \in Threads : Mine(t))

LEMMA EmptyPrompt ==
    ASSUME NEW t \in Threads, toCore' = <<>>, toApp' = <<>>
    PROVE  Prompt(t)'
BY DEF Prompt

LEMMA PostEmpty ==
    ASSUME Base, toCore = <<>>, NEW m, Posts(m)
    PROVE  Len(toCore') <= 1 /\ \A i \in 1..Len(toCore') : toCore'[i] = m
<1>1. PICK new : new = toCore'
  OBVIOUS
<1>2. /\ new \in Seq(Requests) /\ Len(toCore) = 0
      /\ Len(new) = IF socket' = "open" THEN Len(toCore) + 1 ELSE Len(toCore)
      /\ \A i \in 1..Len(new) :
           i \in 1..Len(toCore) \/ (socket' = "open" /\ i = Len(toCore) + 1 /\ new[i] = m)
  BY <1>1, PostDoes
<1>3. QED  BY <1>1, <1>2

LEMMA WaitsOrNot ==
    ASSUME Base, NEW t \in Threads
    PROVE  /\ Waiting(t) => call[t].at \notin {"connect", "send", "done"}
           /\ call[t].at \in {"connect", "send", "done"} => ~Waiting(t)
BY NoneAssumption DEF Waiting, Places

LEMMA AppOwn ==
    ASSUME SingleThread, Own, NEW t \in Threads, AppDoes(t), skipped' = 0
    PROVE  Mine(t)'
<1>1. /\ skipped = 0 /\ UNCHANGED <<dirty, toCore, toApp, vram, ran, socket>>
      /\ call[t].at = "done" /\ (call'[t] = call[t] \/ Begins(t))
      /\ \A b \in Buffers : Keeps(b) \/ Writes(b)
  BY DEF AppDoes
<1>2. Base /\ Mine(t) /\ \A b \in Buffers : InStep(b)
  BY <1>1 DEF Own, Sync
<1>3. toCore = <<>> /\ toApp = <<>>
  BY <1>1, <1>2, WaitsOrNot DEF Mine, Prompt
<1>4. Prompt(t)'
  BY <1>1, <1>3, EmptyPrompt
<1>5. Answered(t)' /\ Status(t)'
  BY <1>1, <1>2 DEF Begins, Mine, Answered, Status
<1>6. Seen(t)'
  <2> SUFFICES ASSUME call'[t].at = "done", call'[t].op = "read", NEW b \in call'[t].bufs,
                      ~dirty[b], b \notin unsynced'
               PROVE  call'[t].result["head"] = truth'[b]["head"]
    BY <1>1 DEF Seen
  <2>1. b \in Buffers
    BY CallFields DEF AppDoes
  <2>2. host[b] # None
    <3>1. host'[b] # None
      BY <1>1, <1>2, <2>1 DEF Begins, Base, CallsFormed, Keeps, Writes
    <3>2. QED  BY <2>1, <3>1 DEF AppDoes
  <2>3. Keeps(b)
    BY <1>1, <2>1, <2>2 DEF Writes
  <2>4. CASE call'[t] = call[t]
    BY <1>2, <2>3, <2>4 DEF Mine, Seen, Keeps
  <2>5. CASE Begins(t)
    <3>1. socket = "none" /\ call'[t].result = host[b]
      BY <2>5 DEF Begins
    <3>2. vram[b] = None
      BY <1>2, <2>1, <3>1 DEF Base, Closed
    <3>3. host[b]["head"] = truth[b]["head"]
      BY <1>2, <2>1, <2>2, <2>3, <3>1, <3>2 DEF InStep, Staged, Keeps
    <3>4. QED  BY <2>3, <3>1, <3>3 DEF Keeps
  <2>6. QED  BY <1>1, <2>4, <2>5
<1>7. QED  BY <1>4, <1>5, <1>6 DEF Mine

LEMMA SendOwn ==
    ASSUME SingleThread, Own, NEW t \in Threads, skipped' = 0,
           \/ ConnectDoes(t) \/ CommandDoes(t) \/ ForgetDoes(t) \/ FailDoes(t)
           \/ \E b \in Buffers : FlushDoes(t, b)
    PROVE  Mine(t)'
<1>1. skipped = 0 /\ ~ForgetDoes(t)
  <2>1. skipped \in Nat
    BY IcdAssumption DEF Own, Sync, Base, TypeOK
  <2>2. ~ForgetDoes(t)
    BY <2>1 DEF ForgetDoes
  <2>3. QED  BY <2>2 DEF ConnectDoes, CommandDoes, FailDoes, FlushDoes
<1>2. Base /\ Mine(t) /\ Base'
  BY <1>1, LibraryBase DEF Own, Sync
<1>3. call[t].at \in {"connect", "send"} /\ toApp' = toApp
  BY <1>1 DEF ConnectDoes, CommandDoes, FailDoes, FlushDoes
<1>4. toCore = <<>> /\ toApp = <<>> /\ toApp' = <<>> /\ call[t].req = 0
  BY <1>2, <1>3, WaitsOrNot DEF Mine, Prompt, Base, CallsFormed, WellFormed
<1>5. ASSUME NEW m, Posts(m), Moves(t, "hello") \/ (\E b \in Buffers : Moves(t, b))
      PROVE  Mine(t)'
  <2>1. call'[t].at \in {"hello"} \cup Buffers /\ call'[t].at \notin {"answer", "done"}
    BY <1>5, NoneAssumption DEF Moves, Places
  <2>2. Len(toCore') <= 1 /\ Len(toApp') = 0 /\ Len(toCore') \in Nat
    BY <1>2, <1>4, <1>5, PostEmpty DEF Base, TypeOK
  <2>3. QED  BY <2>1, <2>2 DEF Mine, Prompt, Answered, Status, Seen, Waiting
<1>6. CASE ConnectDoes(t)
  <2>1. ASSUME Moves(t, "send") \/ Moves(t, "done"), UNCHANGED <<socket, sent, toCore>>,
               call[t].op = "launch" /\ call'[t].at # "send" => call'[t].result = "error"
        PROVE  Mine(t)'
    <3>1. Prompt(t)'
      BY <1>4, <2>1, EmptyPrompt
    <3>2. call[t].op # "read" /\ call'[t].req = 0 /\ call'[t].op = call[t].op
      BY <1>2, <1>4, <1>6, <2>1 DEF ConnectDoes, Base, CallsFormed, WellFormed, Moves
    <3>3. QED  BY <2>1, <3>1, <3>2 DEF Mine, Answered, Status, Seen
  <2>2. QED  BY <1>5, <1>6, <2>1 DEF ConnectDoes, Moves
<1>7. CASE FailDoes(t)
  <2>1. Prompt(t)'
    BY <1>4, <1>7, EmptyPrompt DEF FailDoes
  <2>2. call'[t].op = "launch" /\ call'[t].result = "error" /\ call'[t].req = 0
    BY <1>4, <1>7 DEF FailDoes, Moves
  <2>3. QED  BY <2>1, <2>2 DEF Mine, Answered, Status, Seen
<1>8. ASSUME NEW b \in Buffers, FlushDoes(t, b) PROVE Mine(t)'
  BY <1>5, <1>8 DEF FlushDoes
<1>9. CASE CommandDoes(t)
  <2>1. PICK m : Posts(m) /\ m.op = call[t].op /\ m.bufs = call[t].bufs
    BY <1>9 DEF CommandDoes
  <2>2. /\ call'[t].at = "answer" /\ call'[t].req = m.id
        /\ call'[t].op = m.op /\ call'[t].bufs = m.bufs
    BY <1>9, <2>1 DEF CommandDoes, Moves, Posts
  <2>3. /\ Len(toCore') <= 1 /\ Len(toApp') = 0 /\ Len(toCore') \in Nat
        /\ \A i \in 1..Len(toCore') : toCore'[i] = m
    BY <1>2, <1>4, <2>1, PostEmpty DEF Base, TypeOK
  <2>4. Prompt(t)'
    BY <2>2, <2>3 DEF Prompt, Waiting
  <2>5. QED  BY <2>2, <2>4 DEF Mine, Answered, Status, Seen
<1>10. QED  BY <1>1, <1>6, <1>7, <1>8, <1>9

LEMMA ReceiveOwn ==
    ASSUME SingleThread, Own, NEW t \in Threads, NEW k \in 0..Len(toApp), NEW rest \in BOOLEAN,
           Receive(t, k, rest), skipped' = 0
    PROVE  Mine(t)'
<1>1. Base /\ ReceiveDoes(t) /\ \A b \in Buffers : InStep(b)
  BY ReceiveIs DEF Own, Sync
<1>2. skipped = 0
  BY <1>1, IcdAssumption DEF ReceiveDoes, Base, TypeOK
<1>3. Prompt(t)
  BY <1>2 DEF Own, Mine
<1>4. toCore \in Seq(Requests) /\ toApp \in Seq(Replies) /\ toApp' \in Seq(Replies)
  BY <1>1 DEF Base, TypeOK, ReceiveDoes
<1>5. k = 1 /\ ~rest /\ Len(toApp) = 1
  BY <1>1, <1>3, <1>4, ReceiveIs DEF Prompt
<1>6. toCore' = <<>> /\ toApp' = <<>>
  <2>1. Len(toCore) = 0 /\ Len(toApp') = 0 /\ toCore' = toCore
    BY <1>1, <1>2, <1>3, <1>4, <1>5 DEF Prompt, ReceiveDoes
  <2>2. QED  BY <1>4, <2>1
<1>7. Prompt(t)'
  BY <1>6, EmptyPrompt
<1>8. /\ call'[t].req = call[t].req /\ call'[t].op = call[t].op /\ call'[t].bufs = call[t].bufs
      /\ call'[t].at = (IF call[t].at = "answer" THEN "done" ELSE "send")
      /\ UNCHANGED <<ran, truth, unsynced, vram, host, socket>>
  BY <1>1 DEF ReceiveDoes, Moves
<1>9. CASE call[t].at # "answer"
  BY <1>7, <1>8, <1>9 DEF Mine, Answered, Status, Seen
<1>10. CASE call[t].at = "answer"
  <2>1. PICK got, u : got = Units(k, rest) /\ u = toApp[1]
    OBVIOUS
  <2>2. /\ got \in Seq(Replies) /\ Len(got) = 1 /\ got[1] = u
        /\ call'[t].got = got /\ call'[t].result = Result(t, got)
    <3>1. Takes(k, rest)
      BY DEF Receive
    <3>2. got \in Seq(Replies) /\ Len(got) = 1 /\ got[1] = u
      BY <1>1, <1>5, <2>1, <3>1, UnitsAre
    <3>3. call'[t].got = got /\ call'[t].result = Result(t, got)
      BY <1>1, <1>10, <2>1, ReceiveIs
    <3>4. QED  BY <3>2, <3>3
  <2>3. Tells(t, u) /\ u.whole
    BY <1>1, <1>3, <1>5, <1>10, <2>1 DEF Prompt, Base, TypeOK
  <2>4. Answered(t)'
    BY <1>8, <2>2, <2>3 DEF Answered, Tells
  <2>5. Status(t)'
    <3>1. ASSUME call[t].op = "launch", Result(t, got) = "success" PROVE u.kind # "error"
      <4>1. LaunchStatus(got) = "success"
        BY <3>1 DEF Result
      <4>2. u \in Range(got)
        BY <2>2 DEF Range
      <4>3. QED  BY <4>1, <4>2 DEF LaunchStatus
    <3>2. QED  BY <1>8, <2>2, <2>3, <3>1 DEF Status, Tells
  <2>6. Seen(t)'
    <3> SUFFICES ASSUME call[t].op = "read", NEW b \in call[t].bufs, ~dirty'[b], b \notin unsynced
                 PROVE  Result(t, got)["head"] = truth[b]["head"]
      BY <1>8, <2>2 DEF Seen
    <3>1. b \in Buffers /\ call[t].bufs = {b} /\ host[b] # None
      BY <1>1 DEF Base, CallsFormed, WellFormed
    <3>2. Result(t, got) = DataRead(b, got)
      BY <3>1 DEF Result
    <3>3. ~dirty[b]
      BY <1>1, <1>10, <3>1, NoneAssumption DEF ReceiveDoes, Places
    <3>4. ~Creating(b) /\ NoFlush(b) /\ socket = "open"
      <4>1. ~Creating(b)
        BY OneThread, <3>1
      <4>2. toCore = <<>>
        BY <1>1, <1>6 DEF ReceiveDoes
      <4>3. NoFlush(b)
        BY <3>1, <4>2, EmptyOrders
      <4>4. socket = "open"
        BY <1>1, <1>5 DEF Base, Closed
      <4>5. QED  BY <4>1, <4>3, <4>4
    <3>5. CASE vram[b] # None
      <4>1. u.kind = "data" /\ u.data = vram[b] /\ u.bufs = {b}
        BY <2>3, <3>1, <3>5 DEF Tells
      <4>2. DataRead(b, got) = vram[b]
        BY <1>1, <2>2, <2>3, <3>1, <4>1, DataReadIs
      <4>3. QED  BY <1>1, <3>1, <3>2, <3>3, <3>4, <3>5, <4>2 DEF InStep, Loaded
    <3>6. CASE vram[b] = None
      <4>1. u.kind = "error"
        BY <2>3, <3>1, <3>6 DEF Tells
      <4>2. DataRead(b, got) = host[b]
        BY <1>1, <2>2, <3>1, <4>1, DataReadIs
      <4>3. QED  BY <1>1, <3>1, <3>2, <3>4, <3>6, <4>2 DEF InStep, Staged
    <3>7. QED  BY <3>5, <3>6
  <2>7. QED  BY <1>7, <2>4, <2>5, <2>6 DEF Mine
<1>11. QED  BY <1>9, <1>10

LEMMA CoreOwn ==
    ASSUME Own, NEW m, NEW u, CoreDoes(m, u), skipped' = 0, NEW t \in Threads
    PROVE  Mine(t)'
<1>1. skipped = 0 /\ call' = call
  BY DEF CoreDoes, Handles
<1>2. Base /\ Prompt(t) /\ toCore # <<>> /\ toCore \in Seq(Requests) /\ toApp \in Seq(Replies)
  BY <1>1 DEF Own, Sync, Mine, CoreDoes, Handles, Base, TypeOK
<1>3. Waiting(t)
  BY <1>2 DEF Prompt
<1>4. call[t].at # "done"
  BY <1>2, <1>3, WaitsOrNot
<1>5. Len(toCore) = 1 /\ Len(toApp) = 0
  <2>1. Len(toCore) \in Nat /\ Len(toApp) \in Nat /\ Len(toCore) # 0
    BY <1>2
  <2>2. Len(toCore) + Len(toApp) <= 1
    BY <1>2 DEF Prompt
  <2>3. PICK n \in Nat, k \in Nat : n = Len(toCore) /\ k = Len(toApp)
    BY <2>1
  <2>4. n # 0 /\ n + k <= 1
    BY <2>1, <2>2, <2>3
  <2>5. n = 1 /\ k = 0
    BY <2>4
  <2>6. QED  BY <2>3, <2>5
<1>6. PICK up : up = toApp'
  OBVIOUS
<1>7. Len(toCore') = 0 /\ Len(up) = 1 /\ up[1] = u /\ m = toCore[1]
  BY <1>2, <1>5, <1>6, HandleDoes
<1>8. call[t].at = "answer" => Tells(t, u)'
  <2> SUFFICES ASSUME call[t].at = "answer" PROVE Tells(t, u)'
    OBVIOUS
  <2>1. m.id = call[t].req /\ m.op = call[t].op /\ m.bufs = call[t].bufs
    BY <1>2, <1>5, <1>7 DEF Prompt
  <2>2. u.of = m.id /\ u.bufs = m.bufs
    BY DEF CoreDoes, Handles
  <2>3. ASSUME m.op = "launch", u.kind # "error" PROVE ran' # None /\ ran'.id = m.id
    <3>1. PICK r : r = ran'
      OBVIOUS
    <3>2. r = [id    |-> m.id,
               saw   |-> [b \in m.bufs |-> vram[b]],
               wants |-> [b \in m.bufs |-> truth[b]],
               stale |-> m.bufs \cap unsynced]
      BY <2>3, <3>1 DEF CoreDoes, LoadDoes, StoreDoes, FetchDoes, RunDoes, PlainDoes
    <3>3. r \in Runs
      <4>1. r \in Runs \cup {None}
        BY <3>1 DEF CoreDoes, Handles
      <4>2. PICK saw, wants : saw = [b \in m.bufs |-> vram[b]] /\ wants = [b \in m.bufs |-> truth[b]]
        OBVIOUS
      <4>3. vram \in [Buffers -> Contents] /\ truth \in [Buffers -> Contents] /\ m \in Requests
        BY <1>2 DEF Base, TypeOK, CoreDoes, Handles
      <4>4. m.bufs \in SUBSET Buffers /\ m.id \in Ids
        BY <4>3 DEF Requests
      <4>5. saw \in [m.bufs -> Contents] /\ wants \in [m.bufs -> Contents]
        BY <4>2, <4>3, <4>4
      <4>6. saw \in Copies /\ wants \in Copies
        BY <4>4, <4>5 DEF Copies
      <4>7. m.bufs \cap unsynced \in SUBSET Buffers
        BY <4>4
      <4>8. QED  BY <3>2, <4>2, <4>4, <4>6, <4>7 DEF Runs
    <3>4. QED  BY <3>1, <3>2, <3>3, NoneAssumption
  <2>4. ASSUME m.op = "read", NEW b \in m.bufs
        PROVE  IF vram'[b] # None THEN u.kind = "data" /\ u.data = vram'[b] ELSE u.kind = "error"
    <3>1. FetchDoes(m, u)
      BY <2>4 DEF CoreDoes, LoadDoes, StoreDoes, FetchDoes, RunDoes, PlainDoes
    <3>2. m.bufs = {b}
      BY <1>2, <2>1, <2>4 DEF Base, CallsFormed, WellFormed
    <3>3. QED  BY <3>1, <3>2 DEF FetchDoes
  <2>5. QED  BY <1>1, <2>1, <2>2, <2>3, <2>4 DEF Tells
<1>9. Prompt(t)'
  <2>1. Waiting(t)'
    BY <1>1, <1>3 DEF Waiting
  <2>2. call[t].at = "answer" => \A i \in 1..Len(up) : Tells(t, up[i])'
    BY <1>7, <1>8
  <2>3. QED  BY <1>1, <1>6, <1>7, <2>1, <2>2 DEF Prompt, Tells
<1>10. QED  BY <1>1, <1>4, <1>9 DEF Mine, Answered, Status, Seen

LEMMA StopOwn ==
    ASSUME Own, CoreStop, skipped' = 0, NEW t \in Threads
    PROVE  Mine(t)'
<1>1. StopDoes
  BY StopIs
<1>2. Prompt(t)'
  BY <1>1, EmptyPrompt DEF StopDoes
<1>3. QED
  BY <1>1, <1>2 DEF Own, Mine, StopDoes, Answered, Status, Seen

LEMMA IdleOwn ==
    ASSUME Own, skipped' = 0, NEW t \in Threads,
           UNCHANGED <<dirty, call, toCore, toApp, vram, ran, truth, unsynced, skipped>>
    PROVE  Mine(t)'
BY DEF Own, Mine, Prompt, Tells, Waiting, Answered, Status, Seen

LEMMA NextOwn == ASSUME SingleThread, Own, [Next]_vars PROVE Own'
<1>1. Sync' /\ Base
  BY NextSync DEF Own, Sync
<1>2. ASSUME skipped' = 0, NEW t \in Threads PROVE Mine(t)'
  <2>1. ASSUME NEW s \in Threads, App(s) PROVE Mine(t)'
    <3>1. s = t
      BY DEF SingleThread
    <3>2. QED  BY <1>1, <1>2, <2>1, <3>1, AppIs, AppOwn
  <2>2. ASSUME NEW s \in Threads, Library(s) PROVE Mine(t)'
    <3>1. s = t
      BY DEF SingleThread
    <3>2. CASE \E k \in 0..Len(toApp), rest \in BOOLEAN : Receive(t, k, rest)
      BY <1>2, <3>2, ReceiveOwn
    <3>3. CASE \/ ConnectDoes(t) \/ CommandDoes(t) \/ ForgetDoes(t) \/ FailDoes(t)
               \/ \E b \in Buffers : FlushDoes(t, b)
      BY <1>2, <3>3, SendOwn
    <3>4. QED
      BY <1>1, <2>2, <3>1, <3>2, <3>3, ConnectIs, FlushIs, CommandIs, ForgetIs, FailIs DEF Library
  <2>3. ASSUME CoreHandle PROVE Mine(t)'
    BY <1>1, <1>2, <2>3, CoreIs, CoreOwn
  <2>4. ASSUME CoreStart \/ UNCHANGED vars PROVE Mine(t)'
    BY <1>2, <2>4, IdleOwn DEF CoreStart, vars, lib, wire, ghosts
  <2>5. QED  BY <1>2, <2>1, <2>2, <2>3, <2>4, StopOwn DEF Next
<1>3. QED
  BY <1>1, <1>2 DEF Own, Mine, Prompt, Tells, Waiting, Answered, Status, Seen

LEMMA InitOwn == ASSUME Init PROVE Own
<1>1. \A t \in Threads : call[t] = NoCall
  BY DEF Init
<1>2. ASSUME NEW t \in Threads PROVE Mine(t)
  BY <1>1 DEF Init, NoCall, Mine, Prompt, Answered, Status, Seen
<1>3. QED  BY <1>2, InitSync DEF Own

LEMMA AlwaysOwn == ASSUME SingleThread PROVE Spec => []Own
<1>1. Init => Own  BY InitOwn
<1>2. Own /\ [Next]_vars => Own'  BY NextOwn
<1>3. QED  BY <1>1, <1>2, PTL DEF Spec

(* As long as it skips no reply, every call of one thread is answered with *)
(* the whole reply to its own message.                                     *)
THEOREM AnswersAreOwn == ASSUME SingleThread PROVE Spec => []AnswerIsOwn
<1>1. Own => AnswerIsOwn
  BY DEF Own, Mine, Answered, AnswerIsOwn
<1>2. QED  BY <1>1, AlwaysOwn, PTL

(* ... CL_SUCCESS means that the core completed this launch ...            *)
THEOREM StatusesAreTrue == ASSUME SingleThread PROVE Spec => []StatusIsTrue
<1>1. Own => StatusIsTrue
  BY DEF Own, Mine, Status, StatusIsTrue
<1>2. QED  BY <1>1, AlwaysOwn, PTL

(* ... and a read returns what the application's calls put into the        *)
(* buffer.                                                                 *)
THEOREM ReadsSeeContents == ASSUME SingleThread PROVE Spec => []ReadSeesContents
<1>1. Own => ReadSeesContents
  BY DEF Own, Mine, Seen, ReadSeesContents
<1>2. QED  BY <1>1, AlwaysOwn, PTL
----------------------------------------------------------------------------
(* For any number of threads: each line on the socket is waited for, or    *)
(* its reply was skipped.                                                  *)
Waiters == {t \in Threads : Waiting(t)}
Lag == Len(toCore) + Len(toApp) <= skipped + Cardinality(Waiters)

LEMMA WaitersFinite == IsFiniteSet(Waiters) /\ Cardinality(Waiters) \in Nat
<1>1. Waiters \subseteq Threads /\ IsFiniteSet(Threads)
  BY IcdAssumption DEF Waiters
<1>2. QED  BY <1>1, FS_Subset, FS_CardinalityType

LEMMA WaitersChange ==
    ASSUME Base, NEW t \in Threads, \A s \in Threads : s # t => call'[s] = call[s]
    PROVE  /\ Cardinality(Waiters)' \in Nat
           /\ (Waiting(t)' <=> Waiting(t)) => Cardinality(Waiters)' = Cardinality(Waiters)
           /\ ~Waiting(t) /\ Waiting(t)' => Cardinality(Waiters)' = Cardinality(Waiters) + 1
           /\ Waiting(t) /\ ~Waiting(t)' => Cardinality(Waiters)' = Cardinality(Waiters) - 1
<1>1. PICK old, new : old = Waiters /\ new = Waiters'
  OBVIOUS
<1>2. /\ \A s \in Threads : s # t => (s \in new <=> s \in old)
      /\ t \in old <=> Waiting(t)
      /\ t \in new <=> Waiting(t)'
      /\ old \subseteq Threads /\ new \subseteq Threads
  BY <1>1 DEF Waiters, Waiting
<1>3. IsFiniteSet(old) /\ IsFiniteSet(new)
  BY <1>2, IcdAssumption, FS_Subset
<1>4. (Waiting(t)' <=> Waiting(t)) => new = old
  BY <1>2
<1>5. ~Waiting(t) /\ Waiting(t)' => new = old \cup {t} /\ t \notin old
  BY <1>2
<1>6. Waiting(t) /\ ~Waiting(t)' => new = old \ {t} /\ t \in old
  BY <1>2
<1>7. Cardinality(new) \in Nat /\ Cardinality(old) \in Nat
  BY <1>3, FS_CardinalityType
<1>8. t \notin old => Cardinality(old \cup {t}) = Cardinality(old) + 1
  BY <1>3, FS_AddElement
<1>9. t \in old => Cardinality(old \ {t}) = Cardinality(old) - 1
  BY <1>3, FS_RemoveElement
<1>10. QED  BY <1>1, <1>4, <1>5, <1>6, <1>7, <1>8, <1>9

LEMMA LagApp ==
    ASSUME Base, Lag, NEW t \in Threads, AppDoes(t)
    PROVE  Lag'
<1>1. ~Waiting(t) /\ ~Waiting(t)'
  BY NoneAssumption DEF AppDoes, Begins, Waiting, Places
<1>2. Cardinality(Waiters)' = Cardinality(Waiters)
  BY <1>1, WaitersChange DEF AppDoes
<1>3. QED  BY <1>2 DEF AppDoes, Lag

LEMMA LagPost ==
    ASSUME Base, NEW m, Posts(m)
    PROVE  Len(toCore') \in Nat /\ Len(toCore') <= Len(toCore) + 1
BY PostDoes DEF Base, TypeOK

LEMMA LagLibrary ==
    ASSUME Base, Lag, NEW t \in Threads,
           \/ ConnectDoes(t) \/ CommandDoes(t) \/ ForgetDoes(t) \/ FailDoes(t) \/ ReceiveDoes(t)
           \/ \E b \in Buffers : FlushDoes(t, b)
    PROVE  Lag'
<1>1. /\ Len(toCore) \in Nat /\ Len(toApp) \in Nat /\ skipped \in Nat
      /\ Cardinality(Waiters) \in Nat
      /\ Len(toCore) + Len(toApp) <= skipped + Cardinality(Waiters)
  BY WaitersFinite, IcdAssumption DEF Base, TypeOK, Lag
<1>2. ASSUME NEW at, Moves(t, at), ~Waiting(t), at \in {"hello", "answer"} \cup Buffers,
             NEW m, Posts(m), toApp' = toApp, skipped' = skipped
      PROVE  Lag'
  <2>1. Cardinality(Waiters)' = Cardinality(Waiters) + 1
    BY <1>2, WaitersChange DEF Moves, Waiting
  <2>2. QED  BY <1>1, <1>2, <2>1, LagPost DEF Lag
<1>3. ASSUME NEW at, Moves(t, at), ~Waiting(t), at \in {"send", "done"},
             toCore' = toCore, toApp' = toApp, skipped' = skipped
      PROVE  Lag'
  <2>1. ~Waiting(t)'
    BY <1>3, NoneAssumption DEF Moves, Waiting, Places
  <2>2. Cardinality(Waiters)' = Cardinality(Waiters)
    BY <1>3, <2>1, WaitersChange DEF Moves
  <2>3. QED  BY <1>1, <1>3, <2>2 DEF Lag
<1>4. CASE ConnectDoes(t)
  BY <1>2, <1>3, <1>4, WaitsOrNot DEF ConnectDoes
<1>5. CASE CommandDoes(t)
  BY <1>2, <1>5, WaitsOrNot DEF CommandDoes
<1>6. CASE FailDoes(t)
  BY <1>3, <1>6, WaitsOrNot DEF FailDoes
<1>7. ASSUME NEW b \in Buffers, FlushDoes(t, b) PROVE Lag'
  BY <1>2, <1>7, WaitsOrNot DEF FlushDoes
<1>8. CASE ForgetDoes(t)
  <2>1. ~Waiting(t) /\ ~Waiting(t)'
    BY <1>8, NoneAssumption DEF ForgetDoes, Moves, Waiting, Places
  <2>2. Cardinality(Waiters)' = Cardinality(Waiters)
    BY <1>8, <2>1, WaitersChange DEF ForgetDoes, Moves
  <2>3. PICK m : Posts(m)
    BY <1>8 DEF ForgetDoes
  <2>4. QED  BY <1>1, <1>8, <2>2, <2>3, LagPost DEF Lag, ForgetDoes
<1>9. CASE ReceiveDoes(t)
  <2>1. Waiting(t) /\ ~Waiting(t)'
    BY <1>9, NoneAssumption DEF ReceiveDoes, Moves, Waiting, Places
  <2>2. Cardinality(Waiters)' = Cardinality(Waiters) - 1
    BY <1>9, <2>1, WaitersChange DEF ReceiveDoes, Moves
  <2>3. /\ toCore' = toCore /\ skipped' \in Nat /\ Len(toApp') \in Nat
        /\ Len(toApp') + 1 <= Len(toApp) + (skipped' - skipped)
    BY <1>1, <1>9 DEF ReceiveDoes
  <2>4. QED  BY SMTT(20), <1>1, <2>2, <2>3 DEF Lag
<1>10. QED  BY <1>4, <1>5, <1>6, <1>7, <1>8, <1>9

LEMMA LagCore ==
    ASSUME Base, Lag, NEW m, NEW u, CoreDoes(m, u)
    PROVE  Lag'
<1>1. UNCHANGED <<call, skipped>>
  BY DEF CoreDoes, Handles
<1>2. Cardinality(Waiters)' = Cardinality(Waiters)
  BY <1>1 DEF Waiters, Waiting
<1>3. Len(toCore) \in Nat /\ Len(toApp) \in Nat
  BY DEF Base, TypeOK
<1>4. Len(toCore') + Len(toApp') = Len(toCore) + Len(toApp)
  <2>1. Len(toCore') = Len(toCore) - 1 /\ Len(toApp') = Len(toApp) + 1
    BY HandleDoes
  <2>2. PICK n \in Nat, k \in Nat : n = Len(toCore) /\ k = Len(toApp)
    BY <1>3
  <2>3. (n - 1) + (k + 1) = n + k
    OBVIOUS
  <2>4. QED  BY <2>1, <2>2, <2>3
<1>5. QED  BY <1>1, <1>2, <1>4 DEF Lag

(* Each line on the socket is waited for by a call, or belongs to a reply  *)
(* the library skipped.                                                    *)
THEOREM LagIsBounded == Spec => []LagBounded
<1>1. Init => Lag
  <2>1. Init => Len(toCore) = 0 /\ Len(toApp) = 0 /\ skipped = 0
    BY DEF Init
  <2>2. QED  BY <2>1, WaitersFinite DEF Lag
<1>2. Base /\ Lag /\ [Next]_vars => Lag'
  <2> SUFFICES ASSUME Base, Lag, [Next]_vars PROVE Lag'
    OBVIOUS
  <2>1. ASSUME NEW t \in Threads, App(t) \/ Library(t) PROVE Lag'
    BY <2>1, AppIs, LagApp, LibraryIs, LagLibrary
  <2>2. ASSUME CoreHandle PROVE Lag'
    BY <2>2, CoreIs, LagCore
  <2>3. ASSUME CoreStop PROVE Lag'
    <3>1. UNCHANGED <<call, skipped>> /\ toCore' = <<>> /\ toApp' = <<>>
      BY <2>3, StopIs DEF StopDoes
    <3>2. Cardinality(Waiters)' = Cardinality(Waiters)
      BY <3>1 DEF Waiters, Waiting
    <3>3. skipped \in Nat
      BY IcdAssumption DEF Base, TypeOK
    <3>4. Len(toCore') = 0 /\ Len(toApp') = 0
      BY <3>1
    <3>5. QED  BY <3>1, <3>2, <3>3, <3>4, WaitersFinite DEF Lag
  <2>4. ASSUME CoreStart \/ UNCHANGED vars PROVE Lag'
    <3>1. UNCHANGED <<call, skipped, toCore, toApp>>
      BY <2>4 DEF CoreStart, vars, lib, wire, ghosts
    <3>2. QED  BY <3>1 DEF Lag, Waiters, Waiting
  <2>5. QED  BY <2>1, <2>2, <2>3, <2>4 DEF Next
<1>3. Lag => LagBounded
  BY DEF Lag, LagBounded, Waiters
<1>4. QED  BY <1>1, <1>2, <1>3, AlwaysBase, PTL DEF Spec
=============================================================================
