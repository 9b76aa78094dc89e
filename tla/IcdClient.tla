------------------------------ MODULE IcdClient ------------------------------
(***************************************************************************)
(* The OpenCL client library (icd/) of one application, and the handlers   *)
(* of vgpu/server/ipc_server.go its messages reach.                        *)
(*                                                                         *)
(* The library has one socket.  A call sends one line and then reads "the  *)
(* reply": what has arrived on the socket up to a line end, within a time  *)
(* limit.  Replies are not matched with requests.  Each buffer has a       *)
(* staging copy in the library and, once the core was told of it, a copy   *)
(* in the core's video memory; kernels run on the latter.                  *)
(*                                                                         *)
(* Buffer contents are two cells, the first 512 bytes and the rest, each   *)
(* with the number of the write or launch that produced it.  Copies and    *)
(* fills are of whole buffers; the truth about a launch is settled when    *)
(* the core handles it.  A reply line is one unit on the socket, of which  *)
(* a reader with a small buffer may leave a rest.                          *)
(***************************************************************************)
EXTENDS Naturals, Sequences, FiniteSets, SequencesExt

CONSTANTS Threads,      (* threads of the application                      *)
          Buffers,      (* memory objects it may create                    *)
          Long,         (* those of more than 512 bytes                    *)
          Huge,         (* those whose read reply is more than 8 KB        *)
          Launches,     (* the sets of buffers its kernels take            *)
          MaxRequests,  (* bound on messages                               *)
          MaxStamp,     (* bound on host writes and launches               *)
          MaxSkipped,   (* bound on replies not read                       *)
          None

ASSUME IcdAssumption ==
    /\ Huge \subseteq Long /\ Long \subseteq Buffers
    /\ Launches \subseteq SUBSET Buffers
    /\ MaxRequests \in Nat /\ MaxStamp \in Nat /\ MaxSkipped \in Nat
    /\ IsFiniteSet(Threads)

VARIABLES
    alive,      (* the core is listening                                   *)
    socket,     (* none, open, or dead: the core it led to is gone         *)
    host,       (* host[b]: the staging copy; None before clCreateBuffer   *)
    dirty,      (* dirty[b]: mem->staging_dirty                            *)
    call,       (* call[t]: the OpenCL call of thread t, done or not       *)
    toCore,     (* requests on the socket                                  *)
    toApp,      (* reply units on the socket                               *)
    vram,       (* vram[b]: the core's copy, None if there is none         *)
    truth,      (* truth[b]: what the application's calls put into b       *)
    unsynced,   (* buffers with a host write no launch will send           *)
    ran,        (* the last launch that completed in the core              *)
    sent,       (* number of messages sent                                 *)
    stamp,      (* number of host writes and launches                      *)
    skipped     (* number of times the library read no whole reply         *)

lib == <<socket, host, dirty, call, sent>>
wire == <<toCore, toApp>>
ghosts == <<truth, unsynced, stamp, skipped>>
vars == <<alive, lib, wire, vram, ran, ghosts>>

Cells == {"head", "tail"}
CellsOf(b) == IF b \in Long THEN Cells ELSE {"head"}
Filled(b, n) == [c \in Cells |-> IF c \in CellsOf(b) THEN n ELSE 0]

NoCall == [op |-> "none", at |-> "done", bufs |-> {}, req |-> 0, got |-> <<>>, result |-> None]

Init ==
    /\ alive \in BOOLEAN
    /\ socket = "none"
    /\ host = [b \in Buffers |-> None]
    /\ dirty = [b \in Buffers |-> FALSE]
    /\ call = [t \in Threads |-> NoCall]
    /\ toCore = <<>> /\ toApp = <<>>
    /\ vram = [b \in Buffers |-> None]
    /\ truth = [b \in Buffers |-> None]
    /\ unsynced = {}
    /\ ran = None
    /\ sent = 0 /\ stamp = 0 /\ skipped = 0
----------------------------------------------------------------------------
(* The application's calls.                                                *)

SetCall(t, c) == call' = [call EXCEPT ![t] = c]
Begin(t, op, bufs, at) ==
    /\ call[t].at = "done"
    /\ SetCall(t, [NoCall EXCEPT !.op = op, !.at = at, !.bufs = bufs])

(* Calls that connect if need be, and calls that do nothing unconnected.   *)
Connecting == IF socket = "none" THEN "connect" ELSE "send"
IfConnected == IF socket = "none" THEN "done" ELSE "send"

(* clCreateBuffer has returned b.                                          *)
Exists(b) ==
    /\ host[b] # None
    /\ \A t \in Threads : call[t].op = "create" /\ b \in call[t].bufs => call[t].at = "done"

(* The staging copy of b becomes c where the application means it to be t. *)
HostWrites(b, c, t) ==
    /\ host' = [host EXCEPT ![b] = c]
    /\ truth' = [truth EXCEPT ![b] = t]
    /\ unsynced' = IF (host[b] = None \/ dirty[b]) /\ c["head"] = t["head"]
                   THEN unsynced ELSE unsynced \cup {b}

Stamped(b) ==
    /\ stamp < MaxStamp /\ stamp' = stamp + 1
    /\ HostWrites(b, Filled(b, stamp'), Filled(b, stamp'))

CreateBuffer(t, b) ==
    /\ host[b] = None
    /\ Stamped(b)
    /\ Begin(t, "create", {b}, Connecting)
    /\ UNCHANGED <<alive, socket, dirty, sent, wire, vram, ran, skipped>>

(* The message carries no data, and the buffer does not become dirty.      *)
EnqueueWriteBuffer(t, b) ==
    /\ Exists(b)
    /\ Stamped(b)
    /\ Begin(t, "write", {b}, IfConnected)
    /\ UNCHANGED <<alive, socket, dirty, sent, wire, vram, ran, skipped>>

EnqueueFillBuffer(t, b) ==
    /\ Exists(b) /\ call[t].at = "done"
    /\ Stamped(b)
    /\ UNCHANGED <<alive, socket, dirty, call, sent, wire, vram, ran, skipped>>

(* Staging to staging.                                                     *)
EnqueueCopyBuffer(t, a, b) ==
    LET Copied(of) == [c \in Cells |-> IF c \in CellsOf(a) THEN of[a][c] ELSE of[b][c]] IN
    /\ Exists(a) /\ Exists(b) /\ call[t].at = "done"
    /\ a # b /\ CellsOf(a) \subseteq CellsOf(b)
    /\ HostWrites(b, Copied(host), Copied(truth))
    /\ UNCHANGED <<alive, socket, dirty, call, sent, wire, vram, ran, stamp, skipped>>

ReadBuffer(t, b) ==
    /\ Exists(b)
    /\ SetCall(t, [NoCall EXCEPT !.op = "read", !.at = IfConnected, !.bufs = {b},
                                 !.result = IF socket = "none" THEN host[b] ELSE None])
    /\ call[t].at = "done"
    /\ UNCHANGED <<alive, socket, host, dirty, sent, wire, vram, ran, ghosts>>

EnqueueNDRange(t, bufs) ==
    /\ \A b \in bufs : Exists(b)
    /\ Begin(t, "launch", bufs, Connecting)
    /\ UNCHANGED <<alive, socket, host, dirty, sent, wire, vram, ran, ghosts>>

(* clFinish, clFlush and clBuildProgram.                                   *)
PlainCall(t, op) ==
    /\ op \in {"finish", "flush", "build"}
    /\ Begin(t, op, {}, IF op = "build" THEN Connecting ELSE IfConnected)
    /\ UNCHANGED <<alive, socket, host, dirty, sent, wire, vram, ran, ghosts>>
----------------------------------------------------------------------------
(* The socket.                                                             *)

SendOn(state, m) ==
    /\ sent < MaxRequests /\ sent' = sent + 1
    /\ toCore' = IF state = "open" THEN Append(toCore, m) ELSE toCore

Send(m) == SendOn(socket, m)
Msg(op, bufs, data) == [op |-> op, bufs |-> bufs, data |-> data, id |-> sent + 1]
Go(t, at) == SetCall(t, [call[t] EXCEPT !.at = at])
End(t, result) == SetCall(t, [call[t] EXCEPT !.at = "done", !.result = result])

(* ipc_connect.  Without a core a buffer is created in the library only,   *)
(* and a launch fails.                                                     *)
Connect(t) ==
    /\ call[t].at = "connect"
    /\ \/ /\ socket # "none"
          /\ Go(t, "send")
          /\ UNCHANGED <<socket, sent, toCore>>
       \/ /\ socket = "none" /\ alive
          /\ socket' = "open"
          /\ SendOn("open", Msg("hello", {}, None))
          /\ Go(t, "hello")
       \/ /\ socket = "none" /\ ~alive
          /\ End(t, IF call[t].op = "launch" THEN "error" ELSE None)
          /\ UNCHANGED <<socket, sent, toCore>>
    /\ UNCHANGED <<alive, host, dirty, toApp, vram, ran, ghosts>>

(* A launch first sends the first 512 bytes of each dirty buffer ...       *)
SlipLaunchFirst(t) == {}
ToFlush(t) == {b \in call[t].bufs : call[t].op = "launch" /\ dirty[b]}

SendFlush(t, b) ==
    /\ call[t].at = "send"
    /\ b \in ToFlush(t)
    /\ Send(Msg("write", {b}, host[b]["head"]))
    /\ SetCall(t, [call[t] EXCEPT !.at = b])
    /\ UNCHANGED <<alive, socket, host, dirty, toApp, vram, ran, ghosts>>

(* ... and then its own message.                                           *)
SlipPostedWrite(op) == IF op = "write" THEN "done" ELSE "answer"
AfterSend(op) == "answer"

SendCommand(t) ==
    /\ call[t].at = "send"
    /\ call[t].op # "flush"
    /\ ToFlush(t) = {}
    /\ Send(Msg(call[t].op, call[t].bufs, None))
    /\ SetCall(t, [call[t] EXCEPT !.at = AfterSend(call[t].op), !.req = sent'])
    /\ UNCHANGED <<alive, socket, host, dirty, toApp, vram, ran, ghosts>>

(* clFlush sends queue_finish and does not wait for the reply.             *)
SendAndForget(t) ==
    /\ call[t].at = "send"
    /\ call[t].op = "flush"
    /\ Send(Msg("finish", {}, None))
    /\ End(t, None)
    /\ skipped < MaxSkipped /\ skipped' = skipped + 1
    /\ UNCHANGED <<alive, socket, host, dirty, toApp, vram, ran, truth, unsynced, stamp>>

(* The peer is gone and send fails: only a launch looks at that.           *)
SendFails(t) ==
    /\ call[t].at = "send" /\ socket = "dead"
    /\ call[t].op = "launch"
    /\ End(t, "error")
    /\ UNCHANGED <<alive, socket, host, dirty, sent, wire, vram, ran, ghosts>>

Waiting(t) == call[t].at \in {"hello", "answer"} \cup Buffers

(* One ipc_recv_response takes what has arrived, up to the end of a line   *)
(* or of its buffer: k units and, if rest, a part of the next one.  By the *)
(* time limit or a closed socket it may return with less, or nothing.      *)
(* No buffer of the library holds a huge reply.                            *)
Units(k, rest) ==
    SubSeq(toApp, 1, k) \o IF rest THEN <<[toApp[k + 1] EXCEPT !.whole = FALSE]>> ELSE <<>>
Takes(k, rest) ==
    /\ \A j \in 1..k : toApp[j].kind = "data" => toApp[j].bufs \cap Huge = {}
    /\ rest => k < Len(toApp) /\ toApp[k + 1].kind \in {"data", "rest"}
Leaves(k, rest) ==
    IF rest THEN <<[toApp[k + 1] EXCEPT !.kind = "rest"]>> \o SubSeq(toApp, k + 2, Len(toApp))
    ELSE SubSeq(toApp, k + 1, Len(toApp))

(* clEnqueueReadBuffer: the data of the first data reply, if it is whole   *)
(* and fits; the staging copy otherwise.                                   *)
SlipStagingFirst(b, got) == host[b]
DataRead(b, got) ==
    LET IsFirst(j) == got[j].kind = "data" /\ \A i \in 1..(j - 1) : got[i].kind # "data"
        Fits(u)    == u.whole /\ (b \in Long \/ u.bufs \cap Long = {})
        Usable     == {j \in 1..Len(got) : IsFirst(j) /\ Fits(got[j])}
    IN  IF Usable # {} THEN got[CHOOSE j \in Usable : TRUE].data ELSE host[b]

(* clEnqueueNDRangeKernel: an error if the reply says so.                  *)
SlipAlwaysSuccess(got) == "success"
LaunchStatus(got) == IF \E u \in Range(got) : u.kind = "error" THEN "error" ELSE "success"

Result(t, got) ==
    LET op == call[t].op IN
    IF op = "read" THEN DataRead(CHOOSE b \in call[t].bufs : TRUE, got)
    ELSE IF op = "launch" THEN LaunchStatus(got) ELSE None

DirtyAfter(t) ==
    LET at == call[t].at IN
    [b \in Buffers |->
        IF at = b THEN FALSE
        ELSE IF at = "answer" /\ call[t].op = "create" /\ b \in call[t].bufs THEN TRUE
        ELSE dirty[b]]

Receive(t, k, rest) ==
    LET got == Units(k, rest) IN
    /\ Waiting(t)
    /\ Takes(k, rest)
    /\ toApp' = Leaves(k, rest)
    /\ skipped' = IF got # <<>> /\ ~rest THEN skipped ELSE skipped + 1
    /\ skipped' <= MaxSkipped
    /\ dirty' = DirtyAfter(t)
    /\ IF call[t].at = "answer"
       THEN SetCall(t, [call[t] EXCEPT !.at = "done", !.got = got, !.result = Result(t, got)])
       ELSE Go(t, "send")
    /\ UNCHANGED <<alive, socket, host, sent, toCore, vram, ran, truth, unsynced, stamp>>
----------------------------------------------------------------------------
(* The core handles the messages of a connection one by one.               *)

Unit(m, kind, data) ==
    [of |-> m.id, bufs |-> m.bufs, kind |-> kind, data |-> data, whole |-> TRUE]
SlipAnswerTwice(m, kind, data) == toApp' = toApp \o <<Unit(m, kind, data), Unit(m, kind, data)>>
Answer(m, kind, data) == toApp' = Append(toApp, Unit(m, kind, data))
Known(m) == \A b \in m.bufs : vram[b] # None

(* Allocate fails when video memory is full.                               *)
HandleCreate(m) ==
    /\ \/ /\ vram' = [b \in Buffers |-> IF b \in m.bufs THEN Filled(b, 0) ELSE vram[b]]
          /\ Answer(m, "ok", None)
       \/ UNCHANGED vram /\ Answer(m, "error", None)
    /\ UNCHANGED <<truth, unsynced, stamp, ran>>

(* A write without data changes nothing.                                   *)
HandleWrite(m) ==
    /\ vram' = [b \in Buffers |->
                  IF b \in m.bufs /\ vram[b] # None /\ m.data # None
                  THEN [vram[b] EXCEPT !["head"] = m.data] ELSE vram[b]]
    /\ Answer(m, IF Known(m) THEN "ok" ELSE "error", None)
    /\ UNCHANGED <<truth, unsynced, stamp, ran>>

HandleRead(m) ==
    /\ IF Known(m) THEN \E b \in m.bufs : Answer(m, "data", vram[b])
       ELSE Answer(m, "error", None)
    /\ UNCHANGED <<vram, truth, unsynced, stamp, ran>>

(* A launch computes new contents of some of its buffers, and fails or     *)
(* not; that it may go on after its reply is the subject of Dispatch.      *)
HandleNDRange(m) ==
    \E outs \in SUBSET {b \in m.bufs : vram[b] # None} :
      LET New(of) == [b \in Buffers |-> IF b \in outs THEN Filled(b, stamp') ELSE of[b]] IN
      /\ stamp' = IF outs = {} THEN stamp ELSE stamp + 1
      /\ stamp' <= MaxStamp
      /\ vram' = New(vram) /\ truth' = New(truth)
      /\ unsynced' = unsynced \ outs
      /\ \/ Answer(m, "error", None) /\ UNCHANGED ran
         \/ /\ Answer(m, "ok", None)
            /\ ran' = [id    |-> m.id,
                       saw   |-> [b \in m.bufs |-> vram[b]],
                       wants |-> [b \in m.bufs |-> truth[b]],
                       stale |-> m.bufs \cap unsynced]

HandlePlain(m) == Answer(m, "ok", None) /\ UNCHANGED <<vram, truth, unsynced, stamp, ran>>

CoreHandle ==
    /\ alive /\ toCore # <<>>
    /\ LET m == Head(toCore) IN
         \/ m.op = "create" /\ HandleCreate(m)
         \/ m.op = "write" /\ HandleWrite(m)
         \/ m.op = "read" /\ HandleRead(m)
         \/ m.op = "launch" /\ HandleNDRange(m)
         \/ m.op \in {"hello", "finish", "build"} /\ HandlePlain(m)
    /\ toCore' = Tail(toCore)
    /\ UNCHANGED <<alive, lib, skipped>>

CoreStart ==
    /\ ~alive /\ alive' = TRUE
    /\ UNCHANGED <<lib, wire, vram, ran, ghosts>>

(* The library keeps the socket for good: it never connects again.         *)
CoreStop ==
    /\ alive /\ alive' = FALSE
    /\ socket' = IF socket = "open" THEN "dead" ELSE socket
    /\ toCore' = <<>> /\ toApp' = <<>>
    /\ vram' = [b \in Buffers |-> None]
    /\ UNCHANGED <<host, dirty, call, sent, ran, ghosts>>
----------------------------------------------------------------------------
App(t) ==
    \/ \E b \in Buffers :
         CreateBuffer(t, b) \/ EnqueueWriteBuffer(t, b) \/ EnqueueFillBuffer(t, b) \/ ReadBuffer(t, b)
    \/ \E a, b \in Buffers : EnqueueCopyBuffer(t, a, b)
    \/ \E bufs \in Launches : EnqueueNDRange(t, bufs)
    \/ \E op \in {"finish", "flush", "build"} : PlainCall(t, op)

Library(t) ==
    \/ Connect(t) \/ SendCommand(t) \/ SendAndForget(t) \/ SendFails(t)
    \/ \E b \in Buffers : SendFlush(t, b)
    \/ \E k \in 0..Len(toApp), rest \in BOOLEAN : Receive(t, k, rest)

Next ==
    \/ \E t \in Threads : App(t) \/ Library(t)
    \/ CoreHandle \/ CoreStart \/ CoreStop

Spec == Init /\ [][Next]_vars
----------------------------------------------------------------------------
Stamps == 0..MaxStamp
Contents == [Cells -> Stamps] \cup {None}
Ids == 1..MaxRequests

Requests == [op   : {"hello", "create", "write", "read", "launch", "finish", "build"},
             bufs : SUBSET Buffers,
             data : Stamps \cup {None},
             id   : Ids]
Replies == [of    : Ids,
            bufs  : SUBSET Buffers,
            kind  : {"ok", "error", "data", "rest"},
            data  : Contents,
            whole : BOOLEAN]
Places == {"connect", "hello", "send", "answer", "done"}
CallsOf(ops, results) ==
    [op     : ops,
     at     : Places \cup Buffers,
     bufs   : SUBSET Buffers,
     req    : Ids \cup {0},
     got    : Seq(Replies),
     result : results]
Calls == CallsOf({"launch"}, {None, "success", "error"})
         \cup CallsOf({"none", "create", "write", "read", "finish", "flush", "build"}, Contents)
Copies == UNION {[bufs -> Contents] : bufs \in SUBSET Buffers}
Runs == [id : Ids, saw : Copies, wants : Copies, stale : SUBSET Buffers]

(* What is in a variable is told apart.                                    *)
ASSUME NoneAssumption ==
    /\ None \notin [Cells -> Stamps] \cup Stamps \cup Runs \cup {"success", "error"}
    /\ Buffers \cap Places = {}

(* Every variable has its type: the client's objects, the lines on the     *)
(* socket and the core's copies.                                           *)
TypeOK ==
    /\ alive \in BOOLEAN
    /\ socket \in {"none", "open", "dead"}
    /\ host \in [Buffers -> Contents] /\ truth \in [Buffers -> Contents]
    /\ vram \in [Buffers -> Contents]
    /\ dirty \in [Buffers -> BOOLEAN]
    /\ unsynced \subseteq Buffers
    /\ call \in [Threads -> Calls]
    /\ toCore \in Seq(Requests)
    /\ toApp \in Seq(Replies) /\ \A i \in 1..Len(toApp) : toApp[i].whole
    /\ ran \in Runs \cup {None}
    /\ sent \in 0..MaxRequests /\ stamp \in Stamps /\ skipped \in 0..MaxSkipped

(* The socket is out of step by at most one line for every reply the       *)
(* library did not read (a flush, a time limit, a reply cut short): what   *)
(* is under way is one line per waiting call and one per skipped reply.    *)
LagBounded ==
    Len(toCore) + Len(toApp)
        <= skipped + Cardinality({t \in Threads : Waiting(t)})

(* As long as no reply was skipped, a call of a single-threaded            *)
(* application is answered with the whole reply to its own message,        *)
(* although nothing compares the ids.                                      *)
AnswerIsOwn ==
    skipped = 0 =>
        \A t \in Threads : call[t].at = "done" /\ call[t].req # 0 =>
            /\ Len(call[t].got) = 1
            /\ call[t].got[1].of = call[t].req /\ call[t].got[1].whole

(* As long as no reply was skipped, clEnqueueNDRangeKernel returns         *)
(* CL_SUCCESS only for a launch the core completed.                        *)
StatusIsTrue ==
    skipped = 0 =>
        \A t \in Threads : call[t].at = "done" /\ call[t].op = "launch" /\ call[t].result = "success" =>
            ran # None /\ ran.id = call[t].req

(* As long as no reply was skipped, clEnqueueReadBuffer returns what the   *)
(* application's calls put into the buffer (its first 512 bytes), whether  *)
(* the core or the staging copy has it, if a launch has flushed the buffer *)
(* and the application has not written it since.                           *)
ReadSeesContents ==
    skipped = 0 =>
        \A t \in Threads : call[t].at = "done" /\ call[t].op = "read" =>
            \A b \in call[t].bufs : ~dirty[b] /\ b \notin unsynced =>
                call[t].result["head"] = truth[b]["head"]

(* Whatever happens to replies and to the core, a kernel computes on what  *)
(* the application put into its buffers (their first 512 bytes), but for   *)
(* buffers the application wrote after a launch had flushed them, or       *)
(* copied from a staging copy that no longer held the contents.            *)
LaunchSeesTruth ==
    ran # None =>
        \A b \in DOMAIN ran.saw \ ran.stale :
            ran.saw[b] # None => ran.saw[b]["head"] = ran.wants[b]["head"]

(* A kernel computes on what the application put into its buffers: what    *)
(* clEnqueueWriteBuffer and its comment promise without exception.         *)
LaunchSeesWrites ==
    ran # None =>
        \A b \in DOMAIN ran.saw :
            ran.saw[b] # None => ran.saw[b]["head"] = ran.wants[b]["head"]
=============================================================================
