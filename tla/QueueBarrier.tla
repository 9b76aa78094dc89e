---------------------------- MODULE QueueBarrier ----------------------------
(***************************************************************************)
(* What a command queue does for the connections that share it, as atomic  *)
(* steps on the work that is left.                                         *)
(*                                                                         *)
(* Launches are submitted to a queue and completed.  A connection that     *)
(* asks for the queue to be finished goes on at once when nothing is left  *)
(* on it, and waits otherwise.  The step that completes the last of the    *)
(* work lets go everybody who waits on that queue, and no other step lets  *)
(* anybody go; who has been let go stays so, whatever is submitted before  *)
(* it gets to run.  How the core notices all this (a signal channel,       *)
(* closed and replaced) is left to CmdQueue, which implements this         *)
(* specification.                                                          *)
(***************************************************************************)
CONSTANTS Conns,    (* IPC connections, one handler goroutine each         *)
          Queues,   (* command queue identities                            *)
          Cmds      (* kernel launches                                     *)

VARIABLES pending,  (* pending[q]: launches on q that are not complete     *)
          waiters,  (* waiters[q]: connections that wait for q             *)
          freed     (* connections let go that have not yet gone on        *)

vars == <<pending, waiters, freed>>

Init ==
    /\ pending = [q \in Queues |-> {}]
    /\ waiters = [q \in Queues |-> {}]
    /\ freed = {}

Submit(q, cmd) ==
    /\ \A p \in Queues : cmd \notin pending[p]
    /\ pending' = [pending EXCEPT ![q] = @ \cup {cmd}]
    /\ UNCHANGED <<waiters, freed>>

(* Launches that carry one id are completed together.                      *)
Complete(q, cmds) ==
    LET left == pending[q] \ cmds
        go   == IF left = {} THEN waiters[q] ELSE {}
    IN  /\ pending' = [pending EXCEPT ![q] = left]
        /\ waiters' = [waiters EXCEPT ![q] = @ \ go]
        /\ freed' = freed \cup go

Await(c, q) ==
    /\ c \notin freed /\ \A p \in Queues : c \notin waiters[p]
    /\ \/ pending[q] = {} /\ freed' = freed \cup {c} /\ UNCHANGED waiters
       \/ pending[q] # {} /\ waiters' = [waiters EXCEPT ![q] = @ \cup {c}] /\ UNCHANGED freed
    /\ UNCHANGED pending

GoOn(c) ==
    /\ c \in freed
    /\ freed' = freed \ {c}
    /\ UNCHANGED <<pending, waiters>>

Next ==
    \/ \E q \in Queues :
         \/ \E cmd \in Cmds : Submit(q, cmd)
         \/ \E cmds \in SUBSET pending[q] : Complete(q, cmds)
         \/ \E c \in Conns : Await(c, q)
    \/ \E c \in Conns : GoOn(c)

Spec == Init /\ [][Next]_vars
=============================================================================
