----------------------------- MODULE MCCmdQueue -----------------------------
(* CmdQueue for TLC: three connections share two queues and launch three   *)
(* times, so that a signal is closed, replaced and closed again under a    *)
(* waiting finish.  Two of the launches are of applications that have both *)
(* counted up to the same id.                                              *)
EXTENDS CmdQueue

CONSTANT Namesakes

SharedIds == [cmd \in Cmds |-> IF cmd \in Namesakes THEN CHOOSE k \in Namesakes : TRUE ELSE cmd]
=============================================================================
