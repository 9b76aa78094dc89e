----------------------------- MODULE MCIcdClient -----------------------------
(* IcdClient for TLC: one thread, a kernel on one buffer and on both.      *)
EXTENDS IcdClient

AnyLaunch == {{b} : b \in Buffers} \cup {Buffers}
OneLaunch == {Buffers}
=============================================================================
