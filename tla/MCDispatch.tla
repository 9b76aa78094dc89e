----------------------------- MODULE MCDispatch -----------------------------
(* Dispatch for TLC: launches are numbered and their ids are unique.       *)
EXTENDS Dispatch

OneLaunch == 1..1
TwoLaunches == 1..2
UniqueIds == [r \in Requests |-> r]
=============================================================================
