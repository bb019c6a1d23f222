------------------------------ MODULE MCWatchCount ------------------------------
(* Instances of WatchCount for TLC. *)
EXTENDS WatchCount

CONSTANTS inc1, inc2

Two == {inc1, inc2}
==============================================================================
