------------------------------- MODULE MCCleanup -------------------------------
(* The instance of Cleanup for TLC: both programs. *)
EXTENDS Cleanup

Both == {"push", "sem"}
==============================================================================
