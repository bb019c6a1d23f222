---------------------------- MODULE MCIpcInstances ----------------------------
(* The instance of IpcInstances for TLC: all builds. *)
EXTENDS IpcInstances

CONSTANTS p1, p2, p3, t1, t2

ThreeProcs == {p1, p2, p3}
TwoThreads == {t1, t2}
AllBuilds  == DOMAIN Calls
==============================================================================
