----------------------------- MODULE MCMessagesSV -----------------------------
(* Instances of MessagesSV for TLC: processes are numbers. *)
EXTENDS MessagesSV

Three == {1, 2, 3}
Two == {4, 5}
Forked == [p \in Three |-> p + 10]
Both == {"fork", "args"}
==============================================================================
