----------------------------- MODULE MCEchoServer -----------------------------
(* Instances of EchoServer for TLC. *)
EXTENDS EchoServer

CONSTANTS c1, c2, c3

ThreeClients == {c1, c2, c3}
OneTalks == [c \in ThreeClients |-> IF c = c1 THEN 2 ELSE 1]
Both == {"multi", "single"}
Full == {6, 7}     \* as large as the fd_set, and larger
==============================================================================
