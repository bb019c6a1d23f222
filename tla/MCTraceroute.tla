---- MODULE MCTraceroute ----
(* Command lines for Traceroute: the limits passed, missed and exceeded. *)
EXTENDS Traceroute

CommandLines ==
    {[m |-> 2, q |-> 3, f |-> 1, p |-> 0, U |-> FALSE],
     [m |-> 3, q |-> 2, f |-> 2, p |-> 0, U |-> TRUE],
     [m |-> 5, q |-> 0, f |-> 1, p |-> 14, U |-> FALSE],
     [m |-> 0, q |-> 9, f |-> 1, p |-> 15, U |-> TRUE],
     [m |-> 1, q |-> 9, f |-> 3, p |-> 17, U |-> FALSE]}
====
