------------------------------- MODULE Handover -------------------------------
(***************************************************************************)
(* What the cell of ProducerConsumerSimple.cs promises: the numbers        *)
(* 1 .. quantity are handed over one by one; each is consumed once, in     *)
(* order, and before the next one is produced.                             *)
(***************************************************************************)
EXTENDS Naturals

CONSTANT quantity

VARIABLES produced, consumed   \* the last number produced, and consumed

Init == produced = 0 /\ consumed = 0

Produce ==
  /\ consumed = produced /\ produced < quantity
  /\ produced' = produced + 1
  /\ UNCHANGED consumed

Consume ==
  /\ consumed # produced
  /\ consumed' = produced
  /\ UNCHANGED produced

Next == Produce \/ Consume

Spec == Init /\ [][Next]_<<produced, consumed>>
==============================================================================
