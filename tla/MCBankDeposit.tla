---------------------------- MODULE MCBankDeposit ----------------------------
(* Small instances of BankDeposit for TLC. *)
EXTENDS BankDeposit

ThreeThreads == 0 .. 2
==============================================================================
