-------------------------------- MODULE Mutex --------------------------------
(***************************************************************************)
(* What every critical-section method of the repository promises: at any   *)
(* time at most one thread owns the section, and only the owner gives it   *)
(* up.  CSMethods (everything.h and the root headers) and Peterson         *)
(* (Peterson*.h) are checked and proved to implement this specification.   *)
(***************************************************************************)
CONSTANTS Thread,   \* the threads that compete
          Nobody    \* the owner while the section is free

VARIABLE owner

Init == owner = Nobody

Acquire(t) == owner = Nobody /\ owner' = t

Release(t) == owner = t /\ owner' = Nobody

Next == \E t \in Thread : Acquire(t) \/ Release(t)

Spec == Init /\ [][Next]_owner
==============================================================================
