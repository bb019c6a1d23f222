-------------------------------- MODULE CondVar --------------------------------
(***************************************************************************)
(* A POSIX mutex and one condition variable, as the programs of            *)
(* 05-synchronization use them.  pthread_cond_wait releases the mutex and  *)
(* starts to wait in one step; a waiting thread is woken by a signal or,   *)
(* where the instance allows it, for no reason (pthread_cond_wait(3p)), and *)
(* has to get the mutex again before it returns.                           *)
(***************************************************************************)
CONSTANTS
  Nobody,     \* the owner of a free mutex
  Spurious    \* whether pthread_cond_wait may return without a signal

ASSUME SpuriousAssumption == Spurious \in BOOLEAN

VARIABLES
  owner,      \* the thread that holds the mutex
  waiting     \* the threads asleep in pthread_cond_wait

CondInit == owner = Nobody /\ waiting = {}

CondTypeOK(Thread) ==
  /\ owner \in Thread \cup {Nobody}
  /\ waiting \subseteq Thread

\* pthread_mutex_lock, and the end of pthread_cond_wait, for a thread that is awake
Lock(t) ==
  /\ owner = Nobody /\ t \notin waiting
  /\ owner' = t
  /\ UNCHANGED waiting

Unlock(t) ==
  /\ owner = t
  /\ owner' = Nobody
  /\ UNCHANGED waiting

\* The first half of pthread_cond_wait
Wait(t) ==
  /\ owner = t
  /\ owner' = Nobody
  /\ waiting' = waiting \cup {t}

\* pthread_cond_signal: one of the waiting threads wakes up; without one it is lost.
Signal ==
  /\ \/ \E t \in waiting : waiting' = waiting \ {t}
     \/ waiting = {} /\ UNCHANGED waiting
  /\ UNCHANGED owner

WakeSpuriously(t) ==
  /\ Spurious /\ t \in waiting
  /\ waiting' = waiting \ {t}
  /\ UNCHANGED owner
==============================================================================
