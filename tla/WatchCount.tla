------------------------------ MODULE WatchCount ------------------------------
(***************************************************************************)
(* 05-synchronization/sync_cond_var.c: threads increment count under a     *)
(* mutex, the one that makes it COUNT_THRESHOLD signals the condition      *)
(* variable, and a watcher that may have waited for this adds BONUS to it. *)
(***************************************************************************)
EXTENDS CondVar, Integers, FiniteSets

CONSTANTS
  Incrementers,     \* the threads in inc_count (two)
  Watcher,          \* the thread in watch_count
  TCOUNT,           \* increments of each (10)
  COUNT_THRESHOLD,  \* the value watched for (12)
  BONUS             \* what the watcher adds (100)

\* The threshold is within reach without the watcher's help.
ASSUME WatchAssumption ==
  /\ IsFiniteSet(Incrementers)
  /\ Watcher \notin Incrementers /\ Nobody \notin Incrementers \cup {Watcher}
  /\ TCOUNT \in Nat /\ COUNT_THRESHOLD \in Nat /\ BONUS \in Nat
  /\ COUNT_THRESHOLD <= TCOUNT * Cardinality(Incrementers)

VARIABLES
  count,
  pc,          \* pc[t]: where the thread is
  reg,         \* reg[t]: the value loaded by count++ or count += 100
  i,           \* i[t]: the loop counter of inc_count
  returned,    \* how the watcher's wait ended: "not", "signal", "spurious"
  alive        \* the mutex and the condition variable exist

vars == <<owner, waiting, count, pc, reg, i, returned, alive>>

Thread == Incrementers \cup {Watcher}

IncPos   == {"none", "lock", "load", "store", "test", "unlock", "gone"}
WatchPos == {"none", "lock", "test", "waiting", "load", "store", "unlock", "gone"}

TypeOK ==
  /\ CondTypeOK(Thread)
  /\ count \in 0 .. TCOUNT * Cardinality(Incrementers) + BONUS
  /\ pc \in [Thread -> IncPos \cup WatchPos]
  /\ \A t \in Incrementers : pc[t] \in IncPos
  /\ pc[Watcher] \in WatchPos
  /\ reg \in [Thread -> 0 .. TCOUNT * Cardinality(Incrementers) + BONUS]
  /\ i \in [Incrementers -> 0 .. TCOUNT]
  /\ returned \in {"not", "signal", "spurious"}
  /\ alive \in BOOLEAN

\* main has initialized the objects; it creates the threads one after another.
Init ==
  /\ CondInit
  /\ count = 0
  /\ pc = [t \in Thread |-> "none"]
  /\ reg = [t \in Thread |-> 0]
  /\ i = [t \in Incrementers |-> 0]
  /\ returned = "not"
  /\ alive = TRUE

------------------------------------------------------------------------------
Goto(t, from, to) ==
  /\ pc[t] = from
  /\ pc' = [pc EXCEPT ![t] = to]
  /\ UNCHANGED alive

\* The load and the store of count += n.
Load(t) ==
  /\ Goto(t, "load", "store")
  /\ reg' = [reg EXCEPT ![t] = count]
  /\ UNCHANGED <<owner, waiting, count, i, returned>>

Store(t, n, next) ==
  /\ Goto(t, "store", next)
  /\ count' = reg[t] + n
  /\ UNCHANGED <<owner, waiting, reg, i, returned>>

IncLock(t) ==
  /\ Goto(t, "lock", "load") /\ Lock(t)
  /\ UNCHANGED <<count, reg, i, returned>>

\* MUTANT of IncTest: the signal comes one too early.
MutSignalEarly(t) ==
  /\ Goto(t, "test", "unlock")
  /\ IF count = COUNT_THRESHOLD - 1 THEN Signal ELSE UNCHANGED <<owner, waiting>>
  /\ UNCHANGED <<count, reg, i, returned>>

\* if (count == COUNT_THRESHOLD) pthread_cond_signal
IncTest(t) ==
  /\ Goto(t, "test", "unlock")
  /\ IF count = COUNT_THRESHOLD THEN Signal ELSE UNCHANGED <<owner, waiting>>
  /\ UNCHANGED <<count, reg, i, returned>>

\* Unlock, sleep and the next round; the sleep is the time before the next lock.
IncUnlock(t) ==
  /\ Goto(t, "unlock", IF i[t] + 1 < TCOUNT THEN "lock" ELSE "gone") /\ Unlock(t)
  /\ i' = [i EXCEPT ![t] = @ + 1]
  /\ UNCHANGED <<count, reg, returned>>

IncCount(t) ==
  IncLock(t) \/ Load(t) \/ Store(t, 1, "test") \/ IncTest(t) \/ IncUnlock(t)

------------------------------------------------------------------------------
WatchLock ==
  /\ Goto(Watcher, "lock", "test") /\ Lock(Watcher)
  /\ UNCHANGED <<count, reg, i, returned>>

\* MUTANT of WatchTest: waits whatever count is.
MutWaitAlways ==
  /\ Goto(Watcher, "test", "waiting") /\ Wait(Watcher)
  /\ UNCHANGED <<count, reg, i, returned>>

\* if (count < COUNT_THRESHOLD) pthread_cond_wait
WatchTest ==
  /\ \/ count < COUNT_THRESHOLD /\ Goto(Watcher, "test", "waiting") /\ Wait(Watcher)
     \/ /\ count >= COUNT_THRESHOLD /\ Goto(Watcher, "test", "load")
        /\ UNCHANGED <<owner, waiting>>
  /\ UNCHANGED <<count, reg, i, returned>>

\* pthread_cond_wait returns: an if, so that count is not looked at again.
WatchReturn ==
  /\ Goto(Watcher, "waiting", "load") /\ Lock(Watcher)
  /\ returned' = IF returned = "spurious" THEN returned ELSE "signal"
  /\ UNCHANGED <<count, reg, i>>

WatchUnlock ==
  /\ Goto(Watcher, "unlock", "gone") /\ Unlock(Watcher)
  /\ UNCHANGED <<count, reg, i, returned>>

WatchCount ==
  WatchLock \/ WatchTest \/ WatchReturn \/ Load(Watcher) \/ Store(Watcher, BONUS, "unlock")
  \/ WatchUnlock

Wake ==
  /\ WakeSpuriously(Watcher)
  /\ returned' = "spurious"
  /\ UNCHANGED <<count, pc, reg, i, alive>>

------------------------------------------------------------------------------
\* pthread_create, the watcher first; its result is not looked at.
Create(t) ==
  /\ t # Watcher => pc[Watcher] # "none"
  /\ Goto(t, "none", "lock")
  /\ UNCHANGED <<owner, waiting, count, reg, i, returned>>

\* All joined: the mutex and the condition variable are destroyed.
Destroy ==
  /\ alive /\ \A t \in Thread : pc[t] = "gone"
  /\ alive' = FALSE
  /\ UNCHANGED <<owner, waiting, count, pc, reg, i, returned>>

Main == (\E t \in Thread : Create(t)) \/ Destroy

Stopped == ~alive /\ UNCHANGED vars

Next == (\E t \in Incrementers : IncCount(t)) \/ WatchCount \/ Wake \/ Main \/ Stopped

Spec == Init /\ [][Next]_vars

\* Every thread that can go on does; nobody relies on a spurious wakeup, and the mutex
\* need not be fair.
FairSpec ==
  /\ Spec /\ WF_vars(Main) /\ WF_vars(WatchCount)
  /\ \A t \in Incrementers : WF_vars(IncCount(t))
------------------------------------------------------------------------------
\* ConditionMet: the watcher acts "after the condition is met" (line 84).
ConditionMet == pc[Watcher] \in {"load", "store"} => count >= COUNT_THRESHOLD

\* MetIfSignalled: it does, unless its wait ended without a signal.
MetIfSignalled == returned # "spurious" => ConditionMet

\* Ends: main gets to its end, so no wakeup is lost (lines 73-75).
Ends == <>~alive
==============================================================================
