------------------------------ MODULE CSMethods ------------------------------
(***************************************************************************)
(* The critical-section library everything.h: cs_init, cs_destroy,         *)
(* cs_enter and cs_leave for its ten methods, used by several threads of   *)
(* one process.  The headers locked_testAset_xchng.h, mutex_sem_namedSem.h,*)
(* sem_sysv.h, messageQueue_posix.h and messageQueue_sysV.h are the same   *)
(* methods, a few at a time.                                               *)
(*                                                                         *)
(* One action is one access to the shared object the method is built on,   *)
(* so the methods that test and then set take two.  A call that blocks     *)
(* (or spins) is an action that is not enabled; the loop iterations that   *)
(* change nothing are stuttering steps.                                    *)
(***************************************************************************)
EXTENDS Naturals

CONSTANTS Thread,    \* the threads of the process
          Nobody,    \* "no thread"
          Methods    \* the values of the -m option considered

BusyWait  == {"LOCKED", "XCHG", "TEST_XCHG"}
Semaphore == {"SEM_POSIX", "SEM_POSIX_NAMED", "SEM_SYSV"}
Queue     == {"MQ_POSIX", "MQ_SYSV"}
AllMethods == {"ATOMIC", "MUTEX"} \cup BusyWait \cup Semaphore \cup Queue

\* The methods that keep the section exclusive: not ATOMIC, which does nothing,
\* and not LOCKED, whose test and set are two accesses.
Sound == AllMethods \ {"ATOMIC", "LOCKED"}

ASSUME CSAssumption == Nobody \notin Thread /\ Methods \subseteq AllMethods

VARIABLES
  cs_method_used,    \* "none" until cs_init stores the method
  cs_var_allocated,  \* cs_init completed, cs_destroy not yet called
  usable,            \* the object exists: calls on it synchronise
  locked,            \* volatile bool locked (LOCKED, TEST_XCHG)
  locked_atomic,     \* atomic_flag (XCHG)
  cs_mutex,          \* the owner of the pthread mutex
  cs_sem,            \* value of cs_sem, *cs_named_sem or the System V semaphore
  cs_queue,          \* messages in the POSIX or System V queue
  at                 \* where each thread is: "out", in cs_enter, or "in"

object == <<locked, locked_atomic, cs_mutex, cs_sem, cs_queue>>
setup  == <<cs_method_used, cs_var_allocated, usable>>
csvars == <<setup, object, at>>

Bit == {0, 1}

CSTypeOK ==
  /\ cs_method_used \in AllMethods \cup {"none", "undefined"}
  /\ cs_var_allocated \in BOOLEAN
  /\ usable \in BOOLEAN
  /\ locked \in BOOLEAN
  /\ locked_atomic \in BOOLEAN
  /\ cs_mutex \in Thread \cup {Nobody}
  /\ cs_sem \in Bit
  /\ cs_queue \in Bit
  /\ at \in [Thread -> {"out", "call", "store", "in"}]

\* Static initialisation: all zero, no method chosen.
CSInit ==
  /\ cs_method_used = "none"
  /\ cs_var_allocated = FALSE
  /\ usable = FALSE
  /\ locked = FALSE
  /\ locked_atomic = FALSE
  /\ cs_mutex = Nobody
  /\ cs_sem = 0
  /\ cs_queue = 0
  /\ at = [t \in Thread |-> "out"]

------------------------------------------------------------------------------

\* cs_init up to its end: the object exists, is free, and holds its one token.
cs_init(m) ==
  /\ cs_method_used = "none" /\ m \in AllMethods
  /\ cs_method_used' = m
  /\ cs_sem' = IF m \in Semaphore THEN 1 ELSE cs_sem
  /\ cs_queue' = IF m \in Queue THEN 1 ELSE cs_queue
  /\ cs_var_allocated' = TRUE
  /\ usable' = TRUE
  /\ UNCHANGED <<locked, locked_atomic, cs_mutex, at>>

\* cs_init calls exit: the method is not defined, or a system call of one of the
\* methods that allocate something failed.  cs_var_allocated stays false.
cs_init_fails(m) ==
  /\ cs_method_used = "none" /\ m \notin BusyWait \cup {"ATOMIC"}
  /\ cs_method_used' = m
  /\ UNCHANGED <<cs_var_allocated, usable, object, at>>

\* What is left of the object after cs_destroy: the busy-wait variables are not
\* touched, sem_destroy leaves the value in place, and pthread_mutex_destroy
\* refuses (EBUSY, only reported) a mutex that is locked.
Survives ==
  \/ cs_method_used \in BusyWait \cup {"ATOMIC", "SEM_POSIX"}
  \/ cs_method_used = "MUTEX" /\ cs_mutex # Nobody

\* cs_destroy: nothing to do unless allocated; the flag is reset whatever the
\* calls return.
cs_destroy ==
  /\ cs_var_allocated' = FALSE
  /\ usable' = IF cs_var_allocated THEN Survives ELSE usable
  /\ UNCHANGED <<cs_method_used, object, at>>

------------------------------------------------------------------------------
Using(m) == usable /\ cs_method_used = m
UsingSemaphore == usable /\ cs_method_used \in Semaphore
UsingQueue == usable /\ cs_method_used \in Queue

\* A step of thread t inside cs_enter or cs_leave
Goto(t, from, to) ==
  /\ at[t] = from
  /\ at' = [at EXCEPT ![t] = to]
  /\ UNCHANGED setup

\* The thread calls cs_enter.
Call(t) == Goto(t, "out", "call") /\ UNCHANGED object

AtomicEnter(t) ==
  /\ Using("ATOMIC")
  /\ Goto(t, "call", "in")
  /\ UNCHANGED object

\* while (locked) ...: the loop ends when it reads false; TEST_XCHG's
\* atomic_load is the same read.
TestLocked(t) ==
  /\ Using("LOCKED") \/ Using("TEST_XCHG")
  /\ ~locked
  /\ Goto(t, "call", "store")
  /\ UNCHANGED object

\* locked = true, in a statement of its own
StoreLocked(t) ==
  /\ Using("LOCKED")
  /\ Goto(t, "store", "in")
  /\ locked' = TRUE
  /\ UNCHANGED <<locked_atomic, cs_mutex, cs_sem, cs_queue>>

\* MUTANT of ExchangeLocked: the result of the exchange is not tested.
MutNoRetry(t) ==
  /\ Using("TEST_XCHG")
  /\ Goto(t, "store", "in")
  /\ locked' = TRUE
  /\ UNCHANGED <<locked_atomic, cs_mutex, cs_sem, cs_queue>>

\* atomic_exchange(&locked, true): entered if the old value was false, else the
\* loop starts over.
ExchangeLocked(t) ==
  /\ Using("TEST_XCHG")
  /\ Goto(t, "store", IF locked THEN "call" ELSE "in")
  /\ locked' = TRUE
  /\ UNCHANGED <<locked_atomic, cs_mutex, cs_sem, cs_queue>>

\* atomic_flag_test_and_set returned false (returning true changes nothing)
TestAndSet(t) ==
  /\ Using("XCHG")
  /\ ~locked_atomic
  /\ Goto(t, "call", "in")
  /\ locked_atomic' = TRUE
  /\ UNCHANGED <<locked, cs_mutex, cs_sem, cs_queue>>

\* MUTANT of MutexLock: a failed lock is taken for a success.
MutLockUnchecked(t) ==
  /\ Using("MUTEX")
  /\ Goto(t, "call", "in")
  /\ cs_mutex' = t
  /\ UNCHANGED <<locked, locked_atomic, cs_sem, cs_queue>>

MutexLock(t) ==
  /\ Using("MUTEX")
  /\ cs_mutex = Nobody
  /\ Goto(t, "call", "in")
  /\ cs_mutex' = t
  /\ UNCHANGED <<locked, locked_atomic, cs_sem, cs_queue>>

\* sem_wait, and semop with sem_op = -1
SemWait(t) ==
  /\ UsingSemaphore
  /\ cs_sem > 0
  /\ Goto(t, "call", "in")
  /\ cs_sem' = cs_sem - 1
  /\ UNCHANGED <<locked, locked_atomic, cs_mutex, cs_queue>>

\* mq_receive and msgrcv block while the queue is empty.
Receive(t) ==
  /\ UsingQueue
  /\ cs_queue > 0
  /\ Goto(t, "call", "in")
  /\ cs_queue' = cs_queue - 1
  /\ UNCHANGED <<locked, locked_atomic, cs_mutex, cs_sem>>

\* A call on an object cs_destroy has removed under running threads: EINVAL,
\* EIDRM and EBADF are not checked, so the thread goes straight in.  (After
\* sem_close the semaphore is unmapped and the call is fatal instead.)
EnterDestroyed(t) ==
  /\ cs_method_used # "none" /\ ~usable
  /\ cs_method_used # "SEM_POSIX_NAMED"
  /\ Goto(t, "call", "in")
  /\ UNCHANGED object

cs_enter(t) ==
  \/ AtomicEnter(t)
  \/ TestLocked(t) \/ StoreLocked(t) \/ ExchangeLocked(t)
  \/ TestAndSet(t)
  \/ MutexLock(t)
  \/ SemWait(t)
  \/ Receive(t)
  \/ EnterDestroyed(t)

\* MUTANT of cs_leave: the atomic flag is not cleared.
MutKeepFlag(t) ==
  /\ Goto(t, "in", "out")
  /\ Using("MQ_POSIX") => cs_queue < 1
  /\ cs_method_used = "SEM_POSIX_NAMED" => usable
  /\ locked' = (locked /\ ~Using("LOCKED") /\ ~Using("TEST_XCHG"))
  /\ locked_atomic' = locked_atomic
  /\ cs_mutex' = IF Using("MUTEX") /\ cs_mutex = t THEN Nobody ELSE cs_mutex
  /\ cs_sem' = IF UsingSemaphore THEN cs_sem + 1 ELSE cs_sem
  /\ cs_queue' = IF UsingQueue THEN cs_queue + 1 ELSE cs_queue

\* cs_leave.  mq_send blocks while the queue holds mq_maxmsg = 1 messages.
cs_leave(t) ==
  /\ Goto(t, "in", "out")
  /\ Using("MQ_POSIX") => cs_queue < 1
  /\ cs_method_used = "SEM_POSIX_NAMED" => usable
  /\ locked' = (locked /\ ~Using("LOCKED") /\ ~Using("TEST_XCHG"))
  /\ locked_atomic' = (locked_atomic /\ ~Using("XCHG"))
  /\ cs_mutex' = IF Using("MUTEX") /\ cs_mutex = t THEN Nobody ELSE cs_mutex
  /\ cs_sem' = IF UsingSemaphore THEN cs_sem + 1 ELSE cs_sem
  /\ cs_queue' = IF UsingQueue THEN cs_queue + 1 ELSE cs_queue

------------------------------------------------------------------------------
\* A process whose threads use the library in any order: cs_init once, cs_enter
\* and cs_leave in turn in each thread, cs_destroy when the process exits, which
\* may be while threads are still at work.
CSNext ==
  \/ \E m \in Methods \cup {"undefined"} : cs_init(m) \/ cs_init_fails(m)
  \/ cs_destroy
  \/ \E t \in Thread : Call(t) \/ cs_enter(t) \/ cs_leave(t)

CSSpec == CSInit /\ [][CSNext]_csvars

Inside == {t \in Thread : at[t] = "in"}

\* The object exists and its method is meant to protect.
Protected == usable /\ cs_method_used \in Sound

\* MutualExclusion: under a sound method, for as long as the object exists, two
\* threads are never between their cs_enter and their cs_leave.
MutualExclusion ==
  Protected => \A t, u \in Inside : t = u

\* TokenConserved: the free token and a thread inside exclude each other, so a
\* cs_leave can never find the one-message queue full or raise a semaphore to 2.
Free ==
  /\ cs_method_used \in Semaphore => cs_sem = 1
  /\ cs_method_used \in Queue => cs_queue = 1
  /\ cs_method_used = "MUTEX" => cs_mutex = Nobody
  /\ cs_method_used = "XCHG" => ~locked_atomic
  /\ cs_method_used = "TEST_XCHG" => ~locked

TokenConserved == Protected => (Free <=> Inside = {})

\* The owner the abstract lock sees: the thread inside a section that is protected.
Holder == IF Protected /\ Inside # {} THEN CHOOSE t \in Inside : TRUE ELSE Nobody

\* The library implements the abstract lock, whichever sound method is chosen.
Lock == INSTANCE Mutex WITH owner <- Holder
ImplementsMutex == Lock!Spec
==============================================================================
