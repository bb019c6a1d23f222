-------------------------- MODULE BankDeposit_proofs --------------------------
(***************************************************************************)
(* Proofs about the library CSMethods and the program BankDeposit, for     *)
(* every set of threads, every method and any number of deposits.          *)
(* The library: types, mutual exclusion, conservation of the token, and    *)
(* that it implements Mutex.  The program: it uses the library as CSSpec   *)
(* allows, so that all of this holds of it; no deposit is computed from a  *)
(* balance that has meanwhile changed; and what a race leaves of the       *)
(* deposits if the method does not exclude the threads.                    *)
(***************************************************************************)
EXTENDS BankDeposit, FiniteSetTheorems, TLAPS

(***************************************************************************)
(* The library.                                                            *)
(***************************************************************************)

\* Before cs_init nothing is in use, and no thread can be inside.
Fresh ==
  cs_method_used = "none" =>
    /\ ~usable /\ ~locked /\ ~locked_atomic /\ cs_mutex = Nobody
    /\ cs_sem = 0 /\ cs_queue = 0
    /\ Inside = {}

\* The mutex is unlocked by the thread that locked it.
MutexOwner ==
  Using("MUTEX") => \A t \in Inside : cs_mutex = t

\* cs_var_allocated is reset in the same call that removes the object.
Allocated == cs_var_allocated => usable

IInv == /\ CSTypeOK
        /\ Allocated
        /\ Fresh
        /\ MutexOwner
        /\ MutualExclusion
        /\ TokenConserved

\* The initial values satisfy the invariant.
LEMMA InitInv == CSInit => IInv
BY DEF CSInit, IInv, CSTypeOK, Allocated, Fresh, MutexOwner, MutualExclusion, Protected,
       TokenConserved, Inside, Using, AllMethods, BusyWait, Semaphore, Queue,
       Bit, object

\* cs_init makes one free token while no thread is inside.
LEMMA InitStep ==
  ASSUME IInv, NEW m, cs_init(m)
  PROVE  IInv'
<1>1. CSTypeOK'
  BY DEF cs_init, IInv, CSTypeOK, Bit
<1>2. Inside = {} /\ Inside' = {}
  BY DEF cs_init, IInv, Fresh, Inside
<1>3. Allocated' /\ Fresh' /\ MutexOwner' /\ MutualExclusion'
  BY <1>2 DEF cs_init, Allocated, Fresh, MutexOwner, MutualExclusion, Protected,
     AllMethods, BusyWait, Semaphore, Queue
<1>4. TokenConserved'
  BY <1>2 DEF cs_init, IInv, Fresh, TokenConserved, Protected, Free, Sound, AllMethods,
              BusyWait, Semaphore, Queue
<1> QED BY <1>1, <1>3, <1>4 DEF IInv

\* A failed cs_init leaves an object nobody may use.
LEMMA InitFailsStep ==
  ASSUME IInv, NEW m \in Methods \cup {"undefined"}, cs_init_fails(m)
  PROVE  IInv'
<1>1. m \in AllMethods \cup {"undefined"}
  BY CSAssumption
<1>2. ~usable /\ ~usable' /\ cs_method_used' # "none"
  BY <1>1 DEF cs_init_fails, IInv, Fresh, AllMethods, BusyWait, Semaphore, Queue
<1>3. CSTypeOK' /\ Allocated'
  BY <1>1, <1>2 DEF cs_init_fails, IInv, CSTypeOK, Allocated, object
<1> QED
  BY <1>2, <1>3 DEF IInv, Fresh, MutexOwner, MutualExclusion, Protected, TokenConserved,
     Using

\* cs_destroy can only take the object away, never bring one into use.
LEMMA DestroyStep ==
  ASSUME IInv, cs_destroy
  PROVE  IInv'
<1>1. CSTypeOK'
  BY DEF cs_destroy, IInv, CSTypeOK, object, Survives
<1>2. (usable' => usable) /\ Allocated'
  BY DEF cs_destroy, IInv, CSTypeOK, Allocated
<1>3. cs_method_used = "none" => ~usable'
  BY DEF cs_destroy, IInv, Fresh, Survives, BusyWait
<1>4. Inside' = Inside /\ (Free' <=> Free) /\ UNCHANGED <<cs_method_used, object>>
  BY DEF cs_destroy, Inside, Free, object
<1> QED
  BY <1>1, <1>2, <1>3, <1>4
     DEF IInv, Fresh, MutexOwner, MutualExclusion, Protected, TokenConserved, Using, object

\* Moving a thread between two places outside the section, with the object left
\* as it is, disturbs nothing.
LEMMA OutsideStep ==
  ASSUME IInv, NEW t \in Thread, at[t] # "in",
         NEW to \in {"out", "call", "store"},
         at' = [at EXCEPT ![t] = to], UNCHANGED setup, UNCHANGED object
  PROVE  IInv'
<1>1. CSTypeOK'
  BY DEF IInv, CSTypeOK, setup, object
<1>2. Inside' = Inside
  BY DEF IInv, CSTypeOK, Inside
<1> QED
  BY <1>1, <1>2
     DEF IInv, Allocated, Fresh, MutexOwner, MutualExclusion, Protected, TokenConserved,
         Free, Using, setup, object

\* Entering: a step of cs_enter that gets the thread inside found the object free
\* and took it, so that the thread is alone.
LEMMA EnterStep ==
  ASSUME IInv, NEW t \in Thread, cs_enter(t)
  PROVE  IInv'
<1> USE DEF IInv
<1>1. CASE AtomicEnter(t) \/ StoreLocked(t) \/ EnterDestroyed(t)
  <2>1. CSTypeOK'
    BY <1>1 DEF AtomicEnter, StoreLocked, EnterDestroyed, Goto, CSTypeOK, setup, object
  <2>2. ~usable' \/ cs_method_used' \notin Sound
    BY <1>1 DEF AtomicEnter, StoreLocked, EnterDestroyed, Goto, Using, Sound, setup
  <2>3. cs_method_used' # "none" /\ ~Using("MUTEX")' /\ Allocated'
    BY <1>1 DEF AtomicEnter, StoreLocked, EnterDestroyed, Goto, Using, Allocated, setup
  <2> QED
    BY <2>1, <2>2, <2>3 DEF Fresh, MutexOwner, MutualExclusion, Protected, TokenConserved
<1>2. CASE TestLocked(t)
  BY <1>2, OutsideStep DEF TestLocked, Goto
<1>3. CASE ExchangeLocked(t)
  <2>0. at[t] = "store" /\ usable /\ cs_method_used = "TEST_XCHG"
    BY <1>3 DEF ExchangeLocked, Goto, Using
  <2>1. CASE locked
    <3>1. UNCHANGED object /\ at' = [at EXCEPT ![t] = "call"] /\ UNCHANGED setup
      BY <1>3, <2>1 DEF ExchangeLocked, Goto, object, CSTypeOK
    <3> QED BY <2>0, <3>1, OutsideStep
  <2>2. CASE ~locked
    <3>1. Inside = {}
      BY <2>0, <2>2 DEF TokenConserved, Protected, Free, Sound, AllMethods, BusyWait,
                        Semaphore, Queue
    <3>2. CSTypeOK' /\ Inside' = {t}
      BY <1>3, <2>2, <3>1 DEF ExchangeLocked, Goto, CSTypeOK, Inside, setup
    <3> QED
      BY <1>3, <2>0, <3>2 DEF ExchangeLocked, Goto, Allocated, Fresh, MutexOwner, Using,
         MutualExclusion, Protected, TokenConserved, Free, setup
  <2> QED BY <2>1, <2>2
<1>4. CASE TestAndSet(t)
  <2>1. Inside = {}
    BY <1>4 DEF TestAndSet, Using, TokenConserved, Protected, Free, Sound, AllMethods,
                BusyWait, Semaphore, Queue
  <2>2. CSTypeOK' /\ Inside' = {t}
    BY <1>4, <2>1 DEF TestAndSet, Goto, CSTypeOK, Inside, setup
  <2> QED
    BY <1>4, <2>2 DEF TestAndSet, Goto, Allocated, Fresh, MutexOwner, Using,
       MutualExclusion, Protected, TokenConserved, Free, setup
<1>5. CASE MutexLock(t)
  <2>1. Inside = {}
    BY <1>5 DEF MutexLock, Using, TokenConserved, Protected, Free, Sound, AllMethods,
                BusyWait, Semaphore, Queue
  <2>2. CSTypeOK' /\ Inside' = {t}
    BY <1>5, <2>1 DEF MutexLock, Goto, CSTypeOK, Inside, setup
  <2>3. cs_mutex' = t /\ t # Nobody
    BY <1>5, CSAssumption DEF MutexLock
  <2> QED
    BY <1>5, <2>2, <2>3 DEF MutexLock, Goto, Allocated, Fresh, MutexOwner, Using,
       MutualExclusion, Protected, TokenConserved, Free, setup
<1>6. CASE SemWait(t)
  <2>1. cs_sem = 1 /\ cs_sem' = 0 /\ cs_method_used \in Semaphore
    BY <1>6 DEF SemWait, UsingSemaphore, CSTypeOK, Bit
  <2>2. Inside = {}
    BY <1>6, <2>1 DEF SemWait, UsingSemaphore, TokenConserved, Protected, Free, Sound,
                      AllMethods, BusyWait, Semaphore, Queue
  <2>3. CSTypeOK' /\ Inside' = {t}
    BY <1>6, <2>1, <2>2 DEF SemWait, Goto, CSTypeOK, Inside, setup, Bit
  <2> QED
    BY <1>6, <2>1, <2>3 DEF SemWait, Goto, Allocated, Fresh, MutexOwner, Using,
       MutualExclusion, Protected, TokenConserved, Free, setup, Semaphore
<1>7. CASE Receive(t)
  <2>1. cs_queue = 1 /\ cs_queue' = 0 /\ cs_method_used \in Queue
    BY <1>7 DEF Receive, UsingQueue, CSTypeOK, Bit
  <2>2. Inside = {}
    BY <1>7, <2>1 DEF Receive, UsingQueue, TokenConserved, Protected, Free, Sound,
                      AllMethods, BusyWait, Semaphore, Queue
  <2>3. CSTypeOK' /\ Inside' = {t}
    BY <1>7, <2>1, <2>2 DEF Receive, Goto, CSTypeOK, Inside, setup, Bit
  <2> QED
    BY <1>7, <2>1, <2>3 DEF Receive, Goto, Allocated, Fresh, MutexOwner, Using,
       MutualExclusion, Protected, TokenConserved, Free, setup, Queue
<1> QED
  BY <1>1, <1>2, <1>3, <1>4, <1>5, <1>6, <1>7 DEF cs_enter

\* Leaving: the thread that was alone inside gives its token back.
LEMMA LeaveStep ==
  ASSUME IInv, NEW t \in Thread, cs_leave(t)
  PROVE  IInv'
<1> USE DEF IInv
<1>1. t \in Inside /\ Inside' = Inside \ {t}
  BY DEF cs_leave, Goto, CSTypeOK, Inside
<1>2. cs_method_used # "none" /\ UNCHANGED setup
  BY <1>1 DEF cs_leave, Goto, Fresh
<1>3. ASSUME usable, cs_method_used \in Sound
      PROVE  ~Free /\ Inside' = {}
  BY <1>1, <1>3 DEF MutualExclusion, Protected, TokenConserved
<1>4. UsingSemaphore => cs_sem = 0
  BY <1>3 DEF UsingSemaphore, Free, Sound, AllMethods, BusyWait, Semaphore, Queue,
              CSTypeOK, Bit
<1>5. UsingQueue => cs_queue = 0
  BY <1>3 DEF UsingQueue, Free, Sound, AllMethods, BusyWait, Semaphore, Queue,
              CSTypeOK, Bit
<1>6. CSTypeOK'
  <2>1. cs_sem' \in Bit /\ cs_queue' \in Bit
    BY <1>4, <1>5 DEF cs_leave, CSTypeOK, Bit
  <2> QED BY <2>1 DEF cs_leave, Goto, CSTypeOK, setup
<1>7. MutualExclusion' /\ Allocated' /\ Fresh' /\ MutexOwner'
  BY <1>1, <1>2, <1>3 DEF MutualExclusion, Protected, Allocated, Fresh, MutexOwner, Using,
     setup, cs_leave, Sound, AllMethods
<1>8. TokenConserved'
  <2>1. SUFFICES ASSUME usable, cs_method_used \in Sound
                 PROVE  Free'
    BY <1>2, <1>3 DEF TokenConserved, Protected, setup
  <2>2. cs_method_used \in Semaphore => cs_sem' = 1
    BY <1>4, <2>1 DEF cs_leave, UsingSemaphore
  <2>3. cs_method_used \in Queue => cs_queue' = 1
    BY <1>5, <2>1 DEF cs_leave, UsingQueue
  <2>4. cs_method_used = "MUTEX" => cs_mutex' = Nobody
    BY <1>1, <2>1 DEF cs_leave, MutexOwner, Using
  <2>5. /\ cs_method_used = "XCHG" => ~locked_atomic'
        /\ cs_method_used = "TEST_XCHG" => ~locked'
    BY <2>1 DEF cs_leave, Using
  <2> QED BY <1>2, <2>2, <2>3, <2>4, <2>5 DEF Free, setup
<1> QED BY <1>6, <1>7, <1>8

\* Every step preserves the invariant.
LEMMA NextInv == IInv /\ [CSNext]_csvars => IInv'
<1> SUFFICES ASSUME IInv, [CSNext]_csvars
             PROVE  IInv'
  OBVIOUS
<1>1. CASE \E m \in Methods \cup {"undefined"} : cs_init(m) \/ cs_init_fails(m)
  BY <1>1, InitStep, InitFailsStep
<1>2. CASE cs_destroy
  BY <1>2, DestroyStep
<1>3. ASSUME NEW t \in Thread, Call(t)
      PROVE  IInv'
  BY <1>3, OutsideStep DEF Call, Goto
<1>4. ASSUME NEW t \in Thread, cs_enter(t)
      PROVE  IInv'
  BY <1>4, EnterStep
<1>5. ASSUME NEW t \in Thread, cs_leave(t)
      PROVE  IInv'
  BY <1>5, LeaveStep
<1>6. CASE UNCHANGED csvars
  BY <1>6 DEF csvars, setup, object, IInv, CSTypeOK, Allocated, Fresh, MutexOwner,
     MutualExclusion, Protected, TokenConserved, Free, Using, Inside
<1> QED
  BY <1>1, <1>2, <1>3, <1>4, <1>5, <1>6 DEF CSNext

\* The inductive invariant holds in every behaviour.
THEOREM Invariance == CSSpec => []IInv
BY InitInv, NextInv, PTL DEF CSSpec

\* Type correctness of the library's variables.
THEOREM TypeCorrect == CSSpec => []CSTypeOK
BY Invariance, PTL DEF IInv

\* Two threads are never inside together, for any number of threads and any
\* sound method of cs_enter.
THEOREM Exclusion == CSSpec => []MutualExclusion
BY Invariance, PTL DEF IInv

\* The token given back by cs_leave is the one cs_enter took.
THEOREM Conservation == CSSpec => []TokenConserved
BY Invariance, PTL DEF IInv

-------------------------------------------------------------------------------
\* The library implements Mutex while a sound method is in use.

\* A step of one thread leaves the object in place, and what happens to the set
\* of threads inside is an entry, an exit or nothing.
LEMMA ThreadShape ==
  ASSUME IInv, NEW t \in Thread, Call(t) \/ cs_enter(t) \/ cs_leave(t)
  PROVE  /\ UNCHANGED setup
         /\ \/ Inside' = Inside
            \/ Inside' = Inside \cup {t} /\ t \notin Inside
            \/ Inside' = Inside \ {t} /\ t \in Inside
<1> USE DEF IInv, CSTypeOK, Inside, Goto
<1>1. CASE Call(t)
  BY <1>1 DEF Call
<1>2. CASE cs_leave(t)
  BY <1>2 DEF cs_leave
<1>3. CASE cs_enter(t)
  <2>1. PICK from \in {"call", "store"}, to \in {"call", "store", "in"} :
          Goto(t, from, to)
    BY <1>3 DEF cs_enter, AtomicEnter, TestLocked, StoreLocked, ExchangeLocked,
                TestAndSet, MutexLock, SemWait, Receive, EnterDestroyed
  <2> QED BY <2>1
<1> QED BY <1>1, <1>2, <1>3

\* The object is never brought into use again, except by cs_init.
LEMMA SetupShape ==
  ASSUME IInv, [CSNext]_csvars
  PROVE  \/ \E m \in Methods \cup {"undefined"} : cs_init(m)
         \/ usable' => usable /\ cs_method_used' = cs_method_used
<1>1. ASSUME NEW m \in Methods \cup {"undefined"}, cs_init_fails(m)
      PROVE  ~usable'
  BY <1>1 DEF cs_init_fails, IInv, Fresh
<1>2. CASE cs_destroy
  BY <1>2 DEF cs_destroy, IInv, Allocated, CSTypeOK
<1>3. ASSUME NEW t \in Thread, Call(t) \/ cs_enter(t) \/ cs_leave(t)
      PROVE  UNCHANGED setup
  BY <1>3, ThreadShape
<1>4. CASE UNCHANGED csvars
  BY <1>4 DEF csvars, setup
<1> QED BY <1>1, <1>2, <1>3, <1>4 DEF CSNext, setup

\* What the abstract owner is, given what is inside.
LEMMA HolderNobody == ~Protected \/ Inside = {} => Holder = Nobody
BY DEF Holder

LEMMA HolderAlone ==
  ASSUME NEW t \in Thread, Protected, Inside = {t}
  PROVE  Holder = t
<1>1. (CHOOSE u \in Inside : TRUE) = t
  <2> DEFINE c == CHOOSE u \in Inside : TRUE
  <2>1. c \in Inside
    OBVIOUS
  <2> QED BY <2>1
<1> QED BY <1>1 DEF Holder

\* Under a sound method what is inside is nobody or one thread.
LEMMA AtMostOne ==
  ASSUME IInv, Protected
  PROVE  Inside = {} \/ \E t \in Thread : Inside = {t}
BY DEF IInv, MutualExclusion, Protected, Inside

\* Each step of the library is a step of the abstract lock, or invisible to it.
LEMMA LockStep ==
  ASSUME IInv, IInv', [CSNext]_csvars
  PROVE  [Lock!Next]_Holder
<1> USE DEF Lock!Next, Lock!Acquire, Lock!Release
<1>1. ASSUME NEW m, cs_init(m)
      PROVE  Holder' = Holder
  <2>1. Inside = {} /\ Inside' = {}
    BY <1>1 DEF cs_init, IInv, Fresh, Inside
  <2> QED BY <2>1 DEF Holder
<1>2. CASE ~Protected'
  <2>1. Holder' = Nobody
    BY <1>2 DEF Holder
  <2>2. CASE Protected /\ \E t \in Thread : Inside = {t}
    BY <2>1, <2>2, HolderAlone
  <2>3. CASE ~(Protected /\ \E t \in Thread : Inside = {t})
    BY <2>1, <2>3, HolderNobody, AtMostOne
  <2> QED BY <2>2, <2>3
<1>3. ASSUME NEW t \in Thread, Call(t) \/ cs_enter(t) \/ cs_leave(t), Protected'
      PROVE  [Lock!Next]_Holder
  <2>1. Protected
    BY <1>3, ThreadShape DEF setup, Protected
  <2>2. CASE Inside' = Inside
    BY <2>1, <1>3, <2>2 DEF Holder
  <2>3. CASE Inside' = Inside \cup {t} /\ t \notin Inside
    <3>1. Inside' = {t}
      BY <1>3, <2>3 DEF IInv, MutualExclusion, Protected
    <3>2. Holder' = t
      <4>1. (CHOOSE u \in {t} : TRUE) = t
        OBVIOUS
      <4> QED BY <4>1, <3>1, <1>3 DEF Holder
    <3>3. Holder = Nobody
      BY <3>1, <2>3, HolderNobody
    <3> QED BY <3>2, <3>3
  <2>4. CASE Inside' = Inside \ {t} /\ t \in Inside
    <3>1. Inside = {t}
      BY <2>1, <2>4, AtMostOne
    <3>2. Holder = t
      BY <2>1, <3>1, HolderAlone
    <3>3. Holder' = Nobody
      BY <2>4, <3>1 DEF Holder
    <3> QED BY <3>2, <3>3
  <2> QED BY <1>3, <2>2, <2>3, <2>4, ThreadShape
<1>4. CASE UNCHANGED csvars
  BY <1>4 DEF csvars, setup, Holder, Inside, Protected
<1>5. CASE cs_destroy /\ Protected'
  <2>1. Inside' = Inside /\ Protected
    BY <1>5 DEF cs_destroy, Inside, IInv, Allocated, CSTypeOK, Protected
  <2> QED BY <2>1, <1>5 DEF Holder
<1>6. ASSUME NEW m \in Methods \cup {"undefined"}, cs_init_fails(m)
      PROVE  ~Protected'
  BY <1>6 DEF cs_init_fails, IInv, Fresh, Protected
<1> QED
  BY <1>1, <1>2, <1>3, <1>4, <1>5, <1>6 DEF CSNext

\* The library implements the abstract lock, whichever method is chosen: with a
\* sound one cs_init creates it free, cs_enter acquires it, cs_leave releases it,
\* and a cs_destroy under a running thread releases it for that thread.
THEOREM Refinement == CSSpec => ImplementsMutex
<1>1. CSInit => Lock!Init
  BY DEF CSInit, Protected, Lock!Init, Holder
<1>2. IInv /\ IInv' /\ [CSNext]_csvars => [Lock!Next]_Holder
  BY LockStep
<1> QED
  BY <1>1, <1>2, Invariance, PTL DEF CSSpec, ImplementsMutex, Lock!Spec

(***************************************************************************)
(* The program.                                                            *)
(***************************************************************************)

\* A step of main is a step of the library or leaves it alone.
LEMMA MainUsesLibrary == Main => [CSNext]_csvars
BY DEF Main, MainNoMethod, MainCsInit, MainCsInitFails, MainBarrierInit,
       MainBarrierInitFails, MainCreate, MainCreateFails, MainCreated, MainJoin,
       MainCompare, MainDestroyBarrier, MainCsDestroy, MainGone, CSNext

\* So is a step of a thread.
LEMMA ThreadUsesLibrary ==
  ASSUME NEW t \in Thread, ThreadStep(t)
  PROVE  [CSNext]_csvars
BY DEF ThreadStep, ThreadBarrier, ThreadNoBarrier, ThreadLoop, ThreadFinish,
       ThreadEnter, ThreadRead, ThreadStore, ThreadLeave, ThreadFault, CSNext

LEMMA UsesLibrary == [Next]_vars => [CSNext]_csvars
BY MainUsesLibrary, ThreadUsesLibrary DEF Next, Stopped, vars

\* The program drives the critical-section library only in ways CSSpec allows,
\* whatever fails and however main exits.
THEOREM BankImplementsCSSpec == Spec => CSSpec
BY UsesLibrary, PTL DEF Spec, Init, CSSpec

\* The library's invariant therefore holds of the program.
LEMMA LibraryInvariance == Spec => []IInv
BY BankImplementsCSSpec, Invariance, PTL

-------------------------------------------------------------------------------
\* Where a thread is in bank_deposit() and where it is in the library agree, and
\* the threads that main has not created yet are nowhere.
Aligned ==
  /\ pos \in [Thread -> ThreadPos]
  /\ sum \in [Thread -> Int]
  /\ account_balance \in Int
  /\ next_thread \in Nat
  /\ \A t \in Thread :
       /\ pos[t] \in {"store", "leave"} => at[t] = "in"
       /\ pos[t] \notin {"deposit", "store", "leave"} => at[t] = "out"
       /\ main \in {"cs_init", "barrier_init", "create"} /\ t >= next_thread
            => pos[t] = "none"

LEMMA InitAligned == Init => Aligned
BY BankAssumption DEF Init, CSInit, Aligned, ThreadPos

LEMMA MainAligned ==
  ASSUME CSTypeOK, Aligned, Main
  PROVE  Aligned'
<1> USE BankAssumption
<1>1. CASE MainCreate
  <2>1. next_thread \in Thread /\ next_thread' = next_thread + 1 /\ main = "create"
    BY <1>1 DEF MainCreate, Aligned
  <2>2. pos' = [pos EXCEPT ![next_thread] = "start"] /\ main' = main
        /\ UNCHANGED <<sum, account_balance, at>>
    BY <1>1 DEF MainCreate, csvars
  <2>3. \A t \in Thread : t \in Nat
    OBVIOUS
  <2>4. at[next_thread] = "out"
    BY <2>1 DEF Aligned
  <2>5. \A t \in Thread : t >= next_thread + 1 => t # next_thread /\ t >= next_thread
    BY <2>3 DEF Aligned
  <2>6. next_thread' \in Nat /\ pos' \in [Thread -> ThreadPos]
    BY <2>1, <2>2 DEF Aligned, ThreadPos
  <2>7. /\ pos'[next_thread] = "start"
        /\ \A t \in Thread : t # next_thread => pos'[t] = pos[t]
    BY <2>1, <2>2 DEF Aligned
  <2> QED BY <2>1, <2>2, <2>4, <2>5, <2>6, <2>7 DEF Aligned
<1>2. CASE MainCreated \/ MainJoin
  BY <1>2 DEF MainCreated, MainJoin, MainGoto, threadvars, Aligned, csvars
<1>3. CASE ~(MainCreate \/ MainCreated \/ MainJoin)
  <2>1. /\ UNCHANGED threadvars /\ at' = at /\ next_thread' = next_thread
        /\ main' \in {"cs_init", "barrier_init", "create"} =>
             main \in {"cs_init", "barrier_init", "create"}
    BY <1>3 DEF Main, MainNoMethod, MainCsInit, MainCsInitFails, MainBarrierInit,
         MainBarrierInitFails, MainCreateFails, MainCompare, MainDestroyBarrier,
         MainCsDestroy, MainGone, csvars, cs_init, cs_init_fails, cs_destroy,
         MainGoto, ExitWith
  <2> QED BY <2>1 DEF threadvars, Aligned
<1> QED BY <1>1, <1>2, <1>3

LEMMA ThreadAligned ==
  ASSUME CSTypeOK, Aligned, NEW t \in Thread, ThreadStep(t)
  PROVE  Aligned'
<1> USE DEF Aligned, CSTypeOK, mainvars, csvars, ThreadGoto, ThreadPos
<1>0. Net \in Int
  BY BankAssumption
<1>1. CASE ThreadBarrier(t)
  BY <1>1 DEF ThreadBarrier
<1>2. CASE ThreadNoBarrier(t)
  BY <1>2 DEF ThreadNoBarrier
<1>3. CASE ThreadLoop(t)
  BY <1>3 DEF ThreadLoop, Call, Goto
<1>4. CASE ThreadFinish(t)
  BY <1>4 DEF ThreadFinish
<1>5. CASE ThreadEnter(t)
  <2>1. pos[t] = "deposit" /\ UNCHANGED bankvars
    BY <1>5 DEF ThreadEnter
  <2>2. \A u \in Thread \ {t} : at'[u] = at[u]
    BY <1>5 DEF ThreadEnter, cs_enter, AtomicEnter, TestLocked, StoreLocked,
       ExchangeLocked, TestAndSet, MutexLock, SemWait, Receive, EnterDestroyed, Goto
  <2> QED BY <2>1, <2>2 DEF bankvars
<1>6. CASE ThreadRead(t)
  BY <1>0, <1>6 DEF ThreadRead
<1>7. CASE ThreadStore(t)
  BY <1>7 DEF ThreadStore
<1>8. CASE ThreadLeave(t)
  BY <1>8 DEF ThreadLeave, cs_leave, Goto
<1>9. CASE ThreadFault(t)
  BY <1>9 DEF ThreadFault, threadvars
<1> QED
  BY <1>1, <1>2, <1>3, <1>4, <1>5, <1>6, <1>7, <1>8, <1>9 DEF ThreadStep

LEMMA NextAligned == CSTypeOK /\ Aligned /\ [Next]_vars => Aligned'
<1> SUFFICES ASSUME CSTypeOK, Aligned, [Next]_vars
             PROVE  Aligned'
  OBVIOUS
<1>1. CASE UNCHANGED vars
  BY <1>1 DEF vars, csvars, bankvars, Aligned
<1> QED
  BY <1>1, MainAligned, ThreadAligned DEF Next, Stopped

-------------------------------------------------------------------------------
\* A step of main never lets a thread store a stale balance: it changes no balance
\* and no sum, and when cs_init makes the library usable no thread is inside.
LEMMA MainFresh ==
  ASSUME IInv, Aligned, NoStaleBalance, Main
  PROVE  NoStaleBalance'
<1>1. CASE MainCreate
  BY <1>1 DEF MainCreate, NoStaleBalance, Protected, Aligned, csvars, setup
<1>2. CASE MainCsInit
  <2>1. \A t \in Thread : pos[t] # "store"
    BY <1>2 DEF MainCsInit, cs_init, IInv, Fresh, Inside, Aligned
  <2> QED BY <1>2, <2>1 DEF MainCsInit, threadvars, NoStaleBalance
<1>3. CASE ~(MainCreate \/ MainCsInit)
  <2>1. UNCHANGED threadvars
    BY <1>3 DEF Main, MainNoMethod, MainCsInitFails, MainBarrierInit,
         MainBarrierInitFails, MainCreateFails, MainCreated, MainJoin, MainCompare,
         MainDestroyBarrier, MainCsDestroy, MainGone
  <2>2. usable' => usable /\ cs_method_used' = cs_method_used
    BY <1>3 DEF Main, MainNoMethod, MainCsInitFails, MainBarrierInit,
         MainBarrierInitFails, MainCreateFails, MainCreated, MainJoin, MainCompare,
         MainDestroyBarrier, MainCsDestroy, MainGone, csvars, setup, cs_destroy,
         cs_init_fails, IInv, Fresh, Allocated, CSTypeOK
  <2> QED BY <2>1, <2>2 DEF threadvars, NoStaleBalance, Protected
<1> QED BY <1>1, <1>2, <1>3

\* A step of a thread does not either: the only one that changes the balance is
\* alone in the section, so no other thread has a sum waiting to be stored.
LEMMA ThreadFresh ==
  ASSUME IInv, Aligned, NoStaleBalance, NEW t \in Thread, ThreadStep(t)
  PROVE  NoStaleBalance'
<1> USE DEF Aligned
<1>0. UNCHANGED setup
  BY ThreadShape DEF ThreadStep, ThreadBarrier, ThreadNoBarrier, ThreadLoop,
     ThreadFinish, ThreadEnter, ThreadRead, ThreadStore, ThreadLeave, ThreadFault,
     csvars
<1>1. CASE ThreadBarrier(t) \/ ThreadNoBarrier(t) \/ ThreadLoop(t)
           \/ ThreadFinish(t) \/ ThreadLeave(t)
  <2>1. /\ UNCHANGED <<account_balance, sum>>
        /\ \A u \in Thread : pos'[u] = "store" => pos[u] = "store"
    BY <1>1 DEF ThreadBarrier, ThreadNoBarrier, ThreadLoop, ThreadFinish,
                ThreadLeave, ThreadGoto
  <2> QED BY <1>0, <2>1 DEF NoStaleBalance, Protected, setup
<1>2. CASE ThreadEnter(t) \/ ThreadFault(t)
  BY <1>0, <1>2 DEF ThreadEnter, ThreadFault, bankvars, threadvars, setup,
     NoStaleBalance, Protected
<1>3. CASE ThreadRead(t)
  BY <1>0, <1>3 DEF ThreadRead, ThreadGoto, setup, NoStaleBalance, Protected
<1>4. CASE ThreadStore(t)
  <2>1. Protected => \A u \in Thread \ {t} : pos[u] # "store"
    BY <1>4 DEF ThreadStore, ThreadGoto, IInv, MutualExclusion, Protected, Inside
  <2>2. \A u \in Thread : pos'[u] = "store" => pos[u] = "store" /\ u # t
    BY <1>4 DEF ThreadStore, ThreadGoto
  <2> QED BY <1>0, <2>1, <2>2 DEF setup, NoStaleBalance, Protected
<1> QED BY <1>1, <1>2, <1>3, <1>4 DEF ThreadStep

\* No deposit is lost: with a sound method and the library in place, the value a
\* thread is about to store is the current balance plus its own deposit.
THEOREM NoLostDeposit == Spec => []NoStaleBalance
<1> DEFINE J == Aligned /\ NoStaleBalance
<1>1. Init => J
  BY InitAligned DEF Init, NoStaleBalance
<1>2. IInv /\ J /\ [Next]_vars => J'
  <2> SUFFICES ASSUME IInv, Aligned, NoStaleBalance, [Next]_vars
               PROVE  NoStaleBalance'
    BY NextAligned DEF IInv
  <2>1. CASE UNCHANGED vars
    BY <2>1 DEF vars, csvars, setup, bankvars, NoStaleBalance, Protected
  <2> QED BY <2>1, MainFresh, ThreadFresh DEF Next, Stopped
<1> QED
  BY <1>1, <1>2, LibraryInvariance, PTL DEF Spec

\* Mutual exclusion of the deposits, inherited from the library.
THEOREM DepositsExclude == Spec => []MutualExclusion
BY BankImplementsCSSpec, Exclusion, PTL

(***************************************************************************)
(* What a race leaves.                                                     *)
(***************************************************************************)

\* How many deposits each thread has stored, and the deposits of all threads.
Made == [t \in Thread |-> deposits[t] + (IF pos[t] = "leave" THEN 1 ELSE 0)]
AllMade == {s \in Thread \X (1 .. bank_transactions_per_thread) : s[2] <= Made[s[1]]}

\* v is the first balance and some number of deposits.
Has(v, least, most) == \E kept \in least .. most : v = Start + kept * Net

\* A thread counts its deposits; main compares when it has joined all threads.
JoinInv ==
  /\ deposits \in [Thread -> Nat]
  /\ \A t \in Thread :
       /\ deposits[t] <= bank_transactions_per_thread
       /\ pos[t] \in {"deposit", "store", "leave"} => deposits[t] < bank_transactions_per_thread
       /\ pos[t] = "finished" => deposits[t] = bank_transactions_per_thread
  /\ main \in {"cs_init", "barrier_init", "create", "join"} => status = -1
  /\ main = "cs_init" => ~cs_var_allocated
  /\ main = "join" => \A t \in Thread : t < next_thread => pos[t] = "finished"
  /\ status \in {0, 1} /\ cs_var_allocated => \A t \in Thread : pos[t] = "finished"

Least ==
  IF bank_transactions_per_thread >= 2 /\ \A t \in Thread : Made[t] = bank_transactions_per_thread
  THEN 2 ELSE IF \E t \in Thread : Made[t] >= 1 THEN 1 ELSE 0

\* Whoever has stored once finds at least one deposit in whatever it reads later, so that the
\* thread that comes to its end last, and not with its first deposit, leaves two.
KeptInv ==
  /\ Has(account_balance, Least, Cardinality(AllMade))
  /\ \A t \in Thread : pos[t] = "store" =>
       Has(sum[t], IF Made[t] >= 1 THEN 2 ELSE 1, Cardinality(AllMade) + 1)

LEMMA JoinMain ==
  ASSUME Aligned, JoinInv, Main
  PROVE  JoinInv'
<1>0. \A t \in Thread : t \in Nat /\ t < thread_count
  BY BankAssumption
<1> USE <1>0 DEF MainGoto, ExitWith, threadvars, csvars, setup
<1>1. CASE MainNoMethod \/ MainBarrierInit \/ MainBarrierInitFails \/ MainCreateFails
           \/ MainDestroyBarrier \/ MainGone
  <2>1. /\ deposits' = deposits /\ pos' = pos /\ cs_var_allocated' = cs_var_allocated
        /\ next_thread' = next_thread
        /\ status' = status \/ status' \notin {0, 1}
        /\ main' \notin {"cs_init", "join"}
        /\ main' \in {"create", "barrier_init"} => status' = status /\ main = "barrier_init"
    BY <1>1 DEF MainNoMethod, MainBarrierInit, MainBarrierInitFails, MainCreateFails,
         MainDestroyBarrier, MainGone
  <2> QED BY <2>1 DEF JoinInv
<1>2. CASE MainCsInit
  <2>1. /\ deposits' = deposits /\ pos' = pos /\ status' = status
        /\ main = "cs_init" /\ main' \in {"create", "barrier_init"}
    BY <1>2 DEF MainCsInit
  <2> QED BY <2>1 DEF JoinInv
<1>3. CASE MainCsInitFails
  <2>1. /\ deposits' = deposits /\ pos' = pos /\ cs_var_allocated' = cs_var_allocated
        /\ main = "cs_init" /\ main' = "exit"
    BY <1>3 DEF MainCsInitFails, cs_init_fails
  <2> QED BY <2>1 DEF JoinInv
<1>4. CASE MainCreate
  <2>1. /\ deposits' = deposits /\ status' = status /\ main = "create" /\ main' = main
        /\ pos' = [pos EXCEPT ![next_thread] = "start"]
    BY <1>4 DEF MainCreate
  <2>2. \A t \in Thread : pos'[t] \in {pos[t], "start"}
    BY <2>1 DEF Aligned
  <2> QED BY <2>1, <2>2 DEF JoinInv
<1>5. CASE MainCreated
  <2>1. /\ deposits' = deposits /\ pos' = pos /\ status' = status
        /\ main = "create" /\ main' = "join" /\ next_thread' = 0
    BY <1>5 DEF MainCreated
  <2> QED BY <2>1 DEF JoinInv
<1>6. CASE MainJoin
  <2>1. /\ deposits' = deposits /\ pos' = pos /\ status' = status
        /\ main = "join" /\ main' = "join" /\ next_thread' = next_thread + 1
        /\ pos[next_thread] = "finished" /\ next_thread \in Nat
    BY <1>6 DEF MainJoin, Aligned
  <2>2. \A t \in Thread : t < next_thread + 1 => t < next_thread \/ t = next_thread
    BY <2>1
  <2> QED BY <2>1, <2>2 DEF JoinInv
<1>7. CASE MainCompare
  <2>1. /\ deposits' = deposits /\ pos' = pos
        /\ main = "join" /\ main' = "exit" /\ next_thread = thread_count
    BY <1>7 DEF MainCompare
  <2> QED BY <2>1 DEF JoinInv
<1>8. CASE MainCsDestroy
  <2>1. /\ deposits' = deposits /\ pos' = pos /\ cs_var_allocated' = FALSE
        /\ main' = "exited"
    BY <1>8 DEF MainCsDestroy, cs_destroy
  <2> QED BY <2>1 DEF JoinInv
<1> QED BY <1>1, <1>2, <1>3, <1>4, <1>5, <1>6, <1>7, <1>8 DEF Main

LEMMA JoinThread ==
  ASSUME IInv, Aligned, JoinInv, NEW t \in Thread, ThreadStep(t)
  PROVE  JoinInv'
<1>1. UNCHANGED setup
  BY ThreadShape DEF ThreadStep, ThreadBarrier, ThreadNoBarrier, ThreadLoop,
     ThreadFinish, ThreadEnter, ThreadRead, ThreadStore, ThreadLeave, ThreadFault,
     csvars
<1> USE DEF setup, Aligned, mainvars, ThreadGoto, JoinInv
<1>0. bank_transactions_per_thread \in Nat
  BY BankAssumption
<1>2. CASE ThreadBarrier(t)
  BY <1>1, <1>2 DEF ThreadBarrier
<1>3. CASE ThreadNoBarrier(t)
  BY <1>1, <1>3 DEF ThreadNoBarrier
<1>4. CASE ThreadLoop(t)
  BY <1>1, <1>4 DEF ThreadLoop
<1>5. CASE ThreadFinish(t)
  BY <1>1, <1>5 DEF ThreadFinish
<1>6. CASE ThreadEnter(t)
  BY <1>1, <1>6 DEF ThreadEnter, bankvars
<1>7. CASE ThreadRead(t)
  BY <1>1, <1>7 DEF ThreadRead
<1>8. CASE ThreadStore(t)
  BY <1>1, <1>8 DEF ThreadStore
<1>9. CASE ThreadLeave(t)
  BY <1>0, <1>1, <1>9 DEF ThreadLeave
<1>10. CASE ThreadFault(t)
  BY <1>1, <1>10 DEF ThreadFault, threadvars
<1> QED
  BY <1>2, <1>3, <1>4, <1>5, <1>6, <1>7, <1>8, <1>9, <1>10 DEF ThreadStep

LEMMA JoinStep == IInv /\ Aligned /\ JoinInv /\ [Next]_vars => JoinInv'
<1> SUFFICES ASSUME IInv, Aligned, JoinInv, [Next]_vars
             PROVE  JoinInv'
  OBVIOUS
<1>1. CASE UNCHANGED vars
  BY <1>1 DEF vars, csvars, setup, bankvars, JoinInv
<1> QED
  BY <1>1, JoinMain, JoinThread DEF Next, Stopped

LEMMA MadeFacts ==
  ASSUME JoinInv
  PROVE  /\ \A t \in Thread : Made[t] \in 0 .. bank_transactions_per_thread
         /\ IsFiniteSet(AllMade) /\ Cardinality(AllMade) \in Nat
         /\ Cardinality(AllMade) <= thread_count * bank_transactions_per_thread
<1> DEFINE B == bank_transactions_per_thread
<1>1. B \in Nat /\ thread_count \in Nat \ {0} /\ Thread = 0 .. thread_count - 1
  BY BankAssumption
<1>2. \A t \in Thread : Made[t] \in 0 .. B
  BY <1>1 DEF JoinInv, Made
<1>3. IsFiniteSet(Thread) /\ Cardinality(Thread) = thread_count
  <2>1. 0 \in Int /\ thread_count - 1 \in Int /\ ~(0 > thread_count - 1)
    BY <1>1
  <2> QED BY <1>1, <2>1, FS_Interval
<1>4. IsFiniteSet(1 .. B) /\ Cardinality(1 .. B) = B
  BY <1>1, FS_Interval
<1>5. /\ IsFiniteSet(Thread \X (1 .. B))
      /\ Cardinality(Thread \X (1 .. B)) = thread_count * B
  BY <1>3, <1>4, FS_Product
<1>6. AllMade \in SUBSET (Thread \X (1 .. B))
  BY DEF AllMade
<1>7. IsFiniteSet(AllMade) /\ Cardinality(AllMade) <= thread_count * B
  <2> HIDE DEF B
  <2> QED BY <1>5, <1>6, FS_Subset
<1> QED BY <1>2, <1>7, FS_CardinalityType

\* The steps that nobody between the reading and the storing of a balance sees.
Calm ==
  /\ account_balance' = account_balance /\ sum' = sum /\ Made' = Made
  /\ \A t \in Thread : pos'[t] = "store" => pos[t] = "store"

LEMMA CalmKept ==
  ASSUME KeptInv, Calm
  PROVE  KeptInv'
<1>1. AllMade' = AllMade /\ Least' = Least
  BY DEF Calm, AllMade, Least
<1> QED BY <1>1 DEF Calm, KeptInv, Has

LEMMA CalmMain ==
  ASSUME Aligned, Main
  PROVE  Calm
<1>1. CASE MainCreate
  <2>1. /\ account_balance' = account_balance /\ sum' = sum /\ deposits' = deposits
        /\ next_thread \in Thread /\ pos' = [pos EXCEPT ![next_thread] = "start"]
        /\ main = "create"
    BY <1>1, BankAssumption DEF MainCreate, Aligned
  <2>2. pos[next_thread] = "none"
    BY <2>1, BankAssumption DEF Aligned
  <2>3. \A t \in Thread : pos'[t] = pos[t] \/ (pos[t] = "none" /\ pos'[t] = "start")
    BY <2>1, <2>2 DEF Aligned
  <2>4. Made' = Made
    BY <2>1, <2>3 DEF Made
  <2> QED BY <2>1, <2>3, <2>4 DEF Calm
<1>2. CASE ~MainCreate
  <2>1. UNCHANGED threadvars
    BY <1>2 DEF Main, MainNoMethod, MainCsInit, MainCsInitFails, MainBarrierInit,
         MainBarrierInitFails, MainCreateFails, MainCreated, MainJoin, MainCompare,
         MainDestroyBarrier, MainCsDestroy, MainGone
  <2> QED BY <2>1 DEF threadvars, Calm, Made
<1> QED BY <1>1, <1>2

LEMMA CalmThread ==
  ASSUME Aligned, JoinInv, NEW t \in Thread,
         \/ ThreadBarrier(t) \/ ThreadNoBarrier(t) \/ ThreadLoop(t) \/ ThreadFinish(t)
         \/ ThreadEnter(t) \/ ThreadLeave(t) \/ ThreadFault(t)
  PROVE  Calm
<1>1. CASE ThreadBarrier(t) \/ ThreadNoBarrier(t) \/ ThreadLoop(t) \/ ThreadFinish(t)
  <2>1. /\ account_balance' = account_balance /\ sum' = sum /\ deposits' = deposits
        /\ \A u \in Thread : pos'[u] # pos[u] => pos[u] # "leave" /\ pos'[u] \notin {"leave", "store"}
    BY <1>1 DEF ThreadBarrier, ThreadNoBarrier, ThreadLoop, ThreadFinish, ThreadGoto, Aligned
  <2>2. Made' = Made
    BY <2>1 DEF Made
  <2> QED BY <2>1, <2>2 DEF Calm
<1>2. CASE ThreadEnter(t) \/ ThreadFault(t)
  <2>1. account_balance' = account_balance /\ sum' = sum /\ deposits' = deposits /\ pos' = pos
    BY <1>2 DEF ThreadEnter, bankvars, ThreadFault, threadvars
  <2> QED BY <2>1 DEF Calm, Made
<1>3. CASE ThreadLeave(t)
  <2>1. /\ account_balance' = account_balance /\ sum' = sum
        /\ pos[t] = "leave" /\ pos' = [pos EXCEPT ![t] = "loop"]
        /\ deposits' = [deposits EXCEPT ![t] = @ + 1]
    BY <1>3 DEF ThreadLeave, ThreadGoto
  <2>2. \A u \in Thread : deposits'[u] + (IF pos'[u] = "leave" THEN 1 ELSE 0)
                            = deposits[u] + (IF pos[u] = "leave" THEN 1 ELSE 0)
    BY <2>1 DEF Aligned, JoinInv
  <2>3. Made' = Made
    BY <2>2 DEF Made
  <2>4. \A u \in Thread : pos'[u] = "store" => pos[u] = "store"
    BY <2>1 DEF Aligned
  <2> QED BY <2>1, <2>3, <2>4 DEF Calm
<1> QED BY <1>1, <1>2, <1>3

LEMMA ReadKept ==
  ASSUME Aligned, JoinInv, KeptInv, NEW t \in Thread, ThreadRead(t)
  PROVE  KeptInv'
<1>1. /\ account_balance' = account_balance /\ deposits' = deposits
      /\ sum' = [sum EXCEPT ![t] = account_balance + Net]
      /\ pos[t] = "deposit" /\ pos' = [pos EXCEPT ![t] = "store"]
  BY DEF ThreadRead, ThreadGoto
<1>2. /\ sum'[t] = account_balance + Net
      /\ \A u \in Thread : u # t => sum'[u] = sum[u] /\ pos'[u] = pos[u]
  BY <1>1 DEF Aligned
<1>3. Made' = Made
  BY <1>1 DEF Made, Aligned
<1>4. AllMade' = AllMade /\ Least' = Least
  BY <1>3 DEF AllMade, Least
<1>5. PICK n \in Least .. Cardinality(AllMade) : account_balance = Start + n * Net
  BY DEF KeptInv, Has
<1>6. Least \in {0, 1, 2} /\ (Made[t] >= 1 => Least >= 1) /\ Cardinality(AllMade) \in Nat
  BY MadeFacts DEF Least
<1>7. Has(account_balance + Net, IF Made[t] >= 1 THEN 2 ELSE 1, Cardinality(AllMade) + 1)
  <2>1. n \in Int /\ Start \in Int /\ Net \in Int
    BY <1>6, BankAssumption
  <2>2. (n + 1) * Net = n * Net + Net /\ n * Net \in Int
    BY <2>1
  <2>3. account_balance + Net = Start + (n + 1) * Net
    BY <1>5, <2>1, <2>2
  <2>4. n + 1 \in (IF Made[t] >= 1 THEN 2 ELSE 1) .. Cardinality(AllMade) + 1
    BY <1>6
  <2> QED BY <2>3, <2>4 DEF Has
<1>8. Has(account_balance', Least', Cardinality(AllMade'))
  BY <1>1, <1>4 DEF KeptInv
<1>9. ASSUME NEW u \in Thread, pos'[u] = "store"
      PROVE  Has(sum'[u], IF Made'[u] >= 1 THEN 2 ELSE 1, Cardinality(AllMade') + 1)
  BY <1>2, <1>3, <1>4, <1>7, <1>9 DEF KeptInv
<1> QED BY <1>8, <1>9 DEF KeptInv, Has

LEMMA StoreKept ==
  ASSUME Aligned, JoinInv, KeptInv, NEW t \in Thread, ThreadStore(t)
  PROVE  KeptInv'
<1> DEFINE B == bank_transactions_per_thread
           new == <<t, Made[t] + 1>>
<1>1. /\ account_balance' = sum[t] /\ deposits' = deposits /\ sum' = sum
      /\ pos[t] = "store" /\ pos' = [pos EXCEPT ![t] = "leave"]
  BY DEF ThreadStore, ThreadGoto
<1>2. pos'[t] = "leave" /\ \A u \in Thread : u # t => pos'[u] = pos[u]
  BY <1>1 DEF Aligned
<1>3. /\ Made'[t] = Made[t] + 1 /\ Made[t] + 1 \in 1 .. B
      /\ \A u \in Thread : u # t => Made'[u] = Made[u]
  <2>1. deposits[t] \in Nat /\ deposits[t] < B /\ B \in Nat
    BY <1>1, BankAssumption DEF JoinInv
  <2>2. Made' = [u \in Thread |-> deposits'[u] + (IF pos'[u] = "leave" THEN 1 ELSE 0)]
    BY DEF Made
  <2> QED BY <1>1, <1>2, <2>1, <2>2 DEF Made
<1>4. \A u \in Thread : Made[u] \in 0 .. B
  BY MadeFacts
<1>5. AllMade' = AllMade \cup {new} /\ new \notin AllMade
  <2>1. ASSUME NEW s \in Thread \X (1 .. B)
        PROVE  s[2] <= Made'[s[1]] <=> s[2] <= Made[s[1]] \/ s = new
    <3>1. CASE s[1] = t
      BY <3>1, <1>3, <1>4
    <3>2. CASE s[1] # t
      BY <3>2, <1>3
    <3> QED BY <3>1, <3>2
  <2>2. new \in Thread \X (1 .. B)
    BY <1>3
  <2>3. AllMade' = {s \in Thread \X (1 .. B) : s[2] <= Made'[s[1]]}
    BY DEF AllMade
  <2>4. new \notin AllMade
    BY <1>4 DEF AllMade
  <2> HIDE DEF new, B
  <2> QED BY <2>1, <2>2, <2>3, <2>4 DEF AllMade, B
<1>6. Cardinality(AllMade') = Cardinality(AllMade) + 1 /\ Cardinality(AllMade) \in Nat
  <2> HIDE DEF new
  <2> QED BY <1>5, MadeFacts, FS_AddElement
<1>7. PICK n \in (IF Made[t] >= 1 THEN 2 ELSE 1) .. Cardinality(AllMade) + 1 :
           sum[t] = Start + n * Net
  BY <1>1 DEF KeptInv, Has
<1>8. Least' <= n /\ Least' \in {0, 1, 2}
  <2>1. CASE Made[t] >= 1
    BY <2>1, <1>6, <1>7 DEF Least
  <2>2. CASE ~(Made[t] >= 1)
    <3>1. ~(B >= 2 /\ \A u \in Thread : Made'[u] = B)
      BY <2>2, <1>3, <1>4
    <3>2. Least' \in {0, 1}
      BY <3>1 DEF Least
    <3> QED BY <3>2, <2>2, <1>6, <1>7
  <2> QED BY <2>1, <2>2
<1>9. Has(account_balance', Least', Cardinality(AllMade'))
  <2>1. n \in Least' .. Cardinality(AllMade')
    BY <1>6, <1>7, <1>8
  <2> QED BY <1>1, <1>7, <2>1 DEF Has
<1>10. ASSUME NEW u \in Thread, pos'[u] = "store"
       PROVE  Has(sum'[u], IF Made'[u] >= 1 THEN 2 ELSE 1, Cardinality(AllMade') + 1)
  <2>1. u # t /\ pos[u] = "store" /\ Made'[u] = Made[u] /\ sum'[u] = sum[u]
    BY <1>1, <1>2, <1>3, <1>10
  <2>2. PICK m \in (IF Made[u] >= 1 THEN 2 ELSE 1) .. Cardinality(AllMade) + 1 :
               sum[u] = Start + m * Net
    BY <2>1 DEF KeptInv, Has
  <2>3. m \in (IF Made[u] >= 1 THEN 2 ELSE 1) .. Cardinality(AllMade') + 1
    BY <1>6, <2>2
  <2> QED BY <2>1, <2>2, <2>3 DEF Has
<1> QED BY <1>9, <1>10 DEF KeptInv, Has

LEMMA KeptStep == Aligned /\ JoinInv /\ KeptInv /\ [Next]_vars => KeptInv'
<1> SUFFICES ASSUME Aligned, JoinInv, KeptInv, [Next]_vars
             PROVE  KeptInv'
  OBVIOUS
<1>1. CASE UNCHANGED vars
  <2>1. Calm
    BY <1>1 DEF vars, bankvars, Calm, Made
  <2> QED BY <2>1, CalmKept
<1> QED
  BY <1>1, CalmMain, CalmThread, CalmKept, ReadKept, StoreKept DEF Next, Stopped, ThreadStep

LEMMA KeptInit == Init => JoinInv /\ KeptInv
<1> SUFFICES ASSUME Init PROVE JoinInv /\ KeptInv
  OBVIOUS
<1>1. /\ deposits = [t \in Thread |-> 0] /\ pos = [t \in Thread |-> "none"]
      /\ main = "cs_init" /\ status = -1 /\ cs_var_allocated = FALSE /\ account_balance = Start
  BY DEF Init, CSInit
<1>2. JoinInv
  BY <1>1, BankAssumption DEF JoinInv
<1>3. \A t \in Thread : Made[t] = 0 /\ pos[t] # "store"
  <2> TAKE t \in Thread
  <2>1. deposits[t] = 0 /\ pos[t] = "none"
    BY <1>1
  <2>2. Made[t] = deposits[t] + (IF pos[t] = "leave" THEN 1 ELSE 0)
    BY DEF Made
  <2> QED BY <2>1, <2>2
<1>4. Least = 0
  <2>1. \E t \in Thread : TRUE
    BY BankAssumption
  <2> QED BY <1>3, <2>1 DEF Least
<1>5. Has(account_balance, Least, Cardinality(AllMade))
  <2>1. 0 \in 0 .. Cardinality(AllMade)
    BY <1>2, MadeFacts
  <2>2. account_balance = Start + 0 * Net
    BY <1>1, BankAssumption
  <2> QED BY <1>4, <2>1, <2>2 DEF Has
<1> QED BY <1>2, <1>3, <1>5 DEF KeptInv

LEMMA KeptBounds == JoinInv /\ KeptInv => RaceBounds
<1> DEFINE B == bank_transactions_per_thread
<1> SUFFICES ASSUME JoinInv, KeptInv, status \in {0, 1}, cs_var_allocated
             PROVE  \E kept \in (IF B >= 2 THEN 2 ELSE B) .. thread_count * B :
                      account_balance = Start + kept * Net
  BY DEF RaceBounds
<1>1. \A t \in Thread : pos[t] = "finished" /\ deposits[t] = B
  BY DEF JoinInv
<1>2. B \in Nat /\ thread_count \in Nat \ {0} /\ \E t \in Thread : TRUE
  BY BankAssumption
<1>3. \A t \in Thread : Made[t] = B
  <2> TAKE t \in Thread
  <2>1. Made[t] = deposits[t] + (IF pos[t] = "leave" THEN 1 ELSE 0)
    BY DEF Made
  <2>2. Made[t] = B + 0
    BY <1>1, <2>1
  <2> QED BY <1>2, <2>2
<1>4. Least = IF B >= 2 THEN 2 ELSE B
  BY <1>2, <1>3 DEF Least
<1>5. PICK n \in Least .. Cardinality(AllMade) : account_balance = Start + n * Net
  BY DEF KeptInv, Has
<1>6. Cardinality(AllMade) \in Nat /\ Cardinality(AllMade) <= thread_count * B
  BY MadeFacts
<1>7. n \in (IF B >= 2 THEN 2 ELSE B) .. thread_count * B
  <2>1. thread_count * B \in Int
    BY <1>2
  <2>2. Least \in Int /\ n \in Int
    BY <1>2, <1>4, <1>6
  <2> QED BY <1>4, <1>5, <1>6, <2>1, <2>2
<1> QED BY <1>5, <1>7

\* RaceBounds: whichever method is chosen, also none, and whatever its interleavings, the
\* balance that main compares is the first one and a number of whole deposits: at most all of
\* them, and at least two if every thread made two.
THEOREM KeptDeposits == Spec => []RaceBounds
<1>1. IInv /\ Aligned /\ JoinInv /\ KeptInv /\ [Next]_vars => (Aligned /\ JoinInv /\ KeptInv)'
  BY NextAligned, JoinStep, KeptStep DEF IInv
<1> QED
  BY <1>1, InitAligned, KeptInit, KeptBounds, LibraryInvariance, PTL DEF Spec
==============================================================================
