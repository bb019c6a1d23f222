------------------------ MODULE Synchronization_proofs ------------------------
(***************************************************************************)
(* Proofs about small programs of few threads.                             *)
(* Cell: the monitor hands any quantity of numbers over one by one, and    *)
(* what ReadFromCell returns is at most one number too new, with any       *)
(* interruptions.                                                          *)
(* WatchCount: the watcher acts after its condition is met, for any        *)
(* threads, rounds and threshold, unless it is woken without a signal.     *)
(* Cleanup: what can leak, and that the semaphore is there for the post.   *)
(* PrintOrder: the monitor orders the output, and colours are whole.       *)
(***************************************************************************)
EXTENDS Cell, SequenceTheorems, TLAPS

\* The lock is held from the entry to the end of the block, but for the wait.
LockHeld ==
  /\ \A t \in Thread : owner = t <=> pc[t] \in {"test", "pulse", "unlock"}
  /\ \A t \in waiting : pc[t] = "waiting"

\* The flag tells whether a number is in the cell that has not been shown.
FlagRight == cellContents = IF readerFlag THEN consumed + 1 ELSE consumed

\* A loop counter is the number in hand, and after the access still that number.
Counted ==
  /\ looper["prod"] = IF pc["prod"] \in {"pulse", "unlock"} THEN cellContents
                      ELSE cellContents + 1
  /\ looper["cons"] = IF pc["cons"] \in {"pulse", "unlock", "return"} THEN consumed
                      ELSE consumed + 1
  /\ \A t \in Thread : pc[t] = "gone" <=> looper[t] = quantity + 1

\* The consumer has not begun while Main starts.
Started ==
  /\ main = "start" => pc["cons"] = "none"
  /\ pc["cons"] = "none" => consumed = 0

IInv == TypeOK /\ LockHeld /\ FlagRight /\ Counted /\ Started /\ ReturnWindow

LEMMA InitInv == Init => IInv
<1> SUFFICES ASSUME Init PROVE IInv
  OBVIOUS
<1> USE CellAssumption DEF Init, CondInit, Thread
<1>1. TypeOK
  <2>1. 1 \in 1 .. quantity + 1 /\ 0 \in 0 .. quantity
    OBVIOUS
  <2> QED BY <2>1 DEF TypeOK, CondTypeOK
<1>2. LockHeld
  BY DEF LockHeld
<1>3. Counted
  BY DEF Counted
<1>4. FlagRight /\ Started /\ ReturnWindow
  BY DEF FlagRight, Started, ReturnWindow
<1> QED BY <1>1, <1>2, <1>3, <1>4 DEF IInv

-------------------------------------------------------------------------------
\* The steps that move a thread without an access to the cell.
LEMMA MoveInv ==
  ASSUME IInv, NEW t \in Thread,
         EnterLock(t) \/ WaitTurn(t) \/ WaitReturn(t) \/ Pulse(t)
  PROVE  IInv'
<1> USE CellAssumption DEF IInv, Goto
<1>1. /\ UNCHANGED <<cellContents, readerFlag, looper, consumed, valReturned, main>>
      /\ pc' = [pc EXCEPT ![t] = pc'[t]]
      /\ waiting' \subseteq waiting \cup {t}
  BY DEF EnterLock, WaitTurn, WaitReturn, Pulse, Lock, Wait, Signal, TypeOK
<1>2. /\ <<pc[t], pc'[t]>> \in {<<"lock", "test">>, <<"test", "waiting">>,
                                <<"waiting", "test">>, <<"pulse", "unlock">>}
      /\ t \in waiting' => pc'[t] = "waiting"
  BY DEF EnterLock, WaitTurn, WaitReturn, Pulse, Lock, Wait, Signal, TypeOK, LockHeld
<1>3. TypeOK'
  BY <1>1, <1>2 DEF EnterLock, WaitTurn, WaitReturn, Pulse, Lock, Wait, Signal, TypeOK,
     CondTypeOK, Thread
<1>4. LockHeld'
  BY <1>1, <1>2 DEF EnterLock, WaitTurn, WaitReturn, Pulse, Lock, Wait, Signal, TypeOK,
     CondTypeOK, LockHeld, Thread
<1>5. FlagRight' /\ Counted' /\ Started' /\ ReturnWindow'
  BY <1>1, <1>2 DEF FlagRight, Counted, Started, ReturnWindow, Thread, TypeOK
<1> QED BY <1>3, <1>4, <1>5

\* The producer writes the number after the one that has been shown.
LEMMA WriteInv == ASSUME IInv, WriteToCell PROVE IInv'
<1> USE CellAssumption DEF IInv, WriteToCell, Goto, Turn
<1>1. /\ looper["prod"] = cellContents + 1 /\ looper["prod"] \in 1 .. quantity
      /\ cellContents = consumed
  BY DEF Counted, FlagRight, TypeOK, Thread
<1>2. TypeOK' /\ LockHeld'
  BY <1>1 DEF TypeOK, CondTypeOK, LockHeld, Thread
<1>3. FlagRight' /\ Counted' /\ Started' /\ ReturnWindow'
  BY <1>1 DEF FlagRight, Counted, Started, ReturnWindow, TypeOK, Thread
<1> QED BY <1>2, <1>3

\* The consumer shows the number that is there.
LEMMA ReadInv == ASSUME IInv, ReadFromCell PROVE IInv'
<1> USE CellAssumption DEF IInv, ReadFromCell, Goto, Turn
<1>1. cellContents = consumed + 1 /\ looper["cons"] = cellContents
  BY DEF Counted, FlagRight, TypeOK, Thread
<1>2. TypeOK' /\ LockHeld'
  BY <1>1 DEF TypeOK, CondTypeOK, LockHeld, Thread
<1>3. FlagRight' /\ Counted' /\ Started' /\ ReturnWindow'
  BY <1>1 DEF FlagRight, Counted, Started, ReturnWindow, TypeOK, Thread
<1> QED BY <1>2, <1>3

\* The lock is left; the producer's round ends with it.
LEMMA ExitInv == ASSUME IInv, NEW t \in Thread, ExitLock(t) PROVE IInv'
<1> USE CellAssumption DEF IInv, ExitLock, Goto, Unlock
<1>1. looper[t] \in 1 .. quantity
  BY DEF Counted, TypeOK
<1>2. TypeOK' /\ LockHeld'
  BY <1>1 DEF TypeOK, CondTypeOK, LockHeld, Thread, After
<1>3. FlagRight' /\ Counted' /\ Started' /\ ReturnWindow'
  BY <1>1 DEF FlagRight, Counted, Started, ReturnWindow, TypeOK, Thread, After
<1> QED BY <1>2, <1>3

\* The cell is read again without the lock: at most the next number is there.
LEMMA ReturnInv == ASSUME IInv, Return PROVE IInv'
<1> USE CellAssumption DEF IInv, Return, Goto
<1>1. looper["cons"] \in 1 .. quantity /\ cellContents \in {consumed, consumed + 1}
  BY DEF Counted, FlagRight, TypeOK, Thread
<1>2. TypeOK' /\ LockHeld'
  BY <1>1 DEF TypeOK, CondTypeOK, LockHeld, Thread, After
<1>3. FlagRight' /\ Counted' /\ Started' /\ ReturnWindow'
  BY <1>1 DEF FlagRight, Counted, Started, ReturnWindow, TypeOK, Thread, After
<1> QED BY <1>2, <1>3

\* Neither an interruption nor Main touches the cell.
LEMMA OthersInv == ASSUME IInv, Interrupt \/ Main PROVE IInv'
<1> USE CellAssumption DEF IInv
<1>1. CASE Interrupt
  BY <1>1 DEF Interrupt, WakeSpuriously, TypeOK, CondTypeOK, LockHeld, FlagRight, Counted,
     Started, ReturnWindow
<1>2. CASE Main
  <2>1. TypeOK' /\ LockHeld'
    BY <1>2 DEF Main, TypeOK, CondTypeOK, LockHeld, Started, Thread
  <2>2. FlagRight' /\ Counted' /\ Started' /\ ReturnWindow'
    BY <1>2 DEF Main, FlagRight, Counted, Started, ReturnWindow, TypeOK, Thread
  <2> QED BY <2>1, <2>2
<1> QED BY <1>1, <1>2

LEMMA NextInv == IInv /\ [Next]_vars => IInv'
<1> SUFFICES ASSUME IInv, [Next]_vars PROVE IInv'
  OBVIOUS
<1>1. CASE UNCHANGED vars
  BY <1>1 DEF vars, IInv, TypeOK, CondTypeOK, LockHeld, FlagRight, Counted, Started,
     ReturnWindow
<1>2. ASSUME NEW t \in Thread, ThreadRun(t) PROVE IInv'
  BY <1>2, MoveInv, WriteInv, ReadInv, ExitInv, ReturnInv DEF ThreadRun
<1> QED BY <1>1, <1>2, OthersInv DEF Next, Stopped

LEMMA Invariance == Spec => []IInv
BY InitInv, NextInv, PTL DEF Spec

-------------------------------------------------------------------------------
\* ReadFromCell returns the number of its message or the next one, for any quantity and
\* any interleaving of the return, which is outside the lock, with the producer.
THEOREM ReturnsInWindow == Spec => []ReturnWindow
<1>1. IInv => ReturnWindow
  BY DEF IInv
<1> QED BY <1>1, Invariance, PTL

\* What a step does to the cell and the message is a step of the handover.
LEMMA HandoverStep ==
  ASSUME IInv, [Next]_vars
  PROVE  [Promise!Next]_<<cellContents, consumed>>
<1> USE DEF Promise!Next, Promise!Produce, Promise!Consume
<1>1. CASE WriteToCell
  <2>1. looper["prod"] = cellContents + 1 /\ looper["prod"] \in 1 .. quantity
        /\ cellContents = consumed
    BY <1>1, CellAssumption DEF WriteToCell, Turn, Goto, IInv, Counted, FlagRight, TypeOK,
       Thread
  <2>2. cellContents < quantity
    BY <2>1, CellAssumption DEF IInv, TypeOK
  <2> QED BY <1>1, <2>1, <2>2 DEF WriteToCell
<1>2. CASE ReadFromCell
  BY <1>2 DEF ReadFromCell, Turn, IInv, FlagRight, TypeOK
<1>3. CASE ~WriteToCell /\ ~ReadFromCell
  <2>1. UNCHANGED <<cellContents, consumed>>
    BY <1>3 DEF Next, ThreadRun, EnterLock, WaitTurn, WaitReturn, Pulse, ExitLock, Return,
       Interrupt, Main, Stopped, vars
  <2> QED BY <2>1
<1> QED BY <1>1, <1>2, <1>3

\* The cell implements the handover: every number once, in order, and shown before the next
\* one is written, for any quantity and with any interruptions of the waits.
THEOREM Refinement == Spec => HandsOver
<1>1. Init => Promise!Init
  BY DEF Init, Promise!Init
<1>2. IInv /\ [Next]_vars => [Promise!Next]_<<cellContents, consumed>>
  BY HandoverStep
<1> QED BY <1>1, <1>2, Invariance, PTL DEF Spec, HandsOver, Promise!Spec

(***************************************************************************)
(* The watched counter. It is the same mutex and condition variable with   *)
(* other threads and variables.                                            *)
(***************************************************************************)

CONSTANTS Incrementers, Watcher, TCOUNT, COUNT_THRESHOLD, BONUS
VARIABLES count, reg, i, returned, alive

Watch == INSTANCE WatchCount

\* The places where the mutex is held.
Holding == {"load", "store", "test", "unlock"}

WatchTypeOK ==
  /\ owner \in Watch!Thread \cup {Nobody} /\ waiting \subseteq {Watcher}
  /\ count \in Nat /\ reg \in [Watch!Thread -> Nat]
  /\ pc \in [Watch!Thread -> {"none", "lock", "waiting", "gone"} \cup Holding]
  /\ returned \in {"not", "signal", "spurious"}

\* The mutex is held at the places above, so that nothing comes between a load and its
\* store; only a thread that is asleep can be signalled.
WatchLockInv ==
  /\ \A t \in Watch!Thread : owner = t <=> pc[t] \in Holding
  /\ \A t \in waiting : pc[t] = "waiting"
  /\ \A t \in Watch!Thread : pc[t] = "store" => reg[t] = count

\* A watcher that was woken by the signal, and has still to get the mutex again, finds the
\* threshold reached, since the count only grows.
Woken ==
  returned # "spurious" /\ pc[Watcher] = "waiting" /\ Watcher \notin waiting
    => count >= COUNT_THRESHOLD

WatchInv == WatchTypeOK /\ WatchLockInv /\ Woken /\ Watch!MetIfSignalled

WatchQ == Watch!WatchAssumption /\ WatchInv

LEMMA WatchFacts ==
  ASSUME Watch!WatchAssumption
  PROVE  /\ Watch!Thread = Incrementers \cup {Watcher} /\ Watcher \notin Incrementers
         /\ Nobody \notin Watch!Thread
         /\ COUNT_THRESHOLD \in Nat /\ BONUS \in Nat /\ TCOUNT \in Nat
BY DEF Watch!WatchAssumption, Watch!Thread

LEMMA WatchInit == Watch!WatchAssumption /\ Watch!Init => WatchQ
<1> SUFFICES ASSUME Watch!WatchAssumption, Watch!Init PROVE WatchQ
  OBVIOUS
<1>1. /\ owner = Nobody /\ waiting = {} /\ count = 0 /\ returned = "not"
      /\ pc = [t \in Watch!Thread |-> "none"] /\ reg = [t \in Watch!Thread |-> 0]
  BY DEF Watch!Init, Watch!CondInit
<1>2. Watcher \in Watch!Thread
  BY WatchFacts
<1> QED BY <1>1, <1>2, WatchFacts DEF WatchQ, WatchInv, WatchTypeOK, WatchLockInv, Woken,
      Watch!MetIfSignalled, Watch!ConditionMet, Holding

\* A load, a store and the steps of inc_count.
LEMMA IncStep ==
  ASSUME WatchQ, NEW t \in Incrementers, Watch!IncCount(t)
  PROVE  WatchInv'
<1> USE WatchFacts DEF WatchQ, WatchInv, WatchTypeOK, WatchLockInv, Woken, Watch!MetIfSignalled,
      Watch!ConditionMet, Holding, Watch!Goto
<1>1. CASE Watch!IncLock(t)
  BY <1>1 DEF Watch!IncLock, Watch!Lock
<1>2. CASE Watch!Load(t)
  BY <1>2 DEF Watch!Load
<1>3. CASE Watch!Store(t, 1, "test")
  BY <1>3 DEF Watch!Store
<1>4. CASE Watch!IncTest(t)
  BY <1>4 DEF Watch!IncTest, Watch!Signal
<1>5. CASE Watch!IncUnlock(t)
  BY <1>5 DEF Watch!IncUnlock, Watch!Unlock
<1> QED BY <1>1, <1>2, <1>3, <1>4, <1>5 DEF Watch!IncCount

\* The steps of watch_count, with a wait that returns.
LEMMA WatchStep ==
  ASSUME WatchQ, Watch!WatchCount \/ Watch!Wake
  PROVE  WatchInv'
<1> USE WatchFacts DEF WatchQ, WatchInv, WatchTypeOK, WatchLockInv, Woken, Watch!MetIfSignalled,
      Watch!ConditionMet, Holding, Watch!Goto
<1>1. CASE Watch!WatchLock
  BY <1>1 DEF Watch!WatchLock, Watch!Lock
<1>2. CASE Watch!WatchTest
  BY <1>2 DEF Watch!WatchTest, Watch!Wait
<1>3. CASE Watch!WatchReturn
  BY <1>3 DEF Watch!WatchReturn, Watch!Lock
<1>4. CASE Watch!Load(Watcher)
  BY <1>4 DEF Watch!Load
<1>5. CASE Watch!Store(Watcher, BONUS, "unlock")
  BY <1>5 DEF Watch!Store
<1>6. CASE Watch!WatchUnlock
  BY <1>6 DEF Watch!WatchUnlock, Watch!Unlock
<1>7. CASE Watch!Wake
  BY <1>7 DEF Watch!Wake, Watch!WakeSpuriously
<1> QED BY <1>1, <1>2, <1>3, <1>4, <1>5, <1>6, <1>7 DEF Watch!WatchCount

LEMMA WatchNext == WatchQ /\ [Watch!Next]_Watch!vars => WatchQ'
<1> SUFFICES ASSUME WatchQ, [Watch!Next]_Watch!vars PROVE WatchInv'
  BY DEF WatchQ, Watch!WatchAssumption
<1>1. CASE Watch!Main
  BY <1>1, WatchFacts DEF WatchQ, WatchInv, WatchTypeOK, WatchLockInv, Woken,
    Watch!MetIfSignalled, Watch!ConditionMet, Holding, Watch!Goto, Watch!Main, Watch!Create,
    Watch!Destroy
<1>2. CASE Watch!Stopped \/ UNCHANGED Watch!vars
  BY <1>2 DEF WatchQ, WatchInv, WatchTypeOK, WatchLockInv, Woken,
    Watch!MetIfSignalled, Watch!ConditionMet, Watch!Stopped, Watch!vars
<1> QED BY <1>1, <1>2, IncStep, WatchStep DEF Watch!Next

\* MetIfSignalled: the watcher of sync_cond_var.c adds its bonus after the condition is met,
\* for any number of threads and increments and any threshold, although it does not look at
\* count again; only a return of pthread_cond_wait without a signal can make it too early.
THEOREM WatcherMeets == Watch!WatchAssumption => (Watch!Spec => []Watch!MetIfSignalled)
<1>1. WatchQ => Watch!MetIfSignalled
  BY DEF WatchQ, WatchInv
<1> QED BY <1>1, WatchInit, WatchNext, PTL DEF Watch!Spec

(***************************************************************************)
(* The thread that reads a name. The main thread's place is main here too. *)
(***************************************************************************)

CONSTANT Versions
VARIABLES version, thread, thread_finished, thread_finished_initialized, timeout_gone,
          fgets_exited_with_error, heap, handler, cancelled, cancelled_at, out_of_memory

Name == INSTANCE Cleanup

\* Before the thread there is nothing to release, while it may run the semaphore is there,
\* and main gets past the join only when it is through.
NameStages ==
  /\ version \in {"push", "sem"} /\ heap \subseteq {"buf", "name"}
  /\ main \in Name!MainPos
  /\ main \in {"sem_init", "create"} => thread = "none" /\ heap = {}
  /\ main \in {"create", "timedwait", "check", "cancel", "print", "join"}
       => thread_finished_initialized
  /\ main \in {"sem_destroy", "free_name", "gone"}
       => thread \in {"none", "finished", "cancelled"}
  /\ main \in {"free_name", "gone"} => ~thread_finished_initialized
  /\ main = "gone" => "name" \notin heap

\* The buffer is gone when the thread comes to its end, but for a cancellation; the handler
\* is there from the push to the pop, so that a cancellation leaves the buffer only before it.
NameBuffer ==
  /\ thread \in Name!ThreadPos
  /\ thread \in {"none", "malloc", "freed", "post", "finished"} => "buf" \notin heap
  /\ (handler <=> (version = "push" /\ thread \in {"ask", "read", "strdup", "named", "pop"}))
  /\ thread = "cancelled" /\ "buf" \in heap =>
       cancelled_at # "freed" /\ (version = "push" => cancelled_at = "allocated")

NameInv == NameStages /\ NameBuffer

LEMMA NameInit == Name!CleanupAssumption /\ Name!Init => NameInv
BY DEF Name!CleanupAssumption, Name!Init, NameInv, NameStages, NameBuffer, Name!MainPos,
   Name!ThreadPos

LEMMA NameNext == NameInv /\ [Name!Next]_Name!vars => NameInv'
<1> SUFFICES ASSUME NameInv, [Name!Next]_Name!vars PROVE NameInv'
  OBVIOUS
<1> USE DEF NameInv, NameStages, NameBuffer, Name!MainPos, Name!ThreadPos
<1>1. CASE Name!ThreadWork
  <2> USE DEF Name!ThreadGoto
  <2>1. CASE Name!ThreadMalloc
    BY <2>1 DEF Name!ThreadMalloc
  <2>2. CASE Name!ThreadPush
    BY <2>2 DEF Name!ThreadPush
  <2>3. CASE Name!ThreadAsk
    BY <2>3 DEF Name!ThreadAsk
  <2>7. CASE Name!ThreadNamed
    BY <2>7 DEF Name!ThreadNamed
  <2>4. CASE Name!ThreadStrdup
    BY <2>4 DEF Name!ThreadStrdup
  <2>5. CASE Name!ThreadPop
    BY <2>5 DEF Name!ThreadPop
  <2>6. CASE Name!ThreadFreed
    BY <2>6 DEF Name!ThreadFreed
  <2>8. CASE Name!ThreadPost
    BY <2>8 DEF Name!ThreadPost
  <2> QED BY <1>1, <2>1, <2>2, <2>3, <2>4, <2>5, <2>6, <2>7, <2>8 DEF Name!ThreadWork
<1>2. CASE Name!ThreadRead
  BY <1>2 DEF Name!ThreadRead, Name!ThreadGoto
<1>3. CASE Name!ThreadCancelled
  BY <1>3 DEF Name!ThreadCancelled, Name!ThreadGoto, Name!CancellationPoint
<1>4. CASE Name!Main
  <2> USE DEF Name!MainGoto
  <2>1. CASE Name!MainSemInit
    BY <2>1 DEF Name!MainSemInit
  <2>2. CASE Name!MainCreate
    BY <2>2 DEF Name!MainCreate
  <2>3. CASE Name!MainPosted
    BY <2>3 DEF Name!MainPosted
  <2>9. CASE Name!MainTimeout
    BY <2>9 DEF Name!MainTimeout
  <2>11. CASE Name!MainWaitFails
    BY <2>11 DEF Name!MainWaitFails
  <2>4. CASE Name!MainCheck
    BY <2>4 DEF Name!MainCheck
  <2>5. CASE Name!MainCancel
    BY <2>5 DEF Name!MainCancel
  <2>10. CASE Name!MainPrint
    BY <2>10 DEF Name!MainPrint
  <2>6. CASE Name!MainJoin
    BY <2>6 DEF Name!MainJoin
  <2>7. CASE Name!MainSemDestroy
    BY <2>7 DEF Name!MainSemDestroy
  <2>8. CASE Name!MainFreeName
    BY <2>8 DEF Name!MainFreeName
  <2> QED BY <1>4, <2>1, <2>2, <2>3, <2>4, <2>5, <2>6, <2>7, <2>8, <2>9, <2>10, <2>11
     DEF Name!Main
<1>5. CASE UNCHANGED Name!vars
  BY <1>5 DEF Name!vars
<1> QED BY <1>1, <1>2, <1>3, <1>4, <1>5 DEF Name!Next, Name!Stopped

\* LeakOnlyInGap: pthread_cleanup.c leaves its buffer only when the cancellation acts between
\* malloc and pthread_cleanup_push, where the handler is not there yet; pthread_cleanup_sem.c,
\* which has no handler, when it acts before the release; neither leaves the name or the
\* semaphore, whatever answer, timeout and cancellation come in whatever order.
THEOREM NameLeaks == Name!CleanupAssumption => (Name!Spec => []Name!LeakOnlyInGap)
<1>1. NameInv => Name!LeakOnlyInGap
  BY DEF NameInv, NameStages, NameBuffer, Name!LeakOnlyInGap
<1> QED BY <1>1, NameInit, NameNext, PTL DEF Name!Spec

\* SemaphoreAlive: sem_post finds the semaphore, since main joins before it destroys it.
THEOREM PostFindsSemaphore == Name!CleanupAssumption => (Name!Spec => []Name!SemaphoreAlive)
<1>1. NameInv => Name!SemaphoreAlive
  BY DEF NameInv, NameStages, NameBuffer, Name!SemaphoreAlive, Name!MainPos, Name!ThreadPos
<1> QED BY <1>1, NameInit, NameNext, PTL DEF Name!Spec

(***************************************************************************)
(* Printing in order, of a number and of a colour.                         *)
(***************************************************************************)

CONSTANT Programs
VARIABLES program, f1, f2, printed, val, calculated, shown, rgb

Order == INSTANCE PrintOrder

\* SyncMonitor: the predicate and the value are set together in f1, f2 passes the loop only
\* with the predicate, and the output follows from where the two threads are.
OrderMonitor ==
  Order!Monitor =>
    /\ f1 \in {"create", "print", "lock", "calculate", "signal", "unlock", "join", "gone"}
    /\ f2 \in {"none", "lock", "test", "waiting", "get", "unlock", "print", "gone"}
    /\ calculated \in BOOLEAN
    /\ (calculated <=> f1 \in {"signal", "unlock", "join", "gone"})
    /\ val = IF calculated THEN 2 ELSE 1
    /\ f2 \in {"get", "unlock", "print", "gone"} => calculated
    /\ shown = IF f2 \in {"unlock", "print", "gone"} THEN 2 ELSE 0
    /\ printed = IF f2 = "gone" THEN <<1, 2>>
                 ELSE IF f1 \in {"create", "print"} THEN <<>> ELSE <<1>>

\* sync_RGB_assignment: f2 has seen no more components than are set.
OrderColour ==
  program.sync = "rgb" =>
    /\ f1 \in {"none", "set", "gone"} /\ f2 \in {"create", "check", "join", "gone"}
    /\ f2 = "create" => f1 = "none"
    /\ rgb \in 0 .. 3 /\ (f1 \in {"none", "set"} => rgb <= 2)
    /\ shown \in 0 .. rgb /\ (f2 \in {"create", "check"} => printed = <<>> /\ shown <= 2)
    /\ printed \in {<<>>, <<3>>, <<4>>} /\ (printed = <<3>> => rgb = 3)

\* The others print numbers only.
OrderNumbers ==
  program.sync \in {"none", "cond"} =>
    printed \in Seq({1, 2}) /\ f1 # "set" /\ f2 # "check"

\* What is used of a program.
OrderProgram ==
  /\ program.sync \in {"cond", "monitor", "none", "rgb"} /\ program.main \in {"f1", "f2"}
  /\ Order!Monitor => program.main = "f1"
  /\ program.sync = "rgb" => program.main = "f2"

OrderInv == OrderProgram /\ OrderMonitor /\ OrderColour /\ OrderNumbers

LEMMA OrderInit == Order!PrintAssumption /\ Order!Init => OrderInv
<1> SUFFICES ASSUME Order!PrintAssumption, Order!Init PROVE OrderInv
  OBVIOUS
<1>1. OrderProgram
  BY DEF Order!PrintAssumption, Order!AllPrograms, Order!sync_assignment_cond,
     Order!SyncMonitor, Order!sync_assignment, Order!sync_partial_sem,
     Order!sync_assignment_sem, Order!Sync, Order!sync_RGB_assignment,
     Order!sync_RGB_assignment2, Order!Init, Order!Monitor, OrderProgram
<1>2. /\ f1 = IF program.main = "f1" THEN "create" ELSE "none"
      /\ f2 = IF program.main = "f2" THEN "create" ELSE "none"
      /\ printed = <<>> /\ val = 1 /\ calculated = FALSE /\ shown = 0 /\ rgb = 0
  BY DEF Order!Init
<1>3. OrderMonitor
  BY <1>1, <1>2 DEF OrderProgram, OrderMonitor
<1>4. OrderColour
  BY <1>1, <1>2 DEF OrderProgram, OrderColour
<1>5. OrderNumbers
  BY <1>2 DEF OrderNumbers
<1> QED BY <1>1, <1>3, <1>4, <1>5 DEF OrderInv

\* The steps of f1.
LEMMA OrderF1 ==
  ASSUME OrderInv, Order!F1
  PROVE  OrderInv'
<1> USE DEF OrderInv, OrderProgram, OrderMonitor, OrderColour, OrderNumbers, Order!Monitor,
      Order!Cond, Order!F1Goto, Order!Finish
<1>1. CASE Order!F1Lock
  BY <1>1 DEF Order!F1Lock
<1>2. CASE Order!F1Print
  <2>1. Append(<<>>, 1) = <<1>>
    OBVIOUS
  <2>2. OrderProgram' /\ OrderMonitor'
    BY <1>2, <2>1 DEF Order!F1Print
  <2>3. OrderColour'
    BY <1>2 DEF Order!F1Print
  <2>4. program.sync \in {"none", "cond"} => Append(printed, 1) \in Seq({1, 2})
    OBVIOUS
  <2>5. OrderNumbers'
    BY <1>2, <2>4 DEF Order!F1Print
  <2> QED BY <2>2, <2>3, <2>5
<1>3. CASE Order!CalculateValue
  <2>1. CASE program.sync = "monitor"
    <3>1. f1 = "calculate" /\ f1' = "signal" /\ val' = val + 1 /\ calculated' = TRUE
      BY <1>3, <2>1 DEF Order!CalculateValue
    <3>2. ~calculated /\ val = 1
      BY <2>1, <3>1
    <3> QED BY <1>3, <2>1, <3>1, <3>2 DEF Order!CalculateValue
  <2>2. CASE program.sync # "monitor"
    BY <1>3, <2>2 DEF Order!CalculateValue
  <2> QED BY <2>1, <2>2
<1>4. CASE Order!F1Signal
  BY <1>4 DEF Order!F1Signal
<1>5. CASE Order!F1Unlock
  BY <1>5 DEF Order!F1Unlock
<1>6. CASE Order!setRGB
  BY <1>6 DEF Order!setRGB
<1> QED BY <1>1, <1>2, <1>3, <1>4, <1>5, <1>6 DEF Order!F1

\* The steps of f2.
LEMMA OrderF2 ==
  ASSUME OrderInv, Order!F2
  PROVE  OrderInv'
<1> USE DEF OrderInv, OrderProgram, OrderMonitor, OrderColour, OrderNumbers, Order!Monitor,
      Order!Cond, Order!F2Goto, Order!Finish
<1>1. CASE Order!F2Lock
  BY <1>1 DEF Order!F2Lock
<1>2. CASE Order!F2Wait
  BY <1>2 DEF Order!F2Wait
<1>3. CASE Order!F2Return
  BY <1>3 DEF Order!F2Return
<1>4. CASE Order!F2Passes
  BY <1>4 DEF Order!F2Passes
<1>5. CASE Order!GetValue
  BY <1>5 DEF Order!GetValue
<1>6. CASE Order!F2Print
  <2>1. Append(<<1>>, 2) = <<1, 2>>
    <3>1. <<1>> \in Seq(Nat) /\ <<1, 2>> \in Seq(Nat) /\ Append(<<1>>, 2) \in Seq(Nat)
      OBVIOUS
    <3>2. Len(<<1, 2>>) = 2 /\ Len(Append(<<1>>, 2)) = 2
      OBVIOUS
    <3>3. \A n \in 1 .. 2 : <<1, 2>>[n] = Append(<<1>>, 2)[n]
      OBVIOUS
    <3> QED BY <3>1, <3>2, <3>3, SeqEqual
  <2>2. OrderProgram' /\ OrderMonitor'
    BY <1>6, <2>1 DEF Order!F2Print
  <2>3. OrderColour'
    BY <1>6 DEF Order!F2Print
  <2>4. program.sync \in {"none", "cond"} => Append(printed, 2) \in Seq({1, 2})
    OBVIOUS
  <2>5. OrderNumbers'
    BY <1>6, <2>4 DEF Order!F2Print
  <2> QED BY <2>2, <2>3, <2>5
<1>7. CASE Order!F2Unlock
  BY <1>7 DEF Order!F2Unlock
<1>8. CASE Order!isColorValid
  BY <1>8 DEF Order!isColorValid
<1> QED BY <1>1, <1>2, <1>3, <1>4, <1>5, <1>6, <1>7, <1>8 DEF Order!F2

LEMMA OrderNext == OrderInv /\ [Order!Next]_Order!vars => OrderInv'
<1> SUFFICES ASSUME OrderInv, [Order!Next]_Order!vars PROVE OrderInv'
  OBVIOUS
<1> USE DEF OrderInv, OrderProgram, OrderMonitor, OrderColour, OrderNumbers, Order!Monitor
<1>1. CASE Order!Create
  <2>1. CASE program.sync = "monitor"
    <3>1. Order!F1Start = "print" /\ Order!F2Start = "lock"
      BY <2>1 DEF Order!F1Start, Order!F2Start, Order!Cond
    <3> QED BY <1>1, <2>1, <3>1 DEF Order!Create
  <2>2. CASE program.sync = "rgb"
    <3>1. Order!F1Start = "set" /\ Order!F2Start = "check"
      BY <2>2 DEF Order!F1Start, Order!F2Start, Order!Cond
    <3> QED BY <1>1, <2>2, <3>1 DEF Order!Create
  <2>3. CASE program.sync = "none"
    <3>1. Order!F1Start = "print" /\ Order!F2Start = "get"
      BY <2>3 DEF Order!F1Start, Order!F2Start, Order!Cond
    <3> QED BY <1>1, <2>3, <3>1 DEF Order!Create
  <2>4. CASE program.sync = "cond"
    <3>1. Order!F1Start = "lock" /\ Order!F2Start = "lock"
      BY <2>4 DEF Order!F1Start, Order!F2Start, Order!Cond
    <3> QED BY <1>1, <2>4, <3>1 DEF Order!Create
  <2> QED BY <2>1, <2>2, <2>3, <2>4
<1>2. CASE Order!Join
  BY <1>2 DEF Order!Join, Order!F1Goto, Order!F2Goto
<1>3. CASE Order!Wake
  BY <1>3 DEF Order!Wake
<1>4. CASE UNCHANGED Order!vars
  BY <1>4 DEF Order!vars
<1> QED BY <1>1, <1>2, <1>3, <1>4, OrderF1, OrderF2 DEF Order!Next, Order!Stopped

\* MonitorOrders: the monitor of SyncMonitor.java prints 1 before 2, and the calculated value.
THEOREM MonitorPrintsInOrder == Order!PrintAssumption => (Order!Spec => []Order!MonitorOrders)
<1>1. OrderInv => Order!MonitorOrders
  BY DEF OrderInv, OrderMonitor, Order!MonitorOrders
<1> QED BY <1>1, OrderInit, OrderNext, PTL DEF Order!Spec

\* ColourWhole: sync_RGB_assignment never takes an incomplete colour for a valid one.
THEOREM ColoursAreWhole == Order!PrintAssumption => (Order!Spec => []Order!ColourWhole)
<1>1. ASSUME OrderInv PROVE Order!ColourWhole
  <2>1. CASE program.sync = "rgb"
    <3>1. CASE printed = <<>> \/ printed = <<4>>
      BY <3>1 DEF Order!ColourWhole, Order!Range
    <3>2. CASE printed = <<3>>
      BY <2>1, <3>2, <1>1 DEF OrderInv, OrderColour, Order!ColourWhole
    <3> QED BY <1>1, <2>1, <3>1, <3>2 DEF OrderInv, OrderColour
  <2>2. CASE program.sync = "monitor"
    <3>1. printed = <<>> \/ printed = <<1>> \/ printed = <<1, 2>>
      BY <1>1, <2>2 DEF OrderInv, OrderMonitor, Order!Monitor
    <3> QED BY <3>1 DEF Order!ColourWhole, Order!Range
  <2>3. CASE program.sync \in {"none", "cond"}
    <3>1. printed \in Seq({1, 2})
      BY <1>1, <2>3 DEF OrderInv, OrderNumbers
    <3>2. \A n \in DOMAIN printed : printed[n] \in {1, 2}
      BY <3>1
    <3> QED BY <3>2 DEF Order!ColourWhole, Order!Range
  <2> QED BY <1>1, <2>1, <2>2, <2>3 DEF OrderInv, OrderProgram
<1> QED BY <1>1, OrderInit, OrderNext, PTL DEF Order!Spec
==============================================================================
