--------------------------------- MODULE Cell ---------------------------------
(***************************************************************************)
(* monitor-Csharp/producer-consumer/ProducerConsumerSimple.cs: a producer  *)
(* and a consumer hand numbers over in one cell, a monitor with the flag   *)
(* readerFlag.  lock(this) is CondVar's mutex, Monitor.Wait its wait and   *)
(* Monitor.Pulse its signal; a wait that is interrupted ends in the catch  *)
(* blocks of the loop, as a spurious wakeup does.                          *)
(***************************************************************************)
EXTENDS CondVar, Naturals

CONSTANT quantity    \* numbers produced, and consumed (20)

ASSUME CellAssumption == quantity \in Nat \ {0} /\ Nobody \notin {"prod", "cons"}

VARIABLES
  cellContents, readerFlag,
  pc,            \* pc[t]: where the producer, or the consumer, is
  looper,        \* looper[t]: its loop counter
  consumed,      \* the number in the consumer's last message
  valReturned,   \* the value ReadFromCell has returned last
  main           \* Main: "start", "join", "gone"

vars == <<owner, waiting, cellContents, readerFlag, pc, looper, consumed, valReturned, main>>

Thread == {"prod", "cons"}

TypeOK ==
  /\ CondTypeOK(Thread)
  /\ cellContents \in 0 .. quantity /\ readerFlag \in BOOLEAN
  /\ pc \in [Thread -> {"none", "lock", "test", "waiting", "pulse", "unlock", "return", "gone"}]
  /\ looper \in [Thread -> 1 .. quantity + 1]
  /\ consumed \in 0 .. quantity /\ valReturned \in 0 .. quantity
  /\ main \in {"start", "join", "gone"}

Init ==
  /\ CondInit
  /\ cellContents = 0 /\ readerFlag = FALSE
  /\ pc = [t \in Thread |-> "none"] /\ looper = [t \in Thread |-> 1]
  /\ consumed = 0 /\ valReturned = 0
  /\ main = "start"

Goto(t, from, to) == pc[t] = from /\ pc' = [pc EXCEPT ![t] = to] /\ UNCHANGED main

\* The thread's turn: the producer's while the cell is empty, the consumer's while it is full.
Turn(t) == IF t = "prod" THEN ~readerFlag ELSE readerFlag

EnterLock(t) ==
  /\ Goto(t, "lock", "test") /\ Lock(t)
  /\ UNCHANGED <<cellContents, readerFlag, looper, consumed, valReturned>>

WaitTurn(t) ==
  /\ ~Turn(t) /\ Goto(t, "test", "waiting") /\ Wait(t)
  /\ UNCHANGED <<cellContents, readerFlag, looper, consumed, valReturned>>

\* MUTANT of WaitReturn: the flag is not tested again.
MutWaitReturn(t) ==
  /\ pc[t] = "waiting" /\ t \notin waiting /\ owner = Nobody
  /\ readerFlag' = (t = "prod")
  /\ IF t = "prod" THEN cellContents' = looper[t] /\ UNCHANGED consumed
     ELSE consumed' = cellContents /\ UNCHANGED cellContents
  /\ Goto(t, "waiting", "pulse") /\ Lock(t)
  /\ UNCHANGED <<looper, valReturned>>

\* Monitor.Wait returns with the lock, and the loop tests the flag again.
WaitReturn(t) ==
  /\ Goto(t, "waiting", "test") /\ Lock(t)
  /\ UNCHANGED <<cellContents, readerFlag, looper, consumed, valReturned>>

\* MUTANT of WriteToCell: the cell is written whether it has been read or not.
MutWriteToCell ==
  /\ Goto("prod", "test", "pulse")
  /\ cellContents' = looper["prod"] /\ readerFlag' = TRUE
  /\ UNCHANGED <<owner, waiting, looper, consumed, valReturned>>

WriteToCell ==
  /\ Turn("prod") /\ Goto("prod", "test", "pulse")
  /\ cellContents' = looper["prod"] /\ readerFlag' = TRUE
  /\ UNCHANGED <<owner, waiting, looper, consumed, valReturned>>

\* The message, and the flag.
ReadFromCell ==
  /\ Turn("cons") /\ Goto("cons", "test", "pulse")
  /\ consumed' = cellContents /\ readerFlag' = FALSE
  /\ UNCHANGED <<owner, waiting, cellContents, looper, valReturned>>

\* MUTANT of Pulse: the consumer forgets to.
MutPulse(t) ==
  /\ Goto(t, "pulse", "unlock")
  /\ IF t = "cons" THEN UNCHANGED <<owner, waiting>> ELSE Signal
  /\ UNCHANGED <<cellContents, readerFlag, looper, consumed, valReturned>>

Pulse(t) ==
  /\ Goto(t, "pulse", "unlock") /\ Signal
  /\ UNCHANGED <<cellContents, readerFlag, looper, consumed, valReturned>>

After(t) == IF looper[t] = quantity THEN "gone" ELSE "lock"

\* The end of the lock block; the producer goes on with the next number.
ExitLock(t) ==
  /\ Goto(t, "unlock", IF t = "prod" THEN After(t) ELSE "return") /\ Unlock(t)
  /\ looper' = IF t = "prod" THEN [looper EXCEPT ![t] = @ + 1] ELSE looper
  /\ UNCHANGED <<cellContents, readerFlag, consumed, valReturned>>

\* return cellContents, when the lock is already given up.
Return ==
  /\ Goto("cons", "return", After("cons"))
  /\ valReturned' = cellContents
  /\ looper' = [looper EXCEPT !["cons"] = @ + 1]
  /\ UNCHANGED <<owner, waiting, cellContents, readerFlag, consumed>>

ThreadRun(t) ==
  \/ EnterLock(t) \/ WaitTurn(t) \/ WaitReturn(t) \/ Pulse(t) \/ ExitLock(t)
  \/ t = "prod" /\ WriteToCell
  \/ t = "cons" /\ (ReadFromCell \/ Return)

Interrupt ==
  /\ \E t \in Thread : WakeSpuriously(t)
  /\ UNCHANGED <<cellContents, readerFlag, pc, looper, consumed, valReturned, main>>

\* Both threads are started, the producer first, and joined.
Main ==
  /\ \/ /\ main = "start" /\ pc["prod"] = "none" /\ pc' = [pc EXCEPT !["prod"] = "lock"]
        /\ UNCHANGED main
     \/ /\ main = "start" /\ pc["prod"] # "none" /\ pc' = [pc EXCEPT !["cons"] = "lock"]
        /\ main' = "join"
     \/ /\ main = "join" /\ \A t \in Thread : pc[t] = "gone"
        /\ main' = "gone" /\ UNCHANGED pc
  /\ UNCHANGED <<owner, waiting, cellContents, readerFlag, looper, consumed, valReturned>>

Stopped == main = "gone" /\ UNCHANGED vars

Next == (\E t \in Thread : ThreadRun(t)) \/ Interrupt \/ Main \/ Stopped

Spec == Init /\ [][Next]_vars

\* Both threads are scheduled, and the ready queue of the monitor lets one in that comes
\* again and again when the lock is free, however often the other one is interrupted.
FairSpec == Spec /\ WF_vars(Main) /\ \A t \in Thread : SF_vars(ThreadRun(t))

------------------------------------------------------------------------------
\* HandsOver: the monitor hands the numbers over one by one: no message shows a number
\* twice, none is overwritten before it is shown.
Promise == INSTANCE Handover WITH produced <- cellContents
HandsOver == Promise!Spec

\* ReturnWindow: what ReadFromCell returns is read after the lock (line 123): it is the
\* number of its message or, if the producer has been faster, the next one, never a later.
ReturnWindow ==
  pc["cons"] \in {"lock", "gone"} /\ consumed > 0 => valReturned \in {consumed, consumed + 1}

\* Ends: no pulse is missed: both threads do all their rounds and Main ends.
Ends == <>(main = "gone")

==============================================================================
