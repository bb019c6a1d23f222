------------------------------ MODULE PrintOrder ------------------------------
(***************************************************************************)
(* The exercise of printing 1 in one thread before 2 in another one,       *)
(* however long either of them sleeps, as the repository has it: solved    *)
(* with a condition variable without a predicate (sync_assignment_cond.c)  *)
(* and with a Java monitor (SyncMonitor.java), and as it is handed out     *)
(* (sync_assignment.c, sync_assignment_sem.c, sync_partial_sem.c,          *)
(* Sync.java).  f1 is the thread that prints 1, f2 the one that prints 2;  *)
(* one of them is main.  In sync_RGB_assignment*.c f1 stores the three     *)
(* components of a colour and f2 checks and prints them.                   *)
(***************************************************************************)
EXTENDS CondVar, SequencesExt, Naturals

CONSTANT Programs   \* those of the programs below that are looked at

sync_assignment_cond == [sync |-> "cond",    main |-> "f2"]
SyncMonitor          == [sync |-> "monitor", main |-> "f1"]
sync_assignment      == [sync |-> "none",    main |-> "f2"]
sync_partial_sem     == sync_assignment
sync_assignment_sem  == sync_assignment
Sync                 == [sync |-> "none",    main |-> "f1"]
sync_RGB_assignment  == [sync |-> "rgb",     main |-> "f2"]
sync_RGB_assignment2 == sync_RGB_assignment

AllPrograms ==
  {sync_assignment_cond, SyncMonitor, sync_assignment, sync_partial_sem, sync_assignment_sem,
   Sync, sync_RGB_assignment, sync_RGB_assignment2}

ASSUME PrintAssumption == Programs \subseteq AllPrograms

VARIABLES
  program,
  f1, f2,      \* where the two threads are
  printed,     \* the output: 1, 2, a colour 3 or an invalid colour 4
  val,         \* the value of the calculation (Java)
  calculated,  \* the monitor's predicate
  shown,       \* the value that f2 prints or has printed
  rgb          \* how many of the components r, g, b are set, in this order

vars == <<owner, waiting, program, f1, f2, printed, val, calculated, shown, rgb>>

Thread == {"f1", "f2"}
Cond == program.sync = "cond"
Monitor == program.sync = "monitor"

TypeOK ==
  /\ CondTypeOK(Thread)
  /\ f1 \in {"none", "create", "lock", "print", "calculate", "signal", "unlock", "set", "join", "gone"}
  /\ f2 \in {"none", "create", "lock", "test", "waiting", "get", "print", "unlock", "check", "join", "gone"}
  /\ printed \in {<<>>, <<1>>, <<2>>, <<1, 2>>, <<2, 1>>, <<3>>, <<4>>}
  /\ val \in {1, 2} /\ shown \in 0 .. 3 /\ rgb \in 0 .. 3 /\ calculated \in BOOLEAN

Init ==
  /\ CondInit
  /\ program \in Programs
  /\ f1 = IF program.main = "f1" THEN "create" ELSE "none"
  /\ f2 = IF program.main = "f2" THEN "create" ELSE "none"
  /\ printed = <<>> /\ val = 1 /\ calculated = FALSE /\ shown = 0 /\ rgb = 0

------------------------------------------------------------------------------
F1Goto(from, to) == f1 = from /\ f1' = to /\ UNCHANGED <<program, f2, shown>>
F2Goto(from, to) == f2 = from /\ f2' = to /\ UNCHANGED <<program, f1, val, calculated, rgb>>

\* Where the threads begin, after a sleep of any length, and what main does at last.
F1Start == CASE Cond -> "lock" [] program.sync = "rgb" -> "set" [] OTHER -> "print"
F2Start == CASE program.sync = "none" -> "get" [] program.sync = "rgb" -> "check" [] OTHER -> "lock"
Finish(t) == IF program.main = t THEN "join" ELSE "gone"

F1Lock ==
  /\ F1Goto("lock", IF Cond THEN "print" ELSE "calculate") /\ Lock("f1")
  /\ UNCHANGED <<printed, val, calculated, rgb>>

F1Print ==
  /\ F1Goto("print", CASE Cond -> "signal" [] Monitor -> "lock"
                       [] OTHER -> IF program.main = "f1" THEN "calculate" ELSE "gone")
  /\ printed' = Append(printed, 1)
  /\ UNCHANGED <<owner, waiting, val, calculated, rgb>>

\* MUTANT of CalculateValue: the predicate is forgotten.
MutCalculateValue ==
  /\ F1Goto("calculate", IF Monitor THEN "signal" ELSE "join")
  /\ val' = val + 1
  /\ UNCHANGED <<owner, waiting, printed, calculated, rgb>>

CalculateValue ==
  /\ F1Goto("calculate", IF Monitor THEN "signal" ELSE "join")
  /\ val' = val + 1 /\ calculated' = (calculated \/ Monitor)
  /\ UNCHANGED <<owner, waiting, printed, rgb>>

F1Signal == F1Goto("signal", "unlock") /\ Signal /\ UNCHANGED <<printed, val, calculated, rgb>>

F1Unlock == F1Goto("unlock", Finish("f1")) /\ Unlock("f1") /\ UNCHANGED <<printed, val, calculated, rgb>>

\* The components are stored one by one.
setRGB ==
  /\ F1Goto("set", IF rgb = 2 THEN "gone" ELSE "set")
  /\ rgb' = rgb + 1
  /\ UNCHANGED <<owner, waiting, printed, val, calculated>>

F1 == F1Lock \/ F1Print \/ CalculateValue \/ F1Signal \/ F1Unlock \/ setRGB

F2Lock == F2Goto("lock", "test") /\ Lock("f2") /\ UNCHANGED <<printed, shown>>

\* pthread_cond_wait at once, or wait() while nothing is calculated.
F2Wait ==
  /\ Monitor => ~calculated
  /\ F2Goto("test", "waiting") /\ Wait("f2") /\ UNCHANGED <<printed, shown>>

\* MUTANT of F2Return: the monitor waits in an if.
MutF2Return ==
  /\ F2Goto("waiting", "get") /\ Lock("f2")
  /\ UNCHANGED <<printed, shown>>

F2Return ==
  /\ F2Goto("waiting", IF Monitor THEN "test" ELSE "get") /\ Lock("f2")
  /\ UNCHANGED <<printed, shown>>

F2Passes ==
  /\ Monitor /\ calculated /\ F2Goto("test", "get")
  /\ UNCHANGED <<owner, waiting, printed, shown>>

\* The value is read in the monitor and printed after it.
GetValue ==
  /\ F2Goto("get", IF Monitor THEN "unlock" ELSE "print")
  /\ shown' = val
  /\ UNCHANGED <<owner, waiting, printed>>

F2Print ==
  /\ F2Goto("print", IF Cond THEN "unlock" ELSE Finish("f2"))
  /\ printed' = Append(printed, 2)
  /\ UNCHANGED <<owner, waiting, shown>>

F2Unlock ==
  /\ F2Goto("unlock", IF Monitor THEN "print" ELSE Finish("f2")) /\ Unlock("f2")
  /\ UNCHANGED <<printed, shown>>

\* MUTANT of isColorValid: the last component is not looked at.
MutIsColorValid ==
  /\ F2Goto("check", IF rgb > shown /\ shown < 1 THEN "check" ELSE "join")
  /\ shown' = IF rgb > shown THEN shown + 1 ELSE shown
  /\ printed' = IF rgb <= shown THEN <<4>> ELSE IF shown = 1 THEN <<3>> ELSE printed
  /\ UNCHANGED <<owner, waiting>>

\* The components are read one by one, until one is not set. A valid colour is read again
\* to be printed, but then all are set.
isColorValid ==
  /\ F2Goto("check", IF rgb > shown /\ shown < 2 THEN "check" ELSE "join")
  /\ shown' = IF rgb > shown THEN shown + 1 ELSE shown
  /\ printed' = IF rgb <= shown THEN <<4>> ELSE IF shown = 2 THEN <<3>> ELSE printed
  /\ UNCHANGED <<owner, waiting>>

F2 == F2Lock \/ F2Wait \/ F2Return \/ F2Passes \/ GetValue \/ F2Print \/ F2Unlock \/ isColorValid

Wake == WakeSpuriously("f2") /\ UNCHANGED <<program, f1, f2, printed, val, calculated, shown, rgb>>

\* pthread_create or start(); a C program exits when it fails.
Create ==
  /\ "create" \in {f1, f2}
  /\ \/ f1' = F1Start /\ f2' = F2Start
     \/ program.main = "f2" /\ f1' = "gone" /\ f2' = "gone"
  /\ UNCHANGED <<owner, waiting, program, printed, val, calculated, shown, rgb>>

Join ==
  /\ \/ F1Goto("join", "gone") /\ f2 = "gone" /\ UNCHANGED <<val, calculated, rgb>>
     \/ F2Goto("join", "gone") /\ f1 = "gone" /\ UNCHANGED shown
  /\ UNCHANGED <<owner, waiting, printed>>

Over == f1 = "gone" /\ f2 = "gone"

\* f2 waits for ever for a signal that has been sent before.
Missed == f1 = "gone" /\ "f2" \in waiting

Stopped == (Over \/ Missed) /\ UNCHANGED vars

Next == F1 \/ F2 \/ Wake \/ Create \/ Join \/ Stopped

Spec == Init /\ [][Next]_vars

\* Both threads are scheduled and every sleep ends. The lock goes at last to a thread that
\* comes for it again and again while the other one is woken for no reason.
FairSpec == Spec /\ SF_vars(F1) /\ SF_vars(F2) /\ WF_vars(Create) /\ WF_vars(Join)
------------------------------------------------------------------------------
\* MonitorOrders: in SyncMonitor.java 2 comes after 1 and shows the calculated value,
\* spurious wakeups or not.
MonitorOrders ==
  Monitor => printed \in {<<>>, <<1>>, <<1, 2>>} /\ shown \in {0, 2}

\* ColourWhole: however the stores and the loads of the components mix, a colour is printed
\* as valid only when all three have been set.
ColourWhole == 3 \in Range(printed) => rgb = 3

\* Ends: every program ends, but for the condition variable without a predicate when the
\* signal comes before the wait.
Ends == <>(Over \/ (Cond /\ Missed))
==============================================================================
