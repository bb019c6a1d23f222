---------------------------- MODULE SharedCounter ----------------------------
(***************************************************************************)
(* Programs whose threads change one shared variable: the counters of      *)
(* thread_add*.c, which count up under a mutex, a semaphore or nothing,    *)
(* and the accounts of bank_withdraw*.c and Transactions*.cs, from which   *)
(* random amounts are taken while they last.  Each reads and writes the    *)
(* variable in separate steps.  A failing pthread_create ends the program, *)
(* and its exit handler works beside the threads that do run.              *)
(***************************************************************************)
EXTENDS Integers

CONSTANTS
  THREADS,         \* threads of a program (2, 4 or 10)
  ITERATIONS,      \* rounds of a counting or transacting thread
  INITIAL_AMOUNT,  \* the balance at first
  MAX_WITHDRAW,    \* the largest amount of one withdrawal
  Programs,        \* those of the programs below that are looked at
  Nobody

Threads == 0 .. THREADS - 1

ASSUME CounterAssumption ==
  /\ THREADS \in Nat \ {0} /\ ITERATIONS \in Nat \ {0}
  /\ INITIAL_AMOUNT \in Nat /\ INITIAL_AMOUNT \div THREADS > 0
  /\ MAX_WITHDRAW \in Nat \ {0}
  /\ Nobody \notin Threads

\* What a program does, its critical section, whether it starts at a barrier, and
\* what an amount of the balance is compared with before the section.
thread_add               == [op |-> "add",      lock |-> "none",    barrier |-> FALSE]
thread_add_mutex         == [op |-> "add",      lock |-> "mutex",   barrier |-> FALSE]
thread_add_sem           == [op |-> "add",      lock |-> "sem",     barrier |-> FALSE]
thread_add_named_sem     == [op |-> "add",      lock |-> "named",   barrier |-> FALSE]
thread_add_barrier_mutex == [op |-> "add",      lock |-> "mutex",   barrier |-> TRUE]
sync_barrier             == [op |-> "meet",     lock |-> "none",    barrier |-> TRUE]
bank_withdraw            == [op |-> "withdraw", lock |-> "none",    barrier |-> FALSE]
bank_withdrawal          == bank_withdraw
Transactions             == [op |-> "transact", lock |-> "none",    barrier |-> FALSE]
TransactionsMonitor      == [op |-> "transact", lock |-> "monitor", barrier |-> FALSE]

AllPrograms ==
  {thread_add, thread_add_mutex, thread_add_sem, thread_add_named_sem,
   thread_add_barrier_mutex, sync_barrier, bank_withdraw, bank_withdrawal,
   Transactions, TransactionsMonitor}

ASSUME ProgramsAssumption == Programs \subseteq AllPrograms

VARIABLES
  program,
  value,       \* count or balance
  owner,       \* who is in the section
  alive,       \* the objects that are initialized: "lock", "barrier"
  pc,          \* pc[t]: where the thread is
  reg,         \* reg[t]: the value loaded last
  amount,      \* amount[t]: what it withdraws
  i,           \* i[t]: its rounds
  withdrawn,   \* withdrawn[t]: its sum
  main,        \* where main is
  verdict,     \* what main reports: "none", "OK", "LOST"
  lost         \* history: a store has overwritten another one's

vars == <<program, value, owner, alive, pc, reg, amount, i, withdrawn, main, verdict, lost>>

Adding == program.op = "add"
Locked == program.lock # "none"

Init ==
  /\ program \in Programs
  /\ value = IF program.op \in {"add", "meet"} THEN 0 ELSE INITIAL_AMOUNT
  /\ owner = Nobody
  /\ alive = IF program.lock = "monitor" THEN {"lock"} ELSE {}
  /\ pc = [t \in Threads |-> "none"]
  /\ reg = [t \in Threads |-> 0] /\ amount = reg /\ i = reg /\ withdrawn = reg
  /\ main = "init" /\ verdict = "none" /\ lost = FALSE

------------------------------------------------------------------------------
(* A thread.                                                               *)

\* The process is there until main has left it, or an error has.
Running == main \notin {"over", "crashed"}

Goto(t, from, to) ==
  /\ Running /\ pc[t] = from
  /\ pc' = [pc EXCEPT ![t] = to]
  /\ UNCHANGED <<program, alive, verdict>>

Crash(t, at) ==
  /\ Running /\ pc[t] = at /\ main' = "crashed"
  /\ UNCHANGED <<program, value, owner, alive, pc, reg, amount, i, withdrawn, verdict, lost>>

Arrive(t) ==
  /\ Goto(t, "barrier", "waiting")
  /\ UNCHANGED <<value, owner, reg, amount, i, withdrawn, main, lost>>

\* The last of THREADS lets all of them through.
Meet ==
  /\ Running /\ \A t \in Threads : pc[t] = "waiting"
  /\ pc' = [t \in Threads |-> IF program.op = "meet" THEN "gone" ELSE "begin"]
  /\ UNCHANGED <<program, value, owner, alive, reg, amount, i, withdrawn, main, verdict, lost>>

\* A random amount.
Begin(t) ==
  /\ program.op = "transact" => value >= 0
  /\ Goto(t, "begin", "enter")
  /\ IF Adding THEN UNCHANGED amount
     ELSE \E a \in 1 .. MAX_WITHDRAW : amount' = [amount EXCEPT ![t] = a]
  /\ UNCHANGED <<value, owner, reg, i, withdrawn, main, lost>>

\* throw new Exception("Negative Balance"), which nobody catches.
NegativeBalance(t) ==
  program.op = "transact" /\ value < 0 /\ Crash(t, "begin")

AfterEntry == IF Adding THEN "load" ELSE "test"

\* MUTANT of Enter: the section is not waited for.
MutEnter(t) ==
  /\ Goto(t, "enter", AfterEntry)
  /\ owner' = IF Locked THEN t ELSE owner
  /\ UNCHANGED <<value, reg, amount, i, withdrawn, main, lost>>

\* Nothing to do, or a lock to wait for. A mutex that is destroyed returns EINVAL,
\* which is not looked at; a semaphore of glibc goes on working.
Enter(t) ==
  /\ Goto(t, "enter", AfterEntry)
  /\ IF Locked /\ (program.lock = "mutex" => "lock" \in alive)
     THEN owner = Nobody /\ owner' = t
     ELSE UNCHANGED owner
  /\ program.lock = "named" => "lock" \in alive
  /\ UNCHANGED <<value, reg, amount, i, withdrawn, main, lost>>

\* A named semaphore that is closed is no longer mapped.
UseClosed(t) ==
  /\ program.lock = "named" /\ "lock" \notin alive
  /\ Crash(t, "enter") \/ Crash(t, "leave")

\* MUTANT of Test: the balance is not compared.
MutTest(t) ==
  /\ Goto(t, "test", "load")
  /\ UNCHANGED <<value, owner, reg, amount, i, withdrawn, main, lost>>

\* if (balance < amount): rejected.
Test(t) ==
  /\ Goto(t, "test", IF value < amount[t] THEN "leave" ELSE "load")
  /\ UNCHANGED <<value, owner, reg, amount, i, withdrawn, main, lost>>

\* The two halves of count++ and of balance -= amount.
Load(t) ==
  /\ Goto(t, "load", "store")
  /\ reg' = [reg EXCEPT ![t] = value]
  /\ UNCHANGED <<value, owner, amount, i, withdrawn, main, lost>>

\* withdrawn[id] is this thread's own until main has joined it.
Store(t) ==
  /\ Goto(t, "store", "leave")
  /\ value' = IF Adding THEN reg[t] + 1 ELSE reg[t] - amount[t]
  /\ withdrawn' = IF Adding THEN withdrawn ELSE [withdrawn EXCEPT ![t] = @ + amount[t]]
  /\ lost' = (lost \/ value # reg[t])
  /\ UNCHANGED <<owner, reg, amount, i, main>>

Rounds == IF program.op = "withdraw" THEN INITIAL_AMOUNT \div THREADS ELSE ITERATIONS

\* finished = balance <= 0 is read anew.
LastRound(t) == i[t] + 1 = Rounds \/ (program.op = "withdraw" /\ value <= 0)

\* MUTANT of Leave: the section is left taken in the last round.
MutLeave(t) ==
  /\ Goto(t, "leave", IF LastRound(t) THEN "gone" ELSE "begin")
  /\ owner' = IF owner = t /\ ~LastRound(t) THEN Nobody ELSE owner
  /\ i' = [i EXCEPT ![t] = @ + 1]
  /\ UNCHANGED <<value, reg, amount, withdrawn, main, lost>>

\* The exit section and the test of the loop; a thread that came in by EINVAL
\* has nothing to give back.
Leave(t) ==
  /\ Goto(t, "leave", IF LastRound(t) THEN "gone" ELSE "begin")
  /\ program.lock = "named" => "lock" \in alive
  /\ owner' = IF owner = t THEN Nobody ELSE owner
  /\ i' = [i EXCEPT ![t] = @ + 1]
  /\ UNCHANGED <<value, reg, amount, withdrawn, main, lost>>

Step(t) ==
  \/ Arrive(t) \/ Begin(t) \/ NegativeBalance(t) \/ Enter(t) \/ UseClosed(t)
  \/ Test(t) \/ Load(t) \/ Store(t) \/ Leave(t)

------------------------------------------------------------------------------
(* main and the exit handler.                                              *)

MainGoto(from, to) ==
  /\ main = from /\ main' = to
  /\ UNCHANGED <<program, value, reg, amount, i, withdrawn, lost>>

Missing ==
  ((IF Locked THEN {"lock"} ELSE {}) \cup (IF program.barrier THEN {"barrier"} ELSE {})) \ alive

\* The lock is initialized before the barrier.
MainInit ==
  \E o \in Missing :
    /\ o = "barrier" => "lock" \notin Missing
    /\ MainGoto("init", "init")
    /\ alive' = alive \cup {o}
    /\ UNCHANGED <<owner, pc, verdict>>

\* perror and exit, at an initialization or at a pthread_create; in C#, a Start that throws
\* and that nobody catches.
MainFails ==
  /\ MainGoto("init", IF program.op = "transact" THEN "crashed" ELSE "release")
  /\ UNCHANGED <<owner, alive, pc, verdict>>

MainCreate ==
  /\ Missing = {}
  /\ \E t \in Threads :
       /\ pc[t] = "none" /\ \A u \in 0 .. t - 1 : pc[u] # "none"
       /\ MainGoto("init", IF t = THREADS - 1 THEN "join" ELSE "init")
       /\ pc' = [pc EXCEPT ![t] = IF program.barrier THEN "barrier" ELSE "begin"]
  /\ UNCHANGED <<owner, alive, verdict>>

\* The sum of a number for each thread.
SumOf(f) ==
  LET sum[n \in 0 .. THREADS] == IF n = 0 THEN 0 ELSE sum[n - 1] + f[n - 1]
  IN  sum[THREADS]

Total == SumOf(withdrawn)

\* MUTANT of MainCheck: one lost transaction too many is accepted.
MutMainCheck ==
  /\ MainGoto("join", "release") /\ \A t \in Threads : pc[t] = "gone"
  /\ verdict' = CASE Adding -> IF value < THREADS * ITERATIONS - 1 THEN "LOST" ELSE "OK"
                  [] program.op = "withdraw" ->
                       IF value + Total > INITIAL_AMOUNT + 1 THEN "LOST" ELSE "OK"
                  [] OTHER -> "none"
  /\ UNCHANGED <<owner, alive, pc>>

\* All are joined (or, in C#, have ended): thread_add*.c and bank_withdraw*.c compare and
\* report.
MainCheck ==
  /\ MainGoto("join", "release") /\ \A t \in Threads : pc[t] = "gone"
  /\ verdict' = CASE Adding -> IF value < THREADS * ITERATIONS THEN "LOST" ELSE "OK"
                  [] program.op = "withdraw" ->
                       IF value + Total # INITIAL_AMOUNT THEN "LOST" ELSE "OK"
                  [] OTHER -> "none"
  /\ UNCHANGED <<owner, alive, pc>>

\* release_resources: a mutex that is held stays (EBUSY).
ReleaseLock ==
  /\ MainGoto("release", "released")
  /\ alive' = IF program.lock = "mutex" /\ owner # Nobody THEN alive ELSE alive \ {"lock"}
  /\ UNCHANGED <<owner, pc, verdict>>

\* The destruction of a barrier at which threads wait is undefined: it waits, or it does
\* not and the process ends.
ReleaseBarrier ==
  /\ \/ MainGoto("released", "over")
     \/ (\E t \in Threads : pc[t] = "waiting") /\ MainGoto("released", "hung")
  /\ alive' = alive \ {"barrier"}
  /\ UNCHANGED <<owner, pc, verdict>>

Main == MainInit \/ MainFails \/ MainCreate \/ MainCheck \/ ReleaseLock \/ ReleaseBarrier

Stopped == main \in {"over", "crashed", "hung"} /\ UNCHANGED vars

Next == (\E t \in Threads : Step(t)) \/ Meet \/ Main \/ Stopped

Spec == Init /\ [][Next]_vars

\* Every thread that can go on does; neither a mutex nor a semaphore need be fair.
FairSpec == Spec /\ WF_vars(Main) /\ WF_vars(Meet) /\ \A t \in Threads : WF_vars(Step(t))

------------------------------------------------------------------------------
AllCreated == \A t \in Threads : pc[t] # "none"

\* The increments that every thread has done.
Done == [t \in Threads |-> i[t] + (IF pc[t] = "leave" THEN 1 ELSE 0)]

\* LockProtects: as long as no thread could not be created, nothing is lost under a lock
\* of any kind, and the account is never overdrawn, so that its exception is not thrown.
LockProtects ==
  Locked /\ AllCreated =>
    /\ Adding => value = SumOf(Done)
    /\ ~Adding => value >= 0 /\ value + Total = INITIAL_AMOUNT

\* LostDetected: the comparison that main makes in thread_add*.c and bank_withdraw*.c is
\* exact: it reports lost transactions if, and only if, some store has overwritten another
\* thread's, however many have. (sync_barrier.c and the C# programs compare nothing.)
LostDetected == verdict # "none" => (verdict = "LOST" <=> lost)

\* RaceBounds: what a race can do at most. Two counting threads or more that are not
\* excluded count at least to 2 (to 1 in one round). An account never loses more than was
\* withdrawn, and some of that in any case; of two threads the second one overdraws it, by
\* its amount. (Three may overdraw it further, after an old balance has been stored anew.)
RaceBounds ==
  /\ Adding /\ verdict # "none" =>
       value \in (IF ITERATIONS = 1 \/ THREADS = 1 THEN ITERATIONS ELSE 2) .. THREADS * ITERATIONS
  /\ program.op \in {"withdraw", "transact"} =>
       /\ value \in INITIAL_AMOUNT - Total .. INITIAL_AMOUNT
       /\ Total > 0 => value < INITIAL_AMOUNT
       /\ THREADS <= 2 => value >= - (THREADS - 1) * MAX_WITHDRAW

\* Ends: every program ends. Its exit handler hangs only at a barrier that not all
\* threads could be created for, and it crashes only over a semaphore closed under such
\* threads, over a thread that C# could not start, or by the exception of the account
\* without a lock.
Ended ==
  \/ main = "over"
  \/ main = "hung" /\ program.barrier /\ ~AllCreated
  \/ main = "crashed" /\ (program = Transactions \/ (program.lock \in {"named", "monitor"} /\ ~AllCreated))
Ends == <>Ended
==============================================================================
