----------------------------- MODULE BankDeposit -----------------------------
(***************************************************************************)
(* CPUtime/bank_deposit_CPUtime.c: main initialises the critical-section   *)
(* library and, with -w, a barrier, starts thread_count threads that make  *)
(* bank_transactions_per_thread deposits each, joins them and compares the *)
(* balance with the one it expects.  bank_deposit.c and new/bank_deposit.c *)
(* are the same program without calls of the library, which is the method  *)
(* ATOMIC here; v2021 differs only in how it knows that cs_init completed. *)
(* (This main also passes thread_count to cs_init, for the check of the    *)
(* template cs_methods.h that Peterson's method has two threads; the root  *)
(* headers, which implement the methods, do not take it.)                  *)
(*                                                                         *)
(* pthread_create, the barrier and the library's allocations may fail; the *)
(* threads then still run while main is in its exit handler.               *)
(***************************************************************************)
EXTENDS CSMethods, Integers

LOCAL INSTANCE Functions

CONSTANTS
  thread_count,                  \* -c
  bank_transactions_per_thread,  \* -t
  Start,                         \* -s, the balance before
  Net,                           \* amount minus fee, what one deposit adds
  UIntModulus                    \* 2^32 in the code: unsigned int wraps here

ASSUME BankAssumption ==
  /\ thread_count \in Nat \ {0}
  /\ Thread = 0 .. thread_count - 1
  /\ bank_transactions_per_thread \in Nat
  /\ Start \in Int /\ Net \in Int
  /\ UIntModulus \in Nat \ {0}

VARIABLES
  main,             \* where main() is
  next_thread,      \* its loop index i, in the create loop and the join loop
  status,           \* the exit status, or -1
  sync_start,       \* -w
  barrier_initialized,
  account_balance,
  pos,              \* where each bank_deposit() is
  sum,              \* the value deposit_money() returned to each thread
  deposits          \* its loop index i: deposits completed

bankvars == <<main, next_thread, status, sync_start, barrier_initialized,
              account_balance, pos, sum, deposits>>
vars == <<csvars, bankvars>>

MainPos == {"cs_init", "barrier_init", "create", "join", "exit", "cs_destroy",
            "exited", "hung", "gone"}
ThreadPos == {"none", "start", "barrier", "loop", "deposit", "store", "leave",
              "finished"}

TypeOK ==
  /\ CSTypeOK
  /\ main \in MainPos
  /\ next_thread \in 0 .. thread_count
  /\ status \in {-1, 0, 1, 2, 3, 139}
  /\ sync_start \in BOOLEAN
  /\ barrier_initialized \in BOOLEAN
  /\ account_balance \in Int
  /\ pos \in [Thread -> ThreadPos]
  /\ sum \in [Thread -> Int]
  /\ deposits \in [Thread -> 0 .. bank_transactions_per_thread]

\* thread_count * bank_transactions_per_thread is a product of two unsigned ints,
\* widened to long long only for the multiplication with the amount.
expected ==
  Start + ((thread_count * bank_transactions_per_thread) % UIntModulus) * Net

Init ==
  /\ CSInit
  /\ main = "cs_init"
  /\ next_thread = 0
  /\ status = -1
  /\ sync_start \in BOOLEAN
  /\ barrier_initialized = FALSE
  /\ account_balance = Start
  /\ pos = [t \in Thread |-> "none"]
  /\ sum = [t \in Thread |-> 0]
  /\ deposits = [t \in Thread |-> 0]

------------------------------------------------------------------------------
MainGoto(from, to) == main = from /\ main' = to
ExitWith(s, from) == MainGoto(from, "exit") /\ status' = s

threadvars == <<account_balance, pos, sum, deposits>>

\* No -m option: return 2 before atexit.
MainNoMethod ==
  /\ MainGoto("cs_init", "gone")
  /\ status' = 2
  /\ UNCHANGED <<csvars, next_thread, sync_start, barrier_initialized, threadvars>>

MainCsInit ==
  /\ \E m \in Methods : cs_init(m)
  /\ MainGoto("cs_init", IF sync_start THEN "barrier_init" ELSE "create")
  /\ UNCHANGED <<next_thread, status, sync_start, barrier_initialized, threadvars>>

MainCsInitFails ==
  /\ \E m \in Methods \cup {"undefined"} : cs_init_fails(m)
  /\ ExitWith(1, "cs_init")
  /\ UNCHANGED <<next_thread, sync_start, barrier_initialized, threadvars>>

MainBarrierInit ==
  /\ MainGoto("barrier_init", "create")
  /\ barrier_initialized' = TRUE
  /\ UNCHANGED <<csvars, next_thread, status, sync_start, threadvars>>

MainBarrierInitFails ==
  /\ ExitWith(3, "barrier_init")
  /\ UNCHANGED <<csvars, next_thread, sync_start, barrier_initialized, threadvars>>

MainCreate ==
  /\ main = "create" /\ next_thread < thread_count
  /\ pos' = [pos EXCEPT ![next_thread] = "start"]
  /\ next_thread' = next_thread + 1
  /\ UNCHANGED <<csvars, main, status, sync_start, barrier_initialized,
                 account_balance, sum, deposits>>

\* pthread_create failed: return 3, with the threads already created running on.
MainCreateFails ==
  /\ next_thread < thread_count
  /\ ExitWith(3, "create")
  /\ UNCHANGED <<csvars, next_thread, sync_start, barrier_initialized, threadvars>>

MainCreated ==
  /\ next_thread = thread_count
  /\ MainGoto("create", "join")
  /\ next_thread' = 0
  /\ UNCHANGED <<csvars, status, sync_start, barrier_initialized, threadvars>>

\* MUTANT of MainJoin: main does not wait.
MutNoJoin ==
  /\ main = "join" /\ next_thread < thread_count
  /\ next_thread' = next_thread + 1
  /\ UNCHANGED <<csvars, main, status, sync_start, barrier_initialized, threadvars>>

MainJoin ==
  /\ main = "join" /\ next_thread < thread_count
  /\ pos[next_thread] = "finished"
  /\ next_thread' = next_thread + 1
  /\ UNCHANGED <<csvars, main, status, sync_start, barrier_initialized, threadvars>>

\* "ERROR IN TRANSACTIONS!" is exit status 1.
MainCompare ==
  /\ next_thread = thread_count
  /\ ExitWith(IF account_balance # expected THEN 1 ELSE 0, "join")
  /\ UNCHANGED <<csvars, next_thread, sync_start, barrier_initialized, threadvars>>

\* release_resources, first half.  Destroying a barrier that threads are blocked
\* on is undefined: one libc waits for them for ever, another one refuses.
MainDestroyBarrier ==
  /\ main = "exit"
  /\ \/ main' = "cs_destroy"
     \/ /\ barrier_initialized /\ \E t \in Thread : pos[t] = "barrier"
        /\ main' = "hung"
  /\ barrier_initialized' = FALSE
  /\ UNCHANGED <<csvars, next_thread, status, sync_start, threadvars>>

\* release_resources, second half.  cs_initialized and cs_var_allocated agree.
MainCsDestroy ==
  /\ MainGoto("cs_destroy", "exited")
  /\ cs_destroy
  /\ UNCHANGED <<next_thread, status, sync_start, barrier_initialized, threadvars>>

\* The process ends, and with it the threads that still run.
MainGone ==
  /\ MainGoto("exited", "gone")
  /\ UNCHANGED <<csvars, next_thread, status, sync_start, barrier_initialized,
                 threadvars>>

Main ==
  \/ MainNoMethod
  \/ MainCsInit \/ MainCsInitFails
  \/ MainBarrierInit \/ MainBarrierInitFails
  \/ MainCreate \/ MainCreateFails \/ MainCreated
  \/ MainJoin \/ MainCompare
  \/ MainDestroyBarrier \/ MainCsDestroy \/ MainGone

------------------------------------------------------------------------------
mainvars == <<main, next_thread, status, sync_start, barrier_initialized>>

ThreadGoto(t, from, to) ==
  /\ main # "gone" /\ pos[t] = from
  /\ pos' = [pos EXCEPT ![t] = to]

\* pthread_barrier_wait: the last thread to arrive releases all of them.
ThreadBarrier(t) ==
  /\ main # "gone" /\ pos[t] = "start" /\ sync_start /\ barrier_initialized
  /\ pos' = IF \A u \in Thread \ {t} : pos[u] = "barrier"
            THEN [u \in Thread |-> "loop"]
            ELSE [pos EXCEPT ![t] = "barrier"]
  /\ UNCHANGED <<csvars, mainvars, account_balance, sum, deposits>>

ThreadNoBarrier(t) ==
  /\ ~sync_start
  /\ ThreadGoto(t, "start", "loop")
  /\ UNCHANGED <<csvars, mainvars, account_balance, sum, deposits>>

ThreadLoop(t) ==
  /\ deposits[t] < bank_transactions_per_thread
  /\ ThreadGoto(t, "loop", "deposit")
  /\ Call(t)
  /\ UNCHANGED <<mainvars, account_balance, sum, deposits>>

ThreadFinish(t) ==
  /\ deposits[t] = bank_transactions_per_thread
  /\ ThreadGoto(t, "loop", "finished")
  /\ UNCHANGED <<csvars, mainvars, account_balance, sum, deposits>>

ThreadEnter(t) ==
  /\ main # "gone" /\ pos[t] = "deposit"
  /\ cs_enter(t)
  /\ UNCHANGED bankvars

\* MUTANT of ThreadRead: the balance is read before cs_enter returns.
MutReadOutside(t) ==
  /\ ThreadGoto(t, "deposit", "store")
  /\ sum' = [sum EXCEPT ![t] = account_balance + Net]
  /\ UNCHANGED <<csvars, mainvars, account_balance, deposits>>

\* deposit_money reads the balance and returns the new one ...
ThreadRead(t) ==
  /\ at[t] = "in"
  /\ ThreadGoto(t, "deposit", "store")
  /\ sum' = [sum EXCEPT ![t] = account_balance + Net]
  /\ UNCHANGED <<csvars, mainvars, account_balance, deposits>>

\* MUTANT of ThreadStore: the new balance is added instead of stored.
MutAddAgain(t) ==
  /\ ThreadGoto(t, "store", "leave")
  /\ account_balance' = account_balance + sum[t]
  /\ UNCHANGED <<csvars, mainvars, sum, deposits>>

\* ... and the assignment stores it.
ThreadStore(t) ==
  /\ ThreadGoto(t, "store", "leave")
  /\ account_balance' = sum[t]
  /\ UNCHANGED <<csvars, mainvars, sum, deposits>>

ThreadLeave(t) ==
  /\ ThreadGoto(t, "leave", "loop")
  /\ cs_leave(t)
  /\ deposits' = [deposits EXCEPT ![t] = @ + 1]
  /\ UNCHANGED <<mainvars, account_balance, sum>>

\* sem_wait or sem_post on the semaphore sem_close has unmapped: SIGSEGV.
ThreadFault(t) ==
  /\ main # "gone" /\ cs_method_used = "SEM_POSIX_NAMED" /\ ~usable
  /\ (pos[t] = "deposit" /\ at[t] = "call") \/ pos[t] = "leave"
  /\ main' = "gone"
  /\ status' = 139
  /\ UNCHANGED <<csvars, next_thread, sync_start, barrier_initialized, threadvars>>

ThreadStep(t) ==
  \/ ThreadBarrier(t) \/ ThreadNoBarrier(t)
  \/ ThreadLoop(t) \/ ThreadFinish(t)
  \/ ThreadEnter(t) \/ ThreadRead(t) \/ ThreadStore(t) \/ ThreadLeave(t)
  \/ ThreadFault(t)

\* The process has ended, or main waits for ever in pthread_barrier_destroy.
Stopped == main \in {"gone", "hung"} /\ UNCHANGED vars

Next == Main \/ (\E t \in Thread : ThreadStep(t)) \/ Stopped

Spec == Init /\ [][Next]_vars

\* The kernel schedules main and every thread that can run.
Fairness == WF_vars(Main) /\ \A t \in Thread : WF_vars(ThreadStep(t))
FairSpec == Spec /\ Fairness
------------------------------------------------------------------------------
\* NoStaleBalance: a thread about to store a balance has computed it from the
\* balance that is there now; no deposit was made between its read and its write.
NoStaleBalance ==
  Protected => \A t \in Thread : pos[t] = "store" => sum[t] = account_balance + Net

\* RaceBounds: whatever the method, also without any protection (bank_deposit.c), the
\* joined threads leave a balance of some of their deposits: at most all of them, and
\* at least two if every thread made two. A lost update loses whole deposits only, and
\* never brings back the initial balance.
RaceBounds ==
  (status \in {0, 1} /\ cs_var_allocated) =>
    \E kept \in (IF bank_transactions_per_thread >= 2 THEN 2 ELSE bank_transactions_per_thread)
                  .. thread_count * bank_transactions_per_thread :
      account_balance = Start + kept * Net

\* Termination: the process ends by itself, except that main may wait for ever in
\* pthread_barrier_destroy after a pthread_create that failed with -w.
Termination ==
  <>(main = "gone" \/ (main = "hung" /\ sync_start /\ status = 3))
==============================================================================
