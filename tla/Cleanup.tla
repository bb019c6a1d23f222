-------------------------------- MODULE Cleanup --------------------------------
(***************************************************************************)
(* pthread_cleanup.c and its earlier form 05-synchronization/              *)
(* pthread_cleanup_sem.c: a thread reads a name from the terminal into a   *)
(* temporary buffer, main waits for it on a semaphore with a timeout,      *)
(* cancels it when the timeout is gone, joins it and releases what was     *)
(* allocated.                                                              *)
(*                                                                         *)
(* Cancellation is deferred: it acts when the thread is in read() or in a  *)
(* printf, which is a cancellation point when it writes, and runs the      *)
(* cleanup handlers pushed by then.                                        *)
(***************************************************************************)
EXTENDS Naturals

CONSTANT Versions   \* the programs considered, of {"push", "sem"}

ASSUME CleanupAssumption == Versions \subseteq {"push", "sem"}

VARIABLES
  version,          \* "push" has a cleanup handler and checks fgets, "sem" has neither
  main,             \* where main() is
  thread,           \* where thread_func() is
  thread_finished,  \* the semaphore
  thread_finished_initialized,
  timeout_gone,
  fgets_exited_with_error,
  heap,             \* what is allocated, of {"buf", "name"}
  handler,          \* the cleanup handler is pushed
  cancelled,        \* pthread_cancel was called
  cancelled_at,     \* history: where the thread was when the cancellation acted, or "nowhere"
  out_of_memory     \* strdup returned NULL

vars == <<version, main, thread, thread_finished, thread_finished_initialized,
          timeout_gone, fgets_exited_with_error, heap, handler, cancelled,
          cancelled_at, out_of_memory>>

MainPos == {"sem_init", "create", "timedwait", "check", "cancel", "print", "join",
            "sem_destroy", "free_name", "gone"}
ThreadPos == {"none", "malloc", "allocated", "ask", "read", "strdup", "named",
              "pop", "freed", "post", "finished", "cancelled"}

\* The printf calls and the read: where a pending cancellation may act.
CancellationPoint == {"allocated", "ask", "read", "named", "freed"}

TypeOK ==
  /\ version \in {"push", "sem"}
  /\ main \in MainPos
  /\ thread \in ThreadPos
  /\ thread_finished \in 0 .. 1
  /\ thread_finished_initialized \in BOOLEAN
  /\ timeout_gone \in BOOLEAN
  /\ fgets_exited_with_error \in BOOLEAN
  /\ heap \subseteq {"buf", "name"}
  /\ handler \in BOOLEAN
  /\ cancelled \in BOOLEAN
  /\ cancelled_at \in CancellationPoint \cup {"nowhere"}
  /\ out_of_memory \in BOOLEAN

Init ==
  /\ version \in Versions
  /\ main = "sem_init"
  /\ thread = "none"
  /\ thread_finished = 0
  /\ thread_finished_initialized = FALSE
  /\ timeout_gone = FALSE
  /\ fgets_exited_with_error = FALSE
  /\ heap = {}
  /\ handler = FALSE
  /\ cancelled = FALSE
  /\ cancelled_at = "nowhere"
  /\ out_of_memory = FALSE

------------------------------------------------------------------------------
ThreadGoto(from, to) ==
  /\ thread = from /\ main # "gone"
  /\ thread' = to
  /\ cancelled_at' = IF to = "cancelled" THEN from ELSE cancelled_at
  /\ UNCHANGED <<version, main, thread_finished_initialized, timeout_gone, cancelled>>

\* malloc(BUF_SIZE); when it fails the thread returns without sem_post.
ThreadMalloc ==
  /\ \/ ThreadGoto("malloc", "allocated") /\ heap' = heap \cup {"buf"}
     \/ ThreadGoto("malloc", "finished") /\ heap' = heap
  /\ UNCHANGED <<thread_finished, fgets_exited_with_error, handler, out_of_memory>>

\* MUTANT of ThreadPush: the handler is not pushed.
MutNoPush ==
  /\ ThreadGoto("allocated", "ask")
  /\ UNCHANGED <<thread_finished, fgets_exited_with_error, heap, handler, out_of_memory>>

\* printf("Temporary buffer allocated."), then pthread_cleanup_push
ThreadPush ==
  /\ ThreadGoto("allocated", "ask")
  /\ handler' = (version = "push")
  /\ UNCHANGED <<thread_finished, fgets_exited_with_error, heap, out_of_memory>>

\* printf("Enter your name ...")
ThreadAsk ==
  /\ ThreadGoto("ask", "read")
  /\ UNCHANGED <<thread_finished, fgets_exited_with_error, heap, handler, out_of_memory>>

\* fgets or gets returns: a line, or NULL, which only the later version notices.
ThreadRead ==
  /\ \/ ThreadGoto("read", "strdup") /\ UNCHANGED fgets_exited_with_error
     \/ /\ version = "push"
        /\ ThreadGoto("read", "pop") /\ fgets_exited_with_error' = TRUE
  /\ UNCHANGED <<thread_finished, heap, handler, out_of_memory>>

\* name = strdup(buf)
ThreadStrdup ==
  /\ ThreadGoto("strdup", "named")
  /\ \/ heap' = heap \cup {"name"} /\ UNCHANGED out_of_memory
     \/ heap' = heap /\ out_of_memory' = TRUE
  /\ UNCHANGED <<thread_finished, fgets_exited_with_error, handler>>

\* printf("Name buffer allocated.")
ThreadNamed ==
  /\ ThreadGoto("named", "pop")
  /\ UNCHANGED <<thread_finished, fgets_exited_with_error, heap, handler, out_of_memory>>

\* pthread_cleanup_pop(1), or the call of release_buffer_tmp: free and reset buf ...
ThreadPop ==
  /\ ThreadGoto("pop", "freed")
  /\ heap' = heap \ {"buf"}
  /\ handler' = FALSE
  /\ UNCHANGED <<thread_finished, fgets_exited_with_error, out_of_memory>>

\* ... and print the message.
ThreadFreed ==
  /\ ThreadGoto("freed", "post")
  /\ UNCHANGED <<thread_finished, fgets_exited_with_error, heap, handler, out_of_memory>>

\* sem_post(&thread_finished)
ThreadPost ==
  /\ ThreadGoto("post", "finished")
  /\ thread_finished' = thread_finished + 1
  /\ UNCHANGED <<fgets_exited_with_error, heap, handler, out_of_memory>>

\* The pending cancellation acts.
ThreadCancelled ==
  /\ cancelled /\ thread \in CancellationPoint
  /\ ThreadGoto(thread, "cancelled")
  /\ heap' = IF handler THEN heap \ {"buf"} ELSE heap
  /\ handler' = FALSE
  /\ UNCHANGED <<thread_finished, fgets_exited_with_error, out_of_memory>>

\* What the thread does without waiting for anybody
ThreadWork ==
  \/ ThreadMalloc \/ ThreadPush \/ ThreadAsk \/ ThreadStrdup \/ ThreadNamed
  \/ ThreadPop \/ ThreadFreed \/ ThreadPost

------------------------------------------------------------------------------
MainGoto(from, to) ==
  /\ main = from
  /\ main' = to
  /\ UNCHANGED <<version, fgets_exited_with_error, handler, cancelled_at, out_of_memory>>

MainSemInit ==
  /\ \/ MainGoto("sem_init", "create") /\ thread_finished_initialized' = TRUE
     \/ MainGoto("sem_init", "sem_destroy") /\ UNCHANGED thread_finished_initialized
  /\ UNCHANGED <<thread, thread_finished, timeout_gone, heap, cancelled>>

MainCreate ==
  /\ MainGoto("create", "timedwait")
  /\ thread' = "malloc"
  /\ UNCHANGED <<thread_finished, thread_finished_initialized, timeout_gone, heap,
                 cancelled>>

\* sem_timedwait returns 0 ...
MainPosted ==
  /\ MainGoto("timedwait", "check")
  /\ thread_finished > 0
  /\ thread_finished' = thread_finished - 1
  /\ UNCHANGED <<thread, thread_finished_initialized, timeout_gone, heap, cancelled>>

\* ... or fails with ETIMEDOUT ...
MainTimeout ==
  /\ MainGoto("timedwait", "check")
  /\ thread_finished = 0
  /\ timeout_gone' = TRUE
  /\ UNCHANGED <<thread, thread_finished, thread_finished_initialized, heap, cancelled>>

\* ... or for another reason (EINTR): main reports it and goes on as if it had been posted.
MainWaitFails ==
  /\ MainGoto("timedwait", "check")
  /\ UNCHANGED <<thread, thread_finished, thread_finished_initialized, timeout_gone, heap,
                 cancelled>>

\* The flag of the other thread first, then the timeout.
MainCheck ==
  /\ MainGoto("check", IF fgets_exited_with_error THEN "join"
                       ELSE IF timeout_gone THEN "cancel" ELSE "print")
  /\ UNCHANGED <<thread, thread_finished, thread_finished_initialized, timeout_gone,
                 heap, cancelled>>

\* MUTANT of MainCancel: the thread is not cancelled.
MutNoCancel ==
  /\ MainGoto("cancel", "join")
  /\ UNCHANGED <<thread, thread_finished, thread_finished_initialized, timeout_gone,
                 heap, cancelled>>

\* pthread_cancel, without effect on a thread that has returned
MainCancel ==
  /\ MainGoto("cancel", "join")
  /\ cancelled' = TRUE
  /\ UNCHANGED <<thread, thread_finished, thread_finished_initialized, timeout_gone,
                 heap>>

\* printf("Entered name: %s\n", name)
MainPrint ==
  /\ MainGoto("print", "join")
  /\ UNCHANGED <<thread, thread_finished, thread_finished_initialized, timeout_gone,
                 heap, cancelled>>

\* MUTANT of MainJoin: main does not wait.
MutNoJoin ==
  /\ MainGoto("join", "sem_destroy")
  /\ UNCHANGED <<thread, thread_finished, thread_finished_initialized, timeout_gone,
                 heap, cancelled>>

MainJoin ==
  /\ MainGoto("join", "sem_destroy")
  /\ thread \in {"finished", "cancelled"}
  /\ UNCHANGED <<thread, thread_finished, thread_finished_initialized, timeout_gone,
                 heap, cancelled>>

\* release_resources: the semaphore ...
MainSemDestroy ==
  /\ MainGoto("sem_destroy", "free_name")
  /\ thread_finished_initialized' = FALSE
  /\ UNCHANGED <<thread, thread_finished, timeout_gone, heap, cancelled>>

\* ... and the name.
MainFreeName ==
  /\ MainGoto("free_name", "gone")
  /\ heap' = heap \ {"name"}
  /\ UNCHANGED <<thread, thread_finished, thread_finished_initialized, timeout_gone,
                 cancelled>>

Main ==
  \/ MainSemInit \/ MainCreate \/ MainPosted \/ MainTimeout \/ MainWaitFails \/ MainCheck
  \/ MainCancel \/ MainPrint \/ MainJoin \/ MainSemDestroy \/ MainFreeName

Stopped == main = "gone" /\ UNCHANGED vars

Next == Main \/ ThreadWork \/ ThreadRead \/ ThreadCancelled \/ Stopped

Spec == Init /\ [][Next]_vars

\* The kernel schedules both threads, time passes and a blocked read notices a
\* cancellation.  Nobody has to type anything: ThreadRead is not fair.
Fairness == WF_vars(Main) /\ WF_vars(ThreadWork) /\ WF_vars(ThreadCancelled)
FairSpec == Spec /\ Fairness
------------------------------------------------------------------------------

\* LeakOnlyInGap: of what the program has allocated it leaves at most the temporary buffer
\* to the system, and with the cleanup handler only if the cancellation acts in the printf
\* between malloc and pthread_cleanup_push; without it, wherever it acts before the release.
\* The name and the semaphore are never left.
LeakOnlyInGap ==
  main = "gone" =>
    /\ heap # {} => /\ heap = {"buf"} /\ thread = "cancelled"
                    /\ version = "push" => cancelled_at = "allocated"
                    /\ cancelled_at # "freed"
    /\ ~thread_finished_initialized

\* SemaphoreAlive: the thread never posts a semaphore that is destroyed, even when it
\* answers after the timeout.
SemaphoreAlive == thread = "post" => thread_finished_initialized

\* Ends: the program ends, even if nobody types a name. The exception: sem_timedwait has
\* failed without a timeout, and main joins a thread that it has not cancelled and that
\* still reads.
Ends ==
  \/ <>(main = "gone")
  \/ <>[](main = "join" /\ thread = "read" /\ ~timeout_gone)
==============================================================================
