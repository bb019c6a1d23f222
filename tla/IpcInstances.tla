----------------------------- MODULE IpcInstances -----------------------------
(***************************************************************************)
(* Several instances of the programs on one machine.  The critical section *)
(* protects data of one process, but the semaphore or the message queue it *)
(* is protected with is an object of the kernel: it has a name or a key    *)
(* that another instance may use, and it may outlive a process that is     *)
(* killed.  Every process runs once; a later process is the restart of an  *)
(* earlier one.  All run the same build; an object is called after the     *)
(* process that created it.                                                *)
(***************************************************************************)
EXTENDS Integers, Sequences, FiniteSets

CONSTANTS
  Proc,       \* the instances
  Thread,     \* the threads of each
  Rounds,     \* critical sections of each thread
  Builds,     \* the builds considered
  None        \* no process, and no object

\* How each build allocates: the calls of its cs_init in their order.
InitNamed       == <<"creat", "unlink">>           \* mutex_sem_namedSem.h
InitNamedExcl   == <<"excl", "unlink">>            \* everything.h
InitNamedKept   == <<"creat">>                     \* thread_add_named_sem.c
InitSysv        == <<"key", "set">>                \* sem_sysv.h
InitSysvPrivate == <<"private", "set">>            \* everything.h
InitMq          == <<"mq_excl", "send", "unlink">> \* messageQueue_posix.h
InitMqEarly     == <<"mq_excl", "unlink", "send">> \* everything.h
InitMqSysv      == <<"private", "send">>           \* messageQueue_sysV.h, everything.h

Calls ==
  [named |-> InitNamed, named_excl |-> InitNamedExcl, named_kept |-> InitNamedKept,
   sysv |-> InitSysv, sysv_private |-> InitSysvPrivate,
   mq |-> InitMq, mq_early |-> InitMqEarly, mq_sysv |-> InitMqSysv]

ASSUME IpcAssumption ==
  /\ IsFiniteSet(Proc) /\ IsFiniteSet(Thread) /\ Rounds \in Nat \ {0}
  /\ Builds \subseteq DOMAIN Calls
  /\ None \notin Proc

Exclusive == {"named_excl", "mq", "mq_early"}     \* O_EXCL: refused when the name exists
Private   == Exclusive \cup {"sysv_private", "mq_sysv"}
SysV      == {"sysv", "sysv_private", "mq_sysv"}  \* objects that live until IPC_RMID
Undoing   == {"sysv", "sysv_private"}             \* SEM_UNDO

VARIABLES
  build,      \* the build
  status,     \* status[p]: "down", "init", "run", "exit" or one of Dead
  calls,      \* calls[p]: how many calls of cs_init have been made
  handle,     \* handle[p]: the object p has open
  inside,     \* inside[p]: the threads of p in the critical section
  rounds,     \* rounds[p][t]: the critical sections t has done
  value,      \* value[o]: the semaphore's value, or the messages in the queue
  undo,       \* undo[p]: the kernel's adjustment of handle[p] when p ends
  linked,     \* the object the name or the key stands for
  removed     \* the SysV objects removed by IPC_RMID

vars == <<build, status, calls, handle, inside, rounds, value, undo, linked, removed>>

Dead == {"ended", "failed", "refused", "killed"}

TypeOK ==
  /\ build \in DOMAIN Calls
  /\ status \in [Proc -> {"down", "init", "run", "exit"} \cup Dead]
  /\ calls \in [Proc -> 0 .. 3]
  /\ handle \in [Proc -> Proc \cup {None}]
  /\ inside \in [Proc -> SUBSET Thread]
  /\ rounds \in [Proc -> [Thread -> 0 .. Rounds]]
  /\ value \in [Proc -> 0 .. IF build = "sysv" THEN Cardinality(Proc) ELSE 1]
  /\ undo \in [Proc -> Int]
  /\ linked \in Proc \cup {None}
  /\ removed \subseteq Proc

Init ==
  /\ build \in Builds
  /\ status = [p \in Proc |-> "down"]
  /\ calls = [p \in Proc |-> 0]
  /\ handle = [p \in Proc |-> None]
  /\ inside = [p \in Proc |-> {}]
  /\ rounds = [p \in Proc |-> [t \in Thread |-> 0]]
  /\ value = [p \in Proc |-> 0]
  /\ undo = [p \in Proc |-> 0]
  /\ linked = None
  /\ removed = {}

------------------------------------------------------------------------------
\* cs_init, one system call after another
Start(p) ==
  /\ status[p] = "down"
  /\ status' = [status EXCEPT ![p] = "init"]
  /\ UNCHANGED <<build, calls, handle, inside, rounds, value, undo, linked, removed>>

\* The next call of cs_init is c; the last one makes the threads run.
Calling(p, c) ==
  /\ status[p] = "init" /\ Calls[build][calls[p] + 1] = c
  /\ calls' = [calls EXCEPT ![p] = @ + 1]
  /\ status' = [status EXCEPT ![p] = IF calls'[p] = Len(Calls[build]) THEN "run" ELSE @]
  /\ UNCHANGED <<build, inside, rounds>>

\* exit() in cs_init: cs_var_allocated is not set, so nothing is released.
Refused(p) ==
  /\ status' = [status EXCEPT ![p] = "refused"]
  /\ handle' = [handle EXCEPT ![p] = None]
  /\ UNCHANGED <<build, calls, inside, rounds, value, undo, linked, removed>>

\* p creates the object with the value v, under the name or key when it has one.
Created(p, v, named) ==
  /\ handle' = [handle EXCEPT ![p] = p]
  /\ value' = [value EXCEPT ![p] = v]
  /\ linked' = IF named THEN p ELSE linked
  /\ UNCHANGED <<undo, removed>>

Opened(p) ==
  /\ handle' = [handle EXCEPT ![p] = linked]
  /\ UNCHANGED <<value, undo, linked, removed>>

\* sem_open(SEM_NAME, O_CREAT, ..., 1) and semget(sem_key, 1, IPC_CREAT | 0600)
OpenOrCreate(p) ==
  \E c \in {"creat", "key"} :
    /\ Calling(p, c)
    /\ IF linked # None THEN Opened(p) ELSE Created(p, IF c = "creat" THEN 1 ELSE 0, TRUE)

\* MUTANT of OpenExclusive: O_EXCL is left out.
MutNotExclusive(p) ==
  \E c \in {"excl", "mq_excl"} :
    /\ Calling(p, c)
    /\ IF linked # None THEN Opened(p) ELSE Created(p, IF c = "excl" THEN 1 ELSE 0, TRUE)

\* sem_open and mq_open with O_CREAT | O_EXCL: EEXIST when the name is in use
OpenExclusive(p) ==
  \E c \in {"excl", "mq_excl"} :
    \/ linked = None /\ Calling(p, c) /\ Created(p, IF c = "excl" THEN 1 ELSE 0, TRUE)
    \/ /\ linked # None /\ status[p] = "init" /\ Calls[build][calls[p] + 1] = c
       /\ Refused(p)

\* semget and msgget with IPC_PRIVATE
CreatePrivate(p) == Calling(p, "private") /\ Created(p, 0, FALSE)

\* MUTANT of Unlink: the call is left out.
MutNoUnlink(p) ==
  /\ Calling(p, "unlink")
  /\ UNCHANGED <<handle, value, undo, linked, removed>>

\* sem_unlink and mq_unlink; the name may be another instance's by now.
Unlink(p) ==
  /\ Calling(p, "unlink")
  /\ linked' = None
  /\ UNCHANGED <<handle, value, undo, removed>>

\* semctl(SETVAL, 1), which clears every process's adjustment; EINVAL when it is removed
SetVal(p) ==
  \/ /\ handle[p] \notin removed
     /\ Calling(p, "set")
     /\ value' = [value EXCEPT ![handle[p]] = 1]
     /\ undo' = [q \in Proc |-> IF handle[q] = handle[p] THEN 0 ELSE undo[q]]
     /\ UNCHANGED <<handle, linked, removed>>
  \/ /\ status[p] = "init" /\ Calls[build][calls[p] + 1] = "set"
     /\ handle[p] \in removed
     /\ Refused(p)

\* MUTANT of Send: two messages.
MutSendTwo(p) ==
  /\ Calling(p, "send")
  /\ value' = [value EXCEPT ![handle[p]] = @ + 2]
  /\ UNCHANGED <<handle, undo, linked, removed>>

\* mq_send and msgsnd of the first message
Send(p) ==
  /\ Calling(p, "send")
  /\ value' = [value EXCEPT ![handle[p]] = @ + 1]
  /\ UNCHANGED <<handle, undo, linked, removed>>

cs_init(p) ==
  \/ OpenOrCreate(p) \/ OpenExclusive(p) \/ CreatePrivate(p)
  \/ Unlink(p) \/ SetVal(p) \/ Send(p)

------------------------------------------------------------------------------
Adjust(p, n) == undo' = [undo EXCEPT ![p] = IF build \in Undoing THEN @ + n ELSE @]

\* sem_wait, semop(-1), mq_receive or msgrcv
cs_enter(p, t) ==
  /\ status[p] = "run" /\ t \notin inside[p] /\ rounds[p][t] < Rounds
  /\ handle[p] \notin removed /\ value[handle[p]] > 0
  /\ value' = [value EXCEPT ![handle[p]] = @ - 1]
  /\ Adjust(p, 1)
  /\ inside' = [inside EXCEPT ![p] = @ \cup {t}]
  /\ UNCHANGED <<build, status, calls, handle, rounds, linked, removed>>

\* sem_post, semop(+1), mq_send or msgsnd
cs_leave(p, t) ==
  /\ status[p] = "run" /\ t \in inside[p]
  /\ handle[p] \notin removed
  /\ value' = [value EXCEPT ![handle[p]] = @ + 1]
  /\ Adjust(p, -1)
  /\ inside' = [inside EXCEPT ![p] = @ \ {t}]
  /\ rounds' = [rounds EXCEPT ![p][t] = @ + 1]
  /\ UNCHANGED <<build, status, calls, handle, linked, removed>>

AllDone(p) == \A t \in Thread : rounds[p][t] = Rounds

\* A call fails with EIDRM or EINVAL: the thread calls exit().
Failed(p) ==
  /\ status[p] = "run" /\ handle[p] \in removed /\ ~AllDone(p)
  /\ status' = [status EXCEPT ![p] = "exit"]
  /\ UNCHANGED <<build, calls, handle, inside, rounds, value, undo, linked, removed>>

\* The end of p: the kernel undoes its operations and closes what it has open.
Gone(p, how) ==
  /\ status' = [status EXCEPT ![p] = how]
  /\ handle' = [handle EXCEPT ![p] = None]
  /\ inside' = [inside EXCEPT ![p] = {}]
  /\ undo' = [undo EXCEPT ![p] = 0]
  /\ value' = IF handle[p] = None \/ undo[p] = 0 THEN value
              ELSE [value EXCEPT ![handle[p]] = IF @ + undo[p] < 0 THEN 0 ELSE @ + undo[p]]
  /\ UNCHANGED <<build, calls, rounds>>

\* release_resources, after the threads are joined or after exit()
Ending(p) ==
  \/ status[p] = "run" /\ AllDone(p) /\ Gone(p, "ended")
  \/ status[p] = "exit" /\ Gone(p, "failed")

\* cs_destroy from release_resources: IPC_RMID, sem_close, mq_close; the program of
\* thread_add_named_sem.c unlinks the name only here.
cs_destroy(p) ==
  /\ Ending(p)
  /\ removed' = IF build \in SysV THEN removed \cup {handle[p]} ELSE removed
  /\ linked' = IF build = "named_kept" \/ (build = "sysv" /\ linked = handle[p])
               THEN None ELSE linked

\* SIGINT, SIGKILL or a crash: no handler of atexit(3) runs.
Kill(p) ==
  /\ status[p] \in {"init", "run", "exit"}
  /\ Gone(p, "killed")
  /\ UNCHANGED <<linked, removed>>

Run(p) ==
  cs_init(p) \/ Failed(p) \/ cs_destroy(p) \/ \E t \in Thread : cs_enter(p, t) \/ cs_leave(p, t)

AllDead == (\A p \in Proc : status[p] \in Dead) /\ UNCHANGED vars

Next == (\E p \in Proc : Start(p) \/ Run(p) \/ Kill(p)) \/ AllDead

Spec == Init /\ [][Next]_vars

\* Every running process is scheduled; none has to be started and none is killed for sure.
FairSpec == Spec /\ \A p \in Proc : WF_vars(Run(p))
------------------------------------------------------------------------------
\* ThreadsExclude: the threads of one process exclude each other, whatever the other
\* instances do, in every build whose cs_init does not reset an object in use.
OneThread(p) == Cardinality(inside[p]) <= 1
ThreadsExclude == build # "sysv" => \A p \in Proc : OneThread(p)

\* NameWindow: with O_EXCL the name exists only while, or because, an instance is or was
\* killed between the open and the unlink of its cs_init: only then others are refused.
NameWindow ==
  build \in Exclusive /\ linked # None =>
    /\ \A n \in 1 .. calls[linked] : Calls[build][n] # "unlink"
    /\ status[linked] \in {"init", "killed"}

\* Finishes: a process that has got through cs_init ends with its work done, unless it is
\* killed, or another one is with which it shares the object.
Finishes ==
  build # "sysv" => \A p \in Proc :
    status[p] = "run" ~>
      \/ status[p] = "ended"
      \/ \E q \in Proc : status[q] = "killed" /\ (build \in Private => q = p)
==============================================================================
