------------------------------ MODULE MessagesSV ------------------------------
(***************************************************************************)
(* Processes that exchange messages through one System V queue.            *)
(*                                                                         *)
(* "fork": messagesSV_snd creates the queue, forks, sends one message,     *)
(* waits for its child and removes the queue; the child executes           *)
(* messagesSV_rcv, which opens the queue by its key and receives one       *)
(* message.  All instances use the same key.                               *)
(*                                                                         *)
(* "args": messagesSV_snd_arg creates the queue, sends its arguments and   *)
(* leaves; messagesSV_rcv_cycle receives until it has found the queue      *)
(* empty twice, with a pause in between, and removes it.                   *)
(***************************************************************************)
EXTENDS Naturals, Sequences, SequencesExt

CONSTANTS
  Senders,      \* processes of messagesSV_snd, or of messagesSV_snd_arg
  Receivers,    \* processes of messagesSV_rcv_cycle
  Child,        \* Child[p]: the process that p forks
  ARGS,         \* arguments of a messagesSV_snd_arg
  CAPACITY,     \* messages that fit into a queue (msg_qbytes)
  Programs      \* of {"fork", "args"}

Children == {Child[p] : p \in Senders}
Processes == Senders \union Receivers \union Children

ASSUME MessagesAssumption ==
  /\ ARGS \in Nat \ {0} /\ CAPACITY \in Nat \ {0}
  /\ Senders \intersect Receivers = {}
  /\ Children \intersect (Senders \union Receivers) = {}
  /\ DOMAIN Child = Senders /\ \A p, q \in Senders : Child[p] = Child[q] => p = q

VARIABLES
  program,
  pc,         \* pc[p]: "idle", where p is in its program, or "over"
  mq_id,      \* mq_id[p]: the queue p has opened, 0 for -1
  status,     \* status[r]: how often r has found the queue empty in a row
  next,       \* next[p]: number of the message p sends next
  key,        \* kernel: the queue that has the key, 0 if there is none
  queue,      \* kernel: queue[id]: the messages in it
  got,        \* history: got[m]: who has printed message m
  lost,       \* history: messages that were in a queue when it was removed
  working     \* history: working[r]: senders not through, started or not, when r looked last

processes == <<pc, mq_id, status, next>>
kernel == <<key, queue>>
history == <<got, lost, working>>
vars == <<program, processes, kernel, history>>

None == 0

Init ==
  /\ program \in Programs
  /\ pc = [p \in Processes |-> "idle"] /\ mq_id = [p \in Processes |-> None]
  /\ status = [r \in Receivers |-> 0] /\ next = [p \in Senders |-> 1]
  /\ key = None /\ queue = <<>>
  /\ got = {} /\ lost = {} /\ working = [r \in Receivers |-> {}]

\* Only the key leads to a queue, and only its removal takes the key away.
Exists(p) == mq_id[p] # None /\ mq_id[p] = key

Goto(p, from, to) == pc[p] = from /\ pc' = [pc EXCEPT ![p] = to] /\ UNCHANGED program

\* A call that fails ends the process.
Fail(p, from, to) ==
  Goto(p, from, to) /\ UNCHANGED <<mq_id, status, next, kernel, history>>

\* msgget without IPC_CREAT; exit if there is no queue.
Open(p, from, to) ==
  /\ Goto(p, from, IF key = None THEN "over" ELSE to)
  /\ mq_id' = [mq_id EXCEPT ![p] = key]
  /\ UNCHANGED <<status, next, kernel, history>>

\* msgget with IPC_CREAT.
Create(p, from, to) ==
  /\ Goto(p, from, to)
  /\ IF key # None THEN UNCHANGED kernel
     ELSE queue' = Append(queue, <<>>) /\ key' = Len(queue')
  /\ mq_id' = [mq_id EXCEPT ![p] = key']
  /\ UNCHANGED <<status, next, history>>

\* msgsnd: it waits while the queue is full and fails if it is removed.
Put(p, from, sent, failed) ==
  /\ Goto(p, from, IF Exists(p) THEN sent ELSE failed)
  /\ IF Exists(p)
     THEN /\ Len(queue[key]) < CAPACITY
          /\ queue' = [queue EXCEPT ![key] = Append(@, <<p, next[p]>>)]
          /\ next' = [next EXCEPT ![p] = @ + 1]
     ELSE UNCHANGED <<queue, next>>
  /\ UNCHANGED <<mq_id, status, key, history>>

\* msgrcv of a message that is there, which is printed.
Get(p) ==
  /\ Exists(p) /\ queue[key] # <<>>
  /\ queue' = [queue EXCEPT ![key] = Tail(@)]
  /\ got' = got \union {<<Head(queue[key]), p>>}
  /\ UNCHANGED <<mq_id, next, key, lost, working>>

\* The handler remove_q, registered with atexit: a failure is reported and no more.
RemoveQ(p) ==
  /\ Goto(p, "exit", "over")
  /\ IF Exists(p)
     THEN key' = None /\ lost' = lost \union ToSet(queue[key])
     ELSE UNCHANGED <<key, lost>>
  /\ UNCHANGED <<mq_id, status, next, queue, got, working>>

------------------------------------------------------------------------------
(* messagesSV_snd                                                          *)

Parent(p) ==
  /\ program = "fork"
  /\ \/ Create(p, "idle", "fork") \/ Fail(p, "idle", "over")
     \/ Fail(p, "fork", "exit")
     \/ Put(p, "send", "wait", "exit")
     \/ pc[Child[p]] = "over" /\ Fail(p, "wait", "exit")
     \/ RemoveQ(p)

\* The child has a copy of mq_id, and of the handler.
Fork(p) ==
  /\ program = "fork" /\ pc[p] = "fork"
  /\ pc' = [pc EXCEPT ![p] = "send", ![Child[p]] = "exec"]
  /\ mq_id' = [mq_id EXCEPT ![Child[p]] = mq_id[p]]
  /\ UNCHANGED <<program, status, next, kernel, history>>

\* Another program takes the child's place, without mq_id and without the handler.
Exec(c) ==
  /\ Goto(c, "exec", "open") /\ mq_id' = [mq_id EXCEPT ![c] = None]
  /\ UNCHANGED <<status, next, kernel, history>>

\* mq_id is reset so that the handler does not remove the queue.
ExecFails(c) ==
  /\ Goto(c, "exec", "exit") /\ mq_id' = [mq_id EXCEPT ![c] = None]
  /\ UNCHANGED <<status, next, kernel, history>>

(* messagesSV_rcv: one message.                                            *)

Receive(c) == Goto(c, "receive", "over") /\ Get(c) /\ UNCHANGED status

ChildStep(c) ==
  \/ Exec(c) \/ ExecFails(c) \/ RemoveQ(c)
  \/ Open(c, "open", "receive")
  \/ Receive(c)
  \/ ~Exists(c) /\ Fail(c, "receive", "over")

------------------------------------------------------------------------------
(* messagesSV_snd_arg: each argument is sent, and the queue is left.        *)

SendArgs(p) ==
  /\ program = "args"
  /\ \/ Create(p, "idle", "stat") \/ Fail(p, "idle", "over")
     \/ Fail(p, "stat", IF Exists(p) THEN "send" ELSE "over")
     \/ Put(p, "send", IF next[p] < ARGS THEN "send" ELSE "over", "over")

------------------------------------------------------------------------------
(* messagesSV_rcv_cycle                                                    *)

\* MUTANT of ReceiveNext: one message is enough, as for messagesSV_rcv.
MutReceiveNext(r) == Goto(r, "cycle", "exit") /\ Get(r) /\ status' = [status EXCEPT ![r] = 0]

ReceiveNext(r) == Goto(r, "cycle", "cycle") /\ Get(r) /\ status' = [status EXCEPT ![r] = 0]

AtWork(p) == pc[p] \notin {"idle", "over"}

\* MUTANT of Look: the pause starts again and again.
MutLook(r) ==
  /\ Exists(r) /\ queue[key] = <<>>
  /\ Goto(r, "cycle", "cycle")
  /\ status' = [status EXCEPT ![r] = 1]
  /\ working' = [working EXCEPT ![r] = {p \in Senders : pc[p] # "over"}]
  /\ UNCHANGED <<mq_id, next, kernel, got, lost>>

\* ENOMSG: the first time there is a pause, the second time the end.
Look(r) ==
  /\ Exists(r) /\ queue[key] = <<>>
  /\ Goto(r, "cycle", IF status[r] = 0 THEN "cycle" ELSE "exit")
  /\ status' = [status EXCEPT ![r] = @ + 1]
  /\ working' = [working EXCEPT ![r] = {p \in Senders : pc[p] # "over"}]
  /\ UNCHANGED <<mq_id, next, kernel, got, lost>>

Cycle(r) ==
  /\ program = "args"
  /\ \/ Open(r, "idle", "stat")
     \/ Fail(r, "stat", IF Exists(r) THEN "cycle" ELSE "exit")
     \/ ReceiveNext(r)
     \/ Look(r)
     \/ ~Exists(r) /\ Fail(r, "cycle", "exit")
     \/ RemoveQ(r)

------------------------------------------------------------------------------
Step(p) ==
  \/ p \in Senders /\ (Parent(p) \/ Fork(p) \/ SendArgs(p))
  \/ p \in Children /\ ChildStep(p)
  \/ p \in Receivers /\ Cycle(p)

\* msgsnd fails although the queue is there (EINTR, or EINVAL for a long text), and so does
\* msgrcv where it waits. The receiver of messagesSV_rcv_cycle does not wait, clips what is
\* long, and has no such error.
CallFails(p) ==
  \/ p \in Senders /\ Fail(p, "send", IF program = "fork" THEN "exit" ELSE "over")
  \/ p \in Children /\ Fail(p, "receive", "over")

\* A child that waits for a message, or a sender at a full queue, may wait for ever.
Waiting(p) ==
  \/ pc[p] \in {"idle", "over"}
  \/ pc[p] = "receive" /\ Exists(p) /\ queue[key] = <<>>
  \/ p \in Senders /\ pc[p] = "wait" /\ pc[Child[p]] # "over"
  \/ p \in Senders /\ pc[p] = "send" /\ Exists(p) /\ Len(queue[key]) = CAPACITY

Stopped == (\A p \in Processes : Waiting(p)) /\ UNCHANGED vars

Next == (\E p \in Processes : Step(p) \/ CallFails(p)) \/ Stopped

Spec == Init /\ [][Next]_vars

\* A process that has been started goes on whenever it can; none need be started.
FairSpec ==
  Spec /\ \A p \in Processes : WF_vars(pc[p] # "idle" /\ Step(p))

------------------------------------------------------------------------------
Messages == Senders \X (1 .. ARGS)

TypeOK ==
  /\ program \in Programs
  /\ pc \in [Processes -> {"idle", "fork", "exec", "open", "stat", "send", "wait",
                           "receive", "cycle", "exit", "over"}]
  /\ key \in 0 .. Len(queue) /\ mq_id \in [Processes -> 0 .. Len(queue)]
  /\ queue \in Seq(Seq(Messages)) /\ lost \subseteq Messages
  /\ got \subseteq Messages \X (Receivers \union Children)
  /\ status \in [Receivers -> 0 .. 2] /\ next \in [Senders -> 1 .. ARGS + 1]
  /\ working \in [Receivers -> SUBSET Senders]

\* LostOnlyLate: a receiver that takes the queue away takes no message along but those of
\* senders that were not through, at work or not even started, when it had last found the
\* queue empty. With senders that are through before, every message is printed. One look
\* would do for that; the second one, after the pause, makes a late message less likely.
LostOnlyLate ==
  [][program = "args" /\ lost' # lost =>
       \E r \in Receivers :
         /\ pc[r] = "exit" /\ pc'[r] = "over"
         /\ \A m \in lost' \ lost : m[1] \in working[r]]_vars

\* Another child has printed the message that p has sent for its own.
Robbed(p) ==
  program = "fork" /\ \E c \in Children \ {Child[p]} : <<<<p, 1>>, c>> \in got

\* p has forked and is gone without having sent its message.
Failed(p) == program = "fork" /\ pc[p] = "over" /\ mq_id[p] # None /\ next[p] = 1

\* Another parent that has failed has removed the queue with the message of p in it.
Removed(p) == <<p, 1>> \in lost /\ \E q \in Senders \ {p} : Failed(q)

\* Nobody is there to make room in the queue.
Abandoned(p) ==
  /\ program = "args" /\ Exists(p) /\ Len(queue[key]) = CAPACITY
  /\ \A r \in Receivers : ~AtWork(r)

\* Settles: whoever removes the queue, and whenever, no process is left waiting for ever
\* but a parent and its child whose message another instance's child has printed or a
\* parent whose msgsnd has failed has removed, the child of such a parent, and the senders
\* at a full queue without a receiver.
Settles ==
  <>[](\A p \in Senders :
         \/ ~AtWork(p) /\ ~AtWork(Child[p])
         \/ Robbed(p) \/ Failed(p) \/ Removed(p) \/ Abandoned(p))
     /\ <>[](\A r \in Receivers : ~AtWork(r))
==============================================================================
