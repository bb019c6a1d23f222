------------------------------ MODULE EchoServer ------------------------------
(***************************************************************************)
(* The echo servers: multi-client-echo-server.c, which waits for all its   *)
(* sockets with select(2), and single-client-echo-server.c, which serves   *)
(* one client after the other.  The clients and the network between the    *)
(* two are external: a client connects, sends, reads and leaves whenever   *)
(* it wants to, or does not.                                               *)
(*                                                                         *)
(* A message stands for data that are read whole or not at all: a byte, or *)
(* as much as the network and the buffer never part. What a client sends   *)
(* with one call may be several of them, and recv(2) takes any number.     *)
(***************************************************************************)
EXTENDS Naturals, Sequences, SequencesExt, FiniteSetsExt

CONSTANTS
  Clients,
  Messages,     \* Messages[c]: the most c sends
  ADDRESSES,    \* local addresses getaddrinfo(3) offers
  QUEUE_SIZE,   \* connections that wait to be accepted
  SNDBUF,       \* messages on their way back after which send(2) waits
  FD_SETSIZE,   \* size of an fd_set
  Limits,       \* possible sizes of the table of descriptors
  Programs,     \* of {"multi", "single"}
  Nobody

s == 3          \* the listening descriptor: the first after standard input, output and error

ASSUME EchoAssumption ==
  /\ Messages \in [Clients -> Nat] /\ ADDRESSES \in Nat /\ SNDBUF \in Nat \ {0}
  /\ QUEUE_SIZE \in Nat \ {0} /\ FD_SETSIZE \in Nat /\ FD_SETSIZE > s
  /\ Limits \subseteq Nat /\ \A n \in Limits : n > s
  /\ Nobody \notin Clients
  /\ Programs \subseteq {"multi", "single"}

VARIABLES
  program, limit,
  pc,        \* where the server is: "address", "listen", "wait", "scan", "recv", "send",
             \* "exit", "killed"
  si,        \* the address that is tried
  rfd,       \* the descriptors that are watched
  dsize,     \* the highest of them + 1
  ready,     \* those of ready_rfd that have not been looked at
  d,         \* the descriptor that is served
  buf,       \* what was read from it
  fds,       \* kernel: the client a descriptor is connected with
  backlog,   \* kernel: connections to accept
  client,    \* client[c]: "idle", "connected", "left"
  sent,      \* sent[c]: how many messages c has sent
  inbox,     \* inbox[c]: what has arrived from c and is not read
  outbox,    \* outbox[c]: what was sent back and is not read
  echoed,    \* echoed[c]: what c has read
  reset      \* reset[c]: the connection is broken: c has aborted it, or its host has refused
             \* data for a socket that is closed

server == <<program, limit, si>>
loop == <<rfd, dsize, ready, d, buf>>
clients == <<client, sent, inbox, outbox, echoed, reset>>
vars == <<server, pc, loop, fds, backlog, clients>>

dtsize == Min({limit, FD_SETSIZE})

Init ==
  /\ program \in Programs /\ limit \in Limits
  /\ pc = "address" /\ si = 1
  /\ rfd = {} /\ dsize = 0 /\ ready = {} /\ d = s /\ buf = <<>>
  /\ fds = [f \in s + 1 .. limit - 1 |-> Nobody] /\ backlog = <<>>
  /\ client = [c \in Clients |-> "idle"] /\ sent = [c \in Clients |-> 0]
  /\ inbox = [c \in Clients |-> <<>>] /\ outbox = inbox /\ echoed = inbox
  /\ reset = [c \in Clients |-> FALSE]

Open(c) == c \in ToSet(backlog) \/ \E f \in DOMAIN fds : fds[f] = c

------------------------------------------------------------------------------
(* The start of a server.                                                  *)

ServerGoto(from, to) == pc = from /\ pc' = to

\* socket, setsockopt and bind for one address; a socket that fails is closed again.
Address ==
  /\ si <= ADDRESSES
  /\ \/ ServerGoto("address", "listen") /\ UNCHANGED si
     \/ ServerGoto("address", "address") /\ si' = si + 1
  /\ UNCHANGED <<program, limit, loop, fds, backlog, clients>>

NoAddress ==
  /\ si > ADDRESSES /\ ServerGoto("address", "exit")
  /\ UNCHANGED <<server, loop, fds, backlog, clients>>

\* The addresses are released; the multi-client server sets up what it watches.
Listen ==
  /\ ServerGoto("listen", "wait")
  /\ si' = 1               \* not used any more
  /\ rfd' = {s} /\ dsize' = s + 1
  /\ UNCHANGED <<program, limit, ready, d, buf, fds, backlog, clients>>

\* getsockname or listen.
ListenFails ==
  /\ ServerGoto("listen", "exit")
  /\ UNCHANGED <<server, loop, fds, backlog, clients>>

------------------------------------------------------------------------------
(* The loop.                                                               *)

Readable(f) ==
  IF f = s THEN backlog # <<>>
  ELSE inbox[fds[f]] # <<>> \/ client[fds[f]] = "left"

BadDescriptor == \E f \in rfd \ {s} : f < dsize /\ fds[f] = Nobody

\* select(2) fails over a descriptor that is not open, and otherwise waits for one that
\* can be read.
Select ==
  /\ program = "multi"
  /\ IF BadDescriptor THEN ServerGoto("wait", "exit") /\ UNCHANGED ready
     ELSE /\ ready' = {f \in rfd : f < dsize /\ Readable(f)} /\ ready' # {}
          /\ ServerGoto("wait", "scan")
  /\ UNCHANGED <<server, rfd, dsize, d, buf, fds, backlog, clients>>

\* MUTANT of Watch: the highest descriptor is forgotten.
MutWatch(cs) == rfd' = rfd \union {cs} /\ UNCHANGED dsize

Watch(cs) == rfd' = rfd \union {cs} /\ dsize' = Max({dsize, cs + 1})

\* MUTANT of Fits: whatever accept returns is put into the set.
MutFits(cs) == TRUE

Fits(cs) == cs < dtsize

\* accept(2) returns the lowest descriptor that is free, or fails if there is none.
Free == {f \in DOMAIN fds : fds[f] = Nobody}
Accepted(cs) == fds' = [fds EXCEPT ![cs] = Head(backlog)] /\ backlog' = Tail(backlog)

\* accept(2) fails: no descriptor or memory is left, or the client has gone again, with
\* which its connection may (ECONNABORTED) or may not be taken off the queue.
AcceptFails ==
  /\ backlog' = backlog \/ (client[Head(backlog)] = "left" /\ backlog' = Tail(backlog))
  /\ UNCHANGED <<fds, rfd, dsize>>

\* A descriptor that does not fit into the set is closed at once.
Accept ==
  /\ ServerGoto("scan", "scan")
  /\ ready # {} /\ Min(ready) = s /\ ready' = ready \ {s}
  /\ \/ AcceptFails
     \/ /\ Free # {}
        /\ LET cs == Min(Free) IN
           IF Fits(cs) THEN Accepted(cs) /\ Watch(cs)
           ELSE backlog' = Tail(backlog) /\ UNCHANGED <<fds, rfd, dsize>>
  /\ UNCHANGED <<server, d, buf, clients>>

\* MUTANT of Take: the buffer is too short for what was read.
MutTake(c, n) ==
  /\ buf' = <<Head(inbox[c])>>
  /\ inbox' = [inbox EXCEPT ![c] = SubSeq(@, n + 1, Len(@))]

\* recv(2) takes as much of what has arrived as fits into the buffer.
Take(c, n) ==
  /\ buf' = SubSeq(inbox[c], 1, n)
  /\ inbox' = [inbox EXCEPT ![c] = SubSeq(@, n + 1, Len(@))]

Recv ==
  /\ ServerGoto("scan", "send")
  /\ ready # {} /\ Min(ready) # s
  /\ d' = Min(ready) /\ ready' = ready \ {Min(ready)}
  /\ \E n \in 1 .. Len(inbox[fds[d']]) : Take(fds[d'], n)
  /\ UNCHANGED <<server, rfd, dsize, fds, backlog, client, sent, outbox, echoed, reset>>

\* recv(2) returns 0, for nothing more comes, or -1, for the connection is broken.
Ended(c) == client[c] = "left" /\ (inbox[c] = <<>> \/ reset[c])

RecvEnd ==
  /\ ServerGoto("scan", "scan")
  /\ ready # {} /\ Min(ready) # s /\ ready' = ready \ {Min(ready)}
  /\ Ended(fds[Min(ready)])
  /\ fds' = [fds EXCEPT ![Min(ready)] = Nobody] /\ rfd' = rfd \ {Min(ready)}
  /\ UNCHANGED <<server, dsize, d, buf, backlog, clients>>

ScanEnd ==
  /\ ready = {} /\ ServerGoto("scan", "wait")
  /\ UNCHANGED <<server, loop, fds, backlog, clients>>

------------------------------------------------------------------------------
(* The loop of the single-client server: one recv, then the next client.   *)

\* If accept(2) fails it is called again.
AcceptOne ==
  /\ program = "single" /\ backlog # <<>>
  /\ \/ ServerGoto("wait", "wait") /\ AcceptFails /\ UNCHANGED d
     \/ /\ ServerGoto("wait", "recv")
        /\ Free # {} /\ d' = Min(Free) /\ Accepted(Min(Free))
        /\ UNCHANGED <<rfd, dsize>>
  /\ UNCHANGED <<server, ready, buf, clients>>

\* Whatever recv(2) returns is passed to send(2) as the length: 0 when the client has left,
\* and (size_t) -1 when the connection is broken, over which send(2) fails as well.
RecvOne ==
  /\ ServerGoto("recv", "send")
  /\ \/ \E n \in 1 .. Len(inbox[fds[d]]) : Take(fds[d], n)
     \/ Ended(fds[d]) /\ buf' = <<>> /\ UNCHANGED inbox
  /\ UNCHANGED <<server, rfd, dsize, ready, d, fds, backlog, client, sent, outbox, echoed, reset>>

------------------------------------------------------------------------------
(* Both send back what they have read.                                     *)

AfterSend ==
  /\ IF program = "multi" THEN ServerGoto("send", "scan") /\ UNCHANGED fds
     ELSE ServerGoto("send", "wait") /\ fds' = [fds EXCEPT ![d] = Nobody]
  /\ d' = s /\ buf' = <<>>   \* not used any more

\* send(2) waits for space. What is sent to a client that has left is refused by its
\* host, sooner or later.
Send ==
  /\ AfterSend
  /\ ~reset[fds[d]]
  /\ IF client[fds[d]] = "left"
     THEN /\ UNCHANGED outbox
          /\ \E r \in BOOLEAN : reset' = [reset EXCEPT ![fds[d]] = r /\ buf # <<>>]
     ELSE /\ Len(outbox[fds[d]]) < SNDBUF
          /\ outbox' = [outbox EXCEPT ![fds[d]] = @ \o buf]
          /\ UNCHANGED reset
  /\ UNCHANGED <<server, rfd, dsize, ready, backlog, client, sent, inbox, echoed>>

\* Over a broken connection send(2) returns -1: reported at most, and survived ...
SendFails ==
  /\ AfterSend
  /\ reset[fds[d]]
  /\ UNCHANGED <<server, rfd, dsize, ready, backlog, clients>>

\* ... or raises SIGPIPE, which ends the server: nothing handles or ignores it.
SendKilled ==
  /\ ServerGoto("send", "killed") /\ reset[fds[d]]
  /\ UNCHANGED <<server, loop, fds, backlog, clients>>

Server ==
  \/ Address \/ NoAddress \/ Listen \/ ListenFails
  \/ Select \/ Accept \/ Recv \/ RecvEnd \/ ScanEnd
  \/ AcceptOne \/ RecvOne
  \/ Send \/ SendFails \/ SendKilled

Dead == pc \in {"exit", "killed"}

------------------------------------------------------------------------------
(* The clients (external).                                                 *)

Connect(c) ==
  /\ client[c] = "idle" /\ pc \notin {"address", "listen"} /\ ~Dead
  /\ Len(backlog) < QUEUE_SIZE
  /\ client' = [client EXCEPT ![c] = "connected"] /\ backlog' = Append(backlog, c)
  /\ UNCHANGED <<server, pc, loop, fds, sent, inbox, outbox, echoed, reset>>

\* What is sent to a socket that the server has closed is lost.
ClientSend(c) ==
  /\ client[c] = "connected" /\ sent[c] < Messages[c] /\ ~Dead
  /\ sent' = [sent EXCEPT ![c] = @ + 1]
  /\ inbox' = IF Open(c) THEN [inbox EXCEPT ![c] = Append(@, <<c, sent[c] + 1>>)] ELSE inbox
  /\ UNCHANGED <<server, pc, loop, fds, backlog, client, outbox, echoed, reset>>

ClientReceive(c) ==
  /\ client[c] = "connected" /\ outbox[c] # <<>>
  /\ echoed' = [echoed EXCEPT ![c] = Append(@, Head(outbox[c]))]
  /\ outbox' = [outbox EXCEPT ![c] = Tail(@)]
  /\ UNCHANGED <<server, pc, loop, fds, backlog, client, sent, inbox, reset>>

\* A client that aborts, or leaves with something unread, breaks the connection.
Leave(c) ==
  /\ client[c] = "connected" /\ client' = [client EXCEPT ![c] = "left"]
  /\ \E aborts \in BOOLEAN : reset' = [reset EXCEPT ![c] = aborts \/ outbox[c] # <<>>]
  /\ outbox' = [outbox EXCEPT ![c] = <<>>]
  /\ UNCHANGED <<server, pc, loop, fds, backlog, sent, inbox, echoed>>

ClientStep(c) == Connect(c) \/ ClientSend(c) \/ ClientReceive(c) \/ Leave(c)

\* The server has ended, or waits for clients that do nothing more.
Quiet ==
  /\ Dead \/ pc \in {"wait", "recv"}
  /\ UNCHANGED vars

Next == Server \/ (\E c \in Clients : ClientStep(c)) \/ Quiet

Spec == Init /\ [][Next]_vars

\* The server goes on whenever it can. Nothing is promised of a client: it need neither
\* connect, nor send, nor read, nor leave.
FairSpec == Spec /\ WF_vars(Server)

------------------------------------------------------------------------------
Message == Clients \X Nat

TypeOK ==
  /\ program \in {"multi", "single"} /\ limit \in Limits /\ si \in 1 .. ADDRESSES + 1
  /\ pc \in {"address", "listen", "wait", "scan", "recv", "send", "exit", "killed"}
  /\ rfd \subseteq s .. limit - 1 /\ ready \subseteq rfd /\ dsize \in 0 .. limit
  /\ d \in s .. limit - 1
  /\ fds \in [s + 1 .. limit - 1 -> Clients \union {Nobody}]
  /\ backlog \in Seq(Clients)
  /\ client \in [Clients -> {"idle", "connected", "left"}]
  /\ sent \in [Clients -> Nat] /\ \A c \in Clients : sent[c] <= Messages[c]
  /\ buf \in Seq(Message)
  /\ inbox \in [Clients -> Seq(Message)] /\ outbox \in [Clients -> Seq(Message)]
  /\ echoed \in [Clients -> Seq(Message)]
  /\ reset \in [Clients -> BOOLEAN]

AllOf(c) == [k \in 1 .. sent[c] |-> <<c, k>>]

Held(c) == IF pc = "send" /\ fds[d] = c THEN buf ELSE <<>>

\* OwnEcho: a client gets back what it has sent itself, in order, nothing twice and, as
\* long as both sides are connected, nothing left out, whoever had the descriptor before.
OwnEcho ==
  \A c \in Clients :
    /\ IsPrefix(echoed[c], AllOf(c))
    /\ Open(c) /\ client[c] = "connected" =>
         echoed[c] \o outbox[c] \o Held(c) \o inbox[c] = AllOf(c)

\* WatchedExactly: whenever the multi-client server waits, it watches its listening
\* socket and exactly the descriptors of its clients, however many have come and gone; all
\* of them are in the range select(2) looks at, and none is beyond the fd_set.
WatchedExactly ==
  program = "multi" /\ pc = "wait" =>
    /\ rfd = {s} \union {f \in DOMAIN fds : fds[f] # Nobody}
    /\ \A f \in rfd : f < dsize
    /\ dsize <= dtsize

\* send(2) waits for a client that is connected and does not read.
Blocked ==
  pc = "send" /\ client[fds[d]] = "connected" /\ Len(outbox[fds[d]]) >= SNDBUF

\* Served: what an accepted client sends is sent back although other clients are silent,
\* come, go, are too many, or read late, and accept(2) fails again and again, unless it
\* leaves first. The exceptions: the one loop waits for ever in send(2) for a client that
\* does not read, this one or another, which stops the service of all of them; and SIGPIPE
\* has ended the server. The single-client server serves what comes first.
Served ==
  \A c \in Clients : \A k \in 1 .. Messages[c] :
    (program = "multi" \/ k = 1) /\ []<>~Blocked =>
      ((sent[c] >= k /\ \E f \in DOMAIN fds : fds[f] = c)
         ~> (Len(echoed[c]) + Len(outbox[c]) >= k \/ client[c] = "left" \/ pc = "killed"))
==============================================================================
