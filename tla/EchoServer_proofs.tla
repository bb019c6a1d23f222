--------------------------- MODULE EchoServer_proofs ---------------------------
(***************************************************************************)
(* Proofs about EchoServer, for any clients, messages, table of            *)
(* descriptors and fd_set: the multi-client server watches exactly its     *)
(* clients, and both give each client back what it has sent, in order and  *)
(* nothing else.                                                           *)
(***************************************************************************)
EXTENDS EchoServer, Integers, SequenceTheorems, WellFoundedInduction, TLAPS

\* A nonempty set of numbers has a least one, which Min chooses.
LEMMA MinProperties ==
  ASSUME NEW T \in SUBSET Nat, T # {}
  PROVE  Min(T) \in T /\ \A n \in T : Min(T) <= n
<1> DEFINE R == OpToRel(<, Nat)
<1>1. \A x, y \in Nat : x < y => <<x, y>> \in R
  BY DEF OpToRel
<1>2. \E x \in T : \A y \in T : ~(<<y, x>> \in R)
  <2> HIDE DEF R
  <2>1. IsWellFoundedOn(R, Nat)
    BY NatLessThanWellFounded DEF R
  <2> QED BY <2>1, WFMin, Zenon
<1>3. \E x \in T : \A y \in T : x <= y
  <2> HIDE DEF R
  <2>1. PICK x \in T : \A y \in T : ~(<<y, x>> \in R)
    BY <1>2
  <2>2. \A y \in T : ~(y < x)
    BY <1>1, <2>1
  <2>3. \A y \in T : x <= y
    BY <2>2
  <2> QED BY <2>3
<1> QED BY <1>3 DEF Min

\* The least and the greatest of two numbers.
LEMMA OfTwo ==
  ASSUME NEW m \in Nat, NEW n \in Nat
  PROVE  /\ Min({m, n}) = IF m <= n THEN m ELSE n
         /\ Max({m, n}) = IF m <= n THEN n ELSE m
BY DEF Min, Max

LEMMA Bounds == TypeOK => limit \in Nat /\ limit > s /\ dtsize \in Nat /\ dtsize > s
BY EchoAssumption, OfTwo DEF TypeOK, dtsize, s

\* The lowest descriptor that is free.
LEMMA FreeLowest ==
  ASSUME TypeOK, Free # {}
  PROVE  Min(Free) \in DOMAIN fds /\ fds[Min(Free)] = Nobody /\ Min(Free) \in Nat
<1>1. Free \subseteq Nat
  BY Bounds DEF Free, TypeOK, s
<1>2. Min(Free) \in Free
  BY <1>1, MinProperties
<1> QED BY <1>1, <1>2 DEF Free

-------------------------------------------------------------------------------
\* Where the loop is and what it holds: nobody is connected before it begins; what is
\* served is a client's descriptor; each program has its own positions.
Placed ==
  /\ pc \in {"address", "listen"} =>
       /\ \A f \in DOMAIN fds : fds[f] = Nobody
       /\ backlog = <<>> /\ rfd = {} /\ ready = {}
  /\ pc = "scan" => program = "multi"
  /\ pc = "recv" => program = "single"
  /\ pc \in {"recv", "send"} => d \in DOMAIN fds /\ fds[d] # Nobody
  /\ s \in ready => backlog # <<>>
  /\ program = "single" => ready = {}

\* What is watched, at every point of the loop.
Watched ==
  program = "multi" /\ pc \in {"wait", "scan", "send"} =>
    /\ rfd = {s} \union {f \in DOMAIN fds : fds[f] # Nobody}
    /\ \A f \in rfd : f < dsize
    /\ dsize <= dtsize

SInv == TypeOK /\ Placed /\ Watched

LEMMA InitS == Init => SInv
<1> SUFFICES ASSUME Init PROVE SInv
  OBVIOUS
<1> USE DEF Init
<1>1. limit \in Nat /\ limit > s
  BY EchoAssumption
<1>2. inbox \in [Clients -> Seq(Message)]
  OBVIOUS
<1>3. TypeOK
  BY <1>1, <1>2, EchoAssumption DEF TypeOK, s
<1>4. Placed /\ Watched
  BY DEF Placed, Watched
<1> QED BY <1>3, <1>4 DEF SInv

-------------------------------------------------------------------------------
(* The server's steps keep SInv.                                               *)

\* The start of a server.
LEMMA StartS ==
  ASSUME SInv, Address \/ NoAddress \/ Listen \/ ListenFails
  PROVE  SInv'
<1> USE EchoAssumption, Bounds DEF SInv, ServerGoto, loop, clients, server, s
<1>1. CASE Address
  BY <1>1 DEF Address, TypeOK, Placed, Watched, dtsize
<1>2. CASE NoAddress
  BY <1>2 DEF NoAddress, TypeOK, Placed, Watched, dtsize
<1>3. CASE Listen
  <2>1. limit \in Nat /\ s + 1 \in 0 .. limit /\ {s} \subseteq s .. limit - 1
    OBVIOUS
  <2>2. TypeOK'
    BY <1>3, <2>1 DEF Listen, TypeOK, Placed
  <2>3. Placed' /\ Watched'
    BY <1>3 DEF Listen, TypeOK, Placed, Watched, dtsize
  <2> QED BY <2>2, <2>3
<1>4. CASE ListenFails
  BY <1>4 DEF ListenFails, TypeOK, Placed, Watched, dtsize
<1> QED BY <1>1, <1>2, <1>3, <1>4

\* Whatever is ready is watched.
LEMMA SelectS == ASSUME SInv, Select \/ ScanEnd PROVE SInv'
<1> USE DEF SInv, ServerGoto, loop, clients, server, s
<1>1. CASE Select
  <2>1. TypeOK'
    BY <1>1 DEF Select, TypeOK
  <2>2. Placed' /\ Watched'
    BY <1>1 DEF Select, TypeOK, Placed, Watched, Readable, dtsize
  <2> QED BY <2>1, <2>2
<1>2. CASE ScanEnd
  BY <1>2 DEF ScanEnd, TypeOK, Placed, Watched, dtsize
<1> QED BY <1>1, <1>2

\* If the listening socket is ready, a connection waits.
LEMMA Waiting == ASSUME SInv, Accept PROVE backlog # <<>>
<1>1. ready \in SUBSET Nat
  BY Bounds DEF SInv, TypeOK, s
<1>2. ready # {} /\ Min(ready) = s
  BY DEF Accept
<1> QED BY <1>1, <1>2, MinProperties DEF SInv, Placed

\* A new client is watched if, and only if, its descriptor fits.
LEMMA AcceptS == ASSUME SInv, Accept PROVE SInv'
<1> USE DEF SInv, ServerGoto, clients, server
<1>1. /\ pc = "scan" /\ pc' = "scan" /\ program = "multi" /\ backlog # <<>>
      /\ ready' = ready \ {s} /\ UNCHANGED <<program, limit, si, d, buf, clients>>
  <2>2. backlog # <<>>
    BY Waiting
  <2>3. pc = "scan" /\ pc' = "scan" /\ ready' = ready \ {s}
    BY DEF Accept
  <2>4. UNCHANGED <<program, limit, si, d, buf, clients>>
    BY DEF Accept
  <2> QED BY <2>2, <2>3, <2>4 DEF Placed
<1>2. Head(backlog) \in Clients /\ Tail(backlog) \in Seq(Clients)
  BY <1>1 DEF TypeOK
<1>3. CASE AcceptFails
  <2>1. backlog' \in Seq(Clients) /\ UNCHANGED <<fds, rfd, dsize>>
    BY <1>2, <1>3 DEF AcceptFails, TypeOK
  <2> QED BY <1>1, <2>1 DEF TypeOK, Placed, Watched, dtsize
<1>4. CASE backlog' = Tail(backlog) /\ UNCHANGED <<fds, rfd, dsize>>
  BY <1>1, <1>2, <1>4 DEF TypeOK, Placed, Watched, dtsize
<1>5. CASE /\ Free # {} /\ Fits(Min(Free))
           /\ Accepted(Min(Free)) /\ Watch(Min(Free))
  <2> DEFINE cs == Min(Free)
  <2>1. cs \in DOMAIN fds /\ fds[cs] = Nobody /\ cs \in Nat /\ cs < dtsize
    BY <1>5, FreeLowest DEF Fits
  <2>2. /\ fds' = [fds EXCEPT ![cs] = Head(backlog)] /\ backlog' = Tail(backlog)
        /\ rfd' = rfd \union {cs} /\ dsize' = Max({dsize, cs + 1})
    BY <1>5 DEF Accepted, Watch
  <2> HIDE DEF cs
  <2>3. limit \in Nat /\ dsize \in Nat /\ cs + 1 \in Nat /\ dtsize \in Nat /\ dtsize <= limit
    <3>1. limit \in Nat /\ FD_SETSIZE \in Nat /\ dtsize \in Nat
      BY Bounds, EchoAssumption DEF SInv
    <3>2. dtsize <= limit
      BY <3>1, OfTwo DEF dtsize
    <3> QED BY <2>1, <3>1, <3>2 DEF TypeOK
  <2>4. dsize' = IF dsize <= cs + 1 THEN cs + 1 ELSE dsize
    BY <2>2, <2>3, OfTwo
  <2>5. TypeOK'
    <3>1. cs \in s + 1 .. limit - 1
      BY <2>1 DEF TypeOK
    <3>2. rfd' \subseteq s .. limit - 1 /\ ready' \subseteq rfd'
      BY <1>1, <2>2, <2>3, <3>1 DEF TypeOK, s
    <3>3. dsize' \in 0 .. limit
      BY <2>1, <2>3, <2>4 DEF TypeOK
    <3>4. fds' \in [s + 1 .. limit - 1 -> Clients \union {Nobody}] /\ backlog' \in Seq(Clients)
      BY <1>2, <2>2 DEF TypeOK
    <3> QED BY <1>1, <3>2, <3>3, <3>4 DEF TypeOK
  <2>6. Watched'
    <3>1. rfd' = {s} \union {f \in DOMAIN fds' : fds'[f] # Nobody}
      BY <1>1, <1>2, <2>1, <2>2, EchoAssumption DEF Watched, TypeOK
    <3>2. \A f \in rfd' : f < dsize'
      <4>1. rfd \subseteq Nat
        BY <2>3 DEF TypeOK, s
      <4>2. \A f \in rfd : f < dsize
        BY <1>1 DEF Watched
      <4>3. TAKE f \in rfd'
      <4>4. CASE f \in rfd
        <5>1. f \in Nat /\ f < dsize
          BY <4>1, <4>2, <4>4
        <5> QED BY <2>3, <2>4, <5>1
      <4>5. CASE f = cs
        BY <2>1, <2>3, <2>4, <4>5
      <4> QED BY <2>2, <4>4, <4>5
    <3>3. dsize' <= dtsize /\ dtsize' = dtsize
      BY <1>1, <2>1, <2>3, <2>4 DEF Watched, dtsize
    <3> QED BY <3>1, <3>2, <3>3 DEF Watched
  <2>7. Placed'
    BY <1>1, <2>2, <2>5 DEF Placed, TypeOK
  <2> QED BY <2>5, <2>6, <2>7
<1>6. \/ AcceptFails
      \/ backlog' = Tail(backlog) /\ UNCHANGED <<fds, rfd, dsize>>
      \/ /\ Free # {} /\ Fits(Min(Free))
         /\ Accepted(Min(Free)) /\ Watch(Min(Free))
  BY DEF Accept
<1> QED BY <1>3, <1>4, <1>5, <1>6

\* What is ready, but for the listening socket, is a client's.
LEMMA ReadyClient ==
  ASSUME SInv, pc = "scan", ready # {}, Min(ready) # s
  PROVE  /\ Min(ready) \in DOMAIN fds /\ fds[Min(ready)] \in Clients
         /\ Min(ready) \in ready /\ Min(ready) \in s .. limit - 1
<1>1. ready \in SUBSET Nat /\ ready \subseteq rfd
  BY Bounds DEF SInv, TypeOK, s
<1>2. Min(ready) \in rfd /\ Min(ready) \in ready
  BY <1>1, MinProperties
<1> QED BY <1>2 DEF SInv, Watched, Placed, TypeOK

\* A sequence, cut in two.
LEMMA Cut ==
  ASSUME NEW S, NEW q \in Seq(S), NEW n \in 1 .. Len(q)
  PROVE  /\ SubSeq(q, 1, n) \in Seq(S) /\ SubSeq(q, n + 1, Len(q)) \in Seq(S)
         /\ SubSeq(q, 1, n) \o SubSeq(q, n + 1, Len(q)) = q
<1>1. Len(q) \in Nat /\ \A i \in 1 .. Len(q) : q[i] \in S
  BY LenProperties, ElementOfSeq
<1>2. SubSeq(q, 1, n) \in Seq(S)
  <2>1. 1 \in Int /\ n \in Int /\ \A i \in 1 .. n : q[i] \in S
    BY <1>1
  <2> QED BY <2>1, SubSeqProperties, Zenon
<1>3. SubSeq(q, n + 1, Len(q)) \in Seq(S)
  <2>1. n + 1 \in Int /\ Len(q) \in Int /\ \A i \in n + 1 .. Len(q) : q[i] \in S
    BY <1>1
  <2> QED BY <2>1, SubSeqProperties, Zenon
<1>4. SubSeq(q, 1, n) \o SubSeq(q, n + 1, Len(q)) = q
  BY <1>1, <1>2, <1>3, ConcatAdjacentSubSeq, SubSeqFull
<1> QED BY <1>2, <1>3, <1>4

\* The beginning of what has arrived from a client, and the rest.
LEMMA TakeType ==
  ASSUME TypeOK, NEW c \in Clients, NEW n \in 1 .. Len(inbox[c]), Take(c, n)
  PROVE  /\ buf' \in Seq(Message) /\ inbox' \in [Clients -> Seq(Message)]
         /\ inbox' = [inbox EXCEPT ![c] = inbox'[c]]
         /\ buf' \o inbox'[c] = inbox[c]
<1> DEFINE q == inbox[c]
<1>1. q \in Seq(Message) /\ n \in 1 .. Len(q)
  BY DEF TypeOK
<1>2. buf' = SubSeq(q, 1, n) /\ inbox' = [inbox EXCEPT ![c] = SubSeq(q, n + 1, Len(q))]
  BY DEF Take
<1> HIDE DEF q
<1>3. SubSeq(q, 1, n) \in Seq(Message) /\ SubSeq(q, n + 1, Len(q)) \in Seq(Message)
  BY <1>1, Cut
<1>4. SubSeq(q, 1, n) \o SubSeq(q, n + 1, Len(q)) = q
  BY <1>1, Cut
<1>5. inbox'[c] = SubSeq(q, n + 1, Len(q))
  BY <1>2 DEF TypeOK
<1> QED BY <1>2, <1>3, <1>4, <1>5 DEF TypeOK, q
\* What is read comes from a client that is served.
LEMMA RecvS == ASSUME SInv, Recv PROVE SInv'
<1> USE DEF SInv, ServerGoto, server
<1>1. pc = "scan" /\ pc' = "send" /\ ready # {} /\ Min(ready) # s
  BY DEF Recv
<1>2. /\ d' = Min(ready) /\ d' \in DOMAIN fds /\ fds[d'] \in Clients
      /\ d' \in s .. limit - 1 /\ ready' \subseteq ready
  BY <1>1, ReadyClient DEF Recv
<1>3. PICK n \in 1 .. Len(inbox[fds[d']]) : Take(fds[d'], n)
  BY DEF Recv
<1>4. buf' \in Seq(Message) /\ inbox' \in [Clients -> Seq(Message)]
  BY <1>2, <1>3, TakeType
<1>5. UNCHANGED <<server, rfd, dsize, fds, backlog, client, sent, outbox, echoed, reset>>
  BY DEF Recv
<1>6. TypeOK'
  BY <1>1, <1>2, <1>4, <1>5 DEF TypeOK
<1>7. Placed' /\ Watched'
  BY <1>1, <1>2, <1>5, EchoAssumption DEF Placed, Watched, TypeOK, dtsize
<1> QED BY <1>6, <1>7

\* A client's descriptor is closed and not watched any more.
LEMMA RecvEndS == ASSUME SInv, RecvEnd PROVE SInv'
<1> USE DEF SInv, ServerGoto, clients, server
<1> DEFINE f == Min(ready)
<1>1. /\ pc = "scan" /\ pc' = "scan" /\ ready # {} /\ f # s
      /\ ready' = ready \ {f} /\ rfd' = rfd \ {f} /\ fds' = [fds EXCEPT ![f] = Nobody]
      /\ UNCHANGED <<program, limit, si, dsize, d, buf, backlog, clients>>
  BY DEF RecvEnd
<1>2. f \in DOMAIN fds
  BY <1>1, ReadyClient
<1> HIDE DEF f
<1>3. TypeOK'
  BY <1>1, <1>2 DEF TypeOK
<1>4. Placed' /\ Watched'
  BY <1>1, <1>2 DEF Placed, Watched, TypeOK, dtsize
<1> QED BY <1>3, <1>4

\* The single-client server.
LEMMA SingleS == ASSUME SInv, AcceptOne \/ RecvOne PROVE SInv'
<1> USE DEF SInv, ServerGoto, server
<1>1. CASE AcceptOne
  <2>1. program = "single" /\ pc = "wait" /\ UNCHANGED <<program, limit, si, ready, buf, clients>>
    BY <1>1 DEF AcceptOne
  <2>2. Head(backlog) \in Clients /\ Tail(backlog) \in Seq(Clients)
    BY <1>1 DEF AcceptOne, TypeOK
  <2>3. CASE pc' = "wait" /\ AcceptFails /\ UNCHANGED d
    BY <2>1, <2>2, <2>3 DEF AcceptFails, TypeOK, Placed, Watched, clients
  <2>4. CASE /\ pc' = "recv" /\ Free # {} /\ d' = Min(Free) /\ Accepted(Min(Free))
             /\ UNCHANGED <<rfd, dsize>>
    <3>1. Min(Free) \in DOMAIN fds
      BY <2>4, FreeLowest
    <3>2. Min(Free) \in s .. limit - 1
      BY <3>1, Bounds DEF TypeOK, s
    <3>3. TypeOK'
      BY <2>1, <2>2, <2>4, <3>1, <3>2 DEF Accepted, TypeOK, clients
    <3>4. Placed' /\ Watched'
      BY <2>1, <2>2, <2>4, <3>1, EchoAssumption
      DEF Accepted, TypeOK, Placed, Watched, clients
    <3> QED BY <3>3, <3>4
  <2> QED BY <1>1, <2>3, <2>4 DEF AcceptOne
<1>2. CASE RecvOne
  <2>1. d \in DOMAIN fds /\ fds[d] \in Clients /\ program = "single"
    BY <1>2 DEF RecvOne, Placed, TypeOK
  <2>2. buf' \in Seq(Message) /\ inbox' \in [Clients -> Seq(Message)]
    <3>1. CASE \E n \in 1 .. Len(inbox[fds[d]]) : Take(fds[d], n)
      BY <2>1, <3>1, TakeType
    <3>2. CASE buf' = <<>> /\ UNCHANGED inbox
      BY <3>2 DEF TypeOK
    <3> QED BY <1>2, <3>1, <3>2 DEF RecvOne
  <2>3. TypeOK'
    BY <1>2, <2>2 DEF RecvOne, TypeOK
  <2>4. Placed' /\ Watched'
    BY <1>2, <2>1 DEF RecvOne, Placed, Watched
  <2> QED BY <2>3, <2>4
<1> QED BY <1>1, <1>2

\* What was read goes back; then the single-client server closes the descriptor.
LEMMA SendS == ASSUME SInv, Send \/ SendFails \/ SendKilled PROVE SInv'
<1> USE DEF SInv, ServerGoto, server
<1>1. pc = "send" /\ d \in DOMAIN fds /\ fds[d] \in Clients
  BY DEF Send, SendFails, SendKilled, AfterSend, Placed, TypeOK
<1>2. CASE Send
  <2>1. /\ d' = s /\ buf' = <<>>
        /\ \/ program = "multi" /\ pc' = "scan" /\ UNCHANGED fds
           \/ program # "multi" /\ pc' = "wait" /\ fds' = [fds EXCEPT ![d] = Nobody]
        /\ UNCHANGED <<program, limit, si, rfd, dsize, ready, backlog, client, sent, inbox, echoed>>
    BY <1>2 DEF Send, AfterSend
  <2>2. outbox' \in [Clients -> Seq(Message)] /\ reset' \in [Clients -> BOOLEAN]
    <3>1. CASE client[fds[d]] = "left"
      BY <1>2, <3>1 DEF Send, TypeOK
    <3>2. CASE client[fds[d]] # "left"
      <4>1. outbox[fds[d]] \o buf \in Seq(Message)
        BY <1>1, ConcatProperties DEF TypeOK
      <4>2. outbox' = [outbox EXCEPT ![fds[d]] = outbox[fds[d]] \o buf] /\ UNCHANGED reset
        BY <1>2, <3>2 DEF Send
      <4> QED BY <4>1, <4>2 DEF TypeOK
    <3> QED BY <3>1, <3>2
  <2>3. s \in s .. limit - 1 /\ <<>> \in Seq(Message)
    BY Bounds DEF s
  <2>4. TypeOK'
    BY <2>1, <2>2, <2>3, EchoAssumption DEF TypeOK
  <2>5. Placed' /\ Watched'
    BY <1>1, <2>1 DEF Placed, Watched, TypeOK, dtsize
  <2> QED BY <2>4, <2>5
<1>3. CASE SendKilled
  BY <1>3 DEF SendKilled, TypeOK, Placed, Watched, loop, clients
<1>4. CASE SendFails
  <2>1. /\ d' = s /\ buf' = <<>>
        /\ \/ program = "multi" /\ pc' = "scan" /\ UNCHANGED fds
           \/ program # "multi" /\ pc' = "wait" /\ fds' = [fds EXCEPT ![d] = Nobody]
        /\ UNCHANGED <<program, limit, si, rfd, dsize, ready, backlog, clients>>
    BY <1>4 DEF SendFails, AfterSend
  <2>2. s \in s .. limit - 1 /\ <<>> \in Seq(Message)
    BY Bounds DEF s
  <2>3. TypeOK'
    BY <2>1, <2>2, EchoAssumption DEF TypeOK, clients
  <2>4. Placed' /\ Watched'
    BY <1>1, <2>1 DEF Placed, Watched, TypeOK, dtsize
  <2> QED BY <2>3, <2>4
<1> QED BY <1>2, <1>3, <1>4

(* The clients' steps leave alone what the server holds.                       *)
LEMMA ClientS == ASSUME SInv, NEW c \in Clients, ClientStep(c) PROVE SInv'
<1> USE DEF SInv, server, loop
<1>1. UNCHANGED <<program, limit, pc, si, rfd, dsize, ready, d, buf, fds>>
  BY DEF ClientStep, Connect, ClientSend, ClientReceive, Leave
<1>2. Watched'
  BY <1>1 DEF Watched, dtsize
<1>3. CASE Connect(c)
  <2>1. Append(backlog, c) \in Seq(Clients) /\ Append(backlog, c) # <<>>
    <3>1. backlog \in Seq(Clients)
      BY DEF TypeOK
    <3> QED BY <3>1, AppendProperties
  <2>2. TypeOK' /\ Placed'
    BY <1>1, <1>3, <2>1 DEF Connect, TypeOK, Placed
  <2> QED BY <1>2, <2>2
<1>4. CASE ClientSend(c)
  <2>1. sent' \in [Clients -> Nat] /\ \A x \in Clients : sent'[x] <= Messages[x]
    <3>1. sent[c] \in Nat /\ Messages[c] \in Nat /\ sent[c] < Messages[c]
      BY <1>4, EchoAssumption DEF ClientSend, TypeOK
    <3>2. sent[c] + 1 \in Nat /\ sent[c] + 1 <= Messages[c]
      BY <3>1
    <3> QED BY <1>4, <3>2 DEF ClientSend, TypeOK
  <2>2. inbox' \in [Clients -> Seq(Message)]
    <3>1. <<c, sent[c] + 1>> \in Message /\ inbox[c] \in Seq(Message)
      BY DEF TypeOK, Message
    <3>2. Append(inbox[c], <<c, sent[c] + 1>>) \in Seq(Message)
      BY <3>1, AppendProperties
    <3> QED BY <1>4, <3>2 DEF ClientSend, TypeOK
  <2>3. TypeOK' /\ Placed'
    BY <1>1, <1>4, <2>1, <2>2 DEF ClientSend, TypeOK, Placed
  <2> QED BY <1>2, <2>3
<1>5. CASE ClientReceive(c)
  <2>1. Head(outbox[c]) \in Message /\ Tail(outbox[c]) \in Seq(Message)
    BY <1>5, HeadTailProperties DEF ClientReceive, TypeOK
  <2>2. Append(echoed[c], Head(outbox[c])) \in Seq(Message)
    BY <2>1, AppendProperties DEF TypeOK
  <2>3. TypeOK' /\ Placed'
    BY <1>1, <1>5, <2>1, <2>2 DEF ClientReceive, TypeOK, Placed
  <2> QED BY <1>2, <2>3
<1>6. CASE Leave(c)
  <2>1. <<>> \in Seq(Message)
    OBVIOUS
  <2>2. TypeOK' /\ Placed'
    BY <1>1, <1>6, <2>1 DEF Leave, TypeOK, Placed
  <2> QED BY <1>2, <2>2
<1> QED BY <1>3, <1>4, <1>5, <1>6 DEF ClientStep

LEMMA NextS == SInv /\ [Next]_vars => SInv'
<1> SUFFICES ASSUME SInv, [Next]_vars PROVE SInv'
  OBVIOUS
<1>1. CASE Server
  BY <1>1, StartS, SelectS, AcceptS, RecvS, RecvEndS, SingleS, SendS DEF Server
<1>2. CASE \E c \in Clients : ClientStep(c)
  BY <1>2, ClientS
<1>3. CASE UNCHANGED vars
  BY <1>3 DEF vars, server, loop, clients, SInv, TypeOK, Placed, Watched, dtsize
<1> QED BY <1>1, <1>2, <1>3 DEF Next, Quiet

\* WatchedExactly: whenever the multi-client server waits in select(2), its set holds the
\* listening socket and exactly the sockets of its clients, none of them beyond dsize or
\* beyond the fd_set, for any number of clients and any table of descriptors.
THEOREM WatchesItsClients == Spec => []WatchedExactly
<1>1. SInv => WatchedExactly
  BY DEF SInv, Watched, WatchedExactly
<1> QED BY <1>1, InitS, NextS, PTL DEF Spec
-------------------------------------------------------------------------------
(* What a client gets back.                                                    *)

\* A client that has not connected has left no trace.
Untouched(c) ==
  client[c] = "idle" =>
    /\ ~Open(c) /\ sent[c] = 0
    /\ inbox[c] = <<>> /\ outbox[c] = <<>> /\ echoed[c] = <<>>

\* Only the host of a client that has left refuses data.
Refused(c) == reset[c] => client[c] = "left"

\* What has come back or is on its way is the beginning of what was sent.
Beginning(c) ==
  \E rest \in Seq(Message) : (echoed[c] \o outbox[c]) \o rest = AllOf(c)

\* Between a client and the server nothing is lost, doubled or turned round.
Whole(c) ==
  Open(c) /\ client[c] = "connected" =>
    ((echoed[c] \o outbox[c]) \o Held(c)) \o inbox[c] = AllOf(c)

Echoes(c) == Untouched(c) /\ Refused(c) /\ Beginning(c) /\ Whole(c)

IInv == SInv /\ \A c \in Clients : Echoes(c)

\* What is in a queue.
LEMMA InQueue ==
  ASSUME NEW S, NEW q \in Seq(S)
  PROVE  /\ q # <<>> => Head(q) \in ToSet(q) /\ ToSet(Tail(q)) \subseteq ToSet(q)
         /\ \A x \in S : ToSet(Append(q, x)) = ToSet(q) \union {x}
         /\ ToSet(<<>>) = {}
<1>1. DOMAIN q = 1 .. Len(q) /\ Len(q) \in Nat
  OBVIOUS
<1>2. ASSUME q # <<>> PROVE Head(q) \in ToSet(q) /\ ToSet(Tail(q)) \subseteq ToSet(q)
  <2>1. Head(q) = q[1] /\ 1 \in 1 .. Len(q)
    BY <1>2
  <2>2. DOMAIN Tail(q) = 1 .. Len(q) - 1
    BY <1>2
  <2>3. \A i \in 1 .. Len(q) - 1 : Tail(q)[i] = q[i + 1] /\ i + 1 \in 1 .. Len(q)
    BY <1>2
  <2> QED BY <1>1, <2>1, <2>2, <2>3 DEF ToSet
<1>3. ASSUME NEW x \in S PROVE ToSet(Append(q, x)) = ToSet(q) \union {x}
  <2>1. DOMAIN Append(q, x) = 1 .. Len(q) + 1
    OBVIOUS
  <2>2. \A i \in 1 .. Len(q) : Append(q, x)[i] = q[i] /\ i \in 1 .. Len(q) + 1
    OBVIOUS
  <2>3. Append(q, x)[Len(q) + 1] = x /\ Len(q) + 1 \in 1 .. Len(q) + 1
    OBVIOUS
  <2>4. \A i \in 1 .. Len(q) + 1 : i \in 1 .. Len(q) \/ i = Len(q) + 1
    BY <1>1
  <2> QED BY <1>1, <2>1, <2>2, <2>3, <2>4 DEF ToSet
<1>4. ToSet(<<>>) = {}
  BY DEF ToSet
<1> QED BY <1>2, <1>3, <1>4

\* What was held moves to the end of what is on its way.
LEMMA Moved ==
  ASSUME NEW S, NEW e \in Seq(S), NEW o \in Seq(S), NEW b \in Seq(S)
  PROVE  /\ e \o (o \o b) = (e \o o) \o b
         /\ (e \o (o \o b)) \o <<>> = (e \o o) \o b
         /\ (e \o o) \o b \in Seq(S)
<1>1. e \o (o \o b) = (e \o o) \o b
  BY ConcatAssociative
<1>2. e \o o \in Seq(S) /\ (e \o o) \o b \in Seq(S)
  BY ConcatProperties
<1> QED BY <1>1, <1>2, ConcatEmptySeq

\* The first of what is on its way becomes the last of what has come.
LEMMA PassedOn ==
  ASSUME NEW S, NEW e \in Seq(S), NEW o \in Seq(S), o # <<>>
  PROVE  Append(e, Head(o)) \o Tail(o) = e \o o
<1>1. Head(o) \in S /\ Tail(o) \in Seq(S)
  BY HeadTailProperties
<1>2. <<Head(o)>> \in Seq(S) /\ o = <<Head(o)>> \o Tail(o)
  BY <1>1
<1>3. Append(e, Head(o)) = e \o <<Head(o)>>
  BY <1>1, AppendIsConcat
<1> QED BY <1>1, <1>2, <1>3, ConcatAssociative

\* What is appended to the end of two sequences.
LEMMA AtTheEnd ==
  ASSUME NEW S, NEW e \in Seq(S), NEW i \in Seq(S), NEW m \in S
  PROVE  e \o Append(i, m) = Append(e \o i, m)
<1>1. <<m>> \in Seq(S) /\ e \o i \in Seq(S)
  BY ConcatProperties
<1>2. Append(i, m) = i \o <<m>> /\ Append(e \o i, m) = (e \o i) \o <<m>>
  BY <1>1, AppendIsConcat
<1> QED BY <1>1, <1>2, ConcatAssociative

\* The first of two sequences is a prefix of both together.
LEMMA FirstIsPrefix ==
  ASSUME NEW S, NEW e \in Seq(S), NEW r \in Seq(S)
  PROVE  IsPrefix(e, e \o r)
<1>1. Len(e) \in Nat /\ Len(e) <= Len(e \o r)
  BY ConcatProperties
<1>2. CASE Len(e) = 0
  BY <1>1, <1>2, SubSeqEmpty DEF IsPrefix
<1>3. CASE Len(e) # 0
  <2>1. 1 \in 1 .. Len(e) /\ Len(e) \in 1 .. Len(e)
    BY <1>1, <1>3
  <2> QED BY <1>1, <2>1, SubSeqOfConcat1 DEF IsPrefix
<1> QED BY <1>2, <1>3

\* All that was sent, and one message more.
LEMMA AllOfIsSeq ==
  ASSUME TypeOK, NEW c \in Clients
  PROVE  /\ AllOf(c) \in Seq(Message)
         /\ sent[c] = 0 => AllOf(c) = <<>>
<1>1. sent[c] \in Nat /\ \A k \in 1 .. sent[c] : <<c, k>> \in Message
  BY DEF TypeOK, Message
<1>2. AllOf(c) \in [1 .. sent[c] -> Message]
  BY <1>1 DEF AllOf
<1> QED BY <1>1, <1>2, SeqDef DEF AllOf

LEMMA OneMore ==
  ASSUME TypeOK, TypeOK', NEW c \in Clients, sent' = [sent EXCEPT ![c] = @ + 1]
  PROVE  AllOf(c)' = Append(AllOf(c), <<c, sent[c] + 1>>)
<1> DEFINE n == sent[c]
           a == Append(AllOf(c), <<c, n + 1>>)
<1>1. n \in Nat /\ sent'[c] = n + 1 /\ <<c, n + 1>> \in Message
  BY DEF TypeOK, Message
<1>2. /\ AllOf(c) \in Seq(Message) /\ Len(AllOf(c)) = n
      /\ \A k \in 1 .. n : AllOf(c)[k] = <<c, k>>
  BY <1>1, AllOfIsSeq DEF AllOf
<1>3. AllOf(c)' = [k \in 1 .. n + 1 |-> <<c, k>>]
  BY <1>1 DEF AllOf
<1> HIDE DEF n
<1>4. /\ a \in Seq(Message) /\ Len(a) = n + 1
      /\ \A k \in 1 .. n : a[k] = <<c, k>>
      /\ a[n + 1] = <<c, n + 1>>
  BY <1>1, <1>2, AppendProperties
<1>5. DOMAIN a = 1 .. n + 1 /\ a = [k \in 1 .. n + 1 |-> a[k]]
  BY <1>4
<1> HIDE DEF a
<1>6. \A k \in 1 .. n + 1 : a[k] = <<c, k>>
  BY <1>1, <1>4
<1> QED BY <1>3, <1>5, <1>6 DEF a, n
LEMMA InitE == Init => \A c \in Clients : Echoes(c)
<1> SUFFICES ASSUME Init, NEW c \in Clients PROVE Echoes(c)
  OBVIOUS
<1>1. TypeOK
  BY InitS DEF SInv
<1>2. /\ client[c] = "idle" /\ sent[c] = 0 /\ inbox[c] = <<>> /\ ~reset[c]
      /\ outbox[c] = <<>> /\ echoed[c] = <<>>
  BY DEF Init
<1>3. ~Open(c)
  <2>1. c \notin ToSet(backlog)
    BY DEF Init, ToSet
  <2>2. \A f \in DOMAIN fds : fds[f] # c
    BY EchoAssumption DEF Init
  <2> QED BY <2>1, <2>2 DEF Open
<1>4. Beginning(c)
  <2>1. <<>> \in Seq(Message) /\ (<<>> \o <<>>) \o <<>> = <<>>
    BY ConcatEmptySeq
  <2> QED BY <1>1, <1>2, <2>1, AllOfIsSeq DEF Beginning
<1> QED BY <1>2, <1>3, <1>4 DEF Echoes, Untouched, Refused, Whole

\* What a step leaves alone for c.
LEMMA Kept ==
  ASSUME NEW c \in Clients, Echoes(c), Open(c)' => Open(c), Held(c)' = Held(c),
         client'[c] = client[c], sent'[c] = sent[c], inbox'[c] = inbox[c],
         outbox'[c] = outbox[c], echoed'[c] = echoed[c], reset'[c] = reset[c]
  PROVE  Echoes(c)'
<1>1. AllOf(c)' = AllOf(c)
  BY DEF AllOf
<1>2. Untouched(c)' /\ Refused(c)'
  BY DEF Echoes, Untouched, Refused
<1>3. Beginning(c)' /\ Whole(c)'
  BY <1>1 DEF Echoes, Beginning, Whole
<1> QED BY <1>2, <1>3 DEF Echoes

\* What was read is held: it has left the one side and not yet reached the other.
LEMMA TakenKeeps ==
  ASSUME SInv, NEW c \in Clients, Echoes(c), NEW x \in Clients,
         NEW n \in 1 .. Len(inbox[x]), Take(x, n),
         pc # "send", pc' = "send", fds'[d'] = x,
         UNCHANGED <<fds, backlog, client, sent, outbox, echoed, reset>>
  PROVE  Echoes(c)'
<1>1. /\ buf' \in Seq(Message) /\ inbox' \in [Clients -> Seq(Message)]
      /\ inbox' = [inbox EXCEPT ![x] = inbox'[x]] /\ buf' \o inbox'[x] = inbox[x]
  BY TakeType DEF SInv
<1>2. Held(c) = <<>> /\ (Open(c)' <=> Open(c))
  BY DEF Held, Open
<1>3. CASE c # x
  <2>1. inbox'[c] = inbox[c] /\ Held(c)' = <<>>
    BY <1>1, <1>3 DEF Held, SInv, TypeOK
  <2> QED BY <1>2, <2>1, Kept
<1>4. CASE c = x
  <2>1. Held(c)' = buf'
    BY <1>4 DEF Held
  <2>2. AllOf(c)' = AllOf(c)
    BY DEF AllOf
  <2> DEFINE o == echoed[c] \o outbox[c]
  <2>3. /\ o \in Seq(Message) /\ inbox[c] \in Seq(Message)
        /\ buf' \in Seq(Message) /\ inbox'[c] \in Seq(Message)
    BY <1>1, ConcatProperties DEF SInv, TypeOK
  <2>4. ((o \o Held(c)) \o inbox[c]) = (o \o buf') \o inbox'[c]
    <3>1. o \o Held(c) = o
      BY <1>2, <2>3, ConcatEmptySeq
    <3>2. inbox[c] = buf' \o inbox'[c]
      BY <1>1, <1>4
    <3>3. o \o (buf' \o inbox'[c]) = (o \o buf') \o inbox'[c]
      <4> DEFINE b == buf'
                 i == inbox'[c]
      <4>1. o \in Seq(Message) /\ b \in Seq(Message) /\ i \in Seq(Message)
        BY <2>3
      <4> HIDE DEF o, b, i
      <4>2. o \o (b \o i) = (o \o b) \o i
        BY <4>1, ConcatAssociative
      <4> QED BY <4>2 DEF b, i
    <3> QED BY <3>1, <3>2, <3>3
  <2>5. Whole(c)'
    BY <1>2, <2>1, <2>2, <2>4 DEF Echoes, Whole
  <2>6. Beginning(c)' /\ Refused(c)'
    BY <2>2 DEF Echoes, Beginning, Refused
  <2>7. client[c] # "idle"
    <3>1. inbox[c] # <<>>
      BY <1>4, <2>3
    <3> QED BY <3>1 DEF Echoes, Untouched
  <2>8. Untouched(c)'
    BY <2>7 DEF Untouched
  <2> QED BY <2>5, <2>6, <2>8 DEF Echoes
<1> QED BY <1>3, <1>4

\* A connection that is accepted is only moved, one that is closed is gone.
LEMMA OpenKeeps ==
  ASSUME SInv, NEW c \in Clients, Echoes(c),
         Address \/ NoAddress \/ Listen \/ ListenFails \/ Select \/ ScanEnd
           \/ Accept \/ RecvEnd \/ AcceptOne
  PROVE  Echoes(c)'
<1> USE DEF ServerGoto, loop
<1>1. pc # "send" /\ pc' # "send" /\ UNCHANGED clients
  BY DEF Address, NoAddress, Listen, ListenFails, Select, ScanEnd, Accept, RecvEnd, AcceptOne
<1>2. Held(c) = <<>> /\ Held(c)' = <<>>
  BY <1>1 DEF Held
<1>3. Open(c)' => Open(c)
  <2>1. CASE Address \/ NoAddress \/ Listen \/ ListenFails \/ Select \/ ScanEnd
    BY <2>1 DEF Address, NoAddress, Listen, ListenFails, Select, ScanEnd, Open
  <2>6. ASSUME backlog # <<>>, AcceptFails
        PROVE  Open(c)' => Open(c)
    <3>1. ToSet(backlog') \subseteq ToSet(backlog) /\ UNCHANGED fds
      BY <2>6, InQueue DEF AcceptFails, SInv, TypeOK
    <3> QED BY <3>1 DEF Open
  <2>2. ASSUME backlog # <<>>, backlog' = Tail(backlog),
               \/ UNCHANGED fds
               \/ \E f \in DOMAIN fds : fds' = [fds EXCEPT ![f] = Head(backlog)]
        PROVE  Open(c)' => Open(c)
    <3>1. Head(backlog) \in ToSet(backlog) /\ ToSet(backlog') \subseteq ToSet(backlog)
      BY <2>2, InQueue DEF SInv, TypeOK
    <3> QED BY <2>2, <3>1 DEF Open, SInv, TypeOK
  <2>3. CASE Accept
    <3>1. backlog # <<>>
      BY <2>3, Waiting
    <3>2. CASE AcceptFails
      BY <2>6, <3>1, <3>2
    <3>3. CASE ~AcceptFails
      <4>1. Min(Free) \in DOMAIN fds
        BY <2>3, <3>3, FreeLowest DEF Accept, SInv
      <4>2. /\ backlog' = Tail(backlog)
            /\ UNCHANGED fds \/ fds' = [fds EXCEPT ![Min(Free)] = Head(backlog)]
        BY <2>3, <3>3 DEF Accept, Accepted
      <4> QED BY <2>2, <3>1, <4>1, <4>2
    <3> QED BY <3>2, <3>3
  <2>4. CASE AcceptOne
    <3>1. backlog # <<>>
      BY <2>4 DEF AcceptOne
    <3>2. CASE AcceptFails
      BY <2>6, <3>1, <3>2
    <3>3. CASE ~AcceptFails
      <4>1. Min(Free) \in DOMAIN fds
        BY <2>4, <3>3, FreeLowest DEF SInv, AcceptOne
      <4> QED BY <2>2, <2>4, <3>1, <3>3, <4>1 DEF AcceptOne, Accepted
    <3> QED BY <3>2, <3>3
  <2>5. CASE RecvEnd
    <3>1. /\ backlog' = backlog /\ fds' = [fds EXCEPT ![Min(ready)] = Nobody]
      BY <2>5 DEF RecvEnd
    <3> QED BY <3>1, EchoAssumption DEF Open, SInv, TypeOK
  <2> QED BY <2>1, <2>3, <2>4, <2>5
<1> QED BY <1>1, <1>2, <1>3, Kept DEF clients

LEMMA RecvKeeps ==
  ASSUME SInv, NEW c \in Clients, Echoes(c), Recv \/ RecvOne
  PROVE  Echoes(c)'
<1> USE DEF ServerGoto
<1>1. CASE Recv
  <2>1. pc = "scan" /\ pc' = "send" /\ ready # {} /\ Min(ready) # s /\ d' = Min(ready)
    BY <1>1 DEF Recv
  <2>2. fds[d'] \in Clients
    BY <2>1, ReadyClient
  <2>3. PICK n \in 1 .. Len(inbox[fds[d']]) : Take(fds[d'], n)
    BY <1>1 DEF Recv
  <2>4. UNCHANGED <<fds, backlog, client, sent, outbox, echoed, reset>>
    BY <1>1 DEF Recv
  <2> QED BY <2>1, <2>2, <2>3, <2>4, TakenKeeps
<1>2. CASE RecvOne
  <2>1. pc = "recv" /\ pc' = "send" /\ d' = d
    BY <1>2 DEF RecvOne
  <2>2. fds[d] \in Clients
    BY <2>1 DEF SInv, Placed, TypeOK
  <2>3. UNCHANGED <<fds, backlog, client, sent, outbox, echoed, reset>>
    BY <1>2 DEF RecvOne
  <2>4. CASE \E n \in 1 .. Len(inbox[fds[d]]) : Take(fds[d], n)
    BY <2>1, <2>2, <2>3, <2>4, TakenKeeps
  <2>5. CASE buf' = <<>> /\ UNCHANGED inbox
    <3>1. Held(c) = <<>> /\ Held(c)' = <<>> /\ (Open(c)' <=> Open(c))
      BY <2>1, <2>3, <2>5 DEF Held, Open
    <3> QED BY <2>3, <2>5, <3>1, Kept
  <2> QED BY <1>2, <2>4, <2>5 DEF RecvOne
<1> QED BY <1>1, <1>2
\* What was held goes to the client.
LEMMA SendKeeps ==
  ASSUME SInv, NEW c \in Clients, Echoes(c), Send \/ SendFails \/ SendKilled
  PROVE  Echoes(c)'
<1> USE DEF ServerGoto
<1>1. pc = "send" /\ d \in DOMAIN fds /\ fds[d] \in Clients /\ pc' # "send"
  BY DEF Send, SendFails, SendKilled, AfterSend, SInv, Placed, TypeOK
<1>2. Held(c)' = <<>>
  BY <1>1 DEF Held
<1>3. UNCHANGED <<backlog, client, sent, inbox, echoed>>
  BY DEF Send, SendFails, SendKilled, clients
<1>4. Open(c)' => Open(c)
  <2>1. UNCHANGED fds \/ fds' = [fds EXCEPT ![d] = Nobody]
    BY DEF Send, SendFails, SendKilled, AfterSend
  <2> QED BY <1>3, <2>1, EchoAssumption DEF Open, SInv, TypeOK
<1>5. CASE fds[d] # c
  <2>1. Held(c) = <<>> /\ outbox'[c] = outbox[c] /\ reset'[c] = reset[c]
    BY <1>1, <1>5 DEF Held, Send, SendFails, SendKilled, clients, SInv, TypeOK
  <2> QED BY <1>2, <1>3, <1>4, <2>1, Kept
<1>6. CASE fds[d] = c
  <2>1. Open(c) /\ Held(c) = buf
    BY <1>1, <1>6 DEF Open, Held
  <2>2. AllOf(c)' = AllOf(c) /\ client[c] # "idle"
    BY <1>3, <2>1 DEF AllOf, Echoes, Untouched
  <2>3. CASE client[c] = "left"
    <3>1. outbox' = outbox
      BY <1>6, <2>3 DEF Send, SendFails, SendKilled, clients
    <3> QED BY <1>3, <2>2, <2>3, <3>1 DEF Echoes, Untouched, Refused, Beginning, Whole
  <2>4. CASE client[c] # "left"
    <3>1. client[c] = "connected" /\ ~reset[c]
      BY <2>2, <2>4 DEF Echoes, Refused, SInv, TypeOK
    <3>2. outbox'[c] = outbox[c] \o buf /\ reset' = reset
      BY <1>6, <2>4, <3>1 DEF Send, SendFails, SendKilled, SInv, TypeOK
    <3> DEFINE o == echoed[c] \o outbox[c]
    <3>3. (o \o buf) \o inbox[c] = AllOf(c) /\ inbox[c] \in Seq(Message)
      BY <2>1, <3>1 DEF Echoes, Whole, SInv, TypeOK
    <3>4. /\ echoed[c] \o (outbox[c] \o buf) = o \o buf
          /\ (echoed[c] \o (outbox[c] \o buf)) \o <<>> = o \o buf
      <4> DEFINE e == echoed[c]
                 w == outbox[c]
      <4>1. e \in Seq(Message) /\ w \in Seq(Message) /\ buf \in Seq(Message)
        BY DEF SInv, TypeOK
      <4> HIDE DEF e, w
      <4>2. e \o (w \o buf) = (e \o w) \o buf /\ (e \o (w \o buf)) \o <<>> = (e \o w) \o buf
        BY <4>1, Moved
      <4> QED BY <4>2 DEF e, w
    <3>5. Beginning(c)' /\ Whole(c)'
      BY <1>2, <1>3, <2>2, <3>2, <3>3, <3>4 DEF Beginning, Whole
    <3>6. Untouched(c)' /\ Refused(c)'
      BY <1>3, <3>1, <3>2 DEF Untouched, Refused
    <3> QED BY <3>5, <3>6 DEF Echoes
  <2> QED BY <2>3, <2>4
<1> QED BY <1>5, <1>6

\* What another client does.
LEMMA OthersKeep ==
  ASSUME SInv, NEW c \in Clients, Echoes(c), NEW x \in Clients, x # c, ClientStep(x)
  PROVE  Echoes(c)'
<1>1. UNCHANGED <<pc, d, buf, fds>>
  BY DEF ClientStep, Connect, ClientSend, ClientReceive, Leave, loop
<1>2. Held(c)' = Held(c)
  BY <1>1 DEF Held
<1>3. Open(c)' => Open(c)
  <2>1. backlog' = backlog \/ backlog' = Append(backlog, x)
    BY DEF ClientStep, Connect, ClientSend, ClientReceive, Leave
  <2>2. ToSet(backlog') \subseteq ToSet(backlog) \union {x}
    <3>1. backlog \in Seq(Clients)
      BY DEF SInv, TypeOK
    <3>2. ToSet(Append(backlog, x)) = ToSet(backlog) \union {x}
      BY <3>1, InQueue
    <3> QED BY <2>1, <3>2
  <2> QED BY <1>1, <2>2 DEF Open
<1>4. /\ client'[c] = client[c] /\ sent'[c] = sent[c] /\ inbox'[c] = inbox[c]
      /\ outbox'[c] = outbox[c] /\ echoed'[c] = echoed[c] /\ reset'[c] = reset[c]
  BY DEF ClientStep, Connect, ClientSend, ClientReceive, Leave, SInv, TypeOK
<1> QED BY <1>2, <1>3, <1>4, Kept

\* What a client does itself.
LEMMA OwnKeeps ==
  ASSUME SInv, SInv', NEW c \in Clients, Echoes(c), ClientStep(c)
  PROVE  Echoes(c)'
<1> DEFINE e == echoed[c]
           o == outbox[c]
           i == inbox[c]
<1>1. /\ UNCHANGED <<pc, d, buf, fds>> /\ Held(c)' = Held(c)
      /\ e \in Seq(Message) /\ o \in Seq(Message) /\ i \in Seq(Message)
  BY DEF ClientStep, Connect, ClientSend, ClientReceive, Leave, loop, Held, SInv, TypeOK
<1>2. Held(c) \in Seq(Message) /\ e \o o \in Seq(Message)
  BY <1>1, ConcatProperties DEF Held, SInv, TypeOK
<1>3. CASE Connect(c)
  <2>1. /\ ~Open(c) /\ sent[c] = 0 /\ i = <<>> /\ o = <<>> /\ e = <<>>
        /\ client'[c] = "connected" /\ UNCHANGED <<sent, inbox, outbox, echoed, reset>>
    BY <1>3 DEF Connect, Echoes, Untouched, SInv, TypeOK
  <2>2. Held(c)' = <<>>
    BY <1>1, <2>1 DEF Held, Open, SInv, Placed
  <2>3. AllOf(c)' = <<>>
    BY <2>1, AllOfIsSeq DEF SInv, AllOf
  <2>4. <<>> \in Seq(Message) /\ (<<>> \o <<>>) \o <<>> = <<>>
    BY ConcatEmptySeq
  <2>5. echoed'[c] = <<>> /\ outbox'[c] = <<>> /\ inbox'[c] = <<>>
    BY <2>1
  <2>6. Beginning(c)'
    BY <2>3, <2>4, <2>5 DEF Beginning
  <2>7. Whole(c)'
    <3>1. ((<<>> \o <<>>) \o <<>>) \o <<>> = <<>>
      BY <2>4
    <3> QED BY <2>2, <2>3, <2>5, <3>1 DEF Whole
  <2>8. Untouched(c)' /\ Refused(c)'
    BY <1>3, <2>1 DEF Connect, Echoes, Untouched, Refused
  <2> QED BY <2>6, <2>7, <2>8 DEF Echoes
<1>4. CASE ClientSend(c)
  <2> DEFINE m == <<c, sent[c] + 1>>
  <2>1. m \in Message /\ AllOf(c)' = Append(AllOf(c), m)
    BY <1>4, OneMore DEF ClientSend, SInv, TypeOK, Message
  <2>2. /\ client[c] = "connected" /\ UNCHANGED <<client, backlog, echoed, outbox, reset>>
        /\ Open(c) => inbox'[c] = Append(i, m)
    BY <1>4 DEF ClientSend, SInv, TypeOK
  <2>3. Open(c)' => Open(c)
    BY <1>1, <2>2 DEF Open
  <2> HIDE DEF m, e, o, i
  <2>4. Beginning(c)'
    <3>1. PICK rest \in Seq(Message) : (e \o o) \o rest = AllOf(c)
      BY DEF Echoes, Beginning, e, o
    <3>2. Append(rest, m) \in Seq(Message) /\ (e \o o) \o Append(rest, m) = AllOf(c)'
      BY <1>2, <2>1, <3>1, AtTheEnd, AppendProperties
    <3> QED BY <2>2, <3>2 DEF Beginning, e, o
  <2>5. Whole(c)'
    <3>1. SUFFICES ASSUME Open(c) PROVE Whole(c)'
      BY <2>3 DEF Whole
    <3>2. ((e \o o) \o Held(c)) \o i = AllOf(c)
      BY <2>2, <3>1 DEF Echoes, Whole, e, o, i
    <3>3. (e \o o) \o Held(c) \in Seq(Message)
      BY <1>2, ConcatProperties
    <3>4. ((e \o o) \o Held(c)) \o Append(i, m) = AllOf(c)'
      <4> DEFINE w == (e \o o) \o Held(c)
      <4>1. i \in Seq(Message) /\ w \in Seq(Message)
        BY <1>1, <3>3 DEF i
      <4> HIDE DEF w
      <4>2. w \o Append(i, m) = Append(w \o i, m)
        BY <2>1, <4>1, AtTheEnd
      <4> QED BY <2>1, <3>2, <4>2 DEF w
    <3> QED BY <1>1, <2>2, <3>1, <3>4 DEF Whole, e, o, i
  <2>6. Untouched(c)' /\ Refused(c)'
    BY <2>2 DEF Echoes, Untouched, Refused
  <2> QED BY <2>4, <2>5, <2>6 DEF Echoes
<1>5. CASE ClientReceive(c)
  <2>1. /\ client[c] = "connected" /\ o # <<>>
        /\ echoed'[c] = Append(e, Head(o)) /\ outbox'[c] = Tail(o)
        /\ UNCHANGED <<client, backlog, sent, inbox, reset>>
    BY <1>5 DEF ClientReceive, SInv, TypeOK
  <2>2. echoed'[c] \o outbox'[c] = e \o o
    BY <1>1, <2>1, PassedOn
  <2>3. AllOf(c)' = AllOf(c) /\ (Open(c)' <=> Open(c))
    BY <1>1, <2>1 DEF AllOf, Open
  <2>4. Beginning(c)' /\ Whole(c)'
    BY <1>1, <2>1, <2>2, <2>3 DEF Echoes, Beginning, Whole
  <2>5. Untouched(c)' /\ Refused(c)'
    BY <2>1 DEF Echoes, Untouched, Refused
  <2> QED BY <2>4, <2>5 DEF Echoes
<1>6. CASE Leave(c)
  <2>1. client'[c] = "left" /\ outbox'[c] = <<>> /\ UNCHANGED <<sent, echoed>>
    BY <1>6 DEF Leave, SInv, TypeOK
  <2>2. AllOf(c)' = AllOf(c)
    BY <2>1 DEF AllOf
  <2>3. Beginning(c)'
    <3>1. PICK rest \in Seq(Message) : (e \o o) \o rest = AllOf(c)
      BY DEF Echoes, Beginning
    <3>2. o \o rest \in Seq(Message) /\ (e \o <<>>) \o (o \o rest) = AllOf(c)
      <4> HIDE DEF e, o
      <4>1. (e \o o) \o rest = e \o (o \o rest) /\ o \o rest \in Seq(Message)
        BY <1>1, ConcatAssociative, ConcatProperties
      <4>2. e \o <<>> = e
        BY <1>1, ConcatEmptySeq
      <4> QED BY <3>1, <4>1, <4>2
    <3> QED BY <2>1, <2>2, <3>2 DEF Beginning
  <2>4. Untouched(c)' /\ Refused(c)' /\ Whole(c)'
    BY <2>1 DEF Untouched, Refused, Whole
  <2> QED BY <2>3, <2>4 DEF Echoes
<1> QED BY <1>3, <1>4, <1>5, <1>6 DEF ClientStep

LEMMA NextE == IInv /\ [Next]_vars => IInv'
<1> SUFFICES ASSUME IInv, [Next]_vars PROVE IInv'
  OBVIOUS
<1>1. SInv /\ SInv'
  BY NextS DEF IInv
<1>2. ASSUME NEW c \in Clients PROVE Echoes(c)'
  <2>1. Echoes(c)
    BY DEF IInv
  <2>2. CASE Server
    BY <1>1, <2>1, <2>2, OpenKeeps, RecvKeeps, SendKeeps DEF Server
  <2>3. CASE \E x \in Clients : ClientStep(x)
    BY <1>1, <2>1, <2>3, OthersKeep, OwnKeeps
  <2>4. CASE UNCHANGED vars
    <3>1. Held(c)' = Held(c) /\ (Open(c)' <=> Open(c)) /\ UNCHANGED clients
      BY <2>4 DEF vars, loop, Held, Open
    <3> QED BY <2>1, <3>1, Kept DEF clients
  <2> QED BY <2>2, <2>3, <2>4 DEF Next, Quiet
<1> QED BY <1>1, <1>2 DEF IInv

\* OwnEcho: what a client has read is the beginning of what it has sent, and while both
\* sides are connected the rest is on its way, in order: whatever the server has read into
\* its one buffer, and whoever had the descriptor before.
THEOREM EchoesOwn == Spec => []OwnEcho
<1>1. IInv => OwnEcho
  <2> SUFFICES ASSUME IInv, NEW c \in Clients
               PROVE  /\ IsPrefix(echoed[c], AllOf(c))
                      /\ Open(c) /\ client[c] = "connected" =>
                           echoed[c] \o outbox[c] \o Held(c) \o inbox[c] = AllOf(c)
    BY DEF OwnEcho
  <2>1. PICK rest \in Seq(Message) : (echoed[c] \o outbox[c]) \o rest = AllOf(c)
    BY DEF IInv, Echoes, Beginning
  <2>2. IsPrefix(echoed[c], AllOf(c))
    <3> DEFINE e == echoed[c]
               o == outbox[c]
    <3>1. e \in Seq(Message) /\ o \in Seq(Message)
      BY DEF IInv, SInv, TypeOK
    <3>2. (e \o o) \o rest = AllOf(c)
      BY <2>1
    <3> HIDE DEF e, o
    <3>3. o \o rest \in Seq(Message) /\ e \o (o \o rest) = (e \o o) \o rest
      BY <3>1, ConcatAssociative, ConcatProperties
    <3>4. IsPrefix(e, e \o (o \o rest))
      BY <3>1, <3>3, FirstIsPrefix
    <3> QED BY <3>2, <3>3, <3>4 DEF e
  <2> QED BY <2>2 DEF IInv, Echoes, Whole
<1>2. Init => IInv
  BY InitS, InitE DEF IInv
<1> QED BY <1>1, <1>2, NextE, PTL DEF Spec
==============================================================================
