------------------------- MODULE IpcInstances_proofs --------------------------
(***************************************************************************)
(* Proofs about IpcInstances, for any number of instances, threads and     *)
(* rounds: the threads of one process exclude each other whatever the      *)
(* other instances do and whenever they are killed, and a name created     *)
(* with O_EXCL is only left behind by a process that is killed in cs_init. *)
(* About MessagesSV, whose instances share a queue of the kernel: what is  *)
(* lost when a receiver removes it.                                        *)
(***************************************************************************)
EXTENDS IpcInstances, FiniteSetTheorems, TLAPS

Creating == {"creat", "key", "excl", "mq_excl", "private"}

\* What the eight cs_init have in common: the first call, and only the first, creates or
\* opens the object; only SysV semaphores are set; a message is sent once, into a queue
\* nobody else has; and what is opened with O_EXCL is unlinked.
LEMMA CallsTable ==
  ASSUME NEW b \in DOMAIN Calls
  PROVE  /\ Len(Calls[b]) \in Nat /\ Len(Calls[b]) >= 1
         /\ \A n \in 1 .. Len(Calls[b]) :
              /\ Calls[b][n] \in Creating <=> n = 1
              /\ Calls[b][n] = "set" => b \in Undoing
              /\ Calls[b][n] = "send" =>
                   /\ b \in Private \ Undoing
                   /\ \A m \in 1 .. Len(Calls[b]) : Calls[b][m] = "send" => m = n
              /\ Calls[b][n] \in {"creat", "key"} => b \notin Private
              /\ Calls[b][n] \in {"excl", "creat", "key"} =>
                   \A m \in 1 .. Len(Calls[b]) : Calls[b][m] # "send"
              /\ Calls[b][n] \in {"excl", "mq_excl"} => b \notin Private \ Exclusive
         /\ b \in Exclusive => \E n \in 1 .. Len(Calls[b]) : Calls[b][n] = "unlink"
<1> USE DEF Calls, Creating, Undoing, Private, Exclusive
<1>1. b \in {"named", "named_excl", "named_kept", "sysv", "sysv_private",
             "mq", "mq_early", "mq_sysv"}
  OBVIOUS
<1>2. CASE b = "named"
  BY <1>2 DEF InitNamed
<1>3. CASE b = "named_excl"
  BY <1>3 DEF InitNamedExcl
<1>4. CASE b = "named_kept"
  BY <1>4 DEF InitNamedKept
<1>5. CASE b = "sysv"
  BY <1>5 DEF InitSysv
<1>6. CASE b = "sysv_private"
  BY <1>6 DEF InitSysvPrivate
<1>7. CASE b = "mq"
  BY <1>7 DEF InitMq
<1>8. CASE b = "mq_early"
  BY <1>8 DEF InitMqEarly
<1>9. CASE b = "mq_sysv"
  BY <1>9 DEF InitMqSysv
<1> QED BY <1>1, <1>2, <1>3, <1>4, <1>5, <1>6, <1>7, <1>8, <1>9

-------------------------------------------------------------------------------
Last == Len(Calls[build])

Types ==
  /\ build \in DOMAIN Calls
  /\ status \in [Proc -> {"down", "init", "run", "exit"} \cup Dead]
  /\ calls \in [Proc -> Nat]
  /\ handle \in [Proc -> Proc \cup {None}]
  /\ inside \in [Proc -> SUBSET Thread]
  /\ value \in [Proc -> Nat]
  /\ undo \in [Proc -> Int]
  /\ linked \in Proc \cup {None}

\* How far a process is, and what it has then.
Stage ==
  \A p \in Proc :
    /\ status[p] = "down" => calls[p] = 0
    /\ status[p] = "init" => calls[p] < Last /\ (calls[p] > 0 => handle[p] # None)
    /\ status[p] \in {"run", "exit"} => calls[p] = Last /\ handle[p] # None
    /\ status[p] \notin {"run", "exit"} => inside[p] = {}

\* An object in use has been created; a private one is used by its creator only.
Exists ==
  /\ \A p \in Proc : handle[p] # None => calls[handle[p]] > 0
  /\ linked # None => calls[linked] > 0
  /\ build \in Private => \A p \in Proc : handle[p] \in {None, p}
  /\ build \in Private \ Exclusive => linked = None

\* A queue is empty until its first message is sent, and only semaphores with SEM_UNDO
\* are adjusted.
Before ==
  /\ \A p \in Proc : \A n \in calls[p] + 1 .. Last : Calls[build][n] = "send" => value[p] = 0
  /\ build \notin Undoing => \A p \in Proc : undo[p] = 0

\* The token of an object in use, or that can be opened: there is at most one, and none while a thread is inside,
\* of all the threads of all the processes that share it.
Token ==
  build # "sysv" =>
    /\ \A p \in Proc : handle[p] # None => value[handle[p]] <= 1
    /\ linked # None => value[linked] <= 1
    /\ \A p, q \in Proc : \A t \in inside[p] :
         handle[p] # None /\ handle[q] = handle[p] =>
           value[handle[p]] = 0 /\ \A u \in inside[q] : q = p /\ u = t

IInv == Types /\ Stage /\ Exists /\ Before /\ Token /\ NameWindow
LEMMA InitI == Init => IInv
<1> SUFFICES ASSUME Init PROVE IInv
  OBVIOUS
<1> USE IpcAssumption DEF Init
<1>1. Types
  BY DEF Types
<1>2. Stage /\ Exists /\ Before /\ Token /\ NameWindow
  BY DEF Stage, Exists, Before, Token, NameWindow
<1> QED BY <1>1, <1>2 DEF IInv

-------------------------------------------------------------------------------
(* cs_init *)

\* What every call of cs_init does.
LEMMA CallingFacts ==
  ASSUME IInv, NEW p \in Proc, NEW c, Calling(p, c)
  PROVE  /\ status[p] = "init" /\ inside[p] = {} /\ build \in DOMAIN Calls
         /\ calls[p] + 1 \in 1 .. Last /\ Calls[build][calls[p] + 1] = c
         /\ calls' = [calls EXCEPT ![p] = calls[p] + 1]
         /\ status' = [status EXCEPT ![p] = IF calls[p] + 1 = Last THEN "run" ELSE "init"]
         /\ UNCHANGED <<build, inside, rounds>>
<1>1. status[p] = "init" /\ inside[p] = {} /\ build \in DOMAIN Calls
  BY DEF IInv, Types, Stage, Calling
<1>2. calls[p] \in Nat /\ calls[p] < Last /\ Last \in Nat
  BY <1>1, CallsTable DEF IInv, Types, Stage, Last
<1>3. calls' = [calls EXCEPT ![p] = calls[p] + 1] /\ calls'[p] = calls[p] + 1
  BY DEF Calling, IInv, Types
<1> QED BY <1>1, <1>2, <1>3 DEF Calling, Last, IInv, Types

\* A call after which p holds an object, and the name is p's or as before, keeps what
\* depends on the calls alone.
LEMMA CallingKeeps ==
  ASSUME IInv, NEW p \in Proc, NEW c, Calling(p, c),
         handle' \in [Proc -> Proc \cup {None}], handle'[p] # None,
         \A q \in Proc \ {p} : handle'[q] = handle[q],
         linked' \in Proc \cup {None},
         c # "unlink" \/ linked' = None,
         linked' \in {linked, None} \/ (linked' = p /\ c \in Creating),
         handle'[p] \in {handle[p], p, linked},
         build \in Private => handle'[p] \in {handle[p], p},
         build \in Private \ Exclusive => linked' \in {linked, None}
  PROVE  /\ Stage' /\ Exists' /\ NameWindow'
         /\ build' = build /\ inside' = inside /\ inside[p] = {}
         /\ status' \in [Proc -> {"down", "init", "run", "exit"} \cup Dead]
         /\ calls' \in [Proc -> Nat]
<1> DEFINE n == calls[p] + 1
<1>1. /\ status[p] = "init" /\ inside[p] = {} /\ build \in DOMAIN Calls
      /\ n \in 1 .. Last /\ Calls[build][n] = c /\ Last \in Nat
      /\ calls' = [calls EXCEPT ![p] = n]
      /\ status' = [status EXCEPT ![p] = IF n = Last THEN "run" ELSE "init"]
      /\ UNCHANGED <<build, inside, rounds>>
  BY CallingFacts, CallsTable DEF Last
<1>2. Last' = Last
  BY <1>1 DEF Last
<1>3. calls \in [Proc -> Nat] /\ calls' \in [Proc -> Nat] /\ calls'[p] = n /\ n \in Nat
  BY <1>1 DEF IInv, Types
<1> HIDE DEF n
<1>4. /\ status' \in [Proc -> {"down", "init", "run", "exit"} \cup Dead]
      /\ status'[p] = IF n = Last THEN "run" ELSE "init"
      /\ \A q \in Proc \ {p} : status'[q] = status[q] /\ calls'[q] = calls[q]
  BY <1>1 DEF IInv, Types
<1>5. Stage'
  BY <1>1, <1>2, <1>3, <1>4 DEF IInv, Stage
<1>6. Exists'
  <2>1. \A q \in Proc : calls[q] > 0 => calls'[q] > 0
    BY <1>1, <1>3, <1>4
  <2>2. calls'[p] > 0
    BY <1>1, <1>3
  <2>3. ASSUME NEW q \in Proc, handle'[q] # None PROVE calls'[handle'[q]] > 0
    <3>1. handle'[q] \in Proc /\ handle'[q] \in {handle[q], p, linked}
      BY <2>3
    <3> QED BY <2>1, <2>2, <2>3, <3>1 DEF IInv, Exists
  <2>4. linked' # None => calls'[linked'] > 0
    BY <2>1, <2>2, IpcAssumption DEF IInv, Exists, Types
  <2>5. build \in Private => \A q \in Proc : handle'[q] \in {None, q}
    BY DEF IInv, Exists
  <2>6. build \in Private \ Exclusive => linked' = None
    BY DEF IInv, Exists
  <2> QED BY <1>1, <2>3, <2>4, <2>5, <2>6 DEF Exists
<1>7. NameWindow'
  <2> SUFFICES ASSUME build \in Exclusive, linked' # None
               PROVE  /\ \A m \in 1 .. calls'[linked'] : Calls[build][m] # "unlink"
                      /\ status'[linked'] \in {"init", "killed"}
    BY <1>1 DEF NameWindow
  <2>1. c # "unlink"
    OBVIOUS
  <2>2. PICK u \in 1 .. Last : Calls[build][u] = "unlink"
    BY <1>1, CallsTable DEF Last
  <2>3. CASE linked' = p
    <3>1. \A m \in 1 .. calls[p] : Calls[build][m] # "unlink"
      <4>1. CASE linked = p
        BY <2>3, <4>1, IpcAssumption DEF IInv, NameWindow
      <4>2. CASE linked # p
        <5>1. c \in Creating
          BY <2>3, <4>2, IpcAssumption
        <5>2. n = 1
          BY <1>1, <5>1, CallsTable DEF Last
        <5>3. calls[p] = 0
          BY <1>3, <5>2 DEF n
        <5> QED BY <5>3
      <4> QED BY <4>1, <4>2
    <3>2. \A m \in 1 .. n : Calls[build][m] # "unlink"
      <4>1. calls[p] \in Nat
        BY <1>3
      <4>2. \A m \in 1 .. n : m = n \/ m \in 1 .. calls[p]
        BY <4>1 DEF n
      <4> QED BY <1>1, <2>1, <3>1, <4>2
    <3>3. n # Last
      BY <1>1, <2>2, <3>2
    <3> QED BY <1>3, <1>4, <2>3, <3>2, <3>3
  <2>4. CASE linked' # p
    <3>1. linked' = linked /\ linked \in Proc \ {p}
      BY <2>4 DEF IInv, Types
    <3> QED BY <1>4, <3>1 DEF IInv, NameWindow
  <2> QED BY <2>3, <2>4
<1> QED BY <1>1, <1>3, <1>4, <1>5, <1>6, <1>7
\* An object that is created or opened.
LEMMA CreatedI ==
  ASSUME IInv, NEW p \in Proc, NEW c \in Creating, Calling(p, c),
         NEW v \in 0 .. 1, v = 1 => c \in {"excl", "creat", "key"},
         handle' = [handle EXCEPT ![p] = p], value' = [value EXCEPT ![p] = v],
         linked' \in {linked, p}, build \in Private \ Exclusive => linked' = linked,
         UNCHANGED undo
  PROVE  IInv'
<1>1. /\ inside[p] = {} /\ build \in DOMAIN Calls
      /\ calls[p] + 1 \in 1 .. Last /\ Calls[build][calls[p] + 1] = c
      /\ calls' = [calls EXCEPT ![p] = calls[p] + 1] /\ UNCHANGED <<build, inside>>
  BY CallingFacts
<1>2. calls \in [Proc -> Nat] /\ calls[p] + 1 = 1
  BY <1>1, CallsTable DEF IInv, Types, Last
<1>3. calls[p] = 0
  BY <1>2
<1>4. handle' = [handle EXCEPT ![p] = p] /\ value' = [value EXCEPT ![p] = v]
  OBVIOUS
<1>5. \A q \in Proc : handle[q] # p
  BY <1>3, IpcAssumption DEF IInv, Exists
<1>6. linked # p
  BY <1>3, IpcAssumption DEF IInv, Exists
<1>7. /\ Stage' /\ Exists' /\ NameWindow'
      /\ status' \in [Proc -> {"down", "init", "run", "exit"} \cup Dead]
      /\ calls' \in [Proc -> Nat]
  <2>1. handle' \in [Proc -> Proc \cup {None}] /\ handle'[p] = p /\ p # None
    BY <1>4, IpcAssumption DEF IInv, Types
  <2>2. \A q \in Proc \ {p} : handle'[q] = handle[q]
    BY <1>4 DEF IInv, Types
  <2>3. linked' \in Proc \cup {None} /\ linked' \in {linked, p} /\ c # "unlink"
    BY <1>4 DEF IInv, Types, Creating
  <2>4. build \in Private \ Exclusive => linked' \in {linked, None}
    BY <1>4
  <2> QED BY <2>1, <2>2, <2>3, <2>4, CallingKeeps
<1>8. Types'
  BY <1>1, <1>4, <1>7 DEF IInv, Types
<1>9. Before'
  <2>1. \A q \in Proc : \A n \in calls'[q] + 1 .. Last : Calls[build][n] = "send" => value'[q] = 0
    <3>1. TAKE q \in Proc
    <3>2. CASE q # p
      BY <1>1, <1>2, <1>4, <3>2 DEF IInv, Before, Types
    <3>3. CASE q = p
      <4>1. SUFFICES ASSUME NEW n \in 2 .. Last, Calls[build][n] = "send" PROVE v = 0
        BY <1>1, <1>2, <1>4, <3>3 DEF IInv, Types
      <4>2. n \in 1 .. Last /\ Last \in Nat
        BY <1>1, CallsTable DEF Last
      <4> QED BY <1>1, <4>1, <4>2, CallsTable DEF Last
    <3> QED BY <3>2, <3>3
  <2>2. Last' = Last
    BY <1>1 DEF Last
  <2> QED BY <1>1, <1>4, <2>1, <2>2 DEF IInv, Before
<1>10. Token'
  <2> SUFFICES ASSUME build # "sysv" PROVE Token'
    BY <1>1 DEF Token
  <2>1. \A q \in Proc : handle'[q] = IF q = p THEN p ELSE handle[q]
    BY <1>4 DEF IInv, Types
  <2>2. \A o \in Proc : value'[o] = IF o = p THEN v ELSE value[o]
    BY <1>4 DEF IInv, Types
  <2>3. \A q \in Proc : handle'[q] # None => value'[handle'[q]] <= 1
    BY <1>5, <2>1, <2>2 DEF IInv, Token, Types
  <2>4. linked' # None => value'[linked'] <= 1
    BY <1>4, <1>6, <2>2 DEF IInv, Token, Types
  <2>5. ASSUME NEW q \in Proc, NEW r \in Proc, NEW t \in inside[q],
               handle'[q] # None, handle'[r] = handle'[q]
        PROVE  value'[handle'[q]] = 0 /\ \A u \in inside[r] : r = q /\ u = t
    <3>1. q # p /\ r # p
      BY <1>1, <1>5, <2>1, <2>5
    <3>2. handle'[q] = handle[q] /\ handle'[r] = handle[r]
      BY <2>1, <3>1
    <3>3. handle[q] \in Proc \ {p}
      BY <1>5, <2>5, <3>2 DEF IInv, Types
    <3> QED BY <2>2, <2>5, <3>2, <3>3 DEF IInv, Token
  <2> QED BY <1>1, <2>3, <2>4, <2>5 DEF Token
<1> QED BY <1>7, <1>8, <1>9, <1>10 DEF IInv

LEMMA OpenedI ==
  ASSUME IInv, NEW p \in Proc, NEW c \in {"creat", "key"}, Calling(p, c),
         linked # None, Opened(p)
  PROVE  IInv'
<1>1. /\ inside[p] = {} /\ build \in DOMAIN Calls
      /\ calls[p] + 1 \in 1 .. Last /\ Calls[build][calls[p] + 1] = c
      /\ calls' = [calls EXCEPT ![p] = calls[p] + 1] /\ UNCHANGED <<build, inside>>
  BY CallingFacts
<1>2. build \notin Private /\ \A n \in 1 .. Last : Calls[build][n] # "send"
  BY <1>1, CallsTable DEF Last
<1>3. handle' = [handle EXCEPT ![p] = linked] /\ UNCHANGED <<value, undo, linked>>
  BY DEF Opened
<1>4. \A q \in Proc : handle'[q] = IF q = p THEN linked ELSE handle[q]
  BY <1>3 DEF IInv, Types
<1>5. /\ Stage' /\ Exists' /\ NameWindow'
      /\ status' \in [Proc -> {"down", "init", "run", "exit"} \cup Dead]
      /\ calls' \in [Proc -> Nat]
  <2>1. handle' \in [Proc -> Proc \cup {None}] /\ linked \in Proc \cup {None} /\ c # "unlink"
    BY <1>3 DEF IInv, Types
  <2> QED BY <1>2, <1>3, <1>4, <2>1, CallingKeeps
<1>6. Types'
  BY <1>1, <1>3, <1>5 DEF IInv, Types
<1>7. Before'
  <2>1. \A q \in Proc : calls'[q] \in Nat /\ Last' = Last
    BY <1>1, <1>5 DEF Last
  <2>2. \A q \in Proc : \A n \in calls'[q] + 1 .. Last : n \in 1 .. Last
    BY <2>1
  <2> QED BY <1>1, <1>2, <1>3, <2>1, <2>2 DEF IInv, Before
<1>8. Token'
  <2>1. ASSUME NEW q \in Proc, NEW t \in inside[q], handle'[q] # None, build # "sysv"
        PROVE  value[handle'[q]] = 0 /\ q # p /\ handle'[q] = handle[q]
    BY <1>1, <1>4, <2>1 DEF IInv, Token
  <2> QED BY <1>1, <1>3, <1>4, <2>1 DEF IInv, Token
<1> QED BY <1>5, <1>6, <1>7, <1>8 DEF IInv
\* exit() in cs_init: the process holds nothing any more and its object stays as it is.
LEMMA RefusedI ==
  ASSUME IInv, NEW p \in Proc, status[p] = "init", linked # p \/ build \notin Exclusive, Refused(p)
  PROVE  IInv'
<1>1. /\ status' = [status EXCEPT ![p] = "refused"] /\ handle' = [handle EXCEPT ![p] = None]
      /\ UNCHANGED <<build, calls, inside, value, undo, linked>>
  BY DEF Refused
<1>2. Last' = Last /\ inside[p] = {}
  BY <1>1 DEF Last, IInv, Stage
<1>3. \A q \in Proc : handle'[q] = IF q = p THEN None ELSE handle[q]
  BY <1>1 DEF IInv, Types
<1>4. Types'
  BY <1>1 DEF IInv, Types, Dead
<1>5. Stage'
  BY <1>1, <1>2, <1>3 DEF IInv, Stage, Types
<1>6. Exists' /\ Before'
  BY <1>1, <1>2, <1>3 DEF IInv, Exists, Before
<1>7. Token'
  BY <1>1, <1>3 DEF IInv, Token
<1>8. NameWindow'
  BY <1>1 DEF IInv, NameWindow, Types
<1> QED BY <1>4, <1>5, <1>6, <1>7, <1>8 DEF IInv

\* Whoever makes another call than the first has an object.
LEMMA LaterCall ==
  ASSUME IInv, NEW p \in Proc, NEW c, c \notin Creating, Calling(p, c)
  PROVE  handle[p] # None
<1>1. /\ status[p] = "init" /\ build \in DOMAIN Calls
      /\ calls[p] + 1 \in 1 .. Last /\ Calls[build][calls[p] + 1] = c
  BY CallingFacts
<1>2. calls[p] + 1 # 1
  BY <1>1, CallsTable DEF Last
<1> QED BY <1>1, <1>2 DEF IInv, Stage, Types

LEMMA UnlinkI == ASSUME IInv, NEW p \in Proc, Unlink(p) PROVE IInv'
<1>1. Calling(p, "unlink") /\ linked' = None /\ UNCHANGED <<handle, value, undo>>
  BY DEF Unlink
<1>2. /\ inside[p] = {} /\ build \in DOMAIN Calls /\ status[p] = "init"
      /\ calls[p] + 1 \in 1 .. Last /\ Calls[build][calls[p] + 1] = "unlink"
      /\ calls' = [calls EXCEPT ![p] = calls[p] + 1] /\ UNCHANGED <<build, inside>>
  BY <1>1, CallingFacts
<1>3. handle[p] # None
  BY <1>1, LaterCall DEF Creating
<1>4. /\ Stage' /\ Exists' /\ NameWindow'
      /\ status' \in [Proc -> {"down", "init", "run", "exit"} \cup Dead]
      /\ calls' \in [Proc -> Nat]
  <2>1. handle' \in [Proc -> Proc \cup {None}] /\ handle'[p] = handle[p]
    BY <1>1 DEF IInv, Types
  <2> QED BY <1>1, <1>3, <2>1, CallingKeeps
<1>5. Types'
  BY <1>1, <1>2, <1>4 DEF IInv, Types
<1>6. Before'
  BY <1>1, <1>2 DEF IInv, Before, Types, Last
<1>7. Token'
  BY <1>1, <1>2 DEF IInv, Token
<1> QED BY <1>4, <1>5, <1>6, <1>7 DEF IInv

\* A call on the object that p holds alone: it has one token then, unless the others of
\* this build do not exclude each other.
LEMMA FilledI ==
  ASSUME IInv, NEW p \in Proc, NEW c \in {"set", "send"}, Calling(p, c),
         handle[p] # None,
         value' = [value EXCEPT ![handle[p]] = 1], UNCHANGED <<handle, linked>>,
         undo' \in [Proc -> Int],
         \A q \in Proc : undo'[q] \in {0, undo[q]}
  PROVE  IInv'
<1>1. /\ inside[p] = {} /\ build \in DOMAIN Calls
      /\ calls[p] + 1 \in 1 .. Last /\ Calls[build][calls[p] + 1] = c
      /\ calls' = [calls EXCEPT ![p] = calls[p] + 1] /\ UNCHANGED <<build, inside>>
  BY CallingFacts
<1>2. build # "sysv" => build \in Private
  BY <1>1, CallsTable DEF Last, Undoing, Private
<1>3. handle[p] \in Proc
  BY DEF IInv, Types
<1>4. /\ Stage' /\ Exists' /\ NameWindow'
      /\ status' \in [Proc -> {"down", "init", "run", "exit"} \cup Dead]
      /\ calls' \in [Proc -> Nat]
  <2>1. handle' \in [Proc -> Proc \cup {None}] /\ linked \in Proc \cup {None}
    BY DEF IInv, Types
  <2> QED BY <2>1, CallingKeeps
<1>5. Types'
  BY <1>1, <1>4 DEF IInv, Types
<1>6. Before'
  <2>1. Last' = Last /\ Last \in Nat
    BY <1>1, CallsTable DEF Last
  <2>2. ASSUME NEW q \in Proc, NEW n \in calls'[q] + 1 .. Last, Calls[build][n] = "send"
        PROVE  value'[q] = 0
    <3>1. calls[q] \in Nat /\ n \in calls[q] + 1 .. Last /\ n \in 1 .. Last
      BY <1>1, <2>1 DEF IInv, Types
    <3>2. value[q] = 0
      BY <2>2, <3>1 DEF IInv, Before
    <3>3. build \in Private \ Undoing
      BY <1>1, <2>2, <3>1, CallsTable DEF Last
    <3>4. handle[p] = p /\ c = "send"
      BY <1>1, <3>3, CallsTable DEF Last, IInv, Exists
    <3>5. q # p
      <4>1. n = calls[p] + 1
        BY <1>1, <2>2, <3>1, <3>4, CallsTable DEF Last
      <4>2. calls[p] \in Nat /\ calls'[p] = calls[p] + 1
        BY <1>1 DEF IInv, Types
      <4> QED BY <2>1, <4>1, <4>2
    <3> QED BY <3>2, <3>4, <3>5 DEF IInv, Types
  <2> QED BY <1>1, <2>1, <2>2 DEF IInv, Before
<1>7. Token'
  <2> SUFFICES ASSUME build # "sysv" PROVE Token'
    BY <1>1 DEF Token
  <2>1. handle[p] = p /\ \A q \in Proc : handle[q] = p => q = p
    BY <1>2, IpcAssumption DEF IInv, Exists
  <2>2. \A o \in Proc : value'[o] = IF o = p THEN 1 ELSE value[o]
    BY <2>1 DEF IInv, Types
  <2>3. \A q \in Proc : handle[q] # None => handle[q] \in Proc /\ value'[handle[q]] <= 1
    BY <2>2 DEF IInv, Types, Token
  <2>4. linked # None => value'[linked] <= 1
    BY <2>2 DEF IInv, Types, Token
  <2>5. ASSUME NEW q \in Proc, NEW t \in inside[q], handle[q] # None
        PROVE  handle[q] # p
    BY <1>1, <2>1, <2>5
  <2> QED BY <1>1, <2>2, <2>3, <2>4, <2>5 DEF IInv, Token
<1> QED BY <1>4, <1>5, <1>6, <1>7 DEF IInv

LEMMA InitCallI == ASSUME IInv, NEW p \in Proc, cs_init(p) PROVE IInv'
<1>1. CASE OpenOrCreate(p)
  <2>1. PICK c \in {"creat", "key"} :
               /\ Calling(p, c)
               /\ IF linked # None THEN Opened(p) ELSE Created(p, IF c = "creat" THEN 1 ELSE 0, TRUE)
    BY <1>1 DEF OpenOrCreate
  <2>2. CASE linked # None
    BY <2>1, <2>2, OpenedI
  <2>3. CASE linked = None
    <3> DEFINE v == IF c = "creat" THEN 1 ELSE 0
    <3>1. build \notin Private /\ Calling(p, c)
      BY <2>1, CallingFacts, CallsTable DEF Last
    <3>2. v \in 0 .. 1 /\ (v = 1 => c \in {"excl", "creat", "key"}) /\ c \in Creating
      BY DEF Creating
    <3>3. Created(p, v, TRUE)
      BY <2>1, <2>3
    <3>4. /\ handle' = [handle EXCEPT ![p] = p] /\ value' = [value EXCEPT ![p] = v]
          /\ linked' \in {linked, p} /\ UNCHANGED undo
      BY <3>3 DEF Created
    <3> HIDE DEF v
    <3> QED BY <3>1, <3>2, <3>4, CreatedI
  <2> QED BY <2>2, <2>3
<1>2. CASE OpenExclusive(p)
  <2>1. PICK c \in {"excl", "mq_excl"} :
               \/ linked = None /\ Calling(p, c) /\ Created(p, IF c = "excl" THEN 1 ELSE 0, TRUE)
               \/ /\ linked # None /\ status[p] = "init" /\ Calls[build][calls[p] + 1] = c
                  /\ Refused(p)
    BY <1>2 DEF OpenExclusive
  <2>2. CASE linked = None
    <3>1. Calling(p, c) /\ Created(p, IF c = "excl" THEN 1 ELSE 0, TRUE)
      BY <2>1, <2>2
    <3>2. build \notin Private \ Exclusive
      BY <3>1, CallingFacts, CallsTable DEF Last
    <3> DEFINE v == IF c = "excl" THEN 1 ELSE 0
    <3>3. v \in 0 .. 1 /\ (v = 1 => c \in {"excl", "creat", "key"}) /\ c \in Creating
      BY DEF Creating
    <3>4. /\ handle' = [handle EXCEPT ![p] = p] /\ value' = [value EXCEPT ![p] = v]
          /\ linked' \in {linked, p} /\ UNCHANGED undo
      BY <3>1 DEF Created
    <3> HIDE DEF v
    <3> QED BY <3>1, <3>2, <3>3, <3>4, CreatedI
  <2>3. CASE linked # None
    <3>1. status[p] = "init" /\ Calls[build][calls[p] + 1] = c /\ Refused(p)
      BY <2>1, <2>3
    <3>2. /\ build \in DOMAIN Calls /\ calls[p] \in Nat /\ calls[p] < Last /\ Last \in Nat
      BY <3>1, CallsTable DEF IInv, Types, Stage, Last
    <3>3. calls[p] + 1 \in 1 .. Last
      BY <3>2
    <3>4. calls[p] + 1 = 1
      BY <3>1, <3>2, <3>3, CallsTable DEF Creating, Last
    <3>5. linked # p
      BY <2>3, <3>2, <3>4 DEF IInv, Exists
    <3> QED BY <3>1, <3>5, RefusedI
  <2> QED BY <2>2, <2>3
<1>3. CASE CreatePrivate(p)
  <2>1. Calling(p, "private") /\ Created(p, 0, FALSE)
    BY <1>3 DEF CreatePrivate
  <2>2. PICK c \in Creating : c = "private"
    BY DEF Creating
  <2>3. PICK v \in 0 .. 1 : v = 0
    OBVIOUS
  <2>4. /\ handle' = [handle EXCEPT ![p] = p] /\ value' = [value EXCEPT ![p] = v]
        /\ linked' = linked /\ UNCHANGED undo
    BY <2>1, <2>3 DEF Created
  <2>5. v # 1 /\ linked' \in {linked, p} /\ Calling(p, c)
    BY <2>1, <2>2, <2>3, <2>4
  <2> QED BY <2>4, <2>5, CreatedI
<1>4. CASE Unlink(p)
  BY <1>4, UnlinkI
<1>5. CASE SetVal(p)
  <2>1. CASE /\ handle[p] \notin removed /\ Calling(p, "set")
             /\ value' = [value EXCEPT ![handle[p]] = 1]
             /\ undo' = [q \in Proc |-> IF handle[q] = handle[p] THEN 0 ELSE undo[q]]
             /\ UNCHANGED <<handle, linked, removed>>
    <3>1. handle[p] # None
      BY <2>1, LaterCall DEF Creating
    <3>2. undo' \in [Proc -> Int] /\ \A q \in Proc : undo'[q] \in {0, undo[q]}
      BY <2>1 DEF IInv, Types
    <3> QED BY <2>1, <3>1, <3>2, FilledI
  <2>2. CASE /\ status[p] = "init" /\ Calls[build][calls[p] + 1] = "set" /\ Refused(p)
    <3>1. build \in DOMAIN Calls /\ calls[p] + 1 \in 1 .. Last
      <4>1. build \in DOMAIN Calls /\ calls[p] \in Nat /\ calls[p] < Last /\ Last \in Nat
        BY <2>2, CallsTable DEF IInv, Types, Stage, Last
      <4> QED BY <4>1
    <3>2. build \notin Exclusive
      BY <2>2, <3>1, CallsTable DEF Last, Undoing, Exclusive
    <3> QED BY <2>2, <3>2, RefusedI
  <2> QED BY <1>5, <2>1, <2>2 DEF SetVal
<1>6. CASE Send(p)
  <2>1. Calling(p, "send") /\ value' = [value EXCEPT ![handle[p]] = @ + 1]
    BY <1>6 DEF Send
  <2>2. handle[p] # None
    BY <2>1, LaterCall DEF Creating
  <2>3. build \in Private /\ value[p] = 0
    <3>1. /\ build \in DOMAIN Calls /\ calls[p] + 1 \in 1 .. Last
          /\ Calls[build][calls[p] + 1] = "send"
      BY <2>1, CallingFacts
    <3>2. calls[p] + 1 \in calls[p] + 1 .. Last
      BY <3>1
    <3> QED BY <3>1, <3>2, CallsTable DEF IInv, Before, Last
  <2>4. handle[p] = p
    BY <2>2, <2>3 DEF IInv, Exists
  <2>5. value' = [value EXCEPT ![handle[p]] = 1]
    <3>1. value[handle[p]] + 1 = 1
      BY <2>3, <2>4
    <3> QED BY <2>1, <3>1
  <2>6. UNCHANGED <<handle, undo, linked>>
    BY <1>6 DEF Send
  <2>7. undo' \in [Proc -> Int] /\ \A q \in Proc : undo'[q] \in {0, undo[q]}
    BY <2>6 DEF IInv, Types
  <2> QED BY <2>1, <2>2, <2>5, <2>6, <2>7, FilledI
<1> QED BY <1>1, <1>2, <1>3, <1>4, <1>5, <1>6 DEF cs_init
-------------------------------------------------------------------------------
(* The threads, and the end of a process. *)

\* A thread that gets in takes the token.
LEMMA EnterI == ASSUME IInv, NEW p \in Proc, NEW t \in Thread, cs_enter(p, t) PROVE IInv'
<1> DEFINE o == handle[p]
<1>1. /\ status[p] = "run" /\ value[o] > 0 /\ value' = [value EXCEPT ![o] = value[o] - 1]
      /\ inside' = [inside EXCEPT ![p] = @ \cup {t}] /\ Adjust(p, 1)
      /\ UNCHANGED <<build, status, calls, handle, linked>>
  BY DEF cs_enter
<1>2. o \in Proc /\ o # None /\ calls[p] = Last
  BY <1>1, IpcAssumption DEF IInv, Stage, Types
<1>3. value[o] \in Nat /\ \A q \in Proc : value'[q] = IF q = o THEN value[o] - 1 ELSE value[q]
  BY <1>1, <1>2 DEF IInv, Types
<1>4. \A q \in Proc : inside'[q] = IF q = p THEN inside[p] \cup {t} ELSE inside[q]
  BY <1>1 DEF IInv, Types
<1>5. undo' \in [Proc -> Int] /\ (build \notin Undoing => undo' = undo)
  BY <1>1 DEF Adjust, IInv, Types
<1>6. Last' = Last
  BY <1>1 DEF Last
<1> HIDE DEF o
<1>7. Types'
  <2>1. value[o] - 1 \in Nat
    BY <1>1, <1>3
  <2>2. value' \in [Proc -> Nat]
    BY <1>1, <1>2, <2>1 DEF IInv, Types
  <2> QED BY <1>1, <1>5, <2>2 DEF IInv, Types
<1>8. Stage' /\ Exists' /\ NameWindow'
  BY <1>1, <1>4, <1>6 DEF IInv, Stage, Exists, NameWindow
<1>9. Before'
  BY <1>1, <1>2, <1>3, <1>5, <1>6 DEF IInv, Before
<1>10. Token'
  <2> SUFFICES ASSUME build # "sysv" PROVE Token'
    BY <1>1 DEF Token
  <2>1. value[o] = 1 /\ value'[o] = 0
    BY <1>1, <1>2, <1>3 DEF IInv, Token, o
  <2>2. \A q \in Proc : handle[q] = o => inside[q] = {}
    BY <1>2, <2>1 DEF IInv, Token
  <2>3. /\ \A q \in Proc : handle[q] # None => handle[q] \in Proc /\ value'[handle[q]] <= 1
        /\ linked # None => linked \in Proc /\ value'[linked] <= 1
    BY <1>3, <2>1 DEF IInv, Types, Token
  <2>4. ASSUME NEW q \in Proc, NEW r \in Proc, NEW x \in inside'[q],
               handle[q] # None, handle[r] = handle[q]
        PROVE  value'[handle[q]] = 0 /\ \A u \in inside'[r] : r = q /\ u = x
    <3>1. CASE handle[q] = o
      <4>1. inside'[q] = (IF q = p THEN {t} ELSE {}) /\ inside'[r] = (IF r = p THEN {t} ELSE {})
        BY <1>4, <2>2, <2>4, <3>1 DEF o
      <4> QED BY <2>1, <2>4, <3>1, <4>1
    <3>2. CASE handle[q] # o
      <4>1. q # p /\ r # p /\ handle[q] \in Proc
        BY <2>4, <3>2 DEF IInv, Types, o
      <4> QED BY <1>3, <1>4, <2>4, <3>2, <4>1 DEF IInv, Token
    <3> QED BY <3>1, <3>2
  <2> QED BY <1>1, <2>3, <2>4 DEF Token
<1> QED BY <1>7, <1>8, <1>9, <1>10 DEF IInv

\* A thread that leaves was the only one inside, and gives the token back.
LEMMA LeaveI == ASSUME IInv, NEW p \in Proc, NEW t \in Thread, cs_leave(p, t) PROVE IInv'
<1> DEFINE o == handle[p]
<1>1. /\ status[p] = "run" /\ t \in inside[p] /\ value' = [value EXCEPT ![o] = value[o] + 1]
      /\ inside' = [inside EXCEPT ![p] = @ \ {t}] /\ Adjust(p, -1)
      /\ UNCHANGED <<build, status, calls, handle, linked>>
  BY DEF cs_leave
<1>2. o \in Proc /\ o # None /\ calls[p] = Last
  BY <1>1, IpcAssumption DEF IInv, Stage, Types
<1>3. value[o] \in Nat /\ \A q \in Proc : value'[q] = IF q = o THEN value[o] + 1 ELSE value[q]
  BY <1>1, <1>2 DEF IInv, Types
<1>4. \A q \in Proc : inside'[q] = IF q = p THEN inside[p] \ {t} ELSE inside[q]
  BY <1>1 DEF IInv, Types
<1>5. undo' \in [Proc -> Int] /\ (build \notin Undoing => undo' = undo)
  BY <1>1 DEF Adjust, IInv, Types
<1>6. Last' = Last
  BY <1>1 DEF Last
<1> HIDE DEF o
<1>7. Types'
  <2>1. value' \in [Proc -> Nat]
    BY <1>1, <1>2, <1>3 DEF IInv, Types
  <2> QED BY <1>1, <1>5, <2>1 DEF IInv, Types
<1>8. Stage' /\ Exists' /\ NameWindow'
  BY <1>1, <1>4, <1>6 DEF IInv, Stage, Exists, NameWindow
<1>9. Before'
  <2>1. ASSUME NEW q \in Proc, NEW n \in calls[q] + 1 .. Last, Calls[build][n] = "send"
        PROVE  value'[q] = 0
    <3>1. value[q] = 0
      BY <2>1 DEF IInv, Before
    <3>2. q # o
      <4>1. build \in DOMAIN Calls /\ Last \in Nat /\ calls[q] \in Nat /\ n \in 1 .. Last
        BY <2>1, CallsTable DEF IInv, Types, Last
      <4>2. build \in Private
        BY <2>1, <4>1, CallsTable DEF Last
      <4>3. o = p
        BY <1>2, <4>2 DEF IInv, Exists, o
      <4> QED BY <1>2, <2>1, <4>1, <4>3
    <3> QED BY <1>3, <3>1, <3>2
  <2> QED BY <1>1, <1>5, <1>6, <2>1 DEF IInv, Before
<1>10. Token'
  <2> SUFFICES ASSUME build # "sysv" PROVE Token'
    BY <1>1 DEF Token
  <2>1. /\ value[o] = 0 /\ \A q \in Proc : handle[q] = o => inside'[q] = {}
    <3>1. value[o] = 0 /\ \A q \in Proc : handle[q] = o => \A u \in inside[q] : q = p /\ u = t
      BY <1>1, <1>2 DEF IInv, Token, o
    <3> QED BY <1>4, <3>1
  <2>2. value'[o] = 1
    BY <1>2, <1>3, <2>1
  <2>3. /\ \A q \in Proc : handle[q] # None => handle[q] \in Proc /\ value'[handle[q]] <= 1
        /\ linked # None => linked \in Proc /\ value'[linked] <= 1
    BY <1>3, <2>2 DEF IInv, Types, Token
  <2>4. ASSUME NEW q \in Proc, NEW r \in Proc, NEW x \in inside'[q],
               handle[q] # None, handle[r] = handle[q]
        PROVE  value'[handle[q]] = 0 /\ \A u \in inside'[r] : r = q /\ u = x
    <3>1. handle[q] # o
      BY <2>1, <2>4
    <3>2. q # p /\ r # p /\ handle[q] \in Proc
      BY <2>4, <3>1 DEF IInv, Types, o
    <3> QED BY <1>3, <1>4, <2>4, <3>1, <3>2 DEF IInv, Token
  <2> QED BY <1>1, <2>3, <2>4 DEF Token
<1> QED BY <1>7, <1>8, <1>9, <1>10 DEF IInv

\* A process ends: the kernel gives back what SEM_UNDO has counted, to an object that
\* nobody else uses; without SEM_UNDO a token that it held is gone.
LEMMA GoneI ==
  ASSUME IInv, NEW p \in Proc, NEW how \in {"ended", "failed", "killed"}, Gone(p, how),
         how = "killed" \/ status[p] \in {"run", "exit"},
         linked' \in {linked, None}
  PROVE  IInv'
<1>1. /\ status' = [status EXCEPT ![p] = how] /\ handle' = [handle EXCEPT ![p] = None]
      /\ inside' = [inside EXCEPT ![p] = {}] /\ undo' = [undo EXCEPT ![p] = 0]
      /\ UNCHANGED <<build, calls>>
  BY DEF Gone
<1>2. /\ \A q \in Proc : handle'[q] = IF q = p THEN None ELSE handle[q]
      /\ \A q \in Proc : inside'[q] = IF q = p THEN {} ELSE inside[q]
      /\ \A q \in Proc : status'[q] = IF q = p THEN how ELSE status[q]
  BY <1>1 DEF IInv, Types
<1>3. Last' = Last
  BY <1>1 DEF Last
<1>4. value' \in [Proc -> Nat]
  <2>1. CASE handle[p] = None \/ undo[p] = 0
    BY <2>1 DEF Gone, IInv, Types
  <2>2. CASE handle[p] # None /\ undo[p] # 0
    <3> DEFINE v == IF value[handle[p]] + undo[p] < 0 THEN 0 ELSE value[handle[p]] + undo[p]
    <3>1. handle[p] \in Proc /\ value[handle[p]] \in Nat /\ undo[p] \in Int
      BY <2>2 DEF IInv, Types
    <3>2. v \in Nat
      BY <3>1
    <3>3. value' = [value EXCEPT ![handle[p]] = v]
      BY <2>2 DEF Gone
    <3> QED BY <3>1, <3>2, <3>3 DEF IInv, Types
  <2> QED BY <2>1, <2>2
<1>5. build \notin Undoing => value' = value
  BY DEF Gone, IInv, Before
<1>6. Types'
  <2>1. status' \in [Proc -> {"down", "init", "run", "exit"} \cup Dead]
    BY <1>1 DEF IInv, Types, Dead
  <2>2. handle' \in [Proc -> Proc \cup {None}] /\ inside' \in [Proc -> SUBSET Thread]
    BY <1>1 DEF IInv, Types
  <2>3. undo' \in [Proc -> Int]
    BY <1>1 DEF IInv, Types
  <2>4. linked' \in Proc \cup {None}
    BY DEF IInv, Types
  <2> QED BY <1>1, <1>4, <2>1, <2>2, <2>3, <2>4 DEF IInv, Types
<1>7. Stage' /\ Exists'
  BY <1>1, <1>2, <1>3 DEF IInv, Stage, Exists
<1>8. Before'
  <2>1. ASSUME NEW q \in Proc, NEW n \in calls[q] + 1 .. Last, Calls[build][n] = "send"
        PROVE  value'[q] = 0
    <3>1. build \in DOMAIN Calls /\ Last \in Nat /\ calls[q] \in Nat /\ n \in 1 .. Last
      BY <2>1, CallsTable DEF IInv, Types, Last
    <3>2. build \notin Undoing
      BY <2>1, <3>1, CallsTable DEF Last
    <3> QED BY <1>5, <2>1, <3>2 DEF IInv, Before
  <2>2. build \notin Undoing => \A q \in Proc : undo'[q] = 0
    BY <1>1 DEF IInv, Before, Types
  <2> QED BY <1>1, <1>3, <2>1, <2>2 DEF Before
<1>9. Token'
  <2> SUFFICES ASSUME build # "sysv" PROVE Token'
    BY <1>1 DEF Token
  <2>1. \A q \in Proc \ {p} : handle[q] # None =>
          handle[q] \in Proc /\ value'[handle[q]] = value[handle[q]]
    <3>1. CASE build \in Undoing
      <4>1. \A q \in Proc : handle[q] \in {None, q}
        BY <3>1 DEF IInv, Exists, Undoing, Private
      <4>2. handle[p] = p => \A q \in Proc \ {p} : value'[q] = value[q]
        BY DEF Gone, IInv, Types
      <4>3. handle[p] = None => value' = value
        BY DEF Gone
      <4> QED BY <4>1, <4>2, <4>3
    <3>2. CASE build \notin Undoing
      BY <1>5, <3>2 DEF IInv, Types
    <3> QED BY <3>1, <3>2
  <2>2. linked' # None => value'[linked'] <= 1
    <3>1. CASE build \in Undoing
      BY <3>1 DEF IInv, Exists, Undoing, Private, Exclusive
    <3>2. CASE build \notin Undoing
      BY <1>5, <3>2 DEF IInv, Token
    <3> QED BY <3>1, <3>2
  <2>3. \A q \in Proc : handle'[q] # None => value'[handle'[q]] <= 1
    BY <1>2, <2>1 DEF IInv, Token
  <2>4. ASSUME NEW q \in Proc, NEW r \in Proc, NEW x \in inside'[q],
               handle'[q] # None, handle'[r] = handle'[q]
        PROVE  value'[handle'[q]] = 0 /\ \A u \in inside'[r] : r = q /\ u = x
    <3>1. q # p /\ r # p
      BY <1>2, <2>4
    <3> QED BY <1>2, <2>1, <2>4, <3>1 DEF IInv, Token
  <2> QED BY <1>1, <2>2, <2>3, <2>4 DEF Token
<1>10. NameWindow'
  BY <1>1, <1>2 DEF IInv, NameWindow, Types
<1> QED BY <1>6, <1>7, <1>8, <1>9, <1>10 DEF IInv

LEMMA NextI == IInv /\ [Next]_vars => IInv'
<1> SUFFICES ASSUME IInv, [Next]_vars PROVE IInv'
  OBVIOUS
<1>1. ASSUME NEW p \in Proc, Start(p) \/ Failed(p) PROVE IInv'
  <2>1. /\ UNCHANGED <<build, calls, handle, inside, value, undo, linked>>
        /\ \/ status[p] = "down" /\ status' = [status EXCEPT ![p] = "init"]
           \/ status[p] = "run" /\ status' = [status EXCEPT ![p] = "exit"]
    BY <1>1 DEF Start, Failed
  <2>2. Last' = Last /\ Last \in Nat /\ Last >= 1
    BY <2>1, CallsTable DEF Last, IInv, Types
  <2>3. Types'
    BY <2>1 DEF IInv, Types
  <2>4. Stage'
    BY <2>1, <2>2, <2>3 DEF IInv, Stage, Types
  <2>5. Exists' /\ Before' /\ Token'
    BY <2>1, <2>2 DEF IInv, Exists, Before, Token
  <2>6. NameWindow'
    <3>1. linked = p => status[p] \notin {"down"}
      BY <2>2, IpcAssumption DEF IInv, Stage, Exists, Types
    <3> QED BY <2>1, <3>1 DEF IInv, NameWindow, Types
  <2> QED BY <2>3, <2>4, <2>5, <2>6 DEF IInv
<1>2. ASSUME NEW p \in Proc, Kill(p) PROVE IInv'
  <2>1. Gone(p, "killed") /\ linked' = linked
    BY <1>2 DEF Kill
  <2> QED BY <2>1, GoneI
<1>3. ASSUME NEW p \in Proc, cs_destroy(p) PROVE IInv'
  <2>1. linked' \in {linked, None}
    BY <1>3 DEF cs_destroy
  <2>2. CASE status[p] = "run" /\ Gone(p, "ended")
    BY <2>1, <2>2, GoneI
  <2>3. CASE status[p] = "exit" /\ Gone(p, "failed")
    BY <2>1, <2>3, GoneI
  <2> QED BY <1>3, <2>2, <2>3 DEF cs_destroy, Ending
<1>4. CASE UNCHANGED vars
  BY <1>4 DEF vars, IInv, Types, Stage, Exists, Before, Token, NameWindow, Last
<1> QED BY <1>1, <1>2, <1>3, <1>4, InitCallI, EnterI, LeaveI DEF Next, Run, AllDead

LEMMA Invariance == Spec => []IInv
BY InitI, NextI, PTL DEF Spec

\* ThreadsExclude: at most one thread of a process is in its critical section, in every
\* build but the one whose cs_init resets a semaphore that others use (sem_sysv.h), for any
\* number of instances, whenever they start, end and are killed.
THEOREM ThreadsExcludeEachOther == Spec => []ThreadsExclude
<1>1. IInv => ThreadsExclude
  <2> SUFFICES ASSUME IInv, build # "sysv", NEW p \in Proc
               PROVE  Cardinality(inside[p]) <= 1
    BY DEF ThreadsExclude, OneThread
  <2>1. \A t, u \in inside[p] : u = t
    BY DEF IInv, Token, Stage
  <2>2. CASE inside[p] = {}
    BY <2>2, FS_EmptySet
  <2>3. CASE inside[p] # {}
    <3>1. PICK t \in inside[p] : inside[p] = {t}
      BY <2>1, <2>3
    <3>2. Cardinality(inside[p]) = 1
      BY <3>1, FS_Singleton, Zenon
    <3> QED BY <3>2
  <2> QED BY <2>2, <2>3
<1> QED BY <1>1, Invariance, PTL

\* NameWindow: with O_EXCL a name stands for an object only while its creator is between
\* the open and the unlink of cs_init, or was killed there; another instance is refused
\* for no other reason.
THEOREM NameOnlyInWindow == Spec => []NameWindow
<1>1. IInv => NameWindow
  BY DEF IInv
<1> QED BY <1>1, Invariance, PTL

(***************************************************************************)
(* MessagesSV, for any number of senders and receivers and a queue of any  *)
(* size: a receiver that removes the queue takes only late messages along. *)
(***************************************************************************)

CONSTANTS Senders, Receivers, Child, ARGS, CAPACITY, Programs
VARIABLES program, pc, mq_id, next, key, queue, got, lost, working

Mq == INSTANCE MessagesSV

\* What is in a queue.
LEMMA InQueue ==
  ASSUME NEW S, NEW q \in Seq(S)
  PROVE  /\ q # <<>> => Mq!ToSet(Tail(q)) \subseteq Mq!ToSet(q)
         /\ \A x \in S : Mq!ToSet(Append(q, x)) = Mq!ToSet(q) \union {x}
         /\ Mq!ToSet(<<>>) = {}
<1>1. DOMAIN q = 1 .. Len(q) /\ Len(q) \in Nat
  OBVIOUS
<1>2. ASSUME q # <<>> PROVE Mq!ToSet(Tail(q)) \subseteq Mq!ToSet(q)
  <2>1. DOMAIN Tail(q) = 1 .. Len(q) - 1
    BY <1>2
  <2>2. \A n \in 1 .. Len(q) - 1 : Tail(q)[n] = q[n + 1] /\ n + 1 \in 1 .. Len(q)
    BY <1>2
  <2> QED BY <1>1, <2>1, <2>2 DEF Mq!ToSet
<1>3. ASSUME NEW x \in S PROVE Mq!ToSet(Append(q, x)) = Mq!ToSet(q) \union {x}
  <2>1. DOMAIN Append(q, x) = 1 .. Len(q) + 1
    OBVIOUS
  <2>2. \A n \in 1 .. Len(q) : Append(q, x)[n] = q[n] /\ n \in 1 .. Len(q) + 1
    OBVIOUS
  <2>3. Append(q, x)[Len(q) + 1] = x /\ Len(q) + 1 \in 1 .. Len(q) + 1
    OBVIOUS
  <2>4. \A n \in 1 .. Len(q) + 1 : n \in 1 .. Len(q) \/ n = Len(q) + 1
    BY <1>1
  <2> QED BY <1>1, <2>1, <2>2, <2>3, <2>4 DEF Mq!ToSet
<1>4. Mq!ToSet(<<>>) = {}
  BY DEF Mq!ToSet
<1> QED BY <1>2, <1>3, <1>4

MqPos == {"idle", "stat", "send", "cycle", "exit", "over"}

\* "args" starts no children.
MqPlaces ==
  pc \in [Mq!Processes -> MqPos] /\ \A c \in Mq!Children : pc[c] = "idle"

\* The queues have numbers, which are not used again.
MqTypes ==
  /\ MqPlaces
  /\ mq_id \in [Mq!Processes -> Nat] /\ \A p \in Mq!Processes : mq_id[p] <= Len(queue)
  /\ status \in [Receivers -> Nat] /\ next \in [Senders -> Nat]
  /\ working \in [Receivers -> SUBSET Senders]
  /\ key \in Nat /\ queue \in Seq(Seq(Senders \X Nat)) /\ key <= Len(queue)

\* What a receiver about to remove the queue would take along: it had found the queue empty,
\* and who was through by then has sent nothing since.
MqLate ==
  \A r \in Receivers : pc[r] = "exit" /\ Mq!Exists(r) =>
    /\ \A m \in Mq!ToSet(queue[key]) : m[1] \in working[r]
    /\ \A p \in Senders \ working[r] : pc[p] = "over"

MqInv == MqTypes /\ MqLate

MqQ == Mq!MessagesAssumption /\ (program = "args" => MqInv)

LEMMA MqInit == Mq!MessagesAssumption /\ Mq!Init => MqQ
<1> SUFFICES ASSUME Mq!MessagesAssumption, Mq!Init PROVE MqInv
  BY DEF MqQ
<1> USE DEF Mq!Init, Mq!None
<1>1. Mq!Children \subseteq Mq!Processes
  BY DEF Mq!Processes
<1>2. MqTypes
  <2>1. MqPlaces
    BY <1>1 DEF MqPlaces, MqPos
  <2>2. queue \in Seq(Seq(Senders \X Nat)) /\ Len(queue) = 0
    OBVIOUS
  <2> QED BY <2>1, <2>2 DEF MqTypes
<1>3. MqLate
  BY DEF MqLate, Mq!Exists, Mq!Processes
<1> QED BY <1>2, <1>3 DEF MqInv

LEMMA MqSets ==
  ASSUME Mq!MessagesAssumption
  PROVE  /\ Senders \subseteq Mq!Processes /\ Receivers \subseteq Mq!Processes
         /\ Senders \intersect Receivers = {}
         /\ Mq!Children \intersect (Senders \union Receivers) = {}
         /\ Mq!Children \subseteq Mq!Processes
BY DEF Mq!MessagesAssumption, Mq!Processes

\* A process that is no child moves.
LEMMA MqPlace ==
  ASSUME Mq!MessagesAssumption, MqTypes, NEW p \in Senders \union Receivers, NEW to \in MqPos,
         pc' = [pc EXCEPT ![p] = to]
  PROVE  MqPlaces'
BY MqSets DEF MqTypes, MqPlaces

\* The current queue, if there is one.
LEMMA MqQueue ==
  ASSUME MqTypes, key # 0
  PROVE  key \in DOMAIN queue /\ key \in 1 .. Len(queue)
         /\ queue[key] \in Seq(Senders \X Nat)
BY DEF MqTypes

\* Who does not touch the queues and is no sender that starts, no receiver that leaves,
\* makes nothing late.
LEMMA MqMove ==
  ASSUME Mq!MessagesAssumption, MqInv, NEW p \in Senders \union Receivers, NEW to \in MqPos,
         pc' = [pc EXCEPT ![p] = to], key' = key, queue' = queue, mq_id' = mq_id,
         status' = status, next' = next, working' = working,
         p \in Receivers => to # "exit" \/ ~Mq!Exists(p), pc[p] # "over"
  PROVE  MqInv'
<1> USE MqSets DEF MqInv
<1>1. MqPlaces'
  BY MqPlace
<1>3. MqTypes'
  BY <1>1 DEF MqTypes
<1>2. MqLate'
  BY DEF MqLate, MqTypes, MqPlaces, Mq!Exists
<1> QED BY <1>3, <1>2

LEMMA MqCreate ==
  ASSUME Mq!MessagesAssumption, MqInv, NEW p \in Senders, Mq!Create(p, "idle", "stat")
  PROVE  MqInv'
<1> USE MqSets DEF MqInv
<1>1. /\ pc[p] = "idle" /\ pc' = [pc EXCEPT ![p] = "stat"]
      /\ mq_id' = [mq_id EXCEPT ![p] = key']
      /\ status' = status /\ next' = next /\ working' = working
  BY DEF Mq!Create, Mq!Goto, Mq!history
<1>0. MqPlaces'
  BY <1>1, MqPlace DEF MqPos
<1>2. CASE key # 0
  <2>1. key' = key /\ queue' = queue
    BY <1>2 DEF Mq!Create, Mq!kernel, Mq!None
  <2>2. MqTypes'
    BY <1>0, <1>1, <2>1 DEF MqTypes
  <2>3. MqLate'
    BY <1>1, <2>1 DEF MqLate, MqTypes, MqPlaces, Mq!Exists
  <2> QED BY <2>2, <2>3
<1>3. CASE key = 0
  <2>1. queue' = Append(queue, <<>>) /\ key' = Len(queue')
    BY <1>3 DEF Mq!Create, Mq!None
  <2>2. <<>> \in Seq(Senders \X Nat)
    OBVIOUS
  <2>3. queue' \in Seq(Seq(Senders \X Nat)) /\ Len(queue') = Len(queue) + 1
        /\ Len(queue) \in Nat
    BY <2>1, <2>2 DEF MqTypes
  <2>4. MqTypes'
    BY <1>0, <1>1, <2>1, <2>3 DEF MqTypes
  <2>5. \A r \in Receivers : ~Mq!Exists(r)'
    BY <1>1, <2>1, <2>3 DEF MqTypes, Mq!Exists
  <2> QED BY <2>4, <2>5 DEF MqLate
<1> QED BY <1>2, <1>3

LEMMA MqPut ==
  ASSUME Mq!MessagesAssumption, MqInv, NEW p \in Senders, NEW to \in MqPos,
         Mq!Put(p, "send", to, "over")
  PROVE  MqInv'
<1> USE MqSets DEF MqInv
<1>1. /\ pc[p] = "send" /\ pc' = [pc EXCEPT ![p] = IF Mq!Exists(p) THEN to ELSE "over"]
      /\ mq_id' = mq_id /\ status' = status /\ key' = key /\ working' = working
  BY DEF Mq!Put, Mq!Goto, Mq!history
<1>0. MqPlaces'
  <2>1. (IF Mq!Exists(p) THEN to ELSE "over") \in MqPos
    BY DEF MqPos
  <2> QED BY <1>1, <2>1, MqPlace
<1>2. CASE ~Mq!Exists(p)
  <2>1. queue' = queue /\ next' = next /\ p \notin Receivers
    BY <1>2 DEF Mq!Put
  <2>2. pc' = [pc EXCEPT ![p] = "over"] /\ "over" \in MqPos
    BY <1>1, <1>2 DEF MqPos
  <2> QED BY <1>1, <2>1, <2>2, MqMove
<1>3. CASE Mq!Exists(p)
  <2> DEFINE msg == <<p, next[p]>>
  <2>1. /\ queue' = [queue EXCEPT ![key] = Append(queue[key], msg)]
        /\ next' = [next EXCEPT ![p] = next[p] + 1]
    BY <1>3 DEF Mq!Put
  <2>2. key \in 1 .. Len(queue) /\ queue[key] \in Seq(Senders \X Nat)
    BY <1>3, MqQueue DEF Mq!Exists, Mq!None
  <2>3. msg \in Senders \X Nat /\ msg[1] = p
    BY DEF MqTypes
  <2> HIDE DEF msg
  <2>4. Append(queue[key], msg) \in Seq(Senders \X Nat)
    BY <2>2, <2>3
  <2>5. /\ queue' \in Seq(Seq(Senders \X Nat)) /\ Len(queue') = Len(queue)
        /\ queue'[key] = Append(queue[key], msg)
    BY <2>1, <2>2, <2>4 DEF MqTypes
  <2>6. next' \in [Senders -> Nat]
    BY <2>1 DEF MqTypes
  <2>7. MqTypes'
    BY <1>0, <1>1, <2>5, <2>6 DEF MqTypes
  <2>8. Mq!ToSet(queue'[key]) = Mq!ToSet(queue[key]) \union {msg}
    BY <2>2, <2>3, <2>5, InQueue
  <2>9. MqLate'
    BY <1>1, <2>3, <2>8 DEF MqLate, MqTypes, MqPlaces, Mq!Exists
  <2> QED BY <2>7, <2>9
<1> QED BY <1>2, <1>3

LEMMA MqReceive ==
  ASSUME Mq!MessagesAssumption, MqInv, NEW r \in Receivers, Mq!ReceiveNext(r)
  PROVE  MqInv'
<1> USE MqSets DEF MqInv
<1>1. /\ pc[r] = "cycle" /\ pc' = [pc EXCEPT ![r] = "cycle"]
      /\ mq_id' = mq_id /\ next' = next /\ key' = key /\ working' = working
      /\ status' = [status EXCEPT ![r] = 0]
      /\ Mq!Exists(r) /\ queue[key] # <<>>
      /\ queue' = [queue EXCEPT ![key] = Tail(queue[key])]
  BY DEF Mq!ReceiveNext, Mq!Goto, Mq!Get
<1>0. MqPlaces'
  BY <1>1, MqPlace DEF MqPos
<1>2. key \in 1 .. Len(queue) /\ queue[key] \in Seq(Senders \X Nat)
  BY <1>1, MqQueue DEF Mq!Exists, Mq!None
<1>3. Tail(queue[key]) \in Seq(Senders \X Nat)
  BY <1>1, <1>2
<1>4. /\ queue' \in Seq(Seq(Senders \X Nat)) /\ Len(queue') = Len(queue)
      /\ queue'[key] = Tail(queue[key])
  BY <1>1, <1>2, <1>3 DEF MqTypes
<1>5. MqTypes'
  BY <1>0, <1>1, <1>4 DEF MqTypes
<1>6. Mq!ToSet(queue'[key]) \subseteq Mq!ToSet(queue[key])
  BY <1>1, <1>2, <1>4, InQueue
<1>7. MqLate'
  BY <1>1, <1>6 DEF MqLate, MqTypes, MqPlaces, Mq!Exists
<1> QED BY <1>5, <1>7

LEMMA MqLook ==
  ASSUME Mq!MessagesAssumption, MqInv, NEW r \in Receivers, Mq!Look(r)
  PROVE  MqInv'
<1> USE MqSets DEF MqInv
<1>1. /\ pc[r] = "cycle" /\ pc' = [pc EXCEPT ![r] = IF status[r] = 0 THEN "cycle" ELSE "exit"]
      /\ mq_id' = mq_id /\ next' = next /\ key' = key /\ queue' = queue
      /\ status' = [status EXCEPT ![r] = status[r] + 1]
      /\ working' = [working EXCEPT ![r] = {p \in Senders : pc[p] # "over"}]
      /\ queue[key] = <<>>
  BY DEF Mq!Look, Mq!Goto, Mq!kernel
<1>0. MqPlaces'
  BY <1>1, MqPlace DEF MqPos
<1>2. MqTypes'
  BY <1>0, <1>1 DEF MqTypes
<1>3. Mq!ToSet(queue[key]) = {}
  <2>1. <<>> \in Seq({})
    OBVIOUS
  <2> QED BY <1>1, <2>1, InQueue
<1>4. MqLate'
  BY <1>1, <1>3 DEF MqLate, MqTypes, MqPlaces, Mq!Exists
<1> QED BY <1>2, <1>4

LEMMA MqOpen ==
  ASSUME Mq!MessagesAssumption, MqInv, NEW r \in Receivers, Mq!Open(r, "idle", "stat")
  PROVE  MqInv'
<1> USE MqSets DEF MqInv
<1>1. /\ pc[r] = "idle" /\ pc' = [pc EXCEPT ![r] = IF key = 0 THEN "over" ELSE "stat"]
      /\ mq_id' = [mq_id EXCEPT ![r] = key] /\ next' = next /\ key' = key /\ queue' = queue
      /\ status' = status /\ working' = working
  BY DEF Mq!Open, Mq!Goto, Mq!kernel, Mq!history, Mq!None
<1>0. MqPlaces'
  BY <1>1, MqPlace DEF MqPos
<1>2. MqTypes'
  BY <1>0, <1>1 DEF MqTypes
<1>3. MqLate'
  BY <1>1 DEF MqLate, MqTypes, MqPlaces, Mq!Exists
<1> QED BY <1>2, <1>3

LEMMA MqRemove ==
  ASSUME Mq!MessagesAssumption, MqInv, NEW r \in Receivers, Mq!RemoveQ(r)
  PROVE  MqInv'
<1> USE MqSets DEF MqInv
<1>1. /\ pc[r] = "exit" /\ pc' = [pc EXCEPT ![r] = "over"]
      /\ mq_id' = mq_id /\ next' = next /\ queue' = queue
      /\ status' = status /\ working' = working
  BY DEF Mq!RemoveQ, Mq!Goto
<1>0. MqPlaces'
  BY <1>1, MqPlace DEF MqPos
<1>2. CASE ~Mq!Exists(r)
  <2>1. key' = key
    BY <1>2 DEF Mq!RemoveQ
  <2> QED BY <1>1, <1>2, <2>1, MqMove DEF MqPos
<1>3. CASE Mq!Exists(r)
  <2>1. key' = 0
    BY <1>3 DEF Mq!RemoveQ, Mq!None
  <2>2. MqTypes'
    BY <1>0, <1>1, <2>1 DEF MqTypes
  <2>3. \A q \in Receivers : ~Mq!Exists(q)'
    BY <2>1 DEF Mq!Exists, Mq!None
  <2> QED BY <2>2, <2>3 DEF MqLate
<1> QED BY <1>2, <1>3

\* A failure or a test that only moves a process.
LEMMA MqFail ==
  ASSUME Mq!MessagesAssumption, MqInv, NEW p \in Senders \union Receivers, NEW from,
         NEW to \in MqPos, Mq!Fail(p, from, to), from # "over",
         p \in Receivers => to # "exit" \/ ~Mq!Exists(p)
  PROVE  MqInv'
<1>1. /\ pc[p] = from /\ pc' = [pc EXCEPT ![p] = to] /\ key' = key /\ queue' = queue
      /\ mq_id' = mq_id /\ status' = status /\ next' = next /\ working' = working
  BY DEF Mq!Fail, Mq!Goto, Mq!kernel, Mq!history
<1> QED BY <1>1, MqMove

LEMMA MqNext == MqQ /\ [Mq!Next]_Mq!vars => MqQ'
<1> SUFFICES ASSUME MqQ, [Mq!Next]_Mq!vars PROVE MqQ'
  OBVIOUS
<1>1. CASE UNCHANGED Mq!vars
  BY <1>1 DEF MqQ, Mq!MessagesAssumption, MqInv, MqTypes, MqLate, Mq!Exists, Mq!vars,
     MqPlaces, Mq!processes, Mq!kernel, Mq!history
<1>2. ASSUME NEW p \in Mq!Processes, Mq!Step(p) PROVE MqQ'
  <2> SUFFICES ASSUME program' = "args" PROVE MqInv'
    BY DEF MqQ, Mq!MessagesAssumption
  <2>1. program' = program
    BY <1>2 DEF Mq!Step, Mq!Parent, Mq!Fork, Mq!SendArgs, Mq!ChildStep, Mq!Cycle, Mq!Create,
       Mq!Fail, Mq!Put, Mq!RemoveQ, Mq!Exec, Mq!ExecFails, Mq!Open, Mq!Receive,
       Mq!ReceiveNext, Mq!Look, Mq!Goto
  <2>2. program = "args" /\ MqInv /\ Mq!MessagesAssumption
    BY <2>1 DEF MqQ
  <2>3. CASE p \in Senders /\ Mq!SendArgs(p)
    <3>1. CASE Mq!Create(p, "idle", "stat")
      BY <2>2, <2>3, <3>1, MqCreate
    <3>2. CASE Mq!Fail(p, "idle", "over")
      <4>1. "over" \in MqPos
        BY DEF MqPos
      <4> QED BY <2>2, <2>3, <3>2, <4>1, MqFail, MqSets
    <3>3. CASE Mq!Fail(p, "stat", IF Mq!Exists(p) THEN "send" ELSE "over")
      <4>1. (IF Mq!Exists(p) THEN "send" ELSE "over") \in MqPos
        BY DEF MqPos
      <4> QED BY <2>2, <2>3, <3>3, <4>1, MqFail, MqSets
    <3>4. CASE Mq!Put(p, "send", IF next[p] < ARGS THEN "send" ELSE "over", "over")
      <4>1. (IF next[p] < ARGS THEN "send" ELSE "over") \in MqPos
        BY DEF MqPos
      <4> QED BY <2>2, <2>3, <3>4, <4>1, MqPut
    <3> QED BY <2>3, <3>1, <3>2, <3>3, <3>4 DEF Mq!SendArgs
  <2>4. CASE p \in Receivers /\ Mq!Cycle(p)
    <3>1. CASE Mq!Open(p, "idle", "stat")
      BY <2>2, <2>4, <3>1, MqOpen
    <3>2. CASE Mq!Fail(p, "stat", IF Mq!Exists(p) THEN "cycle" ELSE "exit")
      <4>1. (IF Mq!Exists(p) THEN "cycle" ELSE "exit") \in MqPos
        BY DEF MqPos
      <4> QED BY <2>2, <2>4, <3>2, <4>1, MqFail
    <3>3. CASE Mq!ReceiveNext(p)
      BY <2>2, <2>4, <3>3, MqReceive
    <3>4. CASE Mq!Look(p)
      BY <2>2, <2>4, <3>4, MqLook
    <3>5. CASE ~Mq!Exists(p) /\ Mq!Fail(p, "cycle", "exit")
      <4>1. "exit" \in MqPos
        BY DEF MqPos
      <4> QED BY <2>2, <2>4, <3>5, <4>1, MqFail
    <3>6. CASE Mq!RemoveQ(p)
      BY <2>2, <2>4, <3>6, MqRemove
    <3> QED BY <2>4, <3>1, <3>2, <3>3, <3>4, <3>5, <3>6 DEF Mq!Cycle
  <2>5. CASE p \in Mq!Children /\ Mq!ChildStep(p)
    BY <2>2, <2>5 DEF MqInv, MqTypes, MqPlaces, Mq!ChildStep, Mq!Exec, Mq!ExecFails, Mq!RemoveQ,
       Mq!Open, Mq!Receive, Mq!Fail, Mq!Goto
  <2>6. CASE Mq!Parent(p) \/ Mq!Fork(p)
    BY <2>2, <2>6 DEF Mq!Parent, Mq!Fork
  <2> QED BY <1>2, <2>3, <2>4, <2>5, <2>6 DEF Mq!Step
<1>3. ASSUME NEW p \in Mq!Processes, Mq!CallFails(p) PROVE MqQ'
  <2> SUFFICES ASSUME program' = "args" PROVE MqInv'
    BY DEF MqQ, Mq!MessagesAssumption
  <2>1. program' = program
    BY <1>3 DEF Mq!CallFails, Mq!Fail, Mq!Goto
  <2>2. program = "args" /\ MqInv /\ Mq!MessagesAssumption
    BY <2>1 DEF MqQ
  <2>3. CASE p \in Senders /\ Mq!Fail(p, "send", "over")
    <3>1. "over" \in MqPos
      BY DEF MqPos
    <3> QED BY <2>2, <2>3, <3>1, MqFail, MqSets
  <2>4. CASE p \in Mq!Children /\ Mq!Fail(p, "receive", "over")
    BY <2>2, <2>4 DEF MqInv, MqTypes, MqPlaces, Mq!Fail, Mq!Goto
  <2> QED BY <1>3, <2>2, <2>3, <2>4 DEF Mq!CallFails
<1> QED BY <1>1, <1>2, <1>3 DEF Mq!Next, Mq!Stopped

\* The step that loses messages is the removal by a receiver of messagesSV_rcv_cycle.
LEMMA MqLosing ==
  ASSUME MqQ, [Mq!Next]_Mq!vars, program = "args", lost' # lost
  PROVE  \E r \in Receivers :
           /\ pc[r] = "exit" /\ pc'[r] = "over"
           /\ \A m \in lost' \ lost : m[1] \in working[r]
<1>1. MqInv /\ Mq!MessagesAssumption
  BY DEF MqQ
<1>2. PICK p \in Mq!Processes : Mq!Step(p)
  BY DEF Mq!Next, Mq!Stopped, Mq!vars, Mq!CallFails, Mq!Fail, Mq!history
<1>3. p \in Receivers /\ Mq!RemoveQ(p)
  <2>1. CASE p \in Senders /\ Mq!SendArgs(p)
    BY <2>1 DEF Mq!SendArgs, Mq!Create, Mq!Fail, Mq!Put, Mq!history
  <2>2. CASE p \in Receivers /\ Mq!Cycle(p)
    BY <2>2 DEF Mq!Cycle, Mq!Open, Mq!Fail, Mq!ReceiveNext, Mq!Get, Mq!Look, Mq!history
  <2>3. CASE p \in Mq!Children /\ Mq!ChildStep(p)
    BY <1>1, <2>3 DEF MqInv, MqTypes, MqPlaces, Mq!ChildStep, Mq!Exec, Mq!ExecFails, Mq!RemoveQ,
       Mq!Open, Mq!Receive, Mq!Fail, Mq!Goto
  <2>4. CASE Mq!Parent(p) \/ Mq!Fork(p)
    BY <2>4 DEF Mq!Parent, Mq!Fork
  <2> QED BY <1>2, <2>1, <2>2, <2>3, <2>4 DEF Mq!Step
<1>4. pc[p] = "exit" /\ pc' = [pc EXCEPT ![p] = "over"] /\ p \in DOMAIN pc
  BY <1>1, <1>3, MqSets DEF Mq!RemoveQ, Mq!Goto, MqInv, MqTypes, MqPlaces
<1>5. Mq!Exists(p) /\ lost' = lost \union Mq!ToSet(queue[key])
  BY <1>3 DEF Mq!RemoveQ
<1>6. \A m \in lost' \ lost : m[1] \in working[p]
  BY <1>1, <1>3, <1>4, <1>5 DEF MqInv, MqLate
<1> QED BY <1>3, <1>4, <1>6

\* LostOnlyLate: messagesSV_rcv_cycle removes the queue without a look at it, and still loses
\* no message but those of senders that were not through (at work, or not started yet) when it
\* had last found the queue empty.
THEOREM LatecomersOnly == Mq!MessagesAssumption => (Mq!Spec => Mq!LostOnlyLate)
<1>1. MqQ /\ [Mq!Next]_Mq!vars =>
        [program = "args" /\ lost' # lost =>
           \E r \in Receivers :
             /\ pc[r] = "exit" /\ pc'[r] = "over"
             /\ \A m \in lost' \ lost : m[1] \in working[r]]_Mq!vars
  BY MqLosing
<1> QED BY <1>1, MqInit, MqNext, PTL DEF Mq!Spec, Mq!LostOnlyLate
===============================================================================
