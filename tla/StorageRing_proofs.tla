-------------------------- MODULE StorageRing_proofs --------------------------
(***************************************************************************)
(* Proofs about StorageRing, for any limits and numbers of items: no race  *)
(* makes a thread leave the ring, and no consumer ends before the          *)
(* producers in the programs with a quit item.                             *)
(***************************************************************************)
EXTENDS StorageRing, TLAPS

\* The only producer and consumer of bounded_buffer.c.
Single == {<<"producer", 0>>, <<"consumer", 0>>}

Using == {"write", "read", "index", "advance"}

Types ==
  /\ program \in Programs /\ capacity \in Nat \ {0}
  /\ pc \in [Thread -> {"none", "barrier", "waiting", "produce", "take", "gone"} \cup Using]
  /\ in \in Nat /\ out \in Nat /\ reg \in [Thread -> Nat]
  /\ slot \in [Thread -> 0 .. capacity - 1]
  /\ buf \in [0 .. capacity - 1 -> {"empty", "item", "quit"}]
  /\ item \in [Consumer -> {"empty", "item", "quit"}]

\* The index is in the ring when a thread takes it: always, or, if the increment is postponed,
\* while the only thread that changes it is not about to.
InRing ==
  /\ ~program.postponed => in < capacity /\ out < capacity
  /\ program.postponed =>
       /\ producers = 1 /\ consumers = 1
       /\ \A t \in Thread \ Single : pc[t] = "none"
       /\ pc[<<"producer", 0>>] \notin Using => in < capacity
       /\ pc[<<"consumer", 0>>] \notin Using => out < capacity

\* A quit item has been stored by the last producer, which starts when the others have ended.
QuitStored ==
  \/ \E n \in DOMAIN buf : buf[n] = "quit"
  \/ \E c \in Consumer : item[c] = "quit" \/ pc[c] = "gone"

QuitterLast ==
  program.quits =>
    /\ QuitStored => pc[Quitter] # "none"
    /\ pc[Quitter] # "none" => /\ main \in {"quit", "release", "over", "hung"}
                               /\ \A p \in Producer : pc[p] \in {"none", "gone"}

IInv == Types /\ InRing /\ QuitterLast
-------------------------------------------------------------------------------
LEMMA Kinds ==
  /\ Producer \subseteq Thread /\ Consumer \subseteq Thread /\ Quitter \in Thread
  /\ Quitter \notin Producer /\ Quitter \notin Consumer /\ Producer \cap Consumer = {}
  /\ <<"producer", 0>> \in Producer /\ <<"consumer", 0>> \in Consumer
  /\ Thread = Producer \cup Consumer \cup {Quitter}
<1>1. Quitter \notin Producer
  <2>1. \A n \in 0 .. MAX_PRODUCERS - 1 : <<"producer", n>> # <<"producer", -1>>
    OBVIOUS
  <2> QED BY <2>1 DEF Producer, Quitter
<1>2. Quitter \notin Consumer /\ Producer \cap Consumer = {}
  BY DEF Quitter, Consumer, Producer
<1>3. 0 \in 0 .. MAX_PRODUCERS - 1 /\ 0 \in 0 .. MAX_CONSUMERS - 1
  BY RingAssumption
<1> QED BY <1>1, <1>2, <1>3 DEF Producer, Consumer, Thread

\* What the programs have in common with each other.
LEMMA ProgramFacts ==
  ASSUME NEW g \in Programs
  PROVE  /\ g.postponed \in BOOLEAN /\ g.quits \in BOOLEAN
         /\ g.postponed <=> ~g.quits
         /\ g.postponed <=> g.options = "none"
<1>1. CASE g = producer_consumer
  BY <1>1 DEF producer_consumer
<1>2. CASE g = ProducerConsumer_v5
  BY <1>2 DEF ProducerConsumer_v5
<1>3. CASE g = bounded_buffer
  BY <1>3 DEF bounded_buffer
<1> QED BY <1>1, <1>2, <1>3, RingAssumption

LEMMA InitInv == Init => IInv
<1> SUFFICES ASSUME Init PROVE IInv
  OBVIOUS
<1>1. program \in Programs
  BY DEF Init
<1>2. capacity \in Nat \ {0}
  <2>1. \A n \in Asked(MAX_CAPACITY) : Effective(n, MAX_CAPACITY) \in Nat \ {0}
    BY RingAssumption DEF Asked, Effective
  <2> QED BY <2>1, RingAssumption DEF Init, eval_params
<1>3. /\ slot = [t \in Thread |-> 0] /\ reg = slot /\ in = 0 /\ out = 0
      /\ pc = [t \in Thread |-> "none"]
      /\ buf = [n \in 0 .. capacity - 1 |-> "empty"]
      /\ item = [t \in Consumer |-> "empty"]
  BY DEF Init
<1>4. Types
  <2>1. 0 \in 0 .. capacity - 1
    BY <1>2
  <2> QED BY <1>1, <1>2, <1>3, <2>1 DEF Types
<1>5. InRing
  <2>1. program.postponed => producers = 1 /\ consumers = 1
    BY <1>1, ProgramFacts DEF Init
  <2>2. 0 < capacity
    BY <1>2
  <2> QED BY <1>3, <2>1, <2>2 DEF InRing
<1>6. QuitterLast
  BY <1>3, Kinds DEF QuitterLast, QuitStored
<1> QED BY <1>4, <1>5, <1>6 DEF IInv

\* A thread's step from one place to another.
LEMMA Moves ==
  ASSUME IInv, NEW t \in Thread, NEW from, NEW to, Goto(t, from, to)
  PROVE  /\ pc[t] = from /\ pc'[t] = to /\ \A u \in Thread \ {t} : pc'[u] = pc[u]
         /\ UNCHANGED <<program, capacity, producers, consumers, main>>
BY DEF Goto, options, IInv, Types

\* Only the single producer and consumer are there when the increment is postponed.
LEMMA OnlySingle ==
  ASSUME IInv, NEW t \in Thread, pc[t] # "none", program.postponed
  PROVE  t \in Single
BY DEF IInv, InRing

LEMMA InTheRing ==
  ASSUME NEW n \in Nat, NEW m \in Nat \ {0}
  PROVE  n % m \in 0 .. m - 1
OBVIOUS

\* A thread that moves has been started, so it is not a producer beside the last one.
LEMMA QuitterStep ==
  ASSUME IInv, NEW t \in Thread, NEW from, NEW to, Goto(t, from, to),
         from \notin {"none", "gone"}, to # "none",
         t # Quitter /\ program.quits => (QuitStored' => QuitStored)
  PROVE  QuitterLast'
<1>1. /\ pc[t] = from /\ pc'[t] = to /\ \A u \in Thread \ {t} : pc'[u] = pc[u]
      /\ UNCHANGED <<program, main>>
  BY Moves
<1>2. SUFFICES ASSUME program.quits
               PROVE  /\ QuitStored' => pc'[Quitter] # "none"
                      /\ pc'[Quitter] # "none" =>
                           /\ main \in {"quit", "release", "over", "hung"}
                           /\ \A p \in Producer : pc'[p] \in {"none", "gone"}
  BY <1>1 DEF QuitterLast
<1>3. /\ QuitStored => pc[Quitter] # "none"
      /\ pc[Quitter] # "none" => /\ main \in {"quit", "release", "over", "hung"}
                                 /\ \A p \in Producer : pc[p] \in {"none", "gone"}
  BY <1>2 DEF IInv, QuitterLast
<1>4. t \in Producer => pc[Quitter] = "none"
  BY <1>1, <1>3
<1>5. pc'[Quitter] # "none" => pc[Quitter] # "none"
  BY <1>1, Kinds
<1>6. pc[Quitter] # "none" => pc'[Quitter] # "none"
  BY <1>1, Kinds
<1>7. t \notin Producer => \A p \in Producer : pc'[p] = pc[p]
  BY <1>1, Kinds
<1> QED BY <1>2, <1>3, <1>4, <1>5, <1>6, <1>7, <1>1

LEMMA InRingStep ==
  ASSUME IInv, NEW t \in Thread, NEW from, NEW to, Goto(t, from, to), from # "none",
         ~program.postponed => in' < capacity /\ out' < capacity,
         program.postponed /\ t = <<"producer", 0>> =>
           out' = out /\ (to \notin Using => in' < capacity),
         program.postponed /\ t = <<"consumer", 0>> =>
           in' = in /\ (to \notin Using => out' < capacity)
  PROVE  InRing'
<1>1. /\ pc[t] = from /\ pc'[t] = to /\ \A u \in Thread \ {t} : pc'[u] = pc[u]
      /\ UNCHANGED <<program, capacity, producers, consumers>>
  BY Moves
<1>2. CASE program.postponed
  <2>1. t \in Single
    BY <1>1, <1>2, OnlySingle
  <2>2. \A u \in Thread \ Single : pc'[u] = "none"
    BY <1>1, <1>2, <2>1 DEF IInv, InRing
  <2>3. /\ pc'[<<"producer", 0>>] \notin Using => in' < capacity
        /\ pc'[<<"consumer", 0>>] \notin Using => out' < capacity
    <3>1. <<"producer", 0>> \in Thread /\ <<"consumer", 0>> \in Thread
          /\ <<"producer", 0>> # <<"consumer", 0>>
      BY Kinds
    <3>2. CASE t = <<"producer", 0>>
      BY <1>1, <1>2, <3>1, <3>2 DEF IInv, InRing
    <3>3. CASE t = <<"consumer", 0>>
      BY <1>1, <1>2, <3>1, <3>3 DEF IInv, InRing
    <3> QED BY <2>1, <3>2, <3>3 DEF Single
  <2> QED BY <1>1, <1>2, <2>2, <2>3 DEF IInv, InRing
<1>3. CASE ~program.postponed
  BY <1>1, <1>3 DEF InRing
<1> QED BY <1>2, <1>3

\* The steps that neither move an index nor touch the ring.
LEMMA QuietInv ==
  ASSUME IInv, NEW t \in Thread, NEW from, NEW to, Goto(t, from, to),
         from \notin {"none", "gone"},
         to \in {"barrier", "waiting", "produce", "take", "gone"} \cup Using,
         to = "gone" => t \notin Consumer,
         from \in Using => to \in Using,
         UNCHANGED <<buf, in, out, item, slot>>, reg' \in [Thread -> Nat]
  PROVE  IInv'
<1>1. /\ pc[t] = from /\ pc'[t] = to /\ \A u \in Thread \ {t} : pc'[u] = pc[u]
      /\ UNCHANGED <<program, capacity, producers, consumers, main>>
  BY Moves
<1>2. Types'
  BY <1>1 DEF IInv, Types, Goto
<1>3. QuitterLast'
  <2>1. QuitStored' => QuitStored
    BY <1>1, Kinds DEF QuitStored
  <2> QED BY <2>1, QuitterStep DEF Using
<1>4. InRing'
  <2>1. ~program.postponed => in' < capacity /\ out' < capacity
    BY DEF IInv, InRing
  <2>2. program.postponed /\ t = <<"producer", 0>> => (to \notin Using => in' < capacity)
    BY <1>1 DEF IInv, InRing
  <2>3. program.postponed /\ t = <<"consumer", 0>> => (to \notin Using => out' < capacity)
    BY <1>1 DEF IInv, InRing
  <2> QED BY <2>1, <2>2, <2>3, InRingStep
<1> QED BY <1>2, <1>3, <1>4 DEF IInv

\* An index is taken from the ring, and may be incremented at once.
LEMMA TakeIndexInv ==
  ASSUME IInv, NEW t \in Thread,
         \/ Produce(t) /\ t \notin Consumer
         \/ Take(t) /\ t \in Consumer
  PROVE  IInv'
<1> DEFINE from == IF t \in Consumer THEN "take" ELSE "produce"
           to   == IF t \in Consumer THEN "read" ELSE "write"
           i    == IF t \in Consumer THEN out ELSE in
<1>1. /\ Goto(t, from, to) /\ slot' = [slot EXCEPT ![t] = i]
      /\ UNCHANGED <<buf, reg, item>>
      /\ in' = (IF t \in Consumer THEN in ELSE Bumped(in))
      /\ out' = (IF t \in Consumer THEN Bumped(out) ELSE out)
  BY DEF Produce, Take
<1>2. from \in {"produce", "take"} /\ to \in {"read", "write"}
  OBVIOUS
<1> HIDE DEF from, to
<1>3. /\ pc[t] = from /\ pc'[t] = to /\ \A u \in Thread \ {t} : pc'[u] = pc[u]
      /\ UNCHANGED <<program, capacity, producers, consumers, main>>
  BY <1>1, Moves
<1>4. in \in Nat /\ out \in Nat /\ capacity \in Nat \ {0} /\ program \in Programs
  BY DEF IInv, Types
<1>5. i \in 0 .. capacity - 1
  <2>1. CASE program.postponed
    <3>1. t \in Single /\ from \notin Using
      BY <1>2, <1>3, <2>1, OnlySingle DEF Using
    <3>2. t = <<"producer", 0>> => t \notin Consumer
      BY Kinds
    <3>3. t = <<"consumer", 0>> => t \in Consumer
      BY Kinds
    <3>4. i < capacity
      BY <1>3, <2>1, <3>1, <3>2, <3>3 DEF IInv, InRing, Single
    <3> QED BY <1>4, <3>4
  <2>2. CASE ~program.postponed
    BY <1>4, <2>2 DEF IInv, InRing
  <2> QED BY <2>1, <2>2
<1> HIDE DEF i
<1>6. \A n \in Nat : Bumped(n) \in Nat /\ (~program.postponed => Bumped(n) = n)
  BY DEF Bumped
<1>7. Types'
  BY <1>1, <1>2, <1>3, <1>4, <1>5, <1>6 DEF IInv, Types, Using, Goto
<1>8. InRing'
  <2>1. ~program.postponed => in' < capacity /\ out' < capacity
    BY <1>1, <1>4, <1>6 DEF IInv, InRing
  <2>2. to \in Using /\ from # "none"
    BY <1>2 DEF Using
  <2>3. (t = <<"producer", 0>> => out' = out) /\ (t = <<"consumer", 0>> => in' = in)
    BY <1>1, Kinds
  <2> QED BY <1>1, <2>1, <2>2, <2>3, InRingStep
<1>9. QuitterLast'
  <2>1. QuitStored' => QuitStored
    BY <1>1, <1>2, <1>3, Kinds DEF QuitStored
  <2>2. from \notin {"none", "gone"} /\ to # "none"
    BY <1>2
  <2> QED BY <1>1, <2>1, <2>2, QuitterStep
<1> QED BY <1>7, <1>8, <1>9 DEF IInv

\* An item is written: a quit item by the last producer only.
LEMMA WriteInv ==
  ASSUME IInv, NEW t \in Producer \cup {Quitter}, Write(t) PROVE IInv'
<1>1. /\ Goto(t, "write", "index") /\ UNCHANGED <<in, out, slot, reg, item>>
      /\ buf' = [buf EXCEPT ![slot[t]] = IF t = Quitter THEN "quit" ELSE "item"]
  BY DEF Write
<1>2. /\ t \in Thread /\ pc[t] = "write" /\ pc'[t] = "index"
      /\ \A u \in Thread \ {t} : pc'[u] = pc[u]
      /\ UNCHANGED <<program, capacity, producers, consumers, main>>
  BY <1>1, Kinds, Moves
<1>3. Types'
  BY <1>1, <1>2 DEF IInv, Types, Using, Goto
<1>4. InRing'
  <2>1. ~program.postponed => in' < capacity /\ out' < capacity
    BY <1>1 DEF IInv, InRing
  <2>2. "index" \in Using
    BY DEF Using
  <2> QED BY <1>1, <1>2, <2>1, <2>2, InRingStep
<1>5. QuitterLast'
  <2>1. t # Quitter => (QuitStored' => QuitStored)
    BY <1>1, <1>2, Kinds DEF QuitStored, IInv, Types
  <2> QED BY <1>1, <1>2, <2>1, QuitterStep
<1> QED BY <1>3, <1>4, <1>5 DEF IInv

\* An item is read from the ring.
LEMMA ReadInv == ASSUME IInv, NEW c \in Consumer, Read(c) PROVE IInv'
<1>1. /\ Goto(c, "read", "index") /\ UNCHANGED <<buf, in, out, slot, reg>>
      /\ item' = [item EXCEPT ![c] = buf[slot[c]]]
  BY DEF Read
<1>2. /\ c \in Thread /\ pc[c] = "read" /\ pc'[c] = "index"
      /\ \A u \in Thread \ {c} : pc'[u] = pc[u]
      /\ UNCHANGED <<program, capacity, producers, consumers, main>>
  BY <1>1, Kinds, Moves
<1>3. slot[c] \in DOMAIN buf
  BY <1>2 DEF IInv, Types
<1>4. Types'
  BY <1>1, <1>2, <1>3 DEF IInv, Types, Using, Goto
<1>5. InRing'
  <2>1. ~program.postponed => in' < capacity /\ out' < capacity
    BY <1>1 DEF IInv, InRing
  <2>2. "index" \in Using
    BY DEF Using
  <2> QED BY <1>1, <1>2, <2>1, <2>2, InRingStep
<1>6. QuitterLast'
  <2>1. QuitStored' => QuitStored
    BY <1>1, <1>2, <1>3, Kinds DEF QuitStored, IInv, Types
  <2> QED BY <1>1, <1>2, <2>1, QuitterStep
<1> QED BY <1>4, <1>5, <1>6 DEF IInv

\* A thread waits at the barrier.
LEMMA ArriveInv == ASSUME IInv, NEW t \in Thread, Arrive(t) PROVE IInv'
<1>1. Goto(t, "barrier", "waiting") /\ UNCHANGED <<buf, in, out, item, slot, reg>>
  BY DEF Arrive
<1>2. reg' \in [Thread -> Nat]
  BY <1>1 DEF IInv, Types
<1> QED BY <1>1, <1>2, QuietInv DEF Using

\* An index is loaded to be incremented.
LEMMA LoadInv ==
  ASSUME IInv, NEW t \in Thread, NEW index \in Nat, LoadIndex(t, index) PROVE IInv'
<1>1. Goto(t, "index", "advance") /\ UNCHANGED <<buf, in, out, slot, item>>
  BY DEF LoadIndex
<1>2. slot[t] \in Nat
  BY DEF IInv, Types
<1>3. reg' \in [Thread -> Nat]
  BY <1>2 DEF LoadIndex, IInv, Types
<1> QED BY <1>1, <1>3, QuietInv DEF Using

\* An index is stored, in the ring.
LEMMA StoreInv ==
  ASSUME IInv, NEW t \in Thread,
         \/ StoreIn(t) /\ t \notin Consumer
         \/ StoreOut(t) /\ t \in Consumer
  PROVE  IInv'
<1> DEFINE to == IF t \notin Consumer THEN "produce" ELSE IF LastTaken(t) THEN "gone" ELSE "take"
<1>1. /\ Goto(t, "advance", to) /\ UNCHANGED <<buf, slot, reg, item>>
      /\ in' = (IF t \in Consumer THEN in ELSE Advanced(t))
      /\ out' = (IF t \in Consumer THEN Advanced(t) ELSE out)
  BY DEF StoreIn, StoreOut
<1>2. /\ to \in {"produce", "gone", "take"}
      /\ to = "gone" => t \in Consumer /\ LastTaken(t)
  OBVIOUS
<1> HIDE DEF to
<1>3. /\ pc[t] = "advance" /\ pc'[t] = to /\ \A u \in Thread \ {t} : pc'[u] = pc[u]
      /\ UNCHANGED <<program, capacity, producers, consumers, main>>
  BY <1>1, Moves
<1>4. in \in Nat /\ out \in Nat /\ capacity \in Nat \ {0} /\ reg[t] \in Nat
  BY DEF IInv, Types
<1>5. Advanced(t) \in 0 .. capacity - 1
  <2>1. Advanced(t) = reg[t] % capacity \/ Advanced(t) = (reg[t] + 1) % capacity
    BY DEF Advanced
  <2>2. reg[t] + 1 \in Nat
    BY <1>4
  <2> QED BY <1>4, <2>1, <2>2, InTheRing
<1>6. Advanced(t) \in Nat /\ Advanced(t) < capacity
  BY <1>4, <1>5
<1> HIDE DEF Advanced
<1>7. Types'
  <2>1. in' \in Nat /\ out' \in Nat
    BY <1>1, <1>4, <1>6
  <2> QED BY <1>1, <1>2, <1>3, <2>1 DEF IInv, Types, Goto
<1>8. InRing'
  <2>1. ~program.postponed => in' < capacity /\ out' < capacity
    BY <1>1, <1>6 DEF IInv, InRing
  <2>2. t = <<"producer", 0>> => out' = out /\ in' < capacity
    BY <1>1, <1>6, Kinds
  <2>3. t = <<"consumer", 0>> => in' = in /\ out' < capacity
    BY <1>1, <1>6, Kinds
  <2> QED BY <1>1, <2>1, <2>2, <2>3, InRingStep
<1>9. QuitterLast'
  <2>1. program.quits => (QuitStored' => QuitStored)
    BY <1>1, <1>2, <1>3, Kinds DEF QuitStored, LastTaken
  <2>2. to # "none"
    BY <1>2
  <2> QED BY <1>1, <2>1, <2>2, QuitterStep
<1> QED BY <1>7, <1>8, <1>9 DEF IInv
-------------------------------------------------------------------------------
LEMMA ProducerInv == ASSUME IInv, NEW p \in Producer \cup {Quitter}, producer(p) PROVE IInv'
<1>1. p \in Thread /\ p \notin Consumer /\ in \in Nat
  BY Kinds DEF IInv, Types
<1>2. CASE Arrive(p)
  BY <1>1, <1>2, ArriveInv
<1>3. CASE Produce(p)
  BY <1>1, <1>3, TakeIndexInv
<1>4. CASE Produced(p)
  <2>1. Goto(p, "produce", "gone") /\ UNCHANGED <<buf, in, out, item, slot, reg>>
    BY <1>4 DEF Produced
  <2>2. reg' \in [Thread -> Nat]
    BY <2>1 DEF IInv, Types
  <2> QED BY <1>1, <2>1, <2>2, QuietInv DEF Using
<1>5. CASE Write(p)
  BY <1>5, WriteInv
<1>6. CASE LoadIndex(p, in)
  BY <1>1, <1>6, LoadInv
<1>7. CASE StoreIn(p)
  BY <1>1, <1>7, StoreInv
<1> QED BY <1>2, <1>3, <1>4, <1>5, <1>6, <1>7 DEF producer

LEMMA ConsumerInv == ASSUME IInv, NEW c \in Consumer, consumer(c) PROVE IInv'
<1>1. c \in Thread /\ out \in Nat
  BY Kinds DEF IInv, Types
<1>2. CASE Arrive(c)
  BY <1>1, <1>2, ArriveInv
<1>3. CASE Take(c)
  BY <1>1, <1>3, TakeIndexInv
<1>4. CASE Read(c)
  BY <1>4, ReadInv
<1>5. CASE LoadIndex(c, out)
  BY <1>1, <1>5, LoadInv
<1>6. CASE StoreOut(c)
  BY <1>1, <1>6, StoreInv
<1> QED BY <1>2, <1>3, <1>4, <1>5, <1>6 DEF consumer

\* The barrier lets threads through that use no index.
LEMMA MeetInv == ASSUME IInv, Meet PROVE IInv'
<1>1. /\ pc' = [t \in Thread |-> IF pc[t] = "waiting" THEN First(t) ELSE pc[t]]
      /\ UNCHANGED <<program, capacity, producers, consumers, main, buf, in, out, slot, reg, item>>
  BY DEF Meet, options
<1>2. \A t \in Thread : First(t) \in {"take", "produce"}
  BY DEF First
<1> HIDE DEF First
<1>3. /\ \A t \in Thread : pc[t] = "waiting" => pc'[t] \in {"take", "produce"}
      /\ \A t \in Thread : pc[t] # "waiting" => pc'[t] = pc[t]
  BY <1>1, <1>2
<1>4. \A t \in Thread : /\ (pc'[t] = "none") <=> (pc[t] = "none")
                        /\ (pc'[t] = "gone") <=> (pc[t] = "gone")
                        /\ (pc'[t] \in Using) <=> (pc[t] \in Using)
  BY <1>3 DEF Using
<1>5. Types'
  BY <1>1, <1>2 DEF IInv, Types
<1>6. InRing'
  BY <1>1, <1>4, Kinds DEF IInv, InRing
<1>7. QuitterLast'
  <2>1. QuitStored' <=> QuitStored
    BY <1>1, <1>4, Kinds DEF QuitStored
  <2> QED BY <1>1, <1>4, <2>1, Kinds DEF IInv, QuitterLast
<1> QED BY <1>5, <1>6, <1>7 DEF IInv

\* main moves on and starts nobody.
LEMMA MainStillInv ==
  ASSUME IInv, NEW from, NEW to, MainGoto(from, to), UNCHANGED pc,
         from \in {"create", "join"} \/ to \in {"release", "over", "hung"}
  PROVE  IInv'
<1>1. /\ main = from /\ main' = to
      /\ UNCHANGED <<program, capacity, producers, consumers, pc, buf, in, out, slot, reg, item>>
  BY DEF MainGoto, options
<1>2. Types'
  BY <1>1 DEF IInv, Types
<1>3. InRing'
  BY <1>1 DEF IInv, InRing
<1>4. QuitterLast'
  <2>1. QuitStored' <=> QuitStored
    BY <1>1 DEF QuitStored
  <2> QED BY <1>1, <2>1 DEF IInv, QuitterLast
<1> QED BY <1>2, <1>3, <1>4 DEF IInv


\* main starts a thread, other than the last producer while it creates them.
LEMMA LaunchInv ==
  ASSUME IInv, NEW to, NEW t, NEW where \in {"run", "barrier"}, Launch(t, where),
         \/ /\ MainGoto("create", to)
            /\ program.postponed => t \in Single
            /\ t # Quitter
         \/ /\ MainGoto("join", "quit")
            /\ t = Quitter /\ program.quits
            /\ \A p \in Producer : pc[p] \in {"none", "gone"}
  PROVE  IInv'
<1>1. /\ main \in {"create", "join"} /\ (t = Quitter => main' = "quit")
      /\ UNCHANGED <<program, capacity, producers, consumers, buf, in, out, slot, reg, item>>
  BY DEF MainGoto, options
<1>2. First(t) \in {"take", "produce"}
  BY DEF First
<1> HIDE DEF First
<1>3. /\ pc[t] = "none"
      /\ \E place \in {"take", "produce", "barrier"} : pc' = [pc EXCEPT ![t] = place]
  BY <1>2 DEF Launch
<1>4. Types'
  BY <1>1, <1>3 DEF IInv, Types
<1>5. PICK place \in {"take", "produce", "barrier"} : pc' = [pc EXCEPT ![t] = place]
  BY <1>3
<1>6. /\ \A u \in Thread \ {t} : pc'[u] = pc[u]
      /\ t \in Thread => pc'[t] = place
  BY <1>5 DEF IInv, Types
<1>7. place \notin Using /\ place # "gone" /\ "none" \notin Using
  BY DEF Using
<1>8. \A u \in Thread : /\ (pc'[u] = "gone") => (pc[u] = "gone")
                        /\ (pc[u] \in {"none", "gone"}) => (pc'[u] \in {"none", "gone"} \/ u = t)
                        /\ (pc[u] \in Using) <=> (pc'[u] \in Using)
  BY <1>3, <1>6, <1>7
<1>9. InRing'
  <2>1. program.postponed => t \in Single
    BY ProgramFacts DEF IInv, Types
  <2> QED BY <1>1, <1>6, <1>8, <2>1, Kinds DEF IInv, InRing
<1>10. QuitterLast'
  <2> SUFFICES ASSUME program.quits PROVE QuitterLast'
    BY <1>1 DEF QuitterLast
  <2>1. pc[Quitter] = "none" /\ ~QuitStored
    BY <1>1 DEF IInv, QuitterLast
  <2>2. ~QuitStored'
    BY <1>1, <1>8, <2>1, Kinds DEF QuitStored
  <2>3. CASE t # Quitter
    <3>1. pc'[Quitter] = "none"
      BY <1>6, <2>1, <2>3, Kinds
    <3> QED BY <2>2, <3>1 DEF QuitterLast
  <2>4. CASE t = Quitter
    <3>1. \A p \in Producer : pc[p] \in {"none", "gone"}
      BY <2>4
    <3>2. \A p \in Producer : pc'[p] \in {"none", "gone"}
      BY <1>6, <2>4, <3>1, Kinds
    <3> QED BY <1>1, <2>2, <2>4, <3>2 DEF QuitterLast
  <2> QED BY <2>3, <2>4
<1> QED BY <1>4, <1>9, <1>10 DEF IInv


LEMMA MainInv == ASSUME IInv, Main PROVE IInv'
<1>1. Entrance \in {"run", "barrier"}
  BY DEF Entrance
<1>2. CASE MainCreate
  <2>1. MainGoto("create", "create")
    BY <1>2 DEF MainCreate
  <2>2. CASE \E n \in 0 .. consumers - 1 : Launch(<<"consumer", n>>, Entrance)
    <3>1. PICK n \in 0 .. consumers - 1 : Launch(<<"consumer", n>>, Entrance)
      BY <2>2
    <3>2. <<"consumer", n>> # Quitter
      BY DEF Quitter
    <3>3. program.postponed => n = 0
      BY DEF IInv, InRing
    <3> QED BY <1>1, <2>1, <3>1, <3>2, <3>3, LaunchInv DEF Single
  <2>3. CASE \E n \in 0 .. producers - 1 : Launch(<<"producer", n>>, Entrance)
    <3>1. PICK n \in 0 .. producers - 1 : Launch(<<"producer", n>>, Entrance)
      BY <2>3
    <3>2. <<"producer", n>> # Quitter
      <4>1. n # -1
        OBVIOUS
      <4> QED BY <4>1 DEF Quitter
    <3>3. program.postponed => n = 0
      BY DEF IInv, InRing
    <3> QED BY <1>1, <2>1, <3>1, <3>2, <3>3, LaunchInv DEF Single
  <2> QED BY <1>2, <2>2, <2>3 DEF MainCreate
<1>3. CASE MainCreateFails
  BY <1>3, MainStillInv DEF MainCreateFails
<1>4. CASE MainCreated
  BY <1>4, MainStillInv DEF MainCreated
<1>5. CASE MainQuit
  BY <1>5, LaunchInv DEF MainQuit
<1>6. CASE MainJoin
  BY <1>6, MainStillInv DEF MainJoin
<1>7. CASE MainRelease
  BY <1>7, MainStillInv DEF MainRelease
<1> QED BY <1>2, <1>3, <1>4, <1>5, <1>6, <1>7 DEF Main

LEMMA NextInv == IInv /\ [Next]_vars => IInv'
<1> SUFFICES ASSUME IInv, [Next]_vars PROVE IInv'
  OBVIOUS
<1>1. ASSUME NEW p \in Producer \cup {Quitter}, producer(p) PROVE IInv'
  BY <1>1, ProducerInv
<1>2. ASSUME NEW c \in Consumer, consumer(c) PROVE IInv'
  BY <1>2, ConsumerInv
<1>3. CASE Meet
  BY <1>3, MeetInv
<1>4. CASE Main
  BY <1>4, MainInv
<1>5. CASE UNCHANGED vars
  BY <1>5 DEF vars, IInv, Types, InRing, QuitterLast, QuitStored
<1> QED BY <1>1, <1>2, <1>3, <1>4, <1>5 DEF Next, Stopped
-------------------------------------------------------------------------------
\* No program accesses its array outside the ring, whatever the races between Produce, Take and
\* the stores of the indices do (InBounds).
THEOREM StaysInRing == Spec => []InBounds
<1>1. IInv => InBounds
  BY DEF IInv, Types, InBounds
<1> QED BY InitInv, NextInv, <1>1, PTL DEF Spec

\* With a quit item, StoreOut ends no consumer before the producers that main joins first have
\* ended (QuitLast).
THEOREM ProducersEndFirst == Spec => []QuitLast
<1>1. IInv => QuitLast
  BY DEF IInv, QuitterLast, QuitStored, QuitLast
<1> QED BY InitInv, NextInv, <1>1, PTL DEF Spec
===============================================================================
