----------------------------- MODULE StorageRing -----------------------------
(***************************************************************************)
(* The producers and consumers of producer_consumer.c, of the two          *)
(* ProducerConsumer.java and of bounded_buffer.c as the repository gives   *)
(* them out: a ring of items that all threads use without synchronisation. *)
(* Items may be lost or taken twice; what the programs still rely on is    *)
(* that an index never leaves the ring and that the quit items, which a    *)
(* last producer stores when the others have ended, end the consumers.     *)
(* The count of the items is never read and is left out.                   *)
(***************************************************************************)
EXTENDS Integers, FiniteSets

CONSTANTS
  MAX_PRODUCERS, MAX_CONSUMERS, MAX_CAPACITY,  \* limits of the options
  ITEMS,      \* items of a producer (26, 10 or 24 characters)
  NUMITEMS,   \* those of bounded_buffer.c (30)
  Programs    \* those of the programs below that are looked at

\* options: how they are checked; quits: the consumers end by a quit item and not after
\* NUMITEMS items; postponed: the index is incremented first and reduced later.
producer_consumer   == [options |-> "refuse", quits |-> TRUE,  postponed |-> FALSE]
ProducerConsumer_v5 == [options |-> "clamp",  quits |-> TRUE,  postponed |-> FALSE]
ProducerConsumer_v4 == ProducerConsumer_v5
bounded_buffer      == [options |-> "none",   quits |-> FALSE, postponed |-> TRUE]

ASSUME RingAssumption ==
  /\ MAX_PRODUCERS \in Nat \ {0} /\ MAX_CONSUMERS \in Nat \ {0} /\ MAX_CAPACITY \in Nat \ {0}
  /\ ITEMS \in Nat /\ NUMITEMS \in Nat
  /\ Programs \subseteq {producer_consumer, ProducerConsumer_v5, bounded_buffer}

Producer == {<<"producer", n>> : n \in 0 .. MAX_PRODUCERS - 1}
Consumer == {<<"consumer", n>> : n \in 0 .. MAX_CONSUMERS - 1}
Quitter  == <<"producer", -1>>
Thread   == Producer \cup Consumer \cup {Quitter}

VARIABLES
  program, capacity, producers, consumers, parallel,   \* the program and its options
  buf, in, out,      \* the ring
  pc,                \* pc[t]: where the thread is
  slot,              \* slot[t]: the index it uses
  reg,               \* reg[t]: the index it has loaded to increment
  item,              \* item[t]: what a consumer has read
  k,                 \* k[t]: items produced or consumed
  main               \* where main is

vars == <<program, capacity, producers, consumers, parallel, buf, in, out, pc, slot, reg,
          item, k, main>>
options == <<program, capacity, producers, consumers, parallel>>

\* An option of any size: taken, refused with exit(2), or brought into its limits.
Asked(max) == 0 .. max + 1
Effective(n, max) == IF n < 1 THEN 1 ELSE IF n > max THEN max ELSE n
Taken(n, max) == program.options = "refuse" => n \in 1 .. max

eval_params ==
  \E s \in Asked(MAX_CAPACITY), p \in Asked(MAX_PRODUCERS), c \in Asked(MAX_CONSUMERS) :
    /\ capacity = Effective(s, MAX_CAPACITY)
    /\ producers = Effective(p, MAX_PRODUCERS)
    /\ consumers = Effective(c, MAX_CONSUMERS)
    /\ main = IF Taken(s, MAX_CAPACITY) /\ Taken(p, MAX_PRODUCERS) /\ Taken(c, MAX_CONSUMERS)
              THEN "create" ELSE "over"
    /\ parallel \in IF program.options = "refuse" THEN BOOLEAN ELSE {FALSE}

Init ==
  /\ program \in Programs
  /\ \/ program.options # "none" /\ eval_params
     \/ /\ program.options = "none" /\ capacity = MAX_CAPACITY
        /\ producers = 1 /\ consumers = 1 /\ parallel = FALSE /\ main = "create"
  /\ buf = [n \in 0 .. capacity - 1 |-> "empty"]
  /\ in = 0 /\ out = 0
  /\ pc = [t \in Thread |-> "none"]
  /\ slot = [t \in Thread |-> 0] /\ reg = slot /\ k = slot
  /\ item = [t \in Consumer |-> "empty"]

------------------------------------------------------------------------------
(* The threads.                                                            *)

Goto(t, from, to) ==
  /\ main # "over" /\ pc[t] = from
  /\ pc' = [pc EXCEPT ![t] = to]
  /\ UNCHANGED <<options, main>>

Started == {t \in Thread : pc[t] # "none"}

First(t) == IF t \in Consumer THEN "take" ELSE "produce"

Arrive(t) ==
  /\ Goto(t, "barrier", "waiting")
  /\ UNCHANGED <<buf, in, out, slot, reg, item, k>>

\* The barrier lets total_consumers + total_producers threads through.
Meet ==
  LET W == {t \in Thread : pc[t] = "waiting"} IN
  /\ main # "over" /\ W # {} /\ Cardinality(W) = producers + consumers
  /\ pc' = [t \in Thread |-> IF t \in W THEN First(t) ELSE pc[t]]
  /\ UNCHANGED <<options, main, buf, in, out, slot, reg, item, k>>

\* An increment postponed beyond the access makes the index leave the ring for a while.
Bumped(n) == IF program.postponed THEN n + 1 ELSE n

Amount(p) ==
  IF p = Quitter THEN consumers ELSE IF program.quits THEN ITEMS ELSE NUMITEMS

\* The index of the next empty space.
Produce(p) ==
  /\ k[p] < Amount(p) /\ Goto(p, "produce", "write")
  /\ slot' = [slot EXCEPT ![p] = in]
  /\ in' = Bumped(in)
  /\ UNCHANGED <<buf, out, reg, item, k>>

Produced(p) ==
  /\ k[p] = Amount(p) /\ Goto(p, "produce", "gone")
  /\ UNCHANGED <<buf, in, out, slot, reg, item, k>>

Write(p) ==
  /\ Goto(p, "write", "index")
  /\ buf' = [buf EXCEPT ![slot[p]] = IF p = Quitter THEN "quit" ELSE "item"]
  /\ UNCHANGED <<in, out, slot, reg, item, k>>

\* The index of the first stored space.
Take(c) ==
  /\ Goto(c, "take", "read")
  /\ slot' = [slot EXCEPT ![c] = out]
  /\ out' = Bumped(out)
  /\ UNCHANGED <<buf, in, reg, item, k>>

Read(c) ==
  /\ Goto(c, "read", "index")
  /\ item' = [item EXCEPT ![c] = buf[slot[c]]]
  /\ UNCHANGED <<buf, in, out, slot, reg, k>>

\* The index is loaded to be incremented, again or still from before the access.
LoadIndex(t, index) ==
  /\ Goto(t, "index", "advance")
  /\ \E n \in IF program.postponed THEN {index} ELSE {index, slot[t]} :
       reg' = [reg EXCEPT ![t] = n]
  /\ UNCHANGED <<buf, in, out, slot, item, k>>

\* MUTANT of Advanced: without the modulo.
MutAdvanced(t) == IF program.postponed THEN reg[t] ELSE reg[t] + 1

\* The index after the one used, in the ring.
Advanced(t) == (IF program.postponed THEN reg[t] ELSE reg[t] + 1) % capacity

StoreIn(p) ==
  /\ Goto(p, "advance", "produce")
  /\ in' = Advanced(p) /\ k' = [k EXCEPT ![p] = @ + 1]
  /\ UNCHANGED <<buf, out, slot, reg, item>>

\* MUTANT of LastTaken: a consumer ends at an empty space.
MutLastTaken(c) == IF program.quits THEN item[c] # "item" ELSE k[c] + 1 = NUMITEMS

\* What has been read is looked at when the index is stored.
LastTaken(c) == IF program.quits THEN item[c] = "quit" ELSE k[c] + 1 = NUMITEMS

StoreOut(c) ==
  /\ Goto(c, "advance", IF LastTaken(c) THEN "gone" ELSE "take")
  /\ out' = Advanced(c)
  /\ k' = IF program.quits THEN k ELSE [k EXCEPT ![c] = @ + 1]
  /\ UNCHANGED <<buf, in, slot, reg, item>>

producer(p) == Arrive(p) \/ Produce(p) \/ Produced(p) \/ Write(p) \/ LoadIndex(p, in) \/ StoreIn(p)
consumer(c) == Arrive(c) \/ Take(c) \/ Read(c) \/ LoadIndex(c, out) \/ StoreOut(c)

------------------------------------------------------------------------------
(* main.                                                                   *)

MainGoto(from, to) ==
  /\ main = from /\ main' = to
  /\ UNCHANGED <<options, buf, in, out, slot, reg, item, k>>

Entrance == IF parallel THEN "barrier" ELSE "run"

Launch(t, where) == pc[t] = "none" /\ pc' = [pc EXCEPT ![t] = IF where = "run" THEN First(t) ELSE where]

\* The consumers first, one after another.
MainCreate ==
  /\ MainGoto("create", "create")
  /\ \/ \E n \in 0 .. consumers - 1 :
          /\ \A l \in 0 .. n - 1 : <<"consumer", l>> \in Started
          /\ Launch(<<"consumer", n>>, Entrance)
     \/ \E n \in 0 .. producers - 1 :
          /\ \A l \in 0 .. consumers - 1 : <<"consumer", l>> \in Started
          /\ \A l \in 0 .. n - 1 : <<"producer", l>> \in Started
          /\ Launch(<<"producer", n>>, Entrance)

\* producer_consumer.c returns from main when a thread, or the last producer, cannot be
\* created.
MainCreateFails ==
  /\ program.options = "refuse" /\ UNCHANGED pc
  /\ \/ Cardinality(Started) < consumers + producers /\ MainGoto("create", "release")
     \/ (\A p \in Producer : pc[p] \in {"none", "gone"}) /\ MainGoto("join", "release")

MainCreated ==
  /\ Cardinality(Started) = consumers + producers
  /\ MainGoto("create", "join") /\ UNCHANGED pc

\* MUTANT of MainQuit: the last producer is started like the others, at the barrier.
MutMainQuit ==
  /\ program.quits /\ \A p \in Producer : pc[p] \in {"none", "gone"}
  /\ MainGoto("join", "quit") /\ Launch(Quitter, Entrance)

\* The producers are joined; the last one stores the quit items and does not wait at the
\* barrier.
MainQuit ==
  /\ program.quits /\ \A p \in Producer : pc[p] \in {"none", "gone"}
  /\ MainGoto("join", "quit") /\ Launch(Quitter, "run")

\* Everybody is joined.
MainJoin ==
  /\ MainGoto(IF program.quits THEN "quit" ELSE "join", "release")
  /\ \A t \in Started : pc[t] = "gone"
  /\ UNCHANGED pc

\* The exit handler destroys the barrier; what that does while threads wait at it is
\* undefined: it waits for them, or the process ends.
MainRelease ==
  /\ \/ MainGoto("release", "over")
     \/ (\E t \in Thread : pc[t] = "waiting") /\ MainGoto("release", "hung")
  /\ UNCHANGED pc

Main == MainCreate \/ MainCreateFails \/ MainCreated \/ MainQuit \/ MainJoin \/ MainRelease

Stopped == main \in {"over", "hung"} /\ UNCHANGED vars

Next ==
  \/ \E p \in Producer \cup {Quitter} : producer(p)
  \/ \E c \in Consumer : consumer(c)
  \/ Meet \/ Main \/ Stopped

Spec == Init /\ [][Next]_vars

\* Every thread is scheduled.
FairSpec ==
  /\ Spec /\ WF_vars(Main) /\ WF_vars(Meet)
  /\ \A p \in Producer \cup {Quitter} : WF_vars(producer(p))
  /\ \A c \in Consumer : WF_vars(consumer(c))

------------------------------------------------------------------------------
\* InBounds: no thread accesses the array outside the ring, whatever the others do to
\* the indices in the meantime.
InBounds == \A t \in Thread : pc[t] \in {"write", "read"} => slot[t] \in 0 .. capacity - 1

\* QuitLast: no consumer ends, in the programs with a quit item, before all producers have.
QuitLast ==
  program.quits /\ (\E c \in Consumer : pc[c] = "gone") =>
    \A p \in Producer : pc[p] \in {"none", "gone"}

\* Ends: when the consumers are down to one, it finds a quit item, however the races have
\* left the indices, and main ends. (Two consumers can go on passing the item by.)
OneLeft ==
  /\ main = "quit"
  /\ Cardinality({c \in Consumer : pc[c] \notin {"none", "gone"}}) <= 1
Ends ==
  /\ OneLeft ~> main = "over"
  /\ <>(main \in {"quit", "over", "hung"})
==============================================================================
