------------------------- MODULE SharedCounter_proofs -------------------------
(***************************************************************************)
(* Proofs about SharedCounter, for any number of threads, rounds and       *)
(* amounts: what a lock protects, that main's verdict is exact, and what a *)
(* race can do at most.                                                    *)
(***************************************************************************)
EXTENDS SharedCounter, WellFoundedInduction, TLAPS

(***************************************************************************)
(* Sums over the threads.                                                  *)
(***************************************************************************)

\* Induction for a set of numbers that is given.
LEMMA NatSet ==
  ASSUME NEW S \in SUBSET Nat, 0 \in S, \A n \in S : n + 1 \in S
  PROVE  S = Nat
<1> DEFINE R == OpToRel(<, Nat)
           T == Nat \ S
<1>1. \A x, y \in Nat : x < y => <<x, y>> \in R
  BY DEF OpToRel
<1>2. SUFFICES ASSUME T # {} PROVE FALSE
  OBVIOUS
<1>3. \E x \in T : \A y \in T : ~(<<y, x>> \in R)
  <2> HIDE DEF R, T
  <2>1. IsWellFoundedOn(R, Nat)
    BY NatLessThanWellFounded DEF R
  <2>2. T \subseteq Nat
    BY DEF T
  <2> QED BY <2>1, <2>2, <1>2, WFMin, Zenon
<1>4. PICK x \in T : \A y \in T : ~(<<y, x>> \in R)
  BY <1>3
<1> HIDE DEF R
<1>5. x \in Nat /\ x # 0
  OBVIOUS
<1>6. x - 1 \in Nat /\ x - 1 < x
  BY <1>5
<1>7. x - 1 \in S
  BY <1>1, <1>4, <1>5, <1>6
<1>8. (x - 1) + 1 \in S
  BY <1>7
<1>9. x \in S
  BY <1>8, <1>5
<1> QED BY <1>9

\* s is the sum of f over the threads below its argument.
Sums(s, f) ==
  /\ s \in [0 .. THREADS -> Int] /\ s[0] = 0
  /\ \A n \in 1 .. THREADS : s[n] = s[n - 1] + f[n - 1]

LEMMA SumOfSums ==
  ASSUME THREADS \in Nat \ {0}, NEW f \in [Threads -> Int]
  PROVE  \E s : Sums(s, f) /\ SumOf(f) = s[THREADS]
<1> DEFINE Upto(s, m) ==
             /\ s \in [0 .. THREADS -> Int] /\ s[0] = 0
             /\ \A n \in 1 .. THREADS : n <= m => s[n] = s[n - 1] + f[n - 1]
           S == {m \in Nat : \E s : Upto(s, m)}
           Rec(s) == s = [n \in 0 .. THREADS |-> IF n = 0 THEN 0 ELSE s[n - 1] + f[n - 1]]
           c == CHOOSE s : Rec(s)
<1>1. 0 \in S
  <2>1. Upto([n \in 0 .. THREADS |-> 0], 0)
    OBVIOUS
  <2> QED BY <2>1
<1>2. ASSUME NEW m \in S PROVE m + 1 \in S
  <2>1. PICK s : Upto(s, m)
    OBVIOUS
  <2>2. CASE m + 1 > THREADS
    <3>1. Upto(s, m + 1)
      BY <2>1, <2>2
    <3> QED BY <3>1
  <2>3. CASE m + 1 <= THREADS
    <3> DEFINE r == [s EXCEPT ![m + 1] = s[m] + f[m]]
    <3>1. m \in 0 .. THREADS /\ m + 1 \in 1 .. THREADS /\ m \in Threads
      BY <2>3 DEF Threads
    <3>2. s[m] + f[m] \in Int
      BY <2>1, <3>1
    <3>3. r \in [0 .. THREADS -> Int] /\ r[0] = 0
      BY <2>1, <3>1, <3>2
    <3>4. ASSUME NEW n \in 1 .. THREADS, n <= m + 1 PROVE r[n] = r[n - 1] + f[n - 1]
      <4>1. CASE n = m + 1
        BY <4>1, <2>1, <3>1
      <4>2. CASE n # m + 1
        <5>1. n <= m /\ n - 1 # m + 1 /\ n - 1 \in 0 .. THREADS
          BY <4>2, <3>4
        <5>2. r[n] = s[n] /\ r[n - 1] = s[n - 1]
          BY <5>1, <4>2, <2>1, <3>1
        <5> QED BY <5>1, <5>2, <2>1
      <4> QED BY <4>1, <4>2
    <3>5. Upto(r, m + 1)
      BY <3>3, <3>4
    <3> HIDE DEF r
    <3>6. \E q : Upto(q, m + 1)
      BY <3>5
    <3>7. m + 1 \in Nat
      BY <3>1
    <3> HIDE DEF Upto
    <3> QED BY <3>6, <3>7
  <2>4. m \in Nat
    OBVIOUS
  <2>5. m + 1 > THREADS \/ m + 1 <= THREADS
    BY <2>4
  <2> HIDE DEF S
  <2> QED BY <2>2, <2>3, <2>5
<1>3. S = Nat
  <2> HIDE DEF S
  <2>1. S \in SUBSET Nat
    BY DEF S
  <2> QED BY <1>1, <1>2, <2>1, NatSet
<1>4. PICK s : Upto(s, THREADS)
  <2>1. THREADS \in S
    <3> HIDE DEF S
    <3> QED BY <1>3
  <2> QED BY <2>1
<1>5. Rec(s)
  <2>1. \A n \in 0 .. THREADS : s[n] = IF n = 0 THEN 0 ELSE s[n - 1] + f[n - 1]
    BY <1>4
  <2> QED BY <1>4, <2>1
<1>6. Rec(c)
  <2> HIDE DEF Rec
  <2> QED BY <1>5
<1>7. SumOf(f) = c[THREADS]
  BY DEF SumOf
<1>8. \A n \in 0 .. THREADS : c[n] = IF n = 0 THEN 0 ELSE c[n - 1] + f[n - 1]
  <2> HIDE DEF c
  <2> QED BY <1>6
<1> HIDE DEF c, Rec, S
<1> DEFINE I == {m \in Nat : m <= THREADS => c[m] \in Int}
<1>9. I = Nat
  <2>1. 0 \in I
    BY <1>8
  <2>2. ASSUME NEW m \in I PROVE m + 1 \in I
    <3>1. SUFFICES ASSUME m + 1 <= THREADS PROVE c[m + 1] \in Int
      OBVIOUS
    <3>2. m \in Threads /\ m + 1 \in 0 .. THREADS /\ m + 1 # 0 /\ (m + 1) - 1 = m
      BY <3>1 DEF Threads
    <3>3. c[m] \in Int
      BY <3>1
    <3>4. c[m + 1] = c[m] + f[m]
      BY <1>8, <3>2
    <3> QED BY <3>2, <3>3, <3>4
  <2> HIDE DEF I
  <2>3. I \in SUBSET Nat
    BY DEF I
  <2> QED BY <2>1, <2>2, <2>3, NatSet
<1>10. \A n \in 0 .. THREADS : c[n] \in Int
  <2>1. \A n \in 0 .. THREADS : n \in I /\ n <= THREADS
    <3> HIDE DEF I
    <3> QED BY <1>9
  <2> QED BY <2>1
<1>11. c = [n \in 0 .. THREADS |-> IF n = 0 THEN 0 ELSE c[n - 1] + f[n - 1]]
  BY <1>6 DEF Rec
<1>12. c \in [0 .. THREADS -> Int]
  BY <1>10, <1>11
<1>13. Sums(c, f)
  BY <1>8, <1>12 DEF Sums
<1> QED BY <1>7, <1>13

\* One number that changes by d changes the sum by d.
LEMMA SumChange ==
  ASSUME THREADS \in Nat \ {0}, NEW f \in [Threads -> Int], NEW g \in [Threads -> Int],
         NEW t \in Threads, NEW d \in Int,
         g[t] = f[t] + d, \A u \in Threads : u # t => g[u] = f[u]
  PROVE  SumOf(g) = SumOf(f) + d
<1>1. PICK a : Sums(a, f) /\ SumOf(f) = a[THREADS]
  BY SumOfSums
<1>2. PICK b : Sums(b, g) /\ SumOf(g) = b[THREADS]
  BY SumOfSums
<1> DEFINE I == {m \in Nat : m <= THREADS => b[m] = a[m] + (IF m > t THEN d ELSE 0)}
<1>3. t \in Nat /\ t < THREADS
  BY DEF Threads
<1>4. 0 \in I
  BY <1>1, <1>2, <1>3 DEF Sums
<1>5. ASSUME NEW m \in I PROVE m + 1 \in I
  <2>1. SUFFICES ASSUME m + 1 <= THREADS PROVE b[m + 1] = a[m + 1] + (IF m + 1 > t THEN d ELSE 0)
    OBVIOUS
  <2>2. m \in Threads /\ m + 1 \in 1 .. THREADS /\ (m + 1) - 1 = m
    BY <2>1 DEF Threads
  <2>3. b[m + 1] = b[m] + g[m] /\ a[m + 1] = a[m] + f[m]
    BY <2>2, <1>1, <1>2 DEF Sums
  <2>4. b[m] = a[m] + (IF m > t THEN d ELSE 0)
    BY <2>2 DEF Threads
  <2>5. g[m] = f[m] + (IF m = t THEN d ELSE 0)
    BY <2>2
  <2>6. a[m] \in Int /\ f[m] \in Int
    BY <2>2, <1>1 DEF Sums, Threads
  <2>7. m \in Nat
    OBVIOUS
  <2> HIDE DEF I
  <2> QED BY <2>3, <2>4, <2>5, <2>6, <2>7, <1>3
<1>6. THREADS \in I
  <2> HIDE DEF I
  <2>1. I \in SUBSET Nat
    BY DEF I
  <2>2. I = Nat
    BY <1>4, <1>5, <2>1, NatSet
  <2> QED BY <2>2
<1>7. b[THREADS] = a[THREADS] + d
  BY <1>6, <1>3
<1> QED BY <1>1, <1>2, <1>7

\* The sum of equal numbers.
LEMMA SumConstant ==
  ASSUME THREADS \in Nat \ {0}, NEW f \in [Threads -> Int], NEW c \in Int,
         \A t \in Threads : f[t] = c
  PROVE  SumOf(f) = THREADS * c
<1>1. PICK a : Sums(a, f) /\ SumOf(f) = a[THREADS]
  BY SumOfSums
<1> DEFINE I == {m \in Nat : m <= THREADS => a[m] = m * c}
<1>2. 0 \in I
  BY <1>1 DEF Sums
<1>3. ASSUME NEW m \in I PROVE m + 1 \in I
  <2>1. SUFFICES ASSUME m + 1 <= THREADS PROVE a[m + 1] = (m + 1) * c
    OBVIOUS
  <2>2. m \in Threads /\ m + 1 \in 1 .. THREADS /\ (m + 1) - 1 = m
    BY <2>1 DEF Threads
  <2>3. a[m + 1] = a[m] + c
    BY <2>2, <1>1 DEF Sums
  <2>4. a[m] = m * c
    BY <2>2 DEF Threads
  <2>5. m \in Nat /\ (m + 1) * c = m * c + c
    OBVIOUS
  <2> QED BY <2>3, <2>4, <2>5
<1>4. THREADS \in I
  <2> HIDE DEF I
  <2>1. I \in SUBSET Nat
    BY DEF I
  <2>2. I = Nat
    BY <1>2, <1>3, <2>1, NatSet
  <2> QED BY <2>2
<1> QED BY <1>1, <1>4

(***************************************************************************)
(* The inductive invariant.                                                *)
(***************************************************************************)

InLoop  == {"begin", "enter", "test", "load", "store", "leave"}
Section == {"test", "load", "store", "leave"}

TypeOK ==
  /\ program \in AllPrograms
  /\ value \in Int /\ owner \in Threads \cup {Nobody} /\ alive \subseteq {"lock", "barrier"}
  /\ pc \in [Threads -> {"none", "barrier", "waiting", "gone"} \cup InLoop]
  /\ reg \in [Threads -> Int] /\ i \in [Threads -> Nat] /\ withdrawn \in [Threads -> Nat]
  /\ amount \in [Threads -> 0 .. MAX_WITHDRAW]
  /\ main \in {"init", "join", "release", "released", "over", "hung", "crashed"}
  /\ verdict \in {"none", "OK", "LOST"} /\ lost \in BOOLEAN

\* The rounds that a thread has had, and whether it has an amount.
RoundsInv ==
  /\ \A t \in Threads :
       /\ pc[t] \in InLoop => program.op # "meet" /\ i[t] < Rounds
       /\ pc[t] \in {"none", "barrier", "waiting"} => i[t] = 0
       /\ Adding => pc[t] # "test" /\ (pc[t] = "gone" => i[t] = ITERATIONS)
       /\ ~Adding /\ pc[t] \in Section \cup {"enter"} => amount[t] >= 1

\* What the variable accounts for, what thread t is going to make it account for, and
\* what has been added or withdrawn.
KeptIn(v) == IF Adding THEN v ELSE INITIAL_AMOUNT - v
Moved     == IF Adding THEN SumOf(Done) ELSE Total

\* The variable never accounts for more than was done, and for less once, and as long as,
\* a store has overwritten another one's; a number that was loaded and is no longer the
\* present one is one more that lacks something.
KeptInv ==
  /\ ~lost => KeptIn(value) = Moved
  /\ lost => KeptIn(value) < Moved
  /\ \A t \in Threads : pc[t] = "store" =>
       /\ KeptIn(reg[t]) <= Moved
       /\ lost \/ reg[t] # value => KeptIn(reg[t]) < Moved
LostInv == program.op # "meet" => KeptInv

\* main compares when all threads are gone, and what it finds stays.
VerdictInv ==
  verdict # "none" =>
    /\ program.op \in {"add", "withdraw"} /\ main \notin {"init", "join"}
    /\ \A t \in Threads : pc[t] = "gone"
    /\ verdict = "LOST" <=> lost

\* Whoever has counted once leaves at least 1 behind, also in what others load later, so
\* that the thread that comes to its end last, and not in its first round, leaves 2.
RaceInv ==
  Adding =>
    /\ value >= 0 /\ \A t \in Threads : reg[t] >= 0
    /\ \A t \in Threads : Done[t] >= 1 => value >= 1
    /\ \A t \in Threads : pc[t] = "store" /\ Done[t] >= 1 => reg[t] >= 1
    /\ ITERATIONS >= 2 => value >= 2 \/ \E t \in Threads : Done[t] < ITERATIONS
    /\ THREADS = 1 => ~lost /\ \A t \in Threads : pc[t] = "store" => reg[t] = value

\* An account only falls below its first balance.
AccountInv ==
  program.op \in {"withdraw", "transact"} =>
    /\ value <= INITIAL_AMOUNT
    /\ \A t \in Threads : reg[t] <= INITIAL_AMOUNT
    /\ Total > 0 => value < INITIAL_AMOUNT

\* The section of a program with a lock, unless a thread could not be created.
SectionInv ==
  /\ ~lost /\ (~Adding => value >= 0)
  /\ \A t \in Threads :
       /\ pc[t] \in Section <=> owner = t
       /\ pc[t] = "store" => reg[t] = value
       /\ ~Adding /\ pc[t] \in {"load", "store"} => value >= amount[t]

LockInv ==
  Locked =>
    /\ main = "init" => pc[THREADS - 1] = "none"
    /\ main \in {"init", "join"} /\ (\E t \in Threads : pc[t] # "none") => "lock" \in alive
    /\ main \notin {"init", "join"} /\ AllCreated => \A t \in Threads : pc[t] = "gone"
    /\ main \in {"init", "join"} \/ AllCreated => SectionInv

\* One thread, or two of them, and an account: whoever stores less than nothing was the
\* second one to pass the test, on the balance that the first one had not changed yet.
OneInv ==
  /\ value >= 0
  /\ \A t \in Threads :
       /\ pc[t] = "load" => value >= amount[t]
       /\ pc[t] = "store" => reg[t] >= amount[t]

PairInv ==
  /\ value >= - MAX_WITHDRAW
  /\ \A t \in Threads :
       /\ pc[t] = "load" => value - amount[t] >= - MAX_WITHDRAW
       /\ pc[t] = "store" => reg[t] - amount[t] >= - MAX_WITHDRAW
  /\ \A t, u \in Threads : t # u =>
       /\ pc[t] = "load" /\ pc[u] = "load" => value - amount[t] - amount[u] >= - MAX_WITHDRAW
       /\ pc[t] = "load" /\ pc[u] = "store" =>
            /\ reg[u] - amount[u] - amount[t] >= - MAX_WITHDRAW
            /\ value >= amount[t] \/ reg[u] <= value
       /\ pc[t] = "store" /\ pc[u] = "store" => reg[u] >= amount[u] \/ reg[t] <= reg[u]
       /\ pc[t] # "store" /\ pc[u] = "store" => reg[u] >= amount[u] \/ value <= reg[u]

TwoInv ==
  program.op \in {"withdraw", "transact"} =>
    /\ THREADS = 1 => OneInv
    /\ THREADS = 2 => PairInv

IInv ==
  /\ TypeOK /\ RoundsInv /\ LostInv /\ VerdictInv /\ RaceInv /\ AccountInv /\ LockInv
  /\ TwoInv

LEMMA ProgramFacts ==
  ASSUME program \in AllPrograms
  PROVE  /\ program.op \in {"add", "meet", "withdraw", "transact"}
         /\ program.op = "meet" \/ program.op = "withdraw" => program.lock = "none"
         /\ program.op = "meet" => program.barrier = TRUE
         /\ program.op = "transact" => program.lock \in {"none", "monitor"}
         /\ program.op = "transact" => program.barrier = FALSE
         /\ program.op = "add" => program.lock \in {"none", "mutex", "sem", "named"}
BY DEF AllPrograms, thread_add, thread_add_mutex, thread_add_sem, thread_add_named_sem,
  thread_add_barrier_mutex, sync_barrier, bank_withdraw, bank_withdrawal, Transactions,
  TransactionsMonitor

\* The number of a program's rounds.
LEMMA RoundsFacts ==
  ASSUME CounterAssumption
  PROVE  /\ Rounds \in Nat \ {0} /\ (Adding => Rounds = ITERATIONS)
         /\ THREADS \in Nat \ {0} /\ ITERATIONS \in Nat \ {0}
         /\ INITIAL_AMOUNT \in Nat /\ MAX_WITHDRAW \in Nat \ {0}
         /\ Nobody \notin Threads /\ 0 \in Threads /\ THREADS - 1 \in Threads
<1>1. INITIAL_AMOUNT \div THREADS \in Nat \ {0}
  BY DEF CounterAssumption
<1> QED BY <1>1 DEF CounterAssumption, Rounds, Adding, Threads

LEMMA TypeInit ==
  ASSUME CounterAssumption, ProgramsAssumption, Init
  PROVE  TypeOK
<1> USE DEF Init
<1>1. program \in AllPrograms /\ value \in Int
  BY RoundsFacts DEF ProgramsAssumption
<1>2. /\ owner \in Threads \cup {Nobody} /\ alive \subseteq {"lock", "barrier"}
      /\ main = "init" /\ verdict = "none" /\ lost = FALSE
  OBVIOUS
<1>3. pc \in [Threads -> {"none"}]
  OBVIOUS
<1>4. reg \in [Threads -> {0}] /\ amount = reg /\ i = reg /\ withdrawn = reg
  OBVIOUS
<1>5. /\ reg \in [Threads -> Int] /\ i \in [Threads -> Nat] /\ withdrawn \in [Threads -> Nat]
      /\ amount \in [Threads -> 0 .. MAX_WITHDRAW]
  <2>1. 0 \in 0 .. MAX_WITHDRAW
    BY RoundsFacts
  <2> HIDE DEF Init
  <2> QED BY <1>4, <2>1
<1>6. pc \in [Threads -> {"none", "barrier", "waiting", "gone"} \cup InLoop]
  BY <1>3
<1> HIDE DEF Init
<1> QED BY <1>1, <1>2, <1>5, <1>6 DEF TypeOK

\* What the steps of one thread do to the kinds of the variables.
LEMMA TypeThread ==
  ASSUME CounterAssumption, TypeOK, NEW t \in Threads, Step(t)
  PROVE  TypeOK'
<1> USE DEF TypeOK, InLoop, Goto, Crash
<1>1. CASE Arrive(t)
  BY <1>1 DEF Arrive
<1>2. CASE Begin(t)
  BY <1>2 DEF Begin
<1>3. CASE NegativeBalance(t) \/ UseClosed(t)
  BY <1>3 DEF NegativeBalance, UseClosed
<1>4. CASE Enter(t)
  BY <1>4 DEF Enter, AfterEntry
<1>5. CASE Test(t)
  BY <1>5 DEF Test
<1>6. CASE Load(t)
  BY <1>6 DEF Load
<1>7. CASE Store(t)
  BY <1>7, RoundsFacts DEF Store
<1>8. CASE Leave(t)
  BY <1>8 DEF Leave
<1> QED BY <1>1, <1>2, <1>3, <1>4, <1>5, <1>6, <1>7, <1>8 DEF Step

LEMMA TypeMain ==
  ASSUME CounterAssumption, TypeOK, Meet \/ Main \/ Stopped \/ UNCHANGED vars
  PROVE  TypeOK'
<1> USE DEF TypeOK, InLoop, MainGoto
<1>1. CASE Meet
  BY <1>1 DEF Meet
<1>2. CASE MainInit
  BY <1>2 DEF MainInit, Missing
<1>3. CASE MainFails
  BY <1>3 DEF MainFails
<1>4. CASE MainCreate
  BY <1>4 DEF MainCreate
<1>5. CASE MainCheck
  BY <1>5 DEF MainCheck
<1>6. CASE ReleaseLock \/ ReleaseBarrier
  BY <1>6 DEF ReleaseLock, ReleaseBarrier
<1>7. CASE Stopped \/ UNCHANGED vars
  BY <1>7 DEF Stopped, vars
<1> QED BY <1>1, <1>2, <1>3, <1>4, <1>5, <1>6, <1>7 DEF Main

LEMMA TypeStep == CounterAssumption /\ TypeOK /\ [Next]_vars => TypeOK'
BY TypeThread, TypeMain DEF Next

(***************************************************************************)
(* The kinds of steps.                                                     *)
(***************************************************************************)

\* The steps that change neither the variable nor a thread's idea of it.
Quiet ==
  /\ program' = program /\ value' = value /\ reg' = reg /\ withdrawn' = withdrawn
  /\ lost' = lost /\ (Adding => Done' = Done)
  /\ \A t \in Threads : pc'[t] = "store" <=> pc[t] = "store"

LEMMA QuietThread ==
  ASSUME TypeOK, RoundsInv, NEW t \in Threads,
         \/ Arrive(t) \/ Begin(t) \/ NegativeBalance(t) \/ Enter(t) \/ UseClosed(t) \/ Test(t)
         \/ Leave(t)
  PROVE  Quiet
<1> USE DEF Goto, Crash
<1>1. CASE Arrive(t)
  BY <1>1 DEF Arrive, Quiet, Done, TypeOK
<1>2. CASE Begin(t)
  BY <1>2 DEF Begin, Quiet, Done, TypeOK
<1>3. CASE NegativeBalance(t) \/ UseClosed(t)
  BY <1>3 DEF NegativeBalance, UseClosed, Quiet, Done, TypeOK
<1>4. CASE Enter(t)
  BY <1>4 DEF Enter, AfterEntry, Quiet, Done, TypeOK
<1>5. CASE Test(t)
  BY <1>5 DEF Test, Quiet, Done, TypeOK, RoundsInv
<1>6. CASE Leave(t)
  <2>1. \A u \in Threads :
          i'[u] + (IF pc'[u] = "leave" THEN 1 ELSE 0) = i[u] + (IF pc[u] = "leave" THEN 1 ELSE 0)
    BY <1>6 DEF Leave, TypeOK
  <2>2. Done' = Done
    BY <2>1 DEF Done
  <2> QED BY <1>6, <2>2 DEF Leave, Quiet, TypeOK
<1> QED BY <1>1, <1>2, <1>3, <1>4, <1>5, <1>6

LEMMA QuietMain ==
  ASSUME TypeOK, Meet \/ Main \/ Stopped \/ UNCHANGED vars
  PROVE  Quiet
<1> USE DEF MainGoto
<1>1. CASE Meet
  BY <1>1 DEF Meet, Quiet, Done, TypeOK
<1>2. CASE MainInit \/ MainFails \/ MainCheck \/ ReleaseLock \/ ReleaseBarrier
  <2>1. /\ program' = program /\ value' = value /\ reg' = reg /\ i' = i
        /\ withdrawn' = withdrawn /\ lost' = lost /\ pc' = pc
    BY <1>2 DEF MainInit, MainFails, MainCheck, ReleaseLock, ReleaseBarrier
  <2>2. Done' = Done
    BY <2>1 DEF Done
  <2> QED BY <2>1, <2>2 DEF Quiet
<1>3. CASE MainCreate
  BY <1>3 DEF MainCreate, Quiet, Done, TypeOK
<1>4. CASE Stopped \/ UNCHANGED vars
  <2>1. /\ program' = program /\ value' = value /\ reg' = reg /\ i' = i
        /\ withdrawn' = withdrawn /\ lost' = lost /\ pc' = pc
    BY <1>4 DEF Stopped, vars
  <2>2. Done' = Done
    BY <2>1 DEF Done
  <2> QED BY <2>1, <2>2 DEF Quiet
<1> QED BY <1>1, <1>2, <1>3, <1>4 DEF Main

LEMMA StepKinds ==
  ASSUME TypeOK, RoundsInv, [Next]_vars
  PROVE  Quiet \/ \E t \in Threads : Load(t) \/ Store(t)
BY QuietThread, QuietMain DEF Next, Step

(***************************************************************************)
(* The rounds.                                                             *)
(***************************************************************************)

LEMMA RoundsInit == CounterAssumption /\ Init => RoundsInv
BY DEF Init, RoundsInv, InLoop, Section

LEMMA RoundsThread ==
  ASSUME CounterAssumption, TypeOK, RoundsInv, NEW t \in Threads, Step(t)
  PROVE  RoundsInv'
<1> USE RoundsFacts DEF TypeOK, Goto, Crash, Section, InLoop
<1>0. program' = program /\ Rounds' = Rounds /\ Adding' = Adding
  BY DEF Step, Arrive, Begin, NegativeBalance, Enter, UseClosed, Test, Load, Store, Leave, Rounds,
    Adding
<1> USE <1>0
<1>1. CASE Arrive(t)
  BY <1>1 DEF Arrive, RoundsInv
<1>2. CASE Begin(t)
  BY <1>2 DEF Begin, RoundsInv
<1>3. CASE NegativeBalance(t) \/ UseClosed(t)
  BY <1>3 DEF NegativeBalance, UseClosed, RoundsInv
<1>4. CASE Enter(t)
  BY <1>4 DEF Enter, AfterEntry, RoundsInv
<1>5. CASE Test(t)
  BY <1>5 DEF Test, RoundsInv
<1>6. CASE Load(t)
  BY <1>6 DEF Load, RoundsInv
<1>7. CASE Store(t)
  BY <1>7 DEF Store, RoundsInv
<1>8. CASE Leave(t)
  <2>1. /\ pc[t] = "leave" /\ i' = [i EXCEPT ![t] = @ + 1] /\ amount' = amount
        /\ pc' = [pc EXCEPT ![t] = IF LastRound(t) THEN "gone" ELSE "begin"]
    BY <1>8 DEF Leave
  <2>2. program.op # "meet" /\ i[t] < Rounds /\ i[t] \in Nat
    BY <2>1 DEF RoundsInv
  <2>3. i'[t] = i[t] + 1 /\ pc'[t] = (IF LastRound(t) THEN "gone" ELSE "begin")
    BY <2>1
  <2>4. Adding => (LastRound(t) <=> i[t] + 1 = ITERATIONS)
    BY DEF LastRound, Adding
  <2>5. ~LastRound(t) => i[t] + 1 < Rounds
    BY <2>2 DEF LastRound
  <2>6. \A u \in Threads : u # t => i'[u] = i[u] /\ pc'[u] = pc[u]
    BY <2>1
  <2> QED BY <2>1, <2>2, <2>3, <2>4, <2>5, <2>6 DEF RoundsInv
<1> QED BY <1>1, <1>2, <1>3, <1>4, <1>5, <1>6, <1>7, <1>8 DEF Step

LEMMA RoundsMain ==
  ASSUME CounterAssumption, TypeOK, RoundsInv, Meet \/ Main \/ Stopped \/ UNCHANGED vars
  PROVE  RoundsInv'
<1> USE RoundsFacts, ProgramFacts DEF TypeOK, MainGoto, Adding, Section, InLoop
<1>0. program' = program /\ Rounds' = Rounds
  BY DEF Main, Meet, MainInit, MainFails, MainCreate, MainCheck, ReleaseLock, ReleaseBarrier,
    Stopped, vars, Rounds
<1> USE <1>0
<1>1. CASE Meet
  BY <1>1 DEF Meet, RoundsInv
<1>2. CASE MainInit \/ MainFails \/ MainCheck \/ ReleaseLock \/ ReleaseBarrier
  <2>1. program' = program /\ pc' = pc /\ i' = i /\ amount' = amount
    BY <1>2 DEF MainInit, MainFails, MainCheck, ReleaseLock, ReleaseBarrier
  <2> QED BY <2>1 DEF RoundsInv
<1>3. CASE MainCreate
  <2>1. PICK t \in Threads :
          /\ pc[t] = "none"
          /\ pc' = [pc EXCEPT ![t] = IF program.barrier THEN "barrier" ELSE "begin"]
    BY <1>3 DEF MainCreate
  <2>2. i' = i /\ amount' = amount
    BY <1>3 DEF MainCreate
  <2>3. /\ pc'[t] \in {"barrier", "begin"}
        /\ pc'[t] = "begin" => program.op # "meet"
        /\ \A u \in Threads : u # t => pc'[u] = pc[u]
    BY <2>1
  <2>4. i[t] = 0 /\ 0 < Rounds
    BY <2>1 DEF RoundsInv
  <2> QED BY <2>2, <2>3, <2>4 DEF RoundsInv
<1>4. CASE Stopped \/ UNCHANGED vars
  <2>1. program' = program /\ pc' = pc /\ i' = i /\ amount' = amount
    BY <1>4 DEF Stopped, vars
  <2> QED BY <2>1 DEF RoundsInv
<1> QED BY <1>1, <1>2, <1>3, <1>4 DEF Main

LEMMA RoundsStep ==
  CounterAssumption /\ TypeOK /\ RoundsInv /\ [Next]_vars => RoundsInv'
BY RoundsThread, RoundsMain DEF Next

(***************************************************************************)
(* What is lost.                                                           *)
(***************************************************************************)

LEMMA SumsTyped ==
  ASSUME CounterAssumption, TypeOK
  PROVE  /\ Done \in [Threads -> Nat] /\ withdrawn \in [Threads -> Int]
         /\ Done \in [Threads -> Int]
         /\ SumOf(Done) \in Int /\ Total \in Int /\ Moved \in Int
<1>1. Done \in [Threads -> Nat] /\ withdrawn \in [Threads -> Int]
  BY DEF TypeOK, Done
<1>2. Done \in [Threads -> Int]
  BY <1>1
<1>3. THREADS \in Nat \ {0}
  BY RoundsFacts
<1>4. \A f \in [Threads -> Int] : SumOf(f) \in Int
  <2> TAKE f \in [Threads -> Int]
  <2>1. PICK s : Sums(s, f) /\ SumOf(f) = s[THREADS]
    BY <1>3, SumOfSums
  <2> QED BY <2>1, <1>3 DEF Sums
<1> QED BY <1>1, <1>2, <1>4 DEF Total, Moved

\* A store moves what it adds or withdraws.
LEMMA StoreMoves ==
  ASSUME CounterAssumption, TypeOK, TypeOK', RoundsInv, NEW t \in Threads, Store(t)
  PROVE  /\ Adding => Moved' = Moved + 1 /\ Done'[t] = Done[t] + 1
         /\ Adding => \A u \in Threads : u # t => Done'[u] = Done[u]
         /\ ~Adding => Moved' = Moved + amount[t] /\ Total' = Total + amount[t] /\ amount[t] >= 1
         /\ amount[t] \in Nat /\ Adding' = Adding /\ pc[t] = "store" /\ pc'[t] = "leave"
         /\ \A u \in Threads : u # t => pc'[u] = pc[u]
<1>1. /\ pc[t] = "store" /\ pc' = [pc EXCEPT ![t] = "leave"] /\ i' = i /\ program' = program
      /\ withdrawn' = IF Adding THEN withdrawn ELSE [withdrawn EXCEPT ![t] = @ + amount[t]]
  BY DEF Store, Goto
<1>2. Adding' = Adding
  BY <1>1 DEF Adding
<1>3. /\ pc'[t] = "leave" /\ \A u \in Threads : u # t => pc'[u] = pc[u]
      /\ amount[t] \in Nat
  BY <1>1 DEF TypeOK
<1>4. ASSUME Adding
      PROVE  /\ Moved' = Moved + 1 /\ Done'[t] = Done[t] + 1
             /\ \A u \in Threads : u # t => Done'[u] = Done[u]
  <2>1. Done' = [u \in Threads |-> i'[u] + (IF pc'[u] = "leave" THEN 1 ELSE 0)]
    BY DEF Done
  <2>2. Done'[t] = Done[t] + 1 /\ \A u \in Threads : u # t => Done'[u] = Done[u]
    BY <1>1, <1>3, <2>1 DEF Done, TypeOK
  <2>3. Done \in [Threads -> Int] /\ Done' \in [Threads -> Int]
    BY <1>1, <2>1, SumsTyped DEF TypeOK
  <2>4. SumOf(Done') = SumOf(Done) + 1
    BY <2>2, <2>3, SumChange, RoundsFacts
  <2>5. Moved = SumOf(Done) /\ Moved' = SumOf(Done')
    BY <1>2, <1>4 DEF Moved
  <2> QED BY <2>2, <2>4, <2>5
<1>5. ASSUME ~Adding
      PROVE  Moved' = Moved + amount[t] /\ Total' = Total + amount[t] /\ amount[t] >= 1
  <2>1. withdrawn' = [withdrawn EXCEPT ![t] = @ + amount[t]]
    BY <1>1, <1>5
  <2>2. withdrawn \in [Threads -> Int] /\ withdrawn' \in [Threads -> Int]
    BY SumsTyped, <2>1, <1>3 DEF TypeOK
  <2>3. /\ withdrawn'[t] = withdrawn[t] + amount[t]
        /\ \A u \in Threads : u # t => withdrawn'[u] = withdrawn[u]
    BY <2>1, <2>2
  <2>4. SumOf(withdrawn') = SumOf(withdrawn) + amount[t]
    BY <2>2, <2>3, <1>3, SumChange, RoundsFacts
  <2>5. amount[t] >= 1
    BY <1>1, <1>5 DEF RoundsInv, Section
  <2> QED BY <2>4, <2>5, <1>2, <1>5 DEF Moved, Total
<1> QED BY <1>1, <1>2, <1>3, <1>4, <1>5

LEMMA LostInit == CounterAssumption /\ ProgramsAssumption /\ Init => LostInv
<1> SUFFICES ASSUME CounterAssumption, ProgramsAssumption, Init PROVE LostInv
  OBVIOUS
<1>1. TypeOK
  BY TypeInit
<1>2. Done \in [Threads -> Int] /\ withdrawn \in [Threads -> Int]
  BY <1>1, SumsTyped
<1>3. \A t \in Threads : Done[t] = 0 /\ withdrawn[t] = 0 /\ pc[t] # "store"
  BY DEF Init, Done
<1>4. SumOf(Done) = THREADS * 0 /\ SumOf(withdrawn) = THREADS * 0
  BY <1>2, <1>3, SumConstant, RoundsFacts
<1>5. Moved = 0
  BY <1>4, RoundsFacts DEF Moved, Total
<1>6. program.op # "meet" => KeptIn(value) = 0
  BY <1>1, RoundsFacts, ProgramFacts DEF KeptIn, Init, Adding, TypeOK
<1>7. lost = FALSE
  BY DEF Init
<1> QED BY <1>3, <1>5, <1>6, <1>7 DEF LostInv, KeptInv

LEMMA LostStep ==
  ASSUME CounterAssumption, TypeOK, TypeOK', RoundsInv, LostInv, [Next]_vars
  PROVE  LostInv'
<1> SUFFICES ASSUME program'.op # "meet" PROVE KeptInv'
  BY DEF LostInv
<1>0. Moved \in Int /\ INITIAL_AMOUNT \in Int /\ value \in Int
  <2>1. value \in Int
    BY DEF TypeOK
  <2> QED BY <2>1, SumsTyped, RoundsFacts
<1>1. CASE Quiet
  <2>1. /\ program' = program /\ value' = value /\ reg' = reg /\ lost' = lost
        /\ \A t \in Threads : pc'[t] = "store" <=> pc[t] = "store"
    BY <1>1 DEF Quiet
  <2>2. Adding' = Adding
    BY <2>1 DEF Adding
  <2>3. Moved' = Moved
    BY <1>1, <2>2 DEF Quiet, Moved, Total
  <2> QED BY <2>1, <2>2, <2>3 DEF LostInv, KeptInv, KeptIn
<1>2. ASSUME NEW t \in Threads, Load(t) PROVE KeptInv'
  <2>1. /\ program' = program /\ value' = value /\ lost' = lost /\ withdrawn' = withdrawn
        /\ i' = i /\ reg' = [reg EXCEPT ![t] = value]
        /\ pc[t] = "load" /\ pc' = [pc EXCEPT ![t] = "store"]
    BY <1>2 DEF Load, Goto
  <2>2. Adding' = Adding
    BY <2>1 DEF Adding
  <2>3. Done' = Done
    BY <2>1 DEF Done, TypeOK
  <2>4. Moved' = Moved
    BY <2>1, <2>2, <2>3 DEF Moved, Total
  <2>5. reg'[t] = value /\ \A u \in Threads : u # t => reg'[u] = reg[u] /\ pc'[u] = pc[u]
    BY <2>1 DEF TypeOK
  <2>6. KeptIn(value) <= Moved /\ (lost => KeptIn(value) < Moved)
    BY <1>0, <2>1 DEF LostInv, KeptInv, KeptIn, TypeOK
  <2> QED BY <2>1, <2>2, <2>4, <2>5, <2>6 DEF LostInv, KeptInv, KeptIn
<1>3. ASSUME NEW t \in Threads, Store(t) PROVE KeptInv'
  <2> DEFINE d == IF Adding THEN 1 ELSE amount[t]
  <2>1. /\ program' = program /\ reg' = reg /\ lost' = (lost \/ value # reg[t])
        /\ value' = IF Adding THEN reg[t] + 1 ELSE reg[t] - amount[t]
    BY <1>3 DEF Store, Goto
  <2>2. /\ Moved' = Moved + d /\ d >= 1 /\ d \in Nat /\ Adding' = Adding
        /\ pc[t] = "store" /\ pc'[t] = "leave" /\ \A u \in Threads : u # t => pc'[u] = pc[u]
    BY <1>3, StoreMoves
  <2>3. reg[t] \in Int /\ amount[t] \in Nat /\ \A u \in Threads : reg[u] \in Int
    BY DEF TypeOK
  <2>4. KeptIn(value)' = KeptIn(reg[t]) + d
    <3>1. KeptIn(value)' = IF Adding THEN value' ELSE INITIAL_AMOUNT - value'
      BY <2>2 DEF KeptIn
    <3>2. CASE Adding
      BY <3>1, <3>2, <2>1, <2>3 DEF KeptIn
    <3>3. CASE ~Adding
      BY <3>1, <3>3, <2>1, <2>3, <1>0 DEF KeptIn
    <3> QED BY <3>2, <3>3
  <2>5. \A v \in Int : KeptIn(v) \in Int /\ KeptIn(v)' = KeptIn(v')
    BY <1>0, <2>2 DEF KeptIn
  <2>6. \A u \in Threads : KeptIn(reg[u])' = KeptIn(reg[u]) /\ KeptIn(reg[u]) \in Int
    BY <2>1, <2>2, <2>3, <1>0 DEF KeptIn
  <2> HIDE DEF d
  <2>7. ~lost' => KeptIn(value)' = Moved'
    <3>1. SUFFICES ASSUME ~lost' PROVE KeptIn(value)' = Moved'
      OBVIOUS
    <3>2. ~lost /\ value = reg[t]
      BY <2>1, <3>1
    <3>3. KeptIn(value) = Moved
      BY <3>2, <2>1 DEF LostInv, KeptInv
    <3> QED BY <3>2, <3>3, <2>2, <2>4
  <2>8. lost' => KeptIn(value)' < Moved'
    <3>1. SUFFICES ASSUME lost' PROVE KeptIn(value)' < Moved'
      OBVIOUS
    <3>2. KeptIn(reg[t]) < Moved
      BY <2>1, <2>2, <3>1 DEF LostInv, KeptInv
    <3> QED BY <3>2, <2>2, <2>4, <2>6, <1>0
  <2>9. ASSUME NEW u \in Threads, pc'[u] = "store"
        PROVE  /\ KeptIn(reg[u])' <= Moved'
               /\ lost' \/ reg'[u] # value' => KeptIn(reg[u])' < Moved'
    <3>1. u # t /\ pc[u] = "store"
      BY <2>2, <2>9
    <3>2. KeptIn(reg[u]) <= Moved
      BY <3>1, <2>1 DEF LostInv, KeptInv
    <3> QED BY <3>2, <2>2, <2>6, <1>0
  <2> QED BY <2>7, <2>8, <2>9 DEF KeptInv
<1> QED BY <1>1, <1>2, <1>3, StepKinds

(***************************************************************************)
(* The verdict of main.                                                    *)
(***************************************************************************)

\* A program that counts has counted all rounds when its threads are gone.
LEMMA AllGone ==
  ASSUME CounterAssumption, TypeOK, RoundsInv, Adding, \A t \in Threads : pc[t] = "gone"
  PROVE  Moved = THREADS * ITERATIONS /\ \A t \in Threads : Done[t] = ITERATIONS
<1>1. \A t \in Threads : i[t] = ITERATIONS
  BY DEF RoundsInv
<1>2. \A t \in Threads : Done[t] = ITERATIONS
  BY <1>1, RoundsFacts DEF Done
<1>3. SumOf(Done) = THREADS * ITERATIONS
  BY <1>2, SumsTyped, RoundsFacts, SumConstant
<1> QED BY <1>2, <1>3 DEF Moved

LEMMA VerdictStep ==
  ASSUME CounterAssumption, TypeOK, RoundsInv, LostInv, VerdictInv, [Next]_vars
  PROVE  VerdictInv'
<1>0. PICK w \in Threads : TRUE
  BY RoundsFacts
<1>1. CASE verdict # "none"
  <2>1. /\ program.op \in {"add", "withdraw"} /\ main \notin {"init", "join"}
        /\ \A t \in Threads : pc[t] = "gone"
        /\ verdict = "LOST" <=> lost
    BY <1>1 DEF VerdictInv
  <2>2. \A t \in Threads : ~Step(t)
    BY <2>1 DEF Step, Arrive, Begin, NegativeBalance, Enter, UseClosed, Test, Load, Store, Leave,
      Goto, Crash
  <2>3. ~Meet /\ ~MainInit /\ ~MainFails /\ ~MainCreate /\ ~MainCheck
    BY <1>0, <2>1 DEF Meet, MainInit, MainFails, MainCreate, MainCheck, MainGoto
  <2>4. ReleaseLock \/ ReleaseBarrier \/ Stopped \/ UNCHANGED vars
    BY <2>2, <2>3 DEF Next, Main
  <2>5. /\ program' = program /\ pc' = pc /\ verdict' = verdict /\ lost' = lost
        /\ main' \in {main, "released", "over", "hung"}
    BY <2>4 DEF ReleaseLock, ReleaseBarrier, MainGoto, Stopped, vars
  <2> QED BY <2>1, <2>5 DEF VerdictInv
<1>2. CASE verdict = "none" /\ ~MainCheck
  <2>1. ASSUME NEW t \in Threads, Step(t) PROVE verdict' = verdict
    BY <2>1 DEF Step, Arrive, Begin, NegativeBalance, Enter, UseClosed, Test, Load, Store, Leave,
      Goto, Crash
  <2>2. Main => verdict' = verdict
    BY <1>2 DEF Main, MainInit, MainFails, MainCreate, ReleaseLock, ReleaseBarrier
  <2>3. Meet \/ Stopped \/ UNCHANGED vars => verdict' = verdict
    BY DEF Meet, Stopped, vars
  <2> QED BY <1>2, <2>1, <2>2, <2>3 DEF Next, VerdictInv
<1>3. CASE MainCheck
  <2>1. /\ \A t \in Threads : pc[t] = "gone" /\ pc'[t] = "gone"
        /\ main' = "release" /\ lost' = lost /\ program' = program
    BY <1>3 DEF MainCheck, MainGoto
  <2>2. program.op \in {"add", "meet", "withdraw", "transact"}
    BY ProgramFacts DEF TypeOK
  <2>3. value \in Int /\ Moved \in Int /\ Total \in Int /\ lost \in BOOLEAN
    <3>1. value \in Int /\ lost \in BOOLEAN
      BY DEF TypeOK
    <3> QED BY <3>1, SumsTyped
  <2>4. CASE program.op = "add"
    <3>1. verdict' = IF value < THREADS * ITERATIONS THEN "LOST" ELSE "OK"
      BY <1>3, <2>4 DEF MainCheck, Adding
    <3>2. Moved = THREADS * ITERATIONS
      BY <2>1, <2>4, AllGone DEF Adding
    <3>3. (~lost => value = Moved) /\ (lost => value < Moved)
      BY <2>4 DEF LostInv, KeptInv, KeptIn, Adding
    <3>4. verdict' = "LOST" <=> lost
      BY <3>1, <3>2, <3>3, <2>3
    <3> QED BY <2>1, <2>4, <3>4 DEF VerdictInv
  <2>5. CASE program.op = "withdraw"
    <3>1. verdict' = IF value + Total # INITIAL_AMOUNT THEN "LOST" ELSE "OK"
      BY <1>3, <2>5 DEF MainCheck, Adding
    <3>2. (~lost => INITIAL_AMOUNT - value = Total) /\ (lost => INITIAL_AMOUNT - value < Total)
      BY <2>5 DEF LostInv, KeptInv, KeptIn, Adding, Moved
    <3>3. verdict' = "LOST" <=> lost
      BY <3>1, <3>2, <2>3, RoundsFacts
    <3> QED BY <2>1, <2>5, <3>3 DEF VerdictInv
  <2>6. CASE program.op \in {"meet", "transact"}
    <3>1. verdict' = "none"
      BY <1>3, <2>6 DEF MainCheck, Adding
    <3> QED BY <3>1 DEF VerdictInv
  <2> QED BY <2>2, <2>4, <2>5, <2>6
<1> QED BY <1>1, <1>2, <1>3

(***************************************************************************)
(* What a race does at most.                                               *)
(***************************************************************************)

LEMMA RaceStep ==
  ASSUME CounterAssumption, TypeOK, RoundsInv, RaceInv, [Next]_vars, TypeOK'
  PROVE  RaceInv'
<1> SUFFICES ASSUME Adding' PROVE RaceInv'
  BY DEF RaceInv
<1>0. Done \in [Threads -> Nat]
  BY SumsTyped
<1>1. CASE Quiet
  <2>1. /\ program' = program /\ value' = value /\ reg' = reg /\ lost' = lost
        /\ \A t \in Threads : pc'[t] = "store" <=> pc[t] = "store"
    BY <1>1 DEF Quiet
  <2>2. Adding' = Adding
    BY <2>1 DEF Adding
  <2>3. Done' = Done
    BY <1>1, <2>2 DEF Quiet
  <2> QED BY <2>1, <2>2, <2>3 DEF RaceInv
<1>2. ASSUME NEW t \in Threads, Load(t) PROVE RaceInv'
  <2>1. /\ program' = program /\ value' = value /\ lost' = lost /\ i' = i
        /\ reg' = [reg EXCEPT ![t] = value]
        /\ pc[t] = "load" /\ pc' = [pc EXCEPT ![t] = "store"]
    BY <1>2 DEF Load, Goto
  <2>2. Adding' = Adding
    BY <2>1 DEF Adding
  <2>3. Done' = Done
    BY <2>1 DEF Done, TypeOK
  <2>4. reg'[t] = value /\ \A u \in Threads : u # t => reg'[u] = reg[u] /\ pc'[u] = pc[u]
    BY <2>1 DEF TypeOK
  <2> QED BY <2>1, <2>2, <2>3, <2>4 DEF RaceInv
<1>3. ASSUME NEW t \in Threads, Store(t) PROVE RaceInv'
  <2>1. program' = program /\ reg' = reg /\ lost' = (lost \/ value # reg[t])
    BY <1>3 DEF Store, Goto
  <2>2. /\ pc[t] = "store" /\ pc'[t] = "leave" /\ \A u \in Threads : u # t => pc'[u] = pc[u]
        /\ Done'[t] = Done[t] + 1 /\ \A u \in Threads : u # t => Done'[u] = Done[u]
        /\ Adding
    BY <1>3, StoreMoves
  <2>3. value' = reg[t] + 1
    BY <1>3, <2>2 DEF Store
  <2>4. Done[t] \in Nat /\ reg[t] \in Int /\ \A u \in Threads : reg[u] \in Int /\ Done[u] \in Nat
    BY <1>0 DEF TypeOK
  <2>5. value' >= 1 /\ (Done[t] >= 1 => value' >= 2)
    BY <2>2, <2>3, <2>4 DEF RaceInv
  <2>6. value' >= 0 /\ \A u \in Threads : reg'[u] >= 0
    BY <2>1, <2>2, <2>3, <2>5, <2>4 DEF RaceInv
  <2>7. \A u \in Threads : pc'[u] = "store" /\ Done'[u] >= 1 => reg'[u] >= 1
    BY <2>1, <2>2 DEF RaceInv
  <2>8. ITERATIONS >= 2 => value' >= 2 \/ \E u \in Threads : Done'[u] < ITERATIONS
    <3>1. CASE Done[t] >= 1
      BY <3>1, <2>5
    <3>2. CASE Done[t] = 0
      BY <3>2, <2>2, RoundsFacts
    <3> QED BY <3>1, <3>2, <2>4
  <2>9. THREADS = 1 => ~lost' /\ \A u \in Threads : pc'[u] = "store" => reg'[u] = value'
    <3>1. SUFFICES ASSUME THREADS = 1
                   PROVE  ~lost' /\ \A u \in Threads : pc'[u] = "store" => reg'[u] = value'
      OBVIOUS
    <3>2. \A u \in Threads : u = t
      BY <3>1 DEF Threads
    <3>3. ~lost /\ reg[t] = value
      BY <2>2, <3>1 DEF RaceInv
    <3> QED BY <3>2, <3>3, <2>1, <2>2
  <2> QED BY <2>5, <2>6, <2>7, <2>8, <2>9 DEF RaceInv
<1> QED BY <1>1, <1>2, <1>3, StepKinds

LEMMA AccountStep ==
  ASSUME CounterAssumption, TypeOK, RoundsInv, AccountInv, [Next]_vars, TypeOK'
  PROVE  AccountInv'
<1> SUFFICES ASSUME program'.op \in {"withdraw", "transact"} PROVE AccountInv'
  BY DEF AccountInv
<1>1. CASE Quiet
  BY <1>1 DEF Quiet, AccountInv, Total
<1>2. ASSUME NEW t \in Threads, Load(t) PROVE AccountInv'
  BY <1>2 DEF Load, Goto, AccountInv, Total, TypeOK
<1>3. ASSUME NEW t \in Threads, Store(t) PROVE AccountInv'
  <2>1. program' = program /\ reg' = reg
    BY <1>3 DEF Store, Goto
  <2>2. ~Adding
    BY <2>1 DEF Adding
  <2>3. value' = reg[t] - amount[t]
    BY <1>3, <2>2 DEF Store
  <2>4. amount[t] >= 1 /\ amount[t] \in Nat
    BY <1>3, <2>2, StoreMoves
  <2>5. reg[t] <= INITIAL_AMOUNT /\ reg[t] \in Int /\ \A u \in Threads : reg[u] <= INITIAL_AMOUNT
    BY <2>1 DEF AccountInv, TypeOK
  <2>6. value' < INITIAL_AMOUNT /\ value' <= INITIAL_AMOUNT
    BY <2>3, <2>4, <2>5, RoundsFacts
  <2> QED BY <2>1, <2>5, <2>6 DEF AccountInv
<1> QED BY <1>1, <1>2, <1>3, StepKinds

LEMMA RaceInit ==
  ASSUME CounterAssumption, ProgramsAssumption, Init
  PROVE  RaceInv /\ AccountInv /\ VerdictInv
<1>1. TypeOK
  BY TypeInit
<1>2. \A t \in Threads : Done[t] = 0 /\ withdrawn[t] = 0 /\ reg[t] = 0 /\ pc[t] = "none"
  BY DEF Init, Done
<1>3. RaceInv
  <2>1. Adding => value = 0
    BY DEF Init, Adding
  <2>2. ~lost /\ 0 \in Threads /\ ITERATIONS > 0
    BY RoundsFacts DEF Init
  <2> QED BY <1>2, <2>1, <2>2 DEF RaceInv
<1>4. AccountInv
  <2>1. withdrawn \in [Threads -> Int]
    BY <1>1, SumsTyped
  <2>2. Total = THREADS * 0
    BY <1>2, <2>1, SumConstant, RoundsFacts DEF Total
  <2>3. program.op \in {"withdraw", "transact"} => value = INITIAL_AMOUNT
    BY DEF Init
  <2> QED BY <1>2, <2>2, <2>3, RoundsFacts DEF AccountInv
<1>5. VerdictInv
  BY DEF Init, VerdictInv
<1> QED BY <1>3, <1>4, <1>5

(***************************************************************************)
(* What a lock protects.                                                   *)
(***************************************************************************)

LEMMA LockInit ==
  ASSUME CounterAssumption, ProgramsAssumption, Init
  PROVE  LockInv
<1>1. /\ \A t \in Threads : pc[t] = "none" /\ owner # t
      /\ main = "init" /\ THREADS - 1 \in Threads /\ lost = FALSE
  BY RoundsFacts DEF Init
<1>2. value >= 0
  BY RoundsFacts DEF Init
<1> QED BY <1>1, <1>2 DEF LockInv, SectionInv, Section

\* A thread in its section while main has not given up.
LEMMA SectionThread ==
  ASSUME CounterAssumption, TypeOK, RoundsInv, SectionInv, Locked, "lock" \in alive,
         NEW t \in Threads, Step(t)
  PROVE  SectionInv' /\ main' = main /\ alive' = alive
<1> USE DEF Goto, Section, TypeOK
<1>0. Nobody \notin Threads
  BY RoundsFacts
<1>1. CASE Arrive(t)
  BY <1>1 DEF Arrive, SectionInv, Adding
<1>2. CASE Begin(t)
  BY <1>2 DEF Begin, SectionInv, Adding
<1>3. CASE NegativeBalance(t) \/ UseClosed(t)
  <2>1. ~UseClosed(t)
    BY DEF UseClosed
  <2>2. value < 0 /\ ~Adding
    BY <1>3, <2>1 DEF NegativeBalance, Adding
  <2>3. value >= 0
    BY <2>2 DEF SectionInv
  <2> QED BY <2>2, <2>3
<1>4. CASE Enter(t)
  <2>1. owner = Nobody /\ owner' = t /\ pc[t] = "enter" /\ pc' = [pc EXCEPT ![t] = AfterEntry]
    BY <1>4 DEF Enter
  <2>2. \A u \in Threads : pc[u] \notin Section
    BY <2>1, <1>0 DEF SectionInv
  <2>3. AfterEntry \in {"load", "test"} /\ (~Adding => AfterEntry = "test")
    BY DEF AfterEntry
  <2>4. /\ program' = program /\ value' = value /\ reg' = reg /\ amount' = amount
        /\ lost' = lost /\ main' = main /\ alive' = alive
    BY <1>4 DEF Enter
  <2>5. pc'[t] = AfterEntry /\ \A u \in Threads : u # t => pc'[u] = pc[u]
    BY <2>1
  <2>6. Adding' = Adding
    BY <2>4 DEF Adding
  <2> QED BY <2>1, <2>2, <2>3, <2>4, <2>5, <2>6 DEF SectionInv
<1>5. CASE Test(t)
  BY <1>5 DEF Test, SectionInv, Adding
<1>6. CASE Load(t)
  BY <1>6 DEF Load, SectionInv, Adding
<1>7. CASE Store(t)
  <2>1. /\ pc[t] = "store" /\ pc' = [pc EXCEPT ![t] = "leave"] /\ owner' = owner
        /\ program' = program /\ reg' = reg /\ amount' = amount /\ main' = main /\ alive' = alive
        /\ lost' = (lost \/ value # reg[t])
        /\ value' = IF Adding THEN reg[t] + 1 ELSE reg[t] - amount[t]
    BY <1>7 DEF Store
  <2>2. owner = t /\ reg[t] = value /\ (~Adding => value >= amount[t]) /\ ~lost
    BY <2>1 DEF SectionInv
  <2>3. \A u \in Threads : u # t => pc[u] \notin Section /\ pc'[u] = pc[u]
    BY <2>1, <2>2 DEF SectionInv
  <2>4. Adding' = Adding /\ pc'[t] = "leave"
    BY <2>1 DEF Adding
  <2>5. ~Adding => value' >= 0
    BY <2>1, <2>2
  <2> QED BY <2>1, <2>2, <2>3, <2>4, <2>5 DEF SectionInv
<1>8. CASE Leave(t)
  <2>1. /\ pc[t] = "leave" /\ pc' = [pc EXCEPT ![t] = IF LastRound(t) THEN "gone" ELSE "begin"]
        /\ owner' = IF owner = t THEN Nobody ELSE owner
        /\ program' = program /\ value' = value /\ reg' = reg /\ amount' = amount
        /\ lost' = lost /\ main' = main /\ alive' = alive
    BY <1>8 DEF Leave
  <2>2. owner = t
    BY <2>1 DEF SectionInv
  <2>3. pc'[t] \notin Section /\ \A u \in Threads : u # t => pc'[u] = pc[u]
    BY <2>1
  <2>4. Adding' = Adding
    BY <2>1 DEF Adding
  <2> QED BY <1>0, <2>1, <2>2, <2>3, <2>4 DEF SectionInv
<1> QED BY <1>1, <1>2, <1>3, <1>4, <1>5, <1>6, <1>7, <1>8 DEF Step

LEMMA LockThread ==
  ASSUME CounterAssumption, TypeOK, RoundsInv, LockInv, NEW t \in Threads, Step(t)
  PROVE  LockInv'
<1>1. program' = program /\ Locked' = Locked
  BY DEF Step, Arrive, Begin, NegativeBalance, Enter, UseClosed, Test, Load, Store, Leave, Goto,
    Crash, Locked
<1>2. SUFFICES ASSUME Locked PROVE LockInv'
  BY <1>1 DEF LockInv
<1>3. pc[t] \notin {"none", "gone"}
  BY DEF Step, Arrive, Begin, NegativeBalance, Enter, UseClosed, Test, Load, Store, Leave, Goto,
    Crash
<1>4. \A u \in Threads : pc'[u] = "none" <=> pc[u] = "none"
  <2>1. CASE NegativeBalance(t) \/ UseClosed(t)
    BY <2>1 DEF NegativeBalance, UseClosed, Crash
  <2>2. CASE ~(NegativeBalance(t) \/ UseClosed(t))
    <3>1. \E to \in {"waiting", "enter", "load", "store", "test", "leave", "gone", "begin"} :
            pc' = [pc EXCEPT ![t] = to]
      BY <2>2 DEF Step, Arrive, Begin, Enter, AfterEntry, Test, Load, Store, Leave, Goto
    <3> QED BY <3>1, <1>3 DEF TypeOK
  <2> QED BY <2>1, <2>2
<1>5. AllCreated' <=> AllCreated
  BY <1>4 DEF AllCreated
<1>6. THREADS - 1 \in Threads
  BY RoundsFacts
<1>7. CASE main \in {"init", "join"}
  <2>1. "lock" \in alive /\ SectionInv
    BY <1>2, <1>3, <1>7 DEF LockInv
  <2>2. SectionInv' /\ main' = main /\ alive' = alive
    BY <1>2, <2>1, SectionThread
  <2> QED BY <1>2, <1>4, <1>6, <1>7, <2>1, <2>2 DEF LockInv
<1>8. CASE main \notin {"init", "join"}
  <2>1. ~AllCreated
    BY <1>2, <1>3, <1>8 DEF LockInv
  <2>2. main' \in {main, "crashed"}
    BY DEF Step, Arrive, Begin, NegativeBalance, Enter, UseClosed, Test, Load, Store, Leave, Crash
  <2>3. main' \notin {"init", "join"}
    BY <2>2, <1>8
  <2> QED BY <2>1, <2>3, <1>5 DEF LockInv
<1> QED BY <1>7, <1>8

LEMMA LockMain ==
  ASSUME CounterAssumption, TypeOK, LockInv, Meet \/ Main \/ Stopped \/ UNCHANGED vars
  PROVE  LockInv'
<1>0. THREADS - 1 \in Threads /\ Nobody \notin Threads
  BY RoundsFacts
<1>1. program' = program /\ Locked' = Locked /\ Adding' = Adding
  BY DEF Main, Meet, MainInit, MainFails, MainCreate, MainCheck, ReleaseLock, ReleaseBarrier,
    MainGoto, Stopped, vars, Locked, Adding
<1>2. SUFFICES ASSUME Locked PROVE LockInv'
  BY <1>1 DEF LockInv
<1>3. CASE Meet
  <2>1. \A t \in Threads : pc[t] = "waiting"
    BY <1>3 DEF Meet
  <2>2. AllCreated /\ main \notin {"release", "released", "over", "hung", "crashed", "init"}
    BY <1>0, <1>2, <2>1 DEF AllCreated, LockInv
  <2>3. main = "join"
    BY <2>2 DEF TypeOK
  <2>4. SectionInv /\ "lock" \in alive
    BY <1>0, <1>2, <2>1, <2>3 DEF LockInv
  <2>5. /\ main' = main /\ alive' = alive /\ owner' = owner /\ lost' = lost /\ value' = value
        /\ pc' = [t \in Threads |-> IF program.op = "meet" THEN "gone" ELSE "begin"]
    BY <1>3 DEF Meet
  <2>6. \A t \in Threads : pc'[t] \in {"gone", "begin"} /\ owner # t
    BY <2>1, <2>4, <2>5 DEF SectionInv, Section
  <2>7. SectionInv'
    BY <1>1, <2>4, <2>5, <2>6 DEF SectionInv, Section
  <2> QED BY <2>3, <2>4, <2>5, <2>7 DEF LockInv
<1>4. CASE MainInit
  <2>1. /\ main = "init" /\ main' = "init" /\ pc' = pc /\ value' = value /\ reg' = reg
        /\ owner' = owner /\ lost' = lost /\ amount' = amount
        /\ \E o \in Missing : alive' = alive \cup {o}
    BY <1>4 DEF MainInit, MainGoto
  <2>2. SectionInv' <=> SectionInv
    BY <1>1, <2>1 DEF SectionInv
  <2>3. "lock" \in alive => "lock" \in alive'
    BY <2>1
  <2> QED BY <1>2, <2>1, <2>2, <2>3 DEF LockInv
<1>5. CASE MainFails
  <2>1. main = "init" /\ main' \in {"release", "crashed"} /\ pc' = pc
    BY <1>5 DEF MainFails, MainGoto
  <2>2. ~AllCreated'
    BY <1>0, <1>2, <2>1 DEF LockInv, AllCreated
  <2> QED BY <2>1, <2>2 DEF LockInv
<1>6. CASE MainCreate
  <2>1. PICK t \in Threads :
          /\ pc[t] = "none" /\ main' = IF t = THREADS - 1 THEN "join" ELSE "init"
          /\ pc' = [pc EXCEPT ![t] = IF program.barrier THEN "barrier" ELSE "begin"]
    BY <1>6 DEF MainCreate, MainGoto
  <2>2. /\ Missing = {} /\ main = "init" /\ value' = value /\ reg' = reg
        /\ owner' = owner /\ lost' = lost /\ amount' = amount /\ alive' = alive
    BY <1>6 DEF MainCreate, MainGoto
  <2>3. "lock" \in alive
    BY <1>2, <2>2 DEF Missing
  <2>4. SectionInv
    BY <1>2, <2>2 DEF LockInv
  <2>5. pc'[t] \in {"barrier", "begin"} /\ \A u \in Threads : u # t => pc'[u] = pc[u]
    BY <2>1 DEF TypeOK
  <2>6. SectionInv'
    BY <1>1, <2>1, <2>2, <2>4, <2>5 DEF SectionInv, Section
  <2>7. main' \in {"init", "join"} /\ (main' = "init" => pc'[THREADS - 1] = "none")
    BY <1>0, <1>2, <2>1, <2>2, <2>5 DEF LockInv
  <2> QED BY <2>2, <2>3, <2>6, <2>7 DEF LockInv
<1>7. CASE MainCheck
  <2>1. /\ main = "join" /\ main' = "release" /\ pc' = pc /\ value' = value /\ reg' = reg
        /\ owner' = owner /\ lost' = lost /\ amount' = amount
        /\ \A t \in Threads : pc[t] = "gone"
    BY <1>7 DEF MainCheck, MainGoto
  <2>2. SectionInv'
    BY <1>1, <1>2, <2>1 DEF SectionInv, LockInv
  <2> QED BY <2>1, <2>2 DEF LockInv
<1>8. CASE ReleaseLock \/ ReleaseBarrier
  <2>1. /\ main \notin {"init", "join"} /\ main' \notin {"init", "join"}
        /\ pc' = pc /\ value' = value /\ reg' = reg
        /\ owner' = owner /\ lost' = lost /\ amount' = amount
    BY <1>8 DEF ReleaseLock, ReleaseBarrier, MainGoto
  <2>2. (AllCreated' <=> AllCreated) /\ (SectionInv' <=> SectionInv)
    BY <1>1, <2>1 DEF AllCreated, SectionInv
  <2> QED BY <1>2, <2>1, <2>2 DEF LockInv
<1>9. CASE Stopped \/ UNCHANGED vars
  <2>1. /\ main' = main /\ pc' = pc /\ value' = value /\ reg' = reg /\ alive' = alive
        /\ owner' = owner /\ lost' = lost /\ amount' = amount
    BY <1>9 DEF Stopped, vars
  <2>2. (AllCreated' <=> AllCreated) /\ (SectionInv' <=> SectionInv)
    BY <1>1, <2>1 DEF AllCreated, SectionInv
  <2> QED BY <1>2, <2>1, <2>2 DEF LockInv
<1> QED BY <1>3, <1>4, <1>5, <1>6, <1>7, <1>8, <1>9 DEF Main

LEMMA LockStep ==
  CounterAssumption /\ TypeOK /\ RoundsInv /\ LockInv /\ [Next]_vars => LockInv'
BY LockThread, LockMain DEF Next

(***************************************************************************)
(* Two threads and an account.                                             *)
(***************************************************************************)

\* The steps that nothing between the test and the store sees.
Still ==
  /\ program' = program /\ value' = value /\ reg' = reg
  /\ \A t \in Threads :
       /\ pc'[t] = "load" <=> pc[t] = "load"
       /\ pc'[t] = "store" <=> pc[t] = "store"
       /\ pc[t] \in {"load", "store"} => amount'[t] = amount[t]

LEMMA StillThread ==
  ASSUME TypeOK, ~Adding, NEW t \in Threads,
         \/ Arrive(t) \/ Begin(t) \/ NegativeBalance(t) \/ Enter(t) \/ UseClosed(t) \/ Leave(t)
  PROVE  Still
BY DEF Arrive, Begin, NegativeBalance, Enter, UseClosed, Leave, Goto, Crash, AfterEntry, Still,
  TypeOK

LEMMA StillMain ==
  ASSUME TypeOK, Meet \/ Main \/ Stopped \/ UNCHANGED vars
  PROVE  Still
<1>1. CASE Meet
  BY <1>1 DEF Meet, Still
<1>2. CASE MainInit \/ MainFails \/ MainCheck \/ ReleaseLock \/ ReleaseBarrier
  <2>1. program' = program /\ value' = value /\ reg' = reg /\ amount' = amount /\ pc' = pc
    BY <1>2 DEF MainInit, MainFails, MainCheck, ReleaseLock, ReleaseBarrier, MainGoto
  <2> QED BY <2>1 DEF Still
<1>3. CASE MainCreate
  BY <1>3 DEF MainCreate, MainGoto, Still, TypeOK
<1>4. CASE Stopped \/ UNCHANGED vars
  <2>1. program' = program /\ value' = value /\ reg' = reg /\ amount' = amount /\ pc' = pc
    BY <1>4 DEF Stopped, vars
  <2> QED BY <2>1 DEF Still
<1> QED BY <1>1, <1>2, <1>3, <1>4 DEF Main

LEMMA OneThread ==
  ASSUME CounterAssumption, TypeOK, THREADS = 1, OneInv, ~Adding,
         NEW t \in Threads, Test(t) \/ Load(t) \/ Store(t)
  PROVE  OneInv'
<1>0. \A u \in Threads : u = t
  BY DEF Threads
<1>1. /\ value \in Int /\ reg[t] \in Int /\ amount[t] \in Nat /\ amount' = amount
  BY DEF TypeOK, Test, Load, Store
<1>2. CASE Test(t)
  BY <1>0, <1>1, <1>2 DEF Test, Goto, OneInv, TypeOK
<1>3. CASE Load(t)
  BY <1>0, <1>1, <1>3 DEF Load, Goto, OneInv, TypeOK
<1>4. CASE Store(t)
  BY <1>0, <1>1, <1>4 DEF Store, Goto, OneInv, TypeOK
<1> QED BY <1>2, <1>3, <1>4

LEMMA PairThread ==
  ASSUME CounterAssumption, TypeOK, THREADS = 2, PairInv, ~Adding,
         NEW t \in Threads, Test(t) \/ Load(t) \/ Store(t)
  PROVE  PairInv'
<1>1. PICK u \in Threads : u # t /\ \A v \in Threads : v = t \/ v = u
  <2>1. Threads = {0, 1}
    BY DEF Threads
  <2> QED BY <2>1
<1>2. /\ value \in Int /\ reg[t] \in Int /\ reg[u] \in Int /\ MAX_WITHDRAW \in Nat
      /\ amount[t] \in Nat /\ amount[u] \in Nat
      /\ amount[t] <= MAX_WITHDRAW /\ amount[u] <= MAX_WITHDRAW
  BY RoundsFacts DEF TypeOK
<1>3. amount' = amount /\ pc'[u] = pc[u]
  BY <1>1 DEF TypeOK, Test, Load, Store, Goto
<1>4. CASE Test(t)
  <2>1. /\ value' = value /\ reg' = reg /\ pc[t] = "test"
        /\ pc'[t] = IF value < amount[t] THEN "leave" ELSE "load"
    BY <1>4 DEF Test, Goto, TypeOK
  <2> QED BY <1>1, <1>2, <1>3, <2>1 DEF PairInv
<1>5. CASE Load(t)
  <2>1. /\ value' = value /\ reg'[t] = value /\ reg'[u] = reg[u]
        /\ pc[t] = "load" /\ pc'[t] = "store"
    BY <1>1, <1>5 DEF Load, Goto, TypeOK
  <2> QED BY <1>1, <1>2, <1>3, <2>1 DEF PairInv
<1>6. CASE Store(t)
  <2>1. /\ value' = reg[t] - amount[t] /\ reg' = reg
        /\ pc[t] = "store" /\ pc'[t] = "leave"
    BY <1>6 DEF Store, Goto, TypeOK
  <2> QED BY <1>1, <1>2, <1>3, <2>1 DEF PairInv
<1> QED BY <1>4, <1>5, <1>6

LEMMA TwoStep ==
  ASSUME CounterAssumption, TypeOK, TwoInv, [Next]_vars
  PROVE  TwoInv'
<1> SUFFICES ASSUME program'.op \in {"withdraw", "transact"}
             PROVE  (THREADS = 1 => OneInv') /\ (THREADS = 2 => PairInv')
  BY DEF TwoInv
<1>0. program' = program
  BY DEF Next, Step, Arrive, Begin, NegativeBalance, Enter, UseClosed, Test, Load, Store, Leave,
    Goto, Crash, Main, Meet, MainInit, MainFails, MainCreate, MainCheck, ReleaseLock,
    ReleaseBarrier, MainGoto, Stopped, vars
<1>1. ~Adding /\ (THREADS = 1 => OneInv) /\ (THREADS = 2 => PairInv)
  BY <1>0 DEF Adding, TwoInv
<1>2. CASE Still
  <2>1. THREADS = 1 => OneInv'
    BY <1>1, <1>2 DEF Still, OneInv
  <2>2. THREADS = 2 => PairInv'
    BY <1>1, <1>2 DEF Still, PairInv
  <2> QED BY <2>1, <2>2
<1>3. ASSUME NEW t \in Threads, Test(t) \/ Load(t) \/ Store(t)
      PROVE  (THREADS = 1 => OneInv') /\ (THREADS = 2 => PairInv')
  BY <1>1, <1>3, OneThread, PairThread
<1> QED BY <1>1, <1>2, <1>3, StillThread, StillMain DEF Next, Step

(***************************************************************************)
(* The theorems.                                                           *)
(***************************************************************************)

LEMMA IInvInit == CounterAssumption /\ ProgramsAssumption /\ Init => IInv
<1> SUFFICES ASSUME CounterAssumption, ProgramsAssumption, Init PROVE IInv
  OBVIOUS
<1>1. TypeOK /\ RoundsInv /\ LostInv /\ VerdictInv /\ RaceInv /\ AccountInv /\ LockInv
  BY TypeInit, RoundsInit, LostInit, RaceInit, LockInit
<1>2. TwoInv
  <2>1. program.op \in {"withdraw", "transact"} => value >= 0 /\ MAX_WITHDRAW >= 0
    BY RoundsFacts DEF Init
  <2>2. \A t \in Threads : pc[t] = "none"
    BY DEF Init
  <2>3. program.op \in {"withdraw", "transact"} => value >= - MAX_WITHDRAW
    BY <1>1, <2>1, RoundsFacts DEF TypeOK
  <2> QED BY <2>1, <2>2, <2>3 DEF TwoInv, OneInv, PairInv
<1> QED BY <1>1, <1>2 DEF IInv

LEMMA IInvStep == CounterAssumption /\ IInv /\ [Next]_vars => IInv'
<1> SUFFICES ASSUME CounterAssumption, IInv, [Next]_vars PROVE IInv'
  OBVIOUS
<1>1. TypeOK /\ RoundsInv /\ LostInv /\ VerdictInv /\ RaceInv /\ AccountInv /\ LockInv /\ TwoInv
  BY DEF IInv
<1>2. TypeOK'
  BY <1>1, TypeStep
<1>3. RoundsInv' /\ LostInv' /\ VerdictInv'
  BY <1>1, <1>2, RoundsStep, LostStep, VerdictStep
<1>4. RaceInv' /\ AccountInv' /\ LockInv' /\ TwoInv'
  BY <1>1, <1>2, RaceStep, AccountStep, LockStep, TwoStep
<1> QED BY <1>2, <1>3, <1>4 DEF IInv

LEMMA Invariant == Spec => []IInv
<1>1. CounterAssumption /\ ProgramsAssumption
  BY CounterAssumption, ProgramsAssumption
<1> QED BY <1>1, IInvInit, IInvStep, PTL DEF Spec

LEMMA InvProtects == CounterAssumption /\ IInv => LockProtects
<1> SUFFICES ASSUME CounterAssumption, IInv, Locked, AllCreated
             PROVE  /\ Adding => value = SumOf(Done)
                    /\ ~Adding => value >= 0 /\ value + Total = INITIAL_AMOUNT
  BY DEF LockProtects
<1>1. TypeOK /\ LostInv /\ LockInv
  BY DEF IInv
<1>2. ~lost /\ (~Adding => value >= 0)
  BY <1>1 DEF LockInv, SectionInv
<1>3. program.op # "meet"
  BY <1>1, ProgramFacts DEF TypeOK, Locked
<1>4. KeptIn(value) = Moved
  BY <1>1, <1>2, <1>3 DEF LostInv, KeptInv
<1>5. value \in Int /\ Total \in Int /\ INITIAL_AMOUNT \in Int
  <2>1. value \in Int
    BY <1>1 DEF TypeOK
  <2> QED BY <1>1, <2>1, SumsTyped, RoundsFacts
<1> QED BY <1>2, <1>4, <1>5 DEF KeptIn, Moved

LEMMA InvDetected == IInv => LostDetected
BY DEF IInv, VerdictInv, LostDetected

LEMMA InvBounds == CounterAssumption /\ IInv => RaceBounds
<1> SUFFICES ASSUME CounterAssumption, IInv PROVE RaceBounds
  OBVIOUS
<1>1. TypeOK /\ RoundsInv /\ LostInv /\ VerdictInv /\ RaceInv /\ AccountInv /\ TwoInv
  BY DEF IInv
<1>2. value \in Int /\ Moved \in Int /\ Total \in Int /\ lost \in BOOLEAN
  <2>1. value \in Int /\ lost \in BOOLEAN
    BY <1>1 DEF TypeOK
  <2> QED BY <1>1, <2>1, SumsTyped
<1>3. program.op # "meet" => KeptIn(value) <= Moved
  <2>1. program.op # "meet" => KeptIn(value) \in Int
    BY <1>2, RoundsFacts DEF KeptIn
  <2> QED BY <1>1, <1>2, <2>1 DEF LostInv, KeptInv
<1>4. ASSUME Adding, verdict # "none"
      PROVE  value \in (IF ITERATIONS = 1 \/ THREADS = 1 THEN ITERATIONS ELSE 2) .. THREADS * ITERATIONS
  <2>1. \A t \in Threads : pc[t] = "gone"
    BY <1>1, <1>4 DEF VerdictInv
  <2>2. Moved = THREADS * ITERATIONS /\ \A t \in Threads : Done[t] = ITERATIONS
    BY <1>1, <1>4, <2>1, AllGone
  <2>3. value <= THREADS * ITERATIONS
    BY <1>3, <1>4, <2>2 DEF KeptIn, Adding
  <2>4. CASE THREADS = 1
    <3>1. ~lost
      BY <1>1, <1>4, <2>4 DEF RaceInv
    <3>2. value = Moved
      BY <1>1, <1>4, <3>1 DEF LostInv, KeptInv, KeptIn, Adding
    <3>3. value = ITERATIONS
      BY <3>2, <2>2, <2>4, RoundsFacts
    <3> QED BY <2>3, <2>4, <3>3, <1>2, RoundsFacts
  <2>5. CASE ITERATIONS = 1
    <3>1. 0 \in Threads /\ Done[0] >= 1
      BY <2>2, <2>5, RoundsFacts
    <3>2. value >= 1
      BY <1>1, <1>4, <3>1 DEF RaceInv
    <3> QED BY <2>3, <2>5, <3>2, <1>2, RoundsFacts
  <2>6. CASE ITERATIONS # 1 /\ THREADS # 1
    <3>1. ITERATIONS >= 2 /\ ~\E t \in Threads : Done[t] < ITERATIONS
      BY <2>2, <2>6, RoundsFacts
    <3>2. value >= 2
      BY <1>1, <1>4, <3>1 DEF RaceInv
    <3>3. THREADS * ITERATIONS \in Int
      BY RoundsFacts
    <3> QED BY <2>3, <2>6, <3>2, <3>3, <1>2
  <2> QED BY <2>4, <2>5, <2>6
<1>5. ASSUME program.op \in {"withdraw", "transact"}
      PROVE  /\ value \in INITIAL_AMOUNT - Total .. INITIAL_AMOUNT
             /\ Total > 0 => value < INITIAL_AMOUNT
             /\ THREADS <= 2 => value >= - (THREADS - 1) * MAX_WITHDRAW
  <2>1. INITIAL_AMOUNT - value <= Total
    BY <1>3, <1>5 DEF KeptIn, Moved, Adding
  <2>2. value <= INITIAL_AMOUNT /\ (Total > 0 => value < INITIAL_AMOUNT)
    BY <1>1, <1>5 DEF AccountInv
  <2>3. value \in INITIAL_AMOUNT - Total .. INITIAL_AMOUNT
    BY <2>1, <2>2, <1>2, RoundsFacts
  <2>4. CASE THREADS = 1
    <3>1. value >= 0
      BY <1>1, <1>5, <2>4 DEF TwoInv, OneInv
    <3>2. - (THREADS - 1) * MAX_WITHDRAW = 0
      BY <2>4, RoundsFacts
    <3> QED BY <2>2, <2>3, <3>1, <3>2
  <2>5. CASE THREADS = 2
    <3>1. value >= - MAX_WITHDRAW
      BY <1>1, <1>5, <2>5 DEF TwoInv, PairInv
    <3>2. - (THREADS - 1) * MAX_WITHDRAW = - MAX_WITHDRAW
      BY <2>5, RoundsFacts
    <3> QED BY <2>2, <2>3, <3>1, <3>2
  <2>6. CASE THREADS > 2
    BY <2>2, <2>3, <2>6, RoundsFacts
  <2> QED BY <2>4, <2>5, <2>6, RoundsFacts
<1> QED BY <1>4, <1>5 DEF RaceBounds

\* LockProtects: in every program with a lock (a mutex, an unnamed or a named semaphore, a
\* monitor), for any number of threads and rounds, nothing is lost once all threads have
\* been created, and no withdrawal takes more than the account has.
THEOREM Protects == Spec => []LockProtects
<1>1. CounterAssumption
  BY CounterAssumption
<1> QED BY <1>1, Invariant, InvProtects, PTL

\* LostDetected: where main compares, the count with all rounds in thread_add*.c and the
\* account with the withdrawals in bank_withdraw*.c, it reports lost transactions if and
\* only if a store has overwritten another thread's: several losses never cancel each other
\* out. Of the C# programs, which compare nothing, it says nothing.
THEOREM Detected == Spec => []LostDetected
BY Invariant, InvDetected, PTL

\* RaceBounds: a count that is not protected comes to at least 2 and at most to all rounds
\* of all threads; an account never loses more than was withdrawn from it, and of two
\* threads only the second one can overdraw it.
THEOREM Bounds == Spec => []RaceBounds
<1>1. CounterAssumption
  BY CounterAssumption
<1> QED BY <1>1, Invariant, InvBounds, PTL
==============================================================================
