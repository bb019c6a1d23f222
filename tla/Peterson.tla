------------------------------- MODULE Peterson -------------------------------
(***************************************************************************)
(* bank_transactions_Peterson.c on the memory it runs on: two threads move *)
(* money from rich_guy to poor_guy, each transfer between Peterson's entry *)
(* and exit sections, until everything has been moved.  The entry section  *)
(* is the program's own, the same as Peterson.h and Peterson_sched.h, or   *)
(* that of Peterson_xchg.h and Peterson_xchg_sched.h; without one the      *)
(* program is bank_transactions.c.                                         *)
(*                                                                         *)
(* An x86 processor keeps its stores in a FIFO buffer, reads its own       *)
(* buffered stores, and shows them to the other processor later; an        *)
(* instruction with an implicit lock (xchg) waits for the buffer to drain. *)
(***************************************************************************)
EXTENDS Integers, Sequences

CONSTANTS
  Programs,    \* the entry sections and machines considered, of Entries \X BOOLEAN
  BufferSize,  \* stores a processor can hold back
  AMOUNT,      \* the initial balance of rich_guy
  MaxTransfer, \* 1 + rand() % 10 is at most this
  Nobody       \* the owner of the section while it is free

\* "optimised" is the xchg variant in a build where the compiler keeps the operands
\* of the asm statement, which xchg overwrites, in registers from call to call.
Entries == {"none", "plain", "xchg", "optimised"}

Thread == {0, 1}

ASSUME PetersonAssumption ==
  /\ Programs \subseteq Entries \X BOOLEAN
  /\ BufferSize \in Nat \ {0} /\ AMOUNT \in Nat \ {0} /\ MaxTransfer \in Nat \ {0}
  /\ Nobody \notin Thread

Flag(p) == IF p = 0 THEN "flag0" ELSE "flag1"
Address == {"flag0", "flag1", "turn", "rich_guy", "poor_guy"}

VARIABLES
  entry,  \* which program this is: its entry section ...
  smp,    \* ... and its machine; FALSE: one processor, hence one view of memory
  mem,    \* the shared memory
  buf,    \* the stores each thread's processor still holds back
  reg,    \* the two registers given to the asm statement
  pc,     \* where each bank_transaction() is
  money,  \* its local variable
  acc,    \* the register of its += or -=
  done,   \* its local variable
  main    \* "running", then what main reports

program == <<entry, smp>>
vars == <<program, mem, buf, reg, pc, money, acc, done, main>>

\* The combinations that keep the stores of the entry section in order.
Ordered == entry = "xchg" \/ (entry = "plain" /\ ~smp)

Trying == {"test_flag", "test_turn"}
Section == {"cap", "debit", "debited", "credit", "credited", "rich_empty",
            "poor_full", "post"}
Position == {"begin", "flag", "turn", "finished"} \cup Trying \cup Section

BufferedStore == [addr : Address, val : Int]

TypeOK ==
  /\ entry \in Entries /\ smp \in BOOLEAN
  /\ mem \in [Address -> Int]
  /\ buf \in [Thread -> Seq(BufferedStore)]
  /\ \A p \in Thread : Len(buf[p]) <= BufferSize
  /\ reg \in [Thread -> [flag : Int, turn : Int]]
  /\ pc \in [Thread -> Position]
  /\ money \in [Thread -> Int]
  /\ acc \in [Thread -> Int]
  /\ done \in [Thread -> BOOLEAN]
  /\ main \in {"running", "ok", "bad"}

Init ==
  /\ \E prog \in Programs : entry = prog[1] /\ smp = prog[2]
  /\ mem = [a \in Address |-> IF a = "rich_guy" THEN AMOUNT ELSE 0]
  /\ buf = [p \in Thread |-> <<>>]
  /\ reg = [p \in Thread |-> [flag |-> 1, turn |-> 1 - p]]
  /\ pc = [p \in Thread |-> "begin"]
  /\ money = [p \in Thread |-> 0]
  /\ acc = [p \in Thread |-> 0]
  /\ done = [p \in Thread |-> FALSE]
  /\ main = "running"

------------------------------------------------------------------------------
\* What thread p reads at address a: its own last buffered store, else memory.
Pending(p, a) == {i \in DOMAIN buf[p] : buf[p][i].addr = a}

Load(p, a) ==
  IF Pending(p, a) = {} THEN mem[a]
  ELSE buf[p][CHOOSE i \in Pending(p, a) : \A j \in Pending(p, a) : j <= i].val

\* A plain store waits in the buffer, if there is more than one processor.
Store(p, a, v) ==
  IF smp
  THEN /\ Len(buf[p]) < BufferSize
       /\ buf' = [buf EXCEPT ![p] = Append(@, [addr |-> a, val |-> v])]
       /\ mem' = mem
  ELSE mem' = [mem EXCEPT ![a] = v] /\ buf' = buf

\* MUTANT of Exchange: the exchange does not wait for the buffer.
MutNoDrain(p, a, r) ==
  /\ mem' = [mem EXCEPT ![a] = reg[p][r]]
  /\ reg' = IF entry = "optimised" THEN [reg EXCEPT ![p][r] = mem[a]] ELSE reg
  /\ buf' = buf

\* xchg drains the buffer and swaps memory and register.  The build without
\* optimisation loads the registers anew before each asm statement.
Exchange(p, a, r) ==
  /\ buf[p] = <<>>
  /\ mem' = [mem EXCEPT ![a] = reg[p][r]]
  /\ reg' = IF entry = "optimised" THEN [reg EXCEPT ![p][r] = mem[a]] ELSE reg
  /\ buf' = buf

\* The oldest buffered store of p reaches the memory.
Flush(p) ==
  /\ buf[p] # <<>>
  /\ mem' = [mem EXCEPT ![Head(buf[p]).addr] = Head(buf[p]).val]
  /\ buf' = [buf EXCEPT ![p] = Tail(@)]
  /\ UNCHANGED <<reg, pc, money, acc, done, main, program>>

Goto(p, from, to) == pc[p] = from /\ pc' = [pc EXCEPT ![p] = to]

------------------------------------------------------------------------------
\* money = 1 + rand() % 10
Begin(p) ==
  /\ Goto(p, "begin", IF entry = "none" THEN "cap" ELSE "flag")
  /\ \E m \in 1 .. MaxTransfer : money' = [money EXCEPT ![p] = m]
  /\ UNCHANGED <<mem, buf, reg, acc, done, main, program>>

\* flag[self] = true
StoreFlag(p) ==
  /\ Goto(p, "flag", "turn")
  /\ IF entry = "plain" THEN Store(p, Flag(p), 1) /\ reg' = reg
                        ELSE Exchange(p, Flag(p), "flag")
  /\ UNCHANGED <<money, acc, done, main, program>>

\* turn = !self
StoreTurn(p) ==
  /\ Goto(p, "turn", "test_flag")
  /\ IF entry = "plain" THEN Store(p, "turn", 1 - p) /\ reg' = reg
                        ELSE Exchange(p, "turn", "turn")
  /\ UNCHANGED <<money, acc, done, main, program>>

\* while (flag[!self] && ...
TestFlag(p) ==
  /\ Goto(p, "test_flag", IF Load(p, Flag(1 - p)) # 0 THEN "test_turn" ELSE "cap")
  /\ UNCHANGED <<mem, buf, reg, money, acc, done, main, program>>

\* MUTANT of TestTurn: the thread waits while it has precedence.
MutTurnSwapped(p) ==
  /\ Goto(p, "test_turn", IF Load(p, "turn") = p THEN "test_flag" ELSE "cap")
  /\ UNCHANGED <<mem, buf, reg, money, acc, done, main, program>>

\* ... turn == !self)
TestTurn(p) ==
  /\ Goto(p, "test_turn", IF Load(p, "turn") # p THEN "test_flag" ELSE "cap")
  /\ UNCHANGED <<mem, buf, reg, money, acc, done, main, program>>

\* MUTANT of Cap: the amount is not limited by the balance.
MutNoCap(p) ==
  /\ Goto(p, "cap", "debit")
  /\ UNCHANGED <<mem, buf, reg, money, acc, done, main, program>>

\* if (money > rich_guy) money = rich_guy
Cap(p) ==
  /\ Goto(p, "cap", "debit")
  /\ money' = [money EXCEPT ![p] =
                 IF @ > Load(p, "rich_guy") THEN Load(p, "rich_guy") ELSE @]
  /\ UNCHANGED <<mem, buf, reg, acc, done, main, program>>

\* rich_guy -= money is a load ...
Debit(p) ==
  /\ Goto(p, "debit", "debited")
  /\ acc' = [acc EXCEPT ![p] = Load(p, "rich_guy") - money[p]]
  /\ UNCHANGED <<mem, buf, reg, money, done, main, program>>

\* ... and a store.
Debited(p) ==
  /\ Goto(p, "debited", "credit")
  /\ Store(p, "rich_guy", acc[p])
  /\ UNCHANGED <<reg, money, acc, done, main, program>>

\* poor_guy += money
Credit(p) ==
  /\ Goto(p, "credit", "credited")
  /\ acc' = [acc EXCEPT ![p] = Load(p, "poor_guy") + money[p]]
  /\ UNCHANGED <<mem, buf, reg, money, done, main, program>>

Credited(p) ==
  /\ Goto(p, "credited", "rich_empty")
  /\ Store(p, "poor_guy", acc[p])
  /\ UNCHANGED <<reg, money, acc, done, main, program>>

\* done = rich_guy <= 0 ||
RichEmpty(p) ==
  /\ Goto(p, "rich_empty", IF Load(p, "rich_guy") <= 0 THEN "post" ELSE "poor_full")
  /\ done' = [done EXCEPT ![p] = Load(p, "rich_guy") <= 0]
  /\ UNCHANGED <<mem, buf, reg, money, acc, main, program>>

\* poor_guy >= AMOUNT
PoorFull(p) ==
  /\ Goto(p, "poor_full", "post")
  /\ done' = [done EXCEPT ![p] = Load(p, "poor_guy") >= AMOUNT]
  /\ UNCHANGED <<mem, buf, reg, money, acc, main, program>>

\* MUTANT of Post: the wrong flag is lowered.
MutPostOther(p) ==
  /\ Goto(p, "post", IF done[p] THEN "finished" ELSE "begin")
  /\ IF entry = "none" THEN UNCHANGED <<mem, buf>> ELSE Store(p, Flag(1 - p), 0)
  /\ UNCHANGED <<reg, money, acc, done, main, program>>

\* flag[self] = false, a plain store in every variant
Post(p) ==
  /\ Goto(p, "post", IF done[p] THEN "finished" ELSE "begin")
  /\ IF entry = "none" THEN UNCHANGED <<mem, buf>> ELSE Store(p, Flag(p), 0)
  /\ UNCHANGED <<reg, money, acc, done, main, program>>

ThreadStep(p) ==
  \/ Begin(p)
  \/ StoreFlag(p) \/ StoreTurn(p) \/ TestFlag(p) \/ TestTurn(p)
  \/ Cap(p) \/ Debit(p) \/ Debited(p) \/ Credit(p) \/ Credited(p)
  \/ RichEmpty(p) \/ PoorFull(p)
  \/ Post(p)

\* main joins both threads, whose stores it then sees, and checks the balances.
Report ==
  /\ main = "running"
  /\ \A p \in Thread : pc[p] = "finished" /\ buf[p] = <<>>
  /\ main' = IF mem["rich_guy"] # 0 \/ mem["poor_guy"] # AMOUNT THEN "bad" ELSE "ok"
  /\ UNCHANGED <<mem, buf, reg, pc, money, acc, done, program>>

Stopped == main # "running" /\ UNCHANGED vars

Next == (\E p \in Thread : ThreadStep(p) \/ Flush(p)) \/ Report \/ Stopped

Spec == Init /\ [][Next]_vars

\* The kernel runs both threads and a processor drains its buffer.
Fairness ==
  /\ \A p \in Thread : WF_vars(ThreadStep(p)) /\ WF_vars(Flush(p))
  /\ WF_vars(Report)
FairSpec == Spec /\ Fairness
------------------------------------------------------------------------------
\* Exclusive: between Peterson_wait and Peterson_post there is one thread.
Exclusive == ~(pc[0] \in Section /\ pc[1] \in Section)

\* MutualExclusion: with xchg, or on one processor, the section is exclusive.
MutualExclusion == Ordered => Exclusive

\* MoneyConserved: a thread that has entered sees every store of the one before it,
\* so what it reads, with what it has debited and not yet credited, is all the money.
InFlight(p) == IF pc[p] \in {"credit", "credited"} THEN money[p] ELSE 0

MoneyConserved ==
  Ordered => \A p \in Thread : pc[p] \in Section =>
    Load(p, "rich_guy") + Load(p, "poor_guy") + InFlight(p) = AMOUNT

\* NoOvertaking: while one thread waits and the other has given it precedence, the
\* other one cannot enter the section first.
NoOvertaking ==
  [][\A p \in Thread :
       Ordered /\ pc[p] \in Trying /\ mem["turn"] = p =>
         ~(pc[1 - p] \in Trying /\ pc'[1 - p] \in Section)]_vars

\* TransfersComplete: both threads end and main finds that no money has appeared or
\* disappeared.
TransfersComplete == Ordered => <>(main = "ok")

\* The section as the abstract lock sees it.
Inside == {p \in Thread : Ordered /\ pc[p] \in Section}
Holder == IF Inside = {} THEN Nobody ELSE CHOOSE p \in Inside : TRUE
Lock == INSTANCE Mutex WITH owner <- Holder
ImplementsMutex == Lock!Spec
==============================================================================
