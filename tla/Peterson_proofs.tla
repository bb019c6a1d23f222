---------------------------- MODULE Peterson_proofs ----------------------------
(***************************************************************************)
(* Proofs about Peterson: with the xchg entry section, or with the plain   *)
(* one on a single processor, the section is exclusive, nobody is          *)
(* overtaken, and the program implements the abstract lock, whatever the   *)
(* depth of the store buffers and the amounts.                             *)
(***************************************************************************)
EXTENDS Peterson, WellFoundedInduction, TLAPS

\* A nonempty set of indexes has a greatest one.
LEMMA Maximum ==
  ASSUME NEW n \in Nat, NEW S \in SUBSET (1 .. n), S # {}
  PROVE  \E i \in S : \A j \in S : j <= i
<1> DEFINE R == OpToRel(<, Nat)
           T == {n - i : i \in S}
<1>1. \A x, y \in Nat : x < y => <<x, y>> \in R
  BY DEF OpToRel
<1>2. T \subseteq Nat /\ T # {}
  <2> HIDE DEF R
  <2>1. \A i \in 1 .. n : n - i \in Nat
    OBVIOUS
  <2>2. T \subseteq Nat
    BY <2>1
  <2>3. T # {}
    OBVIOUS
  <2> QED BY <2>2, <2>3
<1>3. \E x \in T : \A y \in T : ~(<<y, x>> \in R)
  <2> HIDE DEF R, T
  <2>1. IsWellFoundedOn(R, Nat)
    BY NatLessThanWellFounded DEF R
  <2> QED BY <2>1, <1>2, WFMin, Zenon
<1>4. PICK x \in T : \A y \in T : ~(y < x)
  <2> HIDE DEF R, T
  <2> QED BY <1>1, <1>2, <1>3
<1> HIDE DEF R
<1>5. PICK i \in S : x = n - i
  OBVIOUS
<1>6. \A j \in S : j <= i
  BY <1>4, <1>5
<1> QED BY <1>6

\* What a thread reads is a number, from its buffer or from the memory.
LEMMA LoadType ==
  ASSUME TypeOK, NEW p \in Thread, NEW a \in Address
  PROVE  Load(p, a) \in Int
<1>1. CASE Pending(p, a) = {}
  BY <1>1 DEF Load, TypeOK
<1>2. CASE Pending(p, a) # {}
  <2> DEFINE S == Pending(p, a)
             i == CHOOSE i \in S : \A j \in S : j <= i
  <2>1. Len(buf[p]) \in Nat /\ S \in SUBSET (1 .. Len(buf[p]))
    BY DEF Pending, TypeOK
  <2>2. \E k \in S : \A j \in S : j <= k
    BY <1>2, <2>1, Maximum
  <2>3. i \in S
    <3> HIDE DEF S
    <3> QED BY <2>2
  <2>4. \A k \in 1 .. Len(buf[p]) : buf[p][k].val \in Int
    <3>1. buf[p] \in Seq(BufferedStore)
      BY DEF TypeOK
    <3>2. \A k \in 1 .. Len(buf[p]) : buf[p][k] \in BufferedStore
      BY <3>1
    <3> QED BY <3>2 DEF BufferedStore
  <2>5. Load(p, a) = buf[p][i].val
    BY <1>2 DEF Load
  <2> HIDE DEF i, S
  <2> QED BY <2>1, <2>3, <2>4, <2>5
<1> QED BY <1>1, <1>2

LEMMA Other == \A p \in Thread : 1 - p \in Thread /\ 1 - p # p /\ 1 - (1 - p) = p
BY DEF Thread

\* What Store does to types, whichever way it is carried out.
LEMMA StoreType ==
  ASSUME TypeOK, NEW p \in Thread, NEW a \in Address, NEW v \in Int, Store(p, a, v)
  PROVE  /\ mem' \in [Address -> Int]
         /\ buf' \in [Thread -> Seq(BufferedStore)]
         /\ \A q \in Thread : Len(buf'[q]) <= BufferSize
<1> DEFINE w == [addr |-> a, val |-> v]
<1>1. w \in BufferedStore
  BY DEF BufferedStore
<1>2. CASE smp
  <2> HIDE DEF w
  <2>1. /\ Len(buf[p]) < BufferSize /\ mem' = mem
        /\ buf' = [buf EXCEPT ![p] = Append(buf[p], w)]
    BY <1>2 DEF Store, w
  <2>2. Append(buf[p], w) \in Seq(BufferedStore)
        /\ Len(Append(buf[p], w)) = Len(buf[p]) + 1
    BY <1>1 DEF TypeOK
  <2>3. Len(buf[p]) + 1 <= BufferSize
    BY <2>1, PetersonAssumption DEF TypeOK
  <2> QED BY <2>1, <2>2, <2>3 DEF TypeOK
<1>3. CASE ~smp
  BY <1>3 DEF Store, TypeOK
<1> QED BY <1>2, <1>3

LEMMA ExchangeType ==
  ASSUME TypeOK, NEW p \in Thread, NEW a \in Address, NEW r \in {"flag", "turn"},
         Exchange(p, a, r)
  PROVE  /\ mem' \in [Address -> Int] /\ buf' = buf
         /\ reg' \in [Thread -> [flag : Int, turn : Int]]
<1>1. reg[p][r] \in Int /\ mem[a] \in Int
  BY DEF TypeOK
<1>2. mem' \in [Address -> Int] /\ buf' = buf
  BY <1>1 DEF Exchange, TypeOK
<1>3. reg' = reg \/ reg' = [reg EXCEPT ![p][r] = mem[a]]
  BY DEF Exchange
<1>4. [reg EXCEPT ![p][r] = mem[a]] \in [Thread -> [flag : Int, turn : Int]]
  BY <1>1 DEF TypeOK
<1> QED BY <1>2, <1>3, <1>4 DEF TypeOK

LEMMA FlagAddress ==
  \A p \in Thread : /\ Flag(p) \in Address
                    /\ Flag(p) \notin {"turn", "rich_guy", "poor_guy"}
                    /\ Flag(1 - p) # Flag(p)
BY DEF Flag, Address, Thread

-------------------------------------------------------------------------------
\* A run keeps its program and its machine.
LEMMA ProgramFixed == [Next]_vars => UNCHANGED program
<1>1. ASSUME NEW p \in Thread, ThreadStep(p) PROVE UNCHANGED program
  BY <1>1 DEF ThreadStep, Begin, StoreFlag, StoreTurn, TestFlag, TestTurn, Cap, Debit,
     Debited, Credit, Credited, RichEmpty, PoorFull, Post
<1> QED BY <1>1 DEF Next, Flush, Report, Stopped, vars

LEMMA InitType == Init => TypeOK
<1> SUFFICES ASSUME Init PROVE TypeOK
  OBVIOUS
<1>1. mem \in [Address -> Int]
  BY PetersonAssumption DEF Init
<1>2. buf \in [Thread -> Seq(BufferedStore)] /\ \A p \in Thread : Len(buf[p]) <= BufferSize
  BY PetersonAssumption DEF Init
<1>3. entry \in Entries /\ smp \in BOOLEAN
  BY PetersonAssumption DEF Init
<1> QED BY <1>1, <1>2, <1>3 DEF Init, TypeOK, Position, Thread

LEMMA FlushType ==
  ASSUME TypeOK, NEW p \in Thread, Flush(p)
  PROVE  TypeOK'
<1> DEFINE w == Head(buf[p])
<1>1. w \in BufferedStore /\ Tail(buf[p]) \in Seq(BufferedStore)
      /\ Len(Tail(buf[p])) <= BufferSize
  BY PetersonAssumption DEF Flush, TypeOK
<1>2. w.addr \in Address /\ w.val \in Int
  BY <1>1 DEF BufferedStore
<1>3. mem' \in [Address -> Int]
  <2>1. mem' = [mem EXCEPT ![w.addr] = w.val]
    BY DEF Flush
  <2> HIDE DEF w
  <2> QED BY <1>2, <2>1 DEF TypeOK
<1>4. buf' \in [Thread -> Seq(BufferedStore)] /\ \A q \in Thread : Len(buf'[q]) <= BufferSize
  <2>1. buf' = [buf EXCEPT ![p] = Tail(buf[p])]
    BY DEF Flush
  <2> QED BY <1>1, <2>1 DEF TypeOK
<1> QED BY <1>3, <1>4 DEF Flush, TypeOK, program

LEMMA ThreadType ==
  ASSUME TypeOK, NEW p \in Thread, ThreadStep(p)
  PROVE  TypeOK'
<1> USE DEF Goto
<1>0. pc' \in [Thread -> Position] /\ entry' = entry /\ smp' = smp
  BY ProgramFixed DEF Next, program, ThreadStep, Begin, StoreFlag, StoreTurn, TestFlag, TestTurn, Cap, Debit,
     Debited, Credit, Credited, RichEmpty, PoorFull, Post, TypeOK, Position, Trying,
     Section
<1>1. "rich_guy" \in Address /\ "poor_guy" \in Address /\ "turn" \in Address
  BY DEF Address
<1>2. Load(p, "rich_guy") \in Int /\ Load(p, "poor_guy") \in Int
  BY <1>1, LoadType
<1>3. CASE Begin(p)
  BY <1>0, <1>3 DEF Begin, TypeOK
<1>4. CASE StoreFlag(p)
  <2>1. UNCHANGED <<money, acc, done, main, program>>
    BY <1>4 DEF StoreFlag
  <2>2. CASE entry = "plain"
    <3>1. Store(p, Flag(p), 1) /\ reg' = reg
      BY <1>4, <2>2 DEF StoreFlag
    <3> QED BY <1>0, <2>1, <3>1, FlagAddress, StoreType DEF TypeOK
  <2>3. CASE entry # "plain"
    <3>1. Exchange(p, Flag(p), "flag")
      BY <1>4, <2>3 DEF StoreFlag
    <3> QED BY <1>0, <2>1, <3>1, FlagAddress, ExchangeType DEF TypeOK
  <2> QED BY <2>2, <2>3
<1>5. CASE StoreTurn(p)
  <2>1. UNCHANGED <<money, acc, done, main, program>>
    BY <1>5 DEF StoreTurn
  <2>2. CASE entry = "plain"
    <3>1. Store(p, "turn", 1 - p) /\ reg' = reg /\ 1 - p \in Int
      BY <1>5, <2>2 DEF StoreTurn, Thread
    <3> QED BY <1>0, <1>1, <2>1, <3>1, StoreType DEF TypeOK
  <2>3. CASE entry # "plain"
    <3>1. Exchange(p, "turn", "turn")
      BY <1>5, <2>3 DEF StoreTurn
    <3> QED BY <1>0, <1>1, <2>1, <3>1, ExchangeType DEF TypeOK
  <2> QED BY <2>2, <2>3
<1>6. CASE TestFlag(p) \/ TestTurn(p)
  BY <1>0, <1>6 DEF TestFlag, TestTurn, TypeOK
<1>7. CASE Cap(p)
  BY <1>0, <1>2, <1>7 DEF Cap, TypeOK
<1>8. CASE Debit(p) \/ Credit(p)
  BY <1>0, <1>2, <1>8 DEF Debit, Credit, TypeOK
<1>9. CASE Debited(p) \/ Credited(p)
  <2>1. acc[p] \in Int
    BY DEF TypeOK
  <2>2. UNCHANGED <<reg, money, acc, done, main, program>>
        /\ (Store(p, "rich_guy", acc[p]) \/ Store(p, "poor_guy", acc[p]))
    BY <1>9 DEF Debited, Credited
  <2> QED BY <1>0, <1>1, <2>1, <2>2, StoreType DEF TypeOK
<1>10. CASE RichEmpty(p) \/ PoorFull(p)
  <2>1. done' \in [Thread -> BOOLEAN]
    <3>1. \E b \in {Load(p, "rich_guy") <= 0, Load(p, "poor_guy") >= AMOUNT} :
            done' = [done EXCEPT ![p] = b]
      BY <1>10, Zenon DEF RichEmpty, PoorFull
    <3>2. (Load(p, "rich_guy") <= 0) \in BOOLEAN /\ (Load(p, "poor_guy") >= AMOUNT) \in BOOLEAN
      OBVIOUS
    <3>3. PICK b \in BOOLEAN : done' = [done EXCEPT ![p] = b]
      BY <3>1, <3>2, Zenon
    <3> QED BY <3>3 DEF TypeOK
  <2>2. UNCHANGED <<mem, buf, reg, money, acc, main, program>>
    BY <1>10 DEF RichEmpty, PoorFull
  <2> QED BY <1>0, <2>1, <2>2 DEF TypeOK
<1>11. CASE Post(p)
  <2>1. UNCHANGED <<reg, money, acc, done, main, program>>
    BY <1>11 DEF Post
  <2>2. CASE entry = "none"
    BY <1>0, <1>11, <2>1, <2>2 DEF Post, TypeOK
  <2>3. CASE entry # "none"
    <3>1. Store(p, Flag(p), 0)
      BY <1>11, <2>3 DEF Post
    <3> QED BY <1>0, <2>1, <3>1, FlagAddress, StoreType DEF TypeOK
  <2> QED BY <2>2, <2>3
<1> QED
  BY <1>3, <1>4, <1>5, <1>6, <1>7, <1>8, <1>9, <1>10, <1>11 DEF ThreadStep

LEMMA NextType == TypeOK /\ [Next]_vars => TypeOK'
<1> SUFFICES ASSUME TypeOK, [Next]_vars PROVE TypeOK'
  OBVIOUS
<1>1. CASE UNCHANGED vars
  BY <1>1 DEF vars, program, TypeOK
<1>2. CASE Report
  BY <1>2 DEF Report, program, TypeOK
<1> QED BY <1>1, <1>2, ThreadType, FlushType DEF Next, Stopped

\* Every variable keeps its type in every variant, and no processor holds back more
\* stores than its buffer has room for.
THEOREM TypeCorrect == Spec => []TypeOK
BY InitType, NextType, PTL DEF Spec

-------------------------------------------------------------------------------
\* From its first store of Peterson_wait to its last one of Peterson_post a thread
\* has its flag raised.
Raised == {"turn"} \cup Trying \cup Section

\* Nothing but xchg, or a single processor, writes the turn and raises a flag, so
\* no such store is ever held back; a flag is lowered by a store that may be.
BuffersTame ==
  \A p \in Thread : \A i \in 1 .. Len(buf[p]) :
    /\ buf[p][i].addr \notin {"turn", Flag(1 - p)}
    /\ pc[p] \in Raised => buf[p][i].addr # Flag(p)

FlagsRaised == \A p \in Thread : pc[p] \in Raised => mem[Flag(p)] = 1

\* In the build without optimisation the asm statement always gets its operands.
Operands == \A p \in Thread : reg[p].flag = 1 /\ reg[p].turn = 1 - p

\* A thread inside has precedence over one that has asked to enter.
Precedence ==
  \A p \in Thread :
    pc[p] \in Section /\ pc[1 - p] \in Trying \cup Section => mem["turn"] = p

\* One processor holds nothing back.
OneView == ~smp => \A p \in Thread : buf[p] = <<>>

IInv == TypeOK /\ BuffersTame /\ FlagsRaised /\ Operands /\ Precedence /\ OneView

LEMMA InitInv == Init => IInv
<1> SUFFICES ASSUME Init PROVE IInv
  OBVIOUS
<1>1. TypeOK
  BY InitType
<1>2. BuffersTame /\ FlagsRaised /\ Operands /\ Precedence /\ OneView
  BY DEF Init, BuffersTame, OneView, FlagsRaised, Operands, Precedence, Raised, Trying,
     Section, Thread
<1> QED BY <1>1, <1>2 DEF IInv

\* A thread that asks for the section reads the other flag and the turn in memory.
LEMMA LoadMemory ==
  ASSUME IInv, NEW p \in Thread, NEW a \in {"turn", Flag(1 - p)}
  PROVE  Load(p, a) = mem[a]
<1>1. Pending(p, a) = {}
  <2>1. buf[p] \in Seq(BufferedStore)
    BY DEF IInv, TypeOK
  <2> QED BY <2>1 DEF Pending, IInv, BuffersTame
<1> QED BY <1>1 DEF Load

\* A store of thread p that is neither of the turn nor of the other flag.
LEMMA StoreTame ==
  ASSUME TypeOK, BuffersTame, NEW p \in Thread, NEW a \in Address, NEW v \in Int,
         a \notin {"turn", Flag(1 - p)}, Store(p, a, v)
  PROVE  /\ \A x \in Address \ {a} : mem'[x] = mem[x]
         /\ buf'[1 - p] = buf[1 - p]
         /\ ~smp => buf' = buf
         /\ \A i \in 1 .. Len(buf'[p]) :
              /\ buf'[p][i].addr \notin {"turn", Flag(1 - p)}
              /\ a # Flag(p) /\ pc[p] \in Raised => buf'[p][i].addr # Flag(p)
<1> USE Other
<1> DEFINE w == [addr |-> a, val |-> v]
<1>1. CASE smp
  <2>1. mem' = mem /\ buf' = [buf EXCEPT ![p] = Append(buf[p], w)]
    BY <1>1 DEF Store
  <2>2. w \in BufferedStore /\ w.addr = a /\ buf[p] \in Seq(BufferedStore)
    BY DEF BufferedStore, TypeOK
  <2>3. buf'[p] = Append(buf[p], w) /\ buf'[1 - p] = buf[1 - p]
    BY <2>1 DEF TypeOK
  <2> HIDE DEF w
  <2>4. ASSUME NEW i \in 1 .. Len(buf'[p])
        PROVE  buf'[p][i] = w \/ (i \in 1 .. Len(buf[p]) /\ buf'[p][i] = buf[p][i])
    BY <2>2, <2>3
  <2>5. \A x \in Address \ {a} : mem'[x] = mem[x]
    BY <2>1
  <2>6. \A i \in 1 .. Len(buf'[p]) :
          /\ buf'[p][i].addr \notin {"turn", Flag(1 - p)}
          /\ a # Flag(p) /\ pc[p] \in Raised => buf'[p][i].addr # Flag(p)
    BY <2>2, <2>4 DEF BuffersTame
  <2> QED BY <1>1, <2>3, <2>5, <2>6
<1>2. CASE ~smp
  <2>1. mem' = [mem EXCEPT ![a] = v] /\ buf' = buf
    BY <1>2 DEF Store
  <2>2. \A x \in Address \ {a} : mem'[x] = mem[x]
    BY <2>1 DEF TypeOK
  <2> QED BY <2>1, <2>2 DEF BuffersTame
<1> QED BY <1>1, <1>2

\* How a step writes a flag or the turn at once: xchg, or one processor.
Written(p, a, v) == mem' = [mem EXCEPT ![a] = v] /\ buf' = buf

LEMMA EntryStore ==
  ASSUME Ordered, IInv, NEW p \in Thread
  PROVE  /\ StoreFlag(p) => Written(p, Flag(p), 1) /\ buf[p] = <<>>
         /\ StoreTurn(p) => Written(p, "turn", 1 - p)
         /\ StoreFlag(p) \/ StoreTurn(p) => reg' = reg
BY DEF Ordered, StoreFlag, StoreTurn, Store, Exchange, Written, IInv, Operands,
   OneView

\* Entering: the flag of the other thread is down, or the turn is this thread's.
LEMMA EnterOrdered ==
  ASSUME IInv, NEW p \in Thread, pc'[p] \in Section, TestFlag(p) \/ TestTurn(p)
  PROVE  pc[1 - p] \notin Raised \/ mem["turn"] = p
<1> USE Other
<1>1. CASE TestFlag(p)
  <2>1. Load(p, Flag(1 - p)) = mem[Flag(1 - p)]
    BY LoadMemory
  <2>2. mem[Flag(1 - p)] = 0
    BY <1>1, <2>1 DEF TestFlag, Goto, IInv, TypeOK, Section
  <2> QED BY <2>2 DEF IInv, FlagsRaised
<1>2. CASE TestTurn(p)
  <2>1. Load(p, "turn") = mem["turn"]
    BY LoadMemory
  <2> QED BY <1>2, <2>1 DEF TestTurn, Goto, IInv, TypeOK, Section
<1> QED BY <1>1, <1>2

\* A step that writes no flag and no turn, and leaves the section or moves in it.
LEMMA QuietStep ==
  ASSUME IInv, NEW p \in Thread, ThreadStep(p),
         ~StoreFlag(p), ~StoreTurn(p), ~TestFlag(p), ~TestTurn(p)
  PROVE  /\ \A q \in Thread \ {p} : pc'[q] = pc[q]
         /\ pc'[p] \in Raised => pc[p] \in Raised \/ entry = "none"
         /\ pc'[p] \in Section => pc[p] \in Section \/ entry = "none"
         /\ pc'[p] \notin Trying
         /\ reg' = reg
         /\ \/ UNCHANGED <<mem, buf>>
            \/ \E a \in {"rich_guy", "poor_guy"}, v \in Int : Store(p, a, v)
            \/ pc'[p] \notin Raised /\ Store(p, Flag(p), 0)
<1>1. acc[p] \in Int
  BY DEF IInv, TypeOK
<1> USE <1>1 DEF Goto, Raised, Trying, Section, IInv, TypeOK
<1>2. CASE Begin(p)
  BY <1>2 DEF Begin
<1>3. CASE Cap(p) \/ Debit(p) \/ Credit(p)
  BY <1>3 DEF Cap, Debit, Credit
<1>4. CASE Debited(p) \/ Credited(p)
  BY <1>4 DEF Debited, Credited
<1>5. CASE RichEmpty(p) \/ PoorFull(p)
  BY <1>5 DEF RichEmpty, PoorFull
<1>6. CASE Post(p)
  BY <1>6 DEF Post
<1> QED BY <1>2, <1>3, <1>4, <1>5, <1>6 DEF ThreadStep

LEMMA ThreadInv ==
  ASSUME Ordered, IInv, NEW p \in Thread, ThreadStep(p)
  PROVE  IInv'
<1> USE Other
<1>0. TypeOK' /\ entry # "none" /\ smp' = smp
  BY ThreadType, ProgramFixed DEF IInv, Ordered, Next, program
<1>1. pc \in [Thread -> Position] /\ \A q \in Thread : q = p \/ q = 1 - p
  BY DEF IInv, TypeOK, Thread
<1>2. CASE StoreFlag(p)
  <2>1. Written(p, Flag(p), 1) /\ buf[p] = <<>> /\ reg' = reg
    BY <1>2, EntryStore
  <2>2. pc[p] = "flag" /\ pc' = [pc EXCEPT ![p] = "turn"]
    BY <1>2 DEF StoreFlag, Goto
  <2>3. mem'[Flag(p)] = 1 /\ \A a \in Address \ {Flag(p)} : mem'[a] = mem[a]
    BY <2>1, FlagAddress DEF Written, IInv, TypeOK
  <2>4. FlagsRaised'
    BY <1>1, <2>2, <2>3, FlagAddress DEF IInv, FlagsRaised, Raised
  <2>5. BuffersTame'
    BY <1>1, <2>1, <2>2 DEF IInv, BuffersTame, Written, Raised
  <2>6. Precedence'
    BY <1>1, <2>2, <2>3, FlagAddress DEF IInv, Precedence, Trying, Section, Address
  <2> QED BY <1>0, <2>1, <2>4, <2>5, <2>6 DEF IInv, Operands, OneView, Written
<1>3. CASE StoreTurn(p)
  <2>1. Written(p, "turn", 1 - p) /\ reg' = reg
    BY <1>3, EntryStore
  <2>2. pc[p] = "turn" /\ pc' = [pc EXCEPT ![p] = "test_flag"]
    BY <1>3 DEF StoreTurn, Goto
  <2>3. mem'["turn"] = 1 - p /\ \A a \in Address \ {"turn"} : mem'[a] = mem[a]
    BY <2>1 DEF Written, IInv, TypeOK, Address
  <2>4. FlagsRaised'
    BY <1>1, <2>2, <2>3, FlagAddress DEF IInv, FlagsRaised, Raised, Trying
  <2>5. BuffersTame'
    BY <1>1, <2>1, <2>2 DEF IInv, BuffersTame, Written, Raised, Trying
  <2>6. Precedence'
    BY <1>1, <2>2, <2>3 DEF IInv, Precedence, Trying, Section
  <2> QED BY <1>0, <2>1, <2>4, <2>5, <2>6 DEF IInv, Operands, OneView, Written
<1>4. CASE TestFlag(p) \/ TestTurn(p)
  <2>1. UNCHANGED <<mem, buf, reg>>
    BY <1>4 DEF TestFlag, TestTurn
  <2>2. pc[p] \in Trying /\ pc'[p] \in Trying \cup Section /\ pc'[1 - p] = pc[1 - p]
    BY <1>1, <1>4 DEF TestFlag, TestTurn, Goto, Trying, Section
  <2>3. FlagsRaised' /\ BuffersTame'
    BY <1>1, <2>1, <2>2 DEF IInv, FlagsRaised, BuffersTame, Raised
  <2>4. Precedence'
    BY <1>1, <1>4, <2>1, <2>2, EnterOrdered DEF IInv, Precedence, Raised
  <2> QED BY <1>0, <2>1, <2>3, <2>4 DEF IInv, Operands, OneView
<1>5. CASE ~(StoreFlag(p) \/ StoreTurn(p) \/ TestFlag(p) \/ TestTurn(p))
  <2>1. /\ pc'[1 - p] = pc[1 - p]
        /\ pc'[p] \in Raised => pc[p] \in Raised
        /\ pc'[p] \in Section => pc[p] \in Section
        /\ pc'[p] \notin Trying
        /\ reg' = reg
    BY <1>0, <1>5, QuietStep
  <2>2. CASE UNCHANGED <<mem, buf>>
    <3>1. FlagsRaised' /\ BuffersTame' /\ Precedence'
      BY <1>1, <2>1, <2>2 DEF IInv, FlagsRaised, BuffersTame, Precedence
    <3> QED BY <1>0, <2>1, <2>2, <3>1 DEF IInv, Operands, OneView
  <2>3. ASSUME NEW a \in Address, NEW v \in Int, Store(p, a, v),
               a \notin {"turn", Flag(1 - p)}, a = Flag(p) => pc'[p] \notin Raised
        PROVE  IInv'
    <3>1. /\ \A x \in Address \ {a} : mem'[x] = mem[x]
          /\ buf'[1 - p] = buf[1 - p]
          /\ ~smp => buf' = buf
          /\ \A i \in 1 .. Len(buf'[p]) :
               /\ buf'[p][i].addr \notin {"turn", Flag(1 - p)}
               /\ a # Flag(p) /\ pc[p] \in Raised => buf'[p][i].addr # Flag(p)
      BY <2>3, StoreTame DEF IInv
    <3>2. FlagsRaised'
      BY <1>1, <2>1, <2>3, <3>1, FlagAddress DEF IInv, FlagsRaised
    <3>3. BuffersTame'
      BY <1>1, <2>1, <2>3, <3>1 DEF IInv, BuffersTame
    <3>4. Precedence'
      BY <1>1, <2>1, <2>3, <3>1 DEF IInv, Precedence, Address
    <3> QED BY <1>0, <2>1, <3>1, <3>2, <3>3, <3>4 DEF IInv, Operands, OneView
  <2>4. CASE \E a \in {"rich_guy", "poor_guy"}, v \in Int : Store(p, a, v)
    BY <2>3, <2>4, FlagAddress DEF Address
  <2>5. CASE pc'[p] \notin Raised /\ Store(p, Flag(p), 0)
    BY <2>3, <2>5, FlagAddress
  <2> QED BY <1>5, <2>2, <2>4, <2>5, QuietStep
<1> QED BY <1>2, <1>3, <1>4, <1>5

LEMMA FlushInv ==
  ASSUME IInv, NEW p \in Thread, Flush(p)
  PROVE  IInv'
<1> USE Other
<1> DEFINE w == Head(buf[p])
<1>0. TypeOK' /\ UNCHANGED <<reg, pc>> /\ smp' = smp
  BY FlushType DEF IInv, Flush, program
<1>1. buf[p] \in Seq(BufferedStore) /\ buf[p] # <<>> /\ smp
  BY DEF IInv, TypeOK, Flush, OneView
<1>2. w = buf[p][1] /\ 1 \in 1 .. Len(buf[p]) /\ w.addr \in Address
  <2>1. w = buf[p][1] /\ 1 \in 1 .. Len(buf[p]) /\ w \in BufferedStore
    BY <1>1
  <2> QED BY <2>1 DEF BufferedStore
<1>3. w.addr \notin {"turn", Flag(1 - p)} /\ (pc[p] \in Raised => w.addr # Flag(p))
  BY <1>2 DEF IInv, BuffersTame
<1>4. \A x \in Address \ {w.addr} : mem'[x] = mem[x]
  BY DEF Flush, IInv, TypeOK
<1>5. buf'[p] = Tail(buf[p]) /\ buf'[1 - p] = buf[1 - p]
  BY DEF Flush, IInv, TypeOK
<1>6. \A i \in 1 .. Len(buf'[p]) : i + 1 \in 1 .. Len(buf[p]) /\ buf'[p][i] = buf[p][i + 1]
  BY <1>1, <1>5
<1> HIDE DEF w
<1>7. \A q \in Thread : q = p \/ q = 1 - p
  BY DEF Thread
<1>8. BuffersTame'
  <2>1. \A i \in 1 .. Len(buf'[p]) :
          /\ buf'[p][i].addr \notin {"turn", Flag(1 - p)}
          /\ pc'[p] \in Raised => buf'[p][i].addr # Flag(p)
    BY <1>0, <1>6 DEF IInv, BuffersTame
  <2>2. \A i \in 1 .. Len(buf'[1 - p]) :
          /\ buf'[1 - p][i].addr \notin {"turn", Flag(1 - (1 - p))}
          /\ pc'[1 - p] \in Raised => buf'[1 - p][i].addr # Flag(1 - p)
    BY <1>0, <1>5 DEF IInv, BuffersTame
  <2> QED BY <1>7, <2>1, <2>2 DEF BuffersTame
<1>9. FlagsRaised'
  BY <1>0, <1>3, <1>4, <1>7, FlagAddress DEF IInv, FlagsRaised
<1>10. Precedence'
  BY <1>0, <1>3, <1>4 DEF IInv, Precedence, Address
<1> QED BY <1>0, <1>1, <1>8, <1>9, <1>10 DEF IInv, Operands, OneView

LEMMA NextInv ==
  ASSUME Ordered, IInv, [Next]_vars
  PROVE  IInv'
<1>1. CASE UNCHANGED <<mem, buf, reg, pc>> /\ TypeOK'
  BY <1>1, ProgramFixed DEF program, IInv, BuffersTame, FlagsRaised, Operands, Precedence, OneView
<1>2. TypeOK'
  BY NextType DEF IInv
<1>3. CASE Report \/ Stopped \/ UNCHANGED vars
  BY <1>1, <1>2, <1>3 DEF Report, Stopped, vars
<1> QED BY <1>3, ThreadInv, FlushInv DEF Next

LEMMA OrderedFixed == [Next]_vars => (Ordered' <=> Ordered)
BY ProgramFixed DEF program, Ordered

LEMMA Invariance == Spec => [](Ordered => IInv)
<1>1. (Ordered => IInv) /\ [Next]_vars => (Ordered => IInv)'
  BY NextInv, OrderedFixed
<1> QED BY <1>1, InitInv, PTL DEF Spec

LEMMA Excluded == IInv => Exclusive
<1> SUFFICES ASSUME IInv, pc[0] \in Section, pc[1] \in Section PROVE FALSE
  BY DEF Exclusive
<1>1. mem["turn"] = 0 /\ mem["turn"] = 1
  BY DEF IInv, Precedence, Thread
<1> QED BY <1>1

\* Peterson_xchg.h keeps the section exclusive on any number of processors, and
\* Peterson.h on one, however deep the store buffers are.
THEOREM Exclusion == Spec => []MutualExclusion
<1>1. (Ordered => IInv) => MutualExclusion
  BY Excluded DEF MutualExclusion
<1> QED BY <1>1, Invariance, PTL

\* A step that enters does so against a thread without precedence.
LEMMA EntersFirst ==
  ASSUME Ordered, IInv, [Next]_vars, NEW p \in Thread,
         pc[1 - p] \in Trying, pc'[1 - p] \in Section
  PROVE  ~(pc[p] \in Trying /\ mem["turn"] = p)
<1> USE Other
<1> DEFINE q == 1 - p
<1>1. TestFlag(q) \/ TestTurn(q)
  <2>1. pc \in [Thread -> Position] /\ pc'[q] # pc[q]
    BY DEF IInv, TypeOK, Trying, Section
  <2>2. ThreadStep(q)
    <3>1. ASSUME NEW r \in Thread \ {q}, ThreadStep(r) PROVE FALSE
      BY <2>1, <3>1 DEF ThreadStep, Begin, StoreFlag, StoreTurn, TestFlag, TestTurn,
         Cap, Debit, Debited, Credit, Credited, RichEmpty, PoorFull, Post, Goto
    <3> QED BY <2>1, <3>1 DEF Next, vars, Flush, Report, Stopped
  <2> QED BY <2>2 DEF ThreadStep, Begin, StoreFlag, StoreTurn, Cap, Debit, Debited,
         Credit, Credited, RichEmpty, PoorFull, Post, Goto, Trying
<1>2. pc[p] \notin Raised \/ mem["turn"] = q
  BY <1>1, EnterOrdered
<1> QED BY <1>2 DEF Raised

\* A thread that waits with precedence is never overtaken.
THEOREM NotOvertaken == Spec => NoOvertaking
<1>1. (Ordered => IInv) /\ [Next]_vars =>
        [\A p \in Thread :
           Ordered /\ pc[p] \in Trying /\ mem["turn"] = p =>
             ~(pc[1 - p] \in Trying /\ pc'[1 - p] \in Section)]_vars
  BY EntersFirst
<1> QED BY <1>1, Invariance, PTL DEF Spec, NoOvertaking

-------------------------------------------------------------------------------
\* A step moves at most one thread.
LEMMA OneMoves ==
  ASSUME TypeOK, [Next]_vars
  PROVE  pc' = pc \/ \E p \in Thread : pc'[1 - p] = pc[1 - p]
<1> USE Other
<1>1. ASSUME NEW p \in Thread, ThreadStep(p) PROVE pc'[1 - p] = pc[1 - p]
  BY <1>1 DEF ThreadStep, Begin, StoreFlag, StoreTurn, TestFlag, TestTurn, Cap, Debit,
     Debited, Credit, Credited, RichEmpty, PoorFull, Post, Goto, TypeOK
<1>2. ASSUME NEW p \in Thread, Flush(p) PROVE pc' = pc
  BY <1>2 DEF Flush
<1> QED BY <1>1, <1>2 DEF Next, Report, Stopped, vars

\* The owner the abstract lock sees is whoever is inside.
HolderOK ==
  Ordered /\ Exclusive =>
    \A p \in Thread :
      /\ pc[p] \in Section => Holder = p
      /\ pc[p] \notin Section /\ pc[1 - p] \notin Section => Holder = Nobody

LEMMA HolderIs == HolderOK
<1> SUFFICES ASSUME Ordered, Exclusive, NEW p \in Thread
             PROVE  /\ pc[p] \in Section => Holder = p
                    /\ pc[p] \notin Section /\ pc[1 - p] \notin Section => Holder = Nobody
  BY DEF HolderOK
<1>1. \A q \in Thread : q = p \/ q = 1 - p
  BY DEF Thread
<1>2. CASE pc[p] \in Section
  <2>1. pc[1 - p] \notin Section
    BY <1>2 DEF Exclusive, Thread
  <2>2. Inside = {p}
    BY <1>1, <1>2, <2>1 DEF Inside
  <2>3. (CHOOSE q \in {p} : TRUE) = p
    OBVIOUS
  <2> QED BY <1>2, <2>2, <2>3 DEF Holder
<1>3. CASE pc[p] \notin Section /\ pc[1 - p] \notin Section
  <2>1. Inside = {}
    BY <1>1, <1>3 DEF Inside
  <2> QED BY <1>3, <2>1 DEF Holder
<1> QED BY <1>2, <1>3

LEMMA LockStep ==
  ASSUME Ordered => IInv, (Ordered => IInv)', [Next]_vars
  PROVE  [Lock!Next]_Holder
<1> USE Other DEF Lock!Next, Lock!Acquire, Lock!Release
<1>1. CASE ~Ordered
  <2>1. Inside = {} /\ Inside' = {}
    BY <1>1, OrderedFixed DEF Inside
  <2> QED BY <2>1 DEF Holder
<1>2. CASE Ordered
  <2>1. Ordered' /\ Exclusive /\ Exclusive'
    <3>1. IInv' => Exclusive'
      BY Excluded, PTL
    <3> QED BY <1>2, <3>1, Excluded, OrderedFixed
  <2>2. CASE pc' = pc
    BY <1>2, <2>1, <2>2 DEF Holder, Inside
  <2>3. ASSUME NEW p \in Thread, pc'[1 - p] = pc[1 - p]
        PROVE  [Lock!Next]_Holder
    <3>1. HolderOK /\ HolderOK'
      BY HolderIs, PTL
    <3>2. /\ pc[p] \in Section => Holder = p
          /\ pc'[p] \in Section => Holder' = p
          /\ pc[1 - p] \in Section => Holder = 1 - p /\ Holder' = 1 - p
          /\ pc[p] \notin Section /\ pc[1 - p] \notin Section => Holder = Nobody
          /\ pc'[p] \notin Section /\ pc[1 - p] \notin Section => Holder' = Nobody
      BY <1>2, <2>1, <2>3, <3>1 DEF HolderOK
    <3>3. pc[p] \notin Section \/ pc[1 - p] \notin Section
      BY <2>1 DEF Exclusive, Thread
    <3> QED BY <3>2, <3>3
  <2> QED BY <1>2, <2>2, <2>3, OneMoves DEF IInv
<1> QED BY <1>1, <1>2

\* Peterson's algorithm implements the abstract lock wherever its stores are kept in
\* order.
THEOREM Refinement == Spec => ImplementsMutex
<1>1. Init => Lock!Init
  <2> SUFFICES ASSUME Init PROVE Inside = {}
    BY DEF Lock!Init, Holder
  <2> QED BY DEF Init, Inside, Section, Thread
<1>2. (Ordered => IInv) /\ (Ordered => IInv)' /\ [Next]_vars => [Lock!Next]_Holder
  BY LockStep
<1> QED BY <1>1, <1>2, Invariance, PTL DEF Spec, ImplementsMutex, Lock!Spec

-------------------------------------------------------------------------------
(* The money. *)

\* The entry section begins with an empty buffer, and stores of the section that are held
\* back keep the other thread out: its own flag is the last of them, so that the flag in
\* memory stays raised, and the other thread, if it asks, has given precedence.
Drained ==
  \A p \in Thread :
    /\ pc[p] \in {"turn"} \cup Trying => buf[p] = <<>>
    /\ pc[1 - p] \in Section => buf[p] = <<>>
    /\ buf[p] # <<>> =>
         /\ mem[Flag(p)] = 1 /\ buf[1 - p] = <<>>
         /\ pc[1 - p] \in Trying => mem["turn"] = p
    /\ \A i \in 1 .. Len(buf[p]) : buf[p][i].addr = Flag(p) => i = Len(buf[p])

\* A thread sees all the money, but for what is on its way, unless the other one still
\* holds back stores; and what a thread is about to store is not stale.
Balance ==
  \A p \in Thread :
    /\ buf[1 - p] = <<>> =>
         Load(p, "rich_guy") + Load(p, "poor_guy") + InFlight(p) + InFlight(1 - p) = AMOUNT
    /\ pc[p] = "debited" => acc[p] = Load(p, "rich_guy") - money[p]
    /\ pc[p] = "credited" => acc[p] = Load(p, "poor_guy") + money[p]

MInv == IInv /\ Drained /\ Balance

\* The last of several pending stores.
LEMMA Greatest ==
  ASSUME NEW n \in Nat, NEW S \in SUBSET (1 .. n), NEW m \in S, \A j \in S : j <= m
  PROVE  (CHOOSE i \in S : \A j \in S : j <= i) = m
<1> DEFINE c == CHOOSE i \in S : \A j \in S : j <= i
<1>1. c \in S /\ \A j \in S : j <= c
  OBVIOUS
<1> HIDE DEF c
<1>2. c = m
  BY <1>1
<1> QED BY <1>2 DEF c

\* A thread reads what it has stored, held back or not, and all else as before.
LEMMA LoadStore ==
  ASSUME TypeOK, OneView, NEW p \in Thread, NEW a \in Address, NEW v \in Int, Store(p, a, v)
  PROVE  /\ Load(p, a)' = v
         /\ \A b \in Address \ {a} : Load(p, b)' = Load(p, b)
<1>1. CASE ~smp
  <2>1. buf' = buf /\ buf[p] = <<>> /\ mem' = [mem EXCEPT ![a] = v]
    BY <1>1 DEF Store, OneView
  <2>2. \A b : Pending(p, b) = {} /\ Pending(p, b)' = {}
    BY <2>1 DEF Pending
  <2> QED BY <2>1, <2>2 DEF Load, TypeOK
<1>2. CASE smp
  <2> DEFINE w == [addr |-> a, val |-> v]
             n == Len(buf[p])
  <2>1. mem' = mem /\ buf' = [buf EXCEPT ![p] = Append(buf[p], w)]
    BY <1>2 DEF Store
  <2>2. w \in BufferedStore /\ buf[p] \in Seq(BufferedStore) /\ w.addr = a /\ w.val = v
    BY DEF BufferedStore, TypeOK
  <2>3. buf'[p] = Append(buf[p], w)
    BY <2>1 DEF TypeOK
  <2> HIDE DEF w
  <2>4. /\ n \in Nat /\ DOMAIN buf[p] = 1 .. n /\ DOMAIN buf'[p] = 1 .. n + 1
        /\ buf'[p][n + 1] = w /\ \A i \in 1 .. n : buf'[p][i] = buf[p][i]
    BY <2>2, <2>3
  <2> HIDE DEF n
  <2>5. Load(p, a)' = v
    <3> DEFINE S == Pending(p, a)'
    <3>1. n + 1 \in S /\ S \in SUBSET (1 .. n + 1) /\ n + 1 \in Nat
      BY <2>2, <2>4 DEF Pending
    <3>2. \A j \in S : j <= n + 1
      BY <2>4, <3>1
    <3> HIDE DEF S
    <3>3. (CHOOSE i \in S : \A j \in S : j <= i) = n + 1
      BY <3>1, <3>2, Greatest
    <3>4. Load(p, a)' = buf'[p][CHOOSE i \in S : \A j \in S : j <= i].val
      <4>1. S # {}
        BY <3>1
      <4> QED BY <4>1 DEF Load, S
    <3> QED BY <2>2, <2>4, <3>3, <3>4
  <2>6. ASSUME NEW b \in Address \ {a} PROVE Load(p, b)' = Load(p, b)
    <3> DEFINE S == Pending(p, b)
    <3>1. S \in SUBSET (1 .. n) /\ Pending(p, b)' = S
      <4>1. S = {i \in 1 .. n : buf[p][i].addr = b}
        BY <2>4 DEF Pending
      <4>2. Pending(p, b)' = {i \in 1 .. n + 1 : buf'[p][i].addr = b}
        BY <2>4 DEF Pending
      <4>3. \A i \in 1 .. n + 1 : i \in 1 .. n \/ i = n + 1
        BY <2>4
      <4>4. 1 .. n \subseteq 1 .. n + 1
        BY <2>4
      <4> QED BY <2>2, <2>4, <4>1, <4>2, <4>3, <4>4
    <3> DEFINE c == CHOOSE i \in S : \A j \in S : j <= i
    <3>2. CASE S = {}
      BY <2>1, <3>1, <3>2 DEF Load
    <3>3. CASE S # {}
      <4>1. Load(p, b) = buf[p][c].val /\ Load(p, b)' = buf'[p][c].val
        BY <3>1, <3>3 DEF Load
      <4> HIDE DEF S
      <4>2. \E m \in S : \A j \in S : j <= m
        BY <2>4, <3>1, <3>3, Maximum
      <4>3. c \in S
        BY <4>2
      <4> HIDE DEF c
      <4> QED BY <2>4, <3>1, <4>1, <4>3
    <3> QED BY <3>2, <3>3
  <2> QED BY <2>5, <2>6
<1> QED BY <1>1, <1>2

\* A store that reaches the memory changes nothing for the thread that made it.
LEMMA LoadFlush ==
  ASSUME TypeOK, NEW p \in Thread, NEW a \in Address, Flush(p)
  PROVE  Load(p, a)' = Load(p, a)
<1> DEFINE n == Len(buf[p])
           S == Pending(p, a)
           T == Pending(p, a)'
<1>1. buf[p] \in Seq(BufferedStore) /\ buf[p] # <<>>
  BY DEF Flush, TypeOK
<1>2. n \in Nat \ {0} /\ DOMAIN buf[p] = 1 .. n /\ Head(buf[p]) = buf[p][1]
  BY <1>1
<1>3. buf'[p] = Tail(buf[p]) /\ mem' = [mem EXCEPT ![buf[p][1].addr] = buf[p][1].val]
  BY <1>2 DEF Flush, TypeOK
<1>4. DOMAIN buf'[p] = 1 .. n - 1 /\ \A i \in 1 .. n - 1 : buf'[p][i] = buf[p][i + 1]
  BY <1>1, <1>3
<1> HIDE DEF n
<1>5. S = {i \in 1 .. n : buf[p][i].addr = a} /\ T = {i \in 1 .. n - 1 : buf[p][i + 1].addr = a}
  BY <1>2, <1>4 DEF Pending
<1>6. Load(p, a) = IF S = {} THEN mem[a]
                   ELSE buf[p][CHOOSE i \in S : \A j \in S : j <= i].val
  BY DEF Load
<1>7. Load(p, a)' = IF T = {} THEN mem'[a]
                    ELSE buf'[p][CHOOSE i \in T : \A j \in T : j <= i].val
  BY DEF Load
<1> HIDE DEF S, T
<1>8. S \in SUBSET (1 .. n) /\ T \in SUBSET (1 .. n - 1) /\ n - 1 \in Nat
  BY <1>2, <1>5
<1>9. \A i \in T : i + 1 \in S
  BY <1>2, <1>5
<1>10. \A i \in S : i = 1 \/ i - 1 \in T
  BY <1>2, <1>5
<1>11. CASE T = {}
  <2>1. S \subseteq {1}
    BY <1>10, <1>11
  <2>2. CASE S = {}
    <3>1. buf[p][1].addr # a
      BY <1>2, <1>5, <2>2
    <3> QED BY <1>3, <1>6, <1>7, <1>11, <2>2, <3>1 DEF TypeOK
  <2>3. CASE S = {1}
    <3>1. buf[p][1].addr = a
      BY <1>5, <2>3
    <3>2. (CHOOSE i \in S : \A j \in S : j <= i) = 1
      BY <1>2, <1>8, <2>3, Greatest
    <3>3. mem'[a] = buf[p][1].val
      BY <1>3, <3>1 DEF TypeOK
    <3> QED BY <1>6, <1>7, <1>11, <2>3, <3>2, <3>3
  <2> QED BY <2>1, <2>2, <2>3
<1>12. CASE T # {}
  <2>1. PICK m \in T : \A j \in T : j <= m
    BY <1>8, <1>12, Maximum
  <2>2. (CHOOSE i \in T : \A j \in T : j <= i) = m
    BY <1>8, <2>1, Greatest
  <2>3. m + 1 \in S /\ m \in 1 .. n - 1
    BY <1>8, <1>9
  <2>4. \A j \in S : j <= m + 1
    BY <1>2, <1>8, <1>10, <2>1, <2>3
  <2>5. (CHOOSE i \in S : \A j \in S : j <= i) = m + 1
    BY <1>2, <1>8, <2>3, <2>4, Greatest
  <2>6. S # {}
    BY <2>3
  <2> QED BY <1>4, <1>6, <1>7, <1>12, <2>2, <2>3, <2>5, <2>6
<1> QED BY <1>11, <1>12

LEMMA LoadSame ==
  ASSUME NEW p \in Thread, NEW a, buf'[p] = buf[p], mem'[a] = mem[a]
  PROVE  Load(p, a)' = Load(p, a)
BY DEF Load, Pending

\* A store in the section, of a balance or of the thread's own flag.
LEMMA StoreEffect ==
  ASSUME IInv, NEW p \in Thread, NEW a \in {"rich_guy", "poor_guy", Flag(p)}, NEW v \in Int,
         Store(p, a, v)
  PROVE  /\ Load(p, a)' = v
         /\ \A b \in Address \ {a} : Load(p, b)' = Load(p, b) /\ mem'[b] = mem[b]
         /\ buf'[1 - p] = buf[1 - p]
         /\ smp => mem' = mem /\ buf'[p] # <<>>
         /\ ~smp => buf' = buf /\ \A b \in Address : /\ Load(1 - p, b) = Load(p, b)
                                                    /\ Load(1 - p, b)' = Load(p, b)'
<1> USE Other
<1>1. a \in Address /\ a \notin {"turn", Flag(1 - p)} /\ TypeOK /\ OneView /\ BuffersTame
  BY FlagAddress DEF IInv, Address, Flag, Thread
<1>2. Load(p, a)' = v /\ \A b \in Address \ {a} : Load(p, b)' = Load(p, b)
  BY <1>1, LoadStore
<1>3. /\ \A b \in Address \ {a} : mem'[b] = mem[b]
      /\ buf'[1 - p] = buf[1 - p]
  BY <1>1, StoreTame
<1>4. ASSUME smp PROVE mem' = mem /\ buf'[p] # <<>>
  <2> DEFINE w == [addr |-> a, val |-> v]
  <2>1. mem' = mem /\ buf' = [buf EXCEPT ![p] = Append(buf[p], w)]
    BY <1>4 DEF Store
  <2>2. w \in BufferedStore /\ buf[p] \in Seq(BufferedStore)
    BY <1>1 DEF BufferedStore, TypeOK
  <2> HIDE DEF w
  <2>3. Append(buf[p], w) # <<>>
    BY <2>2
  <2> QED BY <1>1, <2>1, <2>3 DEF TypeOK
<1>5. ASSUME ~smp
      PROVE  buf' = buf /\ \A b \in Address : /\ Load(1 - p, b) = Load(p, b)
                                              /\ Load(1 - p, b)' = Load(p, b)'
  <2>1. buf' = buf /\ buf[p] = <<>> /\ buf[1 - p] = <<>>
    BY <1>1, <1>5 DEF Store, OneView
  <2>2. \A q \in Thread : \A b : Pending(q, b) = {} /\ Pending(q, b)' = {}
    <3>1. \A q \in Thread : q = p \/ q = 1 - p
      BY DEF Thread
    <3> QED BY <2>1, <3>1 DEF Pending
  <2> QED BY <2>1, <2>2 DEF Load
<1> QED BY <1>2, <1>3, <1>4, <1>5

\* The steps of a thread: those of the entry section, those that only read, those that store.
LEMMA Kinds ==
  ASSUME Ordered, IInv, NEW p \in Thread, ThreadStep(p)
  PROVE  /\ pc'[1 - p] = pc[1 - p]
         /\ \/ StoreFlag(p) \/ StoreTurn(p)
            \/ TestFlag(p) \/ TestTurn(p)
            \/ /\ UNCHANGED <<mem, buf>>
               /\ pc'[p] \notin {"turn"} \cup Trying
               /\ pc'[p] \in Section => pc[p] \in Section
               /\ Begin(p) \/ Cap(p) \/ Debit(p) \/ Credit(p) \/ RichEmpty(p) \/ PoorFull(p)
            \/ /\ pc[p] \in Section /\ pc'[p] \notin {"turn"} \cup Trying
               /\ Debited(p) \/ Credited(p) \/ Post(p)
<1> USE Other DEF Goto, IInv, TypeOK, Ordered, Trying, Section
<1>1. CASE Begin(p) \/ Cap(p) \/ Debit(p) \/ Credit(p) \/ RichEmpty(p) \/ PoorFull(p)
  BY <1>1 DEF Begin, Cap, Debit, Credit, RichEmpty, PoorFull
<1>2. CASE Debited(p) \/ Credited(p) \/ Post(p)
  BY <1>2 DEF Debited, Credited, Post
<1>3. CASE StoreFlag(p) \/ StoreTurn(p) \/ TestFlag(p) \/ TestTurn(p)
  BY <1>3 DEF StoreFlag, StoreTurn, TestFlag, TestTurn
<1> QED BY <1>1, <1>2, <1>3 DEF ThreadStep

\* What Debited, Credited and Post store.
LEMMA SectionStore ==
  ASSUME Ordered, IInv, NEW p \in Thread, Debited(p) \/ Credited(p) \/ Post(p)
  PROVE  \E a \in {"rich_guy", "poor_guy", Flag(p)}, v \in Int :
           /\ Store(p, a, v)
           /\ a = Flag(p) => Post(p)
<1>1. acc[p] \in Int
  BY DEF IInv, TypeOK
<1>2. Flag(p) \notin {"rich_guy", "poor_guy"}
  BY DEF Flag
<1> QED BY <1>1, <1>2 DEF Debited, Credited, Post, Ordered

LEMMA ThreadDrained ==
  ASSUME Ordered, IInv, Drained, NEW p \in Thread, ThreadStep(p)
  PROVE  Drained'
<1> USE Other
<1> DEFINE q == 1 - p
<1>1. /\ pc'[q] = pc[q] /\ q \in Thread /\ q # p /\ 1 - q = p
      /\ \A r \in Thread : r = p \/ r = q
  BY Kinds DEF Thread
<1>2. pc[p] \notin Section \/ pc[q] \notin Section
  BY Excluded DEF Exclusive, Thread
<1>3. TypeOK /\ pc \in [Thread -> Position]
  BY DEF IInv, TypeOK
<1> HIDE DEF q
\* The four parts of the invariant for each of the two threads.
<1>4. SUFFICES
        /\ pc'[p] \in {"turn"} \cup Trying => buf'[p] = <<>>
        /\ pc[q] \in Section => buf'[p] = <<>>
        /\ buf'[p] # <<>> => /\ mem'[Flag(p)] = 1 /\ buf'[q] = <<>>
                             /\ pc[q] \in Trying => mem'["turn"] = p
        /\ \A i \in 1 .. Len(buf'[p]) : buf'[p][i].addr = Flag(p) => i = Len(buf'[p])
        /\ pc[q] \in {"turn"} \cup Trying => buf'[q] = <<>>
        /\ pc'[p] \in Section => buf'[q] = <<>>
        /\ buf'[q] # <<>> => /\ mem'[Flag(q)] = 1 /\ buf'[p] = <<>>
                             /\ pc'[p] \in Trying => mem'["turn"] = q
        /\ \A i \in 1 .. Len(buf'[q]) : buf'[q][i].addr = Flag(q) => i = Len(buf'[q])
  BY <1>1 DEF Drained
<1>5. /\ pc[p] \in {"turn"} \cup Trying => buf[p] = <<>>
      /\ pc[q] \in Section => buf[p] = <<>>
      /\ buf[p] # <<>> => /\ mem[Flag(p)] = 1 /\ buf[q] = <<>>
                          /\ pc[q] \in Trying => mem["turn"] = p
      /\ \A i \in 1 .. Len(buf[p]) : buf[p][i].addr = Flag(p) => i = Len(buf[p])
      /\ pc[q] \in {"turn"} \cup Trying => buf[q] = <<>>
      /\ pc[p] \in Section => buf[q] = <<>>
      /\ buf[q] # <<>> => /\ mem[Flag(q)] = 1 /\ buf[p] = <<>>
                          /\ pc[p] \in Trying => mem["turn"] = q
      /\ \A i \in 1 .. Len(buf[q]) : buf[q][i].addr = Flag(q) => i = Len(buf[q])
  BY <1>1 DEF Drained
<1>6. CASE StoreFlag(p)
  <2>1. Written(p, Flag(p), 1) /\ buf[p] = <<>>
    BY <1>6, EntryStore
  <2>2. pc'[p] = "turn" /\ Flag(q) # Flag(p) /\ Flag(q) \in Address
    BY <1>1, <1>3, <1>6, FlagAddress DEF StoreFlag, Goto, q
  <2>3. buf' = buf /\ mem'[Flag(q)] = mem[Flag(q)]
    BY <1>3, <2>1, <2>2 DEF Written, TypeOK
  <2> QED BY <1>5, <2>1, <2>2, <2>3 DEF Trying, Section
<1>7. CASE StoreTurn(p)
  <2>1. Written(p, "turn", q)
    BY <1>7, EntryStore DEF q
  <2>2. pc[p] = "turn" /\ pc'[p] = "test_flag" /\ Flag(q) # "turn" /\ Flag(q) \in Address
    BY <1>1, <1>3, <1>7, FlagAddress DEF StoreTurn, Goto, Flag
  <2>3. buf' = buf /\ mem'[Flag(q)] = mem[Flag(q)] /\ mem'["turn"] = q
    BY <1>3, <2>1, <2>2 DEF Written, TypeOK, Address
  <2> QED BY <1>5, <2>2, <2>3 DEF Trying, Section
<1>8. CASE TestFlag(p) \/ TestTurn(p)
  <2>1. UNCHANGED <<mem, buf>> /\ pc[p] \in Trying /\ pc'[p] \in Trying \cup {"cap"}
    BY <1>3, <1>8 DEF TestFlag, TestTurn, Goto, Trying
  <2>2. ASSUME pc'[p] = "cap" PROVE buf[q] = <<>>
    <3>1. CASE TestFlag(p)
      <4>1. Load(p, Flag(q)) = mem[Flag(q)]
        BY LoadMemory DEF q
      <4>2. mem[Flag(q)] = 0
        BY <1>3, <2>2, <3>1, <4>1 DEF TestFlag, Goto, q
      <4> QED BY <1>5, <4>2
    <3>2. CASE TestTurn(p)
      <4>1. Load(p, "turn") = mem["turn"]
        BY LoadMemory
      <4>2. mem["turn"] = p
        BY <1>3, <2>2, <3>2, <4>1 DEF TestTurn, Goto
      <4> QED BY <1>1, <1>5, <2>1, <4>2
    <3> QED BY <1>8, <3>1, <3>2
  <2>3. pc'[p] \in Section => pc'[p] = "cap"
    BY <2>1 DEF Trying, Section
  <2> QED BY <1>5, <2>1, <2>2, <2>3
<1>9. CASE /\ UNCHANGED <<mem, buf>>
           /\ pc'[p] \notin {"turn"} \cup Trying
           /\ pc'[p] \in Section => pc[p] \in Section
  BY <1>5, <1>9
<1>10. CASE /\ pc[p] \in Section /\ pc'[p] \notin {"turn"} \cup Trying
            /\ Debited(p) \/ Credited(p) \/ Post(p)
  <2>1. PICK a \in {"rich_guy", "poor_guy", Flag(p)}, v \in Int : Store(p, a, v)
    BY <1>10, SectionStore
  <2>2. buf'[q] = <<>> /\ buf[q] = <<>>
    BY <1>5, <1>10, <2>1, StoreEffect DEF q
  <2>3. mem[Flag(p)] = 1 /\ (pc[q] \in Trying => mem["turn"] = p)
    BY <1>10 DEF IInv, FlagsRaised, Raised, Precedence, q
  <2>4. pc[q] \notin Section
    BY <1>2, <1>10
  <2>5. CASE smp
    <3> DEFINE w == [addr |-> a, val |-> v]
    <3>1. mem' = mem /\ buf' = [buf EXCEPT ![p] = Append(buf[p], w)]
      BY <2>1, <2>5 DEF Store
    <3>2. w \in BufferedStore /\ buf[p] \in Seq(BufferedStore)
      <4>1. a \in Address
        BY FlagAddress DEF Address
      <4> QED BY <1>3, <4>1 DEF BufferedStore, TypeOK
    <3>3. buf'[p] = Append(buf[p], w)
      BY <1>3, <3>1 DEF TypeOK
    <3> HIDE DEF w
    <3>4. \A i \in 1 .. Len(buf'[p]) :
            i = Len(buf'[p]) \/ (i \in 1 .. Len(buf[p]) /\ buf'[p][i] = buf[p][i])
      BY <3>2, <3>3
    <3>5. \A i \in 1 .. Len(buf[p]) : buf[p][i].addr # Flag(p)
      BY <1>10 DEF IInv, BuffersTame, Raised
    <3>6. \A i \in 1 .. Len(buf'[p]) : buf'[p][i].addr = Flag(p) => i = Len(buf'[p])
      BY <3>4, <3>5
    <3>7. Len(buf'[q]) = 0
      BY <2>2
    <3> QED BY <1>10, <2>2, <2>3, <2>4, <3>1, <3>6, <3>7
  <2>6. CASE ~smp
    <3>1. buf' = buf /\ buf[p] = <<>>
      BY <2>1, <2>6, StoreEffect DEF IInv, OneView
    <3> QED BY <1>5, <2>2, <3>1
  <2> QED BY <2>5, <2>6
<1> QED BY <1>6, <1>7, <1>8, <1>9, <1>10, Kinds

LEMMA FlushDrained ==
  ASSUME IInv, Drained, NEW p \in Thread, Flush(p)
  PROVE  Drained'
<1> USE Other
<1> DEFINE q == 1 - p
           n == Len(buf[p])
<1>1. q \in Thread /\ q # p /\ 1 - q = p /\ \A r \in Thread : r = p \/ r = q
  BY DEF Thread
<1>2. buf[p] \in Seq(BufferedStore) /\ buf[p] # <<>> /\ pc' = pc
  BY DEF IInv, TypeOK, Flush
<1>3. /\ n \in Nat \ {0} /\ Head(buf[p]) = buf[p][1] /\ 1 \in 1 .. n
      /\ Len(Tail(buf[p])) = n - 1 /\ \A i \in 1 .. n - 1 : Tail(buf[p])[i] = buf[p][i + 1]
  BY <1>2
<1>4. /\ buf'[p] = Tail(buf[p]) /\ buf'[q] = buf[q]
      /\ mem' = [mem EXCEPT ![buf[p][1].addr] = buf[p][1].val]
  BY <1>1, <1>3 DEF Flush, IInv, TypeOK
<1>5. /\ buf[q] = <<>> /\ mem[Flag(p)] = 1
      /\ pc[q] \in Trying => mem["turn"] = p
      /\ pc[p] \notin {"turn"} \cup Trying /\ pc[q] \notin Section
      /\ \A i \in 1 .. n : buf[p][i].addr = Flag(p) => i = n
  BY <1>2 DEF Drained
<1>6. buf[p][1].addr # "turn"
  BY <1>3 DEF IInv, BuffersTame
<1> HIDE DEF q, n
<1>7. mem'["turn"] = mem["turn"]
  BY <1>4, <1>6 DEF IInv, TypeOK, Address
<1>8. buf'[p] # <<>> => mem'[Flag(p)] = 1
  <2>1. buf'[p] # <<>> => n # 1
    <3>1. n = 1 => Len(buf'[p]) = 0 /\ buf'[p] \in Seq(BufferedStore)
      BY <1>2, <1>3, <1>4
    <3> QED BY <3>1
  <2>2. n # 1 => buf[p][1].addr # Flag(p)
    BY <1>3, <1>5
  <2> QED BY <1>4, <1>5, <2>1, <2>2, FlagAddress DEF IInv, TypeOK
<1>9. \A i \in 1 .. Len(buf'[p]) : buf'[p][i].addr = Flag(p) => i = Len(buf'[p])
  BY <1>3, <1>4, <1>5
<1>10. Len(buf'[q]) = 0
  BY <1>4, <1>5
<1>11. /\ pc[q] \notin Section
       /\ pc[p] \notin {"turn"} \cup Trying
       /\ buf'[q] = <<>> /\ mem'["turn"] = mem["turn"]
       /\ pc[q] \in Trying => mem["turn"] = p
  BY <1>4, <1>5, <1>7
<1>12. /\ pc'[p] \in {"turn"} \cup Trying => buf'[p] = <<>>
       /\ pc'[q] \in Section => buf'[p] = <<>>
       /\ buf'[p] # <<>> => /\ mem'[Flag(p)] = 1 /\ buf'[q] = <<>>
                            /\ pc'[q] \in Trying => mem'["turn"] = p
  BY <1>2, <1>8, <1>11
<1>13. /\ pc'[q] \in {"turn"} \cup Trying => buf'[q] = <<>>
       /\ pc'[p] \in Section => buf'[q] = <<>>
       /\ buf'[q] # <<>> => /\ mem'[Flag(q)] = 1 /\ buf'[p] = <<>>
                            /\ pc'[p] \in Trying => mem'["turn"] = q
       /\ \A i \in 1 .. Len(buf'[q]) : buf'[q][i].addr = Flag(q) => i = Len(buf'[q])
  BY <1>10, <1>11
<1> QED BY <1>1, <1>9, <1>12, <1>13 DEF Drained

\* What the sums of the balance are sums of.
Numbers == \A p \in Thread : InFlight(p) \in Int /\ \A a \in Address : Load(p, a) \in Int

LEMMA NumbersRead == TypeOK => Numbers
BY LoadType DEF Numbers, InFlight, TypeOK

\* A step that changes no balance and nothing on its way keeps the balance.
LEMMA SameBalance ==
  ASSUME Balance,
         \A q \in Thread, a \in {"rich_guy", "poor_guy"} : Load(q, a)' = Load(q, a),
         \A q \in Thread : /\ buf'[q] = <<>> => buf[q] = <<>>
                           /\ InFlight(q)' = InFlight(q)
                           /\ pc'[q] \in {"debited", "credited"} =>
                                /\ pc'[q] = pc[q] /\ acc'[q] = acc[q] /\ money'[q] = money[q]
  PROVE  Balance'
<1> USE Other
<1> SUFFICES ASSUME NEW p \in Thread
             PROVE  /\ buf'[1 - p] = <<>> =>
                         Load(p, "rich_guy")' + Load(p, "poor_guy")'
                           + InFlight(p)' + InFlight(1 - p)' = AMOUNT
                    /\ pc'[p] = "debited" => acc'[p] = Load(p, "rich_guy")' - money'[p]
                    /\ pc'[p] = "credited" => acc'[p] = Load(p, "poor_guy")' + money'[p]
  BY DEF Balance
<1> QED BY DEF Balance

LEMMA ThreadBalance ==
  ASSUME Ordered, MInv, NEW p \in Thread, ThreadStep(p)
  PROVE  Balance'
<1> USE Other
<1> DEFINE q == 1 - p
<1>1. /\ pc'[q] = pc[q] /\ q \in Thread /\ q # p /\ 1 - q = p
      /\ \A r \in Thread : r = p \/ r = q
  BY Kinds DEF Thread, MInv
<1>2. TypeOK /\ IInv /\ Drained /\ Balance /\ "rich_guy" \in Address /\ "poor_guy" \in Address
  BY DEF MInv, IInv, Address
<1>3. pc \in [Thread -> Position] /\ money \in [Thread -> Int] /\ acc \in [Thread -> Int]
  BY <1>2 DEF TypeOK
<1>4. acc'[q] = acc[q] /\ money'[q] = money[q] /\ InFlight(q)' = InFlight(q)
  BY <1>1, <1>3 DEF ThreadStep, Begin, StoreFlag, StoreTurn, TestFlag, TestTurn, Cap, Debit,
     Debited, Credit, Credited, RichEmpty, PoorFull, Post, InFlight
<1> HIDE DEF q
<1>5. ASSUME \A a \in {"rich_guy", "poor_guy"} : mem'[a] = mem[a], buf' = buf
      PROVE  \A r \in Thread, a \in {"rich_guy", "poor_guy"} : Load(r, a)' = Load(r, a)
  BY <1>5, LoadSame
<1>6. CASE StoreFlag(p) \/ StoreTurn(p)
  <2>1. buf' = buf /\ \A a \in {"rich_guy", "poor_guy"} : mem'[a] = mem[a]
    <3>1. Written(p, Flag(p), 1) \/ Written(p, "turn", 1 - p)
      BY <1>2, <1>6, EntryStore
    <3>2. Flag(p) \notin {"rich_guy", "poor_guy"}
      BY DEF Flag
    <3> QED BY <1>2, <3>1, <3>2 DEF Written, TypeOK
  <2>2. pc[p] \in {"flag", "turn"} /\ pc'[p] \in {"turn", "test_flag"}
    BY <1>3, <1>6 DEF StoreFlag, StoreTurn, Goto
  <2>3. InFlight(p)' = InFlight(p)
    BY <2>2 DEF InFlight
  <2> QED BY <1>1, <1>2, <1>4, <1>5, <2>1, <2>2, <2>3, SameBalance
<1>7. CASE \/ TestFlag(p) \/ TestTurn(p) \/ Begin(p) \/ Cap(p) \/ RichEmpty(p) \/ PoorFull(p)
  <2>1. UNCHANGED <<mem, buf>>
    BY <1>7 DEF TestFlag, TestTurn, Begin, Cap, RichEmpty, PoorFull
  <2>2. /\ pc[p] \notin {"debited", "credit", "credited"}
        /\ pc'[p] \notin {"debited", "credit", "credited"}
    BY <1>3, <1>7 DEF TestFlag, TestTurn, Begin, Cap, RichEmpty, PoorFull, Goto
  <2>3. InFlight(p)' = InFlight(p)
    BY <2>2 DEF InFlight
  <2> QED BY <1>1, <1>2, <1>4, <1>5, <2>1, <2>2, <2>3, SameBalance
\* What is loaded is not stale.
<1>8. CASE Debit(p) \/ Credit(p)
  <2>1. UNCHANGED <<mem, buf, money>>
    BY <1>8 DEF Debit, Credit
  <2>2. \/ /\ pc[p] = "debit" /\ pc'[p] = "debited"
           /\ acc'[p] = Load(p, "rich_guy") - money[p]
        \/ /\ pc[p] = "credit" /\ pc'[p] = "credited"
           /\ acc'[p] = Load(p, "poor_guy") + money[p]
    BY <1>3, <1>8 DEF Debit, Credit, Goto
  <2>3. InFlight(p)' = InFlight(p)
    BY <2>1, <2>2 DEF InFlight
  <2>4. \A r \in Thread, a \in {"rich_guy", "poor_guy"} : Load(r, a)' = Load(r, a)
    BY <1>5, <2>1
  <2>5. ASSUME NEW r \in Thread, buf'[1 - r] = <<>>
        PROVE  Load(r, "rich_guy")' + Load(r, "poor_guy")'
                 + InFlight(r)' + InFlight(1 - r)' = AMOUNT
    <3>1. Load(r, "rich_guy") + Load(r, "poor_guy") + InFlight(r) + InFlight(1 - r) = AMOUNT
      BY <1>2, <2>1, <2>5 DEF Balance
    <3>2. InFlight(r)' = InFlight(r) /\ InFlight(1 - r)' = InFlight(1 - r)
      BY <1>1, <1>4, <2>3
    <3> QED BY <2>4, <3>1, <3>2
  <2>6. /\ pc'[p] = "debited" => acc'[p] = Load(p, "rich_guy")' - money'[p]
        /\ pc'[p] = "credited" => acc'[p] = Load(p, "poor_guy")' + money'[p]
    BY <2>1, <2>2, <2>4
  <2>7. /\ pc'[q] = "debited" => acc'[q] = Load(q, "rich_guy")' - money'[q]
        /\ pc'[q] = "credited" => acc'[q] = Load(q, "poor_guy")' + money'[q]
    BY <1>1, <1>2, <1>4, <2>4 DEF Balance
  <2> QED BY <1>1, <2>5, <2>6, <2>7 DEF Balance
<1>9. CASE Debited(p) \/ Credited(p) \/ Post(p)
  <2>1. pc[p] \in Section
    BY <1>9 DEF Debited, Credited, Post, Goto, Section
  <2>2. pc[q] \notin Section /\ buf[q] = <<>>
    BY <1>1, <1>2, <2>1, Excluded DEF Exclusive, Thread, Drained
  <2>3. InFlight(q) = 0 /\ InFlight(q)' = 0
    BY <1>4, <2>2 DEF InFlight, Section
  <2>4. Load(p, "rich_guy") + Load(p, "poor_guy") + InFlight(p) = AMOUNT
    <3>1. Load(p, "rich_guy") + Load(p, "poor_guy") + InFlight(p) + InFlight(q) = AMOUNT
      BY <1>2, <2>2 DEF Balance, q
    <3>2. Load(p, "rich_guy") \in Int /\ Load(p, "poor_guy") \in Int /\ InFlight(p) \in Int
      BY <1>2, <1>3, LoadType DEF InFlight
    <3> QED BY <2>3, <3>1, <3>2
  <2>5. Load(p, "rich_guy")' + Load(p, "poor_guy")' + InFlight(p)' = AMOUNT
    <3>1. Load(p, "rich_guy") \in Int /\ Load(p, "poor_guy") \in Int /\ acc[p] \in Int
          /\ money[p] \in Int
      BY <1>2, <1>3, LoadType
    <3>2. CASE Debited(p)
      <4>1. Store(p, "rich_guy", acc[p]) /\ money' = money
            /\ pc[p] = "debited" /\ pc'[p] = "credit"
        BY <1>3, <3>2 DEF Debited, Goto
      <4>2. acc[p] = Load(p, "rich_guy") - money[p]
        BY <1>2, <4>1 DEF Balance
      <4>3. Load(p, "rich_guy")' = acc[p] /\ Load(p, "poor_guy")' = Load(p, "poor_guy")
        BY <1>2, <3>1, <4>1, StoreEffect
      <4>4. InFlight(p) = 0 /\ InFlight(p)' = money[p]
        BY <4>1 DEF InFlight
      <4> QED BY <2>4, <3>1, <4>2, <4>3, <4>4
    <3>3. CASE Credited(p)
      <4>1. Store(p, "poor_guy", acc[p]) /\ money' = money
            /\ pc[p] = "credited" /\ pc'[p] = "rich_empty"
        BY <1>3, <3>3 DEF Credited, Goto
      <4>2. acc[p] = Load(p, "poor_guy") + money[p]
        BY <1>2, <4>1 DEF Balance
      <4>3. Load(p, "poor_guy")' = acc[p] /\ Load(p, "rich_guy")' = Load(p, "rich_guy")
        BY <1>2, <3>1, <4>1, StoreEffect
      <4>4. InFlight(p) = money[p] /\ InFlight(p)' = 0
        BY <4>1 DEF InFlight
      <4> QED BY <2>4, <3>1, <4>2, <4>3, <4>4
    <3>4. CASE Post(p)
      <4>1. Store(p, Flag(p), 0) /\ pc[p] = "post" /\ pc'[p] \in {"finished", "begin"}
        BY <1>3, <3>4 DEF Post, Goto, Ordered
      <4>2. Flag(p) \notin {"rich_guy", "poor_guy"}
        BY DEF Flag
      <4>3. Load(p, "poor_guy")' = Load(p, "poor_guy") /\ Load(p, "rich_guy")' = Load(p, "rich_guy")
        BY <1>2, <4>1, <4>2, StoreEffect
      <4>4. InFlight(p) = 0 /\ InFlight(p)' = 0
        BY <4>1 DEF InFlight
      <4> QED BY <2>4, <4>3, <4>4
    <3> QED BY <1>9, <3>2, <3>3, <3>4
  <2>6. PICK a \in {"rich_guy", "poor_guy", Flag(p)}, v \in Int : Store(p, a, v)
    BY <1>2, <1>9, SectionStore
  <2>7. ASSUME buf'[p] = <<>>
        PROVE  Load(q, "rich_guy")' = Load(p, "rich_guy")' /\ Load(q, "poor_guy")' = Load(p, "poor_guy")'
    BY <1>2, <2>6, <2>7, StoreEffect DEF q, TypeOK
  <2>8. pc'[p] \notin {"debited", "credited"} /\ pc'[q] \notin {"debited", "credited"}
    BY <1>1, <1>3, <1>9, <2>2 DEF Debited, Credited, Post, Goto, Section
  <2>9. Load(p, "rich_guy")' + Load(p, "poor_guy")' + InFlight(p)' + InFlight(q)' = AMOUNT
    <3>1. Load(p, "rich_guy")' + Load(p, "poor_guy")' + InFlight(p)' + 0 = AMOUNT
      BY <2>5, PetersonAssumption
    <3> QED BY <2>3, <3>1
  <2>10. buf'[p] = <<>> =>
           Load(q, "rich_guy")' + Load(q, "poor_guy")' + InFlight(q)' + InFlight(p)' = AMOUNT
    <3>1. TypeOK' /\ (TypeOK' => Numbers')
      BY <1>2, ThreadType, NumbersRead, PTL
    <3>2. Load(p, "rich_guy")' \in Int /\ Load(p, "poor_guy")' \in Int /\ InFlight(p)' \in Int
      BY <1>2, <3>1 DEF Numbers
    <3> QED BY <2>3, <2>7, <2>9, <3>2
  <2> QED BY <1>1, <2>8, <2>9, <2>10 DEF Balance
<1> QED BY <1>2, <1>6, <1>7, <1>8, <1>9 DEF ThreadStep

LEMMA FlushBalance ==
  ASSUME MInv, NEW p \in Thread, Flush(p)
  PROVE  Balance'
<1> USE Other
<1> DEFINE q == 1 - p
<1>1. q \in Thread /\ q # p /\ 1 - q = p /\ \A r \in Thread : r = p \/ r = q
  BY DEF Thread
<1>2. /\ TypeOK /\ Drained /\ Balance /\ "rich_guy" \in Address /\ "poor_guy" \in Address
      /\ UNCHANGED <<pc, acc, money>> /\ buf[p] # <<>>
  BY DEF MInv, IInv, Address, Flush
<1>3. \A a \in Address : Load(p, a)' = Load(p, a)
  BY <1>2, LoadFlush
<1>4. buf[q] = <<>> /\ buf'[q] = <<>> /\ pc[q] \notin Section
  BY <1>1, <1>2 DEF Drained, Flush, TypeOK
<1>5. InFlight(p)' = InFlight(p) /\ InFlight(q)' = InFlight(q)
  BY <1>2 DEF InFlight
<1>6. Load(p, "rich_guy") + Load(p, "poor_guy") + InFlight(p) + InFlight(q) = AMOUNT
  BY <1>2, <1>4 DEF Balance
<1>7. ASSUME buf'[p] = <<>>
      PROVE  Load(q, "rich_guy")' = Load(p, "rich_guy")' /\ Load(q, "poor_guy")' = Load(p, "poor_guy")'
  <2>1. \A a : Pending(p, a)' = {} /\ Pending(q, a)' = {}
    BY <1>4, <1>7 DEF Pending
  <2> QED BY <2>1 DEF Load
<1>8. /\ InFlight(p) \in Int /\ InFlight(q) \in Int
      /\ Load(p, "rich_guy") \in Int /\ Load(p, "poor_guy") \in Int
  BY <1>1, <1>2, NumbersRead DEF Numbers
<1> HIDE DEF q
<1>9. buf'[p] = <<>> =>
        Load(q, "rich_guy")' + Load(q, "poor_guy")' + InFlight(q)' + InFlight(p)' = AMOUNT
  BY <1>2, <1>3, <1>5, <1>6, <1>7, <1>8
<1>10. Load(p, "rich_guy")' + Load(p, "poor_guy")' + InFlight(p)' + InFlight(q)' = AMOUNT
  BY <1>2, <1>3, <1>5, <1>6
<1>11. pc'[q] \notin {"debited", "credited"}
  BY <1>2, <1>4 DEF Section
<1>12. /\ pc'[p] = "debited" => acc'[p] = Load(p, "rich_guy")' - money'[p]
       /\ pc'[p] = "credited" => acc'[p] = Load(p, "poor_guy")' + money'[p]
  BY <1>2, <1>3 DEF Balance
<1> QED BY <1>1, <1>9, <1>10, <1>11, <1>12 DEF Balance

LEMMA InitMoney == Init => MInv
<1> SUFFICES ASSUME Init PROVE MInv
  OBVIOUS
<1>1. IInv
  BY InitInv
<1>2. /\ \A p \in Thread : buf[p] = <<>> /\ pc[p] = "begin"
      /\ mem["rich_guy"] = AMOUNT /\ mem["poor_guy"] = 0
  BY DEF Init, Address
<1>3. Drained
  BY <1>2, Other DEF Drained, Trying, Section
<1>4. Balance
  <2>1. \A p \in Thread : Load(p, "rich_guy") = AMOUNT /\ Load(p, "poor_guy") = 0
    BY <1>2 DEF Load, Pending
  <2>2. \A p \in Thread : InFlight(p) = 0
    BY <1>2 DEF InFlight
  <2> QED BY <1>2, <2>1, <2>2, Other, PetersonAssumption DEF Balance
<1> QED BY <1>1, <1>3, <1>4 DEF MInv

LEMMA NextMoney ==
  ASSUME Ordered, MInv, [Next]_vars
  PROVE  MInv'
<1>1. IInv'
  BY NextInv DEF MInv
<1>2. CASE UNCHANGED <<mem, buf, pc, acc, money>>
  <2>1. Drained'
    BY <1>2 DEF MInv, Drained
  <2>2. Balance'
    <3>1. \A p \in Thread : \A a : Load(p, a)' = Load(p, a)
      BY <1>2, LoadSame
    <3>2. \A p : InFlight(p)' = InFlight(p)
      BY <1>2 DEF InFlight
    <3> QED BY <1>2, <3>1, <3>2 DEF MInv, Balance
  <2> QED BY <1>1, <2>1, <2>2 DEF MInv
<1>3. CASE Report \/ Stopped \/ UNCHANGED vars
  BY <1>2, <1>3 DEF Report, Stopped, vars
<1>4. ASSUME NEW p \in Thread, ThreadStep(p) PROVE MInv'
  BY <1>1, <1>4, ThreadDrained, ThreadBalance DEF MInv
<1>5. ASSUME NEW p \in Thread, Flush(p) PROVE MInv'
  BY <1>1, <1>5, FlushDrained, FlushBalance DEF MInv
<1> QED BY <1>3, <1>4, <1>5 DEF Next

\* MoneyConserved: a thread in the section sees every store of the one before it, held back
\* as they may have been, and so all the money but what it is moving.
THEOREM Conservation == Spec => []MoneyConserved
<1>1. (Ordered => MInv) => MoneyConserved
  <2> SUFFICES ASSUME Ordered, MInv, NEW p \in Thread, pc[p] \in Section
               PROVE  Load(p, "rich_guy") + Load(p, "poor_guy") + InFlight(p) = AMOUNT
    BY DEF MoneyConserved
  <2>1. TypeOK /\ 1 - p \in Thread /\ pc[1 - p] \notin Section /\ buf[1 - p] = <<>>
    BY Other, Excluded DEF MInv, IInv, Exclusive, Thread, Drained
  <2>2. Load(p, "rich_guy") + Load(p, "poor_guy") + InFlight(p) + InFlight(1 - p) = AMOUNT
    BY <2>1 DEF MInv, Balance
  <2>3. InFlight(1 - p) = 0
    BY <2>1 DEF InFlight, Section
  <2>4. /\ Load(p, "rich_guy") \in Int /\ Load(p, "poor_guy") \in Int /\ InFlight(p) \in Int
    BY <2>1, NumbersRead DEF Numbers, Address
  <2> QED BY <2>2, <2>3, <2>4
<1>2. (Ordered => MInv) /\ [Next]_vars => (Ordered => MInv)'
  BY NextMoney, OrderedFixed
<1>3. Init => (Ordered => MInv)
  BY InitMoney
<1> QED BY <1>1, <1>2, <1>3, PTL DEF Spec
==============================================================================
