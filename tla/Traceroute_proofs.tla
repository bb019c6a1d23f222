--------------------------- MODULE Traceroute_proofs --------------------------
(***************************************************************************)
(* Proofs about Traceroute, for any limits, command lines, routers and     *)
(* distances: the search stops with the row of the first final answer, a   *)
(* time is printed under the right host, and the shared strings are freed  *)
(* once.                                                                   *)
(***************************************************************************)
EXTENDS Traceroute, TLAPS

\* Division with a remainder.
LEMMA DivMod ==
  ASSUME NEW p \in Int, NEW n \in Nat \ {0}
  PROVE  /\ p \div n \in Int /\ p % n \in 0 .. n - 1
         /\ p = n * (p \div n) + (p % n)
OBVIOUS

LEMMA TimesMonotonic ==
  ASSUME NEW n \in Nat \ {0}, NEW a \in Int, NEW b \in Int, a < b
  PROVE  n * a + n <= n * b
<1>1. n * (b - a - 1) >= 0
  OBVIOUS
<1> QED BY <1>1

\* A quotient grows with the number, and never by more than the remainder allows.
LEMMA DivMonotonic ==
  ASSUME NEW p \in Int, NEW q \in Int, NEW n \in Nat \ {0}, p <= q
  PROVE  p \div n <= q \div n
<1> DEFINE a == p \div n
           b == q \div n
<1>1. /\ a \in Int /\ p % n \in 0 .. n - 1 /\ p = n * a + (p % n)
      /\ b \in Int /\ q % n \in 0 .. n - 1 /\ q = n * b + (q % n)
  BY DivMod
<1> HIDE DEF a, b
<1>2. CASE b < a
  BY <1>1, <1>2, TimesMonotonic
<1> QED BY <1>1, <1>2 DEF a, b

LEMMA DivUnique ==
  ASSUME NEW n \in Nat \ {0}, NEW a \in Int, NEW r \in 0 .. n - 1
  PROVE  (n * a + r) \div n = a /\ (n * a + r) % n = r
<1> DEFINE p == n * a + r
           b == p \div n
<1>1. p \in Int
  OBVIOUS
<1>2. b \in Int /\ p % n \in 0 .. n - 1 /\ p = n * b + (p % n)
  BY <1>1, DivMod
<1>3. p = n * a + r
  OBVIOUS
<1> HIDE DEF b, p
<1>4. ~ (a < b)
  BY <1>1, <1>2, <1>3, TimesMonotonic
<1>5. ~ (b < a)
  BY <1>1, <1>2, <1>3, TimesMonotonic
<1>6. a = b
  BY <1>2, <1>4, <1>5
<1>7. p % n = r
  BY <1>2, <1>3, <1>6
<1> QED BY <1>6, <1>7 DEF b, p

\* The next number is in the same row, or the first of the next.
LEMMA DivNext ==
  ASSUME NEW p \in Int, NEW n \in Nat \ {0}
  PROVE  /\ p % n # n - 1 => (p + 1) \div n = p \div n /\ (p + 1) % n = (p % n) + 1
         /\ p % n = n - 1 => (p + 1) \div n = p \div n + 1 /\ (p + 1) % n = 0
<1> DEFINE a == p \div n
           r == p % n
<1>1. a \in Int /\ r \in 0 .. n - 1 /\ p = n * a + r
  BY DivMod
<1> HIDE DEF a, r
<1>2. CASE r # n - 1
  <2>1. p + 1 = n * a + (r + 1) /\ r + 1 \in 0 .. n - 1
    BY <1>1, <1>2
  <2>2. (n * a + (r + 1)) \div n = a /\ (n * a + (r + 1)) % n = r + 1
    BY <1>1, <2>1, DivUnique
  <2>3. (p + 1) \div n = a /\ (p + 1) % n = r + 1
    BY <2>1, <2>2, Zenon
  <2> QED BY <1>2, <2>3 DEF a, r
<1>3. CASE r = n - 1
  <2>1. p + 1 = n * (a + 1) + 0 /\ 0 \in 0 .. n - 1 /\ a + 1 \in Int
    BY <1>1, <1>3
  <2>2. (n * (a + 1) + 0) \div n = a + 1 /\ (n * (a + 1) + 0) % n = 0
    BY <1>1, <2>1, DivUnique
  <2>3. (p + 1) \div n = a + 1 /\ (p + 1) % n = 0
    BY <2>1, <2>2, Zenon
  <2> QED BY <1>3, <2>3 DEF a, r
<1> QED BY <1>2, <1>3 DEF a, r
-------------------------------------------------------------------------------
(* The inductive invariant. *)

Options ==
  /\ opts \in [max_ttl : Int, probes : Nat \ {0}, first_ttl : Nat \ {0},
               dest_port_seq : BOOLEAN, dest_port : 1 .. MAX_DEST_PORT]
  /\ opts.max_ttl <= MAX_TTL /\ opts.probes <= MAX_PROBES

Info == [result : {"UNKNOWN", "ERR_SEND", "ERR_TIMEOUT", "OK"}, socket : BOOLEAN,
         addr : Routers \cup {Target, NoAddress}, err : BOOLEAN,
         name : All \cup {NULL, host_unknown, host_unknown_bad_AF}]

Searching == pc \in {"send", "receive", "resolve", "print", "next"}
Answered  == pc \in {"resolve", "print", "next"}

Types ==
  /\ program \in {"basic", "successive"} /\ Options
  /\ pc \in {"init", "send", "receive", "resolve", "print", "next", "release", "done", "aborted"}
  /\ pn \in Nat
  /\ probe \in [All -> Info]
  /\ live \subseteq All
  /\ pc \notin {"done", "aborted"} => rc = ""
  /\ pc = "aborted" => rc = "invalid free"

\* The probes are sent in their order, from the first; a probe without an answer is empty.
InOrder ==
  /\ Searching =>
       /\ pn \in All /\ pn >= First
       /\ \A p \in All : p \in Sent <=> p >= First /\ (p < pn \/ (Answered /\ p = pn))
  /\ pc = "init" => Sent = {}
  /\ \A p \in All : probe[p].result # "OK" => probe[p].addr = NoAddress /\ ~probe[p].err
  /\ pc = "resolve" => probe[pn].result = "OK"

\* The final probe, without the words earliest and latest.
FinalProbe ==
  \/ Finals = {} /\ final_probe = -1
  \/ /\ final_probe \in Finals
     /\ \A q \in Finals : IF program = "basic" THEN q <= final_probe ELSE final_probe <= q

\* The probes up to the end of the row of the final answers.
WholeRows ==
  {p \in All : p >= First /\ \A q \in Finals : probe2ttl(p) <= probe2ttl(q)}

\* The search is in the row of the final answers, if there is one, and ends with that row.
ToTheRow ==
  /\ Searching => \A q \in Finals : probe2ttl(q) = probe2ttl(pn)
  /\ \A p \in Sent, q \in Finals : probe2ttl(p) <= probe2ttl(q)
  /\ pc \in {"release", "aborted"} \/ rc = "ok" => Sent = WholeRows
  /\ rc = "port" => opts.dest_port + pn = PORTS

RInv == Types /\ InOrder /\ FinalProbe /\ ToTheRow

\* The host that is shown for a probe of the successive program.
Label(p) ==
  IF probe[p].result = "ERR_TIMEOUT" THEN Star
  ELSE IF probe[p].addr = NoAddress THEN BadAF ELSE probe[p].addr

\* The probes that were resolved.
Resolved == {p \in Sent : ~(pc = "resolve" /\ p = pn)}

\* A probe has no name before it is resolved, and then the constant or the string that reads
\* as its host; a string was allocated by a probe with the same host.
Named ==
  /\ \A p \in All \ Resolved : probe[p].name = NULL
  /\ program = "successive" /\ Searching =>
       \A p \in Resolved :
         IF probe[p].result = "ERR_TIMEOUT" THEN probe[p].name = host_unknown
         ELSE IF probe[p].addr = NoAddress THEN probe[p].name = host_unknown_bad_AF
         ELSE probe[p].name \in All /\ probe[probe[p].name].addr = probe[p].addr
  /\ program = "basic" =>
       /\ \A p \in All : probe[p].name \in {NULL, host_unknown}
       /\ pc = "print" => probe[pn].result = "ERR_TIMEOUT"

\* Within a row the successive program has shown the host of the previous probe.
ShownBefore ==
  program = "successive" /\ pc \in {"send", "receive", "resolve", "print"} /\ pn % opts.probes # 0
    => shown = Label(pn - 1)

NInv == RInv /\ Named /\ ShownBefore /\ NamesShown

\* The strings in the final loop.
Strings ==
  /\ \A p \in All : probe[p].name = host_unknown_bad_AF =>
       probe[p].result = "OK" /\ probe[p].addr = NoAddress
  /\ pc = "release" /\ program = "successive" =>
       \A p \in All : p < pn => probe[p].name \in {NULL, host_unknown}
  /\ program = "basic" => live = {}

IInv == NInv /\ Strings /\ FreedOnce
-------------------------------------------------------------------------------
(* The rows. *)

LEMMA AllProbes ==
  ASSUME Options
  PROVE  /\ All \subseteq Nat /\ First \in Nat
         /\ \A p \in All : p < PORTS /\ \A q \in 0 .. p : q \in All
         /\ \A p \in All : p + 1 \notin All => \A q \in All : q <= p
         /\ First \notin All => \A p \in All : p < First
<1> DEFINE m == opts.max_ttl
           n == opts.probes
           e == m * n
<1>1. /\ m \in Int /\ n \in Nat \ {0} /\ m <= MAX_TTL /\ n <= MAX_PROBES
      /\ opts.first_ttl \in Nat \ {0}
  BY DEF Options
<1>2. MAX_TTL \in Nat /\ MAX_PROBES \in Nat /\ MAX_TTL * MAX_PROBES <= PORTS /\ PORTS \in Nat
  BY TracerouteAssumption
<1>3. All = 0 .. e - 1
  BY DEF All
<1>4. First \in Nat
  <2>1. (opts.first_ttl - 1) \in Nat
    BY <1>1
  <2>2. \A a \in Nat : a * n \in Nat
    BY <1>1
  <2> QED BY <2>1, <2>2 DEF First
<1> HIDE DEF m, n
<1>5. e \in Int /\ e <= PORTS
  <2>1. e \in Int
    BY <1>1
  <2>2. e <= MAX_TTL * n
    <3>1. (MAX_TTL - m) * n >= 0
      BY <1>1, <1>2
    <3> QED BY <1>1, <1>2, <3>1
  <2>3. MAX_TTL * n <= MAX_TTL * MAX_PROBES
    <3>1. MAX_TTL * (MAX_PROBES - n) >= 0
      BY <1>1, <1>2
    <3> QED BY <1>1, <1>2, <3>1
  <2>4. MAX_TTL * n \in Int /\ MAX_TTL * MAX_PROBES \in Int
    BY <1>1, <1>2
  <2> HIDE DEF e
  <2> QED BY <1>2, <2>1, <2>2, <2>3, <2>4
<1> HIDE DEF e
<1> QED BY <1>2, <1>3, <1>4, <1>5

LEMMA Rows ==
  ASSUME Options, NEW p \in Int
  PROVE  /\ probe2ttl(p) \in Int /\ p % opts.probes \in 0 .. opts.probes - 1
         /\ opts.probes \in Nat \ {0}
         /\ \A q \in Int : p <= q => probe2ttl(p) <= probe2ttl(q)
         /\ p % opts.probes # opts.probes - 1 => probe2ttl(p + 1) = probe2ttl(p)
         /\ p % opts.probes = opts.probes - 1 =>
              probe2ttl(p + 1) = probe2ttl(p) + 1 /\ (p + 1) % opts.probes = 0
<1> DEFINE n == opts.probes
<1>1. n \in Nat \ {0}
  BY DEF Options
<1> HIDE DEF n
<1>2. p \div n \in Int /\ p % n \in 0 .. n - 1
  BY <1>1, DivMod
<1>3. \A q \in Int : p <= q => p \div n <= q \div n
  BY <1>1, DivMonotonic
<1>4. \A q \in Int : q \div n \in Int
  BY <1>1, DivMod
<1>5. /\ p % n # n - 1 => (p + 1) \div n = p \div n
      /\ p % n = n - 1 => (p + 1) \div n = p \div n + 1 /\ (p + 1) % n = 0
  BY <1>1, DivNext
<1>6. \A q : probe2ttl(q) = 1 + q \div n
  BY DEF probe2ttl, n
<1>7. \A q \in Int : p <= q => probe2ttl(p) <= probe2ttl(q)
  BY <1>2, <1>3, <1>4, <1>6
<1>8. /\ p % n # n - 1 => probe2ttl(p + 1) = probe2ttl(p)
      /\ p % n = n - 1 => probe2ttl(p + 1) = probe2ttl(p) + 1 /\ (p + 1) % n = 0
  BY <1>2, <1>5, <1>6
<1> QED BY <1>1, <1>2, <1>6, <1>7, <1>8 DEF n

\* Within a row the previous probe is in the same row.
LEMMA RowBefore ==
  ASSUME Options, NEW p \in Int, p % opts.probes # 0
  PROVE  probe2ttl(p - 1) = probe2ttl(p)
<1>1. p - 1 \in Int /\ (p - 1) + 1 = p
  OBVIOUS
<1> QED BY <1>1, Rows

\* What depends on the options and on the answers does not change with a name or a socket.
LEMMA SameRows ==
  ASSUME UNCHANGED <<program, opts>>
  PROVE  /\ All' = All /\ First' = First /\ Info' = Info
         /\ \A p : probe2ttl(p)' = probe2ttl(p) /\ Row(p)' = Row(p)
BY DEF All, First, Info, probe2ttl, Row

LEMMA SameAnswers ==
  ASSUME UNCHANGED <<program, opts>>,
         \A p \in All : /\ probe'[p].result = probe[p].result
                        /\ probe'[p].addr = probe[p].addr /\ probe'[p].err = probe[p].err
  PROVE  Sent' = Sent /\ Finals' = Finals /\ WholeRows' = WholeRows
<1>1. Sent' = Sent /\ Finals' = Finals
  BY SameRows DEF Sent, Finals
<1>2. \A p, q : (probe2ttl(p) <= probe2ttl(q))' = (probe2ttl(p) <= probe2ttl(q))
  BY SameRows
<1>3. WholeRows' = WholeRows
  BY <1>1, <1>2, SameRows DEF WholeRows
<1> QED BY <1>1, <1>3

LEMMA InitR == Init => RInv
<1> SUFFICES ASSUME Init PROVE RInv
  OBVIOUS
<1>1. Options
  <2>1. PICK a \in Arguments : opts = parse_options(a)
    BY DEF Init
  <2>2. a \in [m : Int, q : Int, f : Nat \ {0}, p : Nat, U : BOOLEAN]
    BY TracerouteAssumption
  <2>3. AtMost(MAX_TTL, a.m) \in Int /\ AtMost(MAX_TTL, a.m) <= MAX_TTL
    BY <2>2, TracerouteAssumption DEF AtMost
  <2>4. /\ (IF a.q < 1 THEN 1 ELSE AtMost(MAX_PROBES, a.q)) \in Nat \ {0}
        /\ (IF a.q < 1 THEN 1 ELSE AtMost(MAX_PROBES, a.q)) <= MAX_PROBES
    BY <2>2, TracerouteAssumption DEF AtMost
  <2>5. DestPort(a) \in 1 .. MAX_DEST_PORT
    BY TracerouteAssumption DEF DestPort
  <2> QED BY <2>1, <2>2, <2>3, <2>4, <2>5 DEF parse_options, Options
<1>2. probe = [p \in All |-> Unsent] /\ Unsent \in Info
  BY DEF Init, Unsent, Info
<1>3. Types
  BY <1>1, <1>2 DEF Init, Types
<1>4. \A p \in All : /\ probe[p].result = "UNKNOWN" /\ probe[p].addr = NoAddress
                     /\ ~probe[p].err
  BY <1>2 DEF Unsent
<1>5. Sent = {} /\ Finals = {}
  BY <1>4 DEF Sent, Finals, NoAddress, Target
<1>6. InOrder /\ FinalProbe /\ ToTheRow
  BY <1>4, <1>5 DEF Init, InOrder, FinalProbe, ToTheRow, Searching
<1> QED BY <1>3, <1>6 DEF RInv
-------------------------------------------------------------------------------
(* The steps keep RInv. *)

\* A step that changes neither an answer nor the place in the search.
LEMMA SamePlaceR ==
  ASSUME RInv, UNCHANGED <<program, opts, pn, final_probe, rc>>,
         probe' \in [All -> Info], live' \subseteq All,
         \A p \in All : /\ probe'[p].result = probe[p].result
                        /\ probe'[p].addr = probe[p].addr /\ probe'[p].err = probe[p].err,
         \/ Answered /\ pc' \in {"print", "next"}
         \/ pc = "send" /\ pc' = "receive"
  PROVE  RInv'
<1>1. Sent' = Sent /\ Finals' = Finals
  BY SameAnswers
<1>2. Searching /\ Searching' /\ Answered' = Answered
  BY DEF Searching, Answered
<1>3. Types'
  BY SameRows DEF RInv, Types, Options, Answered
<1>4. InOrder'
  BY <1>1, <1>2, SameRows DEF RInv, InOrder, Answered
<1>5. FinalProbe'
  BY <1>1 DEF RInv, FinalProbe
<1>6. rc' = "" /\ rc = ""
  BY DEF RInv, Types, Answered
<1>7. ToTheRow'
  BY <1>1, <1>2, <1>6, SameRows DEF RInv, ToTheRow, Answered
<1> QED BY <1>3, <1>4, <1>5, <1>7 DEF RInv

\* One field of the probe that is worked on.
LEMMA FieldOfProbe ==
  ASSUME probe \in [All -> Info], pn \in All
  PROVE  /\ \A x \in BOOLEAN :
              /\ [probe EXCEPT ![pn].socket = x] \in [All -> Info]
              /\ \A p \in All :
                   /\ [probe EXCEPT ![pn].socket = x][p].result = probe[p].result
                   /\ [probe EXCEPT ![pn].socket = x][p].addr = probe[p].addr
                   /\ [probe EXCEPT ![pn].socket = x][p].err = probe[p].err
                   /\ [probe EXCEPT ![pn].socket = x][p].name = probe[p].name
         /\ \A x \in All \cup {NULL, host_unknown, host_unknown_bad_AF} :
              /\ [probe EXCEPT ![pn].name = x] \in [All -> Info]
              /\ \A p \in All :
                   /\ [probe EXCEPT ![pn].name = x][p].result = probe[p].result
                   /\ [probe EXCEPT ![pn].name = x][p].addr = probe[p].addr
                   /\ [probe EXCEPT ![pn].name = x][p].err = probe[p].err
                   /\ [probe EXCEPT ![pn].name = x][p].name = IF p = pn THEN x ELSE probe[p].name
BY DEF Info

\* The name that a probe gets.
LEMMA NameType ==
  ASSUME RInv, pc = "resolve"
  PROVE  /\ pn \in All /\ addr2str \in All \cup {NULL, host_unknown, host_unknown_bad_AF}
         /\ Shares => /\ pn - 1 \in All /\ probe2ttl(pn - 1) = probe2ttl(pn)
                      /\ probe[pn - 1].name \in All \cup {NULL, host_unknown, host_unknown_bad_AF}
<1>1. pn \in All /\ pn \in Nat /\ Options
  BY DEF RInv, InOrder, Types, Searching
<1>2. ASSUME Shares PROVE pn - 1 \in All /\ probe2ttl(pn - 1) = probe2ttl(pn)
  <2>1. pn % opts.probes # 0
    BY <1>2 DEF Shares
  <2>2. pn # 0
    <3>1. 0 % opts.probes = 0
      BY <1>1 DEF Options
    <3> QED BY <2>1, <3>1
  <2>3. pn - 1 \in 0 .. pn
    BY <1>1, <2>2
  <2>4. pn - 1 \in All
    BY <1>1, <2>3, AllProbes
  <2> QED BY <1>1, <2>1, <2>4, RowBefore
<1> QED BY <1>1, <1>2 DEF addr2str, RInv, Types, Info

LEMMA WithoutAnswerR ==
  ASSUME RInv, traceroute_send \/ Resolve \/ traceroute_get_host \/ print_one_probe
  PROVE  RInv'
<1> USE DEF Chosen
<1>1. probe \in [All -> Info] /\ live \subseteq All
  BY DEF RInv, Types
<1>2. CASE traceroute_send
  <2>1. pn \in All /\ probe' = [probe EXCEPT ![pn].socket = TRUE]
    BY <1>2 DEF traceroute_send, RInv, InOrder, Searching
  <2>2. /\ probe' \in [All -> Info]
        /\ \A p \in All : /\ probe'[p].result = probe[p].result
                           /\ probe'[p].addr = probe[p].addr /\ probe'[p].err = probe[p].err
    BY <1>1, <2>1, FieldOfProbe
  <2>3. /\ UNCHANGED <<program, opts, pn, final_probe, rc, live>>
        /\ pc = "send" /\ pc' = "receive"
    BY <1>2 DEF traceroute_send
  <2> QED BY <1>1, <2>2, <2>3, SamePlaceR
<1>3. CASE Resolve
  <2> DEFINE name == IF Shares THEN probe[pn - 1].name ELSE addr2str
  <2>1. /\ pc = "resolve" /\ pc' = "print" /\ probe' = [probe EXCEPT ![pn].name = name]
        /\ live' = live \cup ({name} \cap All) /\ UNCHANGED <<program, opts, pn, final_probe, rc>>
    BY <1>3 DEF Resolve
  <2>2. pn \in All /\ name \in All \cup {NULL, host_unknown, host_unknown_bad_AF}
    BY <2>1, NameType
  <2> HIDE DEF name
  <2>3. /\ probe' \in [All -> Info]
        /\ \A p \in All : /\ probe'[p].result = probe[p].result
                           /\ probe'[p].addr = probe[p].addr /\ probe'[p].err = probe[p].err
    BY <1>1, <2>1, <2>2, FieldOfProbe
  <2>4. live' \subseteq All /\ Answered
    BY <1>1, <2>1 DEF Answered
  <2> QED BY <2>1, <2>3, <2>4, SamePlaceR
<1>4. CASE traceroute_get_host
  <2>1. Answered /\ pc' = "next" /\ UNCHANGED <<program, opts, pn, final_probe, rc, probe, live>>
    BY <1>4 DEF traceroute_get_host, Answered
  <2> QED BY <1>1, <2>1, SamePlaceR
<1>5. CASE print_one_probe
  <2>1. Answered /\ pc' = "next" /\ UNCHANGED <<program, opts, pn, final_probe, rc, probe, live>>
    BY <1>5 DEF print_one_probe, Answered
  <2> QED BY <1>1, <2>1, SamePlaceR
<1> QED BY <1>2, <1>3, <1>4, <1>5

\* The port of a probe is 0 only if the sum just does not fit.
LEMMA PortWraps ==
  ASSUME Options, pn \in All, dest_port = 0
  PROVE  opts.dest_port + pn = PORTS
<1> DEFINE x == opts.dest_port + pn
           k == x \div PORTS
<1>1. /\ opts.dest_port \in 1 .. MAX_DEST_PORT /\ MAX_DEST_PORT \in Nat
      /\ PORTS \in Nat \ {0} /\ MAX_DEST_PORT < PORTS
  BY TracerouteAssumption DEF Options
<1>2. pn \in Nat /\ pn < PORTS
  BY AllProbes
<1>3. x \in Int /\ x > 0 /\ x < PORTS + PORTS
  BY <1>1, <1>2
<1>4. x % PORTS = 0
  BY <1>1 DEF dest_port
<1> HIDE DEF x
<1>5. k \in Int /\ x = PORTS * k
  BY <1>1, <1>3, <1>4, DivMod
<1> HIDE DEF k
<1>6. ~(k < 1)
  BY <1>1, <1>3, <1>5, TimesMonotonic
<1>7. ~(1 < k)
  BY <1>1, <1>3, <1>5, TimesMonotonic
<1>8. k = 1
  BY <1>5, <1>6, <1>7
<1>9. x = PORTS
  BY <1>1, <1>5, <1>8
<1> QED BY <1>9 DEF x

\* The beginning and the ways out.
LEMMA OutR ==
  ASSUME RInv, traceroute_init_fails \/ traceroute_send_fails \/ Return \/ Stopped
  PROVE  RInv'
<1> USE DEF Chosen
<1>1. CASE traceroute_init_fails
  <2>1. Sent' = Sent /\ Finals' = Finals /\ WholeRows' = WholeRows
    BY <1>1, SameAnswers DEF traceroute_init_fails
  <2> QED BY <1>1, <2>1, SameRows
      DEF traceroute_init_fails, RInv, Types, Options, InOrder, FinalProbe, ToTheRow, Searching, Answered
<1>2. CASE Return
  <2>1. Sent' = Sent /\ Finals' = Finals /\ WholeRows' = WholeRows
    BY <1>2, SameAnswers DEF Return
  <2>2. /\ pc = "release" /\ pc' = "done" /\ rc' = "ok"
        /\ UNCHANGED <<program, opts, pn, final_probe, probe, live>>
    BY <1>2 DEF Return
  <2>3. Types'
    BY <2>2, SameRows DEF RInv, Types, Options
  <2>4. InOrder' /\ FinalProbe'
    BY <2>1, <2>2, SameRows DEF RInv, InOrder, FinalProbe, Searching
  <2>5. ToTheRow'
    BY <2>1, <2>2, SameRows DEF RInv, ToTheRow, Searching
  <2> QED BY <2>3, <2>4, <2>5 DEF RInv
<1>3. CASE Stopped
  <2>1. Sent' = Sent /\ Finals' = Finals /\ WholeRows' = WholeRows
    BY <1>3, SameAnswers DEF Stopped, vars
  <2>2. UNCHANGED <<program, opts, pc, pn, final_probe, probe, live, rc>>
    BY <1>3 DEF Stopped, vars
  <2>3. Types'
    BY <2>2, SameRows DEF RInv, Types, Options
  <2>4. InOrder' /\ FinalProbe' /\ ToTheRow'
    BY <2>1, <2>2, SameRows
    DEF RInv, InOrder, FinalProbe, ToTheRow, Searching, Answered
  <2> QED BY <2>3, <2>4 DEF RInv
<1>4. CASE traceroute_send_fails
  <2>1. /\ pc = "send" /\ pc' = "done" /\ probe' = [probe EXCEPT ![pn].result = "ERR_SEND"]
        /\ UNCHANGED <<program, opts, pn, final_probe, live>>
        /\ rc' = "refused" \/ (dest_port = 0 /\ rc' = "port")
    BY <1>4 DEF traceroute_send_fails
  <2>2. pn \in All /\ pn \notin Sent
    <3>1. Searching /\ ~Answered /\ pn \in Nat
      BY <2>1 DEF Searching, Answered, RInv, Types
    <3> QED BY <3>1 DEF RInv, InOrder
  <2>3. probe[pn].addr = NoAddress /\ ~probe[pn].err
    BY <2>2 DEF RInv, InOrder, Sent
  <2>4. /\ probe' \in [All -> Info]
        /\ \A p \in All : /\ probe'[p].result = (IF p = pn THEN "ERR_SEND" ELSE probe[p].result)
                           /\ probe'[p].addr = probe[p].addr /\ probe'[p].err = probe[p].err
    BY <2>1, <2>2 DEF RInv, Types, Info
  <2>5. Sent' = Sent /\ Finals' = Finals
    BY <2>1, <2>2, <2>4, SameRows DEF Sent, Finals
  <2>6. Types'
    BY <2>1, <2>4, SameRows DEF RInv, Types, Options
  <2>7. InOrder'
    BY <2>1, <2>3, <2>4, SameRows DEF RInv, InOrder, Searching, Answered
  <2>8. FinalProbe'
    BY <2>1, <2>5 DEF RInv, FinalProbe
  <2>9. ToTheRow'
    <3>1. rc' = "port" => opts.dest_port + pn = PORTS
      BY <2>1, <2>2, PortWraps DEF RInv, Types
    <3>2. ~Searching' /\ rc' # "ok"
      BY <2>1 DEF Searching
    <3> QED BY <2>1, <2>5, <3>1, <3>2, SameRows DEF RInv, ToTheRow
  <2> QED BY <2>6, <2>7, <2>8, <2>9 DEF RInv
<1> QED BY <1>1, <1>2, <1>3, <1>4

\* What an answer can be.
LEMMA AnswerFacts ==
  ASSUME NEW x, NEW a \in Answers(x)
  PROVE  /\ a.addr \in Routers \cup {Target, NoAddress} /\ a.err \in BOOLEAN
         /\ a.last \in BOOLEAN /\ (a.last <=> a.addr = Target \/ a.err)
<1>1. CASE \E r \in Routers, e \in BOOLEAN : a = [addr |-> r, err |-> e, last |-> e]
  BY <1>1, TracerouteAssumption
<1>2. CASE \E e \in BOOLEAN : a = [addr |-> Target, err |-> e, last |-> TRUE]
  BY <1>2
<1>3. CASE a = [addr |-> NoAddress, err |-> FALSE, last |-> FALSE]
  BY <1>3 DEF NoAddress, Target
<1> QED BY <1>1, <1>2, <1>3 DEF Answers

\* A final answer is an answer, and before the answer to pn those sent are before pn.
LEMMA FinalsSent ==
  ASSUME RInv
  PROVE  /\ Finals \subseteq Sent /\ Sent \subseteq All /\ All \subseteq Nat
         /\ Searching => \A p \in Sent : p <= pn /\ (p = pn => Answered)
<1>1. All \subseteq Nat /\ pn \in Nat /\ Sent \subseteq All
  BY AllProbes DEF RInv, Types, Sent
<1>2. Finals \subseteq Sent
  BY DEF RInv, InOrder, Finals, Sent, NoAddress, Target
<1>3. Searching => \A p \in Sent : p < pn \/ (p = pn /\ Answered)
  BY <1>1 DEF RInv, InOrder
<1> QED BY <1>1, <1>2, <1>3

\* The answer, or the end of the wait, for the probe pn.
LEMMA AdvanceR ==
  ASSUME RInv, pc = "receive", pc' \in {"resolve", "print"},
         UNCHANGED <<program, opts, pn, live, rc>>, probe' \in [All -> Info],
         \A p \in All \ {pn} : probe'[p] = probe[p],
         probe'[pn].result = "OK" \/ (/\ probe'[pn].result = "ERR_TIMEOUT" /\ pc' = "print"
                                     /\ probe'[pn].addr = NoAddress /\ ~probe'[pn].err),
         IF probe'[pn].addr = Target \/ probe'[pn].err THEN set_final_probe
         ELSE UNCHANGED final_probe
  PROVE  RInv'
<1> DEFINE final == probe'[pn].addr = Target \/ probe'[pn].err
<1>1. /\ Searching /\ Searching' /\ ~Answered /\ Answered' /\ pn \in All /\ pn \in Nat
      /\ All \subseteq Nat
  BY FinalsSent DEF Searching, Answered, RInv, InOrder, Types
<1>2. \A p \in Sent : p \in Nat /\ p < pn
  <2>1. \A p \in Sent : p \in Nat /\ p <= pn /\ p # pn
    BY <1>1, FinalsSent
  <2> QED BY <1>1, <2>1
<1>3. Finals \subseteq Sent /\ Sent \subseteq All
  BY FinalsSent
<1>4. Sent' = Sent \cup {pn}
  BY <1>1, SameRows DEF Sent
<1>5. Finals' = Finals \cup (IF final THEN {pn} ELSE {})
  <2>1. pn \notin Finals
    BY <1>2, <1>3
  <2>2. \A p \in All : p \in Finals' <=> (IF p = pn THEN final ELSE p \in Finals)
    BY <1>1, SameRows DEF Finals
  <2>3. Finals' \subseteq All
    BY SameRows DEF Finals
  <2> QED BY <1>1, <1>3, <2>1, <2>2, <2>3
<1>6. Types'
  BY SameRows DEF RInv, Types, Options
<1>7. InOrder'
  <2>1. \A p \in All : p \in Sent' <=> p >= First /\ (p < pn \/ p = pn)
    BY <1>1, <1>4 DEF RInv, InOrder
  <2>2. \A p \in All : probe'[p].result # "OK" => probe'[p].addr = NoAddress /\ ~probe'[p].err
    BY DEF RInv, InOrder
  <2>3. pn >= First
    BY <1>1 DEF RInv, InOrder
  <2>4. pc' = "resolve" => probe'[pn].result = "OK"
    OBVIOUS
  <2> QED BY <1>1, <2>1, <2>2, <2>3, <2>4, SameRows DEF InOrder
<1>8. FinalProbe'
  <2>1. CASE ~final
    BY <1>5, <2>1 DEF RInv, FinalProbe
  <2>2. CASE final
    <3>1. set_final_probe /\ Finals' = Finals \cup {pn}
      BY <1>5, <2>2
    <3>2. \A q \in Finals : q \in Nat /\ q < pn
      BY <1>2, <1>3
    <3>3. pn >= 0
      BY <1>1
    <3>4. CASE Finals = {} /\ final_probe = -1
      <4>1. final_probe' = pn /\ Finals' = {pn}
        BY <3>1, <3>4 DEF set_final_probe
      <4> QED BY <1>1, <4>1 DEF FinalProbe
    <3>5. CASE final_probe \in Finals /\ program = "basic"
      <4>1. final_probe' = pn
        BY <3>1, <3>5 DEF set_final_probe
      <4>2. \A q \in Finals' : q <= pn
        BY <1>1, <3>1, <3>2
      <4> QED BY <3>1, <3>5, <4>1, <4>2 DEF FinalProbe
    <3>6. CASE final_probe \in Finals /\ program = "successive"
      <4>1. final_probe \in Nat /\ final_probe < pn
        BY <3>2, <3>6
      <4>2. final_probe' = final_probe
        BY <1>1, <3>1, <3>6, <4>1 DEF set_final_probe
      <4>3. \A q \in Finals : final_probe <= q
        BY <3>6 DEF RInv, FinalProbe
      <4> QED BY <3>1, <3>6, <4>1, <4>2, <4>3 DEF FinalProbe
    <3>7. program = "basic" \/ program = "successive"
      BY DEF RInv, Types
    <3> QED BY <3>4, <3>5, <3>6, <3>7 DEF RInv, FinalProbe
  <2> QED BY <2>1, <2>2
<1>9. ToTheRow'
  <2>1. Options
    BY DEF RInv, Types
  <2>2. \A q \in Finals' : probe2ttl(q) = probe2ttl(pn)
    BY <1>1, <1>5 DEF RInv, ToTheRow
  <2>3. \A p \in Sent' : p \in Int /\ p <= pn /\ probe2ttl(p) <= probe2ttl(pn)
    <3>1. TAKE p \in Sent'
    <3>2. p \in Int /\ p <= pn /\ pn \in Int
      BY <1>1, <1>2, <1>4
    <3> QED BY <2>1, <3>2, Rows
  <2>4. rc' = ""
    BY DEF RInv, Types
  <2> QED BY <1>1, <2>2, <2>3, <2>4, SameRows DEF ToTheRow
<1> QED BY <1>6, <1>7, <1>8, <1>9 DEF RInv

LEMMA ReceiveR == ASSUME RInv, traceroute_receive \/ Timeout PROVE RInv'
<1> USE DEF Chosen
<1>1. pc = "receive" /\ UNCHANGED <<program, opts, pn, live, rc>>
  BY DEF traceroute_receive, Timeout
<1>2. pn \in All /\ probe \in [All -> Info]
  BY <1>1 DEF RInv, InOrder, Types, Searching
<1>3. CASE traceroute_receive
  <2>1. PICK a \in Answers(probe2ttl(pn)) :
          /\ probe' = [probe EXCEPT ![pn].addr = a.addr, ![pn].err = a.err,
                                    ![pn].result = "OK", ![pn].socket = FALSE]
          /\ IF a.last THEN set_final_probe ELSE UNCHANGED final_probe
    BY <1>3 DEF traceroute_receive
  <2>2. /\ a.addr \in Routers \cup {Target, NoAddress} /\ a.err \in BOOLEAN
        /\ a.last \in BOOLEAN /\ (a.last <=> a.addr = Target \/ a.err)
    BY AnswerFacts
  <2>3. /\ probe' \in [All -> Info] /\ \A p \in All \ {pn} : probe'[p] = probe[p]
        /\ probe'[pn].result = "OK" /\ probe'[pn].addr = a.addr /\ probe'[pn].err = a.err
    <3> DEFINE info == [result |-> "OK", socket |-> FALSE, addr |-> a.addr, err |-> a.err,
                        name |-> probe[pn].name]
    <3>1. probe[pn] \in Info
      BY <1>2
    <3>2. info \in Info
      BY <2>2, <3>1 DEF Info
    <3>3. probe' = [probe EXCEPT ![pn] = info]
      <4>1. probe'[pn] = [[[[probe[pn] EXCEPT !.addr = a.addr] EXCEPT !.err = a.err]
                             EXCEPT !.result = "OK"] EXCEPT !.socket = FALSE]
        BY <1>2, <2>1
      <4>2. probe'[pn] = info
        BY <3>1, <4>1 DEF Info
      <4>3. DOMAIN probe' = All /\ \A p \in All \ {pn} : probe'[p] = probe[p]
        BY <1>2, <2>1
      <4> HIDE DEF info
      <4>4. probe' = [p \in All |-> probe'[p]]
        BY <2>1, <4>3, <1>2
      <4> QED BY <1>2, <4>2, <4>3, <4>4
    <3>4. info.result = "OK" /\ info.addr = a.addr /\ info.err = a.err
      OBVIOUS
    <3> HIDE DEF info
    <3> QED BY <1>2, <3>2, <3>3, <3>4
  <2>4. IF probe'[pn].addr = Target \/ probe'[pn].err THEN set_final_probe
        ELSE UNCHANGED final_probe
    BY <2>1, <2>2, <2>3
  <2>5. pc' = "resolve"
    BY <1>3 DEF traceroute_receive
  <2> QED BY <1>1, <2>3, <2>4, <2>5, AdvanceR
<1>4. CASE Timeout
  <2>1. /\ pc' = "print" /\ UNCHANGED final_probe
        /\ probe' = [probe EXCEPT ![pn].result = "ERR_TIMEOUT", ![pn].socket = FALSE,
                                  ![pn].name = host_unknown]
    BY <1>4 DEF Timeout
  <2>2. ~Answered /\ Searching
    BY <1>1 DEF Answered, Searching
  <2>3. pn \notin Sent
    BY <2>2, FinalsSent
  <2>4. probe[pn].addr = NoAddress /\ ~probe[pn].err
    BY <1>2, <2>3 DEF RInv, InOrder, Sent
  <2>5. /\ probe' \in [All -> Info] /\ \A p \in All \ {pn} : probe'[p] = probe[p]
        /\ probe'[pn].result = "ERR_TIMEOUT" /\ probe'[pn].addr = probe[pn].addr
        /\ probe'[pn].err = probe[pn].err
    BY <1>2, <2>1 DEF Info
  <2>6. ~(probe'[pn].addr = Target \/ probe'[pn].err)
    BY <2>4, <2>5 DEF NoAddress, Target
  <2> QED BY <1>1, <2>1, <2>4, <2>5, <2>6, AdvanceR
<1> QED BY <1>3, <1>4

\* The search begins with the first probe, if there is one.
LEMMA BeginR == ASSUME RInv, traceroute_init PROVE RInv'
<1> USE DEF Chosen
<1>1. /\ pc = "init" /\ UNCHANGED <<program, opts, final_probe, probe, live, rc>>
      /\ pc' = (IF First \in All THEN "send" ELSE "release")
      /\ pn' = (IF First \in All THEN First ELSE 0)
  BY DEF traceroute_init
<1>2. Sent = {} /\ Finals = {}
  BY <1>1, FinalsSent DEF RInv, InOrder
<1>3. Sent' = {} /\ Finals' = {} /\ WholeRows' = WholeRows
  BY <1>1, <1>2, SameAnswers
<1>4. /\ All \subseteq Nat /\ First \in Nat
      /\ First \notin All => \A p \in All : p < First
  BY AllProbes DEF RInv, Types
<1>5. Types'
  BY <1>1, <1>4, SameRows DEF RInv, Types, Options
<1>6. InOrder'
  <2>1. CASE First \in All
    <3>1. pc' = "send" /\ pn' = First /\ Searching' /\ ~Answered'
      BY <1>1, <2>1 DEF Searching, Answered
    <3>2. \A p \in All : ~(p >= First /\ p < First)
      BY <1>4
    <3>3. \A p \in All : p \in Sent' <=> p >= First /\ (p < First \/ FALSE)
      BY <1>3, <3>2
    <3>4. First >= First
      BY <1>4
    <3> QED BY <1>1, <2>1, <3>1, <3>3, <3>4, SameRows DEF RInv, InOrder
  <2>2. CASE First \notin All
    BY <1>1, <2>2, SameRows DEF RInv, InOrder, Searching
  <2> QED BY <2>1, <2>2
<1>7. FinalProbe'
  BY <1>1, <1>2, <1>3 DEF RInv, FinalProbe
<1>8. ToTheRow'
  <2>2. rc' = ""
    BY <1>1 DEF RInv, Types
  <2>3. pc' \in {"release", "aborted"} => First \notin All
    BY <1>1
  <2>4. ASSUME First \notin All PROVE WholeRows = {}
    <3>1. \A p \in All : ~(p >= First)
      BY <1>4, <2>4
    <3> QED BY <3>1 DEF WholeRows
  <2>5. pc' \in {"release", "aborted"} => Sent' = WholeRows'
    BY <1>3, <2>3, <2>4, Zenon
  <2>6. rc' # "ok" /\ rc' # "port"
    BY <2>2
  <2> QED BY <1>3, <2>5, <2>6 DEF ToTheRow
<1> QED BY <1>5, <1>6, <1>7, <1>8 DEF RInv

\* The next probe; or the row of the final answers, or the last row, is complete.
LEMMA NextProbeR == ASSUME RInv, NextProbe PROVE RInv'
<1> USE DEF Chosen
<1> DEFINE over == (final_probe >= 0 /\ RowEnds) \/ pn + 1 \notin All
<1>1. /\ pc = "next" /\ UNCHANGED <<program, opts, final_probe, probe, live, rc>>
      /\ IF over THEN pc' = "release" /\ pn' = 0 ELSE pc' = "send" /\ pn' = pn + 1
  BY DEF NextProbe
<1>2. /\ Options /\ pn \in All /\ pn \in Nat /\ pn >= First /\ First \in Nat
      /\ All \subseteq Nat /\ Searching /\ Answered
  BY <1>1, AllProbes DEF RInv, Types, InOrder, Searching, Answered
<1>3. Sent' = Sent /\ Finals' = Finals /\ WholeRows' = WholeRows
  BY <1>1, SameAnswers
<1>4. \A p \in All : p \in Sent <=> p >= First /\ (p < pn \/ p = pn)
  BY <1>2 DEF RInv, InOrder
<1>5. Finals \subseteq All /\ \A q \in Finals : probe2ttl(q) = probe2ttl(pn)
  BY <1>2 DEF RInv, ToTheRow, Finals
<1>6. Finals # {} => final_probe >= 0
  <2>1. \A q \in Finals : q >= 0
    BY <1>2, <1>5
  <2> QED BY <2>1 DEF RInv, FinalProbe
<1>7. rc' = "" /\ rc = ""
  BY <1>1 DEF RInv, Types
<1>8. FinalProbe'
  BY <1>1, <1>3 DEF RInv, FinalProbe
<1>9. Types'
  <2>1. pn' \in Nat /\ pc' \in {"send", "release"}
    BY <1>1, <1>2
  <2> QED BY <1>1, <1>7, <2>1, SameRows DEF RInv, Types, Options
<1> HIDE DEF over
<1>10. CASE over
  <2>1. pc' = "release"
    BY <1>1, <1>10
  <2>2. InOrder'
    BY <1>1, <2>1, SameRows DEF RInv, InOrder, Searching
  <2>3. ASSUME NEW p \in All, p >= First
        PROVE  p \in Sent <=> \A q \in Finals : probe2ttl(p) <= probe2ttl(q)
    <3>1. p \in Int /\ pn \in Int
      BY <1>2
    <3>2. CASE p <= pn
      <4>1. probe2ttl(p) <= probe2ttl(pn)
        BY <1>2, <3>1, <3>2, Rows
      <4> QED BY <1>4, <1>5, <2>3, <3>1, <3>2, <4>1
    <3>3. CASE ~(p <= pn)
      <4>1. pn + 1 <= p /\ pn + 1 \in 0 .. p /\ pn + 1 \in Int
        BY <1>2, <3>1, <3>3
      <4>2. pn + 1 \in All
        BY <1>2, <4>1, AllProbes
      <4>3. final_probe >= 0 /\ RowEnds
        BY <1>10, <4>2 DEF over
      <4>4. PICK q \in Finals : TRUE
        BY <4>3 DEF RInv, FinalProbe
      <4>5. probe2ttl(pn + 1) = probe2ttl(pn) + 1 /\ probe2ttl(pn) \in Int
        BY <1>2, <3>1, <4>3, Rows DEF RowEnds
      <4>6. probe2ttl(pn + 1) <= probe2ttl(p) /\ probe2ttl(p) \in Int
        BY <1>2, <3>1, <4>1, Rows
      <4>7. ~(probe2ttl(p) <= probe2ttl(pn))
        BY <4>5, <4>6
      <4>8. p \notin Sent
        BY <1>4, <3>1, <3>3, <1>2
      <4> QED BY <1>5, <4>4, <4>7, <4>8
    <3> QED BY <3>2, <3>3
  <2>4. Sent = WholeRows
    <3>1. Sent \subseteq All
      BY DEF Sent
    <3> QED BY <1>4, <2>3, <3>1 DEF WholeRows
  <2>5. ToTheRow'
    BY <1>1, <1>3, <1>7, <2>1, <2>4, SameRows DEF RInv, ToTheRow, Searching
  <2> QED BY <1>8, <1>9, <2>2, <2>5 DEF RInv
<1>11. CASE ~over
  <2>1. pc' = "send" /\ pn' = pn + 1 /\ pn + 1 \in All
    BY <1>1, <1>11 DEF over
  <2>2. Searching' /\ ~Answered'
    BY <2>1 DEF Searching, Answered
  <2>3. InOrder'
    <3>1. \A p \in All : p \in Sent <=> p >= First /\ p < pn + 1
      BY <1>2, <1>4
    <3>2. pn + 1 >= First
      BY <1>2
    <3>3. pc' # "init" /\ pc' # "resolve"
      BY <2>1
    <3>4. \A p \in All : probe'[p].result # "OK" => probe'[p].addr = NoAddress /\ ~probe'[p].err
      BY <1>1 DEF RInv, InOrder
    <3> QED BY <1>1, <1>3, <2>1, <2>2, <3>1, <3>2, <3>3, <3>4, SameRows DEF InOrder
  <2>4. \A q \in Finals : probe2ttl(q) = probe2ttl(pn + 1)
    <3>1. SUFFICES ASSUME NEW q \in Finals PROVE probe2ttl(q) = probe2ttl(pn + 1)
      OBVIOUS
    <3>2. ~RowEnds /\ pn \in Int
      BY <1>2, <1>6, <1>11, <3>1 DEF over
    <3>3. probe2ttl(pn + 1) = probe2ttl(pn)
      BY <1>2, <3>2, Rows DEF RowEnds
    <3> QED BY <1>5, <3>3
  <2>5. ToTheRow'
    BY <1>1, <1>3, <1>7, <2>1, <2>2, <2>4, SameRows DEF RInv, ToTheRow
  <2> QED BY <1>8, <1>9, <2>3, <2>5 DEF RInv
<1> QED BY <1>10, <1>11

\* The final loop changes names only.
LEMMA FreeFacts ==
  ASSUME RInv, traceroute_free_mem_probe
  PROVE  /\ pc = "release" /\ program = "successive" /\ pn \in All /\ pn \in Nat
         /\ final_probe \in Finals /\ pn <= final_probe /\ pn' = pn + 1
         /\ UNCHANGED <<program, opts, final_probe, shown>>
         /\ probe' \in [All -> Info] /\ live' \subseteq live
         /\ \A p \in All : /\ probe'[p].result = probe[p].result
                            /\ probe'[p].addr = probe[p].addr
                            /\ probe'[p].err = probe[p].err
         /\ \A p \in All \ {pn} : probe'[p].name = probe[p].name
         /\ probe'[pn].name = IF probe[pn].name \in {NULL, host_unknown}
                              THEN probe[pn].name ELSE NULL
         /\ \/ pc' = "release" /\ UNCHANGED rc
            \/ pc' = "aborted" /\ rc' = "invalid free"
<1> USE DEF Chosen
<1>1. /\ pc = "release" /\ program = "successive" /\ pn <= final_probe /\ pn' = pn + 1
      /\ UNCHANGED <<program, opts, final_probe, shown>>
  BY DEF traceroute_free_mem_probe
<1>2. pn \in Nat /\ probe \in [All -> Info]
  BY DEF RInv, Types
<1>3. final_probe \in Finals /\ final_probe \in All /\ pn \in All
  <2>1. final_probe \in Finals
    BY <1>1, <1>2 DEF RInv, FinalProbe
  <2>2. final_probe \in All /\ final_probe \in Nat
    BY <2>1, FinalsSent
  <2>3. pn \in 0 .. final_probe
    BY <1>1, <1>2, <2>2
  <2> QED BY <2>1, <2>2, <2>3, AllProbes DEF RInv, Types
<1>4. probe' = IF probe[pn].name \in {NULL, host_unknown} THEN probe
               ELSE [probe EXCEPT ![pn].name = NULL]
  BY DEF traceroute_free_mem_probe
<1>5. CASE probe[pn].name \in {NULL, host_unknown}
  BY <1>1, <1>2, <1>3, <1>4, <1>5 DEF traceroute_free_mem_probe
<1>6. CASE probe[pn].name \notin {NULL, host_unknown}
  <2>1. probe' = [probe EXCEPT ![pn].name = NULL]
    BY <1>4, <1>6
  <2>2. /\ probe' \in [All -> Info]
        /\ \A p \in All : /\ probe'[p].result = probe[p].result
                           /\ probe'[p].addr = probe[p].addr /\ probe'[p].err = probe[p].err
                           /\ probe'[p].name = IF p = pn THEN NULL ELSE probe[p].name
    BY <1>2, <1>3, <2>1, FieldOfProbe
  <2>3. /\ live' \subseteq live
        /\ \/ pc' = "release" /\ UNCHANGED rc
           \/ pc' = "aborted" /\ rc' = "invalid free"
    BY <1>1 DEF traceroute_free_mem_probe
  <2> QED BY <1>1, <1>2, <1>3, <1>6, <2>2, <2>3
<1> QED BY <1>5, <1>6

LEMMA FreeR == ASSUME RInv, traceroute_free_mem_probe PROVE RInv'
<1>1. /\ pc = "release" /\ pn' = pn + 1 /\ pn \in Nat
      /\ UNCHANGED <<program, opts, final_probe>>
      /\ probe' \in [All -> Info] /\ live' \subseteq live
  BY FreeFacts
<1>2. \A p \in All : /\ probe'[p].result = probe[p].result
                     /\ probe'[p].addr = probe[p].addr
                     /\ probe'[p].err = probe[p].err
  BY FreeFacts
<1>3. \/ pc' = "release" /\ UNCHANGED rc
      \/ pc' = "aborted" /\ rc' = "invalid free"
  BY FreeFacts
<1>4. Sent' = Sent /\ Finals' = Finals /\ WholeRows' = WholeRows
  BY <1>1, <1>2, SameAnswers
<1>5. rc = ""
  BY <1>1 DEF RInv, Types
<1>6. Types'
  <2>1. pn' \in Nat
    BY <1>1
  <2>2. live' \subseteq All
    BY <1>1 DEF RInv, Types
  <2>3. pc' \in {"release", "aborted"} /\ rc' \in {"", "invalid free"}
        /\ (pc' = "release" => rc' = "") /\ (pc' = "aborted" => rc' = "invalid free")
    BY <1>3, <1>5
  <2>4. program' \in {"basic", "successive"} /\ Options'
    BY <1>1 DEF RInv, Types, Options
  <2> QED BY <1>1, <2>1, <2>2, <2>3, <2>4, SameRows DEF Types
<1>7. InOrder'
  <2>1. ~Searching' /\ pc' # "init" /\ pc' # "resolve"
    BY <1>3 DEF Searching
  <2>2. All' = All
    BY <1>1, SameRows
  <2> QED BY <1>2, <2>1, <2>2 DEF RInv, InOrder
<1>8. FinalProbe'
  BY <1>1, <1>4 DEF RInv, FinalProbe
<1>9. ToTheRow'
  <2>1. ~Searching' /\ rc' # "port"
    BY <1>3, <1>5 DEF Searching
  <2>2. Sent' = WholeRows'
    BY <1>1, <1>4 DEF RInv, ToTheRow
  <2>3. \A p \in Sent', q \in Finals' : (probe2ttl(p) <= probe2ttl(q))'
    BY <1>1, <1>4, SameRows DEF RInv, ToTheRow
  <2> QED BY <2>1, <2>2, <2>3 DEF ToTheRow
<1> QED BY <1>6, <1>7, <1>8, <1>9 DEF RInv

LEMMA NextR == RInv /\ [Next]_vars => RInv'
<1> SUFFICES ASSUME RInv, [Next]_vars PROVE RInv'
  OBVIOUS
<1>1. CASE Step
  BY <1>1, BeginR, WithoutAnswerR, OutR, ReceiveR, NextProbeR, FreeR DEF Step
<1>2. CASE UNCHANGED vars
  <2>1. UNCHANGED <<program, opts, pc, pn, final_probe, probe, live, rc>>
    BY <1>2 DEF vars
  <2>2. Sent' = Sent /\ Finals' = Finals /\ WholeRows' = WholeRows
    BY <2>1, SameAnswers
  <2>3. Types'
    BY <2>1, SameRows DEF RInv, Types, Options
  <2>4. InOrder' /\ FinalProbe' /\ ToTheRow'
    BY <2>1, <2>2, SameRows DEF RInv, InOrder, FinalProbe, ToTheRow, Searching, Answered
  <2> QED BY <2>3, <2>4 DEF RInv
<1> QED BY <1>1, <1>2, OutR DEF Next

\* The one number that is the least, or the greatest, of a set.
LEMMA LeastGreatest ==
  ASSUME NEW T \in SUBSET Nat, NEW x \in T
  PROVE  /\ (\A y \in T : x <= y) => Min(T) = x
         /\ (\A y \in T : y <= x) => Max(T) = x
<1>1. ASSUME \A y \in T : x <= y PROVE Min(T) = x
  <2>1. \A z \in T : (\A y \in T : z <= y) => z = x
    BY <1>1
  <2> QED BY <1>1, <2>1 DEF Min
<1>2. ASSUME \A y \in T : y <= x PROVE Max(T) = x
  <2>1. \A z \in T : (\A y \in T : y <= z) => z = x
    BY <1>2
  <2> QED BY <1>2, <2>1 DEF Max
<1> QED BY <1>1, <1>2

\* RowsComplete: the search stops with the row of the first final answer, with all its
\* probes sent, and goes through every TTL without one; the final probe is the earliest
\* final answer, the latest in the basic program; and send fails by itself only for a port
\* that has just wrapped.
THEOREM SearchesWholeRows == Spec => []RowsComplete
<1>1. RInv => RowsComplete
  <2> SUFFICES ASSUME RInv PROVE RowsComplete
    OBVIOUS
  <2>1. Finals \subseteq Nat
    BY FinalsSent
  <2>2. Finals = {} <=> final_probe = -1
    <3>1. \A q \in Finals : q # -1
      BY <2>1
    <3> QED BY <3>1 DEF RInv, FinalProbe
  <2>3. ASSUME Finals # {}
        PROVE  final_probe = IF program = "basic" THEN Max(Finals) ELSE Min(Finals)
    <3>1. /\ final_probe \in Finals
          /\ \A q \in Finals : IF program = "basic" THEN q <= final_probe ELSE final_probe <= q
      BY <2>3 DEF RInv, FinalProbe
    <3>2. CASE program = "basic"
      <4>1. \A q \in Finals : q <= final_probe
        BY <3>1, <3>2
      <4> QED BY <2>1, <3>1, <3>2, <4>1, LeastGreatest
    <3>3. CASE program # "basic"
      <4>1. \A q \in Finals : final_probe <= q
        BY <3>1, <3>3
      <4> QED BY <2>1, <3>1, <3>3, <4>1, LeastGreatest
    <3> QED BY <3>2, <3>3
  <2>4. rc = "ok" => Sent = {p \in All : /\ p >= First
                                          /\ \A q \in Finals : probe2ttl(p) <= probe2ttl(q)}
    BY DEF RInv, ToTheRow, WholeRows
  <2> QED BY <2>2, <2>3, <2>4 DEF RInv, ToTheRow, RowsComplete
<1> QED BY <1>1, InitR, NextR, PTL DEF Spec
-------------------------------------------------------------------------------
(* The hosts that are shown. *)

LEMMA Constants ==
  /\ NULL \notin Nat /\ host_unknown \notin Nat /\ host_unknown_bad_AF \notin Nat
  /\ NULL # host_unknown /\ NULL # host_unknown_bad_AF /\ host_unknown # host_unknown_bad_AF
BY DEF NULL, host_unknown, host_unknown_bad_AF

\* A name reads as the host of its probe.
LEMMA TextIsLabel ==
  ASSUME RInv, Named, program = "successive", Searching, NEW p \in Resolved
  PROVE  /\ Text(probe[p].name) = Label(p) /\ probe[p].name # NULL
         /\ probe[p].result = "ERR_TIMEOUT" => probe[p].name = host_unknown
         /\ probe[p].result # "ERR_TIMEOUT" /\ probe[p].addr = NoAddress =>
              probe[p].name = host_unknown_bad_AF
<1>1. All \subseteq Nat
  BY AllProbes DEF RInv, Types
<1>2. CASE probe[p].result = "ERR_TIMEOUT"
  <2>1. probe[p].name = host_unknown
    BY <1>2 DEF Named
  <2> QED BY <1>2, <2>1, Constants DEF Text, Label
<1>3. CASE probe[p].result # "ERR_TIMEOUT" /\ probe[p].addr = NoAddress
  <2>1. probe[p].name = host_unknown_bad_AF
    BY <1>3 DEF Named
  <2> QED BY <1>3, <2>1, Constants DEF Text, Label
<1>4. CASE probe[p].result # "ERR_TIMEOUT" /\ probe[p].addr # NoAddress
  <2>1. probe[p].name \in All /\ probe[probe[p].name].addr = probe[p].addr
    BY <1>4 DEF Named
  <2>2. probe[p].name # NULL /\ probe[p].name # host_unknown
        /\ probe[p].name # host_unknown_bad_AF
    BY <1>1, <2>1, Constants
  <2> QED BY <1>4, <2>1, <2>2 DEF Text, Label
<1> QED BY <1>2, <1>3, <1>4

\* The previous probe of the row was resolved.
LEMMA Before ==
  ASSUME RInv, program = "successive", Searching, pn % opts.probes # 0
  PROVE  pn - 1 \in All /\ pn - 1 # pn /\ pn - 1 \in Resolved /\ probe2ttl(pn - 1) = probe2ttl(pn)
<1>1. pn \in All /\ pn \in Nat /\ Options
  BY DEF RInv, InOrder, Types
<1>2. pn # 0
  <2>1. 0 % opts.probes = 0
    BY <1>1 DEF Options
  <2> QED BY <2>1
<1>3. pn - 1 \in 0 .. pn /\ pn - 1 < pn /\ pn - 1 >= 0
  BY <1>1, <1>2
<1>4. pn - 1 \in All
  BY <1>1, <1>3, AllProbes
<1>5. First = 0
  BY DEF First
<1>6. pn - 1 \in Sent
  BY <1>3, <1>4, <1>5 DEF RInv, InOrder
<1> QED BY <1>1, <1>3, <1>4, <1>6, RowBefore DEF Resolved

LEMMA InitN == Init => NInv
<1> SUFFICES ASSUME Init PROVE NInv
  OBVIOUS
<1>1. RInv
  BY InitR
<1>2. \A p \in All : probe[p].name = NULL
  BY DEF Init, Unsent
<1> QED BY <1>1, <1>2 DEF Init, NInv, Named, ShownBefore, NamesShown, Searching

\* A step that changes no name: it begins or ends the search, or sends or answers the
\* probe it works on.
LEMMA SameNamesN ==
  ASSUME NInv, RInv',
         UNCHANGED <<program, opts>>,
         \A p \in All : probe'[p].name = probe[p].name,
         Resolved' = Resolved,
         \A p \in Resolved : /\ probe'[p].result = probe[p].result
                             /\ probe'[p].addr = probe[p].addr,
         Searching' => /\ Searching \/ Resolved = {}
                       /\ \A p \in All : probe[p].addr # NoAddress =>
                            probe'[p].addr = probe[p].addr,
         pc' # "print"
  PROVE  Named'
<1>1. All' = All
  BY SameRows
<1>2. \A p \in All \ Resolved : probe'[p].name = NULL
  BY DEF NInv, Named
<1>3. program = "basic" => \A p \in All : probe'[p].name \in {NULL, host_unknown}
  BY DEF NInv, Named
<1>4. ASSUME program = "successive", Searching', NEW p \in Resolved
      PROVE  IF probe'[p].result = "ERR_TIMEOUT" THEN probe'[p].name = host_unknown
             ELSE IF probe'[p].addr = NoAddress THEN probe'[p].name = host_unknown_bad_AF
             ELSE probe'[p].name \in All /\ probe'[probe'[p].name].addr = probe'[p].addr
  <2>1. Searching /\ p \in All
    BY <1>4 DEF Resolved, Sent
  <2>2. IF probe[p].result = "ERR_TIMEOUT" THEN probe[p].name = host_unknown
        ELSE IF probe[p].addr = NoAddress THEN probe[p].name = host_unknown_bad_AF
        ELSE probe[p].name \in All /\ probe[probe[p].name].addr = probe[p].addr
    BY <1>4, <2>1 DEF NInv, Named
  <2>3. /\ probe'[p].result = probe[p].result /\ probe'[p].addr = probe[p].addr
        /\ probe'[p].name = probe[p].name
    BY <2>1
  <2>4. ASSUME probe[p].name \in All, probe[p].addr # NoAddress,
               probe[probe[p].name].addr = probe[p].addr
        PROVE  probe'[probe'[p].name].addr = probe'[p].addr
    BY <1>4, <2>3, <2>4
  <2> QED BY <2>2, <2>3, <2>4
<1> QED BY <1>1, <1>2, <1>3, <1>4 DEF Named

\* The steps that start or stop the search, or send or answer a probe.
LEMMA SearchN ==
  ASSUME NInv, RInv', \/ traceroute_init \/ traceroute_init_fails
                      \/ traceroute_send \/ traceroute_send_fails \/ traceroute_receive
  PROVE  NInv'
<1> USE DEF Chosen
<1>0. RInv /\ Named /\ ShownBefore /\ All \subseteq Nat
  BY FinalsSent DEF NInv
<1>1. CASE traceroute_init
  <2>1. /\ pc = "init" /\ pc' \in {"send", "release"} /\ UNCHANGED <<program, opts, probe, shown>>
        /\ pn' = IF First \in All THEN First ELSE 0
    BY <1>1 DEF traceroute_init
  <2>2. Sent = {} /\ Sent' = Sent
    BY <1>0, <2>1, SameAnswers DEF RInv, InOrder
  <2>3. Named'
    BY <2>1, <2>2, SameNamesN DEF Resolved
  <2>4. program = "successive" => (pn' % opts.probes) = 0
    <3>1. opts.probes \in Nat \ {0}
      BY <1>0 DEF RInv, Types, Options
    <3>2. 0 % opts.probes = 0
      BY <3>1
    <3> QED BY <2>1, <3>2 DEF First
  <2> QED BY <2>1, <2>3, <2>4 DEF NInv, ShownBefore, NamesShown
<1>2. CASE traceroute_init_fails
  <2>1. pc = "init" /\ pc' = "done" /\ UNCHANGED <<program, opts, probe>>
    BY <1>2 DEF traceroute_init_fails
  <2>2. Sent' = Sent
    BY <2>1, SameAnswers
  <2>3. Resolved' = Resolved /\ ~Searching'
    BY <2>1, <2>2 DEF Resolved, Searching
  <2>4. Named'
    BY <2>1, <2>3, SameNamesN
  <2> QED BY <2>1, <2>4 DEF NInv, ShownBefore, NamesShown
<1>3. CASE traceroute_send
  <2>1. /\ pc = "send" /\ pc' = "receive" /\ UNCHANGED <<program, opts, pn, shown>>
        /\ probe' = [probe EXCEPT ![pn].socket = TRUE] /\ Searching
    BY <1>3 DEF traceroute_send, Searching
  <2>2. pn \in All /\ probe \in [All -> Info]
    BY <1>0, <2>1 DEF RInv, InOrder, Types
  <2>3. \A p \in All : /\ probe'[p].result = probe[p].result
                       /\ probe'[p].addr = probe[p].addr
                       /\ probe'[p].err = probe[p].err
                       /\ probe'[p].name = probe[p].name
    BY <2>1, <2>2, FieldOfProbe
  <2>4. Sent' = Sent
    BY <2>1, <2>3, SameAnswers
  <2>5. Resolved' = Resolved /\ Resolved \subseteq All
    BY <2>1, <2>4 DEF Resolved, Sent
  <2>6. Named'
    BY <2>1, <2>3, <2>5, SameNamesN
  <2>7. ShownBefore'
    <3>1. SUFFICES ASSUME program = "successive", (pn % opts.probes) # 0
                   PROVE  shown = Label(pn - 1)'
      BY <2>1 DEF ShownBefore
    <3>2. shown = Label(pn - 1)
      BY <1>0, <2>1, <3>1 DEF ShownBefore
    <3>3. pn - 1 \in All
      BY <1>0, <2>1, <3>1, Before
    <3> QED BY <2>1, <2>3, <3>2, <3>3 DEF Label
  <2> QED BY <2>1, <2>6, <2>7 DEF NInv, NamesShown
<1>4. CASE traceroute_send_fails
  <2>1. /\ pc = "send" /\ pc' = "done" /\ UNCHANGED <<program, opts, pn>>
        /\ probe' = [probe EXCEPT ![pn].result = "ERR_SEND"] /\ Searching
    BY <1>4 DEF traceroute_send_fails, Searching
  <2>2. pn \in All /\ probe \in [All -> Info] /\ pn \notin Sent
    <3>1. ~Answered
      BY <2>1 DEF Answered
    <3> QED BY <1>0, <2>1, <3>1, FinalsSent DEF RInv, InOrder, Types
  <2>3. \A p \in All : /\ probe'[p].result = (IF p = pn THEN "ERR_SEND" ELSE probe[p].result)
                       /\ probe'[p].addr = probe[p].addr
                       /\ probe'[p].name = probe[p].name
    BY <2>1, <2>2 DEF Info
  <2>4. Sent' = Sent
    BY <2>1, <2>2, <2>3, SameRows DEF Sent
  <2>5. Resolved' = Resolved /\ Resolved \subseteq All /\ pn \notin Resolved /\ ~Searching'
    BY <2>1, <2>2, <2>4 DEF Resolved, Sent, Searching
  <2>6. Named'
    BY <2>1, <2>3, <2>5, SameNamesN
  <2> QED BY <2>1, <2>6 DEF NInv, ShownBefore, NamesShown
<1>5. CASE traceroute_receive
  <2>1. PICK a \in Answers(probe2ttl(pn)) :
          probe' = [probe EXCEPT ![pn].addr = a.addr, ![pn].err = a.err,
                                 ![pn].result = "OK", ![pn].socket = FALSE]
    BY <1>5 DEF traceroute_receive
  <2>2. /\ pc = "receive" /\ pc' = "resolve" /\ UNCHANGED <<program, opts, pn, shown>>
        /\ Searching
    BY <1>5 DEF traceroute_receive, Searching
  <2>3. pn \in All /\ probe \in [All -> Info] /\ pn \notin Sent
    <3>1. ~Answered
      BY <2>2 DEF Answered
    <3> QED BY <1>0, <2>2, <3>1, FinalsSent DEF RInv, InOrder, Types
  <2>4. \A p \in All \ {pn} : probe'[p] = probe[p]
    BY <2>1, <2>3
  <2>5. probe'[pn].result = "OK" /\ probe'[pn].name = probe[pn].name
    BY <2>1, <2>3 DEF Info
  <2>6. probe[pn].addr = NoAddress
    BY <1>0, <2>3 DEF RInv, InOrder, Sent
  <2>7. Sent' = Sent \cup {pn}
    BY <2>2, <2>3, <2>4, <2>5, SameRows DEF Sent
  <2>8. Resolved' = Resolved /\ Resolved \subseteq All /\ pn \notin Resolved
    BY <2>2, <2>3, <2>7 DEF Resolved, Sent
  <2>9. Named'
    BY <2>2, <2>4, <2>5, <2>6, <2>8, SameNamesN
  <2>10. ShownBefore'
    <3>1. SUFFICES ASSUME program = "successive", (pn % opts.probes) # 0
                   PROVE  shown = Label(pn - 1)'
      BY <2>2 DEF ShownBefore
    <3>2. shown = Label(pn - 1)
      BY <1>0, <2>2, <3>1 DEF ShownBefore
    <3>3. pn - 1 \in All \ {pn}
      BY <1>0, <2>2, <3>1, Before
    <3> QED BY <2>2, <2>4, <3>2, <3>3 DEF Label
  <2> QED BY <2>2, <2>9, <2>10 DEF NInv, NamesShown
<1> QED BY <1>1, <1>2, <1>3, <1>4, <1>5

LEMMA TimeoutN == ASSUME NInv, RInv', Timeout PROVE NInv'
<1> USE DEF Chosen
<1>1. /\ pc = "receive" /\ pc' = "print" /\ UNCHANGED <<program, opts, pn, shown>>
      /\ probe' = [probe EXCEPT ![pn].result = "ERR_TIMEOUT", ![pn].socket = FALSE,
                                ![pn].name = host_unknown]
      /\ Searching /\ ~Answered
  BY DEF Timeout, Searching, Answered
<1>2. RInv /\ Named /\ ShownBefore
  BY DEF NInv
<1>3. /\ pn \in All /\ probe \in [All -> Info] /\ pn \notin Sent /\ All' = All
      /\ All \subseteq Nat
  BY <1>1, <1>2, FinalsSent, SameRows DEF RInv, InOrder, Types
<1>4. /\ \A p \in All \ {pn} : probe'[p] = probe[p]
      /\ probe'[pn].result = "ERR_TIMEOUT" /\ probe'[pn].name = host_unknown
      /\ probe'[pn].addr = probe[pn].addr
  BY <1>1, <1>3 DEF Info
<1>5. Resolved' = Resolved \cup {pn} /\ Resolved \subseteq All /\ pn \notin Resolved
  <2>1. Sent' = Sent \cup {pn}
    BY <1>1, <1>3, <1>4 DEF Sent
  <2> QED BY <1>1, <1>3, <2>1 DEF Resolved, Sent
<1>6. Named'
  <2>1. \A p \in All \ Resolved' : probe'[p].name = NULL
    BY <1>2, <1>4, <1>5 DEF Named
  <2>2. ASSUME program = "successive", NEW p \in Resolved
        PROVE  IF probe'[p].result = "ERR_TIMEOUT" THEN probe'[p].name = host_unknown
               ELSE IF probe'[p].addr = NoAddress THEN probe'[p].name = host_unknown_bad_AF
               ELSE probe'[p].name \in All /\ probe'[probe'[p].name].addr = probe'[p].addr
    <3>1. IF probe[p].result = "ERR_TIMEOUT" THEN probe[p].name = host_unknown
          ELSE IF probe[p].addr = NoAddress THEN probe[p].name = host_unknown_bad_AF
          ELSE probe[p].name \in All /\ probe[probe[p].name].addr = probe[p].addr
      BY <1>1, <1>2, <2>2 DEF Named
    <3>2. probe'[p] = probe[p]
      BY <1>4, <1>5
    <3>3. \A q \in All : probe'[q].addr = probe[q].addr
      BY <1>4
    <3> QED BY <3>1, <3>2, <3>3
  <2>3. program = "basic" => \A p \in All : probe'[p].name \in {NULL, host_unknown}
    BY <1>2, <1>4 DEF Named
  <2> QED BY <1>1, <1>3, <1>4, <1>5, <2>1, <2>2, <2>3 DEF Named
<1>7. ShownBefore'
  <2>1. SUFFICES ASSUME program = "successive", (pn % opts.probes) # 0
                 PROVE  shown = Label(pn - 1)'
    BY <1>1 DEF ShownBefore
  <2>2. shown = Label(pn - 1)
    BY <1>1, <1>2, <2>1 DEF ShownBefore
  <2>3. pn - 1 \in All \ {pn}
    BY <1>1, <1>2, <2>1, Before
  <2> QED BY <1>1, <1>4, <2>2, <2>3 DEF Label
<1> QED BY <1>1, <1>6, <1>7 DEF NInv, NamesShown

\* The name that Resolve gives: the shared one is that of the previous probe.
LEMMA ResolveFacts ==
  ASSUME NInv, Resolve
  PROVE  /\ pc = "resolve" /\ pc' = "print" /\ program = "successive" /\ Searching
         /\ pn \in All /\ probe[pn].result = "OK" /\ probe[pn].name = NULL
         /\ \A p \in All : /\ probe'[p].result = probe[p].result
                           /\ probe'[p].addr = probe[p].addr
         /\ \A p \in All \ {pn} : probe'[p].name = probe[p].name
         /\ IF probe[pn].addr = NoAddress
            THEN probe'[pn].name = host_unknown_bad_AF /\ live' = live
            ELSE /\ probe'[pn].name \in All /\ live' = live \cup {probe'[pn].name}
                 /\ \/ probe'[pn].name = pn
                    \/ /\ pn - 1 \in All /\ pn - 1 # pn
                       /\ probe2ttl(pn - 1) = probe2ttl(pn)
                       /\ probe'[pn].name = probe[pn - 1].name
                       /\ probe[probe[pn - 1].name].addr = probe[pn].addr
<1> DEFINE name == IF Shares THEN probe[pn - 1].name ELSE addr2str
<1>1. /\ pc = "resolve" /\ pc' = "print" /\ program = "successive" /\ Searching
      /\ probe' = [probe EXCEPT ![pn].name = name]
      /\ live' = live \cup ({name} \cap All)
  BY DEF Resolve, Searching
<1>2. RInv /\ Named
  BY DEF NInv
<1>3. pn \in All /\ name \in All \cup {NULL, host_unknown, host_unknown_bad_AF}
  BY <1>1, <1>2, NameType
<1>4. probe \in [All -> Info] /\ All \subseteq Nat
  BY <1>2, FinalsSent DEF RInv, Types
<1>5. probe[pn].result = "OK"
  BY <1>1, <1>2 DEF RInv, InOrder
<1>6. probe[pn].name = NULL
  BY <1>1, <1>2, <1>3 DEF Named, Resolved
<1>7. probe[pn].addr = NoAddress => name = host_unknown_bad_AF
  BY DEF Shares, same_ipaddr, addr2str
<1>8. ASSUME probe[pn].addr # NoAddress
      PROVE  \/ name = pn
             \/ /\ pn - 1 \in All /\ pn - 1 # pn /\ probe2ttl(pn - 1) = probe2ttl(pn)
                /\ name \in All /\ name = probe[pn - 1].name
                /\ probe[name].addr = probe[pn].addr
  <2>1. CASE ~Shares
    BY <1>8, <2>1 DEF addr2str
  <2>2. CASE Shares
    <3>1. /\ (pn % opts.probes) # 0 /\ probe[pn - 1].addr = probe[pn].addr
          /\ name = probe[pn - 1].name
      BY <2>2 DEF Shares, same_ipaddr
    <3>2. /\ pn - 1 \in All /\ pn - 1 # pn /\ pn - 1 \in Resolved
          /\ probe2ttl(pn - 1) = probe2ttl(pn)
      BY <1>1, <1>2, <3>1, Before
    <3>3. probe[pn - 1].result # "ERR_TIMEOUT"
      BY <1>2, <1>8, <3>1, <3>2 DEF RInv, InOrder
    <3>4. /\ probe[pn - 1].name \in All
          /\ probe[probe[pn - 1].name].addr = probe[pn - 1].addr
      BY <1>1, <1>2, <1>8, <3>1, <3>2, <3>3 DEF Named
    <3> QED BY <3>1, <3>2, <3>4
  <2> QED BY <2>1, <2>2
<1> HIDE DEF name
<1>9. \A p \in All : /\ probe'[p].result = probe[p].result
                     /\ probe'[p].addr = probe[p].addr
                     /\ probe'[p].name = IF p = pn THEN name ELSE probe[p].name
  BY <1>1, <1>3, <1>4, FieldOfProbe
<1>10. name \in Nat => name # host_unknown_bad_AF
  BY Constants
<1>11. probe'[pn].name = name
  BY <1>3, <1>9
<1>12. name \notin All => live' = live
  BY <1>1
<1>13. name \in All => live' = live \cup {name}
  BY <1>1
<1>14. name = host_unknown_bad_AF => live' = live
  BY <1>4, <1>10, <1>12
<1>15. CASE probe[pn].addr = NoAddress
  BY <1>1, <1>3, <1>5, <1>6, <1>7, <1>9, <1>11, <1>14, <1>15
<1>16. CASE probe[pn].addr # NoAddress
  <2>1. name \in All
    BY <1>3, <1>8, <1>16
  <2> QED BY <1>1, <1>3, <1>5, <1>6, <1>8, <1>9, <1>11, <1>13, <1>16, <2>1
<1> QED BY <1>15, <1>16

LEMMA ResolveN == ASSUME NInv, RInv', Resolve PROVE NInv'
<1>1. /\ pc = "resolve" /\ pc' = "print" /\ program = "successive" /\ Searching
      /\ pn \in All /\ probe[pn].result = "OK"
  BY ResolveFacts
<1>2. UNCHANGED <<program, opts, pn, shown>>
  BY DEF Resolve, Chosen
<1>3. \A p \in All : /\ probe'[p].result = probe[p].result
                     /\ probe'[p].addr = probe[p].addr
  BY ResolveFacts
<1>4. \A p \in All \ {pn} : probe'[p].name = probe[p].name
  BY ResolveFacts
<1>5. IF probe[pn].addr = NoAddress THEN probe'[pn].name = host_unknown_bad_AF
      ELSE probe'[pn].name \in All /\ probe[probe'[pn].name].addr = probe[pn].addr
  BY ResolveFacts
<1>6. RInv /\ Named /\ ShownBefore /\ All' = All
  BY <1>2, SameRows DEF NInv
<1>7. Resolved' = Resolved \cup {pn} /\ Resolved \subseteq All /\ pn \notin Resolved
  <2>1. Sent' = Sent /\ pn \in Sent
    BY <1>1, <1>3, <1>6 DEF Sent
  <2> QED BY <1>1, <1>2, <2>1 DEF Resolved, Sent
<1>8. Named'
  <2>1. \A p \in All \ Resolved' : probe'[p].name = NULL
    BY <1>4, <1>6, <1>7 DEF Named
  <2>2. ASSUME NEW p \in Resolved'
        PROVE  IF probe'[p].result = "ERR_TIMEOUT" THEN probe'[p].name = host_unknown
               ELSE IF probe'[p].addr = NoAddress THEN probe'[p].name = host_unknown_bad_AF
               ELSE probe'[p].name \in All /\ probe'[probe'[p].name].addr = probe'[p].addr
    <3>1. CASE p = pn
      BY <1>1, <1>3, <1>5, <3>1
    <3>2. CASE p # pn
      <4>1. p \in Resolved /\ p \in All \ {pn}
        BY <1>7, <2>2, <3>2
      <4>2. IF probe[p].result = "ERR_TIMEOUT" THEN probe[p].name = host_unknown
            ELSE IF probe[p].addr = NoAddress THEN probe[p].name = host_unknown_bad_AF
            ELSE probe[p].name \in All /\ probe[probe[p].name].addr = probe[p].addr
        BY <1>1, <1>6, <4>1 DEF Named
      <4> QED BY <1>3, <1>4, <4>1, <4>2
    <3> QED BY <3>1, <3>2
  <2> QED BY <1>1, <1>2, <1>6, <2>1, <2>2 DEF Named
<1>9. ShownBefore'
  <2>1. SUFFICES ASSUME (pn % opts.probes) # 0 PROVE shown = Label(pn - 1)'
    BY <1>1, <1>2 DEF ShownBefore
  <2>2. shown = Label(pn - 1)
    BY <1>1, <1>6, <2>1 DEF ShownBefore
  <2>3. pn - 1 \in All
    BY <1>1, <1>6, <2>1, Before
  <2> QED BY <1>2, <1>3, <2>2, <2>3 DEF Label
<1> QED BY <1>1, <1>8, <1>9 DEF NInv, NamesShown

\* A host or a star is printed, and the next probe begins.
LEMMA ShowN ==
  ASSUME NInv, RInv', traceroute_get_host \/ print_one_probe \/ NextProbe
  PROVE  NInv'
<1> USE DEF Chosen
<1>1. /\ UNCHANGED <<program, opts, probe>> /\ Searching /\ RInv /\ Named
      /\ program \in {"basic", "successive"} /\ pn \in All
  BY DEF traceroute_get_host, print_one_probe, NextProbe, NInv, RInv, Types, InOrder, Searching
<1>2. Sent' = Sent /\ All' = All
  BY <1>1, SameAnswers, SameRows
<1>3. CASE traceroute_get_host
  <2>1. /\ program = "basic" /\ pc = "resolve" /\ pc' = "next" /\ UNCHANGED pn
    BY <1>3 DEF traceroute_get_host
  <2>2. Named'
    <3>1. Resolved \subseteq Resolved'
      BY <1>2, <2>1 DEF Resolved
    <3> QED BY <1>1, <1>2, <2>1, <3>1 DEF Named
  <2>3. probe[pn].result = "OK"
    BY <1>1, <2>1 DEF RInv, InOrder
  <2>4. ASSUME probe[pn].addr # NoAddress,
               \A q \in Row(pn) : q < pn => probe[q].result # "OK"
        PROVE  shown' = probe[pn].addr
    BY <1>3, <2>4 DEF traceroute_get_host
  <2>5. \A p : Row(p)' = Row(p)
    BY <1>1, SameRows
  <2>6. NamesShown'
    BY <1>1, <2>1, <2>3, <2>4, <2>5 DEF NamesShown
  <2> QED BY <1>1, <2>1, <2>2, <2>6 DEF NInv, ShownBefore
<1>4. CASE print_one_probe
  <2>1. pc = "print" /\ pc' = "next" /\ UNCHANGED pn
    BY <1>4 DEF print_one_probe
  <2>2. Resolved' = Resolved /\ pn \in Resolved
    BY <1>1, <1>2, <2>1 DEF Resolved, RInv, InOrder, Answered
  <2>3. Named'
    BY <1>1, <1>2, <2>1, <2>2 DEF Named, Searching
  <2>4. CASE program = "basic"
    <3>1. probe[pn].result = "ERR_TIMEOUT"
      BY <1>1, <2>1, <2>4 DEF Named
    <3>2. shown' = Star
      BY <1>4, <2>4 DEF print_one_probe
    <3> QED BY <1>1, <2>1, <2>3, <2>4, <3>1, <3>2 DEF NInv, ShownBefore, NamesShown
  <2>5. CASE program = "successive"
    <3>1. shown' = Label(pn)
      <4> DEFINE name == probe[pn].name
      <4>1. Text(name) = Label(pn) /\ name # NULL
        BY <1>1, <2>2, <2>5, TextIsLabel
      <4>2. shown' = IF \/ (pn % opts.probes) = 0
                        \/ name \in {host_unknown, host_unknown_bad_AF}
                        \/ Text(probe[pn - 1].name) # Text(name)
                     THEN Text(name) ELSE shown
        BY <1>4, <2>5, <4>1 DEF print_one_probe
      <4> HIDE DEF name
      <4>3. ASSUME (pn % opts.probes) # 0, Text(probe[pn - 1].name) = Text(name)
            PROVE  shown = Text(name)
        <5>1. shown = Label(pn - 1)
          BY <2>1, <2>5, <4>3 DEF NInv, ShownBefore
        <5>2. pn - 1 \in Resolved
          BY <1>1, <2>5, <4>3, Before
        <5>3. Text(probe[pn - 1].name) = Label(pn - 1)
          BY <1>1, <2>5, <5>2, TextIsLabel
        <5> QED BY <4>3, <5>1, <5>3
      <4> QED BY <4>1, <4>2, <4>3
    <3>2. NamesShown'
      BY <1>1, <2>1, <2>5, <3>1 DEF NamesShown, Label
    <3> QED BY <1>1, <2>1, <2>3, <3>2 DEF NInv, ShownBefore
  <2> QED BY <1>1, <2>4, <2>5
<1>5. CASE NextProbe
  <2>1. /\ pc = "next" /\ UNCHANGED shown
        /\ \/ pc' = "release"
           \/ pc' = "send" /\ pn' = pn + 1
    BY <1>5 DEF NextProbe
  <2>2. Resolved' = Resolved
    BY <1>2, <2>1 DEF Resolved
  <2>3. Named'
    BY <1>1, <2>1, <2>2, SameNamesN
  <2>4. CASE pc' = "release"
    BY <2>3, <2>4 DEF NInv, ShownBefore, NamesShown
  <2>5. CASE pc' = "send" /\ pn' = pn + 1
    <3>1. ASSUME program = "successive" PROVE shown = Label(pn)
      BY <2>1, <3>1 DEF NInv, NamesShown, Label
    <3>2. pn' - 1 = pn
      BY <1>1, <2>5, FinalsSent
    <3>3. program = "successive" => shown' = Label(pn - 1)'
      BY <1>1, <2>1, <3>1, <3>2 DEF Label
    <3> QED BY <1>1, <2>3, <2>5, <3>3 DEF NInv, ShownBefore, NamesShown
  <2> QED BY <2>1, <2>4, <2>5
<1> QED BY <1>3, <1>4, <1>5

\* The end.
LEMMA EndN ==
  ASSUME NInv, RInv', traceroute_free_mem_probe \/ Return \/ UNCHANGED vars
  PROVE  NInv'
<1> USE DEF Chosen
<1>1. RInv /\ Named
  BY DEF NInv
<1>2. CASE traceroute_free_mem_probe
  <2>1. /\ pc = "release" /\ program = "successive" /\ pn \in All
        /\ UNCHANGED <<program, opts>>
    BY <1>1, <1>2, FreeFacts
  <2>2. \A p \in All : /\ probe'[p].result = probe[p].result
                       /\ probe'[p].addr = probe[p].addr
                       /\ probe'[p].err = probe[p].err
    BY <1>1, <1>2, FreeFacts
  <2>3. \A p \in All \ {pn} : probe'[p].name = probe[p].name
    BY <1>1, <1>2, FreeFacts
  <2>4. probe'[pn].name = probe[pn].name \/ probe'[pn].name = NULL
    BY <1>1, <1>2, FreeFacts
  <2>5. pc' \in {"release", "aborted"}
    BY <1>1, <1>2, FreeFacts
  <2>6. Sent' = Sent /\ All' = All
    BY <2>1, <2>2, SameAnswers, SameRows
  <2>7. Resolved' = Resolved /\ ~Searching'
    BY <2>1, <2>5, <2>6 DEF Resolved, Searching
  <2>8. Named'
    BY <1>1, <2>1, <2>3, <2>4, <2>6, <2>7 DEF Named
  <2> QED BY <2>5, <2>8 DEF NInv, ShownBefore, NamesShown
<1>3. CASE Return
  <2>1. pc = "release" /\ pc' = "done" /\ UNCHANGED <<program, opts, probe>>
    BY <1>3 DEF Return
  <2>2. Sent' = Sent
    BY <2>1, SameAnswers
  <2>3. Resolved' = Resolved /\ ~Searching'
    BY <2>1, <2>2 DEF Resolved, Searching
  <2>4. Named'
    BY <2>1, <2>3, SameNamesN
  <2> QED BY <2>1, <2>4 DEF NInv, ShownBefore, NamesShown
<1>4. CASE UNCHANGED vars
  <2>1. UNCHANGED <<program, opts, probe, pc, pn, shown>>
    BY <1>4 DEF vars
  <2>2. Sent' = Sent /\ All' = All /\ \A p : Row(p)' = Row(p)
    BY <2>1, SameAnswers, SameRows
  <2>3. Resolved' = Resolved
    BY <2>1, <2>2 DEF Resolved
  <2>4. Named'
    BY <1>1, <2>1, <2>2, <2>3 DEF Named, Searching
  <2>5. ShownBefore'
    BY <2>1 DEF NInv, ShownBefore, Label
  <2>6. NamesShown'
    BY <2>1, <2>2 DEF NInv, NamesShown
  <2> QED BY <2>4, <2>5, <2>6 DEF NInv
<1> QED BY <1>2, <1>3, <1>4

LEMMA NextN == NInv /\ [Next]_vars => NInv'
<1> SUFFICES ASSUME NInv, [Next]_vars PROVE NInv'
  OBVIOUS
<1>1. RInv'
  BY NextR DEF NInv
<1> QED BY <1>1, SearchN, TimeoutN, ResolveN, ShowN, EndN DEF Next, Step, Stopped

\* NamesShown: a time is printed under the host it was measured to.
THEOREM ShowsTheHost == Spec => []NamesShown
<1>1. NInv => NamesShown
  BY DEF NInv
<1> QED BY <1>1, InitN, NextN, PTL DEF Spec
-------------------------------------------------------------------------------
(* The strings. *)

LEMMA InitI == Init => IInv
<1> SUFFICES ASSUME Init PROVE IInv
  OBVIOUS
<1>1. NInv
  BY InitN
<1>2. All \subseteq Nat
  BY <1>1, FinalsSent DEF NInv
<1>3. \A p \in All : probe[p].name = NULL
  BY DEF Init, Unsent
<1>4. Strings
  BY <1>3, Constants DEF Init, Strings
<1>5. FreedOnce
  BY <1>2, <1>3, Constants DEF Init, FreedOnce
<1> QED BY <1>1, <1>4, <1>5 DEF IInv

\* A step that leaves the strings where they are, before the final loop.
LEMMA SameStrings ==
  ASSUME IInv, NInv', UNCHANGED <<program, opts, live>>,
         \A p \in All : probe'[p].name = probe[p].name,
         \A p \in All : probe[p].name = host_unknown_bad_AF =>
           probe'[p].result = probe[p].result /\ probe'[p].addr = probe[p].addr,
         pc' # "aborted",
         pc' = "done" => rc' # "ok",
         pc' = "release" => pn' = 0
  PROVE  IInv'
<1>1. All' = All /\ \A p : Row(p)' = Row(p)
  BY SameRows
<1>2. \A p \in All : ~(p < 0)
  BY FinalsSent DEF IInv, NInv
<1>3. Strings'
  BY <1>1, <1>2 DEF IInv, Strings
<1>4. \A p \in All : probe'[p].name \in All =>
        probe'[p].name \in live' /\ p \in Row(probe'[p].name)
  BY DEF IInv, FreedOnce
<1>5. \A s \in live' : \E p \in Row(s) : probe'[p].name = s
  <2>1. \A s \in live : \E p \in Row(s) : probe[p].name = s /\ p \in All
    BY DEF IInv, FreedOnce, Row
  <2> QED BY <2>1
<1>6. FreedOnce'
  BY <1>1, <1>4, <1>5 DEF FreedOnce
<1> QED BY <1>3, <1>6 DEF IInv

LEMMA SearchI ==
  ASSUME IInv, NInv', \/ traceroute_init \/ traceroute_init_fails \/ traceroute_send
                      \/ traceroute_send_fails \/ traceroute_receive \/ traceroute_get_host
                      \/ print_one_probe \/ NextProbe
  PROVE  IInv'
<1> USE DEF Chosen
<1>0. RInv /\ Named /\ Strings
  BY DEF IInv, NInv
<1>1. CASE traceroute_init \/ traceroute_init_fails \/ traceroute_get_host
           \/ print_one_probe \/ NextProbe
  <2>1. UNCHANGED <<program, opts, live, probe>>
    BY <1>1 DEF traceroute_init, traceroute_init_fails, traceroute_get_host,
                print_one_probe, NextProbe
  <2>2. /\ pc' # "aborted" /\ (pc' = "done" => rc' # "ok") /\ (pc' = "release" => pn' = 0)
    BY <1>1 DEF traceroute_init, traceroute_init_fails, traceroute_get_host,
                print_one_probe, NextProbe
  <2> QED BY <2>1, <2>2, SameStrings
<1>2. CASE traceroute_send \/ traceroute_send_fails \/ traceroute_receive
  <2>1. /\ pc \in {"send", "receive"} /\ Searching /\ ~Answered
        /\ UNCHANGED <<program, opts, live>>
        /\ pc' \in {"receive", "resolve", "done"} /\ (pc' = "done" => rc' # "ok")
    BY <1>2 DEF traceroute_send, traceroute_send_fails, traceroute_receive, Searching, Answered
  <2>2. pn \in All /\ probe \in [All -> Info] /\ pn \notin Sent
    BY <1>0, <2>1, FinalsSent DEF RInv, InOrder, Types
  <2>3. probe[pn].name = NULL
    BY <1>0, <2>2 DEF Named, Resolved
  <2>4. (\A p \in All \ {pn} : probe'[p] = probe[p]) /\ probe'[pn].name = probe[pn].name
    <3>1. CASE traceroute_send
      BY <2>2, <3>1 DEF traceroute_send, Info
    <3>2. CASE traceroute_send_fails
      BY <2>2, <3>2 DEF traceroute_send_fails, Info
    <3>3. CASE traceroute_receive
      <4>1. PICK a \in Answers(probe2ttl(pn)) :
              probe' = [probe EXCEPT ![pn].addr = a.addr, ![pn].err = a.err,
                                     ![pn].result = "OK", ![pn].socket = FALSE]
        BY <3>3 DEF traceroute_receive
      <4> QED BY <2>2, <4>1 DEF Info
    <3> QED BY <1>2, <3>1, <3>2, <3>3
  <2>5. \A p \in All : probe'[p].name = probe[p].name
    BY <2>4
  <2>6. \A p \in All : probe[p].name = host_unknown_bad_AF =>
          probe'[p].result = probe[p].result /\ probe'[p].addr = probe[p].addr
    BY <2>3, <2>4, Constants
  <2> QED BY <2>1, <2>5, <2>6, SameStrings
<1> QED BY <1>1, <1>2

\* The probe gets the star, which is no string.
LEMMA TimeoutI == ASSUME IInv, NInv', Timeout PROVE IInv'
<1> USE DEF Chosen
<1>1. /\ pc = "receive" /\ pc' = "print" /\ UNCHANGED <<program, opts, pn, live>>
      /\ probe' = [probe EXCEPT ![pn].result = "ERR_TIMEOUT", ![pn].socket = FALSE,
                                ![pn].name = host_unknown]
      /\ Searching /\ ~Answered
  BY DEF Timeout, Searching, Answered
<1>2. RInv /\ Named /\ Strings
  BY DEF IInv, NInv
<1>3. /\ pn \in All /\ probe \in [All -> Info] /\ pn \notin Sent /\ All' = All
      /\ All \subseteq Nat /\ \A p : Row(p)' = Row(p)
  BY <1>1, <1>2, FinalsSent, SameRows DEF RInv, InOrder, Types
<1>4. (\A p \in All \ {pn} : probe'[p] = probe[p]) /\ probe'[pn].name = host_unknown
  BY <1>1, <1>3 DEF Info
<1>5. probe[pn].name = NULL
  BY <1>2, <1>3 DEF Named, Resolved
<1>6. Strings'
  BY <1>1, <1>2, <1>3, <1>4, Constants DEF Strings
<1>7. \A p \in All : probe'[p].name \in All =>
        probe'[p].name \in live /\ p \in Row(probe'[p].name)
  <2>1. host_unknown \notin All
    BY <1>3, Constants
  <2> QED BY <1>4, <2>1 DEF IInv, FreedOnce
<1>8. \A s \in live : \E p \in Row(s) : probe'[p].name = s
  <2>1. SUFFICES ASSUME NEW s \in live PROVE \E p \in Row(s) : probe'[p].name = s
    OBVIOUS
  <2>2. PICK p \in Row(s) : probe[p].name = s
    BY DEF IInv, FreedOnce
  <2>3. s \in Nat
    BY <1>2, <1>3 DEF RInv, Types
  <2>4. p \in All \ {pn}
    BY <1>5, <2>2, <2>3, Constants DEF Row
  <2> QED BY <1>4, <2>2, <2>4
<1>9. FreedOnce'
  BY <1>1, <1>3, <1>7, <1>8 DEF FreedOnce
<1> QED BY <1>6, <1>9 DEF IInv

\* The probe gets a string of its own, or one that a probe of its row holds.
LEMMA ResolveI == ASSUME IInv, NInv', Resolve PROVE IInv'
<1>1. /\ pc = "resolve" /\ pc' = "print" /\ program = "successive"
      /\ pn \in All /\ probe[pn].result = "OK" /\ probe[pn].name = NULL
  BY ResolveFacts DEF IInv
<1>2. /\ \A p \in All : /\ probe'[p].result = probe[p].result
                        /\ probe'[p].addr = probe[p].addr
  BY ResolveFacts DEF IInv
<1>3. \A p \in All \ {pn} : probe'[p].name = probe[p].name
  BY ResolveFacts DEF IInv
<1>4. IF probe[pn].addr = NoAddress
      THEN probe'[pn].name = host_unknown_bad_AF /\ live' = live
      ELSE /\ probe'[pn].name \in All /\ live' = live \cup {probe'[pn].name}
           /\ \/ probe'[pn].name = pn
              \/ /\ pn - 1 \in All /\ pn - 1 # pn
                 /\ probe2ttl(pn - 1) = probe2ttl(pn)
                 /\ probe'[pn].name = probe[pn - 1].name
  BY ResolveFacts DEF IInv
<1>5. UNCHANGED <<program, opts, pn>>
  BY DEF Resolve, Chosen
<1>6. All' = All /\ All \subseteq Nat /\ live \subseteq All /\ \A p : Row(p)' = Row(p)
  BY <1>5, SameRows, FinalsSent DEF IInv, NInv, RInv, Types
<1>7. host_unknown_bad_AF \notin All /\ NULL \notin All
  BY <1>6, Constants
<1>8. Strings'
  <2>1. \A p \in All : probe'[p].name = host_unknown_bad_AF =>
          probe'[p].result = "OK" /\ probe'[p].addr = NoAddress
    BY <1>1, <1>2, <1>3, <1>4, <1>7 DEF IInv, Strings
  <2> QED BY <1>1, <1>5, <1>6, <2>1 DEF Strings
<1>9. ASSUME NEW p \in All, probe'[p].name \in All
      PROVE  probe'[p].name \in live' /\ p \in Row(probe'[p].name)
  <2>1. CASE p # pn
    <3>1. probe'[p].name = probe[p].name
      BY <1>3, <2>1
    <3>2. probe[p].name \in live /\ p \in Row(probe[p].name)
      BY <1>9, <3>1 DEF IInv, FreedOnce
    <3>3. live \subseteq live'
      BY <1>4
    <3> QED BY <3>1, <3>2, <3>3
  <2>2. CASE p = pn
    <3>1. probe[pn].addr # NoAddress
      BY <1>4, <1>7, <1>9, <2>2
    <3>2. probe'[pn].name \in live'
      BY <1>4, <3>1
    <3>3. CASE probe'[pn].name = pn
      BY <1>1, <2>2, <3>2, <3>3 DEF Row
    <3>4. CASE /\ pn - 1 \in All /\ probe2ttl(pn - 1) = probe2ttl(pn)
               /\ probe'[pn].name = probe[pn - 1].name
      <4>1. pn - 1 \in Row(probe[pn - 1].name)
        BY <1>9, <2>2, <3>4 DEF IInv, FreedOnce
      <4>2. pn \in Row(probe[pn - 1].name)
        BY <1>1, <3>4, <4>1 DEF Row
      <4> QED BY <2>2, <3>2, <3>4, <4>2
    <3> QED BY <1>4, <3>1, <3>3, <3>4
  <2> QED BY <2>1, <2>2
<1>10. ASSUME NEW s \in live' PROVE \E p \in Row(s) : probe'[p].name = s
  <2>1. CASE s \in live
    <3>1. PICK p \in Row(s) : probe[p].name = s
      BY <2>1 DEF IInv, FreedOnce
    <3>2. p \in All \ {pn}
      BY <1>1, <1>6, <1>7, <2>1, <3>1 DEF Row
    <3> QED BY <1>3, <3>1, <3>2
  <2>2. CASE s \notin live
    <3>1. s = probe'[pn].name /\ s \in All
      BY <1>4, <1>10, <2>2
    <3> QED BY <1>1, <1>9, <3>1
  <2> QED BY <2>1, <2>2
<1>11. FreedOnce'
  BY <1>1, <1>6, <1>9, <1>10 DEF FreedOnce
<1> QED BY <1>8, <1>11 DEF IInv

\* One round of the final loop.
LEMMA FreeI == ASSUME IInv, NInv', traceroute_free_mem_probe PROVE IInv'
<1> USE DEF Chosen
<1> DEFINE name == probe[pn].name
           frees == name \notin {NULL, host_unknown} /\ Sharers(pn) = {}
<1>0. RInv /\ Strings /\ FreedOnce
  BY DEF IInv, NInv
<1>1. /\ pc = "release" /\ program = "successive" /\ pn \in All /\ pn \in Nat
      /\ final_probe \in Finals /\ pn <= final_probe /\ pn' = pn + 1
      /\ UNCHANGED <<program, opts, final_probe>>
  BY <1>0, FreeFacts
<1>2. /\ probe' = IF name \in {NULL, host_unknown} THEN probe
                  ELSE [probe EXCEPT ![pn].name = NULL]
      /\ live' = IF frees THEN live \ {name} ELSE live
      /\ IF frees /\ name \notin live
         THEN pc' = "aborted" /\ rc' = "invalid free"
         ELSE UNCHANGED <<pc, rc>>
  BY DEF traceroute_free_mem_probe
<1>3. \A p \in All : /\ probe'[p].result = probe[p].result
                     /\ probe'[p].addr = probe[p].addr
                     /\ probe'[p].err = probe[p].err
  BY <1>0, FreeFacts
<1>4. \A p \in All \ {pn} : probe'[p].name = probe[p].name
  BY <1>0, FreeFacts
<1>5. probe'[pn].name = IF name \in {NULL, host_unknown} THEN name ELSE NULL
  BY <1>0, FreeFacts
<1>6. All' = All /\ All \subseteq Nat /\ live \subseteq All /\ \A p : Row(p)' = Row(p)
  BY <1>0, <1>1, SameRows, FinalsSent DEF RInv, Types
<1>7. host_unknown_bad_AF \notin All /\ NULL \notin All /\ host_unknown \notin All
  BY <1>6, Constants
<1>8. name \in All \cup {NULL, host_unknown, host_unknown_bad_AF}
  BY <1>0, <1>1 DEF RInv, Types, Info
<1>9. name = host_unknown_bad_AF => probe[pn].result = "OK" /\ probe[pn].addr = NoAddress
  BY <1>0, <1>1 DEF Strings
<1>10. name \in All => name \in live /\ pn \in Row(name)
  BY <1>0, <1>1 DEF FreedOnce
<1>11. Sharers(pn) = {q \in Row(pn) \ {pn} : probe[q].name = name}
  BY DEF Sharers
<1> HIDE DEF name, frees
<1>12. Strings'
  <2>1. \A p \in All : probe'[p].name = host_unknown_bad_AF =>
          probe'[p].result = "OK" /\ probe'[p].addr = NoAddress
    BY <1>0, <1>3, <1>4, <1>5, Constants DEF Strings
  <2>2. \A p \in All : p < pn + 1 => p < pn \/ p = pn
    BY <1>1, <1>6
  <2>3. \A p \in All : p < pn' => probe'[p].name \in {NULL, host_unknown}
    BY <1>0, <1>1, <1>4, <1>5, <2>2 DEF Strings
  <2> QED BY <1>1, <1>6, <2>1, <2>3 DEF Strings
\* The row of a string is the row of the probes that hold it.
<1>13. \A p, q, s : p \in Row(s) /\ q \in Row(s) => q \in Row(p)
  BY DEF Row
<1>14. \A p, q, s : p \in Row(s) /\ q \in Row(p) => q \in Row(s)
  BY DEF Row
<1>15. ASSUME NEW p \in All, probe'[p].name \in All
       PROVE  probe'[p].name \in live' /\ p \in Row(probe'[p].name)
  <2>1. p # pn /\ probe'[p].name = probe[p].name
    BY <1>4, <1>5, <1>7, <1>15
  <2>2. probe[p].name \in live /\ p \in Row(probe[p].name)
    BY <1>0, <1>15, <2>1 DEF FreedOnce
  <2>3. frees => probe[p].name # name
    <3>1. SUFFICES ASSUME frees, probe[p].name = name PROVE FALSE
      OBVIOUS
    <3>2. pn \in Row(name) /\ p \in Row(name)
      BY <1>10, <1>15, <2>1, <2>2, <3>1
    <3>3. p \in Sharers(pn)
      BY <1>11, <1>13, <2>1, <3>1, <3>2
    <3> QED BY <3>1, <3>3 DEF frees
  <2>4. live' = IF frees THEN live \ {name} ELSE live
    BY <1>2
  <2>5. probe[p].name \in live'
    BY <2>2, <2>3, <2>4
  <2> QED BY <2>1, <2>2, <2>5
<1>16. ASSUME NEW s \in live' PROVE \E p \in Row(s) : probe'[p].name = s
  <2>1. s \in live /\ s \in All /\ (frees => s # name)
    BY <1>2, <1>6, <1>16
  <2>2. PICK p \in Row(s) : probe[p].name = s
    BY <1>0, <2>1 DEF FreedOnce
  <2>3. p \in All
    BY DEF Row
  <2>4. CASE p # pn
    BY <1>4, <2>2, <2>3, <2>4
  <2>5. CASE p = pn
    <3>1. name = s /\ ~frees
      BY <2>1, <2>2, <2>5 DEF name
    <3>2. Sharers(pn) # {}
      BY <1>7, <2>1, <3>1 DEF frees
    <3>3. PICK q \in Row(pn) \ {pn} : probe[q].name = name
      BY <1>11, <3>2
    <3>4. q \in Row(s) /\ q \in All \ {pn}
      BY <1>14, <2>5, <3>3 DEF Row
    <3> QED BY <1>4, <3>1, <3>3, <3>4
  <2> QED BY <2>4, <2>5
<1>17. ASSUME pc' = "aborted"
       PROVE  \E p \in 0 .. final_probe' : probe'[p].result = "OK" /\ probe'[p].addr = NoAddress
  <2>1. frees /\ name \notin live
    BY <1>1, <1>2, <1>17
  <2>2. name = host_unknown_bad_AF
    BY <1>8, <1>10, <2>1 DEF frees
  <2>3. final_probe \in Nat
    BY <1>0, <1>1, FinalsSent
  <2>4. pn \in 0 .. final_probe
    BY <1>1, <2>3
  <2> QED BY <1>1, <1>3, <1>9, <2>2, <2>4
<1>18. pc' # "done"
  BY <1>1, <1>2
<1>19. FreedOnce'
  BY <1>6, <1>15, <1>16, <1>17, <1>18 DEF FreedOnce
<1> QED BY <1>12, <1>19 DEF IInv

\* The loop has gone past the final probe.
LEMMA EndI == ASSUME IInv, NInv', Return \/ UNCHANGED vars PROVE IInv'
<1> USE DEF Chosen
<1>1. /\ UNCHANGED <<program, opts, pn, final_probe, probe, live>>
      /\ Strings /\ FreedOnce /\ RInv
  BY DEF Return, vars, IInv, NInv
<1>2. All' = All /\ All \subseteq Nat /\ live \subseteq All /\ \A p : Row(p)' = Row(p)
  BY <1>1, SameRows, FinalsSent DEF RInv, Types
<1>3. CASE UNCHANGED vars
  <2>1. UNCHANGED <<pc, rc>>
    BY <1>3 DEF vars
  <2> QED BY <1>1, <1>2, <2>1 DEF IInv, Strings, FreedOnce
<1>4. CASE Return
  <2>1. /\ pc = "release" /\ pc' = "done"
        /\ program = "basic" \/ pn > final_probe
    BY <1>4 DEF Return
  <2>2. Strings'
    BY <1>1, <1>2, <2>1 DEF Strings
  <2>3. ASSUME NEW s \in live PROVE \E p \in Row(s) : probe[p].name = s /\ p > final_probe
    <3>1. program = "successive" /\ pn > final_probe
      BY <1>1, <2>1, <2>3 DEF Strings, RInv, Types
    <3>2. PICK p \in Row(s) : probe[p].name = s
      BY <1>1, <2>3 DEF FreedOnce
    <3>3. p \in All /\ s \in Nat
      BY <1>2, <2>3 DEF Row
    <3>4. ~(p < pn)
      BY <1>1, <2>1, <3>1, <3>2, <3>3, Constants DEF Strings
    <3>5. final_probe \in Int /\ pn \in Int /\ p \in Int
      <4>1. Finals \subseteq Nat
        BY <1>1, FinalsSent
      <4>2. final_probe = -1 \/ final_probe \in Finals
        BY <1>1 DEF RInv, FinalProbe
      <4>3. pn \in Nat /\ p \in Nat
        BY <1>1, <1>2, <3>3 DEF RInv, Types
      <4>4. CASE final_probe \in Finals
        <5>1. final_probe \in Nat
          BY <4>1, <4>4, Zenon
        <5> QED BY <4>3, <5>1
      <4>5. CASE final_probe = -1
        BY <4>3, <4>5
      <4> QED BY <4>2, <4>4, <4>5
    <3>6. p > final_probe
      BY <3>1, <3>4, <3>5
    <3> QED BY <3>2, <3>6
  <2>4. FreedOnce'
    BY <1>1, <1>2, <2>1, <2>3 DEF FreedOnce
  <2> QED BY <2>2, <2>4 DEF IInv
<1> QED BY <1>3, <1>4

LEMMA NextI == IInv /\ [Next]_vars => IInv'
<1> SUFFICES ASSUME IInv, [Next]_vars PROVE IInv'
  OBVIOUS
<1>1. NInv'
  BY NextN DEF IInv
<1> QED BY <1>1, SearchI, TimeoutI, ResolveI, FreeI, EndI DEF Next, Step, Stopped

\* FreedOnce: no probe holds a freed string, every allocated one is held by a probe of its
\* row, the final loop frees a string once and an invalid pointer only for a probe without
\* an address, and what it leaves behind is held by a probe after the final one.
THEOREM FreesOnce == Spec => []FreedOnce
<1>1. IInv => FreedOnce
  BY DEF IInv
<1> QED BY <1>1, InitI, NextI, PTL DEF Spec
===============================================================================
