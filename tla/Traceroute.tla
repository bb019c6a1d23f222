----------------------------- MODULE Traceroute -----------------------------
(***************************************************************************)
(* The two complete traceroute programs.  Both send UDP probes with a       *)
(* growing TTL, one at a time, and wait for the ICMP answer of the router   *)
(* where the TTL ends or of the target.  "basic" (basic_traceroute)         *)
(* formats the address of a hop into a static buffer; "successive"          *)
(* (successive_traceroute) keeps an allocated string per probe, shares it   *)
(* between the probes of a row that were answered by the same host, and     *)
(* frees the strings at the end.                                            *)
(*                                                                         *)
(* A string is named after the probe that allocated it, and reads as the    *)
(* address of that probe.  Times, packet contents and the texts of the      *)
(* ICMP errors are left out; an answer is its sender, whether it is an ICMP *)
(* error other than an expired TTL (a port unreachable, which sets no text, *)
(* is one), and whether it ends the search.  The loop of                    *)
(* traceroute_receive around poll and recvmsg (EINTR, a failing recvmsg)    *)
(* is the stuttering before the answer or the timeout.                      *)
(***************************************************************************)
EXTENDS Integers, FiniteSets, FiniteSetsExt

CONSTANTS
    MAX_TTL, MAX_PROBES,  \* the limits of -m and -q
    PORTS,                \* 2^16, the values of in_port_t
    MAX_DEST_PORT,        \* a larger -p is ignored
    DEF_DEST_PORT, DEF_DEST_PORT_BASE,
    Arguments,            \* command lines: [m, q, f, p : Int, U : BOOLEAN]
    Routers               \* the addresses that answer before the target

VARIABLES
    program,      \* "basic" or "successive"
    opts,         \* struct options
    dist,         \* the TTL that reaches the target
    pc,           \* where do_traceroute is
    pn,           \* the probe it works on
    final_probe,  \* tr.final_probe
    probe,        \* tr.probes
    live,         \* strings allocated by addr2str and not yet freed
    addr2str_buf, \* the static buffer of the basic program
    shown,        \* the last host printed
    rc            \* how the program ends

vars == <<program, opts, dist, pc, pn, final_probe, probe, live,
          addr2str_buf, shown, rc>>

\* Pointers that are not allocated strings.
NULL                == -1
host_unknown        == -2
host_unknown_bad_AF == -3

Target    == "target"
NoAddress == "AF_UNSPEC"    \* recv_addr with the family left 0
Star      == "*"            \* what host_unknown reads as
BadAF     == "*(bad AF)"

ASSUME TracerouteAssumption ==
    /\ MAX_TTL \in Nat \ {0} /\ MAX_PROBES \in Nat \ {0}
    /\ DEF_DEST_PORT \in 1 .. MAX_DEST_PORT
    /\ DEF_DEST_PORT_BASE \in 1 .. MAX_DEST_PORT
    /\ MAX_DEST_PORT \in Nat /\ PORTS \in Nat
    /\ MAX_DEST_PORT < PORTS /\ MAX_TTL * MAX_PROBES <= PORTS
    /\ \A a \in Arguments :
          a \in [m : Int, q : Int, f : Nat \ {0}, p : Nat, U : BOOLEAN]
    /\ Routers \cap {Target, NoAddress} = {}

-----------------------------------------------------------------------------
(* The options. *)

AtMost(bound, n) == IF n > bound THEN bound ELSE n

\* -p is stored in 16 bits and cut; the default depends on -U.
DestPort(a) ==
    LET p == a.p % PORTS
    IN  IF p \in 1 .. MAX_DEST_PORT THEN p
        ELSE IF a.U THEN DEF_DEST_PORT ELSE DEF_DEST_PORT_BASE

parse_options(a) ==
    [max_ttl   |-> AtMost(MAX_TTL, a.m),
     probes    |-> IF a.q < 1 THEN 1 ELSE AtMost(MAX_PROBES, a.q),
     first_ttl |-> a.f,
     dest_port_seq |-> ~a.U,
     dest_port |-> DestPort(a)]

All    == 0 .. opts.max_ttl * opts.probes - 1
probe2ttl(p) == 1 + p \div opts.probes
Row(p) == {q \in All : probe2ttl(q) = probe2ttl(p)}
RowEnds == pn % opts.probes = opts.probes - 1
\* The successive program never reads first_ttl.
First  == IF program = "basic" THEN (opts.first_ttl - 1) * opts.probes ELSE 0

-----------------------------------------------------------------------------
Unsent == [result |-> "UNKNOWN", socket |-> FALSE, addr |-> NoAddress,
           err |-> FALSE, name |-> NULL]

Init ==
    /\ program \in {"basic", "successive"}
    /\ opts \in {parse_options(a) : a \in Arguments}
    /\ dist \in 1 .. MAX_TTL + 1
    /\ pc = "init" /\ pn = 0
    /\ final_probe = -1
    /\ probe = [p \in All |-> Unsent]
    /\ live = {}
    /\ addr2str_buf = "" /\ shown = ""
    /\ rc = ""

Chosen == UNCHANGED <<program, opts, dist>>

traceroute_init ==
    /\ pc = "init"
    /\ pc' = IF First \in All THEN "send" ELSE "release"
    /\ pn' = IF First \in All THEN First ELSE 0
    /\ Chosen
    /\ UNCHANGED <<final_probe, probe, live, addr2str_buf, shown, rc>>

\* getaddrinfo fails, or there is no memory for the probes.
traceroute_init_fails ==
    /\ pc = "init"
    /\ pc' = "done" /\ rc' = "init"
    /\ Chosen
    /\ UNCHANGED <<pn, final_probe, probe, live, addr2str_buf, shown>>

\* The port of a probe; the sum is stored in 16 bits.
dest_port == IF opts.dest_port_seq THEN (opts.dest_port + pn) % PORTS
             ELSE opts.dest_port

traceroute_send ==
    /\ pc = "send" /\ dest_port # 0
    /\ probe' = [probe EXCEPT ![pn].socket = TRUE]
    /\ pc' = "receive"
    /\ Chosen
    /\ UNCHANGED <<pn, final_probe, live, addr2str_buf, shown, rc>>

\* A call of traceroute_send fails, send itself when the port is 0: the
\* socket is closed, and the program ends without releasing anything.
traceroute_send_fails ==
    /\ pc = "send"
    /\ probe' = [probe EXCEPT ![pn].result = "ERR_SEND"]
    /\ pc' = "done"
    /\ \/ rc' = "refused"
       \/ dest_port = 0 /\ rc' = "port"
    /\ Chosen
    /\ UNCHANGED <<pn, final_probe, live, addr2str_buf, shown>>

-----------------------------------------------------------------------------
(* The answers. *)

\* What the network, or the local kernel, may answer to a probe of a TTL:
\* the sender, an error other than the expired TTL, and whether
\* parse_icmp_response (or a plain answer) sets the final probe.  A router
\* may send any of these errors before the target is reached, an unreachable
\* port included, and each is final.  A local error has no ICMP origin, so
\* parse_cmsg does not take its address.
Answers(ttl) ==
    (IF ttl < dist
     THEN {[addr |-> r, err |-> e, last |-> e] : r \in Routers, e \in BOOLEAN}
     ELSE {[addr |-> Target, err |-> e, last |-> TRUE] : e \in BOOLEAN})
    \cup {[addr |-> NoAddress, err |-> FALSE, last |-> FALSE]}

\* MUTANT of set_final_probe: a later answer of the target moves the final probe.
MutSetFinalProbe == final_probe' = pn

set_final_probe ==
    final_probe' = IF program = "successive" /\ final_probe >= 0 /\ pn >= final_probe
                   THEN final_probe ELSE pn

traceroute_receive ==
    /\ pc = "receive"
    /\ \E a \in Answers(probe2ttl(pn)) :
        /\ probe' = [probe EXCEPT ![pn].addr = a.addr, ![pn].err = a.err,
                                  ![pn].result = "OK", ![pn].socket = FALSE]
        /\ IF a.last THEN set_final_probe ELSE UNCHANGED final_probe
    /\ pc' = "resolve"
    /\ Chosen
    /\ UNCHANGED <<pn, live, addr2str_buf, shown, rc>>

\* MUTANT of Timeout: the probe is sent again.
MutTimeoutRetry ==
    /\ pc = "receive"
    /\ probe' = [probe EXCEPT ![pn].socket = FALSE]
    /\ pc' = "send"
    /\ Chosen
    /\ UNCHANGED <<pn, final_probe, live, addr2str_buf, shown, rc>>

Timeout ==
    /\ pc = "receive"
    /\ probe' = [probe EXCEPT ![pn].result = "ERR_TIMEOUT", ![pn].socket = FALSE,
                              ![pn].name = host_unknown]
    /\ pc' = "print"
    /\ Chosen
    /\ UNCHANGED <<pn, final_probe, live, addr2str_buf, shown, rc>>

\* MUTANT of same_ipaddr: any two answers are the same host.
MutSameIpaddr(p, q) == probe[p].addr # NoAddress

\* Two addresses of family 0 are not the same.
same_ipaddr(p, q) == probe[p].addr = probe[q].addr /\ probe[p].addr # NoAddress

\* do_one_probe: share the string of the previous probe of the row, or let
\* addr2str make one.
Shares ==
    /\ pn % opts.probes # 0
    /\ same_ipaddr(pn - 1, pn)
    /\ probe[pn - 1].name # NULL

addr2str == IF probe[pn].addr = NoAddress THEN host_unknown_bad_AF ELSE pn

Resolve ==
    /\ pc = "resolve" /\ program = "successive"
    /\ LET name == IF Shares THEN probe[pn - 1].name ELSE addr2str
       IN  /\ probe' = [probe EXCEPT ![pn].name = name]
           /\ live' = live \cup ({name} \cap All)
    /\ pc' = "print"
    /\ Chosen
    /\ UNCHANGED <<pn, final_probe, addr2str_buf, shown, rc>>

\* traceroute_get_host of the first probe answered in a row: the "*" of
\* an unknown address is overwritten, and getnameinfo, which fails for
\* it, leaves the address of the previous call in the buffer.
traceroute_get_host ==
    /\ pc = "resolve" /\ program = "basic"
    /\ IF \E q \in Row(pn) : q < pn /\ probe[q].result = "OK"
       THEN UNCHANGED <<addr2str_buf, shown>>
       ELSE /\ addr2str_buf' = IF probe[pn].addr = NoAddress THEN addr2str_buf
                               ELSE probe[pn].addr
            /\ shown' = addr2str_buf'
    /\ pc' = "next"
    /\ Chosen
    /\ UNCHANGED <<pn, final_probe, probe, live, rc>>

\* What a name reads as.
Text(name) == CASE name = host_unknown -> Star
                [] name = host_unknown_bad_AF -> BadAF
                [] OTHER -> probe[name].addr

print_one_probe ==
    /\ pc = "print"
    /\ shown' =
         LET name == probe[pn].name IN
         IF program = "basic" THEN Star
         ELSE IF name = NULL THEN "*?"
         ELSE IF \/ pn % opts.probes = 0
                 \/ name \in {host_unknown, host_unknown_bad_AF}
                 \/ Text(probe[pn - 1].name) # Text(name)
         THEN Text(name)
         ELSE shown
    /\ pc' = "next"
    /\ Chosen
    /\ UNCHANGED <<pn, final_probe, probe, live, addr2str_buf, rc>>

NextProbe ==
    /\ pc = "next"
    /\ IF (final_probe >= 0 /\ RowEnds) \/ pn + 1 \notin All
       THEN pc' = "release" /\ pn' = 0
       ELSE pc' = "send" /\ pn' = pn + 1
    /\ Chosen
    /\ UNCHANGED <<final_probe, probe, live, addr2str_buf, shown, rc>>

-----------------------------------------------------------------------------
(* The end. *)

\* MUTANT of Sharers: the other probes of the row are not looked at.
MutSharers(p) == {}

\* The other probes of the row with the same string.
Sharers(p) == {q \in Row(p) \ {p} : probe[q].name = probe[p].name}

\* One round of the final loop.  Only host_unknown is taken for static, so
\* the last probe of a row with host_unknown_bad_AF frees a constant.
traceroute_free_mem_probe ==
    /\ pc = "release" /\ program = "successive" /\ pn <= final_probe
    /\ LET name == probe[pn].name
           frees == name \notin {NULL, host_unknown} /\ Sharers(pn) = {}
       IN  /\ probe' = IF name \in {NULL, host_unknown} THEN probe
                       ELSE [probe EXCEPT ![pn].name = NULL]
           /\ live' = IF frees THEN live \ {name} ELSE live
           /\ IF frees /\ name \notin live
              THEN pc' = "aborted" /\ rc' = "invalid free"
              ELSE UNCHANGED <<pc, rc>>
    /\ pn' = pn + 1
    /\ Chosen
    /\ UNCHANGED <<final_probe, addr2str_buf, shown>>

Return ==
    /\ pc = "release"
    /\ (program = "basic") \/ pn > final_probe
    /\ pc' = "done" /\ rc' = "ok"
    /\ Chosen
    /\ UNCHANGED <<pn, final_probe, probe, live, addr2str_buf, shown>>

Stopped == pc \in {"done", "aborted"} /\ UNCHANGED vars

Step ==
    \/ traceroute_init \/ traceroute_init_fails
    \/ traceroute_send \/ traceroute_send_fails
    \/ traceroute_receive \/ Timeout
    \/ Resolve \/ traceroute_get_host \/ print_one_probe \/ NextProbe
    \/ traceroute_free_mem_probe \/ Return

Next == Step \/ Stopped

Spec == Init /\ [][Next]_vars /\ WF_vars(Step)

-----------------------------------------------------------------------------
(* Properties. *)

Sent == {p \in All : probe[p].result \in {"OK", "ERR_TIMEOUT"}}

\* The answers that end the search.
Finals == {p \in All : probe[p].addr = Target \/ probe[p].err}

\* A time is printed under the host it was measured to: after a probe the
\* last host printed is its own (successive), a silent probe shows a star,
\* and no probe is printed before it has a name, the case marked "should
\* NOT happen".  The basic program promises it for the first answer of a
\* row that has an address.
NamesShown ==
    pc = "next" =>
        IF probe[pn].result = "ERR_TIMEOUT" THEN shown = Star
        ELSE IF program = "successive"
        THEN shown = IF probe[pn].addr = NoAddress THEN BadAF ELSE probe[pn].addr
        ELSE (/\ probe[pn].addr # NoAddress
              /\ \A q \in Row(pn) : q < pn => probe[q].result # "OK")
             => shown = probe[pn].addr

\* The shared strings: no probe holds a freed one, an allocated one is held
\* by a probe of the row that made it, the final loop frees an invalid
\* pointer only for a probe without an address, and what it leaves behind is
\* held by a probe after the final one.
FreedOnce ==
    /\ \A p \in All : probe[p].name \in All =>
          probe[p].name \in live /\ p \in Row(probe[p].name)
    /\ \A s \in live : \E p \in Row(s) : probe[p].name = s
    /\ pc = "aborted" =>
          \E p \in 0 .. final_probe : probe[p].result = "OK" /\ probe[p].addr = NoAddress
    /\ pc = "done" /\ rc = "ok" =>
          \A s \in live : \E p \in Row(s) : probe[p].name = s /\ p > final_probe

\* The search stops with the first row that holds a final answer, with all
\* the probes of that row sent, and without one it goes through every TTL;
\* the final probe is the earliest final answer (the latest in the basic
\* program), and only a wrapped port makes send fail by itself.
RowsComplete ==
    /\ (Finals = {}) <=> (final_probe = -1)
    /\ Finals # {} =>
          final_probe = IF program = "basic" THEN Max(Finals) ELSE Min(Finals)
    /\ \A p \in Sent, q \in Finals : probe2ttl(p) <= probe2ttl(q)
    /\ rc = "ok" =>
          Sent = {p \in All : /\ p >= First
                              /\ \A q \in Finals : probe2ttl(p) <= probe2ttl(q)}
    /\ rc = "port" => opts.dest_port + pn = PORTS

\* The program ends, also when nobody ever answers.
Ends == <>(pc \in {"done", "aborted"})
=============================================================================
