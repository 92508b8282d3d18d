---------------------------- MODULE TcpCounters ----------------------------
(***************************************************************************)
(* The socket counters of ustat_tcp.c: one set for each family and one for *)
(* both.  A system's own file counts the sockets (TcpStats for Linux,      *)
(* TcpPcb for BSD) and has _sum_counters add up each family; the prints    *)
(* show single counters, and tcpdump all of them.                          *)
(***************************************************************************)
EXTENDS Integers, Functions, FiniteSetsExt

CONSTANTS
    TCP_STATE_FIRST, TCP_STATE_LAST, INDEX_TOTAL,   \* the enum of the system
    MaxSockets      \* bound on the sockets

States == TCP_STATE_FIRST .. TCP_STATE_LAST
Indexes == States \cup {INDEX_TOTAL}        \* 0 .. _n_tcp_states - 1
Families == {4, 6}

ASSUME TcpCountersAssumption ==
    /\ TCP_STATE_FIRST \in Nat
    /\ TCP_STATE_LAST \in Nat
    /\ TCP_STATE_FIRST <= TCP_STATE_LAST
    /\ INDEX_TOTAL \in Nat \ States
    /\ MaxSockets \in Nat

VARIABLES
    pc,         \* what comes next
    v,          \* the family it is for: 4, then 6
    i,          \* the loop counter of _sum_counters
    tcp,        \* _tcp_counters
    tcpv,       \* _tcp4_counters and _tcp6_counters
    seen        \* history: the sockets there were, per family and state

counters == <<v, i, tcp, tcpv, seen>>

Zero == [x \in Indexes |-> 0]
NoSockets == [s \in States |-> 0]

InitCounters ==
    /\ v = 4
    /\ i = TCP_STATE_FIRST
    /\ tcp = Zero
    /\ tcpv = [f \in Families |-> Zero]
    /\ seen = [f \in Families |-> NoSockets]

\* A slip: i < TCP_STATE_LAST.
Bug_InRange == i < TCP_STATE_LAST

\* A slip: i <= TCP_STATE_LAST + 1.
Bug_InRange_last == i <= TCP_STATE_LAST + 1

InRange == i < TCP_STATE_LAST + 1

\* One round of the loop of _sum_counters(tcp, tcpv[v]).
SumState ==
    /\ pc = "sum"
    /\ InRange
    /\ tcpv' = [tcpv EXCEPT ![v][INDEX_TOTAL] = @ + tcpv[v][i]]
    /\ tcp' = [tcp EXCEPT ![i] = @ + tcpv[v][i]]
    /\ i' = i + 1
    /\ UNCHANGED <<pc, v, seen>>

\* A slip: the total of the first family is assigned, not added.
Bug_SumTotal(next) ==
    /\ pc = "sum"
    /\ ~ InRange
    /\ tcp' = [tcp EXCEPT ![INDEX_TOTAL] = tcpv[v][INDEX_TOTAL]]
    /\ v' = 6
    /\ i' = TCP_STATE_FIRST
    /\ pc' = IF v = 4 THEN next ELSE "done"
    /\ UNCHANGED <<tcpv, seen>>

\* The end of _sum_counters; next is what follows IPv4.
SumTotal(next) ==
    /\ pc = "sum"
    /\ ~ InRange
    /\ tcp' = [tcp EXCEPT ![INDEX_TOTAL] = @ + tcpv[v][INDEX_TOTAL]]
    /\ v' = 6
    /\ i' = TCP_STATE_FIRST
    /\ pc' = IF v = 4 THEN next ELSE "done"
    /\ UNCHANGED <<tcpv, seen>>

\* A slip: the total is taken to be the first number, as it is on Linux.
Bug_ntcp_print ==
    [head |-> 0,
     cells |-> [x \in Indexes |-> <<tcp[x], tcpv[4][x], tcpv[6][x]>>]]

\* tcpdump: the index of the total, then three numbers for each index.
ntcp_print ==
    [head |-> INDEX_TOTAL,
     cells |-> [x \in Indexes |-> <<tcp[x], tcpv[4][x], tcpv[6][x]>>]]

-----------------------------------------------------------------------------
(***************************************************************************)
(* Properties.                                                             *)
(***************************************************************************)

Counters == [Indexes -> Nat]

CountersTypeOK ==
    /\ v \in Families
    /\ i \in TCP_STATE_FIRST .. TCP_STATE_LAST + 1
    /\ tcp \in Counters
    /\ tcpv \in [Families -> Counters]
    /\ seen \in [Families -> [States -> Nat]]

\* "tcp.e" shows the sum of "tcp4.e" and "tcp6.e", "tcp" that of "tcp4" and
\* "tcp6", and so on: the three sets of counters agree, although they are
\* filled in two rounds that share _tcp_counters, and IPv6 may be missing.
FamiliesAddUp ==
    pc = "done" => \A x \in Indexes : tcp[x] = tcpv[4][x] + tcpv[6][x]

\* The total of a family is the number of its sockets: each state is added to
\* INDEX_TOTAL once, the first and the last included.
TotalsCountSockets ==
    pc = "done" => \A f \in Families : tcpv[f][INDEX_TOTAL] = SumFunction(seen[f])

\* Who reads a tcpdump needs no header file: the number in front says where
\* the totals are, and each total is the sum of the other cells, on a system
\* that has the totals before the states and on one that has them behind.
DumpSumsUp ==
    pc = "done" =>
        LET d == ntcp_print IN
        \A c \in 1 .. 3 :
            d.cells[d.head][c] =
                MapThenSumSet(LAMBDA x : d.cells[x][c], Indexes \ {d.head})

=============================================================================
