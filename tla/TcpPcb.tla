------------------------------- MODULE TcpPcb -------------------------------
(***************************************************************************)
(* How the socket counters are filled on BSD (ustat_tcp_bsd.c): sysctl is  *)
(* asked how long the list of sockets is, a buffer is allocated, sysctl is *)
(* asked for the list, and the records between its header and its trailer  *)
(* are counted.  Sockets are opened and closed meanwhile.                  *)
(***************************************************************************)
EXTENDS TcpCounters, Sequences, SequencesExt

CONSTANTS
    Slack,          \* how many records more than there are sysctl asks for
    MaxChanges      \* bound on the changes of the list

\* A record: its flags INP_IPV4 and INP_IPV6, and its state.
Socket == [flags : SUBSET Families, state : States]

ASSUME TcpPcbAssumption == Slack \in Nat /\ MaxChanges \in Nat

VARIABLES
    list,       \* the sockets of the system
    changes,    \* history: how often list has changed
    abi,        \* whose size differs from that in the program, if any
    room,       \* records that buf has room for; -1 if it is not allocated
    buf,        \* the records sysctl wrote
    pos,        \* records the loop has passed
    rc

kernel == <<list, changes, abi>>
walk == <<room, buf, pos, rc>>
vars == <<pc, counters, kernel, walk>>

Init ==
    /\ pc = "size"
    /\ InitCounters
    /\ list \in UNION { [1 .. k -> Socket] : k \in 0 .. MaxSockets }
    /\ changes = 0
    /\ abi \in {"same", "xinpgen", "xtcpcb"}
    /\ room = -1 /\ buf = << >> /\ pos = 0 /\ rc = 0

-----------------------------------------------------------------------------

\* A socket is opened, closed, or has another state.
Change ==
    /\ pc \in {"size", "fetch"} /\ changes < MaxChanges
    /\ \/ /\ Len(list) < MaxSockets
          /\ \E s \in Socket : list' = Append(list, s)
       \/ \E k \in DOMAIN list : list' = RemoveAt(list, k)
       \/ \E k \in DOMAIN list, s \in States : list' = [list EXCEPT ![k].state = s]
    /\ changes' = changes + 1
    /\ UNCHANGED <<pc, counters, abi, walk>>

\* The first sysctlbyname and malloc, or return 0.
AskSize ==
    /\ pc = "size"
    /\ \/ room' = Len(list) + Slack /\ pc' = "fetch"
       \/ UNCHANGED room /\ pc' = "failed"
    /\ UNCHANGED <<counters, kernel, buf, pos, rc>>

\* The family a record is counted for, if any.
Family(s) == IF 4 \in s.flags THEN {4} ELSE s.flags

Census(records) ==
    [f \in Families |-> [s \in States |->
        Cardinality({k \in DOMAIN records :
                        f \in Family(records[k]) /\ records[k].state = s})]]

\* The second sysctlbyname, and the check of header and trailer: os_exit(2).
Fetch ==
    /\ pc = "fetch" /\ Len(list) <= room
    /\ buf' = list
    /\ seen' = Census(list)
    /\ pc' = IF abi = "xinpgen" THEN "exited" ELSE "walk"
    /\ UNCHANGED <<v, i, tcp, tcpv, kernel, room, pos, rc>>

\* The list has outgrown the buffer: goto out, where rc is still 0.
FetchFails ==
    /\ pc = "fetch" /\ Len(list) > room
    /\ pc' = "failed"
    /\ UNCHANGED <<counters, kernel, walk>>

\* A slip: a socket of both families is counted twice.
Bug_Record(s) ==
    tcpv' = [f \in Families |->
                IF f \in s.flags THEN [tcpv[f] EXCEPT ![s.state] = @ + 1] ELSE tcpv[f]]

Record(s) ==
    tcpv' = [f \in Families |->
                IF f \in Family(s) THEN [tcpv[f] EXCEPT ![s.state] = @ + 1] ELSE tcpv[f]]

\* A slip: rc is set for IPv4 sockets only.
Bug_CountRecord ==
    /\ pc = "walk" /\ pos < Len(buf) /\ abi # "xtcpcb"
    /\ Record(buf[pos + 1])
    /\ pos' = pos + 1
    /\ rc' = IF 4 \in buf[pos + 1].flags THEN 1 ELSE rc
    /\ UNCHANGED <<pc, v, i, tcp, seen, kernel, room, buf>>

\* One round of the loop.
CountRecord ==
    /\ pc = "walk" /\ pos < Len(buf) /\ abi # "xtcpcb"
    /\ Record(buf[pos + 1])
    /\ pos' = pos + 1
    /\ rc' = 1
    /\ UNCHANGED <<pc, v, i, tcp, seen, kernel, room, buf>>

\* The trailer is reached, or a record has another size: out.
LeaveLoop ==
    /\ pc = "walk" /\ (pos = Len(buf) \/ abi = "xtcpcb")
    /\ pc' = IF rc = 1 THEN "sum" ELSE "failed"
    /\ UNCHANGED <<counters, kernel, walk>>

\* _sum_counters for IPv4, and for IPv6.
Sum == (SumState \/ SumTotal("sum")) /\ UNCHANGED <<kernel, walk>>

Returned == pc \in {"done", "failed", "exited"} /\ UNCHANGED vars

Next == \/ Change     \/ AskSize     \/ Fetch     \/ FetchFails
        \/ CountRecord \/ LeaveLoop  \/ Sum       \/ Returned

Spec == Init /\ [][Next]_vars

-----------------------------------------------------------------------------
(***************************************************************************)
(* Properties.                                                             *)
(***************************************************************************)

TypeOK ==
    /\ pc \in {"size", "fetch", "walk", "sum", "done", "failed", "exited"}
    /\ CountersTypeOK
    /\ list \in Seq(Socket)
    /\ changes \in Nat
    /\ abi \in {"same", "xinpgen", "xtcpcb"}
    /\ room \in Nat \cup {-1}
    /\ buf \in Seq(Socket)
    /\ pos \in 0 .. Len(buf)
    /\ rc \in {0, 1}

\* The records of a family, which INP_IPV4 decides about where it is set, and
\* of a state.
OfFamily(f) == {k \in DOMAIN buf : (4 \in buf[k].flags <=> f = 4) /\ f \in buf[k].flags}
InState(s) == {k \in DOMAIN buf : buf[k].state = s}

\* In the end each counter, of every family and state and of their totals, is
\* the number of the records it is named for: none is passed over or counted
\* twice, one that serves both families is in "tcp4" only, and _sum_counters
\* adds up what the walk has counted.
CountsEachSocketOnce ==
    pc = "done" =>
        /\ \A f \in Families :
              /\ \A s \in States : tcpv[f][s] = Cardinality(OfFamily(f) \cap InState(s))
              /\ tcpv[f][INDEX_TOTAL] = Cardinality(OfFamily(f))
        /\ \A s \in States :
              tcp[s] = Cardinality((OfFamily(4) \cup OfFamily(6)) \cap InState(s))
        /\ tcp[INDEX_TOTAL] = Cardinality(OfFamily(4) \cup OfFamily(6))

\* The program gives up only if sysctl fails, if more sockets were opened
\* between the two calls than sysctl leaves room for, if there is no socket at
\* all, or if it was built for another kernel; it never does for the kind of
\* the sockets there are.
FailsForAReason ==
    pc \in {"failed", "exited"} =>
        \/ room = -1
        \/ Len(list) > room
        \/ buf = << >>
        \/ abi # "same"

=============================================================================
