------------------------------ MODULE TcpStats ------------------------------
(***************************************************************************)
(* How the socket counters are filled on Linux (ustat_tcp_linux.c,         *)
(* _init_tcp_stats_via_proc_net_tcp): count the IPv4 sockets, add them to  *)
(* the counters of both families, then the same for IPv6.  What a file     *)
(* does to the counters of its family is the subject of ProcTcp; here it   *)
(* is one step, which counts less than there is if read() fails.  The      *)
(* names carry Linux where TcpPcb has the same for BSD.                    *)
(***************************************************************************)
EXTENDS TcpCounters

VARIABLES
    fd,
    lowest,     \* the lowest free descriptor; 0 when there is no stdin
    exists6,    \* whether /proc/net/tcp6 exists
    opened      \* history: the families whose file was read

files == <<fd, lowest, exists6, opened>>
linux_vars == <<pc, counters, files>>

LinuxInit ==
    /\ pc = "open"
    /\ InitCounters
    /\ fd = -1
    /\ lowest \in {0, 3}
    /\ exists6 \in BOOLEAN
    /\ opened = {}

\* open_read fails, return 0: "not on linux? huh?"
NoProcNetTcp ==
    /\ pc = "open" /\ v = 4
    /\ fd' = -1
    /\ pc' = "failed"
    /\ UNCHANGED <<counters, lowest, exists6, opened>>

OpenTcp ==
    /\ pc = "open" /\ v = 4
    /\ fd' = lowest
    /\ tcp' = Zero
    /\ tcpv' = [f \in Families |-> Zero]
    /\ pc' = "read"
    /\ UNCHANGED <<v, i, seen, lowest, exists6, opened>>

\* A slip: the descriptor of the IPv4 file is looked at.
Bug_OpenTcp6 ==
    /\ pc = "open" /\ v = 6
    /\ fd' = IF exists6 THEN lowest ELSE -1
    /\ pc' = IF fd > 3 THEN "read" ELSE "done"
    /\ UNCHANGED <<counters, lowest, exists6, opened>>

\* if (fd > 0): descriptor 0 is taken for a failure.
OpenTcp6 ==
    /\ pc = "open" /\ v = 6
    /\ fd' = IF exists6 THEN lowest ELSE -1
    /\ pc' = IF fd' > 0 THEN "read" ELSE "done"
    /\ UNCHANGED <<counters, lowest, exists6, opened>>

\* A slip: the IPv6 file is counted into the IPv4 counters.
Bug_ProcessProcTcp ==
    /\ pc = "read"
    /\ \E got \in [States -> 0 .. MaxSockets] :
          /\ seen' = [seen EXCEPT ![v] = got]
          /\ tcpv' = [tcpv EXCEPT ![4] = [x \in Indexes |->
                        IF x \in States THEN @[x] + got[x] ELSE @[x]]]
    /\ opened' = opened \cup {v}
    /\ i' = TCP_STATE_FIRST
    /\ pc' = "sum"
    /\ UNCHANGED <<v, fd, lowest, exists6, tcp>>

\* _process_proc_tcp, close and the start of _sum_counters.
ProcessProcTcp ==
    /\ pc = "read"
    /\ \E got \in [States -> 0 .. MaxSockets] :
          /\ seen' = [seen EXCEPT ![v] = got]
          /\ tcpv' = [tcpv EXCEPT ![v] = [x \in Indexes |->
                        IF x \in States THEN @[x] + got[x] ELSE @[x]]]
    /\ opened' = opened \cup {v}
    /\ i' = TCP_STATE_FIRST
    /\ pc' = "sum"
    /\ UNCHANGED <<v, fd, lowest, exists6, tcp>>

LinuxSum == (SumState \/ SumTotal("open")) /\ UNCHANGED files

LinuxStep == NoProcNetTcp \/ OpenTcp \/ OpenTcp6 \/ ProcessProcTcp \/ LinuxSum

LinuxReturned == pc \in {"done", "failed"} /\ UNCHANGED linux_vars

LinuxNext == LinuxStep \/ LinuxReturned

LinuxSpec == LinuxInit /\ [][LinuxNext]_linux_vars

-----------------------------------------------------------------------------
(***************************************************************************)
(* Properties.                                                             *)
(***************************************************************************)

LinuxTypeOK ==
    /\ pc \in {"open", "read", "sum", "done", "failed"}
    /\ CountersTypeOK
    /\ fd \in {-1, 0, 3}
    /\ lowest \in {0, 3}
    /\ exists6 \in BOOLEAN
    /\ opened \subseteq Families

=============================================================================
