------------------------------ MODULE MCSystem ------------------------------
(***************************************************************************)
(* The composed program with the table of ustat.c.  Lists of the rows that *)
(* share counters, of the rows that can fail behind and before others, and *)
(* of rows that are read again.  A part of the machine that no argument is *)
(* about does not change, and has one value: nothing else reads it; nor    *)
(* does one that is not read before the program goes on.                   *)
(***************************************************************************)
EXTENDS System, UstatTable

tcp4(suffix) == <<"tcp", "4", suffix>>
tcp6(suffix) == <<"tcp", "6", suffix>>

MCArgvs == {
    << >>,
    << tcp6(".c"), tcp4(".c"), <<"tcp", ".c">> >>,
    << <<"tcp", ".e">>, <<"tcp", "6">>, <<"tcp">> >>,
    << <<"tcp", ".l">>, <<"tcp", "dump">>, tcp6(".l") >>,
    << <<"bat", "%">>, <<"nusers">>, <<"bat", "+", "h">> >>,
    << <<"bat", "+">>, <<"bat", "%">>, <<"bat", "+", "h">> >>,
    << <<"mem", "f">>, <<"mem", "r">>, <<"mem">> >>,
    << <<"load">>, tcp4(".e"), <<"load">> >>,
    << <<"nproc">>, <<"x">>, <<"nproc">> >>,
    << <<"bat", "+">>, <<"fs", "t">> >> }

\* The rows of the table of ustat.c that some list names, in its order.
AskedRows == SelectSeq(ModuleRows, LAMBDA r :
    \E a \in MCArgvs : \E l \in DOMAIN a : a[l] = r.name)

SystemNModules == Len(AskedRows) + 1

SystemModules ==
    [j \in 0 .. Len(AskedRows) |-> IF j = 0 THEN UstatModules[0] ELSE AskedRows[j]]

Asks(word) == \E l \in DOMAIN argv : Head(argv[l]) = word

MCInit ==
    /\ Init
    /\ ~ Asks("bat") => present /\ status = "Full" /\ capacity = Min(Levels)
    /\ ~ Asks("mem") => sysinfo.free = Min(Sizes) /\ sysinfo.total = Max(Sizes)
    /\ ~ Asks("nproc") => alive = {self}
    /\ ~ Asks("tcp") => lowest = 3 /\ exists6

MCNext ==
    \/ Asks("bat") /\ phase = "scan" /\ BatteryChanges
    \/ Asks("mem") /\ phase = "scan" /\ inside = "main" /\ MemoryChanges
    \/ Asks("nproc") /\ phase = "print" /\ ProcessesChange
    \/ Program
    \/ Gone

MCSpec == MCInit /\ [][MCNext]_vars /\ WF_vars(Program)

=============================================================================
