------------------------------- MODULE System -------------------------------
(***************************************************************************)
(* The program and its machine.  Ustat takes each init function, and each  *)
(* print, for one step; here those of the socket counters (TcpStats), the  *)
(* battery (Battery), the memory and the number of processes run step by   *)
(* step inside the loops of main, fill their own statics, and the machine  *)
(* changes between any two steps.  What is shown is what the statics hold. *)
(***************************************************************************)
EXTENDS Procs, FiniteSetsExt, SequencesExt

CONSTANTS
    NModules, Modules, Argvs, MaxInstant,   \* see Ustat
    TCP_STATE_FIRST, TCP_STATE_LAST,        \* see TcpCounters
    INDEX_TOTAL, MaxSockets,
    Levels,                                 \* see Battery
    Sizes                                   \* of memory, and of free memory

VARIABLES
    argv, phase, i, ready, m, held, out, now, reads,    \* see Ustat
    inside,     \* the function main is in, or "main"
    shown,      \* what the parts of out show
    tpc, v, k, tcp, tcpv, sockets, fd, lowest, exists6, opened, \* see TcpStats
    present, status, capacity, bpc, row, level, is_charging, batteries,
                \* see Battery
    sysinfo,    \* the memory of the machine
    mem,        \* _mem_total and _mem_free
    memories    \* history: the memories there were since the start

driver == <<argv, phase, i, ready, m, held, out, reads>>
sock == <<tpc, v, k, tcp, tcpv, sockets, fd, lowest, exists6, opened>>
machine == <<now, present, status, capacity, batteries, sysinfo, memories, alive>>
bat == <<bpc, row, level, is_charging>>
vars == <<driver, inside, shown, sock, machine, bat, mem, walk>>

U == INSTANCE Ustat

T == INSTANCE TcpStats WITH pc <- tpc, i <- k, seen <- sockets

BatName == [r \in {"bat%", "bat+h", "bat+"} |->
    CASE r = "bat%"  -> <<"bat", "%">>
      [] r = "bat+h" -> <<"bat", "+", "h">>
      [] r = "bat+"  -> <<"bat", "+">>]

RowNamed == [r \in DOMAIN BatName |-> CHOOSE j \in U!Rows : Modules[j].name = BatName[r]]

B == INSTANCE Battery WITH
    MaxChanges <- MaxInstant - 1, changes <- now - 1, pc <- bpc, seen <- batteries, recent <- batteries,
    ready <- [r \in DOMAIN BatName |-> ready[RowNamed[r]]]

ASSUME PartsAssumption ==
    /\ U!ModulesAssumption /\ U!TableAssumption
    /\ U!ArgvsAssumption /\ U!MaxInstantAssumption
    /\ T!TcpCountersAssumption /\ TCP_STATE_FIRST < TCP_STATE_LAST
    /\ B!BatteryAssumption
    /\ Sizes \subseteq Nat

MemNames == {<<"mem", "f", "h">>, <<"mem", "f">>, <<"mem", "r">>, <<"mem", "h">>, <<"mem">>}

\* The rows whose functions are looked at by their names.
ASSUME NamesAssumption ==
    \A j \in U!Rows :
        /\ Modules[j].name = <<"nproc">> => Modules[j].family = "sys"
        /\ Modules[j].family = "mem" => Modules[j].name \in MemNames

-----------------------------------------------------------------------------
(***************************************************************************)
(* The machine.                                                            *)
(***************************************************************************)

Memory == {s \in [total : Sizes, free : Sizes] : s.free <= s.total}
NoMemory == [total |-> 0, free |-> 0]

Init ==
    /\ U!Init /\ T!LinuxInit /\ B!Init
    /\ inside = "main"
    /\ shown = << >>
    /\ sysinfo \in Memory /\ sysinfo # NoMemory
    /\ mem = NoMemory
    /\ memories = {sysinfo}
    /\ ProcsInit

Runs == phase \notin U!Exits /\ now < MaxInstant /\ now' = now + 1

BatteryChanges ==
    /\ Runs /\ UNCHANGED driver
    /\ B!Change
    /\ UNCHANGED <<inside, shown, sock, sysinfo, memories, alive, mem, walk>>

MemoryChanges ==
    /\ Runs /\ UNCHANGED driver
    /\ sysinfo' \in Memory \ {sysinfo, NoMemory}
    /\ memories' = memories \cup {sysinfo'}
    /\ UNCHANGED <<inside, shown, sock, present, status, capacity, batteries,
                   alive, bat, mem, walk>>

ProcessesChange ==
    /\ Runs /\ UNCHANGED driver
    /\ StartOrEnd
    /\ UNCHANGED <<inside, shown, sock, present, status, capacity, batteries,
                   sysinfo, memories, bat, mem>>

Machine == BatteryChanges \/ MemoryChanges \/ ProcessesChange

-----------------------------------------------------------------------------
(***************************************************************************)
(* main: the first loop.                                                   *)
(***************************************************************************)

StartScan ==
    /\ U!StartScan
    /\ UNCHANGED <<inside, shown, sock, machine, bat, mem, walk>>

ScanReady ==
    /\ inside = "main"
    /\ U!ScanReady
    /\ UNCHANGED <<inside, shown, sock, machine, bat, mem, walk>>

\* The row of argv[i], whose init is called, or is being called.
Selected == Min({NModules} \cup
                {j \in 1 .. NModules - 1 : U!str_start(argv[i], Modules[j].name)})

Inits(families) ==
    /\ phase = "scan" /\ i <= Len(argv)
    /\ Selected < NModules /\ ~ ready[Selected]
    /\ Modules[Selected].family \in families

\* init returns 1, after it has set ready (or not).
Returns1 ==
    /\ m' = Append(m, Selected)
    /\ i' = i + 1
    /\ inside' = "main"
    /\ UNCHANGED <<argv, phase, out, shown, machine, walk>>

\* The inits that are one step here too.
ScanOther ==
    /\ inside = "main"
    /\ Inits((U!Static \cup U!Direct) \ {"tcp", "bat", "mem"})
    /\ U!ScanInit \/ U!ScanFail
    /\ UNCHANGED <<inside, shown, sock, machine, bat, mem, walk>>

\* A slip: 'inited' is forgotten, and everything is read again.
Bug_CallTcp ==
    /\ inside = "main"
    /\ Inits({"tcp"})
    /\ inside' = "tcp_init"
    /\ tpc' = "open" /\ v' = 4
    /\ UNCHANGED <<k, tcp, tcpv, sockets, fd, lowest, exists6, opened>>
    /\ UNCHANGED <<driver, shown, machine, bat, mem, walk>>

\* tpc = "done" is the flag 'inited'.
CallTcp ==
    /\ inside = "main"
    /\ Inits({"tcp"})
    /\ inside' = "tcp_init"
    /\ UNCHANGED <<driver, shown, sock, machine, bat, mem, walk>>

StepTcp ==
    /\ inside = "tcp_init"
    /\ T!LinuxStep
    /\ UNCHANGED <<driver, inside, shown, machine, bat, mem, walk>>

Asked(f) == reads' = [reads EXCEPT ![f] = @ + 1]
Holds(f, r) == held' = [held EXCEPT ![f] = r]
MarkReady == ready' = [ready EXCEPT ![Selected] = TRUE]

TcpReturns1 ==
    /\ inside = "tcp_init" /\ tpc = "done"
    /\ Returns1
    /\ MarkReady
    /\ IF held["tcp"].nonzero THEN UNCHANGED <<held, reads>>
                              ELSE Asked("tcp") /\ Holds("tcp", U!Fresh)
    /\ UNCHANGED <<sock, bat, mem>>

TcpReturns0 ==
    /\ inside = "tcp_init" /\ tpc = "failed"
    /\ phase' = "failed"
    /\ inside' = "main"
    /\ Asked("tcp")
    /\ UNCHANGED <<argv, i, ready, m, held, out, shown, sock, machine, bat, mem, walk>>

CallBat ==
    /\ inside = "main"
    /\ Inits({"bat"})
    /\ inside' = "bat_init"
    /\ row' = CHOOSE r \in DOMAIN BatName : RowNamed[r] = Selected
    /\ UNCHANGED <<driver, shown, sock, machine, mem, walk>>
    /\ B!CallInit

StepBat ==
    /\ inside = "bat_init"
    /\ UNCHANGED <<driver, inside, shown, sock, machine, mem, walk>>
    /\ B!OpenStatus \/ B!ReadStatus \/ B!OpenCapacity \/ B!ReadCapacity \/ B!ReadFails

BatReturns1 ==
    /\ inside = "bat_init" /\ bpc = "return"
    /\ Returns1
    /\ MarkReady
    /\ Asked("bat") /\ Holds("bat", U!Fresh)
    /\ UNCHANGED <<sock, mem>>
    /\ B!Return

\* A slip: a number that is there is kept, and the other one asked for.
Bug_Sysinfo ==
    mem' = [total |-> IF mem.total > 0 THEN mem.total ELSE sysinfo.total,
            free |-> IF mem.free > 0 THEN mem.free ELSE sysinfo.free]

\* Both numbers at once.
Sysinfo == mem' = sysinfo

MemRead(s) == s.total > 0 /\ s.free > 0

InitMem ==
    /\ inside = "main"
    /\ Inits({"mem"})
    /\ Returns1
    /\ \/ MemRead(mem) /\ UNCHANGED <<ready, held, reads, mem>>
       \/ /\ ~ MemRead(mem)
          /\ MarkReady
          /\ Asked("mem")
          /\ \/ /\ Sysinfo
                /\ Holds("mem", IF MemRead(mem') THEN U!Fresh ELSE U!FreshZero)
             \/ UNCHANGED <<mem, held>>
    /\ UNCHANGED <<sock, bat>>

-----------------------------------------------------------------------------
(***************************************************************************)
(* main: the second loop.                                                  *)
(***************************************************************************)

StartPrint ==
    /\ inside = "main"
    /\ U!StartPrint
    /\ UNCHANGED <<inside, shown, sock, machine, mem, walk>>
    /\ IF \E r \in DOMAIN BatName : ready[RowNamed[r]] THEN B!StartPrint
                                                      ELSE UNCHANGED bat

\* A slip: ntcp6_closing_print shows the IPv4 counter.
Bug_Counter(name) ==
    LET c == CASE Len(name) > 1 /\ name[2] = "4" -> tcpv[4]
               [] Len(name) > 1 /\ name[2] = "6" /\ Last(name) # ".c" -> tcpv[6]
               [] Len(name) > 1 /\ name[2] = "6" /\ Last(name) = ".c" -> tcpv[4]
               [] OTHER -> tcp
    IN CASE Last(name) = ".e" -> c[TCP_STATE_FIRST]
         [] Last(name) = ".l" -> c[TCP_STATE_LAST - 1]
         [] Last(name) = ".c" -> c[TCP_STATE_LAST]
         [] OTHER -> c[INDEX_TOTAL]

\* TCP_ESTABLISHED is the first state, TCP_CLOSING the last, and TCP_LISTEN
\* the one before.
Counter(name) ==
    LET c == CASE Len(name) > 1 /\ name[2] = "4" -> tcpv[4]
               [] Len(name) > 1 /\ name[2] = "6" -> tcpv[6]
               [] OTHER -> tcp
    IN CASE Last(name) = ".e" -> c[TCP_STATE_FIRST]
         [] Last(name) = ".l" -> c[TCP_STATE_LAST - 1]
         [] Last(name) = ".c" -> c[TCP_STATE_LAST]
         [] OTHER -> c[INDEX_TOTAL]

\* A slip: bat+ is printed with the function of bat%.
Bug_BatShows(name) == level

BatShows(name) == IF name = BatName["bat%"] THEN level ELSE is_charging

MemShows(name) ==
    CASE Len(name) > 1 /\ name[2] = "f" -> mem.free
      [] Len(name) > 1 /\ name[2] = "r" -> <<mem.free, mem.total>>
      [] OTHER -> mem.total

Nothing == -1   \* what the other rows show is not followed

Shows(j) ==
    LET name == Modules[j].name IN
    CASE Modules[j].family = "tcp" ->
            IF Last(name) = "dump" THEN T!ntcp_print ELSE Counter(name)
      [] Modules[j].family = "bat" -> BatShows(name)
      [] Modules[j].family = "mem" -> MemShows(name)
      [] OTHER -> Nothing

IsNproc(j) == Modules[j].name = <<"nproc">>

\* The print function of m[i] writes w.
Writes(w) ==
    /\ U!PrintArg
    /\ shown' = Append(shown, w)
    /\ UNCHANGED <<sock, now, present, status, capacity, batteries, sysinfo,
                   memories, bat, mem>>

PrintArg ==
    /\ inside = "main" /\ phase = "print" /\ i <= Len(argv) /\ ~ IsNproc(m[i])
    /\ Writes(Shows(m[i]))
    /\ UNCHANGED <<inside, alive, walk>>

CallNproc ==
    /\ inside = "main" /\ phase = "print" /\ i <= Len(argv) /\ IsNproc(m[i])
    /\ \/ /\ OpenDir
          /\ inside' = "nproc_print"
          /\ UNCHANGED <<driver, now, shown, sock, present, status, capacity, batteries,
                         sysinfo, memories, bat, mem>>
       \/ /\ OpenDirFails
          /\ Writes(val')
          /\ UNCHANGED inside

StepNproc ==
    /\ inside = "nproc_print"
    /\ ReadDir
    /\ UNCHANGED <<driver, inside, shown, sock, machine, bat, mem>>

NprocReturns ==
    /\ inside = "nproc_print"
    /\ CloseDir
    /\ Writes(val)
    /\ inside' = "main"

Exit ==
    /\ inside = "main"
    /\ U!Exit
    /\ UNCHANGED <<inside, shown, sock, machine, bat, mem, walk>>

-----------------------------------------------------------------------------
Program ==
    \/ StartScan \/ ScanReady \/ ScanOther \/ InitMem
    \/ CallTcp   \/ StepTcp   \/ TcpReturns1 \/ TcpReturns0
    \/ CallBat   \/ StepBat   \/ BatReturns1
    \/ StartPrint \/ PrintArg \/ Exit
    \/ CallNproc \/ StepNproc \/ NprocReturns

Ended == phase \in U!Exits \/ bpc = "undefined"

Gone == Ended /\ UNCHANGED vars

Next == Machine \/ Program \/ Gone

\* The program is scheduled again; the machine need not change.
Spec == Init /\ [][Next]_vars /\ WF_vars(Program)

-----------------------------------------------------------------------------
(***************************************************************************)
(* Properties.                                                             *)
(***************************************************************************)

NameAt(l) == Modules[m[l]].name
Shown(family) == {l \in DOMAIN shown : Modules[m[l]].family = family}

\* The inits in steps, between which the machine changes, are for main what
\* Ustat says of each of them in one step; all that was shown for Ustat (one
\* snapshot, all or nothing, read once) then holds of the whole program.
InitsAreOneStep == U!Init /\ [][U!Next]_(U!vars)

\* The sockets a row is about, from the history of what was read.
SocketsOf(name) ==
    LET F == CASE Len(name) > 1 /\ name[2] = "4" -> {4}
               [] Len(name) > 1 /\ name[2] = "6" -> {6}
               [] OTHER -> {4, 6}
        S == CASE Last(name) = ".e" -> {TCP_STATE_FIRST}
               [] Last(name) = ".l" -> {TCP_STATE_LAST - 1}
               [] Last(name) = ".c" -> {TCP_STATE_LAST}
               [] OTHER -> TCP_STATE_FIRST .. TCP_STATE_LAST
    IN MapThenSumSet(LAMBDA f : MapThenSumSet(LAMBDA s : sockets[f][s], S), F)

\* Each of the twelve tcp rows shows the sockets of its family and state, in
\* whatever order the rows are asked for and whichever of them made the
\* counters be filled; and the IPv6 sockets are among them, unless there are
\* none or the program was started without a stdin.
ShowsSockets ==
    /\ \A l \in Shown("tcp") :
          Last(NameAt(l)) # "dump" => shown[l] = SocketsOf(NameAt(l))
    /\ Shown("tcp") # {} /\ exists6 /\ lowest # 0 => opened = {4, 6}

\* The battery on the line is one that was: the level is one it had, or 100
\* where it was missing, and no row shows a charging that never was, or misses
\* one that always was; two rows of the line do not contradict each other.
ShowsBattery ==
    /\ \A l \in Shown("bat") :
          IF NameAt(l) = BatName["bat%"]
          THEN \E b \in batteries : b.capacity = shown[l]
          ELSE \E b \in batteries : (b.status = "Charging") = (shown[l] = 1)
    /\ \A l, n \in Shown("bat") :
          {NameAt(l), NameAt(n)} \subseteq {BatName["bat+"], BatName["bat+h"]}
          => shown[l] = shown[n]

\* All memory numbers of a line are from one moment (or zero, if the system
\* told nothing), although a row whose init finds a zero asks again.
MemoryOfOneMoment ==
    \E s \in memories \cup {NoMemory} :
        \A l \in Shown("mem") :
            shown[l] =
                CASE NameAt(l) \in {<<"mem", "h">>, <<"mem">>}      -> s.total
                  [] NameAt(l) \in {<<"mem", "f", "h">>, <<"mem", "f">>} -> s.free
                  [] NameAt(l) = <<"mem", "r">> -> <<s.free, s.total>>

\* Every line ends, or the battery is taken out in the middle of a read.
Termination == <>Ended

=============================================================================
