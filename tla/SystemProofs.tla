---------------------------- MODULE SystemProofs ----------------------------
(***************************************************************************)
(* Proofs about the whole program on its machine, for every table, every   *)
(* argument list, and whatever changes between two steps: the composition  *)
(* implements the driver's model, so that what UstatProofs shows of that   *)
(* holds here; and the numbers on the line are those the machine had.      *)
(***************************************************************************)
EXTENDS System, FiniteSetTheorems, TLAPS

\* What is proved of the driver's model, and of that of the socket counters;
\* of the latter the part about Linux, so that BSD's list stands still.
P == INSTANCE UstatProofs

TP == INSTANCE TcpProofs WITH pc <- tpc, i <- k, seen <- sockets,
    Slack <- 0, MaxChanges <- 0, list <- << >>, changes <- 0, abi <- "same",
    room <- 0, buf <- << >>, pos <- 0, rc <- 0

-----------------------------------------------------------------------------
(***************************************************************************)
(* main calls the init of the first row that the argument starts with.     *)
(***************************************************************************)

LEMMA Least ==
    ASSUME NEW S \in SUBSET Nat, S # {}
    PROVE  Min(S) \in S /\ \A x \in S : Min(S) <= x
<1> DEFINE Less == {ss \in Nat \X Nat : ss[1] < ss[2]}
<1>1. IsWellFoundedOn(Less, Nat)
  BY NatLessThanWellFounded DEF OpToRel
<1> HIDE DEF Less
<1>2. PICK x \in S : \A y \in S : ~ (<<y, x>> \in Less)
  BY <1>1, WFMin
<1>3. \A y \in S : x <= y
  <2> SUFFICES ASSUME NEW y \in S, ~ (x <= y) PROVE FALSE
    OBVIOUS
  <2>1. x \in Nat /\ y \in Nat /\ y < x
    OBVIOUS
  <2>2. <<y, x>> \in Less
    BY <2>1 DEF Less
  <2> QED
    BY <1>2, <2>2
<1> QED
  BY <1>3 DEF Min

LEMMA SelectedRow ==
    /\ Selected \in 1 .. NModules
    /\ Selected < NModules => P!str_start(argv[i], Modules[Selected].name)
    /\ \A j \in 1 .. Selected - 1 : ~ P!str_start(argv[i], Modules[j].name)
<1> DEFINE S == {NModules} \cup
                {j \in 1 .. NModules - 1 : U!str_start(argv[i], Modules[j].name)}
<1>1. NModules \in Nat \ {0}
  BY PartsAssumption DEF U!ModulesAssumption
<1>2. S \in SUBSET Nat /\ S # {} /\ S \subseteq 1 .. NModules
  BY <1>1
<1>3. Selected = Min(S)
  BY DEF Selected
<1> HIDE DEF S
<1>4. Selected \in S /\ \A x \in S : Selected <= x
  BY <1>2, <1>3, Least
<1>5. \A j : U!str_start(argv[i], j) <=> P!str_start(argv[i], j)
  BY DEF U!str_start, U!IsPrefix, P!str_start, P!IsPrefix
<1> QED
  BY <1>1, <1>2, <1>4, <1>5 DEF S

-----------------------------------------------------------------------------
(***************************************************************************)
(* The driver inside the composition.                                      *)
(***************************************************************************)

Driven == P!TypeOK /\ P!Counted /\ P!AllOrNothing

\* Which function main is in fits the argument main is at, and the driver's
\* account of the statics fits the statics.
Control ==
    /\ inside \in {"main", "tcp_init", "bat_init", "nproc_print"}
    /\ inside = "tcp_init" => Inits({"tcp"})
    /\ inside = "bat_init" => Inits({"bat"})
    /\ inside = "nproc_print" => phase = "print" /\ IsNproc(m[i])
    /\ held["tcp"].nonzero => tpc = "done"
    /\ held["mem"].nonzero <=> MemRead(mem)

\* What UstatProofs assumes of the table holds here.
LEMMA TableOfSystem ==
    /\ NModules \in Nat \ {0}
    /\ Modules \in [P!Rows -> [name : P!Word, family : P!Static \cup P!Direct]]
    /\ Modules[0].family = "text"
    /\ \A j, l \in 1 .. NModules - 1 :
          j < l => ~ P!str_start(Modules[l].name, Modules[j].name)
    /\ Argvs \subseteq Seq(P!Word)
    /\ MaxInstant \in Nat \ {0}
  BY PartsAssumption
     DEF U!ModulesAssumption, U!TableAssumption, U!ArgvsAssumption,
         U!MaxInstantAssumption, U!Rows, U!Word, U!Static, U!Direct,
         U!str_start, U!IsPrefix, P!Rows, P!Word, P!Static, P!Direct,
         P!str_start, P!IsPrefix

LEMMA SameInit == U!Init <=> P!Init
  BY DEF U!Init, P!Init, U!Rows, P!Rows, U!Static, P!Static, U!Unread, P!Unread

LEMMA SameActions ==
    /\ U!StartScan <=> P!StartScan
    /\ U!ScanReady <=> P!ScanReady
    /\ U!StartPrint <=> P!StartPrint
    /\ U!PrintArg <=> P!PrintArg
    /\ U!Exit <=> P!Exit
<1>1. U!StartScan <=> P!StartScan
  BY DEF U!StartScan, P!StartScan, U!WantsUsage, P!WantsUsage,
         U!str_start, U!IsPrefix, P!str_start, P!IsPrefix
<1>2. U!ScanReady <=> P!ScanReady
  BY DEF U!ScanReady, P!ScanReady, U!StopsAt, P!StopsAt, U!RowAt, P!RowAt,
         U!str_start, U!IsPrefix, P!str_start, P!IsPrefix
<1>3. U!StartPrint <=> P!StartPrint
  BY DEF U!StartPrint, P!StartPrint
<1>4. U!PrintArg <=> P!PrintArg
  BY DEF U!PrintArg, P!PrintArg, U!Prints, P!Prints, U!Static, P!Static,
         U!Fresh, P!Fresh, U!Unread, P!Unread
<1>5. U!Exit <=> P!Exit
  BY DEF U!Exit, P!Exit
<1> QED
  BY <1>1, <1>2, <1>3, <1>4, <1>5

LEMMA SameCalls ==
    ASSUME NEW j, NEW rc
    PROVE  U!CallInit(j, rc) <=> P!CallInit(j, rc)
  BY DEF U!CallInit, P!CallInit, U!Direct, P!Direct,
         U!no_init, P!no_init, U!refresh_init, P!refresh_init,
         U!mem_init, P!mem_init, U!fs_init, P!fs_init, U!tcp_init, P!tcp_init,
         U!nusers_init, P!nusers_init, U!MarkReady, P!MarkReady,
         U!Ask, P!Ask, U!Store, P!Store, U!Fresh, P!Fresh,
         U!FreshZero, P!FreshZero

LEMMA SameInits ==
    /\ U!ScanInit <=> P!ScanInit
    /\ U!ScanFail <=> P!ScanFail
<1>1. \A a, j : U!StopsAt(a, j) <=> P!StopsAt(a, j)
  BY DEF U!StopsAt, P!StopsAt, U!str_start, U!IsPrefix, P!str_start, P!IsPrefix
<1>2. \A j : U!RowAt(j) = P!RowAt(j)
  BY DEF U!RowAt, P!RowAt
<1> QED
  BY <1>1, <1>2, SameCalls DEF U!ScanInit, P!ScanInit, U!ScanFail, P!ScanFail

LEMMA SameNext == (U!Next <=> P!Next) /\ (UNCHANGED U!vars <=> UNCHANGED P!vars)
<1>1. U!Tick <=> P!Tick
  BY DEF U!Tick, P!Tick
<1>2. U!Usage <=> P!Usage
  BY DEF U!Usage, P!Usage, U!WantsUsage, P!WantsUsage, U!Unread, P!Unread,
         U!str_start, U!IsPrefix, P!str_start, P!IsPrefix
<1>3. UNCHANGED U!vars <=> UNCHANGED P!vars
  BY DEF U!vars, P!vars
<1>4. U!Gone <=> P!Gone
  BY <1>3 DEF U!Gone, P!Gone, U!Exits, P!Exits
<1> QED
  BY <1>1, <1>2, <1>3, <1>4, SameActions, SameInits
     DEF U!Next, P!Next, U!Main, P!Main

-----------------------------------------------------------------------------
(***************************************************************************)
(* Every step of the composition is a step of the driver, or none of it.   *)
(***************************************************************************)

\* The row whose init is called is where the loop over the rows stops.
LEMMA InitsStops ==
    ASSUME NEW F, Inits(F)
    PROVE  /\ Selected \in 1 .. NModules - 1
           /\ Selected \in P!Rows
           /\ P!StopsAt(argv[i], Selected)
           /\ P!RowAt(Selected) = Selected
           /\ phase = "scan" /\ i <= Len(argv) /\ ~ ready[Selected]
           /\ Modules[Selected].family \in F
<1>1. NModules \in Nat \ {0}
  BY TableOfSystem
<1>2. Selected < NModules
  BY DEF Inits
<1>3. Selected \in 1 .. NModules - 1
  BY <1>1, <1>2, SelectedRow
<1>4. P!RowAt(Selected) = Selected /\ Selected \in P!Rows
  BY <1>1, <1>3 DEF P!RowAt, P!Rows
<1> QED
  BY <1>2, <1>3, <1>4, SelectedRow DEF Inits, P!StopsAt

\* An init in steps, which has returned 1, is for main one call.
LEMMA ReturnsInit ==
    ASSUME NEW F, Inits(F), Returns1, P!CallInit(Selected, TRUE), UNCHANGED now
    PROVE  P!ScanInit
<1> DEFINE j == Selected
<1>1. /\ j \in 1 .. NModules - 1
      /\ P!StopsAt(argv[i], j) /\ ~ ready[j] /\ P!RowAt(j) = j
      /\ phase = "scan" /\ i <= Len(argv)
  BY InitsStops
<1>2. m' = Append(m, P!RowAt(j))
  BY <1>1 DEF Returns1
<1> QED
  BY <1>1, <1>2 DEF P!ScanInit, Returns1

LEMMA DriverStep ==
    Driven /\ Control /\ [Next]_vars => [P!Next]_(P!vars)
<1> SUFFICES ASSUME Driven, Control, [Next]_vars
             PROVE  P!Next \/ UNCHANGED P!vars
  OBVIOUS
<1>1. CASE Machine
  <2>1. P!Tick
    BY <1>1 DEF Machine, BatteryChanges, MemoryChanges, ProcessesChange, Runs,
                P!Tick, driver
  <2> QED
    BY <2>1 DEF P!Next
<1>2. CASE StartScan \/ ScanReady \/ ScanOther \/ StartPrint \/ PrintArg \/ Exit
  <2>1. P!Main
    BY <1>2, SameActions, SameInits
       DEF StartScan, ScanReady, ScanOther, StartPrint, PrintArg, Writes, Exit, P!Main
  <2> QED
    BY <2>1 DEF P!Next
<1>3. CASE InitMem
  <2>1. Inits({"mem"}) /\ Returns1 /\ UNCHANGED now
    BY <1>3 DEF InitMem, Returns1, machine
  <2>2. Modules[Selected].family = "mem"
    BY <2>1, InitsStops
  <2>3. P!mem_init(Selected, TRUE)
    BY <1>3 DEF InitMem, Control, P!mem_init, MarkReady, P!MarkReady, Asked,
                P!Ask, Holds, P!Store, U!Fresh, P!Fresh, U!FreshZero, P!FreshZero
  <2>4. P!CallInit(Selected, TRUE)
    BY <2>2, <2>3 DEF P!CallInit
  <2>5. P!ScanInit
    BY <2>1, <2>4, ReturnsInit
  <2> QED
    BY <2>5 DEF P!Next, P!Main
<1>4. CASE CallTcp \/ StepTcp \/ CallBat \/ StepBat \/ StepNproc \/ Gone \/ UNCHANGED vars
  <2>1. UNCHANGED driver /\ UNCHANGED now
    BY <1>4 DEF CallTcp, StepTcp, CallBat, StepBat, StepNproc, Gone, vars, machine
  <2> QED
    BY <2>1 DEF driver, P!vars
<1>5. CASE TcpReturns1
  <2>1. Inits({"tcp"}) /\ Returns1 /\ UNCHANGED now
    BY <1>5 DEF TcpReturns1, Returns1, machine, Control
  <2>2. Modules[Selected].family = "tcp"
    BY <2>1, InitsStops
  <2>3. P!tcp_init(Selected, TRUE)
    BY <1>5 DEF TcpReturns1, P!tcp_init, MarkReady, P!MarkReady, Asked,
                P!Ask, Holds, P!Store, U!Fresh, P!Fresh
  <2>4. P!CallInit(Selected, TRUE)
    BY <2>2, <2>3 DEF P!CallInit
  <2>5. P!ScanInit
    BY <2>1, <2>4, ReturnsInit
  <2> QED
    BY <2>5 DEF P!Next, P!Main
<1>6. CASE TcpReturns0
  <2>1. Inits({"tcp"}) /\ ~ held["tcp"].nonzero
    BY <1>6 DEF TcpReturns0, Control
  <2>2. /\ Modules[Selected].family = "tcp" /\ Selected \in 1 .. NModules - 1
        /\ P!StopsAt(argv[i], Selected) /\ ~ ready[Selected]
        /\ phase = "scan" /\ i <= Len(argv)
    BY <2>1, InitsStops
  <2>3. P!CallInit(Selected, FALSE)
    BY <1>6, <2>1, <2>2 DEF TcpReturns0, P!CallInit, P!tcp_init, Asked, P!Ask
  <2>4. P!ScanFail
    BY <1>6, <2>2, <2>3 DEF P!ScanFail, TcpReturns0, machine
  <2> QED
    BY <2>4 DEF P!Next, P!Main
<1>7. CASE BatReturns1
  <2>1. Inits({"bat"}) /\ Returns1 /\ UNCHANGED now
    BY <1>7 DEF BatReturns1, Returns1, machine, Control
  <2>2. Modules[Selected].family = "bat"
    BY <2>1, InitsStops
  <2>3. P!refresh_init(Selected, TRUE)
    BY <1>7, <2>2 DEF BatReturns1, P!refresh_init, MarkReady, P!MarkReady, Asked,
                P!Ask, Holds, P!Store, U!Fresh, P!Fresh
  <2>4. P!CallInit(Selected, TRUE)
    BY <2>2, <2>3 DEF P!CallInit
  <2>5. P!ScanInit
    BY <2>1, <2>4, ReturnsInit
  <2> QED
    BY <2>5 DEF P!Next, P!Main
<1>8. CASE CallNproc \/ NprocReturns
  <2>1. P!PrintArg \/ UNCHANGED P!vars
    BY <1>8, SameActions DEF CallNproc, NprocReturns, Writes, driver, P!vars
  <2> QED
    BY <2>1 DEF P!Next, P!Main
<1> QED
  BY <1>1, <1>2, <1>3, <1>4, <1>5, <1>6, <1>7, <1>8 DEF Next, Program

\* The loop over the rows stops at one row only.
LEMMA StopsOnce ==
    ASSUME NEW j \in 1 .. NModules - 1, P!StopsAt(argv[i], j)
    PROVE  j = Selected
<1>1. NModules \in Nat \ {0}
  BY TableOfSystem
<1>2. j < NModules /\ P!str_start(argv[i], Modules[j].name)
  BY <1>1 DEF P!StopsAt
<1>3. \A l \in 1 .. j - 1 : ~ P!str_start(argv[i], Modules[l].name)
  BY DEF P!StopsAt
<1>4. Selected \in Nat /\ Selected >= 1 /\ ~ (j \in 1 .. Selected - 1)
  BY <1>1, <1>2, SelectedRow
<1>5. Selected <= j
  BY <1>1, <1>4
<1>6. P!str_start(argv[i], Modules[Selected].name)
  BY <1>1, <1>2, <1>5, SelectedRow
<1> QED
  BY <1>1, <1>3, <1>4, <1>5, <1>6

\* The inits that are one step here leave the other statics and rows alone.
LEMMA ScanOtherKeeps ==
    ASSUME Driven, ScanOther
    PROVE  /\ \A f \in {"tcp", "bat", "mem"} :
                 /\ held'[f] = held[f]
                 /\ \A j \in P!Rows :
                       Modules[j].family = f => ready'[j] = ready[j]
           /\ \/ m' = m
              \/ /\ m' = Append(m, Selected) /\ Selected \in P!Rows
                 /\ Modules[Selected].family \notin {"tcp", "bat", "mem"}
<1> DEFINE F == (U!Static \cup U!Direct) \ {"tcp", "bat", "mem"}
<1>1. Inits(F) /\ (P!ScanInit \/ P!ScanFail)
  BY SameInits DEF ScanOther
<1>2. PICK j \in 1 .. NModules - 1, rc \in BOOLEAN :
          /\ P!StopsAt(argv[i], j) /\ P!CallInit(j, rc)
          /\ m' = m \/ m' = Append(m, P!RowAt(j))
  BY <1>1 DEF P!ScanInit, P!ScanFail
<1>3. j = Selected
  BY <1>2, StopsOnce
<1>4. j \in P!Rows /\ Modules[j].family \in F /\ P!RowAt(j) = j
  BY <1>1, <1>3, InitsStops
<1>5. P!TypeOK
  BY DEF Driven
<1>6. ASSUME NEW f \in {"tcp", "bat", "mem"}
      PROVE  /\ held'[f] = held[f]
             /\ \A l \in P!Rows : l # j => ready'[l] = ready[l]
  <2>1. f \in P!Static /\ f # Modules[j].family
    BY <1>4 DEF P!Static
  <2> QED
    BY <1>2, <1>4, <1>5, <2>1, P!CallInitEffect, TableOfSystem
<1> QED
  BY <1>2, <1>3, <1>4, <1>6

LEMMA ControlInit == Init => Control
  BY DEF Init, U!Init, U!Static, U!Unread, Control, MemRead, NoMemory

LEMMA ControlStep ==
    Driven /\ Control /\ [Next]_vars => Control'
<1> SUFFICES ASSUME Driven, Control, [Next]_vars
             PROVE  Control'
  OBVIOUS
<1>0. /\ DOMAIN held = P!Static
      /\ {"tcp", "bat", "mem"} \subseteq P!Static
  BY DEF Driven, P!TypeOK, P!Static
<1>a. ASSUME UNCHANGED <<argv, phase, i, ready>>
      PROVE  \A F : Inits(F)' <=> Inits(F)
  BY <1>a DEF Inits, Selected
<1>1. CASE Machine \/ StepBat \/ StepNproc \/ Gone \/ UNCHANGED vars
  <2>1. UNCHANGED <<argv, phase, i, ready, m, inside, held, tpc, mem>>
    BY <1>1 DEF Machine, BatteryChanges, MemoryChanges, ProcessesChange, StepBat,
                StepNproc, Gone, vars, driver, sock
  <2> QED
    BY <1>a, <2>1 DEF Control, MemRead, IsNproc
<1>2. CASE StartScan \/ ScanReady \/ StartPrint \/ PrintArg \/ Exit
  <2>1. inside' = "main" /\ UNCHANGED <<held, tpc, mem>>
    BY <1>2 DEF StartScan, U!StartScan, ScanReady, U!ScanReady, StartPrint,
                U!StartPrint, PrintArg, Writes, U!PrintArg, Exit, U!Exit, sock, Control,
                Inits
  <2> QED
    BY <2>1 DEF Control, MemRead
<1>3. CASE ScanOther
  <2>1. inside' = "main" /\ UNCHANGED <<tpc, mem>>
    BY <1>3 DEF ScanOther, sock
  <2> QED
    BY <1>3, <2>1, ScanOtherKeeps DEF Control, MemRead
<1>4. CASE InitMem
  <2>1. inside' = "main" /\ tpc' = tpc /\ held'["tcp"] = held["tcp"]
    BY <1>0, <1>4 DEF InitMem, Returns1, sock, Holds
  <2>2. held'["mem"].nonzero <=> MemRead(mem')
    BY <1>0, <1>4 DEF InitMem, Control, MemRead, Holds, U!Fresh, U!FreshZero
  <2> QED
    BY <2>1, <2>2 DEF Control, MemRead
<1>5. CASE CallTcp \/ CallBat
  <2>1. UNCHANGED <<argv, phase, i, ready, held, tpc, mem>>
    BY <1>5 DEF CallTcp, CallBat, driver, sock
  <2>2. \/ inside' = "tcp_init" /\ Inits({"tcp"})
        \/ inside' = "bat_init" /\ Inits({"bat"})
    BY <1>5 DEF CallTcp, CallBat
  <2> QED
    BY <1>a, <2>1, <2>2 DEF Control, MemRead
<1>6. CASE StepTcp
  <2>1. UNCHANGED <<argv, phase, i, ready, m, inside, held, mem>>
    BY <1>6 DEF StepTcp, driver
  <2>2. tpc # "done"
    BY <1>6 DEF StepTcp, T!LinuxStep, T!NoProcNetTcp, T!OpenTcp, T!OpenTcp6,
                T!ProcessProcTcp, T!LinuxSum, T!SumState, T!SumTotal
  <2> QED
    BY <1>a, <2>1, <2>2 DEF Control, MemRead, IsNproc
<1>7. CASE TcpReturns1
  <2>1. inside' = "main" /\ tpc' = "done" /\ mem' = mem /\ held'["mem"] = held["mem"]
    BY <1>0, <1>7 DEF TcpReturns1, Returns1, sock, Holds
  <2> QED
    BY <2>1 DEF Control, MemRead
<1>8. CASE TcpReturns0
  BY <1>8 DEF TcpReturns0, sock, Control, MemRead
<1>9. CASE BatReturns1
  <2>1. /\ inside' = "main" /\ UNCHANGED <<tpc, mem>>
        /\ held'["tcp"] = held["tcp"] /\ held'["mem"] = held["mem"]
    BY <1>0, <1>9 DEF BatReturns1, Returns1, sock, Holds
  <2> QED
    BY <2>1 DEF Control, MemRead
<1>10. CASE CallNproc \/ NprocReturns
  <2>1. UNCHANGED <<held, tpc, mem>>
    BY <1>10 DEF CallNproc, NprocReturns, Writes, U!PrintArg, driver, sock
  <2>2. \/ inside' = "main"
        \/ inside' = "nproc_print" /\ phase' = "print" /\ IsNproc(m[i])'
    BY <1>10 DEF CallNproc, NprocReturns, driver, IsNproc
  <2> QED
    BY <2>1, <2>2 DEF Control, MemRead
<1> QED
  BY <1>1, <1>2, <1>3, <1>4, <1>5, <1>6, <1>7, <1>8, <1>9, <1>10 DEF Next, Program

\* The driver's own invariant, for the composition.
LEMMA DrivenInit == Init => Driven
  BY SameInit, P!TypeOKInit, TableOfSystem DEF Init, Driven

LEMMA DrivenStep ==
    Driven /\ Control /\ [Next]_vars => Driven'
  BY DriverStep, P!TypeOKStep, TableOfSystem DEF Driven

\* Whatever the machine does between two steps of an init or a print, for main
\* each of them is one step of Ustat.
THEOREM ComposedImplementsDriver == Spec => InitsAreOneStep
<1>1. Init => U!Init /\ Driven /\ Control
  BY DrivenInit, ControlInit DEF Init
<1>2. Driven /\ Control /\ [Next]_vars => Driven' /\ Control'
  BY DrivenStep, ControlStep
<1>3. Driven /\ Control /\ [Next]_vars => [U!Next]_(U!vars)
  <2> SUFFICES ASSUME Driven, Control, [Next]_vars
               PROVE  U!Next \/ UNCHANGED U!vars
    OBVIOUS
  <2> QED
    BY DriverStep, SameNext
<1> QED
  BY <1>1, <1>2, <1>3, PTL DEF Spec, InitsAreOneStep
-----------------------------------------------------------------------------
(***************************************************************************)
(* The statics that are followed: what they hold is the machine's.         *)
(***************************************************************************)

HadLevel == \E b \in batteries : b.capacity = level

\* The battery's statics hold what was read of it, once one init has returned
\* (and the charging from the moment its file was dealt with), whichever row's
\* init it was; before, the 100 they start with may be no level it ever had.
BatteryInv ==
    /\ B!Reading \in batteries
    /\ level = 100 \/ HadLevel
    /\ held["bat"].nonzero \/ bpc = "return" => HadLevel
    /\ is_charging \in {0, 1}
    /\ is_charging = 1 => \E b \in batteries : b.status = "Charging"
    /\ is_charging = 0 /\ (held["bat"].nonzero
                           \/ bpc \in {"open_capacity", "read_capacity", "return"})
       => \E b \in batteries : b.status # "Charging"

\* Both numbers of the memory are from one call of sysinfo.
MemoryInv ==
    /\ sysinfo \in memories
    /\ mem \in memories \cup {NoMemory}

\* A battery row that is ready, or selected, is one whose init has returned.
BatteryBacked ==
    /\ \A j \in P!Rows : ready[j] /\ Modules[j].family = "bat" => held["bat"].nonzero
    /\ \A l \in DOMAIN m : Modules[m[l]].family = "bat" => held["bat"].nonzero

Followed == {"tcp", "bat", "mem"}

\* What a row of the line shows is what its statics hold still, since no init
\* runs once printing has begun.
ShownInv ==
    /\ phase # "helped"
    /\ DOMAIN shown = 1 .. Len(out)
    /\ shown = [l \in DOMAIN shown |-> shown[l]]
    /\ \A l \in DOMAIN shown :
          Modules[m[l]].family \in Followed => shown[l] = Shows(m[l])

LEMMA BatteryInit == Init => BatteryInv
  BY DEF Init, U!Init, U!Static, U!Unread, B!Init, BatteryInv, HadLevel, B!Reading,
         B!NoBattery

\* A step that takes no battery away and leaves the statics keeps it.
LEMMA BatteryKept ==
    ASSUME BatteryInv, UNCHANGED <<level, is_charging>>,
           batteries \subseteq batteries', B!Reading' \in batteries',
           held'["bat"].nonzero <=> held["bat"].nonzero,
           bpc' = bpc \/ bpc' \in {"scan", "open_status", "read_status", "undefined", "print"}
    PROVE  BatteryInv'
  BY DEF BatteryInv, HadLevel

LEMMA BatteryStep ==
    Driven /\ Control /\ BatteryInv /\ [Next]_vars => BatteryInv'
<1> SUFFICES ASSUME Driven, Control, BatteryInv, [Next]_vars
             PROVE  BatteryInv'
  OBVIOUS
<1>0. /\ DOMAIN held = P!Static
      /\ {"tcp", "bat", "mem"} \subseteq P!Static
      /\ B!Reading \in batteries
  BY DEF Driven, P!TypeOK, P!Static, BatteryInv
<1>a. UNCHANGED <<present, status, capacity, batteries>>
      => B!Reading' \in batteries' /\ batteries \subseteq batteries'
  BY <1>0 DEF B!Reading, B!NoBattery
<1>1. CASE BatteryChanges
  <2>1. /\ UNCHANGED <<level, is_charging, bpc, held>>
        /\ batteries' = batteries \cup {B!Reading'}
    BY <1>1 DEF BatteryChanges, B!Change, driver
  <2> QED
    BY <2>1, BatteryKept
<1>2. CASE \/ MemoryChanges \/ ProcessesChange \/ StepNproc \/ CallTcp \/ StepTcp
           \/ Gone \/ UNCHANGED vars
  <2>1. UNCHANGED <<present, status, capacity, batteries, bpc, level, is_charging, held>>
    BY <1>2 DEF MemoryChanges, ProcessesChange, StepNproc, CallTcp, StepTcp, Gone,
                vars, driver, machine, bat
  <2> QED
    BY <1>a, <2>1, BatteryKept
<1>3. CASE StartScan \/ ScanReady \/ PrintArg \/ Exit \/ CallNproc \/ NprocReturns
  <2>1. UNCHANGED <<present, status, capacity, batteries, bpc, level, is_charging, held>>
    BY <1>3 DEF StartScan, U!StartScan, ScanReady, U!ScanReady, PrintArg, Exit, U!Exit,
                CallNproc, NprocReturns, Writes, U!PrintArg, driver, machine, bat
  <2> QED
    BY <1>a, <2>1, BatteryKept
<1>4. CASE ScanOther \/ InitMem \/ TcpReturns1 \/ TcpReturns0
  <2>1. UNCHANGED <<present, status, capacity, batteries, bpc, level, is_charging>>
    BY <1>4 DEF ScanOther, InitMem, TcpReturns1, TcpReturns0, Returns1, machine, bat
  <2>2. held'["bat"] = held["bat"]
    BY <1>0, <1>4, ScanOtherKeeps DEF InitMem, TcpReturns1, TcpReturns0, Holds
  <2> QED
    BY <1>a, <2>1, <2>2, BatteryKept
<1>5. CASE CallBat
  <2>1. /\ UNCHANGED <<present, status, capacity, batteries, level, is_charging, held>>
        /\ bpc' = "open_status"
    BY <1>5 DEF CallBat, B!CallInit, driver, machine
  <2> QED
    BY <1>a, <2>1, BatteryKept
<1>6. CASE StartPrint
  <2>1. /\ UNCHANGED <<present, status, capacity, batteries, level, is_charging, held>>
        /\ bpc' = "print" \/ bpc' = bpc
    BY <1>6 DEF StartPrint, U!StartPrint, B!StartPrint, machine, bat
  <2> QED
    BY <1>a, <2>1, BatteryKept
<1>7. CASE BatReturns1
  <2>1. /\ UNCHANGED <<present, status, capacity, batteries, level, is_charging>>
        /\ bpc = "return" /\ bpc' = "scan"
    BY <1>7 DEF BatReturns1, Returns1, B!Return, machine
  <2> QED
    BY <1>a, <2>1 DEF BatteryInv, HadLevel
<1>8. CASE StepBat
  <2>1. UNCHANGED <<present, status, capacity, batteries, held>>
    BY <1>8 DEF StepBat, driver, machine
  <2>2. B!OpenStatus \/ B!ReadStatus \/ B!OpenCapacity \/ B!ReadCapacity \/ B!ReadFails
    BY <1>8 DEF StepBat
  <2>3. CASE B!OpenStatus
    BY <1>0, <1>a, <2>1, <2>3
       DEF B!OpenStatus, BatteryInv, HadLevel, B!Reading, B!NoBattery
  <2>4. CASE B!ReadStatus
    BY <1>0, <1>a, <2>1, <2>4
       DEF B!ReadStatus, BatteryInv, HadLevel, B!Reading, B!Marker
  <2>5. CASE B!OpenCapacity
    BY <1>0, <1>a, <2>1, <2>5
       DEF B!OpenCapacity, BatteryInv, HadLevel, B!Reading, B!NoBattery
  <2>6. CASE B!ReadCapacity
    BY <1>0, <1>a, <2>1, <2>6 DEF B!ReadCapacity, BatteryInv, HadLevel, B!Reading
  <2>7. CASE B!ReadFails
    <3>1. UNCHANGED <<level, is_charging>> /\ bpc' = "undefined"
      BY <2>7 DEF B!ReadFails
    <3> QED
      BY <1>a, <2>1, <3>1, BatteryKept
  <2> QED
    BY <2>2, <2>3, <2>4, <2>5, <2>6, <2>7
<1> QED
  BY <1>1, <1>2, <1>3, <1>4, <1>5, <1>6, <1>7, <1>8 DEF Next, Program, Machine

LEMMA MemoryInit == Init => MemoryInv
  BY DEF Init, MemoryInv

LEMMA MemoryStep == MemoryInv /\ [Next]_vars => MemoryInv'
<1> SUFFICES ASSUME MemoryInv, [Next]_vars
             PROVE  MemoryInv'
  OBVIOUS
<1>1. CASE UNCHANGED <<sysinfo, memories, mem>>
  BY <1>1 DEF MemoryInv
<1>2. CASE MemoryChanges
  BY <1>2 DEF MemoryChanges, MemoryInv
<1>3. CASE InitMem
  <2>1. UNCHANGED <<sysinfo, memories>> /\ (mem' = mem \/ mem' = sysinfo)
    BY <1>3 DEF InitMem, Returns1, Sysinfo, machine
  <2> QED
    BY <2>1 DEF MemoryInv
<1>4. CASE BatteryChanges \/ ProcessesChange
  BY <1>1, <1>4 DEF BatteryChanges, ProcessesChange
<1>5. CASE \/ StartScan \/ ScanReady \/ ScanOther \/ CallTcp \/ StepTcp
           \/ TcpReturns1 \/ TcpReturns0 \/ CallBat \/ StepBat \/ BatReturns1
           \/ StartPrint \/ StepNproc \/ Exit \/ Gone \/ UNCHANGED vars
  BY <1>1, <1>5
     DEF StartScan, ScanReady, ScanOther, CallTcp, StepTcp, TcpReturns1, TcpReturns0,
         Returns1, CallBat, StepBat, BatReturns1, StartPrint, StepNproc, Exit,
         Gone, vars, machine
<1>6. CASE PrintArg \/ CallNproc \/ NprocReturns
  BY <1>1, <1>6 DEF PrintArg, CallNproc, NprocReturns, Writes
<1> QED
  BY <1>2, <1>3, <1>4, <1>5, <1>6 DEF Next, Program, Machine

-----------------------------------------------------------------------------
(***************************************************************************)
(* The rows of the line.                                                   *)
(***************************************************************************)

LEMMA BackedInit == Init => BatteryBacked
  BY DEF Init, U!Init, U!Rows, P!Rows, BatteryBacked

LEMMA BackedKept ==
    ASSUME Driven, BatteryBacked, held["bat"].nonzero => held'["bat"].nonzero,
           \A j \in P!Rows :
              Modules[j].family = "bat" => ready'[j] = ready[j] \/ held'["bat"].nonzero,
           m' = m \/ \E j \in P!Rows :
              /\ m' = Append(m, j)
              /\ Modules[j].family = "bat" => held'["bat"].nonzero
    PROVE  BatteryBacked'
<1>1. m \in Seq(P!Rows)
  BY DEF Driven, P!TypeOK
<1>2. \A l \in DOMAIN m' : Modules[m'[l]].family = "bat" => held'["bat"].nonzero
  <2>1. CASE m' = m
    BY <2>1 DEF BatteryBacked
  <2>2. CASE m' # m
    <3>1. PICK j \in P!Rows :
              /\ m' = Append(m, j)
              /\ Modules[j].family = "bat" => held'["bat"].nonzero
      BY <2>2
    <3>2. \A l \in DOMAIN m' : (l \in DOMAIN m /\ m'[l] = m[l]) \/ m'[l] = j
      BY <1>1, <3>1
    <3> QED
      BY <3>1, <3>2 DEF BatteryBacked
  <2> QED
    BY <2>1, <2>2
<1> QED
  BY <1>2 DEF BatteryBacked

LEMMA BackedStep ==
    Driven /\ Control /\ BatteryBacked /\ [Next]_vars => BatteryBacked'
<1> SUFFICES ASSUME Driven, Control, BatteryBacked, [Next]_vars
             PROVE  BatteryBacked'
  OBVIOUS
<1>0. /\ DOMAIN held = P!Static
      /\ {"tcp", "bat", "mem"} \subseteq P!Static
      /\ DOMAIN ready = P!Rows
  BY DEF Driven, P!TypeOK, P!Static
<1>1. CASE \/ Machine \/ StartScan \/ CallTcp \/ StepTcp \/ CallBat \/ StepBat
           \/ StartPrint \/ StepNproc \/ Exit \/ Gone \/ UNCHANGED vars
  <2>1. UNCHANGED <<ready, m, held>>
    BY <1>1 DEF Machine, BatteryChanges, MemoryChanges, ProcessesChange, StartScan,
                U!StartScan, CallTcp, StepTcp, CallBat, StepBat, StartPrint,
                U!StartPrint, StepNproc, Exit, U!Exit, Gone, vars, driver
  <2> QED
    BY <2>1, BackedKept
<1>2. CASE ScanReady
  <2>1. PICK j \in 1 .. NModules :
            (j < NModules => ready[j]) /\ m' = Append(m, P!RowAt(j))
    BY <1>2, SameActions DEF ScanReady, P!ScanReady
  <2>2. /\ P!RowAt(j) \in P!Rows
        /\ j < NModules => P!RowAt(j) = j
        /\ j = NModules => P!RowAt(j) = 0
        /\ j < NModules \/ j = NModules
    BY P!RowAtRow, TableOfSystem
  <2>3. UNCHANGED <<ready, held>>
    BY <1>2 DEF ScanReady, U!ScanReady
  <2>4. Modules[P!RowAt(j)].family = "bat" => held["bat"].nonzero
    BY <2>1, <2>2, TableOfSystem DEF BatteryBacked
  <2> QED
    BY <2>1, <2>2, <2>3, <2>4, BackedKept
<1>3. CASE ScanOther
  BY <1>3, ScanOtherKeeps, BackedKept
<1>4. CASE InitMem \/ TcpReturns1
  <2>1. PICK f \in {"mem", "tcp"} : Inits({f})
    BY <1>4 DEF InitMem, TcpReturns1, Control
  <2>2. Selected \in P!Rows /\ Modules[Selected].family # "bat"
    BY <2>1, InitsStops
  <2>3. m' = Append(m, Selected)
    BY <1>4 DEF InitMem, TcpReturns1, Returns1
  <2>4. held'["bat"] = held["bat"] /\ (ready' = ready \/ MarkReady)
    BY <1>0, <1>4 DEF InitMem, TcpReturns1, Holds
  <2> QED
    BY <1>0, <2>2, <2>3, <2>4, BackedKept DEF MarkReady
<1>5. CASE BatReturns1
  <2>1. Selected \in P!Rows
    BY <1>5, InitsStops DEF BatReturns1, Control
  <2>2. m' = Append(m, Selected) /\ held'["bat"].nonzero
    BY <1>0, <1>5 DEF BatReturns1, Returns1, Holds, U!Fresh
  <2> QED
    BY <2>1, <2>2, BackedKept
<1>6. CASE TcpReturns0
  BY <1>6, BackedKept DEF TcpReturns0
<1>7. CASE PrintArg \/ CallNproc \/ NprocReturns
  <2>1. UNCHANGED <<m, held>>
    BY <1>7 DEF PrintArg, CallNproc, NprocReturns, Writes, U!PrintArg, driver
  <2>2. \/ ready' = ready
        \/ Modules[m[i]].family = "date" /\ ready' = [ready EXCEPT ![m[i]] = TRUE]
    BY <1>7 DEF PrintArg, CallNproc, NprocReturns, Writes, U!PrintArg, driver
  <2>3. \A j \in P!Rows : Modules[j].family = "bat" => ready'[j] = ready[j]
    BY <1>0, <2>2
  <2> QED
    BY <2>1, <2>3, BackedKept
<1> QED
  BY <1>1, <1>2, <1>3, <1>4, <1>5, <1>6, <1>7 DEF Next, Program

\* The invariant of the socket counters holds on whatever line they are asked
\* for: only the steps of their own init touch them.
LEMMA StatesOfSystem ==
    /\ TCP_STATE_FIRST \in Nat
    /\ TCP_STATE_LAST \in Nat
    /\ TCP_STATE_FIRST <= TCP_STATE_LAST
    /\ INDEX_TOTAL \in Nat \ TP!States
    /\ MaxSockets \in Nat
  BY PartsAssumption DEF T!TcpCountersAssumption, T!States, TP!States

LEMMA SocketsInit == Init => TP!LinuxInv
<1>1. T!LinuxInit => TP!LinuxInit
  BY DEF T!LinuxInit, TP!LinuxInit, T!InitCounters, TP!InitCounters, T!Zero, TP!Zero,
         T!Indexes, TP!Indexes, T!States, TP!States, T!Families, TP!Families,
         T!NoSockets, TP!NoSockets
<1> QED
  BY <1>1, TP!InitLinuxInv, StatesOfSystem DEF Init

LEMMA SocketsStep == TP!LinuxInv /\ [Next]_vars => TP!LinuxInv'
<1> SUFFICES ASSUME TP!LinuxInv, [Next]_vars
             PROVE  TP!LinuxInv'
  OBVIOUS
<1>a. UNCHANGED sock => UNCHANGED TP!linux_vars
  BY DEF sock, TP!linux_vars, TP!counters, TP!files
<1>1. CASE StepTcp
  <2>1. T!LinuxStep
    BY <1>1 DEF StepTcp
  <2>2. TP!LinuxStep
    BY <2>1 DEF T!LinuxStep, TP!LinuxStep, T!NoProcNetTcp, TP!NoProcNetTcp, T!OpenTcp,
       TP!OpenTcp, T!OpenTcp6, TP!OpenTcp6, T!ProcessProcTcp, TP!ProcessProcTcp,
       T!LinuxSum, TP!LinuxSum, T!SumState, TP!SumState, T!SumTotal, TP!SumTotal,
       T!InRange, TP!InRange, T!counters, TP!counters, T!files, TP!files,
       T!Zero, TP!Zero, T!Indexes, TP!Indexes, T!States, TP!States,
       T!Families, TP!Families
  <2> QED
    BY <2>2, TP!LinuxInvStep, StatesOfSystem DEF TP!LinuxNext
<1>2. CASE UNCHANGED sock
  BY <1>a, <1>2, TP!LinuxInvStep, StatesOfSystem
<1>3. CASE \/ Machine \/ StartScan \/ ScanReady \/ ScanOther \/ InitMem \/ CallTcp
           \/ TcpReturns1 \/ TcpReturns0 \/ Exit \/ Gone \/ UNCHANGED vars
  BY <1>2, <1>3
     DEF Machine, BatteryChanges, MemoryChanges, ProcessesChange, StartScan, ScanReady,
         ScanOther, InitMem, CallTcp, TcpReturns1, TcpReturns0, Exit, Gone, vars
<1>4. CASE \/ CallBat \/ StepBat \/ BatReturns1 \/ StartPrint \/ PrintArg
           \/ CallNproc \/ StepNproc \/ NprocReturns
  BY <1>2, <1>4
     DEF CallBat, StepBat, BatReturns1, StartPrint, PrintArg, CallNproc, StepNproc,
         NprocReturns, Writes
<1> QED
  BY <1>1, <1>3, <1>4 DEF Next, Program

LEMMA ShownInit == Init => ShownInv
<1> SUFFICES ASSUME Init PROVE ShownInv
  OBVIOUS
<1>1. phase = "start" /\ out = << >> /\ shown = << >>
  BY DEF Init, U!Init
<1> QED
  BY <1>1 DEF ShownInv

LEMMA ShowsSame ==
    ASSUME UNCHANGED <<tcp, tcpv, level, is_charging, mem>>, NEW j
    PROVE  Shows(j)' = Shows(j)
  BY DEF Shows, T!ntcp_print, Counter, BatShows, MemShows, Nothing

\* What a sequence shows after Append.
LEMMA Appended ==
    ASSUME NEW s, NEW n \in Nat, DOMAIN s = 1 .. n, s = [l \in DOMAIN s |-> s[l]], NEW w
    PROVE  /\ DOMAIN Append(s, w) = 1 .. n + 1
           /\ Append(s, w) = [l \in DOMAIN Append(s, w) |-> Append(s, w)[l]]
           /\ Append(s, w)[n + 1] = w
           /\ \A l \in 1 .. n : Append(s, w)[l] = s[l]
<1> DEFINE S == {s[l] : l \in 1 .. n} \cup {w}
<1>1. s \in Seq(S) /\ Len(s) = n
  OBVIOUS
<1>2. /\ Append(s, w) \in Seq(S) /\ Len(Append(s, w)) = n + 1
      /\ Append(s, w)[n + 1] = w
      /\ \A l \in 1 .. n : Append(s, w)[l] = s[l]
  BY <1>1
<1> DEFINE t == Append(s, w)
<1> HIDE DEF t
<1>3. t \in Seq(S) /\ Len(t) = n + 1
  BY <1>2 DEF t
<1>4. DOMAIN t = 1 .. n + 1 /\ t = [l \in DOMAIN t |-> t[l]]
  BY <1>3
<1> QED
  BY <1>2, <1>4 DEF t

\* The print function of m[i] has written w.
LEMMA ShownWrites ==
    ASSUME Driven, ShownInv, NEW w, Writes(w),
           Modules[m[i]].family \in Followed => w = Shows(m[i])
    PROVE  ShownInv'
<1>1. /\ phase = "print" /\ phase' = phase /\ m' = m
      /\ i = Len(out) + 1 /\ out \in Seq(P!Entry)
      /\ UNCHANGED <<tcp, tcpv, level, is_charging, mem>>
  BY DEF Writes, U!PrintArg, Driven, P!TypeOK, P!Counted, sock, bat
<1>2. PICK v0 : out' = Append(out, v0) /\ v0 \in P!Entry
  <2>1. out' \in Seq(P!Entry)
    BY SameActions, P!TypeOKStep, TableOfSystem DEF Writes, Driven, P!Next, P!Main, P!TypeOK
  <2>2. PICK v1 : out' = Append(out, v1)
    BY DEF Writes, U!PrintArg
  <2> QED
    BY <1>1, <2>1, <2>2
<1>3. Len(out) \in Nat /\ Len(out') = Len(out) + 1
  BY <1>1, <1>2
<1>4. shown' = Append(shown, w)
  BY DEF Writes
<1>5. /\ DOMAIN shown' = 1 .. Len(out')
      /\ shown' = [l \in DOMAIN shown' |-> shown'[l]]
      /\ shown'[i] = w
      /\ \A l \in 1 .. Len(out) : shown'[l] = shown[l]
  <2>1. PICK n \in Nat : n = Len(out)
    BY <1>3
  <2>2. PICK s : s = shown
    OBVIOUS
  <2>3. DOMAIN s = 1 .. n /\ s = [l \in DOMAIN s |-> s[l]]
    BY <2>1, <2>2 DEF ShownInv
  <2>4. PICK t : t = Append(s, w)
    OBVIOUS
  <2>5. /\ DOMAIN t = 1 .. n + 1 /\ t = [l \in DOMAIN t |-> t[l]]
        /\ t[n + 1] = w /\ \A l \in 1 .. n : t[l] = s[l]
    BY <2>3, <2>4, Appended
  <2>6. shown' = t /\ Len(out') = n + 1 /\ i = n + 1
    BY <1>1, <1>3, <1>4, <2>1, <2>2, <2>4
  <2> QED
    BY <2>1, <2>2, <2>5, <2>6
<1>6. \A l \in DOMAIN shown' : l = i \/ l \in 1 .. Len(out)
  BY <1>1, <1>3, <1>5
<1>7. \A l \in DOMAIN shown' :
          Modules[m[l]].family \in Followed => shown'[l] = Shows(m[l])
  BY <1>5, <1>6 DEF ShownInv
<1> QED
  BY <1>1, <1>5, <1>7, ShowsSame DEF ShownInv, Followed

LEMMA ShownStep ==
    Driven /\ Control /\ ShownInv /\ [Next]_vars => ShownInv'
<1> SUFFICES ASSUME Driven, Control, ShownInv, [Next]_vars
             PROVE  ShownInv'
  OBVIOUS
<1>a. ASSUME UNCHANGED <<m, out, shown, tcp, tcpv, level, is_charging, mem>>, phase' # "helped"
      PROVE  ShownInv'
  BY <1>a, ShowsSame DEF ShownInv, Followed
<1>b. ASSUME phase \in {"start", "scan"}, UNCHANGED <<out, shown>>, phase' # "helped"
      PROVE  ShownInv'
  <2>1. out = << >>
    BY <1>b DEF Driven, P!AllOrNothing
  <2> QED
    BY <1>b, <2>1 DEF ShownInv
<1>1. CASE Machine \/ StepNproc \/ Exit \/ Gone \/ UNCHANGED vars
  <2>1. UNCHANGED <<m, out, shown, tcp, tcpv, level, is_charging, mem>> /\ phase' # "helped"
    BY <1>1 DEF Machine, BatteryChanges, MemoryChanges, ProcessesChange, B!Change,
                StepNproc, Exit, U!Exit, Gone, vars, driver, sock, bat, ShownInv
  <2> QED
    BY <1>a, <2>1
<1>2. CASE \/ StartScan \/ ScanReady \/ ScanOther \/ InitMem
           \/ CallTcp \/ CallBat \/ StartPrint
  <2>1. phase \in {"start", "scan"} /\ UNCHANGED <<out, shown>> /\ phase' # "helped"
    BY <1>2 DEF StartScan, U!StartScan, ScanReady, U!ScanReady, ScanOther, U!ScanInit,
                U!ScanFail, InitMem, Returns1, CallTcp, CallBat, Inits, StartPrint,
                U!StartPrint, driver
  <2> QED
    BY <1>b, <2>1
<1>3. CASE StepTcp \/ TcpReturns1 \/ TcpReturns0 \/ StepBat \/ BatReturns1
  <2>1. phase = "scan"
    BY <1>3 DEF StepTcp, TcpReturns1, TcpReturns0, StepBat, BatReturns1, Control, Inits
  <2>2. UNCHANGED <<out, shown>> /\ phase' # "helped"
    BY <1>3, <2>1 DEF StepTcp, TcpReturns1, TcpReturns0, StepBat, BatReturns1, Returns1, driver
  <2> QED
    BY <1>b, <2>1, <2>2
<1>4. CASE PrintArg
  BY <1>4, ShownWrites DEF PrintArg
<1>c. ASSUME IsNproc(m[i]), U!PrintArg PROVE Modules[m[i]].family \notin Followed
  <2>0. i \in 1 .. Len(m) /\ m \in Seq(P!Rows)
    BY <1>c DEF U!PrintArg, Driven, P!TypeOK, P!Counted
  <2>1. m[i] \in P!Rows
    BY <2>0
  <2> QED
    BY <1>c, <2>1, NamesAssumption DEF IsNproc, Followed, U!Rows, P!Rows
<1>5. CASE CallNproc
  <2>1. CASE Writes(val')
    BY <1>5, <2>1, <1>c, ShownWrites DEF CallNproc, Writes
  <2>2. CASE ~ Writes(val')
    <3>1. UNCHANGED <<m, out, shown, tcp, tcpv, level, is_charging, mem, phase>>
      BY <1>5, <2>2 DEF CallNproc, driver, sock, bat
    <3> QED
      BY <1>a, <3>1 DEF ShownInv
  <2> QED
    BY <2>1, <2>2
<1>6. CASE NprocReturns
  BY <1>6, <1>c, ShownWrites DEF NprocReturns, Writes, Control
<1> QED
  BY <1>1, <1>2, <1>3, <1>4, <1>5, <1>6 DEF Next, Program

-----------------------------------------------------------------------------
(***************************************************************************)
(* What the line shows.                                                    *)
(***************************************************************************)

SystemInv ==
    /\ Driven /\ Control
    /\ BatteryInv /\ MemoryInv
    /\ TP!LinuxInv
    /\ P!Backed /\ BatteryBacked /\ ShownInv

LEMMA SystemInvInit == Init => SystemInv
<1>1. Init => P!Backed
  BY SameInit, P!BackedInit, TableOfSystem DEF Init
<1> QED
  BY <1>1, DrivenInit, ControlInit, BatteryInit, MemoryInit, SocketsInit, BackedInit,
     ShownInit DEF SystemInv

LEMMA SystemInvStep == SystemInv /\ [Next]_vars => SystemInv'
<1>1. Driven /\ Control /\ P!Backed /\ [Next]_vars => P!Backed'
  BY DriverStep, P!BackedStep, TableOfSystem DEF Driven
<1> QED
  BY <1>1, DrivenStep, ControlStep, BatteryStep, MemoryStep, SocketsStep, BackedStep,
     ShownStep DEF SystemInv

\* What part l of the line shows is what the print of its row, m[l], would
\* write now.
LEMMA ShownNow ==
    ASSUME SystemInv, NEW f \in Followed, NEW l \in Shown(f)
    PROVE  /\ l \in DOMAIN m /\ m[l] \in P!Rows
           /\ Modules[m[l]].family = f
           /\ shown[l] = Shows(m[l])
<1>1. l \in 1 .. Len(out) /\ Modules[m[l]].family = f /\ shown[l] = Shows(m[l])
  BY DEF Shown, SystemInv, ShownInv
<1>2. out \in Seq(P!Entry) /\ m \in Seq(P!Rows) /\ argv \in Seq(P!Word)
  BY DEF SystemInv, Driven, P!TypeOK
<1>3. out # << >>
  BY <1>1, <1>2
<1>4. phase \in {"print", "done"}
  BY <1>3 DEF SystemInv, Driven, P!TypeOK, P!Exits, P!AllOrNothing, ShownInv
<1>5. Len(m) = Len(argv) /\ Len(out) <= Len(argv)
  BY <1>4 DEF SystemInv, Driven, P!Counted
<1>6. l \in 1 .. Len(m)
  BY <1>1, <1>2, <1>5
<1> QED
  BY <1>1, <1>2, <1>6

\* The sums of System are those of the proofs about the counters.
LEMMA SocketsOfName ==
    ASSUME NEW name, NEW F, NEW S,
           F = (CASE Len(name) > 1 /\ name[2] = "4" -> {4}
                  [] Len(name) > 1 /\ name[2] = "6" -> {6}
                  [] OTHER -> {4, 6}),
           S = (CASE Last(name) = ".e" -> {TCP_STATE_FIRST}
                  [] Last(name) = ".l" -> {TCP_STATE_LAST - 1}
                  [] Last(name) = ".c" -> {TCP_STATE_LAST}
                  [] OTHER -> TCP_STATE_FIRST .. TCP_STATE_LAST)
    PROVE  SocketsOf(name) = TP!InFamilies(sockets, F, S)
  BY DEF SocketsOf, MapThenSumSet, MapThenFoldSet,
         TP!InFamilies, TP!InStates, TP!MapThenSumSet, TP!MapThenFoldSet

\* Every row of the socket counters shows the sockets it is about, and the IPv6
\* sockets are counted whenever there are some and descriptor 0 is taken.
THEOREM LineShowsSockets == Spec => []ShowsSockets
<1>1. SystemInv => ShowsSockets
  <2> SUFFICES ASSUME SystemInv PROVE ShowsSockets
    OBVIOUS
  <2>1. ASSUME NEW l \in Shown("tcp")
        PROVE  /\ tpc = "done"
               /\ Last(NameAt(l)) # "dump" => shown[l] = Counter(NameAt(l))
    <3>1. /\ l \in DOMAIN m /\ m \in Seq(P!Rows) /\ Modules[m[l]].family = "tcp"
          /\ shown[l] = Shows(m[l])
      BY ShownNow DEF Followed, SystemInv, Driven, P!TypeOK
    <3>2. held["tcp"].nonzero
      BY <3>1 DEF SystemInv, P!Backed, P!FamilyOf, P!Once
    <3> QED
      BY <3>1, <3>2 DEF Shows, NameAt, SystemInv, Control
  <2>2. ASSUME tpc = "done"
        PROVE  /\ \A x \in TP!States :
                     /\ tcp[x] = TP!InFamilies(sockets, {4, 6}, {x})
                     /\ tcpv[4][x] = TP!InFamilies(sockets, {4}, {x})
                     /\ tcpv[6][x] = TP!InFamilies(sockets, {6}, {x})
               /\ tcp[INDEX_TOTAL] = TP!InFamilies(sockets, {4, 6}, TP!States)
               /\ tcpv[4][INDEX_TOTAL] = TP!InFamilies(sockets, {4}, TP!States)
               /\ tcpv[6][INDEX_TOTAL] = TP!InFamilies(sockets, {6}, TP!States)
    <3>1. /\ TP!CountersTypeOK /\ TP!Shared /\ TP!Totalled
          /\ \A f \in TP!Families, s \in TP!States : tcpv[f][s] = sockets[f][s]
      BY DEF SystemInv, TP!LinuxInv, TP!LinuxTypeOK, TP!Copied
    <3>2. TP!Families = {4, 6} /\ 4 \in TP!Families /\ 6 \in TP!Families
      BY DEF TP!Families
    <3>3. /\ \A x \in TP!States :
                /\ tcp[x] = TP!InFamilies(sockets, TP!Families, {x})
                /\ \A f \in TP!Families : tcpv[f][x] = TP!InFamilies(sockets, {f}, {x})
          /\ tcp[INDEX_TOTAL] = TP!InFamilies(sockets, TP!Families, TP!States)
          /\ \A f \in TP!Families :
                tcpv[f][INDEX_TOTAL] = TP!InFamilies(sockets, {f}, TP!States)
      BY <2>2, <3>1, TP!CountersAtEnd, StatesOfSystem
    <3> QED
      BY <3>2, <3>3
  <2>3. ASSUME NEW l \in Shown("tcp"), Last(NameAt(l)) # "dump"
        PROVE  shown[l] = SocketsOf(NameAt(l))
    <3>1. PICK name : name = NameAt(l)
      OBVIOUS
    <3>2. PICK F : F = (CASE Len(name) > 1 /\ name[2] = "4" -> {4}
                          [] Len(name) > 1 /\ name[2] = "6" -> {6}
                          [] OTHER -> {4, 6})
      OBVIOUS
    <3>3. PICK S : S = (CASE Last(name) = ".e" -> {TCP_STATE_FIRST}
                          [] Last(name) = ".l" -> {TCP_STATE_LAST - 1}
                          [] Last(name) = ".c" -> {TCP_STATE_LAST}
                          [] OTHER -> TCP_STATE_FIRST .. TCP_STATE_LAST)
      OBVIOUS
    <3>4. PICK c : c = (CASE Len(name) > 1 /\ name[2] = "4" -> tcpv[4]
                          [] Len(name) > 1 /\ name[2] = "6" -> tcpv[6]
                          [] OTHER -> tcp)
      OBVIOUS
    <3>5. SocketsOf(name) = TP!InFamilies(sockets, F, S)
      BY <3>2, <3>3, SocketsOfName
    <3>6. /\ \A x \in TP!States : c[x] = TP!InFamilies(sockets, F, {x})
          /\ c[INDEX_TOTAL] = TP!InFamilies(sockets, F, TP!States)
      BY <2>1, <2>2, <3>2, <3>4
    <3>7. Counter(name) = CASE Last(name) = ".e" -> c[TCP_STATE_FIRST]
                            [] Last(name) = ".l" -> c[TCP_STATE_LAST - 1]
                            [] Last(name) = ".c" -> c[TCP_STATE_LAST]
                            [] OTHER -> c[INDEX_TOTAL]
      BY <3>4 DEF Counter
    <3>8. /\ TCP_STATE_FIRST \in TP!States /\ TCP_STATE_LAST \in TP!States
          /\ TCP_STATE_LAST - 1 \in TP!States
          /\ TP!States = TCP_STATE_FIRST .. TCP_STATE_LAST
      BY StatesOfSystem, PartsAssumption DEF TP!States
    <3>9. Counter(name) = TP!InFamilies(sockets, F, S)
      BY <3>3, <3>6, <3>7, <3>8
    <3> QED
      BY <2>1, <2>3, <3>1, <3>5, <3>9
  <2>4. Shown("tcp") # {} /\ exists6 /\ lowest # 0 => opened = {4, 6}
    BY <2>1 DEF SystemInv, TP!LinuxInv, TP!Opened, TP!Families
  <2> QED
    BY <2>3, <2>4 DEF ShowsSockets
<1> QED
  BY <1>1, SystemInvInit, SystemInvStep, PTL DEF Spec

\* No battery row shows what the battery never was, and none contradicts
\* another, whichever rows are asked for and whenever it changes.
THEOREM LineShowsBattery == Spec => []ShowsBattery
<1>1. SystemInv => ShowsBattery
  <2> SUFFICES ASSUME SystemInv PROVE ShowsBattery
    OBVIOUS
  <2>1. ASSUME NEW l \in Shown("bat")
        PROVE  /\ held["bat"].nonzero
               /\ shown[l] = IF NameAt(l) = BatName["bat%"] THEN level ELSE is_charging
    <3>1. l \in DOMAIN m /\ Modules[m[l]].family = "bat" /\ shown[l] = Shows(m[l])
      BY ShownNow DEF Followed
    <3> QED
      BY <3>1 DEF Shows, BatShows, NameAt, SystemInv, BatteryBacked
  <2>2. BatName["bat+"] # BatName["bat%"] /\ BatName["bat+h"] # BatName["bat%"]
    BY DEF BatName
  <2>3. \A l \in Shown("bat") :
            IF NameAt(l) = BatName["bat%"]
            THEN \E b \in batteries : b.capacity = shown[l]
            ELSE \E b \in batteries : (b.status = "Charging") = (shown[l] = 1)
    BY <2>1 DEF SystemInv, BatteryInv, HadLevel
  <2> QED
    BY <2>1, <2>2, <2>3 DEF ShowsBattery
<1> QED
  BY <1>1, SystemInvInit, SystemInvStep, PTL DEF Spec

\* Every memory row shows a number of one and the same moment.
THEOREM MemoryIsOfOneMoment == Spec => []MemoryOfOneMoment
<1>1. SystemInv => MemoryOfOneMoment
  <2> SUFFICES ASSUME SystemInv
               PROVE  \A l \in Shown("mem") : shown[l] =
                        CASE NameAt(l) \in {<<"mem", "h">>, <<"mem">>} -> mem.total
                          [] NameAt(l) \in {<<"mem", "f", "h">>, <<"mem", "f">>} -> mem.free
                          [] NameAt(l) = <<"mem", "r">> -> <<mem.free, mem.total>>
    BY DEF MemoryOfOneMoment, SystemInv, MemoryInv
  <2> TAKE l \in Shown("mem")
  <2>1. /\ Modules[m[l]].family = "mem" /\ m[l] \in P!Rows
        /\ shown[l] = Shows(m[l])
    BY ShownNow DEF Followed
  <2>2. shown[l] = MemShows(NameAt(l))
    BY <2>1 DEF Shows, NameAt
  <2>3. NameAt(l) \in MemNames
    BY <2>1, NamesAssumption DEF NameAt, P!Rows, U!Rows
  <2>4. CASE NameAt(l) = <<"mem", "f", "h">>
    BY <2>2, <2>4 DEF MemShows
  <2>5. CASE NameAt(l) = <<"mem", "f">>
    BY <2>2, <2>5 DEF MemShows
  <2>6. CASE NameAt(l) = <<"mem", "r">>
    BY <2>2, <2>6 DEF MemShows
  <2>7. CASE NameAt(l) = <<"mem", "h">>
    BY <2>2, <2>7 DEF MemShows
  <2>8. CASE NameAt(l) = <<"mem">>
    BY <2>2, <2>8 DEF MemShows
  <2> QED
    BY <2>3, <2>4, <2>5, <2>6, <2>7, <2>8 DEF MemNames
<1> QED
  BY <1>1, SystemInvInit, SystemInvStep, PTL DEF Spec

-----------------------------------------------------------------------------
(***************************************************************************)
(* The number of processes.  However many start and end during the walk    *)
(* over /proc, the number counted lies between those that lived throughout *)
(* and those that lived at some time.  The invariant says so of the        *)
(* processes up to the position of the walk.                               *)
(***************************************************************************)

UpTo(S, n) == {p \in S : p <= n}

ProcsTypeOK ==
    /\ alive \subseteq Pids /\ always \subseteq Pids /\ ever \subseteq Pids
    /\ dir \in {"open", "closed"}
    /\ pos \in Int
    /\ val \in Nat

Lived == dir = "open" => always \subseteq alive /\ alive \subseteq ever

CountsUpTo ==
    dir = "open" => Cardinality(UpTo(always, pos)) <= val /\ val <= Cardinality(UpTo(ever, pos))

ProcsInv == ProcsTypeOK /\ Lived /\ CountsUpTo /\ CountsProcesses

\* A part of a finite set is finite and not larger (FS_Subset, for Pids).
LEMMA PartOfPids ==
    ASSUME NEW S, NEW R, S \subseteq R, R \subseteq Pids
    PROVE  /\ IsFiniteSet(S) /\ IsFiniteSet(R)
           /\ Cardinality(S) \in Nat /\ Cardinality(R) \in Nat
           /\ Cardinality(S) <= Cardinality(R)
<1>1. IsFiniteSet(R)
  BY FS_Subset, PidsAssumption
<1>2. IsFiniteSet(S) /\ Cardinality(S) <= Cardinality(R)
  BY <1>1, FS_Subset
<1> QED
  BY <1>1, <1>2, FS_CardinalityType

\* Before the first walk nothing is counted, and nothing has lived through it.
LEMMA ProcsInitInv == ProcsInit => ProcsInv
<1> SUFFICES ASSUME ProcsInit PROVE ProcsInv
  OBVIOUS
<1>1. self \in Pids
  BY PidsAssumption DEF self
<1>2. ProcsTypeOK
  BY <1>1 DEF ProcsInit, ProcsTypeOK
<1>3. CountsProcesses
  BY FS_EmptySet DEF ProcsInit, CountsProcesses
<1> QED
  BY <1>2, <1>3 DEF ProcsInit, ProcsInv, Lived, CountsUpTo

\* While the walk goes on, whoever starts was alive at some time, and whoever
\* ends did not live throughout.
LEMMA StartOrEndKeeps == ProcsInv /\ StartOrEnd => ProcsInv'
<1> SUFFICES ASSUME ProcsInv, StartOrEnd PROVE ProcsInv'
  OBVIOUS
<1>1. alive' \subseteq Pids
  <2>1. PICK p \in Pids \ {self} :
           alive' = IF p \in alive THEN alive \ {p} ELSE alive \cup {p}
    BY DEF StartOrEnd
  <2> QED
    BY <2>1 DEF ProcsInv, ProcsTypeOK
<1>2. UNCHANGED <<dir, pos, val>>
  BY DEF StartOrEnd
<1>3. CASE dir = "open"
  <2>1. always' = always \cap alive' /\ ever' = ever \cup alive'
    BY <1>3 DEF StartOrEnd
  <2>2. ProcsTypeOK'
    BY <1>1, <1>2, <2>1 DEF ProcsInv, ProcsTypeOK
  <2>3. Lived'
    BY <2>1 DEF Lived
  <2>4. UpTo(always', pos') \subseteq UpTo(always, pos) /\ UpTo(always, pos) \subseteq Pids
    BY <1>2, <2>1 DEF UpTo, ProcsInv, ProcsTypeOK
  <2>5. UpTo(ever, pos) \subseteq UpTo(ever', pos') /\ UpTo(ever', pos') \subseteq Pids
    BY <1>1, <1>2, <2>1 DEF UpTo, ProcsInv, ProcsTypeOK
  <2>6. /\ Cardinality(UpTo(always', pos')) \in Nat /\ Cardinality(UpTo(always, pos)) \in Nat
        /\ Cardinality(UpTo(always', pos')) <= Cardinality(UpTo(always, pos))
    BY <2>4, PartOfPids
  <2>7. /\ Cardinality(UpTo(ever', pos')) \in Nat /\ Cardinality(UpTo(ever, pos)) \in Nat
        /\ Cardinality(UpTo(ever, pos)) <= Cardinality(UpTo(ever', pos'))
    BY <2>5, PartOfPids
  <2>8. Cardinality(UpTo(always, pos)) <= val /\ val <= Cardinality(UpTo(ever, pos))
    BY <1>3 DEF ProcsInv, CountsUpTo
  <2>9. CountsUpTo'
    BY <1>2, <2>6, <2>7, <2>8 DEF CountsUpTo, ProcsInv, ProcsTypeOK
  <2> QED
    BY <1>2, <1>3, <2>2, <2>3, <2>9 DEF ProcsInv, CountsProcesses
<1>4. CASE dir # "open"
  <2>1. UNCHANGED <<always, ever>>
    BY <1>4 DEF StartOrEnd
  <2> QED
    BY <1>1, <1>2, <1>4, <2>1
    DEF ProcsInv, ProcsTypeOK, Lived, CountsUpTo, CountsProcesses
<1> QED
  BY <1>3, <1>4

\* Nothing is behind the start of the directory yet.
LEMMA OpenDirKeeps == ProcsInv /\ OpenDir => ProcsInv'
<1> SUFFICES ASSUME ProcsInv, OpenDir PROVE ProcsInv'
  OBVIOUS
<1>1. ProcsTypeOK' /\ Lived'
  BY DEF ProcsInv, ProcsTypeOK, OpenDir, Lived
<1>2. UpTo(always', pos') = {} /\ UpTo(ever', pos') = {}
  <2>1. always' = alive /\ ever' = alive /\ pos' = -1
    BY DEF OpenDir
  <2>2. \A p \in alive : p \in Nat \ {0}
    BY PidsAssumption DEF ProcsInv, ProcsTypeOK
  <2>3. \A p \in alive : ~ (p <= -1)
    BY <2>2
  <2> QED
    BY <2>1, <2>3 DEF UpTo
<1>3. CountsUpTo'
  BY <1>2, FS_EmptySet DEF CountsUpTo, OpenDir
<1> QED
  BY <1>1, <1>3 DEF ProcsInv, CountsProcesses, OpenDir

LEMMA OpenDirFailsKeeps == ProcsInv /\ OpenDirFails => ProcsInv'
<1> SUFFICES ASSUME ProcsInv, OpenDirFails PROVE ProcsInv'
  OBVIOUS
<1>1. CountsProcesses'
  BY FS_EmptySet DEF OpenDirFails, CountsProcesses
<1> QED
  BY <1>1 DEF ProcsInv, ProcsTypeOK, OpenDirFails, Lived, CountsUpTo

\* readdir moves on to the next entry, and passes over no process that lived
\* throughout: such a process would be an entry itself.
LEMMA ReadDirKeeps == ProcsInv /\ ReadDir => ProcsInv'
<1> SUFFICES ASSUME ProcsInv, ReadDir PROVE ProcsInv'
  OBVIOUS
<1>1. PICK e \in Behind :
         /\ \A other \in Behind : e <= other
         /\ pos' = e
         /\ val' = IF isdigit(e) THEN val + 1 ELSE val
  BY DEF ReadDir
<1>2. dir = "open" /\ UNCHANGED <<alive, dir, always, ever>>
  BY DEF ReadDir
<1>3. e \in {0} \cup alive /\ e > pos /\ e \in Int
  BY PidsAssumption DEF Behind, ProcsInv, ProcsTypeOK
<1>4. Pids \subseteq Nat \ {0} /\ always \subseteq alive /\ alive \subseteq ever /\ ever \subseteq Pids
  BY <1>2, PidsAssumption DEF ProcsInv, ProcsTypeOK, Lived
<1>5. \A q \in alive : q > pos => e <= q
  BY <1>1 DEF Behind
<1>6. ProcsTypeOK' /\ Lived'
  BY <1>1, <1>2, <1>3 DEF ProcsInv, ProcsTypeOK, Lived
<1>7. Cardinality(UpTo(always, pos)) <= val /\ val <= Cardinality(UpTo(ever, pos))
  BY <1>2 DEF ProcsInv, CountsUpTo
<1>8. /\ UpTo(always, pos) \subseteq Pids /\ UpTo(ever, pos) \subseteq Pids
      /\ UpTo(always', pos') \subseteq Pids /\ UpTo(ever', pos') \subseteq Pids
  BY <1>2, <1>4 DEF UpTo
<1>9. /\ Cardinality(UpTo(always, pos)) \in Nat /\ Cardinality(UpTo(ever, pos)) \in Nat
      /\ Cardinality(UpTo(always', pos')) \in Nat /\ Cardinality(UpTo(ever', pos')) \in Nat
      /\ IsFiniteSet(UpTo(always, pos)) /\ IsFiniteSet(UpTo(ever, pos))
  BY <1>8, PartOfPids
<1>10. pos \in Int /\ val \in Nat
  BY DEF ProcsInv, ProcsTypeOK
<1>11. UpTo(ever, pos) \subseteq UpTo(ever', pos')
  <2>1. \A p \in ever : p \in Int
    BY <1>4
  <2>2. \A p \in ever : p <= pos => p <= pos'
    BY <1>1, <1>3, <1>10, <2>1
  <2> QED
    BY <1>2, <2>2 DEF UpTo
<1>12. CASE e = 0
  <2>1. UpTo(always', pos') \subseteq UpTo(always, pos)
    <3>1. \A p \in always : p \in Nat \ {0}
      BY <1>4
    <3>2. \A p \in always : ~ (p <= pos')
      BY <1>1, <1>12, <3>1
    <3> QED
      BY <1>2, <3>2 DEF UpTo
  <2>2. Cardinality(UpTo(always', pos')) <= Cardinality(UpTo(always, pos))
    BY <2>1, <1>8, PartOfPids
  <2>3. Cardinality(UpTo(ever, pos)) <= Cardinality(UpTo(ever', pos'))
    BY <1>8, <1>11, PartOfPids
  <2>4. val' = val
    BY <1>1, <1>12 DEF isdigit
  <2> QED
    BY <1>2, <1>6, <1>7, <1>9, <1>10, <2>2, <2>3, <2>4
    DEF ProcsInv, CountsUpTo, CountsProcesses
<1>13. CASE e # 0
  <2>1. e \in alive /\ e \in ever
    BY <1>3, <1>4, <1>13
  <2>2. val' = val + 1
    BY <1>1, <1>13 DEF isdigit
  <2>3. UpTo(always', pos') \subseteq UpTo(always, pos) \cup {e}
    <3>1. \A q \in always : q \in alive /\ q \in Int
      BY <1>4
    <3>2. \A q \in always : q <= e => q <= pos \/ q = e
      BY <1>3, <1>5, <1>10, <3>1
    <3> QED
      BY <1>1, <1>2, <3>2 DEF UpTo
  <2>4. UpTo(always, pos) \cup {e} \subseteq Pids
    BY <1>4, <1>8, <2>1
  <2>5. /\ Cardinality(UpTo(always', pos')) <= Cardinality(UpTo(always, pos) \cup {e})
        /\ Cardinality(UpTo(always, pos) \cup {e}) \in Nat
    BY <2>3, <2>4, PartOfPids
  <2>6. Cardinality(UpTo(always, pos) \cup {e}) <= Cardinality(UpTo(always, pos)) + 1
    <3>1. Cardinality(UpTo(always, pos) \cup {e}) =
             IF e \in UpTo(always, pos) THEN Cardinality(UpTo(always, pos))
                                       ELSE Cardinality(UpTo(always, pos)) + 1
      BY <1>9, FS_AddElement
    <3> QED
      BY <1>9, <3>1
  <2>7. e \notin UpTo(ever, pos)
    BY <1>3, <1>10 DEF UpTo
  <2>8. UpTo(ever, pos) \cup {e} \subseteq UpTo(ever', pos')
    BY <1>1, <1>2, <1>11, <2>1, <1>3 DEF UpTo
  <2>9. /\ Cardinality(UpTo(ever, pos) \cup {e}) <= Cardinality(UpTo(ever', pos'))
        /\ Cardinality(UpTo(ever, pos) \cup {e}) = Cardinality(UpTo(ever, pos)) + 1
    BY <1>8, <1>9, <2>7, <2>8, PartOfPids, FS_AddElement
  <2>10. Cardinality(UpTo(always', pos')) <= val' /\ val' <= Cardinality(UpTo(ever', pos'))
    BY <1>7, <1>9, <1>10, <2>2, <2>5, <2>6, <2>9
  <2> QED
    BY <1>2, <1>6, <2>10 DEF ProcsInv, CountsUpTo, CountsProcesses
<1> QED
  BY <1>12, <1>13

\* At the end of the directory no process is behind the position.
LEMMA CloseDirKeeps == ProcsInv /\ CloseDir => ProcsInv'
<1> SUFFICES ASSUME ProcsInv, CloseDir PROVE ProcsInv'
  OBVIOUS
<1>1. dir = "open" /\ Behind = {} /\ UNCHANGED <<alive, pos, val, always, ever>>
  BY DEF CloseDir
<1>2. Cardinality(UpTo(always, pos)) <= val /\ val <= Cardinality(UpTo(ever, pos))
  BY <1>1 DEF ProcsInv, CountsUpTo
<1>3. UpTo(always, pos) = always
  <2>1. always \subseteq alive /\ \A p \in alive : p \in Int
    BY <1>1, PidsAssumption DEF ProcsInv, ProcsTypeOK, Lived
  <2>2. \A p \in alive : p <= pos
    BY <1>1, <2>1 DEF Behind, ProcsInv, ProcsTypeOK
  <2> QED
    BY <2>1, <2>2 DEF UpTo
<1>4. UpTo(ever, pos) \subseteq ever /\ ever \subseteq Pids
  BY DEF UpTo, ProcsInv, ProcsTypeOK
<1>5. /\ Cardinality(UpTo(ever, pos)) \in Nat /\ Cardinality(ever) \in Nat
      /\ Cardinality(UpTo(ever, pos)) <= Cardinality(ever)
  BY <1>4, PartOfPids
<1>6. CountsProcesses'
  BY <1>1, <1>2, <1>3, <1>5 DEF CountsProcesses, ProcsInv, ProcsTypeOK
<1> QED
  BY <1>1, <1>6 DEF CloseDir, ProcsInv, ProcsTypeOK, Lived, CountsUpTo

LEMMA ProcsStep == ProcsInv /\ [ProcsNext]_<<alive, walk>> => ProcsInv'
<1> SUFFICES ASSUME ProcsInv, [ProcsNext]_<<alive, walk>> PROVE ProcsInv'
  OBVIOUS
<1>1. CASE UNCHANGED <<alive, walk>>
  BY <1>1 DEF walk, ProcsInv, ProcsTypeOK, Lived, CountsUpTo, CountsProcesses, UpTo
<1> QED
  BY <1>1, StartOrEndKeeps, OpenDirKeeps, OpenDirFailsKeeps, ReadDirKeeps,
     CloseDirKeeps DEF ProcsNext

\* The walk as a module of its own.
THEOREM WalkCounts == ProcsSpec => []CountsProcesses
<1>1. ProcsInv => CountsProcesses
  BY DEF ProcsInv
<1> QED
  BY <1>1, ProcsInitInv, ProcsStep, PTL DEF ProcsSpec

\* The walk inside the program: nproc counts no process twice and passes over
\* none, whatever starts and ends while it does and between two such rows.
THEOREM ProcessesCounted == Spec => []CountsProcesses
<1>1. Init => ProcsInit
  BY DEF Init
<1>2. [Next]_vars => [ProcsNext]_<<alive, walk>>
  <2> SUFFICES ASSUME [Next]_vars PROVE ProcsNext \/ UNCHANGED <<alive, walk>>
    OBVIOUS
  <2>1. CASE ProcessesChange \/ CallNproc \/ StepNproc \/ NprocReturns
    BY <2>1 DEF ProcessesChange, CallNproc, StepNproc, NprocReturns, ProcsNext
  <2>2. CASE \/ BatteryChanges \/ MemoryChanges \/ Gone \/ UNCHANGED vars
    BY <2>2 DEF BatteryChanges, MemoryChanges, Gone, vars, machine
  <2>3. CASE \/ StartScan \/ ScanReady \/ ScanOther \/ InitMem \/ CallTcp \/ StepTcp
             \/ TcpReturns1 \/ TcpReturns0
    BY <2>3 DEF StartScan, ScanReady, ScanOther, InitMem, CallTcp, StepTcp,
                TcpReturns1, TcpReturns0, Returns1, machine
  <2>4. CASE \/ CallBat \/ StepBat \/ BatReturns1 \/ StartPrint \/ PrintArg \/ Exit
    BY <2>4 DEF CallBat, StepBat, BatReturns1, Returns1, StartPrint, PrintArg, Exit,
                machine
  <2> QED
    BY <2>1, <2>2, <2>3, <2>4 DEF Next, Program, Machine
<1>3. ProcsInv => CountsProcesses
  BY DEF ProcsInv
<1> QED
  BY <1>1, <1>2, <1>3, ProcsInitInv, ProcsStep, PTL DEF Spec

=============================================================================
