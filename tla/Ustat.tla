-------------------------------- MODULE Ustat --------------------------------
(***************************************************************************)
(* The driver of ustat (ustat.c).  main first scans its arguments: each    *)
(* one selects the first row of the table modules[] whose name it starts   *)
(* with, and the row's init function is called unless the row is ready.    *)
(* Only when every argument is scanned does main print, one argument after *)
(* the other.                                                              *)
(*                                                                         *)
(* An init function fills the static variables of its source file, which   *)
(* the print functions of several rows share.  Here the statics of one     *)
(* file are one reading: the instant the kernel was asked, and whether the *)
(* statics now differ from the value that means "not read yet".  The clock *)
(* of the machine runs on between any two steps of the program.            *)
(***************************************************************************)
EXTENDS Integers, Sequences, SequencesExt

CONSTANTS
    NModules,   \* sizeof(modules) / sizeof(struct ustat_module)
    Modules,    \* the table: row -> [name, family]
    Argvs,      \* the argument lists the program may be started with
    MaxInstant  \* bound on the clock

\* The files that keep what init read in a static, and those that do not:
\* text is printed from the argument alone, sys and date ask when printing.
Static == {"load", "uptime", "nusers", "bat", "mem", "fs", "tcp"}
Direct == {"text", "sys", "date"}

Rows == 0 .. NModules - 1
Word == Seq(STRING)     \* a name or an argument, cut where names branch

\* s starts with t (djb/str_start.c)
str_start(s, t) == IsPrefix(t, s)

ASSUME ModulesAssumption ==
    /\ NModules \in Nat \ {0}
    /\ Modules \in [Rows -> [name : Word, family : Static \cup Direct]]
    /\ Modules[0].family = "text"

\* No row is shadowed: a later name never starts with an earlier one.
ASSUME TableAssumption ==
    \A j, k \in 1 .. NModules - 1 :
        j < k => ~ str_start(Modules[k].name, Modules[j].name)

ASSUME ArgvsAssumption == Argvs \subseteq Seq(Word)

ASSUME MaxInstantAssumption == MaxInstant \in Nat \ {0}

VARIABLES
    argv,   \* argv[1 .. argc - 1]
    phase,  \* where main is; "failed" and "helped" and "done" are exits
    i,      \* the loop counter of both loops
    ready,  \* modules[j].ready
    m,      \* m[1 .. i - 1], as row numbers
    held,   \* the statics of each family
    out,    \* what was written to stdout
    now,    \* the machine's clock
    reads   \* history: how often a family's init asked the kernel

vars == <<argv, phase, i, ready, m, held, out, now, reads>>

-----------------------------------------------------------------------------
(***************************************************************************)
(* Readings.                                                               *)
(***************************************************************************)

Reading == [at : 0 .. MaxInstant, nonzero : BOOLEAN]

\* _load = -1, _uptime = 0, nusers = -1, _mem_total = 0, _fs = 0, inited = 0
Unread == [at |-> 0, nonzero |-> FALSE]

Fresh == [at |-> now, nonzero |-> TRUE]

\* The kernel's answer was the value that stands for "not read yet".
FreshZero == [at |-> now, nonzero |-> FALSE]

Init ==
    /\ argv \in Argvs
    /\ phase = "start"
    /\ i = 1
    /\ ready = [j \in Rows |-> FALSE]
    /\ m = << >>
    /\ held = [f \in Static |-> Unread]
    /\ out = << >>
    /\ now = 1
    /\ reads = [f \in Static |-> 0]

\* The machine: its counters move on, so a later read may differ.
Tick ==
    /\ now < MaxInstant
    /\ now' = now + 1
    /\ UNCHANGED <<argv, phase, i, ready, m, held, out, reads>>

-----------------------------------------------------------------------------
(***************************************************************************)
(* The init functions.  Each is called for a row j that is not ready, and  *)
(* returns rc.                                                             *)
(***************************************************************************)

MarkReady(j) == ready' = [ready EXCEPT ![j] = TRUE]

Ask(f) == reads' = [reads EXCEPT ![f] = @ + 1]

Store(f, r) == held' = [held EXCEPT ![f] = r]

no_init(j, rc) ==
    /\ rc
    /\ MarkReady(j)
    /\ UNCHANGED <<held, reads>>

\* load_init, uptime_init and bat_init ask again for every row, and ignore
\* an error: the statics then keep what they held.
refresh_init(j, rc) ==
    LET f == Modules[j].family IN
    /\ rc
    /\ Ask(f)
    /\ \/ Store(f, Fresh)
       \/ UNCHANGED held
    /\ MarkReady(j)

\* Asks again unless both numbers are nonzero; a second row is not marked.
mem_init(j, rc) ==
    /\ rc
    /\ \/ /\ held["mem"].nonzero
          /\ UNCHANGED <<ready, held, reads>>
       \/ /\ ~ held["mem"].nonzero
          /\ Ask("mem")
          /\ \/ Store("mem", Fresh)
             \/ Store("mem", FreshZero)
             \/ UNCHANGED held
          /\ MarkReady(j)

\* Fails when no file system was found; a second row is not marked either.
fs_init(j, rc) ==
    \/ /\ held["fs"].nonzero
       /\ rc
       /\ UNCHANGED <<ready, held, reads>>
    \/ /\ ~ held["fs"].nonzero
       /\ Ask("fs")
       /\ \/ /\ rc
             /\ Store("fs", Fresh)
             /\ MarkReady(j)
          \/ /\ ~ rc
             /\ UNCHANGED <<ready, held>>

\* A slip: the flag 'inited' is forgotten.
Bug_tcp_init(j, rc) ==
    /\ Ask("tcp")
    /\ \/ rc /\ Store("tcp", Fresh) /\ MarkReady(j)
       \/ ~ rc /\ UNCHANGED <<ready, held>>

\* A slip: 'inited' is set although _init_tcp_stats failed, and 1 returned.
Bug_tcp_init_rc(j, rc) ==
    /\ rc
    /\ MarkReady(j)
    /\ \/ held["tcp"].nonzero /\ UNCHANGED <<held, reads>>
       \/ /\ ~ held["tcp"].nonzero
          /\ Ask("tcp")
          /\ Store("tcp", Fresh) \/ UNCHANGED held

tcp_init(j, rc) ==
    \/ /\ held["tcp"].nonzero
       /\ rc
       /\ MarkReady(j)
       /\ UNCHANGED <<held, reads>>
    \/ /\ ~ held["tcp"].nonzero
       /\ Ask("tcp")
       /\ \/ /\ rc
             /\ Store("tcp", Fresh)
             /\ MarkReady(j)
          \/ /\ ~ rc
             /\ UNCHANGED <<ready, held>>

\* Counting the utmp entries cannot fail.
nusers_init(j, rc) ==
    /\ rc
    /\ MarkReady(j)
    /\ IF held["nusers"].nonzero
       THEN UNCHANGED <<held, reads>>
       ELSE Ask("nusers") /\ Store("nusers", Fresh)

CallInit(j, rc) ==
    LET f == Modules[j].family IN
    \/ f \in Direct /\ no_init(j, rc)
    \/ f \in {"load", "uptime", "bat"} /\ refresh_init(j, rc)
    \/ f = "mem" /\ mem_init(j, rc)
    \/ f = "fs" /\ fs_init(j, rc)
    \/ f = "tcp" /\ tcp_init(j, rc)
    \/ f = "nusers" /\ nusers_init(j, rc)

-----------------------------------------------------------------------------
(***************************************************************************)
(* main: the first loop.                                                   *)
(***************************************************************************)

\* A slip: without the break the last matching row wins.
Bug_StopsAt(a, j) ==
    LET Starts(k) == str_start(a, Modules[k].name) IN
    /\ j < NModules => Starts(j)
    /\ \A k \in 1 .. NModules - 1 : Starts(k) => j < NModules /\ k <= j

\* The loop over the rows ends at the first row after row 0 whose name a
\* starts with, or behind the last one.
StopsAt(a, j) ==
    LET Starts(k) == str_start(a, Modules[k].name) IN
    /\ j < NModules => Starts(j)
    /\ \A k \in 1 .. j - 1 : ~ Starts(k)

\* A slip: an argument no row knows points behind the table.
Bug_RowAt(j) == j

\* &modules[j % nmodules]: behind the last row is row 0, pass-through.
RowAt(j) == j % NModules

WantsUsage == Len(argv) = 1 /\ str_start(argv[1], <<"-h">>)

\* usage() prints every row but row 0 and ends the program.
Usage ==
    /\ phase = "start"
    /\ WantsUsage
    /\ out' = [k \in 1 .. NModules - 1 |-> [row |-> k, value |-> Unread]]
    /\ phase' = "helped"
    /\ UNCHANGED <<argv, i, ready, m, held, now, reads>>

StartScan ==
    /\ phase = "start"
    /\ ~ WantsUsage
    /\ phase' = "scan"
    /\ UNCHANGED <<argv, i, ready, m, held, out, now, reads>>

\* A slip: 'continue' before i is counted up.
Bug_ScanReady ==
    /\ phase = "scan"
    /\ i <= Len(argv)
    /\ \E j \in 1 .. NModules :
          /\ StopsAt(argv[i], j)
          /\ j < NModules => ready[j]
          /\ i' = IF j = NModules THEN i + 1 ELSE i
          /\ m' = IF j = NModules THEN Append(m, RowAt(j)) ELSE m
    /\ UNCHANGED <<argv, phase, ready, held, out, now, reads>>

\* The argument is passed through, or its row is ready: no init call.
ScanReady ==
    /\ phase = "scan"
    /\ i <= Len(argv)
    /\ \E j \in 1 .. NModules :
          /\ StopsAt(argv[i], j)
          /\ j < NModules => ready[j]
          /\ m' = Append(m, RowAt(j))
    /\ i' = i + 1
    /\ UNCHANGED <<argv, phase, ready, held, out, now, reads>>

\* The row's init function is called and returns 1.
ScanInit ==
    /\ phase = "scan"
    /\ i <= Len(argv)
    /\ \E j \in 1 .. NModules - 1 :
          /\ StopsAt(argv[i], j)
          /\ ~ ready[j]
          /\ CallInit(j, TRUE)
          /\ m' = Append(m, RowAt(j))
    /\ i' = i + 1
    /\ UNCHANGED <<argv, phase, out, now>>

\* The row's init function returns 0: os_exit(1).
ScanFail ==
    /\ phase = "scan"
    /\ i <= Len(argv)
    /\ \E j \in 1 .. NModules - 1 :
          /\ StopsAt(argv[i], j)
          /\ ~ ready[j]
          /\ CallInit(j, FALSE)
    /\ phase' = "failed"
    /\ UNCHANGED <<argv, i, m, out, now>>

StartPrint ==
    /\ phase = "scan"
    /\ i > Len(argv)
    /\ phase' = "print"
    /\ i' = 1
    /\ UNCHANGED <<argv, ready, m, held, out, now, reads>>

-----------------------------------------------------------------------------
(***************************************************************************)
(* main: the second loop.                                                  *)
(***************************************************************************)

\* What print of row j may write: the statics of its file, something asked
\* for right now (or nothing, if that fails), or text.
Prints(j) ==
    LET f == Modules[j].family IN
    IF f \in Static
    THEN {held[f]}
    ELSE [sys |-> {Fresh, Unread}, date |-> {Fresh}, text |-> {Unread}][f]

\* A slip: one loop, which prints each argument as soon as it is scanned.
Bug_PrintArg ==
    /\ phase \in {"scan", "print"}
    /\ Len(out) < Len(m)
    /\ \E v \in Prints(m[Len(out) + 1]) :
          out' = Append(out, [row |-> m[Len(out) + 1], value |-> v])
    /\ i' = IF phase = "print" THEN i + 1 ELSE i
    /\ UNCHANGED <<argv, phase, ready, m, held, now, reads>>

\* date_print sets ready as well.
PrintArg ==
    /\ phase = "print"
    /\ i <= Len(argv)
    /\ \E v \in Prints(m[i]) :
          out' = Append(out, [row |-> m[i], value |-> v])
    /\ ready' = IF Modules[m[i]].family = "date"
                THEN [ready EXCEPT ![m[i]] = TRUE] ELSE ready
    /\ i' = i + 1
    /\ UNCHANGED <<argv, phase, m, held, now, reads>>

\* A slip: off by one at the end of the loop.
Bug_Exit ==
    /\ phase = "print"
    /\ i >= Len(argv)
    /\ phase' = "done"
    /\ UNCHANGED <<argv, i, ready, m, held, out, now, reads>>

Exit ==
    /\ phase = "print"
    /\ i > Len(argv)
    /\ phase' = "done"
    /\ UNCHANGED <<argv, i, ready, m, held, out, now, reads>>

-----------------------------------------------------------------------------
Exits == {"done", "failed", "helped"}

Main == \/ Usage     \/ StartScan
        \/ ScanReady \/ ScanInit  \/ ScanFail
        \/ StartPrint \/ PrintArg \/ Exit

\* The process is gone; nothing happens any more.
Gone == phase \in Exits /\ UNCHANGED vars

Next == Tick \/ Main \/ Gone

\* A runnable process is scheduled again; the clock need not advance.
Spec == Init /\ [][Next]_vars /\ WF_vars(Main)

-----------------------------------------------------------------------------
(***************************************************************************)
(* Properties.                                                             *)
(***************************************************************************)

Entry == [row : Rows, value : Reading]

\* The type invariant of the driver's state.
TypeOK ==
    /\ argv \in Seq(Word)
    /\ phase \in {"start", "scan", "print"} \cup Exits
    /\ i \in Nat \ {0}
    /\ ready \in [Rows -> BOOLEAN]
    /\ m \in Seq(Rows)
    /\ held \in [Static -> Reading]
    /\ out \in Seq(Entry)
    /\ now \in 1 .. MaxInstant
    /\ reads \in [Static -> Nat]

\* A run that ends with an error has written nothing to stdout, whichever
\* argument's init failed and however many succeeded before (ustat.c:163-193).
AllOrNothing == phase \in {"start", "scan", "failed"} => out = << >>

\* Two parts of one line that come from the same statics show the same
\* reading, although every row calls its init at an instant of its own and
\* load, uptime and bat read again: no init runs once printing has begun.
OneSnapshot ==
    \A k, l \in 1 .. Len(out) :
        LET f == Modules[out[k].row].family IN
        /\ f \in Static
        /\ f = Modules[out[l].row].family
        => out[k].value = out[l].value

\* The statics whose init can refuse to start, or cannot fail, are never
\* printed unread: main ends the program instead (ustat.c:171-179).
PrintsWhatWasRead ==
    phase # "helped" =>
        \A k \in 1 .. Len(out) :
            Modules[out[k].row].family \in {"fs", "tcp", "nusers"}
            => out[k].value.nonzero

\* The scan stops at the first row, yet an argument is always given to the
\* longest name it starts with: no row is shadowed by an earlier one
\* (modules[], ustat.c:87-148, depends on the order of its rows for this).
LongestMatch ==
    \A k \in 1 .. Len(m) :
        LET Starts(r) == r # 0 /\ str_start(argv[k], Modules[r].name) IN
        IF m[k] = 0
        THEN \A r \in Rows : ~ Starts(r)
        ELSE /\ Starts(m[k])
             /\ \A r \in Rows :
                   Starts(r) => Len(Modules[r].name) <= Len(Modules[m[k]].name)

\* The sockets, the mounts and the users are asked for at most once in a run,
\* however many rows and arguments share them.  A second time would show each
\* mount twice, and on BSD each socket, for nothing is cleared before; where
\* it is, the rows of one line would show different moments.
KernelReadOnce == \A f \in {"tcp", "fs", "nusers"} : reads[f] <= 1

\* A successful run shows every argument, in the order given.
LineComplete ==
    phase = "done" =>
        /\ Len(out) = Len(argv)
        /\ \A k \in 1 .. Len(argv) : out[k].row = m[k]

\* Whatever the clock does, the program ends (main's loops count i up).
Termination == <> (phase \in Exits)

-----------------------------------------------------------------------------
(***************************************************************************)
(* The driver implements the promise of StatusLine: until main's second    *)
(* loop the statics are being gathered, from then on they are the snapshot.*)
(***************************************************************************)

Stage ==
    CASE phase \in {"start", "scan"} -> "gathering"
      [] phase = "print"             -> "printing"
      [] phase \in Exits             -> "ended"

Line == INSTANCE StatusLine WITH
    Sources   <- Static,
    SourceOf  <- [r \in Rows |-> Modules[r].family],
    Values    <- Reading,
    Catalogue <- [k \in 1 .. NModules - 1 |-> [row |-> k, value |-> Unread]],
    stage     <- Stage,
    snapshot  <- held,
    line      <- out

\* The refinement, as a property TLC checks.
KeepsPromise == Line!Spec

=============================================================================
