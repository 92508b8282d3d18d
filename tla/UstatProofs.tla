---------------------------- MODULE UstatProofs ----------------------------
(***************************************************************************)
(* Proofs about the driver, for every table, every argument list and every *)
(* bound on the clock.                                                     *)
(***************************************************************************)
EXTENDS Ustat, TLAPS

\* The families whose statics are never printed unread.
Once == {"fs", "tcp", "nusers"}

-----------------------------------------------------------------------------
(***************************************************************************)
(* What an init function does, whichever it is.                            *)
(***************************************************************************)

\* An init function touches its own row and its own family only; one of
\* Once asks the kernel only while its statics are unread, and it returns 1
\* exactly when they are read afterwards; a failed one changes no static.
LEMMA CallInitEffect ==
    ASSUME TypeOK, NEW j \in Rows, NEW rc \in BOOLEAN, CallInit(j, rc),
           NEW f \in Static
    PROVE  /\ ready' \in [Rows -> BOOLEAN]
           /\ held' \in [Static -> Reading]
           /\ reads' \in [Static -> Nat]
           /\ \A k \in Rows : k # j => ready'[k] = ready[k]
           /\ f # Modules[j].family => held'[f] = held[f] /\ reads'[f] = reads[f]
           /\ f = Modules[j].family /\ f \in Once =>
                 /\ rc <=> held'[f].nonzero
                 /\ held[f].nonzero => held' = held /\ reads' = reads
                 /\ ~ held[f].nonzero => reads'[f] = reads[f] + 1
           /\ ~ rc => /\ Modules[j].family \in Once
                      /\ held' = held
                      /\ ready' = ready
<1> DEFINE g == Modules[j].family
<1>1. /\ Fresh \in Reading
      /\ FreshZero \in Reading
      /\ Fresh.nonzero
  BY MaxInstantAssumption DEF TypeOK, Fresh, FreshZero, Reading
<1>2. g \in Static \cup Direct
  BY ModulesAssumption
<1>3. /\ ready \in [Rows -> BOOLEAN]
      /\ held \in [Static -> Reading]
      /\ reads \in [Static -> Nat]
      /\ held[f].nonzero \in BOOLEAN
  BY DEF TypeOK, Reading
<1>4. CASE g \in Direct /\ no_init(j, rc)
  BY <1>1, <1>3, <1>4 DEF no_init, MarkReady, Direct, Static, Once
<1>5. CASE g \in {"load", "uptime", "bat"} /\ refresh_init(j, rc)
  BY <1>1, <1>3, <1>5 DEF refresh_init, MarkReady, Ask, Store, Static, Once
<1>6. CASE g = "mem" /\ mem_init(j, rc)
  <2>1. CASE held["mem"].nonzero
    BY <1>1, <1>3, <1>6, <2>1 DEF mem_init, MarkReady, Ask, Store, Static, Once
  <2>2. CASE ~ held["mem"].nonzero
    <3>1. /\ ready' = [ready EXCEPT ![j] = TRUE]
          /\ reads' = [reads EXCEPT !["mem"] = @ + 1]
          /\ \E r \in Reading : held' = [held EXCEPT !["mem"] = r]
          /\ rc
      BY <1>1, <1>3, <1>6, <2>2 DEF mem_init, MarkReady, Ask, Store, Static
    <3> QED
      BY <1>3, <1>6, <3>1 DEF Static, Once
  <2> QED
    BY <2>1, <2>2, <1>6 DEF mem_init
<1>7. CASE g = "fs" /\ fs_init(j, rc)
  <2>1. CASE held["fs"].nonzero
    BY <1>1, <1>3, <1>7, <2>1 DEF fs_init, MarkReady, Ask, Store, Static, Once
  <2>2. CASE ~ held["fs"].nonzero /\ rc
    <3>1. /\ ready' = [ready EXCEPT ![j] = TRUE]
          /\ reads' = [reads EXCEPT !["fs"] = @ + 1]
          /\ held' = [held EXCEPT !["fs"] = Fresh]
      BY <1>7, <2>2 DEF fs_init, MarkReady, Ask, Store
    <3>2. held'["fs"].nonzero
      BY <1>1, <1>3, <3>1 DEF Static
    <3> QED
      BY <1>1, <1>3, <1>7, <2>2, <3>1, <3>2 DEF Static, Once
  <2>3. CASE ~ held["fs"].nonzero /\ ~ rc
    BY <1>1, <1>3, <1>7, <2>3 DEF fs_init, MarkReady, Ask, Store, Static, Once
  <2> QED
    BY <2>1, <2>2, <2>3, <1>7
<1>8. CASE g = "tcp" /\ tcp_init(j, rc)
  <2>1. CASE held["tcp"].nonzero
    BY <1>1, <1>3, <1>8, <2>1 DEF tcp_init, MarkReady, Ask, Store, Static, Once
  <2>2. CASE ~ held["tcp"].nonzero /\ rc
    <3>1. /\ ready' = [ready EXCEPT ![j] = TRUE]
          /\ reads' = [reads EXCEPT !["tcp"] = @ + 1]
          /\ held' = [held EXCEPT !["tcp"] = Fresh]
      BY <1>8, <2>2 DEF tcp_init, MarkReady, Ask, Store
    <3>2. held'["tcp"].nonzero
      BY <1>1, <1>3, <3>1 DEF Static
    <3> QED
      BY <1>1, <1>3, <1>8, <2>2, <3>1, <3>2 DEF Static, Once
  <2>3. CASE ~ held["tcp"].nonzero /\ ~ rc
    BY <1>1, <1>3, <1>8, <2>3 DEF tcp_init, MarkReady, Ask, Store, Static, Once
  <2> QED
    BY <2>1, <2>2, <2>3, <1>8
<1>9. CASE g = "nusers" /\ nusers_init(j, rc)
  BY <1>1, <1>3, <1>9 DEF nusers_init, MarkReady, Ask, Store, Static, Once
<1> QED
  BY <1>4, <1>5, <1>6, <1>7, <1>8, <1>9 DEF CallInit

-----------------------------------------------------------------------------
(***************************************************************************)
(* Type correctness.                                                       *)
(***************************************************************************)

\* Where the loop over the rows stops is a row, itself or row 0.
LEMMA RowAtRow ==
    ASSUME NEW j \in 1 .. NModules
    PROVE  /\ RowAt(j) \in Rows
           /\ j < NModules => RowAt(j) = j
           /\ j = NModules => RowAt(j) = 0
  BY ModulesAssumption, SMTT(30) DEF RowAt, Rows

\* Where the two loops are: m grows with i in the first, out in the second.
\* TypeOK is inductive only together with it, since print reads m[i].
Counted ==
    /\ phase \in {"start", "helped"} => m = << >>
    /\ phase = "start" => i = 1
    /\ phase \in {"scan", "failed"} =>
          Len(m) = i - 1 /\ Len(m) <= Len(argv)
    /\ phase \in {"print", "done"} =>
          Len(m) = Len(argv) /\ Len(out) = i - 1 /\ Len(out) <= Len(argv)
    /\ phase = "done" => Len(out) = Len(argv)

\* What a print function writes is an entry of the line: what its statics
\* hold, or something just asked for, or text.
LEMMA PrintsReadings ==
    ASSUME TypeOK, NEW r \in Rows, NEW v \in Prints(r)
    PROVE  /\ v \in Reading
           /\ Modules[r].family \in Static => v = held[Modules[r].family]
<1>1. /\ Fresh \in Reading
      /\ Unread \in Reading
  BY MaxInstantAssumption DEF TypeOK, Fresh, Unread, Reading
<1>2. Modules[r].family \in Static \cup Direct
  BY ModulesAssumption
<1>3. held \in [Static -> Reading]
  BY DEF TypeOK
<1> DEFINE f == Modules[r].family
<1>4. CASE f \in Static
  BY <1>3, <1>4 DEF Prints
<1>5. CASE f \in Direct
  <2>1. f \notin Static
    BY <1>5 DEF Static, Direct
  <2> QED
    BY <1>1, <1>5, <2>1 DEF Prints, Direct
<1> QED
  BY <1>2, <1>4, <1>5

LEMMA TypeOKInit == Init => TypeOK /\ Counted /\ AllOrNothing
  BY ModulesAssumption, ArgvsAssumption, MaxInstantAssumption
     DEF Init, TypeOK, Unread, Reading, Counted, AllOrNothing

LEMMA TypeOKStep ==
    TypeOK /\ Counted /\ AllOrNothing /\ [Next]_vars
    => TypeOK' /\ Counted' /\ AllOrNothing'
<1> SUFFICES ASSUME TypeOK, Counted, AllOrNothing, [Next]_vars
             PROVE  TypeOK' /\ Counted' /\ AllOrNothing'
  OBVIOUS
<1> USE DEF TypeOK, Counted, AllOrNothing
<1>1. CASE Tick
  BY <1>1, MaxInstantAssumption DEF Tick
<1>2. CASE Usage
  <2>1. Unread \in Reading
    BY MaxInstantAssumption DEF Unread, Reading
  <2>2. out' \in Seq(Entry)
    BY <1>2, <2>1, ModulesAssumption DEF Usage, Entry, Rows
  <2> QED
    BY <1>2, <2>2 DEF Usage, Exits
<1>3. CASE StartScan
  BY <1>3 DEF StartScan
<1>4. CASE ScanReady
  <2>1. m' \in Seq(Rows) /\ Len(m') = Len(m) + 1
    BY <1>4, RowAtRow DEF ScanReady
  <2> QED
    BY <1>4, <2>1 DEF ScanReady
<1>5. CASE ScanInit
  <2>1. PICK j \in 1 .. NModules - 1 :
            CallInit(j, TRUE) /\ m' = Append(m, RowAt(j))
    BY <1>5 DEF ScanInit
  <2>2. j \in Rows /\ RowAt(j) \in Rows
    BY RowAtRow, ModulesAssumption DEF Rows
  <2>3. /\ ready' \in [Rows -> BOOLEAN]
        /\ held' \in [Static -> Reading]
        /\ reads' \in [Static -> Nat]
    BY <2>1, <2>2, CallInitEffect DEF Static
  <2>4. m' \in Seq(Rows) /\ Len(m') = Len(m) + 1
    BY <2>1, <2>2
  <2> QED
    BY <1>5, <2>3, <2>4 DEF ScanInit
<1>6. CASE ScanFail
  <2>1. PICK j \in 1 .. NModules - 1 : CallInit(j, FALSE)
    BY <1>6 DEF ScanFail
  <2>2. j \in Rows
    BY ModulesAssumption DEF Rows
  <2>3. /\ ready' \in [Rows -> BOOLEAN]
        /\ held' \in [Static -> Reading]
        /\ reads' \in [Static -> Nat]
    BY <2>1, <2>2, CallInitEffect DEF Static
  <2> QED
    BY <1>6, <2>3 DEF ScanFail, Exits
<1>7. CASE StartPrint
  BY <1>7 DEF StartPrint
<1>8. CASE PrintArg
  <2>1. i \in 1 .. Len(m) /\ m[i] \in Rows
    BY <1>8 DEF PrintArg
  <2>2. PICK v \in Prints(m[i]) :
            out' = Append(out, [row |-> m[i], value |-> v])
    BY <1>8 DEF PrintArg
  <2>3. [row |-> m[i], value |-> v] \in Entry
    BY <2>1, <2>2, PrintsReadings DEF Entry
  <2>4. out' \in Seq(Entry) /\ Len(out') = Len(out) + 1
    BY <2>2, <2>3
  <2> QED
    BY <1>8, <2>1, <2>4 DEF PrintArg
<1>9. CASE Exit
  BY <1>9 DEF Exit, Exits
<1>10. CASE UNCHANGED vars
  BY <1>10 DEF vars
<1> QED
  BY <1>1, <1>2, <1>3, <1>4, <1>5, <1>6, <1>7, <1>8, <1>9, <1>10
     DEF Next, Main, Gone

\* Every variable keeps its type, both loops keep step with what they fill,
\* and nothing is written before the scan has succeeded as a whole.
THEOREM TypeCorrect == Spec => [](TypeOK /\ Counted /\ AllOrNothing)
<1>1. Init => TypeOK /\ Counted /\ AllOrNothing
  BY TypeOKInit
<1>2. TypeOK /\ Counted /\ AllOrNothing /\ [Next]_vars
      => TypeOK' /\ Counted' /\ AllOrNothing'
  BY TypeOKStep
<1> QED
  BY <1>1, <1>2, PTL DEF Spec

\* Every variable keeps its type, whichever rows are asked for.
THEOREM TypesHold == Spec => []TypeOK
  BY TypeCorrect, PTL

-----------------------------------------------------------------------------
(***************************************************************************)
(* The statics of the families in Once.                                    *)
(***************************************************************************)

FamilyOf(r) == Modules[r].family

\* A row that is ready, or already selected, is one whose statics are read,
\* and the kernel was asked once if they are.  A refused init ends the run.
Backed ==
    /\ \A r \in Rows :
          ready[r] /\ FamilyOf(r) \in Once => held[FamilyOf(r)].nonzero
    /\ \A k \in 1 .. Len(m) :
          FamilyOf(m[k]) \in Once => held[FamilyOf(m[k])].nonzero
    /\ \A f \in Once :
          /\ reads[f] <= 1
          /\ reads[f] = 1 => held[f].nonzero \/ phase = "failed"

LEMMA BackedInit == Init => Backed
  BY DEF Init, Backed, Once, Static

LEMMA BackedStep ==
    TypeOK /\ Counted /\ Backed /\ [Next]_vars => Backed'
<1> SUFFICES ASSUME TypeOK, Counted, Backed, [Next]_vars
             PROVE  Backed'
  OBVIOUS
<1> USE DEF FamilyOf
<1>0. /\ Once \subseteq Static
      /\ m \in Seq(Rows)
      /\ \A f \in Static : held[f].nonzero \in BOOLEAN /\ reads[f] \in Nat
  BY DEF Once, Static, TypeOK, Reading
<1>1. CASE Tick \/ Usage \/ StartScan \/ StartPrint \/ Exit
           \/ UNCHANGED vars
  BY <1>1 DEF Tick, Usage, StartScan, StartPrint, Exit, vars, Backed
<1>2. CASE ScanReady
  <2>1. PICK j \in 1 .. NModules :
            /\ j < NModules => ready[j]
            /\ m' = Append(m, RowAt(j))
    BY <1>2 DEF ScanReady
  <2>2. /\ RowAt(j) \in Rows
        /\ j < NModules => RowAt(j) = j
        /\ j = NModules => RowAt(j) = 0
        /\ j < NModules \/ j = NModules
    BY RowAtRow, ModulesAssumption
  <2>3. FamilyOf(RowAt(j)) \in Once => held[FamilyOf(RowAt(j))].nonzero
    BY <2>1, <2>2, ModulesAssumption DEF Backed, Once
  <2> QED
    BY <1>0, <1>2, <2>1, <2>2, <2>3 DEF ScanReady, Backed
<1>3. CASE ScanInit
  <2>1. PICK j \in 1 .. NModules - 1 :
            CallInit(j, TRUE) /\ m' = Append(m, RowAt(j))
    BY <1>3 DEF ScanInit
  <2>2. j \in Rows /\ RowAt(j) = j
    BY RowAtRow, ModulesAssumption DEF Rows
  <2>3. \A r \in Rows : r # j => ready'[r] = ready[r]
    BY <2>1, <2>2, CallInitEffect DEF Static
  <2>4. \A f \in Once :
            /\ held[f].nonzero => held'[f].nonzero
            /\ f = FamilyOf(j) => held'[f].nonzero
            /\ reads'[f] <= 1
            /\ reads'[f] = 1 => held'[f].nonzero
    <3> SUFFICES ASSUME NEW f \in Once
                 PROVE  /\ held[f].nonzero => held'[f].nonzero
                        /\ f = FamilyOf(j) => held'[f].nonzero
                        /\ reads'[f] <= 1
                        /\ reads'[f] = 1 => held'[f].nonzero
      OBVIOUS
    <3>1. phase = "scan" /\ reads[f] <= 1 /\ (reads[f] = 1 => held[f].nonzero)
      BY <1>3 DEF Backed, ScanInit
    <3>2. CASE f = FamilyOf(j)
      <4>1. held'[f].nonzero
        BY <1>0, <2>1, <2>2, <3>2, CallInitEffect
      <4>2. CASE held[f].nonzero
        BY <1>0, <2>1, <2>2, <3>1, <3>2, <4>1, <4>2, CallInitEffect
      <4>3. CASE ~ held[f].nonzero
        <5>1. reads[f] = 0
          BY <1>0, <3>1, <4>3
        <5>2. reads'[f] = reads[f] + 1
          BY <1>0, <2>1, <2>2, <3>2, <4>3, CallInitEffect
        <5> QED
          BY <4>1, <4>3, <5>1, <5>2
      <4> QED
        BY <4>2, <4>3
    <3>3. CASE f # FamilyOf(j)
      <4>1. held'[f] = held[f] /\ reads'[f] = reads[f]
        BY <1>0, <2>1, <2>2, <3>3, CallInitEffect
      <4> QED
        BY <3>1, <3>3, <4>1
    <3> QED
      BY <3>2, <3>3
  <2> QED
    BY <1>0, <2>1, <2>2, <2>3, <2>4 DEF Backed
<1>4. CASE ScanFail
  <2>1. PICK j \in 1 .. NModules - 1 : CallInit(j, FALSE)
    BY <1>4 DEF ScanFail
  <2>2. j \in Rows
    BY ModulesAssumption DEF Rows
  <2>3. FamilyOf(j) \in Once /\ held' = held /\ ready' = ready
    BY <2>1, <2>2, CallInitEffect DEF Static
  <2>4. \A f \in Once : reads'[f] <= 1
    <3> SUFFICES ASSUME NEW f \in Once
                 PROVE  reads'[f] <= 1
      OBVIOUS
    <3>1. phase = "scan" /\ reads[f] <= 1 /\ (reads[f] = 1 => held[f].nonzero)
      BY <1>4 DEF Backed, ScanFail
    <3>2. CASE f = FamilyOf(j)
      <4>1. ~ held[f].nonzero
        BY <1>0, <2>1, <2>2, <2>3, <3>2, CallInitEffect
      <4>2. reads[f] = 0
        BY <1>0, <3>1, <4>1
      <4>3. reads'[f] = reads[f] + 1
        <5>1. FALSE \in BOOLEAN /\ f \in Static
          BY <1>0
        <5> QED
          BY <2>1, <2>2, <3>2, <4>1, <5>1, CallInitEffect, ZenonT(40)
      <4> QED
        BY <4>2, <4>3
    <3>3. CASE f # FamilyOf(j)
      BY <1>0, <2>1, <2>2, <3>1, <3>3, CallInitEffect
    <3> QED
      BY <3>2, <3>3
  <2> QED
    BY <1>4, <2>3, <2>4 DEF ScanFail, Backed
<1>5. CASE PrintArg
  <2>1. \A r \in Rows : FamilyOf(r) \in Once /\ ready'[r] => ready[r]
    BY <1>5 DEF PrintArg, Once, TypeOK
  <2> QED
    BY <1>5, <2>1 DEF PrintArg, Backed
<1> QED
  BY <1>1, <1>2, <1>3, <1>4, <1>5 DEF Next, Main, Gone

\* The kernel is asked at most once for what must not be counted twice.
THEOREM AskedOnce == Spec => []KernelReadOnce
<1>1. Init => Backed
  BY BackedInit
<1>2. (TypeOK /\ Counted /\ AllOrNothing) /\ Backed /\ [Next]_vars => Backed'
  BY BackedStep
<1>3. Backed => KernelReadOnce
  BY DEF Backed, KernelReadOnce, Once
<1> QED
  BY <1>1, <1>2, <1>3, TypeCorrect, PTL DEF Spec

-----------------------------------------------------------------------------
(***************************************************************************)
(* The line.                                                               *)
(***************************************************************************)

\* What entry k of the line shows is what its statics still hold now.
ShowsHeld(k) ==
    LET f == FamilyOf(out[k].row) IN f \in Static => out[k].value = held[f]

Shown ==
    /\ phase = "helped" =>
          \A k \in 1 .. Len(out) : out[k].value = Unread
    /\ phase # "helped" =>
          /\ Len(out) <= Len(m)
          /\ \A k \in 1 .. Len(out) : out[k].row = m[k] /\ ShowsHeld(k)

LEMMA ShownInit == Init => Shown
  BY DEF Init, Shown

LEMMA ShownStep ==
    TypeOK /\ Counted /\ AllOrNothing /\ Shown /\ [Next]_vars => Shown'
<1> SUFFICES ASSUME TypeOK, Counted, AllOrNothing, Shown, [Next]_vars
             PROVE  Shown'
  OBVIOUS
<1> USE DEF Shown, ShowsHeld, FamilyOf
<1>1. CASE Tick \/ StartPrint \/ Exit \/ UNCHANGED vars
  <2>1. UNCHANGED <<m, held, out>> /\ (phase' = "helped" <=> phase = "helped")
    BY <1>1 DEF Tick, StartPrint, Exit, vars
  <2> QED
    BY <2>1
<1>2. CASE Usage
  <2>1. phase' = "helped" /\ out' = [k \in 1 .. NModules - 1 |->
                                        [row |-> k, value |-> Unread]]
    BY <1>2 DEF Usage
  <2>2. Len(out') = NModules - 1
    BY <2>1, ModulesAssumption
  <2> QED
    BY <2>1, <2>2
<1>3. CASE StartScan \/ ScanReady \/ ScanInit \/ ScanFail
  <2>1. out = << >> /\ out' = out /\ phase' # "helped"
    BY <1>3 DEF StartScan, ScanReady, ScanInit, ScanFail, AllOrNothing
  <2>2. m' \in Seq(Rows)
    BY TypeOKStep DEF TypeOK
  <2> QED
    BY <2>1, <2>2
<1>4. CASE PrintArg
  <2>1. /\ phase = "print" /\ phase' = phase
        /\ m' = m /\ held' = held
        /\ i \in 1 .. Len(m) /\ m[i] \in Rows /\ Len(out) = i - 1
        /\ out \in Seq(Entry)
    BY <1>4 DEF PrintArg, TypeOK, Counted
  <2>2. PICK v \in Prints(m[i]) :
            out' = Append(out, [row |-> m[i], value |-> v])
    BY <1>4 DEF PrintArg
  <2>3. Modules[m[i]].family \in Static => v = held[Modules[m[i]].family]
    BY <2>1, <2>2, PrintsReadings
  <2>4. /\ Len(out') = i
        /\ \A k \in 1 .. i - 1 : out'[k] = out[k]
        /\ out'[i] = [row |-> m[i], value |-> v]
    BY <2>1, <2>2
  <2>5. \A k \in 1 .. i : k = i \/ k \in 1 .. Len(out)
    BY <2>1
  <2> QED
    BY <2>1, <2>3, <2>4, <2>5
<1> QED
  BY <1>1, <1>2, <1>3, <1>4 DEF Next, Main, Gone

\* Whatever init did at whatever instant, and however often it was called,
\* the line is one snapshot, complete, and shows nothing that was not read.
THEOREM LineIsOneSnapshot ==
    Spec => [](OneSnapshot /\ PrintsWhatWasRead /\ LineComplete)
<1>1. Init => Shown /\ Backed
  BY ShownInit, BackedInit
<1>2. /\ (TypeOK /\ Counted /\ AllOrNothing) /\ Shown /\ Backed
      /\ [Next]_vars
      => Shown' /\ Backed'
  BY ShownStep, BackedStep
<1>3. (TypeOK /\ Counted /\ AllOrNothing) /\ Shown /\ Backed
      => OneSnapshot /\ PrintsWhatWasRead /\ LineComplete
  <2> SUFFICES ASSUME TypeOK, Counted, Shown, Backed
               PROVE  OneSnapshot /\ PrintsWhatWasRead /\ LineComplete
    OBVIOUS
  <2>1. OneSnapshot
    BY DEF OneSnapshot, Shown, ShowsHeld, FamilyOf
  <2>2. PrintsWhatWasRead
    <3> SUFFICES ASSUME phase # "helped", NEW k \in 1 .. Len(out),
                        FamilyOf(out[k].row) \in Once
                 PROVE  out[k].value.nonzero
      BY DEF PrintsWhatWasRead, FamilyOf, Once
    <3>1. /\ out[k].row = m[k] /\ ShowsHeld(k)
          /\ k \in 1 .. Len(m)
      BY DEF Shown, TypeOK
    <3>2. FamilyOf(m[k]) \in Static
      BY <3>1 DEF Once, Static
    <3> QED
      BY <3>1, <3>2 DEF Backed, ShowsHeld
  <2>3. LineComplete
    BY DEF LineComplete, Shown, Counted
  <2> QED
    BY <2>1, <2>2, <2>3
<1> QED
  BY <1>1, <1>2, <1>3, TypeCorrect, PTL DEF Spec

\* What fs, tcp and nusers print was read: no row of them shows the zeros its
\* statics start with because the init of another row was called for it.
THEOREM OnlyReadings == Spec => []PrintsWhatWasRead
  BY LineIsOneSnapshot, PTL

\* A run that ends well has written one part for each argument, in order.
THEOREM EveryArgument == Spec => []LineComplete
  BY LineIsOneSnapshot, PTL

-----------------------------------------------------------------------------
(***************************************************************************)
(* The selection of rows.                                                  *)
(***************************************************************************)

\* Every selected row is one the loop over the rows stopped at.
Matched ==
    \A k \in 1 .. Len(m) :
        \E j \in 1 .. NModules : StopsAt(argv[k], j) /\ m[k] = RowAt(j)

LEMMA MatchedStep ==
    TypeOK /\ Counted /\ Matched /\ [Next]_vars => Matched'
<1> SUFFICES ASSUME TypeOK, Counted, Matched, [Next]_vars
             PROVE  Matched'
  OBVIOUS
<1>1. CASE UNCHANGED <<argv, m>>
  BY <1>1 DEF Matched
<1>2. CASE ScanReady \/ ScanInit
  <2>1. PICK j \in 1 .. NModules :
            StopsAt(argv[i], j) /\ m' = Append(m, RowAt(j))
    <3>1. CASE ScanReady
      BY <3>1 DEF ScanReady
    <3>2. CASE ScanInit
      <4>1. PICK j \in 1 .. NModules - 1 :
                StopsAt(argv[i], j) /\ m' = Append(m, RowAt(j))
        BY <3>2 DEF ScanInit
      <4>2. j \in 1 .. NModules
        BY ModulesAssumption
      <4> QED
        BY <4>1, <4>2
    <3> QED
      BY <1>2, <3>1, <3>2
  <2>2. /\ m \in Seq(Rows) /\ RowAt(j) \in Rows
        /\ i = Len(m) + 1 /\ argv' = argv
    <3>1. phase = "scan" /\ argv' = argv
      BY <1>2 DEF ScanReady, ScanInit
    <3> QED
      BY <3>1, RowAtRow DEF TypeOK, Counted
  <2>3. /\ Len(m') = i
        /\ m'[i] = RowAt(j)
        /\ \A k \in 1 .. i - 1 : m'[k] = m[k]
    BY <2>1, <2>2
  <2>4. \A k \in 1 .. i : k = i \/ k \in 1 .. Len(m)
    BY <2>2
  <2> QED
    BY <2>1, <2>2, <2>3, <2>4 DEF Matched
<1>3. CASE Tick \/ Usage \/ StartScan \/ ScanFail \/ StartPrint \/ PrintArg
           \/ Exit \/ UNCHANGED vars
  BY <1>1, <1>3
     DEF Tick, Usage, StartScan, ScanFail, StartPrint, PrintArg, Exit, vars
<1> QED
  BY <1>2, <1>3 DEF Next, Main, Gone

\* Two names a word starts with: the longer one starts with the shorter.
LEMMA PrefixesNested ==
    ASSUME NEW s \in Word, NEW t \in Word, NEW u \in Word,
           str_start(s, t), str_start(s, u), Len(t) < Len(u)
    PROVE  str_start(u, t)
  BY DEF str_start, IsPrefix, Word

\* The first row an argument starts with is the longest such name, given
\* that no later name starts with an earlier one.
THEOREM FirstIsLongest == Spec => []LongestMatch
<1>1. Init => Matched
  BY DEF Init, Matched
<1>2. (TypeOK /\ Counted /\ AllOrNothing) /\ Matched /\ [Next]_vars
      => Matched'
  BY MatchedStep
<1>3. (TypeOK /\ Counted /\ AllOrNothing) /\ Matched => LongestMatch
  <2> SUFFICES ASSUME TypeOK, Counted, Matched, NEW k \in 1 .. Len(m)
               PROVE  LET Starts(r) == r # 0 /\ str_start(argv[k], Modules[r].name)
                      IN IF m[k] = 0
                         THEN \A r \in Rows : ~ Starts(r)
                         ELSE /\ Starts(m[k])
                              /\ \A r \in Rows :
                                    Starts(r) => Len(Modules[r].name)
                                                 <= Len(Modules[m[k]].name)
    BY DEF LongestMatch
  <2>1. PICK j \in 1 .. NModules : StopsAt(argv[k], j) /\ m[k] = RowAt(j)
    BY DEF Matched
  <2>2. /\ j < NModules => m[k] = j
        /\ j = NModules => m[k] = 0
        /\ j < NModules \/ j = NModules
    BY <2>1, RowAtRow, ModulesAssumption
  <2>3. \A r \in Rows :
            r # 0 /\ str_start(argv[k], Modules[r].name) => r \in j .. NModules - 1
    BY <2>1, ModulesAssumption DEF StopsAt, Rows
  <2>4. CASE j = NModules
    BY <2>2, <2>3, <2>4, ModulesAssumption
  <2>5. CASE j < NModules
    <3>1. str_start(argv[k], Modules[j].name)
      BY <2>1, <2>5 DEF StopsAt
    <3>2. argv[k] \in Word
      BY DEF TypeOK, Counted, Exits
    <3>3. ASSUME NEW r \in j .. NModules - 1,
                 str_start(argv[k], Modules[r].name)
          PROVE  Len(Modules[r].name) <= Len(Modules[j].name)
      <4>1. Modules[r].name \in Word /\ Modules[j].name \in Word
        BY <2>5, ModulesAssumption DEF Rows
      <4>2. r = j \/ ~ str_start(Modules[r].name, Modules[j].name)
        BY <2>5, TableAssumption, ModulesAssumption
      <4> QED
        BY <3>1, <3>2, <3>3, <4>1, <4>2, PrefixesNested DEF Word
    <3> QED
      BY <2>2, <2>3, <2>5, <3>1, <3>3
  <2> QED
    BY <2>2, <2>4, <2>5
<1> QED
  BY <1>1, <1>2, <1>3, TypeCorrect, PTL DEF Spec

-----------------------------------------------------------------------------
(***************************************************************************)
(* The refinement.                                                         *)
(***************************************************************************)

LEMMA LineInit == Init => Line!Init
<1> SUFFICES ASSUME Init
             PROVE  Line!Init
  OBVIOUS
<1>1. held \in [Static -> Reading]
  BY TypeOKInit DEF TypeOK
<1>2. phase = "start" /\ out = << >>
  BY DEF Init
<1> QED
  BY <1>1, <1>2 DEF Line!Init, Stage, Exits

\* Every step of main is a step of StatusLine, or changes none of it.
LEMMA LineStep ==
    TypeOK /\ TypeOK' /\ Counted /\ [Next]_vars => [Line!Next]_(Line!vars)
<1> SUFFICES ASSUME TypeOK, TypeOK', Counted, [Next]_vars
             PROVE  Line!Next \/ UNCHANGED <<Stage, held, out>>
  BY DEF Line!vars
<1> USE DEF Stage
<1>1. CASE Tick \/ StartScan \/ ScanReady \/ UNCHANGED vars
  BY <1>1 DEF Tick, StartScan, ScanReady, vars, Exits
<1>2. CASE Usage
  <2>1. Line!Help
    BY <1>2 DEF Usage, Line!Help, Exits
  <2> QED
    BY <2>1 DEF Line!Next
<1>3. CASE ScanInit
  <2>1. Line!Gather
    BY <1>3 DEF ScanInit, Line!Gather, TypeOK, Exits
  <2> QED
    BY <2>1 DEF Line!Next
<1>4. CASE ScanFail
  <2>1. PICK j \in 1 .. NModules - 1 : CallInit(j, FALSE)
    BY <1>4 DEF ScanFail
  <2>2. held' = held
    <3>1. j \in Rows /\ FALSE \in BOOLEAN
      BY ModulesAssumption DEF Rows
    <3> QED
      BY <2>1, <3>1, CallInitEffect DEF Static
  <2>3. Line!GiveUp
    BY <1>4, <2>2 DEF ScanFail, Line!GiveUp, Exits
  <2> QED
    BY <2>3 DEF Line!Next
<1>5. CASE StartPrint
  <2>1. Line!Commit
    BY <1>5 DEF StartPrint, Line!Commit, Exits
  <2> QED
    BY <2>1 DEF Line!Next
<1>6. CASE PrintArg
  <2>1. /\ phase = "print" /\ phase' = phase /\ held' = held
        /\ m[i] \in Rows
    BY <1>6 DEF PrintArg, TypeOK, Counted
  <2>2. PICK v \in Prints(m[i]) :
            out' = Append(out, [row |-> m[i], value |-> v])
    BY <1>6 DEF PrintArg
  <2>3. /\ v \in Reading
        /\ Modules[m[i]].family \in Static => v = held[Modules[m[i]].family]
    BY <2>1, <2>2, PrintsReadings
  <2>4. Line!Emit
    BY <2>1, <2>2, <2>3 DEF Line!Emit, Exits
  <2> QED
    BY <2>4 DEF Line!Next
<1>7. CASE Exit
  <2>1. Line!End
    BY <1>7 DEF Exit, Line!End, Exits
  <2> QED
    BY <2>1 DEF Line!Next
<1> QED
  BY <1>1, <1>2, <1>3, <1>4, <1>5, <1>6, <1>7 DEF Next, Main, Gone

\* main implements StatusLine: gather, then commit to one snapshot, then
\* write nothing that does not come from it.
THEOREM ImplementsStatusLine == Spec => KeepsPromise
<1>1. Init => Line!Init
  BY LineInit
<1>2. (TypeOK /\ Counted /\ AllOrNothing)
      /\ (TypeOK /\ Counted /\ AllOrNothing)' /\ [Next]_vars
      => [Line!Next]_(Line!vars)
  BY LineStep
<1> QED
  BY <1>1, <1>2, TypeCorrect, PTL DEF Spec, KeepsPromise, Line!Spec

=============================================================================
