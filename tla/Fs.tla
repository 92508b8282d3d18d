--------------------------------- MODULE Fs ---------------------------------
(***************************************************************************)
(* The file systems of ustat_fs.c and ustat_fs_linux.c.  fs_init reads     *)
(* /proc/self/mountinfo twice, first to learn its size, then as a whole,   *)
(* and asks statvfs about each mount point it found.  Meanwhile others     *)
(* mount and unmount.  A print function then looks up the mount point that *)
(* its argument names.                                                     *)
(*                                                                         *)
(* The file is a list of lines.  One read() of it returns the next lines,  *)
(* and not more of them than fit in one page.  A line is one unit long,    *)
(* and two once its file system is mounted again with more options.        *)
(***************************************************************************)
EXTENDS Integers, Sequences, FiniteSets, SequencesExt, FiniteSetsExt

CONSTANTS
    Points,         \* mount points, cut where names branch
    Pseudo,         \* those whose file system has no blocks
    Escaped,        \* those with a blank, which the file shows as \040
    ReadLines,      \* lines that one read() returns at most
    StackRounds,    \* rounds of phase 1 whose array b fits on the stack
    MaxChanges      \* bound on the number of changes of the mount table

Root == <<"/">>

ASSUME FsAssumption ==
    /\ Points \subseteq Seq(STRING) \ {<< >>}
    /\ IsFiniteSet(Points)
    /\ Root \in Points \ (Pseudo \cup Escaped)
    /\ Pseudo \cup Escaped \subseteq Points
    /\ ReadLines \in Nat \ {0}
    /\ StackRounds \in Nat \ {0}
    /\ MaxChanges \in Nat

Nothing == << >>    \* what statvfs tells of a path that does not exist

VARIABLES
    mounts,     \* the mount table of the kernel
    long,       \* those whose line has grown
    pc,
    pos,        \* position in the file: how many of the mounts lie before it
    round,      \* rounds of phase 1: b has the size 1024 * 2^round
    n,          \* size found in phase 1, then the lines that phase 2 read
    buf,        \* what phase 2 read
    i,          \* position of phase 3 in buf
    fs,         \* _fs[0 .. _fs_n - 1], from index 1
    changes,    \* history: number of changes of the mount table
    stable,     \* history: what has been mounted, and not covered, since the
                \* program started
    missed      \* history: what lay behind the one read() of phase 2

kernel == <<mounts, long, changes, stable>>
file == <<pos, round>>
vars == <<kernel, file, pc, n, buf, i, fs, missed>>

\* An entry: the mount point, and the file system whose size it shows.
Entry == [id : Points, of : Points]

Above(q, p) == q = Root \/ IsPrefix(q, p)

\* The file system that one finds at p: what is mounted there or above, the
\* latest of these, for it covers all that was mounted below it before.
Top(p) == mounts[Max({k \in DOMAIN mounts : Above(mounts[k], p)})]

Init ==
    /\ \E others \in SUBSET (Points \ {Root}) :
          mounts \in {<<Root>> \o t : t \in SetToSeqs(others)}
    /\ pc = "phase1"
    /\ long = {}
    /\ pos = 0 /\ round = 0 /\ n = 0
    /\ buf = << >> /\ i = 1
    /\ fs = << >>
    /\ changes = 0
    /\ stable = {p \in ToSet(mounts) : Top(p) = p}
    /\ missed = {}

-----------------------------------------------------------------------------
(***************************************************************************)
(* The kernel.                                                             *)
(***************************************************************************)

Busy == pc \in {"phase1", "phase2", "phase3"} /\ changes < MaxChanges

\* The mount table is a list; a new mount is its last element.  It covers what
\* is mounted below it.  (No place is mounted over twice.)
Mount ==
    /\ Busy
    /\ \E p \in Points \ ToSet(mounts) :
          /\ mounts' = Append(mounts, p)
          /\ stable' = {q \in stable : ~ Above(p, q)}
    /\ changes' = changes + 1
    /\ UNCHANGED <<long, file, pc, n, buf, i, fs, missed>>

\* What is covered cannot be reached, what has a mount on it is busy.
Umount ==
    /\ Busy
    /\ \E k \in DOMAIN mounts :
          /\ mounts[k] # Root /\ Top(mounts[k]) = mounts[k]
          /\ \A j \in DOMAIN mounts : j > k => ~ Above(mounts[k], mounts[j])
          /\ mounts' = RemoveAt(mounts, k)
          /\ stable' = stable \ {mounts[k]}
          /\ long' = long \ {mounts[k]}
          /\ pos' = IF k <= pos THEN pos - 1 ELSE pos
    /\ changes' = changes + 1
    /\ UNCHANGED <<round, pc, n, buf, i, fs, missed>>

\* mount -o remount: the options make the line longer, but not twice as long.
Remount ==
    /\ Busy
    /\ \E p \in ToSet(mounts) \ long : long' = long \cup {p}
    /\ changes' = changes + 1
    /\ UNCHANGED <<mounts, stable, file, pc, n, buf, i, fs, missed>>

\* The size of a list of lines.
Size(lines) == Len(lines) + Cardinality(ToSet(lines) \cap long)

\* What statvfs tells of p: its file system, and of one without blocks nothing
\* of use; nothing if p is not the name of the place, or if the directory of
\* what is not there, or is covered, does not exist in the file system found.
statvfs(p) ==
    IF p \in Escaped THEN {Nothing}
    ELSE {IF Top(p) \in Pseudo THEN Nothing ELSE Top(p)}
         \cup (IF Top(p) = p THEN {} ELSE {Nothing})

-----------------------------------------------------------------------------
(***************************************************************************)
(* _fs_init_platform.                                                      *)
(***************************************************************************)

Measure ==
    /\ pc = "phase1" /\ round < StackRounds
    /\ \E r \in 1 .. Min({ReadLines, Len(mounts) - pos}) :
          /\ pos' = pos + r
          /\ n' = n + Size(SubSeq(mounts, pos + 1, pos + r))
    /\ round' = round + 1
    /\ UNCHANGED <<kernel, pc, buf, i, fs, missed>>

MeasureEnd ==
    /\ pc = "phase1" /\ round < StackRounds
    /\ pos = Len(mounts)
    /\ pc' = "phase2"
    /\ UNCHANGED <<kernel, file, n, buf, i, fs, missed>>

\* read() fails: return 0 with no entry, and fs_init gives up.
MeasureFails ==
    /\ pc = "phase1" /\ round < StackRounds
    /\ pc' = "failed"
    /\ UNCHANGED <<kernel, file, n, buf, i, fs, missed>>

\* b, twice as long in each round, is longer than the stack.
MeasureOverflows ==
    /\ pc = "phase1" /\ round = StackRounds
    /\ pc' = "crashed"
    /\ UNCHANGED <<kernel, file, n, buf, i, fs, missed>>

\* A slip: the buffer has the size found in phase 1.
Bug_BufSize == n

BufSize == 2 * n

\* The number of lines that one read() from the start of the file returns.
Whole ==
    Max({k \in 0 .. Min({ReadLines, Len(mounts)}) :
            Size(SubSeq(mounts, 1, k)) <= BufSize})

\* A slip: phase 3 goes through the whole buffer.
Bug_Consume ==
    /\ pc = "phase2"
    /\ buf' = SubSeq(mounts, 1, Whole)
    /\ missed' = ToSet(SubSeq(mounts, ReadLines + 1, Len(mounts)))
    /\ n' = BufSize
    /\ pc' = "phase3"
    /\ UNCHANGED <<kernel, file, i, fs>>

\* lseek and one read().  If the buffer ends within a line, the mount point
\* of that line may lie before the end.
Consume ==
    /\ pc = "phase2"
    /\ \E k \in {Whole, Whole + 1} :
          /\ k > Whole => /\ Size(SubSeq(mounts, 1, Whole)) < BufSize
                          /\ k <= Min({ReadLines, Len(mounts)})
          /\ buf' = SubSeq(mounts, 1, k)
          /\ n' = k
    /\ missed' = ToSet(SubSeq(mounts, ReadLines + 1, Len(mounts)))
    /\ pc' = "phase3"
    /\ UNCHANGED <<kernel, file, i, fs>>

\* read() fails: n becomes SIZE_MAX, and phase 3 runs out of its buffer.
ConsumeFails ==
    /\ pc = "phase2"
    /\ pc' = "overrun"
    /\ UNCHANGED <<kernel, file, n, buf, i, fs, missed>>

str_start(s, t) == IsPrefix(t, s)

Ignored(p) == \E name \in {<<"/proc">>, <<"/sys">>, <<"/dev">>} : str_start(p, name)

\* One line of phase 3, and _add_mount_entry with it.
AddMountEntry ==
    /\ pc = "phase3" /\ i <= n
    /\ LET p == buf[i] IN
       \E of \in statvfs(p) :
          fs' = IF Ignored(p) \/ of = Nothing THEN fs
                ELSE Append(fs, [id |-> p, of |-> of])
    /\ i' = i + 1
    /\ UNCHANGED <<kernel, file, pc, n, buf, missed>>

\* return 1; fs_init fails if there is no entry.
Finish ==
    /\ pc = "phase3" /\ i > n
    /\ pc' = IF fs = << >> THEN "failed" ELSE "ready"
    /\ UNCHANGED <<kernel, file, n, buf, i, fs, missed>>

Step == \/ Measure \/ MeasureEnd   \/ MeasureFails \/ MeasureOverflows
        \/ Consume \/ ConsumeFails \/ AddMountEntry \/ Finish

Kernel == Mount \/ Umount \/ Remount

Returned == pc \in {"ready", "failed", "overrun", "crashed"} /\ UNCHANGED vars

Next == Step \/ Kernel \/ Returned

Spec == Init /\ [][Next]_vars

-----------------------------------------------------------------------------

\* _fs_select: the first entry of that name, or the first entry of all.
Named(id) == {k \in 1 .. Len(fs) : fs[k].id = id}
_fs_select(id) == fs[IF Named(id) = {} THEN 1 ELSE Min(Named(id))]

-----------------------------------------------------------------------------
(***************************************************************************)
(* Properties.                                                             *)
(***************************************************************************)

TypeOK ==
    /\ mounts \in Seq(Points)
    /\ long \subseteq ToSet(mounts)
    /\ pc \in {"phase1", "phase2", "phase3", "ready", "failed", "overrun", "crashed"}
    /\ pos \in 0 .. Len(mounts)
    /\ round \in 0 .. StackRounds
    /\ n \in Nat
    /\ buf \in Seq(Points)
    /\ pc \in {"phase3", "ready"} => n = Len(buf)
    /\ i \in 1 .. Len(buf) + 1
    /\ fs \in Seq(Entry)
    /\ changes \in 0 .. MaxChanges
    /\ stable \subseteq ToSet(mounts)
    /\ missed \subseteq Points

\* What fst, fsf and the others are for.
Wanted(p) == ~ Ignored(p) /\ p \notin Pseudo \cup Escaped

\* Whatever is mounted, unmounted and mounted anew from the first reading of
\* the file to the last statvfs, each mount point that stays, and that nothing
\* is mounted above, has its own numbers: twice the size found in phase 1 is
\* enough for them.  Of a file that cannot be had in one read(), those of the
\* lines that could be had.
StableMountsShown ==
    pc = "ready" =>
        \A p \in stable \ missed : Wanted(p) => _fs_select(p).of = p

\* The comment of ustat_fs_linux.c:62, "consume the file to find out about
\* its size": phase 1 comes to an end of the file, or reports a failure.
MeasuresFile == pc # "crashed"

=============================================================================
