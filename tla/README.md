# A verification project for ustat

`ustat` prints one line for a tmux status bar: each command line argument
selects a *module* (load, uptime, memory, file systems, sockets, users,
battery, colours, text), the module asks the kernel, and the answers are
written to stdout one after the other.  This directory models the program in
TLA+, checks the models with TLC and proves theorems about them with TLAPS.

The program has no threads.  What makes it hard to test is that the *machine*
does not wait for it: mounts, logins, sockets and batteries change between any
two of its reads; files of /proc are handed out in blocks that may end
anywhere; each read may fail; and its modules share static variables which one
of them fills and another one prints.

## The system's parts

| part | sources | state | operations | what makes it correct |
|---|---|---|---|---|
| driver | `ustat.c`, `ustat.h` | `modules[].ready`, `m[]`, loop counters | `main`, `usage`, the table, the protocol of init and print | nothing is printed if an init fails; parts of one source show one reading; the longest name wins; it ends |
| tcp counters | `ustat_tcp.c` | `_tcp_counters`, `_tcp4_…`, `_tcp6_…`, `inited` | `tcp_init`, `_sum_counters`, thirteen prints | totals and families add up; nothing is counted twice; each row shows its own counter |
| /proc/net/tcp reader | `ustat_tcp_linux.c`, `scan_hex.c` | `struct r`: buffer, position, previous and current byte, field | `_read_byte`, `_process_proc_tcp`, `_init_tcp_stats_via_proc_net_tcp` | each line is counted once, under its state, however the file is cut |
| tcp counters of BSD | `ustat_tcp_bsd.c` | the list of the kernel, the buffer | two calls of `sysctl`, the walk over the records | each record is counted once, in one family; it fails only for a reason |
| file systems | `ustat_fs.c`, `ustat_fs_linux.c` | `_fs`, `_fs_n` | three phases of `_fs_init_platform`, `_fs_select`, prints | each mount point shows its own numbers while others come, go and cover each other |
| users | `ustat_user.c` | `nusers` | `nusers_init`, prints of uid, user and their number | each user is counted once, none is missed; the array is neither overrun nor left unwritten |
| battery | `ustat_battery.c`, `ustat_battery_linux.c` | `_battery_info` | `bat_init`, `_get_battery_info`, prints | what is shown was so when it was last asked |
| memory | `ustat_mem.c`, `ustat_mem_linux.c` | `_mem_total`, `_mem_free` | `mem_init`, prints | all numbers are those of one moment |
| processes | `ustat_procs.c` | none | the walk over /proc | no process is counted twice or passed over |
| numbers | `ustat_helper/write_*`, `fmt_*`, `djb/fmt_ulong.c`, `djb/scan_ulong.c` | none | `write_double`, `write_uint64_human`, `uptime_print_human` | the text stands for the value |
| colours | `ustat_color.c` | none (locals that overlap) | `color8_print`, `xterm256_print`, `rgb_print` | the colour named, or nothing |
| load, uptime, cpus, date, text | `ustat_load.c`, `ustat_uptime*.c`, `ustat_cpu.c`, `ustat_date.c`, `ustat_pass.c`, `ustat_spec.c` | `_load`, `_uptime` | one system call each, one write | see driver and numbers |

The parts interact through shared statics only: `main` calls `init` of a row
whose `ready` is 0, the init function fills the statics of its file and marks
its own row (or, in `mem_init` and `fs_init`, forgets to when another row has
filled them), and `main`'s second loop calls `print`, which reads them.

## Modules and how they correspond to the code

Which module uses which:

    StatusLine  <--implements--  Ustat  <--implements--  System
                                                          |  \  \
    TcpCounters <--extends-- TcpStats <-------------------+   |   |
         ^------extends----- TcpPcb            Battery <------+   |
    Numbers, Color <--extends-- Printing       Procs  <-----------+
    ProcTcp, NUsers, Fs: each an init function by itself

**`Ustat`** is the driver.  `phase` is where `main` is; `i`, `m`, `ready` are
its variables; `held` is what the statics of each family contain, reduced to
the instant the kernel was asked and whether the value differs from the one
that means "not read yet" (`Reading`).  `ScanReady`, `ScanInit` and `ScanFail`
are the three ways through the first loop, `PrintArg` the second loop, `Usage`
the `-h` exit.  `load_init`, `uptime_init` and `bat_init` have the same control
and are one operator (`refresh_init`); `mem_init`, `fs_init`, `tcp_init` and
`nusers_init` are as in their files, with the rows they forget to mark.
`Tick` is the machine: its clock advances between any two steps.
**`UstatTable`** is the table of `ustat.c` (49 rows), names cut into tokens.
**`StatusLine`** is the abstract specification: gather without writing, then
commit, then print nothing but the snapshot.  `Ustat!Line` maps one to the
other, and `KeepsPromise` is the refinement.

**`System`** is the whole program on its machine.  The variables of `Ustat`
are there, and beside them the real statics: the counters of `TcpStats` (`T`),
`_battery_info` of `Battery` (`B`), `mem`, and the walk of `Procs`.  Where
`Ustat` calls an init function in one step, `inside` says that `main` is in it,
and it runs there step by step while the machine changes: `CallTcp`, `StepTcp`,
`TcpReturns1` and `TcpReturns0`; `CallBat`, `StepBat` and `BatReturns1`;
`InitMem`, which is one `sysinfo()`; and for the print of nproc `CallNproc`,
`StepNproc` and `NprocReturns`.  `shown` is what the prints write, through the
function the table names for the row (`Counter`, `BatShows`, `MemShows`).
`InitsAreOneStep` says that `System` implements `Ustat`; its variables have
their own names in both, so that the mapping is the identity on the driver and
hides the rest.

**`TcpCounters`** is what both ways of filling the socket counters share: the
arrays, `SumState` and `SumTotal` (one round of `_sum_counters` an action, for
IPv4 and then for IPv6), and what tcpdump shows (`ntcp_print`).
**`TcpStats`** fills them on Linux: `open_read` of both files (with the test
`fd > 0`) and the counting of each in one step.  **`TcpPcb`** fills them on
BSD: `AskSize`, `Fetch` or `FetchFails`, one record a `CountRecord`, and
`LeaveLoop`; `Change` opens, closes or alters a socket between the two calls of
sysctl; `abi` says whether the program was built for another kernel.

**`ProcTcp`** is `_read_byte` and `_process_proc_tcp`, byte by byte.  A file
is any sequence of bytes in which each line behind the title has a state:
`Border` says where a word begins, `Words` which ones begin in a part of a
line, and `StateOf` that the word behind `state_field` others is the state
(`FilesAssumption`; indentation, blanks and the rest of a line are free).
`MCProcTcp` puts together such files for TLC.  `pc`
names the loop that reads next (the labels of the `goto`s), `pos`, `end`,
`consumed`, `err`, `prev`, `cur`, `field` are the fields of `struct r`, and
`Refill` is a `read()` of any length.  The variable `overlap` says whether the
compiler put `val` next to `r`: `scan_hex` is defined for an `unsigned long`
and declared for an `uint32_t`, so that it shifts the neighbour along.

**`Fs`** is `_fs_init_platform`.  The mount table is a list of lines with a
size, to whose end a new mount goes; `Measure` (phase 1) reads on from `pos`,
which moves back when a line before it goes away, and doubles its array in
each `round`; `Consume` (phase 2) is the one `read()` into twice the
size, and `AddMountEntry` (phase 3) one line with its `statvfs`.  `Mount`,
`Umount` and `Remount` are the rest of the machine.  A mount covers what is
mounted below its place (`Above`), and `statvfs` tells of what one finds there,
the latest mount at the place or above it (`Top`).  Two variables are history
that no action looks at: `stable`, what has been mounted and in sight since the
program started, and `missed`, the lines that lay behind the one `read()` of
phase 2.

**`NUsers`** is `nusers_init`: `Count` and `Copy` are the two passes over utmp,
one entry an action, `Allocate` what `malloc` returns, `Sort` any permutation
`qsort` may leave, `Unique` the last loop.  `Change` logs users in and out.
What an entry holds is the text from `ut_user` up to the next zero: a shorter
name ends within the field, a name that fills it is followed by `ut_host`, and
`str_len` counts both.  `byte_copy` writes as many bytes, through the lengths
and names of the elements behind (a length written over is any length `d`), or
beyond the last one: `Fits` tells the two apart, and behind the array the model
stops in `overrun`.

**`Battery`** is `bat_init` for the three rows that share `_battery_info`:
two files, opened and read one after the other, for each row anew; `Change` is
the battery.  `seen` and `recent` are histories, of what the battery was since
the start and since the last `bat_init` began; no action looks at them.

**`Procs`** is `_get_number_active_processes`: `ReadDir` hands out the entries
in ascending order from a position on, as /proc does, and `StartOrEnd` starts
and ends processes meanwhile.

**`Printing`** has one action for each print function that computes something,
called with every value of its statics and every text of its argument;
**`Numbers`** and **`Color`** are the helpers behind it.  `pc` is "overrun"
where the code leaves an array and "undefined" where a conversion is (of a load
or a memory that the system did not tell).

`MCUstat`, `MCProcTcp`, `MCNUsers`, `MCFs`, `MCPrinting` and `MCSystem` give the
constants of these modules values that a configuration cannot write; `TcpPcb`
and `Battery` need none.  `UstatProofs`, `SystemProofs`, `TcpProofs`,
`ProcTcpProofs`, `FsProofs`, `NUsersProofs`, `BatteryProofs` and
`PrintingProofs` hold the theorems.
`SystemProofs` cites the theorems of `UstatProofs` and the invariant of the
counters of Linux from `TcpProofs` by INSTANCE.  Operators
named `Bug_…` are slips of the definition behind them; each breaks a property,
which shows that the property depends on it.

## The runs

| run | configuration | question | bounds |
|---|---|---|---|
| `driver` | `MCUstat.cfg` | Is a line one snapshot, or nothing, for each choice of arguments? Does it end? | the real table; each word alone, each pair of the families, triples of words that share statics or fail; a clock of 3 |
| `system` | `MCSystem.cfg` | Is that so of the program whose inits take steps? Are the numbers shown those of the machine? | the rows that ten argument lists name; 2 changes; 3 states of sockets, none or one in each; 2 levels, memories of 0 to 2, 4 processes |
| `proc_tcp` | `MCProcTcp.cfg` | Is each line counted once wherever the file is cut and wherever `read()` fails? | 3 lines, a buffer of 5 bytes cut everywhere |
| `proc_tcp_layout` | `MCProcTcpLayout.cfg` | … in every build? (no) | 1 line |
| `tcp_pcb` | `MCTcpPcb.cfg` | Is each socket counted once on BSD, and do the sums add up? When does the init fail? | the numbering of BSD with 3 states, 3 sockets, 2 changes, room for one more |
| `nusers` | `MCNUsers.cfg` | Is each user counted once, and none missed? When is the array overrun, or left unwritten? | 3 entries, 3 names of which one fills `ut_user`, with a host of 3 letters and without, a `ut_user` of 2 bytes and lengths of one; 2 changes |
| `nusers_prefix` | `MCNUsersPrefix.cfg` | … if one name starts with another? (no) | 3 entries, the 3 names, no change |
| `fs` | `MCFs.cfg` | Does a mount point that stays show its own numbers? | 6 mount points, one below another, 5 lines a `read()`, 2 changes |
| `fs_stack` | `MCFsStack.cfg` | Does phase 1 come to an end of the file? (no) | 1 line a `read()`, a stack for 3 rounds |
| `printing` | `MCPrinting.cfg` | Does the text stand for the value? Which arrays are left, and when? | loads in 1024ths up to 3 and -1, ratios up to 120, base 4, a day of 60 s, ids around each power of ten; all texts of 3 of 13 characters, of 6 of 4 characters |
| `color_rgb` | `MCPrintingRgb.cfg` | Does `rgb#` show the colour? (no) | the texts of `printing` |
| `battery` | `MCBattery.cfg` | Was what is shown so during the last init? | 2 levels, 3 changes |

Why the bounds are enough.  *Driver*: a property relates at most two parts of
a line to each other, and an init depends on its own family only; two
arguments show each pair, the third is the argument behind a failure or a
refresh, and 3 instants are one for each init.  *System*: an argument list is
there for each family that takes steps, with each of its prints, before and
behind a row that fails and a row that is asked again; two changes are one
before and one behind a reading, and a machine of which no argument asks a
part keeps that part (nothing else reads it).  *ProcTcp*: a buffer shorter
than a line ends in each field and between the two digits, and no state
depends on more than the line before; states of one digit and of a letter are
among them.  *TcpPcb*: the loop of the sums has a first, a middle and a last
round, three sockets are one of each family and one of both, and two sockets
may be opened where there is room for one.  *NUsers*: three entries are two of
one user with another one between them, in each order; a change may fall into
each pass; a name with its host ends with the element behind its own, so that
it spills into another one or leaves the array, by which element it is copied
to.  *Fs*: five of six lines fit in one `read()`, so that files that fit, that
just fit and that do not are among the initial states and reached by changes; a
line that was remounted is twice as long, the most the code's doubling of the
buffer is to bear; the root, a directory and one below it are covered by each
other in the initial states and, between any two reads, by a change.  *Printing*: the code depends on `base` by
division only, and with base 4 the sizes run through all suffixes and behind
them within 20000; the shorter day keeps the ratios of the units whole, the
only thing the code needs; the loads of Linux are fractions with a power of two
below; the characters are both sides of each border of digits and hex letters;
an `unsigned long` of ten bits wraps within four digits.  *Battery*: three
inits with two reads each, and a change may fall between any two of them.

The properties, in a sentence each, stand before their definitions.  The type
invariants apart they are: `AllOrNothing`, `OneSnapshot`, `PrintsWhatWasRead`,
`LongestMatch`, `KernelReadOnce`, `LineComplete`, `KeepsPromise`, `Termination`
(driver); `ShowsSockets`, `ShowsBattery`, `MemoryOfOneMoment`,
`CountsProcesses`, `InitsAreOneStep`, `Termination` (system); `CountsLines`,
`CountsAll`, `Termination` (reader); `FamiliesAddUp`, `TotalsCountSockets`,
`DumpSumsUp`, `CountsEachSocketOnce`, `FailsForAReason` (BSD);
`CountsUsersOnce`, `MissesNoUser`, `OverrunNeedsLoginOrHost`,
`GarbageNeedsLogout`; `StableMountsShown`; `WrongByCarryOnly`,
`SuffixNamesUnit`, `PartsAddUp`, `SmallReadsBack`, `RightColor`,
`NumberBelow256`, `RgbAllOrNothing` (printing); `ShowsRecentBattery`.

### Fairness

`Ustat` assumes `WF_vars(Main)`, `System` `WF_vars(Program)` and `ProcTcp`
`WF_vars(Parse)`: a process that can run is scheduled, and a `read()` of a file
of /proc or a system call of an init function does not block.  The machine
(`Tick`, `Machine`) need not change.  `Termination` of `System` follows from it
because the machine changes a bounded number of times and readdir moves on.
The other modules state no liveness and assume no fairness.

## What the code does against its comments

Four runs show a step of the code that contradicts its text.

* `proc_tcp_layout`: because `scan_hex` writes eight bytes where four are meant,
  in a build that places `r` behind `val` (gcc 12 does) sockets are counted
  under a wrong state, "the should-always-work method" notwithstanding.  The
  states 4 and 6 become 12, which the guard `val > lstore` lets through to the
  word behind the array.
* `nusers_prefix`: `name_t_cmp` takes "b" and "by" for equal, so that b, by, b is
  sorted and b is counted twice.
* `fs_stack`: the array of phase 1 doubles with each `read()` although each
  returns at most a page.  A build of the program ends with a segmentation
  fault when about 1200 file systems are mounted.
* `color_rgb`: the red value is written three times.

Other disagreements are visible in the preconditions of the properties that
hold:

* `CountsUsersOnce` needs zeroed memory (`heap = "zero"`): names are copied
  without their zero into memory from `malloc` and compared as whole arrays,
  and a user may be counted twice.  `MissesNoUser` says what is left without
  zeroed memory, or with names that start with each other: too many, at most
  one for each login, but never too few.
* Both need a utmp that does not change and in which nothing stands behind a
  full `ut_user` (`Undisturbed`, `Bounded`).  `OverrunNeedsLoginOrHost` and
  `GarbageNeedsLogout` say what does which harm: a login between the passes, or
  a name that fills `ut_user` with a host behind it, lets the copy leave the
  array; a logout leaves elements unwritten.  Nothing is said of the number
  of users where a full name and its host stay within the array.
* `StableMountsShown` leaves out the lines behind the one `read()` of phase 2
  (`missed`; a file of /proc returns at most a page), what another mount covers,
  and what starts with /dev, /proc or /sys, `/devel` included; for these the
  first file system is shown, or for what is covered the one that covers it.
* `WrongByCarryOnly` has a second disjunct: 0.996 is written as 0.00.
* `WrongByCarryOnly` speaks of what is written: where the system does not tell
  its memory or its load, 0/0 and -1.0 are converted to an unsigned integer, and
  the model stops in `undefined`.
* `SuffixNamesUnit` says that the suffix is the only one with which the number
  is at least 2 and below 2 * base, and ends at 2 * base^5: above it a NUL byte, and then a byte
  behind the array, stands for a suffix.
* `PartsAddUp` for an uptime below zero: the seconds are printed as an unsigned
  number of twenty digits.
* `SmallReadsBack` ends at a million: an user id of seven digits leaves the
  buffer of six bytes.
* `RightColor` allows `overrun` for the digit 8, which passes the check `i > 8`.
* `NumberBelow256` leaves out numbers longer than an unsigned long: they wrap,
  and if what is left is below 256, the whole text is written.
* `RgbAllOrNothing` allows for `overrun`, in builds in which r lies behind g or
  b: the scanning of these shifts it along, and the number it becomes is longer
  than the buffer of three bytes.
* `ShowsSockets` needs a stdin: descriptor 0 is taken for a failure, and the
  IPv6 sockets are left out.
* `FailsForAReason` has the disjunct `buf = << >>`: on a BSD without a socket no
  line is written at all.
* `MemoryOfOneMoment` and `ShowsBattery` allow for what was never read: a
  memory of zero, and the level 100 of a battery that is missing ("no battery
  -> exit" says the comment).
* `ShowsRecentBattery` holds the last `bat_init` to what is shown with two
  exceptions: `is_charging` is set and never reset, so that "charging" may be of
  an earlier row; and a battery that is away during it is not reported, so that
  the level may be older, or the 100 that was never read.

## What is proved

`tlapm` checks each of these for all values of the constants that satisfy the
named assumptions, which TLC evaluates for the values of the runs:
`ModulesAssumption`, `TableAssumption`, `ArgvsAssumption` and
`MaxInstantAssumption` of the driver (the table and the lists of arguments);
`PartsAssumption` (the numbers of the states and the bounds of the machine),
`NamesAssumption` (which rows the functions named in the table belong to) and
`PidsAssumption` of `System`; `TcpCountersAssumption` (the total is not a
state), `TcpPcbAssumption`; `ProcTcpAssumption` and `FilesAssumption` (what a line of
/proc/net/tcp is, and that there is a counter for each state);
`NUsersAssumption` (texts without a zero in them, sizes that are not zero; of
any length, so that a name may fill its field); `FsAssumption` (finitely many mount points, none of them
the empty path); `NumbersAssumption` (base and the units of the uptime, of which
each is a multiple of the next), `ColorAssumption` (an unsigned long
has room for 256) and `CallsAssumption` (the types of the values that the print
functions are called with).  `BatteryProofs` cites none.

Each theorem below is `Spec => []P` for the property in brackets; its proof is
an inductive invariant, one lemma for each action, and a last temporal step.

### The driver (`UstatProofs`)

* `TypeCorrect` (`TypesHold` for `TypeOK` alone): types, and `AllOrNothing`.
  `Counted` ties `m` and `out` to `i`, without which `m[i]` in the second loop
  has no type.
* `AskedOnce` (`KernelReadOnce`).  Not inductive by itself: that a family of
  `Once` is not asked again follows from its statics being filled, that they
  are filled after one question from the init functions.  `Backed` is that
  strengthening; the lemma `CallInitEffect` says, once for all families, what
  an init function may change, and the rest of the proof cites only it.
* `LineIsOneSnapshot` (`OneSnapshot`; with `OnlyReadings` for
  `PrintsWhatWasRead` and `EveryArgument` for `LineComplete`): `Shown` says that
  each part on the line is its row of `m` with what the statics hold *now*, and
  `held` does not change once printing has begun.
* `FirstIsLongest` (`LongestMatch`): from `TableAssumption`, that no later name
  starts with an earlier one; two names an argument starts with are prefixes of
  each other (`PrefixesNested`).
* `ImplementsStatusLine` (`KeepsPromise`): initial states map to initial states
  and each step to a step or a stutter.

### The whole program (`SystemProofs`)

The invariant `SystemInv` has a part for each thing that is composed: `Driven`
(the driver's types, for the variables of `Ustat`), `Control` (what `inside`
says of `phase` and of the init that runs), `BatteryInv`, `MemoryInv`, the
invariant of the socket counters (`TP!LinuxInv`), that of the driver's readings
(`P!Backed`), and `ShownInv`: each part shown is what the function of its row
makes of the statics as they are now.

* `ComposedImplementsDriver` (`InitsAreOneStep`): `System` implements `Ustat`.
  The step of `Ustat` is the one in which an init function returns; that
  `held` tells of a family what its statics tell is needed there, and that
  nothing but that family's rows was marked on the way.
* `LineShowsSockets` (`ShowsSockets`): the counter that a row shows is cited
  from `CountersAtEnd`, which says what the counters hold behind
  `_sum_counters`; thirteen names of rows are told apart by their tokens.
* `LineShowsBattery` (`ShowsBattery`) and `MemoryIsOfOneMoment`
  (`MemoryOfOneMoment`): what is on the line was backed when it was printed, and
  `batteries` and `memories` only grow.
* `ProcessesCounted` (`CountsProcesses`): up to the position of the walk, `val`
  lies between the cardinalities of `always` and of `ever` (`CountsUpTo`);
  readdir passes over no process that is alive, and whoever starts behind or
  ends before the position changes no side, by the library's theorems on
  cardinalities.

### The socket counters (`TcpProofs`)

The module has the lemmas about `_sum_counters` first, then Linux
(`LinuxSpec`), then BSD (`Spec`); `TcpStats` names what it has in common with
`TcpPcb` with Linux in front, so that one module can be about both.

* `TcpTypeCorrect` and `CountersAgree`, `PcbTypeCorrect` and `PcbCountersAgree`
  (`FamiliesAddUp`): the same argument for both ways of filling the counters.
  `Shared` says what each family has contributed to the shared counters in the
  middle of the loop, `Unfilled` that a family not yet read contributes nothing.
  It holds for each numbering of the states, with the total before or behind
  them.
* `TotalsAreSockets` and `PcbTotalsCountSockets` (`TotalsCountSockets`),
  `DumpAddsUp` and `PcbDumpSumsUp` (`DumpSumsUp`): sums over sets.  The
  community modules define a sum by recursion, and the library's induction
  theorems cannot be used; a sum is shown to be the number of cells of as many
  columns (`Cells`, `CellsAreAdded`), which no recursion defines, and in place
  of an induction stands the smallest set that is an exception (`SmallestSet`).
  `Totalled` is the invariant: the total of a family is the sum over the states
  the loop has passed.
* `PcbCountsEachSocketOnce` (`CountsEachSocketOnce`), for each family, each state
  and their totals: a record has one state and is counted in one family at most,
  although its flags may name both.  `Walked` says that a counter is the number
  of records passed of its family and state (`PassedAs`), `OnceEach` that those
  of a family sum up to the records of it (`PassedOf`); the two rounds of sums
  add two sets that have no record in common (`FamiliesApart`).
* `PcbFailsForAReason` (`FailsForAReason`): in the loop `rc` is 1 as soon as a
  record was passed, and a loop left without one has met the end of an empty
  list or a record of another size.

### The reader of /proc/net/tcp (`ProcTcpProofs`)

* `ReaderTypeCorrect` (`TypeOK`), in every build: the index of a counter is
  bounded by the guard of the code, whatever the bytes are (`FitsIsIndex`).
* `EachLineCounted` (`CountsLines`) and `AllLinesCounted` (`CountsAll`).  The
  invariant has three parts.  `Reader`: `cur` is the byte at `consumed`, and
  `consumed` is `off - end + pos + 1`, so that the cut into blocks is forgotten
  (`NextByte` is all the loops need to know of `_read_byte`).  `Place`: what
  each loop knows of the line it is in, `NoneOpen` behind a state, `Blank` after
  a newline, `InWord` with as many words passed as `field` says, and `AtState`
  at the first digit.  `CountsLines` itself: one byte on, either the same states
  have been read or one more (`PlacesOneOn`, `StateTaken`, `NotAtState`).  A
  line has one state and a place is in one line (`OneState`, `OneLine`), from
  the cardinalities of `Words`.  `Complete` adds that the chain is left before
  the end only by a `read()` that failed: no state is rejected (`DigitsAhead`).

### What is printed (`PrintingProofs`)

Here the step is one call and the work is in the operators; the theorems hold
for every argument there is in the type of the code, and for color texts of any
length.

* `WrittenIsRounded` (`WrongByCarryOnly`): `WriteDouble` gives both cases of
  `write_double` with two decimals, from the one fact about quotients the
  provers lack (`DivMod`).
* `UptimeAddsUp` (`PartsAddUp`): `Quotient` relates the quotient by a unit to
  the one by the next; `PartWritten` and `PartLeftOut` are the two branches of
  each unit, put together in `Uptime`, and `UptimeBelowZero` is the other case.
* `SuffixIsUnit` (`SuffixNamesUnit`): the loop ends after the first k at which
  the size is no longer big (`RoundsEnd`), and within the array below 2 * base^5.
* `SmallIsReadBack` (`SmallReadsBack`): the digits of `fmt_ulong`, scanned again,
  make the value, for each number of digits up to seven (`Digits`, `ReadBack`).
* `NumberFits` (`NumberBelow256`) and `RgbIsChecked` (`RgbAllOrNothing`): what
  `scan_ulong` scans is a number for a text of any length (`NumberInNat`), and
  what is compared with 255 is what is written later (`WrittenIsCompared`);
  three or six hex digits are scanned in full, others are not (`FoundAll`,
  `ScanHex`), in every order of r, g and b in memory; r stays below 256 unless
  it lies behind another (`RedFits`).
* `ColorShown` (`RightColor`): by cases of the last character and of the row.

Two functions are recursive.  `scale` has a domain of eight numbers, and a
function that satisfies its equation is written down (`Scales`).  `Number` runs
along a text of any length; the library's induction theorems take an operator
and cannot be used, but the same argument for a *set* of numbers can: a set that
has 0, and with each n its successor, is all of Nat, because another one would
have a smallest exception (`Induction`, from the library's theorem on minimal
elements).  `NumberIs` and `NumberInNat` rest on it.

### File systems, users, battery

* `FsProofs!FsTypeCorrect` (`TypeOK`) and `MountsShown` (`StableMountsShown`).
  A mount that stays in sight has no later one above it (`StableOnTop`), so
  that it is what `statvfs` finds at its place (`TopOfStable`).
  The mounts that stay come first in the table (`StableFirst`), since new ones
  go to its end and the others only move forward.  Phase 1 has therefore
  measured at least one unit for each (`Measured`), no line is longer than two,
  and so the buffer of twice the size takes all of them that one `read()`
  returns, that is all but `missed` (`StableRead`); phase 3
  enters each line once, with the numbers of its place (`Entered`,
  `OwnNumbers`, `Distinct`).  That one unit for each is enough does not depend
  on which of the lines grew before and which after they were measured.
* `NUsersProofs!UsersTypeCorrect` (`TypeOK`), `OverrunByLoginOrHost` and
  `GarbageByLogout` (`OverrunNeedsLoginOrHost`, `GarbageNeedsLogout`): `Seen` is what
  a pass has counted and what is left before it.  Reading an entry does not
  change it (`LeftStep`); a login behind the cursor makes it more, a logout less
  (`LeftChange`).  `LoginFree` and `LogoutFree` compare it with the user
  processes there are, and then with `n`.  Where there is an element for it,
  only a text longer than `ut_user` leaves the array (`LongIfUnfit`).
* `NUsersProofs!UsersCountedOnce` (`CountsUsersOnce`) and `NobodyMissed`
  (`MissesNoUser`): a name that is no longer than the field is copied into its
  element and touches no other (`CopyOne`).  On names of which none begins
  another, `name_t_cmp` is the strict order `Before` whatever lies behind them
  (`BeforeIsStrict`, `BeforeTransitive`, `ApartTold`), so that in any
  permutation qsort may leave equal names have nothing else between them
  (`Grouped`).  In memory that was zero the last loop tells apart exactly the
  names that differ (`CleanTold`).  The places where the name differs from the
  one before are at least as many as the users but one, and just as many if
  equal names stand together (`GroupsCounted`, by a surjection that then is a
  bijection).  The invariants are `Room`, `Copied` and `Sorted`: the array has
  an element for each login and holds the users of utmp, all of them.
* `BatteryProofs!RowsShowRecentBattery` (`ShowsRecentBattery`): once an init has
  returned, the level is one of `recent` or the battery was away (`HasLevel`),
  and a status that is not charging is one of `recent` (`HasStatus`), since the
  init that read it began after anything `recent` has forgotten; before, the
  level may be unread, and this ends with the first init that returns.

### Only model-checked

* The three `Termination`s, of the driver, the system and the reader: liveness
  under fairness is out of the prover's reach.

Every invariant and every refinement that a passing run checks is stated by a
theorem.

## What is not modelled

* The netlink variant of the tcp counters (`USTAT_NETLINK`): it does not
  compile, `_sum_counters` is called with a third argument.
* The variants for BSD and macOS except for the sockets (`ustat_fs_other.c`,
  `ustat_battery_osx.c`, `ustat_mem_bsd.c`, `ustat_mem_osx.c`, the sysctls of
  load and processes): one call of the system each, of which nothing is left to
  interleave.
* `read_double_from_fd` and `copy_first_n_fields`: nothing calls them.
* A place that is mounted over twice, and a mount that is moved or bound to
  another place (`Fs`).
* What happens behind undefined behaviour (a write behind an array, `read()`
  returning -1 as a length): the models stop there, in `overrun`, `crashed` or
  `undefined`.  `TcpStats` takes it that the reader stays within its array, and
  `System` that the inits of files and users are one step, as `Ustat` does.
* A `malloc` that returns a null pointer, and a `getpwuid` that does
  (`user_print`); neither is looked at by the code.
* A socket that changes its state while /proc/net/tcp is being read: the kernel
  promises no snapshot, and the models take what was read for what there was.
* The text of dates and of /proc/uptime, the escape sequences character by
  character; `write()` failing or writing less (the code never looks at it).

## The plan

Done: the driver with its abstract specification; the tcp reader; the counters
of Linux and BSD; file systems; users; battery; processes; the print functions;
the composition of the driver with sockets, battery, memory and processes, and
its refinement; each with the proofs of its invariants.

Next, in this order:

1. `TcpStats` as an abstraction of `ProcTcp`: the counting of a file in one step
   is what the reader has done when it returns, as a refinement that TLC checks
   and a theorem;
2. a theorem for phase 1 of `Fs`: which number of rounds a table needs that does
   not change, which says how many mounts the stack has room for;
3. the lemmas that several of the proof modules state for themselves (sums,
   quotients, the induction over a set) in a module of their own.
