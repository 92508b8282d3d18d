-------------------------------- MODULE Procs --------------------------------
(***************************************************************************)
(* The number of processes (ustat_procs.c): nproc_print opens /proc, calls *)
(* readdir until nothing is left, and counts the names that start with a   *)
(* digit.  Processes start and end between any two calls.                  *)
(***************************************************************************)
EXTENDS Integers, FiniteSets

CONSTANT Pids       \* the numbers of processes

ASSUME PidsAssumption == Pids \subseteq Nat \ {0} /\ IsFiniteSet(Pids) /\ Pids # {}

VARIABLES
    alive,      \* the processes of the machine
    dir,        \* whether /proc is open
    pos, val,   \* the position of readdir; the number of processes so far
    always, ever    \* history: the processes that lived all through the walk,
                    \* and those that lived at some time of it

walk == <<dir, pos, val, always, ever>>

\* ustat itself is one of them.
self == CHOOSE p \in Pids : TRUE

ProcsInit ==
    /\ \E S \in SUBSET Pids : alive = S \cup {self}
    /\ dir = "closed"
    /\ pos = -1 /\ val = 0
    /\ always = {} /\ ever = {}

\* A process starts, or ends.
StartOrEnd ==
    /\ \E p \in Pids \ {self} :
          alive' = IF p \in alive THEN alive \ {p} ELSE alive \cup {p}
    /\ IF dir = "open"
       THEN always' = always \cap alive' /\ ever' = ever \cup alive'
       ELSE UNCHANGED <<always, ever>>
    /\ UNCHANGED <<dir, pos, val>>

OpenDir ==
    /\ dir = "closed"
    /\ dir' = "open"
    /\ pos' = -1 /\ val' = 0
    /\ always' = alive /\ ever' = alive
    /\ UNCHANGED alive

\* nproc_print writes the zero it starts with.
OpenDirFails ==
    /\ dir = "closed"
    /\ val' = 0 /\ always' = {} /\ ever' = {}
    /\ UNCHANGED <<alive, dir, pos>>

\* The directory lists what is no process, as the entry 0, and then the
\* processes of this moment that are behind the position, in ascending order.
Behind == {e \in {0} \cup alive : e > pos}

\* A slip: every entry is counted.
Bug_isdigit(e) == TRUE

\* The names of processes start with a digit, no other name does.
isdigit(e) == e # 0

ReadDir ==
    /\ dir = "open"
    /\ \E e \in Behind :
          /\ \A other \in Behind : e <= other
          /\ pos' = e
          /\ val' = IF isdigit(e) THEN val + 1 ELSE val
    /\ UNCHANGED <<alive, dir, always, ever>>

CloseDir ==
    /\ dir = "open" /\ Behind = {}
    /\ dir' = "closed"
    /\ UNCHANGED <<alive, pos, val, always, ever>>

ProcsNext == StartOrEnd \/ OpenDir \/ OpenDirFails \/ ReadDir \/ CloseDir

ProcsSpec == ProcsInit /\ [][ProcsNext]_<<alive, walk>>

-----------------------------------------------------------------------------

\* The number that is shown is not below the number of processes that lived
\* all through the walk, and not above that of those that lived at some time
\* of it: none is counted twice or passed over, whatever starts and ends.
CountsProcesses ==
    dir = "closed" => Cardinality(always) <= val /\ val <= Cardinality(ever)

=============================================================================
