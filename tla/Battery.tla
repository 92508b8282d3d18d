------------------------------- MODULE Battery -------------------------------
(***************************************************************************)
(* The battery rows (ustat_battery.c, ustat_battery_linux.c).  Each of the *)
(* rows bat%, bat+h and bat+ calls bat_init once, which reads two files,   *)
(* status and capacity, one after the other, into statics that the rows    *)
(* share.  Meanwhile the battery is charged, unplugged or taken out.       *)
(***************************************************************************)
EXTENDS Integers

CONSTANTS
    Levels,         \* charging levels
    MaxChanges      \* bound on the changes of the battery

Statuses == {"Charging", "Discharging", "Full"}
Rows == {"bat%", "bat+h", "bat+"}

ASSUME BatteryAssumption == Levels \subseteq 0 .. 100 /\ MaxChanges \in Nat

VARIABLES
    present,            \* whether BAT0 exists
    status, capacity,   \* what its files say
    pc,
    row,                \* the row whose init runs
    ready,              \* modules[j].ready
    level, is_charging, \* _battery_info
    changes,            \* history: number of changes of the battery
    seen,               \* history: the batteries there were since the start
    recent              \* history: those since the last init began

battery == <<present, status, capacity, changes, seen>>
vars == <<battery, pc, row, ready, level, is_charging, recent>>

NoBattery == [status |-> "none", capacity |-> 100]

\* What the files say, as one value.
Reading == IF present THEN [status |-> status, capacity |-> capacity]
                      ELSE NoBattery

Init ==
    /\ present \in BOOLEAN
    /\ status \in Statuses /\ capacity \in Levels
    /\ pc = "scan"
    /\ row = "bat%"
    /\ ready = [r \in Rows |-> FALSE]
    /\ level = 100 /\ is_charging = 0
    /\ changes = 0
    /\ seen = {Reading} /\ recent = {Reading}

-----------------------------------------------------------------------------

\* The battery: anything may differ at the next read.
Change ==
    /\ pc \notin {"print", "undefined"} /\ changes < MaxChanges
    /\ present' \in BOOLEAN
    /\ status' \in Statuses
    /\ capacity' \in Levels
    /\ <<present, status, capacity>>' # <<present, status, capacity>>
    /\ changes' = changes + 1
    /\ seen' = seen \cup {Reading'}
    /\ UNCHANGED <<pc, row, ready, level, is_charging>>

\* main comes to an argument whose row is not ready.
CallInit ==
    /\ pc = "scan"
    /\ \E r \in Rows : ~ ready[r] /\ row' = r
    /\ pc' = "open_status"
    /\ UNCHANGED <<battery, ready, level, is_charging>>

\* _get_battery_info returns 0 if a file is not there; bat_init ignores it.
OpenStatus ==
    /\ pc = "open_status"
    /\ pc' = IF present THEN "read_status" ELSE "return"
    /\ UNCHANGED <<battery, row, ready, level, is_charging>>

\* A slip: the marker is searched anywhere in the text, and in lower case.
Bug_Marker == {"Charging", "Discharging"}

\* The texts that start with the marker "Charging".
Marker == {"Charging"}

\* is_charging is set, and never reset.
ReadStatus ==
    /\ pc = "read_status" /\ present
    /\ is_charging' = IF status \in Marker THEN 1 ELSE is_charging
    /\ pc' = "open_capacity"
    /\ UNCHANGED <<battery, row, ready, level>>

OpenCapacity ==
    /\ pc = "open_capacity"
    /\ pc' = IF present THEN "read_capacity" ELSE "return"
    /\ UNCHANGED <<battery, row, ready, level, is_charging>>

ReadCapacity ==
    /\ pc = "read_capacity" /\ present
    /\ level' = capacity
    /\ pc' = "return"
    /\ UNCHANGED <<battery, row, ready, is_charging>>

\* The battery was taken out after open: read returns -1, and the zero is
\* written before the buffer.
ReadFails ==
    /\ pc \in {"read_status", "read_capacity"} /\ ~ present
    /\ pc' = "undefined"
    /\ UNCHANGED <<battery, row, ready, level, is_charging>>

Return ==
    /\ pc = "return"
    /\ ready' = [ready EXCEPT ![row] = TRUE]
    /\ pc' = "scan"
    /\ UNCHANGED <<battery, row, level, is_charging>>

\* The arguments are scanned; one of them was a battery row.
StartPrint ==
    /\ pc = "scan" /\ \E r \in Rows : ready[r]
    /\ pc' = "print"
    /\ UNCHANGED <<battery, row, ready, level, is_charging>>

Printed == pc \in {"print", "undefined"} /\ UNCHANGED <<battery, pc, row, ready, level, is_charging>>

Run == \/ OpenStatus \/ ReadStatus \/ OpenCapacity \/ ReadCapacity
       \/ ReadFails  \/ Return     \/ StartPrint   \/ Printed

\* An init that begins forgets what was before; no action looks at recent.
Next == \/ Change   /\ recent' = recent \cup {Reading'}
        \/ CallInit /\ recent' = {Reading}
        \/ Run      /\ UNCHANGED recent

Spec == Init /\ [][Next]_vars

-----------------------------------------------------------------------------
(***************************************************************************)
(* Properties.                                                             *)
(***************************************************************************)

\* However many rows there are, and however the battery changes meanwhile,
\* what is shown was true in the course of the last init, with two exceptions:
\* the level is an older one, or 100 if none was read, only if the battery was
\* away in that time, and "charging" may be older, "not charging" may not.  So
\* level and status belong to different moments only of that last init.
ShowsRecentBattery ==
    pc = "print" =>
        /\ \E b \in recent : b.capacity = level \/ b = NoBattery
        /\ \E b \in seen : b.capacity = level
        /\ is_charging = 0 => \E b \in recent : b.status # "Charging"
        /\ is_charging = 1 => \E b \in seen : b.status = "Charging"

=============================================================================
