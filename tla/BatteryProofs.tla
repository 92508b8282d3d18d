---------------------------- MODULE BatteryProofs ----------------------------
(***************************************************************************)
(* Proof that the battery rows show the recent battery, for all            *)
(* levels and any number of changes.                                       *)
(***************************************************************************)
EXTENDS Battery, TLAPS

HadLevel == \E b \in seen : b.capacity = level
WasCharging == \E b \in seen : b.status = "Charging"

HasLevel == \E b \in recent : b.capacity = level \/ b = NoBattery
HasStatus == is_charging = 0 => \E b \in recent : b.status # "Charging"

\* Some init has returned, and none runs.
Through ==
    \/ pc \in {"return", "print"}
    \/ pc = "scan" /\ \E r \in Rows : ready[r]

\* No init has returned yet, and the level has its initial value.
LevelUnread == level = 100 /\ ~ Through /\ \A r \in Rows : ~ ready[r]

IInv ==
    /\ Reading \in seen
    /\ Reading \in recent
    /\ is_charging = 1 => WasCharging
    /\ HadLevel \/ LevelUnread
    /\ pc \in {"open_capacity", "read_capacity"} \/ Through => HasStatus
    /\ Through => HasLevel

\* What the current files say is recorded, and the level of an absent battery
\* counts as 100.
LEMMA ReadingFields ==
    /\ present => Reading.status = status /\ Reading.capacity = capacity
    /\ ~ present => Reading = NoBattery
    /\ NoBattery.status = "none" /\ NoBattery.capacity = 100
  BY DEF Reading, NoBattery

LEMMA InitIInv == Init => IInv
  BY DEF Init, IInv, LevelUnread, Through

LEMMA IInvStep == IInv /\ [Next]_vars => IInv'
<1> SUFFICES ASSUME IInv, [Next]_vars
             PROVE  IInv'
  OBVIOUS
<1> USE DEF IInv, HadLevel, WasCharging, HasLevel, HasStatus, Through, LevelUnread
<1>1. CASE Change /\ recent' = recent \cup {Reading'}
  BY <1>1 DEF Change
<1>2. ASSUME UNCHANGED battery
      PROVE  seen' = seen /\ Reading' = Reading
  BY <1>2 DEF battery, Reading
<1>3. CASE CallInit /\ recent' = {Reading}
  BY <1>2, <1>3 DEF CallInit
<1>4. CASE OpenStatus /\ UNCHANGED recent
  BY <1>2, <1>4, ReadingFields DEF OpenStatus
<1>5. CASE ReadStatus /\ UNCHANGED recent
  BY <1>2, <1>5, ReadingFields DEF ReadStatus, Marker
<1>6. CASE OpenCapacity /\ UNCHANGED recent
  BY <1>2, <1>6, ReadingFields DEF OpenCapacity
<1>7. CASE ReadCapacity /\ UNCHANGED recent
  BY <1>2, <1>7, ReadingFields DEF ReadCapacity
<1>8. CASE ReadFails /\ UNCHANGED recent
  BY <1>2, <1>8 DEF ReadFails
<1>9. CASE Return /\ UNCHANGED recent
  BY <1>2, <1>9 DEF Return
<1>10. CASE StartPrint /\ UNCHANGED recent
  BY <1>2, <1>10 DEF StartPrint
<1>11. CASE (Printed /\ UNCHANGED recent) \/ UNCHANGED vars
  BY <1>2, <1>11 DEF Printed, vars
<1> QED
  BY <1>1, <1>3, <1>4, <1>5, <1>6, <1>7, <1>8, <1>9, <1>10, <1>11 DEF Next, Run

\* For every sequence of rows and of changes, the level and "not charging" are
\* those of the last init, where the battery was not away (ustat_battery.c:16-27,
\* ustat_battery_linux.c:24-54).
THEOREM RowsShowRecentBattery == Spec => []ShowsRecentBattery
<1>1. IInv => ShowsRecentBattery
  BY DEF IInv, ShowsRecentBattery, HadLevel, LevelUnread, Through, HasLevel, HasStatus, WasCharging
<1> QED
  BY <1>1, InitIInv, IInvStep, PTL DEF Spec

=============================================================================
