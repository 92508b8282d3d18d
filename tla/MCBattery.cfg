\* Two levels, and three changes in the course of the three inits.
CONSTANTS
    Levels = {7, 100}
    MaxChanges = 3
SPECIFICATION Spec
INVARIANT ShowsRecentBattery
