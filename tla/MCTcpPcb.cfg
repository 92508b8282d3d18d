\* The numbering of BSD (INDEX_TOTAL behind the states), with three states.
CONSTANTS
    TCP_STATE_FIRST = 0
    TCP_STATE_LAST = 2
    INDEX_TOTAL = 3
    MaxSockets = 3
    Slack = 1
    MaxChanges = 2
SPECIFICATION Spec
INVARIANTS
    TypeOK
    FamiliesAddUp
    TotalsCountSockets
    DumpSumsUp
    CountsEachSocketOnce
    FailsForAReason
