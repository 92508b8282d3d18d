\* Every layout of the locals.
CONSTANTS
    lstore = 12
    state_field = 3
    BufSize = 5
    Overlaps = {TRUE, FALSE}
    MaxRows = 3
    RowStates = {1, 6, 10}
    Files <- MCFiles
SPECIFICATION Spec
INVARIANTS
    TypeOK
    CountsLines
    CountsAll
PROPERTIES
    Termination
