\* One line, in every layout of the locals.
CONSTANTS
    lstore = 12
    state_field = 3
    BufSize = 5
    Overlaps = {TRUE, FALSE}
    MaxRows = 1
    RowStates = {1, 4, 11}
    Files <- MCFiles
SPECIFICATION Spec
INVARIANT AlwaysWorks
