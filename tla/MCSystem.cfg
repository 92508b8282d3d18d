\* Ten argument lists; a machine that changes up to twice; three states of
\* sockets (established, listening, closing), none or one in each; four
\* processes, ustat among them.
CONSTANTS
    NModules <- SystemNModules
    Modules <- SystemModules
    Argvs <- MCArgvs
    MaxInstant = 3
    TCP_STATE_FIRST = 1
    TCP_STATE_LAST = 3
    INDEX_TOTAL = 0
    MaxSockets = 1
    Levels = {7, 80}
    Sizes = {0, 1, 2}
    Pids = {2, 3, 5, 6}
SPECIFICATION MCSpec
INVARIANTS
    ShowsSockets
    ShowsBattery
    MemoryOfOneMoment
    CountsProcesses
PROPERTIES
    InitsAreOneStep

    Termination
