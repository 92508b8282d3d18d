\* Three entries, and up to two changes while they are read.
CONSTANTS
    Slots = 3
    Texts <- WithHost
    NameLen = 2
    LenSize = 1
    Heaps = {"zero", "dirty"}
    MaxChanges = 2
SPECIFICATION Spec
INVARIANTS
    TypeOK
    CountsUsersOnce
    MissesNoUser
    OverrunNeedsLoginOrHost
    GarbageNeedsLogout
