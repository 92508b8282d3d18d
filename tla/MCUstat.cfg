\* The driver with its own table: every word alone, every pair of families,
\* and triples of the words that share statics.
CONSTANTS
    NModules <- UstatNModules
    Modules <- UstatModules
    Argvs <- MCArgvs
    MaxInstant = 3
    MaxArgs = 3
SPECIFICATION Spec
INVARIANTS
    TypeOK
    AllOrNothing
    OneSnapshot
    PrintsWhatWasRead
    LongestMatch
    KernelReadOnce
    LineComplete
PROPERTIES
    KeepsPromise
    Termination
