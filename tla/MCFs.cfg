\* Up to six mount points, of which five fit in one read(); two changes.
CONSTANTS
    Points <- SomePoints
    Pseudo <- SomePseudo
    Escaped <- SomeEscaped
    ReadLines = 5
    StackRounds = 5
    MaxChanges = 2
SPECIFICATION Spec
INVARIANTS
    TypeOK
    StableMountsShown
