\* A line in each read(), and an array b that outgrows the stack in the fourth.
CONSTANTS
    Points <- SomePoints
    Pseudo <- SomePseudo
    Escaped <- SomeEscaped
    ReadLines = 1
    StackRounds = 3
    MaxChanges = 0
SPECIFICATION Spec
INVARIANT MeasuresFile
