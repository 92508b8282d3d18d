\* Every call; base 4, so that the sizes go through all suffixes; a day of
\* three hours of four minutes of five seconds; an unsigned long of ten bits.
CONSTANTS
    base = 4
    day = 60
    hour = 20
    minute = 5
    Wrap = 1000000
    WrapLong = 1024
    MaxLong = 6
    Calls <- MCCalls
SPECIFICATION Spec
INVARIANTS
    WrongByCarryOnly
    SuffixNamesUnit
    PartsAddUp
    SmallReadsBack
    RightColor
    NumberBelow256
    RgbAllOrNothing
