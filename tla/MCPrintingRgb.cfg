\* The layout that no variable suffers from.
CONSTANTS
    base = 4
    day = 60
    hour = 20
    minute = 5
    Wrap = 1000000
    WrapLong = 1024
    MaxLong = 6
    Calls <- RgbCalls
SPECIFICATION Spec
INVARIANT ShowsRgb
