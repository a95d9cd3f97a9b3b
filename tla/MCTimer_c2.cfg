SPECIFICATION Spec
CONSTANTS
    BeepTicks = 2
    GapTicks = 2
    Beeps = 1
    Byte = 4
    Al = 1
INVARIANTS
    C2Frequency
CHECK_DEADLOCK FALSE
