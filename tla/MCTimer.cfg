SPECIFICATION FairSpec
CONSTANTS
    BeepTicks = 3
    GapTicks = 6
    Beeps = 2
    Byte = 4
    Al = 1
INVARIANTS
    ClockKeepsRate
    SilentBetweenBeeps
    ToneAsAsked
PROPERTIES
    SleepsLongEnough
    NeverRetunedWhileOn
    BeepsEnd
CHECK_DEADLOCK FALSE
