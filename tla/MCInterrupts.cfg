SPECIFICATION FairSpec
CONSTANTS
    Lines <- PCLines
    Glitches <- BothGlitches
    Faults = TRUE
    MaxPeriods = 2
INVARIANTS
    TypeOK
    NothingLeftInService
    TicksConserved
    PanicCause
    ByteSurvives
PROPERTIES
    DeafOnlyByRemap
    TimerServed
    ImplementsClock
