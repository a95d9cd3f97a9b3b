SPECIFICATION FairSpec
CONSTANTS
    Seconds = 2
    Minutes = 2
    Days = 2
    Months = 2
    MaxUpdates = 3
INVARIANTS
    DateTimeNeverAhead
    GreetingFits
PROPERTIES
    CallsReturn
