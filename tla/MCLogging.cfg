SPECIFICATION FairSpec
CONSTANTS
    UintMax = 63
    BufferSize = 50
    Machines <- AllMachines
INVARIANTS
    InOrderNothingLost
    NumbersDenote
PROPERTIES
    EverythingShown
