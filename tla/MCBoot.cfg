SPECIFICATION BootFairSpec
CONSTANTS
    Machines <- AnyMachine
INVARIANTS
    OwnFields
    BootsExactly
    FadtTrusted
PROPERTIES
    BootEnds
