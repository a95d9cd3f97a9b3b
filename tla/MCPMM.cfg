SPECIFICATION Spec
CONSTANTS
    Bits = 2
    Word = 2
    PageSize = 2
    Maps <- SmallMaps
INVARIANTS
    TypeOK
    UsableFreed
    ReservedKept
    StoresInUsable
