SPECIFICATION PCIFairSpec
CONSTANTS
    Buses = 2
    Devices = 4
    Functions = 2
    MaxDepth = 4
    Ports = 2
    Machines <- AllMachines
INVARIANTS
    FlatComplete
    Bus0Complete
    NamedByOwnVendor
    DrivesAsAttached
PROPERTIES
    FlatEnds
