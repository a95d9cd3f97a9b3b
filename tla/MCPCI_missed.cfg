SPECIFICATION PCISpec
CONSTANTS
    Buses = 2
    Devices = 4
    Functions = 2
    MaxDepth = 4
    Ports = 2
    Machines <- BridgedMachines
INVARIANTS
    BridgedComplete
