------------------------------ MODULE PCIScan ------------------------------
(***************************************************************************)
(* PCI_scan_bus: the recursive scan that fills pci_devices.  The recursion *)
(* is the stack of its calls, each with the bus it scans and the device    *)
(* and function it has reached.  The machine is a set of functions <<bus,  *)
(* device, function>> with, for bridges, the bus behind them; a bridge     *)
(* nobody has configured says 0.  PCI composes the scan with what PCI_init *)
(* does next.                                                              *)
(***************************************************************************)
EXTENDS Integers, Sequences, FiniteSets, Functions

CONSTANTS
    Buses,          \* buses (256)
    Devices,        \* devices per bus (32)
    Functions,      \* functions per device (8)
    Machines,       \* the machines scanned
    MaxDepth        \* calls of PCI_scan_bus the kernel's stack has room for

ASSUME PCIAssumption ==
    /\ Buses \in Nat \ {0} /\ Devices \in Nat \ {0} /\ Functions \in Nat \ {0}
    /\ MaxDepth \in Nat \ {0}

NoBus == -1

\* Every device has a function 0, one that decodes no function number has no
\* other, and buses other than 0 are reached through bridges.
ASSUME MachinesAssumption ==
    \A m \in Machines :
        /\ DOMAIN m.bus \subseteq (0..Buses - 1) \X (0..Devices - 1) \X (0..Functions - 1)
        /\ \A e \in DOMAIN m.bus :
              /\ m.bus[e] \in {NoBus} \cup 0..Buses - 1
              /\ <<e[1], e[2], 0>> \in DOMAIN m.bus
              /\ e[1] = 0 \/ \E g \in DOMAIN m.bus : m.bus[g] # NoBus
        /\ \A e \in DOMAIN m.bus : <<e[1], e[2]>> \in m.aliases => e[3] = 0
        /\ \A a \in m.aliases : <<a[1], a[2], 0>> \in DOMAIN m.bus

VARIABLES
    machine,    \* [bus: function |-> bus behind it or NoBus, aliases: devices that
                \* decode no function number and so answer for each; more in PCI]
    list,       \* pci_devices up to device_count
    calls,      \* the calls of PCI_scan_bus in progress, the innermost last
    outcome     \* "scanning", "done", or "overflow" of the stack

vars == <<machine, list, calls, outcome>>

Present == DOMAIN machine.bus

\* get_vendor(...) != 0xFFFF
Answers(b, d, f) ==
    <<b, d, f>> \in Present \/ (<<b, d>> \in machine.aliases /\ f \in 0..Functions - 1)

\* The multi-function bit of the header of function 0.
MultiFunction(b, d) == \E f \in 1..Functions - 1 : <<b, d, f>> \in Present

Flat == \A e \in Present : machine.bus[e] = NoBus

\* The scan without the test of the multi-function bit.
TriedAll(b, d) == Functions

\* How many functions of device d of bus b are tried.
Tried(b, d) == IF MultiFunction(b, d) THEN Functions ELSE 1

\* The bus behind function e; a function a device does not decode is its first.
Behind(e) ==
    IF e \in Present THEN machine.bus[e] ELSE machine.bus[<<e[1], e[2], 0>>]

\* is_bridge and get_secondary_bus of &pci_devices[device]: the bus behind the
\* entry at the index of the device number.  Past device_count that entry is
\* whatever memory holds: if the machine has a bridge it may name it, and any
\* bus, as the two functions cut its device number to different widths.
BusesAt(l, d) ==
    IF d < Len(l) THEN {Behind(l[d + 1])}
    ELSE {NoBus} \cup (IF Flat THEN {} ELSE 0..Buses - 1)

----------------------------------------------------------------------------

Init ==
    /\ machine \in Machines
    /\ list = <<>>
    /\ calls = <<[bus |-> 0, device |-> 0, function |-> 0]>>
    /\ outcome = "scanning"

Top == calls[Len(calls)]

\* The innermost call goes on with its next device.
Advanced == [calls EXCEPT ![Len(calls)] = [Top EXCEPT !.device = @ + 1, !.function = 0]]

InLoop == outcome = "scanning" /\ Top.device < Devices

\* The scan that stays at an empty slot.
SkipDeviceStays ==
    /\ InLoop
    /\ ~Answers(Top.bus, Top.device, 0)
    /\ UNCHANGED vars

\* The scan of a bus that ends at its first empty slot.
SkipDeviceEnds ==
    /\ InLoop
    /\ ~Answers(Top.bus, Top.device, 0)
    /\ calls' = [calls EXCEPT ![Len(calls)].device = Devices]
    /\ UNCHANGED <<machine, list, outcome>>

SkipDevice ==
    /\ InLoop
    /\ ~Answers(Top.bus, Top.device, 0)
    /\ calls' = Advanced
    /\ UNCHANGED <<machine, list, outcome>>

\* PCI_add_device for the next function that is there.
AddFunction ==
    /\ InLoop
    /\ Answers(Top.bus, Top.device, 0)
    /\ Top.function < Tried(Top.bus, Top.device)
    /\ list' = IF Answers(Top.bus, Top.device, Top.function)
               THEN Append(list, <<Top.bus, Top.device, Top.function>>) ELSE list
    /\ calls' = [calls EXCEPT ![Len(calls)].function = @ + 1]
    /\ UNCHANGED <<machine, outcome>>

\* The recursion, if the entry at the index of the device number is a bridge.
LookBehind ==
    /\ InLoop
    /\ Answers(Top.bus, Top.device, 0)
    /\ Top.function >= Tried(Top.bus, Top.device)
    /\ \E bus \in BusesAt(list, Top.device) :
          IF bus = NoBus
          THEN calls' = Advanced /\ UNCHANGED outcome
          ELSE IF Len(calls) < MaxDepth
          THEN /\ calls' = Append(Advanced, [bus |-> bus, device |-> 0, function |-> 0])
               /\ UNCHANGED outcome
          ELSE outcome' = "overflow" /\ UNCHANGED calls
    /\ UNCHANGED <<machine, list>>

\* A call of PCI_scan_bus returns.
Return ==
    /\ outcome = "scanning" /\ Top.device >= Devices
    /\ calls' = SubSeq(calls, 1, Len(calls) - 1)
    /\ outcome' = IF Len(calls) = 1 THEN "done" ELSE outcome
    /\ UNCHANGED <<machine, list>>

PCI_scan_bus == SkipDevice \/ AddFunction \/ LookBehind \/ Return

----------------------------------------------------------------------------
(* Properties *)

\* On a machine without bridges the scan lists every function exactly once,
\* whatever the memory past the end of pci_devices holds and however devices
\* answer to function numbers they do not have.
FlatComplete ==
    outcome = "done" /\ Flat =>
        Range(list) = Present /\ Len(list) = Cardinality(Present)

\* On any machine, a scan that ends has listed all of bus 0, however often and
\* wherever it strayed in between.
Bus0Complete ==
    outcome = "done" => \A e \in Present : e[1] = 0 => e \in Range(list)

\* Bus 0 and the buses behind bridges.
BusesBehind == ({0} \cup {machine.bus[e] : e \in Present}) \ {NoBus}

\* "PCI enumeration" (README.md:9): a scan that ends has listed every function.
\* The code asks whether the entry at the index of the device number is a
\* bridge, and not the entry it just added.
BridgedComplete ==
    outcome = "done" => \A e \in Present : e[1] \in BusesBehind => e \in Range(list)
=============================================================================
