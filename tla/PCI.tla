-------------------------------- MODULE PCI --------------------------------
(***************************************************************************)
(* PCI_init: the scan of PCIScan, then the loop that names each device of  *)
(* the list and asks each SATA controller what is attached to it.  The     *)
(* list itself lies at address 0, so a controller whose BAR was not read   *)
(* is looked for in the list.                                              *)
(***************************************************************************)
EXTENDS PCIScan, PCIId, AHCI

CONSTANT Ports      \* ports per adapter (32)

\* A machine also has regs (function |-> its registers), hba (address |->
\* adapter) and junk (the port registers some address past the list looks like).
\* An address is a word of one bit per port, the set of its bits: AHCI_init may
\* take it for pi.
Null == {}

ASSUME RegistersAssumption ==
    Ports \in Nat \ {0} /\
    \A m \in Machines :
        /\ DOMAIN m.regs = DOMAIN m.bus
        /\ \A e \in DOMAIN m.regs : m.regs[e].abar \in {Null} \cup DOMAIN m.hba
        /\ DOMAIN m.hba \subseteq SUBSET (0..Ports - 1) \ {Null}
        /\ \A a \in DOMAIN m.hba :
              /\ m.hba[a].pi \subseteq 0..Ports - 1
              /\ m.hba[a].ports \in [1..Ports -> [ssts : Nat, sig : Signatures]]

VARIABLES
    device,     \* the loop variable of PCI_init
    bars,       \* the BARs stored so far: <<index, number>> |-> value
    report      \* what PCI_init printed, a line per device

reporting == <<device, bars, report>>
allvars == <<vars, reporting>>

PCIInit ==
    /\ Init
    /\ device = 0
    /\ bars = <<>>
    /\ report = <<>>

\* What the configuration space of an entry says; a function a device does not
\* decode is its first.
RegsOf(e) ==
    IF e \in Present THEN machine.regs[e] ELSE machine.regs[<<e[1], e[2], 0>>]

\* pci_devices[i].BAR[n]: PCI_add_device leaves all five of them NULL.
BAR(stored, i, n) == IF <<i, n>> \in DOMAIN stored THEN stored[<<i, n>>] ELSE Null

Store(x, value) ==
    [y \in DOMAIN bars \cup {x} |-> IF y = x THEN value ELSE bars[y]]

\* PCI_get_bar(&pci_devices[i], num), which refuses headers of another type
\* than 0; its caller does not look at the result.  5 is the only num used: the
\* register at 0x24.
PCI_get_bar(i, num) ==
    IF RegsOf(list[i + 1]).header # 0 THEN bars
    ELSE Store(<<i, num - 1>>, RegsOf(list[i + 1]).abar)

\* The adapter at an address.  At NULL, pi is BAR[0] of the first device.
Adapter(address, stored) ==
    IF address # Null THEN machine.hba[address]
    ELSE [pi |-> BAR(stored, 0, 0), ports |-> [p \in 1..Ports |-> machine.junk]]

IsSata(r) == r.class = 1 /\ r.subclass = 6

\* One round of the loop of PCI_init.
PrintDevice ==
    /\ outcome = "done" /\ device < Len(list)
    /\ LET r == RegsOf(list[device + 1])
       IN  /\ bars' = IF IsSata(r) THEN PCI_get_bar(device, 5) ELSE bars
           /\ report' = Append(report,
                  [entry |-> list[device + 1],
                   class |-> PCI_id_to_string(r.class, r.subclass),
                   vendor |-> PCI_vendor_to_string(r.vendor),
                   name |-> PCI_device_id_to_string(r.vendor, r.device),
                   drives |-> IF IsSata(r)
                              THEN AHCI_init(r.prog_if, Adapter(BAR(bars', device, 4), bars'))
                              ELSE {}])
    /\ device' = device + 1
    /\ UNCHANGED vars

\* PCI_init has returned, or the stack is full.
Over ==
    /\ outcome = "overflow" \/ (outcome = "done" /\ device = Len(list))
    /\ UNCHANGED allvars

Step == (PCI_scan_bus /\ UNCHANGED reporting) \/ PrintDevice

PCINext ==
    \/ SkipDevice /\ UNCHANGED reporting
    \/ AddFunction /\ UNCHANGED reporting
    \/ LookBehind /\ UNCHANGED reporting
    \/ Return /\ UNCHANGED reporting
    \/ PrintDevice
    \/ Over

PCISpec == PCIInit /\ [][PCINext]_allvars

\* kmain executes PCI_init; handlers interrupt it and let it go on.
PCIFairSpec == PCISpec /\ WF_allvars(Step)

----------------------------------------------------------------------------
(* Properties *)

\* On a machine without bridges PCI_init returns.
FlatEnds == Flat ~> (outcome = "done" /\ device = Len(list))

Lines == {report[i] : i \in DOMAIN report}

\* Although the cases of the device table run into one another, a device its
\* own vendor's case knows gets that name, no vendor's name goes to a device of
\* a vendor below it, and a device of a vendor the table lacks gets none.
NamedByOwnVendor ==
    \A l \in Lines :
        LET r == RegsOf(l.entry)
            order == <<Intel, Realtek, QEMU, VirtualBox>>
            knows(v) == \E k \in DOMAIN DeviceTable :
                            DeviceTable[k].vendor = v /\ r.device \in DeviceTable[k].ids
        IN  /\ knows(r.vendor) => l.name = <<r.vendor, r.device>>
            /\ l.name # <<>> =>
                  \E i, j \in DOMAIN order :
                      i <= j /\ order[i] = r.vendor /\ order[j] = l.name[1]

\* For each SATA controller PCI_init logs the ports it implements that have a
\* device with its link up, and no others, the registers read being those of
\* that controller; for one whose BAR it could not read it logs none, although
\* AHCI_init then reads the list of devices as if it were the adapter.
DrivesAsAttached ==
    \A l \in Lines :
        LET r == RegsOf(l.entry)
            readable == IsSata(r) /\ Probed(r.prog_if) /\ r.header = 0 /\ r.abar # Null
            up(p) == p.ssts % 8 = 3 /\ (p.ssts \div 256) % 8 = 1 /\ p.sig # "other"
            attached == {p \in machine.hba[r.abar].pi : up(machine.hba[r.abar].ports[p + 1])}
        IN  {d.port : d \in l.drives} = IF readable THEN attached ELSE {}
=============================================================================
