------------------------------- MODULE MCPCI -------------------------------
(* Machines of one bus, of two buses joined by one bridge, and of up to two  *)
(* functions of any kind the tables or AHCI_init tell apart.                 *)
EXTENDS PCI, TLC

Slots == 0..Devices - 1

\* What a slot may hold, as the set of its functions.
Holdings == {{}, {0}, {0, 1}}

On(bus, h) == UNION {{<<bus, d, f>> : f \in h[d]} : d \in Slots}

Plain == [class |-> 2, subclass |-> 0, prog_if |-> 0, header |-> 0, abar |-> Null,
          vendor |-> Intel, device |-> \h100E]

Bridge == [Plain EXCEPT !.class = 6, !.subclass = 4, !.header = 1]

NoAdapter == [a \in {} |-> 0]

Idle == [ssts |-> 0, sig |-> "other"]
Disk == [ssts |-> \h113, sig |-> SIG_SATA_ATA]

Machine(present, bridge, behind, aliases) ==
    [bus |-> [e \in present |-> IF e = bridge THEN behind ELSE NoBus],
     aliases |-> aliases,
     regs |-> [e \in present |-> IF e = bridge THEN Bridge ELSE Plain],
     hba |-> NoAdapter, junk |-> Idle]

NoBridge == <<-1, -1, -1>>

\* One bus; a single-function device may answer to every function number.
FlatMachines ==
    UNION {LET p == On(0, h)
               singles == {d \in Slots : h[d] = {0}}
           IN  {Machine(p, NoBridge, NoBus, {<<0, d>> : d \in a}) : a \in SUBSET singles} :
           h \in [Slots -> Holdings]}

\* A bridge on bus 0, configured or not, and single-function devices on bus 1.
BridgedMachines ==
    UNION {LET p == On(0, h)
           IN  {Machine(p \cup {<<1, d, 0>> : d \in q}, b, n, {}) :
                   b \in p, n \in 0..1, q \in {{0}, Slots \ {0}, Slots}} :
           h \in [Slots -> Holdings]}

\* Every vendor of the device table and three others, with one device of each
\* vendor and one of none.
NamedKinds ==
    {[Plain EXCEPT !.vendor = v, !.device = d] :
        v \in {Intel, Realtek, QEMU, VirtualBox, \h10DE, 17},
        d \in {\h153A, \h8139, \h1111, \hCAFE, 17}}

ClassKinds ==
    {[Plain EXCEPT !.class = c, !.subclass = s] : c \in 0..15, s \in {0, 5, 16, 20}}

SataKinds ==
    {[Plain EXCEPT !.class = 1, !.subclass = 6, !.prog_if = p, !.header = h, !.abar = a] :
        p \in 0..3, h \in {0, 1}, a \in {Null, {0}, {1}}}

Attached == {Disk, [Disk EXCEPT !.ssts = \h103], [Disk EXCEPT !.ssts = \h111],
             [Disk EXCEPT !.sig = "atapi"], [Disk EXCEPT !.sig = "pm"],
             [Disk EXCEPT !.sig = "other"]}

Kinds(regs, hba, junk) ==
    [bus |-> [e \in DOMAIN regs |-> NoBus], aliases |-> {}, regs |-> regs, hba |-> hba,
     junk |-> junk]

First == <<0, 0, 0>>
Second == <<0, 2, 0>>

\* One function of any kind.
SingleMachines ==
    {Kinds(First :> k, NoAdapter, Idle) : k \in NamedKinds \cup ClassKinds}

\* A controller behind another function or another controller, two adapters of
\* two ports.
SataMachines ==
    {Kinds((First :> j) @@ (Second :> k),
           ({0} :> [pi |-> p, ports |-> <<Disk, b>>])
               @@ ({1} :> [pi |-> {0, 1}, ports |-> <<Idle, Disk>>]),
           Disk) :
        j \in {k \in SataKinds : k.prog_if = 1} \cup {Plain}, k \in SataKinds, p \in SUBSET {0, 1}, b \in Attached}

AllMachines == FlatMachines \cup BridgedMachines \cup SingleMachines \cup SataMachines
=============================================================================
