------------------------------- MODULE PCIId -------------------------------
(***************************************************************************)
(* The three tables of pci_id.c.  A name stands for a string: <<class,     *)
(* subclass>> or <<vendor, device>> for an entry of its own, <<class>> or  *)
(* <<vendor>> for the name of all the others of that class or of that      *)
(* vendor, <<>> for "Unknown device" and "Unknown vendor".                 *)
(***************************************************************************)
EXTENDS Integers, Sequences, FiniteSetsExt

\* The subclasses with a name of their own, classes 1 to 6.
StorageToBridges == <<0..8, 0..8, 0..2, 0..3, 0..1, 0..10>>

\* Classes 7 to 14.  The numbers from 10 on in classes 11 and 13 are decimal.
CommunicationToIntelligent ==
    <<0..5, 0..6, 0..4, {0}, {0, 1, 2, 10, 20, 30, 40}, 0..9,
      {0, 1, 10, 11, 12, 20, 21}, {0}>>

Subclasses == StorageToBridges \o CommunicationToIntelligent

PCI_id_to_string(class, subclass) ==
    IF class = 0 THEN <<0>>
    ELSE IF class \notin DOMAIN Subclasses THEN <<>>
    ELSE IF subclass \in Subclasses[class] THEN <<class, subclass>> ELSE <<class>>

Vendors ==
    {\h1002, \h8086, \h168C, \h10DE, \h10EC, \h1A58, \h1014, \h1414, \h1234,
     \h1AE0, \h80EE, \h1AF4}

PCI_vendor_to_string(vendor) == IF vendor \in Vendors THEN <<vendor>> ELSE <<>>

Intel == \h8086
Realtek == \h10EC
QEMU == \h1234
VirtualBox == \h80EE

\* The cases of PCI_device_id_to_string in another order.
DeviceTableQemuFirst ==
    <<[vendor |-> QEMU, ids |-> {\h1111}],
      [vendor |-> Intel, ids |-> {\h100E, \h153A, \h10EA}],
      [vendor |-> Realtek, ids |-> {\h8139}],
      [vendor |-> VirtualBox, ids |-> {\hBEEF, \hCAFE}]>>

\* The cases of PCI_device_id_to_string, in their order.
DeviceTable ==
    <<[vendor |-> Intel, ids |-> {\h100E, \h153A, \h10EA}],
      [vendor |-> Realtek, ids |-> {\h8139}],
      [vendor |-> QEMU, ids |-> {\h1111}],
      [vendor |-> VirtualBox, ids |-> {\hBEEF, \hCAFE}]>>

\* No case ends in a break: from the vendor's own case the search goes on to
\* the cases below it.
PCI_device_id_to_string(vendor, device) ==
    LET own == {k \in DOMAIN DeviceTable : DeviceTable[k].vendor = vendor}
        hits == {k \in DOMAIN DeviceTable :
                    device \in DeviceTable[k].ids /\ \E e \in own : e <= k}
    IN  IF hits = {} THEN <<>> ELSE <<DeviceTable[Min(hits)].vendor, device>>
=============================================================================
