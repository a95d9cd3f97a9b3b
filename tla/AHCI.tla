-------------------------------- MODULE AHCI --------------------------------
(***************************************************************************)
(* What AHCI_init reads of a host bus adapter and what it logs.  An adapter *)
(* is the set pi of its implemented ports and, for each port, the status   *)
(* and the signature of what is attached.  It writes nothing.              *)
(***************************************************************************)
EXTENDS Integers

SIG_SATA_ATA == "ata"
SIG_SATA_ATAPI == "atapi"
SIG_SATA_PM == "pm"

Signatures == {SIG_SATA_ATA, SIG_SATA_ATAPI, SIG_SATA_PM, "other"}

SATA_ATA == 1
SATA_PM == 3
SATA_ATAPI == 4

\* Any port that is there, whether or not its link is up.
AHCI_check_port_typeAnyLink(port) ==
    IF port.sig = SIG_SATA_ATA THEN SATA_ATA
    ELSE IF port.sig = SIG_SATA_ATAPI THEN SATA_ATAPI
    ELSE IF port.sig = SIG_SATA_PM THEN SATA_PM ELSE 0

\* A device is present with its link up (bits 0 to 2 of ssts), the interface is
\* active (bits 8 to 10), and the signature is a known one.
AHCI_check_port_type(port) ==
    IF port.ssts % 8 # 3 \/ (port.ssts \div 256) % 8 # 1 THEN 0
    ELSE IF port.sig = SIG_SATA_ATA THEN SATA_ATA
    ELSE IF port.sig = SIG_SATA_ATAPI THEN SATA_ATAPI
    ELSE IF port.sig = SIG_SATA_PM THEN SATA_PM ELSE 0

\* Vendor specific and serial bus interfaces are left alone.
Probed(prog_if) == prog_if \notin {0, 2}

\* The ports AHCI_init logs, each with the type it logs for it.
AHCI_init(prog_if, hba) ==
    IF ~Probed(prog_if) THEN {}
    ELSE {[port |-> p, type |-> AHCI_check_port_type(hba.ports[p + 1])] :
             p \in {q \in hba.pi : AHCI_check_port_type(hba.ports[q + 1]) # 0}}
=============================================================================
