-------------------------------- MODULE Boot --------------------------------
(***************************************************************************)
(* How kmain uses what the loader and the firmware left: VBE_init and      *)
(* stivale2_get_tag walk the loader's tags, then CPU_init, PMM_init,       *)
(* PCI_init and ACPI_init fill their records.  cpu_info, pci_devices and   *)
(* acpi_info are pointers nothing sets, so the three records (and the page *)
(* bitmap, if no region has room for it) lie over one another at address   *)
(* 0: low holds their first fields, by offset, each with its last writer.  *)
(***************************************************************************)
EXTENDS Integers, Sequences, FiniteSetsExt

CONSTANT Machines   \* what the loader and the firmware may have left

TagIds == {"memmap", "framebuffer", "rsdp", "smp", "other"}

ASSUME MachinesAssumption ==
    \A m \in Machines :
        /\ m.tags \in Seq(TagIds) /\ m.tags # <<>>
        /\ {m.hypervisor, m.bitmapAtZero, m.devices, m.rootOk} \subseteq BOOLEAN
        /\ m.revision \in 0..255
        /\ m.tables \in Seq([facp : BOOLEAN, ok : BOOLEAN])

VARIABLES
    machine,    \* the machine kmain runs on (constant)
    where,      \* "tags", "records" or "done"; "lost" or "wild" if kmain strays
    tag,        \* current_tag, as its place in the list
    lookups,    \* the lookups Boot_get_info still has to make
    pc,         \* the next access to the records
    low,        \* the fields at address 0
    fadt        \* ACPI_init's local of that name, as a place in the root table

bootvars == <<machine, where, tag, lookups, pc, low, fadt>>

Offsets == {0, 8, 16, 24}
Null == 0
Unknown == -1       \* any value the properties do not tell apart

----------------------------------------------------------------------------
(* The accesses to the records *)

Write(who, offset, value) == [op |-> "write", who |-> who, offset |-> offset, value |-> value]
Read(who, offset) == [op |-> "read", who |-> who, offset |-> offset]
Find == [op |-> "find"]

\* vendor, is_hypervisor, smp_info; then the messages that print them.
CPU_init(m) ==
    <<Write("cpu", 0, Unknown), Write("cpu", 8, Unknown), Write("cpu", 24, Unknown),
      Read("cpu", 24), Read("cpu", 0), Read("cpu", 8)>>
    \o IF m.hypervisor THEN <<Write("cpu", 16, Unknown), Read("cpu", 16)>> ELSE <<>>

\* bitmap_free_region when pages_bitmap is still NULL: bitmap_clear_bit is an &=,
\* here of every field, as if all of the pages whose bits lie there were usable.
PMM_init(m) ==
    IF ~m.bitmapAtZero THEN <<>>
    ELSE <<Read("pmm", 0), Write("pmm", 0, Unknown), Read("pmm", 8), Write("pmm", 8, Unknown),
           Read("pmm", 16), Write("pmm", 16, Unknown), Read("pmm", 24), Write("pmm", 24, Unknown)>>

\* pci_devices[0]: bus to device_id, vendor_id and BAR[0], BAR[1] and BAR[2],
\* BAR[3] and BAR[4]; PCI_get_bar sets none of those below BAR[4].
PCI_init(m) ==
    IF ~m.devices THEN <<>>
    ELSE <<Write("pci", 0, Unknown), Write("pci", 8, Unknown), Write("pci", 16, Null),
           Write("pci", 24, 0), Read("pci", 0), Read("pci", 8)>>

\* The version taken only from the RSDP's second revision.
VersionWriteLate(m) ==
    IF m.revision \in {1, 2} THEN <<Write("acpi", 24, m.revision)>> ELSE <<>>

\* acpi_info->version: revisions above 2 leave it alone.
VersionWrite(m) ==
    IF m.revision = 0 THEN <<Write("acpi", 24, 1)>>
    ELSE IF m.revision <= 2 THEN <<Write("acpi", 24, m.revision)>> ELSE <<>>

\* A checksum test of the RSDT alone.
RootRefusedRsdt(m) == m.revision = 0 /\ ~m.rootOk

\* The checksum of the root table is tested for the revisions that have one.
RootRefused(m) == m.revision <= 2 /\ ~m.rootOk

ACPI_init(m) ==
    VersionWrite(m) \o
    IF RootRefused(m) THEN <<>>
    ELSE <<Read("acpi", 24), Find, Read("acpi", 24),
           Write("acpi", 0, Unknown), Write("acpi", 8, Unknown), Write("acpi", 16, Unknown)>>

kmain(m) == CPU_init(m) \o PMM_init(m) \o PCI_init(m) \o ACPI_init(m)

\* A search that goes on after a table with a wrong checksum.
ACPI_find_tableNext(m) ==
    LET found == {i \in DOMAIN m.tables : m.tables[i].facp /\ m.tables[i].ok}
    IN  IF found = {} THEN Null ELSE Min(found)

\* ACPI_find_table in the root table: the first FACP, if its checksum is right.
ACPI_find_table(m) ==
    LET found == {i \in DOMAIN m.tables : m.tables[i].facp}
    IN  IF found = {} \/ ~m.tables[Min(found)].ok THEN Null ELSE Min(found)

----------------------------------------------------------------------------

BootInit ==
    /\ machine \in Machines
    /\ where = "vbe" /\ tag = 1
    /\ lookups = <<"memmap", "framebuffer", "rsdp", "smp">>
    /\ pc = 1
    /\ low = [o \in Offsets |-> [who |-> "firmware", value |-> Unknown]]
    /\ fadt = Null

HasFramebuffer == \E i \in DOMAIN machine.tags : machine.tags[i] = "framebuffer"

\* VBE_init walks the whole list and tests for its end; without a framebuffer
\* it goes on to draw through a NULL fb_info.
VBE_init ==
    /\ where = "vbe"
    /\ where' = IF HasFramebuffer THEN "tags" ELSE "wild"
    /\ UNCHANGED <<machine, tag, lookups, pc, low, fadt>>

\* stivale2_get_tag returns current_tag; the next lookup starts at the second
\* tag.
TagFoundLate ==
    /\ where = "tags" /\ machine.tags[tag] = Head(lookups)
    /\ lookups' = Tail(lookups)
    /\ tag' = IF Len(machine.tags) > 1 THEN 2 ELSE 1
    /\ where' = IF Tail(lookups) = <<>> THEN "records" ELSE "tags"
    /\ UNCHANGED <<machine, pc, low, fadt>>

\* stivale2_get_tag returns current_tag; Boot_get_info makes its next lookup.
TagFound ==
    /\ where = "tags" /\ machine.tags[tag] = Head(lookups)
    /\ lookups' = Tail(lookups)
    /\ tag' = 1
    /\ where' = IF Tail(lookups) = <<>> THEN "records" ELSE "tags"
    /\ UNCHANGED <<machine, pc, low, fadt>>

\* current_tag goes on; at the end of the list it is MEM_OFFSET and not NULL,
\* and the walk leaves the list.
NextTag ==
    /\ where = "tags" /\ machine.tags[tag] # Head(lookups)
    /\ IF tag < Len(machine.tags)
       THEN tag' = tag + 1 /\ UNCHANGED where
       ELSE where' = "lost" /\ UNCHANGED tag
    /\ UNCHANGED <<machine, lookups, pc, low, fadt>>

Access == kmain(machine)[pc]

InRecords(op) == where = "records" /\ pc <= Len(kmain(machine)) /\ Access.op = op

\* The last field ACPI_init stores is fadt.
Stored == IF Access.who = "acpi" /\ Access.offset = 16 THEN fadt ELSE Access.value

WriteField ==
    /\ InRecords("write")
    /\ low' = [low EXCEPT ![Access.offset] = [who |-> Access.who, value |-> Stored]]
    /\ pc' = pc + 1
    /\ UNCHANGED <<machine, where, tag, lookups, fadt>>

ReadField ==
    /\ InRecords("read")
    /\ pc' = pc + 1
    /\ UNCHANGED <<machine, where, tag, lookups, low, fadt>>

\* ACPI_find_table takes the root table by acpi_info->version: the RSDT, set
\* for revision 0 only, or the XSDT, set for 1 and 2.  A NULL one is read at
\* address 0.
FindTable ==
    /\ InRecords("find")
    /\ LET revisions == IF low[24].value = 1 THEN {0} ELSE {1, 2}
       IN  IF machine.revision \in revisions
           THEN fadt' = ACPI_find_table(machine) /\ pc' = pc + 1 /\ UNCHANGED where
           ELSE where' = "wild" /\ UNCHANGED <<pc, fadt>>
    /\ UNCHANGED <<machine, tag, lookups, low>>

\* init of the second console: Framebuffer_get_info and VBE_init walk the whole
\* list again, the fields of what they find are read.
Framebuffer_init ==
    /\ where = "records" /\ pc > Len(kmain(machine))
    /\ where' = IF HasFramebuffer THEN "done" ELSE "wild"
    /\ UNCHANGED <<machine, tag, lookups, pc, low, fadt>>

\* kmain goes on, in the rest of its program or in memory nobody describes.
Beyond == where \in {"done", "lost", "wild"} /\ UNCHANGED bootvars

Step == VBE_init \/ TagFound \/ NextTag \/ WriteField \/ ReadField \/ FindTable \/ Framebuffer_init

BootNext == Step \/ Beyond

BootSpec == BootInit /\ [][BootNext]_bootvars

\* kmain executes; no interrupt handler touches the tags or the records.
BootFairSpec == BootSpec /\ WF_bootvars(Step)

----------------------------------------------------------------------------
(* Properties *)

\* The two reads of what another component left: PMM_init clears bits of a bitmap
\* it never set, at NULL, and ACPI_init asks for a version that it stores for the
\* revisions up to 2 only.
Foreign(m, a) == a.who = "pmm" \/ (a.who = "acpi" /\ m.revision > 2)

\* The records lie over one another, and yet a component reads what it wrote last
\* itself, on every machine and in every field, but in the two foreign reads: those
\* find what was there before, always.
OwnFields ==
    InRecords("read") => (low[Access.offset].who = Access.who <=> ~Foreign(machine, Access))

\* At the end acpi_info->fadt is the first FACP if its checksum is right, and
\* NULL otherwise, also when ACPI_init refused the root table and left there
\* what the PCI list had put over it; a machine without PCI devices excepted.
FadtTrusted ==
    where = "done" /\ (machine.rootOk \/ machine.devices) =>
        LET fine(i) == /\ machine.rootOk /\ machine.tables[i].facp /\ machine.tables[i].ok
                       /\ \A j \in 1..i - 1 : ~machine.tables[j].facp
        IN  /\ low[16].value # Null => fine(low[16].value)
            /\ \A i \in DOMAIN machine.tables : fine(i) => low[16].value = i

\* What kmain asks of the loader and the firmware, without testing for it: every tag
\* it looks for, and a root table that the version ACPI_init stored leads to, unless
\* the checksum keeps it from the search.
Bootable(m) ==
    /\ \A id \in TagIds \ {"other"} : \E i \in DOMAIN m.tags : m.tags[i] = id
    /\ m.revision \in {0, 2} \/ (m.revision = 1 /\ ~m.rootOk)

\* kmain gets to the end of its walks and of the search on those machines only, and
\* on those it never leaves the tags or the tables (stivale2_get_tag does not test
\* for the end of the list, ACPI_find_table not for a NULL root table).
BootsExactly ==
    /\ where = "done" => Bootable(machine)
    /\ where \in {"lost", "wild"} => ~Bootable(machine)

\* On those machines, with the tags in any order, kmain gets through.
BootEnds == Bootable(machine) ~> where = "done"
=============================================================================
