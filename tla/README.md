# Cozen: a verification project

Cozen is a small x86-64 hobby kernel. `kmain` (`src/kernel/main.c`) runs once:
it sets the processor up, reads what the boot loader left, initialises each
device, draws, beeps three times and then loops for ever. It has no processes,
no heap and no scheduler. What makes it hard to test is what runs *around*
`kmain`: the timer interrupt, the keyboard interrupt and every other line of
the interrupt controllers, from the `sti` in `IDT_init` on, which comes before
most of the initialisation; and hardware and firmware data of any shape (memory
maps, PCI topologies, ACPI tables) that the initialisation walks once.

## 1. Inventory

| Component | Source (`src/kernel/` unless said) | State | Operations |
|---|---|---|---|
| Boot sequence | `main.c`, `boot/boot.c` | the order of initialisation, `BootInfo` | `kmain`, `stivale2_get_tag`, `Boot_get_info` |
| Segments | `system/GDT.c` | the descriptor table | `GDT_init` |
| Interrupts | `system/interrupts/IDT.c`, `exceptions.c`, `system/system.asm`, `system/panic.c` | the IDT, both 8259s, IF, AL across a stub | `PIC_remap`, `ISR_init`, `IDT_load`, the four stubs, `exception_handler`, `__panic` |
| Timer | `system/interrupts/PIT.c` | `ticks`, `cticks`, channel 0 | `PIT_init`, `PIT_add_ticks`, `PIT_sleep`, `PIT_get_ticks` |
| PC speaker | `devices/pcspkr/pcspkr.c` | channel 2, port 0x61 | `PCSpkr_init/_set_c2/_tone_on/_tone_off/_tone/_beep` |
| Keyboard | `devices/keyboard/keyboard.c` | the controller's output byte | `Keyboard_init`, `Keyboard_main` |
| VBE console | `devices/video/vbe.c` | `fb_info`, `cursor_x`, `cursor_y` | `VBE_init`, `VBE_clear_screen`, `VBE_put*`, drawing |
| PSF framebuffer | `devices/video/framebuffer.c` | a cursor and a font per object | `init`, `putchar`, `put`, `puts` |
| Physical memory | `memory/pmm.c`, `libraries/libk/memutils.c` | the page bitmap | `PMM_init`, `memset64`, `bitmap_free_region` |
| PCI | `pci/PCI.c`, `pci/pci_id.c` | the device list | `PCI_init`, `PCI_scan_bus`, `PCI_add_device`, `PCI_get_bar`, three tables of names |
| AHCI | `devices/ahci/ahci.c` | port registers | `AHCI_init`, `check_port_type` |
| ACPI | `acpi/acpi.c` | version, table pointers | `ACPI_init`, `find_table`, `do_checksum` |
| SMP | `system/smp.c` | `cpu_info` | `CPU_init` |
| RTC | `devices/rtc/rtc.c`, `ascii.h` | CMOS registers, update flag | `RTC_get_*`, `set_ascii` |
| Serial | `devices/serial/serial.c` | the port: divisor, format, two transmit registers | `Serial_init/_write/_read/_write_string` |
| libk | `libraries/libk/*` | the random seed | `string_convert`, `printf`, `log`, `rand` |

How they interact: `kmain` calls every `*_init` once, in order; interrupts call
`PIT_add_ticks` (writes `ticks`, read by `PIT_sleep` in `kmain`) and
`Keyboard_main` (calls `VBE_put`, whose cursor `kmain` also moves). All
`log` output goes to the serial port byte by byte through `IO_outb`, from before
the port is set up to the last words of an exception handler, which may strike in
the middle of a byte, of a message or of the set-up itself.

What is hard, and the properties each component owes:

* **Interrupts.** Each line must be routed, its handler must end the interrupt
  on the right controllers, and it must leave the interrupted code as it was.
  Properties: nothing stays in service; every tick is accounted for; the kernel
  stops only for IRQ 15 (which has no gate) or a fault; `AL` survives.
* **Timer and speaker.** A sleep must not be short, must end, and the speaker's
  use of the same chip must not disturb the clock.
* **Console.** Two writers share a cursor without a lock; there is no lower
  edge to the screen.
* **Physical memory.** Exactly the usable pages end up free, within the bitmap.
* **PCI and AHCI.** Every function behind every bridge is listed once, and the
  scan ends; each device gets its own vendor's name; each disk controller's drives
  are the ones attached to it, and not what lies at an address nobody read.
* **Keyboard.** Every byte that waits is announced: nothing may leave it unread.
* **Serial and logging.** Messages arrive in order and none is lost, but for what
  the set-up of the port tears away; each message is printed to its end; a number
  printed is the number passed.
* **RTC.** What is read in several accesses must be a time the clock had, or at
  least not one it has not reached; the greeting must fit the hour.
* **PSF framebuffer.** Text stays on the screen and does not destroy itself.
* **Boot data, SMP, ACPI.** Lookups end; records that lie over one another at
  address 0 (three pointers are never set) do not reach each other's readers;
  a table is used only after its checksum.

## 2. Modules

| Module | Models | Composes / implements | Proofs |
|---|---|---|---|
| `TickClock` | what the timer interrupt promises (abstract) | | |
| `Interrupts` | 8259s, IDT, stubs, handlers, panic, `kmain` around them | implements `TickClock` | `InterruptsProofs` |
| `Timer` | 8254, `PIT_*`, `PCSpkr_*`, the beep loop | uses the clock of `TickClock` | `TimerProofs` |
| `Console` | `VBE_put` in `kmain` and in `Keyboard_main` | two writers, one cursor | `ConsoleProofs` |
| `PMM` | `PMM_init`, `memset64`, `bitmap_free_region` | | `MemoryProofs` |
| `PCIScan` | `PCI_scan_bus` and the list it fills | | `PCIProofs` |
| `PCIId` | the tables of `pci_id.c` (functions) | | `PCIProofs` |
| `AHCI` | what `AHCI_init` reads and logs (functions) | | `PCIProofs` |
| `PCI` | `PCI_init`: the scan, the names, `PCI_get_bar`, the disk controllers | `PCIScan`, `PCIId`, `AHCI` | `PCIProofs` |
| `Text` | `string_convert`, `printf`, `log`, `VBE_putf`, `VBE_cputf` (functions) | | `LoggingProofs` |
| `Logging` | `Serial_init`, `Serial_write`, `kmain`'s and the handler's messages, the port | `Text`; processor and port | `LoggingProofs` |
| `RTC` | the clock, `RTC_get_date_time`, `set_ascii` | clock and reader | `RTCProofs` |
| `Framebuffer` | `put` of `framebuffer.c` | | `FramebufferProofs` |
| `Boot` | tag walks, `CPU_init`, `PMM_init`, `PCI_init`, `ACPI_init` at address 0 | four components, one memory | `MemoryProofs` |

`MCx.tla` with `MCx.cfg` is the instance of `x` that TLC checks. A definition
placed just before the one it resembles, and used nowhere (`PCSpkr_tone_offLate`,
`FitsAnywhere`, ...), is that definition with a plausible bug: `PROJECT.json`
lists which property notices it.

### TickClock and Interrupts

`stage` follows `kmain` through `PIC_remap`, `ISR_init`, `IDT_load`, the `sti` of
`IDT_init` and `Keyboard_init`. The controllers are their three registers (`irr`,
`isr`, `imr`) and vector bases; the table is the function from vectors to entry
points that `ISR_init` builds, without the gate 0x2F its loop leaves out. A
handler is `running` at a point `at` (its C body, its end-of-interrupt command,
its `iretq`); `Deliver` is the acknowledge cycle with the entry of the stub,
`Spurious` the same with a request that has vanished. `al`, `saved` and `window`
follow register AL through `IO_outb`: `LoadByte` and `SendByte` are the two
instructions an interrupt can separate, and only `pit_handler` and
`keyboard_handler` execute `pushaq`. `Panic` is `__panic` with its reason in
`cause`. The messages printed are left out. `byte` is the keyboard controller's
output buffer: the controller raises its line again only after `Keyboard_main` has
read it.

`TickClock` is the promise: at most one period waits, a period taken is counted
once, the others are missed. The refinement mapping reads `pending` off `irr`,
`serving` off the handler and `status` off `stage` and `running`.

### Timer

`kmain` from `PIT_init` to the idle loop is a sequence of port accesses and waits,
built from one operator per C function (`PIT_init`, `PCSpkr_tone_on`, ...). `Main`
executes the access at `pc`; between any two, `Edge`, `Take` and `Count` move the
clock. `Control` and `Data` are the 8254. `clobber` says whether interrupts are
raised that leave 0x20 in AL, as `Interrupts` shows of `isr_irq_master` and
`isr_irq_slave`. They reach whatever is in AL: the byte an `out` sends, the byte read
from port 0x61 until it is written back, and the low byte of RAX, through which
`PIT_sleep` moves `ticks` into `cticks` and computes `cticks + duration`: the model
lets an interrupt come at each of these, once in the copy and once in the sum
(`InAl`). As the result depends on the low byte replaced, `low` keeps that of
`cticks`; `Byte` (256) is the number of its values and `Al` (0x20) the one left in it.
`since` is `ticks - cticks`, negative when the snapshot was raised, and `elapsed` the
periods that really ended since the snapshot, both cut at the longest duration, above
which no comparison of the code differs.

### Console

One action per access of `VBE_put` to `cursor_x` and `cursor_y` in `kmain`, which
may hold them in registers (`rx`, `ry`) and reload them at any time, as the
variables are not volatile and the compiler chooses. `Key` is the whole `VBE_put`
of `Keyboard_main`, which runs with interrupts off. Printing before `VBE_init`
reads the width through a NULL `fb_info`: then the wrap test may go either way,
and the history variable `early` remembers it. `keys` says whether anybody types.

### PMM

`Place` is an iteration of the first loop (every region that fits moves the
bitmap, as in the code, which has no `break`), `Free` one of the second. The
bitmap is the set `free` of pages whose bit is clear, past its end included:
`memset64` takes a count of 64-bit words, is given bytes, and fills only the
first byte of each word with 0xff, so it stores eight times the bitmap's size and
leaves seven of eight bytes clear. `written` is every page stored into.

### PCIScan

`calls` is the stack of `PCI_scan_bus`: bus, device and function each call has
reached. `AddFunction` is a round of the inner loop (or the single
`PCI_add_device` of a device without the multi-function bit, `Tried`), `LookBehind`
the test of `pci_devices[device]` that ends a device, which is indexed by the slot
number and not by the entry just added; past `device_count` it reads memory nobody
wrote, so the result is any bus if the machine has bridges. The stack is finite:
beyond `MaxDepth` the outcome is "overflow". `MachinesAssumption` is what PCI
hardware grants: a device has a function 0, and buses other than 0 have a bridge
somewhere.

### PCIId, AHCI and PCI

`PCI` runs the scan to its end and then the loop of `PCI_init` over the list, a
round per step (`PrintDevice`): the three names, and for a SATA controller
`PCI_get_bar` and `AHCI_init`. A name is the table entry it belongs to, for example
`<<Intel, 0x100E>>`, and not its text. The cases of `PCI_device_id_to_string` have
no `break` between vendors: `DeviceTable` keeps their order. `PCI_get_bar` refuses
a header of another type and its caller does not look: the address is then 0, where
the list itself lies, so `Adapter(0, ...)` takes for `pi` what the list has at that
offset, `BAR[0]` of its first entry, and for ports whatever (`junk`) lies behind. An
address is a word like `pi`, the set of its bits, as one is read for the other.

### Text and Logging

`Text` is what a format and its arguments become: a sequence of digits and
characters, a word of fixed text being one character. `%d` and its relatives take
an `unsigned int`, whose comparison with 0 never finds a sign: its largest value is the constant
`UintMax`, of which the code requires only that its octal digits fit the buffer; a `%` before any
other letter prints itself and swallows the letter. (No format of the kernel ends in
a `%`, which the loops would run past.)

`Logging` sends those characters on. `kmain` logs ("before"), sets the port up
("init", an out per step), lets `VBE_init` find the screen ("video") and logs and
prints on ("after"); `exception_handler` may take over between any two steps once
exceptions are handled, and prints its own text through the same port and screen. A
character to the port takes two steps, `Poll` and `Serial_write`. The port moves on
by itself: `Load` from the holding to the shift register, `Transmit` when the last
bit has left. A byte torn by a change of the line while it is shifted out, or thrown
away with the FIFO, does not arrive. A write while the divisor is selected goes into
the divisor.

### RTC

`UpdateBegins` and `UpdateEnds` are the clock, with the 244 microseconds it
grants between raising its flag and changing its registers. `Poll`, `Spin` and
`Fetch` are `read` in `RTC_get_date_time`, register by register in its order;
`Test` is one comparison of `set_ascii`, which reads the hour again each time.
Conversions are modelled by what they do: day, month and year stay BCD (kmain
prints them with `%x`), the others are decoded.

### Framebuffer

`put` is one action per kind of character with the wrap test (`Wrapped`) and the
bottom test (`AboveBottom`) in the code's order. A carriage return falls through
to the default case and draws a glyph, as in the code.

### Boot

`VBE_init` walks all tags and tests for NULL; `stivale2_get_tag` adds
`MEM_OFFSET` first, so its own test never succeeds: `NextTag` at the end of the
list leads to "lost". `cpu_info`, `pci_devices` and `acpi_info` are never given a
value, so their records share address 0. `low` holds the fields at offsets 0, 8,
16 and 24 with their last writer, and `CPU_init`, `PMM_init`, `PCI_init` and
`ACPI_init` are their accesses in order. When no region has room for the bitmap,
`pages_bitmap` is NULL too, and `bitmap_clear_bit`, an `&=`, reads and writes each of
the fields. A root table that is NULL leads to "wild". The second console's `init`
comes last and walks the tags once more. `Bootable` is what `kmain` needs of the
machine without asking.

## 3. Runs

| Run | States | Question |
|---|---|---|
| `interrupts` | 35,872 | Do all handlers, with spurious requests and faults, keep the controllers free, account for every period, panic only for the known reasons, spare the byte being sent and leave no key unread? Is the timer always served, and is `TickClock` implemented? |
| `timer` | 307,774 | How much too short can a sleep be at every phase of the clock, with AL intact and without, is the speaker silent between beeps whatever is lost, and, with AL intact, does the clock keep its rate, each tone its note, and the loop end? |
| `timer_c2` | violation | Does channel 2 divide to the frequency asked for? No: see findings. |
| `console` | 157,784 | What can a key typed in the middle of `VBE_put` do to the text? |
| `pmm` | 20,388 | Which pages are free in the end and where does `PMM_init` store? |
| `pci` | 101,887 | Does the scan list what it should, and end? Has each device its own vendor's name, and each disk controller its own drives? |
| `pci_missed` | violation | Is everything behind a bridge found? No. |
| `rtc` | 117,636 | Can a date be ahead of the clock, a greeting wrong? |
| `framebuffer` | 5,606 | Does text stay on the screen and clear of itself? |
| `framebuffer_scroll` | violation | Does the bottom of the screen scroll? No. |
| `logging` | 312,052 | Which messages arrive, whenever an exception strikes? Is every message finished, every number right? |
| `boot` | 178,305 | Which machines boot, and do they all get to the end? Which component reads another's record? |

**Properties worth knowing.** `NothingLeftInService`: whenever `kmain` runs, no
line is in service, although every end-of-interrupt command is sent blindly.
`TicksConserved`: periods = counted + missed + waiting + being counted.
`SleepsLongEnough`: `PIT_sleep(d)` lasts at least d - 1 full periods if interrupts
save AL, and at most 446 less if they do not: 223 (255 less 0x20) for `cticks` or its
copy raised or lowered once, and 223 more for the sum.
`NeverRetunedWhileOn` and `SilentBetweenBeeps` hold even if any byte is lost.
`OnGrid`, `RowsNeverInvented`: the races on the cursor lose rows and columns by
whole cells and never add one. `UsableFreed`, `ReservedKept`, `StoresInUsable`:
what the misused `memset64` leaves true. `Bus0Complete`: however far the scan
strays, bus 0 is complete. `DateTimeNeverAhead`: reading from the large unit to
the small one can return a time in the past and never one to come. `OwnFields`:
the order of the calls in `kmain` is what keeps three records at one address
apart; two reads find another's bytes, and on every machine that makes them: those of
a bitmap at NULL, which `PMM_init` never set, and that of the version of an RSDP whose
revision `ACPI_init` does not know. `BootsExactly`: all four tags, and a revision 0
or 2, or 1 with a root table refused by its checksum, are what it takes. `DeafOnlyByRemap`: a key waiting when `PIC_remap` runs is never
announced again and silences the keyboard; nothing else does. `NamedByOwnVendor`:
the missing breaks are harmless for a device its own vendor's case knows, and any
other can only get a name of a vendor whose case comes later. `DrivesAsAttached`: a controller whose address was not
read shows no drives, because `pi` is then `BAR[0]` of the first device, which
nothing ever sets. `InOrderNothingLost`: with a port already at 38400 baud only the
two bytes on their way when `Serial_init` runs are lost, and an exception's line
if it strikes while the divisor is selected; with other settings, nothing that is
logged afterwards.
`EverythingShown`: no poll loop waits for ever, with a port or without one, and a panic
reaches the screen, unless it comes before `VBE_init`. `NumbersDenote`: the digits
printed are those of the argument's low 32 bits.

**Findings.** (1) `pcspkr.c:48`: `PCSpkr_set_c2(1)`, called by every
`PCSpkr_tone_off`, writes the low 16 bits of a divisor that needs 21, so channel
2 is left at 88 Hz (inaudible, as the gate is off). (2) `PCI.c:155`: the bridge
test reads `pci_devices[device]`, so a bridge whose slot differs from its place in
the list is not descended into. (3) `framebuffer.c:152`: the code under "scroll"
moves the cursor and not the text. Other behaviour the models show and no
document contradicts: `memset64` marks one bitmap byte in eight as used; IRQ 15
ends in a panic; with AL clobbered the clock may stop for good; an RSDP of
revision 1 or above 2 makes ACPI read its root table at address 0; a missing tag
is never noticed; a packet device on a SATA port is logged as an "Enclosure
management bridge"; the numbers of some subclasses in `pci_id.c` are decimal where
the registers are hexadecimal (10, 20, ... for 0x10, 0x20, ...).

### Bounds

* `interrupts`: the lines of a PC (timer, keyboard, serial, both disk channels:
  both controllers, both sides of the keyboard's priority, the line without a
  gate) and both glitches. Two periods are enough for one to be counted, one
  merged and one missed before `PIC_remap`.
* `timer`: durations 3 and 6 for 50 and 950, two passes for three, four values of
  the low byte for 256 and 1 for 0x20: the sleep can then be up to 4 periods more too
  short, less than the longer pause, so that the bound of `SleepsLongEnough` is
  reached. The program is the same for all durations; a short wait meets every phase of the clock
  (waiting, being served, just counted) at both of its ends, and the second pass
  starts from what the first left in the chip.
* `console`: a 32-pixel screen has three cells a line, so every wrap and race on a
  wrap occurs; `MaxY` 45 gives two line feeds and several wraps.
* `pmm`: up to four regions of 1, 2 or 5 pages, with holes, and 2 for each of the
  sizes 8, 8 and 4096, so that bitmaps shorter and longer than a page and than a
  region occur.
* `pci`: buses of 4 slots with 2 functions, every arrangement of them, one bridge,
  configured to bus 1 or not (0), any single-function devices behind it; a stack
  of 4 calls. The list gets both longer and shorter than the slot number.
  Beyond the topology: one function of every vendor and device of the tables, of
  none of them, and of every class; two disk controllers of every interface, header
  type and address (0 included), with two ports of every state of the link.
* `logging`: a machine with and without a port, at the right settings and at others;
  a message before `Serial_init`, one after it on port and screen, and the handler's
  five lines, interrupted at every step. `unsigned int` has 6 bits, and the numbers
  are 0, those around each base and each power of it, 63, and two above 63.
* `rtc`: 2 seconds, minutes, days, months; hours stay 24. Three updates from every
  date, so every carry, twice in a row too, falls between every two reads.
* `framebuffer`: 8 by 10 pixels, glyphs of 2 by 3: three rows and a bottom.
* `boot`: all lists of distinct tags; all root tables of up to three entries, with
  revisions 0 to 3, with and without devices, hypervisor and bitmap.

Deadlock is checked everywhere but in the timer runs: there channel 0 may really
stop, and `kmain` then waits for ever.

### Fairness

* `Interrupts`: weak fairness of setup, handlers and of accepting the timer line:
  the processor keeps executing, and no line is more urgent than IRQ 0.
* `Timer`: weak fairness of the handler and of a live channel; strong fairness of
  `kmain`, which a tick may disable again and again, but a period (1 ms) is far
  longer than the handler (a few instructions), so `kmain` executes in between.
* `RTC`: weak fairness of the reader and of the end of an update; strong fairness
  of `Poll`: the flag is set 2 ms per second and the loop takes microseconds. The
  clock need not advance.
* `PCI`, `Boot`: weak fairness of the only actor.
* `Logging`: weak fairness of the processor and of the port, which shifts its bits out
  whatever the processor does. Exceptions need not come.
* `Console`, `PMM`, `Framebuffer`: safety only.

## 4. Proofs

The theorems hold for all values of the constants under the named assumptions of
each module; `tlapm` checks them.

* **`InterruptsProofs`** (any lines, glitches, faults, bound). `IInv` adds to
  `TypeOK` two parts. `SetupOrder` ties `stage` to the table, the flag, the bases
  and the mask: without it a request could arrive before the table. `InService`
  says exactly which lines each point of each handler has in service (the slave's
  stub has its line and the cascade until its first command); it makes
  `NothingLeftInService` inductive, for the property says nothing while a handler
  runs. On it rest `TypeCorrect`, `NothingLeft`, `PanicCauses` (by `OnlyIrq15`:
  every other vector in use has a gate), `TicksAreConserved` and `BytesSurvive`
  (with `AlKept`: the byte is in AL or on the stack of a handler that will pop
  it). `KeyboardHeard`: a request that is latched is accepted by the handler that reads
  its byte (`AcceptKeepsKey`). `ClockImplemented`: each step maps to one of `TickClock` or a stutter.
  `TimerNext` (with `Open`: no line is masked and `kmain` runs with IF set): once a
  period waits, IRQ 0 is what the controllers present whenever `kmain` runs, and a
  handler that runs is at most three steps from its `iretq`.
* **`ConsoleProofs`** (any width from 13). `Margin` adds where both copies of
  `cursor_x` are while `kmain` is between the advance and the wrap test, and `Rows`
  that `kmain`'s copy of `cursor_y` also stays within the budget, as it may be
  stored back. `Text`, while nobody types: the registers are the cursor and every
  glyph comes before it. Theorems `TypeCorrect`, `GridKept`, `MarginKept`,
  `RowsKept`, `TextUncovered`.
* **`TimerProofs`** (any length and number of beeps and pauses). `Program` computes
  what is at each place of `kmain`'s sequence of port accesses. `Clock` and `Tone` say
  where `pc` is with the two halves of each divisor, while no byte is replaced;
  `Speaker` ties port 0x61 to `pc` in every case, lost bytes included, and is what
  `SilentBetweenBeeps` and `NeverRetunedWhileOn` need. `Sleep`: `since` is ahead of
  `elapsed` by one period at most, the one that waited when the snapshot was taken,
  and by what the snapshot lost to AL; `Lowered` bounds what replacing a low byte can
  take off a time, and the two losses add up to `Short`. It carries
  `SleepsLongEnough` through every step of the interrupt. Theorems
  `ClockKept`, `Silent`, `Note`, `LongEnough`, `NoRetune`. `BeepsForward`: `Ahead`
  falls with every step of `kmain`, and `Due`, the ticks a sleep still needs, with every
  step of the clock but a period that ends while another waits.
* **`MemoryProofs`**, the page bitmap (any map, any sizes). `FreedSoFar`: the regions
  passed are free; `Causes`: a clear bit is a usable page's or one `memset64` left
  clear; `Placed`: where the bitmap is and what it stored. `PhysMemSum` is what the
  recursive sum of the map returns: on a map without holes, the last page's number, so
  that the bitmap (in whole bytes) has a bit for each page. Theorems `TypeCorrect`, `AllUsableFreed`, `ReservedStaysUsed`, `StoresStayInside`,
  `WithoutHoles`.
* **`MemoryProofs`**, the records at address 0 (any machines: any tags, any length of
  the root table, any revision). `Layout` and `AccessFacts` say which access is at which
  place of `kmain`'s sequence, whose parts come and go with the machine. `Walk`: no tag
  passed is the one looked for, and each tag is in the list or not yet looked for.
  `Written` and `AcpiFields` are what each part has left in the fields it or a later one
  reads: the four stores of `PCI_init` are over `cpu_info` only when its readers are
  done, `fadt` is the NULL the PCI list put there until `ACPI_init` stores its own, and a
  search is gone through only with revision 0 or 2. `NotYet`: no field is the
  page allocator's before `PMM_init` has written it, and the version is never ACPI's with
  a revision above 2, so the foreign reads find another's. Each action keeps them by the part
  `pc` is in. Theorems `ReadsItsOwn`, `FadtFound`, `BootsOnlyBootable` (`BootsExactly`), `BootForward` (each step leaves less of a natural number).
* **`FramebufferProofs`** (any screen and font that fits it). `Cursor`: the cursor
  is left of the wrap limit and above the bottom limit between calls; `InkBefore`:
  until the bottom is reached every glyph is above the cursor's row, or on it and
  to the left. Theorems `TypeCorrect`, `GlyphsStayOnScreen`, `TextKept`.
* **`LoggingProofs`** (any machines and messages). `PortInv`: when a byte may be sent
  the holding register is empty. `Recent`: what is in the port are the last bytes sent,
  or none older than the last two when `Serial_init` took the line. `Progress` follows
  the outs of `Serial_init` and what they made of the line. `Whole`: the byte being
  shifted out is untorn unless it is one of those two. Without them the property
  does not say which of the bytes on their way will be lost. Theorem `MessagesArrive`.
  Of `Text`: the loop of `string_convert`, read as a recursive function, leaves digits
  that denote the number in each base, for every width of `unsigned int`
  (`StringConvertDenotes`), and so every number of every message is printed as passed
  (`NumbersDenoted`).
* **`PCIProofs`** (any machines, any depth of the stack). `Outermost` is about the
  first call only: it scans bus 0, and every function of bus 0 it has passed is in
  the list. The calls above it may stray anywhere and end as they like, as they
  only append. `Alone`: without bridges there is no other call, every entry is a
  function already passed, and none is there twice; the last step to the number of
  entries is a bijection (`FiniteSetTheorems`). `Bars`: only `BAR[4]` of devices
  already printed is ever stored, so `BAR[0]` of the first is NULL when it is read as
  `pi` (lemma `Drives`); `Names` follows the cases of the tables that run into one
  another. `FlatForward`: without bridges every step moves the one call on, or the
  walk of the list. Theorems `FlatScan`, `Bus0Scan`, `OwnNames`, `OwnDrives`,
  `FlatProgress`.
* **`RTCProofs`** (any calendar, any number of updates). `Behind`: the fields read so
  far are behind the clock in the order day, hour, minute, second, up to the last
  one read, the month having not ended; `DateTimeNeverAhead` alone says nothing until
  all are read. `Greeting`: the hour is not before the comparisons passed, which is
  what lets the next one fit or the last one be reached with something said.
  `LaterFacts` is the arithmetic of a second that carries. The proof showed what
  `CalendarAssumption` has to ask: with months of a single day no field of the date
  but the year tells that a day ended. Theorems `NeverAhead`, `Greetings`.

**Induction.** The library's induction theorems take an operator, which no prover here
can instantiate. `SetInduction` says the same of a set (a set that holds n as soon as it
holds all smaller numbers holds all of them), and is proved from `WFMin` and
`NatLessThanWellFounded`. With it the recursive functions of the models can be reasoned
about: that one exists that satisfies its own equation (`SumsExists` and its
like), and what it computes. `Least` gets the minimum of a set of numbers from it.

Only model-checked: liveness (`TimerServed`, the fairness of `ImplementsClock`,
`BeepsEnd`, `FlatEnds`, `CallsReturn`, `BootEnds`, `EverythingShown`), which is out
of the prover's reach. For four of them the theorems go as far as they can without
fairness: `TimerNext`, `BeepsForward`, `FlatProgress` and `BootForward` say that every step
brings the end nearer. Every safety property of the passing runs is a theorem. A type
invariant is a property of a run where it says more than types (`Interrupts`, `PMM`,
`Framebuffer`); that of `Console` is proved only (`TypeCorrect`), and `Timer`, `PCI`,
`RTC` and `Boot` have theirs in the inductive invariant (`TypeInv`, `ScanType`,
`BootType`).

## 5. What is not modelled

* The drawing of lines, circles and shapes in `vbe.c`, `clear_screen` of
  `framebuffer.c`, `Serial_read`, `PCI_write_dword`, `VBE_get_fb_info`: nothing calls
  them.
* `GDT.c`: two constant descriptors and a far return, no later state.
* `rand` and `srand`: they choose the comment of a panic, and no property tells one from
  another.
* Fonts, colours, the text of messages and names: data no property is about.
* The bytes an interrupt may replace on their way to the serial port: `Interrupts` says
  which interrupts can (`ByteSurvives`), `Logging` sends every byte as it is.
* The same for the index `rtc.c` sends to port 0x70 and the byte read from 0x71: `RTC`
  reads the register it asks for.
* What is at address 0 and behind it, beyond the records of `Boot` and the list of
  `PCI`: a walk that leaves its data ends in "lost" or "wild".
* The other processors: nothing starts them (the SMP tag is only read).
* `stivale2.c`, `stivale2.h`, `tables.h`, `font.h`: declarations and data.

## 6. Plan

Every safety property of the passing runs is a theorem. What is left:

1. `EverythingShown` up to fairness: how many steps the messages still need, which is a
   sum over formats and arguments, and that the port's registers empty in between.
2. A lower edge of the VBE console: `cursor_y` only grows, and no property can say what
   should happen there until the code or a document does.

Properties found shallow make room for deeper ones.
