---------------------------- MODULE Interrupts ----------------------------
(***************************************************************************)
(* The interrupt path of the kernel: the two 8259 controllers PIC_remap    *)
(* programs, the descriptor table ISR_init fills, the four entry stubs of  *)
(* system.asm, the tick and keyboard handlers they call, the exception     *)
(* handler, and kmain, whose execution all of them interrupt.              *)
(*                                                                         *)
(* One processor.  Every gate is an interrupt gate (type 0x8e), so the     *)
(* interrupt flag is clear from the entry of a handler to its iretq.       *)
(* Vectors are decimal: 32 is 0x20, 46 is 0x2E, 47 is 0x2F.                *)
(***************************************************************************)
EXTENDS Integers

CONSTANTS
    Lines,          \* IRQ lines some device of the machine raises
    Glitches,       \* lines whose request may vanish before it is accepted:
                    \* the controller then answers with its lowest priority
    Faults,         \* whether kernel code may raise an exception
    MaxPeriods      \* bound on the timer periods a behaviour explores

Master == 0..7
Slave  == 8..15
Cascade == 2        \* the master's input the slave is wired to

ASSUME LinesAssumption == Lines \subseteq ((Master \cup Slave) \ {Cascade})
ASSUME GlitchesAssumption == Glitches \subseteq {7, 15}
ASSUME FaultsAssumption == Faults \in BOOLEAN
ASSUME PeriodsAssumption == MaxPeriods \in Nat

VARIABLES
    stage,      \* where kmain is in setting interrupts up
    idt,        \* the gates present: vector |-> entry point
    loaded,     \* lidt was executed
    ifl,        \* the interrupt flag
    base,       \* vector of IRQ 0 and of IRQ 8
    imr,        \* lines masked
    irr,        \* requests latched
    isr,        \* requests in service
    running,    \* what the processor executes
    at,         \* where in the handler it is
    al,         \* whose byte register AL holds
    saved,      \* the AL that pushaq pushed
    window,     \* kmain has loaded AL and not yet executed its out
    stubbed,    \* (history) a stub that does not save AL ran in that window
    periods,    \* periods of PIT channel 0 so far
    ticks,      \* the kernel's ticks
    missed,     \* periods that were never turned into a tick
    cause,      \* what the kernel panicked about
    byte        \* the keyboard controller holds a byte nobody has read

pic == <<base, imr, irr, isr>>
setup == <<stage, idt, loaded>>
regs == <<al, saved, window, stubbed>>
clock == <<periods, ticks, missed>>
vars == <<setup, ifl, pic, running, at, regs, clock, cause, byte>>

Stages == {"remap", "gates", "lidt", "sti", "kbdinit", "run"}
Handlers == {"pit", "kbd", "master", "slave"}
Points == {"body", "eoi", "iret"}
Owners == {"main", "handler", "eoi"}    \* kmain, a C handler, an out of 0x20

----------------------------------------------------------------------------
(* The descriptor table *)

\* The exceptions that have an exc_N function.
ExcVectors == (0..8) \cup (10..20) \cup {30}

\* j runs from 0x28 while j < 0x2E.
LastSlaveGateShort == 45

\* j runs from 0x28 while j < 0x2F: there is no gate for vector 0x2F.
LastSlaveGate == 46

\* The vectors ISR_init gives a gate to.
GateVectors == ExcVectors \cup {32, 33} \cup (35..39) \cup (40..LastSlaveGate)

\* idt[33] filled by a copy of the line for idt[32].
EntryOfTwice(v) ==
    IF v \in {32, 33} THEN "pit"
    ELSE IF v \in 34..39 THEN "master"
    ELSE IF v \in 40..47 THEN "slave" ELSE "exception"

\* The entry point ISR_init gives the gate of a vector.
EntryOf(v) ==
    IF v = 32 THEN "pit"
    ELSE IF v = 33 THEN "kbd"
    ELSE IF v \in 34..39 THEN "master"
    ELSE IF v \in 40..47 THEN "slave" ELSE "exception"

EmptyTable == [v \in {} |-> "none"]

FilledTable == [v \in GateVectors |-> EntryOf(v)]

\* A vector reaches its handler only through a present gate of a loaded table.
Reaches(v) == loaded /\ v \in DOMAIN idt

----------------------------------------------------------------------------
(* The interrupt controllers *)

VectorOf(i) == IF i \in Master THEN base[1] + i ELSE base[2] + (i - 8)

\* Fixed priorities: the slave's lines sit between IRQ 1 and IRQ 3.
Priority(i) == IF i \in Slave THEN i - 6 ELSE IF i <= Cascade THEN i ELSE i + 7

\* A non-specific end of interrupt retires the most urgent line in service.
Retire(chip) ==
    {i \in isr : i \in chip /\ \A j \in isr : j \in chip => i <= j}

\* The line the controllers present to the processor: unmasked, more urgent
\* than any other request and than everything in service.
Presented(i) ==
    /\ i \in irr \ imr
    /\ \A j \in irr \ imr : Priority(i) <= Priority(j)
    /\ \A j \in isr : Priority(i) < Priority(j)

One(b) == IF b THEN 1 ELSE 0

----------------------------------------------------------------------------
(* kmain *)

Init ==
    /\ stage = "remap"
    /\ idt = EmptyTable
    /\ loaded = FALSE
    /\ ifl = FALSE
    /\ base = <<8, 112>>
    /\ imr \in {{}, Master \cup Slave}
    /\ byte \in {b \in BOOLEAN : b => 1 \in Lines}
    /\ irr = (IF byte THEN {1} ELSE {}) /\ isr = {}
    /\ running = "main" /\ at = "body"
    /\ al = "main" /\ saved = "main" /\ window = FALSE /\ stubbed = FALSE
    /\ periods = 0 /\ ticks = 0 /\ missed = 0
    /\ cause = "none"

\* ICW1 restarts both controllers, which forgets the requests latched so far;
\* vector bases 0x20 and 0x28, every line unmasked.
PIC_remap ==
    /\ running = "main" /\ stage = "remap"
    /\ stage' = "gates"
    /\ base' = <<32, 40>>
    /\ imr' = {} /\ irr' = {} /\ isr' = {}
    /\ missed' = missed + One(0 \in irr)
    /\ UNCHANGED <<idt, loaded, ifl, running, at, regs, periods, ticks, cause, byte>>

\* The rest of ISR_init.
ISR_init ==
    /\ running = "main" /\ stage = "gates"
    /\ stage' = "lidt"
    /\ idt' = FilledTable
    /\ UNCHANGED <<loaded, ifl, pic, running, at, regs, clock, cause, byte>>

IDT_load ==
    /\ running = "main" /\ stage = "lidt"
    /\ stage' = "sti"
    /\ loaded' = TRUE
    /\ UNCHANGED <<idt, ifl, pic, running, at, regs, clock, cause, byte>>

\* The sti that ends IDT_init.
IDT_init ==
    /\ running = "main" /\ stage = "sti"
    /\ stage' = "kbdinit"
    /\ ifl' = TRUE
    /\ UNCHANGED <<idt, loaded, pic, running, at, regs, clock, cause, byte>>

\* Keyboard_init with the line its comment keeps: IO_outb(0x21, 0xFD).
Keyboard_initMasking ==
    /\ running = "main" /\ stage = "kbdinit"
    /\ stage' = "run"
    /\ imr' = (imr \cap Slave) \cup (Master \ {1})
    /\ UNCHANGED <<idt, loaded, ifl, base, irr, isr, running, at, regs, clock, cause, byte>>

\* Keyboard_init leaves the controllers alone.
Keyboard_init ==
    /\ running = "main" /\ stage = "kbdinit"
    /\ stage' = "run"
    /\ UNCHANGED <<idt, loaded, ifl, pic, running, at, regs, clock, cause, byte>>

\* IO_outb, up to the instruction before its out: AL holds the value.
LoadByte ==
    /\ running = "main" /\ ~window
    /\ al' = "main" /\ window' = TRUE /\ stubbed' = FALSE
    /\ UNCHANGED <<setup, ifl, pic, running, at, saved, clock, cause, byte>>

\* The out itself: the device receives what AL holds by then.
SendByte ==
    /\ running = "main" /\ window
    /\ window' = FALSE
    /\ UNCHANGED <<setup, ifl, pic, running, at, al, saved, stubbed, clock, cause, byte>>

\* while (1); at the end of kmain.
Idle ==
    /\ running = "main" /\ stage = "run"
    /\ UNCHANGED vars

----------------------------------------------------------------------------
(* Devices *)

\* Channel 0 of the PIT ends a period: an edge on IRQ 0.
PitEdge ==
    /\ periods < MaxPeriods
    /\ periods' = periods + 1
    /\ irr' = irr \cup {0}
    /\ missed' = missed + One(0 \in irr)
    /\ UNCHANGED <<setup, ifl, base, imr, isr, running, at, regs, ticks, cause, byte>>

\* Any other device raises its line; the keyboard controller, which keeps its
\* line up until its byte is read, only when it holds none.
RaiseLine(i) ==
    /\ i \in Lines \ {0}
    /\ i = 1 => ~byte
    /\ byte' = (byte \/ i = 1)
    /\ irr' = irr \cup {i}
    /\ UNCHANGED <<setup, ifl, base, imr, isr, running, at, regs, clock, cause>>

----------------------------------------------------------------------------
(* Entering and leaving handlers *)

\* exception_handler: cli, then panic, which never returns.
Panic(why) ==
    /\ running' = "panic"
    /\ ifl' = FALSE
    /\ cause' = why
    /\ UNCHANGED <<setup, base, imr, at, regs, clock, byte>>

\* The processor takes vector v for a line: through its gate to a handler, into
\* the exception whose vector it is, or, when there is no gate, into the
\* not-present exception (vector 11); exceptions panic.
Enter(v, why) ==
    IF Reaches(v) /\ idt[v] \in Handlers
    THEN /\ running' = idt[v]
         /\ at' = IF idt[v] = "master" THEN "eoi" ELSE "body"
         /\ ifl' = FALSE
         /\ saved' = IF idt[v] \in {"pit", "kbd"} THEN al ELSE saved
         /\ stubbed' = (stubbed \/ idt[v] \in {"master", "slave"})
         /\ UNCHANGED <<setup, base, imr, al, window, clock, cause, byte>>
    ELSE Panic(why)

Deliver(i) ==
    /\ running # "panic" /\ ifl
    /\ Presented(i)
    /\ irr' = irr \ {i}
    /\ isr' = isr \cup {i} \cup IF i \in Slave THEN {Cascade} ELSE {}
    /\ Enter(VectorOf(i), IF i = 15 THEN "irq15" ELSE "irq")

\* The request vanished before the processor acknowledged it: the vector of
\* IRQ 7 or IRQ 15 with nothing set in service but, for the latter, the cascade.
Spurious(i) ==
    /\ i \in Glitches
    /\ running # "panic" /\ ifl
    /\ ~\E j \in irr : Presented(j)
    /\ isr' = isr \cup IF i = 15 THEN {Cascade} ELSE {}
    /\ UNCHANGED irr
    /\ Enter(VectorOf(i), IF i = 15 THEN "irq15" ELSE "irq")

\* PIT_add_ticks without its end of interrupt.
PIT_add_ticksNoEoi ==
    /\ running = "pit" /\ at = "body"
    /\ ticks' = ticks + 1
    /\ at' = "iret"
    /\ UNCHANGED <<setup, ifl, pic, running, regs, periods, missed, cause, byte>>

\* PIT_add_ticks: ticks++, then its end of interrupt.
PIT_add_ticks ==
    /\ running = "pit" /\ at = "body"
    /\ ticks' = ticks + 1
    /\ at' = "eoi"
    /\ UNCHANGED <<setup, ifl, pic, running, regs, periods, missed, cause, byte>>

\* Keyboard_main without IO_inb(0x60).
Keyboard_mainUnread ==
    /\ running = "kbd" /\ at = "body"
    /\ al' = "handler"
    /\ at' = "eoi"
    /\ UNCHANGED <<setup, ifl, pic, running, saved, window, stubbed, clock, cause, byte>>

\* Keyboard_main up to its end of interrupt: it takes the byte; any register
\* but the saved ones may change, AL among them.
Keyboard_main ==
    /\ running = "kbd" /\ at = "body"
    /\ byte' = FALSE
    /\ al' = "handler"
    /\ at' = "eoi"
    /\ UNCHANGED <<setup, ifl, pic, running, saved, window, stubbed, clock, cause>>

\* isr_irq_slave without its out 0xa0.
isr_irq_slaveNoEoi ==
    /\ running = "slave" /\ at = "body"
    /\ al' = "eoi"
    /\ at' = "eoi"
    /\ UNCHANGED <<setup, ifl, pic, running, saved, window, stubbed, clock, cause, byte>>

\* isr_irq_slave: mov al, 0x20 and the end of interrupt of the slave.
isr_irq_slave ==
    /\ running = "slave" /\ at = "body"
    /\ al' = "eoi"
    /\ isr' = isr \ Retire(Slave)
    /\ at' = "eoi"
    /\ UNCHANGED <<setup, ifl, base, imr, irr, running, saved, window, stubbed, clock, cause, byte>>

\* The end of interrupt of the master, which all four handlers send last.
EndOfInterrupt ==
    /\ running \in Handlers /\ at = "eoi"
    /\ al' = "eoi"
    /\ isr' = isr \ Retire(Master)
    /\ at' = "iret"
    /\ UNCHANGED <<setup, ifl, base, imr, irr, running, saved, window, stubbed, clock, cause, byte>>

\* iretq without popaq.
ReturnNoPop ==
    /\ running \in Handlers /\ at = "iret"
    /\ running' = "main" /\ at' = "body"
    /\ ifl' = TRUE
    /\ UNCHANGED <<setup, pic, regs, clock, cause, byte>>

\* popaq, in the two handlers that executed pushaq, and iretq.
Return ==
    /\ running \in Handlers /\ at = "iret"
    /\ running' = "main" /\ at' = "body"
    /\ ifl' = TRUE
    /\ al' = IF running \in {"pit", "kbd"} THEN saved ELSE al
    /\ UNCHANGED <<setup, pic, saved, window, stubbed, clock, cause, byte>>

\* Code of kmain or of Keyboard_main raises an exception.  Before lidt the
\* firmware's table is in force: that is outside the model.
Fault ==
    /\ Faults
    /\ loaded /\ running \in {"main", "kbd"}
    /\ UNCHANGED <<irr, isr>>
    /\ Panic("fault")

\* while (1); at the end of __panic.
Halted ==
    /\ running = "panic"
    /\ UNCHANGED vars

----------------------------------------------------------------------------

Boot == PIC_remap \/ ISR_init \/ IDT_load \/ IDT_init \/ Keyboard_init

Body == PIT_add_ticks \/ Keyboard_main \/ isr_irq_slave

Next ==
    \/ PIC_remap \/ ISR_init \/ IDT_load \/ IDT_init \/ Keyboard_init
    \/ LoadByte \/ SendByte \/ Idle
    \/ PitEdge
    \/ \E i \in Lines : RaiseLine(i)
    \/ \E i \in Master \cup Slave : Deliver(i)
    \/ \E i \in Glitches : Spurious(i)
    \/ PIT_add_ticks \/ Keyboard_main \/ isr_irq_slave
    \/ EndOfInterrupt \/ Return
    \/ Fault
    \/ Halted

Spec == Init /\ [][Next]_vars

\* The processor keeps executing: kmain's setup goes on, a handler runs to its
\* iretq, and the request the controllers present is accepted when IF is set.
FairSpec ==
    /\ Spec
    /\ WF_vars(Boot)
    /\ WF_vars(Body \/ EndOfInterrupt \/ Return)
    /\ WF_vars(Deliver(0))

----------------------------------------------------------------------------
(* Properties *)

TypeOK ==
    /\ stage \in Stages
    /\ idt \in {EmptyTable, FilledTable}
    /\ loaded \in BOOLEAN /\ ifl \in BOOLEAN /\ window \in BOOLEAN /\ stubbed \in BOOLEAN
    /\ base \in {<<8, 112>>, <<32, 40>>}
    /\ imr \in {{}, Master \cup Slave}
    /\ irr \subseteq Lines \cup {0}
    /\ isr \subseteq Lines \cup {0, Cascade}
    /\ running \in Handlers \cup {"main", "panic"} /\ at \in Points
    /\ al \in Owners /\ saved \in Owners
    /\ periods \in 0..MaxPeriods /\ ticks \in Nat /\ missed \in Nat
    /\ cause \in {"none", "irq", "irq15", "fault"}
    /\ byte \in BOOLEAN

\* Whatever kmain is doing, no line is left in service behind its back: every
\* way through the four entry stubs of system.asm sends the controllers exactly
\* the end-of-interrupt commands the line needs, spurious requests included.
\* A line left in service would block every less urgent one for good.
NothingLeftInService == running = "main" => isr = {}

\* Every period of PIT channel 0 is waiting, being counted, counted once in
\* ticks, or missed because the previous one had not been accepted yet: no
\* other interrupt advances the kernel's clock and none advances it twice.
TicksConserved ==
    periods = ticks + missed + One(0 \in irr) + One(running = "pit" /\ at = "body")

\* The kernel stops for two reasons only: its own code faults, or IRQ 15 is
\* accepted, for whose vector 0x2F ISR_init has no gate.  In particular no
\* line is ever taken as a processor exception, nor before lidt.
PanicCause == running = "panic" => cause \in {"fault", "irq15"}

\* The byte in AL that kmain is about to send survives every interrupt whose
\* entry point executes pushaq.  isr_irq_master and isr_irq_slave do not: after
\* one of them the device receives 0x20 instead.
ByteSurvives == running = "main" /\ window /\ ~stubbed => al = "main"

\* A byte that nothing will fetch: no request is latched for it and no handler
\* is about to read it, so the controller never raises its line again.
Deaf == byte /\ 1 \notin irr /\ ~(running = "kbd" /\ at = "body") /\ running # "panic"

\* The keyboard goes deaf in one way only: PIC_remap forgets the request of a
\* byte that was waiting.  From then on each byte is read, whatever other lines,
\* spurious requests and masks come between its request and Keyboard_main.
DeafOnlyByRemap == [][Deaf' /\ ~Deaf => stage = "remap"]_vars

\* Once kmain has set interrupts up, a waiting timer period is accepted,
\* whatever the other devices do, unless the kernel panics.
TimerServed == (stage = "run" /\ 0 \in irr) ~> running \in {"pit", "panic"}

Clock == INSTANCE TickClock WITH
    status <- IF running = "panic" THEN "dead"
              ELSE IF stage = "remap" THEN "off" ELSE "on",
    pending <- 0 \in irr,
    serving <- running = "pit" /\ at = "body"

\* The interrupt path implements the clock PIT_sleep and PIT_get_ticks rely on.
ImplementsClock == Clock!ClockFairSpec
=============================================================================
