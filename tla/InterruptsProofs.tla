------------------------- MODULE InterruptsProofs -------------------------
(***************************************************************************)
(* Theorems about Interrupts, for every set of lines, glitches and bound.  *)
(* The inductive invariant says, for every point of every handler, what    *)
(* the controllers have in service there, and that no handler is entered   *)
(* before the whole of the setup that routes its vector is in place.       *)
(***************************************************************************)
EXTENDS Interrupts, TLAPS

----------------------------------------------------------------------------
(* The descriptor table *)

\* Every line but the cascade and IRQ 15 is routed to one of the four stubs,
\* the stub of its kind, and the vector of IRQ 15 to none.
LEMMA Routing ==
    /\ 32 \in DOMAIN FilledTable /\ FilledTable[32] = "pit"
    /\ 33 \in DOMAIN FilledTable /\ FilledTable[33] = "kbd"
    /\ \A i \in 3..7 : 32 + i \in DOMAIN FilledTable /\ FilledTable[32 + i] = "master"
    /\ \A i \in 8..14 : 32 + i \in DOMAIN FilledTable /\ FilledTable[32 + i] = "slave"
    /\ 47 \notin DOMAIN FilledTable
<1>1. 32 \in GateVectors /\ 33 \in GateVectors /\ 47 \notin GateVectors
  BY DEF GateVectors, ExcVectors, LastSlaveGate
<1>2. \A i \in 3..7 : 32 + i \in GateVectors
  BY DEF GateVectors
<1>3. \A i \in 8..14 : 32 + i \in GateVectors
  BY DEF GateVectors, LastSlaveGate
<1>4. EntryOf(32) = "pit" /\ EntryOf(33) = "kbd"
  BY DEF EntryOf
<1>5. \A i \in 3..7 : EntryOf(32 + i) = "master"
  BY DEF EntryOf
<1>6. \A i \in 8..14 : EntryOf(32 + i) = "slave"
  BY DEF EntryOf
<1> QED
  BY <1>1, <1>2, <1>3, <1>4, <1>5, <1>6 DEF FilledTable

----------------------------------------------------------------------------
(* The inductive invariant *)

\* Nothing is delivered before the controllers are remapped, the table is
\* filled and loaded, and sti is executed; handlers run with IF clear.
SetupOrder ==
    /\ stage \notin {"remap"} => base = <<32, 40>>
    /\ stage \in {"lidt", "sti", "kbdinit", "run"} => idt = FilledTable
    /\ stage \in {"sti", "kbdinit", "run"} <=> loaded
    /\ ifl => running = "main"
    /\ ifl \/ running \in Handlers => stage \in {"kbdinit", "run"}

\* What is in service at each point of each handler.
InService ==
    /\ running = "main" => isr = {}
    /\ running = "pit" => isr = IF at = "iret" THEN {} ELSE {0}
    /\ running = "kbd" => isr = IF at = "iret" THEN {} ELSE {1}
    /\ running = "master" =>
          /\ at # "body"
          /\ at = "eoi" => isr = {} \/ \E i \in 3..7 : isr = {i}
          /\ at = "iret" => isr = {}
    /\ running = "slave" =>
          /\ at = "body" => \E i \in 8..14 : isr = {Cascade, i}
          /\ at = "eoi" => isr = {Cascade}
          /\ at = "iret" => isr = {}

IInv == TypeOK /\ SetupOrder /\ InService

\* The machine starts within the invariant.
LEMMA InitInv == Init => IInv
<1> SUFFICES ASSUME Init PROVE IInv
  OBVIOUS
<1>1. TypeOK
  <2>1. loaded \in BOOLEAN /\ ifl \in BOOLEAN /\ window \in BOOLEAN /\ stubbed \in BOOLEAN
    BY DEF Init
  <2>2. base \in {<<8, 112>>, <<32, 40>>} /\ idt \in {EmptyTable, FilledTable}
    BY DEF Init
  <2>3. irr \subseteq Lines \cup {0} /\ byte \in BOOLEAN
    BY DEF Init
  <2> QED
    BY <2>1, <2>2, <2>3, PeriodsAssumption DEF Init, TypeOK, Stages, Points, Owners
<1>2. SetupOrder /\ InService
  BY DEF Init, SetupOrder, InService, Handlers
<1> QED
  BY <1>1, <1>2 DEF IInv

\* When the processor takes a line, the line's vector is its number plus 32,
\* and nothing else is in service.
LEMMA TakingALine ==
    ASSUME IInv, ifl, NEW i \in Master \cup Slave
    PROVE  /\ running = "main" /\ isr = {} /\ loaded /\ idt = FilledTable
           /\ stage \in {"kbdinit", "run"}
           /\ VectorOf(i) = 32 + i
BY DEF IInv, SetupOrder, InService, VectorOf, Master, Slave

\* Accepting a line keeps the invariant: what its handler expects in service is
\* what the controllers put there.
LEMMA DeliverInv ==
    ASSUME IInv, NEW i \in Master \cup Slave, Deliver(i)
    PROVE  IInv'
<1>1. ifl /\ i \in irr /\ i # Cascade
  BY LinesAssumption DEF Deliver, Presented, IInv, TypeOK, Cascade
<1>2. /\ running = "main" /\ isr = {} /\ loaded /\ idt = FilledTable
      /\ stage \in {"kbdinit", "run"}
      /\ VectorOf(i) = 32 + i
  BY <1>1, TakingALine
<1>3. irr' = irr \ {i} /\ isr' = {i} \cup IF i \in Slave THEN {Cascade} ELSE {}
  BY <1>2 DEF Deliver
<1>4. i \in Lines \cup {0}
  BY <1>1 DEF IInv, TypeOK
<1>5. Enter(32 + i, IF i = 15 THEN "irq15" ELSE "irq")
  BY <1>2 DEF Deliver
<1>6. TypeOK'
  <2>1. irr' \subseteq Lines \cup {0} /\ isr' \subseteq Lines \cup {0, Cascade}
    BY <1>3, <1>4 DEF IInv, TypeOK
  <2>2. running' \in Handlers \cup {"panic"}
    BY <1>5 DEF Enter, Panic
  <2>3. ifl' \in BOOLEAN /\ window' \in BOOLEAN /\ loaded' \in BOOLEAN
    BY <1>5 DEF IInv, TypeOK, Enter, Panic, setup, regs
  <2>4. al' \in Owners /\ saved' \in Owners /\ stubbed' \in BOOLEAN
    BY <1>5 DEF IInv, TypeOK, Enter, Panic, regs
  <2>5. at' \in Points /\ cause' \in {"none", "irq", "irq15", "fault"}
    BY <1>5 DEF IInv, TypeOK, Enter, Panic, Points
  <2> QED
    BY <1>5, <2>1, <2>2, <2>3, <2>4, <2>5 DEF IInv, TypeOK, Enter, Panic, setup, clock
<1>7. SetupOrder'
  BY <1>2, <1>5 DEF IInv, SetupOrder, Enter, Panic, setup, Handlers
<1>8. CASE i = 0
  <2>1. isr' = {0}
    BY <1>3, <1>8 DEF Slave
  <2>2. running' = "pit" /\ at' = "body"
    BY <1>2, <1>5, <1>8, Routing DEF Enter, Reaches, Handlers
  <2> QED
    BY <1>6, <1>7, <2>1, <2>2 DEF InService, IInv
<1>9. CASE i = 1
  <2>1. isr' = {1}
    BY <1>3, <1>9 DEF Slave
  <2>2. running' = "kbd" /\ at' = "body"
    BY <1>2, <1>5, <1>9, Routing DEF Enter, Reaches, Handlers
  <2> QED
    BY <1>6, <1>7, <2>1, <2>2 DEF InService, IInv
<1>10. CASE i \in 3..7
  <2>1. isr' = {i}
    BY <1>3, <1>10 DEF Slave
  <2>2. running' = "master" /\ at' = "eoi"
    BY <1>2, <1>5, <1>10, Routing DEF Enter, Reaches, Handlers
  <2>3. \E j \in 3..7 : isr' = {j}
    BY <2>1, <1>10
  <2> QED
    BY <1>6, <1>7, <2>2, <2>3 DEF InService, IInv
<1>11. CASE i \in 8..14
  <2>1. isr' = {Cascade, i}
    BY <1>3, <1>11 DEF Slave
  <2>2. running' = "slave" /\ at' = "body"
    BY <1>2, <1>5, <1>11, Routing DEF Enter, Reaches, Handlers
  <2>3. \E j \in 8..14 : isr' = {Cascade, j}
    BY <2>1, <1>11
  <2> QED
    BY <1>6, <1>7, <2>2, <2>3 DEF InService, IInv
<1>12. CASE i = 15
  <2>1. running' = "panic"
    BY <1>2, <1>5, <1>12, Routing DEF Enter, Reaches, Panic
  <2> QED
    BY <1>6, <1>7, <2>1 DEF InService, IInv
<1>13. i \in {0, 1, 15} \cup (3..7) \cup (8..14)
  BY <1>1 DEF Master, Slave, Cascade
<1> QED
  BY <1>8, <1>9, <1>10, <1>11, <1>12, <1>13

\* A spurious request is entered as IRQ 7 with nothing in service, or finds no
\* gate as IRQ 15.
LEMMA SpuriousInv ==
    ASSUME IInv, NEW i \in Glitches, Spurious(i)
    PROVE  IInv'
<1>1. ifl /\ i \in {7, 15} /\ i \in Master \cup Slave
  BY GlitchesAssumption DEF Spurious, Master, Slave
<1>2. /\ running = "main" /\ isr = {} /\ loaded /\ idt = FilledTable
      /\ stage \in {"kbdinit", "run"}
      /\ VectorOf(i) = 32 + i
  BY <1>1, TakingALine
<1>3. irr' = irr /\ isr' = IF i = 15 THEN {Cascade} ELSE {}
  BY <1>2 DEF Spurious
<1>4. Enter(32 + i, IF i = 15 THEN "irq15" ELSE "irq")
  BY <1>2 DEF Spurious
<1>5. TypeOK'
  <2>1. running' \in Handlers \cup {"panic"}
    BY <1>4 DEF Enter, Panic
  <2>3. ifl' \in BOOLEAN /\ window' \in BOOLEAN /\ loaded' \in BOOLEAN
    BY <1>4 DEF IInv, TypeOK, Enter, Panic, setup, regs
  <2>4. al' \in Owners /\ saved' \in Owners /\ stubbed' \in BOOLEAN
    BY <1>4 DEF IInv, TypeOK, Enter, Panic, regs
  <2>5. at' \in Points /\ cause' \in {"none", "irq", "irq15", "fault"}
    BY <1>4 DEF IInv, TypeOK, Enter, Panic, Points
  <2> QED
    BY <1>3, <1>4, <2>1, <2>3, <2>4, <2>5 DEF IInv, TypeOK, Enter, Panic, setup, clock
<1>6. SetupOrder'
  BY <1>2, <1>4 DEF IInv, SetupOrder, Enter, Panic, setup, Handlers
<1>7. CASE i = 7
  <2>1. running' = "master" /\ at' = "eoi"
    BY <1>2, <1>4, <1>7, Routing DEF Enter, Reaches, Handlers
  <2> QED
    BY <2>1, <1>3, <1>5, <1>6, <1>7 DEF InService, IInv
<1>8. CASE i = 15
  BY <1>2, <1>4, <1>5, <1>6, <1>8, Routing DEF InService, IInv, Enter, Reaches, Panic
<1> QED
  BY <1>1, <1>7, <1>8

\* The two end-of-interrupt commands retire exactly what was in service.
LEMMA EndOfInterruptInv ==
    ASSUME IInv, isr_irq_slave \/ EndOfInterrupt
    PROVE  IInv'
<1>1. TypeOK'
  BY DEF isr_irq_slave, EndOfInterrupt, IInv, TypeOK, setup, clock, Points, Owners
<1>2. SetupOrder'
  BY DEF isr_irq_slave, EndOfInterrupt, IInv, SetupOrder, setup
<1>3. CASE isr_irq_slave
  <2>1. PICK i \in 8..14 : isr = {Cascade, i}
    BY <1>3 DEF isr_irq_slave, IInv, InService
  <2>2. Retire(Slave) = {i}
    BY <2>1 DEF Retire, Slave, Cascade
  <2>3. isr' = {Cascade}
    BY <1>3, <2>1, <2>2 DEF isr_irq_slave, Cascade
  <2> QED
    BY <1>1, <1>2, <1>3, <2>3 DEF isr_irq_slave, InService, IInv
<1>4. CASE EndOfInterrupt
  <2>1. isr = {} \/ \E i \in Master : isr = {i}
    BY <1>4 DEF EndOfInterrupt, IInv, InService, Handlers, Master, Cascade
  <2>2. isr' = {}
    BY <1>4, <2>1 DEF EndOfInterrupt, Retire, Master
  <2> QED
    BY <1>1, <1>2, <1>4, <2>2 DEF EndOfInterrupt, InService, Handlers, IInv
<1> QED
  BY <1>1, <1>2, <1>3, <1>4 DEF IInv

\* Every step keeps the invariant, one case per action.
LEMMA StepInv == IInv /\ [Next]_vars => IInv'
<1> SUFFICES ASSUME IInv, [Next]_vars PROVE IInv'
  OBVIOUS
<1> USE DEF IInv, Handlers
<1>1. CASE PIC_remap
  BY <1>1 DEF PIC_remap, TypeOK, SetupOrder, InService, One, Stages, regs
<1>2. CASE ISR_init
  BY <1>2 DEF ISR_init, TypeOK, SetupOrder, InService, Stages, regs, pic, clock
<1>3. CASE IDT_load
  BY <1>3 DEF IDT_load, TypeOK, SetupOrder, InService, Stages, regs, pic, clock
<1>4. CASE IDT_init
  BY <1>4 DEF IDT_init, TypeOK, SetupOrder, InService, Stages, regs, pic, clock
<1>5. CASE Keyboard_init
  BY <1>5 DEF Keyboard_init, TypeOK, SetupOrder, InService, Stages, regs, pic, clock
<1>6. CASE LoadByte
  BY ZenonT(30), <1>6 DEF LoadByte, Owners, TypeOK, SetupOrder, InService, setup, pic, clock
<1>7. CASE SendByte
  BY ZenonT(30), <1>7 DEF SendByte, TypeOK, SetupOrder, InService, setup, pic, clock
<1>8. CASE PitEdge
  BY <1>8, PeriodsAssumption DEF PitEdge, TypeOK, SetupOrder, InService, setup, regs, One
<1>9. CASE \E i \in Lines : RaiseLine(i)
  BY <1>9 DEF RaiseLine, TypeOK, SetupOrder, InService, setup, regs, clock
<1>10. CASE \E i \in Master \cup Slave : Deliver(i)
  BY <1>10, DeliverInv
<1>11. CASE \E i \in Glitches : Spurious(i)
  BY <1>11, SpuriousInv
<1>12. CASE PIT_add_ticks
  BY <1>12 DEF PIT_add_ticks, TypeOK, SetupOrder, InService, setup, pic, regs, Points
<1>13. CASE Keyboard_main
  BY ZenonT(30), <1>13 DEF Keyboard_main, TypeOK, SetupOrder, InService, setup, pic, clock, Points, Owners
<1>14. CASE isr_irq_slave \/ EndOfInterrupt
  BY <1>14, EndOfInterruptInv
<1>16. CASE Return
  BY <1>16 DEF Return, TypeOK, SetupOrder, InService, setup, pic, clock, Points, Owners
<1>17. CASE Fault
  BY <1>17 DEF Fault, Panic, TypeOK, SetupOrder, InService, setup, regs, clock
<1>18. CASE Idle \/ Halted \/ UNCHANGED vars
  BY <1>18 DEF Idle, Halted, vars, TypeOK, SetupOrder, InService, setup, pic, regs, clock
<1> QED
  BY <1>1, <1>2, <1>3, <1>4, <1>5, <1>6, <1>7, <1>8, <1>9, <1>10, <1>11, <1>12,
     <1>13, <1>14, <1>16, <1>17, <1>18 DEF Next

\* The invariant holds throughout.
LEMMA AlwaysIInv == Spec => []IInv
<1>1. Init => IInv
  BY InitInv
<1>2. IInv /\ [Next]_vars => IInv'
  BY StepInv
<1> QED
  BY <1>1, <1>2, PTL DEF Spec

\* The state of the model is well typed: in particular nothing but the lines of
\* the machine, the timer and the cascade is ever requested or in service, and
\* the table is either empty or complete (IDT.c, ISR_init).
THEOREM TypeCorrect == Spec => []TypeOK
BY AlwaysIInv, PTL DEF IInv

\* On every machine, kmain never runs with a line in service: the stubs of
\* system.asm and the handlers send exactly the end-of-interrupt commands
\* needed, spurious IRQ 7 included.
THEOREM NothingLeft == Spec => []NothingLeftInService
<1>1. IInv => NothingLeftInService
  BY DEF IInv, InService, NothingLeftInService
<1> QED
  BY <1>1, AlwaysIInv, PTL

----------------------------------------------------------------------------
(* The reasons to stop *)

\* A line other than 15 is accepted into its handler.
LEMMA OnlyIrq15 ==
    ASSUME IInv, NEW i \in Master \cup Slave, Deliver(i), running' = "panic"
    PROVE  cause' = "irq15"
<1>1. ifl /\ i \in irr /\ i # Cascade
  BY LinesAssumption DEF Deliver, Presented, IInv, TypeOK, Cascade
<1>2. running = "main" /\ loaded /\ idt = FilledTable /\ VectorOf(i) = 32 + i
  BY <1>1, TakingALine
<1>3. Enter(32 + i, IF i = 15 THEN "irq15" ELSE "irq")
  BY <1>2 DEF Deliver
<1>4. i = 15 \/ (32 + i \in DOMAIN FilledTable /\ FilledTable[32 + i] \in Handlers)
  BY <1>1, Routing DEF Handlers, Master, Slave, Cascade
<1>5. CASE i = 15
  BY <1>2, <1>3, <1>5, Routing DEF Enter, Reaches, Panic
<1>6. CASE 32 + i \in DOMAIN FilledTable /\ FilledTable[32 + i] \in Handlers
  BY <1>2, <1>3, <1>6 DEF Enter, Reaches, Handlers
<1> QED
  BY <1>4, <1>5, <1>6

\* Nor does a spurious request panic, unless it is that of the slave.
LEMMA OnlySpurious15 ==
    ASSUME IInv, NEW i \in Glitches, Spurious(i), running' = "panic"
    PROVE  cause' = "irq15"
<1>1. ifl /\ i \in {7, 15} /\ i \in Master \cup Slave
  BY GlitchesAssumption DEF Spurious, Master, Slave
<1>2. running = "main" /\ loaded /\ idt = FilledTable /\ VectorOf(i) = 32 + i
  BY <1>1, TakingALine
<1>3. Enter(32 + i, IF i = 15 THEN "irq15" ELSE "irq")
  BY <1>2 DEF Spurious
<1>4. CASE i = 7
  BY <1>2, <1>3, <1>4, Routing DEF Enter, Reaches, Handlers
<1>5. CASE i = 15
  BY <1>2, <1>3, <1>5, Routing DEF Enter, Reaches, Panic
<1> QED
  BY <1>1, <1>4, <1>5

\* On every machine, no interrupt but IRQ 15 stops the kernel; in particular
\* none is taken as one of the 32 exceptions or before the table is loaded.
THEOREM PanicCauses == Spec => []PanicCause
<1>1. Init => PanicCause
  BY DEF Init, PanicCause
<1>2. ASSUME IInv, PanicCause, [Next]_vars PROVE PanicCause'
  <2> USE DEF PanicCause
  <2>1. CASE PIC_remap \/ ISR_init \/ IDT_load \/ IDT_init \/ Keyboard_init
    BY <1>2, <2>1 DEF PIC_remap, ISR_init, IDT_load, IDT_init, Keyboard_init
  <2>2. CASE LoadByte \/ SendByte \/ Idle \/ Halted \/ UNCHANGED vars
    BY <1>2, <2>2 DEF LoadByte, SendByte, Idle, Halted, vars
  <2>3. CASE PitEdge \/ \E i \in Lines : RaiseLine(i)
    BY <1>2, <2>3 DEF PitEdge, RaiseLine
  <2>4. CASE \E i \in Master \cup Slave : Deliver(i)
    BY <1>2, <2>4, OnlyIrq15
  <2>5. CASE \E i \in Glitches : Spurious(i)
    BY <1>2, <2>5, OnlySpurious15
  <2>6. CASE PIT_add_ticks \/ Keyboard_main \/ isr_irq_slave \/ EndOfInterrupt
    BY <1>2, <2>6 DEF PIT_add_ticks, Keyboard_main, isr_irq_slave, EndOfInterrupt
  <2>7. CASE Return
    BY <2>7 DEF Return
  <2>8. CASE Fault
    BY <2>8 DEF Fault, Panic
  <2> QED
    BY <1>2, <2>1, <2>2, <2>3, <2>4, <2>5, <2>6, <2>7, <2>8 DEF Next
<1> QED
  BY <1>1, <1>2, AlwaysIInv, PTL DEF Spec

----------------------------------------------------------------------------
(* The clock *)

\* Accepting any line moves one period from waiting to being counted when the
\* line is IRQ 0, and none otherwise.
LEMMA AcceptTicks ==
    ASSUME IInv, NEW i \in Master \cup Slave, Deliver(i)
    PROVE  /\ UNCHANGED <<stage, periods, ticks, missed>>
           /\ running = "main" /\ stage \in {"kbdinit", "run"}
           /\ i = 0 => 0 \in irr /\ 0 \notin irr' /\ running' = "pit" /\ at' = "body"
           /\ i # 0 => (0 \in irr' <=> 0 \in irr) /\ running' # "pit"
<1>1. ifl /\ i \in irr /\ i # Cascade
  BY LinesAssumption DEF Deliver, Presented, IInv, TypeOK, Cascade
<1>2. /\ running = "main" /\ loaded /\ idt = FilledTable /\ VectorOf(i) = 32 + i
      /\ stage \in {"kbdinit", "run"}
  BY <1>1, TakingALine
<1>3. Enter(32 + i, IF i = 15 THEN "irq15" ELSE "irq") /\ irr' = irr \ {i}
  BY <1>2 DEF Deliver
<1>4. UNCHANGED <<stage, periods, ticks, missed>>
  BY <1>3 DEF Enter, Panic, setup, clock
<1>5. CASE i = 0
  BY <1>1, <1>2, <1>3, <1>4, <1>5, Routing DEF Enter, Reaches, Handlers
<1>6. CASE i # 0
  <2>1. \/ i = 1 \/ i = 15 \/ i \in 3..7 \/ i \in 8..14
    BY <1>1, <1>6 DEF Master, Slave, Cascade
  <2>2. 32 + i \in DOMAIN FilledTable => FilledTable[32 + i] # "pit"
    BY <2>1, Routing
  <2>3. running' # "pit"
    BY <1>2, <1>3, <2>2 DEF Enter, Reaches, Panic
  <2> QED
    BY <1>2, <1>3, <1>4, <1>6, <2>3
<1> QED
  BY <1>5, <1>6

\* The same for a spurious request, which moves none.
LEMMA SpuriousTicks ==
    ASSUME IInv, NEW i \in Glitches, Spurious(i)
    PROVE  /\ UNCHANGED <<stage, periods, ticks, missed, irr>>
           /\ running = "main" /\ stage \in {"kbdinit", "run"}
           /\ running' # "pit"
<1>1. ifl /\ i \in {7, 15} /\ i \in Master \cup Slave
  BY GlitchesAssumption DEF Spurious, Master, Slave
<1>2. /\ running = "main" /\ loaded /\ idt = FilledTable /\ VectorOf(i) = 32 + i
      /\ stage \in {"kbdinit", "run"}
  BY <1>1, TakingALine
<1>3. Enter(32 + i, IF i = 15 THEN "irq15" ELSE "irq") /\ irr' = irr
  BY <1>2 DEF Spurious
<1>4. UNCHANGED <<stage, periods, ticks, missed>>
  BY <1>3 DEF Enter, Panic, setup, clock
<1>5. 32 + i \in DOMAIN FilledTable => FilledTable[32 + i] # "pit"
  BY <1>1, Routing
<1>6. running' # "pit"
  BY <1>2, <1>3, <1>5 DEF Enter, Reaches, Panic
<1> QED
  BY <1>2, <1>3, <1>4, <1>6

\* On every machine, each period of channel 0 is accounted for exactly once:
\* waiting, being counted, in ticks, or missed.
THEOREM TicksAreConserved == Spec => []TicksConserved
<1>1. Init => TicksConserved
  BY DEF Init, TicksConserved, One
<1>2. ASSUME IInv, TicksConserved, [Next]_vars PROVE TicksConserved'
  <2>0. periods \in Nat /\ ticks \in Nat /\ missed \in Nat
    BY <1>2, PeriodsAssumption DEF IInv, TypeOK
  <2> USE DEF TicksConserved, One
  <2>1. CASE PIC_remap
    BY <1>2, <2>0, <2>1 DEF PIC_remap
  <2>2. CASE ISR_init \/ IDT_load \/ IDT_init \/ Keyboard_init
    BY <1>2, <2>2 DEF ISR_init, IDT_load, IDT_init, Keyboard_init, pic, clock
  <2>3. CASE LoadByte \/ SendByte \/ Idle \/ Halted \/ UNCHANGED vars
    BY <1>2, <2>3 DEF LoadByte, SendByte, Idle, Halted, vars, pic, clock
  <2>4. CASE PitEdge
    BY <1>2, <2>0, <2>4 DEF PitEdge
  <2>5. CASE \E i \in Lines : RaiseLine(i)
    BY <1>2, <2>5 DEF RaiseLine, clock
  <2>6. CASE \E i \in Master \cup Slave : Deliver(i)
    BY <1>2, <2>0, <2>6, AcceptTicks
  <2>7. CASE \E i \in Glitches : Spurious(i)
    BY <1>2, <2>0, <2>7, SpuriousTicks
  <2>8. CASE PIT_add_ticks
    BY <1>2, <2>0, <2>8 DEF PIT_add_ticks, pic
  <2>9. CASE Keyboard_main \/ isr_irq_slave \/ EndOfInterrupt
    BY <1>2, <2>9 DEF Keyboard_main, isr_irq_slave, EndOfInterrupt, pic, clock
  <2>10. CASE Return
    BY <1>2, <2>10 DEF Return, pic, clock
  <2>11. CASE Fault
    BY <1>2, <2>11 DEF Fault, Panic, clock
  <2> QED
    BY <1>2, <2>1, <2>2, <2>3, <2>4, <2>5, <2>6, <2>7, <2>8, <2>9, <2>10, <2>11 DEF Next
<1> QED
  BY <1>1, <1>2, AlwaysIInv, PTL DEF Spec

\* Every step of the interrupt path is a step of the abstract clock, or leaves
\* it alone.
LEMMA ClockStep ==
    ASSUME IInv, [Next]_vars
    PROVE  [Clock!ClockNext]_Clock!clockVars
<1> USE DEF Clock!ClockNext, Clock!clockVars
<1>1. CASE PIC_remap
  BY <1>1 DEF PIC_remap, Clock!Arm, One, Clock!One
<1>2. CASE ISR_init \/ IDT_load \/ IDT_init \/ Keyboard_init
  BY <1>2 DEF ISR_init, IDT_load, IDT_init, Keyboard_init, pic, clock
<1>3. CASE LoadByte \/ SendByte \/ Idle \/ Halted \/ UNCHANGED vars
  BY <1>3 DEF LoadByte, SendByte, Idle, Halted, vars, setup, pic, clock
<1>4. CASE PitEdge
  BY <1>4 DEF PitEdge, Clock!Edge, One, Clock!One, setup
<1>5. CASE \E i \in Lines : RaiseLine(i)
  BY <1>5 DEF RaiseLine, clock, setup
<1>6. CASE \E i \in Master \cup Slave : Deliver(i)
  <2>1. PICK i \in Master \cup Slave : Deliver(i)
    BY <1>6
  <2>2. CASE i = 0
    BY <2>1, <2>2, AcceptTicks DEF Clock!Take
  <2>3. CASE i # 0
    BY <2>1, <2>3, AcceptTicks DEF Clock!Die
  <2> QED
    BY <2>2, <2>3
<1>7. CASE \E i \in Glitches : Spurious(i)
  BY <1>7, SpuriousTicks DEF Clock!Die
<1>8. CASE PIT_add_ticks
  BY <1>8 DEF PIT_add_ticks, Clock!Count, pic, setup, IInv, SetupOrder, Handlers
<1>9. CASE Keyboard_main \/ isr_irq_slave \/ EndOfInterrupt
  BY <1>9 DEF Keyboard_main, isr_irq_slave, EndOfInterrupt, setup, pic, clock
<1>10. CASE Return
  BY <1>10 DEF Return, setup, pic, clock, Handlers
<1>11. CASE Fault
  BY <1>11 DEF Fault, Panic, Clock!Die, setup, clock
<1> QED
  BY <1>1, <1>2, <1>3, <1>4, <1>5, <1>6, <1>7, <1>8, <1>9, <1>10, <1>11 DEF Next

\* On every machine the interrupt path implements the safety part of the clock
\* that the timer code is written against: periods are never counted twice,
\* never counted before they end, and never forgotten after the controllers
\* are set up except while one already waits.
THEOREM ClockImplemented == Spec => Clock!ClockSpec
<1>1. Init => Clock!ClockInit
  BY DEF Init, Clock!ClockInit
<1>2. IInv /\ [Next]_vars => [Clock!ClockNext]_Clock!clockVars
  BY ClockStep
<1> QED
  BY <1>1, <1>2, AlwaysIInv, PTL DEF Spec, Clock!ClockSpec

----------------------------------------------------------------------------
(* The byte in AL *)

\* As long as no stub ran in the window, AL or its saved copy is kmain's.
AlKept ==
    window /\ ~stubbed =>
        /\ running \notin {"master", "slave"}
        /\ running \in {"pit", "kbd"} => saved = "main"
        /\ running = "main" => al = "main"

\* Accepting an interrupt saves AL in the handlers that restore it, and marks
\* the window in those that do not.
LEMMA EnterKeepsAl ==
    ASSUME AlKept, running = "main", NEW v, NEW why, Enter(v, why)
    PROVE  AlKept'
<1>1. CASE Reaches(v) /\ idt[v] \in Handlers
  BY <1>1 DEF AlKept, Enter, Handlers
<1>2. CASE ~(Reaches(v) /\ idt[v] \in Handlers)
  BY <1>2 DEF AlKept, Enter, Panic, regs
<1> QED
  BY <1>1, <1>2

\* On every machine, the byte kmain is about to send is altered by nothing but
\* the stubs that do not save AL.
THEOREM BytesSurvive == Spec => []ByteSurvives
<1>1. Init => AlKept
  BY DEF Init, AlKept
<1>2. ASSUME IInv, AlKept, [Next]_vars PROVE AlKept'
  <2>1. CASE PIC_remap \/ ISR_init \/ IDT_load \/ IDT_init \/ Keyboard_init
    BY <1>2, <2>1 DEF AlKept, PIC_remap, ISR_init, IDT_load, IDT_init, Keyboard_init, regs
  <2>2. CASE LoadByte \/ SendByte
    BY <1>2, <2>2 DEF AlKept, LoadByte, SendByte
  <2>3. CASE Idle \/ Halted \/ UNCHANGED vars
    BY <1>2, <2>3 DEF AlKept, Idle, Halted, vars, regs
  <2>4. CASE PitEdge \/ \E i \in Lines : RaiseLine(i)
    BY <1>2, <2>4 DEF AlKept, PitEdge, RaiseLine, regs
  <2>5. CASE \E i \in Master \cup Slave : Deliver(i)
    <3>1. PICK i \in Master \cup Slave : Deliver(i)
      BY <2>5
    <3>2. running = "main" /\ Enter(VectorOf(i), IF i = 15 THEN "irq15" ELSE "irq")
      BY <1>2, <3>1, AcceptTicks DEF Deliver
    <3> QED
      BY <1>2, <3>2, EnterKeepsAl
  <2>6. CASE \E i \in Glitches : Spurious(i)
    <3>1. PICK i \in Glitches : Spurious(i)
      BY <2>6
    <3>2. running = "main" /\ Enter(VectorOf(i), IF i = 15 THEN "irq15" ELSE "irq")
      BY <1>2, <3>1, SpuriousTicks DEF Spurious
    <3> QED
      BY <1>2, <3>2, EnterKeepsAl
  <2>7. CASE PIT_add_ticks \/ Keyboard_main \/ isr_irq_slave \/ EndOfInterrupt
    BY <1>2, <2>7
       DEF AlKept, Handlers, PIT_add_ticks, Keyboard_main, isr_irq_slave, EndOfInterrupt, regs
  <2>8. CASE Return
    BY <1>2, <2>8 DEF AlKept, Handlers, Return
  <2>9. CASE Fault
    BY <1>2, <2>9 DEF AlKept, Fault, Panic, regs
  <2> QED
    BY <1>2, <2>1, <2>2, <2>3, <2>4, <2>5, <2>6, <2>7, <2>8, <2>9 DEF Next
<1>3. AlKept => ByteSurvives
  BY DEF AlKept, ByteSurvives
<1> QED
  BY <1>1, <1>2, <1>3, AlwaysIInv, PTL DEF Spec

----------------------------------------------------------------------------
(* The keyboard *)

\* Accepting a line other than the keyboard's leaves its request latched.
LEMMA AcceptKeepsKey ==
    ASSUME IInv, NEW i \in Master \cup Slave, Deliver(i), Deaf'
    PROVE  Deaf
<1>1. ifl /\ i \in irr /\ i # Cascade
  BY LinesAssumption DEF Deliver, Presented, IInv, TypeOK, Cascade
<1>2. running = "main" /\ loaded /\ idt = FilledTable /\ VectorOf(i) = 32 + i
  BY <1>1, TakingALine
<1>3. Enter(32 + i, IF i = 15 THEN "irq15" ELSE "irq") /\ irr' = irr \ {i}
  BY <1>2 DEF Deliver
<1>4. byte' = byte
  BY <1>3 DEF Enter, Panic
<1>5. CASE i = 1
  BY <1>2, <1>3, <1>5, Routing DEF Deaf, Enter, Reaches, Handlers
<1>6. CASE i # 1
  BY <1>2, <1>3, <1>4, <1>6 DEF Deaf
<1> QED
  BY <1>5, <1>6

\* On every machine the keyboard is deafened by PIC_remap alone: no other step
\* leaves the controller with a byte nothing will fetch.
THEOREM KeyboardHeard == Spec => DeafOnlyByRemap
<1>1. ASSUME IInv, [Next]_vars PROVE Deaf' /\ ~Deaf => stage = "remap"
  <2> USE DEF Deaf
  <2>1. CASE PIC_remap
    BY <2>1 DEF PIC_remap
  <2>2. CASE ISR_init \/ IDT_load \/ IDT_init \/ Keyboard_init
    BY <2>2 DEF ISR_init, IDT_load, IDT_init, Keyboard_init, pic
  <2>3. CASE LoadByte \/ SendByte \/ Idle \/ Halted \/ UNCHANGED vars
    BY <2>3 DEF LoadByte, SendByte, Idle, Halted, vars, pic
  <2>4. CASE PitEdge
    BY <2>4 DEF PitEdge
  <2>5. CASE \E i \in Lines : RaiseLine(i)
    BY <2>5 DEF RaiseLine
  <2>6. CASE \E i \in Master \cup Slave : Deliver(i)
    BY <1>1, <2>6, AcceptKeepsKey
  <2>7. CASE \E i \in Glitches : Spurious(i)
    BY <1>1, <2>7, SpuriousTicks DEF Spurious, Enter, Panic
  <2>8. CASE PIT_add_ticks \/ Keyboard_main \/ isr_irq_slave \/ EndOfInterrupt
    BY <2>8 DEF PIT_add_ticks, Keyboard_main, isr_irq_slave, EndOfInterrupt, pic
  <2>9. CASE Return
    BY <2>9 DEF Return, pic, Handlers
  <2>10. CASE Fault
    BY <2>10 DEF Fault, Panic
  <2> QED
    BY <1>1, <2>1, <2>2, <2>3, <2>4, <2>5, <2>6, <2>7, <2>8, <2>9, <2>10 DEF Next
<1> QED
  BY <1>1, AlwaysIInv, PTL DEF Spec, DeafOnlyByRemap

----------------------------------------------------------------------------
(* The next handler *)

\* From PIC_remap on no line is masked, and from the sti on kmain runs with IF set.
Open ==
    /\ stage # "remap" => imr = {}
    /\ stage \in {"kbdinit", "run"} /\ running = "main" => ifl

TimerWaits == stage = "run" /\ 0 \in irr

\* How far a handler is from its iretq.
Away ==
    IF running \notin Handlers THEN 0
    ELSE IF at = "body" THEN 3 ELSE IF at = "eoi" THEN 2 ELSE 1

\* Accepting any line, or none, enters a handler or panics.
LEMMA Enters ==
    ASSUME NEW v, NEW why, Enter(v, why)
    PROVE  running' \in Handlers \cup {"panic"} /\ UNCHANGED <<stage, imr>>
<1>1. CASE Reaches(v) /\ idt[v] \in Handlers
  BY <1>1 DEF Enter, setup
<1>2. CASE ~(Reaches(v) /\ idt[v] \in Handlers)
  BY <1>2 DEF Enter, Panic, setup
<1> QED
  BY <1>1, <1>2

LEMMA OpenStep == IInv /\ Open /\ [Next]_vars => Open'
<1> SUFFICES ASSUME IInv, Open, [Next]_vars PROVE Open'
  OBVIOUS
<1> USE DEF Open
<1>1. CASE PIC_remap \/ ISR_init \/ IDT_load
  BY <1>1 DEF PIC_remap, ISR_init, IDT_load, pic
<1>2. CASE IDT_init \/ Keyboard_init
  BY <1>2 DEF IDT_init, Keyboard_init, pic
<1>3. CASE LoadByte \/ SendByte \/ Idle \/ Halted \/ UNCHANGED vars
  BY <1>3 DEF LoadByte, SendByte, Idle, Halted, vars, setup, pic
<1>4. CASE PitEdge \/ \E i \in Lines : RaiseLine(i)
  BY <1>4 DEF PitEdge, RaiseLine, setup
<1>5. CASE \E i \in Master \cup Slave : Deliver(i)
  BY <1>5, Enters DEF Deliver, Handlers
<1>6. CASE \E i \in Glitches : Spurious(i)
  BY <1>6, Enters DEF Spurious, Handlers
<1>7. CASE PIT_add_ticks \/ Keyboard_main \/ isr_irq_slave \/ EndOfInterrupt
  BY <1>7 DEF PIT_add_ticks, Keyboard_main, isr_irq_slave, EndOfInterrupt, setup, pic
<1>8. CASE Return
  BY <1>8 DEF Return, setup, pic
<1>9. CASE Fault
  BY <1>9 DEF Fault, Panic, setup
<1> QED
  BY <1>1, <1>2, <1>3, <1>4, <1>5, <1>6, <1>7, <1>8, <1>9 DEF Next

\* While kmain runs, a waiting period is what the controllers present.
LEMMA TimerPresented ==
    ASSUME IInv, Open, TimerWaits, running = "main"
    PROVE  ifl /\ Presented(0)
<1>1. ifl /\ imr = {} /\ isr = {} /\ 0 \in irr /\ irr \subseteq Lines \cup {0}
  BY DEF IInv, TypeOK, InService, Open, TimerWaits
<1>2. \A j \in Lines \cup {0} : Priority(0) <= Priority(j)
  BY LinesAssumption DEF Priority, Master, Slave, Cascade
<1> QED
  BY <1>1, <1>2 DEF Presented

\* On every machine, from the end of the setup on, a period that waits is served
\* next: whenever kmain runs IRQ 0 is what the controllers present, no other line is
\* accepted before it, spurious or not, and a handler that is running only comes
\* nearer to its iretq.  What is missing to TimerServed is that the processor executes.
THEOREM TimerNext ==
    Spec => /\ [](TimerWaits /\ running = "main" => ifl /\ Presented(0))
            /\ [](running \in Handlers /\ at = "body" => running \in {"pit", "kbd", "slave"})
            /\ [][TimerWaits =>
                     \/ running # running' /\ running' \in {"pit", "panic"}
                     \/ TimerWaits' /\ Away' < Away
                     \/ TimerWaits' /\ UNCHANGED <<running, at>>]_vars
<1> DEFINE Next0 == TimerWaits =>
                       \/ running # running' /\ running' \in {"pit", "panic"}
                       \/ TimerWaits' /\ Away' < Away
                       \/ TimerWaits' /\ UNCHANGED <<running, at>>
           Ready == TimerWaits /\ running = "main" => ifl /\ Presented(0)
           Bodies == running \in Handlers /\ at = "body" => running \in {"pit", "kbd", "slave"}
<1>1. Init => Open
  BY DEF Init, Open
<1>2. Spec => []Open
  BY <1>1, OpenStep, AlwaysIInv, PTL DEF Spec
<1>3. IInv /\ Open => Ready
  BY TimerPresented
<1>4. IInv => Bodies
  BY DEF IInv, InService, Handlers
<1>5. IInv /\ Open /\ [Next]_vars => [Next0]_vars
  <2> SUFFICES ASSUME IInv, Open, Next, TimerWaits
               PROVE  \/ running # running' /\ running' \in {"pit", "panic"}
                      \/ TimerWaits' /\ Away' < Away
                      \/ TimerWaits' /\ UNCHANGED <<running, at>>
    OBVIOUS
  <2>1. CASE PIC_remap \/ ISR_init \/ IDT_load \/ IDT_init \/ Keyboard_init
    BY <2>1 DEF PIC_remap, ISR_init, IDT_load, IDT_init, Keyboard_init, TimerWaits
  <2>2. CASE LoadByte \/ SendByte \/ Idle \/ Halted
    BY <2>2 DEF LoadByte, SendByte, Idle, Halted, vars, setup, pic, TimerWaits
  <2>3. CASE PitEdge \/ \E i \in Lines : RaiseLine(i)
    BY <2>3 DEF PitEdge, RaiseLine, setup, TimerWaits
  <2>4. CASE \E i \in Master \cup Slave : Deliver(i)
    <3>1. PICK i \in Master \cup Slave : Deliver(i)
      BY <2>4
    <3>2. running = "main" /\ Presented(i)
      BY <3>1, AcceptTicks DEF Deliver
    <3>3. Presented(0)
      BY <3>2, TimerPresented
    <3>4. i = 0
      <4>1. Priority(i) <= Priority(0)
        BY <3>2, <3>3 DEF Presented
      <4>. QED
        BY <4>1 DEF Priority, Master, Slave, Cascade
    <3>. QED
      BY <3>1, <3>2, <3>4, AcceptTicks
  <2>5. CASE \E i \in Glitches : Spurious(i)
    <3>1. PICK i \in Glitches : Spurious(i)
      BY <2>5
    <3>2. running = "main" /\ ~\E j \in irr : Presented(j)
      BY <3>1, SpuriousTicks DEF Spurious
    <3>3. Presented(0)
      BY <3>2, TimerPresented
    <3>. QED
      BY <3>2, <3>3 DEF TimerWaits
  <2>6. CASE PIT_add_ticks \/ Keyboard_main \/ isr_irq_slave
    BY <2>6 DEF PIT_add_ticks, Keyboard_main, isr_irq_slave, setup, pic, TimerWaits, Away, Handlers
  <2>7. CASE EndOfInterrupt
    BY <2>7 DEF EndOfInterrupt, setup, TimerWaits, Away
  <2>8. CASE Return
    BY <2>8 DEF Return, setup, pic, TimerWaits, Away, Handlers
  <2>9. CASE Fault
    BY <2>9 DEF Fault, Panic
  <2>. QED
    BY <2>1, <2>2, <2>3, <2>4, <2>5, <2>6, <2>7, <2>8, <2>9 DEF Next
<1>6. Spec => [](Ready /\ Bodies)
  BY <1>2, <1>3, <1>4, AlwaysIInv, PTL
<1>7. Spec => [][Next0]_vars
  BY <1>2, <1>5, AlwaysIInv, PTL DEF Spec
<1> QED
  BY <1>6, <1>7, PTL
=============================================================================
