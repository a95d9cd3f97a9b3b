------------------------------- MODULE Timer -------------------------------
(***************************************************************************)
(* The 8254 timer as kmain uses it: PIT_init programs channel 0, the       *)
(* kernel's clock; PIT_sleep waits on that clock; PCSpkr drives channel 2  *)
(* and the speaker port; kmain ends with a loop of beeps and pauses.       *)
(*                                                                         *)
(* kmain is a list of port accesses and waits, executed one by one, and    *)
(* interrupted between any two by the tick handler (the Edge, Take and     *)
(* Count of TickClock, which Interrupts is shown to implement).  Where     *)
(* clobber is TRUE, interrupts that go to isr_irq_master or isr_irq_slave, *)
(* which leave 0x20 in AL, are raised as well: the byte an out sends, the  *)
(* byte read from port 0x61 and the low byte of what PIT_sleep computes in *)
(* RAX can then be replaced by it.                                         *)
(***************************************************************************)
EXTENDS Integers, Sequences

CONSTANTS
    BeepTicks,      \* PCSpkr_beep(50)
    GapTicks,       \* PIT_sleep(950)
    Beeps,          \* passes of the loop
    Byte,           \* what the low byte of RAX can be: 256 values, from 0
    Al              \* what isr_irq_master and isr_irq_slave leave there: 0x20

ASSUME TimerAssumption ==
    /\ BeepTicks \in Nat \ {0} /\ GapTicks \in Nat \ {0} /\ Beeps \in Nat \ {0}
    /\ Byte \in Nat \ {0} /\ Al \in 0..Byte - 1

VARIABLES
    clobber,    \* whether interrupts that do not save AL are raised (constant)
    pc,         \* the next step of kmain
    beeps,      \* passes of the loop completed
    chan,       \* the three channels of the 8254
    port61,     \* bits 0 (gate of channel 2) and 1 (speaker) of port 0x61
    tmp,        \* port 0x61 as last read
    pending,    \* a period of channel 0 waits to be accepted
    serving,    \* pit_handler runs and has not counted its period yet
    low,        \* the low byte of cticks
    since,      \* ticks - cticks, as far as the duration compared with it
    elapsed     \* periods that ended since ticks was read into cticks, as far
                \* as that

machine == <<chan, port61>>
main == <<clobber, pc, beeps, tmp>>
clock == <<pending, serving, low, since, elapsed>>
vars == <<main, machine, clock>>

----------------------------------------------------------------------------
(* The program *)

BASE_FREQ == 1193182
LSB(n) == n % 256
MSB(n) == (n \div 256) % 256

Out(p, b) == [op |-> "out", port |-> p, byte |-> b]
Read61 == [op |-> "read61"]
Or61(bits) == [op |-> "or61", bits |-> bits]
And61(bits) == [op |-> "and61", bits |-> bits]
Snapshot == [op |-> "snapshot"]
Wait(d) == [op |-> "wait", for |-> d]
Loop == [op |-> "loop"]

\* PIT_init with control byte 0x30: mode 0, a single period.
PIT_initOneShot(f) ==
    LET divisor == BASE_FREQ \div f
    IN  <<Out("ctl", 48), Out("data0", LSB(divisor)), Out("data0", MSB(divisor))>>

PIT_init(f) ==
    LET divisor == BASE_FREQ \div f
    IN  <<Out("ctl", 54), Out("data0", LSB(divisor)), Out("data0", MSB(divisor))>>

PCSpkr_init == <<Read61, Or61({0})>>

\* PCSpkr_set_c2 with PIT_init's control byte.
PCSpkr_set_c2Ch0(hz) ==
    LET div == BASE_FREQ \div hz
    IN  <<Out("ctl", 54), Out("data2", LSB(div)), Out("data2", MSB(div))>>

\* PCSpkr_set_c2 with its data bytes swapped.
PCSpkr_set_c2Swapped(hz) ==
    LET div == BASE_FREQ \div hz
    IN  <<Out("ctl", 182), Out("data2", MSB(div)), Out("data2", LSB(div))>>

PCSpkr_set_c2(hz) ==
    LET div == BASE_FREQ \div hz
    IN  <<Out("ctl", 182), Out("data2", LSB(div)), Out("data2", MSB(div))>>

PCSpkr_tone_on(hz) == PCSpkr_set_c2(hz) \o <<Read61, Or61({0, 1})>>

\* PCSpkr_tone_off with its two statements swapped.
PCSpkr_tone_offLate == PCSpkr_set_c2(1) \o <<Read61, And61({})>>

\* PCSpkr_tone_off clearing bit 0 only.
PCSpkr_tone_offGateOnly == <<Read61, And61({1})>> \o PCSpkr_set_c2(1)

PCSpkr_tone_off == <<Read61, And61({})>> \o PCSpkr_set_c2(1)

PIT_sleep(d) == <<Snapshot, Wait(d)>>

PCSpkr_tone(hz, d) == PCSpkr_tone_on(hz) \o PIT_sleep(d) \o PCSpkr_tone_off

BeepHz == 900

Setup == PIT_init(1000) \o PCSpkr_init

kmain == Setup \o PCSpkr_tone(BeepHz, BeepTicks) \o PIT_sleep(GapTicks) \o <<Loop>>

LoopStart == Len(Setup) + 1
Idle == Len(kmain) + 1

\* The ranges of kmain's program a property speaks of.
ToneWait == LoopStart + 6
GapWait == Idle - 2

Longest == IF BeepTicks > GapTicks THEN BeepTicks ELSE GapTicks
Capped(n) == IF n > Longest THEN Longest ELSE n

----------------------------------------------------------------------------
(* The 8254 *)

\* A control byte selects a channel, how its count is written and its mode, and
\* stops it until the count is complete.
Control(b) ==
    LET c == b \div 64
        reset == [access |-> (b \div 16) % 4, mode |-> (b \div 2) % 8,
                  low |-> 0, half |-> FALSE, live |-> FALSE, reload |-> 0]
    IN  chan' = [chan EXCEPT ![c] = reset]

\* A data byte: low byte then high byte, or the high byte alone.
Data(c, b) ==
    IF chan[c].access = 3 /\ ~chan[c].half
    THEN chan' = [chan EXCEPT ![c].low = b, ![c].half = TRUE]
    ELSE chan' = [chan EXCEPT ![c].half = FALSE, ![c].live = TRUE,
                              ![c].reload = chan[c].low + 256 * b]

----------------------------------------------------------------------------

\* The firmware leaves channel 0 periodic at its slowest rate and the speaker
\* silent.
Init ==
    /\ clobber \in BOOLEAN
    /\ pc = 1 /\ beeps = 0 /\ tmp = {}
    /\ chan = [c \in {0, 2} |->
                 [access |-> 3, mode |-> 3, low |-> 0, half |-> FALSE,
                  live |-> c = 0, reload |-> 0]]
    /\ port61 \in {{}, {0}}
    /\ pending = FALSE /\ serving = FALSE
    /\ low = 0 /\ since = 0 /\ elapsed = 0

\* kmain executes only while no handler does.
At(op) == ~serving /\ pc < Idle /\ kmain[pc].op = op

\* The bytes a device may receive for b.
Arrives(b) == {b} \cup IF clobber THEN {32} ELSE {}

OutByte ==
    /\ At("out")
    /\ \E b \in Arrives(kmain[pc].byte) :
          IF kmain[pc].port = "ctl" THEN Control(b)
          ELSE Data(IF kmain[pc].port = "data0" THEN 0 ELSE 2, b)
    /\ pc' = pc + 1
    /\ UNCHANGED <<clobber, beeps, tmp, port61, clock>>

\* The byte read is in AL until it is written back: bits 0 and 1 of 0x20 are clear.
ReadPort61 ==
    /\ At("read61")
    /\ tmp' \in {port61} \cup IF clobber THEN {{}} ELSE {}
    /\ pc' = pc + 1
    /\ UNCHANGED <<clobber, beeps, machine, clock>>

\* The write of port 0x61.  When no bit would change, tone_on does not write at
\* all.
WritePort61 ==
    /\ At("or61") \/ At("and61")
    /\ LET new == IF kmain[pc].op = "or61" THEN tmp \cup kmain[pc].bits
                  ELSE tmp \cap kmain[pc].bits
           writes == kmain[pc].op = "or61" => new # tmp \/ pc < LoopStart
       IN  port61' \in IF writes THEN {new} \cup (IF clobber THEN {{}} ELSE {})
                       ELSE {port61}
    /\ pc' = pc + 1
    /\ UNCHANGED <<clobber, beeps, tmp, chan, clock>>

\* What the time n may be once an interrupt has been in AL while RAX held it.
\* Times are counted from cticks.
InAl(n) == {n} \cup IF clobber THEN {n - ((low + n) % Byte) + Al} ELSE {}

\* cticks = ticks, through RAX.  The low byte of ticks can be any.
TakeSnapshot ==
    /\ At("snapshot")
    /\ \E b \in 0..Byte - 1, lost \in {FALSE, clobber} :
          /\ low' = IF lost THEN Al ELSE b
          /\ since' = IF lost THEN Capped(b - Al) ELSE 0
    /\ elapsed' = 0
    /\ pc' = pc + 1
    /\ UNCHANGED <<clobber, beeps, tmp, machine, pending, serving>>

\* while (cticks + duration > ticks), waiting one tick too few.
EndWaitEarly ==
    /\ At("wait")
    /\ \E c \in InAl(0) : \E end \in InAl(c + kmain[pc].for) : end - 1 <= since
    /\ pc' = pc + 1
    /\ UNCHANGED <<clobber, beeps, tmp, machine, clock>>

\* The loop of PIT_sleep ends: cticks + duration <= ticks.  RAX holds cticks, and
\* then the sum.
EndWait ==
    /\ At("wait")
    /\ \E c \in InAl(0) : \E end \in InAl(c + kmain[pc].for) : end <= since
    /\ pc' = pc + 1
    /\ UNCHANGED <<clobber, beeps, tmp, machine, clock>>

\* The for of kmain.
LoopAgain ==
    /\ At("loop")
    /\ beeps' = beeps + 1
    /\ pc' = IF beeps + 1 < Beeps THEN LoopStart ELSE Idle
    /\ UNCHANGED <<clobber, tmp, machine, clock>>

Main == OutByte \/ ReadPort61 \/ WritePort61 \/ TakeSnapshot \/ EndWait \/ LoopAgain

----------------------------------------------------------------------------

\* Channel 0 ends a period; in mode 3 it goes on with the next one.
Edge ==
    /\ chan[0].live
    /\ chan' = [chan EXCEPT ![0].live = chan[0].mode = 3]
    /\ pending' = TRUE
    /\ elapsed' = Capped(elapsed + 1)
    /\ UNCHANGED <<main, port61, serving, low, since>>

Take ==
    /\ pending /\ ~serving
    /\ pending' = FALSE /\ serving' = TRUE
    /\ UNCHANGED <<main, machine, low, since, elapsed>>

\* PIT_add_ticks: ticks++.
Count ==
    /\ serving
    /\ serving' = FALSE
    /\ since' = Capped(since + 1)
    /\ UNCHANGED <<main, machine, pending, low, elapsed>>

Next == Main \/ Edge \/ Take \/ Count

Spec == Init /\ [][Next]_vars

\* The processor executes the tick handler, and a live channel ends its period.
\* A period is far longer than the handler, so kmain also executes between two
\* ticks: a step of it that is possible again and again is taken.
FairSpec ==
    /\ Spec
    /\ SF_vars(Main) /\ WF_vars(Take) /\ WF_vars(Count) /\ WF_vars(Edge)

----------------------------------------------------------------------------
(* Properties *)

\* Once PIT_init has run, no byte the speaker code sends stops, slows or
\* reprograms channel 0, the only clock PIT_sleep has, provided interrupts save
\* AL.  (With clobber, 0xB6 may become 0x20, which stops channel 0 for good.)
ClockKeepsRate ==
    ~clobber /\ pc > Len(PIT_init(1000)) =>
        /\ chan[0].live /\ chan[0].mode = 3
        /\ chan[0].reload = BASE_FREQ \div 1000

\* How far a sleep can be cut short by what isr_irq_master and isr_irq_slave do to
\* AL: once in cticks or its copy, and once more in the sum.
Short == IF clobber THEN 2 * (Byte - 1 - Al) ELSE 0

\* PIT_sleep(d) returns only after d - 1 full periods of channel 0: the tick
\* that was already waiting when cticks was set is the only one it may count
\* for less than a period.  Interrupts that do not save AL take 446 more off it
\* (2 * (255 - 32)), however many come.
SleepsLongEnough ==
    [][\A d \in {BeepTicks, GapTicks} :
         pc < Idle /\ kmain[pc] = Wait(d) /\ pc' # pc => elapsed + 1 + Short >= d]_vars

\* Whatever bytes were lost on the way, the speaker is off while kmain pauses
\* and after its last beep.
SilentBetweenBeeps == pc \in {GapWait, Idle} => port61 = {}

\* While kmain sleeps in a tone, the speaker plays channel 2 at the note asked
\* for, provided interrupts save AL.
ToneAsAsked ==
    ~clobber /\ pc = ToneWait =>
        /\ port61 = {0, 1} /\ chan[2].live
        /\ chan[2].reload = BASE_FREQ \div BeepHz

\* Channel 2 is never reprogrammed while the speaker plays it.
NeverRetunedWhileOn == [][chan'[2] # chan[2] => port61 # {0, 1}]_vars

\* If interrupts save AL, kmain gets past its beeps to the idle loop: no
\* PIT_sleep waits for ever.
BeepsEnd == ~clobber => <>(pc = Idle)

\* "Change the c2 f" (pcspkr.c:45): after PCSpkr_set_c2(hz) channel 2 divides
\* the base frequency down to hz.  PCSpkr_tone_off asks for 1 Hz, whose divisor
\* does not fit the 16 bits of the channel.
C2Frequency ==
    pc = GapWait /\ ~clobber => chan[2].reload = BASE_FREQ \div 1
=============================================================================
