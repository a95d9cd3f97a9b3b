------------------------------ MODULE Logging ------------------------------
(***************************************************************************)
(* What the kernel says, on its way to the reader: kmain logs through a    *)
(* serial port it sets up only after its first messages; Serial_write      *)
(* polls the transmitter and sends; an exception may strike at any time    *)
(* once the descriptor table is loaded, logs through the same port, prints *)
(* on the screen, and never returns.                                       *)
(*                                                                         *)
(* Bytes are numbered in the order Serial_write sends them; the port has a *)
(* holding register and a shift register.  A byte arrives if the line kept *)
(* the receiver's settings while it was shifted out.                       *)
(***************************************************************************)
EXTENDS Text

CONSTANT Machines   \* the machines and what the kernel prints on them

Texts == {"before", "after", "panic"}

ASSUME LoggingAssumption ==
    \A m \in Machines :
        /\ m.present \in BOOLEAN /\ m.right \in BOOLEAN /\ m.lidt \in Nat
        /\ \A t \in Texts : m[t] \in Seq({"serial", "screen"})
        /\ \A s \in m.said : \A k \in DOMAIN s.format :
              s.format[k].is \in DOMAIN Base => Argument(s.format, s.args, k) \in Int

VARIABLES
    machine,    \* present: there is a port; right: the firmware left it with
                \* the settings of Serial_init; before and after: where kmain's
                \* characters go, around Serial_init; panic: where the handler's
                \* go; lidt: characters printed before exceptions are handled;
                \* said: the messages
    stage,      \* the text the processor prints, Serial_init ("init") or
                \* VBE_init ("video"); "wild" if it draws through a NULL fb_info
    at,         \* the next character of it, or the next out of Serial_init
    polled,     \* Serial_write has seen the transmitter empty
    screen,     \* fb_info is set
    sent,       \* bytes sent
    thr, tsr,   \* the byte in the holding and in the shift register, or 0
    intact,     \* the settings are right since the shift register was loaded
    line,       \* the divisor and the line control register
    arrived,    \* (history) the bytes received
    mark        \* (history) bytes sent when Serial_init took the line, or -1

cpu == <<stage, at, polled, screen>>
uart == <<thr, tsr, intact, line, arrived>>
vars == <<machine, cpu, sent, uart, mark>>

Settings == [low |-> 3, high |-> 0, control |-> 3]

\* Registers 0 and 1 are the divisor.
dlab == line.control >= 128

Init ==
    /\ machine \in Machines
    /\ stage = "before" /\ at = 1 /\ polled = FALSE /\ screen = FALSE
    /\ sent = 0
    /\ thr = 0 /\ tsr = 0 /\ intact = TRUE
    /\ line = IF machine.right THEN Settings ELSE [Settings EXCEPT !.low = 1]
    /\ arrived = {} /\ mark = -1

----------------------------------------------------------------------------
(* Printing *)

Printing(to) == stage \in Texts /\ at <= Len(machine[stage]) /\ machine[stage][at] = to

\* The test of the wrong bit: data received, and nobody sends any.
PollWrongBit ==
    /\ Printing("serial") /\ ~polled
    /\ polled' = ~machine.present
    /\ UNCHANGED <<machine, stage, at, screen, sent, uart, mark>>

\* No poll at all.
PollNever ==
    /\ Printing("serial") /\ ~polled
    /\ polled' = TRUE
    /\ UNCHANGED <<machine, stage, at, screen, sent, uart, mark>>

\* A round of the loop in Serial_write: is the holding register empty?  Without
\* a port all bits read as 1.
Poll ==
    /\ Printing("serial") /\ ~polled
    /\ polled' = (machine.present => thr = 0)
    /\ UNCHANGED <<machine, stage, at, screen, sent, uart, mark>>

\* IO_outb(PORT, c): into the holding register, or, while the divisor is
\* selected, into its low byte (no character is a 3).
Serial_write ==
    /\ Printing("serial") /\ polled
    /\ at' = at + 1 /\ polled' = FALSE
    /\ sent' = sent + 1
    /\ thr' = IF machine.present /\ ~dlab THEN sent + 1 ELSE thr
    /\ line' = IF machine.present /\ dlab THEN [line EXCEPT !.low = 255] ELSE line
    /\ intact' = (intact /\ ~(machine.present /\ dlab))
    /\ UNCHANGED <<machine, stage, screen, tsr, arrived, mark>>

VBE_put ==
    /\ Printing("screen")
    /\ IF screen THEN at' = at + 1 /\ UNCHANGED stage
       ELSE stage' = "wild" /\ UNCHANGED at
    /\ UNCHANGED <<machine, polled, screen, sent, uart, mark>>

\* kmain goes on to Serial_init, later to the end of its messages; the handler
\* stays in its while (1).
Follows == [before |-> "init", after |-> "done", panic |-> "halted"]

EndText ==
    /\ stage \in Texts /\ at > Len(machine[stage])
    /\ stage' = Follows[stage] /\ at' = 1
    /\ UNCHANGED <<machine, polled, screen, sent, uart, mark>>

----------------------------------------------------------------------------
(* Serial_init *)

\* The divisor left selected.
Serial_initDivisorKept ==
    <<<<1, 0>>, <<3, 128>>, <<0, 3>>, <<1, 0>>, <<3, 131>>, <<2, 199>>, <<4, 11>>>>

\* The registers it writes, as offsets from PORT, with their values.
Serial_init ==
    <<<<1, 0>>, <<3, 128>>, <<0, 3>>, <<1, 0>>, <<3, 3>>, <<2, 199>>, <<4, 11>>>>

\* One of its outs.  Bit 2 of register 2 empties the holding register.
InitOut ==
    /\ stage = "init" /\ at <= Len(Serial_init)
    /\ LET register == Serial_init[at][1]
           value == Serial_init[at][2]
           divisor == dlab /\ register \in {0, 1}
       IN  /\ IF ~machine.present THEN UNCHANGED <<thr, intact, line>>
              ELSE /\ line' = IF register = 3 THEN [line EXCEPT !.control = value]
                              ELSE IF divisor /\ register = 0 THEN [line EXCEPT !.low = value]
                              ELSE IF divisor THEN [line EXCEPT !.high = value] ELSE line
                   /\ intact' = (intact /\ register # 3 /\ ~divisor)
                   /\ thr' = IF register = 2 THEN 0 ELSE thr
           /\ mark' = IF register = 3 THEN sent ELSE mark
    /\ at' = at + 1
    /\ UNCHANGED <<machine, stage, polled, screen, sent, tsr, arrived>>

EndInit ==
    /\ stage = "init" /\ at > Len(Serial_init)
    /\ stage' = "video" /\ at' = 1
    /\ UNCHANGED <<machine, polled, screen, sent, uart, mark>>

\* VBE_init sets fb_info, then logs.
VBE_init ==
    /\ stage = "video"
    /\ stage' = "after" /\ screen' = TRUE
    /\ UNCHANGED <<machine, at, polled, sent, uart, mark>>

----------------------------------------------------------------------------
(* The others *)

\* exception_handler takes over from kmain.
exception_handler ==
    /\ stage \in {"before", "init", "video", "after", "done"}
    /\ stage = "before" => at > machine.lidt
    /\ stage' = "panic" /\ at' = 1 /\ polled' = FALSE
    /\ UNCHANGED <<machine, screen, sent, uart, mark>>

\* The shift register takes the next byte.
Load ==
    /\ tsr = 0 /\ thr # 0
    /\ tsr' = thr /\ thr' = 0
    /\ intact' = (line = Settings)
    /\ UNCHANGED <<machine, cpu, sent, line, arrived, mark>>

\* The last bit of a byte has left.
Transmit ==
    /\ tsr # 0
    /\ tsr' = 0
    /\ arrived' = IF intact THEN arrived \cup {tsr} ELSE arrived
    /\ UNCHANGED <<machine, cpu, sent, thr, intact, line, mark>>

\* kmain beeps and idles; __panic loops for ever, or goes on where nobody knows.
Idle == stage \in {"done", "halted", "wild"} /\ UNCHANGED vars

Processor == Poll \/ Serial_write \/ VBE_put \/ EndText \/ InitOut \/ EndInit \/ VBE_init

Port == Load \/ Transmit

Next ==
    \/ Poll \/ Serial_write \/ VBE_put \/ EndText \/ InitOut \/ EndInit \/ VBE_init
    \/ exception_handler
    \/ Load \/ Transmit
    \/ Idle

Spec == Init /\ [][Next]_vars

\* The processor executes and the port shifts its bits out.
FairSpec == Spec /\ WF_vars(Processor) /\ WF_vars(Port)

----------------------------------------------------------------------------
(* Properties *)

\* The handler struck while Serial_init had the divisor selected: what it logs
\* goes there.
Swallowed == stage \in {"panic", "halted", "wild"} /\ dlab

\* Bytes arrive in the order they were sent.  With a port the firmware left at
\* Serial_init's settings, none is lost but the two in the port when Serial_init
\* takes the line, and the handler's if it strikes in the middle of it; with
\* other settings, none is lost that was sent after Serial_init.
InOrderNothingLost ==
    /\ \A i \in arrived : (tsr # 0 => i < tsr) /\ (thr # 0 => i < thr)
    /\ tsr # 0 /\ thr # 0 => tsr < thr
    /\ machine.present /\ ~Swallowed =>
          \A i \in (1..sent) \ (arrived \cup {tsr, thr}) :
              /\ machine.right => i \in {mark - 1, mark}
              /\ mark # -1 => i <= mark

\* On every machine, with a port or without, whenever the exception strikes,
\* every message leaves the port and is printed to its end: the handler's reach
\* the screen although they go through the port first, unless it struck before
\* VBE_init.
EverythingShown ==
    <>[](/\ stage \in IF screen THEN {"done", "halted"} ELSE {"wild"}
         /\ machine.present => thr = 0 /\ tsr = 0)

\* Each number printed has the digits of its argument, cut to an unsigned int:
\* read in the directive's base they give it back, without leading zeros, and
\* they fit string_convert's buffer.
NumbersDenote ==
    \A m \in machine.said : \A k \in DOMAIN m.format :
        LET base == Base[m.format[k].is]
            arg == Argument(m.format, m.args, k)
            digits == Printed(m.format[k], arg)
        IN  m.format[k].is \in DOMAIN Base =>
                /\ Reads(digits, base) = arg % (UintMax + 1)
                /\ \A j \in DOMAIN digits : digits[j].value \in 0..base - 1
                /\ Len(digits) \in 1..BufferSize - 1
                /\ Len(digits) > 1 => digits[1].value # 0
=============================================================================
