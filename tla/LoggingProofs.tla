---------------------------- MODULE LoggingProofs ----------------------------
(* Which messages reach the reader, for all machines and all messages: the   *)
(* invariant follows the bytes of the port through Serial_init.              *)
EXTENDS Logging, WellFoundedInduction, TLAPS

USE DEF dlab

Stages == Texts \cup {"init", "video", "done", "halted", "wild"}

TypeInv ==
    /\ machine \in Machines
    /\ stage \in Stages /\ at \in Nat \ {0} /\ polled \in BOOLEAN
    /\ sent \in Nat /\ thr \in 0..sent /\ tsr \in 0..sent
    /\ intact \in BOOLEAN
    /\ line \in [low : Nat, high : Nat, control : Nat]
    /\ arrived \subseteq 1..sent
    /\ mark \in Int /\ -1 <= mark /\ mark <= sent

\* The port: nothing without one, and empty when Serial_write may send.
PortInv ==
    /\ ~machine.present => thr = 0 /\ tsr = 0 /\ ~dlab
    /\ polled => Printing("serial") /\ (machine.present => thr = 0)

\* The bytes in the port are the last ones sent, and the ones of Serial_init's
\* time no older than its mark.
Recent ==
    /\ mark = -1 => /\ thr \in {0, sent}
                    /\ tsr \in {0, sent} \/ (tsr = sent - 1 /\ thr = sent)
    /\ mark # -1 => /\ thr # 0 => thr >= mark - 1
                    /\ tsr # 0 => tsr >= mark - 1

\* How far Serial_init is, and what it has made of the line.
Progress ==
    /\ mark = -1 => /\ stage \notin {"video", "after", "done"} /\ ~dlab
                    /\ stage = "init" => at <= 2
                    /\ machine.right => line = Settings
    /\ stage = "before" => mark = -1
    /\ stage = "init" => mark = IF at > 2 THEN sent ELSE -1
    /\ stage = "init" /\ machine.present =>
          /\ dlab <=> at \in 3..5
          /\ at > 3 => line.low = 3
          /\ at > 4 => line.high = 0
    /\ stage \in {"video", "after", "done"} => ~dlab
    /\ machine.present /\ mark # -1 /\ ~dlab => line = Settings

\* The byte in the shift register is whole.
Whole ==
    machine.present /\ tsr # 0 =>
        /\ mark = -1 /\ machine.right => intact
        /\ mark # -1 /\ tsr > mark /\ ~Swallowed => intact

IInv == TypeInv /\ PortInv /\ Recent /\ Progress /\ Whole /\ InOrderNothingLost

-----------------------------------------------------------------------------

\* What the assumption says of one machine.
LEMMA MachineFacts ==
    ASSUME NEW m \in Machines
    PROVE  /\ m.present \in BOOLEAN /\ m.right \in BOOLEAN
           /\ \A t \in Texts : Len(m[t]) \in Nat
BY LoggingAssumption

\* kmain starts within the invariant.
LEMMA InitInv == Init => IInv
<1>1. SUFFICES ASSUME Init PROVE IInv
      OBVIOUS
<1>2. machine.present \in BOOLEAN /\ machine.right \in BOOLEAN
      BY <1>1, MachineFacts DEF Init
<1>3. TypeInv
  <2>1. line \in [low : Nat, high : Nat, control : Nat]
        BY <1>1 DEF Init, Settings
  <2>2. polled \in BOOLEAN /\ intact \in BOOLEAN 
        BY <1>1 DEF Init
  <2>3. stage \in Stages
        BY <1>1 DEF Init, Stages, Texts
  <2>4. mark \in Int /\ -1 <= mark /\ mark <= sent
        BY <1>1 DEF Init
  <2>5. sent \in Nat /\ thr \in 0..sent /\ tsr \in 0..sent /\ arrived \subseteq 1..sent
        BY <1>1 DEF Init
  <2> QED BY <1>1, <2>1, <2>2, <2>3, <2>4, <2>5 DEF Init, TypeInv
<1>4. PortInv /\ Recent /\ Progress /\ Whole
  <2>1. line.control = 3 /\ (machine.right => line = Settings)
        BY <1>1 DEF Init, Settings
  <2> QED BY <1>1, <1>2, <2>1 DEF Init, PortInv, Recent, Progress, Whole, Texts
<1>5. InOrderNothingLost
      BY <1>1 DEF Init, InOrderNothingLost
<1> QED BY <1>3, <1>4, <1>5 DEF IInv

\* A round of Serial_write's loop and the steps that only move the processor on.
LEMMA ProcessorInv ==
    IInv /\ (Poll \/ VBE_put \/ EndText \/ EndInit \/ VBE_init
            \/ exception_handler) => IInv'
<1> USE DEF IInv, uart
<1>1. ASSUME IInv, Poll PROVE IInv'
      BY <1>1 DEF Poll, Printing, TypeInv, PortInv, Recent, Progress, Whole,
                  InOrderNothingLost, Swallowed
<1>2. ASSUME IInv, VBE_put PROVE IInv'
  <2>1. /\ ~polled
        /\ \/ stage' = stage /\ at' = at + 1
           \/ stage' = "wild" /\ at' = at
        /\ stage \in Texts /\ UNCHANGED <<machine, polled, sent, uart, mark>>
        BY <1>2 DEF VBE_put, Printing, PortInv, TypeInv
  <2>2. TypeInv' /\ PortInv' /\ Recent'
        BY <1>2, <2>1 DEF TypeInv, PortInv, Recent, Stages
  <2>3. Progress' /\ Whole'
        BY <1>2, <2>1 DEF TypeInv, Progress, Whole, Swallowed, Texts
  <2>4. InOrderNothingLost'
        BY <1>2, <2>1 DEF InOrderNothingLost, Swallowed, Texts
  <2> QED BY <2>2, <2>3, <2>4
<1>3. ASSUME IInv, EndText PROVE IInv'
  <2>1. \/ stage = "before" /\ stage' = "init"
        \/ stage = "after" /\ stage' = "done"
        \/ stage = "panic" /\ stage' = "halted"
        BY <1>3 DEF EndText, Texts, Follows
  <2>2. at' = 1 /\ UNCHANGED <<machine, polled, sent, uart, mark>>
        BY <1>3 DEF EndText
  <2>3. ~polled
        BY <1>3, MachineFacts DEF EndText, PortInv, Printing, TypeInv
  <2>4. TypeInv' /\ PortInv'
        BY <1>3, <2>1, <2>2, <2>3 DEF TypeInv, PortInv, Stages, Texts
  <2> QED BY <1>3, <2>1, <2>2, <2>4 DEF TypeInv, Recent, Progress, Whole,
             InOrderNothingLost, Swallowed
<1>4. ASSUME IInv, EndInit PROVE IInv'
      BY <1>4 DEF EndInit, Serial_init, TypeInv, PortInv, Printing, Recent, Progress, Whole,
                  InOrderNothingLost, Swallowed, Texts, Stages
<1>5. ASSUME IInv, exception_handler PROVE IInv'
  <2>1. TypeInv'
    <3>1. stage' \in Stages /\ at' \in Nat \ {0}
          BY <1>5 DEF exception_handler, Texts, Stages
    <3>2. polled' \in BOOLEAN
          BY <1>5 DEF exception_handler
    <3> QED BY <1>5, <3>1, <3>2 DEF exception_handler, TypeInv
  <2>4. PortInv'
        BY <1>5 DEF exception_handler, PortInv
  <2>5. Recent'
        BY <1>5 DEF exception_handler, Recent
  <2>2. Progress' /\ Whole'
        BY <1>5 DEF exception_handler, TypeInv, Progress, Whole, Swallowed
  <2>3. InOrderNothingLost'
        BY <1>5 DEF exception_handler, InOrderNothingLost, Swallowed
  <2> QED BY <2>1, <2>2, <2>3, <2>4, <2>5
<1>6. ASSUME IInv, VBE_init PROVE IInv'
      BY <1>6 DEF VBE_init, TypeInv, PortInv, Printing, Recent, Progress, Whole,
                  InOrderNothingLost, Swallowed, Texts, Stages
<1> QED BY <1>1, <1>2, <1>3, <1>4, <1>5, <1>6

\* Serial_write keeps the invariant.
LEMMA SendInv == IInv /\ Serial_write => IInv'
<1>1. SUFFICES ASSUME IInv, Serial_write PROVE IInv'
      OBVIOUS
<1> USE <1>1 DEF IInv, Serial_write, Printing
<1>2. machine.present \in BOOLEAN /\ machine.right \in BOOLEAN
      BY MachineFacts DEF TypeInv
<1>3. machine.present => thr = 0
      BY DEF PortInv
<1>4. TypeInv'
  <2>1. line' \in [low : Nat, high : Nat, control : Nat]
    <3>1. line \in [low : Nat, high : Nat, control : Nat]
          BY DEF TypeInv
    <3>2. line' = line \/ line' = [line EXCEPT !.low = 255]
          OBVIOUS
    <3> QED BY ONLY <3>1, <3>2
  <2>2. intact' \in BOOLEAN
        OBVIOUS
  <2>5. at' \in Nat \ {0} /\ stage' \in Stages
        BY SMTT(20) DEF TypeInv
  <2>6. polled' \in BOOLEAN
        OBVIOUS
  <2>3. sent' \in Nat /\ thr' \in 0..sent' /\ tsr' \in 0..sent'
        BY SMTT(20) DEF TypeInv
  <2>4. arrived' \subseteq 1..sent' /\ mark' \in Int /\ -1 <= mark' /\ mark' <= sent'
        BY SMTT(20) DEF TypeInv
  <2> QED BY <1>2, <2>1, <2>2, <2>3, <2>4, <2>5, <2>6 DEF TypeInv
<1>5. PortInv' /\ Recent'
  <2>1. PortInv'
        BY <1>2, <1>3 DEF TypeInv, PortInv
  <2>2. Recent'
        BY SMTT(20), <1>2, <1>3, <1>4 DEF TypeInv, PortInv, Recent, Progress
  <2> QED BY <2>1, <2>2
<1>6. Progress'
      BY <1>2 DEF TypeInv, Progress, PortInv, Texts
<1>7. Whole'
      BY <1>2 DEF TypeInv, PortInv, Whole, Swallowed, Progress, Texts
<1>8. InOrderNothingLost'
  <2>1. (\A i \in arrived : (tsr # 0 => i < tsr) /\ (thr # 0 => i < thr))'
        BY DEF TypeInv, InOrderNothingLost
  <2>2. (tsr # 0 /\ thr # 0 => tsr < thr)'
        BY DEF TypeInv, InOrderNothingLost
  <2>3. ASSUME (machine.present /\ ~Swallowed)',
               NEW i \in ((1..sent) \ (arrived \cup {tsr, thr}))'
        PROVE  (machine.right => i \in {mark - 1, mark})' /\ (mark # -1 => i <= mark)'
    <3>1. ~dlab
          BY <2>3 DEF Swallowed, Progress, Texts
    <3>2. i \in (1..sent) \ (arrived \cup {tsr, thr})
      <4>1. i \in 1..sent' /\ i \notin arrived' /\ i # tsr' /\ i # thr'
            BY <2>3
      <4> QED BY <1>3, <2>3, <3>1, <4>1 DEF TypeInv
    <3> QED BY <2>3, <3>2 DEF InOrderNothingLost, Swallowed
  <2> QED BY <2>1, <2>2, <2>3 DEF InOrderNothingLost
<1> QED BY <1>4, <1>5, <1>6, <1>7, <1>8

\* The port keeps the invariant.
LEMMA PortStepInv == IInv /\ Port => IInv'
<1> USE DEF IInv, cpu
<1>1. ASSUME IInv, Load PROVE IInv'
  <2>1. TypeInv' /\ PortInv' /\ Recent' /\ Progress'
        BY <1>1 DEF Load, TypeInv, PortInv, Printing, Recent, Progress
  <2>2. Whole'
    <3>1. ASSUME machine.present, mark = -1, machine.right PROVE intact'
          BY <1>1, <3>1 DEF Load, Progress
    <3>2. ASSUME machine.present, mark # -1, thr > mark, ~Swallowed PROVE intact'
      <4>1. ~(stage = "init" /\ at > 2)
            BY <1>1, <3>2 DEF TypeInv, Progress
      <4>2. ~dlab
            BY <1>1, <3>2, <4>1 DEF TypeInv, Progress, Swallowed, Texts, Stages
      <4> QED BY <1>1, <3>2, <4>2 DEF Load, Progress
    <3> QED BY <1>1, <3>1, <3>2 DEF Load, Whole, Swallowed
  <2>3. InOrderNothingLost'
        BY <1>1 DEF Load, TypeInv, InOrderNothingLost, Swallowed
  <2> QED BY <2>1, <2>2, <2>3
<1>2. ASSUME IInv, Transmit PROVE IInv'
  <2>1. TypeInv' /\ PortInv' /\ Recent' /\ Progress' /\ Whole'
        BY <1>2 DEF Transmit, TypeInv, PortInv, Printing, Recent, Progress, Whole
  <2>2. InOrderNothingLost'
    <3>1. (\A i \in arrived : (tsr # 0 => i < tsr) /\ (thr # 0 => i < thr))'
          BY <1>2 DEF Transmit, TypeInv, InOrderNothingLost
    <3>2. ASSUME (machine.present /\ ~Swallowed)',
                 NEW i \in ((1..sent) \ (arrived \cup {tsr, thr}))'
          PROVE  (machine.right => i \in {mark - 1, mark})' /\ (mark # -1 => i <= mark)'
      <4>1. CASE i = tsr
            BY <1>2, <3>2, <4>1 DEF Transmit, TypeInv, Whole, Recent, Swallowed
      <4>2. CASE i # tsr
            BY <1>2, <3>2, <4>2 DEF Transmit, TypeInv, InOrderNothingLost, Swallowed
      <4> QED BY <4>1, <4>2
    <3> QED BY <1>2, <3>1, <3>2 DEF Transmit, InOrderNothingLost
  <2> QED BY <2>1, <2>2
<1> QED BY <1>1, <1>2 DEF Port

\* One out of Serial_init at a time.
LEMMA InitOutInv == IInv /\ InitOut => IInv'
<1>1. SUFFICES ASSUME IInv, InitOut PROVE IInv'
      OBVIOUS
<1> USE <1>1 DEF IInv
<1>2. machine.present \in BOOLEAN /\ machine.right \in BOOLEAN
      BY MachineFacts DEF TypeInv
<1>3. at \in 1..7
      BY DEF InitOut, Serial_init, TypeInv
<1>4. /\ stage = "init" /\ stage' = stage /\ at' = at + 1
      /\ UNCHANGED <<machine, polled, sent, tsr, arrived>>
      BY DEF InitOut
<1>5. CASE at = 1
  <2>1. UNCHANGED <<thr, intact, line, mark>>
        BY <1>5, <1>2 DEF InitOut, Serial_init, Progress, PortInv, TypeInv
  <2> QED BY <1>2, <1>4, <1>5, <2>1 DEF TypeInv, PortInv, Printing, Recent, Progress, Whole,
             InOrderNothingLost, Swallowed, Texts
<1>6. CASE at = 2
  <2>1. thr' = thr /\ mark' = sent
        BY <1>6 DEF InitOut, Serial_init
  <2>2. ~machine.present => UNCHANGED <<intact, line>>
        BY <1>6 DEF InitOut, Serial_init
  <2>4. machine.present => intact' = FALSE
        BY <1>6 DEF InitOut, Serial_init
  <2>5. machine.present => line' = [line EXCEPT !.control = 128]
        BY <1>6 DEF InitOut, Serial_init
  <2>6. machine.present => line' \in [low : Nat, high : Nat, control : Nat]
        BY <2>5 DEF TypeInv
  <2>7. TypeInv' /\ PortInv' /\ Recent'
    <3>1. line' \in [low : Nat, high : Nat, control : Nat] /\ intact' \in BOOLEAN
          BY <1>2, <2>2, <2>4, <2>6 DEF TypeInv
    <3>2. TypeInv'
          BY <1>2, <1>4, <1>6, <2>1, <3>1 DEF TypeInv
    <3>3. PortInv' /\ Recent'
          BY <1>2, <1>4, <1>6, <2>1, <2>2 DEF TypeInv, PortInv, Printing, Recent,
             Progress, Texts
    <3> QED BY <3>2, <3>3
  <2>8. machine.present => line'.control = 128
        BY <2>5 DEF TypeInv
  <2>9. Progress' /\ Whole'
        BY <1>2, <1>4, <1>6, <2>1, <2>2, <2>4, <2>8 DEF TypeInv, PortInv, Progress, Whole
  <2>10. InOrderNothingLost'
    <3>1. mark = -1 /\ ~Swallowed
          BY <1>4, <1>6 DEF TypeInv, Progress, PortInv, Swallowed
    <3>2. ASSUME machine.present, NEW i \in (1..sent) \ (arrived \cup {tsr, thr})
          PROVE  (machine.right => i \in {sent - 1, sent}) /\ i <= sent
          BY <3>1, <3>2 DEF TypeInv, InOrderNothingLost
    <3> QED BY <1>4, <2>1, <3>2 DEF InOrderNothingLost
  <2> QED BY <2>7, <2>9, <2>10
<1>7. CASE at \in {3, 4}
  <2>1. UNCHANGED <<thr, mark>>
        BY <1>7, <1>2 DEF InitOut, Serial_init
  <2>2. intact' \in BOOLEAN
        BY <1>7, <1>2 DEF InitOut, Serial_init, TypeInv
  <2>3. ~machine.present => UNCHANGED <<intact, line>>
        BY <1>7 DEF InitOut, Serial_init
  <2>4. machine.present /\ at = 3 => line' = [line EXCEPT !.low = 3]
        BY <1>7 DEF InitOut, Serial_init, Progress
  <2>5. machine.present /\ at = 4 => line' = [line EXCEPT !.high = 0]
        BY <1>7 DEF InitOut, Serial_init, Progress
  <2> QED BY <1>2, <1>4, <1>7, <2>1, <2>2, <2>3, <2>4, <2>5 DEF TypeInv, PortInv,
             Printing, Recent, Progress, Whole, InOrderNothingLost, Swallowed, Texts
<1>8. CASE at = 5
  <2>1. thr' = thr /\ mark' = sent /\ mark = sent
        BY <1>4, <1>8 DEF InitOut, Serial_init, Progress
  <2>2. ~machine.present => UNCHANGED <<intact, line>>
        BY <1>8 DEF InitOut, Serial_init
  <2>4. machine.present => intact' = FALSE
        BY <1>8 DEF InitOut, Serial_init
  <2>5. machine.present => line' = [line EXCEPT !.control = 3]
        BY <1>8 DEF InitOut, Serial_init
  <2>6. machine.present => line' = Settings
        BY <1>4, <1>8, <2>5 DEF Progress, TypeInv, Settings
  <2>7. TypeInv'
    <3>1. line' \in [low : Nat, high : Nat, control : Nat]
          BY <2>2, <2>6 DEF TypeInv, Settings
    <3>2. intact' \in BOOLEAN
          BY <1>2, <2>2, <2>4 DEF TypeInv
    <3> QED BY <1>4, <2>1, <3>1, <3>2 DEF TypeInv
  <2>8. PortInv' /\ Recent' /\ Progress' /\ Whole'
        BY <1>2, <1>4, <1>8, <2>1, <2>2, <2>4, <2>6 DEF TypeInv, PortInv, Printing,
           Recent, Progress, Whole, Settings, Texts
  <2>9. InOrderNothingLost'
        BY <1>2, <1>4, <1>8, <2>1 DEF TypeInv, InOrderNothingLost, Swallowed
  <2> QED BY <2>7, <2>8, <2>9
<1>9. CASE at \in {6, 7}
  <2>1. UNCHANGED <<intact, line, mark>>
        BY <1>2, <1>9 DEF InitOut, Serial_init, TypeInv
  <2>2. thr' \in {0, thr} /\ mark = sent
        BY <1>2, <1>4, <1>9 DEF InitOut, Serial_init, Progress
  <2>3. TypeInv' /\ PortInv' /\ Recent' /\ Progress' /\ Whole'
        BY <1>2, <1>4, <1>9, <2>1, <2>2 DEF TypeInv, PortInv, Printing, Recent, Progress,
           Whole, Swallowed, Texts
  <2>4. InOrderNothingLost'
    <3>1. ASSUME machine.present,
                 NEW i \in ((1..sent) \ (arrived \cup {tsr, thr}))'
          PROVE  (machine.right => i \in {mark - 1, mark}) /\ (mark # -1 => i <= mark)
      <4>1. CASE i = thr
            BY <1>4, <2>2, <3>1, <4>1 DEF TypeInv, Recent
      <4>2. CASE i # thr
            BY <1>4, <2>2, <3>1, <4>2 DEF TypeInv, InOrderNothingLost, Swallowed
      <4> QED BY <4>1, <4>2
    <3> QED BY <1>4, <2>1, <2>2, <3>1 DEF TypeInv, InOrderNothingLost, Swallowed
  <2> QED BY <2>3, <2>4
<1> QED BY <1>3, <1>5, <1>6, <1>7, <1>8, <1>9

\* Every step keeps the invariant, one case per action.
LEMMA StepInv == IInv /\ [Next]_vars => IInv'
<1>1. CASE UNCHANGED vars
      BY <1>1 DEF vars, cpu, uart, IInv, TypeInv, PortInv, Printing, Recent, Progress, Whole,
                  InOrderNothingLost, Swallowed
<1> QED BY <1>1, ProcessorInv, SendInv, PortStepInv, InitOutInv DEF Next, Port, Idle

\* Whatever the kernel prints, whatever the firmware left in the port and
\* whenever an exception strikes, bytes arrive in order, and only those in the
\* port when Serial_init takes the line, or logged into the divisor, are lost.
THEOREM MessagesArrive == Spec => []InOrderNothingLost
<1>1. IInv => InOrderNothingLost
      BY DEF IInv
<1> QED BY <1>1, InitInv, StepInv, PTL DEF Spec

-----------------------------------------------------------------------------
(* The digits of a number.  No induction theorem of the library can be used,  *)
(* as they take the property as an operator: SetInduction takes it as a set.   *)

\* Induction over the natural numbers, with a set for the property.
LEMMA SetInduction ==
    ASSUME NEW S, \A n \in Nat : (\A m \in 0..n - 1 : m \in S) => n \in S
    PROVE  Nat \subseteq S
<1> DEFINE Below == {p \in Nat \X Nat : p[1] < p[2]}
<1>1. OpToRel(<, Nat) = Below
  BY Zenon DEF OpToRel
<1>2. IsWellFoundedOn(Below, Nat)
  BY <1>1, NatLessThanWellFounded, Zenon
<1> SUFFICES ASSUME Nat \ S # {}
             PROVE  FALSE
  OBVIOUS
<1>3. PICK n \in Nat \ S : \A m \in Nat \ S : ~(<<m, n>> \in Below)
  <2> HIDE DEF Below
  <2>. QED
    BY <1>2, WFMin, Zenon
<1>4. ASSUME NEW m \in 0..n - 1
      PROVE  m \in S
  <2>1. m \in Nat /\ n \in Nat /\ m < n
    OBVIOUS
  <2>2. <<m, n>> \in Below
    BY <2>1, Zenon
  <2>. QED
    BY <1>3, <2>1, <2>2, Zenon
<1>. QED
  BY <1>4

Bases == {8, 10, 16}

\* digits is the function string_convert defines for num.
Converts(digits, num, base) ==
    digits = [m \in 0..num |->
                 IF m < base THEN <<Digit(m)>>
                 ELSE Append(digits[m \div base], Digit(m % base))]

\* number is the function Reads defines for s.
Values(number, s, base) ==
    number = [k \in 0..Len(s) |->
                 IF k = 0 THEN 0 ELSE number[k - 1] * base + s[k].value]

\* Dividing by the base leaves a smaller number.
LEMMA Division ==
    ASSUME NEW base \in Bases, NEW m \in Nat
    PROVE  /\ m \div base \in Nat /\ m % base \in 0..base - 1
           /\ m = (m \div base) * base + (m % base)
           /\ m >= base => m \div base < m /\ m \div base > 0
<1>1. CASE base = 8
  BY <1>1
<1>2. CASE base = 10
  BY <1>2
<1>3. CASE base = 16
  BY <1>3
<1>. QED
  BY <1>1, <1>2, <1>3 DEF Bases

\* The recursion of string_convert defines a function.
LEMMA ConvertsExists ==
    ASSUME NEW base \in Bases
    PROVE  \A num \in Nat : \E digits : Converts(digits, num, base)
<1> DEFINE S == {n \in Nat : \E digits : Converts(digits, n, base)}
<1>1. ASSUME NEW n \in Nat, \A m \in 0..n - 1 : m \in S
      PROVE  \E digits : Converts(digits, n, base)
  <2>1. CASE n < base
    <3> DEFINE f == [m \in 0..n |-> <<Digit(m)>>]
    <3>1. \A m \in 0..n : m < base
      BY <2>1 DEF Bases
    <3>2. f = [m \in 0..n |-> IF m < base THEN <<Digit(m)>>
                              ELSE Append(f[m \div base], Digit(m % base))]
      BY <3>1, Zenon
    <3>. QED
      BY <3>2, Zenon DEF Converts
  <2>2. CASE n >= base
    <3>1. n - 1 \in 0..n - 1 /\ base \in Nat
      BY <2>2 DEF Bases
    <3>2. PICK g : Converts(g, n - 1, base)
      BY <1>1, <3>1
    <3> DEFINE f == [m \in 0..n |->
                        IF m < n THEN g[m]
                        ELSE Append(g[n \div base], Digit(n % base))]
    <3>3. ASSUME NEW m \in 0..n
          PROVE  f[m] = IF m < base THEN <<Digit(m)>>
                        ELSE Append(f[m \div base], Digit(m % base))
      <4>1. m >= base => m \div base \in 0..n - 1 /\ m \div base \in 0..n /\ m \div base < n
        BY Division
      <4>2. CASE m < n
        <5>1. m \in 0..n - 1
          BY <4>2
        <5>2. g[m] = IF m < base THEN <<Digit(m)>>
                     ELSE Append(g[m \div base], Digit(m % base))
          BY <3>2, <5>1 DEF Converts
        <5>3. f[m] = g[m] /\ (m >= base => f[m \div base] = g[m \div base])
          BY <4>1, <4>2
        <5>4. m < base \/ m >= base
          BY <3>1
        <5> HIDE DEF f
        <5>. QED
          BY <5>2, <5>3, <5>4, <3>1
      <4>3. CASE m = n
        <5>1. f[m] = Append(g[n \div base], Digit(n % base))
          BY <4>3
        <5>2. f[m \div base] = g[n \div base]
          BY <4>1, <4>3, <2>2
        <5> HIDE DEF f
        <5>. QED
          BY <5>1, <5>2, <4>3, <2>2, <3>1
      <4>. QED
        BY <4>2, <4>3
    <3>4. f = [m \in 0..n |-> IF m < base THEN <<Digit(m)>>
                              ELSE Append(f[m \div base], Digit(m % base))]
      BY <3>3, Zenon
    <3>. QED
      BY <3>4, Zenon DEF Converts
  <2>. QED
    BY <2>1, <2>2 DEF Bases
<1>2. Nat \subseteq S
  BY <1>1, SetInduction
<1>. QED
  BY <1>2

\* string_convert's result is the last value of the function it defines.
LEMMA StringConvert ==
    ASSUME NEW base \in Bases, NEW num \in Nat
    PROVE  \E digits : Converts(digits, num, base) /\ string_convert(num, base) = digits[num]
<1> DEFINE d == CHOOSE f : Converts(f, num, base)
<1>1. Converts(d, num, base)
  BY ConvertsExists, Zenon
<1>2. string_convert(num, base) = d[num]
  BY Zenon DEF string_convert, Converts
<1>. QED
  BY <1>1, <1>2, Zenon

Digits == [is : {"digit"}, value : Nat]

\* What is to be shown of the digits of m.
Denotes(s, m, base) ==
    /\ s \in Seq(Digits) /\ Len(s) > 0
    /\ \A j \in DOMAIN s : s[j].value \in 0..base - 1
    /\ m # 0 => s[1].value # 0
    /\ Len(s) > 1 => m # 0
    /\ \E number : Values(number, s, base) /\ number[Len(s)] = m

\* A number below the base is its own digit.
LEMMA OneDigit ==
    ASSUME NEW base \in Bases, NEW m \in Nat, m < base
    PROVE  Denotes(<<Digit(m)>>, m, base)
<1> DEFINE s == <<Digit(m)>>
           number == [k \in 0..1 |-> IF k = 0 THEN 0 ELSE m]
<1>1. /\ s \in Seq(Digits) /\ Len(s) = 1 /\ DOMAIN s = {1}
      /\ s[1].value = m /\ m \in 0..base - 1
  BY DEF Digit, Digits, Bases
<1>2. number = [k \in 0..Len(s) |-> IF k = 0 THEN 0 ELSE number[k - 1] * base + s[k].value]
  <2>1. \A k \in 0..1 :
           number[k] = IF k = 0 THEN 0 ELSE number[k - 1] * base + s[k].value
    <3>1. number[0] = 0 /\ number[1] = m /\ 0 * base + m = m
      BY DEF Bases
    <3> HIDE DEF number
    <3>. QED
      BY <1>1, <3>1
  <2> HIDE DEF s
  <2>2. Len(s) = 1
    BY <1>1
  <2>. QED
    BY <2>1, <2>2, Zenon
<1>3. Values(number, s, base) /\ number[Len(s)] = m
  <2>1. number[1] = m
    OBVIOUS
  <2> HIDE DEF number, s
  <2>. QED
    BY <1>1, <1>2, <2>1 DEF Values
<1> HIDE DEF s, number
<1>. QED
  BY <1>1, <1>3 DEF Denotes, s

\* A digit behind those of q makes them those of q * base and it.
LEMMA OneMoreDigit ==
    ASSUME NEW base \in Bases, NEW q \in Nat \ {0}, NEW r \in 0..base - 1,
           NEW s, Denotes(s, q, base)
    PROVE  Denotes(Append(s, Digit(r)), q * base + r, base)
<1> DEFINE t == Append(s, Digit(r))
<1>1. /\ s \in Seq(Digits) /\ Len(s) > 0 /\ Len(s) \in Nat
      /\ \A j \in DOMAIN s : s[j].value \in 0..base - 1
      /\ s[1].value # 0
  BY DEF Denotes
<1>2. Digit(r) \in Digits /\ Digit(r).value = r
  BY DEF Digit, Digits, Bases
<1>3. /\ t \in Seq(Digits) /\ Len(t) = Len(s) + 1
      /\ \A j \in 1..Len(s) : t[j] = s[j]
      /\ t[Len(s) + 1] = Digit(r)
  BY <1>1, <1>2
<1> HIDE DEF t
<1>4. DOMAIN t = 1..Len(s) + 1 /\ DOMAIN s = 1..Len(s)
  BY <1>1, <1>3
<1>5. q * base + r \in Nat \ {0}
  BY DEF Bases
<1>6. \A j \in DOMAIN t : t[j].value \in 0..base - 1
  <2>1. \A j \in DOMAIN t : j \in DOMAIN s \/ j = Len(s) + 1
    BY <1>1, <1>4
  <2>. QED
    BY <1>1, <1>2, <1>3, <1>4, <2>1
<1>7. t[1] = s[1]
  BY <1>1, <1>3
<1>8. PICK old : Values(old, s, base) /\ old[Len(s)] = q
  BY DEF Denotes
<1> DEFINE number == [k \in 0..Len(t) |-> IF k <= Len(s) THEN old[k] ELSE q * base + r]
<1>9. ASSUME NEW k \in 0..Len(t)
      PROVE  number[k] = IF k = 0 THEN 0 ELSE number[k - 1] * base + t[k].value
  <2>1. CASE k <= Len(s)
    <3>1. k \in 0..Len(s) /\ (k # 0 => k - 1 \in 0..Len(s) /\ k - 1 \in 0..Len(t))
      BY <1>1, <1>3, <2>1
    <3>2. old[k] = IF k = 0 THEN 0 ELSE old[k - 1] * base + s[k].value
      BY <1>8, <3>1 DEF Values
    <3>3. number[k] = old[k] /\ (k # 0 => number[k - 1] = old[k - 1])
      BY <1>1, <2>1, <3>1
    <3>4. k # 0 => t[k] = s[k]
      BY <1>3, <3>1
    <3> HIDE DEF number
    <3>. QED
      BY <3>2, <3>3, <3>4
  <2>2. CASE k = Len(s) + 1
    <3>1. number[k] = q * base + r /\ number[k - 1] = q /\ k # 0
      BY <1>1, <1>3, <1>8, <2>2
    <3>2. t[k].value = r
      BY <1>2, <1>3, <2>2
    <3> HIDE DEF number
    <3>. QED
      BY <3>1, <3>2
  <2>. QED
    BY <1>1, <1>3, <2>1, <2>2
<1>10. Values(number, t, base)
  <2>1. number = [k \in 0..Len(t) |->
                     IF k = 0 THEN 0 ELSE number[k - 1] * base + t[k].value]
    BY <1>9, Zenon
  <2>. QED
    BY <2>1, Zenon DEF Values
<1>11. number[Len(t)] = q * base + r
  BY <1>1, <1>3
<1>12. Denotes(t, q * base + r, base)
  <2> HIDE DEF number
  <2>. QED
    BY <1>1, <1>3, <1>5, <1>6, <1>7, <1>10, <1>11 DEF Denotes
<1>. QED
  BY <1>12 DEF t

\* Every number below num is denoted by its digits.
LEMMA AllDenote ==
    ASSUME NEW base \in Bases, NEW num \in Nat, NEW digits, Converts(digits, num, base)
    PROVE  \A m \in 0..num : Denotes(digits[m], m, base)
<1> DEFINE S == {m \in Nat : m <= num => Denotes(digits[m], m, base)}
<1>1. ASSUME NEW m \in Nat, \A k \in 0..m - 1 : k \in S, m <= num
      PROVE  Denotes(digits[m], m, base)
  <2>1. digits[m] = IF m < base THEN <<Digit(m)>>
                    ELSE Append(digits[m \div base], Digit(m % base))
    <3>1. m \in 0..num
      BY <1>1
    <3>. QED
      BY <3>1 DEF Converts
  <2>2. CASE m < base
    BY <2>1, <2>2, OneDigit
  <2>3. CASE m >= base
    <3>1. /\ m \div base \in 0..m - 1 /\ m \div base \in Nat \ {0}
          /\ m % base \in 0..base - 1
          /\ m = (m \div base) * base + (m % base)
      BY <2>3, Division
    <3>2. Denotes(digits[m \div base], m \div base, base)
      BY <1>1, <3>1
    <3>3. Denotes(Append(digits[m \div base], Digit(m % base)),
                  (m \div base) * base + (m % base), base)
      BY <3>1, <3>2, OneMoreDigit
    <3>4. ~(m < base)
      BY <2>3 DEF Bases
    <3>. QED
      BY <2>1, <3>1, <3>3, <3>4
  <2>. QED
    BY <2>2, <2>3 DEF Bases
<1>2. Nat \subseteq S
  BY <1>1, SetInduction
<1>. QED
  BY <1>2

\* Two functions Reads could define are the same.
LEMMA ReadsUnique ==
    ASSUME NEW s, Len(s) \in Nat, NEW base, NEW a, NEW b,
           Values(a, s, base), Values(b, s, base)
    PROVE  a[Len(s)] = b[Len(s)]
<1> DEFINE S == {k \in Nat : k <= Len(s) => a[k] = b[k]}
<1>1. ASSUME NEW k \in Nat, \A j \in 0..k - 1 : j \in S, k <= Len(s)
      PROVE  a[k] = b[k]
  <2>1. k # 0 => k - 1 \in 0..k - 1 /\ k - 1 <= Len(s)
    BY <1>1
  <2>2. k # 0 => a[k - 1] = b[k - 1]
    BY <1>1, <2>1
  <2>3. /\ a[k] = IF k = 0 THEN 0 ELSE a[k - 1] * base + s[k].value
        /\ b[k] = IF k = 0 THEN 0 ELSE b[k - 1] * base + s[k].value
    BY <1>1 DEF Values
  <2>. QED
    BY <2>2, <2>3
<1>2. ASSUME NEW k \in Nat, \A j \in 0..k - 1 : j \in S
      PROVE  k \in S
  BY <1>1, <1>2
<1>3. Nat \subseteq S
  <2> HIDE DEF S
  <2>. QED
    BY <1>2, SetInduction
<1>. QED
  BY <1>3

\* Reads gives back the number digits denote.
LEMMA ReadsDenoted ==
    ASSUME NEW base, NEW m, NEW s, Denotes(s, m, base)
    PROVE  Reads(s, base) = m
<1> DEFINE n == CHOOSE f : Values(f, s, base)
<1>1. PICK number : Values(number, s, base) /\ number[Len(s)] = m
  BY DEF Denotes
<1>2. Values(n, s, base)
  BY <1>1, Zenon
<1>3. Reads(s, base) = n[Len(s)]
  BY Zenon DEF Reads, Values
<1>4. Len(s) \in Nat
  BY DEF Denotes
<1>. QED
  BY <1>1, <1>2, <1>3, <1>4, ReadsUnique

\* A smaller number in a larger base has no more digits.
LEMMA NoLonger ==
    ASSUME NEW base \in Bases, NEW num \in Nat, NEW d, Converts(d, num, base),
           NEW max \in Nat, NEW e, Converts(e, max, 8)
    PROVE  \A k \in 0..max : \A m \in 0..num : m <= k => Len(d[m]) <= Len(e[k])
<1>0. 8 \in Bases /\ base >= 8 /\ base \in Nat
  BY DEF Bases
<1> DEFINE S == {k \in Nat : k <= max =>
                    \A m \in 0..num : m <= k => Len(d[m]) <= Len(e[k])}
<1>1. ASSUME NEW k \in Nat, \A j \in 0..k - 1 : j \in S, k <= max,
             NEW m \in 0..num, m <= k
      PROVE  Len(d[m]) <= Len(e[k])
  <2>1. e[k] \in Seq(Digits) /\ Len(e[k]) > 0
    BY <1>0, <1>1, AllDenote DEF Denotes
  <2>2. d[m] = IF m < base THEN <<Digit(m)>>
               ELSE Append(d[m \div base], Digit(m % base))
    BY DEF Converts
  <2>3. CASE m < base
    <3>1. d[m] = <<Digit(m)>>
      BY <2>2, <2>3
    <3>2. Len(<<Digit(m)>>) = 1
      OBVIOUS
    <3>3. Len(e[k]) \in Nat
      BY <2>1
    <3>. QED
      BY <2>1, <3>1, <3>2, <3>3
  <2>4. CASE m >= base
    <3>1. /\ k >= 8 /\ k \div 8 \in 0..k - 1 /\ k \div 8 <= max
          /\ m \div base \in 0..num
      <4>1. k >= 8 /\ m \in Nat /\ m <= num
        BY <1>0, <1>1, <2>4
      <4>2. k \div 8 \in Nat /\ k \div 8 < k
        BY <4>1
      <4>3. m \div base \in Nat /\ m \div base < m
        BY <2>4, <4>1, Division
      <4>. QED
        BY <1>1, <4>1, <4>2, <4>3
    <3>2. m \div base <= k \div 8
      <4>1. CASE base = 8
        BY <1>1, <4>1
      <4>2. CASE base = 10
        BY <1>1, <4>2
      <4>3. CASE base = 16
        BY <1>1, <4>3
      <4>. QED
        BY <4>1, <4>2, <4>3 DEF Bases
    <3>3. Len(d[m \div base]) <= Len(e[k \div 8])
      BY <1>1, <3>1, <3>2
    <3>4. e[k] = Append(e[k \div 8], Digit(k % 8)) /\ k \div 8 \in 0..max
      <4>1. k \in 0..max /\ ~(k < 8) /\ k \div 8 \in 0..max
        BY <1>1, <3>1
      <4>2. e[k] = IF k < 8 THEN <<Digit(k)>> ELSE Append(e[k \div 8], Digit(k % 8))
        BY <4>1 DEF Converts
      <4>. QED
        BY <4>1, <4>2
    <3>5. d[m] = Append(d[m \div base], Digit(m % base))
      BY <1>0, <2>2, <2>4
    <3>6. e[k \div 8] \in Seq(Digits) /\ d[m \div base] \in Seq(Digits)
      BY <1>0, <3>1, <3>4, AllDenote DEF Denotes
    <3>7. Len(e[k]) = Len(e[k \div 8]) + 1
      BY <3>4, <3>6
    <3>8. Len(d[m]) = Len(d[m \div base]) + 1
      BY <3>5, <3>6
    <3>. QED
      BY <3>3, <3>6, <3>7, <3>8
  <2>. QED
    BY <1>0, <2>3, <2>4
<1>2. ASSUME NEW k \in Nat, \A j \in 0..k - 1 : j \in S
      PROVE  k \in S
  BY <1>1, <1>2
<1>3. Nat \subseteq S
  <2> HIDE DEF S
  <2>. QED
    BY <1>2, SetInduction
<1>. QED
  BY <1>3

\* What string_convert leaves in its buffer are the digits of its argument, for every
\* base of printf and every unsigned int: read in the base they give the argument
\* back, without leading zeros, and they fit the buffer.
THEOREM StringConvertDenotes ==
    ASSUME NEW base \in Bases, NEW num \in 0..UintMax
    PROVE  LET s == string_convert(num, base)
           IN  /\ Reads(s, base) = num
               /\ \A j \in DOMAIN s : s[j].value \in 0..base - 1
               /\ Len(s) \in 1..BufferSize - 1
               /\ Len(s) > 1 => s[1].value # 0
<1> DEFINE s == string_convert(num, base)
           longest == string_convert(UintMax, 8)
<1>1. PICK d : Converts(d, num, base) /\ s = d[num]
  BY TextAssumption, StringConvert
<1>2. PICK e : Converts(e, UintMax, 8) /\ longest = e[UintMax]
  BY TextAssumption, StringConvert DEF Bases
<1>3. UintMax \in Nat /\ num \in Nat /\ num <= UintMax /\ num \in 0..num /\ UintMax \in 0..UintMax
  BY TextAssumption
<1>4. Denotes(s, num, base)
  BY <1>1, <1>3, AllDenote
<1>5. Len(s) <= Len(longest)
  BY <1>1, <1>2, <1>3, NoLonger
<1>6. Denotes(longest, UintMax, 8)
  BY <1>2, <1>3, AllDenote DEF Bases
<1>7. BufferSize \in Nat /\ Len(longest) < BufferSize
  BY TextAssumption
<1> HIDE DEF s, longest
<1>8. Reads(s, base) = num
  BY <1>4, ReadsDenoted
<1>9. Len(s) \in Nat /\ Len(longest) \in Nat
  BY <1>4, <1>6 DEF Denotes
<1>10. /\ \A j \in DOMAIN s : s[j].value \in 0..base - 1
       /\ Len(s) \in 1..BufferSize - 1
       /\ Len(s) > 1 => s[1].value # 0
  BY <1>4, <1>5, <1>7, <1>9 DEF Denotes
<1>. QED
  BY <1>8, <1>10 DEF s

\* Each number printed has the digits of its argument, cut to an unsigned int, in
\* every message and on every machine.
THEOREM NumbersDenoted == Spec => []NumbersDenote
<1>1. ASSUME machine \in Machines
      PROVE  NumbersDenote
  <2> SUFFICES ASSUME NEW m \in machine.said, NEW k \in DOMAIN m.format,
                      m.format[k].is \in DOMAIN Base
               PROVE  LET base == Base[m.format[k].is]
                          arg == Argument(m.format, m.args, k)
                          digits == Printed(m.format[k], arg)
                      IN  /\ Reads(digits, base) = arg % (UintMax + 1)
                          /\ \A j \in DOMAIN digits : digits[j].value \in 0..base - 1
                          /\ Len(digits) \in 1..BufferSize - 1
                          /\ Len(digits) > 1 => digits[1].value # 0
    BY Zenon DEF NumbersDenote
  <2> DEFINE base == Base[m.format[k].is]
             arg == Argument(m.format, m.args, k)
  <2>1. arg \in Int
    BY <1>1, LoggingAssumption, Zenon
  <2>2. m.format[k].is \in {"d", "o", "x"} /\ base \in Bases
    BY DEF Base, Bases
  <2> HIDE DEF base, arg
  <2>3. AsInt(arg) \in 0..UintMax /\ AsInt(arg) = arg % (UintMax + 1)
    BY <2>1, TextAssumption DEF AsInt
  <2>4. Printed(m.format[k], arg) = string_convert(AsInt(arg), base)
    BY <2>2, Zenon DEF Printed, base
  <2>. QED
    BY <2>2, <2>3, <2>4, StringConvertDenotes, Zenon DEF base, arg
<1>2. Spec => []IInv
  BY InitInv, StepInv, PTL DEF Spec
<1>3. IInv => machine \in Machines
  BY DEF IInv, TypeInv
<1>. QED
  BY <1>1, <1>2, <1>3, PTL
=============================================================================
