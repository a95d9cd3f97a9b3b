----------------------------- MODULE TimerProofs -----------------------------
(***************************************************************************)
(* The clock, the speaker and the sleeps of Timer, for all durations and   *)
(* any number of beeps.                                                    *)
(***************************************************************************)
EXTENDS Timer, TLAPS

Channels == [access : Nat, mode : Nat, low : Nat, half : BOOLEAN, live : BOOLEAN, reload : Nat]

TypeInv ==
    /\ clobber \in BOOLEAN /\ pending \in BOOLEAN /\ serving \in BOOLEAN
    /\ pc \in 1..21 /\ beeps \in Nat
    /\ tmp \subseteq {0, 1} /\ port61 \subseteq {0, 1}
    /\ chan \in [{0, 2} -> Channels]
    /\ low \in 0..Byte - 1 /\ since \in -Al..Longest /\ elapsed \in 0..Longest

\* The speaker's bit is set in a tone only, and its port is clear after one.
Speaker ==
    /\ 1 \in port61 => pc \in 11..14
    /\ pc >= 15 => port61 = {}
    /\ pc \in {5, 10} => tmp \subseteq port61

\* Where PIT_init is with channel 0, which nothing touches afterwards.
Clock ==
    ~clobber =>
        /\ chan[0].access = 3 /\ chan[0].mode = 3
        /\ chan[0].half <=> pc = 3
        /\ pc = 3 => chan[0].low = 169
        /\ pc > 3 => chan[0].live /\ chan[0].reload = 1193

\* Where PCSpkr_tone is with channel 2.
Tone ==
    ~clobber =>
        /\ chan[2].access = 3
        /\ chan[2].half <=> pc \in {8, 17}
        /\ pc = 8 => chan[2].low = 45
        /\ pc \in 9..15 => chan[2].live /\ chan[2].reload = 1325
        /\ pc \in 11..13 => port61 = {0, 1}

Owed(b) == IF b THEN 1 ELSE 0

\* The most an interrupt in AL can take off cticks, or off the sum.
Off == Byte - 1 - Al

\* What cticks has lost, at most.
Slack == IF clobber /\ low = Al THEN Off ELSE 0

\* ticks is ahead of the clock by the one period that waited, at most, and by what
\* cticks has lost.
Sleep ==
    elapsed = Longest \/ since + Owed(pending) + Owed(serving) <= elapsed + 1 + Slack

IInv == TypeInv /\ Speaker /\ Clock /\ Tone /\ Sleep

-----------------------------------------------------------------------------

\* The steps of any such program, a set its parts are sequences of.
Instructions ==
    {Out(p, b) : p \in {"ctl", "data0", "data2"}, b \in Nat} \cup {Read61, Snapshot, Loop}
    \cup {Or61(s) : s \in SUBSET {0, 1}} \cup {And61(s) : s \in SUBSET {0, 1}}
    \cup {Wait(d) : d \in Nat}

\* u holds the elements of s and then those of t.
Joins(u, s, t) ==
    /\ Len(u) = Len(s) + Len(t)
    /\ \A i \in 1..Len(s) : u[i] = s[i]
    /\ \A i \in 1..Len(t) : u[Len(s) + i] = t[i]

\* Concatenation, as the proof of Program uses it.
LEMMA Concat ==
    ASSUME NEW S, NEW s \in Seq(S), NEW t \in Seq(S)
    PROVE  s \o t \in Seq(S) /\ Joins(s \o t, s, t)
BY DEF Joins

\* The twenty steps of kmain from PIT_init (main.c) to the end of its loop, with
\* the bytes LSB and MSB make of the three divisors.
LEMMA Program ==
    /\ Len(kmain) = 20 /\ Len(PIT_init(1000)) = 3 /\ LoopStart = 6
    /\ kmain[1] = Out("ctl", 54)
    /\ kmain[2] = Out("data0", 169) /\ kmain[3] = Out("data0", 4)
    /\ kmain[4] = Read61 /\ kmain[5] = Or61({0})
    /\ kmain[6] = Out("ctl", 182)
    /\ kmain[7] = Out("data2", 45) /\ kmain[8] = Out("data2", 5)
    /\ kmain[9] = Read61 /\ kmain[10] = Or61({0, 1})
    /\ kmain[11] = Snapshot /\ kmain[12] = Wait(BeepTicks)
    /\ kmain[13] = Read61 /\ kmain[14] = And61({})
    /\ kmain[15] = Out("ctl", 182)
    /\ kmain[16] = Out("data2", 222) /\ kmain[17] = Out("data2", 52)
    /\ kmain[18] = Snapshot /\ kmain[19] = Wait(GapTicks)
    /\ kmain[20] = Loop
<1>1. /\ BASE_FREQ \div 1000 = 1193 /\ BASE_FREQ \div 900 = 1325
      /\ BASE_FREQ \div 1 = 1193182
  BY SMT DEF BASE_FREQ
<1>2. /\ LSB(1193) = 169 /\ MSB(1193) = 4 /\ LSB(1325) = 45 /\ MSB(1325) = 5
      /\ LSB(1193182) = 222 /\ MSB(1193182) = 52
  BY SMT DEF LSB, MSB
<1>3. /\ \A p \in {"ctl", "data0", "data2"}, b \in Nat : Out(p, b) \in Instructions
      /\ Read61 \in Instructions /\ Snapshot \in Instructions /\ Loop \in Instructions
      /\ \A s \in SUBSET {0, 1} : Or61(s) \in Instructions /\ And61(s) \in Instructions
      /\ \A d \in Nat : Wait(d) \in Instructions
  BY DEF Instructions
<1> DEFINE init == <<Out("ctl", 54), Out("data0", 169), Out("data0", 4)>>
           spk == <<Read61, Or61({0})>>
           note == <<Out("ctl", 182), Out("data2", 45), Out("data2", 5)>>
           on == <<Read61, Or61({0, 1})>>
           tone == <<Snapshot, Wait(BeepTicks)>>
           off == <<Read61, And61({})>>
           one == <<Out("ctl", 182), Out("data2", 222), Out("data2", 52)>>
           gap == <<Snapshot, Wait(GapTicks)>>
           again == <<Loop>>
<1>4. /\ init \in Seq(Instructions) /\ Len(init) = 3
      /\ spk \in Seq(Instructions) /\ Len(spk) = 2
      /\ note \in Seq(Instructions) /\ Len(note) = 3
      /\ on \in Seq(Instructions) /\ Len(on) = 2
      /\ tone \in Seq(Instructions) /\ Len(tone) = 2
      /\ off \in Seq(Instructions) /\ Len(off) = 2
      /\ one \in Seq(Instructions) /\ Len(one) = 3
      /\ gap \in Seq(Instructions) /\ Len(gap) = 2
      /\ again \in Seq(Instructions) /\ Len(again) = 1
  <2>1. init \in Seq(Instructions) /\ Len(init) = 3
    <3>1. Out("ctl", 54) \in Instructions
      BY SMT, <1>3
    <3>2. Out("data0", 169) \in Instructions
      BY SMT, <1>3
    <3>3. Out("data0", 4) \in Instructions
      BY SMT, <1>3
    <3>. QED  BY SMT, <3>1, <3>2, <3>3
  <2>2. spk \in Seq(Instructions) /\ Len(spk) = 2
    <3>1. Or61({0}) \in Instructions
      BY <1>3
    <3>. QED  BY <1>3, <3>1
  <2>3. note \in Seq(Instructions) /\ Len(note) = 3
    <3>1. Out("ctl", 182) \in Instructions
      BY SMT, <1>3
    <3>2. Out("data2", 45) \in Instructions
      BY SMT, <1>3
    <3>3. Out("data2", 5) \in Instructions
      BY SMT, <1>3
    <3>. QED  BY SMT, <3>1, <3>2, <3>3
  <2>4. on \in Seq(Instructions) /\ Len(on) = 2
    <3>1. Or61({0, 1}) \in Instructions
      BY <1>3
    <3>. QED  BY <1>3, <3>1
  <2>5. tone \in Seq(Instructions) /\ Len(tone) = 2
    BY <1>3, TimerAssumption
  <2>6. off \in Seq(Instructions) /\ Len(off) = 2
    <3>1. And61({}) \in Instructions
      BY <1>3
    <3>. QED  BY <1>3, <3>1
  <2>7. one \in Seq(Instructions) /\ Len(one) = 3
    <3>1. Out("ctl", 182) \in Instructions
      BY SMT, <1>3
    <3>2. Out("data2", 222) \in Instructions
      BY SMT, <1>3
    <3>3. Out("data2", 52) \in Instructions
      BY SMT, <1>3
    <3>. QED  BY SMT, <3>1, <3>2, <3>3
  <2>8. gap \in Seq(Instructions) /\ Len(gap) = 2
    BY <1>3, TimerAssumption
  <2>9. again \in Seq(Instructions) /\ Len(again) = 1
    BY <1>3
  <2>. QED
    BY ONLY <2>1, <2>2, <2>3, <2>4, <2>5, <2>6, <2>7, <2>8, <2>9
<1>5. kmain = (init \o spk) \o (((note \o on) \o tone) \o (off \o one)) \o gap \o again
  BY SMT, <1>1, <1>2 DEF kmain, Setup, PIT_init, PCSpkr_init, PCSpkr_tone, PCSpkr_tone_on,
     PCSpkr_tone_off, PCSpkr_set_c2, PIT_sleep, BeepHz
<1> DEFINE A == init \o spk
           B == note \o on
           C == B \o tone
           D == off \o one
           E == C \o D
           F == A \o E
           G == F \o gap
<1> HIDE DEF init, spk, note, on, tone, off, one, gap, again
<1>6. A \in Seq(Instructions) /\ Joins(A, init, spk)
  BY <1>4, Concat
<1>7. B \in Seq(Instructions) /\ Joins(B, note, on)
  BY <1>4, Concat
<1>8. C \in Seq(Instructions) /\ Joins(C, B, tone)
  BY <1>4, <1>7, Concat
<1>9. D \in Seq(Instructions) /\ Joins(D, off, one)
  BY <1>4, Concat
<1>10. E \in Seq(Instructions) /\ Joins(E, C, D)
  BY <1>8, <1>9, Concat
<1>11. F \in Seq(Instructions) /\ Joins(F, A, E)
  BY <1>6, <1>10, Concat
<1>12. G \in Seq(Instructions) /\ Joins(G, F, gap)
  BY <1>4, <1>11, Concat
<1>13. Joins(kmain, G, again)
  BY <1>4, <1>5, <1>12, Concat
<1> HIDE DEF A, B, C, D, E, F, G
<1>14. Len(A) = 5 /\ Len(B) = 5 /\ Len(C) = 7 /\ Len(D) = 5
  BY <1>4, <1>6, <1>7, <1>8, <1>9 DEF Joins
<1>15. Len(E) = 12 /\ Len(F) = 17 /\ Len(G) = 19 /\ Len(kmain) = 20
  BY <1>4, <1>14, <1>10, <1>11, <1>12, <1>13 DEF Joins
<1>16. /\ \A i \in 1..5 : kmain[i] = A[i]
       /\ \A i \in 1..12 : kmain[5 + i] = E[i]
       /\ kmain[18] = gap[1] /\ kmain[19] = gap[2] /\ kmain[20] = again[1]
  <2>1. /\ \A i \in 1..17 : kmain[i] = F[i]
        /\ kmain[18] = gap[1] /\ kmain[19] = gap[2] /\ kmain[20] = again[1]
    BY <1>4, <1>15, <1>12, <1>13 DEF Joins
  <2>. QED
    BY <2>1, <1>14, <1>15, <1>11 DEF Joins
<1>17. /\ \A i \in 1..5 : kmain[5 + i] = B[i]
       /\ kmain[11] = tone[1] /\ kmain[12] = tone[2]
       /\ \A i \in 1..5 : kmain[12 + i] = D[i]
  <2>1. /\ \A i \in 1..7 : kmain[5 + i] = C[i]
        /\ \A i \in 1..5 : kmain[12 + i] = D[i]
    BY <1>16, <1>14, <1>15, <1>10 DEF Joins
  <2>2. /\ \A i \in 1..5 : C[i] = B[i]
        /\ C[6] = tone[1] /\ C[7] = tone[2]
    BY <1>4, <1>14, <1>8 DEF Joins
  <2>3. /\ \A i \in 1..5 : kmain[5 + i] = C[i]
        /\ kmain[11] = C[6] /\ kmain[12] = C[7]
    BY <2>1
  <2>. QED
    BY <2>1, <2>2, <2>3
<1>18. /\ kmain[1] = init[1] /\ kmain[2] = init[2] /\ kmain[3] = init[3]
       /\ kmain[4] = spk[1] /\ kmain[5] = spk[2]
  <2>1. /\ \A i \in 1..3 : A[i] = init[i]
        /\ A[4] = spk[1] /\ A[5] = spk[2]
    BY <1>4, <1>6 DEF Joins
  <2>2. /\ kmain[1] = A[1] /\ kmain[2] = A[2] /\ kmain[3] = A[3]
        /\ kmain[4] = A[4] /\ kmain[5] = A[5]
    BY <1>16
  <2>. QED  BY ONLY <2>1, <2>2
<1>19. /\ kmain[6] = note[1] /\ kmain[7] = note[2] /\ kmain[8] = note[3]
       /\ kmain[9] = on[1] /\ kmain[10] = on[2]
  <2>1. /\ B[1] = note[1] /\ B[2] = note[2] /\ B[3] = note[3]
        /\ B[4] = on[1] /\ B[5] = on[2]
    BY <1>4, <1>14, <1>7 DEF Joins
  <2>2. /\ kmain[6] = B[1] /\ kmain[7] = B[2] /\ kmain[8] = B[3]
        /\ kmain[9] = B[4] /\ kmain[10] = B[5]
    BY <1>17
  <2>. QED
    BY ONLY <2>1, <2>2
<1>20. /\ kmain[13] = off[1] /\ kmain[14] = off[2]
       /\ kmain[15] = one[1] /\ kmain[16] = one[2] /\ kmain[17] = one[3]
  <2>1. /\ D[1] = off[1] /\ D[2] = off[2]
        /\ D[3] = one[1] /\ D[4] = one[2] /\ D[5] = one[3]
    BY <1>4, <1>14, <1>9 DEF Joins
  <2>2. /\ kmain[13] = D[1] /\ kmain[14] = D[2]
        /\ kmain[15] = D[3] /\ kmain[16] = D[4] /\ kmain[17] = D[5]
    BY <1>17
  <2>. QED
    BY ONLY <2>1, <2>2
<1>21. Setup = A /\ PIT_init(1000) = init
  BY SMT, <1>1, <1>2 DEF Setup, PIT_init, PCSpkr_init, A, init, spk
<1>22. /\ init[1] = Out("ctl", 54) /\ init[2] = Out("data0", 169)
       /\ init[3] = Out("data0", 4)
       /\ note[1] = Out("ctl", 182) /\ note[2] = Out("data2", 45)
       /\ note[3] = Out("data2", 5)
       /\ one[1] = Out("ctl", 182) /\ one[2] = Out("data2", 222)
       /\ one[3] = Out("data2", 52)
  BY SMT DEF init, note, one
<1>23. /\ spk[1] = Read61 /\ spk[2] = Or61({0})
       /\ on[1] = Read61 /\ on[2] = Or61({0, 1})
       /\ tone[1] = Snapshot /\ tone[2] = Wait(BeepTicks)
       /\ off[1] = Read61 /\ off[2] = And61({})
       /\ gap[1] = Snapshot /\ gap[2] = Wait(GapTicks) /\ again[1] = Loop
  BY SMT DEF spk, on, tone, off, gap, again
<1>24. Len(kmain) = 20 /\ Len(PIT_init(1000)) = 3 /\ LoopStart = 6
  <2>1. Len(PIT_init(1000)) = 3
    BY ONLY <1>4, <1>21
  <2>2. LoopStart = 6
    <3>1. Len(Setup) = 5
      BY ONLY <1>14, <1>21
    <3>. QED  BY ONLY <3>1 DEF LoopStart
  <2>. QED  BY <2>1, <2>2, <1>15
<1>. QED
  BY SMT, <1>16, <1>17, <1>18, <1>19, <1>20, <1>22, <1>23, <1>24

\* Which kind of step each one is, and the bits and durations.
LEMMA Steps ==
    /\ \A i \in 1..20 :
          /\ kmain[i].op = "out" <=> i \in {1, 2, 3, 6, 7, 8, 15, 16, 17}
          /\ kmain[i].op = "read61" <=> i \in {4, 9, 13}
          /\ kmain[i].op = "or61" <=> i \in {5, 10}
          /\ kmain[i].op = "and61" <=> i = 14
          /\ kmain[i].op = "snapshot" <=> i \in {11, 18}
          /\ kmain[i].op = "wait" <=> i \in {12, 19}
          /\ kmain[i].op = "loop" <=> i = 20
    /\ kmain[5].bits = {0} /\ kmain[10].bits = {0, 1} /\ kmain[14].bits = {}
    /\ kmain[12].for = BeepTicks /\ kmain[19].for = GapTicks
    /\ Idle = 21 /\ LoopStart = 6
<1>1. /\ \A i \in {1, 2, 3, 6, 7, 8, 15, 16, 17} : kmain[i].op = "out"
      /\ \A i \in {4, 9, 13} : kmain[i].op = "read61"
      /\ \A i \in {5, 10} : kmain[i].op = "or61"
      /\ kmain[14].op = "and61"
      /\ \A i \in {11, 18} : kmain[i].op = "snapshot"
      /\ \A i \in {12, 19} : kmain[i].op = "wait"
      /\ kmain[20].op = "loop"
  BY Program DEF Out, Read61, Or61, And61, Snapshot, Wait, Loop
<1>2. /\ kmain[5].bits = {0} /\ kmain[10].bits = {0, 1} /\ kmain[14].bits = {}
      /\ kmain[12].for = BeepTicks /\ kmain[19].for = GapTicks
  BY Program DEF Or61, And61, Wait
<1>. QED
  BY <1>1, <1>2, Program DEF Idle

\* The port and byte of every out.
LEMMA Ports ==
    /\ \A i \in {1, 6, 15} : kmain[i].port = "ctl"
    /\ \A i \in {2, 3} : kmain[i].port = "data0"
    /\ \A i \in {7, 8, 16, 17} : kmain[i].port = "data2"
    /\ kmain[1].byte = 54 /\ kmain[2].byte = 169 /\ kmain[3].byte = 4
    /\ kmain[6].byte = 182 /\ kmain[7].byte = 45 /\ kmain[8].byte = 5
    /\ kmain[15].byte = 182 /\ kmain[16].byte = 222 /\ kmain[17].byte = 52
BY SMT, Program DEF Out

\* What a control byte and a data byte do to the two channels.
LEMMA ControlStep ==
    ASSUME chan \in [{0, 2} -> Channels], NEW b \in {32, 54, 182}, Control(b)
    PROVE  /\ chan' \in [{0, 2} -> Channels]
           /\ b = 182 => chan'[0] = chan[0] /\ chan'[2].access = 3 /\ ~chan'[2].half
           /\ b # 182 => chan'[2] = chan[2]
           /\ b = 54 => /\ chan'[0].access = 3 /\ chan'[0].mode = 3
                        /\ ~chan'[0].half
BY SMT DEF Control, Channels

\* A byte written to a channel's count register.
LEMMA DataStep ==
    ASSUME chan \in [{0, 2} -> Channels], NEW c \in {0, 2}, NEW b \in Nat, Data(c, b)
    PROVE  /\ chan' \in [{0, 2} -> Channels]
           /\ \A d \in {0, 2} \ {c} : chan'[d] = chan[d]
           /\ chan'[c].access = chan[c].access /\ chan'[c].mode = chan[c].mode
           /\ chan[c].access = 3 /\ ~chan[c].half =>
                 /\ chan'[c].half /\ chan'[c].low = b
                 /\ chan'[c].live = chan[c].live /\ chan'[c].reload = chan[c].reload
           /\ chan[c].access = 3 /\ chan[c].half =>
                 /\ ~chan'[c].half /\ chan'[c].live
                 /\ chan'[c].reload = chan[c].low + 256 * b
<1>1. chan[c] \in Channels
  OBVIOUS
<1>2. CASE chan[c].access = 3 /\ ~chan[c].half
  <2>1. chan' = [chan EXCEPT ![c].low = b, ![c].half = TRUE]
    BY <1>2 DEF Data
  <2>. QED
    BY SMT, <1>1, <1>2, <2>1 DEF Channels
<1>3. CASE ~(chan[c].access = 3 /\ ~chan[c].half)
  <2>1. chan' = [chan EXCEPT ![c].half = FALSE, ![c].live = TRUE,
                             ![c].reload = chan[c].low + 256 * b]
    BY <1>3 DEF Data
  <2>2. chan[c].low + 256 * b \in Nat
    BY <1>1 DEF Channels
  <2> DEFINE v == chan[c].low + 256 * b
  <2> HIDE DEF v
  <2>3. chan' = [chan EXCEPT ![c] =
                    [chan[c] EXCEPT !.half = FALSE, !.live = TRUE, !.reload = v]]
    BY <2>1 DEF v
  <2>4. v \in Nat
    BY <2>2 DEF v
  <2>5. /\ chan'[c] \in Channels /\ ~chan'[c].half /\ chan'[c].live
        /\ chan'[c].access = chan[c].access /\ chan'[c].mode = chan[c].mode
        /\ chan'[c].reload = v
    <3>1. chan'[c] = [chan[c] EXCEPT !.half = FALSE, !.live = TRUE, !.reload = v]
      BY <2>3
    <3>2. [chan[c] EXCEPT !.half = FALSE, !.live = TRUE, !.reload = v] \in Channels
      BY Zenon, <1>1, <2>4 DEF Channels
    <3>3. /\ ~chan'[c].half /\ chan'[c].live
          /\ chan'[c].access = chan[c].access /\ chan'[c].mode = chan[c].mode
          /\ chan'[c].reload = v
      BY SMT, <1>1, <3>1 DEF Channels
    <3>. QED
      BY <3>1, <3>2, <3>3
  <2>6. /\ \A d \in {0, 2} \ {c} : chan'[d] = chan[d]
        /\ chan' \in [{0, 2} -> Channels]
    BY <2>3, <2>5
  <2>. QED
    BY <1>3, <2>5, <2>6 DEF v
<1>. QED
  BY <1>2, <1>3

-----------------------------------------------------------------------------

\* An out of kmain: which byte arrives where.
LEMMA Sent ==
    ASSUME TypeInv, OutByte
    PROVE  /\ pc \in {1, 2, 3, 6, 7, 8, 15, 16, 17} /\ pc' = pc + 1
           /\ pc = 1 => \E b \in Arrives(54) : Control(b)
           /\ pc \in {6, 15} => \E b \in Arrives(182) : Control(b)
           /\ pc = 2 => \E b \in Arrives(169) : Data(0, b)
           /\ pc = 3 => \E b \in Arrives(4) : Data(0, b)
           /\ pc = 7 => \E b \in Arrives(45) : Data(2, b)
           /\ pc = 8 => \E b \in Arrives(5) : Data(2, b)
           /\ pc = 16 => \E b \in Arrives(222) : Data(2, b)
           /\ pc = 17 => \E b \in Arrives(52) : Data(2, b)
<1>1. pc \in {1, 2, 3, 6, 7, 8, 15, 16, 17} /\ pc' = pc + 1
  BY Steps DEF OutByte, At, TypeInv
<1>2. CASE pc \in {1, 6, 15}
  <2>1. \E b \in Arrives(kmain[pc].byte) : Control(b)
    BY <1>2, Ports DEF OutByte
  <2>. QED
    BY <1>1, <1>2, <2>1, Ports
<1>3. CASE pc \in {2, 3}
  <2>1. \E b \in Arrives(kmain[pc].byte) : Data(0, b)
    BY <1>3, Ports DEF OutByte
  <2>. QED
    BY <1>1, <1>3, <2>1, Ports
<1>4. CASE pc \in {7, 8, 16, 17}
  <2>1. \E b \in Arrives(kmain[pc].byte) : Data(2, b)
    BY <1>4, Ports DEF OutByte
  <2>. QED
    BY <1>1, <1>4, <2>1, Ports
<1>. QED
  BY <1>1, <1>2, <1>3, <1>4

\* An out of kmain changes the channels one at a time.
LEMMA SentWell ==
    ASSUME TypeInv, OutByte
    PROVE  /\ chan' \in [{0, 2} -> Channels]
           /\ ~clobber /\ pc > 3 => chan'[0] = chan[0]
           /\ pc \in {1, 2, 3} => chan'[2] = chan[2]
<1>1. \A b \in {4, 5, 45, 52, 54, 169, 182, 222} :
         /\ Arrives(b) \subseteq Nat /\ Arrives(b) \subseteq {b, 32}
         /\ ~clobber => Arrives(b) = {b}
  BY DEF Arrives
<1>2. chan \in [{0, 2} -> Channels]
  BY DEF TypeInv
<1>3. CASE pc = 1
  <2>1. PICK b \in Arrives(54) : Control(b)
    BY <1>3, Sent
  <2>2. b \in {32, 54}
    BY <2>1, <1>1
  <2>. QED
    BY <2>1, <2>2, <1>2, <1>3, ControlStep
<1>4. CASE pc \in {6, 15}
  <2>1. PICK b \in Arrives(182) : Control(b)
    BY <1>4, Sent
  <2>2. b \in {32, 182} /\ (~clobber => b = 182)
    BY <2>1, <1>1
  <2>. QED
    BY <2>1, <2>2, <1>2, <1>4, ControlStep
<1>5. CASE pc \in {2, 3}
  <2>1. PICK b \in Nat : Data(0, b)
    BY <1>1, <1>5, Sent
  <2>. QED
    BY <2>1, <1>2, <1>5, DataStep
<1>6. CASE pc \in {7, 8, 16, 17}
  <2>1. PICK b \in Nat : Data(2, b)
    BY <1>1, <1>6, Sent
  <2>. QED
    BY <2>1, <1>2, <1>6, DataStep
<1>. QED
  BY Sent, <1>3, <1>4, <1>5, <1>6

\* Every step keeps the types, the channel a byte reaches included.
LEMMA TypeStep ==
    ASSUME TypeInv, [Next]_vars
    PROVE  TypeInv'
<1> USE DEF TypeInv
<1>1. /\ Longest \in Nat /\ Byte \in Nat /\ Al \in 0..Byte - 1
      /\ \A n \in Nat : Capped(n) \in 0..Longest
      /\ \A n \in Int : n >= -Al => Capped(n) \in -Al..Longest
  BY TimerAssumption DEF Longest, Capped
<1>2. CASE OutByte
  BY <1>2, Sent, SentWell DEF OutByte, clock
<1>3. CASE ReadPort61
  BY <1>3, Steps DEF ReadPort61, At, machine, clock
<1>4. CASE WritePort61
  <2>1. pc \in {5, 10, 14} /\ pc' = pc + 1
    BY <1>4, Steps DEF WritePort61, At
  <2>2. kmain[pc].bits \subseteq {0, 1}
    BY <2>1, Steps
  <2>3. port61' \subseteq {0, 1}
    BY <1>4, <2>2 DEF WritePort61
  <2>. QED
    BY <1>4, <2>1, <2>3 DEF WritePort61, clock
<1>5. CASE TakeSnapshot
  <2>1. low' \in 0..Byte - 1 /\ since' \in -Al..Longest
    BY <1>1, <1>5 DEF TakeSnapshot
  <2>2. elapsed' \in 0..Longest /\ pc' \in 1..21
    BY <1>1, <1>5, Steps DEF TakeSnapshot, At
  <2>. QED
    BY <1>5, <2>1, <2>2 DEF TakeSnapshot, machine
<1>6. CASE EndWait
  BY <1>6, Steps DEF EndWait, At, machine, clock
<1>7. CASE LoopAgain
  BY <1>7, Steps DEF LoopAgain, At, machine, clock
<1>8. CASE Edge
  <2>1. chan[0] \in Channels
    OBVIOUS
  <2>2. (chan[0].mode = 3) \in BOOLEAN
    OBVIOUS
  <2>3. [chan[0] EXCEPT !.live = (chan[0].mode = 3)] \in Channels
    BY Zenon, <2>1, <2>2 DEF Channels
  <2>4. chan' = [chan EXCEPT ![0] = [chan[0] EXCEPT !.live = (chan[0].mode = 3)]]
    BY <1>8 DEF Edge
  <2>5. chan' \in [{0, 2} -> Channels]
    BY ONLY <2>3, <2>4, chan \in [{0, 2} -> Channels]
  <2>. QED
    BY <1>1, <1>8, <2>5 DEF Edge, main
<1>9. CASE Take
  BY <1>9 DEF Take, main, machine
<1>10. CASE Count
  <2>1. since' \in -Al..Longest
    BY <1>1, <1>10 DEF Count
  <2>. QED
    BY <1>10, <2>1 DEF Count, main, machine
<1>11. CASE UNCHANGED vars
  BY <1>11 DEF vars, main, machine, clock
<1>. QED
  BY <1>2, <1>3, <1>4, <1>5, <1>6, <1>7, <1>8, <1>9, <1>10, <1>11 DEF Next, Main

\* Every step keeps Speaker, also with bytes lost to an interrupt.
LEMMA SpeakerStep ==
    ASSUME TypeInv, Speaker, [Next]_vars
    PROVE  Speaker'
<1> USE DEF TypeInv, Speaker
<1>1. CASE OutByte
  BY <1>1, Sent DEF OutByte
<1>2. CASE ReadPort61
  BY <1>2, Steps DEF ReadPort61, At, machine
<1>3. CASE WritePort61
  <2>1. pc \in {5, 10, 14} /\ pc' = pc + 1
    BY <1>3, Steps DEF WritePort61, At
  <2>2. CASE pc = 5
    <3>1. kmain[pc].bits = {0} /\ 1 \notin tmp
      BY <2>2, Steps
    <3>2. 1 \notin port61'
      BY <1>3, <2>2, <3>1, Steps DEF WritePort61
    <3>. QED
      BY <2>1, <2>2, <3>2
  <2>3. CASE pc = 10
    BY <2>1, <2>3
  <2>4. CASE pc = 14
    <3>1. kmain[pc].bits = {} /\ kmain[pc].op = "and61"
      BY <2>4, Steps
    <3>2. port61' = {}
      BY <1>3, <3>1 DEF WritePort61
    <3>. QED
      BY <2>1, <2>4, <3>2
  <2>. QED
    BY <2>1, <2>2, <2>3, <2>4
<1>4. CASE TakeSnapshot
  BY <1>4, Steps DEF TakeSnapshot, At, machine
<1>5. CASE EndWait
  BY <1>5, Steps DEF EndWait, At, machine
<1>6. CASE LoopAgain
  BY <1>6, Steps DEF LoopAgain, At, machine
<1>7. CASE Edge
  BY <1>7 DEF Edge, main
<1>8. CASE Take
  BY <1>8 DEF Take, main, machine
<1>9. CASE Count
  BY <1>9 DEF Count, main, machine
<1>10. CASE UNCHANGED vars
  BY <1>10 DEF vars, main, machine
<1>. QED
  BY <1>1, <1>2, <1>3, <1>4, <1>5, <1>6, <1>7, <1>8, <1>9, <1>10 DEF Next, Main

\* The channels change by an out or at the end of a period only, and pc follows.
LEMMA ChannelStep ==
    ASSUME TypeInv, [Next]_vars
    PROVE  /\ clobber' = clobber
           /\ \/ OutByte
              \/ Edge /\ pc' = pc
              \/ /\ chan' = chan
                 /\ \/ pc' = pc
                    \/ pc' = pc + 1 /\ pc \notin {1, 2, 3, 6, 7, 8, 15, 16, 17, 20}
                    \/ pc = 20 /\ pc' \in {6, 21}
<1>1. CASE OutByte
  BY <1>1 DEF OutByte
<1>2. CASE ReadPort61
  BY <1>2, Steps DEF ReadPort61, At, machine, TypeInv
<1>3. CASE WritePort61
  BY <1>3, Steps DEF WritePort61, At, TypeInv
<1>4. CASE TakeSnapshot
  BY <1>4, Steps DEF TakeSnapshot, At, machine, TypeInv
<1>5. CASE EndWait
  BY <1>5, Steps DEF EndWait, At, machine, TypeInv
<1>6. CASE LoopAgain
  BY <1>6, Steps DEF LoopAgain, At, machine, TypeInv
<1>7. CASE Edge
  BY <1>7 DEF Edge, main
<1>8. CASE Take
  BY <1>8 DEF Take, main, machine
<1>9. CASE Count
  BY <1>9 DEF Count, main, machine
<1>10. CASE UNCHANGED vars
  BY <1>10 DEF vars, main, machine
<1>. QED
  BY <1>1, <1>2, <1>3, <1>4, <1>5, <1>6, <1>7, <1>8, <1>9, <1>10 DEF Next, Main

\* Every step keeps Clock.
LEMMA ClockStep ==
    ASSUME TypeInv, Clock, [Next]_vars
    PROVE  Clock'
<1> SUFFICES ASSUME ~clobber
             PROVE  Clock'
  BY ChannelStep DEF Clock
<1>1. /\ chan[0].access = 3 /\ chan[0].mode = 3
      /\ chan[0].half <=> pc = 3
      /\ pc = 3 => chan[0].low = 169
      /\ pc > 3 => chan[0].live /\ chan[0].reload = 1193
  BY DEF Clock
<1>2. /\ pc \in 1..21 /\ chan \in [{0, 2} -> Channels]
      /\ \A b \in Nat : Arrives(b) = {b}
  BY DEF TypeInv, Arrives
<1>3. CASE OutByte
  <2>1. CASE pc = 1
    <3>1. Control(54) /\ pc' = 2
      BY <1>2, <1>3, <2>1, Sent
    <3>. QED
      BY <3>1, <1>2, ControlStep DEF Clock
  <2>2. CASE pc = 2
    <3>1. Data(0, 169) /\ pc' = 3
      BY <1>2, <1>3, <2>2, Sent
    <3>. QED
      BY <3>1, <1>1, <1>2, <2>2, DataStep DEF Clock
  <2>3. CASE pc = 3
    <3>1. Data(0, 4) /\ pc' = 4
      BY <1>2, <1>3, <2>3, Sent
    <3>. QED
      BY <3>1, <1>1, <1>2, <2>3, DataStep DEF Clock
  <2>4. CASE pc > 3
    <3>1. chan'[0] = chan[0] /\ pc' = pc + 1
      BY <1>3, <2>4, Sent, SentWell
    <3>. QED
      BY <3>1, <1>1, <1>2, <2>4 DEF Clock
  <2>. QED
    BY <1>2, <2>1, <2>2, <2>3, <2>4
<1>4. CASE Edge /\ pc' = pc
  <2>1. /\ chan'[0].access = 3 /\ chan'[0].mode = 3 /\ chan'[0].low = chan[0].low
        /\ chan'[0].half <=> chan[0].half
        /\ chan'[0].live /\ chan'[0].reload = chan[0].reload
    BY <1>1, <1>2, <1>4 DEF Edge, Channels
  <2>. QED
    BY <1>1, <1>2, <1>4, <2>1 DEF Clock
<1>5. CASE /\ chan' = chan
           /\ \/ pc' = pc
              \/ pc' = pc + 1 /\ pc \notin {1, 2, 3, 6, 7, 8, 15, 16, 17, 20}
              \/ pc = 20 /\ pc' \in {6, 21}
  BY <1>1, <1>2, <1>5 DEF Clock
<1>. QED
  BY <1>3, <1>4, <1>5, ChannelStep

\* Port 0x61 changes in its write only, and that is the only step to pc = 11.
LEMMA PortStep ==
    ASSUME TypeInv, [Next]_vars
    PROVE  \/ WritePort61 /\ pc \in {5, 10, 14} /\ pc' = pc + 1
           \/ /\ port61' = port61
              /\ \/ pc' = pc
                 \/ pc' = pc + 1 /\ pc # 10
                 \/ pc = 20 /\ pc' \in {6, 21}
<1>1. CASE OutByte
  BY <1>1, Sent DEF OutByte
<1>2. CASE ReadPort61
  BY <1>2, Steps DEF ReadPort61, At, machine, TypeInv
<1>3. CASE WritePort61
  BY <1>3, Steps DEF WritePort61, At, TypeInv
<1>4. CASE TakeSnapshot
  BY <1>4, Steps DEF TakeSnapshot, At, machine, TypeInv
<1>5. CASE EndWait
  BY <1>5, Steps DEF EndWait, At, machine, TypeInv
<1>6. CASE LoopAgain
  BY <1>6, Steps DEF LoopAgain, At, machine, TypeInv
<1>7. CASE Edge
  BY <1>7 DEF Edge, main
<1>8. CASE Take
  BY <1>8 DEF Take, main, machine
<1>9. CASE Count
  BY <1>9 DEF Count, main, machine
<1>10. CASE UNCHANGED vars
  BY <1>10 DEF vars, main, machine
<1>. QED
  BY <1>1, <1>2, <1>3, <1>4, <1>5, <1>6, <1>7, <1>8, <1>9, <1>10 DEF Next, Main

\* Every step keeps Tone.
LEMMA ToneStep ==
    ASSUME TypeInv, Speaker, Tone, [Next]_vars
    PROVE  Tone'
<1> SUFFICES ASSUME ~clobber
             PROVE  Tone'
  BY ChannelStep DEF Tone
<1>1. /\ chan[2].access = 3
      /\ chan[2].half <=> pc \in {8, 17}
      /\ pc = 8 => chan[2].low = 45
      /\ pc \in 9..15 => chan[2].live /\ chan[2].reload = 1325
      /\ pc \in 11..13 => port61 = {0, 1}
  BY DEF Tone
<1>2. /\ pc \in 1..21 /\ chan \in [{0, 2} -> Channels]
      /\ \A b \in Nat : Arrives(b) = {b}
  BY DEF TypeInv, Arrives
<1>3. pc' \in 11..13 => port61' = {0, 1}
  <2>1. CASE WritePort61 /\ pc \in {5, 10, 14} /\ pc' = pc + 1
    <3>1. CASE pc = 10
      <4>1. kmain[pc].bits = {0, 1} /\ kmain[pc].op = "or61" /\ tmp \subseteq port61
        BY <3>1, Steps DEF Speaker
      <4>2. tmp \cup {0, 1} = {0, 1} /\ (tmp = {0, 1} => port61 = {0, 1})
        BY <4>1 DEF TypeInv
      <4>3. port61' = {0, 1}
        BY <2>1, <4>1, <4>2, ~clobber DEF WritePort61
      <4>. QED
        BY <4>3
    <3>. QED
      BY <2>1, <3>1
  <2>2. CASE /\ port61' = port61
             /\ \/ pc' = pc
                \/ pc' = pc + 1 /\ pc # 10
                \/ pc = 20 /\ pc' \in {6, 21}
    BY <1>1, <1>2, <2>2
  <2>. QED
    BY <2>1, <2>2, PortStep
<1>4. CASE OutByte
  <2>1. CASE pc \in {1, 2, 3}
    <3>1. chan'[2] = chan[2] /\ pc' = pc + 1
      BY <1>4, <2>1, Sent, SentWell
    <3>. QED
      BY <3>1, <1>1, <1>2, <1>3, <2>1 DEF Tone
  <2>2. CASE pc \in {6, 15}
    <3>1. Control(182) /\ pc' = pc + 1
      BY <1>2, <1>4, <2>2, Sent
    <3>2. /\ chan'[2].access = 3 /\ ~chan'[2].half
      BY <3>1, <1>2, ControlStep
    <3>. QED
      BY <3>1, <3>2, <1>3, <2>2 DEF Tone
  <2>3. CASE pc \in {7, 16}
    <3>1. /\ pc = 7 => Data(2, 45)
          /\ pc = 16 => Data(2, 222)
          /\ pc' = pc + 1
      BY <1>2, <1>4, <2>3, Sent
    <3>2. /\ chan'[2].access = 3 /\ chan'[2].half
          /\ pc = 7 => chan'[2].low = 45
      BY <3>1, <1>1, <1>2, <2>3, DataStep
    <3>. QED
      BY <3>1, <3>2, <1>3, <2>3 DEF Tone
  <2>4. CASE pc \in {8, 17}
    <3>1. /\ pc = 8 => Data(2, 5)
          /\ pc = 17 => Data(2, 52)
          /\ pc' = pc + 1
      BY <1>2, <1>4, <2>4, Sent
    <3>2. /\ chan'[2].access = 3 /\ ~chan'[2].half /\ chan'[2].live
          /\ pc = 8 => chan'[2].reload = 1325
      BY <3>1, <1>1, <1>2, <2>4, DataStep
    <3>. QED
      BY <3>1, <3>2, <1>3, <2>4 DEF Tone
  <2>. QED
    BY <1>4, <2>1, <2>2, <2>3, <2>4, Sent
<1>5. CASE Edge /\ pc' = pc
  <2>1. chan'[2] = chan[2]
    BY <1>2, <1>5 DEF Edge
  <2>. QED
    BY <1>1, <1>2, <1>3, <1>5, <2>1 DEF Tone
<1>6. CASE /\ chan' = chan
           /\ \/ pc' = pc
              \/ pc' = pc + 1 /\ pc \notin {1, 2, 3, 6, 7, 8, 15, 16, 17, 20}
              \/ pc = 20 /\ pc' \in {6, 21}
  BY <1>1, <1>2, <1>3, <1>6 DEF Tone
<1>. QED
  BY <1>4, <1>5, <1>6, ChannelStep

\* Every step keeps Sleep.
LEMMA SleepStep ==
    ASSUME TypeInv, Sleep, [Next]_vars
    PROVE  Sleep'
<1> USE DEF Sleep, Owed
<1>1. /\ Longest \in Nat /\ since \in Int /\ since <= Longest /\ elapsed \in Nat
      /\ Byte \in Nat /\ Al \in 0..Byte - 1 /\ Off \in Nat
  BY TimerAssumption DEF Longest, TypeInv, Off
<1>2. CASE TakeSnapshot
  <2>1. ~serving' /\ elapsed' = 0 /\ clobber' = clobber
    BY <1>2 DEF TakeSnapshot, At, TypeInv
  <2>2. \/ since' = 0
        \/ clobber /\ low' = Al /\ since' \in Int /\ since' <= Off
    <3>1. \A n \in Int : Capped(n) \in Int /\ Capped(n) <= n
      BY <1>1 DEF Capped
    <3>2. PICK b \in 0..Byte - 1, lost \in {FALSE, clobber} :
             /\ low' = IF lost THEN Al ELSE b
             /\ since' = IF lost THEN Capped(b - Al) ELSE 0
      BY <1>2 DEF TakeSnapshot
    <3>3. b - Al \in Int /\ b - Al <= Off
      BY <1>1 DEF Off
    <3>4. CASE lost
      <4>1. clobber /\ low' = Al /\ since' = Capped(b - Al)
        BY Zenon, <3>2, <3>4
      <4>2. Capped(b - Al) \in Int /\ Capped(b - Al) <= b - Al
        BY <3>1, <3>3
      <4>. QED
        BY <1>1, <3>3, <4>1, <4>2
    <3>5. CASE ~lost
      BY <3>2, <3>5
    <3>. QED
      BY <3>4, <3>5
  <2>. QED
    BY <1>1, <2>1, <2>2 DEF Slack
<1>3. CASE Edge
  BY <1>1, <1>3 DEF Edge, Capped, TypeInv, main, Slack
<1>4. CASE Take
  BY <1>1, <1>4 DEF Take, TypeInv, main, Slack
<1>5. CASE Count
  BY <1>1, <1>5 DEF Count, Capped, TypeInv, main, Slack
<1>6. CASE UNCHANGED <<clobber, clock>>
  BY <1>6 DEF clock, Slack
<1>. QED
  BY <1>2, <1>3, <1>4, <1>5, <1>6
     DEF Next, Main, OutByte, ReadPort61, WritePort61, EndWait, LoopAgain, vars, main

-----------------------------------------------------------------------------

\* The invariant: how far kmain is decides what the two channels and port 0x61
\* hold, and ticks never runs more than one period ahead of the clock.
THEOREM Inductive == Spec => []IInv
<1>1. Init => IInv
  <2> SUFFICES ASSUME Init
               PROVE  IInv
    OBVIOUS
  <2> USE DEF Init
  <2>1. Longest \in Nat
    BY TimerAssumption DEF Longest
  <2>2. chan \in [{0, 2} -> Channels]
    BY Zenon DEF Channels
  <2>3. TypeInv
    <3>1. tmp \subseteq {0, 1} /\ port61 \subseteq {0, 1}
      OBVIOUS
    <3>2. /\ low \in 0..Byte - 1 /\ since \in -Al..Longest /\ elapsed \in 0..Longest
          /\ pc \in 1..21
      BY <2>1, TimerAssumption
    <3>. QED
      BY <2>2, <3>1, <3>2 DEF TypeInv
  <2>4. Clock /\ Tone
    BY DEF Clock, Tone
  <2>5. Sleep
    BY TimerAssumption DEF Sleep, Owed, Off, Slack
  <2>. QED
    BY <2>3, <2>4, <2>5 DEF IInv, Speaker
<1>2. IInv /\ [Next]_vars => IInv'
  BY TypeStep, SpeakerStep, ClockStep, ToneStep, SleepStep DEF IInv
<1>. QED
  BY <1>1, <1>2, PTL DEF Spec

\* Channel 0 keeps the rate PIT_init gave it, whatever PCSpkr_set_c2 sends.
THEOREM ClockKept == Spec => []ClockKeepsRate
<1>1. BASE_FREQ \div 1000 = 1193
  BY SMT DEF BASE_FREQ
<1>2. Len(PIT_init(1000)) = 3
  BY Program
<1>3. IInv => ClockKeepsRate
  <2> SUFFICES ASSUME pc \in Int, Clock, ~clobber, pc > Len(PIT_init(1000))
               PROVE  /\ chan[0].live /\ chan[0].mode = 3
                      /\ chan[0].reload = BASE_FREQ \div 1000
    BY DEF IInv, TypeInv, ClockKeepsRate
  <2>1. pc > 3
    BY SMT, <1>2
  <2>2. chan[0].live /\ chan[0].mode = 3 /\ chan[0].reload = 1193
    BY SMT, <2>1 DEF Clock
  <2>. QED
    BY SMT, <1>1, <2>2
<1>. QED
  BY <1>3, Inductive, PTL

\* The speaker is off in every pause and at the end (PCSpkr_tone_off), lost
\* bytes or not.
THEOREM Silent == Spec => []SilentBetweenBeeps
<1>1. IInv => SilentBetweenBeeps
  BY Steps DEF IInv, Speaker, SilentBetweenBeeps, GapWait
<1>. QED
  BY <1>1, Inductive, PTL

\* In a tone the speaker plays the note PCSpkr_tone_on asked for.
THEOREM Note == Spec => []ToneAsAsked
<1>1. BASE_FREQ \div BeepHz = 1325
  BY SMT DEF BASE_FREQ, BeepHz
<1>2. IInv => ToneAsAsked
  BY SMT, <1>1, Steps DEF IInv, Tone, ToneAsAsked, ToneWait
<1>. QED
  BY <1>2, Inductive, PTL

\* What an interrupt in AL does to a time: it takes Off from it at most, and nothing
\* from cticks once that has been altered before.
LEMMA Lowered ==
    ASSUME low \in 0..Byte - 1, NEW n \in Int, NEW c \in InAl(n)
    PROVE  c \in Int /\ n - Off <= c /\ (n = 0 /\ low = Al => c = 0)
<1>1. Byte \in Nat /\ Byte > 0 /\ Al \in 0..Byte - 1 /\ low + n \in Int
  BY TimerAssumption
<1>2. c = n \/ c = n - ((low + n) % Byte) + Al
  BY DEF InAl
<1>3. (low + n) % Byte \in 0..Byte - 1
  BY <1>1
<1>4. low % Byte = low
  BY <1>1
<1>. QED
  BY <1>1, <1>2, <1>3, <1>4 DEF Off

\* PIT_sleep never returns more than one period early, and the low byte of its
\* numbers twice, where interrupts alter AL.
THEOREM LongEnough == Spec => SleepsLongEnough
<1>1. IInv /\ [Next]_vars =>
        \A d \in {BeepTicks, GapTicks} :
           pc < Idle /\ kmain[pc] = Wait(d) /\ pc' # pc => elapsed + 1 + Short >= d
  <2> SUFFICES ASSUME IInv, [Next]_vars, NEW d \in {BeepTicks, GapTicks},
                      pc < Idle, kmain[pc] = Wait(d), pc' # pc
               PROVE  elapsed + 1 + Short >= d
    OBVIOUS
  <2>1. kmain[pc].op = "wait" /\ kmain[pc].for = d
    BY DEF Wait
  <2>2. EndWait
    BY <2>1 DEF Next, Main, OutByte, ReadPort61, WritePort61, TakeSnapshot, LoopAgain,
       At, Edge, Take, Count, main, vars
  <2>3. /\ d \in Nat /\ d <= Longest /\ since \in Int /\ elapsed \in Nat
        /\ low \in 0..Byte - 1 /\ Off \in Nat /\ clobber \in BOOLEAN
    BY TimerAssumption DEF IInv, TypeInv, Longest, Off
  <2>4. PICK c \in InAl(0) : \E end \in InAl(c + d) : end <= since
    BY <2>1, <2>2 DEF EndWait
  <2>5. PICK end \in InAl(c + d) : end <= since
    BY <2>4
  <2>6. CASE ~clobber
    <3>1. c = 0 /\ end = c + d
      BY <2>6 DEF InAl
    <3>2. elapsed = Longest \/ since <= elapsed + 1
      BY <2>3, <2>6 DEF IInv, Sleep, Owed, Slack
    <3>. QED
      BY <2>3, <2>5, <2>6, <3>1, <3>2 DEF Short
  <2>7. CASE clobber
    <3>1. c \in Int /\ -Off <= c /\ (low = Al => c = 0)
      BY <2>3, Lowered
    <3>2. end \in Int /\ c + d - Off <= end
      BY <2>3, <3>1, Lowered
    <3>3. elapsed = Longest \/ since <= elapsed + 1 + IF low = Al THEN Off ELSE 0
      BY <2>3, <2>7 DEF IInv, Sleep, Owed, Slack
    <3>4. Short = 2 * Off
      BY <2>7 DEF Short, Off
    <3>. QED
      BY <2>3, <2>5, <3>1, <3>2, <3>3, <3>4
  <2>. QED
    BY <2>3, <2>6, <2>7
<1>. QED
  BY <1>1, Inductive, PTL DEF Spec, SleepsLongEnough

\* No byte reaches channel 2 while the speaker plays it.
THEOREM NoRetune == Spec => NeverRetunedWhileOn
<1>1. IInv /\ [Next]_vars => (chan'[2] # chan[2] => port61 # {0, 1})
  <2> SUFFICES ASSUME IInv, [Next]_vars, port61 = {0, 1}
               PROVE  chan'[2] = chan[2]
    OBVIOUS
  <2>1. pc \in 11..14
    BY DEF IInv, Speaker
  <2>2. CASE Edge
    BY <2>2 DEF Edge, IInv, TypeInv
  <2>. QED
    BY <2>1, <2>2, ChannelStep, Sent DEF IInv
<1>. QED
  BY <1>1, Inductive, PTL DEF Spec, NeverRetunedWhileOn

-----------------------------------------------------------------------------

\* The passes of the loop are counted up to Beeps.
Passes == beeps <= Beeps /\ (pc < 21 => beeps < Beeps)

\* What kmain has still to execute: what is left of the pass, and the other passes.
Ahead == 16 * (Beeps - beeps) + (21 - pc)

\* What the clock has still to do before the longest sleep ends: each tick is raised,
\* taken and counted.
Due == 3 * (Longest - since) + 3 - Owed(pending) - 2 * Owed(serving)

Sleeping == pc \in {12, 19} /\ since < kmain[pc].for

\* Every step of kmain's brings it nearer to the idle loop, and while it sleeps every
\* step of the clock brings its tick count nearer to the end of the sleep, but for a
\* period that ends while another still waits; with AL saved the channel runs on, so
\* there is such a step: what is missing to BeepsEnd is only that they are taken.
THEOREM BeepsForward ==
    Spec => /\ [](Ahead \in Nat /\ Due \in Nat /\ (Sleeping /\ ~clobber => chan[0].live))
            /\ [][\/ Ahead' < Ahead
                  \/ /\ Ahead' = Ahead
                     /\ Sleeping => Due' < Due \/ (Edge /\ pending)]_vars
<1> DEFINE Nearer == \/ Ahead' < Ahead
                     \/ /\ Ahead' = Ahead
                        /\ Sleeping => Due' < Due \/ (Edge /\ pending)
           Sound == Ahead \in Nat /\ Due \in Nat /\ (Sleeping /\ ~clobber => chan[0].live)
<1>1. Init => Passes
  BY TimerAssumption DEF Init, Passes
<1>2. ASSUME IInv, Passes, [Next]_vars
      PROVE  Passes'
  <2>1. pc \in 1..21 /\ beeps \in Nat /\ Beeps \in Nat
    BY <1>2, TimerAssumption DEF IInv, TypeInv
  <2>2. CASE LoopAgain
    BY <1>2, <2>1, <2>2, Steps DEF LoopAgain, At, Passes
  <2>3. CASE beeps' = beeps /\ (pc' = pc \/ (pc < 20 /\ pc' = pc + 1))
    BY <1>2, <2>1, <2>3 DEF Passes
  <2>4. CASE OutByte \/ ReadPort61 \/ WritePort61 \/ TakeSnapshot \/ EndWait
    <3>1. beeps' = beeps /\ pc' = pc + 1 /\ pc < 21 /\ kmain[pc].op # "loop"
      BY <2>4, Steps DEF OutByte, ReadPort61, WritePort61, TakeSnapshot, EndWait, At
    <3>2. pc < 20
      BY <2>1, <3>1, Steps
    <3>. QED
      BY <2>3, <3>1, <3>2
  <2>5. CASE Edge \/ Take \/ Count \/ UNCHANGED vars
    BY <2>3, <2>5 DEF Edge, Take, Count, main, vars
  <2>. QED
    BY <1>2, <2>2, <2>4, <2>5 DEF Next, Main
<1>3. ASSUME IInv, Passes
      PROVE  Sound
  <2>1. /\ pc \in 1..21 /\ beeps \in Nat /\ Beeps \in Nat /\ since \in Int
        /\ since <= Longest /\ Longest \in Nat
    BY <1>3, TimerAssumption DEF IInv, TypeInv, Longest
  <2>2. Ahead \in Nat
    BY <1>3, <2>1 DEF Passes, Ahead
  <2>3. Due \in Nat
    BY <2>1 DEF Due, Owed
  <2>4. Sleeping /\ ~clobber => chan[0].live
    BY <1>3 DEF IInv, Clock, Sleeping
  <2>. QED
    BY <2>2, <2>3, <2>4
<1>4. ASSUME IInv, [Next]_vars
      PROVE  [Nearer]_vars
  <2> SUFFICES ASSUME Next
               PROVE  Nearer
    BY <1>4
  <2>1. /\ pc \in 1..21 /\ beeps \in Nat /\ Beeps \in Nat /\ since \in Int
        /\ since <= Longest /\ Longest \in Nat /\ BeepTicks <= Longest /\ GapTicks <= Longest
    BY <1>4, TimerAssumption DEF IInv, TypeInv, Longest
  <2>2. CASE OutByte \/ ReadPort61 \/ WritePort61 \/ TakeSnapshot \/ EndWait
    <3>1. beeps' = beeps /\ pc' = pc + 1
      BY <2>2 DEF OutByte, ReadPort61, WritePort61, TakeSnapshot, EndWait
    <3>. QED
      BY <2>1, <3>1 DEF Ahead
  <2>3. CASE LoopAgain
    <3>1. beeps' = beeps + 1 /\ pc = 20 /\ (pc' = 6 \/ pc' = 21)
      BY <2>1, <2>3, Steps DEF LoopAgain, At
    <3>2. CASE pc' = 6
      BY <2>1, <3>1, <3>2 DEF Ahead
    <3>3. CASE pc' = 21
      BY <2>1, <3>1, <3>3 DEF Ahead
    <3>. QED
      BY <3>1, <3>2, <3>3
  <2>4. CASE Edge \/ Take \/ Count
    <3>1. Ahead' = Ahead
      BY <2>4 DEF Edge, Take, Count, main, Ahead
    <3>2. ASSUME Sleeping, ~(Edge /\ pending)
          PROVE  Due' < Due
      <4>1. since < Longest
        <5>1. BeepTicks \in Nat /\ GapTicks \in Nat
          BY TimerAssumption
        <5>2. since < BeepTicks \/ since < GapTicks
          BY <3>2, Steps DEF Sleeping
        <5>. QED
          BY <2>1, <5>1, <5>2
      <4>2. CASE Edge
        BY <2>1, <3>2, <4>2 DEF Edge, Due, Owed
      <4>3. CASE Take
        BY <2>1, <4>3 DEF Take, Due, Owed
      <4>4. CASE Count
        BY <2>1, <4>1, <4>4 DEF Count, Due, Owed, Capped
      <4>. QED
        BY <2>4, <4>2, <4>3, <4>4
    <3>. QED
      BY <3>1, <3>2
  <2>. QED
    BY <2>2, <2>3, <2>4 DEF Next, Main
<1>5. Spec => []Passes
  BY <1>1, <1>2, Inductive, PTL DEF Spec
<1>6. Spec => []Sound
  BY <1>3, <1>5, Inductive, PTL
<1>7. Spec => [][Nearer]_vars
  BY <1>4, Inductive, PTL DEF Spec
<1>. QED
  BY <1>6, <1>7, PTL
=============================================================================
