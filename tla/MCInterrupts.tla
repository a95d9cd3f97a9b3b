--------------------------- MODULE MCInterrupts ---------------------------
(* Machines on which Interrupts is model-checked. *)
EXTENDS Interrupts

\* The timer, the keyboard, a serial port, and both disk channels.
PCLines == {0, 1, 4, 14, 15}

BothGlitches == {7, 15}
=============================================================================
