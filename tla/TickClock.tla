----------------------------- MODULE TickClock -----------------------------
(***************************************************************************)
(* What the timer interrupt promises to the rest of the kernel.  A         *)
(* hardware clock produces periods; at most one of them waits to be        *)
(* served, the others are missed; a served period is counted exactly once  *)
(* in ticks, the only clock PIT_sleep and PIT_get_ticks can read.          *)
(* Interrupts.tla is shown to implement this module; Timer.tla is written  *)
(* against its Edge, Take and Count.                                       *)
(***************************************************************************)
EXTENDS Naturals

CONSTANT MaxPeriods     \* bound on the periods a behaviour explores

VARIABLES
    status,     \* "off" before the PIC is set up, "on" after, "dead" in panic
    periods,    \* periods of the hardware clock so far
    pending,    \* a period waits to be served
    serving,    \* a period was accepted and is not counted yet
    ticks,      \* periods counted
    missed      \* periods that will never be counted

clockVars == <<status, periods, pending, serving, ticks, missed>>

ClockInit ==
    /\ status = "off"
    /\ periods = 0 /\ ticks = 0 /\ missed = 0
    /\ pending = FALSE /\ serving = FALSE

One(b) == IF b THEN 1 ELSE 0

\* A period ends; if the previous one still waits, this one is missed.
Edge ==
    /\ periods < MaxPeriods
    /\ periods' = periods + 1
    /\ pending' = TRUE
    /\ missed' = missed + One(pending)
    /\ UNCHANGED <<status, serving, ticks>>

\* The interrupt controller is (re)programmed: what waited is forgotten.
Arm ==
    /\ status = "off"
    /\ status' = "on"
    /\ pending' = FALSE
    /\ missed' = missed + One(pending)
    /\ UNCHANGED <<periods, serving, ticks>>

\* The waiting period is accepted.
Take ==
    /\ status = "on" /\ pending /\ ~serving
    /\ pending' = FALSE
    /\ serving' = TRUE
    /\ UNCHANGED <<status, periods, ticks, missed>>

\* The accepted period is counted.
Count ==
    /\ status = "on" /\ serving
    /\ serving' = FALSE
    /\ ticks' = ticks + 1
    /\ UNCHANGED <<status, periods, pending, missed>>

\* The kernel panics, which no accepted period can make it do: nothing is
\* counted any more.
Die ==
    /\ status # "dead" /\ ~serving
    /\ status' = "dead"
    /\ UNCHANGED <<periods, pending, serving, ticks, missed>>

ClockNext == Edge \/ Arm \/ Take \/ Count \/ Die

ClockSpec == ClockInit /\ [][ClockNext]_clockVars

\* With the fairness of a processor that keeps executing.
ClockFairSpec == ClockSpec /\ WF_clockVars(Take) /\ WF_clockVars(Count)
=============================================================================
