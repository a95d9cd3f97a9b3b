------------------------------ MODULE MCTimer ------------------------------
(* The beep loop with short tones and pauses. *)
EXTENDS Timer
=============================================================================
