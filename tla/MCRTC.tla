------------------------------- MODULE MCRTC -------------------------------
(* Hours of two minutes of two seconds, two months of two days. *)
EXTENDS RTC
=============================================================================
