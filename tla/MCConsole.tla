----------------------------- MODULE MCConsole -----------------------------
(* A screen of two or three characters per line. *)
EXTENDS Console
=============================================================================
