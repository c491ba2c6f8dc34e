--------------------------- MODULE MCObjectMonitor ---------------------------
(* ObjectMonitor for TLC. *)
EXTENDS ObjectMonitor
==============================================================================
