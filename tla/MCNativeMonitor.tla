--------------------------- MODULE MCNativeMonitor ---------------------------
(* NativeMonitor for TLC. *)
EXTENDS NativeMonitor
==============================================================================
