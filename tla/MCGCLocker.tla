----------------------------- MODULE MCGCLocker ------------------------------
(* GCLocker with three Java threads.                                       *)
EXTENDS GCLocker
=============================================================================
