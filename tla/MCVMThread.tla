----------------------------- MODULE MCVMThread ------------------------------
(* VMThread with a Java thread that requests safepoints, waiting for them or  *)
(* not, and a GC thread that also requests operations without one.            *)
EXTENDS VMThread

CONSTANTS j1, g1, gc, async, force, print

MCCaller == [o \in Ops |-> IF o \in {async, force} THEN j1 ELSE g1]

MCMode == [o \in Ops |-> CASE o \in {gc, force} -> "safepoint"
                           [] o = async -> "async_safepoint"
                           [] o = print -> "no_safepoint"]
==============================================================================
