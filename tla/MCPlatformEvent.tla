-------------------------- MODULE MCPlatformEvent ---------------------------
(* PlatformEvent with an owner and a few unparkers.                        *)
EXTENDS PlatformEvent
=============================================================================
