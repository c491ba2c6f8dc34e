------------------------ MODULE MCG1ConcurrentCycle -------------------------
(* G1ConcurrentCycle with one refinement thread.                           *)
EXTENDS G1ConcurrentCycle
=============================================================================
