---------------------------- MODULE MCSynchronizer ---------------------------
(***************************************************************************)
(* Two threads and one object; ObjectMonitors come in two blocks.          *)
(***************************************************************************)
EXTENDS Synchronizer

CONSTANTS t1, t2, m1, m2, m3, h1, h2

MCBlocks == {{m1, m2}, {m3}}
==============================================================================
