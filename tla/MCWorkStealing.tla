--------------------------- MODULE MCWorkStealing ----------------------------
(* WorkStealing with three workers.                                        *)
EXTENDS WorkStealing
=============================================================================
