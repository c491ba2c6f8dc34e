----------------------------- MODULE ParkPermit -----------------------------
(***************************************************************************)
(* What a ParkEvent promises to the code that blocks on it: a restricted-  *)
(* range semaphore with one permit and one thread that may wait for it.    *)
(* unpark() makes the permit available, park() takes it and blocks while   *)
(* it is not available, park(millis) may give up.  Giving up also takes a  *)
(* permit that arrives at the last moment (os_linux.cpp:6064-6067 tests    *)
(* _Event before it stores 0 into it), so a timed park may report a        *)
(* timeout and still swallow an unpark.                                    *)
(***************************************************************************)
VARIABLES permit,   \* BOOLEAN: an unpark has not been consumed yet
          parked,   \* BOOLEAN: the owner is blocked in park
          timed     \* BOOLEAN: ... in park(millis)

vars == <<permit, parked, timed>>

TypeOK == permit \in BOOLEAN /\ parked \in BOOLEAN /\ timed \in BOOLEAN

Init == permit = FALSE /\ parked = FALSE /\ timed = FALSE

Unpark == permit' = TRUE /\ UNCHANGED <<parked, timed>>

\* TryPark(), reset() and a park that finds the permit: no blocking.
Consume == ~parked /\ permit' = FALSE /\ UNCHANGED <<parked, timed>>

Block ==
  /\ ~parked /\ ~permit
  /\ parked' = TRUE /\ timed' \in BOOLEAN
  /\ UNCHANGED permit

Release ==
  /\ parked /\ permit
  /\ parked' = FALSE /\ permit' = FALSE /\ timed' = FALSE

GiveUp ==
  /\ parked /\ timed
  /\ parked' = FALSE /\ permit' = FALSE /\ timed' = FALSE

Next == Unpark \/ Consume \/ Block \/ Release \/ GiveUp

\* A permit that stays available to a blocked owner releases it.
Spec == Init /\ [][Next]_vars /\ WF_vars(Release)
=============================================================================
