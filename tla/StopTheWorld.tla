---------------------------- MODULE StopTheWorld ----------------------------
(***************************************************************************)
(* What a safepoint promises: while it is synchronized no Java thread runs *)
(* in Java or in the VM.  A thread may leave at any time and may come back *)
(* only while no safepoint is synchronized.                                *)
(***************************************************************************)
CONSTANT Threads

VARIABLES phase,      \* "not_synchronized", "synchronizing", "synchronized"
          mutators    \* the threads that run in Java or in the VM

Init == phase = "not_synchronized" /\ mutators = {}

Begin == /\ phase = "not_synchronized"
         /\ phase' = "synchronizing" /\ UNCHANGED mutators

Reach == /\ phase = "synchronizing" /\ mutators = {}
         /\ phase' = "synchronized" /\ UNCHANGED mutators

End == /\ phase = "synchronized"
       /\ phase' = "not_synchronized" /\ UNCHANGED mutators

Enter(t) == /\ phase # "synchronized"
            /\ mutators' = mutators \cup {t} /\ UNCHANGED phase

Leave(t) == mutators' = mutators \ {t} /\ UNCHANGED phase

Next == Begin \/ Reach \/ End \/ \E t \in Threads : Enter(t) \/ Leave(t)

Spec == Init /\ [][Next]_<<phase, mutators>>
=============================================================================
