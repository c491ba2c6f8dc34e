----------------------- MODULE G1ConcurrentCycleProofs -----------------------
(***************************************************************************)
(* Theorems about G1ConcurrentCycle for every set of threads and every     *)
(* bound: what a cycle starts from, what an abort leaves behind, when a    *)
(* root region scan is cut short, and that no thread of the suspendible    *)
(* thread set runs while the VM thread is in a pause.                      *)
(***************************************************************************)
EXTENDS G1ConcurrentCycle, FiniteSetTheorems, TLAPS

(***************************************************************************)
(* The suspendible thread set by itself.                                   *)
(***************************************************************************)
\* _suspend_all is set exactly from synchronize() to desynchronize().
SuspendInv == suspend_all <=> vpc # "idle"

IInv == TypeOK /\ CountsExact /\ SuspendInv /\ NoMemberRuns /\ NoLostNotify

\* Both sets are finite, so they can be counted.
LEMMA SetsFinite ==
    /\ IsFiniteSet(Members) /\ IsFiniteSet(Stopped)
    /\ IsFiniteSet(Members') /\ IsFiniteSet(Stopped')
    /\ Stopped \in SUBSET Members
<1>1. /\ Members \in SUBSET GCThreads /\ Stopped \in SUBSET GCThreads
      /\ Members' \in SUBSET GCThreads /\ Stopped' \in SUBSET GCThreads
      /\ Stopped \in SUBSET Members
  BY DEF Members, Stopped
<1> QED BY <1>1, FS_Subset, SuspendibleThreadSetAssumption

\* How a step changes the sets and the counters: exactly one member joins,
\* leaves, stops or goes on, or none does.
LEMMA SetsNext ==
    ASSUME IInv, [Next]_vars
    PROVE  \/ /\ Members' = Members /\ Stopped' = Stopped /\ UNCHANGED counts
           \/ \E t \in GCThreads :
                /\ t \notin Members /\ Members' = Members \cup {t}
                /\ nthreads' = nthreads + 1
                /\ Stopped' = Stopped /\ nthreads_stopped' = nthreads_stopped
           \/ \E t \in GCThreads :
                /\ t \in Members /\ Members' = Members \ {t}
                /\ nthreads' = nthreads - 1
                /\ Stopped' = Stopped /\ nthreads_stopped' = nthreads_stopped
           \/ \E t \in GCThreads :
                /\ Members' = Members /\ nthreads' = nthreads
                /\ t \notin Stopped /\ Stopped' = Stopped \cup {t}
                /\ nthreads_stopped' = nthreads_stopped + 1
           \/ \E t \in GCThreads :
                /\ Members' = Members /\ nthreads' = nthreads
                /\ t \in Stopped /\ Stopped' = Stopped \ {t}
                /\ nthreads_stopped' = nthreads_stopped - 1
<1> DEFINE Same == Members' = Members /\ Stopped' = Stopped /\ UNCHANGED counts
           Stops(t) == /\ Members' = Members /\ nthreads' = nthreads
                       /\ t \notin Stopped /\ Stopped' = Stopped \cup {t}
                       /\ nthreads_stopped' = nthreads_stopped + 1
           Joins(t) == /\ t \notin Members /\ Members' = Members \cup {t}
                       /\ nthreads' = nthreads + 1
                       /\ Stopped' = Stopped
                       /\ nthreads_stopped' = nthreads_stopped
<1> USE DEF IInv, TypeOK, Labels, Members, Stopped, counts, Goto
<1>1. ASSUME NEW t \in GCThreads, join(t) PROVE Same \/ Joins(t)
  <2>1. CASE suspend_all
    BY <1>1, <2>1 DEF join
  <2>2. CASE ~suspend_all
    BY <1>1, <2>2 DEF join
  <2> QED BY <2>1, <2>2
<1>2. ASSUME NEW t \in GCThreads, leave(t)
      PROVE  /\ t \in Members /\ Members' = Members \ {t}
             /\ nthreads' = nthreads - 1
             /\ Stopped' = Stopped /\ nthreads_stopped' = nthreads_stopped
  BY <1>2 DEF leave
<1>3. ASSUME NEW t \in GCThreads, yield(t) PROVE Same
  BY <1>3 DEF yield
<1>4. ASSUME NEW t \in GCThreads, yield_stop(t) PROVE Same \/ Stops(t)
  <2>1. CASE suspend_all
    BY <1>4, <2>1 DEF yield_stop
  <2>2. CASE ~suspend_all
    BY <1>4, <2>2 DEF yield_stop
  <2> QED BY <2>1, <2>2
<1>5. ASSUME NEW t \in GCThreads, yield_wait(t) PROVE Same
  BY <1>5 DEF yield_wait
<1>6. ASSUME NEW t \in GCThreads, yield_resume(t)
      PROVE  /\ Members' = Members /\ nthreads' = nthreads
             /\ t \in Stopped /\ Stopped' = Stopped \ {t}
             /\ nthreads_stopped' = nthreads_stopped - 1
  BY <1>6 DEF yield_resume
<1>7. ASSUME synchronize \/ synchronize_wait \/ desynchronize \/ UNCHANGED vars
      PROVE  Same
  BY <1>7 DEF synchronize, synchronize_wait, desynchronize, AwaitStopped, vars
<1> HIDE DEF IInv, TypeOK, Labels, Members, Stopped, counts, Goto
<1> QED
  BY <1>1, <1>2, <1>3, <1>4, <1>5, <1>6, <1>7 DEF Next, Proceed

\* The counters stay exact and never go below zero.
LEMMA CountsNext ==
    ASSUME IInv, [Next]_vars
    PROVE  CountsExact' /\ nthreads' \in Nat /\ nthreads_stopped' \in Nat
<1>1. /\ nthreads = Cardinality(Members)
      /\ nthreads_stopped = Cardinality(Stopped)
  BY DEF IInv, CountsExact
<1>2. /\ Cardinality(Members') \in Nat /\ Cardinality(Stopped') \in Nat
  BY SetsFinite, FS_CardinalityType
<1>3. CASE Members' = Members /\ Stopped' = Stopped /\ UNCHANGED counts
  BY <1>1, <1>2, <1>3 DEF CountsExact, counts
<1>4. ASSUME NEW t \in GCThreads, t \notin Members, Members' = Members \cup {t},
             nthreads' = nthreads + 1, Stopped' = Stopped,
             nthreads_stopped' = nthreads_stopped
      PROVE  CountsExact'
  BY <1>1, <1>4, SetsFinite, FS_AddElement DEF CountsExact
<1>5. ASSUME NEW t \in GCThreads, t \in Members, Members' = Members \ {t},
             nthreads' = nthreads - 1, Stopped' = Stopped,
             nthreads_stopped' = nthreads_stopped
      PROVE  CountsExact'
  BY <1>1, <1>5, SetsFinite, FS_RemoveElement DEF CountsExact
<1>6. ASSUME NEW t \in GCThreads, Members' = Members, nthreads' = nthreads,
             t \notin Stopped, Stopped' = Stopped \cup {t},
             nthreads_stopped' = nthreads_stopped + 1
      PROVE  CountsExact'
  BY <1>1, <1>6, SetsFinite, FS_AddElement DEF CountsExact
<1>7. ASSUME NEW t \in GCThreads, Members' = Members, nthreads' = nthreads,
             t \in Stopped, Stopped' = Stopped \ {t},
             nthreads_stopped' = nthreads_stopped - 1
      PROVE  CountsExact'
  BY <1>1, <1>7, SetsFinite, FS_RemoveElement DEF CountsExact
<1>8. CountsExact'
  BY <1>3, <1>4, <1>5, <1>6, <1>7, SetsNext
<1> QED BY <1>2, <1>8 DEF CountsExact

\* Every step keeps the types.
LEMMA TypeOKNext == ASSUME IInv, [Next]_vars PROVE TypeOK'
<1>1. nthreads' \in Nat /\ nthreads_stopped' \in Nat
  BY CountsNext
<1> USE <1>1 DEF IInv, TypeOK, Labels, Goto, notify_all, counts
<1>2. ASSUME NEW t \in GCThreads, join(t) PROVE TypeOK'
  BY <1>2 DEF join
<1>3. ASSUME NEW t \in GCThreads, leave(t) PROVE TypeOK'
  BY <1>3 DEF leave
<1>4. ASSUME NEW t \in GCThreads, Proceed(t) PROVE TypeOK'
  BY <1>2, <1>4 DEF Proceed, yield, yield_stop, yield_wait, yield_resume
<1>5. CASE synchronize \/ synchronize_wait \/ desynchronize \/ UNCHANGED vars
  BY <1>5, Zenon DEF synchronize, synchronize_wait, desynchronize, AwaitStopped, vars
<1> QED BY <1>2, <1>3, <1>4, <1>5 DEF Next

\* Every step keeps _suspend_all and the VM thread in step.
LEMMA SuspendInvNext == ASSUME IInv, [Next]_vars PROVE SuspendInv'
<1> USE DEF IInv, TypeOK, SuspendInv
<1>1. ASSUME NEW t \in GCThreads, join(t) \/ leave(t) \/ Proceed(t)
      PROVE  SuspendInv'
  BY <1>1 DEF join, leave, Proceed, yield, yield_stop, yield_wait, yield_resume
<1>2. CASE synchronize \/ synchronize_wait \/ desynchronize \/ UNCHANGED vars
  BY <1>2 DEF synchronize, synchronize_wait, desynchronize, AwaitStopped, vars
<1> QED BY <1>1, <1>2 DEF Next

\* Counting the stopped members tells whether all are.
LEMMA AllStopped ==
    ASSUME IInv
    PROVE  /\ nthreads_stopped < nthreads <=> Members # Stopped
           /\ Members = Stopped <=> nthreads_stopped = nthreads
<1>1. /\ Cardinality(Members) \in Nat /\ Cardinality(Stopped) \in Nat
      /\ Cardinality(Stopped) <= Cardinality(Members)
      /\ Cardinality(Members) = Cardinality(Stopped) => Members = Stopped
  BY SetsFinite, FS_Subset, FS_CardinalityType
<1> QED BY <1>1 DEF IInv, CountsExact

\* Nothing starts to run once all are stopped, and synchronize() returns only
\* then.
LEMMA NoMemberRunsNext == ASSUME IInv, [Next]_vars PROVE NoMemberRuns'
<1> DEFINE Quiet == Members' = Stopped' /\ nthreads_stopped' = nthreads'
<1>1. ASSUME NEW t \in GCThreads, join(t) \/ leave(t) \/ Proceed(t),
             vpc' = "synchronized"
      PROVE  Quiet
  <2>1. vpc = "synchronized"
    BY <1>1
    DEF join, leave, Proceed, yield, yield_stop, yield_wait, yield_resume
  <2>2. Members = Stopped /\ nthreads_stopped = nthreads /\ suspend_all
    BY <2>1 DEF IInv, NoMemberRuns, SuspendInv
  <2>3. pc[t] \notin {"running", "yielding"}
    BY <2>2 DEF Members, Stopped
  <2>4. ~leave(t) /\ ~yield(t) /\ ~yield_stop(t) /\ ~yield_resume(t)
    BY <2>2, <2>3, Zenon DEF leave, yield, yield_stop, yield_resume
  <2>5. CASE join(t)
    BY <2>2, <2>5 DEF join, Members, Stopped, Goto, IInv, TypeOK
  <2>6. CASE yield_wait(t)
    BY <2>2, <2>6 DEF yield_wait, Members, Stopped, counts
  <2> QED BY <1>1, <2>4, <2>5, <2>6 DEF Proceed
<1>2. CASE synchronize \/ synchronize_wait
  <2>1. UNCHANGED <<nthreads, nthreads_stopped, pc>>
    BY <1>2 DEF synchronize, synchronize_wait, AwaitStopped, counts
  <2>2. vpc' = "synchronized" => ~(nthreads_stopped < nthreads)
    BY <1>2 DEF synchronize, synchronize_wait, AwaitStopped
  <2>3. vpc' = "synchronized" => Quiet
    BY <2>1, <2>2, AllStopped DEF Members, Stopped
  <2> QED BY <2>3 DEF NoMemberRuns
<1>3. CASE desynchronize
  BY <1>3 DEF desynchronize, NoMemberRuns
<1>4. CASE UNCHANGED vars
  BY <1>4 DEF vars, IInv, NoMemberRuns, Members, Stopped
<1> QED BY <1>1, <1>2, <1>3, <1>4 DEF Next, NoMemberRuns

\* Whoever makes the VM thread's wait pointless notifies it, and nobody waits
\* without a synchronize() in progress.
LEMMA NoLostNotifyNext == ASSUME IInv, [Next]_vars PROVE NoLostNotify'
<1> USE SuspendibleThreadSetAssumption
    DEF IInv, TypeOK, Labels, SuspendInv, NoLostNotify, Members, Stopped, Goto,
        notify_all, counts
<1>1. ASSUME NEW t \in GCThreads, join(t) PROVE NoLostNotify'
  BY <1>1 DEF join
<1>2. ASSUME NEW t \in GCThreads, leave(t) PROVE NoLostNotify'
  BY <1>2 DEF leave
<1>3. ASSUME NEW t \in GCThreads, yield(t) PROVE NoLostNotify'
  BY <1>3 DEF yield
<1>4. ASSUME NEW t \in GCThreads, yield_stop(t) PROVE NoLostNotify'
  BY <1>4 DEF yield_stop
<1>5. ASSUME NEW t \in GCThreads, yield_wait(t) PROVE NoLostNotify'
  BY <1>5 DEF yield_wait
<1>6. ASSUME NEW t \in GCThreads, yield_resume(t) PROVE NoLostNotify'
  BY <1>6 DEF yield_resume
<1>7. CASE synchronize
  BY <1>7, AllStopped DEF synchronize, AwaitStopped
<1>8. CASE synchronize_wait
  BY <1>8, AllStopped DEF synchronize_wait, AwaitStopped
<1>9. CASE desynchronize
  BY <1>9 DEF desynchronize
<1>10. CASE UNCHANGED vars
  BY <1>10 DEF vars
<1> HIDE DEF IInv, TypeOK, Labels, SuspendInv, NoLostNotify, Members, Stopped,
        Goto, notify_all, counts
<1> QED BY <1>1, <1>2, <1>3, <1>4, <1>5, <1>6, <1>7, <1>8, <1>9, <1>10
        DEF Next, Proceed

\* IInv is an invariant of every execution.
LEMMA Invariant == Spec => []IInv
<1>1. ASSUME Init PROVE IInv
  <2>1. Members = {} /\ Stopped = {}
    BY <1>1 DEF Init, Members, Stopped
  <2>2. CountsExact
    BY <1>1, <2>1, FS_EmptySet DEF Init, CountsExact
  <2>3. TypeOK /\ SuspendInv /\ NoMemberRuns /\ NoLostNotify
    BY <1>1, Zenon DEF Init, TypeOK, Labels, SuspendInv, NoMemberRuns, NoLostNotify
  <2> QED BY <2>2, <2>3 DEF IInv
<1>2. ASSUME IInv, [Next]_vars PROVE IInv'
  BY <1>2, TypeOKNext, CountsNext, SuspendInvNext, NoMemberRunsNext,
     NoLostNotifyNext DEF IInv
<1> QED BY <1>1, <1>2, PTL DEF Spec

\* _nthreads and _nthreads_stopped count the members and the stopped ones, for
\* any number of threads.
THEOREM CountsExactSafe == Spec => []CountsExact
<1>1. IInv => CountsExact
  BY DEF IInv
<1> QED BY <1>1, Invariant, PTL

\* Between synchronize() and desynchronize() no member of the set runs, for any
\* number of threads.
THEOREM NoMemberRunsSafe == Spec => []NoMemberRuns
<1>1. IInv => NoMemberRuns
  BY DEF IInv
<1> QED BY <1>1, Invariant, PTL

\* No notification on STS_lock is lost, for any number of threads.
THEOREM NoLostNotifySafe == Spec => []NoLostNotify
<1>1. IInv => NoLostNotify
  BY DEF IInv
<1> QED BY <1>1, Invariant, PTL

(***************************************************************************)
(* The concurrent cycle.                                                   *)
(***************************************************************************)
ScanLabels == {"start", "scan", "claim", "finish"}
MarkLabels == {"loop", "mark_join", "mark", "marked", "remark", "again"}
DoneLabels == {"marking_done", "cleanup", "complete_join", "complete"}
FreeLabels == {"freeing", "complete_cleanup", "reset", "record_join", "record",
               "recorded", "clear_join", "clear"}
EndLabels  == {"end_join", "end"}
IdleLabels == {"sleep", "terminated"}

\* Where a VM operation is: an initial mark is under way only from the decision
\* for it to the end of its pause, remark and cleanup have the concurrent mark
\* thread waiting, and a full collection goes on once no region is coming.
OpInv ==
    /\ vop = "none" => vst = "done"
    /\ during_initial_mark => /\ vop \in {"young", "concurrent"}
                              /\ vst \in {"wait_roots", "evacuate", "need_region",
                                         "evacuated"}
                              /\ ~during_cycle
    /\ vst = "start_cm" => ~during_cycle
    /\ vop \in {"remark", "cleanup"} /\ vst # "done" => cmpc = vop
    /\ vop = "full" /\ vst \in {"abort_scan", "wait_roots", "collect"} =>
           ~free_regions_coming
    /\ vst = "collect" => vop = "full" /\ has_aborted

\* What abort() reset stays reset until the next initial mark, which begins only
\* after the flag has been cleared.
AbortInv ==
    /\ has_aborted => /\ dirty = 0 /\ ~satb_active /\ ~free_regions_coming
                      /\ ~scan_in_progress
    /\ has_aborted /\ vst # "collect" => ~last_young_gc /\ ~in_marking_window
    /\ during_initial_mark /\ vst # "wait_roots" => ~has_aborted

\* A root region scan is told to give up only while a full collection waits.
ScanInv ==
    /\ next_survivor \in Nat
    /\ ~scan_in_progress => next_survivor = 0
    /\ cmpc \in {"claim", "finish"} => scan_in_progress
    /\ scan_in_progress /\ should_abort => vop = "full" /\ vst = "wait_roots"
    /\ cmpc = "finish" /\ next_survivor > 0 => should_abort

\* What the concurrent mark thread has put in order, phase by phase.
PhaseInv ==
    /\ cmpc = "sleep" => ~in_progress
    /\ ~in_progress => cmpc \in IdleLabels
    /\ cmpc \in MarkLabels \cup DoneLabels \cup FreeLabels \cup EndLabels =>
           ~scan_in_progress
    /\ cmpc = "again" => restart_for_overflow \/ ~satb_active
    /\ cmpc \in DoneLabels \cup FreeLabels \cup EndLabels => ~satb_active
    /\ cmpc \in FreeLabels \cup EndLabels => ~mark_in_progress
    /\ cmpc \in EndLabels => dirty = 0
    /\ ~during_cycle /\ vst # "start_cm" =>
           dirty = 0 /\ ~satb_active /\ ~mark_in_progress /\ ~scan_in_progress

CycleInv == OpInv /\ AbortInv /\ ScanInv /\ PhaseInv

-----------------------------------------------------------------------------
\* The cycle starts idle, with nothing marked, scanned or aborted.
LEMMA CycleInvInit == ASSUME CycleInit PROVE CycleInv
<1>1. OpInv /\ AbortInv
  BY DEF CycleInit, OpInv, AbortInv, during_cycle
<1>2. ScanInv
  BY DEF CycleInit, ScanInv
<1>3. PhaseInv
  BY DEF CycleInit, PhaseInv, during_cycle, ScanLabels, MarkLabels, DoneLabels, FreeLabels, EndLabels, IdleLabels
<1> QED BY <1>1, <1>2, <1>3 DEF CycleInv

\* Steps that change nothing but where the concurrent mark thread is.
LEMMA BranchKeepsInv ==
    ASSUME CycleInv,
           \/ StartScan \/ scanRootRegions \/ Marked \/ MarkAgain \/ MarkingDone
           \/ Freeing \/ Recorded
    PROVE  CycleInv'
<1> DEFINE Kept == OpInv' /\ AbortInv' /\ ScanInv' /\ PhaseInv'
<1>0. OpInv /\ AbortInv /\ ScanInv /\ PhaseInv
  BY Zenon DEF CycleInv
<1> USE <1>0 DEF OpInv, AbortInv, ScanInv, PhaseInv, during_cycle, ScanLabels, MarkLabels,
        DoneLabels, FreeLabels, EndLabels, IdleLabels, At, To, thread, roots, mark, regions,
        policy, op
<1>1. ASSUME StartScan PROVE Kept
  BY <1>1, Zenon DEF StartScan, Branch
<1>2. ASSUME scanRootRegions PROVE Kept
  BY <1>2, Zenon DEF scanRootRegions, Branch
<1>3. ASSUME Marked PROVE Kept
  BY <1>3, Zenon DEF Marked, Branch
<1>4. ASSUME MarkAgain PROVE Kept
  BY <1>4, Zenon DEF MarkAgain, Branch
<1>5. ASSUME MarkingDone PROVE Kept
  BY <1>5, Zenon DEF MarkingDone, Branch
<1>6. ASSUME Freeing PROVE Kept
  BY <1>6, Zenon DEF Freeing, Branch
<1>7. ASSUME Recorded PROVE Kept
  BY <1>7, Zenon DEF Recorded, Branch
<1> HIDE <1>0 DEF OpInv, AbortInv, ScanInv, PhaseInv
<1> QED
  BY <1>1, <1>2, <1>3, <1>4, <1>5, <1>6, <1>7, Zenon DEF CycleInv

\* Every step of the concurrent mark thread keeps the invariant.
LEMMA CMStepKeepsInv ==
    ASSUME CycleInv, CMStep
    PROVE  CycleInv'
<1> DEFINE Kept == OpInv' /\ AbortInv' /\ ScanInv' /\ PhaseInv'
<1>0. OpInv /\ AbortInv /\ ScanInv /\ PhaseInv
  BY Zenon DEF CycleInv
<1> USE <1>0 DEF OpInv, AbortInv, ScanInv, PhaseInv, during_cycle, ScanLabels, MarkLabels,
        DoneLabels, FreeLabels, EndLabels, IdleLabels, At, To, thread, roots, mark, regions,
        policy, op
<1>1. ASSUME sleepBeforeNextCycle PROVE Kept
  BY <1>1 DEF sleepBeforeNextCycle
<1>2. ASSUME claim_next PROVE Kept
  BY <1>2 DEF claim_next
<1>3. ASSUME scan_finished PROVE Kept
  BY <1>3, Zenon DEF scan_finished
<1>4. ASSUME markFromRoots PROVE Kept
  BY <1>4, Zenon DEF markFromRoots
<1>5. ASSUME MarkingStep PROVE Kept
  BY <1>5, Zenon DEF MarkingStep
<1>6. ASSUME set_marking_complete PROVE Kept
  BY <1>6, Zenon DEF set_marking_complete
<1>7. ASSUME completeCleanup PROVE Kept
  BY <1>7, Zenon DEF completeCleanup
<1>8. ASSUME reset_free_regions_coming PROVE Kept
  BY <1>8, Zenon DEF reset_free_regions_coming
<1>9. ASSUME record_cleanup_completed PROVE Kept
  BY <1>9, Zenon DEF record_cleanup_completed
<1>10. ASSUME ClearChunk PROVE Kept
  BY <1>10 DEF ClearChunk
<1>11. ASSUME ClearDone PROVE Kept
  BY <1>11, Zenon DEF ClearDone
<1>12. ASSUME EndCycle PROVE Kept
  BY <1>12, Zenon DEF EndCycle
<1>13. ASSUME Yield PROVE Kept
  BY <1>13, Zenon DEF Yield, cycleVars
<1>14. ASSUME Join("mark_join", "mark") PROVE Kept
  BY <1>14, Zenon DEF Join
<1>15. ASSUME Join("complete_join", "complete") PROVE Kept
  BY <1>15, Zenon DEF Join
<1>16. ASSUME Join("record_join", "record") PROVE Kept
  BY <1>16, Zenon DEF Join
<1>17. ASSUME Join("clear_join", "clear") PROVE Kept
  BY <1>17, Zenon DEF Join
<1>18. ASSUME Join("end_join", "end") PROVE Kept
  BY <1>18, Zenon DEF Join
<1> HIDE <1>0 DEF OpInv, AbortInv, ScanInv, PhaseInv
<1> QED
  BY <1>1, <1>2, <1>3, <1>4, <1>5, <1>6, <1>7, <1>8, <1>9, <1>10, <1>11, <1>12, <1>13,
     <1>14, <1>15, <1>16, <1>17, <1>18, BranchKeepsInv, Zenon DEF CMStep, CycleInv

\* Every step of the VM thread keeps the invariant.
LEMMA VMStepKeepsInv ==
    ASSUME CycleInv, VMStep
    PROVE  CycleInv'
<1> DEFINE Kept == OpInv' /\ AbortInv' /\ ScanInv' /\ PhaseInv'
<1>0. OpInv /\ AbortInv /\ ScanInv /\ PhaseInv
  BY Zenon DEF CycleInv
<1> USE <1>0 DEF OpInv, AbortInv, ScanInv, PhaseInv, during_cycle, ScanLabels, MarkLabels,
        DoneLabels, FreeLabels, EndLabels, IdleLabels, To, InOp, Advance, thread, roots, mark, regions,
        policy, op
<1>1. ASSUME AwaitSet PROVE Kept
  <2>1. OpInv'
    BY <1>1, Zenon DEF AwaitSet, cycleVars
  <2>2. AbortInv'
    BY <1>1, Zenon DEF AwaitSet, cycleVars
  <2>3. ScanInv'
    BY <1>1, Zenon DEF AwaitSet, cycleVars
  <2>4. PhaseInv'
    BY <1>1, Zenon DEF AwaitSet, cycleVars
  <2> QED BY <2>1, <2>2, <2>3, <2>4, Zenon
<1>2. ASSUME checkpointRootsFinal PROVE Kept
  <2>1. OpInv'
    BY <1>2, Zenon DEF checkpointRootsFinal
  <2>2. AbortInv'
    BY <1>2 DEF checkpointRootsFinal
  <2>3. ScanInv'
    BY <1>2, Zenon DEF checkpointRootsFinal
  <2>4. PhaseInv'
    BY <1>2 DEF checkpointRootsFinal
  <2> QED BY <2>1, <2>2, <2>3, <2>4, Zenon
<1>3. ASSUME cleanup PROVE Kept
  BY <1>3 DEF cleanup
<1>4. ASSUME force_initial_mark_if_outside_cycle PROVE Kept
  <2>1. OpInv'
    BY <1>4, Zenon DEF force_initial_mark_if_outside_cycle
  <2>2. AbortInv'
    BY <1>4, Zenon DEF force_initial_mark_if_outside_cycle
  <2>3. ScanInv'
    BY <1>4, Zenon DEF force_initial_mark_if_outside_cycle
  <2>4. PhaseInv'
    BY <1>4, Zenon DEF force_initial_mark_if_outside_cycle
  <2> QED BY <2>1, <2>2, <2>3, <2>4, Zenon
<1>5. ASSUME PauseBegin PROVE Kept
  <2>1. OpInv'
    BY <1>5, Zenon DEF PauseBegin, decide_on_conc_mark_initiation
  <2>2. AbortInv'
    BY <1>5, Zenon DEF PauseBegin, decide_on_conc_mark_initiation
  <2>3. ScanInv'
    BY <1>5, Zenon DEF PauseBegin, decide_on_conc_mark_initiation
  <2>4. PhaseInv'
    BY <1>5, Zenon DEF PauseBegin, decide_on_conc_mark_initiation
  <2> QED BY <2>1, <2>2, <2>3, <2>4, Zenon
<1>6. ASSUME wait_until_scan_finished PROVE Kept
  BY <1>6, Zenon DEF wait_until_scan_finished
<1>7. ASSUME new_region_try_secondary_free_list PROVE Kept
  <2>1. OpInv'
    BY <1>7, Zenon DEF new_region_try_secondary_free_list
  <2>2. AbortInv'
    BY <1>7, Zenon DEF new_region_try_secondary_free_list
  <2>3. ScanInv'
    BY <1>7, Zenon DEF new_region_try_secondary_free_list
  <2>4. PhaseInv'
    BY <1>7, Zenon DEF new_region_try_secondary_free_list
  <2> QED BY <2>1, <2>2, <2>3, <2>4, Zenon
<1>8. ASSUME Evacuate PROVE Kept
  <2>1. OpInv'
    BY <1>8, Zenon DEF Evacuate
  <2>2. AbortInv'
    BY <1>8, Zenon DEF Evacuate
  <2>3. ScanInv'
    BY <1>8, Zenon DEF Evacuate
  <2>4. PhaseInv'
    BY <1>8, Zenon DEF Evacuate
  <2> QED BY <2>1, <2>2, <2>3, <2>4, Zenon
<1>9. ASSUME PauseEnd PROVE Kept
  <2>1. OpInv'
    BY <1>9, Zenon DEF PauseEnd, InitialPost, record_collection_pause_end
  <2>2. AbortInv'
    BY <1>9, Zenon DEF PauseEnd, InitialPost, record_collection_pause_end
  <2>3. ScanInv'
    <3>1. cmpc' = cmpc /\ vop' = vop /\ vst = "evacuated"
      BY <1>9, Zenon DEF PauseEnd
    <3>2. CASE during_initial_mark
      <4>1. /\ next_survivor' \in 0 .. MaxSurvivors
            /\ scan_in_progress' = (next_survivor' > 0) /\ should_abort' = FALSE
        BY <1>9, <3>2, Zenon DEF PauseEnd, InitialPost
      <4>2. next_survivor' \in Nat /\ (next_survivor' > 0 \/ next_survivor' = 0)
        <5> HIDE <1>0 DEF OpInv, AbortInv, ScanInv, PhaseInv
        <5> QED BY <4>1, G1ConcurrentCycleAssumption
      <4>3. cmpc \notin {"claim", "finish"}
        BY <3>2, Zenon
      <4> QED BY <3>1, <4>1, <4>2, <4>3, Zenon
    <3>3. CASE ~ during_initial_mark
      <4>1. UNCHANGED <<next_survivor, scan_in_progress, should_abort>>
        BY <1>9, <3>3, Zenon DEF PauseEnd
      <4> QED BY <3>1, <4>1, Zenon
    <3> QED BY <3>2, <3>3, Zenon
  <2>4. PhaseInv'
    BY <1>9, Zenon DEF PauseEnd, InitialPost, record_collection_pause_end
  <2> QED BY <2>1, <2>2, <2>3, <2>4, Zenon
<1>10. ASSUME doConcurrentMark PROVE Kept
  BY <1>10, Zenon DEF doConcurrentMark
<1>11. ASSUME new_region PROVE Kept
  <2>1. OpInv'
    BY <1>11, Zenon DEF new_region
  <2>2. AbortInv'
    BY <1>11, Zenon DEF new_region
  <2>3. ScanInv'
    BY <1>11, Zenon DEF new_region
  <2>4. PhaseInv'
    BY <1>11, Zenon DEF new_region
  <2> QED BY <2>1, <2>2, <2>3, <2>4, Zenon
<1>12. ASSUME wait_while_free_regions_coming PROVE Kept
  BY <1>12, Zenon DEF wait_while_free_regions_coming
<1>13. ASSUME root_regions_abort PROVE Kept
  BY <1>13, Zenon DEF root_regions_abort
<1>14. ASSUME abort PROVE Kept
  BY <1>14, Zenon DEF abort
<1>15. ASSUME FullEnd PROVE Kept
  BY <1>15, Zenon DEF FullEnd
<1>16. ASSUME EndOp PROVE Kept
  BY <1>16 DEF EndOp
<1>17. ASSUME check_active_before_gc PROVE Kept
  <2>1. OpInv'
    BY <1>17, Zenon DEF check_active_before_gc
  <2>2. AbortInv'
    BY <1>17, Zenon DEF check_active_before_gc
  <2>3. ScanInv'
    BY <1>17, Zenon DEF check_active_before_gc
  <2>4. PhaseInv'
    BY <1>17, Zenon DEF check_active_before_gc
  <2> QED BY <2>1, <2>2, <2>3, <2>4, Zenon
<1> HIDE <1>0 DEF OpInv, AbortInv, ScanInv, PhaseInv
<1> QED
  BY <1>1, <1>2, <1>3, <1>4, <1>5, <1>6, <1>7, <1>8, <1>9, <1>10, <1>11, <1>12, <1>13,
     <1>14, <1>15, <1>16, <1>17, Zenon DEF VMStep, CycleInv

\* So does every step of the cycle.
LEMMA CycleInvNext ==
    ASSUME CycleInv, [CycleNext]_allVars
    PROVE  CycleInv'
<1> DEFINE Kept == OpInv' /\ AbortInv' /\ ScanInv' /\ PhaseInv'
<1>0. OpInv /\ AbortInv /\ ScanInv /\ PhaseInv
  BY Zenon DEF CycleInv
<1> USE <1>0 DEF OpInv, AbortInv, ScanInv, PhaseInv, during_cycle, ScanLabels, MarkLabels,
        DoneLabels, FreeLabels, EndLabels, IdleLabels, At, To, thread, roots, mark, regions,
        policy, op
<1>1. ASSUME NEW o \in Ops, StartOp(o) PROVE Kept
  <2>1. OpInv'
    BY <1>1, Zenon DEF StartOp, Requested, Ops
  <2>2. AbortInv'
    BY <1>1, Zenon DEF StartOp, Requested, Ops
  <2>3. ScanInv'
    BY <1>1, Zenon DEF StartOp, Requested, Ops
  <2>4. PhaseInv'
    BY <1>1, Zenon DEF StartOp, Requested, Ops
  <2> QED BY <2>1, <2>2, <2>3, <2>4, Zenon
<1>2. ASSUME NEW t \in Refiners, Refine(t) PROVE Kept
  <2>1. OpInv'
    BY <1>2, Zenon DEF Refine, cycleVars
  <2>2. AbortInv'
    BY <1>2, Zenon DEF Refine, cycleVars
  <2>3. ScanInv'
    BY <1>2, Zenon DEF Refine, cycleVars
  <2>4. PhaseInv'
    BY <1>2, Zenon DEF Refine, cycleVars
  <2> QED BY <2>1, <2>2, <2>3, <2>4, Zenon
<1>3. ASSUME collect PROVE Kept
  <2>1. OpInv'
    BY <1>3, Zenon DEF collect, javaOthers
  <2>2. AbortInv'
    BY <1>3, Zenon DEF collect, javaOthers
  <2>3. ScanInv'
    BY <1>3, Zenon DEF collect, javaOthers
  <2>4. PhaseInv'
    BY <1>3, Zenon DEF collect, javaOthers
  <2> QED BY <2>1, <2>2, <2>3, <2>4, Zenon
<1>4. ASSUME doit_epilogue PROVE Kept
  <2>1. OpInv'
    BY <1>4, Zenon DEF doit_epilogue, javaOthers
  <2>2. AbortInv'
    BY <1>4, Zenon DEF doit_epilogue, javaOthers
  <2>3. ScanInv'
    BY <1>4, Zenon DEF doit_epilogue, javaOthers
  <2>4. PhaseInv'
    BY <1>4, Zenon DEF doit_epilogue, javaOthers
  <2> QED BY <2>1, <2>2, <2>3, <2>4, Zenon
<1>5. ASSUME stop PROVE Kept
  <2>1. OpInv'
    BY <1>5, Zenon DEF stop
  <2>2. AbortInv'
    BY <1>5, Zenon DEF stop
  <2>3. ScanInv'
    BY <1>5, Zenon DEF stop
  <2>4. PhaseInv'
    BY <1>5, Zenon DEF stop
  <2> QED BY <2>1, <2>2, <2>3, <2>4, Zenon
<1>6. ASSUME UNCHANGED allVars PROVE Kept
  <2>1. OpInv'
    BY <1>6, Zenon DEF allVars, cycleVars
  <2>2. AbortInv'
    BY <1>6, Zenon DEF allVars, cycleVars
  <2>3. ScanInv'
    BY <1>6, Zenon DEF allVars, cycleVars
  <2>4. PhaseInv'
    BY <1>6, Zenon DEF allVars, cycleVars
  <2> QED BY <2>1, <2>2, <2>3, <2>4, Zenon
<1>7. ASSUME doit_prologue \/ stall_until_clear \/ jni_unlock PROVE Kept
  <2>0. UNCHANGED javaOthers
    <3> HIDE <1>0 DEF OpInv, AbortInv, ScanInv, PhaseInv
    <3>1. CASE doit_prologue
      BY <3>1, Zenon DEF doit_prologue
    <3>2. CASE stall_until_clear
      BY <3>2, Zenon DEF stall_until_clear
    <3>3. CASE jni_unlock
      BY <3>3, Zenon DEF jni_unlock
    <3> QED BY <1>7, <3>1, <3>2, <3>3, Zenon
  <2>1. OpInv'
    BY <2>0, Zenon DEF javaOthers
  <2>2. AbortInv'
    BY <2>0, Zenon DEF javaOthers
  <2>3. ScanInv'
    BY <2>0, Zenon DEF javaOthers
  <2>4. PhaseInv'
    BY <2>0, Zenon DEF javaOthers
  <2> QED BY <2>1, <2>2, <2>3, <2>4, Zenon
<1> HIDE <1>0 DEF OpInv, AbortInv, ScanInv, PhaseInv
<1> QED
  BY <1>1, <1>2, <1>3, <1>4, <1>5, <1>6, <1>7, CMStepKeepsInv, VMStepKeepsInv, Zenon
  DEF CycleNext, CycleInv

-----------------------------------------------------------------------------
\* The invariant holds in every state of the cycle.
LEMMA CycleInvariant == CycleSpec => []CycleInv
<1>1. CycleInv /\ [CycleNext]_allVars => CycleInv'
  BY CycleInvNext
<1> QED BY CycleInvInit, <1>1, PTL DEF CycleSpec

\* However the cycle before ended, an initial-mark pause finds the next bitmap
\* clear, the SATB queues inactive and no root region left.
THEOREM InitialMarkStartsCleanSafe == CycleSpec => []InitialMarkStartsClean
<1>1. CycleInv => InitialMarkStartsClean
  BY DEF CycleInv, OpInv, ScanInv, PhaseInv, InitialMarkStartsClean, during_cycle
<1> QED BY <1>1, CycleInvariant, PTL

\* The concurrent mark thread never undoes what abort() has reset.
THEOREM AbortIsNotUndoneSafe == CycleSpec => []AbortIsNotUndone
<1>1. CycleInv => AbortIsNotUndone
  BY DEF CycleInv, AbortInv, AbortIsNotUndone
<1> QED BY <1>1, CycleInvariant, PTL

\* scan_finished() leaves root regions unscanned only for a full collection.
THEOREM ScanCutShortSafe == CycleSpec => ScanCutShortOnlyByFullGC
<1>1. CycleInv => (At("finish") /\ cmpc' # "finish" /\ next_survivor > 0 => vop = "full")
  BY DEF CycleInv, ScanInv, At
<1> QED BY <1>1, CycleInvariant, PTL DEF ScanCutShortOnlyByFullGC

-----------------------------------------------------------------------------
\* Every step of the cycle is a step of the set or leaves it alone.
LEMMA StepRefinement == ASSUME [CycleNext]_allVars PROVE [Next]_vars
<1> USE DEF sts, vars
<1>1. CASE CMStep
  <2>1. ASSUME NEW t \in GCThreads,
               \/ join(t) \/ leave(t) \/ yield(t) \/ yield_stop(t)
               \/ yield_wait(t) \/ yield_resume(t)
        PROVE  [Next]_vars
    BY <2>1 DEF Next, Proceed
  <2>2. CMThread \in GCThreads
    BY G1ConcurrentCycleAssumption
  <2>3. ASSUME NEW from, NEW to, Join(from, to) PROVE [Next]_vars
    BY <2>1, <2>2, <2>3 DEF Join
  <2>4. ASSUME NEW from, NEW to, Branch(from, to) PROVE [Next]_vars
    BY <2>4 DEF Branch
  <2>5. CASE StartScan \/ scanRootRegions \/ Marked \/ MarkAgain
    BY <2>4, <2>5 DEF StartScan, scanRootRegions, Marked, MarkAgain
  <2>6. CASE MarkingDone \/ Freeing \/ Recorded
    BY <2>4, <2>6 DEF MarkingDone, Freeing, Recorded
  <2>7. CASE \/ MarkingStep \/ set_marking_complete \/ record_cleanup_completed
             \/ ClearDone \/ EndCycle \/ Yield
    BY <2>1, <2>2, <2>7, Zenon DEF MarkingStep, set_marking_complete,
         record_cleanup_completed, ClearDone, EndCycle, Yield
  <2>8. CASE \/ sleepBeforeNextCycle \/ claim_next \/ scan_finished \/ markFromRoots
             \/ completeCleanup \/ reset_free_regions_coming \/ ClearChunk
    BY <2>8, Zenon DEF sleepBeforeNextCycle, claim_next, scan_finished, markFromRoots,
         completeCleanup, reset_free_regions_coming, ClearChunk
  <2> QED BY <1>1, <2>3, <2>5, <2>6, <2>7, <2>8, Zenon DEF CMStep
<1>2. CASE VMStep
  <2>1. CASE AwaitSet \/ EndOp
    BY <2>1 DEF AwaitSet, EndOp, Next
  <2>2. CASE \/ checkpointRootsFinal \/ cleanup \/ PauseBegin \/ new_region
             \/ force_initial_mark_if_outside_cycle \/ wait_until_scan_finished
             \/ new_region_try_secondary_free_list \/ Evacuate \/ PauseEnd
    BY <2>2, Zenon DEF checkpointRootsFinal, cleanup, PauseBegin, new_region,
         force_initial_mark_if_outside_cycle, wait_until_scan_finished,
         new_region_try_secondary_free_list, Evacuate, PauseEnd, Advance
  <2>3. CASE \/ doConcurrentMark \/ check_active_before_gc \/ wait_while_free_regions_coming
             \/ root_regions_abort \/ abort \/ FullEnd
    BY <2>3, Zenon DEF doConcurrentMark, check_active_before_gc, wait_while_free_regions_coming,
         root_regions_abort, abort, FullEnd, Advance
  <2> QED BY <1>2, <2>1, <2>2, <2>3 DEF VMStep
<1>3. CASE \E o \in Ops : StartOp(o)
  BY <1>3 DEF StartOp, Next
<1>4. CASE \E t \in Refiners : Refine(t)
  BY <1>4 DEF Refiners, Refine, Next
<1>5. CASE \/ collect \/ doit_prologue \/ doit_epilogue \/ stall_until_clear
           \/ jni_unlock \/ stop
  BY <1>5, Zenon DEF collect, doit_prologue, doit_epilogue, stall_until_clear,
     jni_unlock, stop, javaOthers
<1>6. CASE UNCHANGED allVars
  BY <1>6 DEF allVars
<1> QED BY <1>1, <1>2, <1>3, <1>4, <1>5, <1>6, Zenon DEF CycleNext

\* The concurrent mark thread, the refinement threads and the VM thread use the
\* set of suspendibleThreadSet.cpp as SuspendibleThreadSet allows.
LEMMA CycleImplementsSet == CycleSpec => Spec
<1>1. CycleInit => Init
  BY DEF CycleInit
<1>2. [CycleNext]_allVars => [Next]_vars
  BY StepRefinement
<1> QED BY <1>1, <1>2, PTL DEF CycleSpec, Spec

\* So, while the VM thread is in an operation of the cycle, no thread of the set
\* runs, the counters are exact and no notification is lost.
THEOREM NoMemberRunsInCycle ==
    CycleSpec => [](NoMemberRuns /\ CountsExact /\ NoLostNotify)
  BY CycleImplementsSet, NoMemberRunsSafe, CountsExactSafe, NoLostNotifySafe, PTL

=============================================================================
