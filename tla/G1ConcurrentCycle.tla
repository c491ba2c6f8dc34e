-------------------------- MODULE G1ConcurrentCycle --------------------------
(***************************************************************************)
(* A concurrent marking cycle of G1 and the pauses it meets: the           *)
(* concurrent mark thread (ConcurrentMarkThread::run) goes through root    *)
(* region scan, marking, remark, cleanup and bitmap clearing while the VM  *)
(* thread runs evacuation pauses and full collections, JNI critical        *)
(* regions hold pauses up (GC_locker), and a Java thread calls System.gc() *)
(* with ExplicitGCInvokesConcurrent.                                       *)
(*                                                                         *)
(* The module composes the protocol with SuspendibleThreadSet: pc, vpc and *)
(* the counters are that module's, and its join(), leave(), yield(),       *)
(* synchronize() and desynchronize() are conjuncts of the steps here.  The *)
(* other threads of the set are the refinement threads.                    *)
(*                                                                         *)
(* The concurrent mark thread does its marking itself, as it does without  *)
(* parallel marking threads (concurrentMark.cpp:1406).  RootRegionScan_lock,*)
(* SecondaryFreeList_lock, CGC_lock and FullGCCount_lock protect short     *)
(* sections that end in notify_all(), so a wait on one of them is a guard. *)
(***************************************************************************)
EXTENDS SuspendibleThreadSet

CONSTANTS
    CMThread,      \* the concurrent mark thread
    MaxSurvivors,  \* bound on the root regions of a cycle
    MaxFreed,      \* bound on the regions a cleanup pause finds empty
    MaxSetbacks,   \* bound on the setbacks of a cycle
    Chunks         \* pieces in which the next bitmap is cleared

ASSUME G1ConcurrentCycleAssumption ==
    /\ CMThread \in GCThreads
    /\ MaxSurvivors \in Nat /\ MaxFreed \in Nat /\ MaxSetbacks \in Nat
    /\ Chunks \in Nat \ {0}

VARIABLES
    cmpc,                          \* where the concurrent mark thread is
    started, in_progress, should_terminate,
    has_aborted, restart_for_overflow,
    next_survivor, scan_in_progress, should_abort,          \* CMRootRegions
    mark_in_progress, satb_active,
    setbacks,                      \* steps and remarks of this cycle that left marking to do
    dirty,                         \* chunks of the next bitmap with marks
    free_regions_coming, cleanup_list, secondary_free_list,
    initiate, during_initial_mark, gcs_are_young, last_young_gc, in_marking_window,
    unfinished,    \* _old_marking_cycles_started - _old_marking_cycles_completed
    vop, vst,      \* the VM operation and how far it is
    jpc,           \* of the Java thread in System.gc()
    jcollected,    \* total_collections() has moved since it was read
    jstarted,      \* _old_marking_cycles_started has
    jcompleted,    \* _old_marking_cycles_completed has, since doit() read it
    locker         \* of GC_locker: is _needs_gc set, and is a region active

sts == <<nthreads, nthreads_stopped, suspend_all, waitset, pc, vpc>>
thread == <<started, in_progress, should_terminate>>
roots == <<next_survivor, scan_in_progress, should_abort>>
mark == <<has_aborted, restart_for_overflow, mark_in_progress, satb_active, dirty,
          setbacks>>
regions == <<free_regions_coming, cleanup_list, secondary_free_list>>
policy == <<initiate, during_initial_mark, gcs_are_young, last_young_gc,
            in_marking_window>>
op == <<vop, vst>>
java == <<jpc, jcollected, jstarted, jcompleted, locker>>

cycleVars == <<cmpc, thread, roots, mark, regions, policy, unfinished, op, java>>
allVars == <<sts, cycleVars>>

CycleInit ==
    /\ Init
    /\ cmpc = "sleep"
    /\ started = FALSE /\ in_progress = FALSE /\ should_terminate = FALSE
    /\ has_aborted = FALSE /\ restart_for_overflow = FALSE
    /\ next_survivor = 0 /\ scan_in_progress = FALSE /\ should_abort = FALSE
    /\ mark_in_progress = FALSE /\ satb_active = FALSE /\ dirty = 0 /\ setbacks = 0
    /\ free_regions_coming = FALSE /\ cleanup_list = 0
    /\ secondary_free_list = FALSE
    /\ initiate = FALSE /\ during_initial_mark = FALSE
    /\ gcs_are_young = TRUE /\ last_young_gc = FALSE /\ in_marking_window = FALSE
    /\ unfinished = 0
    /\ vop = "none" /\ vst = "done"
    /\ jpc = "idle" /\ jcollected = FALSE /\ jstarted = FALSE
    /\ jcompleted = FALSE
    /\ locker = "clear"

during_cycle == started \/ in_progress

\* A collection or cycle begins or ends: what the counters tell the Java
\* thread, which compares them with what it read.
CountStarted ==
    /\ unfinished' = unfinished + 1
    /\ jstarted' = (jpc \in {"prologue", "op", "epilogue"})

CountCompleted ==
    /\ unfinished' = unfinished - 1
    /\ jcompleted' = (jpc = "epilogue")

\* GC_locker's jni_unlock() clears _needs_gc after a collection of its own,
\* which should_discard() drops when another one has been counted meanwhile.
increment_total_collections ==
    /\ jcollected' = (jpc = "prologue")
    /\ locker' = IF locker = "doing_gc" THEN "clear" ELSE locker

-----------------------------------------------------------------------------
(* The concurrent mark thread.                                             *)

At(l) == cmpc = l
To(l) == cmpc' = l

\* A step of the thread that changes nothing but where it is.
Branch(from, to) ==
    /\ At(from) /\ To(to)
    /\ UNCHANGED <<sts, thread, roots, mark, regions, policy, unfinished, op, java>>

\* sleepBeforeNextCycle(), and the test of _should_terminate after it.
sleepBeforeNextCycle ==
    /\ At("sleep") /\ (started \/ should_terminate)
    /\ started' = FALSE
    /\ in_progress' = started
    /\ To(IF should_terminate THEN "terminated" ELSE "start")
    /\ UNCHANGED <<sts, should_terminate, roots, mark, regions, policy,
                   unfinished, op, java>>

StartScan == Branch("start", IF has_aborted THEN "loop" ELSE "scan")

scanRootRegions == Branch("scan", IF scan_in_progress THEN "claim" ELSE "loop")

\* claim_next() and scanRootRegion().
claim_next ==
    /\ At("claim")
    /\ LET more == ~should_abort /\ next_survivor > 0 IN
       /\ next_survivor' = IF more THEN next_survivor - 1 ELSE next_survivor
       /\ To(IF more THEN "claim" ELSE "finish")
    /\ UNCHANGED <<sts, thread, scan_in_progress, should_abort, mark, regions,
                   policy, unfinished, op, java>>

scan_finished ==
    /\ At("finish") /\ To("loop")
    /\ next_survivor' = 0
    /\ scan_in_progress' = FALSE
    /\ UNCHANGED <<sts, thread, should_abort, mark, regions, policy,
                   unfinished, op, java>>

\* The head of the marking loop: markFromRoots() unless aborted.
markFromRoots ==
    /\ At("loop")
    /\ restart_for_overflow' = IF has_aborted THEN restart_for_overflow ELSE FALSE
    /\ To(IF has_aborted THEN "again" ELSE "mark_join")
    /\ UNCHANGED <<sts, thread, roots, has_aborted, mark_in_progress, satb_active,
                   dirty, regions, policy, unfinished, op, java, setbacks>>

\* SuspendibleThreadSet::join() on the way from one place to another.
Join(from, to) ==
    /\ At(from) /\ join(CMThread)
    /\ To(IF suspend_all THEN from ELSE to)
    /\ UNCHANGED <<thread, roots, mark, regions, policy, unfinished, op, java>>

\* CMConcurrentMarkingTask::work(): a marking step, after which the thread is
\* done or sleeps outside the set before the next one.
MarkingStep ==
    /\ At("mark") /\ leave(CMThread)
    /\ dirty' = IF has_aborted THEN dirty ELSE Chunks
    /\ \/ To("marked") /\ UNCHANGED setbacks
       \/ /\ ~has_aborted /\ setbacks < MaxSetbacks
          /\ To("mark_join") /\ setbacks' = setbacks + 1
    /\ UNCHANGED <<thread, roots, has_aborted, restart_for_overflow,
                   mark_in_progress, satb_active, regions, policy, unfinished,
                   op, java>>

Marked == Branch("marked", IF has_aborted THEN "again" ELSE "remark")

MarkAgain == Branch("again", IF restart_for_overflow THEN "loop" ELSE "marking_done")

MarkingDone ==
    Branch("marking_done", IF has_aborted THEN "complete_join" ELSE "cleanup")

\* An aborted cycle ends its marking itself, in the set.
set_marking_complete ==
    /\ At("complete") /\ leave(CMThread) /\ To("freeing")
    /\ mark_in_progress' = FALSE /\ setbacks' = 0
    /\ UNCHANGED <<thread, roots, has_aborted, restart_for_overflow, satb_active,
                   dirty, regions, policy, unfinished, op, java>>

Freeing ==
    Branch("freeing",
           IF ~free_regions_coming THEN "record_join"
           ELSE IF has_aborted THEN "reset" ELSE "complete_cleanup")

\* completeCleanup(): one region at a time goes to the secondary free list.
completeCleanup ==
    /\ At("complete_cleanup")
    /\ cleanup_list' = IF cleanup_list > 0 THEN cleanup_list - 1 ELSE 0
    /\ secondary_free_list' = (cleanup_list > 0 \/ secondary_free_list)
    /\ To(IF cleanup_list > 0 THEN "complete_cleanup" ELSE "reset")
    /\ UNCHANGED <<sts, thread, roots, mark, free_regions_coming, policy,
                   unfinished, op, java>>

\* Mutant: the thread joins the set before it says that no region is coming.
reset_free_regions_coming_InSet ==
    /\ At("reset") /\ join(CMThread)
    /\ To(IF suspend_all THEN "reset" ELSE "record")
    /\ free_regions_coming' = suspend_all
    /\ UNCHANGED <<thread, roots, mark, cleanup_list, secondary_free_list,
                   policy, unfinished, op, java>>

reset_free_regions_coming ==
    /\ At("reset") /\ To("record_join")
    /\ free_regions_coming' = FALSE
    /\ UNCHANGED <<sts, thread, roots, mark, cleanup_list, secondary_free_list,
                   policy, unfinished, op, java>>

\* Mutant: has_aborted() is not looked at after joining.
record_cleanup_completed_Unchecked ==
    /\ At("record") /\ leave(CMThread) /\ To("recorded")
    /\ last_young_gc' = TRUE
    /\ in_marking_window' = FALSE
    /\ UNCHANGED <<thread, roots, mark, regions, initiate, during_initial_mark,
                   gcs_are_young, unfinished, op, java>>

\* record_concurrent_mark_cleanup_completed(), in the set, unless aborted.
record_cleanup_completed ==
    /\ At("record") /\ leave(CMThread) /\ To("recorded")
    /\ last_young_gc' = (~has_aborted \/ last_young_gc)
    /\ in_marking_window' = (has_aborted /\ in_marking_window)
    /\ UNCHANGED <<thread, roots, mark, regions, initiate, during_initial_mark,
                   gcs_are_young, unfinished, op, java>>

Recorded == Branch("recorded", IF has_aborted THEN "end_join" ELSE "clear_join")

\* clearNextBitmap() clears a chunk, after which it may yield ...
ClearChunk ==
    /\ At("clear") /\ pc[CMThread] = "running" /\ dirty > 0
    /\ dirty' = dirty - 1
    /\ UNCHANGED <<sts, cmpc, thread, roots, has_aborted, restart_for_overflow,
                   mark_in_progress, satb_active, regions, policy, unfinished,
                   op, java, setbacks>>

\* ... and ends when it has cleared all, or was aborted while it yielded.
ClearDone ==
    /\ At("clear") /\ leave(CMThread) /\ (dirty = 0 \/ has_aborted)
    /\ To("end_join")
    /\ UNCHANGED <<thread, roots, mark, regions, policy, unfinished, op, java>>

\* increment_old_marking_cycles_completed(true) and clear_in_progress(); the
\* thread's loop ends if it has been told to terminate.
EndCycle ==
    /\ At("end") /\ leave(CMThread)
    /\ CountCompleted
    /\ in_progress' = FALSE
    /\ To(IF should_terminate THEN "terminated" ELSE "sleep")
    /\ UNCHANGED <<started, should_terminate, roots, mark, regions, policy, op,
                   jpc, jcollected, jstarted, locker>>

\* do_yield_check() of the marking and of the clearing loop.
Yield ==
    /\ cmpc \in {"mark", "clear"}
    /\ \/ yield(CMThread) \/ yield_stop(CMThread)
       \/ yield_wait(CMThread) \/ yield_resume(CMThread)
    /\ UNCHANGED cycleVars

CMStep ==
    \/ sleepBeforeNextCycle \/ StartScan \/ scanRootRegions \/ claim_next
    \/ scan_finished \/ markFromRoots \/ Join("mark_join", "mark") \/ MarkingStep
    \/ Marked \/ MarkAgain \/ MarkingDone
    \/ Join("complete_join", "complete") \/ set_marking_complete
    \/ Freeing \/ completeCleanup \/ reset_free_regions_coming
    \/ Join("record_join", "record") \/ record_cleanup_completed \/ Recorded
    \/ Join("clear_join", "clear") \/ ClearChunk \/ ClearDone
    \/ Join("end_join", "end") \/ EndCycle \/ Yield

-----------------------------------------------------------------------------
(* The VM thread: SafepointSynchronize::begin(), the operation, end().     *)

Ops == {"young", "concurrent", "full", "remark", "cleanup"}

\* remark and cleanup are the concurrent mark thread's operations, concurrent
\* is the Java thread's; the others come from allocations, or from jni_unlock(),
\* at any time.  Whoever asks holds Heap_lock from the prologue to the epilogue.
Requested(o) ==
    /\ o \in {"remark", "cleanup"} => At(o)
    /\ o = "concurrent" <=> jpc = "op"

StartOp(o) ==
    /\ vop = "none" /\ Requested(o)
    /\ synchronize
    /\ vop' = o /\ vst' = IF o = "young" THEN "decide" ELSE "begin"
    /\ UNCHANGED <<cmpc, thread, roots, mark, regions, policy, unfinished, java>>

AwaitSet == synchronize_wait /\ UNCHANGED cycleVars

InOp(o, l) == vop \in o /\ vst = l /\ vpc = "synchronized"
Advance(l) == vst' = l /\ UNCHANGED <<sts, vop>>

\* checkpointRootsFinal(): nothing but set_marking_complete() after an abort;
\* else marking is complete, or the mark stack has overflown.
checkpointRootsFinal ==
    /\ InOp({"remark"}, "begin") /\ Advance("done") /\ To("again")
    /\ \/ /\ has_aborted
          /\ mark_in_progress' = FALSE
          /\ UNCHANGED <<restart_for_overflow, satb_active, setbacks>>
       \/ /\ ~has_aborted /\ setbacks < MaxSetbacks
          /\ restart_for_overflow' = TRUE
          /\ setbacks' = setbacks + 1
          /\ UNCHANGED <<mark_in_progress, satb_active>>
       \/ /\ ~has_aborted
          /\ satb_active' = FALSE
          /\ UNCHANGED <<mark_in_progress, restart_for_overflow, setbacks>>
    /\ UNCHANGED <<thread, roots, has_aborted, dirty, regions, policy,
                   unfinished, java>>

\* cleanup(): the bitmaps are swapped, so that the next one holds old marks,
\* and the empty regions are put on the cleanup list.
cleanup ==
    /\ InOp({"cleanup"}, "begin") /\ Advance("done") /\ To("freeing")
    /\ mark_in_progress' = FALSE /\ setbacks' = 0
    /\ \/ has_aborted /\ UNCHANGED <<dirty, regions, jcollected, locker>>
       \/ /\ ~has_aborted
          /\ increment_total_collections
          /\ dirty' = Chunks
          /\ cleanup_list' \in 0 .. MaxFreed
          /\ free_regions_coming' = (cleanup_list' > 0)
          /\ UNCHANGED secondary_free_list
    /\ UNCHANGED <<thread, roots, has_aborted, restart_for_overflow, satb_active,
                   policy, unfinished, jpc, jstarted, jcompleted>>

\* doit() of System.gc()'s pause: during a cycle it does nothing, otherwise
\* the pause is to start one.
force_initial_mark_if_outside_cycle ==
    /\ InOp({"concurrent"}, "begin")
    /\ initiate' = (~during_cycle \/ initiate)
    /\ Advance(IF during_cycle THEN "done" ELSE "decide")
    /\ UNCHANGED <<cmpc, thread, roots, mark, regions, during_initial_mark,
                   gcs_are_young, last_young_gc, in_marking_window, unfinished,
                   java>>

\* Mutant: nobody is told that a collection is needed.
check_active_before_gc_Forgets ==
    /\ InOp({"young", "concurrent"}, "decide") \/ InOp({"full"}, "begin")
    /\ locker # "doing_gc"
    /\ Advance("done")
    /\ UNCHANGED <<cmpc, thread, roots, mark, regions, policy, unfinished, java>>

\* check_active_before_gc() finds a JNI critical region active: the pause or the
\* full collection gives up and leaves it to the region's end.
check_active_before_gc ==
    /\ InOp({"young", "concurrent"}, "decide") \/ InOp({"full"}, "begin")
    /\ locker # "doing_gc"
    /\ Advance("done")
    /\ locker' = "needs_gc"
    /\ UNCHANGED <<cmpc, thread, roots, mark, regions, policy, unfinished,
                   jpc, jcollected, jstarted, jcompleted>>

\* Whether this is an initial-mark pause.
decide_on_conc_mark_initiation ==
    LET im == initiate /\ ~during_cycle IN
    /\ during_initial_mark' = im
    /\ initiate' = (initiate /\ ~im)
    /\ gcs_are_young' = (im \/ gcs_are_young)

\* The pause begins: no critical region is active.
PauseBegin ==
    /\ InOp({"young", "concurrent"}, "decide") /\ locker # "needs_gc"
    /\ Advance("wait_roots")
    /\ decide_on_conc_mark_initiation
    /\ IF during_initial_mark' THEN CountStarted ELSE UNCHANGED <<unfinished, jstarted>>
    /\ increment_total_collections
    /\ secondary_free_list' = FALSE
    /\ UNCHANGED <<cmpc, thread, roots, mark, free_regions_coming, cleanup_list,
                   last_young_gc, in_marking_window, jpc, jcompleted>>

\* wait_until_scan_finished(), then checkpointRootsInitialPre().
wait_until_scan_finished ==
    /\ InOp({"young", "concurrent"}, "wait_roots") /\ ~scan_in_progress
    /\ Advance("evacuate")
    /\ has_aborted' = (~during_initial_mark /\ has_aborted)
    /\ UNCHANGED <<cmpc, thread, roots, restart_for_overflow, mark_in_progress,
                   satb_active, dirty, regions, policy, unfinished, java, setbacks>>

\* A GC worker finds no region on the free list: from here on it needs one.
new_region ==
    /\ InOp({"young", "concurrent"}, "evacuate") /\ Advance("need_region")
    /\ UNCHANGED <<cmpc, thread, roots, mark, regions, policy, unfinished, java>>

\* It waits until there is a region or none is coming, and goes on with the one
\* or, the evacuation having failed, without.
new_region_try_secondary_free_list ==
    /\ InOp({"young", "concurrent"}, "need_region")
    /\ secondary_free_list \/ ~free_regions_coming
    /\ Advance(IF secondary_free_list THEN "evacuate" ELSE "evacuated")
    /\ secondary_free_list' = FALSE
    /\ UNCHANGED <<cmpc, thread, roots, mark, free_regions_coming, cleanup_list,
                   policy, unfinished, java>>

\* The pause has found all the regions it needs.
Evacuate ==
    /\ InOp({"young", "concurrent"}, "evacuate") /\ Advance("evacuated")
    /\ UNCHANGED <<cmpc, thread, roots, mark, regions, policy, unfinished, java>>

\* Mutant: the request to abort an earlier scan is kept.
InitialPost_StaleAbort ==
    /\ satb_active' = TRUE /\ mark_in_progress' = TRUE /\ dirty' = Chunks
    /\ next_survivor' \in 0 .. MaxSurvivors
    /\ scan_in_progress' = (next_survivor' > 0)
    /\ UNCHANGED should_abort

\* checkpointRootsInitialPost() of an initial-mark pause: the survivors are the
\* root regions of the cycle.
InitialPost ==
    /\ satb_active' = TRUE /\ mark_in_progress' = TRUE /\ dirty' = Chunks
    /\ next_survivor' \in 0 .. MaxSurvivors
    /\ scan_in_progress' = (next_survivor' > 0)
    /\ should_abort' = FALSE

\* record_collection_pause_end(): a pause that started no cycle may ask for one
\* (need_to_start_conc_mark), and may begin or end the mixed collections.
record_collection_pause_end ==
    /\ during_initial_mark' = FALSE
    /\ in_marking_window' = (during_initial_mark \/ in_marking_window)
    /\ last_young_gc' = FALSE
    /\ \/ initiate' = initiate
       \/ /\ ~during_initial_mark /\ ~during_cycle
          /\ gcs_are_young /\ ~last_young_gc
          /\ initiate' = TRUE
    /\ gcs_are_young' \in
         IF gcs_are_young THEN {TRUE, ~(last_young_gc /\ ~during_initial_mark)}
                          ELSE BOOLEAN

PauseEnd ==
    /\ InOp({"young", "concurrent"}, "evacuated")
    /\ Advance(IF during_initial_mark THEN "start_cm" ELSE "done")
    /\ IF during_initial_mark THEN InitialPost
       ELSE UNCHANGED <<satb_active, mark_in_progress, dirty, roots>>
    /\ record_collection_pause_end
    /\ UNCHANGED <<cmpc, thread, has_aborted, restart_for_overflow, setbacks,
                   regions, unfinished, jpc, jcollected, jstarted, jcompleted, locker>>

\* doConcurrentMark().
doConcurrentMark ==
    /\ InOp({"young", "concurrent"}, "start_cm") /\ Advance("done")
    /\ started' = (~in_progress \/ started)
    /\ UNCHANGED <<cmpc, in_progress, should_terminate, roots, mark, regions,
                   policy, unfinished, java>>

\* A full collection first waits for the regions a cleanup is freeing ...
wait_while_free_regions_coming ==
    /\ InOp({"full"}, "begin") /\ locker # "needs_gc"
    /\ ~free_regions_coming /\ Advance("abort_scan")
    /\ UNCHANGED <<cmpc, thread, roots, mark, regions, policy, unfinished, java>>

\* ... tells a root region scan to abort ...
root_regions_abort ==
    /\ InOp({"full"}, "abort_scan") /\ Advance("wait_roots")
    /\ should_abort' = TRUE
    /\ UNCHANGED <<cmpc, thread, next_survivor, scan_in_progress, mark, regions,
                   policy, unfinished, java>>

\* Mutant: abort() leaves the marks in the next bitmap.
abort_KeepsMarks ==
    /\ InOp({"full"}, "wait_roots") /\ ~scan_in_progress /\ Advance("collect")
    /\ CountStarted /\ increment_total_collections
    /\ has_aborted' = TRUE /\ satb_active' = FALSE
    /\ secondary_free_list' = FALSE
    /\ UNCHANGED <<cmpc, thread, roots, restart_for_overflow, mark_in_progress,
                   dirty, free_regions_coming, cleanup_list, policy, jpc,
                   jcompleted, setbacks>>

\* ... waits until it has finished, and aborts concurrent marking.
abort ==
    /\ InOp({"full"}, "wait_roots") /\ ~scan_in_progress /\ Advance("collect")
    /\ CountStarted /\ increment_total_collections
    /\ has_aborted' = TRUE /\ satb_active' = FALSE /\ dirty' = 0
    /\ secondary_free_list' = FALSE
    /\ UNCHANGED <<cmpc, thread, roots, restart_for_overflow, mark_in_progress,
                   free_regions_coming, cleanup_list, policy, jpc, jcompleted, setbacks>>

\* The end of do_collection(): increment_old_marking_cycles_completed(false)
\* and record_full_collection_end().
FullEnd ==
    /\ InOp({"full"}, "collect") /\ Advance("done")
    /\ CountCompleted
    /\ initiate' = FALSE /\ during_initial_mark' = FALSE
    /\ gcs_are_young' = TRUE /\ last_young_gc' = FALSE /\ in_marking_window' = FALSE
    /\ UNCHANGED <<cmpc, thread, roots, mark, regions, jpc, jcollected, jstarted, locker>>

\* The operation has been evaluated; whoever asked for it goes on.
EndOp ==
    /\ vst = "done" /\ desynchronize
    /\ vop' = "none"
    /\ jpc' = IF vop = "concurrent" THEN "epilogue" ELSE jpc
    /\ UNCHANGED <<cmpc, thread, roots, mark, regions, policy, unfinished, vst,
                   jcollected, jstarted, jcompleted, locker>>

VMStep ==
    \/ AwaitSet \/ checkpointRootsFinal \/ cleanup
    \/ force_initial_mark_if_outside_cycle
    \/ check_active_before_gc \/ PauseBegin \/ wait_until_scan_finished
    \/ new_region \/ new_region_try_secondary_free_list \/ Evacuate \/ PauseEnd
    \/ doConcurrentMark
    \/ wait_while_free_regions_coming \/ root_regions_abort \/ abort \/ FullEnd
    \/ EndOp

-----------------------------------------------------------------------------
(* G1CollectedHeap::collect() for System.gc(), JNI critical regions, and   *)
(* the VM's shutdown.                                                      *)

javaOthers == <<sts, cmpc, thread, roots, mark, regions, policy, unfinished, op>>

\* Java threads run outside safepoints, and Heap_lock is free then unless the
\* caller of System.gc() has it.
JavaRuns == vop = "none"

\* The caller reads total_collections() and _old_marking_cycles_started.
collect ==
    /\ jpc \in {"idle", "retry"} /\ JavaRuns
    /\ jpc' = "prologue" /\ jcollected' = FALSE /\ jstarted' = FALSE
    /\ UNCHANGED <<javaOthers, jcompleted, locker>>

\* collect() after an attempt: it returns when a cycle or full collection has been
\* started since it read _old_marking_cycles_started, as its own pause does when
\* it succeeds; else it tries again, once _needs_gc is clear.
AfterAttempt ==
    IF jstarted THEN "idle" ELSE IF locker = "needs_gc" THEN "stalled" ELSE "retry"

\* skip_operation(): another collection has been counted meanwhile, or a critical
\* region holds up one that is needed and the heap cannot grow.  Else the caller
\* hands in its operation, with Heap_lock.
doit_prologue ==
    /\ jpc = "prologue" /\ JavaRuns
    /\ \/ (jcollected \/ locker = "needs_gc") /\ jpc' = AfterAttempt
       \/ ~jcollected /\ jpc' = "op"
    /\ jcollected' = FALSE /\ jstarted' = FALSE
    /\ UNCHANGED <<javaOthers, jcompleted, locker>>

\* doit_epilogue() waits until _old_marking_cycles_completed has increased.
doit_epilogue ==
    /\ jpc = "epilogue" /\ jcompleted /\ JavaRuns
    /\ jpc' = AfterAttempt
    /\ jstarted' = FALSE /\ jcompleted' = FALSE
    /\ UNCHANGED <<javaOthers, jcollected, locker>>

stall_until_clear ==
    /\ jpc = "stalled" /\ locker = "clear" /\ JavaRuns
    /\ jpc' = "retry"
    /\ UNCHANGED <<javaOthers, jcollected, jstarted, jcompleted, locker>>

\* The last thread leaves its critical region and asks for the collection that
\* it has held up.
jni_unlock ==
    /\ locker = "needs_gc" /\ JavaRuns
    /\ locker' = "doing_gc"
    /\ UNCHANGED <<javaOthers, jpc, jcollected, jstarted, jcompleted>>

\* The Java thread leaves the VM: ConcurrentMarkThread::stop(), from
\* before_exit().
stop ==
    /\ jpc = "idle" /\ JavaRuns /\ jpc' = "exited"
    /\ should_terminate' = TRUE
    /\ UNCHANGED <<sts, cmpc, started, in_progress, roots, mark, regions, policy,
                   unfinished, op, jcollected, jstarted, jcompleted, locker>>

\* A refinement thread joins the set while it has buffers to process, and leaves
\* it when a safepoint is asked for or nothing is left.
Refine(t) ==
    /\ join(t) \/ leave(t)
    /\ UNCHANGED cycleVars

Refiners == GCThreads \ {CMThread}

CycleNext ==
    \/ CMStep \/ VMStep
    \/ \E o \in Ops : StartOp(o)
    \/ \E t \in Refiners : Refine(t)
    \/ collect \/ doit_prologue \/ doit_epilogue \/ stall_until_clear
    \/ jni_unlock \/ stop

\* The concurrent mark thread stops in yield() and comes back.
StopAndResume ==
    /\ yield(CMThread) \/ yield_stop(CMThread) \/ yield_resume(CMThread)
    /\ UNCHANGED cycleVars

\* What collect() does once it has been called, and what a critical region owes
\* those it holds up: its end, and a collection.
CallerStep ==
    \/ jpc = "retry" /\ collect
    \/ doit_prologue \/ StartOp("concurrent") \/ doit_epilogue \/ stall_until_clear

LockerStep == jni_unlock \/ (locker = "doing_gc" /\ StartOp("young"))

\* Every thread that can go on does.  Safepoints that follow each other leave
\* the other threads time in between, and the VM thread serves every request in
\* the end (EveryRequestIsServed of VMThread).  Critical regions are "well
\* bounded" (gcLocker.hpp:193).
CycleFairness ==
    /\ WF_allVars(VMStep)
    /\ \A t \in Refiners : WF_allVars(pc[t] # "outside" /\ Refine(t))
    /\ SF_cycleVars(CMStep \/ StartOp("remark") \/ StartOp("cleanup"))
    /\ SF_allVars(StopAndResume)
    /\ SF_allVars(CallerStep)
    /\ SF_allVars(LockerStep)

CycleSpec == CycleInit /\ [][CycleNext]_allVars /\ CycleFairness

-----------------------------------------------------------------------------
\* A cycle starts from a clean state, whatever ended the one before: the next
\* bitmap has no marks, the SATB queues are inactive as set_active_all_threads
\* expects, no root region is left (concurrentMark.cpp:459, 892, 1004).
InitialMarkStartsClean ==
    vst = "evacuated" /\ during_initial_mark =>
        /\ dirty = 0 /\ ~satb_active /\ ~mark_in_progress
        /\ ~scan_in_progress /\ next_survivor = 0

\* What a full collection reset stays reset until the next initial mark: the
\* concurrent mark thread does not undo abort() (concurrentMarkThread.cpp:266).
AbortIsNotUndone ==
    has_aborted /\ vst # "collect" =>
        /\ ~last_young_gc /\ ~in_marking_window
        /\ dirty = 0 /\ ~satb_active /\ ~free_regions_coming

\* Only a full collection cuts a root region scan short: before an evacuation
\* pause moves survivors all of them have been scanned.
ScanCutShortOnlyByFullGC ==
    [][At("finish") /\ cmpc' # "finish" /\ next_survivor > 0 => vop = "full"]_allVars

\* What keeps a cycle from ending: it is aborted while its restart is pending,
\* or the thread terminates before it has seen that it was started.
Stuck == (has_aborted /\ restart_for_overflow) \/ At("terminated")

\* Every cycle ends, unless it gets stuck.
CycleEnds == []<>(~in_progress \/ Stuck)

\* An attempt of collect() is bound to fail through what others do while it is
\* made: a collection or cleanup pause is counted, or a critical region holds one
\* up, between the reading of the counts and the prologue; or a cycle is started
\* after the decision to try again and before the counts are read anew.
Overtaken ==
    \/ jpc = "prologue" /\ (jcollected \/ locker = "needs_gc")
    \/ jpc \in {"stalled", "retry"} /\ during_initial_mark

\* System.gc() (G1CollectedHeap::collect) returns, whether its pause finds a cycle
\* in progress, is cancelled by its prologue or held up by a critical region,
\* unless the cycle it waits for gets stuck or it is overtaken again and again:
\* collect()'s loop has no bound of its own.
SystemGcReturns == []<>(jpc \in {"idle", "exited"} \/ Stuck \/ Overtaken)

=============================================================================
