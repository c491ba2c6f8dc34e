------------------------------ MODULE GCLocker -------------------------------
(***************************************************************************)
(* GC_locker of memory/gcLocker.cpp with the collections of G1 it holds    *)
(* off: a collection that finds a thread in a JNI critical region sets     *)
(* _needs_gc and gives up, and the last thread out of its region collects. *)
(*                                                                         *)
(* The slow paths run under JNICritical_lock, which a thread gives up in   *)
(* wait() and while it collects: between those points they are one step.   *)
(* The fast paths contain no safepoint, and _needs_gc is set only at one,  *)
(* so each of them is one step too.  A VM operation with its safepoint is  *)
(* one step, which may come between any two steps of a thread.             *)
(*                                                                         *)
(* Whether the heap has room, or can grow, is nondeterministic.            *)
(***************************************************************************)
EXTENDS Integers, FiniteSets

CONSTANTS
    Threads,      \* Java threads
    None,         \* Heap_lock is free
    MaxNesting,   \* bound: critical regions nested in one thread
    CountRange    \* the number of values of total_collections(): 2^32

ASSUME GCLockerAssumption ==
    /\ IsFiniteSet(Threads) /\ None \notin Threads
    /\ MaxNesting \in Nat \ {0} /\ CountRange \in Nat \ 0 .. 1

VARIABLES
    jni_lock_count, needs_gc, doing_gc,
    locker_collections,    \* GC_locker::_total_collections
    total_collections,     \* of the heap
    in_critical,           \* _jni_active_critical of each thread
    waitset,               \* the threads in JNICritical_lock's wait()
    Heap_lock,             \* its holder
    pc,
    gc_count_before,       \* of each thread that asks for a collection
    counted                \* history: total_collections has moved since _needs_gc
                           \* was set

locker == <<jni_lock_count, needs_gc, doing_gc, locker_collections>>
heap   == <<total_collections, Heap_lock, counted>>
vars == <<jni_lock_count, needs_gc, doing_gc, locker_collections,
          total_collections, in_critical, waitset, Heap_lock, pc,
          gc_count_before, counted>>

\* The last thread out is in Universe::heap()->collect(GCCause::_gc_locker).
CollectLabels == {"collect", "gcl_prologue", "gcl_op", "gcl_epilogue", "finish"}

Labels == CollectLabels \cup
          {"idle", "jni_lock", "jni_unlock", "alloc", "stall",
           "prologue", "op", "epilogue_ok", "epilogue_fail"}

\* Every variable has its type; _jni_lock_count never goes below zero.
TypeOK ==
    /\ jni_lock_count \in Nat
    /\ needs_gc \in BOOLEAN /\ doing_gc \in BOOLEAN /\ counted \in BOOLEAN
    /\ locker_collections \in 0 .. CountRange - 1
    /\ total_collections \in 0 .. CountRange - 1
    /\ in_critical \in [Threads -> 0 .. MaxNesting]
    /\ waitset \subseteq Threads
    /\ Heap_lock \in Threads \cup {None}
    /\ pc \in [Threads -> Labels]
    /\ gc_count_before \in [Threads -> 0 .. CountRange - 1]

Init ==
    /\ jni_lock_count = 0 /\ needs_gc = FALSE /\ doing_gc = FALSE
    /\ locker_collections = 0 /\ total_collections = 0
    /\ in_critical = [t \in Threads |-> 0]
    /\ waitset = {} /\ Heap_lock = None
    /\ pc = [t \in Threads |-> "idle"]
    /\ gc_count_before = [t \in Threads |-> 0]
    /\ counted = FALSE

At(t, l)   == pc[t] = l
Goto(t, l) == pc' = [pc EXCEPT ![t] = l]
Critical   == {t \in Threads : in_critical[t] > 0}

is_active_and_needs_gc == needs_gc /\ jni_lock_count > 0

-----------------------------------------------------------------------------
(* Critical regions.                                                       *)

lock_critical(t) ==
    /\ At(t, "idle") /\ in_critical[t] < MaxNesting
    /\ IF in_critical[t] = 0 /\ needs_gc
       THEN Goto(t, "jni_lock") /\ UNCHANGED in_critical
       ELSE /\ in_critical' = [in_critical EXCEPT ![t] = @ + 1]
            /\ UNCHANGED pc
    /\ UNCHANGED <<locker, heap, waitset, gc_count_before>>

\* Mutant: regions that overlap are let in.
jni_lock_Overlaps(t) ==
    /\ At(t, "jni_lock") /\ t \notin waitset
    /\ IF doing_gc
       THEN /\ waitset' = waitset \cup {t}
            /\ UNCHANGED <<jni_lock_count, in_critical, pc>>
       ELSE /\ in_critical' = [in_critical EXCEPT ![t] = 1]
            /\ jni_lock_count' = jni_lock_count + 1
            /\ Goto(t, "idle")
            /\ UNCHANGED waitset
    /\ UNCHANGED <<needs_gc, doing_gc, locker_collections, heap, gc_count_before>>

\* Mutant: a thread enters while the last one out collects.
jni_lock_WhileCollecting(t) ==
    /\ At(t, "jni_lock") /\ t \notin waitset
    /\ IF is_active_and_needs_gc
       THEN /\ waitset' = waitset \cup {t}
            /\ UNCHANGED <<jni_lock_count, in_critical, pc>>
       ELSE /\ in_critical' = [in_critical EXCEPT ![t] = 1]
            /\ jni_lock_count' = jni_lock_count + 1
            /\ Goto(t, "idle")
            /\ UNCHANGED waitset
    /\ UNCHANGED <<needs_gc, doing_gc, locker_collections, heap, gc_count_before>>

\* The slow path waits until the critical regions are empty and the last
\* thread out has collected.
jni_lock(t) ==
    /\ At(t, "jni_lock") /\ t \notin waitset
    /\ IF is_active_and_needs_gc \/ doing_gc
       THEN /\ waitset' = waitset \cup {t}
            /\ UNCHANGED <<jni_lock_count, in_critical, pc>>
       ELSE /\ in_critical' = [in_critical EXCEPT ![t] = 1]
            /\ jni_lock_count' = jni_lock_count + 1
            /\ Goto(t, "idle")
            /\ UNCHANGED waitset
    /\ UNCHANGED <<needs_gc, doing_gc, locker_collections, heap, gc_count_before>>

unlock_critical(t) ==
    /\ At(t, "idle") /\ in_critical[t] > 0
    /\ IF in_critical[t] = 1 /\ needs_gc
       THEN Goto(t, "jni_unlock") /\ UNCHANGED in_critical
       ELSE /\ in_critical' = [in_critical EXCEPT ![t] = @ - 1]
            /\ UNCHANGED pc
    /\ UNCHANGED <<locker, heap, waitset, gc_count_before>>

\* The last thread out sets _doing_gc and drops the lock to collect.
jni_unlock(t) ==
    /\ At(t, "jni_unlock")
    /\ jni_lock_count' = jni_lock_count - 1
    /\ in_critical' = [in_critical EXCEPT ![t] = 0]
    /\ IF needs_gc /\ jni_lock_count' = 0
       THEN /\ locker_collections' = total_collections
            /\ doing_gc' = TRUE
            /\ Goto(t, "collect")
       ELSE Goto(t, "idle") /\ UNCHANGED <<locker_collections, doing_gc>>
    /\ UNCHANGED <<needs_gc, heap, waitset, gc_count_before>>

\* With the lock again: the collection has been done, let everybody go on.
jni_unlock_finish(t) ==
    /\ At(t, "finish")
    /\ doing_gc' = FALSE /\ needs_gc' = FALSE
    /\ waitset' = {}
    /\ Goto(t, "idle")
    /\ UNCHANGED <<jni_lock_count, locker_collections, heap, in_critical,
                   gc_count_before>>

-----------------------------------------------------------------------------
(* Collections.                                                            *)

\* Mutant: the test is the wrong way round.
should_discard_Inverted(before) == locker_collections = before

should_discard(before) == locker_collections # before

\* G1CollectedHeap::collect(GCCause::_gc_locker).
collect(t) ==
    /\ At(t, "collect") /\ Heap_lock = None
    /\ gc_count_before' = [gc_count_before EXCEPT ![t] = total_collections]
    /\ Goto(t, IF should_discard(total_collections) THEN "finish"
                                                    ELSE "gcl_prologue")
    /\ UNCHANGED <<locker, heap, in_critical, waitset>>

\* VM_GC_Operation::skip_operation, noroom is is_maximal_no_gc().
skip_operation(t, noroom) ==
    \/ gc_count_before[t] # total_collections
    \/ is_active_and_needs_gc /\ noroom

\* doit_prologue takes Heap_lock and keeps it unless the operation is skipped.
doit_prologue(t) ==
    /\ pc[t] \in {"prologue", "gcl_prologue"} /\ Heap_lock = None
    /\ \E noroom \in BOOLEAN :
         IF skip_operation(t, noroom)
         THEN /\ Goto(t, IF At(t, "prologue") THEN "alloc" ELSE "finish")
              /\ UNCHANGED Heap_lock
         ELSE /\ Goto(t, IF At(t, "prologue") THEN "op" ELSE "gcl_op")
              /\ Heap_lock' = t
    /\ UNCHANGED <<locker, total_collections, counted, in_critical, waitset,
                   gc_count_before>>

\* At every safepoint the threads in critical regions are counted.
set_jni_lock_count == jni_lock_count' = Cardinality(Critical)

\* A collection, unless check_active_before_gc() finds a critical region.
\* Then _needs_gc says that one is due.
do_collection_pause_at_safepoint ==
    /\ set_jni_lock_count
    /\ needs_gc' = (needs_gc \/ jni_lock_count' > 0)
    /\ counted' = (jni_lock_count' = 0 \/ (needs_gc /\ counted))
    /\ total_collections' = IF jni_lock_count' > 0 THEN total_collections
                            ELSE (total_collections + 1) % CountRange

\* VM_G1IncCollectionPause::doit for the last thread out ...
doit_gc_locker(t) ==
    /\ At(t, "gcl_op")
    /\ do_collection_pause_at_safepoint
    /\ Goto(t, "gcl_epilogue")
    /\ UNCHANGED <<doing_gc, locker_collections, Heap_lock, in_critical, waitset,
                   gc_count_before>>

\* ... and for an allocation, which may succeed before a collection is tried.
doit_allocation(t) ==
    /\ At(t, "op")
    /\ \/ /\ set_jni_lock_count
          /\ Goto(t, "epilogue_ok")
          /\ UNCHANGED <<needs_gc, counted, total_collections>>
       \/ /\ do_collection_pause_at_safepoint
          /\ Goto(t, IF jni_lock_count' > 0 THEN "epilogue_fail"
                                            ELSE "epilogue_ok")
    /\ UNCHANGED <<doing_gc, locker_collections, Heap_lock, in_critical, waitset,
                   gc_count_before>>

doit_epilogue(t) ==
    /\ pc[t] \in {"epilogue_ok", "epilogue_fail", "gcl_epilogue"}
    /\ Heap_lock' = None
    /\ Goto(t, IF At(t, "gcl_epilogue") THEN "finish"
               ELSE IF At(t, "epilogue_ok") THEN "idle" ELSE "alloc")
    /\ UNCHANGED <<locker, total_collections, counted, in_critical, waitset,
                   gc_count_before>>

\* A safepoint for some other VM operation.
Safepoint ==
    /\ set_jni_lock_count
    /\ UNCHANGED <<needs_gc, doing_gc, locker_collections, heap, in_critical,
                   waitset, pc, gc_count_before>>

\* The cleanup pause of a concurrent marking cycle (VM_CGC_Operation, which has
\* Heap_lock): it moves no object, so critical regions are no obstacle, and
\* "make[s] this be a collection".
cleanup ==
    /\ Heap_lock = None
    /\ set_jni_lock_count
    /\ total_collections' = (total_collections + 1) % CountRange
    /\ counted' = TRUE
    /\ UNCHANGED <<needs_gc, doing_gc, locker_collections, in_critical, waitset,
                   Heap_lock, pc, gc_count_before>>

-----------------------------------------------------------------------------
(* Allocation.                                                             *)

\* A thread outside a critical region fails to allocate.
attempt_allocation_slow(t) ==
    /\ At(t, "idle") /\ in_critical[t] = 0
    /\ Goto(t, "alloc")
    /\ UNCHANGED <<locker, heap, in_critical, waitset, gc_count_before>>

\* Under Heap_lock: allocate after all, or ask for a collection, or stall if
\* the last thread out of a critical region will do it.
try_allocate(t) ==
    /\ At(t, "alloc") /\ Heap_lock = None
    /\ \/ /\ Goto(t, "idle")
          /\ UNCHANGED gc_count_before
       \/ /\ needs_gc
          /\ Goto(t, "stall")
          /\ UNCHANGED gc_count_before
       \/ /\ ~needs_gc
          /\ gc_count_before' = [gc_count_before EXCEPT ![t] = total_collections]
          /\ Goto(t, "prologue")
    /\ UNCHANGED <<locker, heap, in_critical, waitset>>

stall_until_clear(t) ==
    /\ At(t, "stall") /\ t \notin waitset
    /\ IF needs_gc
       THEN waitset' = waitset \cup {t} /\ UNCHANGED pc
       ELSE Goto(t, "alloc") /\ UNCHANGED waitset
    /\ UNCHANGED <<locker, heap, in_critical, gc_count_before>>

\* What a thread owes the others: it leaves its critical regions and goes on
\* with what it has begun.
Proceed(t) ==
    \/ unlock_critical(t) \/ jni_unlock(t) \/ jni_unlock_finish(t)
    \/ jni_lock(t) \/ stall_until_clear(t)
    \/ doit_gc_locker(t) \/ doit_allocation(t) \/ doit_epilogue(t)

\* Steps that wait for Heap_lock.
ProceedLocked(t) == collect(t) \/ doit_prologue(t) \/ try_allocate(t)

Next ==
    \/ Safepoint \/ cleanup
    \/ \E t \in Threads : \/ lock_critical(t) \/ attempt_allocation_slow(t)
                          \/ Proceed(t) \/ ProceedLocked(t)

Spec == Init /\ [][Next]_vars

\* VM operations are executed, Heap_lock is obtained when it is free again and
\* again, and critical regions are "by spec, well bounded" (gcLocker.hpp:193):
\* a thread does not go on nesting regions for ever.
Fairness ==
    \A t \in Threads :
        /\ WF_vars(Proceed(t))
        /\ SF_vars(\/ ProceedLocked(t)
                   \/ in_critical[t] = 1 /\ unlock_critical(t))

FairSpec == Spec /\ Fairness

-----------------------------------------------------------------------------
\* While _needs_gc is set _jni_lock_count is the number of threads in critical
\* regions: the fast paths, which do not count, are closed to the first entry
\* and the last exit (gcLocker.hpp, "It's only kept up to date when _needs_gc
\* is true", and the asserts of verify_critical_count()).
CountedWhenNeeded == needs_gc => jni_lock_count = Cardinality(Critical)

\* Exactly one thread is doing the collection that is due, and until it has
\* cleared _needs_gc nobody enters a critical region although it has dropped
\* JNICritical_lock (the assert "GC_locker cannot be active when initiating
\* GC" of skip_operation()).
LastOutIsAlone ==
    /\ \A t, u \in Threads :
         pc[t] \in CollectLabels /\ pc[u] \in CollectLabels => t = u
    /\ doing_gc <=> \E t \in Threads : pc[t] \in CollectLabels
    /\ doing_gc => needs_gc /\ Critical = {}

\* _needs_gc is cleared only after total_collections has counted a collection (or
\* a cleanup pause) that came after it was set, whichever thread asked for it:
\* the last thread out drops its request only if somebody was there before it
\* (should_discard() and skip_operation()).
ClearedAfterCollection ==
    [][needs_gc /\ ~needs_gc' => counted]_vars

\* A thread waits on JNICritical_lock only while some thread is still to
\* notify it: one in a critical region, or the one that collects.
WaitersWillBeNotified ==
    waitset # {} => needs_gc /\ (doing_gc \/ Critical # {})

\* A collection that is due is not starved by critical regions that overlap
\* (gcLocker.hpp:181).
NeedsGCIsServed == []<>~needs_gc
==============================================================================
