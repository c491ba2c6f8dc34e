--------------------------- MODULE GCLockerProofs ----------------------------
(***************************************************************************)
(* Theorems about GCLocker for every finite set of threads, every depth of *)
(* nesting and every range of the collection counter.                      *)
(***************************************************************************)
EXTENDS GCLocker, FiniteSetTheorems, TLAPS

\* A thread is in a critical region only when it runs or is on the slow path
\* out of its last one, which it takes only while _needs_gc is set.
RegionInv ==
    \A t \in Threads :
        /\ pc[t] = "jni_unlock" => needs_gc /\ in_critical[t] = 1
        /\ pc[t] \notin {"idle", "jni_unlock"} => in_critical[t] = 0

\* While a collection is due somebody is still to ask for it.
DueInv == needs_gc => doing_gc \/ Critical # {}

\* What the last thread out knows of the count of collections at each of its
\* steps.
CollectInv ==
    \A t \in Threads :
        /\ pc[t] = "collect" =>
             (locker_collections # total_collections => counted)
        /\ pc[t] = "gcl_prologue" =>
             (gc_count_before[t] # total_collections => counted)
        /\ pc[t] \in {"gcl_epilogue", "finish"} => counted

IInv ==
    /\ TypeOK /\ CountedWhenNeeded /\ RegionInv /\ LastOutIsAlone /\ DueInv
    /\ WaitersWillBeNotified /\ CollectInv

\* The threads in critical regions can be counted.
LEMMA CriticalFinite ==
    /\ IsFiniteSet(Critical) /\ Cardinality(Critical) \in Nat
    /\ Cardinality(Critical) = 0 <=> Critical = {}
<1>1. IsFiniteSet(Critical)
  <2>1. Critical \in SUBSET Threads
    BY DEF Critical
  <2> QED BY <2>1, FS_Subset, GCLockerAssumption
<1> QED BY <1>1, FS_CardinalityType, FS_EmptySet

\* The same after a step.
LEMMA CriticalFiniteNext ==
    /\ IsFiniteSet(Critical') /\ Cardinality(Critical') \in Nat
    /\ Cardinality(Critical') = 0 <=> Critical' = {}
<1>1. IsFiniteSet(Critical')
  <2>1. Critical' \in SUBSET Threads
    BY DEF Critical
  <2> QED BY <2>1, FS_Subset, GCLockerAssumption
<1> QED BY <1>1, FS_CardinalityType, FS_EmptySet

\* While a collection is due nobody gets past jni_lock()'s loop.
LEMMA SlowPathCloses ==
    ASSUME IInv, needs_gc
    PROVE  is_active_and_needs_gc \/ doing_gc
BY CriticalFinite
DEF IInv, TypeOK, CountedWhenNeeded, DueInv, is_active_and_needs_gc

\* How a step changes the critical regions and the count: a thread enters only
\* while _needs_gc is clear, one leaves and is counted out if it is set, the
\* safepoint counts them, or nothing happens.
Entered(t) ==
    /\ ~needs_gc /\ ~needs_gc' /\ jni_lock_count' \in Nat
    /\ doing_gc' = doing_gc /\ waitset' = waitset
Left(t) ==
    /\ t \in Critical /\ Critical' = Critical \ {t}
    /\ needs_gc' = needs_gc
    /\ IF needs_gc THEN jni_lock_count' = jni_lock_count - 1
                   ELSE jni_lock_count' = jni_lock_count
Counted ==
    /\ Critical' = Critical /\ jni_lock_count' = Cardinality(Critical)
Stayed ==
    /\ Critical' = Critical /\ jni_lock_count' = jni_lock_count
    /\ needs_gc' => needs_gc

\* Every step keeps the regions counted.
LEMMA CriticalNext ==
    ASSUME IInv, [Next]_vars
    PROVE  \/ Stayed \/ Counted
           \/ \E t \in Threads : Entered(t) \/ Left(t)
<1> USE DEF IInv, TypeOK, Labels, CollectLabels, RegionInv, Critical, Goto, At, locker, heap,
            Entered, Left, Counted, Stayed
<1>1. ASSUME NEW t \in Threads, lock_critical(t) PROVE Stayed \/ Entered(t)
  BY <1>1 DEF lock_critical
<1>2. ASSUME NEW t \in Threads, jni_lock(t) PROVE Stayed \/ Entered(t)
  BY <1>2, SlowPathCloses DEF jni_lock
<1>3. ASSUME NEW t \in Threads, unlock_critical(t) PROVE Stayed \/ Left(t)
  BY <1>3 DEF unlock_critical
<1>4. ASSUME NEW t \in Threads, jni_unlock(t) PROVE Left(t)
  BY <1>4 DEF jni_unlock
<1>5. ASSUME NEW t \in Threads, jni_unlock_finish(t) PROVE Stayed
  BY <1>5 DEF jni_unlock_finish
<1>6. ASSUME NEW t \in Threads, ProceedLocked(t) PROVE Stayed
  BY <1>6 DEF ProceedLocked, collect, doit_prologue, try_allocate
<1>7. ASSUME NEW t \in Threads, doit_gc_locker(t) \/ doit_allocation(t) PROVE Counted
  BY <1>7 DEF doit_gc_locker, doit_allocation, set_jni_lock_count,
              do_collection_pause_at_safepoint
<1>8. ASSUME NEW t \in Threads,
             doit_epilogue(t) \/ attempt_allocation_slow(t) \/ stall_until_clear(t)
      PROVE  Stayed
  BY <1>8 DEF doit_epilogue, attempt_allocation_slow, stall_until_clear
<1>9. ASSUME Safepoint \/ cleanup PROVE Counted
  BY <1>9 DEF Safepoint, cleanup, set_jni_lock_count
<1>10. CASE UNCHANGED vars
  BY <1>10 DEF vars
<1> HIDE DEF IInv, TypeOK, Labels, CollectLabels, RegionInv, Critical, Goto, At, locker, heap,
            Entered, Left, Counted, Stayed
<1> QED BY <1>1, <1>2, <1>3, <1>4, <1>5, <1>6, <1>7, <1>8, <1>9, <1>10
        DEF Next, Proceed

\* The count stays exact while a collection is due, and never goes below zero.
LEMMA CountedNext ==
    ASSUME IInv, [Next]_vars
    PROVE  CountedWhenNeeded' /\ jni_lock_count' \in Nat
<1> USE DEF IInv, TypeOK, CountedWhenNeeded
<1>1. CASE Stayed
  BY <1>1 DEF Stayed
<1>2. CASE Counted
  BY <1>2, CriticalFinite DEF Counted
<1>3. ASSUME NEW t \in Threads, Entered(t)
      PROVE  CountedWhenNeeded' /\ jni_lock_count' \in Nat
  BY <1>3 DEF Entered
<1>4. ASSUME NEW t \in Threads, Left(t)
      PROVE  CountedWhenNeeded' /\ jni_lock_count' \in Nat
  <2>1. Cardinality(Critical') = Cardinality(Critical) - 1
    BY <1>4, CriticalFinite, FS_RemoveElement, Zenon DEF Left
  <2> QED BY <1>4, <2>1, CriticalFiniteNext DEF Left
<1> QED BY <1>1, <1>2, <1>3, <1>4, CriticalNext

\* Every step keeps the types.
LEMMA TypeOKNext == ASSUME IInv, [Next]_vars PROVE TypeOK'
<1>1. jni_lock_count' \in Nat
  BY CountedNext
<1>2. (total_collections + 1) % CountRange \in 0 .. CountRange - 1
  BY GCLockerAssumption DEF IInv, TypeOK
<1> USE <1>1, <1>2, GCLockerAssumption
    DEF IInv, TypeOK, Labels, CollectLabels, Goto, At, locker, heap
<1>3. ASSUME NEW t \in Threads, lock_critical(t) PROVE TypeOK'
  BY <1>3 DEF lock_critical
<1>4. ASSUME NEW t \in Threads, jni_lock(t) PROVE TypeOK'
  BY <1>4 DEF jni_lock
<1>5. ASSUME NEW t \in Threads, unlock_critical(t) PROVE TypeOK'
  BY <1>5 DEF unlock_critical
<1>6. ASSUME NEW t \in Threads, jni_unlock(t) PROVE TypeOK'
  <2>1. in_critical' \in [Threads -> 0 .. MaxNesting]
    BY <1>6 DEF jni_unlock
  <2>2. CASE needs_gc /\ jni_lock_count' = 0
    BY <1>6, <2>1, <2>2, Zenon DEF jni_unlock
  <2>3. CASE ~(needs_gc /\ jni_lock_count' = 0)
    BY <1>6, <2>1, <2>3 DEF jni_unlock
  <2> QED BY <2>2, <2>3
<1>7. ASSUME NEW t \in Threads, jni_unlock_finish(t) PROVE TypeOK'
  BY <1>7, Zenon DEF jni_unlock_finish
<1>8. ASSUME NEW t \in Threads, collect(t) PROVE TypeOK'
  BY <1>8 DEF collect
<1>9. ASSUME NEW t \in Threads, doit_prologue(t) PROVE TypeOK'
  BY <1>9 DEF doit_prologue
<1>10. ASSUME NEW t \in Threads, try_allocate(t) PROVE TypeOK'
  BY <1>10 DEF try_allocate
<1>11. ASSUME NEW t \in Threads, doit_gc_locker(t) PROVE TypeOK'
  BY <1>11 DEF doit_gc_locker, do_collection_pause_at_safepoint
<1>12. ASSUME NEW t \in Threads, doit_allocation(t) PROVE TypeOK'
  BY <1>12, Zenon DEF doit_allocation, do_collection_pause_at_safepoint
<1>13. ASSUME NEW t \in Threads,
              doit_epilogue(t) \/ attempt_allocation_slow(t) \/ stall_until_clear(t)
       PROVE  TypeOK'
  BY <1>13 DEF doit_epilogue, attempt_allocation_slow, stall_until_clear
<1>14. ASSUME Safepoint \/ cleanup PROVE TypeOK'
  BY <1>14, Zenon DEF Safepoint, cleanup
<1>15. CASE UNCHANGED vars
  BY <1>15 DEF vars
<1> HIDE DEF IInv, TypeOK, Labels, CollectLabels, Goto, At, locker, heap
<1> QED BY <1>3, <1>4, <1>5, <1>6, <1>7, <1>8, <1>9, <1>10, <1>11, <1>12,
           <1>13, <1>14, <1>15 DEF Next, Proceed, ProceedLocked

\* Every step keeps a thread's place and its critical regions in agreement.
LEMMA RegionNext == ASSUME IInv, [Next]_vars PROVE RegionInv'
<1> USE DEF IInv, TypeOK, Labels, CollectLabels, RegionInv, Goto, At, locker, heap
<1>1. ASSUME NEW t \in Threads, lock_critical(t) PROVE RegionInv'
  BY <1>1 DEF lock_critical
<1>2. ASSUME NEW t \in Threads, jni_lock(t) PROVE RegionInv'
  BY <1>2 DEF jni_lock
<1>3. ASSUME NEW t \in Threads, unlock_critical(t) PROVE RegionInv'
  BY <1>3 DEF unlock_critical
<1>4. ASSUME NEW t \in Threads, jni_unlock(t) PROVE RegionInv'
  BY <1>4 DEF jni_unlock
<1>5. ASSUME NEW t \in Threads, jni_unlock_finish(t) PROVE RegionInv'
  <2>1. doing_gc /\ Critical = {}
    BY <1>5 DEF jni_unlock_finish, LastOutIsAlone
  <2>2. \A u \in Threads : pc[u] # "jni_unlock"
    BY <2>1 DEF Critical
  <2> QED BY <1>5, <2>2 DEF jni_unlock_finish
<1>6. ASSUME NEW t \in Threads, ProceedLocked(t) PROVE RegionInv'
  BY <1>6 DEF ProceedLocked, collect, doit_prologue, try_allocate
<1>7. ASSUME NEW t \in Threads, doit_gc_locker(t) \/ doit_allocation(t)
      PROVE  RegionInv'
  BY <1>7 DEF doit_gc_locker, doit_allocation, do_collection_pause_at_safepoint
<1>8. ASSUME NEW t \in Threads,
             doit_epilogue(t) \/ attempt_allocation_slow(t) \/ stall_until_clear(t)
      PROVE  RegionInv'
  BY <1>8 DEF doit_epilogue, attempt_allocation_slow, stall_until_clear
<1>9. CASE Safepoint \/ cleanup \/ UNCHANGED vars
  BY <1>9 DEF Safepoint, cleanup, vars
<1> HIDE DEF IInv, TypeOK, Labels, CollectLabels, RegionInv, Goto, At, locker, heap
<1> QED BY <1>1, <1>2, <1>3, <1>4, <1>5, <1>6, <1>7, <1>8, <1>9
        DEF Next, Proceed

\* A thread that is in a critical region keeps every other one from being the
\* last out.
LEMMA LastOutNext == ASSUME IInv, [Next]_vars PROVE LastOutIsAlone'
<1> USE DEF IInv, TypeOK, Labels, CollectLabels, LastOutIsAlone, RegionInv, Critical,
            Goto, At, locker, heap
<1>1. ASSUME NEW t \in Threads, lock_critical(t) PROVE LastOutIsAlone'
  BY <1>1 DEF lock_critical
<1>2. ASSUME NEW t \in Threads, jni_lock(t) PROVE LastOutIsAlone'
  BY <1>2 DEF jni_lock
<1>3. ASSUME NEW t \in Threads, unlock_critical(t) PROVE LastOutIsAlone'
  BY <1>3 DEF unlock_critical
<1>4. ASSUME NEW t \in Threads, jni_unlock(t) PROVE LastOutIsAlone'
  <2>1. ~doing_gc /\ needs_gc /\ needs_gc' = needs_gc
    BY <1>4 DEF jni_unlock
  <2>2. jni_lock_count' = 0 => Critical' = {}
    BY <2>1, CountedNext, CriticalFiniteNext DEF CountedWhenNeeded
  <2> QED BY <1>4, <2>1, <2>2 DEF jni_unlock
<1>5. ASSUME NEW t \in Threads, jni_unlock_finish(t) PROVE LastOutIsAlone'
  BY <1>5 DEF jni_unlock_finish
<1>6. ASSUME NEW t \in Threads, collect(t) PROVE LastOutIsAlone'
  BY <1>6 DEF collect
<1>7. ASSUME NEW t \in Threads, doit_prologue(t) PROVE LastOutIsAlone'
  BY <1>7 DEF doit_prologue
<1>8. ASSUME NEW t \in Threads, try_allocate(t) PROVE LastOutIsAlone'
  BY <1>8 DEF try_allocate
<1>9. ASSUME NEW t \in Threads, doit_gc_locker(t) PROVE LastOutIsAlone'
  BY <1>9 DEF doit_gc_locker, do_collection_pause_at_safepoint
<1>10. ASSUME NEW t \in Threads, doit_allocation(t) PROVE LastOutIsAlone'
  BY <1>10 DEF doit_allocation, do_collection_pause_at_safepoint
<1>11. ASSUME NEW t \in Threads,
              doit_epilogue(t) \/ attempt_allocation_slow(t) \/ stall_until_clear(t)
       PROVE  LastOutIsAlone'
  BY <1>11 DEF doit_epilogue, attempt_allocation_slow, stall_until_clear
<1>12. CASE Safepoint \/ cleanup \/ UNCHANGED vars
  BY <1>12 DEF Safepoint, cleanup, vars
<1> HIDE DEF IInv, TypeOK, Labels, CollectLabels, LastOutIsAlone, RegionInv, Critical,
             Goto, At, locker, heap
<1> QED BY <1>1, <1>2, <1>3, <1>4, <1>5, <1>6, <1>7, <1>8, <1>9, <1>10, <1>11,
           <1>12 DEF Next, Proceed, ProceedLocked

\* Somebody stays responsible for a collection that is due: the last thread to
\* leave becomes the one that collects, and at the safepoint that sets _needs_gc
\* some thread is in a critical region.
LEMMA DueNext == ASSUME IInv, [Next]_vars PROVE DueInv'
<1> USE DEF IInv, TypeOK, CountedWhenNeeded, DueInv, Goto, At, locker, heap
<1>1. ASSUME NEW t \in Threads, lock_critical(t) PROVE DueInv'
  BY <1>1 DEF lock_critical, Critical
<1>2. ASSUME NEW t \in Threads, jni_lock(t) PROVE DueInv'
  BY <1>2 DEF jni_lock, Critical
<1>3. ASSUME NEW t \in Threads, unlock_critical(t) PROVE DueInv'
  BY <1>3 DEF unlock_critical, Critical
<1>4. ASSUME NEW t \in Threads, jni_unlock(t) PROVE DueInv'
  <2>1. needs_gc' = needs_gc
    BY <1>4 DEF jni_unlock
  <2>2. needs_gc' /\ jni_lock_count' # 0 => Critical' # {}
    BY CountedNext, CriticalFiniteNext
  <2>3. needs_gc /\ jni_lock_count' = 0 => doing_gc'
    BY <1>4 DEF jni_unlock
  <2> QED BY <2>1, <2>2, <2>3
<1>5. ASSUME NEW t \in Threads, jni_unlock_finish(t) PROVE DueInv'
  BY <1>5 DEF jni_unlock_finish
<1>6. ASSUME NEW t \in Threads, ProceedLocked(t) PROVE DueInv'
  BY <1>6, Zenon DEF ProceedLocked, collect, doit_prologue, try_allocate, Critical
<1>7. ASSUME NEW t \in Threads, doit_gc_locker(t) \/ doit_allocation(t)
      PROVE  DueInv'
  <2>1. Critical' = Critical /\ doing_gc' = doing_gc
    BY <1>7 DEF doit_gc_locker, doit_allocation, Critical
  <2>2. needs_gc' => needs_gc \/ Cardinality(Critical) > 0
    BY <1>7, Zenon DEF doit_gc_locker, doit_allocation, set_jni_lock_count,
                do_collection_pause_at_safepoint
  <2> QED BY <2>1, <2>2, CriticalFinite
<1>8. ASSUME NEW t \in Threads,
             doit_epilogue(t) \/ attempt_allocation_slow(t) \/ stall_until_clear(t)
      PROVE  DueInv'
  BY <1>8, Zenon DEF doit_epilogue, attempt_allocation_slow, stall_until_clear, Critical
<1>9. CASE Safepoint \/ cleanup \/ UNCHANGED vars
  BY <1>9, Zenon DEF Safepoint, cleanup, vars, Critical
<1> HIDE DEF IInv, TypeOK, CountedWhenNeeded, DueInv, Goto, At, locker, heap
<1> QED BY <1>1, <1>2, <1>3, <1>4, <1>5, <1>6, <1>7, <1>8, <1>9
        DEF Next, Proceed

\* A thread starts to wait only while a collection is due, and the step that
\* clears _needs_gc wakes everybody.
LEMMA WaitersNext == ASSUME IInv, [Next]_vars PROVE WaitersWillBeNotified'
<1>1. DueInv'
  BY DueNext
<1>2. waitset # {} => needs_gc
  BY DEF IInv, WaitersWillBeNotified
<1>3. waitset' # {} => needs_gc'
  <2> USE <1>2 DEF locker, heap
  <2>1. ASSUME NEW t \in Threads, jni_lock(t) PROVE waitset' # {} => needs_gc'
    BY <2>1 DEF jni_lock, is_active_and_needs_gc, IInv, LastOutIsAlone
  <2>2. ASSUME NEW t \in Threads, stall_until_clear(t)
        PROVE  waitset' # {} => needs_gc'
    BY <2>2 DEF stall_until_clear
  <2>3. ASSUME NEW t \in Threads, jni_unlock_finish(t)
        PROVE  waitset' # {} => needs_gc'
    BY <2>3 DEF jni_unlock_finish
  <2>4. ASSUME NEW t \in Threads,
               \/ lock_critical(t) \/ unlock_critical(t) \/ jni_unlock(t)
               \/ ProceedLocked(t) \/ doit_epilogue(t)
               \/ attempt_allocation_slow(t)
        PROVE  waitset' # {} => needs_gc'
    BY <2>4 DEF lock_critical, unlock_critical, jni_unlock, ProceedLocked,
       collect, doit_prologue, try_allocate, doit_epilogue,
       attempt_allocation_slow
  <2>5. ASSUME NEW t \in Threads, doit_gc_locker(t) \/ doit_allocation(t)
        PROVE  waitset' # {} => needs_gc'
    BY <2>5, Zenon DEF doit_gc_locker, doit_allocation, do_collection_pause_at_safepoint
  <2>6. CASE Safepoint \/ cleanup \/ UNCHANGED vars
    BY <2>6 DEF Safepoint, cleanup, vars
  <2> QED BY <2>1, <2>2, <2>3, <2>4, <2>5, <2>6 DEF Next, Proceed
<1> QED BY <1>1, <1>3 DEF DueInv, WaitersWillBeNotified

\* A step moves the count of collections only together with the history, and
\* the history is forgotten only when no collection was due.
LEMMA HistoryNext ==
    ASSUME IInv, [Next]_vars
    PROVE  /\ total_collections' # total_collections => counted'
           /\ needs_gc /\ counted => counted'
<1> USE DEF locker, heap, IInv, TypeOK
<1>1. ASSUME NEW t \in Threads, doit_gc_locker(t) \/ doit_allocation(t)
      PROVE  /\ total_collections' # total_collections => counted'
             /\ needs_gc /\ counted => counted'
  <2>1. jni_lock_count' \in Nat
    BY CountedNext
  <2>2. ASSUME do_collection_pause_at_safepoint
        PROVE  /\ total_collections' # total_collections => counted'
               /\ needs_gc /\ counted => counted'
    <3>1. CASE jni_lock_count' = 0
      BY <2>2, <3>1, Zenon DEF do_collection_pause_at_safepoint
    <3>2. CASE jni_lock_count' > 0
      BY <2>2, <3>2 DEF do_collection_pause_at_safepoint
    <3> QED BY <2>1, <3>1, <3>2
  <2> QED BY <1>1, <2>2 DEF doit_gc_locker, doit_allocation
<1>2. ASSUME NEW t \in Threads,
             \/ lock_critical(t) \/ jni_lock(t) \/ unlock_critical(t)
             \/ jni_unlock(t) \/ jni_unlock_finish(t) \/ ProceedLocked(t)
             \/ doit_epilogue(t) \/ attempt_allocation_slow(t)
             \/ stall_until_clear(t)
      PROVE  UNCHANGED <<total_collections, counted>>
  BY <1>2, Zenon DEF lock_critical, jni_lock, unlock_critical, jni_unlock,
     jni_unlock_finish, ProceedLocked, collect, doit_prologue, try_allocate,
     doit_epilogue, attempt_allocation_slow, stall_until_clear
<1>3. CASE Safepoint \/ UNCHANGED vars
  BY <1>3 DEF Safepoint, vars
<1>4. CASE cleanup
  BY <1>4 DEF cleanup
<1> HIDE DEF locker, heap, IInv, TypeOK
<1> QED BY <1>1, <1>2, <1>3, <1>4 DEF Next, Proceed

\* Every step keeps what the last thread out knows.
LEMMA CollectNext == ASSUME IInv, [Next]_vars PROVE CollectInv'
<1>1. /\ total_collections' # total_collections => counted'
      /\ needs_gc /\ counted => counted'
  BY HistoryNext
<1>2. \A t \in Threads : pc[t] \in CollectLabels => needs_gc /\ Critical = {}
  BY DEF IInv, LastOutIsAlone
<1> USE <1>1, <1>2 DEF IInv, TypeOK, Labels, CollectLabels, CollectInv, Goto, At,
            locker, heap
<1>3. ASSUME NEW t \in Threads, lock_critical(t) \/ jni_lock(t) \/ unlock_critical(t)
      PROVE  CollectInv'
  BY <1>3 DEF lock_critical, jni_lock, unlock_critical
<1>4. ASSUME NEW t \in Threads, jni_unlock(t) PROVE CollectInv'
  <2>1. t \in Critical
    BY <1>4 DEF jni_unlock, RegionInv, Critical
  <2>2. \A u \in Threads : pc[u] \notin CollectLabels
    BY <2>1
  <2> QED BY <1>4, <2>2 DEF jni_unlock
<1>5. ASSUME NEW t \in Threads, jni_unlock_finish(t) PROVE CollectInv'
  BY <1>5 DEF jni_unlock_finish
<1>6. ASSUME NEW t \in Threads, collect(t) PROVE CollectInv'
  BY <1>6 DEF collect, should_discard
<1>7. ASSUME NEW t \in Threads, doit_prologue(t) PROVE CollectInv'
  <2>1. pc[t] = "gcl_prologue" => ~is_active_and_needs_gc
    BY CriticalFinite DEF is_active_and_needs_gc, CountedWhenNeeded
  <2> QED BY <1>7, <2>1 DEF doit_prologue, skip_operation
<1>8. ASSUME NEW t \in Threads, try_allocate(t) PROVE CollectInv'
  BY <1>8 DEF try_allocate
<1>9. ASSUME NEW t \in Threads, doit_gc_locker(t) PROVE CollectInv'
  <2>1. Cardinality(Critical) = 0
    BY <1>9, CriticalFinite DEF doit_gc_locker
  <2>2. counted'
    BY <1>9, <2>1 DEF doit_gc_locker, do_collection_pause_at_safepoint,
                      set_jni_lock_count
  <2> QED BY <1>9, <2>2 DEF doit_gc_locker
<1>10. ASSUME NEW t \in Threads, doit_allocation(t) PROVE CollectInv'
  BY <1>10 DEF doit_allocation
<1>11. ASSUME NEW t \in Threads,
              doit_epilogue(t) \/ attempt_allocation_slow(t) \/ stall_until_clear(t)
       PROVE  CollectInv'
  BY <1>11 DEF doit_epilogue, attempt_allocation_slow, stall_until_clear
<1>12. CASE Safepoint \/ cleanup \/ UNCHANGED vars
  BY <1>12 DEF Safepoint, cleanup, vars
<1> HIDE DEF IInv, TypeOK, Labels, CollectLabels, CollectInv, Goto, At, locker, heap
<1> QED BY <1>3, <1>4, <1>5, <1>6, <1>7, <1>8, <1>9, <1>10, <1>11, <1>12
        DEF Next, Proceed, ProceedLocked

\* IInv is an invariant of every execution.
LEMMA Invariant == Spec => []IInv
<1>1. ASSUME Init PROVE IInv
  <2>1. TypeOK
    <3>1. 0 \in 0 .. CountRange - 1 /\ 0 \in 0 .. MaxNesting
      BY GCLockerAssumption
    <3> QED BY <1>1, <3>1, Zenon DEF Init, TypeOK, Labels
  <2>2. CountedWhenNeeded /\ RegionInv /\ DueInv /\ WaitersWillBeNotified
    BY <1>1 DEF Init, CountedWhenNeeded, RegionInv, DueInv, WaitersWillBeNotified
  <2>3. LastOutIsAlone /\ CollectInv
    BY <1>1 DEF Init, LastOutIsAlone, CollectInv, CollectLabels
  <2> QED BY <2>1, <2>2, <2>3 DEF IInv
<1>2. ASSUME IInv, [Next]_vars PROVE IInv'
  BY <1>2, TypeOKNext, CountedNext, RegionNext, LastOutNext, DueNext, WaitersNext,
     CollectNext DEF IInv
<1> QED BY <1>1, <1>2, PTL DEF Spec

\* While _needs_gc is set _jni_lock_count is exact, for any number of threads.
THEOREM CountedSafe == Spec => []CountedWhenNeeded
<1>1. IInv => CountedWhenNeeded
  BY DEF IInv
<1> QED BY <1>1, Invariant, PTL

\* One thread at most collects for GC_locker, and meanwhile no thread is in a
\* critical region, for any number of threads.
THEOREM LastOutSafe == Spec => []LastOutIsAlone
<1>1. IInv => LastOutIsAlone
  BY DEF IInv
<1> QED BY <1>1, Invariant, PTL

\* Nobody waits on JNICritical_lock without a thread that will notify it, for
\* any number of threads.
THEOREM WaitersSafe == Spec => []WaitersWillBeNotified
<1>1. IInv => WaitersWillBeNotified
  BY DEF IInv
<1> QED BY <1>1, Invariant, PTL

\* _needs_gc is cleared only after the collection that was due, for any number
\* of threads and any range of the counter.
THEOREM ClearedSafe == Spec => ClearedAfterCollection
<1>1. ASSUME IInv, [Next]_vars
      PROVE  [needs_gc /\ ~needs_gc' => counted]_vars
  <2> USE DEF locker, heap
  <2>1. ASSUME NEW t \in Threads, jni_unlock_finish(t) PROVE counted
    BY <1>1, <2>1 DEF jni_unlock_finish, IInv, CollectInv, At
  <2>2. ASSUME NEW t \in Threads,
               \/ lock_critical(t) \/ jni_lock(t) \/ unlock_critical(t)
               \/ jni_unlock(t) \/ ProceedLocked(t) \/ doit_epilogue(t)
               \/ attempt_allocation_slow(t) \/ stall_until_clear(t)
        PROVE  needs_gc' = needs_gc
    BY <2>2 DEF lock_critical, jni_lock, unlock_critical, jni_unlock,
       ProceedLocked, collect, doit_prologue, try_allocate, doit_epilogue,
       attempt_allocation_slow, stall_until_clear
  <2>3. ASSUME NEW t \in Threads, doit_gc_locker(t) \/ doit_allocation(t), needs_gc
        PROVE  needs_gc'
    BY <2>3, Zenon DEF doit_gc_locker, doit_allocation, do_collection_pause_at_safepoint
  <2>4. CASE Safepoint \/ cleanup
    BY <2>4 DEF Safepoint, cleanup
  <2> HIDE DEF locker, heap
  <2> QED BY <1>1, <2>1, <2>2, <2>3, <2>4 DEF Next, Proceed
<1> QED BY <1>1, Invariant, PTL DEF Spec, ClearedAfterCollection
==============================================================================
