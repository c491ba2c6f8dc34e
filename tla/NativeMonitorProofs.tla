------------------------- MODULE NativeMonitorProofs -------------------------
(***************************************************************************)
(* Theorems about NativeMonitor, for every set of threads.                 *)
(***************************************************************************)
EXTENDS NativeMonitor, SequenceTheorems, TLAPS

(***************************************************************************)
(* Type correctness.  What a label says of the locals and lists the code   *)
(* dereferences there: w is an event, the list popped is not empty.        *)
(***************************************************************************)
Carrying == {"u_pass", "u_check", "u_unpark", "n_push", "n_mark"}

Dereferences ==
    /\ \A t \in Threads : pc[t] \in Carrying => w[t] \in Threads
    /\ \A t \in Threads : pc[t] = "u_pop" => EntryList # <<>>
    /\ \A t \in Threads : pc[t] = "u_fill" => List[t] # <<>>

TypeInv == TypeOK /\ InnerLock /\ Dereferences

\* What IWait() leaves of the WaitSet after it has unlinked itself is still a
\* list of the same threads.
LEMMA UnlinkType ==
    ASSUME NEW S, NEW s \in Seq(S), NEW t
    PROVE  Unlink(s, t) \in Seq(S)
<1> DEFINE p == CHOOSE i \in DOMAIN s : s[i] = t
           n == Len(s) - 1
           e(i) == s[IF i < p THEN i ELSE i + 1]
<1>1. CASE Len(s) = 0
  <2>1. 1 .. n = {}
    BY <1>1
  <2>2. [i \in 1 .. n |-> e(i)] = <<>>
    BY <2>1
  <2> QED BY <2>2, EmptySeq DEF Unlink
<1>2. CASE Len(s) # 0
  <2>1. n \in Nat
    BY <1>2, LenProperties
  <2>2. \A i \in 1 .. n : e(i) \in S
    BY <1>2, LenProperties
  <2>3. [i \in 1 .. n |-> e(i)] \in Seq(S)
    <3> HIDE DEF n, e
    <3> QED BY <2>1, <2>2, IsASeq
  <2> QED BY <2>3 DEF Unlink
<1> QED BY <1>1, <1>2

\* Every step keeps the types.
LEMMA TypeOKNext ==
    ASSUME TypeInv, [Next]_vars
    PROVE  TypeOK'
<1> USE ThreadsAssumption DEF TypeInv, TypeOK, Dereferences, Carrying, Labels, ILockLabels, IUnlockLabels, SuccessionLabels, IWaitLabels,
             QueuedWaitLabels, NotifyLabels, ParkLabels,
             At, Goto, memory, lists, waitVars, vmVars, locals
<1>1. ASSUME NEW t \in Threads, LockFast(t) PROVE TypeOK'
  BY <1>1 DEF LockFast, MayCall, TryLockWord, Calls
<1>2. ASSUME NEW t \in Threads, LockWithoutSafepointCheck(t) PROVE TypeOK'
  BY <1>2 DEF LockWithoutSafepointCheck, MayCall, Calls
<1>3. ASSUME NEW t \in Threads, TryLockSneak(t) PROVE TypeOK'
  BY <1>3 DEF TryLockSneak, MayCall, Sneak, can_sneak, Calls
<1>4. ASSUME NEW t \in Threads, TryLock(t) PROVE TypeOK'
  BY <1>4 DEF TryLock, MayCall, TryLockWord, Calls
<1>5. ASSUME NEW t \in Threads, LockSneak(t) PROVE TypeOK'
  BY <1>5 DEF LockSneak, Sneak, can_sneak, Calls
<1>6. ASSUME NEW t \in Threads, LockSpin(t) PROVE TypeOK'
  BY <1>6 DEF LockSpin, TryLockWord
<1>7. ASSUME NEW t \in Threads, LockBlock(t) PROVE TypeOK'
  BY <1>7 DEF LockBlock
<1>8. ASSUME NEW t \in Threads, SetOwner(t) PROVE TypeOK'
  BY <1>8 DEF SetOwner, Calls
<1>9. ASSUME NEW t \in Threads, Unlock(t) PROVE TypeOK'
  BY <1>9, Zenon DEF Unlock, Calls
<1>10. ASSUME NEW t \in Threads, ILockTry(t) PROVE TypeOK'
  BY <1>10 DEF ILockTry, TryLockWord
<1>11. ASSUME NEW t \in Threads, AcquireOrPush(t) PROVE TypeOK'
  BY <1>11 DEF AcquireOrPush
<1>12. ASSUME NEW t \in Threads, ILockTestOnDeck(t) PROVE TypeOK'
  BY <1>12 DEF ILockTestOnDeck, Branch
<1>13. ASSUME NEW t \in Threads, ILockOnDeckLoop(t) PROVE TypeOK'
  BY <1>13 DEF ILockOnDeckLoop, TryLockWord
<1>14. ASSUME NEW t \in Threads, ClearOnDeck(t) PROVE TypeOK'
  BY <1>14 DEF ClearOnDeck
<1>15. ASSUME NEW t \in Threads, Park(t) PROVE TypeOK'
  BY <1>15 DEF Park, AfterPark
<1>16. ASSUME NEW t \in Threads, ParkTimeout(t) PROVE TypeOK'
  BY <1>16 DEF ParkTimeout, Branch, AfterPark
<1>17. ASSUME NEW t \in Threads, IUnlockRelease(t) PROVE TypeOK'
  BY <1>17 DEF IUnlockRelease
<1>18. ASSUME NEW t \in Threads, IUnlockReadOnDeck(t) PROVE TypeOK'
  BY <1>18 DEF IUnlockReadOnDeck, IUnlockTest, Calls
<1>19. ASSUME NEW t \in Threads, IUnlockReadLockWord(t) PROVE TypeOK'
  BY <1>19 DEF IUnlockReadLockWord, IUnlockTest, Calls
<1>20. ASSUME NEW t \in Threads, IUnlockReadEntryList(t) PROVE TypeOK'
  BY <1>20, Zenon DEF IUnlockReadEntryList, IUnlockTest, Calls
<1>21. ASSUME NEW t \in Threads, Succession(t) PROVE TypeOK'
  BY <1>21 DEF Succession, IUnlockTest, Calls
<1>22. ASSUME NEW t \in Threads, WakeOne(t) PROVE TypeOK'
  BY <1>22 DEF WakeOne
<1>23. ASSUME NEW t \in Threads, PassOnDeck(t) PROVE TypeOK'
  BY <1>23 DEF PassOnDeck
<1>24. ASSUME NEW t \in Threads, DelegateUnpark(t) PROVE TypeOK'
  BY <1>24, Zenon DEF DelegateUnpark, IUnlockTest, Calls
<1>25. ASSUME NEW t \in Threads, IUnlockUnpark(t) PROVE TypeOK'
  BY <1>25 DEF IUnlockUnpark, IUnlockTest, Calls
<1>26. ASSUME NEW t \in Threads, DrainCxq(t) PROVE TypeOK'
  BY <1>26 DEF DrainCxq
<1>27. ASSUME NEW t \in Threads, FillEntryList(t) PROVE TypeOK'
  BY <1>27 DEF FillEntryList
<1>28. ASSUME NEW t \in Threads, Punt(t) PROVE TypeOK'
  BY <1>28 DEF Punt
<1>29. ASSUME NEW t \in Threads, Resample(t) PROVE TypeOK'
  BY <1>29 DEF Resample, IUnlockTest, Calls
<1>30. ASSUME NEW t \in Threads, NotifyTest(t) PROVE TypeOK'
  BY <1>30 DEF NotifyTest
<1>31. ASSUME NEW t \in Threads, NotifyUnlink(t) PROVE TypeOK'
  BY <1>31 DEF NotifyUnlink, AfterNotify
<1>32. ASSUME NEW t \in Threads, NotifyPush(t) PROVE TypeOK'
  BY <1>32 DEF NotifyPush
<1>33. ASSUME NEW t \in Threads, NotifyMark(t) PROVE TypeOK'
  BY <1>33 DEF NotifyMark, AfterNotify
<1>34. ASSUME NEW t \in Threads, Wait(t) PROVE TypeOK'
  BY <1>34 DEF Wait, Calls
<1>35. ASSUME NEW t \in Threads, IWaitEnqueue(t) PROVE TypeOK'
  BY <1>35 DEF IWaitEnqueue
<1>36. ASSUME NEW t \in Threads, IWaitTest(t) PROVE TypeOK'
  BY <1>36 DEF IWaitTest, Branch
<1>37. ASSUME NEW t \in Threads, IWaitUnlink(t) PROVE TypeOK'
  BY <1>37, UnlinkType, Zenon DEF IWaitUnlink
<1>38. ASSUME NEW t \in Threads, ReenterTestOnDeck(t) PROVE TypeOK'
  BY <1>38 DEF ReenterTestOnDeck, Branch
<1>39. ASSUME NEW t \in Threads, ReenterSpin(t) PROVE TypeOK'
  BY <1>39 DEF ReenterSpin, TryLockWord
<1>40. ASSUME NEW t \in Threads, WaitSuspended(t) PROVE TypeOK'
  BY <1>40 DEF WaitSuspended, Calls
<1>41. ASSUME NEW t \in Threads, Resumed(t) PROVE TypeOK'
  BY <1>41 DEF Resumed, Branch
<1>42. ASSUME NEW t \in Threads, NEW e \in BOOLEAN, Notify(t, e) PROVE TypeOK'
  BY <1>42, Zenon DEF Notify
<1>43. CASE SafepointBegin
  BY <1>43, Zenon DEF SafepointBegin, SetSafepoint, is_at_safepoint
<1>44. CASE SafepointReached
  BY <1>44 DEF SafepointReached, SetSafepoint, is_at_safepoint
<1>45. CASE SafepointEnd
  BY <1>45, Zenon DEF SafepointEnd, SetSafepoint, is_at_safepoint
<1>46. CASE UNCHANGED vars
  BY <1>46, Zenon DEF vars
<1> HIDE ThreadsAssumption DEF TypeInv, TypeOK, Dereferences, Carrying, Labels, ILockLabels, IUnlockLabels, SuccessionLabels, IWaitLabels,
             QueuedWaitLabels, NotifyLabels, ParkLabels,
             At, Goto, memory, lists, waitVars, vmVars, locals
<1> QED
  BY Zenon, <1>1, <1>2, <1>3, <1>4, <1>5, <1>6, <1>7, <1>8, <1>9, <1>10, <1>11,
     <1>12, <1>13, <1>14, <1>15, <1>16, <1>17, <1>18, <1>19, <1>20, <1>21,
     <1>22, <1>23, <1>24, <1>25, <1>26, <1>27, <1>28, <1>29, <1>30, <1>31,
     <1>32, <1>33, <1>34, <1>35, <1>36, <1>37, <1>38, <1>39, <1>40, <1>41,
     <1>42, <1>43, <1>44, <1>45, <1>46 DEF Next, Arrive, Proceed, ILock,
     IUnlock, NotifyStep, IWait

\* Every step keeps OnDeck a lock.
LEMMA InnerLockNext ==
    ASSUME TypeInv, [Next]_vars
    PROVE  InnerLock'
<1> USE ThreadsAssumption DEF TypeInv, TypeOK, InnerLock, Dereferences, Carrying,
             SuccessionLabels, ParkLabels,
             At, Goto, memory, lists, waitVars, vmVars, locals
<1>1. ASSUME NEW t \in Threads, LockFast(t) PROVE InnerLock'
  BY <1>1 DEF LockFast, MayCall, TryLockWord, Calls
<1>2. ASSUME NEW t \in Threads, LockWithoutSafepointCheck(t) PROVE InnerLock'
  BY <1>2 DEF LockWithoutSafepointCheck, MayCall, Calls
<1>3. ASSUME NEW t \in Threads, TryLockSneak(t) PROVE InnerLock'
  BY <1>3 DEF TryLockSneak, MayCall, Sneak, can_sneak, Calls
<1>4. ASSUME NEW t \in Threads, TryLock(t) PROVE InnerLock'
  BY <1>4 DEF TryLock, MayCall, TryLockWord, Calls
<1>5. ASSUME NEW t \in Threads, LockSneak(t) PROVE InnerLock'
  BY <1>5 DEF LockSneak, Sneak, can_sneak, Calls
<1>6. ASSUME NEW t \in Threads, LockSpin(t) PROVE InnerLock'
  BY <1>6 DEF LockSpin, TryLockWord
<1>7. ASSUME NEW t \in Threads, LockBlock(t) PROVE InnerLock'
  BY <1>7 DEF LockBlock
<1>8. ASSUME NEW t \in Threads, SetOwner(t) PROVE InnerLock'
  BY <1>8 DEF SetOwner, Calls
<1>9. ASSUME NEW t \in Threads, Unlock(t) PROVE InnerLock'
  BY <1>9 DEF Unlock, Calls
<1>10. ASSUME NEW t \in Threads, ILockTry(t) PROVE InnerLock'
  BY <1>10 DEF ILockTry, TryLockWord
<1>11. ASSUME NEW t \in Threads, AcquireOrPush(t) PROVE InnerLock'
  BY <1>11 DEF AcquireOrPush
<1>12. ASSUME NEW t \in Threads, ILockTestOnDeck(t) PROVE InnerLock'
  BY <1>12 DEF ILockTestOnDeck, Branch
<1>13. ASSUME NEW t \in Threads, ILockOnDeckLoop(t) PROVE InnerLock'
  BY <1>13 DEF ILockOnDeckLoop, TryLockWord
<1>14. ASSUME NEW t \in Threads, ClearOnDeck(t) PROVE InnerLock'
  BY <1>14 DEF ClearOnDeck
<1>15. ASSUME NEW t \in Threads, Park(t) PROVE InnerLock'
  BY <1>15 DEF Park, AfterPark
<1>16. ASSUME NEW t \in Threads, ParkTimeout(t) PROVE InnerLock'
  BY <1>16 DEF ParkTimeout, Branch, AfterPark
<1>17. ASSUME NEW t \in Threads, IUnlockRelease(t) PROVE InnerLock'
  BY <1>17 DEF IUnlockRelease
<1>18. ASSUME NEW t \in Threads, IUnlockReadOnDeck(t) PROVE InnerLock'
  BY <1>18 DEF IUnlockReadOnDeck, IUnlockTest, Calls
<1>19. ASSUME NEW t \in Threads, IUnlockReadLockWord(t) PROVE InnerLock'
  BY <1>19 DEF IUnlockReadLockWord, IUnlockTest, Calls
<1>20. ASSUME NEW t \in Threads, IUnlockReadEntryList(t) PROVE InnerLock'
  BY <1>20 DEF IUnlockReadEntryList, IUnlockTest, Calls
<1>21. ASSUME NEW t \in Threads, Succession(t) PROVE InnerLock'
  BY <1>21 DEF Succession, IUnlockTest, Calls
<1>22. ASSUME NEW t \in Threads, WakeOne(t) PROVE InnerLock'
  BY <1>22 DEF WakeOne
<1>23. ASSUME NEW t \in Threads, PassOnDeck(t) PROVE InnerLock'
  BY <1>23 DEF PassOnDeck
<1>24. ASSUME NEW t \in Threads, DelegateUnpark(t) PROVE InnerLock'
  BY <1>24 DEF DelegateUnpark, IUnlockTest, Calls
<1>25. ASSUME NEW t \in Threads, IUnlockUnpark(t) PROVE InnerLock'
  BY <1>25 DEF IUnlockUnpark, IUnlockTest, Calls
<1>26. ASSUME NEW t \in Threads, DrainCxq(t) PROVE InnerLock'
  BY <1>26 DEF DrainCxq
<1>27. ASSUME NEW t \in Threads, FillEntryList(t) PROVE InnerLock'
  BY <1>27 DEF FillEntryList
<1>28. ASSUME NEW t \in Threads, Punt(t) PROVE InnerLock'
  BY <1>28 DEF Punt
<1>29. ASSUME NEW t \in Threads, Resample(t) PROVE InnerLock'
  BY <1>29 DEF Resample, IUnlockTest, Calls
<1>30. ASSUME NEW t \in Threads, NotifyTest(t) PROVE InnerLock'
  BY <1>30 DEF NotifyTest
<1>31. ASSUME NEW t \in Threads, NotifyUnlink(t) PROVE InnerLock'
  BY <1>31 DEF NotifyUnlink, AfterNotify
<1>32. ASSUME NEW t \in Threads, NotifyPush(t) PROVE InnerLock'
  BY <1>32 DEF NotifyPush
<1>33. ASSUME NEW t \in Threads, NotifyMark(t) PROVE InnerLock'
  BY <1>33 DEF NotifyMark, AfterNotify
<1>34. ASSUME NEW t \in Threads, Wait(t) PROVE InnerLock'
  BY <1>34 DEF Wait, Calls
<1>35. ASSUME NEW t \in Threads, IWaitEnqueue(t) PROVE InnerLock'
  BY <1>35 DEF IWaitEnqueue
<1>36. ASSUME NEW t \in Threads, IWaitTest(t) PROVE InnerLock'
  BY <1>36 DEF IWaitTest, Branch
<1>37. ASSUME NEW t \in Threads, IWaitUnlink(t) PROVE InnerLock'
  BY <1>37 DEF IWaitUnlink
<1>38. ASSUME NEW t \in Threads, ReenterTestOnDeck(t) PROVE InnerLock'
  BY <1>38 DEF ReenterTestOnDeck, Branch
<1>39. ASSUME NEW t \in Threads, ReenterSpin(t) PROVE InnerLock'
  BY <1>39 DEF ReenterSpin, TryLockWord
<1>40. ASSUME NEW t \in Threads, WaitSuspended(t) PROVE InnerLock'
  BY <1>40 DEF WaitSuspended, Calls
<1>41. ASSUME NEW t \in Threads, Resumed(t) PROVE InnerLock'
  BY <1>41 DEF Resumed, Branch
<1>42. ASSUME NEW t \in Threads, NEW e \in BOOLEAN, Notify(t, e) PROVE InnerLock'
  BY <1>42 DEF Notify
<1>43. CASE SafepointBegin
  BY <1>43 DEF SafepointBegin, SetSafepoint, is_at_safepoint
<1>44. CASE SafepointReached
  BY <1>44 DEF SafepointReached, SetSafepoint, is_at_safepoint
<1>45. CASE SafepointEnd
  BY <1>45 DEF SafepointEnd, SetSafepoint, is_at_safepoint
<1>46. CASE UNCHANGED vars
  BY <1>46 DEF vars
<1> HIDE ThreadsAssumption DEF TypeInv, TypeOK, InnerLock, Dereferences, Carrying,
             SuccessionLabels, ParkLabels,
             At, Goto, memory, lists, waitVars, vmVars, locals
<1> QED
  BY Zenon, <1>1, <1>2, <1>3, <1>4, <1>5, <1>6, <1>7, <1>8, <1>9, <1>10, <1>11,
     <1>12, <1>13, <1>14, <1>15, <1>16, <1>17, <1>18, <1>19, <1>20, <1>21,
     <1>22, <1>23, <1>24, <1>25, <1>26, <1>27, <1>28, <1>29, <1>30, <1>31,
     <1>32, <1>33, <1>34, <1>35, <1>36, <1>37, <1>38, <1>39, <1>40, <1>41,
     <1>42, <1>43, <1>44, <1>45, <1>46 DEF Next, Arrive, Proceed, ILock,
     IUnlock, NotifyStep, IWait

\* Every step keeps the locals valid where they are dereferenced.
LEMMA DereferencesNext ==
    ASSUME TypeInv, [Next]_vars
    PROVE  Dereferences'
<1> USE ThreadsAssumption DEF TypeInv, TypeOK, InnerLock, Dereferences, Carrying,
             SuccessionLabels, ParkLabels,
             At, Goto, memory, lists, waitVars, vmVars, locals
<1>1. ASSUME NEW t \in Threads, LockFast(t) PROVE Dereferences'
  BY <1>1 DEF LockFast, MayCall, TryLockWord, Calls
<1>2. ASSUME NEW t \in Threads, LockWithoutSafepointCheck(t) PROVE Dereferences'
  BY <1>2 DEF LockWithoutSafepointCheck, MayCall, Calls
<1>3. ASSUME NEW t \in Threads, TryLockSneak(t) PROVE Dereferences'
  BY <1>3 DEF TryLockSneak, MayCall, Sneak, can_sneak, Calls
<1>4. ASSUME NEW t \in Threads, TryLock(t) PROVE Dereferences'
  BY <1>4 DEF TryLock, MayCall, TryLockWord, Calls
<1>5. ASSUME NEW t \in Threads, LockSneak(t) PROVE Dereferences'
  BY <1>5 DEF LockSneak, Sneak, can_sneak, Calls
<1>6. ASSUME NEW t \in Threads, LockSpin(t) PROVE Dereferences'
  BY <1>6 DEF LockSpin, TryLockWord
<1>7. ASSUME NEW t \in Threads, LockBlock(t) PROVE Dereferences'
  BY <1>7 DEF LockBlock
<1>8. ASSUME NEW t \in Threads, SetOwner(t) PROVE Dereferences'
  BY <1>8 DEF SetOwner, Calls
<1>9. ASSUME NEW t \in Threads, Unlock(t) PROVE Dereferences'
  BY <1>9 DEF Unlock, Calls
<1>10. ASSUME NEW t \in Threads, ILockTry(t) PROVE Dereferences'
  BY <1>10 DEF ILockTry, TryLockWord
<1>11. ASSUME NEW t \in Threads, AcquireOrPush(t) PROVE Dereferences'
  BY <1>11 DEF AcquireOrPush
<1>12. ASSUME NEW t \in Threads, ILockTestOnDeck(t) PROVE Dereferences'
  BY <1>12 DEF ILockTestOnDeck, Branch
<1>13. ASSUME NEW t \in Threads, ILockOnDeckLoop(t) PROVE Dereferences'
  BY <1>13 DEF ILockOnDeckLoop, TryLockWord
<1>14. ASSUME NEW t \in Threads, ClearOnDeck(t) PROVE Dereferences'
  BY <1>14 DEF ClearOnDeck
<1>15. ASSUME NEW t \in Threads, Park(t) PROVE Dereferences'
  BY <1>15 DEF Park, AfterPark
<1>16. ASSUME NEW t \in Threads, ParkTimeout(t) PROVE Dereferences'
  BY <1>16 DEF ParkTimeout, Branch, AfterPark
<1>17. ASSUME NEW t \in Threads, IUnlockRelease(t) PROVE Dereferences'
  BY <1>17 DEF IUnlockRelease
<1>18. ASSUME NEW t \in Threads, IUnlockReadOnDeck(t) PROVE Dereferences'
  BY <1>18 DEF IUnlockReadOnDeck, IUnlockTest, Calls
<1>19. ASSUME NEW t \in Threads, IUnlockReadLockWord(t) PROVE Dereferences'
  BY <1>19 DEF IUnlockReadLockWord, IUnlockTest, Calls
<1>20. ASSUME NEW t \in Threads, IUnlockReadEntryList(t) PROVE Dereferences'
  BY <1>20 DEF IUnlockReadEntryList, IUnlockTest, Calls
<1>21. ASSUME NEW t \in Threads, Succession(t) PROVE Dereferences'
  BY <1>21 DEF Succession, IUnlockTest, Calls
<1>22. ASSUME NEW t \in Threads, WakeOne(t) PROVE Dereferences'
  BY <1>22 DEF WakeOne
<1>23. ASSUME NEW t \in Threads, PassOnDeck(t) PROVE Dereferences'
  BY <1>23 DEF PassOnDeck
<1>24. ASSUME NEW t \in Threads, DelegateUnpark(t) PROVE Dereferences'
  BY <1>24 DEF DelegateUnpark, IUnlockTest, Calls
<1>25. ASSUME NEW t \in Threads, IUnlockUnpark(t) PROVE Dereferences'
  BY <1>25 DEF IUnlockUnpark, IUnlockTest, Calls
<1>26. ASSUME NEW t \in Threads, DrainCxq(t) PROVE Dereferences'
  BY <1>26 DEF DrainCxq
<1>27. ASSUME NEW t \in Threads, FillEntryList(t) PROVE Dereferences'
  BY <1>27 DEF FillEntryList
<1>28. ASSUME NEW t \in Threads, Punt(t) PROVE Dereferences'
  BY <1>28 DEF Punt
<1>29. ASSUME NEW t \in Threads, Resample(t) PROVE Dereferences'
  BY <1>29 DEF Resample, IUnlockTest, Calls
<1>30. ASSUME NEW t \in Threads, NotifyTest(t) PROVE Dereferences'
  BY <1>30 DEF NotifyTest
<1>31. ASSUME NEW t \in Threads, NotifyUnlink(t) PROVE Dereferences'
  BY <1>31 DEF NotifyUnlink, AfterNotify
<1>32. ASSUME NEW t \in Threads, NotifyPush(t) PROVE Dereferences'
  BY <1>32 DEF NotifyPush
<1>33. ASSUME NEW t \in Threads, NotifyMark(t) PROVE Dereferences'
  BY <1>33 DEF NotifyMark, AfterNotify
<1>34. ASSUME NEW t \in Threads, Wait(t) PROVE Dereferences'
  BY <1>34 DEF Wait, Calls
<1>35. ASSUME NEW t \in Threads, IWaitEnqueue(t) PROVE Dereferences'
  BY <1>35 DEF IWaitEnqueue
<1>36. ASSUME NEW t \in Threads, IWaitTest(t) PROVE Dereferences'
  BY <1>36 DEF IWaitTest, Branch
<1>37. ASSUME NEW t \in Threads, IWaitUnlink(t) PROVE Dereferences'
  BY <1>37 DEF IWaitUnlink
<1>38. ASSUME NEW t \in Threads, ReenterTestOnDeck(t) PROVE Dereferences'
  BY <1>38 DEF ReenterTestOnDeck, Branch
<1>39. ASSUME NEW t \in Threads, ReenterSpin(t) PROVE Dereferences'
  BY <1>39 DEF ReenterSpin, TryLockWord
<1>40. ASSUME NEW t \in Threads, WaitSuspended(t) PROVE Dereferences'
  BY <1>40 DEF WaitSuspended, Calls
<1>41. ASSUME NEW t \in Threads, Resumed(t) PROVE Dereferences'
  BY <1>41 DEF Resumed, Branch
<1>42. ASSUME NEW t \in Threads, NEW e \in BOOLEAN, Notify(t, e) PROVE Dereferences'
  BY <1>42 DEF Notify
<1>43. CASE SafepointBegin
  BY <1>43 DEF SafepointBegin, SetSafepoint, is_at_safepoint
<1>44. CASE SafepointReached
  BY <1>44 DEF SafepointReached, SetSafepoint, is_at_safepoint
<1>45. CASE SafepointEnd
  BY <1>45 DEF SafepointEnd, SetSafepoint, is_at_safepoint
<1>46. CASE UNCHANGED vars
  BY <1>46 DEF vars
<1> HIDE ThreadsAssumption DEF TypeInv, TypeOK, InnerLock, Dereferences, Carrying,
             SuccessionLabels, ParkLabels,
             At, Goto, memory, lists, waitVars, vmVars, locals
<1> QED
  BY Zenon, <1>1, <1>2, <1>3, <1>4, <1>5, <1>6, <1>7, <1>8, <1>9, <1>10, <1>11,
     <1>12, <1>13, <1>14, <1>15, <1>16, <1>17, <1>18, <1>19, <1>20, <1>21,
     <1>22, <1>23, <1>24, <1>25, <1>26, <1>27, <1>28, <1>29, <1>30, <1>31,
     <1>32, <1>33, <1>34, <1>35, <1>36, <1>37, <1>38, <1>39, <1>40, <1>41,
     <1>42, <1>43, <1>44, <1>45, <1>46 DEF Next, Arrive, Proceed, ILock,
     IUnlock, NotifyStep, IWait

\* The initial state satisfies the inductive invariant.
LEMMA TypeInvInit == ASSUME Init PROVE TypeInv
<1> USE ThreadsAssumption DEF Init
<1>1. TypeOK
  BY EmptySeq, Zenon DEF TypeOK, Labels
<1>2. \A t \in Threads : pc[t] = "idle"
  OBVIOUS
<1>3. InnerLock
  BY <1>2 DEF InnerLock, SuccessionLabels
<1>4. Dereferences
  BY <1>2 DEF Dereferences, Carrying
<1> QED BY <1>1, <1>3, <1>4 DEF TypeInv

\* TypeOK holds in every reachable state: lists hold threads, OnDeck is NULL,
\* its lock bit or a thread, and what IUnlock() and notify() dereference is an
\* event (every field of Monitor and ParkEvent in mutex.cpp).
THEOREM TypeCorrect == Spec => []TypeOK
<1>1. Init => TypeInv
  BY TypeInvInit
<1>2. TypeInv /\ [Next]_vars => TypeInv'
  BY TypeOKNext, InnerLockNext, DereferencesNext DEF TypeInv
<1> QED BY <1>1, <1>2, PTL DEF Spec, TypeInv

\* Every reachable state satisfies InnerLock: at most one thread arranges
\* succession in IUnlock(), and the asserts _OnDeck == ESelf and
\* UNS(_OnDeck) == _LBIT of mutex.cpp hold.
THEOREM InnerLockSafe == Spec => []InnerLock
<1>1. Init => TypeInv
  BY TypeInvInit
<1>2. TypeInv /\ [Next]_vars => TypeInv'
  BY TypeOKNext, InnerLockNext, DereferencesNext DEF TypeInv
<1> QED BY <1>1, <1>2, PTL DEF Spec, TypeInv

(***************************************************************************)
(* The outer lock and the VM thread's sneaking.                            *)
(***************************************************************************)
\* What the callers of a monitor must respect for sneaking to be safe: every
\* thread but the VM thread is a Java thread, or the VM thread only takes the
\* lock through lock_without_safepoint_check(); and it does not notify on a
\* lock it sneaked into.
SneakContract ==
    /\ OtherThreads = {} \/ VMThread \in NoSafepointCheck \ TryLockers
    /\ ~NotifyWhileSnuck

\* _owner is the thread in the critical section.
OwnerInv ==
    /\ \A t \in Threads : CriticalSection(t) => owner = t
    /\ owner # NULL => CriticalSection(owner)

\* A thread inside a ThreadBlockInVM is inside lock() or wait().
TbivmInv ==
    \A t \in tbivm : /\ pc[t] \notin {"idle", "contended"}
                     /\ ~CriticalSection(t)
                     /\ pc[t] \in {"w_enq"} \cup IUnlockLabels =>
                          call[t] # "unlock"

SneakInv ==
    /\ \A t \in Threads : pc[t] = "contended" => t \notin NoSafepointCheck
    /\ snuck => /\ is_at_safepoint /\ OtherThreads = {}
                /\ owner = VMThread /\ pc[VMThread] = "held"
    /\ is_at_safepoint =>
         \A t \in JavaThreads : t \in tbivm \/ pc[t] = "idle"

LockInv == TypeOK /\ OuterLock /\ OwnerInv /\ TbivmInv /\ SneakInv

\* Every step keeps the LockByte exact.
LEMMA OuterLockNext ==
    ASSUME SneakContract, LockInv, [Next]_vars
    PROVE  OuterLock'
<1>0. /\ OuterLock /\ OwnerInv /\ SneakInv
      /\ LockByte \in {0, 1} /\ pc \in [Threads -> Labels]
      /\ call \in [Threads -> {"none", "lock", "unlock", "wait", "suspend"}]
  BY Zenon DEF LockInv, TypeOK
<1> USE <1>0 DEF OuterLock, OwnerInv, SneakInv, Holds, CriticalSection, NotifyLabels, IUnlockLabels,
             SuccessionLabels, ParkLabels, At, Goto, memory, lists, waitVars, vmVars, locals
<1>1. ASSUME NEW t \in Threads, LockFast(t) PROVE OuterLock'
  BY <1>1 DEF LockFast, MayCall, TryLockWord, Calls
<1>2. ASSUME NEW t \in Threads, LockWithoutSafepointCheck(t) PROVE OuterLock'
  BY <1>2 DEF LockWithoutSafepointCheck, MayCall, Calls
<1>3. ASSUME NEW t \in Threads, TryLockSneak(t) PROVE OuterLock'
  BY <1>3 DEF TryLockSneak, MayCall, Sneak, can_sneak, Calls
<1>4. ASSUME NEW t \in Threads, TryLock(t) PROVE OuterLock'
  BY <1>4 DEF TryLock, MayCall, TryLockWord, Calls
<1>5. ASSUME NEW t \in Threads, LockSneak(t) PROVE OuterLock'
  BY <1>5 DEF LockSneak, Sneak, can_sneak, Calls
<1>6. ASSUME NEW t \in Threads, LockSpin(t) PROVE OuterLock'
  BY <1>6 DEF LockSpin, TryLockWord
<1>7. ASSUME NEW t \in Threads, LockBlock(t) PROVE OuterLock'
  BY <1>7 DEF LockBlock
<1>8. ASSUME NEW t \in Threads, SetOwner(t) PROVE OuterLock'
  BY <1>8 DEF SetOwner, Calls
<1>9. ASSUME NEW t \in Threads, Unlock(t) PROVE OuterLock'
  BY <1>9 DEF Unlock, Calls
<1>10. ASSUME NEW t \in Threads, ILockTry(t) PROVE OuterLock'
  BY <1>10 DEF ILockTry, TryLockWord
<1>11. ASSUME NEW t \in Threads, AcquireOrPush(t) PROVE OuterLock'
  BY <1>11 DEF AcquireOrPush
<1>12. ASSUME NEW t \in Threads, ILockTestOnDeck(t) PROVE OuterLock'
  BY <1>12 DEF ILockTestOnDeck, Branch
<1>13. ASSUME NEW t \in Threads, ILockOnDeckLoop(t) PROVE OuterLock'
  BY <1>13 DEF ILockOnDeckLoop, TryLockWord
<1>14. ASSUME NEW t \in Threads, ClearOnDeck(t) PROVE OuterLock'
  BY <1>14 DEF ClearOnDeck
<1>15. ASSUME NEW t \in Threads, Park(t) PROVE OuterLock'
  BY <1>15 DEF Park, AfterPark
<1>16. ASSUME NEW t \in Threads, ParkTimeout(t) PROVE OuterLock'
  BY <1>16 DEF ParkTimeout, Branch, AfterPark
<1>17. ASSUME NEW t \in Threads, IUnlockRelease(t) PROVE OuterLock'
  BY <1>17 DEF IUnlockRelease
<1>18. ASSUME NEW t \in Threads, IUnlockReadOnDeck(t) PROVE OuterLock'
  BY <1>18 DEF IUnlockReadOnDeck, IUnlockTest, Calls
<1>19. ASSUME NEW t \in Threads, IUnlockReadLockWord(t) PROVE OuterLock'
  BY <1>19 DEF IUnlockReadLockWord, IUnlockTest, Calls
<1>20. ASSUME NEW t \in Threads, IUnlockReadEntryList(t) PROVE OuterLock'
  BY <1>20 DEF IUnlockReadEntryList, IUnlockTest, Calls
<1>21. ASSUME NEW t \in Threads, Succession(t) PROVE OuterLock'
  BY <1>21 DEF Succession, IUnlockTest, Calls
<1>22. ASSUME NEW t \in Threads, WakeOne(t) PROVE OuterLock'
  BY <1>22 DEF WakeOne
<1>23. ASSUME NEW t \in Threads, PassOnDeck(t) PROVE OuterLock'
  BY <1>23 DEF PassOnDeck
<1>24. ASSUME NEW t \in Threads, DelegateUnpark(t) PROVE OuterLock'
  BY <1>24 DEF DelegateUnpark, IUnlockTest, Calls
<1>25. ASSUME NEW t \in Threads, IUnlockUnpark(t) PROVE OuterLock'
  BY <1>25 DEF IUnlockUnpark, IUnlockTest, Calls
<1>26. ASSUME NEW t \in Threads, DrainCxq(t) PROVE OuterLock'
  BY <1>26 DEF DrainCxq
<1>27. ASSUME NEW t \in Threads, FillEntryList(t) PROVE OuterLock'
  BY <1>27 DEF FillEntryList
<1>28. ASSUME NEW t \in Threads, Punt(t) PROVE OuterLock'
  BY <1>28 DEF Punt
<1>29. ASSUME NEW t \in Threads, Resample(t) PROVE OuterLock'
  BY <1>29 DEF Resample, IUnlockTest, Calls
<1>30. ASSUME NEW t \in Threads, NotifyTest(t) PROVE OuterLock'
  BY <1>30 DEF NotifyTest
<1>31. ASSUME NEW t \in Threads, NotifyUnlink(t) PROVE OuterLock'
  BY <1>31 DEF NotifyUnlink, AfterNotify
<1>32. ASSUME NEW t \in Threads, NotifyPush(t) PROVE OuterLock'
  BY <1>32 DEF NotifyPush
<1>33. ASSUME NEW t \in Threads, NotifyMark(t) PROVE OuterLock'
  BY <1>33 DEF NotifyMark, AfterNotify
<1>34. ASSUME NEW t \in Threads, Wait(t) PROVE OuterLock'
  BY <1>34 DEF Wait, Calls
<1>35. ASSUME NEW t \in Threads, IWaitEnqueue(t) PROVE OuterLock'
  BY <1>35 DEF IWaitEnqueue
<1>36. ASSUME NEW t \in Threads, IWaitTest(t) PROVE OuterLock'
  BY <1>36 DEF IWaitTest, Branch
<1>37. ASSUME NEW t \in Threads, IWaitUnlink(t) PROVE OuterLock'
  BY <1>37 DEF IWaitUnlink
<1>38. ASSUME NEW t \in Threads, ReenterTestOnDeck(t) PROVE OuterLock'
  BY <1>38 DEF ReenterTestOnDeck, Branch
<1>39. ASSUME NEW t \in Threads, ReenterSpin(t) PROVE OuterLock'
  BY <1>39 DEF ReenterSpin, TryLockWord
<1>40. ASSUME NEW t \in Threads, WaitSuspended(t) PROVE OuterLock'
  BY <1>40 DEF WaitSuspended, Calls
<1>41. ASSUME NEW t \in Threads, Resumed(t) PROVE OuterLock'
  BY <1>41 DEF Resumed, Branch
<1>42. ASSUME NEW t \in Threads, NEW e \in BOOLEAN, Notify(t, e) PROVE OuterLock'
  BY <1>42 DEF Notify
<1>43. CASE SafepointBegin
  BY <1>43 DEF SafepointBegin, SetSafepoint, is_at_safepoint
<1>44. CASE SafepointReached
  BY <1>44, Zenon DEF SafepointReached, SetSafepoint, is_at_safepoint
<1>45. CASE SafepointEnd
  BY <1>45, Zenon DEF SafepointEnd, SetSafepoint, is_at_safepoint
<1>46. CASE UNCHANGED vars
  BY <1>46 DEF vars
<1> HIDE ThreadsAssumption DEF LockInv, TypeOK, OuterLock, OwnerInv, TbivmInv, SneakInv,
             SneakContract, Holds, CriticalSection, is_at_safepoint, Threads,
             NotifyLabels, IUnlockLabels, SuccessionLabels, ParkLabels,
             At, Goto, memory, lists, waitVars, vmVars, locals
<1> QED
  BY Zenon, <1>1, <1>2, <1>3, <1>4, <1>5, <1>6, <1>7, <1>8, <1>9, <1>10, <1>11,
     <1>12, <1>13, <1>14, <1>15, <1>16, <1>17, <1>18, <1>19, <1>20, <1>21,
     <1>22, <1>23, <1>24, <1>25, <1>26, <1>27, <1>28, <1>29, <1>30, <1>31,
     <1>32, <1>33, <1>34, <1>35, <1>36, <1>37, <1>38, <1>39, <1>40, <1>41,
     <1>42, <1>43, <1>44, <1>45, <1>46 DEF Next, Arrive, Proceed, ILock,
     IUnlock, NotifyStep, IWait

\* Every step keeps _owner exact.
LEMMA OwnerInvNext ==
    ASSUME SneakContract, LockInv, [Next]_vars
    PROVE  OwnerInv'
<1> USE ThreadsAssumption DEF LockInv, TypeOK, OuterLock, OwnerInv, TbivmInv, SneakInv,
             SneakContract, Holds, CriticalSection, is_at_safepoint, Threads,
             NotifyLabels, IUnlockLabels, SuccessionLabels, ParkLabels,
             At, Goto, memory, lists, waitVars, vmVars, locals
<1>1. ASSUME NEW t \in Threads, LockFast(t) PROVE OwnerInv'
  BY <1>1, Zenon DEF LockFast, MayCall, TryLockWord, Calls
<1>2. ASSUME NEW t \in Threads, LockWithoutSafepointCheck(t) PROVE OwnerInv'
  BY <1>2, Zenon DEF LockWithoutSafepointCheck, MayCall, Calls
<1>3. ASSUME NEW t \in Threads, TryLockSneak(t) PROVE OwnerInv'
  BY <1>3 DEF TryLockSneak, MayCall, Sneak, can_sneak, Calls
<1>4. ASSUME NEW t \in Threads, TryLock(t) PROVE OwnerInv'
  BY <1>4, Zenon DEF TryLock, MayCall, TryLockWord, Calls
<1>5. ASSUME NEW t \in Threads, LockSneak(t) PROVE OwnerInv'
  BY <1>5 DEF LockSneak, Sneak, can_sneak, Calls
<1>6. ASSUME NEW t \in Threads, LockSpin(t) PROVE OwnerInv'
  BY <1>6, Zenon DEF LockSpin, TryLockWord
<1>7. ASSUME NEW t \in Threads, LockBlock(t) PROVE OwnerInv'
  BY <1>7, Zenon DEF LockBlock
<1>8. ASSUME NEW t \in Threads, SetOwner(t) PROVE OwnerInv'
  BY <1>8, Zenon DEF SetOwner, Calls
<1>9. ASSUME NEW t \in Threads, Unlock(t) PROVE OwnerInv'
  BY <1>9, Zenon DEF Unlock, Calls
<1>10. ASSUME NEW t \in Threads, ILockTry(t) PROVE OwnerInv'
  BY <1>10, Zenon DEF ILockTry, TryLockWord
<1>11. ASSUME NEW t \in Threads, AcquireOrPush(t) PROVE OwnerInv'
  BY <1>11, Zenon DEF AcquireOrPush
<1>12. ASSUME NEW t \in Threads, ILockTestOnDeck(t) PROVE OwnerInv'
  BY <1>12, Zenon DEF ILockTestOnDeck, Branch
<1>13. ASSUME NEW t \in Threads, ILockOnDeckLoop(t) PROVE OwnerInv'
  BY <1>13, Zenon DEF ILockOnDeckLoop, TryLockWord
<1>14. ASSUME NEW t \in Threads, ClearOnDeck(t) PROVE OwnerInv'
  BY <1>14, Zenon DEF ClearOnDeck
<1>15. ASSUME NEW t \in Threads, Park(t) PROVE OwnerInv'
  BY <1>15, Zenon DEF Park, AfterPark
<1>16. ASSUME NEW t \in Threads, ParkTimeout(t) PROVE OwnerInv'
  BY <1>16, Zenon DEF ParkTimeout, Branch, AfterPark
<1>17. ASSUME NEW t \in Threads, IUnlockRelease(t) PROVE OwnerInv'
  BY <1>17, Zenon DEF IUnlockRelease
<1>18. ASSUME NEW t \in Threads, IUnlockReadOnDeck(t) PROVE OwnerInv'
  BY <1>18, Zenon DEF IUnlockReadOnDeck, IUnlockTest, Calls
<1>19. ASSUME NEW t \in Threads, IUnlockReadLockWord(t) PROVE OwnerInv'
  BY <1>19, Zenon DEF IUnlockReadLockWord, IUnlockTest, Calls
<1>20. ASSUME NEW t \in Threads, IUnlockReadEntryList(t) PROVE OwnerInv'
  BY <1>20, Zenon DEF IUnlockReadEntryList, IUnlockTest, Calls
<1>21. ASSUME NEW t \in Threads, Succession(t) PROVE OwnerInv'
  BY <1>21, Zenon DEF Succession, IUnlockTest, Calls
<1>22. ASSUME NEW t \in Threads, WakeOne(t) PROVE OwnerInv'
  BY <1>22, Zenon DEF WakeOne
<1>23. ASSUME NEW t \in Threads, PassOnDeck(t) PROVE OwnerInv'
  BY <1>23, Zenon DEF PassOnDeck
<1>24. ASSUME NEW t \in Threads, DelegateUnpark(t) PROVE OwnerInv'
  BY <1>24, Zenon DEF DelegateUnpark, IUnlockTest, Calls
<1>25. ASSUME NEW t \in Threads, IUnlockUnpark(t) PROVE OwnerInv'
  BY <1>25, Zenon DEF IUnlockUnpark, IUnlockTest, Calls
<1>26. ASSUME NEW t \in Threads, DrainCxq(t) PROVE OwnerInv'
  BY <1>26, Zenon DEF DrainCxq
<1>27. ASSUME NEW t \in Threads, FillEntryList(t) PROVE OwnerInv'
  BY <1>27, Zenon DEF FillEntryList
<1>28. ASSUME NEW t \in Threads, Punt(t) PROVE OwnerInv'
  BY <1>28, Zenon DEF Punt
<1>29. ASSUME NEW t \in Threads, Resample(t) PROVE OwnerInv'
  BY <1>29, Zenon DEF Resample, IUnlockTest, Calls
<1>30. ASSUME NEW t \in Threads, NotifyTest(t) PROVE OwnerInv'
  BY <1>30, Zenon DEF NotifyTest
<1>31. ASSUME NEW t \in Threads, NotifyUnlink(t) PROVE OwnerInv'
  BY <1>31, Zenon DEF NotifyUnlink, AfterNotify
<1>32. ASSUME NEW t \in Threads, NotifyPush(t) PROVE OwnerInv'
  BY <1>32, Zenon DEF NotifyPush
<1>33. ASSUME NEW t \in Threads, NotifyMark(t) PROVE OwnerInv'
  BY <1>33, Zenon DEF NotifyMark, AfterNotify
<1>34. ASSUME NEW t \in Threads, Wait(t) PROVE OwnerInv'
  BY <1>34, Zenon DEF Wait, Calls
<1>35. ASSUME NEW t \in Threads, IWaitEnqueue(t) PROVE OwnerInv'
  BY <1>35, Zenon DEF IWaitEnqueue
<1>36. ASSUME NEW t \in Threads, IWaitTest(t) PROVE OwnerInv'
  BY <1>36, Zenon DEF IWaitTest, Branch
<1>37. ASSUME NEW t \in Threads, IWaitUnlink(t) PROVE OwnerInv'
  BY <1>37, Zenon DEF IWaitUnlink
<1>38. ASSUME NEW t \in Threads, ReenterTestOnDeck(t) PROVE OwnerInv'
  BY <1>38, Zenon DEF ReenterTestOnDeck, Branch
<1>39. ASSUME NEW t \in Threads, ReenterSpin(t) PROVE OwnerInv'
  BY <1>39, Zenon DEF ReenterSpin, TryLockWord
<1>40. ASSUME NEW t \in Threads, WaitSuspended(t) PROVE OwnerInv'
  BY <1>40, Zenon DEF WaitSuspended, Calls
<1>41. ASSUME NEW t \in Threads, Resumed(t) PROVE OwnerInv'
  BY <1>41, Zenon DEF Resumed, Branch
<1>42. ASSUME NEW t \in Threads, NEW e \in BOOLEAN, Notify(t, e) PROVE OwnerInv'
  BY <1>42, Zenon DEF Notify
<1>43. CASE SafepointBegin
  BY <1>43, Zenon DEF SafepointBegin, SetSafepoint, is_at_safepoint
<1>44. CASE SafepointReached
  BY <1>44, Zenon DEF SafepointReached, SetSafepoint, is_at_safepoint
<1>45. CASE SafepointEnd
  BY <1>45, Zenon DEF SafepointEnd, SetSafepoint, is_at_safepoint
<1>46. CASE UNCHANGED vars
  BY <1>46, Zenon DEF vars
<1> HIDE ThreadsAssumption DEF LockInv, TypeOK, OuterLock, OwnerInv, TbivmInv, SneakInv,
             SneakContract, Holds, CriticalSection, is_at_safepoint, Threads,
             NotifyLabels, IUnlockLabels, SuccessionLabels, ParkLabels,
             At, Goto, memory, lists, waitVars, vmVars, locals
<1> QED
  BY Zenon, <1>1, <1>2, <1>3, <1>4, <1>5, <1>6, <1>7, <1>8, <1>9, <1>10, <1>11,
     <1>12, <1>13, <1>14, <1>15, <1>16, <1>17, <1>18, <1>19, <1>20, <1>21,
     <1>22, <1>23, <1>24, <1>25, <1>26, <1>27, <1>28, <1>29, <1>30, <1>31,
     <1>32, <1>33, <1>34, <1>35, <1>36, <1>37, <1>38, <1>39, <1>40, <1>41,
     <1>42, <1>43, <1>44, <1>45, <1>46 DEF Next, Arrive, Proceed, ILock,
     IUnlock, NotifyStep, IWait

\* Every step keeps the threads in a ThreadBlockInVM outside the critical section.
LEMMA TbivmInvNext ==
    ASSUME SneakContract, LockInv, [Next]_vars
    PROVE  TbivmInv'
<1>0. /\ TbivmInv /\ OwnerInv /\ tbivm \subseteq JavaThreads
      /\ pc \in [Threads -> Labels]
      /\ call \in [Threads -> {"none", "lock", "unlock", "wait", "suspend"}]
  BY Zenon DEF LockInv, TypeOK
<1> USE <1>0 DEF TbivmInv, OwnerInv, CriticalSection, Threads, NotifyLabels, IUnlockLabels,
             SuccessionLabels, ParkLabels, At, Goto, memory, lists, waitVars, vmVars, locals
<1>1. ASSUME NEW t \in Threads, LockFast(t) PROVE TbivmInv'
  BY <1>1 DEF LockFast, MayCall, TryLockWord, Calls
<1>2. ASSUME NEW t \in Threads, LockWithoutSafepointCheck(t) PROVE TbivmInv'
  BY <1>2 DEF LockWithoutSafepointCheck, MayCall, Calls
<1>3. ASSUME NEW t \in Threads, TryLockSneak(t) PROVE TbivmInv'
  BY <1>3 DEF TryLockSneak, MayCall, Sneak, can_sneak, Calls
<1>4. ASSUME NEW t \in Threads, TryLock(t) PROVE TbivmInv'
  BY <1>4 DEF TryLock, MayCall, TryLockWord, Calls
<1>5. ASSUME NEW t \in Threads, LockSneak(t) PROVE TbivmInv'
  BY <1>5 DEF LockSneak, Sneak, can_sneak, Calls
<1>6. ASSUME NEW t \in Threads, LockSpin(t) PROVE TbivmInv'
  BY <1>6 DEF LockSpin, TryLockWord
<1>7. ASSUME NEW t \in Threads, LockBlock(t) PROVE TbivmInv'
  BY <1>7 DEF LockBlock
<1>8. ASSUME NEW t \in Threads, SetOwner(t) PROVE TbivmInv'
  BY <1>8 DEF SetOwner, Calls
<1>9. ASSUME NEW t \in Threads, Unlock(t) PROVE TbivmInv'
  BY <1>9 DEF Unlock, Calls
<1>10. ASSUME NEW t \in Threads, ILockTry(t) PROVE TbivmInv'
  BY <1>10 DEF ILockTry, TryLockWord
<1>11. ASSUME NEW t \in Threads, AcquireOrPush(t) PROVE TbivmInv'
  BY <1>11 DEF AcquireOrPush
<1>12. ASSUME NEW t \in Threads, ILockTestOnDeck(t) PROVE TbivmInv'
  BY <1>12 DEF ILockTestOnDeck, Branch
<1>13. ASSUME NEW t \in Threads, ILockOnDeckLoop(t) PROVE TbivmInv'
  BY <1>13 DEF ILockOnDeckLoop, TryLockWord
<1>14. ASSUME NEW t \in Threads, ClearOnDeck(t) PROVE TbivmInv'
  BY <1>14 DEF ClearOnDeck
<1>15. ASSUME NEW t \in Threads, Park(t) PROVE TbivmInv'
  BY <1>15 DEF Park, AfterPark
<1>16. ASSUME NEW t \in Threads, ParkTimeout(t) PROVE TbivmInv'
  BY <1>16 DEF ParkTimeout, Branch, AfterPark
<1>17. ASSUME NEW t \in Threads, IUnlockRelease(t) PROVE TbivmInv'
  BY <1>17 DEF IUnlockRelease
<1>18. ASSUME NEW t \in Threads, IUnlockReadOnDeck(t) PROVE TbivmInv'
  BY <1>18 DEF IUnlockReadOnDeck, IUnlockTest, Calls
<1>19. ASSUME NEW t \in Threads, IUnlockReadLockWord(t) PROVE TbivmInv'
  BY <1>19 DEF IUnlockReadLockWord, IUnlockTest, Calls
<1>20. ASSUME NEW t \in Threads, IUnlockReadEntryList(t) PROVE TbivmInv'
  BY <1>20 DEF IUnlockReadEntryList, IUnlockTest, Calls
<1>21. ASSUME NEW t \in Threads, Succession(t) PROVE TbivmInv'
  BY <1>21 DEF Succession, IUnlockTest, Calls
<1>22. ASSUME NEW t \in Threads, WakeOne(t) PROVE TbivmInv'
  BY <1>22 DEF WakeOne
<1>23. ASSUME NEW t \in Threads, PassOnDeck(t) PROVE TbivmInv'
  BY <1>23 DEF PassOnDeck
<1>24. ASSUME NEW t \in Threads, DelegateUnpark(t) PROVE TbivmInv'
  BY <1>24 DEF DelegateUnpark, IUnlockTest, Calls
<1>25. ASSUME NEW t \in Threads, IUnlockUnpark(t) PROVE TbivmInv'
  BY <1>25 DEF IUnlockUnpark, IUnlockTest, Calls
<1>26. ASSUME NEW t \in Threads, DrainCxq(t) PROVE TbivmInv'
  BY <1>26 DEF DrainCxq
<1>27. ASSUME NEW t \in Threads, FillEntryList(t) PROVE TbivmInv'
  BY <1>27 DEF FillEntryList
<1>28. ASSUME NEW t \in Threads, Punt(t) PROVE TbivmInv'
  BY <1>28 DEF Punt
<1>29. ASSUME NEW t \in Threads, Resample(t) PROVE TbivmInv'
  BY <1>29 DEF Resample, IUnlockTest, Calls
<1>30. ASSUME NEW t \in Threads, NotifyTest(t) PROVE TbivmInv'
  BY <1>30 DEF NotifyTest
<1>31. ASSUME NEW t \in Threads, NotifyUnlink(t) PROVE TbivmInv'
  BY <1>31 DEF NotifyUnlink, AfterNotify
<1>32. ASSUME NEW t \in Threads, NotifyPush(t) PROVE TbivmInv'
  BY <1>32 DEF NotifyPush
<1>33. ASSUME NEW t \in Threads, NotifyMark(t) PROVE TbivmInv'
  BY <1>33 DEF NotifyMark, AfterNotify
<1>34. ASSUME NEW t \in Threads, Wait(t) PROVE TbivmInv'
  BY <1>34 DEF Wait, Calls
<1>35. ASSUME NEW t \in Threads, IWaitEnqueue(t) PROVE TbivmInv'
  BY <1>35 DEF IWaitEnqueue
<1>36. ASSUME NEW t \in Threads, IWaitTest(t) PROVE TbivmInv'
  BY <1>36 DEF IWaitTest, Branch
<1>37. ASSUME NEW t \in Threads, IWaitUnlink(t) PROVE TbivmInv'
  BY <1>37 DEF IWaitUnlink
<1>38. ASSUME NEW t \in Threads, ReenterTestOnDeck(t) PROVE TbivmInv'
  BY <1>38 DEF ReenterTestOnDeck, Branch
<1>39. ASSUME NEW t \in Threads, ReenterSpin(t) PROVE TbivmInv'
  BY <1>39 DEF ReenterSpin, TryLockWord
<1>40. ASSUME NEW t \in Threads, WaitSuspended(t) PROVE TbivmInv'
  BY <1>40 DEF WaitSuspended, Calls
<1>41. ASSUME NEW t \in Threads, Resumed(t) PROVE TbivmInv'
  BY <1>41 DEF Resumed, Branch
<1>42. ASSUME NEW t \in Threads, NEW e \in BOOLEAN, Notify(t, e) PROVE TbivmInv'
  BY <1>42 DEF Notify
<1>43. CASE SafepointBegin
  BY <1>43, Zenon DEF SafepointBegin, SetSafepoint, is_at_safepoint
<1>44. CASE SafepointReached
  BY <1>44, Zenon DEF SafepointReached, SetSafepoint, is_at_safepoint
<1>45. CASE SafepointEnd
  BY <1>45, Zenon DEF SafepointEnd, SetSafepoint, is_at_safepoint
<1>46. CASE UNCHANGED vars
  BY <1>46, Zenon DEF vars
<1> HIDE ThreadsAssumption DEF LockInv, TypeOK, OuterLock, OwnerInv, TbivmInv, SneakInv,
             SneakContract, Holds, CriticalSection, is_at_safepoint, Threads,
             NotifyLabels, IUnlockLabels, SuccessionLabels, ParkLabels,
             At, Goto, memory, lists, waitVars, vmVars, locals
<1> QED
  BY Zenon, <1>1, <1>2, <1>3, <1>4, <1>5, <1>6, <1>7, <1>8, <1>9, <1>10, <1>11,
     <1>12, <1>13, <1>14, <1>15, <1>16, <1>17, <1>18, <1>19, <1>20, <1>21,
     <1>22, <1>23, <1>24, <1>25, <1>26, <1>27, <1>28, <1>29, <1>30, <1>31,
     <1>32, <1>33, <1>34, <1>35, <1>36, <1>37, <1>38, <1>39, <1>40, <1>41,
     <1>42, <1>43, <1>44, <1>45, <1>46 DEF Next, Arrive, Proceed, ILock,
     IUnlock, NotifyStep, IWait

\* Every step keeps a sneaked-into critical section harmless.
LEMMA SneakInvNext ==
    ASSUME SneakContract, LockInv, [Next]_vars
    PROVE  SneakInv'
<1> USE ThreadsAssumption DEF LockInv, TypeOK, OuterLock, OwnerInv, TbivmInv, SneakInv,
             SneakContract, Holds, CriticalSection, is_at_safepoint, Threads,
             NotifyLabels, IUnlockLabels, SuccessionLabels, ParkLabels,
             At, Goto, memory, lists, waitVars, vmVars, locals
<1>1. ASSUME NEW t \in Threads, LockFast(t) PROVE SneakInv'
  BY <1>1 DEF LockFast, MayCall, TryLockWord, Calls
<1>2. ASSUME NEW t \in Threads, LockWithoutSafepointCheck(t) PROVE SneakInv'
  BY <1>2 DEF LockWithoutSafepointCheck, MayCall, Calls
<1>3. ASSUME NEW t \in Threads, TryLockSneak(t) PROVE SneakInv'
  BY <1>3 DEF TryLockSneak, MayCall, Sneak, can_sneak, Calls
<1>4. ASSUME NEW t \in Threads, TryLock(t) PROVE SneakInv'
  BY <1>4 DEF TryLock, MayCall, TryLockWord, Calls
<1>5. ASSUME NEW t \in Threads, LockSneak(t) PROVE SneakInv'
  BY <1>5, Zenon DEF LockSneak, Sneak, can_sneak, Calls
<1>6. ASSUME NEW t \in Threads, LockSpin(t) PROVE SneakInv'
  BY <1>6, Zenon DEF LockSpin, TryLockWord
<1>7. ASSUME NEW t \in Threads, LockBlock(t) PROVE SneakInv'
  BY <1>7, Zenon DEF LockBlock
<1>8. ASSUME NEW t \in Threads, SetOwner(t) PROVE SneakInv'
  BY <1>8 DEF SetOwner, Calls
<1>9. ASSUME NEW t \in Threads, Unlock(t) PROVE SneakInv'
  BY <1>9, Zenon DEF Unlock, Calls
<1>10. ASSUME NEW t \in Threads, ILockTry(t) PROVE SneakInv'
  BY <1>10, Zenon DEF ILockTry, TryLockWord
<1>11. ASSUME NEW t \in Threads, AcquireOrPush(t) PROVE SneakInv'
  BY <1>11, Zenon DEF AcquireOrPush
<1>12. ASSUME NEW t \in Threads, ILockTestOnDeck(t) PROVE SneakInv'
  BY <1>12, Zenon DEF ILockTestOnDeck, Branch
<1>13. ASSUME NEW t \in Threads, ILockOnDeckLoop(t) PROVE SneakInv'
  BY <1>13, Zenon DEF ILockOnDeckLoop, TryLockWord
<1>14. ASSUME NEW t \in Threads, ClearOnDeck(t) PROVE SneakInv'
  BY <1>14, Zenon DEF ClearOnDeck
<1>15. ASSUME NEW t \in Threads, Park(t) PROVE SneakInv'
  BY <1>15, Zenon DEF Park, AfterPark
<1>16. ASSUME NEW t \in Threads, ParkTimeout(t) PROVE SneakInv'
  BY <1>16, Zenon DEF ParkTimeout, Branch, AfterPark
<1>17. ASSUME NEW t \in Threads, IUnlockRelease(t) PROVE SneakInv'
  BY <1>17, Zenon DEF IUnlockRelease
<1>18. ASSUME NEW t \in Threads, IUnlockReadOnDeck(t) PROVE SneakInv'
  BY <1>18, Zenon DEF IUnlockReadOnDeck, IUnlockTest, Calls
<1>19. ASSUME NEW t \in Threads, IUnlockReadLockWord(t) PROVE SneakInv'
  BY <1>19, Zenon DEF IUnlockReadLockWord, IUnlockTest, Calls
<1>20. ASSUME NEW t \in Threads, IUnlockReadEntryList(t) PROVE SneakInv'
  BY <1>20, Zenon DEF IUnlockReadEntryList, IUnlockTest, Calls
<1>21. ASSUME NEW t \in Threads, Succession(t) PROVE SneakInv'
  BY <1>21, Zenon DEF Succession, IUnlockTest, Calls
<1>22. ASSUME NEW t \in Threads, WakeOne(t) PROVE SneakInv'
  BY <1>22, Zenon DEF WakeOne
<1>23. ASSUME NEW t \in Threads, PassOnDeck(t) PROVE SneakInv'
  BY <1>23, Zenon DEF PassOnDeck
<1>24. ASSUME NEW t \in Threads, DelegateUnpark(t) PROVE SneakInv'
  BY <1>24, Zenon DEF DelegateUnpark, IUnlockTest, Calls
<1>25. ASSUME NEW t \in Threads, IUnlockUnpark(t) PROVE SneakInv'
  BY <1>25, Zenon DEF IUnlockUnpark, IUnlockTest, Calls
<1>26. ASSUME NEW t \in Threads, DrainCxq(t) PROVE SneakInv'
  BY <1>26, Zenon DEF DrainCxq
<1>27. ASSUME NEW t \in Threads, FillEntryList(t) PROVE SneakInv'
  BY <1>27, Zenon DEF FillEntryList
<1>28. ASSUME NEW t \in Threads, Punt(t) PROVE SneakInv'
  BY <1>28, Zenon DEF Punt
<1>29. ASSUME NEW t \in Threads, Resample(t) PROVE SneakInv'
  BY <1>29, Zenon DEF Resample, IUnlockTest, Calls
<1>30. ASSUME NEW t \in Threads, NotifyTest(t) PROVE SneakInv'
  BY <1>30, Zenon DEF NotifyTest
<1>31. ASSUME NEW t \in Threads, NotifyUnlink(t) PROVE SneakInv'
  BY <1>31, Zenon DEF NotifyUnlink, AfterNotify
<1>32. ASSUME NEW t \in Threads, NotifyPush(t) PROVE SneakInv'
  BY <1>32, Zenon DEF NotifyPush
<1>33. ASSUME NEW t \in Threads, NotifyMark(t) PROVE SneakInv'
  BY <1>33, Zenon DEF NotifyMark, AfterNotify
<1>34. ASSUME NEW t \in Threads, Wait(t) PROVE SneakInv'
  BY <1>34, Zenon DEF Wait, Calls
<1>35. ASSUME NEW t \in Threads, IWaitEnqueue(t) PROVE SneakInv'
  BY <1>35, Zenon DEF IWaitEnqueue
<1>36. ASSUME NEW t \in Threads, IWaitTest(t) PROVE SneakInv'
  BY <1>36, Zenon DEF IWaitTest, Branch
<1>37. ASSUME NEW t \in Threads, IWaitUnlink(t) PROVE SneakInv'
  BY <1>37, Zenon DEF IWaitUnlink
<1>38. ASSUME NEW t \in Threads, ReenterTestOnDeck(t) PROVE SneakInv'
  BY <1>38, Zenon DEF ReenterTestOnDeck, Branch
<1>39. ASSUME NEW t \in Threads, ReenterSpin(t) PROVE SneakInv'
  BY <1>39, Zenon DEF ReenterSpin, TryLockWord
<1>40. ASSUME NEW t \in Threads, WaitSuspended(t) PROVE SneakInv'
  BY <1>40, Zenon DEF WaitSuspended, Calls
<1>41. ASSUME NEW t \in Threads, Resumed(t) PROVE SneakInv'
  BY <1>41, Zenon DEF Resumed, Branch
<1>42. ASSUME NEW t \in Threads, NEW e \in BOOLEAN, Notify(t, e) PROVE SneakInv'
  BY <1>42, Zenon DEF Notify
<1>43. CASE SafepointBegin
  BY <1>43, Zenon DEF SafepointBegin, SetSafepoint, is_at_safepoint
<1>44. CASE SafepointReached
  BY <1>44, Zenon DEF SafepointReached, SetSafepoint, is_at_safepoint
<1>45. CASE SafepointEnd
  BY <1>45, Zenon DEF SafepointEnd, SetSafepoint, is_at_safepoint
<1>46. CASE UNCHANGED vars
  BY <1>46, Zenon DEF vars
<1> HIDE ThreadsAssumption DEF LockInv, TypeOK, OuterLock, OwnerInv, TbivmInv, SneakInv,
             SneakContract, Holds, CriticalSection, is_at_safepoint, Threads,
             NotifyLabels, IUnlockLabels, SuccessionLabels, ParkLabels,
             At, Goto, memory, lists, waitVars, vmVars, locals
<1> QED
  BY Zenon, <1>1, <1>2, <1>3, <1>4, <1>5, <1>6, <1>7, <1>8, <1>9, <1>10, <1>11,
     <1>12, <1>13, <1>14, <1>15, <1>16, <1>17, <1>18, <1>19, <1>20, <1>21,
     <1>22, <1>23, <1>24, <1>25, <1>26, <1>27, <1>28, <1>29, <1>30, <1>31,
     <1>32, <1>33, <1>34, <1>35, <1>36, <1>37, <1>38, <1>39, <1>40, <1>41,
     <1>42, <1>43, <1>44, <1>45, <1>46 DEF Next, Arrive, Proceed, ILock,
     IUnlock, NotifyStep, IWait

\* The initial state satisfies the inductive invariant.
LEMMA LockInvInit == ASSUME Init PROVE LockInv
<1> USE ThreadsAssumption DEF Init
<1>1. TypeOK
  BY TypeInvInit, Zenon DEF TypeInv
<1>2. \A t \in Threads : pc[t] = "idle"
  OBVIOUS
<1> HIDE DEF Init
<1>3. owner = NULL /\ LockByte = 0 /\ tbivm = {} /\ safepoint = "none"
  BY DEF Init
<1>4. ~snuck
  BY DEF Init
<1>5. OuterLock /\ OwnerInv /\ TbivmInv
  BY <1>2, <1>3 DEF OuterLock, OwnerInv, TbivmInv, Holds, CriticalSection,
                    NotifyLabels
<1>6. SneakInv
  BY <1>2, <1>3, <1>4 DEF SneakInv, is_at_safepoint
<1> QED BY <1>1, <1>5, <1>6 DEF LockInv

\* LockInv is inductive.
LEMMA LockInvNext == ASSUME SneakContract, TypeInv, LockInv, [Next]_vars
                     PROVE  LockInv'
BY TypeOKNext, OuterLockNext, OwnerInvNext, TbivmInvNext, SneakInvNext
   DEF LockInv

\* LockInv is an invariant of every lock used within the contract.
LEMMA LockInvariant == ASSUME SneakContract PROVE Spec => [](TypeInv /\ LockInv)
<1>1. Init => TypeInv /\ LockInv
  BY TypeInvInit, LockInvInit
<1>2. TypeInv /\ LockInv /\ [Next]_vars => (TypeInv /\ LockInv)'
  BY SneakContract, LockInvNext, TypeOKNext, InnerLockNext, DereferencesNext
     DEF TypeInv
<1> QED BY <1>1, <1>2, PTL DEF Spec

\* Within the contract no step of lock(), unlock(), wait(), notify() or of the
\* VM thread's sneaking leaks the LockByte or takes it twice.
THEOREM OuterLockSafe == ASSUME SneakContract PROVE Spec => []OuterLock
BY LockInvariant, PTL DEF LockInv

\* Within the contract at most one thread is between lock() and unlock(), also
\* when the VM thread sneaks past a lock held at a safepoint.
THEOREM MutualExclusionSafe ==
    ASSUME SneakContract PROVE Spec => []MutualExclusion
<1>1. LockInv => MutualExclusion
  BY DEF LockInv, OwnerInv, MutualExclusion
<1> QED BY <1>1, LockInvariant, PTL

\* Within the contract a thread whose lock the VM thread sneaked past is
\* stalled in its ThreadBlockInVM until the safepoint ends.
THEOREM SneakSafe == ASSUME SneakContract PROVE Spec => []SneakIsHarmless
<1>1. LockInv => SneakIsHarmless
  BY ThreadsAssumption DEF LockInv, TypeOK, SneakInv, SneakIsHarmless, Holds,
     CriticalSection, Threads, NotifyLabels
<1> QED BY <1>1, LockInvariant, PTL

\* Within the contract the asserts that _owner is NULL before set_owner() hold.
THEOREM OwnerSafe == ASSUME SneakContract PROVE Spec => []OwnerIsNullWhenSet
<1>1. LockInv => OwnerIsNullWhenSet
  BY ThreadsAssumption, Zenon DEF LockInv, TypeOK, OuterLock, OwnerInv, SneakInv,
     OwnerIsNullWhenSet, Holds, CriticalSection, Threads, At, NotifyLabels,
     is_at_safepoint
<1> QED BY <1>1, LockInvariant, PTL

\* Within the contract notify() pushes the waiter on a word that is locked, as
\* the assert in its CAS loop says.
THEOREM NotifySafe == ASSUME SneakContract PROVE Spec => []NotifyPushesOnLockedWord
<1>1. LockInv => NotifyPushesOnLockedWord
  BY ThreadsAssumption, Zenon DEF LockInv, TypeOK, OuterLock, SneakInv, At, Holds,
     NotifyPushesOnLockedWord, CriticalSection, Threads, NotifyLabels
<1> QED BY <1>1, LockInvariant, PTL

\* No step but the heir's own takes it off the OnDeck position.
LEMMA OnDeckStepNext ==
    ASSUME TypeInv, LockInv, [Next]_vars
    PROVE  OnDeckStep
<1> USE ThreadsAssumption DEF OnDeckStep, TypeInv, TypeOK, LockInv, OuterLock, InnerLock, Holds,
             SuccessionLabels,
             At, Goto, memory, lists, waitVars, vmVars, locals
<1>1. ASSUME NEW t \in Threads, LockFast(t) PROVE OnDeckStep
  BY <1>1, Zenon DEF LockFast, MayCall, TryLockWord, Calls
<1>2. ASSUME NEW t \in Threads, LockWithoutSafepointCheck(t) PROVE OnDeckStep
  BY <1>2, Zenon DEF LockWithoutSafepointCheck, MayCall, Calls
<1>3. ASSUME NEW t \in Threads, TryLockSneak(t) PROVE OnDeckStep
  BY <1>3, Zenon DEF TryLockSneak, MayCall, Sneak, can_sneak, Calls
<1>4. ASSUME NEW t \in Threads, TryLock(t) PROVE OnDeckStep
  BY <1>4, Zenon DEF TryLock, MayCall, TryLockWord, Calls
<1>5. ASSUME NEW t \in Threads, LockSneak(t) PROVE OnDeckStep
  BY <1>5, Zenon DEF LockSneak, Sneak, can_sneak, Calls
<1>6. ASSUME NEW t \in Threads, LockSpin(t) PROVE OnDeckStep
  BY <1>6, Zenon DEF LockSpin, TryLockWord
<1>7. ASSUME NEW t \in Threads, LockBlock(t) PROVE OnDeckStep
  BY <1>7, Zenon DEF LockBlock
<1>8. ASSUME NEW t \in Threads, SetOwner(t) PROVE OnDeckStep
  BY <1>8, Zenon DEF SetOwner, Calls
<1>9. ASSUME NEW t \in Threads, Unlock(t) PROVE OnDeckStep
  BY <1>9, Zenon DEF Unlock, Calls
<1>10. ASSUME NEW t \in Threads, ILockTry(t) PROVE OnDeckStep
  BY <1>10, Zenon DEF ILockTry, TryLockWord
<1>11. ASSUME NEW t \in Threads, AcquireOrPush(t) PROVE OnDeckStep
  BY <1>11, Zenon DEF AcquireOrPush
<1>12. ASSUME NEW t \in Threads, ILockTestOnDeck(t) PROVE OnDeckStep
  BY <1>12, Zenon DEF ILockTestOnDeck, Branch
<1>13. ASSUME NEW t \in Threads, ILockOnDeckLoop(t) PROVE OnDeckStep
  BY <1>13, Zenon DEF ILockOnDeckLoop, TryLockWord
<1>14. ASSUME NEW t \in Threads, ClearOnDeck(t) PROVE OnDeckStep
  BY <1>14, Zenon DEF ClearOnDeck
<1>15. ASSUME NEW t \in Threads, Park(t) PROVE OnDeckStep
  BY <1>15, Zenon DEF Park, AfterPark
<1>16. ASSUME NEW t \in Threads, ParkTimeout(t) PROVE OnDeckStep
  BY <1>16, Zenon DEF ParkTimeout, Branch, AfterPark
<1>17. ASSUME NEW t \in Threads, IUnlockRelease(t) PROVE OnDeckStep
  BY <1>17, Zenon DEF IUnlockRelease
<1>18. ASSUME NEW t \in Threads, IUnlockReadOnDeck(t) PROVE OnDeckStep
  BY <1>18, Zenon DEF IUnlockReadOnDeck, IUnlockTest, Calls
<1>19. ASSUME NEW t \in Threads, IUnlockReadLockWord(t) PROVE OnDeckStep
  BY <1>19, Zenon DEF IUnlockReadLockWord, IUnlockTest, Calls
<1>20. ASSUME NEW t \in Threads, IUnlockReadEntryList(t) PROVE OnDeckStep
  BY <1>20, Zenon DEF IUnlockReadEntryList, IUnlockTest, Calls
<1>21. ASSUME NEW t \in Threads, Succession(t) PROVE OnDeckStep
  BY <1>21, Zenon DEF Succession, IUnlockTest, Calls
<1>22. ASSUME NEW t \in Threads, WakeOne(t) PROVE OnDeckStep
  BY <1>22, Zenon DEF WakeOne
<1>23. ASSUME NEW t \in Threads, PassOnDeck(t) PROVE OnDeckStep
  BY <1>23, Zenon DEF PassOnDeck
<1>24. ASSUME NEW t \in Threads, DelegateUnpark(t) PROVE OnDeckStep
  BY <1>24, Zenon DEF DelegateUnpark, IUnlockTest, Calls
<1>25. ASSUME NEW t \in Threads, IUnlockUnpark(t) PROVE OnDeckStep
  BY <1>25, Zenon DEF IUnlockUnpark, IUnlockTest, Calls
<1>26. ASSUME NEW t \in Threads, DrainCxq(t) PROVE OnDeckStep
  BY <1>26, Zenon DEF DrainCxq
<1>27. ASSUME NEW t \in Threads, FillEntryList(t) PROVE OnDeckStep
  BY <1>27, Zenon DEF FillEntryList
<1>28. ASSUME NEW t \in Threads, Punt(t) PROVE OnDeckStep
  BY <1>28, Zenon DEF Punt
<1>29. ASSUME NEW t \in Threads, Resample(t) PROVE OnDeckStep
  BY <1>29, Zenon DEF Resample, IUnlockTest, Calls
<1>30. ASSUME NEW t \in Threads, NotifyTest(t) PROVE OnDeckStep
  BY <1>30, Zenon DEF NotifyTest
<1>31. ASSUME NEW t \in Threads, NotifyUnlink(t) PROVE OnDeckStep
  BY <1>31, Zenon DEF NotifyUnlink, AfterNotify
<1>32. ASSUME NEW t \in Threads, NotifyPush(t) PROVE OnDeckStep
  BY <1>32, Zenon DEF NotifyPush
<1>33. ASSUME NEW t \in Threads, NotifyMark(t) PROVE OnDeckStep
  BY <1>33, Zenon DEF NotifyMark, AfterNotify
<1>34. ASSUME NEW t \in Threads, Wait(t) PROVE OnDeckStep
  BY <1>34, Zenon DEF Wait, Calls
<1>35. ASSUME NEW t \in Threads, IWaitEnqueue(t) PROVE OnDeckStep
  BY <1>35, Zenon DEF IWaitEnqueue
<1>36. ASSUME NEW t \in Threads, IWaitTest(t) PROVE OnDeckStep
  BY <1>36, Zenon DEF IWaitTest, Branch
<1>37. ASSUME NEW t \in Threads, IWaitUnlink(t) PROVE OnDeckStep
  BY <1>37, Zenon DEF IWaitUnlink
<1>38. ASSUME NEW t \in Threads, ReenterTestOnDeck(t) PROVE OnDeckStep
  BY <1>38, Zenon DEF ReenterTestOnDeck, Branch
<1>39. ASSUME NEW t \in Threads, ReenterSpin(t) PROVE OnDeckStep
  BY <1>39, Zenon DEF ReenterSpin, TryLockWord
<1>40. ASSUME NEW t \in Threads, WaitSuspended(t) PROVE OnDeckStep
  BY <1>40, Zenon DEF WaitSuspended, Calls
<1>41. ASSUME NEW t \in Threads, Resumed(t) PROVE OnDeckStep
  BY <1>41, Zenon DEF Resumed, Branch
<1>42. ASSUME NEW t \in Threads, NEW e \in BOOLEAN, Notify(t, e) PROVE OnDeckStep
  BY <1>42, Zenon DEF Notify
<1>43. CASE SafepointBegin
  BY <1>43, Zenon DEF SafepointBegin, SetSafepoint, is_at_safepoint
<1>44. CASE SafepointReached
  BY <1>44, Zenon DEF SafepointReached, SetSafepoint, is_at_safepoint
<1>45. CASE SafepointEnd
  BY <1>45, Zenon DEF SafepointEnd, SetSafepoint, is_at_safepoint
<1>46. CASE UNCHANGED vars
  BY <1>46, Zenon DEF vars
<1> HIDE ThreadsAssumption DEF OnDeckStep, TypeInv, TypeOK, LockInv, OuterLock, InnerLock, Holds,
             SuccessionLabels,
             At, Goto, memory, lists, waitVars, vmVars, locals
<1> QED
  BY Zenon, <1>1, <1>2, <1>3, <1>4, <1>5, <1>6, <1>7, <1>8, <1>9, <1>10, <1>11,
     <1>12, <1>13, <1>14, <1>15, <1>16, <1>17, <1>18, <1>19, <1>20, <1>21,
     <1>22, <1>23, <1>24, <1>25, <1>26, <1>27, <1>28, <1>29, <1>30, <1>31,
     <1>32, <1>33, <1>34, <1>35, <1>36, <1>37, <1>38, <1>39, <1>40, <1>41,
     <1>42, <1>43, <1>44, <1>45, <1>46 DEF Next, Arrive, Proceed, ILock,
     IUnlock, NotifyStep, IWait

\* Within the contract a thread stays OnDeck until it holds the outer lock.
THEOREM OnDeckStable == ASSUME SneakContract PROVE Spec => OnDeckIsStable
<1>1. TypeInv /\ LockInv /\ [Next]_vars => [OnDeckStep]_vars
  BY OnDeckStepNext
<1> QED BY <1>1, LockInvariant, PTL DEF Spec, OnDeckIsStable

==============================================================================
