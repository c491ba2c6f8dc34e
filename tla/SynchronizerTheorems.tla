------------------------ MODULE SynchronizerTheorems -------------------------
(***************************************************************************)
(* The theorems about Synchronizer: for every finite set of threads, every *)
(* pool of ObjectMonitors and every depth of nesting.                      *)
(***************************************************************************)
EXTENDS SynchronizerHeaderProofs, SynchronizerLockProofs, FiniteSetTheorems

\* What the proofs use of finite sets.
LEMMA Cards == CardFacts
<1>1. ASSUME NEW S, IsFiniteSet(S) PROVE Cardinality(S) \in Nat /\ (Cardinality(S) = 0 => S = {})
  BY <1>1, FS_CardinalityType, FS_EmptySet, Zenon
<1>2. ASSUME NEW S, NEW R \in SUBSET S, IsFiniteSet(S) PROVE IsFiniteSet(R)
  BY <1>2, FS_Subset, Zenon
<1>3. ASSUME NEW S, NEW x, IsFiniteSet(S), x \notin S
      PROVE  Cardinality(S \cup {x}) = Cardinality(S) + 1
  BY <1>3, FS_AddElement, Zenon
<1>4. ASSUME NEW S, NEW x \in S, IsFiniteSet(S)
      PROVE  Cardinality(S \ {x}) = Cardinality(S) - 1
  <2>1. Cardinality(S \ {x}) = IF x \in S THEN Cardinality(S) - 1 ELSE Cardinality(S)
    BY <1>4, FS_RemoveElement, Zenon
  <2> QED BY <2>1
<1>5. ASSUME NEW x PROVE Cardinality({x}) = 1
  BY FS_Singleton, Zenon
<1>6. \A n \in Nat : IsFiniteSet(1 .. n)
  BY FS_Interval
<1> QED BY <1>1, <1>2, <1>3, <1>4, <1>5, <1>6, ZenonT(40) DEF CardFacts

\* The inductive invariant.
LEMMA IInvInit == Init => IInv
<1> SUFFICES ASSUME Init PROVE IInv
  OBVIOUS
<1>1. mark \in Headers /\ mark = Neutral(NULL)
  BY DEF Init, Headers
<1>2. \A x : mark # Inflated(x) /\ mark # StackLocked(x)
  BY <1>1, MarkKinds, Zenon
<1>3. \A t \in Threads : /\ pc[t] = "java" /\ boxes[t] = <<>> /\ ret[t] = NULL
                         /\ hand[t] = NULL /\ mon[t] = NULL
  BY DEF Init
<1>4. MonitorType
  BY <1>1 DEF Init, MonitorType, Marks
<1>5. ListType
  BY DEF Init, ListType
<1>6. ThreadType
  BY DEF Init, ThreadType, Labels
<1>7. LocalInv
  <2>1. \A t \in Threads : mon[t] \notin Monitors /\ hand[t] \notin Monitors /\ ret[t] # "wait"
    BY <1>3, DistinctAssumption, Zenon
  <2>2. /\ "java" \notin MonLabels /\ "java" \notin HandLabels /\ "java" \notin PrivateLabels
        /\ "java" \notin InflateLabels /\ "java" \notin AllocLabels /\ "java" \notin Ops
        /\ "java" \notin CountLabels /\ "java" \notin SleepLabels
    BY DEF MonLabels, HandLabels, PrivateLabels, InflateLabels, AllocLabels, Ops, CountLabels,
           SleepLabels
  <2>3. ASSUME NEW t \in Threads PROVE Local(t)
    BY <1>3, <2>1, <2>2, Zenon DEF Local
  <2> QED BY <2>3, Zenon DEF LocalInv
<1>8. \A t \in Threads : pc[t] \notin PrivateLabels \cup HandLabels \cup CountLabels \cup SleepLabels
  BY <1>3 DEF PrivateLabels, HandLabels, CountLabels, SleepLabels
<1>9. InflatingInv
  BY <1>8 DEF Init, InflatingInv
<1>10. CountInv
  <2>1. \A m \in Monitors : Counted(m) = {} /\ Sleepers(m) = {}
    BY <1>8 DEF Counted, Sleepers
  <2>2. Cardinality({}) = 0
    BY FS_EmptySet
  <2>3. \A m \in Monitors : count[m] = 0 /\ waiters[m] = 0
    BY DEF Init
  <2> QED BY <2>1, <2>2, <2>3, Zenon DEF CountInv
<1>11. HeldMonitorIsCurrent
  BY <1>3, Zenon DEF HeldMonitorIsCurrent
<1>12. \A t \in Threads : ~ Displacer(t)
  BY <1>2, <1>8 DEF Displacer
<1>13. HeaderInv /\ HashInv
  <2>1. Carried(Headers)
    BY <1>2, <1>12, Zenon DEF Carried
  <2>2. hashes = {}
    BY Zenon DEF Init
  <2>3. \A t \in Threads : pc[t] # "publish"
    BY <1>3, Zenon
  <2> QED BY <1>3, <2>1, <2>2, <2>3, Zenon DEF HeaderInv, HashInv
<1>14. PoolInv
  <2>1. \A t \in Threads : hand[t] \notin Monitors /\ omFreeList[t] = {}
    BY <1>3, DistinctAssumption, Zenon DEF Init
  <2>2. \A m \in Monitors : ~ Pooled(m) /\ ~ InUse(m) /\ ~ Listed(m)
    BY <1>2, <2>1, Zenon DEF Init, Pooled, InUse, Listed
  <2>3. gBlockList = {}
    BY Zenon DEF Init
  <2> QED BY <2>1, <2>2, <2>3, Zenon DEF PoolInv
<1>15. BoxInv
  <2>1. \A t \in Threads : /\ pc[t] \notin CountLabels /\ pc[t] \notin SleepLabels
                           /\ ret[t] \notin {"exit", "wait"}
    BY <1>3, <1>8, DistinctAssumption, Zenon
  <2> QED BY <1>3, <2>1, Zenon DEF BoxInv, Boxed
<1>16. LockInv
  <2>1. ASSUME NEW t \in Threads PROVE ~ Owns(t) /\ ~ In(t)
    <3>1. ~ Owns(t)
      BY <1>2, <1>12, Zenon DEF Owns
    <3>2. ~ In(t)
      BY <1>3, Zenon DEF In, Holds
    <3> QED BY <3>1, <3>2
  <2>2. \A t \in Threads : /\ pc[t] \notin {"enter_done", "wait_done"} /\ pc[t] # "publish"
                           /\ pc[t] \notin HandLabels
    BY <1>3, <1>8
  <2> QED BY <1>2, <1>12, <2>1, <2>2, Zenon DEF LockInv
<1>17. TypeOK
  BY <1>4, <1>5, <1>6, Zenon DEF TypeOK
<1> QED BY <1>7, <1>9, <1>10, <1>11, <1>13, <1>14, <1>15, <1>16, <1>17, ZenonT(40) DEF IInv

\* The invariant says nothing but what the variables do.
LEMMA IInvUnchanged == ASSUME IInv, UNCHANGED vars PROVE IInv'
<1>0. /\ mark' = mark /\ header' = header /\ owner' = owner /\ recursions' = recursions
      /\ count' = count /\ waiters' = waiters /\ assigned' = assigned
      /\ gBlockList' = gBlockList /\ gFreeList' = gFreeList /\ gOmInUseList' = gOmInUseList
      /\ omFreeList' = omFreeList /\ omInUseList' = omInUseList
      /\ MonitorInUseLists' = MonitorInUseLists /\ boxes' = boxes /\ pc' = pc /\ ret' = ret
      /\ seen' = seen /\ hand' = hand /\ mon' = mon /\ hash' = hash /\ save' = save
      /\ hashes' = hashes
  BY Zenon DEF vars, monitor, lists, locals
<1>1. TypeOK'
  <2>1. MonitorType' /\ ListType'
    BY <1>0, TypesHold, Zenon DEF MonitorType, ListType
  <2>2. ThreadType'
    BY <1>0, TypesHold, Zenon DEF ThreadType
  <2> QED BY <2>1, <2>2, Zenon DEF TypeOK
<1>2. LocalInv'
  <2>1. ASSUME NEW t \in Threads PROVE Local(t)'
    <3>1. Local(t)
      BY TypesHold, Zenon DEF LocalInv
    <3>2. /\ pc'[t] = pc[t] /\ ret'[t] = ret[t] /\ seen'[t] = seen[t] /\ hand'[t] = hand[t]
          /\ mon'[t] = mon[t] /\ hash'[t] = hash[t] /\ boxes'[t] = boxes[t]
      BY <1>0, Zenon
    <3> QED BY <3>1, <3>2 DEF Local
  <2> QED BY <2>1, Zenon DEF LocalInv
<1>3. InflatingInv' /\ HeldMonitorIsCurrent'
  BY <1>0, Zenon DEF IInv, InflatingInv, HeldMonitorIsCurrent
<1>4. CountInv'
  BY <1>0, Zenon DEF IInv, CountInv, Counted, Sleepers
<1>5. \A t \in Threads : Displacer(t)' <=> Displacer(t)
  BY <1>0, Zenon DEF Displacer
<1>6. HeaderInv' /\ HashInv'
  <2>1. \A K : Carried(K) => Carried(K)'
    BY <1>0, <1>5, Zenon DEF Carried
  <2>2. HeaderInv'
    BY <1>0, <2>1, Zenon DEF IInv, HeaderInv
  <2>3. HashInv'
    BY <1>0, <2>1, Zenon DEF IInv, HashInv
  <2> QED BY <2>2, <2>3
<1>7. PoolInv'
  <2>1. \A m \in Monitors : /\ Pooled(m)' <=> Pooled(m)
                            /\ InUse(m)' <=> InUse(m)
                            /\ Listed(m)' <=> Listed(m)
    BY <1>0 DEF Pooled, InUse, Listed
  <2>2. PoolInv
    BY Zenon DEF IInv
  <2> QED BY <1>0, <2>1, <2>2, Zenon DEF PoolInv
<1>8. \A t \in Threads : Counting(t)' = Counting(t) /\ (Holds(t)' <=> Holds(t))
  BY <1>0, SameBoxes, Zenon
<1>9. BoxInv'
  BY <1>0, <1>8, Zenon DEF IInv, BoxInv, Boxed, Displaced
<1>10. \A t \in Threads : (In(t)' <=> In(t)) /\ (Owns(t)' <=> Owns(t))
  BY <1>0, <1>5, <1>8, Zenon DEF In, Owns
<1>11. LockInv'
  <2>1. LockInv
    BY Zenon DEF IInv
  <2>2. \A t \in Threads : /\ In(t)' <=> Owns(t)'
                           /\ Displacer(t)' => Counting(t)' = {1}
    BY <1>5, <1>8, <1>10, <2>1, Zenon DEF LockInv
  <2>3. \A m \in Monitors, t \in Threads :
           /\ mark = Inflated(m)
           /\ owner[m] \in {t, Box(t)} /\ pc[t] \notin {"enter_done", "wait_done"}
           => Cardinality(Counting(t)') = recursions[m] + 1
    BY <1>8, <2>1, Zenon DEF LockInv
  <2> QED BY <1>0, <2>1, <2>2, <2>3, Zenon DEF LockInv
<1> QED BY <1>1, <1>2, <1>3, <1>4, <1>6, <1>7, <1>9, <1>11, ZenonT(40) DEF IInv

\* Every step keeps the invariant.
LEMMA IInvNext == IInv /\ [Next]_vars => IInv'
<1>1. ASSUME IInv, Next PROVE IInv'
  <2>1. TypeOK'
    BY <1>1, ThreadTypeNext, MonitorTypeNext, ListTypeNext, Zenon DEF TypeOK
  <2>2. LocalInv' /\ InflatingInv' /\ CountInv' /\ HeldMonitorIsCurrent'
    BY <1>1, Cards, LocalNext, InflatingNext, CountNext, HeldNext, Zenon
  <2>3. HeaderInv' /\ HashInv'
    BY <1>1, <2>2, HeaderNext, HashNext, Zenon
  <2>4. PoolInv' /\ BoxInv' /\ LockInv'
    BY <1>1, <2>2, Cards, PoolNext, BoxNext, LockNext, Zenon
  <2> QED BY <2>1, <2>2, <2>3, <2>4, Zenon DEF IInv
<1> QED BY <1>1, IInvUnchanged, Zenon

\* The invariant holds in every state.
LEMMA Inductive == Spec => []IInv
BY IInvInit, IInvNext, PTL DEF Spec

\* A thread that works with, or sleeps on, the ObjectMonitor that inflate() gave it
\* (synchronizer.cpp:1201) has the object's monitor: deflate_idle_monitors() takes no
\* monitor away that a thread refers to.
THEOREM HeldMonitorSafe == Spec => []HeldMonitorIsCurrent
<1>1. IInv => HeldMonitorIsCurrent
  BY Zenon DEF IInv
<1> QED BY <1>1, Inductive, PTL

\* FastHashCode() (synchronizer.cpp:606) gives every thread one and the same value,
\* whatever stack-locks, inflations and deflations happen in between.
THEOREM HashSafe == Spec => []HashIsStable
<1>1. IInv => HashIsStable
  <2> SUFFICES ASSUME IInv PROVE HashIsStable
    OBVIOUS
  <2>1. \A g, h \in hashes : g = h
    BY Zenon DEF IInv, HashInv
  <2>2. hashes = {} \/ \E h : hashes = {h}
    BY <2>1
  <2>3. CASE hashes = {}
    <3>1. Cardinality(hashes) = 0
      BY <2>3, FS_EmptySet, Zenon
    <3> QED BY <3>1 DEF HashIsStable
  <2>4. ASSUME NEW h, hashes = {h} PROVE HashIsStable
    <3>1. Cardinality(hashes) = 1
      BY <2>4, Cards, Zenon DEF CardFacts
    <3> QED BY <3>1 DEF HashIsStable
  <2> QED BY <2>2, <2>3, <2>4, Zenon
<1> QED BY <1>1, Inductive, PTL

\* Every ObjectMonitor that omAlloc() (synchronizer.cpp:951) has brought into being
\* is on one free list, in one thread's hand or the object's, and with
\* MonitorInUseLists the ones in use are on the lists that deflation walks.
THEOREM PoolSafe == Spec => []MonitorsAreConserved
<1>1. IInv => MonitorsAreConserved
  <2> SUFFICES ASSUME IInv PROVE MonitorsAreConserved
    OBVIOUS
  <2> DEFINE pooled == UNION {omFreeList[t] : t \in Threads}
             listed == gOmInUseList \cup UNION {omInUseList[t] : t \in Threads}
             used == Assigned \cup UNION {InHand(t) : t \in Threads}
  <2>0. PoolInv
    BY Zenon DEF IInv
  <2>1. ASSUME NEW m PROVE m \in Assigned <=> m \in Monitors /\ mark = Inflated(m)
    <3>1. has_monitor => mark.monitor \in Monitors /\ mark = Inflated(mark.monitor)
      BY TheMark
    <3>2. mark = Inflated(m) => has_monitor /\ mark.monitor = m
      BY MarkFacts, Zenon DEF has_monitor
    <3> QED BY <3>1, <3>2, Zenon DEF Assigned
  <2>2. ASSUME NEW m, NEW t \in Threads PROVE m \in InHand(t) <=> m \in Monitors /\ hand[t] = m
    BY DistinctAssumption, TypesHold DEF InHand, ThreadType
  <2>3. \A m : m \in used <=> m \in Monitors /\ InUse(m)
    BY <2>1, <2>2 DEF InUse
  <2>t. /\ gFreeList \subseteq Monitors /\ gOmInUseList \subseteq Monitors
        /\ \A t \in Threads : omFreeList[t] \subseteq Monitors /\ omInUseList[t] \subseteq Monitors
    BY TypesHold DEF ListType
  <2>4. \A m : m \in gFreeList \cup pooled <=> m \in Monitors /\ Pooled(m)
    BY <2>t, Zenon DEF Pooled
  <2>5. \A m : m \in listed <=> m \in Monitors /\ Listed(m)
    BY <2>t, Zenon DEF Listed
  <2>6. UNION gBlockList \subseteq Monitors
    BY TypesHold DEF ListType, Monitors
  <2> HIDE DEF used, pooled, listed
  <2>a. \A m \in Monitors : /\ m \in UNION gBlockList <=> Pooled(m) \/ InUse(m)
                            /\ ~ (Pooled(m) /\ InUse(m))
                            /\ MonitorInUseLists => (Listed(m) <=> InUse(m))
    BY <2>0, Zenon DEF PoolInv
  <2>7. gFreeList \cup pooled \cup used = UNION gBlockList
    BY <2>3, <2>4, <2>6, <2>a, Zenon
  <2>8. ASSUME NEW t \in Threads
        PROVE  /\ omFreeList[t] \cap (gFreeList \cup used) = {}
               /\ \A u \in Threads \ {t} : omFreeList[t] \cap omFreeList[u] = {}
               /\ InHand(t) \cap (Assigned \cup UNION {InHand(u) : u \in Threads \ {t}}) = {}
    <3>1. \A m \in omFreeList[t] : m \in Monitors /\ Pooled(m)
      BY TypesHold, Zenon DEF ListType, Pooled
    <3>2. omFreeList[t] \cap used = {}
      BY <2>3, <2>a, <3>1, Zenon
    <3>3. /\ omFreeList[t] \cap gFreeList = {}
          /\ \A u \in Threads \ {t} : omFreeList[t] \cap omFreeList[u] = {}
      BY <2>0, Zenon DEF PoolInv
    <3>4. hand[t] \in Monitors => /\ mark # Inflated(hand[t])
                                  /\ \A u \in Threads \ {t} : hand[t] # hand[u]
      BY <2>0, Zenon DEF PoolInv
    <3>5. ASSUME NEW m \in InHand(t)
          PROVE  m \notin Assigned /\ \A u \in Threads \ {t} : m \notin InHand(u)
      BY <2>1, <2>2, <3>4, Zenon
    <3>6. InHand(t) \cap (Assigned \cup UNION {InHand(u) : u \in Threads \ {t}}) = {}
      BY <3>5
    <3> QED BY <3>2, <3>3, <3>6, Zenon
  <2>9. gFreeList \cap used = {}
    <3>1. \A m \in gFreeList : m \in Monitors /\ Pooled(m)
      BY TypesHold DEF ListType, Pooled
    <3> QED BY <2>3, <2>a, <3>1, Zenon
  <2>10. MonitorInUseLists => listed = used
    <3> SUFFICES ASSUME MonitorInUseLists PROVE listed = used
      OBVIOUS
    <3>1. \A m \in Monitors : Listed(m) <=> InUse(m)
      BY <2>a, Zenon
    <3>2. \A m : m \in listed <=> m \in used
      BY <2>3, <2>5, <3>1, Zenon
    <3> QED BY <3>2
  <2> QED BY <2>7, <2>8, <2>9, <2>10, Zenon DEF MonitorsAreConserved, used, pooled, listed
<1> QED BY <1>1, Inductive, PTL

\* The object's lock is one monitor, AbstractMonitor, whichever form it is in: nobody
\* enters while another thread is in, through a stack-lock (slow_enter(),
\* synchronizer.cpp:226), an inflation or a deflation.
THEOREM SynchronizerIsAMonitor == Spec => IsAMonitor
<1>1. Init => A!Init
  <2> SUFFICES ASSUME Init PROVE A!Init
    OBVIOUS
  <2>1. NULL # "enter"
    BY DistinctAssumption
  <2> QED BY <2>1 DEF Init, A!Init, status, Holds
<1>2. IInv /\ [Next]_vars => [A!Next]_status
  BY Cards, MonitorStep, Zenon
<1> QED BY <1>1, <1>2, Inductive, PTL DEF Spec, IsAMonitor, A!Spec
==============================================================================
