---------------------- MODULE SynchronizerHeaderProofs -----------------------
(***************************************************************************)
(* The types, the threads' locals, the object's header and the hash code   *)
(* in it, the monitors' counts and the pool of monitors: the parts of      *)
(* Synchronizer's invariant about them are kept by every step.             *)
(***************************************************************************)
EXTENDS SynchronizerProofs

\* The locals are kept as they must be.
LEMMA LocalNext == ASSUME IInv, Next PROVE LocalInv'
<1>1. ASSUME NEW m \in Monitors, Deflated(m) PROVE LocalInv'
  BY <1>1, TypesHold, Zenon DEF Deflated, LocalInv, Local, locals
<1>2. ASSUME NEW t \in Threads, Step(t), OthersKeep(t) PROVE LocalInv'
  <2>1. ASSUME NEW u \in Threads \ {t} PROVE Local(u)'
    <3>1. Local(u)
      BY TypesHold DEF LocalInv
    <3> QED BY <1>2, <3>1 DEF OthersKeep, Local
  <2>2. Local(t)'
    BY <1>2, LocalStep
  <2> QED BY <2>1, <2>2, Zenon DEF LocalInv
<1> QED BY <1>1, <1>2, Next1, Zenon

\* The threads' locals keep their types.
LEMMA ThreadTypeNext == ASSUME IInv, Next PROVE ThreadType'
<1> USE DEF ThreadType
<1>1. ASSUME NEW m \in Monitors, Deflated(m) PROVE ThreadType'
  BY <1>1, TypesHold DEF Deflated, locals
<1>2. ASSUME NEW t \in Threads, Step(t) PROVE ThreadType'
  <2> DEFINE B == Headers \cup {NULL, unused_mark}
  <2>1. hashes' = hashes \/ \E h \in Hashes : hashes' = hashes \cup {h}
    BY <1>2, QuietSteps, Zenon DEF Quietly, HashKept, FastHashCode, Marked, Stacked, Unstacked,
           Seized, Copied, Published, Converted, HashedMark, HashedMonitor
  <2>2. boxes \in [Threads -> Seq(B)] /\ boxes'[t] \in Seq(B)
    BY <1>2, TypesHold, LocalStep DEF Typed
  <2> HIDE DEF B
  <2>3. boxes' \in [Threads -> Seq(B)]
    BY <1>2, <2>2, OnlyOne, Zenon DEF Only
  <2>4. Typed(t)' /\ ThreadType /\ Only(t)
    BY <1>2, TypesHold, LocalStep, OnlyOne
  <2> QED BY <2>1, <2>3, <2>4, Zenon DEF Typed, Only, B
<1> QED BY <1>1, <1>2, Next1, Zenon

\* The fields of the ObjectMonitors keep their types.
LEMMA MonitorTypeNext == ASSUME IInv, Next PROVE MonitorType'
<1>1. ASSUME NEW m \in Monitors, Deflated(m) PROVE MonitorType'
  BY <1>1, TypesHold DEF Deflated, MonitorType, Marks, Set
<1>2. ASSUME NEW t \in Threads, Passing(t) \/ Recursing(t) \/ Pooling(t) PROVE MonitorType'
  <2>1. UNCHANGED <<mark, monitor>> => MonitorType'
    BY TypesHold DEF MonitorType, monitor
  <2>2. omAlloc(t) => MonitorType'
    BY TypesHold DEF omAlloc, First, ListType, MonitorType, Set
  <2> QED BY <1>2, <2>1, <2>2, Zenon DEF Passing, Recursing, slow_enter_recursive,
             fast_exit_recursive, Pooling, omAlloc_reprovision, omAlloc_new_block,
             inflate_retry, omFlush
<1>3. ASSUME NEW t \in Threads, Marked(t) PROVE MonitorType'
  <2>0. UNCHANGED <<count, waiters>> /\ MonitorType
    BY <1>3, TypesHold, Zenon DEF Marked
  <2>1. ASSUME mark' \in Marks, UNCHANGED <<header, owner, recursions, assigned>>
        PROVE  MonitorType'
    BY <2>0, <2>1, Zenon DEF MonitorType
  <2>2. ASSUME mark' \in Marks, UNCHANGED recursions, NEW m \in Monitors, NEW k \in Headers,
               header' = [header EXCEPT ![m] = k],
               NEW o \in {NULL} \cup Threads \cup {Box(u) : u \in Threads},
               owner' = owner \/ owner' = [owner EXCEPT ![m] = o],
               assigned' = assigned \/ assigned' = assigned \cup {m}
        PROVE  MonitorType'
    BY <2>0, <2>2 DEF MonitorType
  <2>3. /\ \A k \in Headers : k \in Marks
        /\ StackLocked(t) \in Marks /\ INFLATING \in Marks
        /\ \A m \in Monitors : Inflated(m) \in Marks
        /\ \A h \in Hashes : Neutral(h) \in Headers
    BY DEF Marks, Lockers, Headers
  <2>4. mark \in Marks
    BY <2>0, Zenon DEF MonitorType
  <2>5. Stacked(t) \/ Unstacked(t) \/ HashedMark(t) => MonitorType'
    BY <2>1, <2>3, Zenon DEF Stacked, Unstacked, HashedMark
  <2>6. HashedMonitor(t) => MonitorType'
    BY <2>2, <2>3, <2>4, Zenon DEF HashedMonitor
  <2>7. Converted(t) => MonitorType'
    BY <2>2, <2>3, Zenon DEF Converted
  <2>8. ASSUME NEW w \in Threads PROVE Seized(t, w) \/ Published(t, w) => MonitorType'
    BY <2>1, <2>3, Zenon DEF Seized, Published
  <2>9. ASSUME NEW w \in Threads, Copied(t, w) PROVE MonitorType'
    <3>1. pc[t] \in PrivateLabels
      BY <2>9, Zenon DEF Copied, PrivateLabels
    <3>2. boxes[w][1] \in Headers
      <4>1. Displacer(w)
        BY <2>9, <3>1, Zenon DEF Copied, Displacer
      <4> QED BY <4>1, Zenon DEF IInv, HeaderInv, Carried
    <3>3. Box(w) \in {NULL} \cup Threads \cup {Box(u) : u \in Threads}
      OBVIOUS
    <3> QED BY <2>2, <2>4, <2>9, <3>2, <3>3, Zenon DEF Copied
  <2> QED BY <1>3, <2>5, <2>6, <2>7, <2>8, <2>9, Zenon DEF Marked
<1>4. ASSUME NEW t \in Threads, Heavy(t) PROVE MonitorType'
  <2>1. pc[t] \in MonLabels /\ UNCHANGED <<mark, header, assigned>>
    BY <1>4, Zenon DEF Heavy, monitor_enter, monitor_enter_block, EnterI, Acquire,
             monitor_enter_done, monitor_exit_recursive, monitor_exit, monitor_wait, Woken,
             ReenterI, monitor_wait_done, MonLabels, CountLabels, SleepLabels, Ops, monitor
  <2>2. mon[t] \in Monitors /\ MonitorType /\ save[t] \in Nat
    BY <2>1, OnMonitor, TypesHold DEF ThreadType
  <2> DEFINE Os == {NULL} \cup Threads \cup {Box(u) : u \in Threads}
             F(f, g) == f = g \/ \E n \in Nat : f = Set(g, mon[t], n)
             I(f, g) == f = g \/ \E n \in Int : f = Set(g, mon[t], n)
             O(f, g) == f = g \/ \E o \in Os : f = Set(g, mon[t], o)
  <2>a. /\ recursions[mon[t]] \in Nat /\ recursions[mon[t]] + 1 \in Nat /\ 1 \in Nat /\ 0 \in Nat
        /\ recursions[mon[t]] # 0 => recursions[mon[t]] - 1 \in Nat
        /\ count[mon[t]] + 1 \in Int /\ count[mon[t]] - 1 \in Int
        /\ waiters[mon[t]] + 1 \in Int /\ waiters[mon[t]] - 1 \in Int
    BY <2>2 DEF MonitorType
  <2>b. t \in Os /\ NULL \in Os
    OBVIOUS
  <2> HIDE DEF Os
  <2>3. F(recursions', recursions) /\ I(count', count)
    BY <1>4, <2>2, <2>a, ZenonT(40)
       DEF Heavy, monitor_enter, monitor_enter_block, EnterI, Acquire,
             monitor_enter_done, monitor_exit_recursive, monitor_exit, monitor_wait, Woken,
             ReenterI, monitor_wait_done, monitor
  <2>4. I(waiters', waiters) /\ O(owner', owner)
    BY <1>4, <2>a, <2>b, ZenonT(40)
       DEF Heavy, monitor_enter, monitor_enter_block, EnterI, Acquire,
             monitor_enter_done, monitor_exit_recursive, monitor_exit, monitor_wait, Woken,
             ReenterI, monitor_wait_done, monitor
  <2>5. recursions' \in [Monitors -> Nat]
    BY <2>2, <2>3 DEF MonitorType, Set
  <2>6. count' \in [Monitors -> Int] /\ waiters' \in [Monitors -> Int]
    BY <2>2, <2>3, <2>4 DEF MonitorType, Set
  <2>7. owner' \in [Monitors -> Os]
    BY <2>2, <2>4 DEF MonitorType, Set, Os
  <2> QED BY <2>1, <2>2, <2>5, <2>6, <2>7, Zenon DEF MonitorType, Os
<1> QED BY <1>1, <1>2, <1>3, <1>4, Kinds, MarkSteps, Deflation, Zenon DEF Next

\* The steps that move no ObjectMonitor from list to list.
Unmoved(t) ==
    /\ UNCHANGED lists
    /\ \/ UNCHANGED hand /\ \A m : mark' = Inflated(m) <=> mark = Inflated(m)
       \/ /\ \A m : mark # Inflated(m)
          /\ hand[t] \in Monitors /\ hand' = [hand EXCEPT ![t] = NULL] /\ mark' = Inflated(hand[t])

\* omAlloc() reprovisions from the global free list (synchronizer.cpp:994-1002).
LEMMA Reprovision == Take(gFreeList, Provision) \in SUBSET gFreeList
BY DEF Take

\* omAlloc() carves monitors out of a block it has not allocated yet
\* (synchronizer.cpp:1021).
LEMMA NewBlock ==
    ASSUME IInv, gBlockList # Blocks
    PROVE  First(Blocks \ gBlockList) \in Blocks \ gBlockList
BY TypesHold DEF ListType, First

\* A step of omAlloc(), omRelease() or omFlush() moves monitors between lists; any other
\* moves none but the one it publishes.
LEMMA PoolSteps ==
    ASSUME IInv, NEW t \in Threads, Step(t)
    PROVE  Unmoved(t) \/ Pooling(t)
<1>1. Passing(t) \/ Recursing(t) => Unmoved(t)
  BY Zenon DEF Passing, Recursing, slow_enter_recursive, fast_exit_recursive, Unmoved, locals
<1>2. ASSUME Heavy(t) PROVE Unmoved(t)
  <2>1. /\ UNCHANGED <<lists, mark>>
        /\ hand' = hand \/ hand' = Set(hand, t, NULL)
        /\ pc[t] \in MonLabels
    BY <1>2, Zenon DEF Heavy, monitor_enter, monitor_enter_block, EnterI, Acquire,
             monitor_enter_done, monitor_exit_recursive, monitor_exit, monitor_wait, Woken,
             ReenterI, monitor_wait_done, Back, locals, MonLabels, Ops, CountLabels, SleepLabels
  <2>2. pc[t] \notin HandLabels
    BY <2>1 DEF MonLabels, Ops, CountLabels, SleepLabels, HandLabels, PrivateLabels
  <2>3. hand' = hand
    BY <2>1, <2>2, NoMonitor, SetAt, Zenon
  <2> QED BY <2>1, <2>3, Zenon DEF Unmoved
<1>3. ASSUME Marked(t) PROVE Unmoved(t)
  <2>0. UNCHANGED lists
    BY <1>3, Zenon DEF Marked
  <2>1. /\ \A k \in Headers : \A m : k # Inflated(m)
        /\ \A u : \A m : StackLocked(u) # Inflated(m)
        /\ \A m : INFLATING # Inflated(m)
        /\ \A h \in Hashes \cup {NULL} : Neutral(h) \in Headers
    BY MarkKinds DEF Headers
  <2>2. Stacked(t) \/ Unstacked(t) => Unmoved(t)
    BY <2>0, <2>1, Zenon DEF Stacked, Unstacked, Unmoved
  <2>3. HashedMark(t) \/ HashedMonitor(t) => Unmoved(t)
    BY <2>0, <2>1, Zenon DEF HashedMark, HashedMonitor, Unmoved
  <2>4. Converted(t) => Unmoved(t)
    BY <2>0, <2>1, Zenon DEF Converted, Unmoved
  <2>5. ASSUME NEW w \in Threads
        PROVE  Seized(t, w) \/ Copied(t, w) \/ Published(t, w) => Unmoved(t)
    BY <2>0, <2>1, Zenon DEF Seized, Copied, Published, Unmoved
  <2> QED BY <1>3, <2>2, <2>3, <2>4, <2>5, Zenon DEF Marked
<1> QED BY <1>1, <1>2, <1>3, Kinds, MarkSteps, Zenon

\* The lists of monitors keep their types.
LEMMA ListTypeNext == ASSUME IInv, Next PROVE ListType'
<1> USE TypesHold DEF ListType, Set
<1>1. ASSUME NEW m \in Monitors, Deflated(m) PROVE ListType'
  BY <1>1 DEF Deflated
<1>2. ASSUME NEW t \in Threads, Unmoved(t) PROVE ListType'
  BY <1>2 DEF Unmoved, lists
<1>3. ASSUME NEW t \in Threads, Pooling(t) PROVE ListType'
  <2>1. omAlloc(t) => ListType'
    BY DEF omAlloc, First
  <2>2. omAlloc_reprovision(t) => ListType'
    BY Reprovision DEF omAlloc_reprovision
  <2>3. ASSUME omAlloc_new_block(t) PROVE ListType'
    <3>1. First(Blocks \ gBlockList) \in Blocks \ gBlockList
      BY <2>3, NewBlock DEF omAlloc_new_block
    <3>2. First(Blocks \ gBlockList) \subseteq Monitors
      BY <3>1 DEF Monitors
    <3> QED BY <2>3, <3>1, <3>2, Zenon DEF omAlloc_new_block
  <2>4. inflate_retry(t) => ListType'
    BY DEF inflate_retry, LocalInv, Local, HandLabels
  <2>5. omFlush(t) => ListType'
    BY DEF omFlush
  <2> HIDE DEF ListType, Set
  <2> QED BY <1>3, <2>1, <2>2, <2>3, <2>4, <2>5, Zenon DEF Pooling
<1> HIDE DEF ListType, Set
<1> QED BY <1>1, <1>2, <1>3, PoolSteps, Deflation, Zenon DEF Next

\* What the invariant says of the place where the header is.
LEMMA HeaderFacts ==
    ASSUME IInv
    PROVE  /\ InflatingInv /\ Carried(Headers)
           /\ \A u \in Threads : /\ boxes[u] # <<>> => boxes[u][1] # NULL
                                 /\ boxes[u] \in Seq(Headers \cup {NULL, unused_mark})
           /\ \A u, w \in Threads :
                 pc[u] = "publish" /\ seen[u] = StackLocked(w) => header[hand[u]] = boxes[w][1]
<1>1. ThreadType
  BY TypesHold
<1> QED BY <1>1 DEF IInv, HeaderInv, ThreadType

\* A recursive stack-lock, or an exit from a monitor, leaves the BasicLock with
\* the displaced header alone.
LEMMA FirstBox ==
    ASSUME IInv, NEW t \in Threads, BoxKept(t)
    PROVE  /\ boxes'[t] # <<>> => boxes'[t][1] # NULL
           /\ Displacer(t) => boxes'[t] # <<>> /\ boxes'[t][1] = boxes[t][1]
<1> DEFINE S == Headers \cup {NULL, unused_mark}
<1>1. boxes[t] \in Seq(S) /\ (boxes[t] # <<>> => boxes[t][1] # NULL)
  BY HeaderFacts
<1>2. Displacer(t) => boxes[t] # <<>>
  BY HeaderFacts, Zenon DEF Carried
<1>3. pc[t] \in MonLabels => ~ Displacer(t)
  BY OnMonitor, HeaderFacts, DisplacerIs, Zenon
<1>4. NULL \in S /\ unused_mark \in S /\ NULL # unused_mark /\ "exit" \in MonLabels
  BY NullFacts DEF MonLabels, Ops
<1>5. mark = StackLocked(t) => Displacer(t)
  BY Zenon DEF Displacer
<1> HIDE DEF S
<1>6. CASE boxes'[t] = boxes[t]
  BY <1>1, <1>2, <1>6, Zenon
<1>7. CASE mark = StackLocked(t) /\ boxes'[t] = Append(boxes[t], NULL)
  <2>1. boxes[t] # <<>>
    BY <1>2, <1>5, <1>7, Zenon
  <2>2. boxes'[t] # <<>> /\ boxes'[t][1] = boxes[t][1]
    BY <1>1, <1>4, <1>7, <2>1, PushPop
  <2> QED BY <1>1, <2>1, <2>2, Zenon
<1>8. CASE pc[t] \in MonLabels /\ boxes'[t] = Append(boxes[t], unused_mark)
  <2>1. boxes[t] # <<>> => boxes'[t][1] = boxes[t][1]
    BY <1>1, <1>4, <1>8, PushPop
  <2>2. boxes[t] = <<>> => boxes'[t][1] = unused_mark
    BY <1>1, <1>4, <1>8, PushPop
  <2> QED BY <1>1, <1>3, <1>4, <1>8, <2>1, <2>2, Zenon
<1>9. CASE /\ boxes[t] # <<>> /\ boxes'[t] = SubSeq(boxes[t], 1, Len(boxes[t]) - 1)
           /\ Displaced(t) = NULL \/ pc[t] = "exit"
  <2>1. /\ Len(boxes[t]) \in Nat /\ Len(boxes[t]) > 0
        /\ boxes'[t] \in Seq(S) /\ Len(boxes'[t]) = Len(boxes[t]) - 1
        /\ \A i \in 1 .. Len(boxes[t]) - 1 : boxes'[t][i] = boxes[t][i]
    BY <1>1, <1>9, PushPop
  <2>2. boxes'[t] # <<>> <=> Len(boxes[t]) > 1
    BY <2>1, PushPop
  <2>3. Len(boxes[t]) > 1 => boxes'[t][1] = boxes[t][1]
    BY <2>1
  <2>4. Len(boxes[t]) = 1 => Displaced(t) # NULL
    BY <1>1, <1>9 DEF Displaced
  <2>5. Displacer(t) => Len(boxes[t]) > 1
    <3>0. Len(boxes[t]) \in Nat /\ Len(boxes[t]) > 0
      BY <2>1, Zenon
    <3>1. \A n \in Nat : n > 0 /\ n # 1 => n > 1
      OBVIOUS
    <3> QED BY <1>3, <1>4, <1>9, <2>4, <3>0, <3>1, Zenon
  <2> QED BY <1>1, <1>9, <2>2, <2>3, <2>5, Zenon
<1> QED BY <1>6, <1>7, <1>8, <1>9, Zenon DEF BoxKept

\* A step that leaves the mark alone leaves the displaced header alone.
LEMMA QuietBoxes ==
    ASSUME IInv, NEW t \in Threads, OthersKeep(t), Quietly(t)
    PROVE  \A u \in Threads :
              /\ Displacer(u)' => Displacer(u)
              /\ boxes'[u] # <<>> => boxes'[u][1] # NULL
              /\ Displacer(u) => boxes'[u] # <<>> /\ boxes'[u][1] = boxes[u][1]
<1>1. \A u \in Threads : boxes[u] # <<>> => boxes[u][1] # NULL
  BY HeaderFacts, Zenon
<1>2. \A u \in Threads : Displacer(u) => boxes[u] # <<>>
  BY HeaderFacts, Zenon DEF Carried
<1>3. BoxKept(t) /\ mark' = mark /\ pc'[t] \notin PrivateLabels
  BY Zenon DEF Quietly
<1>4. \A u \in Threads \ {t} : boxes'[u] = boxes[u] /\ pc'[u] = pc[u] /\ seen'[u] = seen[u]
  BY Zenon DEF OthersKeep
<1>5. \A u \in Threads : Displacer(u)' => Displacer(u)
  BY <1>3, <1>4, Zenon DEF Displacer
<1>6. /\ boxes'[t] # <<>> => boxes'[t][1] # NULL
      /\ Displacer(t) => boxes'[t] # <<>> /\ boxes'[t][1] = boxes[t][1]
  BY <1>3, FirstBox, Zenon
<1> QED BY <1>1, <1>2, <1>4, <1>5, <1>6, Zenon

\* A step that leaves the mark alone leaves the header where it is.
LEMMA CarriedQuiet ==
    ASSUME IInv, NEW t \in Threads, OthersKeep(t), Quietly(t), NEW K, Carried(K)
    PROVE  Carried(K)'
<1>1. mark' = mark /\ header' = header
  BY Zenon DEF Quietly
<1>2. \A u \in Threads : Displacer(u)' => boxes'[u] # <<>> /\ boxes'[u][1] \in K
  BY QuietBoxes, Zenon DEF Carried
<1> QED BY <1>1, <1>2, Zenon DEF Carried

\* The header goes with the mark: into a BasicLock, into a monitor and back.
LEMMA CarriedMoves ==
    ASSUME IInv, InflatingInv', NEW t \in Threads, OthersKeep(t), Marked(t),
           ~ HashedMark(t), ~ HashedMonitor(t), NEW K, Carried(K)
    PROVE  Carried(K)'
<1>0. InflatingInv /\ header \in [Monitors -> Headers \cup {NULL}]
  BY HeaderFacts, TypesHold DEF MonitorType
<1>h. \A m \in Monitors : \A v : Set(header, m, v)[m] = v
  BY <1>0 DEF Set
<1>1. ASSUME Stacked(t) PROVE Carried(K)'
  <2>1. mark \in K /\ mark' = StackLocked(t) /\ boxes'[t] = <<mark>>
    BY <1>1, Zenon DEF Stacked, Carried
  <2>2. \A u \in Threads : Displacer(u)' <=> u = t
    BY <2>1, DisplacerNext, Zenon
  <2>3. <<mark>> # <<>> /\ <<mark>>[1] = mark
    OBVIOUS
  <2>4. mark' \notin Headers /\ \A m : mark' # Inflated(m)
    BY <2>1, MarkKinds, Zenon
  <2> QED BY <2>1, <2>2, <2>3, <2>4, Zenon DEF Carried
<1>2. ASSUME Unstacked(t) PROVE Carried(K)'
  <2>1. mark = StackLocked(t) /\ mark' = boxes[t][1] /\ mark' \in Headers
    BY <1>2, Zenon DEF Unstacked
  <2>2. mark' \in K
    BY <2>1, Zenon DEF Carried, Displacer
  <2>3. \A u \in Threads : ~ Displacer(u)'
    BY <2>1, DisplacerNext, Zenon
  <2>4. \A m : mark' # Inflated(m)
    BY <2>1, MarkKinds, Zenon
  <2> QED BY <2>2, <2>3, <2>4, Zenon DEF Carried
<1>3. ASSUME Converted(t) PROVE Carried(K)'
  <2>1. /\ mark \in Headers /\ hand[t] \in Monitors /\ mark' = Inflated(hand[t])
        /\ header' = Set(header, hand[t], mark)
    BY <1>3, Zenon DEF Converted, Set
  <2>0. mark \in K
    BY <2>1, Zenon DEF Carried
  <2>2. header'[hand[t]] \in K
    BY <1>h, <2>0, <2>1, Zenon
  <2>3. \A u \in Threads : ~ Displacer(u)'
    BY <2>1, DisplacerNext, Zenon
  <2>4. mark' \notin Headers /\ \A m : mark' = Inflated(m) => m = hand[t]
    BY <2>1, MarkKinds, MarkInjective, Zenon
  <2> QED BY <2>2, <2>3, <2>4, Zenon DEF Carried
<1>4. ASSUME NEW w \in Threads, Seized(t, w) PROVE Carried(K)'
  <2>1. /\ mark = StackLocked(w) /\ seen'[t] = StackLocked(w) /\ mark' = INFLATING
        /\ pc'[t] \in PrivateLabels /\ boxes' = boxes
    BY <1>4 DEF Seized, PrivateLabels
  <2>2. \A u \in Threads : Displacer(u)' <=> u = w
    BY <2>1, DisplacerNext, Zenon
  <2>3. boxes[w] # <<>> /\ boxes[w][1] \in K
    BY <2>1, Zenon DEF Carried, Displacer
  <2>4. mark' \notin Headers /\ \A m : mark' # Inflated(m)
    BY <2>1, MarkKinds, Zenon
  <2> QED BY <2>1, <2>2, <2>3, <2>4, Zenon DEF Carried
<1>5. ASSUME NEW w \in Threads, Copied(t, w) PROVE Carried(K)'
  <2>1. /\ seen[t] = StackLocked(w) /\ seen'[t] = StackLocked(w) /\ mark' = INFLATING
        /\ pc[t] \in PrivateLabels /\ pc'[t] \in PrivateLabels /\ boxes' = boxes
    BY <1>5 DEF Copied, PrivateLabels
  <2>2. \A u \in Threads : Displacer(u)' <=> u = w
    BY <2>1, DisplacerNext, Zenon
  <2>3. boxes[w] # <<>> /\ boxes[w][1] \in K
    BY <2>1, Zenon DEF Carried, Displacer
  <2>4. mark' \notin Headers /\ \A m : mark' # Inflated(m)
    BY <2>1, MarkKinds, Zenon
  <2> QED BY <2>1, <2>2, <2>3, <2>4, Zenon DEF Carried
<1>6. ASSUME NEW w \in Threads, Published(t, w) PROVE Carried(K)'
  <2>1. /\ seen[t] = StackLocked(w) /\ pc[t] = "publish" /\ hand[t] \in Monitors
        /\ mark' = Inflated(hand[t]) /\ header' = header
    BY <1>6, Zenon DEF Published
  <2>2. header[hand[t]] = boxes[w][1]
    BY <2>1, HeaderFacts, Zenon
  <2>3. boxes[w][1] \in K
    BY <2>1 DEF Carried, Displacer, PrivateLabels
  <2>4. \A u \in Threads : ~ Displacer(u)'
    BY <2>1, DisplacerNext, Zenon
  <2>5. mark' \notin Headers /\ \A m : mark' = Inflated(m) => m = hand[t]
    BY <2>1, MarkKinds, MarkInjective, Zenon
  <2> QED BY <2>1, <2>2, <2>3, <2>4, <2>5, Zenon DEF Carried
<1> QED BY <1>1, <1>2, <1>3, <1>4, <1>5, <1>6, Zenon DEF Marked

\* A new hash code is the header's.
LEMMA CarriedHash ==
    ASSUME IInv, InflatingInv', NEW t \in Threads, HashedMark(t) \/ HashedMonitor(t)
    PROVE  \E h \in Hashes : /\ hashes' = hashes \cup {h}
                             /\ Carried({Neutral(h)})' /\ Carried(Headers)'
                             /\ \A g \in Hashes : ~ Carried({Neutral(g)})
<1>0. /\ InflatingInv /\ header \in [Monitors -> Headers \cup {NULL}]
      /\ NULL \notin Hashes /\ Neutral(NULL) \in Headers
      /\ \A h \in Hashes : Neutral(h) \in Headers
  BY HeaderFacts, TypesHold, NullFacts DEF MonitorType, Headers
<1>h. \A m \in Monitors : \A v : Set(header, m, v)[m] = v
  BY <1>0 DEF Set
<1>1. PICK h \in Hashes : h = hash[t] /\ hashes' = hashes \cup {h}
  BY Zenon DEF HashedMark, HashedMonitor
<1>2. \A g \in Hashes : Neutral(NULL) \notin {Neutral(g)}
  BY <1>0, MarkInjective
<1>s. \A k : k \in {Neutral(h)} <=> k = Neutral(h)
  OBVIOUS
<1>3. ASSUME HashedMark(t) PROVE Carried({Neutral(h)})' /\ \A g \in Hashes : ~ Carried({Neutral(g)})
  <2>1. mark = Neutral(NULL) /\ mark' = Neutral(h)
    BY <1>1, <1>3, Zenon DEF HashedMark
  <2>2. \A u \in Threads : ~ Displacer(u)'
    BY <1>0, <2>1, DisplacerNext, Zenon
  <2>3. \A m : mark' # Inflated(m)
    BY <1>0, <2>1, MarkKinds, Zenon
  <2>4. Carried({Neutral(h)})'
    BY <1>s, <2>1, <2>2, <2>3, Zenon DEF Carried
  <2>5. \A g \in Hashes : ~ Carried({Neutral(g)})
    BY <1>0, <1>2, <2>1, Zenon DEF Carried
  <2> QED BY <2>4, <2>5, Zenon
<1>4. ASSUME HashedMonitor(t) PROVE Carried({Neutral(h)})' /\ \A g \in Hashes : ~ Carried({Neutral(g)})
  <2>1. /\ mon[t] \in Monitors /\ mark = Inflated(mon[t]) /\ mark' = mark
        /\ header[mon[t]] = Neutral(NULL) /\ header' = Set(header, mon[t], Neutral(hash[t]))
    BY <1>4, Zenon DEF HashedMonitor, Set
  <2>2. \A u \in Threads : ~ Displacer(u)'
    BY <2>1, DisplacerNext, Zenon
  <2>3. mark' \notin Headers /\ \A m : mark' = Inflated(m) => m = mon[t]
    BY <2>1, MarkKinds, MarkInjective, Zenon
  <2>4. header'[mon[t]] = Neutral(h)
    BY <1>1, <1>h, <2>1, Zenon
  <2>5. Carried({Neutral(h)})'
    BY <1>s, <2>2, <2>3, <2>4, Zenon DEF Carried
  <2>6. \A g \in Hashes : ~ Carried({Neutral(g)})
    BY <1>2, <2>1, Zenon DEF Carried
  <2> QED BY <2>5, <2>6, Zenon
<1>5. Carried({Neutral(h)})' /\ \A g \in Hashes : ~ Carried({Neutral(g)})
  BY <1>3, <1>4, Zenon
<1>6. {Neutral(h)} \subseteq Headers
  BY <1>0
<1>7. Carried(Headers)'
  BY <1>5, <1>6, Zenon DEF Carried
<1> QED BY <1>1, <1>5, <1>7, Zenon

\* Deflation puts the header back into the mark.
LEMMA CarriedDeflated ==
    ASSUME IInv, InflatingInv', NEW m \in Monitors, Deflated(m), NEW K, Carried(K)
    PROVE  Carried(K)'
<1>1. mark' = header[m] /\ mark' \in Headers /\ mark' \in K
  BY Zenon DEF Deflated, Carried
<1>2. \A u \in Threads : ~ Displacer(u)'
  BY <1>1, DisplacerNext, Zenon
<1>3. \A l : mark' # Inflated(l)
  BY <1>1, MarkKinds, Zenon
<1> QED BY <1>1, <1>2, <1>3, Zenon DEF Carried

\* The header stays in the one place the mark points to.
LEMMA HeaderNext == ASSUME IInv, Next, InflatingInv' PROVE HeaderInv'
<1> DEFINE Firsts == \A u \in Threads : boxes[u] # <<>> => boxes[u][1] # NULL
           Copies == \A u, w \in Threads :
                        pc[u] = "publish" /\ seen[u] = StackLocked(w) => header[hand[u]] = boxes[w][1]
<1>0. Firsts /\ Copies /\ Carried(Headers) /\ InflatingInv
  BY HeaderFacts, Zenon
<1>p. /\ \A l : l \in {"publish", "copy_header"} => l \in PrivateLabels
      /\ \A l \in SafeLabels : l \notin PrivateLabels
      /\ \A l : l \notin PrivateLabels => l # "publish"
      /\ "java" # "publish" /\ "copy_header" # "publish" /\ \A l \in Ops : l # "publish"
  BY DEF PrivateLabels, SafeLabels, Ops
<1>1. ASSUME NEW m \in Monitors, Deflated(m) PROVE HeaderInv'
  <2>1. Carried(Headers)'
    BY <1>0, <1>1, CarriedDeflated, Zenon
  <2>2. pc' = pc /\ boxes' = boxes /\ \A u \in Threads : pc[u] \notin PrivateLabels
    BY <1>1, <1>p, Zenon DEF Deflated
  <2> QED BY <1>0, <1>p, <2>1, <2>2, Zenon DEF HeaderInv
<1>2. ASSUME NEW t \in Threads, OthersKeep(t), Quietly(t) PROVE HeaderInv'
  <2>1. Carried(Headers)' /\ Firsts'
    BY <1>0, <1>2, CarriedQuiet, QuietBoxes, Zenon
  <2>2. \A u \in Threads \ {t} : pc'[u] = pc[u] /\ seen'[u] = seen[u] /\ hand'[u] = hand[u]
    BY <1>2, Zenon DEF OthersKeep
  <2>3. pc'[t] # "publish" /\ header' = header
    BY <1>2, <1>p, Zenon DEF Quietly
  <2>4. ASSUME NEW u \in Threads, NEW w \in Threads, pc'[u] = "publish", seen'[u] = StackLocked(w)
        PROVE  header'[hand'[u]] = boxes'[w][1]
    <3>1. u # t /\ pc[u] = "publish" /\ seen[u] = StackLocked(w) /\ hand'[u] = hand[u]
      BY <2>2, <2>3, <2>4, Zenon
    <3>2. header[hand[u]] = boxes[w][1]
      BY <1>0, <3>1, Zenon
    <3>3. Displacer(w)
      BY <1>p, <3>1, Zenon DEF Displacer
    <3>4. boxes'[w][1] = boxes[w][1]
      BY <1>2, <3>3, QuietBoxes, Zenon
    <3> QED BY <2>3, <3>1, <3>2, <3>4, Zenon
  <2> QED BY <2>1, <2>4, Zenon DEF HeaderInv
<1>3. ASSUME NEW t \in Threads, OthersKeep(t), Marked(t) PROVE HeaderInv'
  <2>1. Carried(Headers)'
    BY <1>0, <1>3, CarriedMoves, CarriedHash, Zenon
  <2>2. \A u \in Threads \ {t} : /\ pc'[u] = pc[u] /\ seen'[u] = seen[u] /\ hand'[u] = hand[u]
                                 /\ boxes'[u] = boxes[u]
    BY <1>3, Zenon DEF OthersKeep
  <2>3. boxes'[t] = boxes[t] \/ boxes'[t] = <<>> \/ (mark \in Headers /\ boxes'[t] = <<mark>>)
    BY <1>3, Zenon DEF Marked, Stacked, Unstacked, Converted, HashedMark, HashedMonitor, Seized,
       Copied, Published
  <2>4. \A k \in Headers : <<k>> # <<>> /\ <<k>>[1] # NULL
    BY NullFacts
  <2>5. Firsts'
    <3>1. boxes'[t] # <<>> => boxes'[t][1] # NULL
      <4>1. boxes[t] # <<>> => boxes[t][1] # NULL
        BY <1>0, Zenon
      <4> HIDE DEF Firsts, Copies
      <4> QED BY <2>3, <2>4, <4>1, Zenon
    <3> QED BY <1>0, <2>2, <3>1, Zenon
  <2>6. ASSUME NEW v \in Threads, Copied(t, v) PROVE Copies'
    <3>1. /\ seen[t] = StackLocked(v) /\ seen' = seen /\ hand' = hand /\ boxes' = boxes
          /\ pc[t] = "copy_header" /\ hand[t] \in Monitors
          /\ header' = Set(header, hand[t], boxes[v][1])
      BY <2>6, Zenon DEF Copied, Set
    <3>2. header'[hand[t]] = boxes[v][1]
      BY <3>1, TypesHold DEF Set, MonitorType
    <3>0. pc[t] \in PrivateLabels
      BY <3>1 DEF PrivateLabels
    <3>3. \A u \in Threads : pc[u] \in PrivateLabels <=> u = t
      BY <1>0, <3>0, <3>1, DisplacerIs, Zenon
    <3>4. \A u \in Threads : pc'[u] = "publish" => u = t
      BY <1>p, <2>2, <3>3, Zenon
    <3>5. \A w : seen[t] = StackLocked(w) => w = v
      BY <3>1, MarkInjective, Zenon
    <3> QED BY <3>1, <3>2, <3>4, <3>5, Zenon
  <2>7. ASSUME \A v \in Threads : ~ Copied(t, v) PROVE Copies'
    <3>1. pc'[t] # "publish"
      BY <1>3, <1>p, <2>7, Zenon DEF Marked, Stacked, Unstacked, Converted, HashedMark, HashedMonitor,
         Seized, Published
    <3>2. \A u \in Threads \ {t} : pc[u] # "publish"
      <4>1. mark \in Headers \/ (\E x : mark = Inflated(x)) \/ (\E x \in Threads : mark = StackLocked(x))
            \/ \E v \in Threads : pc[t] = "publish" /\ seen[t] = StackLocked(v)
        <5>1. Neutral(NULL) \in Headers
          BY DEF Headers
        <5> QED BY <1>3, <2>7, <5>1, Zenon DEF Marked, Stacked, Unstacked, Converted, HashedMark,
               HashedMonitor, Seized, Published
      <4>2. Alone \/ \E v \in Threads : pc[t] = "publish" /\ seen[t] = StackLocked(v)
        BY <1>0, <4>1, DisplacerIs, Zenon
      <4>3. (\E v \in Threads : pc[t] = "publish" /\ seen[t] = StackLocked(v)) =>
               \A u \in Threads : pc[u] \in PrivateLabels <=> u = t
        BY <1>0, <1>p, DisplacerIs, Zenon
      <4> QED BY <1>p, <4>2, <4>3, Zenon DEF Alone
    <3> QED BY <2>2, <3>1, <3>2, Zenon
  <2> QED BY <2>1, <2>5, <2>6, <2>7, Zenon DEF HeaderInv
<1> QED BY <1>1, <1>2, <1>3, Next1, Zenon

\* FastHashCode() reads the object's header, wherever it is.
LEMMA HashRead ==
    ASSUME IInv, NEW t \in Threads, NEW h \in Hashes, FastHashCode(t, h)
    PROVE  /\ Carried({Neutral(h)})
           /\ \A K : Carried(K) => Neutral(h) \in K
<1>0. InflatingInv /\ Carried(Headers)
  BY HeaderFacts
<1>1. CASE is_neutral /\ Neutral(h) = mark
  <2>1. mark \in Headers
    BY <1>1, TheMark
  <2>2. (\A u \in Threads : ~ Displacer(u)) /\ \A m : mark # Inflated(m)
    BY <1>0, <2>1, DisplacerIs, MarkKinds, Zenon
  <2>3. Carried({Neutral(h)})
    BY <1>1, <2>2 DEF Carried
  <2>4. \A K : Carried(K) => Neutral(h) \in K
    BY <1>1, <2>1, Zenon DEF Carried
  <2> QED BY <2>3, <2>4
<1>2. CASE \E m \in Monitors : mark = Inflated(m) /\ Neutral(h) = header[m]
  <2>1. PICK m \in Monitors : mark = Inflated(m) /\ Neutral(h) = header[m]
    BY <1>2
  <2>2. /\ \A u \in Threads : ~ Displacer(u)
        /\ mark \notin Headers /\ \A l : mark = Inflated(l) => l = m
    BY <1>0, <2>1, DisplacerIs, MarkKinds, MarkInjective, Zenon
  <2>3. Carried({Neutral(h)})
    BY <2>1, <2>2 DEF Carried
  <2>4. \A K : Carried(K) => Neutral(h) \in K
    BY <2>1, Zenon DEF Carried
  <2> QED BY <2>3, <2>4
<1>3. CASE mark = StackLocked(t) /\ Neutral(h) = boxes[t][1]
  <2>1. Displacer(t)
    BY <1>3, Zenon DEF Displacer
  <2>2. /\ \A u \in Threads : Displacer(u) <=> u = t
        /\ mark \notin Headers /\ \A l : mark # Inflated(l)
    BY <1>0, <1>3, DisplacerIs, MarkKinds, Zenon
  <2>3. boxes[t] # <<>>
    BY <1>0, <2>1, Zenon DEF Carried
  <2>4. Carried({Neutral(h)})
    BY <1>3, <2>2, <2>3 DEF Carried
  <2>5. \A K : Carried(K) => Neutral(h) \in K
    BY <1>3, <2>1, Zenon DEF Carried
  <2> QED BY <2>4, <2>5
<1>4. pc[t] \in {"hash", "hash_mcas"} => mon[t] \in Monitors /\ mark = Inflated(mon[t])
  BY OnMonitor DEF MonLabels, Ops
<1>5. has_monitor => mark.monitor \in Monitors /\ mark = Inflated(mark.monitor)
  BY TheMark, Zenon
<1> QED BY <1>1, <1>2, <1>3, <1>4, <1>5, Zenon DEF FastHashCode, StableHeader

\* No hash code is given out but the header's.
LEMMA HashNext == ASSUME IInv, Next, InflatingInv' PROVE HashInv'
<1>0. /\ \A g, h \in hashes : g = h
      /\ \A h \in hashes : Carried({Neutral(h)})
      /\ hashes \in SUBSET Hashes
  BY TypesHold, Zenon DEF IInv, HashInv, ThreadType
<1>1. ASSUME hashes' = hashes, \A K : Carried(K) => Carried(K)' PROVE HashInv'
  BY <1>0, <1>1, Zenon DEF HashInv
<1>2. ASSUME NEW m \in Monitors, Deflated(m) PROVE HashInv'
  <2>1. hashes' = hashes
    BY <1>2, Zenon DEF Deflated
  <2>2. ASSUME NEW K, Carried(K) PROVE Carried(K)'
    BY <1>2, <2>2, CarriedDeflated, Zenon
  <2> QED BY <1>1, <2>1, <2>2, Zenon
<1>3. ASSUME NEW t \in Threads, OthersKeep(t), Quietly(t) PROVE HashInv'
  <2>1. ASSUME NEW K, Carried(K) PROVE Carried(K)'
    BY <1>3, <2>1, CarriedQuiet, Zenon
  <2>2. hashes' = hashes => HashInv'
    BY <1>1, <2>1, Zenon
  <2>3. ASSUME NEW h \in Hashes, FastHashCode(t, h) PROVE HashInv'
    <3>1. Carried({Neutral(h)})'
      BY <2>1, <2>3, HashRead, Zenon
    <3>2. \A g \in hashes : Neutral(h) \in {Neutral(g)}
      BY <1>0, <2>3, HashRead, Zenon
    <3>3. \A g \in hashes : g = h
      BY <3>2, MarkInjective
    <3>4. hashes' = {h}
      BY <2>3, <3>3 DEF FastHashCode
    <3> QED BY <3>1, <3>4 DEF HashInv
  <2> QED BY <1>3, <2>2, <2>3, Zenon DEF Quietly, HashKept
<1>4. ASSUME NEW t \in Threads, OthersKeep(t), Marked(t) PROVE HashInv'
  <2>1. ASSUME HashedMark(t) \/ HashedMonitor(t) PROVE HashInv'
    <3>1. PICK h \in Hashes : /\ hashes' = hashes \cup {h} /\ Carried({Neutral(h)})'
                              /\ \A g \in Hashes : ~ Carried({Neutral(g)})
      BY <2>1, CarriedHash, Zenon
    <3>2. \A g \in hashes' : g = h
      BY <1>0, <3>1, Zenon
    <3> QED BY <3>1, <3>2, Zenon DEF HashInv
  <2>2. ASSUME ~ HashedMark(t), ~ HashedMonitor(t) PROVE HashInv'
    <3>1. hashes' = hashes
      BY <1>4, <2>2, Zenon DEF Marked, Stacked, Unstacked, Converted, Seized, Copied, Published
    <3>2. ASSUME NEW K, Carried(K) PROVE Carried(K)'
      BY <1>4, <2>2, <3>2, CarriedMoves, Zenon
    <3> QED BY <1>1, <3>1, <3>2, Zenon
  <2> QED BY <2>1, <2>2, Zenon
<1> QED BY <1>2, <1>3, <1>4, Next1, Zenon

\* The threads at some labels that work with the monitor.
At(L, m) == {u \in Threads : pc[u] \in L /\ mon[u] = m}

Joined(L, t, l) ==
    /\ t \notin At(L, l) /\ At(L, l)' = At(L, l) \cup {t}
    /\ \A m : m # l => At(L, m)' = At(L, m)

Left(L, t, l) ==
    /\ t \in At(L, l) /\ At(L, l)' = At(L, l) \ {t}
    /\ \A m : m # l => At(L, m)' = At(L, m)

\* A thread that arrives at a monitor's labels is one more at that monitor.
LEMMA Joins ==
    ASSUME NEW L, NEW t \in Threads, OthersKeep(t), pc[t] \notin L, pc'[t] \in L
    PROVE  \A l : l = mon'[t] => Joined(L, t, l)
<1>1. \A u \in Threads \ {t} : pc'[u] = pc[u] /\ mon'[u] = mon[u]
  BY Zenon DEF OthersKeep
<1> QED BY <1>1 DEF At, Joined

\* A thread that leaves a monitor's labels is one less at that monitor.
LEMMA Leaves ==
    ASSUME NEW L, NEW t \in Threads, OthersKeep(t), pc[t] \in L, pc'[t] \notin L
    PROVE  \A l : l = mon[t] => Left(L, t, l)
<1>1. \A u \in Threads \ {t} : pc'[u] = pc[u] /\ mon'[u] = mon[u]
  BY Zenon DEF OthersKeep
<1> QED BY <1>1 DEF At, Left

\* Otherwise the same threads are at each monitor.
LEMMA Stays ==
    ASSUME NEW L, NEW t \in Threads, OthersKeep(t), pc[t] \in L <=> pc'[t] \in L,
           pc[t] \in L => mon'[t] = mon[t]
    PROVE  \A m : At(L, m)' = At(L, m)
<1>1. \A u \in Threads \ {t} : pc'[u] = pc[u] /\ mon'[u] = mon[u]
  BY Zenon DEF OthersKeep
<1> QED BY <1>1 DEF At

\* The steps that neither start nor end a reference that _count or _waiters counts.
Uncounted(t) ==
    /\ UNCHANGED <<count, waiters>>
    /\ pc[t] \in CountLabels <=> pc'[t] \in CountLabels
    /\ pc[t] \in SleepLabels <=> pc'[t] \in SleepLabels
    /\ pc[t] \in CountLabels \cup SleepLabels => mon'[t] = mon[t]

CountStep(t) ==
    \/ monitor_enter_block(t) \/ monitor_enter_done(t)
    \/ monitor_wait(t) \/ monitor_wait_done(t)

\* A step that writes _count or _waiters is one of ObjectMonitor's enter() and wait().
LEMMA CountSteps ==
    ASSUME IInv, NEW t \in Threads, Step(t)
    PROVE  Uncounted(t) \/ CountStep(t)
<1>0. \A v : Goto(t, v) => pc'[t] = v
  BY SetAt DEF Goto
<1>b. \A v : Back(t) => pc'[t] = "java"
  BY <1>0, Zenon DEF Back
<1>u. ASSUME UNCHANGED <<count, waiters>>, pc[t] \notin CountLabels \cup SleepLabels,
             pc'[t] \notin CountLabels \cup SleepLabels
      PROVE  Uncounted(t)
  BY <1>u DEF Uncounted
<1>1. ASSUME Passing(t) PROVE Uncounted(t)
  <2>1. UNCHANGED <<count, waiters>> /\ pc[t] \notin BusyLabels /\ pc'[t] \notin BusyLabels
    BY <1>1, Zenon DEF Passing, monitor
  <2> QED BY <1>u, <2>1, Zenon DEF BusyLabels
<1>2. ASSUME Recursing(t) PROVE Uncounted(t)
  <2>1. UNCHANGED <<count, waiters, pc, mon>>
    BY <1>2, Zenon DEF Recursing, slow_enter_recursive, fast_exit_recursive, monitor, locals
  <2> QED BY <2>1, Zenon DEF Uncounted
<1>3. ASSUME Pooling(t) PROVE Uncounted(t)
  <2>1. UNCHANGED <<count, waiters>>
    BY <1>3, Zenon DEF Pooling, omAlloc, omAlloc_reprovision, omAlloc_new_block, inflate_retry,
       omFlush, monitor
  <2>2. pc[t] \in {"alloc", "reprovision", "new_block", "inflate_locked", "inflate_neutral", "flush"}
    BY <1>3, Zenon DEF Pooling, omAlloc, omAlloc_reprovision, omAlloc_new_block, inflate_retry,
       omFlush
  <2>3. omAlloc(t) => pc'[t] \in {"inflate_locked", "inflate_neutral"}
    BY <1>0 DEF omAlloc
  <2>4. omAlloc_reprovision(t) \/ omAlloc_new_block(t) \/ inflate_retry(t) \/ omFlush(t) =>
           pc'[t] \in {"alloc", "inflate", "java"}
    BY <1>0, Zenon DEF omAlloc_reprovision, omAlloc_new_block, inflate_retry, omFlush
  <2>5. pc'[t] \in {"inflate_locked", "inflate_neutral", "alloc", "inflate", "java"}
    BY <1>3, <2>3, <2>4, Zenon DEF Pooling
  <2>6. pc[t] \notin CountLabels \cup SleepLabels /\ pc'[t] \notin CountLabels \cup SleepLabels
    BY <2>2, <2>5, Zenon DEF CountLabels, SleepLabels
  <2> QED BY <1>u, <2>1, <2>6, Zenon
<1>4. ASSUME Marking(t) PROVE Uncounted(t)
  <2>1. UNCHANGED <<count, waiters>>
    BY <1>4, MarkSteps, Zenon DEF Marked
  <2>2. pc[t] \in {"enter_cas", "exit_cas", "inflate_locked", "copy_header", "publish",
                   "inflate_neutral", "hash_cas", "hash_mcas"}
    BY <1>4, Zenon DEF Marking, slow_enter_cas, fast_exit_cas, inflate_locked, inflate_copy_header,
       inflate_publish, inflate_neutral, FastHashCode_cas, FastHashCode_mcas
  <2>3. pc'[t] \in Ops \cup {"java", "copy_header", "publish"}
    BY <1>4, MarkSteps, Zenon DEF Marked, Stacked, Unstacked, Converted, HashedMark, HashedMonitor,
       Seized, Copied, Published
  <2>4. pc[t] \notin CountLabels \cup SleepLabels /\ pc'[t] \notin CountLabels \cup SleepLabels
    BY <2>2, <2>3 DEF CountLabels, SleepLabels, Ops
  <2> QED BY <1>u, <2>1, <2>4, Zenon
<1>5. ASSUME monitor_enter(t) \/ monitor_exit_recursive(t) \/ monitor_exit(t) PROVE Uncounted(t)
  <2>1. UNCHANGED <<count, waiters>> /\ pc[t] \in {"enter", "exit"}
    BY <1>5, Zenon DEF monitor_enter, monitor_exit_recursive, monitor_exit
  <2>2. pc'[t] = "java"
    BY <1>5, <1>b, Zenon DEF monitor_enter, monitor_exit_recursive, monitor_exit
  <2>3. pc[t] \notin CountLabels \cup SleepLabels /\ pc'[t] \notin CountLabels \cup SleepLabels
    BY <2>1, <2>2 DEF CountLabels, SleepLabels
  <2> QED BY <1>u, <2>1, <2>3, Zenon
<1>6. ASSUME EnterI(t) \/ ReenterI(t) \/ Woken(t) PROVE Uncounted(t)
  <2>1. UNCHANGED <<count, waiters, mon>>
    BY <1>6, Zenon DEF EnterI, ReenterI, Acquire, Woken, monitor, locals
  <2>2. \/ pc[t] = "blocked" /\ pc'[t] = "enter_done"
        \/ pc[t] = "reenter" /\ pc'[t] = "wait_done"
        \/ pc[t] = "waiting" /\ pc'[t] = "reenter"
    BY <1>0, <1>6, Zenon DEF EnterI, ReenterI, Acquire, Woken
  <2> QED BY <2>1, <2>2 DEF Uncounted, CountLabels, SleepLabels
<1> QED BY <1>1, <1>2, <1>3, <1>4, <1>5, <1>6, Kinds, Zenon DEF Heavy, CountStep

\* _count and _waiters go up and down with the threads that hold a reference.
LEMMA CountNext == ASSUME IInv, CardFacts, Next PROVE CountInv'
<1>0. /\ count \in [Monitors -> Int] /\ waiters \in [Monitors -> Int]
      /\ \A m \in Monitors : /\ count[m] = Cardinality(At(CountLabels, m))
                             /\ waiters[m] = Cardinality(At(SleepLabels, m))
  BY TypesHold DEF MonitorType, IInv, CountInv, Counted, Sleepers, At
<1>g. ASSUME \A m \in Monitors : /\ count'[m] = Cardinality(At(CountLabels, m)')
                                 /\ waiters'[m] = Cardinality(At(SleepLabels, m)')
      PROVE  CountInv'
  BY <1>g, Zenon DEF CountInv, Counted, Sleepers, At
<1>f. \A L, m : IsFiniteSet(At(L, m)) /\ Cardinality(At(L, m)) \in Nat
  BY SynchronizerAssumption, Zenon DEF CardFacts, At
<1>c. /\ \A S, x : IsFiniteSet(S) /\ x \notin S => Cardinality(S \cup {x}) = Cardinality(S) + 1
      /\ \A S, x : IsFiniteSet(S) /\ x \in S => Cardinality(S \ {x}) = Cardinality(S) - 1
  BY Zenon DEF CardFacts
<1>1. ASSUME NEW t \in Threads, OthersKeep(t), Uncounted(t) PROVE CountInv'
  <2>1. /\ count' = count /\ waiters' = waiters
        /\ pc[t] \in CountLabels <=> pc'[t] \in CountLabels
        /\ pc[t] \in SleepLabels <=> pc'[t] \in SleepLabels
        /\ pc[t] \in CountLabels => mon'[t] = mon[t]
        /\ pc[t] \in SleepLabels => mon'[t] = mon[t]
    BY <1>1, Zenon DEF Uncounted
  <2>2. \A m : At(CountLabels, m)' = At(CountLabels, m)
    BY <1>1, <2>1, Stays, Zenon
  <2>3. \A m : At(SleepLabels, m)' = At(SleepLabels, m)
    BY <1>1, <2>1, Stays, Zenon
  <2> QED BY <1>0, <1>g, <2>1, <2>2, <2>3, Zenon
<1>2. ASSUME NEW t \in Threads, OthersKeep(t), monitor_enter_block(t) PROVE CountInv'
  <2>0. PICK l \in Monitors : l = mon[t]
    <3>1. pc[t] \in MonLabels
      BY <1>2 DEF monitor_enter_block, MonLabels, Ops
    <3> QED BY <3>1, OnMonitor, Zenon
  <2>1. pc[t] = "enter" /\ count' = Set(count, l, count[l] + 1) /\ waiters' = waiters
    BY <1>2, <2>0, Zenon DEF monitor_enter_block
  <2>2. pc'[t] = "blocked" /\ mon'[t] = l
    BY <1>2, <2>0, SetAt, Zenon DEF monitor_enter_block, Goto, locals
  <2>3. pc[t] \notin CountLabels /\ pc'[t] \in CountLabels /\ pc[t] \notin SleepLabels /\ pc'[t] \notin SleepLabels
    BY <2>1, <2>2 DEF CountLabels, SleepLabels
  <2>4. Joined(CountLabels, t, l)
    BY <1>2, <2>0, <2>2, <2>3, Joins, Zenon
  <2>5. \A m : At(SleepLabels, m)' = At(SleepLabels, m)
    BY <1>2, <2>3, Stays, Zenon
  <2>6. Cardinality(At(CountLabels, l)') = Cardinality(At(CountLabels, l)) + 1
    BY <1>c, <1>f, <2>4, Zenon DEF Joined
  <2>7. count'[l] = count[l] + 1 /\ \A m \in Monitors \ {l} : count'[m] = count[m]
    BY <1>0, <2>1 DEF Set
  <2>8. count'[l] = Cardinality(At(CountLabels, l)') /\ \A m \in Monitors \ {l} : count'[m] = Cardinality(At(CountLabels, m)')
    BY <1>0, <2>4, <2>6, <2>7, Zenon DEF Joined
  <2>9. \A m \in Monitors : waiters'[m] = Cardinality(At(SleepLabels, m)')
    BY <1>0, <2>1, <2>5, Zenon
  <2> QED BY <1>g, <2>8, <2>9, Zenon
<1>3. ASSUME NEW t \in Threads, OthersKeep(t), monitor_enter_done(t) PROVE CountInv'
  <2>0. PICK l \in Monitors : l = mon[t]
    <3>1. pc[t] \in MonLabels
      BY <1>3 DEF monitor_enter_done, MonLabels, CountLabels
    <3> QED BY <3>1, OnMonitor, Zenon
  <2>1. pc[t] = "enter_done" /\ count' = Set(count, l, count[l] - 1) /\ waiters' = waiters
    BY <1>3, <2>0, Zenon DEF monitor_enter_done
  <2>2. pc'[t] = "java"
    BY <1>3, <2>0, SetAt, Zenon DEF monitor_enter_done, Goto, Back
  <2>3. pc[t] \in CountLabels /\ pc'[t] \notin CountLabels /\ pc[t] \notin SleepLabels /\ pc'[t] \notin SleepLabels
    BY <2>1, <2>2 DEF CountLabels, SleepLabels
  <2>4. Left(CountLabels, t, l)
    BY <1>3, <2>0, <2>2, <2>3, Leaves, Zenon
  <2>5. \A m : At(SleepLabels, m)' = At(SleepLabels, m)
    BY <1>3, <2>3, Stays, Zenon
  <2>6. Cardinality(At(CountLabels, l)') = Cardinality(At(CountLabels, l)) - 1
    BY <1>c, <1>f, <2>4, Zenon DEF Left
  <2>7. count'[l] = count[l] - 1 /\ \A m \in Monitors \ {l} : count'[m] = count[m]
    BY <1>0, <2>1 DEF Set
  <2>8. count'[l] = Cardinality(At(CountLabels, l)') /\ \A m \in Monitors \ {l} : count'[m] = Cardinality(At(CountLabels, m)')
    BY <1>0, <2>4, <2>6, <2>7, Zenon DEF Left
  <2>9. \A m \in Monitors : waiters'[m] = Cardinality(At(SleepLabels, m)')
    BY <1>0, <2>1, <2>5, Zenon
  <2> QED BY <1>g, <2>8, <2>9, Zenon
<1>4. ASSUME NEW t \in Threads, OthersKeep(t), monitor_wait(t) PROVE CountInv'
  <2>0. PICK l \in Monitors : l = mon[t]
    <3>1. pc[t] \in MonLabels
      BY <1>4 DEF monitor_wait, MonLabels, Ops
    <3> QED BY <3>1, OnMonitor, Zenon
  <2>1. pc[t] = "wait" /\ waiters' = Set(waiters, l, waiters[l] + 1) /\ count' = count
    BY <1>4, <2>0, Zenon DEF monitor_wait
  <2>2. pc'[t] = "waiting" /\ mon'[t] = l
    BY <1>4, <2>0, SetAt, Zenon DEF monitor_wait, Goto
  <2>3. pc[t] \notin SleepLabels /\ pc'[t] \in SleepLabels /\ pc[t] \notin CountLabels /\ pc'[t] \notin CountLabels
    BY <2>1, <2>2 DEF CountLabels, SleepLabels
  <2>4. Joined(SleepLabels, t, l)
    BY <1>4, <2>0, <2>2, <2>3, Joins, Zenon
  <2>5. \A m : At(CountLabels, m)' = At(CountLabels, m)
    BY <1>4, <2>3, Stays, Zenon
  <2>6. Cardinality(At(SleepLabels, l)') = Cardinality(At(SleepLabels, l)) + 1
    BY <1>c, <1>f, <2>4, Zenon DEF Joined
  <2>7. waiters'[l] = waiters[l] + 1 /\ \A m \in Monitors \ {l} : waiters'[m] = waiters[m]
    BY <1>0, <2>1 DEF Set
  <2>8. waiters'[l] = Cardinality(At(SleepLabels, l)') /\ \A m \in Monitors \ {l} : waiters'[m] = Cardinality(At(SleepLabels, m)')
    BY <1>0, <2>4, <2>6, <2>7, Zenon DEF Joined
  <2>9. \A m \in Monitors : count'[m] = Cardinality(At(CountLabels, m)')
    BY <1>0, <2>1, <2>5, Zenon
  <2> QED BY <1>g, <2>8, <2>9, Zenon
<1>5. ASSUME NEW t \in Threads, OthersKeep(t), monitor_wait_done(t) PROVE CountInv'
  <2>0. PICK l \in Monitors : l = mon[t]
    <3>1. pc[t] \in MonLabels
      BY <1>5 DEF monitor_wait_done, MonLabels, SleepLabels
    <3> QED BY <3>1, OnMonitor, Zenon
  <2>1. pc[t] = "wait_done" /\ waiters' = Set(waiters, l, waiters[l] - 1) /\ count' = count
    BY <1>5, <2>0, Zenon DEF monitor_wait_done
  <2>2. pc'[t] = "java"
    BY <1>5, <2>0, SetAt, Zenon DEF monitor_wait_done, Goto, Back
  <2>3. pc[t] \in SleepLabels /\ pc'[t] \notin SleepLabels /\ pc[t] \notin CountLabels /\ pc'[t] \notin CountLabels
    BY <2>1, <2>2 DEF CountLabels, SleepLabels
  <2>4. Left(SleepLabels, t, l)
    BY <1>5, <2>0, <2>2, <2>3, Leaves, Zenon
  <2>5. \A m : At(CountLabels, m)' = At(CountLabels, m)
    BY <1>5, <2>3, Stays, Zenon
  <2>6. Cardinality(At(SleepLabels, l)') = Cardinality(At(SleepLabels, l)) - 1
    BY <1>c, <1>f, <2>4, Zenon DEF Left
  <2>7. waiters'[l] = waiters[l] - 1 /\ \A m \in Monitors \ {l} : waiters'[m] = waiters[m]
    BY <1>0, <2>1 DEF Set
  <2>8. waiters'[l] = Cardinality(At(SleepLabels, l)') /\ \A m \in Monitors \ {l} : waiters'[m] = Cardinality(At(SleepLabels, m)')
    BY <1>0, <2>4, <2>6, <2>7, Zenon DEF Left
  <2>9. \A m \in Monitors : count'[m] = Cardinality(At(CountLabels, m)')
    BY <1>0, <2>1, <2>5, Zenon
  <2> QED BY <1>g, <2>8, <2>9, Zenon
<1>6. ASSUME NEW m \in Monitors, Deflated(m) PROVE CountInv'
  <2>1. UNCHANGED <<count, waiters, pc, mon>>
    BY <1>6, Zenon DEF Deflated, locals
  <2>2. \A L, l : At(L, l)' = At(L, l)
    BY <2>1, Zenon DEF At
  <2> QED BY <1>0, <1>g, <2>1, <2>2, Zenon
<1> QED BY <1>1, <1>2, <1>3, <1>4, <1>5, <1>6, Next1, CountSteps, Zenon DEF CountStep

\* What PoolInv says, one fact at a time.
LEMMA PoolFacts ==
    ASSUME IInv
    PROVE  /\ \A m \in Monitors :
                 /\ m \in UNION gBlockList <=> Pooled(m) \/ InUse(m)
                 /\ ~ (Pooled(m) /\ InUse(m))
                 /\ MonitorInUseLists => (Listed(m) <=> InUse(m))
           /\ \A t \in Threads : hand[t] \in Monitors =>
                 /\ mark # Inflated(hand[t])
                 /\ MonitorInUseLists => hand[t] \notin gOmInUseList
           /\ \A t, u \in Threads : t # u =>
                 /\ omFreeList[t] \cap omFreeList[u] = {}
                 /\ hand[t] \in Monitors => hand[t] # hand[u]
                 /\ hand[t] \in Monitors /\ MonitorInUseLists => hand[t] \notin omInUseList[u]
           /\ \A t \in Threads : omFreeList[t] \cap gFreeList = {}
BY Zenon DEF IInv, PoolInv

\* A step that sets one thread's omFreeList leaves the others alone.
LEMMA SetFree ==
    ASSUME IInv, NEW t \in Threads, NEW v, omFreeList' = Set(omFreeList, t, v)
    PROVE  omFreeList'[t] = v /\ \A u \in Threads \ {t} : omFreeList'[u] = omFreeList[u]
BY TypesHold DEF ListType, Set

\* A step that sets one thread's omInUseList leaves the others alone.
LEMMA SetInUse ==
    ASSUME IInv, NEW t \in Threads, NEW v, omInUseList' = Set(omInUseList, t, v)
    PROVE  omInUseList'[t] = v /\ \A u \in Threads \ {t} : omInUseList'[u] = omInUseList[u]
BY TypesHold DEF ListType, Set

\* A step that sets one thread's monitor in hand leaves the others alone.
LEMMA SetHand ==
    ASSUME IInv, NEW t \in Threads, NEW v, hand' = Set(hand, t, v)
    PROVE  hand'[t] = v /\ \A u \in Threads \ {t} : hand'[u] = hand[u]
BY TypesHold DEF ThreadType, Set

\* The monitor goes from the pool to a hand, or the other way.
Taken(m) ==
    \A l \in Monitors : /\ Pooled(l)' <=> Pooled(l) /\ l # m
                        /\ InUse(l)' <=> InUse(l) \/ l = m
                        /\ MonitorInUseLists => (Listed(l)' <=> Listed(l) \/ l = m)

Given(m) ==
    \A l \in Monitors : /\ Pooled(l)' <=> Pooled(l) \/ l = m
                        /\ InUse(l)' <=> InUse(l) /\ l # m
                        /\ MonitorInUseLists => (Listed(l)' <=> Listed(l) /\ l # m)

Same == \A l \in Monitors : /\ Pooled(l)' <=> Pooled(l)
                            /\ InUse(l)' <=> InUse(l)
                            /\ MonitorInUseLists => (Listed(l)' <=> Listed(l))

\* Every monitor of a block is accounted for after the step.
Accounted ==
    \A m \in Monitors : /\ m \in UNION gBlockList <=> Pooled(m) \/ InUse(m)
                        /\ ~ (Pooled(m) /\ InUse(m))
                        /\ MonitorInUseLists => (Listed(m) <=> InUse(m))

\* A monitor stays accounted for when one is taken from the free ones or given back.
LEMMA AccountedNext ==
    ASSUME IInv, UNCHANGED <<gBlockList, MonitorInUseLists>>,
           \/ Same
           \/ \E m \in Monitors : Pooled(m) /\ Taken(m)
           \/ \E m \in Monitors : InUse(m) /\ Given(m)
    PROVE  Accounted'
<1>0. Accounted
  BY PoolFacts, Zenon DEF Accounted
<1>1. CASE Same
  BY <1>0, <1>1, Zenon DEF Accounted, Same
<1>2. ASSUME NEW m \in Monitors, Pooled(m), Taken(m) PROVE Accounted'
  BY <1>0, <1>2, Zenon DEF Accounted, Taken
<1>3. ASSUME NEW m \in Monitors, InUse(m), Given(m) PROVE Accounted'
  BY <1>0, <1>3, Zenon DEF Accounted, Given
<1> QED BY <1>1, <1>2, <1>3, Zenon

\* The monitors in the threads' hands and on their lists are different ones.
Handy == \A t \in Threads : hand[t] \in Monitors =>
            mark # Inflated(hand[t]) /\ (MonitorInUseLists => hand[t] \notin gOmInUseList)
Apart == \A t, u \in Threads : t # u =>
            /\ omFreeList[t] \cap omFreeList[u] = {}
            /\ hand[t] \in Monitors => hand[t] # hand[u]
            /\ hand[t] \in Monitors /\ MonitorInUseLists => hand[t] \notin omInUseList[u]
Global == \A t \in Threads : omFreeList[t] \cap gFreeList = {}

\* PoolInv, in four parts.
LEMMA PoolParts ==
    /\ PoolInv <=> Accounted /\ Handy /\ Apart /\ Global
    /\ PoolInv' <=> Accounted' /\ Handy' /\ Apart' /\ Global'
BY Zenon DEF PoolInv, Accounted, Handy, Apart, Global

\* omAlloc() from the private list (synchronizer.cpp:967-982).
LEMMA omAllocPool == ASSUME IInv, NEW t \in Threads, omAlloc(t) PROVE PoolInv'
<1>0. Handy /\ Apart /\ Global /\ Accounted
  BY PoolParts, Zenon DEF IInv
<1>1. PICK m \in omFreeList[t] : m = First(omFreeList[t])
  BY DEF omAlloc, First
<1>2. /\ omFreeList' = Set(omFreeList, t, omFreeList[t] \ {m})
      /\ hand' = Set(hand, t, m) /\ pc[t] = "alloc"
      /\ UNCHANGED <<mark, gBlockList, gFreeList, gOmInUseList, MonitorInUseLists>>
  BY <1>1, Zenon DEF omAlloc
<1>3. /\ MonitorInUseLists => omInUseList' = Set(omInUseList, t, omInUseList[t] \cup {m})
      /\ ~ MonitorInUseLists => omInUseList' = omInUseList
  BY <1>1, Zenon DEF omAlloc
<1>4. m \in Monitors /\ hand[t] = NULL
  BY <1>1, <1>2, TypesHold, NoMonitor, Zenon DEF ListType, HandLabels, PrivateLabels
<1>5. Pooled(m)
  BY <1>1, Zenon DEF Pooled
<1>6. ~ InUse(m) /\ (MonitorInUseLists => ~ Listed(m))
  BY <1>0, <1>4, <1>5, Zenon DEF Accounted
<1>7. m \notin gFreeList /\ \A u \in Threads \ {t} : m \notin omFreeList[u]
  BY <1>0, <1>1 DEF Global, Apart
<1>8. /\ omFreeList'[t] = omFreeList[t] \ {m} /\ hand'[t] = m
      /\ \A u \in Threads \ {t} : omFreeList'[u] = omFreeList[u] /\ hand'[u] = hand[u]
  <2>1. omFreeList'[t] = omFreeList[t] \ {m} /\ \A u \in Threads \ {t} : omFreeList'[u] = omFreeList[u]
    BY <1>2, SetFree, Zenon
  <2>2. hand'[t] = m /\ \A u \in Threads \ {t} : hand'[u] = hand[u]
    BY <1>2, SetHand, Zenon
  <2> QED BY <2>1, <2>2, Zenon
<1>9. MonitorInUseLists => /\ omInUseList'[t] = omInUseList[t] \cup {m}
                           /\ \A u \in Threads \ {t} : omInUseList'[u] = omInUseList[u]
  BY <1>3, SetInUse, Zenon
<1>10. \A l \in Monitors : Pooled(l)' <=> Pooled(l) /\ l # m
  BY <1>1, <1>2, <1>7, <1>8 DEF Pooled
<1>11. \A l \in Monitors : InUse(l)' <=> InUse(l) \/ l = m
  BY <1>2, <1>4, <1>8, NullFacts, Zenon DEF InUse
<1>12. \A l \in Monitors : MonitorInUseLists => (Listed(l)' <=> Listed(l) \/ l = m)
  BY <1>2, <1>9 DEF Listed
<1>13. Accounted'
  <2>1. Taken(m)
    BY <1>10, <1>11, <1>12, Zenon DEF Taken
  <2> QED BY <1>2, <1>4, <1>5, <2>1, AccountedNext, Zenon
<1>14. Handy'
  <2>1. mark # Inflated(m) /\ (MonitorInUseLists => m \notin gOmInUseList)
    BY <1>6, Zenon DEF InUse, Listed
  <2> QED BY <1>0, <1>2, <1>8, <2>1, Zenon DEF Handy
<1>15. Apart'
  <2>1. \A u \in Threads : hand[u] # m /\ (MonitorInUseLists => m \notin omInUseList[u])
    BY <1>6, Zenon DEF InUse, Listed
  <2>2. ASSUME NEW u \in Threads, NEW v \in Threads, u # v
        PROVE  omFreeList'[u] \cap omFreeList'[v] = {}
    <3>1. omFreeList'[u] \subseteq omFreeList[u] /\ omFreeList'[v] \subseteq omFreeList[v]
      BY <1>8
    <3> QED BY <1>0, <2>2, <3>1, Zenon DEF Apart
  <2>3. ASSUME NEW u \in Threads, NEW v \in Threads, u # v, hand'[u] \in Monitors
        PROVE  hand'[u] # hand'[v]
    <3>1. u # t /\ v # t => hand[u] # hand[v]
      BY <1>0, <1>8, <2>3, Zenon DEF Apart
    <3> QED BY <1>8, <2>1, <2>3, <3>1, Zenon
  <2>4. ASSUME NEW u \in Threads, NEW v \in Threads, u # v, hand'[u] \in Monitors, MonitorInUseLists
        PROVE  hand'[u] \notin omInUseList'[v]
    <3>1. hand'[u] \notin omInUseList[v]
      BY <1>0, <1>8, <2>1, <2>4, Zenon DEF Apart
    <3>2. v = t => hand'[u] # m
      BY <1>8, <2>1, <2>4, Zenon
    <3> QED BY <1>9, <2>4, <3>1, <3>2, Zenon
  <2> QED BY <1>2, <2>2, <2>3, <2>4, Zenon DEF Apart
<1>16. Global'
  <2>1. ASSUME NEW u \in Threads PROVE omFreeList'[u] \subseteq omFreeList[u]
    BY <1>8
  <2> QED BY <1>0, <1>2, <2>1, Zenon DEF Global
<1> QED BY <1>13, <1>14, <1>15, <1>16, PoolParts, Zenon

\* omAlloc() reprovisions the private list.
LEMMA ReprovisionPool == ASSUME IInv, NEW t \in Threads, omAlloc_reprovision(t) PROVE PoolInv'
<1>0. Handy /\ Apart /\ Global /\ Accounted
  BY PoolParts, Zenon DEF IInv
<1>1. PICK take \in SUBSET gFreeList : take = Take(gFreeList, Provision)
  BY Reprovision, Zenon
<1>2. /\ omFreeList' = Set(omFreeList, t, omFreeList[t] \cup take) /\ gFreeList' = gFreeList \ take
      /\ UNCHANGED <<mark, gBlockList, gOmInUseList, omInUseList, MonitorInUseLists, hand>>
  BY <1>1, Zenon DEF omAlloc_reprovision, locals
<1>3. /\ omFreeList'[t] = omFreeList[t] \cup take
      /\ \A u \in Threads \ {t} : omFreeList'[u] = omFreeList[u]
  BY <1>2, SetFree, Zenon
<1>4. \A l \in Monitors : Pooled(l)' <=> Pooled(l)
  BY <1>1, <1>2, <1>3, Zenon DEF Pooled
<1>5. \A l \in Monitors : (InUse(l)' <=> InUse(l)) /\ (Listed(l)' <=> Listed(l))
  BY <1>2, Zenon DEF InUse, Listed
<1>6. Accounted'
  BY <1>2, <1>4, <1>5, AccountedNext, Zenon DEF Same
<1>7. Handy'
  BY <1>0, <1>2, Zenon DEF Handy
<1>8. Apart'
  <2>1. ASSUME NEW u \in Threads, NEW v \in Threads, u # v
        PROVE  omFreeList'[u] \cap omFreeList'[v] = {}
    <3>1. omFreeList[u] \cap omFreeList[v] = {} /\ omFreeList[u] \cap gFreeList = {} /\ omFreeList[v] \cap gFreeList = {}
      BY <1>0, <2>1, Zenon DEF Apart, Global
    <3> QED BY <1>1, <1>3, <2>1, <3>1
  <2> QED BY <1>0, <1>2, <2>1, Zenon DEF Apart
<1>9. Global'
  <2>1. ASSUME NEW u \in Threads PROVE omFreeList'[u] \cap gFreeList' = {}
    BY <1>0, <1>1, <1>2, <1>3, Zenon DEF Global
  <2> QED BY <2>1, Zenon DEF Global
<1> QED BY <1>6, <1>7, <1>8, <1>9, PoolParts, Zenon

\* omAlloc() puts a new block on the global list.
LEMMA NewBlockPool == ASSUME IInv, NEW t \in Threads, omAlloc_new_block(t) PROVE PoolInv'
<1>0. Handy /\ Apart /\ Global /\ Accounted
  BY PoolParts, Zenon DEF IInv
<1>1. PICK B \in Blocks \ gBlockList : B = First(Blocks \ gBlockList)
  BY NewBlock, Zenon DEF omAlloc_new_block
<1>2. /\ gBlockList' = gBlockList \cup {B} /\ gFreeList' = gFreeList \cup B
      /\ UNCHANGED <<mark, gOmInUseList, omFreeList, omInUseList, MonitorInUseLists, hand>>
  BY <1>1, Zenon DEF omAlloc_new_block, locals
<1>3. \A m \in B : m \in Monitors /\ m \notin UNION gBlockList
  BY <1>1, SynchronizerAssumption, TypesHold DEF ListType, Monitors
<1>4. \A m \in B : ~ Pooled(m) /\ ~ InUse(m)
  BY <1>0, <1>3, Zenon DEF Accounted
<1>5. \A l \in Monitors : Pooled(l)' <=> Pooled(l) \/ l \in B
  BY <1>2, Zenon DEF Pooled
<1>6. \A l \in Monitors : (InUse(l)' <=> InUse(l)) /\ (Listed(l)' <=> Listed(l))
  BY <1>2, Zenon DEF InUse, Listed
<1>7. \A l : l \in UNION gBlockList' <=> l \in UNION gBlockList \/ l \in B
  BY <1>2
<1>8. Accounted'
  BY <1>0, <1>2, <1>4, <1>5, <1>6, <1>7, Zenon DEF Accounted
<1>9. Handy' /\ Apart'
  BY <1>0, <1>2, Zenon DEF Handy, Apart
<1>10. Global'
  <2>1. \A u \in Threads : \A m \in B : m \notin omFreeList[u]
    BY <1>4, Zenon DEF Pooled
  <2> QED BY <1>0, <1>2, <2>1 DEF Global
<1> QED BY <1>8, <1>9, <1>10, PoolParts, Zenon

\* A lost race of inflate() gives its monitor back by omRelease()
\* (synchronizer.cpp:1084-1112).
LEMMA RetryPool == ASSUME IInv, NEW t \in Threads, inflate_retry(t) PROVE PoolInv'
<1>0. Handy /\ Apart /\ Global /\ Accounted
  BY PoolParts, Zenon DEF IInv
<1>1. PICK m \in Monitors : m = hand[t]
  BY TypesHold DEF inflate_retry, LocalInv, Local, HandLabels
<1>2. /\ omFreeList' = Set(omFreeList, t, omFreeList[t] \cup {m})
      /\ omInUseList' = Set(omInUseList, t, omInUseList[t] \ {m})
      /\ hand' = Set(hand, t, NULL)
      /\ UNCHANGED <<mark, gBlockList, gFreeList, gOmInUseList, MonitorInUseLists>>
  BY <1>1, Zenon DEF inflate_retry
<1>3. /\ omFreeList'[t] = omFreeList[t] \cup {m} /\ omInUseList'[t] = omInUseList[t] \ {m} /\ hand'[t] = NULL
      /\ \A u \in Threads \ {t} : /\ omFreeList'[u] = omFreeList[u] /\ hand'[u] = hand[u]
                                  /\ omInUseList'[u] = omInUseList[u]
  <2>1. omFreeList'[t] = omFreeList[t] \cup {m} /\ \A u \in Threads \ {t} : omFreeList'[u] = omFreeList[u]
    BY <1>2, SetFree, Zenon
  <2>2. omInUseList'[t] = omInUseList[t] \ {m} /\ \A u \in Threads \ {t} : omInUseList'[u] = omInUseList[u]
    BY <1>2, SetInUse, Zenon
  <2>3. hand'[t] = NULL /\ \A u \in Threads \ {t} : hand'[u] = hand[u]
    BY <1>2, SetHand, Zenon
  <2> QED BY <2>1, <2>2, <2>3, Zenon
<1>4. /\ mark # Inflated(m) /\ \A u \in Threads \ {t} : hand[u] # m
      /\ MonitorInUseLists =>
            m \notin gOmInUseList /\ \A u \in Threads \ {t} : m \notin omInUseList[u]
  BY <1>0, <1>1, Zenon DEF Handy, Apart
<1>5. InUse(m)
  BY <1>1, Zenon DEF InUse
<1>6. ~ Pooled(m)
  BY <1>0, <1>5, Zenon DEF Accounted
<1>7. \A l \in Monitors : Pooled(l)' <=> Pooled(l) \/ l = m
  BY <1>2, <1>3, Zenon DEF Pooled
<1>8. \A l \in Monitors : InUse(l)' <=> InUse(l) /\ l # m
  BY <1>1, <1>2, <1>3, <1>4, NullFacts, Zenon DEF InUse
<1>9. \A l \in Monitors : MonitorInUseLists => (Listed(l)' <=> Listed(l) /\ l # m)
  BY <1>2, <1>3, <1>4, Zenon DEF Listed
<1>10. Accounted'
  <2>1. Given(m)
    BY <1>7, <1>8, <1>9, Zenon DEF Given
  <2> QED BY <1>2, <1>5, <2>1, AccountedNext, Zenon
<1>11. Handy'
  BY <1>0, <1>2, <1>3, NullFacts, Zenon DEF Handy
<1>12. Apart'
  <2>1. m \notin gFreeList /\ \A u \in Threads : m \notin omFreeList[u]
    BY <1>6, Zenon DEF Pooled
  <2>2. ASSUME NEW u \in Threads, NEW v \in Threads, u # v
        PROVE  omFreeList'[u] \cap omFreeList'[v] = {}
    <3>1. omFreeList[u] \cap omFreeList[v] = {}
      BY <1>0, <2>2, Zenon DEF Apart
    <3> QED BY <1>3, <2>1, <2>2, <3>1
  <2>3. ASSUME NEW u \in Threads, NEW v \in Threads, u # v, hand'[u] \in Monitors
        PROVE  hand'[u] # hand'[v]
    <3>1. u # t /\ hand'[u] = hand[u]
      BY <1>3, <2>3, NullFacts, Zenon
    <3>2. hand[u] # hand[v]
      BY <1>0, <2>3, <3>1, Zenon DEF Apart
    <3> QED BY <1>3, <2>3, <3>1, <3>2, NullFacts, Zenon
  <2>4. ASSUME NEW u \in Threads, NEW v \in Threads, u # v, hand'[u] \in Monitors, MonitorInUseLists
        PROVE  hand'[u] \notin omInUseList'[v]
    <3>1. hand'[u] \notin omInUseList[v]
      BY <1>0, <1>3, <2>4, NullFacts, Zenon DEF Apart
    <3> QED BY <1>3, <2>4, <3>1
  <2> QED BY <1>2, <2>2, <2>3, <2>4, Zenon DEF Apart
<1>13. Global'
  <2>1. m \notin gFreeList
    BY <1>6, Zenon DEF Pooled
  <2>2. ASSUME NEW u \in Threads PROVE omFreeList'[u] \cap gFreeList' = {}
    <3>1. omFreeList[u] \cap gFreeList = {}
      BY <1>0, Zenon DEF Global
    <3> QED BY <1>2, <1>3, <2>1, <3>1, Zenon
  <2> QED BY <2>2, Zenon DEF Global
<1> QED BY <1>10, <1>11, <1>12, <1>13, PoolParts, Zenon

\* omFlush() moves a dying thread's lists to the global ones (synchronizer.cpp:1134-1183).
LEMMA FlushPool == ASSUME IInv, NEW t \in Threads, omFlush(t) PROVE PoolInv'
<1>0. Handy /\ Apart /\ Global /\ Accounted
  BY PoolParts, Zenon DEF IInv
<1>1. /\ gFreeList' = gFreeList \cup omFreeList[t] /\ gOmInUseList' = gOmInUseList \cup omInUseList[t]
      /\ omFreeList' = Set(omFreeList, t, {}) /\ omInUseList' = Set(omInUseList, t, {})
      /\ UNCHANGED <<mark, gBlockList, MonitorInUseLists, hand>> /\ pc[t] = "flush"
  BY Zenon DEF omFlush, locals
<1>2. hand[t] = NULL
  BY <1>1, NoMonitor DEF HandLabels, PrivateLabels
<1>3. /\ omFreeList'[t] = {} /\ omInUseList'[t] = {}
      /\ \A u \in Threads \ {t} : omFreeList'[u] = omFreeList[u] /\ omInUseList'[u] = omInUseList[u]
  <2>1. omFreeList'[t] = {} /\ \A u \in Threads \ {t} : omFreeList'[u] = omFreeList[u]
    BY <1>1, SetFree, Zenon
  <2>2. omInUseList'[t] = {} /\ \A u \in Threads \ {t} : omInUseList'[u] = omInUseList[u]
    BY <1>1, SetInUse, Zenon
  <2> QED BY <2>1, <2>2, Zenon
<1>4. \A l \in Monitors : Pooled(l)' <=> Pooled(l)
  BY <1>1, <1>3, Zenon DEF Pooled
<1>5. \A l \in Monitors : Listed(l)' <=> Listed(l)
  BY <1>1, <1>3 DEF Listed
<1>6. \A l \in Monitors : InUse(l)' <=> InUse(l)
  BY <1>1, Zenon DEF InUse
<1>7. Accounted'
  BY <1>1, <1>4, <1>5, <1>6, AccountedNext, Zenon DEF Same
<1>8. Handy'
  <2>1. ASSUME NEW u \in Threads, hand'[u] \in Monitors
        PROVE  mark' # Inflated(hand'[u]) /\ (MonitorInUseLists' => hand'[u] \notin gOmInUseList')
    <3>1. u # t /\ hand'[u] = hand[u]
      BY <1>1, <1>2, <2>1, NullFacts, Zenon
    <3>2. mark # Inflated(hand[u]) /\ (MonitorInUseLists => hand[u] \notin gOmInUseList /\ hand[u] \notin omInUseList[t])
      BY <1>0, <2>1, <3>1, Zenon DEF Handy, Apart
    <3> QED BY <1>1, <3>1, <3>2
  <2> QED BY <2>1, Zenon DEF Handy
<1>9. Apart'
  <2>1. ASSUME NEW u \in Threads
        PROVE  omFreeList'[u] \subseteq omFreeList[u] /\ omInUseList'[u] \subseteq omInUseList[u]
    BY <1>3
  <2>2. ASSUME NEW u \in Threads, NEW v \in Threads, u # v
        PROVE  omFreeList'[u] \cap omFreeList'[v] = {}
    BY <1>0, <2>1, <2>2 DEF Apart
  <2> QED BY <1>0, <1>1, <2>1, <2>2, Zenon DEF Apart
<1>10. Global'
  <2>1. ASSUME NEW u \in Threads PROVE omFreeList'[u] \cap gFreeList' = {}
    <3>1. u # t => omFreeList[u] \cap omFreeList[t] = {} /\ omFreeList[u] \cap gFreeList = {}
      BY <1>0, Zenon DEF Apart, Global
    <3> QED BY <1>1, <1>3, <3>1
  <2> QED BY <2>1, Zenon DEF Global
<1> QED BY <1>7, <1>8, <1>9, <1>10, PoolParts, Zenon

\* Deflation puts the monitor on the global free list.
LEMMA DeflatePool == ASSUME IInv, NEW m \in Monitors, Deflated(m) PROVE PoolInv'
<1>0. Handy /\ Apart /\ Global /\ Accounted
  BY PoolParts, Zenon DEF IInv
<1>1. /\ mark = Inflated(m) /\ mark' \in Headers
      /\ gFreeList' = gFreeList \cup {m} /\ gOmInUseList' = gOmInUseList \ {m}
      /\ omInUseList' = [t \in Threads |-> omInUseList[t] \ {m}]
      /\ UNCHANGED <<gBlockList, omFreeList, MonitorInUseLists, hand>>
  BY Zenon DEF Deflated, locals
<1>2. (\A l : mark' # Inflated(l)) /\ \A l : mark = Inflated(l) => l = m
  BY <1>1, MarkKinds, MarkInjective, Zenon
<1>3. \A t \in Threads : hand[t] # m
  BY <1>0, <1>1, Zenon DEF Handy
<1>4. \A t \in Threads : omInUseList'[t] = omInUseList[t] \ {m}
  BY <1>1
<1>5. InUse(m)
  BY <1>1, Zenon DEF InUse
<1>6. ~ Pooled(m)
  BY <1>0, <1>5, Zenon DEF Accounted
<1>7. \A l \in Monitors : Pooled(l)' <=> Pooled(l) \/ l = m
  BY <1>1 DEF Pooled
<1>8. \A l \in Monitors : InUse(l)' <=> InUse(l) /\ l # m
  BY <1>1, <1>2, <1>3, Zenon DEF InUse
<1>9. \A l \in Monitors : Listed(l)' <=> Listed(l) /\ l # m
  BY <1>1, <1>4 DEF Listed
<1>10. Accounted'
  <2>1. Given(m)
    BY <1>7, <1>8, <1>9, Zenon DEF Given
  <2> QED BY <1>1, <1>5, <2>1, AccountedNext, Zenon
<1>11. Handy'
  BY <1>0, <1>1, <1>2 DEF Handy
<1>12. Apart'
  <2>1. \A t \in Threads : \A l : l \in omInUseList'[t] => l \in omInUseList[t]
    BY <1>4, Zenon
  <2> QED BY <1>0, <1>1, <2>1, Zenon DEF Apart
<1>13. Global'
  <2>1. \A t \in Threads : m \notin omFreeList[t]
    BY <1>6, Zenon DEF Pooled
  <2> QED BY <1>0, <1>1, <2>1 DEF Global
<1> QED BY <1>10, <1>11, <1>12, <1>13, PoolParts, Zenon

\* A step that moves no monitor, or publishes the one in its hand.
LEMMA UnmovedPool == ASSUME IInv, NEW t \in Threads, Unmoved(t) PROVE PoolInv'
<1>0. Handy /\ Apart /\ Global /\ Accounted
  BY PoolParts, Zenon DEF IInv
<1>1. UNCHANGED <<gBlockList, gFreeList, gOmInUseList, omFreeList, omInUseList, MonitorInUseLists>>
  BY Zenon DEF Unmoved, lists
<1>2. \A l \in Monitors : (Pooled(l)' <=> Pooled(l)) /\ (Listed(l)' <=> Listed(l))
  BY <1>1, Zenon DEF Pooled, Listed
<1>3. Global'
  BY <1>0, <1>1, Zenon DEF Global
<1>4. ASSUME UNCHANGED hand, \A m : mark' = Inflated(m) <=> mark = Inflated(m) PROVE PoolInv'
  <2>1. \A l \in Monitors : InUse(l)' <=> InUse(l)
    BY <1>4, Zenon DEF InUse
  <2>2. Accounted'
    BY <1>1, <1>2, <2>1, AccountedNext, Zenon DEF Same
  <2>3. Handy' /\ Apart'
    BY <1>0, <1>1, <1>4, Zenon DEF Handy, Apart
  <2> QED BY <1>3, <2>2, <2>3, PoolParts, Zenon
<1>5. ASSUME \A m : mark # Inflated(m), hand[t] \in Monitors, hand' = Set(hand, t, NULL),
             mark' = Inflated(hand[t])
      PROVE  PoolInv'
  <2>0. hand'[t] = NULL /\ \A u \in Threads \ {t} : hand'[u] = hand[u]
    BY <1>5, SetHand, Zenon
  <2>1. \A l : mark' = Inflated(l) <=> l = hand[t]
    BY <1>5, MarkInjective, Zenon
  <2>2. \A u \in Threads \ {t} : hand[u] # hand[t]
    BY <1>0, <1>5, Zenon DEF Apart
  <2>3. \A l \in Monitors : InUse(l)' <=> InUse(l)
    BY <1>5, <2>0, <2>1, NullFacts, Zenon DEF InUse
  <2>4. Accounted'
    BY <1>1, <1>2, <2>3, AccountedNext, Zenon DEF Same
  <2>5. Handy'
    BY <1>0, <1>1, <2>0, <2>1, <2>2, NullFacts, Zenon DEF Handy
  <2>6. Apart'
    BY <1>0, <1>1, <2>0, NullFacts, Zenon DEF Apart
  <2> QED BY <1>3, <2>4, <2>5, <2>6, PoolParts, Zenon
<1> QED BY <1>4, <1>5, Zenon DEF Unmoved, Set

\* Every step accounts for every monitor.
LEMMA PoolNext == ASSUME IInv, Next PROVE PoolInv'
<1>1. ASSUME NEW t \in Threads, Step(t) PROVE PoolInv'
  BY <1>1, PoolSteps, UnmovedPool, omAllocPool, ReprovisionPool, NewBlockPool, RetryPool,
     FlushPool, Zenon DEF Pooling
<1> QED BY <1>1, Next1, DeflatePool, Zenon

==============================================================================
