------------------------- MODULE SynchronizerLockProofs ----------------------
(***************************************************************************)
(* The threads in the object's monitor are the ones that have the lock,    *)
(* whichever form it is in: this part of the invariant, and the ones about *)
(* INFLATING, the monitors that threads hold and the stacks of BasicLocks, *)
(* are kept by every step, and every step is one of AbstractMonitor.       *)
(***************************************************************************)
EXTENDS SynchronizerProofs

\* No monitor is the object's but the one that the mark says.
LEMMA InflatingNext == ASSUME IInv, Next PROVE InflatingInv'
<1> USE DEF InflatingInv
<1>1. ASSUME NEW m \in Monitors, Deflated(m) PROVE InflatingInv'
  BY <1>1 DEF Deflated, SafeLabels, PrivateLabels
<1>2. ASSUME NEW t \in Threads, OthersKeep(t), Quietly(t) PROVE InflatingInv'
  BY <1>2 DEF IInv, OthersKeep, Quietly, PrivateLabels
<1>3. ASSUME NEW t \in Threads, OthersKeep(t), Marked(t) PROVE InflatingInv'
  <2>0. InflatingInv
    BY DEF IInv
  <2> USE <1>3, DisplacerIs DEF OthersKeep, Alone
  <2>1. Stacked(t) \/ Unstacked(t) \/ HashedMark(t) => InflatingInv'
    BY <2>0, MarkFacts DEF Stacked, Unstacked, HashedMark, PrivateLabels, Headers
  <2>2. HashedMonitor(t) \/ Converted(t) => InflatingInv'
    BY <2>0 DEF HashedMonitor, Converted, PrivateLabels, Ops
  <2>3. ASSUME NEW w \in Threads, Seized(t, w) PROVE InflatingInv'
    BY <2>0, <2>3 DEF Seized, PrivateLabels
  <2>4. ASSUME NEW w \in Threads, Copied(t, w) PROVE InflatingInv'
    BY <2>0, <2>4, MarkKinds DEF Copied, PrivateLabels
  <2>5. ASSUME NEW w \in Threads, Published(t, w) PROVE InflatingInv'
    BY <2>0, <2>5, MarkKinds DEF Published, PrivateLabels, Ops
  <2> QED BY <1>3, <2>1, <2>2, <2>3, <2>4, <2>5 DEF Marked
<1> QED BY <1>1, <1>2, <1>3, Next1, Zenon

\* Nobody has anything to do with a monitor that is deflated.
LEMMA DeflatedIdle ==
    ASSUME IInv, CardFacts, NEW m \in Monitors, Deflated(m)
    PROVE  \A t \in Threads : pc[t] \in {"java", "flush"} /\ mon[t] = NULL /\ hand[t] = NULL
<1>1. IsFiniteSet(Counted(m)) /\ IsFiniteSet(Sleepers(m))
  BY SynchronizerAssumption DEF CardFacts, Counted, Sleepers
<1>2. Cardinality(Counted(m)) = 0 /\ Cardinality(Sleepers(m)) = 0
  BY DEF Deflated, is_busy, IInv, CountInv
<1>3. Counted(m) = {} /\ Sleepers(m) = {}
  BY <1>1, <1>2 DEF CardFacts
<1>4. ASSUME NEW t \in Threads PROVE pc[t] \in {"java", "flush"}
  BY <1>3, OnMonitor, MarkInjective
     DEF Deflated, Counted, Sleepers, SafeLabels, CountLabels, SleepLabels, MonLabels
<1> QED BY <1>4, NoMonitor DEF HandLabels, MonLabels, Ops, CountLabels, SleepLabels, PrivateLabels

\* HeldMonitorIsCurrent is kept.
LEMMA HeldNext == ASSUME IInv, CardFacts, Next PROVE HeldMonitorIsCurrent'
<1> USE DEF HeldMonitorIsCurrent
<1>1. ASSUME NEW m \in Monitors, Deflated(m) PROVE HeldMonitorIsCurrent'
  BY <1>1, DeflatedIdle, Zenon DEF Deflated, locals
<1>2. ASSUME NEW t \in Threads, OthersKeep(t), Quietly(t) PROVE HeldMonitorIsCurrent'
  BY <1>2 DEF IInv, OthersKeep, Quietly, MonKept
<1>3. ASSUME NEW t \in Threads, OthersKeep(t), Marked(t) PROVE HeldMonitorIsCurrent'
  <2>1. HashedMonitor(t) => HeldMonitorIsCurrent'
    BY <1>3, Zenon DEF IInv, OthersKeep, HashedMonitor
  <2>2. (\A u \in Threads : mon[u] = NULL) => HeldMonitorIsCurrent'
    BY <1>3, Zenon DEF OthersKeep, Marked, HashedMonitor, HashedMark, Stacked, Unstacked, Seized, Copied,
           Published, Converted
  <2>3. (\A x : mark # Inflated(x)) \/ HashedMonitor(t)
    BY <1>3, MarkFacts, MarkKinds DEF Marked, HashedMark, Stacked, Unstacked, Seized, Copied,
           Published, Converted
  <2> QED BY <2>1, <2>2, <2>3 DEF IInv
<1> QED BY <1>1, <1>2, <1>3, Next1, Zenon

\* A monitor's owner is one thread, by name or by its BasicLock.
LEMMA OneOwner ==
    /\ \A t, u \in Threads : \A x : x \in {t, Box(t)} /\ x \in {u, Box(u)} => t = u
    /\ \A t \in Threads : NULL \notin {t, Box(t)} /\ Box(t) \notin Threads
<1>1. \A t, u : Box(t) = Box(u) => t = u
  BY DEF Box
<1>2. \A t \in Threads : Box(t) # NULL /\ \A u \in Threads : Box(t) # u
  BY DistinctAssumption, Zenon
<1> QED BY <1>1, <1>2, NullFacts, Zenon

\* A thread that has not displaced the header of an object without a monitor is out.
LEMMA Bystander ==
    ASSUME IInv, NEW u \in Threads, ~ Displacer(u), \A m : mark # Inflated(m)
    PROVE  ~ In(u) /\ pc[u] \notin MonLabels /\ boxes[u] = <<>>
<1>1. pc[u] \notin MonLabels
  BY OnMonitor, Zenon
<1>2. ~ Owns(u)
  BY Zenon DEF Owns
<1>3. ~ In(u)
  BY <1>2, Zenon DEF IInv, LockInv
<1>4. pc[u] \notin {"waiting", "reenter"}
  BY <1>1 DEF MonLabels, SleepLabels
<1> QED BY <1>1, <1>3, <1>4, Zenon DEF In, Holds

\* An inflated object is locked by the monitor's owner.
LEMMA Monitored ==
    ASSUME IInv, NEW m \in Monitors, mark = Inflated(m)
    PROVE  /\ Alone
           /\ \A u \in Threads : ~ Displacer(u)
           /\ \A u \in Threads : In(u) <=> owner[m] \in {u, Box(u)}
           /\ \A u \in Threads : pc[u] \in MonLabels => mon[u] = m
           /\ owner[m] \notin Threads => recursions[m] = 0
           /\ \A u \in Threads :
                 owner[m] \in {u, Box(u)} /\ pc[u] \notin {"enter_done", "wait_done"} =>
                    Cardinality(Counting(u)) = recursions[m] + 1
           /\ recursions[m] \in Nat
<1>0. LockInv /\ InflatingInv
  BY Zenon DEF IInv
<1>1. Alone /\ \A u \in Threads : ~ Displacer(u)
  BY <1>0, DisplacerIs, Zenon
<1>2. \A l : mark = Inflated(l) => l = m
  BY MarkInjective, Zenon
<1>3. \A u \in Threads : In(u) <=> owner[m] \in {u, Box(u)}
  <2>1. \A u \in Threads : Owns(u) <=> owner[m] \in {u, Box(u)}
    BY <1>1, <1>2, Zenon DEF Owns
  <2>2. \A u \in Threads : In(u) <=> Owns(u)
    BY <1>0, Zenon DEF LockInv
  <2> QED BY <2>1, <2>2, Zenon
<1>4. \A u \in Threads : pc[u] \in MonLabels => mon[u] = m
  BY <1>2, OnMonitor, Zenon
<1>5. /\ owner[m] \notin Threads => recursions[m] = 0
      /\ \A u \in Threads :
            owner[m] \in {u, Box(u)} /\ pc[u] \notin {"enter_done", "wait_done"} =>
               Cardinality(Counting(u)) = recursions[m] + 1
  BY <1>0, Zenon DEF LockInv
<1>6. recursions[m] \in Nat
  BY TypesHold DEF MonitorType
<1> QED BY <1>1, <1>3, <1>4, <1>5, <1>6, Zenon

\* The BasicLocks that count, when one is pushed or popped.
LEMMA SameBoxes ==
    ASSUME NEW u, boxes'[u] = boxes[u]
    PROVE  /\ Counting(u)' = Counting(u) /\ (Holds(u)' <=> Holds(u))
           /\ Displaced(u)' = Displaced(u)
BY Zenon DEF Counting, Holds, Displaced

\* A thread has finitely many BasicLocks.
LEMMA CountingFinite ==
    ASSUME CardFacts, IInv, NEW t \in Threads
    PROVE  IsFiniteSet(Counting(t)) /\ Cardinality(Counting(t)) \in Nat
<1>1. boxes[t] \in Seq(Headers \cup {NULL, unused_mark})
  BY TypesHold DEF ThreadType
<1>2. Len(boxes[t]) \in Nat
  BY <1>1
<1>3. Counting(t) \in SUBSET (1 .. Len(boxes[t]))
  BY DEF Counting
<1> QED BY <1>2, <1>3, Zenon DEF CardFacts

\* The BasicLocks that count, when one is pushed by slow_enter().
LEMMA Pushed ==
    ASSUME CardFacts, IInv, NEW t \in Threads, NEW x \in Headers \cup {NULL, unused_mark},
           boxes'[t] = Append(boxes[t], x)
    PROVE  /\ Holds(t)'
           /\ x = NULL => Counting(t)' = Counting(t)
           /\ x # NULL => /\ Cardinality(Counting(t)') = Cardinality(Counting(t)) + 1
                          /\ boxes[t] = <<>> => Counting(t)' = {1}
<1> DEFINE B == Headers \cup {NULL, unused_mark}
<1>1. boxes[t] \in Seq(B)
  BY TypesHold DEF ThreadType
<1>2. PICK s \in Seq(B) : s = boxes[t]
  BY <1>1, Zenon
<1>3. PICK r : r = boxes'[t]
  OBVIOUS
<1>4. /\ r # <<>> /\ Len(r) = Len(s) + 1 /\ r[Len(s) + 1] = x
      /\ \A i \in 1 .. Len(s) : r[i] = s[i]
  BY <1>2, <1>3, PushPop
<1>5. PICK n \in Nat : n = Len(s)
  BY <1>2
<1>6. Counting(t) = {i \in 1 .. n : s[i] # NULL}
  BY <1>2, <1>5, Zenon DEF Counting
<1>7. Counting(t)' = {i \in 1 .. n + 1 : r[i] # NULL}
  BY <1>3, <1>4, <1>5, Zenon DEF Counting
<1> DEFINE C == {i \in 1 .. n : s[i] # NULL}
           D == {i \in 1 .. n + 1 : r[i] # NULL}
<1> HIDE DEF B
<1>8. r[n + 1] = x /\ \A i \in 1 .. n : r[i] = s[i]
  BY <1>4, <1>5, Zenon
<1>9. x = NULL => D = C
  BY <1>8
<1>10. x # NULL => D = C \cup {n + 1}
  BY <1>8
<1>11. n + 1 \notin C
  OBVIOUS
<1>12. boxes[t] = <<>> => n = 0
  BY <1>2, <1>5
<1>13. n = 0 => C \cup {n + 1} = {1}
  OBVIOUS
<1> HIDE DEF C, D
<1>14. Counting(t) = C /\ Counting(t)' = D
  BY <1>6, <1>7, Zenon DEF C, D
<1>15. IsFiniteSet(C)
  BY <1>14, CountingFinite, Zenon
<1>16. x # NULL => Cardinality(D) = Cardinality(C) + 1
  BY <1>10, <1>11, <1>15, Zenon DEF CardFacts
<1>17. Holds(t)'
  BY <1>3, <1>4, Zenon DEF Holds
<1> QED BY <1>9, <1>10, <1>12, <1>13, <1>14, <1>16, <1>17, Zenon

\* The BasicLocks that count, when one is popped by fast_exit().
LEMMA Popped ==
    ASSUME CardFacts, IInv, NEW t \in Threads, boxes[t] # <<>>,
           boxes'[t] = SubSeq(boxes[t], 1, Len(boxes[t]) - 1)
    PROVE  /\ Displaced(t) = NULL => Holds(t)' /\ Counting(t)' = Counting(t)
           /\ Displaced(t) # NULL =>
                 /\ Cardinality(Counting(t)') = Cardinality(Counting(t)) - 1
                 /\ Holds(t)' <=> Cardinality(Counting(t)) # 1
<1> DEFINE B == Headers \cup {NULL, unused_mark}
<1>1. boxes[t] \in Seq(B)
  BY TypesHold DEF ThreadType
<1>2. PICK s \in Seq(B) : s = boxes[t]
  BY <1>1, Zenon
<1>3. /\ s # <<>> /\ s[1] # NULL
  BY <1>2, Zenon DEF IInv, HeaderInv
<1>4. PICK r \in Seq(B) : r = boxes'[t]
  BY <1>2, <1>3, PushPop, Zenon
<1>5. Len(r) = Len(s) - 1 /\ Len(s) > 0 /\ \A i \in 1 .. Len(s) - 1 : r[i] = s[i]
  BY <1>2, <1>3, <1>4, PushPop
<1>6. PICK n \in Nat : n = Len(s)
  BY <1>2
<1>7. Counting(t) = {i \in 1 .. n : s[i] # NULL}
  BY <1>2, <1>6, Zenon DEF Counting
<1>8. Counting(t)' = {i \in 1 .. n - 1 : r[i] # NULL}
  BY <1>4, <1>5, <1>6, Zenon DEF Counting
<1>9. n > 0 /\ (\A i \in 1 .. n - 1 : r[i] = s[i]) /\ Displaced(t) = s[n]
  BY <1>2, <1>5, <1>6, Zenon DEF Displaced
<1>10. r # <<>> <=> n # 1
  <2>1. r # <<>> <=> Len(r) > 0
    BY PushPop, Zenon
  <2>2. Len(r) = n - 1
    BY <1>5, <1>6, Zenon
  <2> QED BY <1>9, <2>1, <2>2
<1>11. Holds(t)' <=> n # 1
  BY <1>4, <1>10, Zenon DEF Holds
<1> DEFINE C == {i \in 1 .. n : s[i] # NULL}
           D == {i \in 1 .. n - 1 : r[i] # NULL}
<1> HIDE DEF B
<1>12. 1 \in C
  BY <1>3, <1>9
<1>13. s[n] = NULL => D = C /\ n # 1
  BY <1>3, <1>9
<1>14. s[n] # NULL => n \in C /\ D = C \ {n}
  BY <1>9
<1>15. n = 1 => C = {1}
  BY <1>12
<1> HIDE DEF C, D
<1>16. Counting(t) = C /\ Counting(t)' = D
  BY <1>7, <1>8, Zenon DEF C, D
<1>17. IsFiniteSet(C) /\ Cardinality(C) \in Nat
  BY <1>16, CountingFinite, Zenon
<1>18. ASSUME s[n] # NULL PROVE Cardinality(D) = Cardinality(C) - 1 /\ (n # 1 <=> Cardinality(C) # 1)
  <2>1. Cardinality(D) = Cardinality(C) - 1
    BY <1>14, <1>17, <1>18, Zenon DEF CardFacts
  <2>2. n = 1 => Cardinality(C) = 1
    BY <1>15, Zenon DEF CardFacts
  <2>3. D \in SUBSET C
    BY <1>14, <1>18
  <2>4. IsFiniteSet(D)
    BY <1>17, <2>3, Zenon DEF CardFacts
  <2>5. Cardinality(C) = 1 => Cardinality(D) = 0
    BY <1>17, <2>1
  <2>6. Cardinality(D) = 0 => D = {}
    BY <2>4, Zenon DEF CardFacts
  <2>7. D = {} => n = 1
    BY <1>12, <1>14, <1>18
  <2> QED BY <2>1, <2>2, <2>5, <2>6, <2>7, Zenon
<1> QED BY <1>9, <1>11, <1>13, <1>16, <1>18, Zenon

\* The BasicLocks are what the operation that is under way needs.
Onward(t) ==
    /\ UNCHANGED <<boxes, ret>>
    /\ pc'[t] \in InflateLabels \cup Ops \cup {"hash_cas", "hash_mcas"}

\* The steps of inflate() and omAlloc() leave the BasicLocks alone.
LEMMA OnwardSteps ==
    ASSUME IInv, NEW t \in Threads,
           \/ inflate(t) \/ inflate_done(t) \/ omAlloc(t) \/ omAlloc_empty(t)
           \/ omAlloc_reprovision(t) \/ omAlloc_new_block(t) \/ inflate_retry(t)
           \/ inflate_locked(t) \/ inflate_copy_header(t) \/ inflate_publish(t)
           \/ inflate_neutral(t) \/ \E h \in Hashes : FastHashCode_next(t, h)
    PROVE  Onward(t)
<1>0. \A v : Goto(t, v) => pc'[t] = v
  BY SetAt DEF Goto
<1>1. UNCHANGED <<boxes, ret>>
  BY Zenon DEF inflate, inflate_done, omAlloc, omAlloc_empty, omAlloc_reprovision,
     omAlloc_new_block, inflate_retry, inflate_locked, inflate_copy_header, inflate_publish,
     inflate_neutral, FastHashCode_next
<1>2. ASSUME inflate_done(t) \/ inflate_publish(t) \/ inflate_neutral(t)
      PROVE  pc'[t] \in Ops
  <2>1. Local(t)
    BY TypesHold, Zenon DEF LocalInv
  <2>2. pc[t] \in {"inflate", "publish", "inflate_neutral"} /\ pc'[t] = ret[t]
    BY <1>0, <1>2, Zenon DEF inflate_done, inflate_publish, inflate_neutral
  <2> QED BY <2>1, <2>2 DEF Local, InflateLabels, HandLabels, PrivateLabels
<1>3. \/ pc'[t] \in Ops
      \/ pc'[t] \in {"alloc", "inflate", "copy_header", "publish", "hash_cas", "hash_mcas"}
      \/ omAlloc(t) \/ omAlloc_empty(t)
  BY <1>0, <1>2, Zenon DEF inflate, omAlloc_reprovision, omAlloc_new_block, inflate_retry,
     inflate_locked, inflate_copy_header, FastHashCode_next
<1>4. omAlloc(t) => pc'[t] \in {"inflate_locked", "inflate_neutral"}
  BY <1>0, Zenon DEF omAlloc
<1>5. omAlloc_empty(t) => pc'[t] \in {"reprovision", "new_block"}
  BY <1>0, Zenon DEF omAlloc_empty
<1> QED BY <1>1, <1>3, <1>4, <1>5, Zenon
        DEF Onward, InflateLabels, AllocLabels, HandLabels, PrivateLabels

\* A step leaves its thread's BasicLocks in order.
LEMMA BoxStep ==
    ASSUME IInv, NEW t \in Threads, Step(t)
    PROVE  Boxed(t)'
<1>0. Local(t) /\ Boxed(t)
  BY TypesHold, Zenon DEF LocalInv, IInv, BoxInv
<1>a. \A v : Goto(t, v) => pc'[t] = v
  BY SetAt DEF Goto
<1>b. pc[t] \in {"java", "flush", "enter_cas", "exit_cas", "hash_cas"} => ret[t] = NULL
  BY <1>0 DEF Local
<1>1. ASSUME pc'[t] = "java", ret'[t] = NULL PROVE Boxed(t)'
  BY <1>1, NullFacts DEF Boxed, CountLabels, SleepLabels
<1>2. Ending(t) => Boxed(t)'
  BY <1>1, Endings, Ended, Zenon
<1>3. ASSUME Recursing(t) \/ omFlush(t) PROVE Boxed(t)'
  <2>1. pc[t] \in {"java", "flush"} /\ ret' = ret /\ pc'[t] = "java"
    BY <1>3, <1>a, Zenon DEF Recursing, slow_enter_recursive, fast_exit_recursive, omFlush
  <2> QED BY <1>1, <1>b, <2>1
<1>4. ASSUME Onward(t) PROVE Boxed(t)'
  <2>1. boxes'[t] = boxes[t] /\ ret'[t] = ret[t]
    BY <1>4, Zenon DEF Onward
  <2>2. pc'[t] \notin CountLabels \cup {"enter_cas", "flush"} \cup SleepLabels \cup {"exit_cas"}
    BY <1>4 DEF Onward, InflateLabels, AllocLabels, HandLabels, PrivateLabels, Ops, CountLabels,
       SleepLabels
  <2> QED BY <1>0, <2>1, <2>2, SameBoxes, Zenon DEF Boxed
<1>5. ASSUME slow_enter(t) PROVE Boxed(t)'
  <2>1. pc[t] = "java" /\ UNCHANGED <<boxes, ret>> /\ mark \in Headers /\ pc'[t] = "enter_cas"
    BY <1>5, <1>a, TheMark, Zenon DEF slow_enter
  <2>2. (\A m : mark # Inflated(m)) /\ ~ Displacer(t)
    BY <2>1, MarkKinds, DisplacerIs, Zenon DEF IInv
  <2>3. boxes[t] = <<>>
    BY <2>2, Bystander, Zenon
  <2> QED BY <1>b, <2>1, <2>3, NullFacts DEF Boxed, CountLabels, SleepLabels
<1>6. ASSUME fast_exit(t) PROVE Boxed(t)'
  <2>1. /\ pc[t] = "java" /\ UNCHANGED <<boxes, ret>> /\ pc'[t] = "exit_cas"
        /\ Len(boxes[t]) = 1 /\ Displaced(t) # NULL
    BY <1>6, <1>a, Zenon DEF fast_exit
  <2>2. Holds(t)
    <3>1. Len(<<>>) = 0 /\ 0 # 1
      OBVIOUS
    <3> QED BY <2>1, <3>1, Zenon DEF Holds
  <2>3. Holds(t)' /\ Displaced(t)' # NULL
    BY <2>1, <2>2, SameBoxes, Zenon
  <2> QED BY <2>1, <2>3 DEF Boxed, CountLabels, SleepLabels
<1>7. ASSUME Calling(t) PROVE Boxed(t)'
  <2>1. \E op \in Ops : /\ CallInflate(t, op)
                        /\ op \in {"exit", "wait"} => Holds(t)
                        /\ op = "exit" => Displaced(t) # NULL
    <3>1. fast_exit_inflate(t) => Holds(t) /\ Displaced(t) # NULL
      BY <1>0 DEF fast_exit_inflate, Boxed
    <3> QED BY <1>7, <3>1, Zenon DEF Calling, slow_enter_inflate, fast_exit_inflate, wait,
            FastHashCode_inflate, Ops
  <2>2. PICK op \in Ops : /\ CallInflate(t, op)
                          /\ op \in {"exit", "wait"} => Holds(t)
                          /\ op = "exit" => Displaced(t) # NULL
    BY <2>1, Zenon
  <2>3. pc'[t] = "inflate" /\ ret'[t] = op /\ boxes' = boxes
    BY <1>a, <2>2, SetAt DEF CallInflate
  <2>4. (Holds(t)' <=> Holds(t)) /\ Displaced(t)' = Displaced(t)
    BY <2>3, SameBoxes, Zenon
  <2> QED BY <2>2, <2>3, <2>4, Zenon DEF Boxed, CountLabels, SleepLabels
<1>8. ASSUME monitor_enter_block(t) PROVE Boxed(t)'
  <2>1. /\ pc[t] = "enter" /\ pc'[t] = "blocked" /\ UNCHANGED <<boxes, ret>>
        /\ owner[mon[t]] \notin {t, Box(t)}
    BY <1>8, <1>a DEF monitor_enter_block
  <2>2. PICK m \in Monitors : m = mon[t] /\ mark = Inflated(m)
    BY <2>1, OnMonitor DEF MonLabels, Ops
  <2>3. ~ In(t)
    BY <2>1, <2>2, Monitored, Zenon
  <2>4. boxes[t] = <<>>
    BY <2>1, <2>3, Zenon DEF In, Holds
  <2>5. ret[t] = "enter"
    BY <1>0, <2>1, Zenon DEF Local, Ops
  <2> QED BY <2>1, <2>4, <2>5, Zenon DEF Boxed, CountLabels, SleepLabels
<1>9. ASSUME Die(t) PROVE Boxed(t)'
  <2>1. pc[t] = "java" /\ pc'[t] = "flush" /\ UNCHANGED <<boxes, ret>> /\ boxes[t] = <<>>
    BY <1>9, <1>a, Zenon DEF Die, Holds
  <2> QED BY <1>b, <2>1, NullFacts DEF Boxed, CountLabels, SleepLabels
<1>10. ASSUME EnterI(t) \/ Woken(t) \/ ReenterI(t) PROVE Boxed(t)'
  <2>1. UNCHANGED <<boxes, ret, save>>
    BY <1>10, Zenon DEF EnterI, Woken, ReenterI, Acquire, locals
  <2>2. \/ pc[t] = "blocked" /\ pc'[t] = "enter_done"
        \/ pc[t] = "reenter" /\ pc'[t] = "wait_done"
        \/ pc[t] = "waiting" /\ pc'[t] = "reenter"
    BY <1>10, <1>a, Zenon DEF EnterI, Woken, ReenterI, Acquire
  <2>3. /\ pc'[t] \in CountLabels \cup {"enter_cas", "flush"} => pc[t] \in CountLabels
        /\ pc'[t] \in SleepLabels => pc[t] \in SleepLabels
        /\ pc'[t] # "exit_cas"
    BY <2>2 DEF CountLabels, SleepLabels
  <2>4. /\ Counting(t)' = Counting(t) /\ (Holds(t)' <=> Holds(t)) /\ Displaced(t)' = Displaced(t)
        /\ ret'[t] = ret[t] /\ save'[t] = save[t] /\ boxes'[t] = boxes[t]
    BY <2>1, SameBoxes, Zenon
  <2> QED BY <1>0, <2>3, <2>4 DEF Boxed
<1>11. ASSUME monitor_wait(t) PROVE Boxed(t)'
  <2>1. /\ pc[t] = "wait" /\ pc'[t] = "waiting" /\ UNCHANGED <<boxes, ret>>
        /\ save'[t] = recursions[mon[t]]
    BY <1>11, <1>a, WriteAt, Zenon DEF monitor_wait
  <2>2. PICK m \in Monitors : m = mon[t] /\ mark = Inflated(m)
    BY <2>1, OnMonitor, Zenon DEF MonLabels, Ops
  <2>3. ret[t] = "wait" /\ Holds(t)
    BY <1>0, <2>1, Zenon DEF Local, Boxed, Ops
  <2>4. In(t)
    BY <2>1, <2>3 DEF In
  <2>5. Cardinality(Counting(t)) = recursions[m] + 1
    <3>1. owner[m] \in {t, Box(t)}
      BY <2>2, <2>4, Monitored, Zenon
    <3>2. pc[t] \notin {"enter_done", "wait_done"}
      BY <2>1
    <3> QED BY <2>2, <3>1, <3>2, Monitored, Zenon
  <2>6. Holds(t)' /\ Cardinality(Counting(t)') = save'[t] + 1
    BY <2>1, <2>2, <2>3, <2>5, SameBoxes, Zenon
  <2> QED BY <2>1, <2>3, <2>6, Zenon DEF Boxed, CountLabels, SleepLabels
<1>12. Locking(t) => Boxed(t)'
  BY <1>2, <1>3, <1>5, <1>6, <1>7, Zenon DEF Locking, Ending, Recursing, Calling
<1>13. Inflation(t) => Boxed(t)'
  BY <1>4, OnwardSteps, Zenon DEF Inflation
<1>14. Heavy(t) => Boxed(t)'
  BY <1>2, <1>8, <1>10, <1>11, Zenon DEF Heavy, Ending
<1>15. Hashing(t) => Boxed(t)'
  BY <1>2, <1>4, <1>7, OnwardSteps, Zenon DEF Hashing, Ending, Calling
<1> QED BY <1>3, <1>9, <1>12, <1>13, <1>14, <1>15, Zenon DEF Step

\* The outermost BasicLock is the one with the displaced header.
LEMMA BoxNext == ASSUME IInv, Next PROVE BoxInv'
<1>1. ASSUME NEW u \in Threads, pc'[u] = pc[u], ret'[u] = ret[u], save'[u] = save[u],
             boxes'[u] = boxes[u]
      PROVE  Boxed(u)'
  <2>1. Boxed(u)
    BY Zenon DEF IInv, BoxInv
  <2>2. /\ Counting(u)' = Counting(u) /\ (Holds(u)' <=> Holds(u)) /\ Displaced(u)' = Displaced(u)
    BY <1>1, SameBoxes, Zenon
  <2> QED BY <1>1, <2>1, <2>2 DEF Boxed
<1>2. ASSUME NEW m \in Monitors, Deflated(m) PROVE BoxInv'
  BY <1>1, <1>2, Zenon DEF Deflated, BoxInv, locals
<1>3. ASSUME NEW t \in Threads, Step(t), OthersKeep(t) PROVE BoxInv'
  BY <1>1, <1>3, BoxStep, Zenon DEF BoxInv, OthersKeep
<1> QED BY <1>2, <1>3, Next1, Zenon

\* A thread's own part of the lock is what its BasicLocks and its program counter say.
LEMMA OthersIn ==
    ASSUME NEW t \in Threads, OthersKeep(t), NEW u \in Threads \ {t}
    PROVE  Counting(u)' = Counting(u) /\ (In(u)' <=> In(u))
<1>1. boxes'[u] = boxes[u] /\ pc'[u] = pc[u]
  BY Zenon DEF OthersKeep
<1>2. Counting(u)' = Counting(u) /\ (Holds(u)' <=> Holds(u))
  BY <1>1, SameBoxes, Zenon
<1> QED BY <1>1, <1>2, Zenon DEF In

\* A monitor in hand stays unused.
LEMMA HandKept ==
    ASSUME IInv, NEW t \in Threads, OthersKeep(t), recursions' = recursions,
           pc'[t] \in HandLabels => pc[t] \in HandLabels /\ hand'[t] = hand[t]
    PROVE  \A u \in Threads : pc'[u] \in HandLabels => recursions'[hand'[u]] = 0
<1>1. \A u \in Threads : pc[u] \in HandLabels => recursions[hand[u]] = 0
  BY Zenon DEF IInv, LockInv
<1>2. \A u \in Threads \ {t} : pc'[u] = pc[u] /\ hand'[u] = hand[u]
  BY Zenon DEF OthersKeep
<1>3. ASSUME NEW u \in Threads, pc'[u] \in HandLabels
      PROVE  pc[u] \in HandLabels /\ hand'[u] = hand[u]
  BY <1>2, <1>3
<1> QED BY <1>1, <1>3, Zenon

\* After a step, the object has no monitor ...
LEMMA PlainNext ==
    ASSUME \A m : mark' # Inflated(m),
           \A u \in Threads : pc'[u] \notin MonLabels,
           \A u \in Threads : Displacer(u)' <=> boxes'[u] # <<>>,
           \A u \in Threads : Displacer(u)' => Counting(u)' = {1},
           \A u \in Threads : pc'[u] \in HandLabels => recursions'[hand'[u]] = 0,
           \A u, v \in Threads : pc'[u] = "publish" /\ seen'[u] = StackLocked(v) =>
                                    owner'[hand'[u]] = Box(v)
    PROVE  LockInv'
<1>1. \A u \in Threads : pc'[u] \notin {"enter_done", "wait_done"} /\ pc'[u] \notin {"waiting", "reenter"}
  BY DEF MonLabels, CountLabels, SleepLabels
<1>2. \A u \in Threads : In(u)' <=> Owns(u)'
  BY <1>1, Zenon DEF In, Holds, Owns
<1> QED BY <1>1, <1>2, Zenon DEF LockInv

\* ... or m is its monitor.
LEMMA InflatedNext ==
    ASSUME InflatingInv', NEW m \in Monitors, mark' = Inflated(m),
           \A u \in Threads : In(u)' <=> owner'[m] \in {u, Box(u)},
           \A u \in Threads : pc'[u] \in {"enter_done", "wait_done"} =>
              mon'[u] = m /\ owner'[m] = u /\ recursions'[m] = 0,
           \A u \in Threads : pc'[u] \in HandLabels => recursions'[hand'[u]] = 0,
           owner'[m] \notin Threads => recursions'[m] = 0,
           \A u \in Threads :
              owner'[m] \in {u, Box(u)} /\ pc'[u] \notin {"enter_done", "wait_done"} =>
                 Cardinality(Counting(u)') = recursions'[m] + 1
    PROVE  LockInv'
<1>1. Alone' /\ \A u \in Threads : ~ Displacer(u)'
  BY DisplacerNext, Zenon
<1>2. \A l : mark' = Inflated(l) => l = m
  BY MarkInjective, Zenon
<1>3. \A u \in Threads : In(u)' <=> Owns(u)'
  BY <1>1, <1>2, Zenon DEF Owns
<1>4. \A u \in Threads : pc'[u] # "publish"
  BY <1>1 DEF Alone, PrivateLabels
<1>5. \A u \in Threads : pc'[u] \in {"enter_done", "wait_done"} =>
         owner'[mon'[u]] = u /\ recursions'[mon'[u]] = 0
  BY Zenon
<1>6. \A l \in Monitors : mark' = Inflated(l) =>
         /\ owner'[l] \notin Threads => recursions'[l] = 0
         /\ \A u \in Threads :
               owner'[l] \in {u, Box(u)} /\ pc'[u] \notin {"enter_done", "wait_done"} =>
                  Cardinality(Counting(u)') = recursions'[l] + 1
  BY <1>2, Zenon
<1> QED BY <1>1, <1>3, <1>4, <1>5, <1>6, Zenon DEF LockInv

\* The moves of the mark.
LEMMA StackedLock ==
    ASSUME IInv, InflatingInv', NEW t \in Threads, OthersKeep(t), Stacked(t)
    PROVE  LockInv'
<1>0. /\ mark \in Headers /\ mark' = StackLocked(t) /\ boxes'[t] = <<mark>> /\ pc'[t] = "java"
      /\ recursions' = recursions
  BY Zenon DEF Stacked
<1>1. \A u \in Threads : pc[u] \notin MonLabels /\ boxes[u] = <<>>
  <2>1. (\A m : mark # Inflated(m)) /\ \A u \in Threads : ~ Displacer(u)
    BY <1>0, MarkKinds, DisplacerIs, Zenon DEF IInv
  <2> QED BY <2>1, Bystander, Zenon
<1>2. /\ Alone' /\ (\A u \in Threads : Displacer(u)' <=> u = t) /\ \A m : mark' # Inflated(m)
  BY <1>0, DisplacerNext, MarkKinds, Zenon
<1>3. "java" \notin MonLabels /\ "java" \notin HandLabels
  BY DEF MonLabels, Ops, CountLabels, SleepLabels, HandLabels, PrivateLabels
<1>4. \A u \in Threads : pc'[u] \notin MonLabels
  BY <1>0, <1>1, <1>3, Zenon DEF OthersKeep
<1>5. \A u \in Threads : Displacer(u)' <=> boxes'[u] # <<>>
  <2>1. <<mark>> # <<>>
    OBVIOUS
  <2>2. \A u \in Threads \ {t} : boxes'[u] = <<>>
    BY <1>1, Zenon DEF OthersKeep
  <2> QED BY <1>0, <1>2, <2>1, <2>2, Zenon
<1>6. Counting(t)' = {1}
  <2>1. mark # NULL
    BY <1>0, NullFacts, Zenon
  <2> QED BY <1>0, <2>1 DEF Counting
<1>7. \A u \in Threads : pc'[u] \in HandLabels => recursions'[hand'[u]] = 0
  BY <1>0, <1>3, HandKept, Zenon
<1>8. \A u \in Threads : pc'[u] # "publish"
  BY <1>2 DEF Alone, PrivateLabels
<1> QED BY <1>2, <1>4, <1>5, <1>6, <1>7, <1>8, PlainNext, Zenon

\* The object is neutral after the step: nobody has it.
LEMMA NeutralNext ==
    ASSUME InflatingInv', mark' \in Headers,
           \A u \in Threads : boxes'[u] = <<>> /\ pc'[u] \notin MonLabels,
           \A u \in Threads : pc'[u] \in HandLabels => recursions'[hand'[u]] = 0
    PROVE  LockInv'
<1>1. Alone' /\ (\A u \in Threads : ~ Displacer(u)') /\ \A m : mark' # Inflated(m)
  BY DisplacerNext, MarkKinds, Zenon
<1>2. \A u \in Threads : pc'[u] # "publish"
  BY <1>1 DEF Alone, PrivateLabels
<1> QED BY <1>1, <1>2, PlainNext, Zenon

\* fast_exit() swings the header back, or a hash code goes into a neutral mark.
LEMMA UnstackedLock ==
    ASSUME IInv, InflatingInv', NEW t \in Threads, OthersKeep(t), Unstacked(t) \/ HashedMark(t)
    PROVE  LockInv'
<1>0. /\ mark' \in Headers /\ pc'[t] = "java" /\ recursions' = recursions
      /\ \/ mark = StackLocked(t) /\ boxes'[t] = <<>>
         \/ mark \in Headers /\ boxes' = boxes
  <2>1. Neutral(NULL) \in Headers /\ \A h \in Hashes : Neutral(h) \in Headers
    BY Zenon DEF Headers
  <2>2. Unstacked(t) => /\ mark' \in Headers /\ pc'[t] = "java" /\ recursions' = recursions
                        /\ mark = StackLocked(t) /\ boxes'[t] = <<>>
    BY Zenon DEF Unstacked
  <2>3. HashedMark(t) => /\ mark' \in Headers /\ pc'[t] = "java" /\ recursions' = recursions
                         /\ mark \in Headers /\ boxes' = boxes
    BY <2>1, Zenon DEF HashedMark
  <2> QED BY <2>2, <2>3, Zenon
<1>1. \A u \in Threads \ {t} : pc[u] \notin MonLabels /\ boxes[u] = <<>>
  <2>1. (\A m : mark # Inflated(m)) /\ \A u \in Threads : Displacer(u) => u = t
    BY <1>0, MarkKinds, DisplacerIs, Zenon DEF IInv
  <2> QED BY <2>1, Bystander, Zenon
<1>2. boxes'[t] = <<>>
  <2>1. ASSUME mark \in Headers PROVE boxes[t] = <<>>
    <3>1. (\A m : mark # Inflated(m)) /\ ~ Displacer(t)
      BY <2>1, MarkKinds, DisplacerIs, Zenon DEF IInv
    <3> QED BY <3>1, Bystander, Zenon
  <2> QED BY <1>0, <2>1, Zenon
<1>3. "java" \notin MonLabels /\ "java" \notin HandLabels
  BY DEF MonLabels, Ops, CountLabels, SleepLabels, HandLabels, PrivateLabels
<1>4. \A u \in Threads : boxes'[u] = <<>> /\ pc'[u] \notin MonLabels
  BY <1>0, <1>1, <1>2, <1>3, Zenon DEF OthersKeep
<1>5. \A u \in Threads : pc'[u] \in HandLabels => recursions'[hand'[u]] = 0
  BY <1>0, <1>3, HandKept, Zenon
<1> QED BY <1>0, <1>4, <1>5, NeutralNext, Zenon

\* Deflation leaves an object nobody has.
LEMMA DeflateLock ==
    ASSUME CardFacts, IInv, InflatingInv', NEW m \in Monitors, Deflated(m)
    PROVE  LockInv'
<1>1. /\ mark = Inflated(m) /\ mark' \in Headers /\ owner[m] = NULL
      /\ UNCHANGED <<boxes, pc>>
  BY Zenon DEF Deflated, is_busy
<1>2. \A u \in Threads : pc[u] \in {"java", "flush"}
  BY DeflatedIdle, Zenon
<1>3. \A u \in Threads : pc'[u] \notin MonLabels /\ pc'[u] \notin HandLabels
  BY <1>1, <1>2 DEF MonLabels, Ops, CountLabels, SleepLabels, HandLabels, PrivateLabels
<1>4. \A u \in Threads : ~ In(u)
  BY <1>1, Monitored, OneOwner, Zenon
<1>5. \A u \in Threads : boxes'[u] = <<>>
  BY <1>1, <1>2, <1>4 DEF In, Holds
<1> QED BY <1>1, <1>3, <1>5, NeutralNext, Zenon

\* inflate() has set the mark to INFLATING, or copies the displaced header and the owner.
LEMMA SeizedLock ==
    ASSUME IInv, InflatingInv', NEW t \in Threads, OthersKeep(t), NEW w \in Threads,
           Seized(t, w) \/ Copied(t, w)
    PROVE  LockInv'
<1>0. /\ UNCHANGED <<boxes, recursions, hand, seen>> /\ seen[t] = StackLocked(w)
      /\ mark' = INFLATING /\ pc[t] \in HandLabels /\ pc'[t] \in PrivateLabels
  <2>1. pc[t] \in {"inflate_locked", "copy_header"} /\ pc'[t] \in {"copy_header", "publish"}
    BY Zenon DEF Seized, Copied
  <2>2. UNCHANGED <<boxes, recursions, hand, seen>> /\ seen[t] = StackLocked(w) /\ mark' = INFLATING
    BY Zenon DEF Seized, Copied
  <2> QED BY <2>1, <2>2 DEF HandLabels, PrivateLabels
<1>1. /\ \A u \in Threads : Displacer(u) <=> u = w
      /\ \A m : mark # Inflated(m)
  <2>1. Seized(t, w) => mark = StackLocked(w)
    BY Zenon DEF Seized
  <2>2. Copied(t, w) => mark = INFLATING /\ pc[t] \in PrivateLabels
    BY DEF Copied, PrivateLabels
  <2> QED BY <1>0, <2>1, <2>2, DisplacerIs, MarkKinds, Zenon DEF IInv
<1>2. \A u \in Threads : (pc'[u] \in PrivateLabels <=> u = t) /\ (Displacer(u)' <=> u = w)
  BY <1>0, DisplacerNext, Zenon
<1>3. \A m : mark' # Inflated(m)
  BY <1>0, MarkKinds, Zenon
<1>4. \A u \in Threads : pc'[u] \notin MonLabels
  <2>1. \A u \in Threads : pc[u] \notin MonLabels
    BY <1>1, OnMonitor, Zenon
  <2>2. pc'[t] \notin MonLabels
    BY <1>0 DEF PrivateLabels, MonLabels, Ops, CountLabels, SleepLabels
  <2> QED BY <2>1, <2>2, Zenon DEF OthersKeep
<1>5. LockInv /\ \A u \in Threads : In(u) <=> Owns(u)
  BY Zenon DEF IInv, LockInv
<1>6. \A u \in Threads : Displacer(u)' <=> boxes'[u] # <<>>
  <2>1. \A u \in Threads : u # w => boxes[u] = <<>>
    BY <1>1, Bystander, Zenon
  <2>2. boxes[w] # <<>>
    BY <1>1, Zenon DEF IInv, HeaderInv, Carried
  <2> QED BY <1>0, <1>2, <2>1, <2>2, Zenon
<1>7. \A u \in Threads : Displacer(u)' => Counting(u)' = {1}
  <2>1. Counting(w) = {1}
    BY <1>1, <1>5, Zenon DEF LockInv
  <2>2. Counting(w)' = Counting(w)
    BY <1>0, SameBoxes, Zenon
  <2> QED BY <1>2, <2>1, <2>2, Zenon
<1>8. \A u \in Threads : pc'[u] \in HandLabels => recursions'[hand'[u]] = 0
  BY <1>0, HandKept, Zenon
<1>9. ASSUME NEW u \in Threads, NEW v \in Threads, pc'[u] = "publish", seen'[u] = StackLocked(v)
      PROVE  owner'[hand'[u]] = Box(v)
  <2>1. u = t
    BY <1>2, <1>9 DEF PrivateLabels
  <2>2. v = w
    BY <1>0, <1>9, <2>1, MarkInjective, Zenon
  <2>3. Copied(t, w)
    BY <1>9, <2>1 DEF Seized
  <2>4. hand[t] \in Monitors /\ owner' = Set(owner, hand[t], Box(w))
    BY <2>3, Zenon DEF Copied, Set
  <2>5. owner'[hand[t]] = Box(w)
    BY <2>4, TypesHold DEF MonitorType, Set
  <2> QED BY <1>0, <2>1, <2>2, <2>5, Zenon
<1> QED BY <1>3, <1>4, <1>6, <1>7, <1>8, <1>9, PlainNext, Zenon

\* inflate() publishes the monitor of a stack-locked object: the locker owns it, by its
\* BasicLock.
LEMMA PublishedLock ==
    ASSUME CardFacts, IInv, InflatingInv', NEW t \in Threads, OthersKeep(t), NEW w \in Threads,
           Published(t, w)
    PROVE  LockInv'
<1>0. PICK h \in Monitors : h = hand[t]
  BY Zenon DEF Published
<1>1. /\ mark = INFLATING /\ seen[t] = StackLocked(w) /\ pc[t] = "publish" /\ pc'[t] \in Ops
      /\ mark' = Inflated(h) /\ UNCHANGED <<boxes, owner, recursions>>
  BY <1>0, Zenon DEF Published
<1>2. pc[t] \in PrivateLabels /\ pc[t] \in HandLabels
  BY <1>1 DEF PrivateLabels, HandLabels
<1>3. /\ \A u \in Threads : Displacer(u) <=> u = w
      /\ \A m : mark # Inflated(m)
  BY <1>1, <1>2, DisplacerIs, MarkKinds, Zenon DEF IInv
<1>a. LockInv
  BY Zenon DEF IInv
<1>4. owner[h] = Box(w) /\ recursions[h] = 0 /\ Counting(w) = {1}
  BY <1>0, <1>1, <1>2, <1>3, <1>a, Zenon DEF LockInv
<1>5. \A u \in Threads : In(u) <=> u = w
  <2>1. \A u \in Threads : In(u) <=> Owns(u)
    BY Zenon DEF IInv, LockInv
  <2> QED BY <1>3, <2>1, Zenon DEF Owns
<1>6. \A u \in Threads : pc[u] \notin MonLabels
  BY <1>3, OnMonitor, Zenon
<1>7. \A u \in Threads : pc'[u] \notin {"enter_done", "wait_done"}
  <2>1. \A u \in Threads : pc[u] \notin {"enter_done", "wait_done"}
    BY <1>6 DEF MonLabels, CountLabels, SleepLabels
  <2>2. pc'[t] \notin {"enter_done", "wait_done"}
    BY <1>1 DEF Ops
  <2> QED BY <2>1, <2>2, Zenon DEF OthersKeep
<1>8. \A u \in Threads : In(u)' <=> u = w
  <2>1. In(t)' <=> In(t)
    BY <1>1 DEF In, Holds, Ops
  <2> QED BY <1>5, <2>1, OthersIn, Zenon
<1>9. \A u \in Threads : In(u)' <=> owner'[h] \in {u, Box(u)}
  BY <1>1, <1>4, <1>8, OneOwner, Zenon
<1>10. Cardinality(Counting(w)') = recursions'[h] + 1
  <2>1. Counting(w)' = {1}
    BY <1>1, <1>4, SameBoxes, Zenon
  <2>2. Cardinality(Counting(w)') = 1
    BY <2>1, Zenon DEF CardFacts
  <2> QED BY <1>1, <1>4, <2>2
<1>11. \A u \in Threads : pc'[u] \in HandLabels => recursions'[hand'[u]] = 0
  <2>1. pc'[t] \notin HandLabels
    BY <1>1 DEF Ops, HandLabels, PrivateLabels
  <2> QED BY <1>1, <2>1, HandKept, Zenon
<1>12. recursions'[h] = 0
  BY <1>1, <1>4, Zenon
<1> QED BY <1>1, <1>7, <1>8, <1>9, <1>10, <1>11, <1>12, InflatedNext, Zenon

\* inflate() publishes the monitor of a neutral object: nobody owns it.
LEMMA ConvertedLock ==
    ASSUME IInv, InflatingInv', NEW t \in Threads, OthersKeep(t), Converted(t)
    PROVE  LockInv'
<1>0. PICK h \in Monitors : h = hand[t]
  BY Zenon DEF Converted
<1>1. /\ mark \in Headers /\ pc[t] = "inflate_neutral" /\ pc'[t] \in Ops
      /\ mark' = Inflated(h) /\ owner' = Set(owner, h, NULL) /\ UNCHANGED <<boxes, recursions>>
  BY <1>0, Zenon DEF Converted, Set
<1>2. \A u \in Threads : pc[u] \notin MonLabels /\ boxes[u] = <<>>
  <2>1. (\A m : mark # Inflated(m)) /\ \A u \in Threads : ~ Displacer(u)
    BY <1>1, MarkKinds, DisplacerIs, Zenon DEF IInv
  <2> QED BY <2>1, Bystander, Zenon
<1>3. pc[t] \in HandLabels
  BY <1>1 DEF HandLabels
<1>4. owner'[h] = NULL /\ recursions'[h] = 0
  <2>1. owner'[h] = NULL
    BY <1>1, TypesHold DEF MonitorType, Set
  <2>2. recursions[h] = 0
    BY <1>0, <1>3, Zenon DEF IInv, LockInv
  <2> QED BY <1>1, <2>1, <2>2, Zenon
<1>5. \A u \in Threads : pc'[u] \notin {"enter_done", "wait_done"}
  <2>1. \A u \in Threads : pc[u] \notin {"enter_done", "wait_done"}
    BY <1>2 DEF MonLabels, CountLabels, SleepLabels
  <2>2. pc'[t] \notin {"enter_done", "wait_done"}
    BY <1>1 DEF Ops
  <2> QED BY <2>1, <2>2, Zenon DEF OthersKeep
<1>6. \A u \in Threads : ~ In(u)'
  BY <1>1, <1>2, <1>5, Zenon DEF In, Holds
<1>7. \A u \in Threads : owner'[h] \notin {u, Box(u)}
  BY <1>4, OneOwner, Zenon
<1>8. \A u \in Threads : pc'[u] \in HandLabels => recursions'[hand'[u]] = 0
  <2>1. pc'[t] \notin HandLabels
    BY <1>1 DEF Ops, HandLabels, PrivateLabels
  <2> QED BY <1>1, <2>1, HandKept, Zenon
<1> QED BY <1>1, <1>4, <1>5, <1>6, <1>7, <1>8, InflatedNext, Zenon

\* The steps that do not concern the lock.
LockLabels == {"enter_done", "waiting", "reenter", "wait_done"}

Aside(t) ==
    /\ UNCHANGED <<mark, owner>>
    /\ \A m \in Monitors : \/ recursions'[m] = recursions[m]
                           \/ recursions'[m] = 0 /\ mark # Inflated(m)
    /\ Counting(t)' = Counting(t) /\ (Holds(t)' <=> Holds(t))
    /\ pc[t] \notin LockLabels /\ pc'[t] \notin LockLabels
    /\ pc[t] \notin PrivateLabels /\ pc'[t] \notin PrivateLabels
    /\ pc'[t] \in HandLabels => recursions'[hand'[t]] = 0
    /\ Requesting(t) => Requesting(t)'

\* A step aside neither takes nor releases the object.
LEMMA AsideIn ==
    ASSUME NEW t \in Threads, Aside(t)
    PROVE  In(t)' <=> In(t)
<1>1. pc[t] \notin LockLabels /\ pc'[t] \notin LockLabels /\ (Holds(t)' <=> Holds(t))
  BY Zenon DEF Aside
<1> QED BY <1>1 DEF In, LockLabels

\* A step aside keeps the lock accounted for.
LEMMA AsideKeeps ==
    ASSUME IInv, NEW t \in Threads, OthersKeep(t), Aside(t)
    PROVE  LockInv'
<1>0. LockInv
  BY Zenon DEF IInv
<1>1. /\ mark' = mark /\ owner' = owner
      /\ \A m \in Monitors : \/ recursions'[m] = recursions[m]
                             \/ recursions'[m] = 0 /\ mark # Inflated(m)
  BY Zenon DEF Aside
<1>2. \A u \in Threads : Counting(u)' = Counting(u) /\ (In(u)' <=> In(u))
  <2>1. Counting(t)' = Counting(t) /\ (In(t)' <=> In(t))
    BY AsideIn, Zenon DEF Aside
  <2> QED BY <2>1, OthersIn, Zenon
<1>3. \A u \in Threads : Displacer(u)' <=> Displacer(u)
  <2>1. /\ pc[t] \notin PrivateLabels /\ pc'[t] \notin PrivateLabels
        /\ \A u \in Threads \ {t} : pc'[u] = pc[u] /\ seen'[u] = seen[u]
    BY Zenon DEF Aside, OthersKeep
  <2> QED BY <1>1, <2>1 DEF Displacer
<1>4. \A u \in Threads : Owns(u)' <=> Owns(u)
  BY <1>1, <1>3, Zenon DEF Owns
<1>5. \A u \in Threads : (In(u)' <=> Owns(u)') /\ (Displacer(u)' => Counting(u)' = {1})
  BY <1>0, <1>2, <1>3, <1>4, Zenon DEF LockInv
<1>6. \A u \in Threads : pc'[u] \in {"enter_done", "wait_done"} =>
         u # t /\ pc[u] = pc'[u] /\ mon'[u] = mon[u] /\ pc[u] \in MonLabels
  <2>1. pc'[t] \notin {"enter_done", "wait_done"}
    BY DEF Aside, LockLabels
  <2>2. {"enter_done", "wait_done"} \subseteq MonLabels
    BY DEF MonLabels, CountLabels, SleepLabels
  <2> QED BY <2>1, <2>2, Zenon DEF OthersKeep
<1>7. \A u \in Threads : pc'[u] \in {"enter_done", "wait_done"} =>
         owner'[mon'[u]] = u /\ recursions'[mon'[u]] = 0
  <2>1. ASSUME NEW u \in Threads, pc'[u] \in {"enter_done", "wait_done"}
        PROVE  owner'[mon'[u]] = u /\ recursions'[mon'[u]] = 0
    <3>1. owner[mon[u]] = u /\ recursions[mon[u]] = 0
      BY <1>0, <1>6, <2>1, Zenon DEF LockInv
    <3>2. mon[u] \in Monitors /\ mon'[u] = mon[u]
      BY <1>6, <2>1, OnMonitor, Zenon
    <3> QED BY <1>1, <3>1, <3>2
  <2> QED BY <2>1, Zenon
<1>8. \A u \in Threads : pc'[u] \in HandLabels => recursions'[hand'[u]] = 0
  <2>1. pc'[t] \in HandLabels => recursions'[hand'[t]] = 0
    BY Zenon DEF Aside
  <2>2. \A u \in Threads : pc[u] \in HandLabels => hand[u] \in Monitors /\ recursions[hand[u]] = 0
    BY <1>0, TypesHold, Zenon DEF LockInv, LocalInv, Local
  <2>3. \A u \in Threads \ {t} : pc'[u] = pc[u] /\ hand'[u] = hand[u]
    BY Zenon DEF OthersKeep
  <2>4. ASSUME NEW u \in Threads \ {t}, pc'[u] \in HandLabels PROVE recursions'[hand'[u]] = 0
    BY <1>1, <2>2, <2>3, <2>4, Zenon
  <2> QED BY <2>1, <2>4, Zenon
<1>9. \A u, v \in Threads : pc'[u] = "publish" /\ seen'[u] = StackLocked(v) =>
                               owner'[hand'[u]] = Box(v)
  <2>1. pc'[t] # "publish"
    BY DEF Aside, PrivateLabels
  <2>2. \A u \in Threads : pc'[u] = "publish" =>
           pc[u] = "publish" /\ seen'[u] = seen[u] /\ hand'[u] = hand[u]
    BY <2>1, Zenon DEF OthersKeep
  <2>3. \A u, v \in Threads : pc[u] = "publish" /\ seen[u] = StackLocked(v) => owner[hand[u]] = Box(v)
    BY <1>0, Zenon DEF LockInv
  <2> QED BY <1>1, <2>2, <2>3
<1>10. ASSUME NEW m \in Monitors, mark' = Inflated(m)
       PROVE  /\ owner'[m] \notin Threads => recursions'[m] = 0
              /\ \A u \in Threads :
                    owner'[m] \in {u, Box(u)} /\ pc'[u] \notin {"enter_done", "wait_done"} =>
                       Cardinality(Counting(u)') = recursions'[m] + 1
  <2>1. mark = Inflated(m) /\ owner'[m] = owner[m] /\ recursions'[m] = recursions[m]
    BY <1>1, <1>10, Zenon
  <2>2. \A u \in Threads : pc[u] \in {"enter_done", "wait_done"} => pc'[u] \in {"enter_done", "wait_done"}
    <3>1. pc[t] \notin {"enter_done", "wait_done"}
      BY DEF Aside, LockLabels
    <3> QED BY <3>1, Zenon DEF OthersKeep
  <2>3. /\ owner[m] \notin Threads => recursions[m] = 0
        /\ \A u \in Threads :
              owner[m] \in {u, Box(u)} /\ pc[u] \notin {"enter_done", "wait_done"} =>
                 Cardinality(Counting(u)) = recursions[m] + 1
    BY <2>1, Monitored, Zenon
  <2> QED BY <1>2, <2>1, <2>2, <2>3, Zenon
<1> QED BY <1>5, <1>7, <1>8, <1>9, <1>10, Zenon DEF LockInv

\* A recursive enter or exit is a step aside.
LEMMA RecursingAside ==
    ASSUME CardFacts, IInv, NEW t \in Threads, Recursing(t)
    PROVE  Aside(t)
<1>1. /\ pc[t] = "java" /\ UNCHANGED <<mark, owner, recursions, pc, ret>>
  BY Zenon DEF Recursing, slow_enter_recursive, fast_exit_recursive, monitor
<1>b. \A v : Set(boxes, t, v)[t] = v
  BY SetAt, Zenon
<1>2. ASSUME slow_enter_recursive(t)
      PROVE  Counting(t)' = Counting(t) /\ (Holds(t)' <=> Holds(t))
  <2>1. boxes'[t] = Append(boxes[t], NULL) /\ mark = StackLocked(t)
    BY <1>2, <1>b, Zenon DEF slow_enter_recursive, Nest
  <2>2. boxes[t] # <<>>
    BY <2>1, Zenon DEF IInv, HeaderInv, Carried, Displacer
  <2>3. NULL \in Headers \cup {NULL, unused_mark}
    BY Zenon
  <2>4. Holds(t)' /\ Counting(t)' = Counting(t)
    BY <2>1, <2>3, Pushed, Zenon
  <2> QED BY <2>2, <2>4, Zenon DEF Holds
<1>3. ASSUME fast_exit_recursive(t)
      PROVE  Counting(t)' = Counting(t) /\ (Holds(t)' <=> Holds(t))
  <2>1. /\ boxes'[t] = SubSeq(boxes[t], 1, Len(boxes[t]) - 1) /\ boxes[t] # <<>>
        /\ Displaced(t) = NULL
    BY <1>3, <1>b, Zenon DEF fast_exit_recursive, Unnest, Holds
  <2>2. Holds(t)' /\ Counting(t)' = Counting(t)
    BY <2>1, Popped, Zenon
  <2> QED BY <2>1, <2>2, Zenon DEF Holds
<1>4. "java" \notin LockLabels /\ "java" \notin PrivateLabels /\ "java" \notin HandLabels
  BY DEF LockLabels, PrivateLabels, HandLabels
<1>5. Requesting(t) => Requesting(t)'
  BY <1>1, Zenon DEF Requesting
<1>6. Counting(t)' = Counting(t) /\ (Holds(t)' <=> Holds(t))
  BY <1>2, <1>3, Zenon DEF Recursing
<1> QED BY <1>1, <1>4, <1>5, <1>6, Zenon DEF Aside

\* A step of the pool is a step aside.
LEMMA PoolingAside ==
    ASSUME IInv, NEW t \in Threads, Pooling(t)
    PROVE  Aside(t)
<1>a. \A v : Goto(t, v) => pc'[t] = v
  BY SetAt DEF Goto
<1>1. UNCHANGED <<mark, owner, boxes, ret>>
  BY Zenon DEF Pooling, omAlloc, omAlloc_reprovision, omAlloc_new_block, inflate_retry, omFlush,
     monitor
<1>2. pc[t] \in {"alloc", "reprovision", "new_block", "inflate_locked", "inflate_neutral", "flush"}
  BY Zenon DEF Pooling, omAlloc, omAlloc_reprovision, omAlloc_new_block, inflate_retry, omFlush
<1>3. omAlloc(t) => pc'[t] \in {"inflate_locked", "inflate_neutral"}
  BY <1>a DEF omAlloc
<1>4. \/ omAlloc(t)
      \/ pc'[t] \in {"alloc", "inflate", "java"} /\ recursions' = recursions
  BY <1>a, Zenon DEF Pooling, omAlloc_reprovision, omAlloc_new_block, inflate_retry, omFlush, monitor
<1>5. /\ pc[t] \notin LockLabels /\ pc'[t] \notin LockLabels
      /\ pc[t] \notin PrivateLabels /\ pc'[t] \notin PrivateLabels
      /\ pc[t] # "enter_cas"
  BY <1>2, <1>3, <1>4 DEF LockLabels, PrivateLabels
<1>6. Requesting(t) => Requesting(t)'
  BY <1>1, <1>5, Zenon DEF Requesting
<1>7. Counting(t)' = Counting(t) /\ (Holds(t)' <=> Holds(t))
  BY <1>1, SameBoxes, Zenon
<1>8. ASSUME omAlloc(t)
      PROVE  \E m \in Monitors : /\ recursions' = Set(recursions, m, 0) /\ hand'[t] = m
                                 /\ mark # Inflated(m)
  <2>1. PICK m \in omFreeList[t] : recursions' = Set(recursions, m, 0) /\ hand' = Set(hand, t, m)
    BY <1>8, Zenon DEF omAlloc, First
  <2>2. m \in Monitors
    BY <2>1, TypesHold DEF ListType
  <2>3. mark # Inflated(m)
    BY <2>1, <2>2, Zenon DEF IInv, PoolInv, Pooled, InUse
  <2>4. hand'[t] = m
    BY <2>1, SetAt, Zenon
  <2> QED BY <2>1, <2>2, <2>3, <2>4, Zenon
<1>9. /\ \A m \in Monitors : \/ recursions'[m] = recursions[m]
                             \/ recursions'[m] = 0 /\ mark # Inflated(m)
      /\ pc'[t] \in HandLabels => recursions'[hand'[t]] = 0
  <2>1. CASE omAlloc(t)
    <3>1. PICK m \in Monitors : /\ recursions' = Set(recursions, m, 0) /\ hand'[t] = m
                                /\ mark # Inflated(m)
      BY <1>8, <2>1, Zenon
    <3>2. recursions'[m] = 0 /\ \A l \in Monitors \ {m} : recursions'[l] = recursions[l]
      BY <3>1, TypesHold DEF MonitorType, Set
    <3> QED BY <3>1, <3>2, Zenon
  <2>2. CASE pc'[t] \in {"alloc", "inflate", "java"} /\ recursions' = recursions
    <3>1. pc'[t] \notin HandLabels
      BY <2>2 DEF HandLabels, PrivateLabels
    <3> QED BY <2>2, <3>1, Zenon
  <2> QED BY <1>4, <2>1, <2>2, Zenon
<1> QED BY <1>1, <1>5, <1>6, <1>7, <1>9, Zenon DEF Aside

\* The steps that are aside.
LEMMA AsideSteps ==
    ASSUME CardFacts, IInv, NEW t \in Threads,
           Passing(t) \/ Recursing(t) \/ Pooling(t) \/ HashedMonitor(t) \/ monitor_enter_block(t)
    PROVE  Aside(t)
<1>1. ASSUME UNCHANGED <<mark, owner, recursions, boxes>>, Requesting(t) => Requesting(t)',
             pc[t] \notin BusyLabels \ {"blocked"}, pc'[t] \notin BusyLabels \ {"blocked"}
      PROVE  Aside(t)
  <2>1. Counting(t)' = Counting(t) /\ (Holds(t)' <=> Holds(t))
    BY <1>1, SameBoxes, Zenon
  <2>2. /\ pc[t] \notin LockLabels /\ pc'[t] \notin LockLabels
        /\ pc[t] \notin PrivateLabels /\ pc'[t] \notin PrivateLabels /\ pc'[t] \notin HandLabels
    BY <1>1 DEF LockLabels, BusyLabels, HandLabels, PrivateLabels, CountLabels, SleepLabels
  <2> QED BY <1>1, <2>1, <2>2, Zenon DEF Aside
<1>2. Passing(t) => Aside(t)
  BY <1>1, Zenon DEF Passing, monitor
<1>3. Local(t)
  BY TypesHold, Zenon DEF LocalInv
<1>4. ASSUME HashedMonitor(t) PROVE Aside(t)
  <2>1. UNCHANGED <<mark, owner, recursions, boxes>> /\ pc[t] = "hash_mcas" /\ pc'[t] = "java"
    BY <1>4, Zenon DEF HashedMonitor
  <2>2. ~ Requesting(t)
    BY <1>3, <2>1 DEF Requesting, Local
  <2>3. pc[t] \notin BusyLabels \ {"blocked"} /\ pc'[t] \notin BusyLabels \ {"blocked"}
    BY <2>1 DEF BusyLabels, HandLabels, PrivateLabels, CountLabels, SleepLabels
  <2> QED BY <1>1, <2>1, <2>2, <2>3, Zenon
<1>5. ASSUME monitor_enter_block(t) PROVE Aside(t)
  <2>0. \A v : Goto(t, v) => pc'[t] = v
    BY SetAt DEF Goto
  <2>1. UNCHANGED <<mark, owner, recursions, boxes, ret>> /\ pc[t] = "enter" /\ pc'[t] = "blocked"
    BY <1>5, <2>0, Zenon DEF monitor_enter_block
  <2>2. Requesting(t) => Requesting(t)'
    BY <2>1 DEF Requesting
  <2>3. pc[t] \notin BusyLabels \ {"blocked"} /\ pc'[t] \notin BusyLabels \ {"blocked"}
    BY <2>1 DEF BusyLabels, HandLabels, PrivateLabels, CountLabels, SleepLabels
  <2> QED BY <1>1, <2>1, <2>2, <2>3, Zenon
<1> QED BY <1>2, <1>4, <1>5, RecursingAside, PoolingAside, Zenon

\* A step of t, as a step of the monitor: t stays as it is, it enters, it leaves
\* or waits, or its wait() is over.
Moving(t) ==
    \/ /\ pc[t] \notin {"waiting", "reenter"} /\ pc'[t] \notin {"waiting", "reenter"}
       /\ In(t)' <=> In(t)
       /\ In(t) \/ (Requesting(t) => Requesting(t)')
    \/ pc[t] # "waiting" /\ (\A u \in Threads : ~ In(u)) /\ In(t)'
    \/ In(t) /\ (pc'[t] = "waiting" \/ (pc'[t] = "java" /\ ret'[t] = NULL))
    \/ pc[t] = "waiting" /\ pc'[t] = "reenter" /\ t \in Waiters

\* What a step aside is to the abstract monitor.
LEMMA AsideMoves ==
    ASSUME NEW t \in Threads, Aside(t)
    PROVE  Moving(t)
<1>1. pc[t] \notin {"waiting", "reenter"} /\ pc'[t] \notin {"waiting", "reenter"}
  BY DEF Aside, LockLabels
<1> QED BY <1>1, AsideIn, Zenon DEF Moving, Aside

\* The steps of a thread that is at the object's monitor.
LEMMA AtMonitor ==
    ASSUME IInv, InflatingInv', NEW t \in Threads, OthersKeep(t), mark' = mark,
           NEW m \in Monitors, mark = Inflated(m),
           \A l \in Monitors \ {m} : recursions'[l] = recursions[l],
           \/ owner'[m] = owner[m] /\ recursions'[m] = recursions[m]
           \/ owner[m] \in {NULL, t, Box(t)} /\ owner'[m] \in {NULL, t},
           pc'[t] \notin HandLabels,
           In(t)' <=> owner'[m] \in {t, Box(t)},
           pc'[t] \in {"enter_done", "wait_done"} =>
              mon'[t] = m /\ owner'[m] = t /\ recursions'[m] = 0,
           owner'[m] \notin Threads => recursions'[m] = 0,
           owner'[m] \in {t, Box(t)} /\ pc'[t] \notin {"enter_done", "wait_done"} =>
              Cardinality(Counting(t)') = recursions'[m] + 1
    PROVE  LockInv'
<1>0. LockInv
  BY Zenon DEF IInv
<1>1. ASSUME NEW u \in Threads \ {t}
      PROVE  /\ owner'[m] \in {u, Box(u)} <=> owner[m] \in {u, Box(u)}
             /\ owner[m] \in {u, Box(u)} => recursions'[m] = recursions[m]
  <2>1. u # t /\ NULL \notin {u, Box(u)} /\ t \notin {u, Box(u)} /\ Box(t) \notin {u, Box(u)}
    BY OneOwner, Zenon
  <2> QED BY <2>1, Zenon
<1>2. /\ \A u \in Threads : In(u) <=> owner[m] \in {u, Box(u)}
      /\ \A u \in Threads : pc[u] \in MonLabels => mon[u] = m
      /\ \A u \in Threads :
            owner[m] \in {u, Box(u)} /\ pc[u] \notin {"enter_done", "wait_done"} =>
               Cardinality(Counting(u)) = recursions[m] + 1
  BY Monitored, Zenon
<1>3. \A u \in Threads : In(u)' <=> owner'[m] \in {u, Box(u)}
  <2>1. \A u \in Threads \ {t} : In(u)' <=> In(u)
    BY OthersIn, Zenon
  <2> QED BY <1>1, <1>2, <2>1, Zenon
<1>4. \A u \in Threads : pc'[u] \in {"enter_done", "wait_done"} =>
         mon'[u] = m /\ owner'[m] = u /\ recursions'[m] = 0
  <2>1. ASSUME NEW u \in Threads \ {t}, pc'[u] \in {"enter_done", "wait_done"}
        PROVE  mon'[u] = m /\ owner'[m] = u /\ recursions'[m] = 0
    <3>1. pc[u] = pc'[u] /\ mon'[u] = mon[u]
      BY Zenon DEF OthersKeep
    <3>2. pc[u] \in MonLabels
      BY <2>1, <3>1 DEF MonLabels, CountLabels, SleepLabels
    <3>3. mon[u] = m /\ owner[mon[u]] = u /\ recursions[mon[u]] = 0
      BY <1>0, <1>2, <2>1, <3>1, <3>2, Zenon DEF LockInv
    <3>4. owner[m] = u /\ recursions[m] = 0
      BY <3>3
    <3>5. u \notin {NULL, t, Box(t)}
      BY OneOwner, Zenon
    <3> QED BY <3>1, <3>3, <3>4, <3>5, <1>1, Zenon
  <2> QED BY <2>1, Zenon
<1>5. \A u \in Threads : pc'[u] \in HandLabels => recursions'[hand'[u]] = 0
  <2>1. ASSUME NEW u \in Threads \ {t}, pc'[u] \in HandLabels PROVE recursions'[hand'[u]] = 0
    <3>1. pc[u] = pc'[u] /\ hand'[u] = hand[u]
      BY Zenon DEF OthersKeep
    <3>2. hand[u] \in Monitors
      BY <2>1, <3>1, TypesHold, Zenon DEF LocalInv, Local
    <3>3. hand[u] # m
      BY <2>1, <3>1, <3>2, Zenon DEF IInv, PoolInv
    <3>4. recursions[hand[u]] = 0
      BY <1>0, <2>1, <3>1, Zenon DEF LockInv
    <3> QED BY <3>1, <3>2, <3>3, <3>4, Zenon
  <2> QED BY <2>1, Zenon
<1>6. \A u \in Threads :
         owner'[m] \in {u, Box(u)} /\ pc'[u] \notin {"enter_done", "wait_done"} =>
            Cardinality(Counting(u)') = recursions'[m] + 1
  <2>1. ASSUME NEW u \in Threads \ {t},
               owner'[m] \in {u, Box(u)}, pc'[u] \notin {"enter_done", "wait_done"}
        PROVE  Cardinality(Counting(u)') = recursions'[m] + 1
    <3>1. pc[u] = pc'[u]
      BY Zenon DEF OthersKeep
    <3>2. Counting(u)' = Counting(u)
      BY OthersIn, Zenon
    <3>3. Cardinality(Counting(u)) = recursions[m] + 1 /\ recursions'[m] = recursions[m]
      BY <1>1, <1>2, <2>1, <3>1, Zenon
    <3> QED BY <3>2, <3>3, Zenon
  <2> QED BY <2>1, Zenon
<1> QED BY <1>3, <1>4, <1>5, <1>6, InflatedNext, Zenon

\* A step that sets one monitor's field leaves the others alone.
LEMMA SetMonitor ==
    ASSUME IInv, NEW m \in Monitors, NEW v
    PROVE  /\ Set(owner, m, v)[m] = v
           /\ Set(recursions, m, v)[m] = v
           /\ \A l \in Monitors \ {m} : Set(recursions, m, v)[l] = recursions[l]
BY TypesHold DEF MonitorType, Set

\* The thread of a step that ends an operation with a push on its stack.
LEMMA PushedIn ==
    ASSUME CardFacts, IInv, NEW t \in Threads, boxes' = Set(boxes, t, Append(boxes[t], unused_mark)),
           Back(t)
    PROVE  /\ In(t)' /\ pc'[t] = "java" /\ ret'[t] = NULL
           /\ pc'[t] \notin HandLabels /\ pc'[t] \notin {"enter_done", "wait_done"}
           /\ Cardinality(Counting(t)') = Cardinality(Counting(t)) + 1
           /\ boxes[t] = <<>> => Cardinality(Counting(t)') = 1
<1>1. boxes'[t] = Append(boxes[t], unused_mark)
  BY SetAt, Zenon
<1>2. pc'[t] = "java" /\ ret'[t] = NULL
  BY Ended, Zenon
<1>3. unused_mark \in Headers \cup {NULL, unused_mark} /\ unused_mark # NULL
  BY DistinctAssumption
<1>4. /\ Holds(t)' /\ Cardinality(Counting(t)') = Cardinality(Counting(t)) + 1
      /\ boxes[t] = <<>> => Counting(t)' = {1}
  BY <1>1, <1>3, Pushed, Zenon
<1>5. Cardinality({1}) = 1
  BY Zenon DEF CardFacts
<1>6. pc'[t] \notin HandLabels /\ pc'[t] \notin {"enter_done", "wait_done"}
  BY <1>2 DEF HandLabels, PrivateLabels
<1>7. In(t)'
  BY <1>2, <1>4 DEF In
<1> QED BY <1>2, <1>4, <1>5, <1>6, <1>7, Zenon

\* ObjectMonitor::enter() takes a free monitor, or enters again (objectMonitor.cpp:318-347).
LEMMA EnterLock ==
    ASSUME CardFacts, IInv, InflatingInv', NEW t \in Threads, OthersKeep(t), monitor_enter(t)
    PROVE  LockInv' /\ Moving(t)
<1>1. pc[t] = "enter" /\ pc[t] \in MonLabels
  BY DEF monitor_enter, MonLabels, Ops
<1>2. PICK m \in Monitors : m = mon[t] /\ mark = Inflated(m)
  BY <1>1, OnMonitor, Zenon
<1>3. /\ \/ owner[m] = NULL /\ recursions' = recursions
         \/ owner[m] = t /\ recursions' = Set(recursions, m, recursions[m] + 1)
         \/ owner[m] = Box(t) /\ recursions' = Set(recursions, m, 1)
      /\ owner' = Set(owner, m, t) /\ mark' = mark
      /\ boxes' = Set(boxes, t, Append(boxes[t], unused_mark)) /\ Back(t)
  BY <1>2, Zenon DEF monitor_enter, Nest
<1>4. /\ \/ owner[m] = NULL /\ recursions'[m] = recursions[m]
         \/ owner[m] = t /\ recursions'[m] = recursions[m] + 1
         \/ owner[m] = Box(t) /\ recursions'[m] = 1
      /\ owner'[m] = t
      /\ \A l \in Monitors \ {m} : recursions'[l] = recursions[l]
  <2>1. \A v : /\ Set(owner, m, v)[m] = v
               /\ Set(recursions, m, v)[m] = v
               /\ \A l \in Monitors \ {m} : Set(recursions, m, v)[l] = recursions[l]
    BY SetMonitor, Zenon
  <2> QED BY <1>3, <2>1
<1>5. /\ In(t)' /\ pc'[t] = "java" /\ ret'[t] = NULL
      /\ pc'[t] \notin HandLabels /\ pc'[t] \notin {"enter_done", "wait_done"}
      /\ Cardinality(Counting(t)') = Cardinality(Counting(t)) + 1
      /\ boxes[t] = <<>> => Cardinality(Counting(t)') = 1
  BY <1>3, PushedIn, Zenon
<1>6. /\ \A u \in Threads : In(u) <=> owner[m] \in {u, Box(u)}
      /\ owner[m] \notin Threads => recursions[m] = 0
      /\ owner[m] \in {t, Box(t)} /\ pc[t] \notin {"enter_done", "wait_done"} =>
            Cardinality(Counting(t)) = recursions[m] + 1
      /\ recursions[m] \in Nat
  BY <1>2, Monitored, Zenon
<1>7. pc[t] \notin {"enter_done", "wait_done"} /\ pc[t] \notin {"waiting", "reenter", "wait_done"}
  BY <1>1
<1>8. Cardinality(Counting(t)') = recursions'[m] + 1
  <2>1. CASE owner[m] = NULL /\ recursions'[m] = recursions[m]
    <3>1. NULL \notin {t, Box(t)} /\ NULL \notin Threads
      BY OneOwner, NullFacts, Zenon
    <3>2. ~ In(t) /\ recursions[m] = 0
      BY <1>6, <2>1, <3>1, Zenon
    <3>3. boxes[t] = <<>>
      BY <1>7, <3>2 DEF In, Holds
    <3>4. Cardinality(Counting(t)') = 1 /\ recursions'[m] = 0
      BY <1>5, <2>1, <3>2, <3>3, Zenon
    <3> QED BY <3>4
  <2>2. CASE owner[m] = t /\ recursions'[m] = recursions[m] + 1
    <3>1. Cardinality(Counting(t)) = recursions'[m]
      BY <1>6, <1>7, <2>2, Zenon
    <3> QED BY <1>5, <3>1
  <2>3. CASE owner[m] = Box(t) /\ recursions'[m] = 1
    <3>1. recursions[m] = 0 /\ Cardinality(Counting(t)) = recursions[m] + 1
      BY <1>6, <1>7, <2>3, OneOwner, Zenon
    <3> QED BY <1>5, <2>3, <3>1
  <2> QED BY <1>4, <2>1, <2>2, <2>3, Zenon
<1>9. LockInv'
  <2>1. owner[m] \in {NULL, t, Box(t)} /\ owner'[m] \in {NULL, t} /\ owner'[m] \in Threads
    BY <1>4, Zenon
  <2> QED BY <1>2, <1>3, <1>4, <1>5, <1>8, <2>1, AtMonitor, Zenon
<1>10. (\A u \in Threads : ~ In(u)) \/ In(t)
  <2>1. owner[m] = NULL \/ owner[m] \in {t, Box(t)}
    BY <1>4, Zenon
  <2>2. \A u \in Threads : NULL \notin {u, Box(u)}
    BY OneOwner, Zenon
  <2>3. CASE owner[m] = NULL
    BY <1>6, <2>2, <2>3, Zenon
  <2>4. CASE owner[m] \in {t, Box(t)}
    BY <1>6, <2>4, Zenon
  <2> QED BY <2>1, <2>3, <2>4, Zenon
<1>11. pc[t] # "waiting"
  BY <1>1
<1> QED BY <1>5, <1>9, <1>10, <1>11, Zenon DEF Moving

\* EnterI() or ReenterI() gets the monitor by TryLock (objectMonitor.cpp:481-498).
LEMMA AcquireLock ==
    ASSUME IInv, InflatingInv', NEW t \in Threads, OthersKeep(t), EnterI(t) \/ ReenterI(t)
    PROVE  LockInv' /\ Moving(t)
<1>a. \A v : Goto(t, v) => pc'[t] = v
  BY SetAt DEF Goto
<1>1. pc[t] \in {"blocked", "reenter"} /\ pc'[t] \in {"enter_done", "wait_done"}
  BY <1>a, Zenon DEF EnterI, ReenterI, Acquire
<1>2. PICK m \in Monitors : m = mon[t] /\ mark = Inflated(m)
  <2>1. pc[t] \in MonLabels
    BY <1>1 DEF MonLabels, CountLabels, SleepLabels
  <2> QED BY <2>1, OnMonitor, Zenon
<1>3. /\ mark' = mark /\ mon' = mon /\ recursions' = recursions
      /\ owner[m] = NULL /\ owner' = Set(owner, m, t)
  BY <1>2, Zenon DEF EnterI, ReenterI, Acquire, locals
<1>4. owner'[m] = t /\ mon'[t] = m
  BY <1>2, <1>3, SetMonitor, Zenon
<1>5. /\ NULL \notin Threads /\ \A u \in Threads : NULL \notin {u, Box(u)}
  BY OneOwner, NullFacts, Zenon
<1>6. /\ \A u \in Threads : In(u) <=> owner[m] \in {u, Box(u)}
      /\ owner[m] \notin Threads => recursions[m] = 0
  BY <1>2, Monitored, Zenon
<1>7. recursions'[m] = 0 /\ \A u \in Threads : ~ In(u)
  BY <1>3, <1>5, <1>6, Zenon
<1>8. In(t)' /\ pc'[t] \notin HandLabels /\ pc[t] # "waiting"
  BY <1>1 DEF In, HandLabels, PrivateLabels
<1>9. LockInv'
  <2>1. /\ owner[m] \in {NULL, t, Box(t)} /\ owner'[m] \in {NULL, t} /\ owner'[m] \in Threads
        /\ \A l \in Monitors \ {m} : recursions'[l] = recursions[l]
    BY <1>3, <1>4, Zenon
  <2> QED BY <1>1, <1>2, <1>3, <1>4, <1>7, <1>8, <2>1, AtMonitor, Zenon
<1> QED BY <1>7, <1>8, <1>9, Zenon DEF Moving

\* enter() returns after it blocked.
LEMMA EnterDoneLock ==
    ASSUME CardFacts, IInv, InflatingInv', NEW t \in Threads, OthersKeep(t), monitor_enter_done(t)
    PROVE  LockInv' /\ Moving(t)
<1>1. /\ pc[t] = "enter_done" /\ mark' = mark /\ owner' = owner /\ recursions' = recursions
      /\ boxes' = Set(boxes, t, Append(boxes[t], unused_mark)) /\ Back(t)
  BY Zenon DEF monitor_enter_done, Nest
<1>2. PICK m \in Monitors : m = mon[t] /\ mark = Inflated(m)
  <2>1. pc[t] \in MonLabels
    BY <1>1 DEF MonLabels, CountLabels
  <2> QED BY <2>1, OnMonitor, Zenon
<1>3. boxes[t] = <<>>
  <2>1. pc[t] \in CountLabels
    BY <1>1 DEF CountLabels
  <2> QED BY <2>1, Zenon DEF IInv, BoxInv, Boxed
<1>4. owner[m] = t /\ recursions[m] = 0
  BY <1>1, <1>2, Zenon DEF IInv, LockInv
<1>5. /\ In(t)' /\ pc'[t] = "java" /\ ret'[t] = NULL
      /\ pc'[t] \notin HandLabels /\ pc'[t] \notin {"enter_done", "wait_done"}
      /\ Cardinality(Counting(t)') = 1
  BY <1>1, <1>3, PushedIn, Zenon
<1>6. owner'[m] = t /\ recursions'[m] = 0
  BY <1>1, <1>4, Zenon
<1>7. Cardinality(Counting(t)') = recursions'[m] + 1
  BY <1>5, <1>6
<1>8. In(t)
  BY <1>1 DEF In
<1>9. LockInv'
  BY <1>1, <1>2, <1>4, <1>5, <1>6, <1>7, AtMonitor, Zenon
<1> QED BY <1>5, <1>8, <1>9, Zenon DEF Moving

\* ObjectMonitor::exit(), recursive or not (objectMonitor.cpp:954-1012).
LEMMA ExitLock ==
    ASSUME CardFacts, IInv, InflatingInv', NEW t \in Threads, OthersKeep(t),
           monitor_exit_recursive(t) \/ monitor_exit(t)
    PROVE  LockInv' /\ Moving(t)
<1>1. /\ pc[t] = "exit" /\ mark' = mark /\ Back(t)
      /\ boxes' = Set(boxes, t, SubSeq(boxes[t], 1, Len(boxes[t]) - 1))
  BY Zenon DEF monitor_exit_recursive, monitor_exit, Unnest
<1>2. PICK m \in Monitors : m = mon[t] /\ mark = Inflated(m)
  <2>1. pc[t] \in MonLabels
    BY <1>1 DEF MonLabels, Ops
  <2> QED BY <2>1, OnMonitor, Zenon
<1>3. pc'[t] = "java" /\ ret'[t] = NULL
  BY <1>1, Ended, Zenon
<1>4. Holds(t) /\ Displaced(t) # NULL
  <2>1. ret[t] = "exit"
    BY <1>1, TypesHold DEF LocalInv, Local, Ops
  <2>2. ret[t] \in {"exit", "wait"}
    BY <2>1
  <2> QED BY <2>1, <2>2, Zenon DEF IInv, BoxInv, Boxed
<1>5. /\ Cardinality(Counting(t)') = Cardinality(Counting(t)) - 1
      /\ Holds(t)' <=> Cardinality(Counting(t)) # 1
  <2>1. boxes'[t] = SubSeq(boxes[t], 1, Len(boxes[t]) - 1)
    BY <1>1, SetAt, Zenon
  <2> QED BY <1>4, <2>1, Popped, Zenon DEF Holds
<1>6. In(t) /\ pc[t] \notin {"enter_done", "wait_done"}
  BY <1>1, <1>4 DEF In
<1>7. /\ owner[m] \in {t, Box(t)} /\ recursions[m] \in Nat
      /\ Cardinality(Counting(t)) = recursions[m] + 1
  BY <1>2, <1>6, Monitored, Zenon
<1>8. (In(t)' <=> Holds(t)') /\ pc'[t] \notin HandLabels /\ pc'[t] \notin {"enter_done", "wait_done"}
  BY <1>3 DEF In, HandLabels, PrivateLabels
<1>9. ASSUME monitor_exit_recursive(t) PROVE LockInv'
  <2>1. /\ recursions[m] # 0 /\ owner' = Set(owner, m, t)
        /\ recursions' = Set(recursions, m, recursions[m] - 1)
    BY <1>2, <1>9, Zenon DEF monitor_exit_recursive
  <2>a. owner'[m] = t
    BY <2>1, SetMonitor, Zenon
  <2>b. /\ recursions'[m] = recursions[m] - 1
        /\ \A l \in Monitors \ {m} : recursions'[l] = recursions[l]
    BY <2>1, SetMonitor
  <2>2. /\ owner'[m] = t /\ recursions'[m] = recursions[m] - 1
        /\ \A l \in Monitors \ {m} : recursions'[l] = recursions[l]
    BY <2>a, <2>b, Zenon
  <2>3. Cardinality(Counting(t)) # 1 /\ Cardinality(Counting(t)') = recursions'[m] + 1
    BY <1>5, <1>7, <2>1, <2>2
  <2>4. In(t)' /\ owner[m] \in {NULL, t, Box(t)} /\ owner'[m] \in {NULL, t}
    BY <1>5, <1>7, <1>8, <2>2, <2>3, Zenon
  <2> QED BY <1>1, <1>2, <1>8, <2>2, <2>3, <2>4, AtMonitor, Zenon
<1>10. ASSUME monitor_exit(t) PROVE LockInv'
  <2>1. recursions[m] = 0 /\ owner' = Set(owner, m, NULL) /\ recursions' = recursions
    BY <1>2, <1>10, Zenon DEF monitor_exit
  <2>2. /\ owner'[m] = NULL /\ recursions'[m] = 0
        /\ \A l \in Monitors \ {m} : recursions'[l] = recursions[l]
    BY <2>1, SetMonitor, Zenon
  <2>3. Cardinality(Counting(t)) = 1
    BY <1>7, <2>1
  <2>4. /\ ~ In(t)' /\ owner[m] \in {NULL, t, Box(t)} /\ owner'[m] \in {NULL, t}
        /\ owner'[m] \notin {t, Box(t)}
    BY <1>5, <1>7, <1>8, <2>2, <2>3, OneOwner, Zenon
  <2> QED BY <1>1, <1>2, <1>8, <2>2, <2>4, AtMonitor, Zenon
<1> QED BY <1>3, <1>6, <1>9, <1>10, Zenon DEF Moving

\* wait() saves the recursions and releases the monitor (objectMonitor.cpp:1523-1527).
LEMMA WaitLock ==
    ASSUME IInv, InflatingInv', NEW t \in Threads, OthersKeep(t), monitor_wait(t)
    PROVE  LockInv' /\ Moving(t)
<1>a. \A v : Goto(t, v) => pc'[t] = v
  BY SetAt DEF Goto
<1>1. pc[t] = "wait" /\ mark' = mark /\ pc'[t] = "waiting"
  BY <1>a, Zenon DEF monitor_wait
<1>2. PICK m \in Monitors : m = mon[t] /\ mark = Inflated(m)
  <2>1. pc[t] \in MonLabels
    BY <1>1 DEF MonLabels, Ops
  <2> QED BY <2>1, OnMonitor, Zenon
<1>3. recursions' = Set(recursions, m, 0) /\ owner' = Set(owner, m, NULL)
  BY <1>2, Zenon DEF monitor_wait
<1>4. /\ owner'[m] = NULL /\ recursions'[m] = 0
      /\ \A l \in Monitors \ {m} : recursions'[l] = recursions[l]
  BY <1>3, SetMonitor
<1>5. Holds(t)
  <2>1. ret[t] \in {"exit", "wait"}
    BY <1>1, TypesHold DEF LocalInv, Local, Ops
  <2> QED BY <2>1, Zenon DEF IInv, BoxInv, Boxed
<1>6. In(t)
  BY <1>1, <1>5 DEF In
<1>7. /\ ~ In(t)' /\ pc'[t] \notin HandLabels /\ pc'[t] \notin {"enter_done", "wait_done"}
  BY <1>1 DEF In, HandLabels, PrivateLabels
<1>8. /\ owner[m] \in {NULL, t, Box(t)} /\ owner'[m] \in {NULL, t} /\ owner'[m] \notin {t, Box(t)}
  <2>1. owner[m] \in {t, Box(t)}
    BY <1>2, <1>6, Monitored, Zenon
  <2> QED BY <1>4, <2>1, OneOwner, Zenon
<1>9. LockInv'
  BY <1>1, <1>2, <1>4, <1>7, <1>8, AtMonitor, Zenon
<1> QED BY <1>1, <1>6, <1>9, Zenon DEF Moving

\* A waiter is notified, interrupted or times out.
LEMMA WokenLock ==
    ASSUME IInv, InflatingInv', NEW t \in Threads, OthersKeep(t), Woken(t)
    PROVE  LockInv' /\ Moving(t)
<1>a. \A v : Goto(t, v) => pc'[t] = v
  BY SetAt DEF Goto
<1>1. /\ pc[t] = "waiting" /\ mark' = mark /\ pc'[t] = "reenter"
      /\ owner' = owner /\ recursions' = recursions
  BY <1>a, Zenon DEF Woken, monitor
<1>2. PICK m \in Monitors : m = mon[t] /\ mark = Inflated(m)
  <2>1. pc[t] \in MonLabels
    BY <1>1, Zenon DEF MonLabels, SleepLabels
  <2> QED BY <2>1, OnMonitor, Zenon
<1>3. t \in Waiters
  BY <1>1, TypesHold, Zenon DEF LocalInv, Local, SleepLabels
<1>4. /\ ~ In(t) /\ ~ In(t)' /\ pc'[t] \notin HandLabels /\ pc'[t] \notin {"enter_done", "wait_done"}
  BY <1>1 DEF In, HandLabels, PrivateLabels
<1>5. /\ In(t) <=> owner[m] \in {t, Box(t)}
      /\ owner[m] \notin Threads => recursions[m] = 0
  BY <1>2, Monitored, Zenon
<1>6. /\ owner'[m] = owner[m] /\ recursions'[m] = recursions[m]
      /\ \A l \in Monitors \ {m} : recursions'[l] = recursions[l]
  BY <1>1, Zenon
<1>7. /\ owner'[m] \notin {t, Box(t)} /\ (owner'[m] \notin Threads => recursions'[m] = 0)
  BY <1>4, <1>5, <1>6, Zenon
<1>8. LockInv'
  BY <1>1, <1>2, <1>4, <1>6, <1>7, AtMonitor, Zenon
<1> QED BY <1>1, <1>3, <1>8, Zenon DEF Moving

\* wait() restores the recursions (objectMonitor.cpp:1661-1668).
LEMMA WaitDoneLock ==
    ASSUME IInv, InflatingInv', NEW t \in Threads, OthersKeep(t), monitor_wait_done(t)
    PROVE  LockInv' /\ Moving(t)
<1>1. /\ pc[t] = "wait_done" /\ mark' = mark /\ owner' = owner /\ boxes' = boxes /\ Back(t)
  BY Zenon DEF monitor_wait_done
<1>2. PICK m \in Monitors : m = mon[t] /\ mark = Inflated(m)
  <2>1. pc[t] \in MonLabels
    BY <1>1, Zenon DEF MonLabels, SleepLabels
  <2> QED BY <2>1, OnMonitor, Zenon
<1>3. /\ recursions'[m] = save[t]
      /\ \A l \in Monitors \ {m} : recursions'[l] = recursions[l]
  <2>1. recursions' = Set(recursions, m, save[t])
    BY <1>2, Zenon DEF monitor_wait_done
  <2> QED BY <2>1, SetMonitor
<1>4. Holds(t) /\ Cardinality(Counting(t)) = save[t] + 1
  <2>1. pc[t] \in SleepLabels
    BY <1>1 DEF SleepLabels
  <2> QED BY <2>1, Zenon DEF IInv, BoxInv, Boxed
<1>5. owner[m] = t
  BY <1>1, <1>2, Zenon DEF IInv, LockInv
<1>6. Counting(t)' = Counting(t) /\ (Holds(t)' <=> Holds(t))
  BY <1>1, SameBoxes, Zenon
<1>7. pc'[t] = "java" /\ ret'[t] = NULL
  BY <1>1, Ended, Zenon
<1>8. /\ In(t) /\ In(t)' /\ pc'[t] \notin HandLabels /\ pc'[t] \notin {"enter_done", "wait_done"}
  BY <1>1, <1>4, <1>6, <1>7, Zenon DEF In, HandLabels, PrivateLabels
<1>9. /\ owner'[m] = t /\ Cardinality(Counting(t)') = recursions'[m] + 1
  BY <1>1, <1>3, <1>4, <1>5, <1>6, Zenon
<1>10. LockInv'
  BY <1>1, <1>2, <1>3, <1>5, <1>8, <1>9, AtMonitor, Zenon
<1> QED BY <1>7, <1>8, <1>10, Zenon DEF Moving

\* The steps at the object's monitor keep the lock accounted for.
LEMMA HeavyLock ==
    ASSUME CardFacts, IInv, InflatingInv', NEW t \in Threads, OthersKeep(t), Heavy(t)
    PROVE  LockInv' /\ Moving(t)
<1>1. ASSUME monitor_enter_block(t) PROVE LockInv' /\ Moving(t)
  BY <1>1, AsideSteps, AsideKeeps, AsideMoves, Zenon
<1> QED BY <1>1, EnterLock, AcquireLock, EnterDoneLock, ExitLock, WaitLock, WokenLock,
           WaitDoneLock, Zenon DEF Heavy

\* The steps that write the mark keep the lock accounted for.
LEMMA MarkedLock ==
    ASSUME CardFacts, IInv, InflatingInv', NEW t \in Threads, OthersKeep(t), Marked(t)
    PROVE  LockInv'
<1>1. ASSUME HashedMonitor(t) PROVE LockInv'
  BY <1>1, AsideSteps, AsideKeeps, Zenon
<1>2. ASSUME NEW w \in Threads, Seized(t, w) \/ Copied(t, w) \/ Published(t, w) PROVE LockInv'
  BY <1>2, SeizedLock, PublishedLock, Zenon
<1>3. ASSUME Stacked(t) \/ Unstacked(t) \/ Converted(t) \/ HashedMark(t) PROVE LockInv'
  BY <1>3, StackedLock, UnstackedLock, ConvertedLock, Zenon
<1> QED BY <1>1, <1>2, <1>3, Zenon DEF Marked

\* Who has the object is what the mark, the owner and the BasicLocks say.
LEMMA LockNext ==
    ASSUME CardFacts, IInv, Next, InflatingInv'
    PROVE  LockInv'
<1>1. ASSUME NEW m \in Monitors, Deflated(m) PROVE LockInv'
  BY <1>1, DeflateLock, Zenon
<1>2. ASSUME NEW t \in Threads, Step(t), OthersKeep(t) PROVE LockInv'
  <2>1. Passing(t) \/ Recursing(t) \/ Pooling(t) => LockInv'
    BY <1>2, AsideSteps, AsideKeeps, Zenon
  <2>2. Marking(t) => LockInv'
    BY <1>2, MarkSteps, MarkedLock, Zenon
  <2>3. Heavy(t) => LockInv'
    BY <1>2, HeavyLock, Zenon
  <2> QED BY <1>2, <2>1, <2>2, <2>3, Kinds, Zenon
<1> QED BY <1>1, <1>2, Next1, Zenon

------------------------------------------------------------------------------
\* The lock is a monitor: what a thread's status is, before and after a step.
LEMMA StatusIs ==
    ASSUME NEW t \in Threads
    PROVE  /\ pc[t] = "waiting" => status[t] = "waiting"
           /\ pc[t] = "reenter" => status[t] = "entering"
           /\ In(t) => status[t] = "in"
           /\ pc[t] \notin {"waiting", "reenter"} /\ ~ In(t) =>
                 /\ Requesting(t) => status[t] = "entering"
                 /\ ~ Requesting(t) => status[t] = "out"
BY DEF status, In, Requesting

\* StatusIs, of the state after a step.
LEMMA StatusNext ==
    ASSUME NEW t \in Threads
    PROVE  /\ pc'[t] = "waiting" => status'[t] = "waiting"
           /\ pc'[t] = "reenter" => status'[t] = "entering"
           /\ In(t)' => status'[t] = "in"
           /\ pc'[t] \notin {"waiting", "reenter"} /\ ~ In(t)' =>
                 /\ Requesting(t)' => status'[t] = "entering"
                 /\ ~ Requesting(t)' => status'[t] = "out"
BY DEF status, In, Requesting

\* What a thread's status may become.
Move(t) ==
    \/ status'[t] = status[t]
    \/ status[t] = "out" /\ status'[t] = "entering"
    \/ /\ status[t] \in {"out", "entering"} /\ status'[t] = "in"
       /\ \A u \in Threads : status[u] # "in"
    \/ status[t] = "in" /\ status'[t] \in {"out", "waiting"}
    \/ status[t] = "waiting" /\ status'[t] = "entering" /\ t \in Waiters

\* A move of a thread as its status tells it.
LEMMA MovingMoves ==
    ASSUME NEW t \in Threads, Moving(t)
    PROVE  Move(t)
<1>1. CASE /\ pc[t] \notin {"waiting", "reenter"} /\ pc'[t] \notin {"waiting", "reenter"}
           /\ In(t)' <=> In(t)
           /\ In(t) \/ (Requesting(t) => Requesting(t)')
  <2>1. status'[t] = status[t] \/ (status[t] = "out" /\ status'[t] = "entering")
    BY <1>1, StatusIs, StatusNext, Zenon
  <2> QED BY <2>1, Zenon DEF Move
<1>2. CASE pc[t] # "waiting" /\ (\A u \in Threads : ~ In(u)) /\ In(t)'
  <2>1. \A u \in Threads : status[u] # "in"
    <3>1. ASSUME NEW u \in Threads PROVE status[u] # "in"
      <4>1. status[u] \in {"waiting", "entering", "out"}
        BY <1>2, StatusIs, Zenon
      <4> QED BY <4>1
    <3> QED BY <3>1, Zenon
  <2>2. status[t] \in {"out", "entering"} /\ status'[t] = "in"
    BY <1>2, StatusIs, StatusNext, Zenon
  <2> QED BY <2>1, <2>2, Zenon DEF Move
<1>3. CASE In(t) /\ (pc'[t] = "waiting" \/ (pc'[t] = "java" /\ ret'[t] = NULL))
  <2>1. pc'[t] = "java" /\ ret'[t] = NULL => pc'[t] \notin {"waiting", "reenter"} /\ ~ Requesting(t)'
    BY NullFacts, DistinctAssumption DEF Requesting
  <2>2. status[t] = "in" /\ status'[t] \in {"in", "out", "waiting"}
    BY <1>3, <2>1, StatusIs, StatusNext, Zenon
  <2> QED BY <2>2, Zenon DEF Move
<1>4. CASE pc[t] = "waiting" /\ pc'[t] = "reenter" /\ t \in Waiters
  BY <1>4, StatusIs, StatusNext, Zenon DEF Move
<1> QED BY <1>1, <1>2, <1>3, <1>4, Zenon DEF Moving

\* A move of one thread's status is a step of the abstract monitor.
LEMMA MonitorMoves ==
    ASSUME NEW t \in Threads, OthersKeep(t), Move(t)
    PROVE  [A!Next]_status
<1>1. status' = [status EXCEPT ![t] = status'[t]] /\ (status'[t] = status[t] => status' = status)
  <2>1. status = [u \in Threads |-> status[u]] /\ status' = [u \in Threads |-> status'[u]]
    BY DEF status
  <2>2. ASSUME NEW u \in Threads \ {t} PROVE status'[u] = status[u]
    BY DEF OthersKeep, status, Holds
  <2> HIDE DEF status
  <2> QED BY <2>1, <2>2
<1>2. CASE status'[t] = status[t]
  BY <1>1, <1>2, Zenon
<1>3. CASE status'[t] # status[t]
  <2>1. status' # status
    BY <1>3, Zenon
  <2>2. A!Become(t, status'[t])
    BY <1>1, Zenon DEF A!Become
  <2>3. A!Request(t) \/ A!Enter(t) \/ A!Exit(t) \/ A!Wait(t) \/ A!Expire(t)
    BY <1>3, <2>2 DEF Move, A!Request, A!Enter, A!Exit, A!Wait, A!Expire
  <2> QED BY <2>1, <2>3, Zenon DEF A!Next
<1> QED BY <1>2, <1>3, Zenon

\* The steps that write the mark move their thread as the abstract monitor allows.
LEMMA MarkMoves ==
    ASSUME CardFacts, IInv, NEW t \in Threads, Marking(t)
    PROVE  Moving(t)
<1>a. \A v : Goto(t, v) => pc'[t] = v
  BY SetAt DEF Goto
<1>b. Local(t)
  BY TypesHold, Zenon DEF LocalInv
<1>1. ASSUME slow_enter_cas(t) PROVE Moving(t)
  <2>1. pc[t] = "enter_cas" /\ mark = seen[t] /\ Back(t) /\ boxes' = Set(boxes, t, Append(boxes[t], mark))
    BY <1>1, Zenon DEF slow_enter_cas, Nest
  <2>2. mark \in Headers
    BY <1>b, <2>1, Zenon DEF Local
  <2>3. \A u \in Threads : ~ In(u)
    <3>1. \A u \in Threads : ~ Displacer(u)
      BY <2>2, DisplacerIs, Zenon DEF IInv
    <3>2. \A m : mark # Inflated(m)
      BY <2>2, MarkKinds, Zenon
    <3> QED BY <3>1, <3>2, Bystander, Zenon
  <2>4. Holds(t)'
    <3>1. boxes'[t] = Append(boxes[t], mark) /\ mark \in Headers \cup {NULL, unused_mark}
      BY <2>1, <2>2, SetAt, Zenon
    <3> QED BY <3>1, Pushed, Zenon
  <2>5. pc'[t] = "java"
    BY <2>1, Ended, Zenon
  <2>6. In(t)' /\ pc[t] # "waiting"
    BY <2>1, <2>4, <2>5, Zenon DEF In
  <2> QED BY <2>3, <2>6, Zenon DEF Moving
<1>2. ASSUME fast_exit_cas(t) PROVE Moving(t)
  <2>1. pc[t] = "exit_cas" /\ Back(t)
    BY <1>2, Zenon DEF fast_exit_cas
  <2>2. boxes[t] # <<>> /\ pc'[t] = "java" /\ ret'[t] = NULL
    BY <2>1, ExitCas, Ended, Zenon
  <2>3. In(t)
    BY <2>1, <2>2 DEF In, Holds
  <2> QED BY <2>2, <2>3, Zenon DEF Moving
<1>3. ASSUME pc[t] \notin LockLabels, pc'[t] \notin LockLabels, boxes' = boxes,
             Requesting(t) => Requesting(t)'
      PROVE  Moving(t)
  <2>1. Holds(t)' <=> Holds(t)
    BY <1>3, SameBoxes, Zenon
  <2>2. /\ pc[t] \notin {"waiting", "reenter"} /\ pc'[t] \notin {"waiting", "reenter"}
        /\ In(t)' <=> In(t)
    BY <1>3, <2>1 DEF In, LockLabels
  <2> QED BY <1>3, <2>2, Zenon DEF Moving
<1>4. ASSUME inflate_locked(t) \/ inflate_copy_header(t) \/ inflate_publish(t) \/ inflate_neutral(t)
      PROVE  Moving(t)
  <2>1. /\ pc[t] \in {"inflate_locked", "copy_header", "publish", "inflate_neutral"}
        /\ UNCHANGED <<boxes, ret>>
        /\ pc'[t] \in {"copy_header", "publish", ret[t]}
    BY <1>4, <1>a, Zenon
       DEF inflate_locked, inflate_copy_header, inflate_publish, inflate_neutral
  <2>2. ret[t] \in Ops
    <3>1. pc[t] \in InflateLabels
      BY <2>1 DEF InflateLabels, HandLabels, PrivateLabels
    <3> QED BY <1>b, <3>1, Zenon DEF Local
  <2>3. pc[t] \notin LockLabels /\ pc'[t] \notin LockLabels /\ pc[t] # "enter_cas"
    BY <2>1, <2>2 DEF LockLabels, Ops
  <2>4. Requesting(t) => Requesting(t)'
    BY <2>1, <2>3, Zenon DEF Requesting
  <2> QED BY <1>3, <2>1, <2>3, <2>4, Zenon
<1>5. ASSUME FastHashCode_cas(t) \/ FastHashCode_mcas(t) PROVE Moving(t)
  <2>1. pc[t] \in {"hash_cas", "hash_mcas"} /\ boxes' = boxes /\ Back(t)
    BY <1>5, Zenon DEF FastHashCode_cas, FastHashCode_mcas
  <2>2. pc'[t] = "java"
    BY <2>1, Ended, Zenon
  <2>3. ~ Requesting(t)
    BY <1>b, <2>1, DistinctAssumption, Zenon DEF Local, Requesting
  <2>4. pc[t] \notin LockLabels /\ pc'[t] \notin LockLabels
    BY <2>1, <2>2 DEF LockLabels
  <2> QED BY <1>3, <2>1, <2>3, <2>4, Zenon
<1> QED BY <1>1, <1>2, <1>4, <1>5, Zenon DEF Marking

\* Every step is a step of the abstract monitor, or changes no status.
LEMMA MonitorStep ==
    ASSUME CardFacts, IInv, [Next]_vars
    PROVE  [A!Next]_status
<1>1. ASSUME NEW t \in Threads, Step(t), OthersKeep(t), InflatingInv' PROVE [A!Next]_status
  <2>1. Passing(t) \/ Recursing(t) \/ Pooling(t) => Moving(t)
    BY AsideSteps, AsideMoves, Zenon
  <2>2. Marking(t) \/ Heavy(t) => Moving(t)
    BY <1>1, MarkMoves, HeavyLock, Zenon
  <2>3. Moving(t)
    BY <1>1, <2>1, <2>2, Kinds, Zenon
  <2> QED BY <1>1, <2>3, MovingMoves, MonitorMoves, Zenon
<1>2. ASSUME UNCHANGED <<pc, boxes, ret>> PROVE [A!Next]_status
  <2>1. status' = status
    BY <1>2 DEF status, Holds
  <2> QED BY <2>1, Zenon
<1>3. ASSUME NEW m \in Monitors, Deflated(m) PROVE [A!Next]_status
  BY <1>2, <1>3, Zenon DEF Deflated
<1>4. ASSUME UNCHANGED vars PROVE [A!Next]_status
  BY <1>2, <1>4, Zenon DEF vars
<1> QED BY <1>1, <1>3, <1>4, Next1, InflatingNext, Zenon
==============================================================================
