------------------------- MODULE SynchronizerProofs --------------------------
(***************************************************************************)
(* What the proofs about Synchronizer share, for every finite set of       *)
(* threads, every pool of ObjectMonitors and every depth of nesting: facts *)
(* about marks and BasicLocks, and the steps sorted by what they do to the *)
(* thread's own locals, to the mark and to the pool.                       *)
(***************************************************************************)
EXTENDS SynchronizerInvariant, TLAPS

\* The kinds of mark word tell each other apart.
LEMMA MarkFacts ==
    /\ \A h : Neutral(h).kind = "neutral" /\ Neutral(h).hash = h
    /\ \A t : StackLocked(t).kind = "locker" /\ StackLocked(t).locker = t
    /\ \A m : Inflated(m).kind = "monitor" /\ Inflated(m).monitor = m
    /\ INFLATING.kind = "inflating"
BY DEF Neutral, StackLocked, Inflated, INFLATING

\* Two marks of one kind are equal only when what they carry is (markOop.hpp:277-291).
LEMMA MarkInjective ==
    /\ \A l, m : Inflated(l) = Inflated(m) => l = m
    /\ \A t, u : StackLocked(t) = StackLocked(u) => t = u
    /\ \A g, h : Neutral(g) = Neutral(h) => g = h
<1>1. ASSUME NEW l, NEW m, Inflated(l) = Inflated(m) PROVE l = m
  <2>1. Inflated(l).monitor = l /\ Inflated(m).monitor = m
    BY MarkFacts
  <2> QED BY <1>1, <2>1
<1>2. ASSUME NEW t, NEW u, StackLocked(t) = StackLocked(u) PROVE t = u
  <2>1. StackLocked(t).locker = t /\ StackLocked(u).locker = u
    BY MarkFacts
  <2> QED BY <1>2, <2>1
<1>3. ASSUME NEW g, NEW h, Neutral(g) = Neutral(h) PROVE g = h
  <2>1. Neutral(g).hash = g /\ Neutral(h).hash = h
    BY MarkFacts
  <2> QED BY <1>3, <2>1
<1> QED BY <1>1, <1>2, <1>3

\* What a mark is not.
LEMMA MarkKinds ==
    /\ \A k \in Headers : k # INFLATING /\ \A x : k # Inflated(x) /\ k # StackLocked(x)
    /\ \A m : Inflated(m) # INFLATING /\ \A t : Inflated(m) # StackLocked(t)
    /\ \A t : StackLocked(t) # INFLATING
BY MarkFacts DEF Headers

\* A pushed or popped BasicLock leaves the ones below it alone.
LEMMA PushPop ==
    ASSUME NEW S, NEW s \in Seq(S)
    PROVE  /\ \A x \in S : /\ Append(s, x) \in Seq(S) /\ Append(s, x) # <<>>
                          /\ Len(Append(s, x)) = Len(s) + 1
                          /\ Append(s, x)[Len(s) + 1] = x
                          /\ \A i \in 1 .. Len(s) : Append(s, x)[i] = s[i]
           /\ s # <<>> <=> Len(s) > 0
           /\ s # <<>> => /\ SubSeq(s, 1, Len(s) - 1) \in Seq(S)
                          /\ Len(SubSeq(s, 1, Len(s) - 1)) = Len(s) - 1
                          /\ \A i \in 1 .. Len(s) - 1 : SubSeq(s, 1, Len(s) - 1)[i] = s[i]
<1>1. \A x \in S : /\ Append(s, x) \in Seq(S) /\ Append(s, x) # <<>>
                   /\ Len(Append(s, x)) = Len(s) + 1
                   /\ Append(s, x)[Len(s) + 1] = x
                   /\ \A i \in 1 .. Len(s) : Append(s, x)[i] = s[i]
  OBVIOUS
<1>2. s # <<>> <=> Len(s) > 0
  OBVIOUS
<1>3. s # <<>> => SubSeq(s, 1, Len(s) - 1) \in Seq(S)
  BY <1>2
<1>4. s # <<>> => Len(SubSeq(s, 1, Len(s) - 1)) = Len(s) - 1
  BY <1>2
<1>5. s # <<>> => \A i \in 1 .. Len(s) - 1 : SubSeq(s, 1, Len(s) - 1)[i] = s[i]
  BY <1>2
<1> QED BY <1>1, <1>2, <1>3, <1>4, <1>5

\* The parts of the invariant that type the variables.
LEMMA TypesHold ==
    ASSUME IInv PROVE MonitorType /\ ListType /\ ThreadType /\ LocalInv
BY DEF IInv, TypeOK

\* NULL is no value, and what is set is what is read.
LEMMA NullFacts ==
    /\ NULL \notin Threads /\ NULL \notin Monitors /\ NULL \notin Hashes
    /\ NULL \notin {"enter", "exit", "wait", "hash"} /\ NULL # "enter"
    /\ NULL # unused_mark /\ NULL \notin Headers
BY DistinctAssumption DEF Headers

\* Set stores what is read back; to clear an empty hand changes nothing.
LEMMA SetAt ==
    ASSUME IInv, NEW t \in Threads
    PROVE  /\ \A v : /\ Set(pc, t, v)[t] = v /\ Set(ret, t, v)[t] = v /\ Set(seen, t, v)[t] = v
                     /\ Set(hand, t, v)[t] = v /\ Set(mon, t, v)[t] = v /\ Set(hash, t, v)[t] = v
                     /\ Set(save, t, v)[t] = v /\ Set(boxes, t, v)[t] = v
           /\ hand[t] = NULL => Set(hand, t, NULL) = hand
BY TypesHold DEF ThreadType, Set

\* A thread's local is what a step has set it to.
LEMMA WriteAt ==
    ASSUME IInv, NEW t \in Threads
    PROVE  /\ \A v : pc' = Set(pc, t, v) => pc'[t] = v
           /\ \A v : ret' = Set(ret, t, v) => ret'[t] = v
           /\ \A v : seen' = Set(seen, t, v) => seen'[t] = v
           /\ \A v : hand' = Set(hand, t, v) => hand'[t] = v
           /\ \A v : mon' = Set(mon, t, v) => mon'[t] = v
           /\ \A v : hash' = Set(hash, t, v) => hash'[t] = v
           /\ \A v : save' = Set(save, t, v) => save'[t] = v
           /\ \A v : boxes' = Set(boxes, t, v) => boxes'[t] = v
BY TypesHold DEF ThreadType, Set

\* What the mark's kind says.
LEMMA TheMark ==
    ASSUME IInv
    PROVE  /\ is_neutral <=> mark \in Headers
           /\ has_monitor => mark.monitor \in Monitors /\ mark = Inflated(mark.monitor)
           /\ mark.kind = "locker" <=> mark \in Lockers
           /\ \A m : mark = Inflated(m) => has_monitor /\ mark.monitor = m
BY TypesHold, MarkFacts DEF MonitorType, Marks, Headers, Lockers, is_neutral, has_monitor

\* A thread that is given an ObjectMonitor finds the object's header in it.
LEMMA OnMonitor ==
    ASSUME IInv, NEW t \in Threads, pc[t] \in MonLabels
    PROVE  mon[t] \in Monitors /\ mark = Inflated(mon[t]) /\ header[mon[t]] \in Headers
<1>1. mon[t] \in Monitors
  BY TypesHold DEF LocalInv, Local
<1>2. HeldMonitorIsCurrent /\ Carried(Headers)
  BY DEF IInv, HeaderInv
<1>3. mark = Inflated(mon[t])
  BY <1>1, <1>2, NullFacts DEF HeldMonitorIsCurrent
<1> QED BY <1>1, <1>2, <1>3, Zenon DEF Carried

\* A thread without a monitor in hand, or without one to work with.
LEMMA NoMonitor ==
    ASSUME IInv, NEW t \in Threads
    PROVE  /\ pc[t] \notin HandLabels => hand[t] = NULL
           /\ pc[t] \notin MonLabels => mon[t] = NULL
<1>1. hand[t] \in Monitors \cup {NULL} /\ mon[t] \in Monitors \cup {NULL}
  BY TypesHold DEF ThreadType
<1> QED BY <1>1, TypesHold DEF LocalInv, Local

\* The outermost BasicLock is the only one when it is about to be released.
LEMMA ExitCas ==
    ASSUME IInv, NEW t \in Threads, pc[t] = "exit_cas"
    PROVE  /\ boxes[t] # <<>> /\ Len(boxes[t]) = 1 /\ Displaced(t) = boxes[t][1]
           /\ mark = StackLocked(t) => Displaced(t) \in Headers
<1>1. Len(boxes[t]) = 1
  BY TypesHold DEF LocalInv, Local
<1>2. mark = StackLocked(t) => boxes[t][1] \in Headers
  BY Zenon DEF IInv, HeaderInv, Carried, Displacer
<1>3. boxes[t] # <<>>
  BY <1>1
<1>4. Displaced(t) = boxes[t][1]
  BY <1>1 DEF Displaced
<1> QED BY <1>1, <1>2, <1>3, <1>4, Zenon

\* A step of one thread leaves the others' locals alone.
OthersKeep(t) ==
    \A u \in Threads \ {t} :
        /\ pc'[u] = pc[u] /\ ret'[u] = ret[u] /\ seen'[u] = seen[u] /\ hand'[u] = hand[u]
        /\ mon'[u] = mon[u] /\ hash'[u] = hash[u] /\ save'[u] = save[u]
        /\ boxes'[u] = boxes[u]

\* What a step does to the thread's monitor, its BasicLocks and the hash codes.
MonKept(t) == mon'[t] \in {mon[t], NULL} \/ mark = Inflated(mon'[t])

BoxKept(t) ==
    \/ boxes'[t] = boxes[t]
    \/ mark = StackLocked(t) /\ boxes'[t] = Append(boxes[t], NULL)
    \/ pc[t] \in MonLabels /\ boxes'[t] = Append(boxes[t], unused_mark)
    \/ /\ boxes[t] # <<>> /\ boxes'[t] = SubSeq(boxes[t], 1, Len(boxes[t]) - 1)
       /\ Displaced(t) = NULL \/ pc[t] = "exit"

HashKept(t) == hashes' = hashes \/ \E h \in Hashes : FastHashCode(t, h)

Requesting(t) == pc[t] = "enter_cas" \/ ret[t] = "enter"

BusyLabels == HandLabels \cup CountLabels \cup SleepLabels

\* The steps that change the thread's locals only.
Passing(t) ==
    /\ UNCHANGED <<mark, monitor, lists, boxes, hand>>
    /\ MonKept(t) /\ HashKept(t)
    /\ pc[t] \notin BusyLabels /\ pc'[t] \notin BusyLabels
    /\ Requesting(t) => Requesting(t)'

Recursing(t) == slow_enter_recursive(t) \/ fast_exit_recursive(t)

Pooling(t) ==
    \/ omAlloc(t) \/ omAlloc_reprovision(t) \/ omAlloc_new_block(t) \/ inflate_retry(t)
    \/ omFlush(t)

Marking(t) ==
    \/ slow_enter_cas(t) \/ fast_exit_cas(t) \/ inflate_locked(t) \/ inflate_copy_header(t)
    \/ inflate_publish(t) \/ inflate_neutral(t) \/ FastHashCode_cas(t) \/ FastHashCode_mcas(t)

\* Every step of a thread is of one of five kinds.
LEMMA Kinds ==
    ASSUME IInv, NEW t \in Threads, Step(t)
    PROVE  Passing(t) \/ Recursing(t) \/ Pooling(t) \/ Marking(t) \/ Heavy(t)
<1>1. (pc[t] \notin HandLabels => hand[t] = NULL) /\ NULL # "enter"
  BY NoMonitor, NullFacts, Zenon
<1>2. /\ pc[t] \in {"java", "flush", "exit_cas", "hash_cas"} => ret[t] = NULL
      /\ pc[t] \in {"hash", "hash_mcas"} => ret[t] = "hash"
      /\ pc[t] = "inflate" => ret[t] \in Ops
  BY TypesHold, Zenon DEF LocalInv, Local, Ops, InflateLabels
<1>3. has_monitor => mark = Inflated(mark.monitor)
  BY TheMark
<1>4. hand[t] = NULL => Set(hand, t, NULL) = hand
  BY SetAt
<1> USE WriteAt DEF Passing, MonKept, HashKept, Requesting, Goto, locals, BusyLabels, HandLabels,
        PrivateLabels, CountLabels, SleepLabels
<1>5. slow_enter(t) \/ fast_exit(t) \/ Die(t) => Passing(t)
  BY <1>1, <1>2, Zenon DEF slow_enter, fast_exit, Die
<1>6. slow_enter_inflate(t) \/ fast_exit_inflate(t) \/ wait(t) \/ FastHashCode_inflate(t) =>
         Passing(t)
  BY <1>1, <1>2, Zenon
     DEF slow_enter_inflate, fast_exit_inflate, wait, FastHashCode_inflate, CallInflate
<1>7. inflate(t) \/ omAlloc_empty(t) => Passing(t)
  BY <1>1, <1>2, Zenon DEF inflate, omAlloc_empty
<1>a. inflate_done(t) => Passing(t)
  BY <1>1, <1>2, <1>3, Zenon DEF inflate_done, Ops
<1>8. ASSUME NEW h \in Hashes, FastHashCode_next(t, h) PROVE Passing(t)
  BY <1>1, <1>2, <1>8, Zenon DEF FastHashCode_next
<1>9. ASSUME NEW h \in Hashes, FastHashCode(t, h) PROVE Passing(t)
  BY <1>1, <1>2, <1>4, <1>9, Zenon DEF FastHashCode, Back
<1> HIDE WriteAt DEF Passing
<1> QED BY <1>5, <1>6, <1>7, <1>8, <1>9, <1>a, Zenon
        DEF Step, Locking, Inflation, Hashing, Recursing, Pooling, Marking

\* The steps that end an operation, and those that change the program counter only.
Ending(t) ==
    \/ slow_enter_cas(t) \/ fast_exit_cas(t) \/ monitor_enter(t) \/ monitor_enter_done(t)
    \/ monitor_exit_recursive(t) \/ monitor_exit(t) \/ monitor_wait_done(t)
    \/ (\E h \in Hashes : FastHashCode(t, h)) \/ FastHashCode_cas(t) \/ FastHashCode_mcas(t)

Going(t) ==
    \/ fast_exit(t) \/ omAlloc_empty(t) \/ omAlloc_reprovision(t) \/ omAlloc_new_block(t)
    \/ inflate_locked(t) \/ inflate_copy_header(t) \/ monitor_enter_block(t) \/ Woken(t)
    \/ EnterI(t) \/ ReenterI(t) \/ Die(t) \/ omFlush(t)

Calling(t) ==
    slow_enter_inflate(t) \/ fast_exit_inflate(t) \/ wait(t) \/ FastHashCode_inflate(t)

\* The last steps of fast_exit(), slow_enter(), wait() and FastHashCode() return.
LEMMA Endings == ASSUME NEW t \in Threads, Ending(t) PROVE Back(t)
BY Zenon DEF Ending, slow_enter_cas, fast_exit_cas, monitor_enter, monitor_enter_done,
       monitor_exit_recursive, monitor_exit, monitor_wait_done, FastHashCode, FastHashCode_cas,
       FastHashCode_mcas

\* A thread that returns to Java code has dropped its locals.
LEMMA Ended ==
    ASSUME IInv, NEW t \in Threads, Back(t)
    PROVE  /\ pc'[t] = "java" /\ ret'[t] = NULL /\ seen'[t] = NULL /\ hand'[t] = NULL
           /\ mon'[t] = NULL /\ hash'[t] = NULL /\ save'[t] = 0
BY TypesHold DEF Back, Goto, Set, ThreadType

\* A function that a step changes at one thread.
Own(g, f, t)  == g = f \/ \E v : g = Set(f, t, v)
Kept(g, f, t) == g = [f EXCEPT ![t] = g[t]] /\ \A u \in Threads \ {t} : g[u] = f[u]

Owned(t) ==
    /\ Own(pc', pc, t) /\ Own(ret', ret, t) /\ Own(seen', seen, t) /\ Own(hand', hand, t)
    /\ Own(mon', mon, t) /\ Own(hash', hash, t) /\ Own(save', save, t)
    /\ Own(boxes', boxes, t)

Only(t) ==
    /\ pc' = [pc EXCEPT ![t] = pc'[t]] /\ ret' = [ret EXCEPT ![t] = ret'[t]]
    /\ seen' = [seen EXCEPT ![t] = seen'[t]] /\ hand' = [hand EXCEPT ![t] = hand'[t]]
    /\ mon' = [mon EXCEPT ![t] = mon'[t]] /\ hash' = [hash EXCEPT ![t] = hash'[t]]
    /\ save' = [save EXCEPT ![t] = save'[t]] /\ boxes' = [boxes EXCEPT ![t] = boxes'[t]]

\* A step writes what is its own thread's.
LEMMA StepOwned == ASSUME NEW t \in Threads, Step(t) PROVE Owned(t)
<1> USE DEF Owned, Own, Goto, locals, CallInflate, Nest, Unnest, Back, Acquire
<1>1. Locking(t) => Owned(t)
  BY Zenon DEF Locking, slow_enter, slow_enter_cas, slow_enter_recursive, slow_enter_inflate,
               fast_exit_recursive, fast_exit, fast_exit_cas, fast_exit_inflate, wait
<1>2. Inflation(t) => Owned(t)
  BY Zenon DEF Inflation, inflate_done, inflate, omAlloc, omAlloc_empty, omAlloc_reprovision,
               omAlloc_new_block, inflate_retry, inflate_locked, inflate_copy_header,
               inflate_publish, inflate_neutral
<1>3. Heavy(t) => Owned(t)
  BY Zenon DEF Heavy, monitor_enter, monitor_enter_block, Woken, EnterI, ReenterI,
               monitor_enter_done, monitor_exit_recursive, monitor_exit, monitor_wait,
               monitor_wait_done
<1>4. Hashing(t) => Owned(t)
  BY Zenon DEF Hashing, FastHashCode, FastHashCode_next, FastHashCode_cas, FastHashCode_mcas,
               FastHashCode_inflate
<1>5. Die(t) \/ omFlush(t) => Owned(t)
  BY Zenon DEF Die, omFlush
<1> HIDE DEF Owned
<1> QED BY <1>1, <1>2, <1>3, <1>4, <1>5, Zenon DEF Step

\* A step writes the locals of its own thread only, and the others keep theirs.
LEMMA StepOnly == ASSUME IInv, NEW t \in Threads, Step(t) PROVE Only(t) /\ OthersKeep(t)
<1>1. Owned(t) /\ ThreadType
  BY StepOwned, TypesHold
<1> USE DEF Own, Kept, Set
<1>2. Kept(pc', pc, t) /\ Kept(ret', ret, t)
  BY <1>1 DEF ThreadType, Owned
<1>3. Kept(seen', seen, t) /\ Kept(hand', hand, t)
  BY <1>1 DEF ThreadType, Owned
<1>4. Kept(mon', mon, t) /\ Kept(hash', hash, t)
  BY <1>1 DEF ThreadType, Owned
<1>5. Kept(save', save, t) /\ Kept(boxes', boxes, t)
  BY <1>1 DEF ThreadType, Owned
<1> HIDE DEF Own, Set
<1> QED BY <1>2, <1>3, <1>4, <1>5, Zenon DEF Only, OthersKeep

\* StepOnly, for the thread itself.
LEMMA OnlyOne == ASSUME IInv, NEW t \in Threads, Step(t) PROVE Only(t)
BY StepOnly

\* The other threads keep their program counters, locals and BasicLocks.
LEMMA OthersKept == ASSUME IInv, NEW t \in Threads, Step(t) PROVE OthersKeep(t)
BY StepOnly

\* The thread's own locals after a step.
Typed(t) ==
    /\ boxes[t] \in Seq(Headers \cup {NULL, unused_mark})
    /\ pc[t] \in Labels /\ ret[t] \in Ops \cup {NULL} /\ seen[t] \in Marks \cup {NULL}
    /\ hand[t] \in Monitors \cup {NULL} /\ mon[t] \in Monitors \cup {NULL}
    /\ hash[t] \in Hashes \cup {NULL} /\ save[t] \in Nat

\* The thread's locals after a step, but for its BasicLocks.
To(t, p, r, s, a, m, x, n) ==
    /\ pc'[t] = p /\ ret'[t] = r /\ seen'[t] = s /\ hand'[t] = a /\ mon'[t] = m
    /\ hash'[t] = x /\ save'[t] = n

\* The step changes the program counter at most.
Moved(t, p) == To(t, p, ret[t], seen[t], hand[t], mon[t], hash[t], save[t]) /\ boxes' = boxes

\* The steps of Going: within an operation, and by inflate() and the monitor.
Path(t, p) ==
    \/ pc[t] = "java" /\ (p = "flush" \/ (p = "exit_cas" /\ Len(boxes[t]) = 1))
    \/ pc[t] = "alloc" /\ p \in {"reprovision", "new_block"}
    \/ pc[t] \in {"reprovision", "new_block"} /\ p = "alloc"
    \/ pc[t] = "inflate_locked" /\ p = "copy_header"
    \/ pc[t] = "copy_header" /\ p = "publish"

HeavyPath(t, p) ==
    \/ pc[t] = "enter" /\ p = "blocked"
    \/ pc[t] = "blocked" /\ p = "enter_done"
    \/ pc[t] = "waiting" /\ p = "reenter"
    \/ pc[t] = "reenter" /\ p = "wait_done"
    \/ pc[t] = "flush" /\ p = "java"

\* A step that goes from one label to the next keeps its thread's locals.
LEMMA GoingMoves ==
    ASSUME IInv, NEW t \in Threads, Going(t)
    PROVE  \E p : (Path(t, p) \/ HeavyPath(t, p)) /\ Moved(t, p)
<1>0. \A l : pc' = Set(pc, t, l) => pc'[t] = l
  BY WriteAt
<1> DEFINE Via(p) == Path(t, p) /\ Moved(t, p)
           HeavyVia(p) == HeavyPath(t, p) /\ Moved(t, p)
<1> USE <1>0 DEF Goto, To, Moved, locals, Path, HeavyPath
<1>1. fast_exit(t) => Via("exit_cas")
  BY Zenon DEF fast_exit
<1>6. Die(t) => Via("flush")
  BY Zenon DEF Die
<1>2. /\ omAlloc_empty(t) => Via("reprovision") \/ Via("new_block")
      /\ omAlloc_reprovision(t) \/ omAlloc_new_block(t) => Via("alloc")
  BY Zenon DEF omAlloc_empty, omAlloc_reprovision, omAlloc_new_block
<1>3. /\ inflate_locked(t) => Via("copy_header")
      /\ inflate_copy_header(t) => Via("publish")
  BY Zenon DEF inflate_locked, inflate_copy_header
<1>4. /\ monitor_enter_block(t) => HeavyVia("blocked")
      /\ Woken(t) => HeavyVia("reenter")
      /\ omFlush(t) => HeavyVia("java")
  BY Zenon DEF monitor_enter_block, Woken, omFlush
<1>5. /\ EnterI(t) => HeavyVia("enter_done")
      /\ ReenterI(t) => HeavyVia("wait_done")
  BY Zenon DEF EnterI, ReenterI, Acquire
<1> HIDE <1>0 DEF Goto, To, Moved, locals, Path, HeavyPath
<1> QED BY <1>1, <1>2, <1>3, <1>4, <1>5, <1>6, Zenon DEF Going

\* The BasicLocks that the end of an operation, or a recursive lock, leaves.
LEMMA BoxesStep ==
    ASSUME IInv, NEW t \in Threads, Ending(t) \/ Recursing(t)
    PROVE  boxes'[t] \in Seq(Headers \cup {NULL, unused_mark})
<1> DEFINE B == Headers \cup {NULL, unused_mark}
<1>0. Local(t) /\ boxes[t] \in Seq(B)
  BY TypesHold DEF LocalInv, ThreadType
<1>1. /\ \A x \in B : Append(boxes[t], x) \in Seq(B)
      /\ boxes[t] # <<>> => SubSeq(boxes[t], 1, Len(boxes[t]) - 1) \in Seq(B)
  <2> HIDE DEF B
  <2> QED BY <1>0, PushPop
<1>2. pc[t] \in {"exit", "exit_cas"} => boxes[t] # <<>>
  BY <1>0 DEF Local, Ops, IInv, BoxInv, Boxed, Holds
<1>3. pc[t] = "enter_cas" => seen[t] \in B
  BY <1>0, Zenon DEF Local
<1>4. NULL \in B /\ unused_mark \in B
  OBVIOUS
<1> HIDE DEF B
<1>5. \/ \E x \in B : Nest(t, x)
      \/ boxes[t] # <<>> /\ Unnest(t)
      \/ boxes' = boxes
  BY <1>2, <1>3, <1>4, Zenon
     DEF Ending, slow_enter_cas, fast_exit_cas, monitor_enter, monitor_enter_done,
         monitor_exit_recursive, monitor_exit, monitor_wait_done, FastHashCode,
         FastHashCode_cas, FastHashCode_mcas, Recursing, slow_enter_recursive,
         fast_exit_recursive, Holds
<1>6. \A v : boxes' = Set(boxes, t, v) => boxes'[t] = v
  BY WriteAt
<1>7. boxes'[t] \in Seq(B)
  BY <1>0, <1>1, <1>5, <1>6, Zenon DEF Nest, Unnest
<1> QED BY <1>7 DEF B

\* What the other steps do to their thread's locals.
Calls(t, op) ==
    /\ pc[t] \in {"java", "enter_cas", "exit_cas", "hash_cas"} /\ (op = "wait" => t \in Waiters)
    /\ To(t, "inflate", op, NULL, hand[t], mon[t], NULL, save[t]) /\ boxes' = boxes

Reads(t) ==
    /\ boxes' = boxes
    /\ \/ /\ pc[t] = "java" /\ mark \in Headers
          /\ To(t, "enter_cas", ret[t], mark, hand[t], mon[t], hash[t], save[t])
       \/ /\ pc[t] = "inflate" /\ mark \in Headers \cup Lockers
          /\ To(t, "alloc", ret[t], mark, hand[t], mon[t], hash[t], save[t])
       \/ /\ pc[t] = "inflate" /\ mark.monitor \in Monitors
          /\ To(t, ret[t], ret[t], seen[t], hand[t], mark.monitor, hash[t], save[t])

Takes(t, m) ==
    /\ pc[t] = "alloc" /\ boxes' = boxes
    /\ \/ /\ seen[t] \in Lockers
          /\ To(t, "inflate_locked", ret[t], seen[t], m, mon[t], hash[t], save[t])
       \/ /\ seen[t] \in Headers
          /\ To(t, "inflate_neutral", ret[t], seen[t], m, mon[t], hash[t], save[t])

Retries(t) ==
    /\ pc[t] \in {"inflate_locked", "inflate_neutral"} /\ boxes' = boxes
    /\ To(t, "inflate", ret[t], NULL, NULL, mon[t], hash[t], save[t])

Inflates(t) ==
    /\ pc[t] \in {"inflate_neutral", "publish"} /\ boxes' = boxes
    /\ To(t, ret[t], ret[t], NULL, NULL, hand[t], hash[t], save[t])

Waits(t) ==
    /\ pc[t] = "wait" /\ boxes' = boxes
    /\ \E n \in Nat : To(t, "waiting", ret[t], seen[t], hand[t], mon[t], hash[t], n)

Draws(t, h) ==
    /\ boxes' = boxes
    /\ \/ /\ pc[t] = "java" /\ mark = Neutral(NULL)
          /\ To(t, "hash_cas", ret[t], mark, hand[t], mon[t], h, save[t])
       \/ /\ pc[t] = "hash"
          /\ To(t, "hash_mcas", ret[t], seen[t], hand[t], mon[t], h, save[t])

\* A step ends an operation, goes on with it, or is one of these.
LEMMA OtherMoves ==
    ASSUME IInv, NEW t \in Threads, Step(t)
    PROVE  \/ Ending(t) \/ Recursing(t) \/ Going(t) \/ Reads(t) \/ Waits(t)
           \/ Retries(t) \/ Inflates(t)
           \/ (\E op \in Ops : Calls(t, op)) \/ (\E m \in Monitors : Takes(t, m))
           \/ \E h \in Hashes : Draws(t, h)
<1>a. /\ is_neutral => mark \in Headers
      /\ mark.kind \in {"locker", "neutral"} => mark \in Headers \cup Lockers
      /\ has_monitor => mark.monitor \in Monitors
  BY TheMark DEF is_neutral
<1>b. pc[t] = "alloc" => seen[t] \in Headers \cup Lockers
  BY TypesHold, Zenon DEF LocalInv, Local, AllocLabels
<1>c. pc[t] = "alloc" => /\ seen[t].kind = "locker" => seen[t] \in Lockers
                         /\ seen[t].kind # "locker" => seen[t] \in Headers
  BY <1>b, MarkFacts DEF Headers, Lockers
<1>d. pc[t] = "wait" => mon[t] \in Monitors
  BY OnMonitor DEF MonLabels, Ops
<1>e. pc[t] = "wait" => recursions[mon[t]] \in Nat
  BY <1>d, TypesHold DEF MonitorType
<1> USE WriteAt DEF Goto, To, locals
<1>1. /\ slow_enter_inflate(t) => Calls(t, "enter")
      /\ fast_exit_inflate(t) => Calls(t, "exit")
  BY Zenon DEF slow_enter_inflate, fast_exit_inflate, CallInflate, Calls
<1>2. /\ wait(t) => Calls(t, "wait")
      /\ FastHashCode_inflate(t) => Calls(t, "hash")
  BY Zenon DEF wait, FastHashCode_inflate, CallInflate, Calls
<1>3. slow_enter(t) \/ inflate(t) \/ inflate_done(t) => Reads(t)
  BY <1>a, Zenon DEF slow_enter, inflate, inflate_done, Reads
<1>4. ASSUME omAlloc(t) PROVE \E m \in Monitors : Takes(t, m)
  <2>1. PICK m \in Monitors : hand' = Set(hand, t, m)
    BY <1>4, TypesHold, Zenon DEF omAlloc, First, ListType
  <2>2. Takes(t, m)
    BY <1>4, <1>c, <2>1, Zenon DEF omAlloc, Takes
  <2> QED BY <2>2
<1>5. inflate_retry(t) => Retries(t)
  BY Zenon DEF inflate_retry, Retries
<1>6. inflate_publish(t) => Inflates(t)
  <2>1. inflate_publish(t) =>
           /\ pc' = Set(pc, t, ret[t]) /\ mon' = Set(mon, t, hand[t]) /\ hand' = Set(hand, t, NULL)
           /\ seen' = Set(seen, t, NULL) /\ ret' = ret /\ hash' = hash /\ save' = save
           /\ boxes' = boxes /\ pc[t] = "publish"
    <3> HIDE WriteAt
    <3> QED BY Zenon DEF inflate_publish
  <2>2. inflate_publish(t) =>
           To(t, ret[t], ret[t], NULL, NULL, hand[t], hash[t], save[t])
    BY <2>1, Zenon
  <2> QED BY <2>1, <2>2, Zenon DEF Inflates
<1>7. inflate_neutral(t) => Inflates(t)
  <2>1. inflate_neutral(t) =>
           /\ pc' = Set(pc, t, ret[t]) /\ mon' = Set(mon, t, hand[t]) /\ hand' = Set(hand, t, NULL)
           /\ seen' = Set(seen, t, NULL) /\ ret' = ret /\ hash' = hash /\ save' = save
           /\ boxes' = boxes /\ pc[t] = "inflate_neutral"
    <3> HIDE WriteAt
    <3> QED BY Zenon DEF inflate_neutral
  <2>2. inflate_neutral(t) =>
           To(t, ret[t], ret[t], NULL, NULL, hand[t], hash[t], save[t])
    BY <2>1, Zenon
  <2> QED BY <2>1, <2>2, Zenon DEF Inflates
<1>8. monitor_wait(t) => Waits(t)
  BY <1>e, Zenon DEF monitor_wait, Waits
<1>9. \A h \in Hashes : FastHashCode_next(t, h) => Draws(t, h)
  BY Zenon DEF FastHashCode_next, Draws
<1>10. "enter" \in Ops /\ "exit" \in Ops /\ "wait" \in Ops /\ "hash" \in Ops
  BY DEF Ops
<1> HIDE WriteAt DEF Goto, To, locals
<1> QED BY <1>1, <1>2, <1>3, <1>4, <1>5, <1>6, <1>7, <1>8, <1>9, <1>10, Zenon
        DEF Step, Locking, Inflation, Heavy, Hashing, Ending, Going, Recursing

\* A step leaves its thread's locals as the next label needs them.
LEMMA LocalStep ==
    ASSUME IInv, NEW t \in Threads, Step(t)
    PROVE  Typed(t)' /\ Local(t)'
<1> DEFINE OK == Typed(t)' /\ Local(t)'
<1>0. Local(t) /\ Typed(t) /\ mark \in Marks
  BY TypesHold DEF LocalInv, ThreadType, Typed, MonitorType
<1>1. Ending(t) => OK
  <2>1. Ending(t) => /\ To(t, "java", NULL, NULL, NULL, NULL, NULL, 0)
                     /\ boxes'[t] \in Seq(Headers \cup {NULL, unused_mark})
    BY Endings, Ended, BoxesStep, Zenon DEF To
  <2> QED BY <2>1, DistinctAssumption DEF To, Typed, Local, Labels, InflateLabels, HandLabels,
             MonLabels, Ops, AllocLabels, PrivateLabels, CountLabels, SleepLabels
<1>2. Recursing(t) => OK
  <2>1. Recursing(t) => /\ To(t, "java", ret[t], seen[t], hand[t], mon[t], hash[t], save[t])
                        /\ boxes'[t] \in Seq(Headers \cup {NULL, unused_mark}) /\ pc[t] = "java"
    BY BoxesStep, Zenon DEF To, Recursing, slow_enter_recursive, fast_exit_recursive, locals
  <2> QED BY <1>0, <2>1 DEF To, Typed, Local, Labels, Ops
<1> USE DEF Typed, Local, Labels, InflateLabels, HandLabels, MonLabels, Ops, AllocLabels,
        PrivateLabels, CountLabels, SleepLabels
<1>3. \A p : Path(t, p) /\ Moved(t, p) => OK
  BY <1>0 DEF Path, Moved, To
<1>4. \A p : HeavyPath(t, p) /\ Moved(t, p) => OK
  BY <1>0 DEF HeavyPath, Moved, To
<1>5. \A op \in Ops : Calls(t, op) => OK
  BY <1>0 DEF Calls, To
<1>6. Reads(t) => OK
  BY <1>0 DEF Reads, To
<1>7. \A m \in Monitors : Takes(t, m) => OK
  BY <1>0 DEF Takes, To
<1>a. NULL \notin Monitors
  BY NullFacts
<1>8. Inflates(t) => OK
  BY <1>0, <1>a DEF Inflates, To
<1>b. Retries(t) => OK
  BY <1>0, <1>a DEF Retries, To
<1>9. Waits(t) => OK
  BY <1>0 DEF Waits, To
<1>10. \A h \in Hashes : Draws(t, h) => OK
  BY <1>0 DEF Draws, To
<1> HIDE DEF OK, Typed, Local, Labels, InflateLabels, HandLabels, MonLabels, Ops, AllocLabels,
        PrivateLabels, CountLabels, SleepLabels
<1> QED BY <1>1, <1>2, <1>3, <1>4, <1>5, <1>6, <1>7, <1>8, <1>9, <1>10, <1>b, GoingMoves,
           OtherMoves, Zenon DEF OK

\* Nobody has put INFLATING into the mark.
Alone == \A u \in Threads : pc[u] \notin PrivateLabels

\* Who has displaced the header, by the mark.
LEMMA DisplacerIs ==
    ASSUME InflatingInv
    PROVE  /\ mark \in Headers => Alone /\ assigned = {} /\ \A u \in Threads : ~ Displacer(u)
           /\ \A m : mark = Inflated(m) => Alone /\ \A u \in Threads : ~ Displacer(u)
           /\ \A w \in Threads : mark = StackLocked(w) =>
                 Alone /\ assigned = {} /\ \A u \in Threads : Displacer(u) <=> u = w
           /\ \A t, w \in Threads : pc[t] \in PrivateLabels /\ seen[t] = StackLocked(w) =>
                 /\ mark = INFLATING
                 /\ \A u \in Threads : (pc[u] \in PrivateLabels <=> u = t) /\ (Displacer(u) <=> u = w)
<1>1. mark # INFLATING => Alone
  BY DEF InflatingInv, Alone
<1>2. mark \in Headers => Alone /\ assigned = {} /\ \A u \in Threads : ~ Displacer(u)
  BY <1>1, MarkKinds DEF InflatingInv, Alone, Displacer, PrivateLabels
<1>3. \A m : mark = Inflated(m) => Alone /\ \A u \in Threads : ~ Displacer(u)
  BY <1>1, MarkKinds DEF Alone, Displacer
<1>4. \A w \in Threads : mark = StackLocked(w) =>
         Alone /\ assigned = {} /\ \A u \in Threads : Displacer(u) <=> u = w
  BY <1>1, MarkKinds, MarkInjective DEF InflatingInv, Alone, Displacer, PrivateLabels
<1>5. ASSUME NEW t \in Threads, NEW w \in Threads,
             pc[t] \in PrivateLabels, seen[t] = StackLocked(w)
      PROVE  /\ mark = INFLATING
             /\ \A u \in Threads : (pc[u] \in PrivateLabels <=> u = t) /\ (Displacer(u) <=> u = w)
  BY <1>5, MarkKinds, MarkInjective DEF InflatingInv, Displacer
<1> QED BY <1>2, <1>3, <1>4, <1>5

\* DisplacerIs, of the state after a step.
LEMMA DisplacerNext ==
    ASSUME InflatingInv'
    PROVE  /\ mark' \in Headers => Alone' /\ assigned' = {} /\ \A u \in Threads : ~ Displacer(u)'
           /\ \A m : mark' = Inflated(m) => Alone' /\ \A u \in Threads : ~ Displacer(u)'
           /\ \A w \in Threads : mark' = StackLocked(w) =>
                 Alone' /\ assigned' = {} /\ \A u \in Threads : Displacer(u)' <=> u = w
           /\ \A t, w \in Threads : pc'[t] \in PrivateLabels /\ seen'[t] = StackLocked(w) =>
                 /\ mark' = INFLATING
                 /\ \A u \in Threads : (pc'[u] \in PrivateLabels <=> u = t) /\ (Displacer(u)' <=> u = w)
<1>1. mark' # INFLATING => Alone'
  BY DEF InflatingInv, Alone
<1>2. mark' \in Headers => Alone' /\ assigned' = {} /\ \A u \in Threads : ~ Displacer(u)'
  BY <1>1, MarkKinds DEF InflatingInv, Alone, Displacer, PrivateLabels
<1>3. \A m : mark' = Inflated(m) => Alone' /\ \A u \in Threads : ~ Displacer(u)'
  BY <1>1, MarkKinds DEF Alone, Displacer
<1>4. \A w \in Threads : mark' = StackLocked(w) =>
         Alone' /\ assigned' = {} /\ \A u \in Threads : Displacer(u)' <=> u = w
  BY <1>1, MarkKinds, MarkInjective DEF InflatingInv, Alone, Displacer, PrivateLabels
<1>5. ASSUME NEW t \in Threads, NEW w \in Threads,
             pc'[t] \in PrivateLabels, seen'[t] = StackLocked(w)
      PROVE  /\ mark' = INFLATING
             /\ \A u \in Threads : (pc'[u] \in PrivateLabels <=> u = t) /\ (Displacer(u)' <=> u = w)
  BY <1>5, MarkKinds, MarkInjective DEF InflatingInv, Displacer
<1> QED BY <1>2, <1>3, <1>4, <1>5

\* What the steps that change the mark or a header do.
Stacked(t) ==
    /\ mark \in Headers /\ mark' = StackLocked(t)
    /\ boxes[t] = <<>> /\ boxes'[t] = <<mark>> /\ pc'[t] = "java" /\ mon'[t] = NULL
    /\ UNCHANGED <<hand, header, owner, recursions, assigned, hashes>>

Unstacked(t) ==
    /\ mark = StackLocked(t) /\ mark' = boxes[t][1] /\ mark' \in Headers
    /\ Len(boxes[t]) = 1 /\ boxes'[t] = <<>> /\ pc'[t] = "java" /\ mon'[t] = NULL
    /\ UNCHANGED <<hand, header, owner, recursions, assigned, hashes>>

Seized(t, w) ==
    /\ mark = StackLocked(w) /\ seen[t] = mark /\ mark' = INFLATING
    /\ pc[t] = "inflate_locked" /\ pc'[t] = "copy_header"
    /\ UNCHANGED <<seen, hand, mon, boxes, header, owner, recursions, assigned, hashes>>

Copied(t, w) ==
    /\ mark = INFLATING /\ seen[t] = StackLocked(w) /\ hand[t] \in Monitors
    /\ pc[t] = "copy_header" /\ pc'[t] = "publish"
    /\ header' = [header EXCEPT ![hand[t]] = boxes[w][1]]
    /\ owner' = [owner EXCEPT ![hand[t]] = Box(w)]
    /\ assigned' = assigned \cup {hand[t]}
    /\ UNCHANGED <<mark, seen, hand, mon, boxes, recursions, hashes>>

Published(t, w) ==
    /\ mark = INFLATING /\ seen[t] = StackLocked(w) /\ hand[t] \in Monitors
    /\ pc[t] = "publish" /\ pc'[t] \in Ops
    /\ mark' = Inflated(hand[t]) /\ mon'[t] = hand[t] /\ hand' = [hand EXCEPT ![t] = NULL]
    /\ UNCHANGED <<boxes, header, owner, recursions, assigned, hashes>>

Converted(t) ==
    /\ mark \in Headers /\ hand[t] \in Monitors
    /\ pc[t] = "inflate_neutral" /\ pc'[t] \in Ops
    /\ mark' = Inflated(hand[t]) /\ mon'[t] = hand[t] /\ hand' = [hand EXCEPT ![t] = NULL]
    /\ header' = [header EXCEPT ![hand[t]] = mark]
    /\ owner' = [owner EXCEPT ![hand[t]] = NULL]
    /\ assigned' = assigned \cup {hand[t]}
    /\ UNCHANGED <<boxes, recursions, hashes>>

HashedMark(t) ==
    /\ mark = Neutral(NULL) /\ mark' = Neutral(hash[t]) /\ hash[t] \in Hashes
    /\ pc[t] = "hash_cas" /\ pc'[t] = "java" /\ mon'[t] = NULL
    /\ hashes' = hashes \cup {hash[t]}
    /\ UNCHANGED <<hand, boxes, header, owner, recursions, assigned>>

HashedMonitor(t) ==
    /\ mon[t] \in Monitors /\ mark = Inflated(mon[t]) /\ hash[t] \in Hashes
    /\ pc[t] = "hash_mcas" /\ pc'[t] = "java" /\ mon'[t] = NULL
    /\ header[mon[t]] = Neutral(NULL)
    /\ header' = [header EXCEPT ![mon[t]] = Neutral(hash[t])]
    /\ hashes' = hashes \cup {hash[t]}
    /\ UNCHANGED <<mark, hand, boxes, owner, recursions, assigned>>

Marked(t) ==
    /\ UNCHANGED <<count, waiters, lists>>
    /\ \/ Stacked(t) \/ Unstacked(t) \/ Converted(t) \/ HashedMark(t) \/ HashedMonitor(t)
       \/ \E w \in Threads : Seized(t, w) \/ Copied(t, w) \/ Published(t, w)

\* What a step that writes the mark, or a monitor's header, does.
LEMMA MarkSteps ==
    ASSUME IInv, NEW t \in Threads, Marking(t)
    PROVE  Marked(t)
<1>1. Local(t) /\ Boxed(t)
  BY TypesHold, Zenon DEF LocalInv, IInv, BoxInv
<1>2. Back(t) => pc'[t] = "java" /\ mon'[t] = NULL /\ hand' = Set(hand, t, NULL)
  BY Ended, Zenon DEF Back
<1>3. pc[t] \in {"enter_cas", "exit_cas", "hash_cas", "hash_mcas"} => Set(hand, t, NULL) = hand
  <2>1. pc[t] \in {"enter_cas", "exit_cas", "hash_cas", "hash_mcas"} => hand[t] = NULL
    BY NoMonitor DEF HandLabels, PrivateLabels
  <2> QED BY <2>1, SetAt
<1>4. UNCHANGED <<count, waiters, lists>>
  BY Zenon DEF Marking, slow_enter_cas, fast_exit_cas, inflate_locked, inflate_copy_header,
         inflate_publish, inflate_neutral, FastHashCode_cas, FastHashCode_mcas, monitor
<1>5. ASSUME slow_enter_cas(t) PROVE Stacked(t)
  <2>1. pc[t] = "enter_cas" /\ mark = seen[t] /\ Nest(t, mark)
    BY <1>5, Zenon DEF slow_enter_cas
  <2>2. mark \in Headers /\ boxes[t] = <<>>
    BY <1>1, <2>1, Zenon DEF Local, Boxed
  <2>3. boxes'[t] = <<mark>>
    <3>1. boxes'[t] = Append(boxes[t], mark)
      BY <2>1, WriteAt, Zenon DEF Nest
    <3> QED BY <3>1, <2>2
  <2> QED BY <1>2, <1>3, <1>5, <2>2, <2>3, Zenon DEF slow_enter_cas, Stacked, monitor
<1>6. ASSUME fast_exit_cas(t) PROVE Unstacked(t)
  <2>1. pc[t] = "exit_cas" /\ mark = StackLocked(t) /\ Unnest(t) /\ mark' = Displaced(t)
    BY <1>6, Zenon DEF fast_exit_cas
  <2>2. Len(boxes[t]) = 1 /\ mark' = boxes[t][1] /\ mark' \in Headers
    BY <2>1, ExitCas, Zenon
  <2>3. boxes'[t] = <<>>
    <3>1. boxes'[t] = SubSeq(boxes[t], 1, Len(boxes[t]) - 1)
      BY <2>1, WriteAt, Zenon DEF Unnest
    <3> QED BY <3>1, <2>2
  <2> QED BY <1>2, <1>3, <1>6, <2>2, <2>3, Zenon DEF fast_exit_cas, Unstacked, monitor
<1>7. ASSUME inflate_locked(t) PROVE \E w \in Threads : Seized(t, w)
  <2>1. PICK w \in Threads : seen[t] = StackLocked(w)
    BY <1>1, <1>7, Zenon DEF inflate_locked, Local, Lockers
  <2>2. Seized(t, w)
    BY <1>7, <2>1, WriteAt, Zenon DEF inflate_locked, Seized, Goto, locals, monitor
  <2> QED BY <2>2
<1>8. ASSUME pc[t] \in PrivateLabels
      PROVE  \E w \in Threads : /\ seen[t] = StackLocked(w) /\ seen[t].locker = w
                                /\ mark = INFLATING /\ hand[t] \in Monitors /\ ret[t] \in Ops
  <2>1. PICK w \in Threads : seen[t] = StackLocked(w)
    BY <1>1, <1>8, Zenon DEF Local, Lockers
  <2>2. mark = INFLATING /\ hand[t] \in Monitors /\ ret[t] \in Ops
    BY <1>1, <1>8, Zenon DEF Local, HandLabels, InflateLabels, IInv, InflatingInv
  <2> QED BY <2>1, <2>2, MarkFacts, Zenon
<1>9. ASSUME inflate_copy_header(t) PROVE \E w \in Threads : Copied(t, w)
  <2>1. pc[t] \in PrivateLabels
    BY <1>9, Zenon DEF inflate_copy_header, PrivateLabels
  <2>2. PICK w \in Threads : /\ seen[t] = StackLocked(w) /\ seen[t].locker = w
                             /\ mark = INFLATING /\ hand[t] \in Monitors
    BY <1>8, <2>1, Zenon
  <2>3. Copied(t, w)
    BY <1>9, <2>2, WriteAt, Zenon DEF inflate_copy_header, Copied, Goto, locals, Set
  <2> QED BY <2>3
<1>10. ASSUME inflate_publish(t) PROVE \E w \in Threads : Published(t, w)
  <2>1. pc[t] \in PrivateLabels
    BY <1>10, Zenon DEF inflate_publish, PrivateLabels
  <2>2. PICK w \in Threads : /\ seen[t] = StackLocked(w) /\ mark = INFLATING
                             /\ hand[t] \in Monitors /\ ret[t] \in Ops
    BY <1>8, <2>1, Zenon
  <2>3. pc'[t] = ret[t] /\ mon'[t] = hand[t]
    BY <1>10, WriteAt, Zenon DEF inflate_publish, Goto
  <2>4. Published(t, w)
    BY <1>10, <2>2, <2>3, Zenon DEF inflate_publish, Published, monitor, Set
  <2> QED BY <2>4
<1>11. ASSUME inflate_neutral(t) PROVE Converted(t)
  <2>1. mark \in Headers /\ hand[t] \in Monitors /\ ret[t] \in Ops
    BY <1>1, <1>11, Zenon DEF inflate_neutral, Local, HandLabels, InflateLabels
  <2>2. pc'[t] = ret[t] /\ mon'[t] = hand[t]
    BY <1>11, WriteAt, Zenon DEF inflate_neutral, Goto
  <2> QED BY <1>11, <2>1, <2>2, Zenon DEF inflate_neutral, Converted, Set
<1>12. ASSUME FastHashCode_cas(t) PROVE HashedMark(t)
  <2>1. mark = Neutral(NULL) /\ hash[t] \in Hashes
    BY <1>1, <1>12, Zenon DEF FastHashCode_cas, Local
  <2> QED BY <1>2, <1>3, <1>12, <2>1, Zenon DEF FastHashCode_cas, HashedMark, monitor
<1>13. ASSUME FastHashCode_mcas(t) PROVE HashedMonitor(t)
  <2>1. hash[t] \in Hashes /\ pc[t] \in MonLabels
    BY <1>1, <1>13, Zenon DEF FastHashCode_mcas, Local, MonLabels
  <2>2. mon[t] \in Monitors /\ mark = Inflated(mon[t])
    BY <2>1, OnMonitor
  <2> QED BY <1>2, <1>3, <1>13, <2>1, <2>2, Zenon DEF FastHashCode_mcas, HashedMonitor, Set
<1> QED BY <1>4, <1>5, <1>6, <1>7, <1>9, <1>10, <1>11, <1>12, <1>13, Zenon DEF Marking, Marked

Deflated(m) ==
    /\ mark = Inflated(m) /\ header[m] \in Headers /\ ~ is_busy(m)
    /\ mark' = header[m] /\ header' = Set(header, m, NULL) /\ assigned' = {}
    /\ gFreeList' = gFreeList \cup {m} /\ gOmInUseList' = gOmInUseList \ {m}
    /\ omInUseList' = [t \in Threads |-> omInUseList[t] \ {m}]
    /\ UNCHANGED <<owner, recursions, count, waiters, gBlockList, omFreeList,
                   MonitorInUseLists, boxes, pc, ret, locals, hashes>>
    /\ \A t \in Threads : pc[t] \in SafeLabels

\* deflate_idle_monitors() takes one idle monitor off the object
\* (synchronizer.cpp:1431-1505).
LEMMA Deflation ==
    ASSUME IInv, deflate_idle_monitors
    PROVE  \E m \in Monitors : Deflated(m)
<1>1. \A t \in Threads : pc[t] \in SafeLabels
  BY DEF deflate_idle_monitors
<1>2. \A m \in assigned : m \in Monitors /\ mark = Inflated(m)
  BY <1>1, TypesHold DEF IInv, InflatingInv, SafeLabels, MonitorType
<1>3. PICK m \in Walked \cap assigned :
         /\ ~ is_busy(m)
         /\ mark' = header[m]
         /\ header' = Set(header, m, NULL)
         /\ assigned' = assigned \ {m}
         /\ gFreeList' = gFreeList \cup {m}
         /\ gOmInUseList' = gOmInUseList \ {m}
         /\ omInUseList' = [t \in Threads |-> omInUseList[t] \ {m}]
  BY Zenon DEF deflate_idle_monitors
<1>4. m \in Monitors /\ mark = Inflated(m) /\ assigned' = {}
  BY <1>2, <1>3, MarkInjective
<1>5. header[m] \in Headers
  BY <1>4, Zenon DEF IInv, HeaderInv, Carried
<1>6. UNCHANGED <<owner, recursions, count, waiters, gBlockList, omFreeList,
                  MonitorInUseLists, boxes, pc, ret, locals, hashes>>
  BY DEF deflate_idle_monitors
<1> QED BY <1>1, <1>3, <1>4, <1>5, <1>6, ZenonT(40) DEF Deflated

\* The steps that leave the mark and the headers in the monitors alone.
Quietly(t) ==
    /\ UNCHANGED <<mark, header, assigned>>
    /\ pc[t] \notin PrivateLabels /\ pc'[t] \notin PrivateLabels
    /\ MonKept(t) /\ BoxKept(t) /\ HashKept(t)

\* A step writes the mark or a header, or leaves alone where the header is.
LEMMA QuietSteps ==
    ASSUME IInv, NEW t \in Threads, Step(t)
    PROVE  Quietly(t) \/ Marked(t)
<1>1. pc[t] = "exit" => boxes[t] # <<>>
  <2>1. Local(t) /\ Boxed(t)
    BY TypesHold, Zenon DEF LocalInv, IInv, BoxInv
  <2> QED BY <2>1, Zenon DEF Local, Ops, Boxed, Holds
<1> USE DEF Quietly, MonKept, HashKept, PrivateLabels
<1>2. Passing(t) => Quietly(t)
  BY Zenon DEF Passing, BoxKept, BusyLabels, HandLabels, monitor
<1>3. ASSUME Recursing(t) PROVE Quietly(t)
  <2>1. BoxKept(t)
    BY <1>3, WriteAt, Zenon DEF Recursing, slow_enter_recursive, Nest, fast_exit_recursive, Unnest,
           Holds, BoxKept
  <2> QED BY <1>3, <2>1, Zenon DEF Recursing, slow_enter_recursive, fast_exit_recursive, monitor,
             locals
<1>4. ASSUME Pooling(t) PROVE Quietly(t)
  <2>1. /\ UNCHANGED <<mark, header, assigned, boxes, mon, hashes>>
        /\ \/ pc[t] \in {"alloc", "reprovision", "new_block", "flush"}
           \/ pc[t] \in {"inflate_locked", "inflate_neutral"}
        /\ \E l \in {"alloc", "inflate_locked", "inflate_neutral", "inflate", "java"} :
              pc' = Set(pc, t, l)
    BY <1>4, Zenon DEF Pooling, omAlloc, omAlloc_reprovision, omAlloc_new_block, inflate_retry,
             omFlush, Goto, monitor, locals
  <2>2. pc'[t] \in {"alloc", "inflate_locked", "inflate_neutral", "inflate", "java"}
    BY <2>1, WriteAt, Zenon
  <2> QED BY <2>1, <2>2, Zenon DEF BoxKept
<1>5. ASSUME \/ monitor_enter(t) \/ monitor_enter_done(t) \/ monitor_exit_recursive(t)
             \/ monitor_exit(t) \/ monitor_wait_done(t)
      PROVE  Quietly(t)
  <2>1. pc'[t] = "java" /\ mon'[t] = NULL
    BY <1>5, Endings, Ended, Zenon DEF Ending
  <2>2. /\ UNCHANGED <<mark, header, assigned, hashes>>
        /\ \/ pc[t] \in {"enter", "enter_done"} /\ Nest(t, unused_mark)
           \/ pc[t] = "exit" /\ Unnest(t)
           \/ pc[t] = "wait_done" /\ boxes' = boxes
    BY <1>5, Zenon DEF monitor_enter, monitor_enter_done, monitor_exit_recursive, monitor_exit,
           monitor_wait_done
  <2>3. BoxKept(t)
    BY <1>1, <2>2, WriteAt, Zenon DEF BoxKept, Nest, Unnest, MonLabels, Ops, CountLabels
  <2> QED BY <2>1, <2>2, <2>3, Zenon
<1>6. ASSUME monitor_enter_block(t) \/ EnterI(t) \/ monitor_wait(t) \/ Woken(t) \/ ReenterI(t)
      PROVE  Quietly(t)
  <2>1. /\ UNCHANGED <<mark, header, assigned, boxes, mon, hashes>>
        /\ pc[t] \in {"enter", "blocked", "wait", "waiting", "reenter"}
        /\ \E l \in {"blocked", "enter_done", "waiting", "reenter", "wait_done"} :
              pc' = Set(pc, t, l)
    BY <1>6, Zenon DEF monitor_enter_block, EnterI, Acquire, monitor_wait, Woken, ReenterI, Goto,
             monitor, locals
  <2>2. pc'[t] \in {"blocked", "enter_done", "waiting", "reenter", "wait_done"}
    BY <2>1, WriteAt, Zenon
  <2> QED BY <2>1, <2>2, Zenon DEF BoxKept
<1> HIDE DEF Quietly, MonKept, HashKept, PrivateLabels
<1> QED BY <1>2, <1>3, <1>4, <1>5, <1>6, Kinds, MarkSteps, Zenon DEF Heavy

\* The next-state relation as the proofs split it.
LEMMA Next1 ==
    ASSUME IInv, Next
    PROVE  \/ \E m \in Monitors : Deflated(m)
           \/ \E t \in Threads : Step(t) /\ OthersKeep(t) /\ (Quietly(t) \/ Marked(t))
BY Deflation, OthersKept, QuietSteps, Zenon DEF Next
==============================================================================
