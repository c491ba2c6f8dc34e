---------------------------- MODULE Synchronizer -----------------------------
(***************************************************************************)
(* The life of one Java object's mark word, runtime/synchronizer.cpp: the  *)
(* header is neutral (and may hold the identity hash), stack-locked (it    *)
(* points to a BasicLock, which holds the displaced header), INFLATING, or *)
(* inflated (it points to an ObjectMonitor, which holds the header); idle  *)
(* monitors are deflated at safepoints.  A thread locks and unlocks the    *)
(* object, waits on it, and asks for its hash code.                        *)
(*                                                                         *)
(* A stack-lock is always the thread's outermost BasicLock, so that the    *)
(* mark names the thread only.  The ObjectMonitor's queues are module      *)
(* ObjectMonitor; here a blocked thread is counted and takes the lock when *)
(* it is free.  The sections under ListLock are single steps.  Free lists  *)
(* are sets, and a fixed member is the first: nothing depends on the order.*)
(***************************************************************************)
EXTENDS Naturals, Sequences, FiniteSets

CONSTANTS
    Threads,
    NULL,
    Blocks,      \* the blocks of ObjectMonitors that can be malloc()ed
    Provision,   \* bound: omFreeProvision
    Hashes,      \* the values get_next_hash() can give
    MaxNesting,  \* bound: how deep a thread locks the object
    Hashers,     \* the threads that ask for the hash code
    Waiters,     \* the threads that call wait()
    Mortals      \* the threads that die (and are replaced)

Monitors == UNION Blocks

ASSUME SynchronizerAssumption ==
    /\ IsFiniteSet(Threads) /\ IsFiniteSet(Monitors)
    /\ \A B, C \in Blocks : B = C \/ B \cap C = {}
    /\ Provision \in Nat \ {0} /\ MaxNesting \in Nat \ {0}
    /\ Hashers \cup Waiters \cup Mortals \subseteq Threads

VARIABLES
    mark,           \* the object's mark word
    header, owner, recursions, count, waiters,  \* of each ObjectMonitor
    assigned,       \* the monitors whose _object is set
    gBlockList,     \* the blocks that exist
    gFreeList, gOmInUseList,
    omFreeList, omInUseList,                    \* of each thread
    MonitorInUseLists,                          \* the flag
    boxes,          \* the displaced headers of each thread's BasicLocks
    pc,
    ret,            \* what inflate() was called for
    seen,           \* the mark as the thread read it
    hand,           \* the ObjectMonitor that omAlloc() gave
    mon,            \* the ObjectMonitor that inflate() returned
    hash,           \* FastHashCode(): the value to install
    save,           \* wait(): the recursion count
    hashes          \* every value that FastHashCode() has returned

monitor == <<header, owner, recursions, count, waiters, assigned>>
lists   == <<gBlockList, gFreeList, gOmInUseList, omFreeList, omInUseList,
             MonitorInUseLists>>
locals  == <<seen, hand, mon, hash, save>>
vars    == <<mark, monitor, lists, boxes, pc, ret, locals, hashes>>

Neutral(h)     == [kind |-> "neutral", hash |-> h]
StackLocked(t) == [kind |-> "locker", locker |-> t]
INFLATING      == [kind |-> "inflating"]
Inflated(m)    == [kind |-> "monitor", monitor |-> m]
unused_mark    == [kind |-> "unused"]

\* The address of the thread's outermost BasicLock.
Box(t) == <<"BasicLock", t>>

\* NULL is no value of any kind, and no thread is the address of a BasicLock.
ASSUME DistinctAssumption ==
    /\ NULL \notin Threads \cup Monitors \cup Hashes \cup {"enter", "exit", "wait", "hash"}
    /\ NULL # unused_mark /\ \A h \in Hashes \cup {NULL} : NULL # Neutral(h)
    /\ \A t, u \in Threads : Box(t) \notin {NULL, u}

has_monitor == mark.kind = "monitor"
is_neutral  == mark.kind = "neutral"

Init ==
    /\ mark = Neutral(NULL)
    /\ header = [m \in Monitors |-> NULL]
    /\ owner = [m \in Monitors |-> NULL]
    /\ recursions = [m \in Monitors |-> 0]
    /\ count = [m \in Monitors |-> 0]
    /\ waiters = [m \in Monitors |-> 0]
    /\ assigned = {} /\ gBlockList = {} /\ gFreeList = {} /\ gOmInUseList = {}
    /\ omFreeList = [t \in Threads |-> {}]
    /\ omInUseList = [t \in Threads |-> {}]
    /\ MonitorInUseLists \in BOOLEAN
    /\ boxes = [t \in Threads |-> <<>>]
    /\ pc = [t \in Threads |-> "java"]
    /\ ret = [t \in Threads |-> NULL]
    /\ seen = [t \in Threads |-> NULL]
    /\ hand = [t \in Threads |-> NULL]
    /\ mon = [t \in Threads |-> NULL]
    /\ hash = [t \in Threads |-> NULL]
    /\ save = [t \in Threads |-> 0]
    /\ hashes = {}

Set(f, t, v) == [f EXCEPT ![t] = v]
Goto(t, l) == pc' = Set(pc, t, l)
Holds(t) == boxes[t] # <<>>
Nest(t, dhw) == boxes' = Set(boxes, t, Append(boxes[t], dhw))
Unnest(t) == boxes' = Set(boxes, t, SubSeq(boxes[t], 1, Len(boxes[t]) - 1))
Displaced(t) == boxes[t][Len(boxes[t])]
First(list) == CHOOSE m \in list : TRUE
\* The first n of a list, or all of it.
Take(list, n) == LET sized == {s \in SUBSET list : Cardinality(s) = n}
                 IN  IF sized = {} THEN list ELSE CHOOSE s \in sized : TRUE

\* The operation is over; its locals are dead.
Back(t) ==
    /\ Goto(t, "java")
    /\ ret' = Set(ret, t, NULL) /\ seen' = Set(seen, t, NULL)
    /\ hand' = Set(hand, t, NULL) /\ mon' = Set(mon, t, NULL)
    /\ hash' = Set(hash, t, NULL) /\ save' = Set(save, t, 0)

\* Call inflate() on behalf of an operation.
CallInflate(t, op) ==
    /\ Goto(t, "inflate") /\ ret' = Set(ret, t, op)
    /\ seen' = Set(seen, t, NULL) /\ hash' = Set(hash, t, NULL)
    /\ UNCHANGED <<mark, monitor, lists, boxes, hand, mon, save, hashes>>

------------------------------------------------------------------------------
\* slow_enter(): a stack-lock when the object is neutral ...
slow_enter(t) ==
    /\ pc[t] = "java" /\ Len(boxes[t]) < MaxNesting
    /\ is_neutral
    /\ Goto(t, "enter_cas")
    /\ seen' = Set(seen, t, mark)
    /\ UNCHANGED <<mark, monitor, lists, boxes, ret, hand, mon, hash, save, hashes>>

slow_enter_cas(t) ==
    /\ pc[t] = "enter_cas" /\ mark = seen[t]
    /\ mark' = StackLocked(t)
    /\ Nest(t, mark)
    /\ Back(t)
    /\ UNCHANGED <<monitor, lists, hashes>>

\* ... a null displaced header when this thread has it stack-locked ...
slow_enter_recursive(t) ==
    /\ pc[t] = "java" /\ Len(boxes[t]) < MaxNesting
    /\ mark = StackLocked(t)
    /\ Nest(t, NULL)
    /\ UNCHANGED <<mark, monitor, lists, pc, ret, locals, hashes>>

\* ... and inflate()->enter() otherwise.
slow_enter_inflate(t) ==
    /\ \/ /\ pc[t] = "java" /\ Len(boxes[t]) < MaxNesting
          /\ ~ is_neutral /\ mark # StackLocked(t)
       \/ pc[t] = "enter_cas" /\ mark # seen[t]
    /\ CallInflate(t, "enter")

\* fast_exit(): nothing for a recursive stack-lock ...
fast_exit_recursive(t) ==
    /\ pc[t] = "java" /\ Holds(t) /\ Displaced(t) = NULL
    /\ Unnest(t)
    /\ UNCHANGED <<mark, monitor, lists, pc, ret, locals, hashes>>

\* ... swing the displaced header back into the mark ...
fast_exit(t) ==
    /\ pc[t] = "java" /\ Len(boxes[t]) = 1 /\ Displaced(t) # NULL
    /\ mark = StackLocked(t)
    /\ Goto(t, "exit_cas")
    /\ UNCHANGED <<mark, monitor, lists, boxes, ret, locals, hashes>>

fast_exit_cas(t) ==
    /\ pc[t] = "exit_cas" /\ mark = StackLocked(t)
    /\ mark' = Displaced(t)
    /\ Unnest(t)
    /\ Back(t)
    /\ UNCHANGED <<monitor, lists, hashes>>

\* ... or else inflate()->exit().
fast_exit_inflate(t) ==
    /\ \/ /\ pc[t] = "java" /\ Holds(t) /\ Displaced(t) # NULL
          /\ Len(boxes[t]) # 1 \/ mark # StackLocked(t)
       \/ pc[t] = "exit_cas" /\ mark # StackLocked(t)
    /\ CallInflate(t, "exit")

wait(t) ==
    /\ pc[t] = "java" /\ t \in Waiters /\ Holds(t)
    /\ CallInflate(t, "wait")

------------------------------------------------------------------------------
\* inflate(): return the monitor; a mark that is INFLATING is polled.
inflate_done(t) ==
    /\ pc[t] = "inflate" /\ has_monitor
    /\ mon' = Set(mon, t, mark.monitor)
    /\ Goto(t, ret[t])
    /\ UNCHANGED <<mark, monitor, lists, boxes, ret, seen, hand, hash, save, hashes>>

\* A stack-locked or neutral mark needs an ObjectMonitor first.
inflate(t) ==
    /\ pc[t] = "inflate" /\ mark.kind \in {"locker", "neutral"}
    /\ seen' = Set(seen, t, mark)
    /\ Goto(t, "alloc")
    /\ UNCHANGED <<mark, monitor, lists, boxes, ret, hand, mon, hash, save, hashes>>

\* omAlloc(): take a monitor of the thread's own ...
omAlloc(t) ==
    /\ pc[t] = "alloc"
    /\ omFreeList[t] # {}
    /\ LET m == First(omFreeList[t]) IN
          /\ omFreeList' = Set(omFreeList, t, omFreeList[t] \ {m})
          /\ omInUseList' = IF MonitorInUseLists
                            THEN Set(omInUseList, t, omInUseList[t] \cup {m})
                            ELSE omInUseList
          /\ hand' = Set(hand, t, m)
          /\ recursions' = Set(recursions, m, 0)
    /\ Goto(t, IF seen[t].kind = "locker" THEN "inflate_locked" ELSE "inflate_neutral")
    /\ UNCHANGED <<mark, header, owner, count, waiters, assigned, gBlockList,
                   gFreeList, gOmInUseList, MonitorInUseLists, boxes, ret, seen,
                   mon, hash, save, hashes>>

\* ... or else go for the global list or, if that is seen empty, malloc().
omAlloc_empty(t) ==
    /\ pc[t] = "alloc" /\ omFreeList[t] = {}
    /\ Goto(t, IF gFreeList # {} THEN "reprovision" ELSE "new_block")
    /\ UNCHANGED <<mark, monitor, lists, boxes, ret, locals, hashes>>

\* Mutant: the loop over omFreeProvision is one short.
omAlloc_reprovision_OneShort(t) ==
    /\ pc[t] = "reprovision"
    /\ LET take == Take(gFreeList, Provision - 1) IN
          /\ gFreeList' = gFreeList \ take
          /\ omFreeList' = Set(omFreeList, t, omFreeList[t] \cup take)
    /\ Goto(t, "alloc")
    /\ UNCHANGED <<mark, monitor, gBlockList, gOmInUseList, omInUseList,
                   MonitorInUseLists, boxes, ret, locals, hashes>>

omAlloc_reprovision(t) ==
    /\ pc[t] = "reprovision"
    /\ LET take == Take(gFreeList, Provision) IN
          /\ gFreeList' = gFreeList \ take
          /\ omFreeList' = Set(omFreeList, t, omFreeList[t] \cup take)
    /\ Goto(t, "alloc")
    /\ UNCHANGED <<mark, monitor, gBlockList, gOmInUseList, omInUseList,
                   MonitorInUseLists, boxes, ret, locals, hashes>>

omAlloc_new_block(t) ==
    /\ pc[t] = "new_block"
    /\ gBlockList # Blocks
    /\ LET B == First(Blocks \ gBlockList) IN
          /\ gBlockList' = gBlockList \cup {B}
          /\ gFreeList' = gFreeList \cup B
    /\ Goto(t, "alloc")
    /\ UNCHANGED <<mark, monitor, gOmInUseList, omFreeList, omInUseList,
                   MonitorInUseLists, boxes, ret, locals, hashes>>

\* Interference: the mark has changed.  omRelease() gives the monitor back to
\* the list of the thread that took it, and the loop retries.
inflate_retry(t) ==
    /\ pc[t] \in {"inflate_locked", "inflate_neutral"} /\ mark # seen[t]
    /\ omFreeList' = Set(omFreeList, t, omFreeList[t] \cup {hand[t]})
    /\ omInUseList' = Set(omInUseList, t, omInUseList[t] \ {hand[t]})
    /\ Goto(t, "inflate")
    /\ seen' = Set(seen, t, NULL) /\ hand' = Set(hand, t, NULL)
    /\ UNCHANGED <<mark, monitor, gBlockList, gFreeList, gOmInUseList,
                   MonitorInUseLists, boxes, ret, mon, hash, save, hashes>>

\* Inflate over a stack-lock: INFLATING first ...
inflate_locked(t) ==
    /\ pc[t] = "inflate_locked" /\ mark = seen[t]
    /\ mark' = INFLATING
    /\ Goto(t, "copy_header")
    /\ UNCHANGED <<monitor, lists, boxes, ret, locals, hashes>>

\* Mutant: the monitor is not given the stack-lock's owner.
inflate_copy_header_Unowned(t) ==
    /\ pc[t] = "copy_header"
    /\ header' = Set(header, hand[t], boxes[seen[t].locker][1])
    /\ assigned' = assigned \cup {hand[t]}
    /\ Goto(t, "publish")
    /\ UNCHANGED <<mark, owner, recursions, count, waiters, lists, boxes, ret, locals,
                   hashes>>

\* ... then the owner's displaced header is copied ...
inflate_copy_header(t) ==
    /\ pc[t] = "copy_header"
    /\ header' = Set(header, hand[t], boxes[seen[t].locker][1])
    /\ owner' = Set(owner, hand[t], Box(seen[t].locker))
    /\ assigned' = assigned \cup {hand[t]}
    /\ Goto(t, "publish")
    /\ UNCHANGED <<mark, recursions, count, waiters, lists, boxes, ret, locals, hashes>>

\* ... and the monitor published.
inflate_publish(t) ==
    /\ pc[t] = "publish"
    /\ mark' = Inflated(hand[t])
    /\ mon' = Set(mon, t, hand[t])
    /\ hand' = Set(hand, t, NULL) /\ seen' = Set(seen, t, NULL)
    /\ Goto(t, ret[t])
    /\ UNCHANGED <<monitor, lists, boxes, ret, hash, save, hashes>>

\* Inflate a neutral object with one compare-and-swap.
inflate_neutral(t) ==
    /\ pc[t] = "inflate_neutral" /\ mark = seen[t]
    /\ mark' = Inflated(hand[t])
    /\ header' = Set(header, hand[t], mark)
    /\ owner' = Set(owner, hand[t], NULL)
    /\ assigned' = assigned \cup {hand[t]}
    /\ mon' = Set(mon, t, hand[t])
    /\ hand' = Set(hand, t, NULL) /\ seen' = Set(seen, t, NULL)
    /\ Goto(t, ret[t])
    /\ UNCHANGED <<recursions, count, waiters, lists, boxes, ret, hash, save, hashes>>

------------------------------------------------------------------------------
\* ObjectMonitor::enter(): free, or this thread's already ...
monitor_enter(t) ==
    /\ pc[t] = "enter"
    /\ \/ owner[mon[t]] = NULL /\ UNCHANGED recursions
       \/ /\ owner[mon[t]] = t
          /\ recursions' = Set(recursions, mon[t], recursions[mon[t]] + 1)
       \/ owner[mon[t]] = Box(t) /\ recursions' = Set(recursions, mon[t], 1)
    /\ owner' = Set(owner, mon[t], t)
    /\ Nest(t, unused_mark)
    /\ Back(t)
    /\ UNCHANGED <<mark, header, count, waiters, assigned, lists, hashes>>

\* ... or contended: the thread counts itself and blocks.
monitor_enter_block(t) ==
    /\ pc[t] = "enter" /\ owner[mon[t]] \notin {NULL, t, Box(t)}
    /\ count' = Set(count, mon[t], count[mon[t]] + 1)
    /\ Goto(t, "blocked")
    /\ UNCHANGED <<mark, header, owner, recursions, waiters, assigned, lists, boxes,
                   ret, locals, hashes>>

\* wait() is over: notified, interrupted or timed out.
Woken(t) ==
    /\ pc[t] = "waiting"
    /\ Goto(t, "reenter")
    /\ UNCHANGED <<mark, monitor, lists, boxes, ret, locals, hashes>>

\* A blocked thread, or one whose wait() is over, gets the lock ...
Acquire(t, l, m) ==
    /\ pc[t] = l /\ owner[mon[t]] = NULL
    /\ owner' = Set(owner, mon[t], t)
    /\ Goto(t, m)
    /\ UNCHANGED <<mark, header, recursions, count, waiters, assigned, lists, boxes,
                   ret, locals, hashes>>

EnterI(t)   == Acquire(t, "blocked", "enter_done")
ReenterI(t) == Acquire(t, "reenter", "wait_done")

\* ... and only then takes itself off the count.
monitor_enter_done(t) ==
    /\ pc[t] = "enter_done"
    /\ count' = Set(count, mon[t], count[mon[t]] - 1)
    /\ Nest(t, unused_mark)
    /\ Back(t)
    /\ UNCHANGED <<mark, header, owner, recursions, waiters, assigned, lists, hashes>>

\* ObjectMonitor::exit(): one recursion less ...
monitor_exit_recursive(t) ==
    /\ pc[t] = "exit" /\ recursions[mon[t]] # 0
    /\ owner' = Set(owner, mon[t], t)
    /\ recursions' = Set(recursions, mon[t], recursions[mon[t]] - 1)
    /\ Unnest(t)
    /\ Back(t)
    /\ UNCHANGED <<mark, header, count, waiters, assigned, lists, hashes>>

\* ... or the lock is dropped.
monitor_exit(t) ==
    /\ pc[t] = "exit" /\ recursions[mon[t]] = 0
    /\ owner' = Set(owner, mon[t], NULL)
    /\ Unnest(t)
    /\ Back(t)
    /\ UNCHANGED <<mark, header, recursions, count, waiters, assigned, lists, hashes>>

monitor_wait(t) ==
    /\ pc[t] = "wait"
    /\ save' = Set(save, t, recursions[mon[t]])
    /\ recursions' = Set(recursions, mon[t], 0)
    /\ waiters' = Set(waiters, mon[t], waiters[mon[t]] + 1)
    /\ owner' = Set(owner, mon[t], NULL)
    /\ Goto(t, "waiting")
    /\ UNCHANGED <<mark, header, count, assigned, lists, boxes, ret, seen, hand, mon,
                   hash, hashes>>

monitor_wait_done(t) ==
    /\ pc[t] = "wait_done"
    /\ recursions' = Set(recursions, mon[t], save[t])
    /\ waiters' = Set(waiters, mon[t], waiters[mon[t]] - 1)
    /\ Back(t)
    /\ UNCHANGED <<mark, header, owner, count, assigned, lists, boxes, hashes>>

------------------------------------------------------------------------------
\* The header that FastHashCode() finds without inflating: in the mark, in the
\* monitor, or in the thread's own stack-lock.  ReadStableMark() polls while
\* the mark is INFLATING.
StableHeader(t, k) ==
    \/ is_neutral /\ k = mark
    \/ has_monitor /\ k = header[mark.monitor]
    \/ mark = StackLocked(t) /\ k = boxes[t][1]

\* A hash code that is in the header, or that another thread has put there in
\* the meantime, is returned;
FastHashCode(t, h) ==
    /\ \/ pc[t] = "java" /\ t \in Hashers /\ StableHeader(t, Neutral(h))
       \/ pc[t] \in {"hash", "hash_mcas"} /\ header[mon[t]] = Neutral(h)
    /\ hashes' = hashes \cup {h}
    /\ Back(t)
    /\ UNCHANGED <<mark, monitor, lists, boxes>>

\* a new one, get_next_hash(), goes with compare-and-swap into a neutral mark ...
FastHashCode_next(t, v) ==
    /\ \/ /\ pc[t] = "java" /\ t \in Hashers /\ mark = Neutral(NULL)
          /\ Goto(t, "hash_cas") /\ seen' = Set(seen, t, mark)
       \/ /\ pc[t] = "hash" /\ header[mon[t]] = Neutral(NULL)
          /\ Goto(t, "hash_mcas") /\ UNCHANGED seen
    /\ hash' = Set(hash, t, v)
    /\ UNCHANGED <<mark, monitor, lists, boxes, ret, hand, mon, save, hashes>>

FastHashCode_cas(t) ==
    /\ pc[t] = "hash_cas" /\ mark = seen[t]
    /\ mark' = Neutral(hash[t])
    /\ hashes' = hashes \cup {hash[t]}
    /\ Back(t)
    /\ UNCHANGED <<monitor, lists, boxes>>

FastHashCode_inflate(t) ==
    /\ \/ /\ pc[t] = "java" /\ t \in Hashers
          /\ \/ ~ is_neutral /\ StableHeader(t, Neutral(NULL))
             \/ mark.kind = "locker" /\ mark # StackLocked(t)
       \/ pc[t] = "hash_cas" /\ mark # seen[t]
    /\ CallInflate(t, "hash")

\* Mutant: the header is stored, with no compare-and-swap.
FastHashCode_mcas_Store(t) ==
    /\ pc[t] = "hash_mcas"
    /\ header' = Set(header, mon[t], Neutral(hash[t]))
    /\ hashes' = hashes \cup {hash[t]}
    /\ Back(t)
    /\ UNCHANGED <<mark, owner, recursions, count, waiters, assigned, lists, boxes>>

\* ... or into the header that the monitor holds.
FastHashCode_mcas(t) ==
    /\ pc[t] = "hash_mcas" /\ header[mon[t]] = Neutral(NULL)
    /\ header' = Set(header, mon[t], Neutral(hash[t]))
    /\ hashes' = hashes \cup {hash[t]}
    /\ Back(t)
    /\ UNCHANGED <<mark, owner, recursions, count, waiters, assigned, lists, boxes>>

------------------------------------------------------------------------------
\* A thread dies; omFlush() runs after it has left the list of threads, so
\* possibly during a safepoint.  It takes its own lists ...
Die(t) ==
    /\ pc[t] = "java" /\ t \in Mortals /\ ~ Holds(t)
    /\ Goto(t, "flush")
    /\ UNCHANGED <<mark, monitor, lists, boxes, ret, locals, hashes>>

\* Mutant: the monitors in use are dropped.
omFlush_FreeOnly(t) ==
    /\ pc[t] = "flush"
    /\ gFreeList' = gFreeList \cup omFreeList[t]
    /\ omFreeList' = Set(omFreeList, t, {})
    /\ omInUseList' = Set(omInUseList, t, {})
    /\ Goto(t, "java")
    /\ UNCHANGED <<mark, monitor, gBlockList, gOmInUseList, MonitorInUseLists, boxes,
                   ret, locals, hashes>>

\* ... and splices them into the global ones under ListLock.
omFlush(t) ==
    /\ pc[t] = "flush"
    /\ gFreeList' = gFreeList \cup omFreeList[t]
    /\ gOmInUseList' = gOmInUseList \cup omInUseList[t]
    /\ omFreeList' = Set(omFreeList, t, {})
    /\ omInUseList' = Set(omInUseList, t, {})
    /\ Goto(t, "java")
    /\ UNCHANGED <<mark, monitor, gBlockList, MonitorInUseLists, boxes, ret, locals,
                   hashes>>

\* Where a thread is stopped by a safepoint: in Java code, or blocked in the
\* VM, ThreadBlockInVM's destructor included.  Nothing in between polls.
SafeLabels == {"java", "blocked", "enter_done", "waiting", "reenter", "wait_done",
               "flush"}

\* Mutant: _count is left out of is_busy().
is_busy_Uncounted(m) == waiters[m] # 0 \/ owner[m] # NULL

is_busy(m) == count[m] # 0 \/ waiters[m] # 0 \/ owner[m] # NULL

\* The monitors that the walk of deflate_idle_monitors() meets.
Walked ==
    IF MonitorInUseLists
    THEN gOmInUseList \cup UNION {omInUseList[t] : t \in {u \in Threads : pc[u] # "flush"}}
    ELSE UNION gBlockList

\* deflate_idle_monitors(), at a safepoint; the walk deflates every monitor
\* that is not busy, and of those that are one object's there is one.
deflate_idle_monitors ==
    /\ \A t \in Threads : pc[t] \in SafeLabels
    /\ \E m \in Walked \cap assigned :
          /\ ~ is_busy(m)
          /\ mark' = header[m]
          /\ header' = Set(header, m, NULL)
          /\ assigned' = assigned \ {m}
          /\ gFreeList' = gFreeList \cup {m}
          /\ gOmInUseList' = gOmInUseList \ {m}
          /\ omInUseList' = [t \in Threads |-> omInUseList[t] \ {m}]
    /\ UNCHANGED <<owner, recursions, count, waiters, gBlockList, omFreeList,
                   MonitorInUseLists, boxes, pc, ret, locals, hashes>>

------------------------------------------------------------------------------
Locking(t) ==
    \/ slow_enter(t) \/ slow_enter_cas(t) \/ slow_enter_recursive(t)
    \/ slow_enter_inflate(t)
    \/ fast_exit_recursive(t) \/ fast_exit(t) \/ fast_exit_cas(t)
    \/ fast_exit_inflate(t) \/ wait(t)

Inflation(t) ==
    \/ inflate(t) \/ inflate_done(t)
    \/ omAlloc(t) \/ omAlloc_empty(t) \/ omAlloc_reprovision(t) \/ omAlloc_new_block(t)
    \/ inflate_retry(t) \/ inflate_locked(t) \/ inflate_copy_header(t)
    \/ inflate_publish(t) \/ inflate_neutral(t)

Heavy(t) ==
    \/ monitor_enter(t) \/ monitor_enter_block(t) \/ EnterI(t) \/ monitor_enter_done(t)
    \/ monitor_exit_recursive(t) \/ monitor_exit(t)
    \/ monitor_wait(t) \/ Woken(t) \/ ReenterI(t) \/ monitor_wait_done(t)

Hashing(t) ==
    \/ \E h \in Hashes : FastHashCode(t, h) \/ FastHashCode_next(t, h)
    \/ FastHashCode_cas(t) \/ FastHashCode_inflate(t) \/ FastHashCode_mcas(t)

Step(t) == Locking(t) \/ Inflation(t) \/ Heavy(t) \/ Hashing(t) \/ Die(t) \/ omFlush(t)

Next == deflate_idle_monitors \/ \E t \in Threads : Step(t)

Spec == Init /\ [][Next]_vars

\* A thread in the VM goes on without being asked; one in wait() need not.
Progress(t) == pc[t] \notin {"java", "waiting"} /\ Step(t)

FairSpec == Spec /\ \A t \in Threads : WF_vars(Progress(t))

------------------------------------------------------------------------------
\* The identity hash never changes: whatever mixture of stack-locks,
\* inflations and deflations the threads that call FastHashCode()
\* (synchronizer.cpp:606) meet, they are all given one value, and it stays in
\* the header that is in the mark, in the BasicLock or in the monitor.
HashIsStable == Cardinality(hashes) <= 1

Assigned == IF has_monitor THEN {mark.monitor} ELSE {}
InHand(t) == IF hand[t] = NULL THEN {} ELSE {hand[t]}

\* ObjectMonitors are immortal and none is lost or used twice
\* (synchronizer.cpp:887): one that exists is free on one list, in the hand
\* of one inflating thread, or the object's; and with MonitorInUseLists the
\* walk of deflate_idle_monitors() can still find the ones that are in use,
\* those of a thread that has died included.
MonitorsAreConserved ==
    LET free(t) == omFreeList[t]
        listed == gOmInUseList \cup UNION {omInUseList[t] : t \in Threads}
        used == Assigned \cup UNION {InHand(t) : t \in Threads}
    IN  /\ gFreeList \cup (UNION {free(t) : t \in Threads}) \cup used = UNION gBlockList
        /\ \A t \in Threads :
              /\ free(t) \cap (gFreeList \cup used) = {}
              /\ \A u \in Threads \ {t} : free(t) \cap free(u) = {}
              /\ InHand(t) \cap (Assigned \cup UNION {InHand(u) : u \in Threads \ {t}}) = {}
        /\ gFreeList \cap used = {}
        /\ MonitorInUseLists => listed = used

\* A thread that works with the ObjectMonitor inflate() gave it, or sleeps on
\* it, has the object's monitor: deflation (synchronizer.cpp:1431) takes none
\* away that a thread still refers to.
HeldMonitorIsCurrent ==
    \A t \in Threads : mon[t] # NULL => mark = Inflated(mon[t])

status == [t \in Threads |->
    CASE pc[t] = "waiting" -> "waiting"
      [] pc[t] = "reenter" -> "entering"
      [] pc[t] = "enter_done" \/ pc[t] = "wait_done" -> "in"
      [] OTHER -> IF Holds(t) THEN "in"
                  ELSE IF pc[t] = "enter_cas" \/ ret[t] = "enter" THEN "entering"
                  ELSE "out"]

A == INSTANCE AbstractMonitor WITH MayExpire <- Waiters

\* The object is one monitor (AbstractMonitor), whichever of its forms the
\* lock is in: nobody enters while another thread is in, through a stack-lock,
\* an inflation (synchronizer.cpp:1201) or a deflation.
IsAMonitor == A!Spec

\* Nobody is about to take or release the stack-lock.
Quiet == \A t \in Threads : pc[t] \notin {"enter_cas", "exit_cas"}

Inflating(t) ==
    pc[t] \in {"inflate", "alloc", "reprovision", "new_block", "inflate_locked",
               "inflate_neutral", "copy_header", "publish"}

\* A thread that calls inflate() (synchronizer.cpp:1201) gets its monitor, if
\* stack-locking dies down: INFLATING is transient, and the pool always gives
\* a monitor.
InflateReturns ==
    \A t \in Threads : <>[]Quiet => []<>(~ Inflating(t))

==============================================================================
