------------------------- MODULE SynchronizerInvariant -----------------------
(***************************************************************************)
(* The inductive invariant of Synchronizer, for the proofs.                *)
(***************************************************************************)
EXTENDS Synchronizer, Integers

Headers == {Neutral(h) : h \in Hashes \cup {NULL}}
Lockers == {StackLocked(t) : t \in Threads}
Marks   == Headers \cup Lockers \cup {INFLATING} \cup {Inflated(m) : m \in Monitors}
Ops     == {"enter", "exit", "wait", "hash"}

AllocLabels   == {"alloc", "reprovision", "new_block"}
PrivateLabels == {"copy_header", "publish"}
HandLabels    == {"inflate_locked", "inflate_neutral"} \cup PrivateLabels
InflateLabels == {"inflate"} \cup AllocLabels \cup HandLabels
CountLabels   == {"blocked", "enter_done"}
SleepLabels   == {"waiting", "reenter", "wait_done"}
MonLabels     == Ops \cup {"hash_mcas"} \cup CountLabels \cup SleepLabels
Labels        == {"java", "enter_cas", "exit_cas", "hash_cas", "flush"}
                 \cup InflateLabels \cup MonLabels

MonitorType ==
    /\ mark \in Marks
    /\ header \in [Monitors -> Headers \cup {NULL}]
    /\ owner \in [Monitors -> {NULL} \cup Threads \cup {Box(t) : t \in Threads}]
    /\ recursions \in [Monitors -> Nat]
    /\ count \in [Monitors -> Int]
    /\ waiters \in [Monitors -> Int]
    /\ assigned \in SUBSET Monitors

ListType ==
    /\ gBlockList \in SUBSET Blocks
    /\ gFreeList \in SUBSET Monitors
    /\ gOmInUseList \in SUBSET Monitors
    /\ omFreeList \in [Threads -> SUBSET Monitors]
    /\ omInUseList \in [Threads -> SUBSET Monitors]
    /\ MonitorInUseLists \in BOOLEAN

ThreadType ==
    /\ boxes \in [Threads -> Seq(Headers \cup {NULL, unused_mark})]
    /\ pc \in [Threads -> Labels]
    /\ ret \in [Threads -> Ops \cup {NULL}]
    /\ seen \in [Threads -> Marks \cup {NULL}]
    /\ hand \in [Threads -> Monitors \cup {NULL}]
    /\ mon \in [Threads -> Monitors \cup {NULL}]
    /\ hash \in [Threads -> Hashes \cup {NULL}]
    /\ save \in [Threads -> Nat]
    /\ hashes \in SUBSET Hashes

TypeOK == MonitorType /\ ListType /\ ThreadType

\* What a thread has in its locals at each step.
Local(t) ==
    /\ mon[t] \in Monitors <=> pc[t] \in MonLabels
    /\ hand[t] \in Monitors <=> pc[t] \in HandLabels
    /\ pc[t] \in InflateLabels => ret[t] \in Ops
    /\ pc[t] \in Ops => ret[t] = pc[t]
    /\ pc[t] \in CountLabels => ret[t] = "enter"
    /\ pc[t] \in SleepLabels => ret[t] = "wait"
    /\ pc[t] = "hash_mcas" => ret[t] = "hash"
    /\ pc[t] \in {"java", "flush", "enter_cas", "exit_cas", "hash_cas"} => ret[t] = NULL
    /\ ret[t] = "wait" => t \in Waiters
    /\ pc[t] \in AllocLabels => seen[t] \in Headers \cup Lockers
    /\ pc[t] \in PrivateLabels \cup {"inflate_locked"} => seen[t] \in Lockers
    /\ pc[t] \in {"enter_cas", "inflate_neutral"} => seen[t] \in Headers
    /\ pc[t] = "hash_cas" => seen[t] = Neutral(NULL)
    /\ pc[t] \in {"hash_cas", "hash_mcas"} => hash[t] \in Hashes
    /\ pc[t] = "exit_cas" => Len(boxes[t]) = 1

LocalInv == \A t \in Threads : Local(t)

\* INFLATING is one thread's doing, and a monitor whose _object is set is the
\* object's or about to be.
InflatingInv ==
    /\ \A t \in Threads : pc[t] \in PrivateLabels => mark = INFLATING
    /\ \A t, u \in Threads :
          pc[t] \in PrivateLabels /\ pc[u] \in PrivateLabels => t = u
    /\ \A m \in assigned :
          mark = Inflated(m) \/ \E t \in Threads : pc[t] = "publish" /\ hand[t] = m

Counted(m)  == {t \in Threads : pc[t] \in CountLabels /\ mon[t] = m}
Sleepers(m) == {t \in Threads : pc[t] \in SleepLabels /\ mon[t] = m}

\* _count and _waiters are the numbers of threads that refer to the monitor.
CountInv ==
    \A m \in Monitors : count[m] = Cardinality(Counted(m)) /\ waiters[m] = Cardinality(Sleepers(m))

\* The thread has the object stack-locked, or had when another thread put
\* INFLATING over its mark.
Displacer(t) ==
    \/ mark = StackLocked(t)
    \/ \E u \in Threads : pc[u] \in PrivateLabels /\ seen[u] = StackLocked(t)

\* The object's header, in the mark or where the mark says, is one of K.
Carried(K) ==
    /\ mark \in Headers => mark \in K
    /\ \A t \in Threads : Displacer(t) => boxes[t] # <<>> /\ boxes[t][1] \in K
    /\ \A m \in Monitors : mark = Inflated(m) => header[m] \in K

HeaderInv ==
    /\ Carried(Headers)
    /\ \A t \in Threads : boxes[t] # <<>> => boxes[t][1] # NULL
    /\ \A t, u \in Threads :
          pc[t] = "publish" /\ seen[t] = StackLocked(u) => header[hand[t]] = boxes[u][1]

\* The hash codes that have been returned are one, and it is in the header.
HashInv ==
    /\ \A g, h \in hashes : g = h
    /\ \A h \in hashes : Carried({Neutral(h)})

\* Where each ObjectMonitor is.
Pooled(m) == m \in gFreeList \/ \E t \in Threads : m \in omFreeList[t]
InUse(m)  == mark = Inflated(m) \/ \E t \in Threads : hand[t] = m
Listed(m) == m \in gOmInUseList \/ \E t \in Threads : m \in omInUseList[t]

PoolInv ==
    /\ \A m \in Monitors :
          /\ m \in UNION gBlockList <=> Pooled(m) \/ InUse(m)
          /\ ~ (Pooled(m) /\ InUse(m))
          /\ MonitorInUseLists => (Listed(m) <=> InUse(m))
    /\ \A t \in Threads : hand[t] \in Monitors =>
          /\ mark # Inflated(hand[t])
          /\ MonitorInUseLists => hand[t] \notin gOmInUseList
    /\ \A t, u \in Threads : t # u =>
          /\ omFreeList[t] \cap omFreeList[u] = {}
          /\ hand[t] \in Monitors => hand[t] # hand[u]
          /\ hand[t] \in Monitors /\ MonitorInUseLists => hand[t] \notin omInUseList[u]
    /\ \A t \in Threads : omFreeList[t] \cap gFreeList = {}

\* The thread is in the monitor, and has the lock.
In(t) ==
    \/ pc[t] \in {"enter_done", "wait_done"}
    \/ Holds(t) /\ pc[t] \notin {"waiting", "reenter"}
Owns(t) ==
    \/ Displacer(t)
    \/ \E m \in Monitors : mark = Inflated(m) /\ owner[m] \in {t, Box(t)}

\* The BasicLocks that are not recursive stack-locks.
Counting(t) == {i \in 1 .. Len(boxes[t]) : boxes[t][i] # NULL}

Boxed(t) ==
    /\ pc[t] \in CountLabels \cup {"enter_cas", "flush"} => boxes[t] = <<>>
    /\ pc[t] \in SleepLabels \/ pc[t] = "exit_cas" \/ ret[t] \in {"exit", "wait"} => Holds(t)
    /\ pc[t] = "exit_cas" \/ ret[t] = "exit" => Displaced(t) # NULL
    /\ pc[t] \in SleepLabels => Cardinality(Counting(t)) = save[t] + 1

BoxInv == \A t \in Threads : Boxed(t)

\* The threads in the monitor are the owner, and its recursions are counted.
LockInv ==
    /\ \A t \in Threads :
          /\ In(t) <=> Owns(t)
          /\ Displacer(t) => Counting(t) = {1}
          /\ pc[t] \in {"enter_done", "wait_done"} =>
                owner[mon[t]] = t /\ recursions[mon[t]] = 0
          /\ pc[t] \in HandLabels => recursions[hand[t]] = 0
    /\ \A t, u \in Threads :
          pc[t] = "publish" /\ seen[t] = StackLocked(u) => owner[hand[t]] = Box(u)
    /\ \A m \in Monitors : mark = Inflated(m) =>
          /\ owner[m] \notin Threads => recursions[m] = 0
          /\ \A t \in Threads :
                owner[m] \in {t, Box(t)} /\ pc[t] \notin {"enter_done", "wait_done"} =>
                   Cardinality(Counting(t)) = recursions[m] + 1

IInv ==
    /\ TypeOK /\ LocalInv /\ InflatingInv /\ CountInv /\ HeldMonitorIsCurrent
    /\ HeaderInv /\ HashInv /\ PoolInv /\ BoxInv /\ LockInv

------------------------------------------------------------------------------
\* What the proofs use of finite sets.
CardFacts ==
    /\ \A S : IsFiniteSet(S) => Cardinality(S) \in Nat /\ (Cardinality(S) = 0 => S = {})
    /\ \A S, R : IsFiniteSet(S) /\ R \in SUBSET S => IsFiniteSet(R)
    /\ \A S, x : IsFiniteSet(S) /\ x \notin S => Cardinality(S \cup {x}) = Cardinality(S) + 1
    /\ \A S, x : IsFiniteSet(S) /\ x \in S => Cardinality(S \ {x}) = Cardinality(S) - 1
    /\ \A x : Cardinality({x}) = 1
    /\ \A n \in Nat : IsFiniteSet(1 .. n)
==============================================================================
