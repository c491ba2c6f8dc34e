# The synchronization kernel of HotSpot in TLA+

TLA+ models of the parts of the HotSpot virtual machine (JDK 8u, Linux on x86)
whose correctness depends on the order in which threads take their steps. TLC
checks them on small instances; TLAPS proves the central safety properties for
every instance. `PROJECT.json` lists the components, the runs, a mutant for
every property, the map from definitions to source lines, the hazards and the
theorems.

## The system and how its parts interact

HotSpot is about 870,000 lines of C++. Most of it is sequential: compilers, the
class file parser, the interpreter, back ends. What is hard to get right, and to
test, is the kernel that lets all of it run on many threads. It has layers, and
each relies on what the one below promises:

| layer | part of HotSpot | what it promises upwards |
|---|---|---|
| 0 | park-unpark: `os::PlatformEvent`, `Parker`, spin and mux locks, the ParkEvent free list | one permit; no lost wakeup |
| 1 | `Monitor`/`Mutex`, the VM's own locks | a Mesa monitor; the VM thread may sneak past a lock at a safepoint |
| 2 | safepoints, thread-state transitions, external suspension, the VM thread's operation queue | at a safepoint no thread runs in Java or in the VM |
| 3 | Java monitors: `ObjectMonitor`, inflation and deflation, biased locking | Java's `synchronized`, `wait`, `notify` |
| 4 | GC coordination: task queues, termination, work gangs, `SuspendibleThreadSet`, `GC_locker`, SATB and dirty-card queues, the CMS token | work is done once and to the end; nobody touches the heap while it moves |
| 5 | class initialization, class loading, the compile broker, nmethods and the sweeper, inline caches | each class is set up once; code is not freed while it runs |

The heap algorithms themselves (marking, copying, compaction), the compilers
(C1, C2, Shark, adlc), the interpreter, the CPU back ends, the class file parser
and verifier, JNI, JVMTI, services and the OS ports other than Linux are not
modelled: they are sequential code over large data, which a model checker does
not reach, or they are thin layers over the parts above. `PROJECT.json` names
each with its reason.

## Modules

Every module names in its head comment the source it models, keeps the source's
names, and makes one step of every access to state that another thread can see.

| module | models | state and actions |
|---|---|---|
| `ParkPermit` | what a ParkEvent promises | a permit, a blocked owner; `Unpark`, `Consume`, `Block`, `Release`, `GiveUp` |
| `PlatformEvent` | `os::PlatformEvent::park`, `park(millis)`, `unpark`, `TryPark`, `reset` (os_linux.cpp) | `_Event`, `_nParked`, the mutex, the condition variable and whether it is initialised, a label per thread; an action per access of `_Event` and per pthread call |
| `AbstractMonitor` | what a monitor promises: a Mesa monitor | each thread is out, entering, in or waiting |
| `NativeMonitor` | `Monitor::lock`, `lock_without_safepoint_check`, `try_lock`, `unlock`, `wait`, `notify`, `notify_all`, `ILock`, `IUnlock`, `IWait` (mutex.cpp) | `LockByte` and `cxq` (together `LockWord`), `EntryList`, `OnDeck`, `WaitSet`, `WaitLock`, `_owner`, `_snuck`, one permit per thread; labels `i_*`, `u_*`, `w_*`, `r_*`, `n_*` are places in `ILock`, `IUnlock`, `IWait`, its reentry and `notify` |
| `StopTheWorld` | what a safepoint promises | a phase and the threads that run |
| `Safepoint` | `SafepointSynchronize::begin`, `end`, `block`, the polling page, `ThreadSafepointState` (safepoint.cpp), `ThreadStateTransition` (interfaceSupport.hpp), `java_suspend`, `java_suspend_self`, `java_resume` (thread.cpp) | `_state`, `_waiting_to_block`, each thread's `_thread_state` in memory and its store buffer, the suspend flags, `Threads_lock`, `Safepoint_lock` |
| `VMThread` | `VMThread::execute`, `loop`, `evaluate_operation`, `wait_for_vm_thread_exit`, `VMOperationQueue` (vmThread.cpp) | the queue by priority, the drain list, the current operation, the ticket counters, the threads in `VMOperationRequest_lock`'s wait; a critical section up to its wait() is one action |
| `ObjectMonitor` | `enter`, `EnterI`, `ReenterI`, `exit`, `TrySpin`, `wait`, `notify`, `notifyAll` (objectMonitor.cpp), the inlined exit of compiled code (macroAssembler_x86.cpp) | `_owner`, `_recursions`, `_count`, `_waiters`, `_cxq`, `_EntryList`, `_succ`, `_Responsible`, `_WaitSet`, each ObjectWaiter's `TState` and `_notified`, one permit per thread |
| `Synchronizer` | `slow_enter`, `fast_exit`, `inflate`, `omAlloc`, `omRelease`, `omFlush`, `FastHashCode`, `deflate_idle_monitors` (synchronizer.cpp) | one object's mark word, its BasicLocks, the ObjectMonitors with their headers and counts, the private, global and in-use lists |
| `TaskDeque` | what a work-stealing queue promises | a sequence: push and pop at one end, steal at the other |
| `TaskQueue` | `GenericTaskQueue` (taskqueue.hpp) | `_bottom`, `_age` (top and tag), `_elems`, the owner's store buffer; the owner's and each thief's locals |
| `WorkStealing` | `ParallelTaskTerminator` (taskqueue.cpp) with the workers of a G1 evacuation: `trim_queue`, `steal_and_trim_queue`, `do_void` | the size of each queue and overflow stack, `_offered_termination`, a label per worker |
| `SuspendibleThreadSet` | `SuspendibleThreadSet` (gc_implementation/shared) | `_nthreads`, `_nthreads_stopped`, `_suspend_all`, the threads in `STS_lock`'s wait |
| `G1ConcurrentCycle` | `ConcurrentMarkThread::run`, `ConcurrentMark`, `CMRootRegions` and G1's pauses as far as they meet a marking cycle; `collect()` for System.gc(), and the `GC_locker` it meets | composes `SuspendibleThreadSet` with the concurrent mark thread's place in its cycle, the flags of `ConcurrentMark`, `CMRootRegions` and `G1CollectorPolicy`, and the VM operation under way |
| `GCLocker` | `GC_locker` (memory/gcLocker.cpp) with G1's collections: `collect`, `VM_GC_Operation`, `VM_G1IncCollectionPause`, `attempt_allocation_slow` | `_jni_lock_count`, `_needs_gc`, `_doing_gc`, `_total_collections`, each thread's `_jni_active_critical`, `Heap_lock`, the threads in `JNICritical_lock`'s wait; an action per piece of a critical section between two points where its lock is given up |
| `MC*` | the instances that TLC checks | |
| `SynchronizerInvariant` | the inductive invariant of `Synchronizer`, definitions only | |
| `*Proofs`, `SynchronizerTheorems` | theorems and their proofs | |

How the modules stand on each other: `NativeMonitor` and `ObjectMonitor` use for
each thread the permit of `ParkPermit`, which `PlatformEvent` is shown to
implement. `Safepoint`, `VMThread`, `SuspendibleThreadSet` and `GCLocker` use
monitors as `AbstractMonitor` has them, which `NativeMonitor` is shown to
implement. `NativeMonitor` and `VMThread` in turn use of a safepoint only what
`StopTheWorld` says, which `Safepoint` is shown to implement. `ObjectMonitor` and
`Synchronizer` are both shown to implement `AbstractMonitor`, the second with the
queues of the first left out: it is about the form of the lock, not about who
gets it. `WorkStealing` uses queues as `TaskDeque` has them, which `TaskQueue` is
shown to implement. `G1ConcurrentCycle` extends `SuspendibleThreadSet`, whose
actions are conjuncts of its steps. Of `GC_locker` it uses what `GCLocker` shows:
a needed collection is held up until the last region ends and then made.

### Abstractions

* A compare-and-swap loop is one step on the current value: a failed attempt
  changes nothing and reads again. A bounded spin is one step that fails only
  when it saw the lock held.
* A critical section is one step where nobody can see inside it: the ones under
  `SR_lock`, `ListLock` and `VMOperationQueue_lock`, block()'s under
  `Safepoint_lock`, all of `SuspendibleThreadSet`'s and `GCLocker`'s. In `GCLocker`
  a whole VM operation is one step, because `StopTheWorld` says that nobody sees
  its inside. In `G1ConcurrentCycle` it is several: a pause waits for the root
  region scan, which goes on outside the set, and for the regions to come.
* Memory is total store order where the code leaves out a fence: `Safepoint`
  gives each Java thread a store buffer for its `_thread_state`, `TaskQueue`
  gives the owner one. Elsewhere every access is sequentially consistent: the
  accesses of mutex.cpp, objectMonitor.cpp and os_linux.cpp that matter are
  atomic instructions or are followed by a fence. Compiled code's exit stores NULL
  into `_owner` without a fence; in `ObjectMonitor` its two loads of the lists
  come before the store, in a step of their own, which is what the missing fence
  allows.
* Tasks, threads, events, operations and hash codes are model values; a task is
  its number in `TaskQueue` and only counted in `WorkStealing`.
* `peek()` reads `_bottom` and `top` with two loads, so in `WorkStealing` its
  answer for a queue that was in use since the round of peeks began may be
  either.
* `VMThread` rebases its ticket counters when an operation's epilogue has run.
  Only their difference is read, so nothing is bounded by it.
* In `Synchronizer` read_stable_mark()'s polling for the end of INFLATING is a
  guard, and a free list is a set of which a fixed member is the first.

`utilities/taskqueue.hpp` defines `GenericTaskQueue::push()` twice (352 and 375;
the second, in which the last statement has no semicolon, inlines
`push_slow()`). Both have the same effect, and `push` of `TaskQueue` stands for
both.

## Runs

The number after an instance is the number of distinct states TLC finds.

| run | what it checks | instance |
|---|---|---|
| `park` | `SignalsOnValidCond`, `NoLostWakeup`, `ImplementsParkPermit`: nobody signals a destroyed condition variable; a sleeping owner with a permit has a signaller on its way; the permit contract | owner, three unparkers; all four combinations of `WorkAroundNPTLTimedWaitHang` and `FilterSpuriousWakeups` (3,427) |
| `monitor` | `MutualExclusion`, `QueuesAccounted`, `NoStrandedThread`, `ImplementsAbstractMonitor`: one thread at a time between lock() and unlock(); every ParkEvent is in exactly one place, and a timeout that races a notify has one outcome; while the lock is free no queued thread is forgotten; the lock is a Mesa monitor | two Java threads and the VM thread, which begins safepoints, sneaks and uses try_lock; one timed waiter (579,781) |
| `monitor_live` | `EveryContenderEnters`: once callers stop arriving all that contend, and all waiters that were notified, get in, provided that none stays suspended | a Java thread, which waits with a timeout and may be suspended in its wait, and a VM-internal thread; `NativeMonitorTimeout` on (23,287) |
| `safepoint` | `StopsTheWorld`, `SafepointIsReached`: a safepoint stops the world, and one that begins is reached | two Java threads that come and go, no membars, one pending store each (265,081) |
| `safepoint_suspend` | `CountsAreExact`, `FirstSuspensionHolds`, `StopsTheWorld`: `_waiting_to_block` and the count of JNI critical regions are exact; a thread that was suspended stays out of Java | one thread with critical regions that is suspended and resumed at any moment and leaves and joins the list; membars, two pending stores (34,599) |
| `vm_operations` | `ReturnsWhenEvaluated`, `EvaluatedOnceWhileLive`, `PendingOpsAreScanned`, `EveryRequestIsServed`, `ExitIsSeen`: a blocking execute() returns when its own operation is done; nothing is evaluated twice or after it was freed; a collection scans the operations that are still to come; every request is served, and the VM's exit is seen | a Java thread and a GC thread with one operation of every mode (38,285) |
| `object_monitor` | `SleepersAccounted`, `IsAMonitor`, `FreeLockIsTaken`, `InterruptedWaiterLeaves`: a sleeping thread is on one list; the monitor is a Mesa monitor; a free monitor with threads queued is taken, also after compiled code has stranded one; an interrupted waiter gets out | a thread that leaves through compiled code and notifies; one that spins, enters twice, waits, is interrupted and suspended (174,264) |
| `synchronizer` | `HashIsStable`, `MonitorsAreConserved`, `HeldMonitorIsCurrent`, `IsAMonitor`, `InflateReturns`: one identity hash; no ObjectMonitor is lost or on two lists; no monitor is deflated that a thread refers to; the object is one monitor whatever form its lock has; inflate() returns | two threads, nesting two deep, three ObjectMonitors in two blocks, two hash codes; one waits, one dies; with and without `MonitorInUseLists` (235,664) |
| `task_queue` | `LocalFailureMeansEmpty`, `ImplementsTaskDeque`: pop_local() fails only on an empty queue; every task is handed out once, in deque order | four slots, two thieves, six tasks, three pending stores (521,619) |
| `work_stealing` | `TerminationMeansDone`, `EveryoneTerminates`: when one worker leaves the terminator no task is left; all leave | three workers, queues of one, three tasks a round (139,333) |
| `gc_locker` | `LastOutIsAlone`, `ClearedAfterCollection`, `NeedsGCIsServed`: one thread collects and nobody enters a critical region meanwhile; the request is not dropped without a collection; it is served | three threads, regions nested up to two deep, a count of collections that wraps (113,523) |
| `g1_cycle` | `InitialMarkStartsClean`, `AbortIsNotUndone`, `ScanCutShortOnlyByFullGC`, `NoMemberRuns`, `CycleEnds`, `SystemGcReturns`: an initial mark finds clean marking data; what a full collection reset stays reset; only a full collection cuts a root region scan short; no thread of the suspendible set runs in a pause; a cycle ends and System.gc() returns | the concurrent mark thread and a refinement thread against all pauses, one System.gc() caller, JNI critical regions and shutdown (139,674) |

Deadlock is checked in all runs but `g1_cycle`, where the program may really
stop: see the pause after stop() below. The type invariants are in no run; those
of `NativeMonitor`, `WorkStealing`, `SuspendibleThreadSet`, `GCLocker` and
`Synchronizer` are proved, the others document the types.

### Where the code and what it says differ

Places where a comment or assert depends on something that the code does not
check, or says something else. They are stated here from the source; no run is
kept for them.

* With `NativeMonitorFlags & 32`, ILock() stores the Thread and not its
  ParkEvent into OnDeck (mutex.cpp:479), against the assert at 498. The flag is
  off by default and not modelled.
* A lock that the VM thread takes at a safepoint with lock() must not be taken
  with lock() by a thread that is not a Java thread: no safepoint stops that
  thread between its acquisition and set_owner(), and the assert on the owner
  fails (mutex.cpp:915, 922). Nor may Java threads mix lock() and
  lock_without_safepoint_check() on a lock: one that holds it and goes to a
  safepoint blocks the other outside a ThreadBlockInVM, and the safepoint is not
  reached.
* The VM thread must not notify on a lock it sneaked into: the waiter may
  release the lock byte in between, and notify()'s CAS (mutex.cpp:702) would
  lock a free lock. The constant `NotifyWhileSnuck` lets the model do it; with
  TRUE, `NotifyPushesOnLockedWord` fails. This contract and the previous one
  are the assumption `SneakContract` of the proofs.
* unpark()'s comment (os_linux.cpp:6087) says that an unpark of a blocked owner
  makes the next park return at once. park() stores 0 at its end, so it does
  not. Harmless: callers must expect either.
* java_suspend() promises (thread.cpp:2245) that the target executes no new
  bytecode once it has returned. A thread on its way back from native code that
  has been resumed, and is suspended a second time before it has left
  `_thread_blocked`, misses the second suspension: the safepoint that
  java_suspend() forces counts it as stopped, and it goes on to Java without
  another look at the flag (thread.cpp:2395). `FirstSuspensionHolds` is the part
  of the promise that the code keeps.
* Without `UseMembar` nothing orders a transition's store of native_trans before
  its load of the suspend flag, and only the VM thread serializes: java_suspend()
  (is_ext_suspend_completed, thread.cpp:625) may read `_thread_in_native` after
  the thread has passed its check. With `UseMembar = FALSE` and a suspendable
  thread `FirstSuspensionHolds` fails.
* notify() stores `TS_ENTER` (objectMonitor.cpp:1711) before `_notified = 1`
  (1713). An interrupted waiter that looks in between throws
  InterruptedException although it was chosen, against "Monitor notify has
  precedence over thread interrupt" (1685).
* inflate() says of a lost race for the mark that there is "no chance of
  live-lock" (synchronizer.cpp:1371). That needs the other threads to leave the
  mark alone for once: `InflateReturns` has it as its premise.
* G1's cleanup pause counts as a collection (concurrentMark.cpp:2316) although
  it evacuates nothing, so it may make should_discard() drop the last thread's
  request. `ClearedAfterCollection` therefore speaks of what total_collections()
  counts.
* A remark that overflowed sets `restart_for_overflow` (concurrentMark.cpp:1452),
  which only the next mark step's end resets (1383). When a full collection
  aborts marking before the concurrent mark thread is back at the head of its
  loop (concurrentMarkThread.cpp:184), marking is skipped, the flag stays and the
  loop (194) never ends, against "If the barrier aborted we ignore the overflow
  condition and just abort the whole marking phase as quickly as possible"
  (concurrentMark.cpp:1061). `CycleEnds` leaves this case out: `Stuck` in
  `G1ConcurrentCycle` names it.
* A pause after ConcurrentMarkThread::stop() that finds a root region scan
  pending waits for a thread that has gone. `Stuck` names this too.
* collect()'s comment (g1CollectedHeap.cpp, at the retry) says that a full
  collection happened when the count of started cycles moved; an initial mark by
  another cause moves it as well, and System.gc() then returns without having
  waited for that cycle.
* The loop of collect() has no bound. Each of its attempts can be cancelled: by
  any pause that is counted between its reading of total_collections() and its
  prologue (vmGCOperations.cpp:90), a cleanup pause included, or by a critical
  region. `SystemGcReturns` leaves out the caller to whom this happens for ever:
  `Overtaken` in `G1ConcurrentCycle` names the moment.

### Bounds, and why they are enough

* Three threads on a native monitor reach every branch of IUnlock(): one exits,
  one is the heir or on the EntryList, one is on cxq. Nothing is bounded but the
  number of threads: they call again and again.
* `Safepoint` has two Java threads: every property is about one thread against
  the VM thread, or about a count that two threads race to change. A store
  buffer of two lets a thread run a whole transition ahead of memory; with one
  pending store, in `safepoint`, the store that matters to examine_state_of_thread
  can still be the one that is pending. Suspension is checked with one thread: it
  is between the target, its suspender and the VM thread.
* `VMThread` has an operation of each mode, though no operation of this version
  declares the modes without a safepoint. `QueueTurns = 2` is the 10 of
  remove_next(): both priorities have their turn.
* `ObjectMonitor` has two threads, each with its own part: one strands, notifies
  and interrupts, one has all the ways to wait for the monitor. Not reached are
  the interference of a third contender with the walk of `_cxq` and the second
  turn of notifyAll()'s loop.
* `Synchronizer` has three ObjectMonitors in two blocks, so that the private list,
  the global list and a new block are all used. Nesting two deep makes a recursive
  stack-lock, and with inflation between the two both kinds of recursion. The
  theorems need none of these bounds.
* `TaskQueue` has four slots, of which two may be used, and six pushes, so that
  the indices wrap and the special case `N - 1` occurs. The tag's range is
  larger than the pushes can use: the wrap-around of a 32-bit tag inside one
  thief's window is the one thing the code does not exclude (see the hazards).
* `WorkStealing` has queues that hold one task, so the overflow stack is used
  from the second task on. The bound is the number of tasks a round creates.
  Rounds are not bounded. The proofs need none of this.
* `GCLocker` has three threads: one in a region, one that wants to enter or to
  allocate, and the last one out. Nesting to two makes the first entry and the
  last exit differ from the others. `CountRange = 2` makes the count of
  collections wrap at once, the worst case for tests of equality.
* `G1ConcurrentCycle` has one survivor, one freed region, one setback and one
  chunk of the bitmap per cycle: each loop of the concurrent mark thread runs or
  does not. The theorems hold for all numbers.

### Fairness

Weak fairness of each thread's next step inside an operation, and of the end of
its critical section: the kernel schedules every runnable thread, and critical
sections end. Nobody is obliged to call an operation, and no timeout or spurious
wakeup is promised, except the timed park of `ObjectMonitor`'s `_Responsible`
thread, which is how the code repairs stranding. Nobody owes a suspended thread
its resumption: `EveryContenderEnters` has it as its premise that a thread that
contends does not stay suspended, and `ObjectMonitor`'s liveness that in the end
nobody is. In `Safepoint` compiled code
polls, VM code ends in a transition and stores reach memory; a thread in native
code or suspended may stay there. Strong fairness is assumed only

* in `VMThread`, of reaching a safepoint that is being synchronized: `Safepoint`'s
  `SafepointIsReached`;
* in `GCLocker`, of taking `Heap_lock`, and of the exit from the outermost critical
  region: regions are "by spec, well bounded" (gcLocker.hpp:193), so that a thread
  does not go on nesting them for ever;
* in `G1ConcurrentCycle`, of the concurrent mark thread's step and its two pauses
  (there is time between safepoints, in which the thread runs), of its stop in
  yield() and its return from there, of the steps of System.gc() (which runs
  between safepoints too, and whose request the VM thread serves: `VMThread`'s
  `EveryRequestIsServed`), and of the end of a critical region that holds up a
  collection and the collection it then asks for (regions are well bounded, and
  `GCLocker`'s `NeedsGCIsServed`).

## Proofs

All theorems hold for every set of threads and every value of the parameters
that satisfies the ASSUMEs of the module.

| theorem | states |
|---|---|
| `NativeMonitorProofs!TypeCorrect`, `InnerLockSafe` | types; OnDeck is a lock |
| `NativeMonitorProofs!OuterLockSafe`, `MutualExclusionSafe`, `SneakSafe`, `OwnerSafe`, `NotifySafe`, `OnDeckStable` | the LockByte is exact, mutual exclusion, what sneaking relies on, the owner's assert, notify()'s assert, the heir stays OnDeck; under `SneakContract` |
| `SynchronizerTheorems!HeldMonitorSafe`, `HashSafe`, `PoolSafe`, `SynchronizerIsAMonitor` | no monitor is deflated that a thread refers to; one hash code; every ObjectMonitor is in one place; the object implements `AbstractMonitor` whatever form its lock has |
| `WorkStealingProofs!OffersCountedSafe`, `TerminationSafe` | the terminator's count is exact; when one worker is out no task is left |
| `GCLockerProofs!CountedSafe`, `LastOutSafe`, `WaitersSafe`, `ClearedSafe` | the count is exact while `_needs_gc` is set; one thread collects, undisturbed; waiters will be notified; `_needs_gc` is cleared only after a collection was counted |
| `G1ConcurrentCycleProofs!CountsExactSafe`, `NoMemberRunsSafe`, `NoLostNotifySafe` | of `SuspendibleThreadSet` alone: both counters are exact; no member runs while the VM thread has the set; whoever waits has something to wait for |
| `G1ConcurrentCycleProofs!InitialMarkStartsCleanSafe`, `AbortIsNotUndoneSafe`, `ScanCutShortSafe` | three of the safety properties of the run `g1_cycle` |
| `G1ConcurrentCycleProofs!NoMemberRunsInCycle` | the same of the set as the cycle uses it: no thread of the set runs in a pause, the counters are exact and no notification is lost |

Each proof has one lemma per conjunct of an inductive invariant, with one step
per action or per kind of action.

* **Native monitor, inner lock.** `TypeInv` is `TypeOK`, `InnerLock` and
  `Dereferences`. The last is needed because the types of `w` and the heads of
  lists depend on where a thread is: IUnlock() pops the EntryList only where it
  is not empty.
* **Native monitor, outer lock.** `LockInv` adds `OwnerInv` (the owner is the thread in
  the critical section), `TbivmInv` (a thread inside a ThreadBlockInVM is inside
  lock() or wait()) and `SneakInv` (while the VM thread is in a lock it sneaked
  into, it is at a safepoint and every Java thread is idle or stalled). Mutual
  exclusion is not inductive alone, because a sneaking VM thread and the
  physical holder both think they have the lock; it follows from the owner, and
  sneaking is safe because the holder cannot leave its ThreadBlockInVM.
* **Synchronizer.** The invariant `IInv` (module `SynchronizerInvariant`) has ten
  parts. `LocalInv` says what a thread's locals are at each label. `InflatingInv`
  says that INFLATING is one thread's doing and that a monitor whose `_object` is
  set is the object's or about to be. `CountInv` ties `_count` and `_waiters` to
  the threads that refer to the monitor; deflation reads them, so
  `HeldMonitorIsCurrent` follows from it and from nothing less. `HeaderInv` says
  where the header is: in the mark, in the BasicLock of the thread that displaced
  it, or in the monitor, and, between INFLATING and publication, in two places
  with the same value. `HashInv` says of the same place (`Carried`) that it holds
  every hash code that was returned. `PoolInv` accounts for every monitor of every
  block. `BoxInv` and `LockInv` relate the three ways in which a lock is recorded:
  the thread's BasicLocks, the mark, and `_owner` with `_recursions`. The BasicLocks
  that are not recursive stack-locks number `_recursions + 1`, which is what makes
  the last exit() the one that releases, after any mixture of stack-locks,
  inflation and wait(). The refinement then needs no invariant of its own: each
  step moves at most one thread's status (`Moving`), and one that moves it to "in"
  finds by `LockInv` that nobody is in.

  The actions are sorted once (`Kinds`): those that return, recurse, move monitors
  between lists, write the mark or a header, or work at the monitor. The parts
  that a kind cannot disturb are settled for the whole kind. What is used of
  finite sets is a hypothesis `CardFacts` of the lemmas, which `SynchronizerTheorems`
  discharges from the library: the provers slow down with everything in scope.
  For the same reason the lemmas are in three modules: types, locals and
  INFLATING (`SynchronizerProofs`); header, hash code, counts and pool
  (`SynchronizerHeaderProofs`); BasicLocks, lock and refinement
  (`SynchronizerLockProofs`).
* **Termination.** `IInv` is `TypeOK`, `IdleIsEmpty` (a worker outside
  trim_queue() has nothing queued), `ActiveInv`, `OffersCounted` and `DoneInv`
  (once one worker is out all are outside trim_queue()). When the count reaches
  the number of active workers all of them offer, so by `IdleIsEmpty` all queues
  are empty, nobody can see work any more, and the count stays.
* **Suspendible threads.** The set's invariant is `TypeOK`, `CountsExact`,
  `SuspendInv` (`_suspend_all` is set exactly from synchronize() to
  desynchronize()), `NoMemberRuns` and `NoLostNotify`. The lemma `SetsNext` says how
  a step changes the two sets that are counted; equal counts of a set and its
  subset then mean that they are equal.
* **G1's cycle.** `CycleInv` is `OpInv` (which operation can be where while the
  concurrent mark thread is where), `AbortInv` (what abort() reset stays reset
  while `has_aborted` is set), `ScanInv` (a scan is told to give up only while a
  full collection waits for it) and `PhaseInv` (what the cycle has put in order by
  each of its phases). `InitialMarkStartsClean` needs all of them: marking data is
  clean after a cycle that ended and after one that was aborted at any place. What
  is proved of the set carries over because a step of the cycle contains a step of
  the set or leaves the set's variables alone (`StepRefinement`).
* **GC locker.** `IInv` is `TypeOK`, `CountedWhenNeeded`, `RegionInv` (a thread
  in the slow exit is in its last region and `_needs_gc` is set; one that
  allocates or waits is in no region), `LastOutIsAlone`, `DueInv`, `WaitersWillBeNotified`
  and `CollectInv`. `DueInv` says that while `_needs_gc` is set somebody is left
  to clear it; without it a waiter might have nobody to notify it. `CollectInv`
  ties the last thread's request to what has been counted: it is dropped only
  where the count has moved, which is why clearing `_needs_gc` is justified.

The inductive invariants are also invariants of the runs' instances: TLC was used
to find them before they were proved.

Only model-checked:

* liveness, which the installed provers do not reach: `EveryContenderEnters`,
  `SafepointIsReached`, `EveryRequestIsServed`, `ExitIsSeen`, `FreeLockIsTaken`,
  `InterruptedWaiterLeaves`, `InflateReturns`, `EveryoneTerminates`,
  `NeedsGCIsServed`, `CycleEnds`, `SystemGcReturns`;
* `NativeMonitor`'s `QueuesAccounted`, `NoStrandedThread` and its refinement of
  `AbstractMonitor`;
* all of `PlatformEvent`, `Safepoint`, `VMThread`, `ObjectMonitor` and `TaskQueue`.
  Their invariants relate a dozen or more variables at the granularity of single
  accesses, and none of them has its inductive strengthening yet.

## What the modelled parts leave out

* `NativeMonitor`: bits 1, 16 and 32 of `NativeMonitorFlags` (variants of the
  spin, of IUnlock()'s delegation and of ILock()), `jvm_raw_lock()` (lock_without_safepoint_check
  with a second sneaking clause), lock ranks. `muxAcquire` of the WaitLock is an
  atomic lock.
* `Safepoint`: lazy critical natives, `DeferPollingPageLoopCount >= 0`,
  asynchronous exceptions, timeouts, statistics and cleanup tasks, the SIGSEGV
  of a store to the protected serialize page, suspend-equivalent monitor waits,
  `wait_for_ext_suspend_completion`, JNIEnv proxies. Stacks are taken to be
  walkable. Liveness is not checked for suspended threads.
* `VMThread`: nested operations, periodic tasks, the operations that are pending
  when the VM exits, which are dropped.
* `ObjectMonitor`: JVMTI events, RTM, `complete_exit` and `reenter`, the knobs at
  other than their default values, `_succ` left set by a thread that is suspended
  in its wait. `InflateStackLocked` stands for inflate() by a contender.
* `Synchronizer`: biased locking, `jni_enter` and `jni_exit`, notify through
  inflate(), `MonitorBound` and the scavenges it induces, several objects at once.
* `TaskQueue`: `set_empty`, `oops_do` and statistics, which run when nobody else
  uses the queue.
* `WorkStealing`: `should_exit_termination()`, the choice between spinning,
  yielding and sleeping, ParNew's global overflow list.
* `SuspendibleThreadSet`: `ConcGCYieldTimeout`.
* `G1ConcurrentCycle`: parallel marking threads and their overflow barriers, the
  pending list lock in the operations' prologues, the prologues of operations other
  than System.gc()'s, the wait of a humongous allocation, the several GC workers of
  a pause.
* `GCLocker`: `GCLockerInvokesConcurrent`, the pending list lock, full
  collections, the other collectors, the debug verifiers.

## Plan

1. Layer 3: biased locking, on top of `Synchronizer`.
2. Layer 4: work gangs and their barrier, the CMS token, the hand-over of SATB
   and dirty-card buffers, parallel marking.
3. Layer 0: `Parker`, `muxAcquire`/`muxRelease`, the ParkEvent free list.
4. Layer 5: class initialization, placeholders, the compile broker, nmethod
   states.
5. Proofs: inductive invariants for `VMThread`, `ObjectMonitor`, `Safepoint` and
   `TaskQueue`.
