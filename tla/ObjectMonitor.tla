---------------------------- MODULE ObjectMonitor ----------------------------
(***************************************************************************)
(* The inflated Java monitor of runtime/objectMonitor.cpp: the lock is the *)
(* _owner word, taken by compare-and-swap; contending threads push         *)
(* themselves onto _cxq, spin and park; the exiting thread drops _owner    *)
(* first and then arranges for an heir.  The module also has the inlined   *)
(* exit of compiled code (fast_unlock of macroAssembler_x86.cpp, 64 bit),  *)
(* whose last step is a store of NULL without a fence or a second look at  *)
(* the queues, so that it can strand a thread that is just arriving.       *)
(*                                                                         *)
(* An ObjectWaiter stands for its thread and the lists are sequences, head *)
(* first.  TS_CXQ is written "ENTER": only the owner tells the two apart.  *)
(* The knobs have the values objectMonitor.cpp:151-186 gives them.  Loads  *)
(* and stores that another thread can come between are steps of their own; *)
(* the fences of the code make the others sequentially consistent.  Park   *)
(* and unpark are the one-permit semaphore of ParkPermit.                  *)
(***************************************************************************)
EXTENDS Naturals, Sequences

CONSTANTS
    Threads,
    NULL,
    Compiled,       \* the threads that leave through fast_unlock
    Spinners,       \* the threads that spin adaptively (_SpinDuration > 0)
    Recursive,      \* the threads that enter a second time
    Waiters,        \* the threads that call wait()
    TimedWaiters,   \* ... with a timeout or without
    Notifiers,      \* the threads that call notify() and notifyAll()
    Interruptible,  \* the threads that Thread.interrupt() is called on
    Suspendable     \* the threads that are externally suspended

ASSUME ObjectMonitorAssumption ==
    /\ NULL \notin Threads
    /\ TimedWaiters \subseteq Waiters
    /\ Compiled \cup Spinners \cup Recursive \cup Waiters \cup Notifiers
         \cup Interruptible \cup Suspendable \subseteq Threads

VARIABLES
    owner,        \* NULL, a thread, or a BasicLock on a thread's stack
    recursions,
    count,        \* _count: the threads that contend
    waiters,      \* _waiters
    cxq, EntryList,
    succ,         \* _succ: the heir presumptive
    Responsible,  \* the thread that parks with a timeout
    WaitSet, WaitSetLock,
    TState,       \* ObjectWaiter::TState: "RUN", "WAIT" or "ENTER"
    notified,     \* ObjectWaiter::_notified
    permit,       \* the thread's ParkEvent
    interrupted,  \* the threads whose interrupted flag is set
    unparking,    \* the threads that os::interrupt() has still to unpark
    inwait,       \* the threads inside wait()
    save,         \* wait(): the recursion count to restore
    WasNotified,  \* wait(): _notified as it was read
    pc,
    ret,          \* where exit() or TrySpin() returns to
    w,            \* exit(): the heir; notify(): the iterator
    List          \* exit(): the list detached from _cxq

lock     == <<owner, recursions>>
counts   == <<count, waiters>>
queues   == <<cxq, EntryList>>
nodes    == <<WaitSet, WaitSetLock, TState, notified>>
events   == <<permit, interrupted, unparking>>
waitFrame == <<inwait, save, WasNotified>>
vars     == <<lock, counts, queues, succ, Responsible, nodes, events,
              waitFrame, pc, ret, w, List>>

\* The address of a BasicLock on the stack of t, and is_lock_owned().
Box(t) == <<t>>

Init ==
    /\ owner = NULL /\ recursions = 0
    /\ count = 0 /\ waiters = 0
    /\ cxq = <<>> /\ EntryList = <<>> /\ succ = NULL /\ Responsible = NULL
    /\ WaitSet = <<>> /\ WaitSetLock = NULL
    /\ TState = [t \in Threads |-> "RUN"]
    /\ notified = [t \in Threads |-> FALSE]
    /\ permit = [t \in Threads |-> FALSE]
    /\ interrupted = {} /\ unparking = {}
    /\ inwait = {}
    /\ save = [t \in Threads |-> 0]
    /\ WasNotified = [t \in Threads |-> FALSE]
    /\ pc = [t \in Threads |-> "idle"]
    /\ ret = [t \in Threads |-> "idle"]
    /\ w = [t \in Threads |-> NULL]
    /\ List = [t \in Threads |-> <<>>]

At(t, l)    == pc[t] = l
Goto(t, l)  == pc' = [pc EXCEPT ![t] = l]
Returns(t, l) == ret' = [ret EXCEPT ![t] = l]
Without(q, t) == SelectSeq(q, LAMBDA u : u # t)
InSeq(q, t) == \E i \in DOMAIN q : q[i] = t

is_busy ==
    \/ count > 0 \/ waiters > 0 \/ owner # NULL \/ cxq # <<>>
    \/ EntryList # <<>>

\* Where enter() returns to.
Done(t) == IF t \in inwait THEN "w_done" ELSE "in"

\* A step that changes only control.
Step(t, l) ==
    /\ Goto(t, l)
    /\ UNCHANGED <<lock, counts, queues, succ, Responsible, nodes, events,
                   waitFrame, w, List>>

\* TryLock(): compare-and-swap t into a NULL _owner.  A compare-and-swap that
\* fails after a load that saw NULL is a load that came later.
TryLock(t, won, lost) ==
    /\ owner' = IF owner = NULL THEN t ELSE owner
    /\ Goto(t, IF owner = NULL THEN won ELSE lost)
    /\ UNCHANGED <<recursions, counts, queues, succ, Responsible, nodes,
                   events, waitFrame, w, List>>

\* if (_succ == Self) _succ = NULL: the load, and then the store.
TestSucc(t, l) ==
    /\ Returns(t, IF succ = t THEN l ELSE "idle")
    /\ Step(t, IF succ = t THEN "clear" ELSE l)

ClearSucc(t) ==
    /\ At(t, "clear")
    /\ succ' = NULL
    /\ Goto(t, ret[t])
    /\ Returns(t, "idle")
    /\ UNCHANGED <<lock, counts, queues, Responsible, nodes, events, waitFrame,
                   w, List>>

(***************************************************************************)
(* TrySpin_VaryDuration().  A spin returns 0 to the label in ret.          *)
(***************************************************************************)

\* Where it returns 1 to.
SpinWon(t) == CASE ret[t] = "e_count" -> Done(t)
                [] ret[t] = "e_push" -> "e_susp"
                [] ret[t] = "e_clear" -> "e_unlink"
                [] OTHER -> "r_unlink"

\* A TryLock() and, when it fails, TrySpin(): the first, unconditional probes
\* of which are one with the TryLock(), and the adaptive spin, which does not
\* begin when _SpinDuration is 0 or the owner is not runnable.
TryLockOrSpin(t, won, failed) ==
    \E spins \in (IF t \in Spinners THEN BOOLEAN ELSE {FALSE}) :
       /\ owner' = IF owner = NULL THEN t ELSE owner
       /\ Goto(t, IF owner = NULL THEN won
                  ELSE IF spins THEN "s_spin" ELSE failed)
       /\ Returns(t, IF owner # NULL /\ spins THEN failed ELSE "idle")
       /\ UNCHANGED <<recursions, waiters, queues, succ, Responsible, nodes,
                      events, waitFrame, w, List>>

\* if (_succ == NULL) _succ = Self, on every turn of the loop.
SpinReadSucc(t) ==
    /\ At(t, "s_spin") /\ succ = NULL
    /\ Step(t, "s_set")
    /\ UNCHANGED ret

SpinSetSucc(t) ==
    /\ At(t, "s_set")
    /\ succ' = t
    /\ Goto(t, "s_spin")
    /\ UNCHANGED <<lock, counts, queues, Responsible, nodes, events, waitFrame,
                   ret, w, List>>

SpinAcquire(t) ==
    /\ At(t, "s_spin") /\ owner = NULL
    /\ TryLock(t, "s_won", "s_won")
    /\ UNCHANGED ret

SpinWins(t) == At(t, "s_won") /\ TestSucc(t, SpinWon(t))

\* The spin fails, because the counter ran out or a safepoint is pending.
SpinAbort(t) ==
    /\ At(t, "s_spin")
    /\ Step(t, IF succ = t THEN "s_abort" ELSE ret[t])
    /\ Returns(t, IF succ = t THEN ret[t] ELSE "idle")

SpinClearSucc(t) ==
    /\ At(t, "s_abort")
    /\ succ' = NULL
    /\ Goto(t, "s_retry")
    /\ UNCHANGED <<lock, counts, queues, Responsible, nodes, events, waitFrame,
                   ret, w, List>>

SpinRetry(t) ==
    /\ At(t, "s_retry")
    /\ TryLock(t, SpinWon(t), ret[t])
    /\ Returns(t, "idle")

(***************************************************************************)
(* enter() and EnterI()                                                    *)
(***************************************************************************)

\* enter(), and try_enter() where it succeeds.
enter(t) ==
    /\ pc[t] \in {"idle", "w_enter"}
    /\ TryLockOrSpin(t, Done(t), "e_count")
    /\ UNCHANGED count

\* A thread that owns the monitor, by its own name or by that of its BasicLock.
enter_recursive(t) ==
    /\ At(t, "in") /\ t \in Recursive /\ recursions = 0
    /\ owner' = t
    /\ recursions' = recursions + 1
    /\ UNCHANGED <<counts, queues, succ, Responsible, nodes, events, waitFrame,
                   pc, ret, w, List>>

\* ObjectSynchronizer::inflate() by a contending thread, of an object that t
\* has stack-locked: a monitor fresh from the free list owned by t's BasicLock.
InflateStackLocked(t) ==
    /\ \A u \in Threads : At(u, "idle")
    /\ ~is_busy
    /\ owner' = Box(t)
    /\ succ' = NULL /\ Responsible' = NULL
    /\ Goto(t, "in")
    /\ UNCHANGED <<recursions, counts, queues, nodes, events, waitFrame, ret,
                   w, List>>

\* Atomic::inc_ptr(&_count) and, as after a suspension, EnterI().
EnterI(t) ==
    /\ pc[t] \in {"e_count", "e_try"}
    /\ count' = IF At(t, "e_count") THEN count + 1 ELSE count
    /\ TryLockOrSpin(t, "e_susp", "e_push")

\* Reset the event and push onto _cxq; the first to come may become the
\* responsible thread.  When another thread has pushed in between, try the lock
\* before the next attempt.
EnterIPush(t) ==
    /\ At(t, "e_push")
    /\ permit' = [permit EXCEPT ![t] = FALSE]
    /\ \/ /\ cxq' = <<t>> \o cxq
          /\ TState' = [TState EXCEPT ![t] = "ENTER"]
          /\ Goto(t, IF cxq = <<>> THEN "e_first" ELSE "e_loop")
          /\ UNCHANGED owner
       \/ /\ owner = NULL /\ cxq # <<>>
          /\ owner' = t
          /\ Goto(t, "e_susp")
          /\ UNCHANGED <<cxq, TState>>
    /\ UNCHANGED <<recursions, counts, EntryList, succ, Responsible, WaitSet,
                   WaitSetLock, notified, interrupted, unparking, waitFrame,
                   ret, w, List>>

EnterIReadEntryList(t) ==
    /\ At(t, "e_first")
    /\ Step(t, IF EntryList = <<>> THEN "e_elect" ELSE "e_loop")
    /\ UNCHANGED ret

\* cmpxchg_ptr(Self, &_Responsible, NULL)
EnterIElect(t) ==
    /\ At(t, "e_elect")
    /\ Responsible' = IF Responsible = NULL THEN t ELSE Responsible
    /\ Goto(t, "e_loop")
    /\ UNCHANGED <<lock, counts, queues, succ, nodes, events, waitFrame, ret, w,
                   List>>

\* The top of the loop.
EnterILoop(t) ==
    /\ At(t, "e_loop")
    /\ TryLock(t, "e_unlink", "e_mode")
    /\ UNCHANGED ret

\* The responsible thread parks with a timeout.
EnterIParkMode(t) ==
    /\ At(t, "e_mode")
    /\ Step(t, IF Responsible = t THEN "e_tpark" ELSE "e_park")
    /\ UNCHANGED ret

AfterPark(l) == CASE l \in {"e_park", "e_tpark"} -> "e_woken"
                  [] l \in {"w_park", "w_tpark"} -> "w_susp"
                  [] OTHER -> "r_susp"

TimedParkLabels == {"e_tpark", "w_tpark"}
ParkLabels == {"e_park", "w_park", "r_park"} \cup TimedParkLabels

\* park() returns: there is a permit, or the timeout has expired.
park(t) ==
    /\ pc[t] \in ParkLabels
    /\ permit[t] \/ pc[t] \in TimedParkLabels
    /\ permit' = [permit EXCEPT ![t] = FALSE]
    /\ Goto(t, AfterPark(pc[t]))
    /\ UNCHANGED <<lock, counts, queues, succ, Responsible, nodes, interrupted,
                   unparking, waitFrame, ret, w, List>>

\* After park(): try the lock, else spin, clear _succ and go round.
EnterIWoken(t) ==
    /\ At(t, "e_woken")
    /\ TryLockOrSpin(t, "e_unlink", "e_clear")
    /\ UNCHANGED count

EnterIClearSucc(t) == At(t, "e_clear") /\ TestSucc(t, "e_loop")

\* UnlinkAfterAcquire(), for EnterI and for ReenterI.
UnlinkAfterAcquire(t) ==
    /\ pc[t] \in {"e_unlink", "r_unlink"}
    /\ cxq' = Without(cxq, t)
    /\ EntryList' = Without(EntryList, t)
    /\ TState' = [TState EXCEPT ![t] = "RUN"]
    /\ Goto(t, IF At(t, "e_unlink") THEN "e_egress" ELSE "r_egress")
    /\ UNCHANGED <<lock, counts, succ, Responsible, WaitSet, WaitSetLock,
                   notified, events, waitFrame, ret, w, List>>

EnterIEgress(t)   == At(t, "e_egress") /\ TestSucc(t, "e_susp")
ReenterIEgress(t) == At(t, "r_egress") /\ TestSucc(t, "w_done")

\* The end of EnterI(), which gives the role of the responsible thread up, and
\* of enter(), for a thread that was not suspended meanwhile.
enter_done(t) ==
    /\ At(t, "e_susp")
    /\ Responsible' = IF Responsible = t THEN NULL ELSE Responsible
    /\ count' = count - 1
    /\ Goto(t, Done(t))
    /\ UNCHANGED <<lock, waiters, queues, succ, nodes, events, waitFrame, ret,
                   w, List>>

\* ... or suspended: give the monitor up through exit() and suspend.
enter_suspended(t) ==
    /\ At(t, "e_susp") /\ t \in Suspendable
    /\ recursions' = 0
    /\ succ' = NULL
    /\ Responsible' = NULL
    /\ Goto(t, "x_drop")
    /\ Returns(t, "e_suspended")
    /\ UNCHANGED <<owner, counts, queues, nodes, events, waitFrame, w, List>>

(***************************************************************************)
(* exit() and ExitEpilog()                                                 *)
(***************************************************************************)

\* A recursive exit only counts down.
exit_recursive(t) ==
    /\ At(t, "in") /\ recursions > 0
    /\ recursions' = recursions - 1
    /\ UNCHANGED <<owner, counts, queues, succ, Responsible, nodes, events,
                   waitFrame, pc, ret, w, List>>

\* Commute the owner from a BasicLock to t, _Responsible = NULL.
exit(t) ==
    /\ pc[t] \in {"in", "f_slow"} /\ recursions = 0
    /\ owner' = t
    /\ Responsible' = NULL
    /\ Goto(t, "x_drop")
    /\ UNCHANGED <<recursions, counts, queues, succ, nodes, events, waitFrame,
                   ret, w, List>>

\* release_store_ptr(&_owner, NULL); storeload
exit_drop(t) ==
    /\ At(t, "x_drop")
    /\ owner' = NULL
    /\ Goto(t, "x_test")
    /\ UNCHANGED <<recursions, counts, queues, succ, Responsible, nodes, events,
                   waitFrame, ret, w, List>>

\* exit() returns.
exit_returns(t) == Goto(t, ret[t]) /\ Returns(t, "idle")

\* A test of exit(): return to the caller or go on at l.
ExitTest(t, returns, l) ==
    /\ IF returns THEN exit_returns(t) ELSE Goto(t, l) /\ UNCHANGED ret
    /\ UNCHANGED <<recursions, counts, queues, succ, Responsible, nodes, events,
                   waitFrame, w, List>>

\* _EntryList|_cxq, loaded in either order, one after the other.
exit_read_queue(t) ==
    /\ At(t, "x_test")
    /\ \/ Step(t, IF EntryList = <<>> THEN "x_cxq" ELSE "x_succ")
       \/ Step(t, IF cxq = <<>> THEN "x_entry" ELSE "x_succ")
    /\ UNCHANGED ret

\* Both are empty: return.
exit_read_other(t) ==
    /\ \/ At(t, "x_cxq") /\ ExitTest(t, cxq = <<>>, "x_succ")
       \/ At(t, "x_entry") /\ ExitTest(t, EntryList = <<>>, "x_succ")
    /\ UNCHANGED owner

\* There is an heir already: return.
exit_read_succ(t) ==
    /\ At(t, "x_succ")
    /\ ExitTest(t, succ # NULL, "x_cas")
    /\ UNCHANGED owner

\* Reacquire the lock; whoever has taken it provides for succession.
exit_reacquire(t) ==
    /\ At(t, "x_cas")
    /\ owner' = IF owner = NULL THEN t ELSE owner
    /\ ExitTest(t, owner # NULL, "x_pick")

\* The owner makes the head of _EntryList its heir, or detaches _cxq, or, with
\* both empty, starts again.
exit_pick(t) ==
    /\ At(t, "x_pick")
    /\ \/ /\ EntryList # <<>>
          /\ w' = [w EXCEPT ![t] = Head(EntryList)]
          /\ succ' = Head(EntryList)
          /\ Goto(t, "x_release")
          /\ UNCHANGED <<cxq, List>>
       \/ /\ EntryList = <<>>
          /\ List' = [List EXCEPT ![t] = cxq]
          /\ cxq' = <<>>
          /\ Goto(t, IF cxq = <<>> THEN "x_drop" ELSE "x_fill")
          /\ UNCHANGED <<w, succ>>
    /\ UNCHANGED <<lock, counts, EntryList, Responsible, nodes, events,
                   waitFrame, ret>>

\* The detached list becomes the _EntryList (QMode 0 keeps its order).
exit_fill(t) ==
    /\ At(t, "x_fill")
    /\ EntryList' = List[t]
    /\ List' = [List EXCEPT ![t] = <<>>]
    /\ Goto(t, "x_abdicate")
    /\ UNCHANGED <<lock, counts, cxq, succ, Responsible, nodes, events,
                   waitFrame, ret, w>>

\* Abdicate to a spinner, if there is one.
exit_abdicate(t) ==
    /\ At(t, "x_abdicate")
    /\ w' = [w EXCEPT ![t] = IF succ # NULL THEN NULL ELSE Head(EntryList)]
    /\ Goto(t, IF succ # NULL THEN "x_drop" ELSE "x_heir")
    /\ UNCHANGED <<lock, counts, queues, succ, Responsible, nodes, events,
                   waitFrame, ret, List>>

\* ExitEpilog(): _succ = Wakee->_thread, ...
ExitEpilog(t) ==
    /\ At(t, "x_heir")
    /\ succ' = w[t]
    /\ Goto(t, "x_release")
    /\ UNCHANGED <<lock, counts, queues, Responsible, nodes, events, waitFrame,
                   ret, w, List>>

\* ... _owner = NULL, ...
ExitEpilogDrop(t) ==
    /\ At(t, "x_release")
    /\ owner' = NULL
    /\ Goto(t, "x_unpark")
    /\ UNCHANGED <<recursions, counts, queues, succ, Responsible, nodes, events,
                   waitFrame, ret, w, List>>

\* ... Trigger->unpark().
ExitEpilogUnpark(t) ==
    /\ At(t, "x_unpark")
    /\ permit' = [permit EXCEPT ![w[t]] = TRUE]
    /\ w' = [w EXCEPT ![t] = NULL]
    /\ exit_returns(t)
    /\ UNCHANGED <<lock, counts, queues, succ, Responsible, nodes, interrupted,
                   unparking, waitFrame, List>>

(***************************************************************************)
(* fast_unlock: the exit of compiled code                                  *)
(***************************************************************************)

\* The owner word must be the thread itself and the queues empty.
fast_unlock(t) ==
    /\ At(t, "in") /\ t \in Compiled /\ owner = t /\ recursions = 0
    /\ Step(t, IF cxq = <<>> /\ EntryList = <<>> THEN "f_store" ELSE "f_succ")
    /\ UNCHANGED ret

\* The 1-0 exit.
fast_unlock_store(t) ==
    /\ At(t, "f_store")
    /\ owner' = NULL
    /\ Goto(t, "idle")
    /\ UNCHANGED <<recursions, counts, queues, succ, Responsible, nodes, events,
                   waitFrame, ret, w, List>>

\* CheckSucc: without an heir take the slow path.
fast_unlock_succ(t) ==
    /\ At(t, "f_succ")
    /\ Step(t, IF succ = NULL THEN "f_slow" ELSE "f_drop")
    /\ UNCHANGED ret

fast_unlock_drop(t) ==
    /\ At(t, "f_drop")
    /\ owner' = NULL
    /\ Goto(t, "f_ratify")
    /\ UNCHANGED <<recursions, counts, queues, succ, Responsible, nodes, events,
                   waitFrame, ret, w, List>>

\* Mutant: _succ is not read again after the lock is dropped.
fast_unlock_ratify_Trusting(t) ==
    /\ At(t, "f_ratify")
    /\ Step(t, "idle")
    /\ UNCHANGED ret

\* Ratify that _succ is still non-null ...
fast_unlock_ratify(t) ==
    /\ At(t, "f_ratify")
    /\ Step(t, IF succ # NULL THEN "idle" ELSE "f_cas")
    /\ UNCHANGED ret

\* Mutant: the lock is taken back without looking at its owner.
fast_unlock_reacquire_Store(t) ==
    /\ At(t, "f_cas")
    /\ owner' = t
    /\ Goto(t, "f_slow")
    /\ UNCHANGED <<recursions, counts, queues, succ, Responsible, nodes, events,
                   waitFrame, ret, w, List>>

\* ... or else reacquire and take the slow path.
fast_unlock_reacquire(t) ==
    /\ At(t, "f_cas")
    /\ TryLock(t, "f_slow", "idle")
    /\ UNCHANGED ret

(***************************************************************************)
(* wait() and ReenterI()                                                   *)
(***************************************************************************)

\* CHECK_OWNER commutes the owner; a pending interrupt ends the call at once.
wait_interrupted(t) ==
    /\ At(t, "in") /\ t \in Waiters \cap interrupted
    /\ owner' = t
    /\ interrupted' = interrupted \ {t}
    /\ UNCHANGED <<recursions, counts, queues, succ, Responsible, nodes, permit,
                   unparking, waitFrame, pc, ret, w, List>>

\* CHECK_OWNER, and no interrupt is pending.
wait(t) ==
    /\ At(t, "in") /\ t \in Waiters \ interrupted
    /\ owner' = t
    /\ Goto(t, "w_add")
    /\ UNCHANGED <<recursions, counts, queues, succ, Responsible, nodes, events,
                   waitFrame, ret, w, List>>

\* Reset the event, AddWaiter(), save the recursion count and exit().
wait_add(t) ==
    /\ At(t, "w_add") /\ WaitSetLock = NULL
    /\ permit' = [permit EXCEPT ![t] = FALSE]
    /\ WaitSet' = Append(WaitSet, t)
    /\ TState' = [TState EXCEPT ![t] = "WAIT"]
    /\ notified' = [notified EXCEPT ![t] = FALSE]
    /\ Responsible' = NULL
    /\ save' = [save EXCEPT ![t] = recursions]
    /\ recursions' = 0
    /\ waiters' = waiters + 1
    /\ inwait' = inwait \cup {t}
    /\ Goto(t, "x_drop")
    /\ Returns(t, "w_block")
    /\ UNCHANGED <<owner, count, queues, succ, WaitSetLock, interrupted,
                   unparking, WasNotified, w, List>>

\* park(), or park(millis).
WaitParks(t) == {"w_park"} \cup (IF t \in TimedWaiters THEN {"w_tpark"} ELSE {})

\* Mutant: the interrupt flag is not looked at between reset() and park().
wait_block_Uninterruptibly(t) ==
    /\ At(t, "w_block")
    /\ \E l \in WaitParks(t) : Step(t, IF notified[t] THEN "w_susp" ELSE l)
    /\ UNCHANGED ret

\* Park, unless interrupted or already notified.
wait_block(t) ==
    /\ At(t, "w_block")
    /\ \E l \in WaitParks(t) :
          Step(t, IF t \in interrupted \/ notified[t] THEN "w_susp" ELSE l)
    /\ UNCHANGED ret

\* ExitSuspendEquivalent() finds that the thread has been suspended.
wait_suspended(t) ==
    /\ At(t, "w_susp") /\ t \in Suspendable
    /\ Step(t, "w_suspended")
    /\ UNCHANGED ret

\* The first, unlocked look at TState.
wait_read_TState(t) ==
    /\ pc[t] \in {"w_susp", "w_resumed"}
    /\ Step(t, IF TState[t] = "WAIT" THEN "w_unlink" ELSE "w_clear")
    /\ UNCHANGED ret

\* Mutant: DequeueSpecificWaiter without the second look at TState.
wait_unlink_Unchecked(t) ==
    /\ At(t, "w_unlink") /\ WaitSetLock = NULL
    /\ WaitSet' = Without(WaitSet, t)
    /\ TState' = [TState EXCEPT ![t] = "RUN"]
    /\ Goto(t, "w_clear")
    /\ UNCHANGED <<lock, counts, queues, succ, Responsible, WaitSetLock,
                   notified, events, waitFrame, ret, w, List>>

\* The second look, under _WaitSetLock.
wait_unlink(t) ==
    /\ At(t, "w_unlink") /\ WaitSetLock = NULL
    /\ WaitSet' = Without(WaitSet, t)
    /\ TState' = [TState EXCEPT ![t] = IF @ = "WAIT" THEN "RUN" ELSE @]
    /\ Goto(t, "w_clear")
    /\ UNCHANGED <<lock, counts, queues, succ, Responsible, WaitSetLock,
                   notified, events, waitFrame, ret, w, List>>

wait_clear_succ(t) == At(t, "w_clear") /\ TestSucc(t, "w_read")

\* WasNotified = node._notified; then enter() or ReenterI().
wait_read_notified(t) ==
    /\ At(t, "w_read")
    /\ WasNotified' = [WasNotified EXCEPT ![t] = notified[t]]
    /\ Goto(t, IF TState[t] = "RUN" THEN "w_enter" ELSE "r_try")
    /\ UNCHANGED <<lock, counts, queues, succ, Responsible, nodes, events,
                   inwait, save, ret, w, List>>

ReenterI(t) ==
    /\ At(t, "r_try")
    /\ TryLockOrSpin(t, "r_unlink", "r_park")
    /\ UNCHANGED count

\* Suspended after park(): clear _succ and suspend, any number of times.
ReenterISuspended(t) ==
    /\ At(t, "r_susp") /\ t \in Suspendable
    /\ TestSucc(t, "r_suspended")

ReenterIWoken(t) ==
    /\ At(t, "r_susp")
    /\ TryLock(t, "r_unlink", "r_clear")
    /\ UNCHANGED ret

ReenterIClearSucc(t) == At(t, "r_clear") /\ TestSucc(t, "r_try")

\* wait() returns, or throws InterruptedException if it was not notified.
wait_done(t) ==
    /\ At(t, "w_done")
    /\ recursions' = save[t]
    /\ waiters' = waiters - 1
    /\ inwait' = inwait \ {t}
    /\ save' = [save EXCEPT ![t] = 0]
    /\ interrupted' = IF WasNotified[t] THEN interrupted ELSE interrupted \ {t}
    /\ WasNotified' = [WasNotified EXCEPT ![t] = FALSE]
    /\ notified' = [notified EXCEPT ![t] = FALSE]
    /\ Goto(t, "in")
    /\ UNCHANGED <<owner, count, queues, succ, Responsible, WaitSet,
                   WaitSetLock, TState, permit, unparking, ret, w, List>>

(***************************************************************************)
(* notify() and notifyAll()                                                *)
(***************************************************************************)

\* CHECK_OWNER, SpinAcquire(&_WaitSetLock), DequeueWaiter(), TState = TS_ENTER.
notify(t) ==
    /\ At(t, "in") /\ t \in Notifiers
    /\ WaitSet # <<>> /\ WaitSetLock = NULL
    /\ owner' = t
    /\ WaitSetLock' = t
    /\ WaitSet' = Tail(WaitSet)
    /\ TState' = [TState EXCEPT ![Head(WaitSet)] = "ENTER"]
    /\ w' = [w EXCEPT ![t] = Head(WaitSet)]
    /\ Goto(t, "n_mark")
    /\ UNCHANGED <<recursions, counts, queues, succ, Responsible, notified,
                   events, waitFrame, ret, List>>

\* iterator->_notified = 1
notify_mark(t) ==
    /\ At(t, "n_mark")
    /\ notified' = [notified EXCEPT ![w[t]] = TRUE]
    /\ Goto(t, "n_move")
    /\ UNCHANGED <<lock, counts, queues, succ, Responsible, WaitSet,
                   WaitSetLock, TState, events, waitFrame, ret, w, List>>

\* Policy 2: to an empty _EntryList, else to the front of _cxq.
notify_move(t) ==
    /\ At(t, "n_move")
    /\ EntryList' = IF EntryList = <<>> THEN <<w[t]>> ELSE EntryList
    /\ cxq' = IF EntryList = <<>> THEN cxq ELSE <<w[t]>> \o cxq
    /\ WaitSetLock' = NULL
    /\ w' = [w EXCEPT ![t] = NULL]
    /\ Goto(t, "in")
    /\ UNCHANGED <<lock, counts, succ, Responsible, WaitSet, TState, notified,
                   events, waitFrame, ret, List>>

\* notifyAll() marks each waiter before it changes its TState ...
notifyAll(t) ==
    /\ At(t, "in") /\ t \in Notifiers /\ WaitSetLock = NULL
    /\ WaitSet # <<>>
    /\ owner' = t
    /\ WaitSetLock' = t
    /\ notified' = [notified EXCEPT ![Head(WaitSet)] = TRUE]
    /\ Goto(t, "a_state")
    /\ UNCHANGED <<recursions, counts, queues, succ, Responsible, WaitSet,
                   TState, events, waitFrame, ret, w, List>>

notifyAll_state(t) ==
    /\ At(t, "a_state")
    /\ WaitSet' = Tail(WaitSet)
    /\ TState' = [TState EXCEPT ![Head(WaitSet)] = "ENTER"]
    /\ w' = [w EXCEPT ![t] = Head(WaitSet)]
    /\ Goto(t, "a_move")
    /\ UNCHANGED <<lock, counts, queues, succ, Responsible, WaitSetLock,
                   notified, events, waitFrame, ret, List>>

\* ... and always pushes it onto _cxq; then it marks the next.
notifyAll_move(t) ==
    /\ At(t, "a_move")
    /\ cxq' = <<w[t]>> \o cxq
    /\ w' = [w EXCEPT ![t] = NULL]
    /\ IF WaitSet = <<>>
       THEN /\ WaitSetLock' = NULL
            /\ Goto(t, "in")
            /\ UNCHANGED notified
       ELSE /\ notified' = [notified EXCEPT ![Head(WaitSet)] = TRUE]
            /\ Goto(t, "a_state")
            /\ UNCHANGED WaitSetLock
    /\ UNCHANGED <<lock, counts, EntryList, succ, Responsible, WaitSet, TState,
                   events, waitFrame, ret, List>>

(***************************************************************************)
(* os::interrupt() by some other thread, external suspension and resumption *)
(***************************************************************************)

interrupt(t) ==
    /\ t \in Interruptible
    /\ interrupted' = interrupted \cup {t}
    /\ unparking' = unparking \cup {t}
    /\ UNCHANGED <<lock, counts, queues, succ, Responsible, nodes, permit,
                   waitFrame, pc, ret, w, List>>

interrupt_unpark(t) ==
    /\ t \in unparking
    /\ unparking' = unparking \ {t}
    /\ permit' = [permit EXCEPT ![t] = TRUE]
    /\ UNCHANGED <<lock, counts, queues, succ, Responsible, nodes, interrupted,
                   waitFrame, pc, ret, w, List>>

SuspendedLabels == {"e_suspended", "w_suspended", "r_suspended"}

Resume(t) ==
    /\ pc[t] \in SuspendedLabels
    /\ Step(t, CASE At(t, "e_suspended") -> "e_try"
                 [] At(t, "w_suspended") -> "w_resumed"
                 [] OTHER -> "r_susp")
    /\ UNCHANGED ret

-----------------------------------------------------------------------------

\* What the program does with the monitor.
Client(t) ==
    \/ At(t, "idle") /\ enter(t)
    \/ enter_recursive(t) \/ InflateStackLocked(t)
    \/ exit_recursive(t) \/ (At(t, "in") /\ exit(t)) \/ fast_unlock(t)
    \/ wait_interrupted(t) \/ wait(t) \/ notify(t) \/ notifyAll(t)

\* What follows from it without the program's doing.
Spin(t) ==
    \/ SpinReadSucc(t) \/ SpinSetSucc(t) \/ SpinAcquire(t) \/ SpinWins(t)
    \/ SpinAbort(t) \/ SpinClearSucc(t) \/ SpinRetry(t)

Entering(t) ==
    \/ At(t, "w_enter") /\ enter(t)
    \/ EnterI(t) \/ EnterIPush(t)
    \/ EnterIReadEntryList(t) \/ EnterIElect(t)
    \/ EnterILoop(t) \/ EnterIParkMode(t) \/ park(t) \/ EnterIWoken(t)
    \/ EnterIClearSucc(t) \/ UnlinkAfterAcquire(t) \/ EnterIEgress(t)
    \/ ReenterIEgress(t) \/ enter_done(t) \/ ClearSucc(t)

Exiting(t) ==
    \/ At(t, "f_slow") /\ exit(t)
    \/ exit_drop(t) \/ exit_read_queue(t) \/ exit_read_other(t)
    \/ exit_read_succ(t) \/ exit_reacquire(t) \/ exit_pick(t) \/ exit_fill(t)
    \/ exit_abdicate(t) \/ ExitEpilog(t) \/ ExitEpilogDrop(t)
    \/ ExitEpilogUnpark(t) \/ fast_unlock_store(t) \/ fast_unlock_succ(t)
    \/ fast_unlock_drop(t) \/ fast_unlock_ratify(t) \/ fast_unlock_reacquire(t)

Waiting(t) ==
    \/ wait_add(t) \/ wait_block(t) \/ wait_read_TState(t) \/ wait_unlink(t)
    \/ wait_clear_succ(t) \/ wait_read_notified(t) \/ ReenterI(t)
    \/ ReenterIWoken(t) \/ ReenterIClearSucc(t) \/ wait_done(t)

Notifying(t) ==
    \/ notify_mark(t) \/ notify_move(t) \/ notifyAll_state(t)
    \/ notifyAll_move(t)

Progress(t) ==
    Spin(t) \/ Entering(t) \/ Exiting(t) \/ Waiting(t) \/ Notifying(t)

Suspension(t) ==
    enter_suspended(t) \/ wait_suspended(t) \/ ReenterISuspended(t) \/ Resume(t)

Next ==
    \E t \in Threads : Client(t) \/ Progress(t) \/ Suspension(t)
                       \/ interrupt(t) \/ interrupt_unpark(t)

Spec == Init /\ [][Next]_vars

\* A thread inside the monitor's code keeps running; what the program does
\* next, suspension and resumption are not promised.
FairSpec ==
    /\ Spec
    /\ \A t \in Threads : WF_vars(Progress(t))
    /\ \A t \in Interruptible : WF_vars(interrupt_unpark(t))

(***************************************************************************)
(* Properties                                                              *)
(***************************************************************************)

\* The lists of contending threads, with one that is being moved.
Queued(t) ==
    \/ InSeq(cxq, t) \/ InSeq(EntryList, t)
    \/ \E u \in Threads : InSeq(List[u], t)
    \/ \E u \in Threads : w[u] = t /\ pc[u] \in {"n_mark", "n_move", "a_move"}

AllLists(u) == cxq \o EntryList \o WaitSet \o List[u]

ContendingLabels ==
    {"e_first", "e_elect", "e_loop", "e_mode", "e_park", "e_tpark", "e_woken",
     "e_clear", "e_unlink", "r_try", "r_park", "r_susp", "r_clear", "r_unlink",
     "r_suspended"}

\* "A thread appears on at most one monitor list" (objectMonitor.cpp:192) and,
\* once it has queued itself, "stays on-queue until it acquires the lock"
\* (objectMonitor.cpp:550): whoever parks can be found by an exiting thread,
\* although a timeout, an interrupt and a notification move a waiter at once.
\* And it keeps the monitor busy: deflate_monitor() would recycle one that is not
\* is_busy() at a safepoint, and none waits for a thread that is parked or
\* suspended (objectMonitor.cpp:377, objectMonitor.hpp:118).
SleepersAccounted ==
    /\ \A u \in Threads : \A i, j \in DOMAIN AllLists(u) :
          AllLists(u)[i] = AllLists(u)[j] => i = j
    /\ \A t \in Threads : pc[t] \in ContendingLabels => Queued(t)
    /\ \A t \in Threads : pc[t] \in ParkLabels \cup SuspendedLabels => is_busy

InLabels == {"in", "w_add", "n_mark", "n_move", "a_state", "a_move"}

status == [t \in Threads |->
             CASE TState[t] = "WAIT" -> "waiting"
               [] pc[t] \in InLabels -> "in"
               [] \/ pc[t] \in {"idle", "f_store", "f_succ", "f_drop",
                                "f_ratify", "f_cas", "f_slow"}
                  \/ ret[t] = "idle" /\ pc[t] \in
                       {"x_drop", "x_test", "x_cxq", "x_entry", "x_succ",
                        "x_cas", "x_pick", "x_fill", "x_abdicate", "x_heir",
                        "x_release", "x_unpark"} -> "out"
               [] OTHER -> "entering"]

Abstract == INSTANCE AbstractMonitor WITH MayExpire <- Waiters

\* enter, exit, wait, notify and notifyAll behave as those of a monitor with
\* one thread inside, although an exiting thread takes the lock back to choose
\* its heir and a suspended one gives it up again (objectMonitor.cpp:1061, 416).
IsAMonitor == Abstract!Spec

NobodySuspended == \A t \in Threads : pc[t] \notin SuspendedLabels

\* Stranding is repaired: the lock does not stay free while threads are queued
\* for it, even after a 1-0 exit that did not see them arrive
\* (objectMonitor.cpp:571, 927), if suspended threads are resumed in the end.
FreeLockIsTaken ==
    <>[]NobodySuspended =>
       []<>~(owner = NULL /\ (cxq # <<>> \/ EntryList # <<>>))

\* "Critically, after we reset() the event but prior to park(), we must check
\* for a pending interrupt" (objectMonitor.cpp:1502): a thread that has given the
\* monitor up in wait() does not stay on the WaitSet once it is interrupted.
InterruptedWaiterLeaves ==
    <>[]NobodySuspended =>
       \A t \in Waiters :
          []<>~(t \in interrupted /\ TState[t] = "WAIT"
                /\ pc[t] \in {"w_block", "w_park", "w_tpark"})

==============================================================================
