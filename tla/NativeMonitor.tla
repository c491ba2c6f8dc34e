---------------------------- MODULE NativeMonitor ----------------------------
(***************************************************************************)
(* The VM's own monitor, Monitor/Mutex of runtime/mutex.cpp: an outer lock *)
(* (the LockByte of LockWord), an inner lock (OnDeck) that arranges        *)
(* succession, the contention queue cxq, the EntryList and the WaitSet.    *)
(*                                                                         *)
(* A ParkEvent stands for its thread.  Its lists are sequences, head first *)
(* (ListNext is the order).  A compare-and-swap retry loop is one step on  *)
(* the current value: a failed attempt changes nothing and re-reads.  A    *)
(* bounded spin is one step that fails only when it sees LBIT set.         *)
(* ParkEvent::park/unpark are the one-permit semaphore of ParkPermit,      *)
(* which PlatformEvent is shown to implement.                              *)
(*                                                                         *)
(* The safepoint protocol is reduced to what lock() depends on: the VM     *)
(* thread is at a safepoint only while every Java thread is outside the VM *)
(* or inside a ThreadBlockInVM, and a Java thread cannot leave its         *)
(* ThreadBlockInVM before the safepoint ends.                              *)
(***************************************************************************)
EXTENDS Naturals, Sequences, FiniteSets

CONSTANTS
    JavaThreads,      \* threads that make thread-state transitions
    OtherThreads,     \* non-Java threads other than the VM thread
    VMThread,
    NULL,             \* the null ParkEvent / Thread pointer
    LBIT,             \* OnDeck holding only its lock bit
    NoSafepointCheck, \* the threads that use lock_without_safepoint_check()
    Callers,          \* the threads that use this lock
    TryLockers,       \* the threads that call try_lock() on this lock
    Waiters,          \* the threads that call wait() on it
    Suspendable,      \* the threads whose wait() is as_suspend_equivalent
    Safepoints,       \* does the VM thread begin safepoints?
    NotifyWhileSnuck, \* may the VM thread notify a lock it sneaked into?
    TimedWaiters,     \* the threads that pass a timeout to wait()
    NativeMonitorTimeout  \* is the diagnostic flag NativeMonitorTimeout > 0?

Threads == JavaThreads \cup OtherThreads \cup {VMThread}

ASSUME ThreadsAssumption ==
    /\ VMThread \notin JavaThreads /\ VMThread \notin OtherThreads
    /\ JavaThreads \cap OtherThreads = {}
    /\ NULL \notin Threads /\ LBIT \notin Threads /\ NULL # LBIT
    /\ Callers \subseteq Threads
    /\ TryLockers \subseteq Callers /\ Waiters \subseteq Callers
    /\ Suspendable \subseteq JavaThreads /\ TimedWaiters \subseteq Waiters
    /\ NoSafepointCheck \subseteq Threads
    /\ Waiters \subseteq JavaThreads \cup NoSafepointCheck
    /\ Suspendable \cap NoSafepointCheck = {}

ASSUME FlagsAssumption ==
    {Safepoints, NotifyWhileSnuck, NativeMonitorTimeout} \subseteq BOOLEAN

VARIABLES
    LockByte,   \* the low byte of LockWord: 1 while the outer lock is held
    cxq,        \* the rest of LockWord: recently arrived threads (RATs)
    EntryList,
    OnDeck,     \* NULL, LBIT (inner lock held) or the heir presumptive
    WaitSet,
    WaitLock,   \* holder of the mux that protects WaitSet
    Notified,   \* ParkEvent::Notified
    permit,     \* the ParkEvent's permit
    owner,      \* _owner
    snuck,      \* _snuck
    safepoint,  \* "none", "synchronizing" or "synchronized"
    tbivm,      \* the threads inside a ThreadBlockInVM
    pc,
    call,       \* the operation whose continuation an ILock/IUnlock serves
    all,        \* the threads executing notify_all()
    w,          \* IUnlock's successor w, notify()'s nfy
    List        \* the segment IUnlock detached from cxq

lists    == <<cxq, EntryList>>
waitVars == <<WaitSet, WaitLock, Notified>>
vmVars   == <<owner, snuck, safepoint, tbivm>>
locals   == <<call, all, w, List>>
memory   == <<LockByte, lists, OnDeck, waitVars, permit, vmVars, locals>>
vars     == <<pc, memory>>

ILockLabels   == {"i_try", "i_push", "i_wait", "i_park", "i_ondeck",
                  "i_opark", "i_clear"}
SuccessionLabels == {"u_pop", "u_pass", "u_drain", "u_fill", "u_punt"}
IUnlockLabels == {"u_release", "u_ondeck", "u_word", "u_elist", "u_cas",
                  "u_check", "u_unpark", "u_resample"} \cup SuccessionLabels
QueuedWaitLabels == {"w_loop", "w_park", "w_expired", "w_unlink", "r_check",
                     "r_spin", "r_park"}
IWaitLabels   == {"w_enq"} \cup QueuedWaitLabels
NotifyLabels  == {"n_test", "n_lock", "n_push", "n_mark"}
ParkLabels    == {"i_park", "i_opark", "w_park", "r_park"}
Labels == ILockLabels \cup IUnlockLabels \cup IWaitLabels \cup NotifyLabels
          \cup {"idle", "contended", "acquired", "held", "suspended"}

Init ==
    /\ LockByte = 0 /\ cxq = <<>> /\ EntryList = <<>> /\ OnDeck = NULL
    /\ WaitSet = <<>> /\ WaitLock = NULL
    /\ owner = NULL /\ snuck = FALSE
    /\ Notified = [t \in Threads |-> 0]
    /\ permit = [t \in Threads |-> 0]
    /\ safepoint = "none" /\ tbivm = {}
    /\ pc = [t \in Threads |-> "idle"]
    /\ call = [t \in Threads |-> "none"]
    /\ all = {}
    /\ w = [t \in Threads |-> NULL]
    /\ List = [t \in Threads |-> <<>>]

At(t, l)     == pc[t] = l
Goto(t, l)   == pc' = [pc EXCEPT ![t] = l]
Branch(t, l) == Goto(t, l) /\ UNCHANGED memory
Calls(t, c)  == call' = [call EXCEPT ![t] = c]

is_at_safepoint == safepoint = "synchronized"

\* A Java thread enters the VM, and so calls into the monitor, except during
\* a safepoint; the VM thread does nothing else while it synchronizes one.
MayCall(t) ==
    /\ At(t, "idle") /\ t \in Callers
    /\ t \in JavaThreads => ~is_at_safepoint
    /\ t = VMThread => safepoint # "synchronizing"

\* TryFast(), TryLock() or TrySpin(): take the LockByte if it is free.
TryLockWord(t, won, lost) ==
    /\ LockByte' = 1
    /\ Goto(t, IF LockByte = 0 THEN won ELSE lost)
    /\ UNCHANGED <<lists, OnDeck, waitVars, vmVars>>

(***************************************************************************)
(* lock(), lock_without_safepoint_check(), try_lock()                      *)
(***************************************************************************)

LockFast(t) ==
    /\ MayCall(t) /\ t \notin NoSafepointCheck
    /\ TryLockWord(t, "acquired", "contended")
    /\ Calls(t, "lock")
    /\ UNCHANGED <<permit, all, w, List>>

\* Mutant: sneaking without the safepoint test.
can_sneak_AnyTime(t) == t = VMThread /\ owner = NULL

can_sneak(t) == t = VMThread /\ is_at_safepoint /\ owner = NULL

\* The VM thread pretends it has locked the lock.
Sneak(t) ==
    /\ can_sneak(t)
    /\ snuck' = TRUE
    /\ owner' = t
    /\ Calls(t, "none")
    /\ Goto(t, "held")
    /\ UNCHANGED <<LockByte, lists, OnDeck, waitVars, permit, safepoint, tbivm,
                   all, w, List>>

\* lock(), contended: sneak ...
LockSneak(t) == At(t, "contended") /\ Sneak(t)

\* ... or spin ...
LockSpin(t) ==
    /\ At(t, "contended") /\ ~can_sneak(t) /\ LockByte = 0
    /\ TryLockWord(t, "acquired", "i_try")
    /\ UNCHANGED <<permit, locals>>

\* ... or ILock, a Java thread inside a ThreadBlockInVM.
LockBlock(t) ==
    /\ At(t, "contended") /\ ~can_sneak(t) /\ LockByte = 1
    /\ tbivm' = IF t \in JavaThreads THEN tbivm \cup {t} ELSE tbivm
    /\ Goto(t, "i_try")
    /\ UNCHANGED <<LockByte, lists, OnDeck, waitVars, permit, owner, snuck,
                   safepoint, locals>>

LockWithoutSafepointCheck(t) ==
    /\ MayCall(t) /\ t \in NoSafepointCheck
    /\ Calls(t, "lock")
    /\ Goto(t, "i_try")
    /\ UNCHANGED <<LockByte, lists, OnDeck, waitVars, permit, vmVars, all, w,
                   List>>

\* try_lock(): at a safepoint the VM thread sneaks without trying to lock; a
\* TryLock() that fails changes nothing.
TryLockSneak(t) == MayCall(t) /\ t \in TryLockers /\ Sneak(t)

TryLock(t) ==
    /\ MayCall(t) /\ t \in TryLockers
    /\ ~can_sneak(t) /\ LockByte = 0
    /\ TryLockWord(t, "acquired", "idle")
    /\ Calls(t, "lock")
    /\ UNCHANGED <<permit, all, w, List>>

\* Mutant: the ThreadBlockInVM ends without looking at the safepoint.
SetOwner_NoStall(t) ==
    /\ At(t, "acquired")
    /\ tbivm' = tbivm \ {t}
    /\ owner' = t
    /\ Calls(t, "none")
    /\ Goto(t, "held")
    /\ UNCHANGED <<LockByte, lists, OnDeck, waitVars, permit, snuck, safepoint,
                   all, w, List>>

\* The end of lock() and wait(): leave the ThreadBlockInVM, which stalls
\* while a safepoint is in progress, and set_owner(Self).
SetOwner(t) ==
    /\ At(t, "acquired")
    /\ t \in tbivm => safepoint = "none"
    /\ tbivm' = tbivm \ {t}
    /\ owner' = t
    /\ Calls(t, "none")
    /\ Goto(t, "held")
    /\ UNCHANGED <<LockByte, lists, OnDeck, waitVars, permit, snuck, safepoint,
                   all, w, List>>

(***************************************************************************)
(* ILock()                                                                 *)
(***************************************************************************)

\* On failure ESelf->reset().
ILockTry(t) ==
    /\ At(t, "i_try")
    /\ TryLockWord(t, "acquired", "i_push")
    /\ permit' = IF LockByte = 0 THEN permit ELSE [permit EXCEPT ![t] = 0]
    /\ UNCHANGED locals

AcquireOrPush(t) ==
    /\ At(t, "i_push")
    /\ LockByte' = 1
    /\ cxq' = IF LockByte = 0 THEN cxq ELSE <<t>> \o cxq
    /\ Goto(t, IF LockByte = 0 THEN "acquired" ELSE "i_wait")
    /\ UNCHANGED <<EntryList, OnDeck, waitVars, permit, vmVars, locals>>

\* while (_OnDeck != ESelf)
ILockTestOnDeck(t) ==
    /\ At(t, "i_wait")
    /\ Branch(t, IF OnDeck = t THEN "i_ondeck" ELSE "i_park")

\* OnDeck_LOOP
ILockOnDeckLoop(t) ==
    /\ At(t, "i_ondeck")
    /\ TryLockWord(t, "i_clear", "i_opark")
    /\ UNCHANGED <<permit, locals>>

\* _OnDeck = NULL: the new owner drops the inner lock.
ClearOnDeck(t) ==
    /\ At(t, "i_clear")
    /\ OnDeck' = NULL
    /\ Goto(t, "acquired")
    /\ UNCHANGED <<LockByte, lists, waitVars, permit, vmVars, locals>>

\* Where a return from ParkCommon() leads.
AfterPark(l) == IF l = "i_park" THEN "i_wait"
                ELSE IF l = "i_opark" THEN "i_ondeck"
                ELSE IF l = "w_park" THEN "w_loop" ELSE "r_check"

\* ParkCommon() returns because the event was unparked.
Park(t) ==
    /\ pc[t] \in ParkLabels
    /\ permit[t] = 1
    /\ permit' = [permit EXCEPT ![t] = 0]
    /\ Goto(t, AfterPark(pc[t]))
    /\ UNCHANGED <<LockByte, lists, OnDeck, waitVars, vmVars, locals>>

\* ParkCommon() returns OS_TIMEOUT, which it never does with a permit at hand.
\* Only IWait looks at the result.
ParkTimeout(t) ==
    /\ pc[t] \in ParkLabels
    /\ NativeMonitorTimeout \/ (At(t, "w_park") /\ t \in TimedWaiters)
    /\ permit[t] = 0
    /\ Branch(t, IF At(t, "w_park") THEN "w_expired" ELSE AfterPark(pc[t]))

(***************************************************************************)
(* unlock() and IUnlock()                                                  *)
(***************************************************************************)

Unlock(t) ==
    /\ At(t, "held")
    /\ owner' = NULL
    /\ snuck' = FALSE
    /\ Goto(t, IF snuck THEN "idle" ELSE "u_release")
    /\ Calls(t, IF snuck THEN "none" ELSE "unlock")
    /\ UNCHANGED <<LockByte, lists, OnDeck, waitVars, permit, safepoint, tbivm,
                   all, w, List>>

\* A step of IUnlock() that returns to the caller, or goes on at l.
IUnlockTest(t, returns, l) ==
    /\ Goto(t, IF ~returns THEN l
               ELSE IF call[t] = "unlock" THEN "idle"
               ELSE IF call[t] = "wait" THEN "w_loop" ELSE "suspended")
    /\ Calls(t, IF returns /\ call[t] = "unlock" THEN "none" ELSE call[t])
    /\ UNCHANGED <<all, List>>

\* release_store(&_LockWord.Bytes[_LSBINDEX], 0)
IUnlockRelease(t) ==
    /\ At(t, "u_release")
    /\ LockByte' = 0
    /\ Goto(t, "u_ondeck")
    /\ UNCHANGED <<lists, OnDeck, waitVars, permit, vmVars, locals>>

\* Mutant: the heir is assumed to be awake.
IUnlockReadOnDeck_NoUnpark(t) ==
    /\ At(t, "u_ondeck")
    /\ IUnlockTest(t, OnDeck # NULL, "u_word")
    /\ UNCHANGED <<LockByte, lists, OnDeck, waitVars, permit, vmVars, w>>

\* With an heir OnDeck unpark it; while OnDeck is locked its holder is
\* responsible for succession.
IUnlockReadOnDeck(t) ==
    /\ At(t, "u_ondeck")
    /\ w' = [w EXCEPT ![t] = IF OnDeck = LBIT THEN NULL ELSE OnDeck]
    /\ IUnlockTest(t, OnDeck = LBIT,
                   IF OnDeck = NULL THEN "u_word" ELSE "u_unpark")
    /\ UNCHANGED <<LockByte, lists, OnDeck, waitVars, permit, vmVars>>

\* Read the LockWord: return if it is locked, whatever the lists hold.
IUnlockReadLockWord(t) ==
    /\ At(t, "u_word")
    /\ IUnlockTest(t, LockByte = 1, IF cxq = <<>> THEN "u_elist" ELSE "u_cas")
    /\ UNCHANGED <<LockByte, lists, OnDeck, waitVars, permit, vmVars, w>>

\* The cxq was empty: read the EntryList.
IUnlockReadEntryList(t) ==
    /\ At(t, "u_elist")
    /\ IUnlockTest(t, EntryList = <<>>, "u_cas")
    /\ UNCHANGED <<LockByte, lists, OnDeck, waitVars, permit, vmVars, w>>

\* CASPTR(&_OnDeck, NULL, _LBIT)
Succession(t) ==
    /\ At(t, "u_cas")
    /\ OnDeck' = IF OnDeck = NULL THEN LBIT ELSE OnDeck
    /\ IUnlockTest(t, OnDeck # NULL,
                   IF EntryList = <<>> THEN "u_drain" ELSE "u_pop")
    /\ UNCHANGED <<LockByte, lists, waitVars, permit, vmVars, w>>

\* WakeOne: _EntryList = w->ListNext
WakeOne(t) ==
    /\ At(t, "u_pop")
    /\ w' = [w EXCEPT ![t] = Head(EntryList)]
    /\ EntryList' = Tail(EntryList)
    /\ Goto(t, "u_pass")
    /\ UNCHANGED <<LockByte, cxq, OnDeck, waitVars, permit, vmVars, call, all,
                   List>>

\* _OnDeck = w
PassOnDeck(t) ==
    /\ At(t, "u_pass")
    /\ OnDeck' = w[t]
    /\ Goto(t, "u_check")
    /\ UNCHANGED <<LockByte, lists, waitVars, permit, vmVars, locals>>

\* The unpark is left to the thread that holds the lock, if there is one.
DelegateUnpark(t) ==
    /\ At(t, "u_check")
    /\ w' = [w EXCEPT ![t] = IF LockByte = 1 THEN NULL ELSE w[t]]
    /\ IUnlockTest(t, LockByte = 1, "u_unpark")
    /\ UNCHANGED <<LockByte, lists, OnDeck, waitVars, permit, vmVars>>

\* w->unpark()
IUnlockUnpark(t) ==
    /\ At(t, "u_unpark")
    /\ permit' = [permit EXCEPT ![w[t]] = 1]
    /\ w' = [w EXCEPT ![t] = NULL]
    /\ IUnlockTest(t, TRUE, "idle")
    /\ UNCHANGED <<LockByte, lists, OnDeck, waitVars, vmVars>>

\* Detach the cxq, unless it is empty or the lock is held.
DrainCxq(t) ==
    /\ At(t, "u_drain")
    /\ LET punts == cxq = <<>> \/ LockByte = 1
       IN  /\ List' = [List EXCEPT ![t] = IF punts THEN <<>> ELSE cxq]
           /\ cxq' = IF punts THEN cxq ELSE <<>>
           /\ Goto(t, IF punts THEN "u_punt" ELSE "u_fill")
    /\ UNCHANGED <<LockByte, EntryList, OnDeck, waitVars, permit, vmVars, call,
                   all, w>>

\* _EntryList = List
FillEntryList(t) ==
    /\ At(t, "u_fill")
    /\ EntryList' = List[t]
    /\ List' = [List EXCEPT ![t] = <<>>]
    /\ Goto(t, "u_pop")
    /\ UNCHANGED <<LockByte, cxq, OnDeck, waitVars, permit, vmVars, call,
                   all, w>>

\* Punt: release the inner lock ...
Punt(t) ==
    /\ At(t, "u_punt")
    /\ OnDeck' = NULL
    /\ Goto(t, "u_resample")
    /\ UNCHANGED <<LockByte, lists, waitVars, permit, vmVars, locals>>

\* Mutant: no resampling after the inner lock is dropped.
Resample_NoRetry(t) ==
    /\ At(t, "u_resample")
    /\ IUnlockTest(t, TRUE, "u_cas")
    /\ UNCHANGED <<LockByte, lists, OnDeck, waitVars, permit, vmVars, w>>

\* ... and re-run succession for a thread that arrived meanwhile.
Resample(t) ==
    /\ At(t, "u_resample")
    /\ IUnlockTest(t, cxq = <<>> \/ LockByte = 1, "u_cas")
    /\ UNCHANGED <<LockByte, lists, OnDeck, waitVars, permit, vmVars, w>>

(***************************************************************************)
(* notify() and notify_all()                                               *)
(***************************************************************************)

\* assert(ILocked()) is what notify() asks of its caller.  A thread that holds
\* the lock satisfies it; the VM thread that sneaked may find it so.
Notify(t, everyone) ==
    /\ At(t, "held")
    /\ snuck => NotifyWhileSnuck /\ LockByte = 1
    /\ all' = IF everyone THEN all \cup {t} ELSE all
    /\ Goto(t, "n_test")
    /\ UNCHANGED <<LockByte, lists, OnDeck, waitVars, permit, vmVars, call,
                   w, List>>

\* if (_WaitSet == NULL) return, outside the WaitLock.
NotifyTest(t) ==
    /\ At(t, "n_test")
    /\ Goto(t, IF WaitSet = <<>> THEN "held" ELSE "n_lock")
    /\ all' = IF WaitSet = <<>> THEN all \ {t} ELSE all
    /\ UNCHANGED <<LockByte, lists, OnDeck, waitVars, permit, vmVars, call,
                   w, List>>

\* Where notify() returns to: notify_all()'s loop or the caller.
AfterNotify(t) == IF t \in all THEN "n_test" ELSE "held"

\* muxAcquire(_WaitLock) and, if there still is one, unlink the first waiter.
NotifyUnlink(t) ==
    /\ At(t, "n_lock")
    /\ WaitLock = NULL
    /\ LET none == WaitSet = <<>>
       IN  /\ WaitLock' = IF none THEN NULL ELSE t
           /\ w' = [w EXCEPT ![t] = IF none THEN NULL ELSE Head(WaitSet)]
           /\ WaitSet' = IF none THEN WaitSet ELSE Tail(WaitSet)
           /\ Goto(t, IF none THEN AfterNotify(t) ELSE "n_push")
    /\ UNCHANGED <<LockByte, lists, OnDeck, Notified, permit, vmVars, call,
                   all, List>>

\* CASPTR(&_LockWord, v, UNS(nfy)|_LBIT): the new word has LBIT set.
NotifyPush(t) ==
    /\ At(t, "n_push")
    /\ cxq' = <<w[t]>> \o cxq
    /\ LockByte' = 1
    /\ Goto(t, "n_mark")
    /\ UNCHANGED <<EntryList, OnDeck, waitVars, permit, vmVars, locals>>

\* Mutant: Notified is not set.
NotifyMark_NoFlag(t) ==
    /\ At(t, "n_mark")
    /\ WaitLock' = NULL
    /\ w' = [w EXCEPT ![t] = NULL]
    /\ Goto(t, AfterNotify(t))
    /\ UNCHANGED <<LockByte, lists, OnDeck, WaitSet, Notified, permit, vmVars,
                   call, all, List>>

\* nfy->Notified = 1; muxRelease(_WaitLock)
NotifyMark(t) ==
    /\ At(t, "n_mark")
    /\ Notified' = [Notified EXCEPT ![w[t]] = 1]
    /\ WaitLock' = NULL
    /\ w' = [w EXCEPT ![t] = NULL]
    /\ Goto(t, AfterNotify(t))
    /\ UNCHANGED <<LockByte, lists, OnDeck, WaitSet, permit, vmVars, call,
                   all, List>>

(***************************************************************************)
(* wait() and IWait()                                                      *)
(***************************************************************************)

\* wait(): set_owner(NULL) and, with safepoint checks, enter a TBIVM.
Wait(t) ==
    /\ At(t, "held") /\ t \in Waiters /\ ~snuck
    /\ owner' = NULL
    /\ tbivm' = IF t \in NoSafepointCheck THEN tbivm ELSE tbivm \cup {t}
    /\ Calls(t, "wait")
    /\ Goto(t, "w_enq")
    /\ UNCHANGED <<LockByte, lists, OnDeck, waitVars, permit, snuck, safepoint,
                   all, w, List>>

\* Reset the event, which only its thread reads now, and join the WaitSet.
IWaitEnqueue(t) ==
    /\ At(t, "w_enq")
    /\ WaitLock = NULL
    /\ Notified' = [Notified EXCEPT ![t] = 0]
    /\ permit' = [permit EXCEPT ![t] = 0]
    /\ WaitSet' = <<t>> \o WaitSet
    /\ Goto(t, "u_release")
    /\ UNCHANGED <<LockByte, lists, OnDeck, WaitLock, vmVars, locals>>

\* Notified?  Tested before each park and, after a timeout, once more.
IWaitTest(t) ==
    /\ pc[t] \in {"w_loop", "w_expired"}
    /\ Branch(t, IF Notified[t] = 1 THEN "r_check"
                 ELSE IF At(t, "w_loop") THEN "w_park" ELSE "w_unlink")

\* The list s without t: the walk in which q chases p.
Unlink(s, t) ==
    LET p == CHOOSE i \in DOMAIN s : s[i] = t
    IN  [i \in 1 .. Len(s) - 1 |-> s[IF i < p THEN i ELSE i + 1]]

\* Under the WaitLock: if still not notified, unlink Self and call ILock.
IWaitUnlink(t) ==
    /\ At(t, "w_unlink")
    /\ WaitLock = NULL
    /\ WaitSet' = IF Notified[t] = 0 THEN Unlink(WaitSet, t) ELSE WaitSet
    /\ Goto(t, IF Notified[t] = 0 THEN "i_try" ELSE "r_check")
    /\ UNCHANGED <<LockByte, lists, OnDeck, WaitLock, Notified, permit, vmVars,
                   locals>>

\* if (_OnDeck == ESelf && ...
ReenterTestOnDeck(t) ==
    /\ At(t, "r_check")
    /\ Branch(t, IF OnDeck = t THEN "r_spin" ELSE "r_park")

\* ... TrySpin(Self)) break
ReenterSpin(t) ==
    /\ At(t, "r_spin")
    /\ TryLockWord(t, "i_clear", "r_park")
    /\ UNCHANGED <<permit, locals>>

\* wait(): the thread was suspended meanwhile; release the lock it has just
\* reacquired, suspend, and lock again.
WaitSuspended(t) ==
    /\ At(t, "acquired")
    /\ call[t] = "wait" /\ t \in Suspendable
    /\ Calls(t, "suspend")
    /\ Goto(t, "u_release")
    /\ UNCHANGED <<LockByte, lists, OnDeck, waitVars, permit, vmVars, all, w,
                   List>>

\* java_suspend_self() returns.
Resumed(t) == At(t, "suspended") /\ Branch(t, "i_try")

(***************************************************************************)
(* The safepoint, as far as lock() sees it.                                *)
(***************************************************************************)

SetSafepoint(s) ==
    /\ safepoint' = s
    /\ UNCHANGED <<LockByte, lists, OnDeck, waitVars, permit, owner, snuck,
                   tbivm, pc, locals>>

SafepointBegin ==
    /\ Safepoints
    /\ safepoint = "none" /\ At(VMThread, "idle")
    /\ SetSafepoint("synchronizing")

SafepointReached ==
    /\ safepoint = "synchronizing"
    /\ \A t \in JavaThreads : t \in tbivm \/ At(t, "idle")
    /\ SetSafepoint("synchronized")

SafepointEnd ==
    /\ is_at_safepoint /\ At(VMThread, "idle")
    /\ SetSafepoint("none")

(***************************************************************************)
(* The specification.                                                      *)
(***************************************************************************)

\* A caller calls lock(), try_lock(), notify(), notify_all() or wait().
Arrive(t) ==
    \/ LockFast(t) \/ LockWithoutSafepointCheck(t) \/ TryLockSneak(t)
    \/ TryLock(t)
    \/ \E everyone \in BOOLEAN : Notify(t, everyone)
    \/ Wait(t)

ILock(t) ==
    \/ ILockTry(t) \/ AcquireOrPush(t) \/ ILockTestOnDeck(t)
    \/ ILockOnDeckLoop(t) \/ ClearOnDeck(t) \/ Park(t)

IUnlock(t) ==
    \/ IUnlockRelease(t) \/ IUnlockReadOnDeck(t) \/ IUnlockReadLockWord(t)
    \/ IUnlockReadEntryList(t) \/ Succession(t) \/ WakeOne(t)
    \/ PassOnDeck(t) \/ DelegateUnpark(t) \/ IUnlockUnpark(t)
    \/ DrainCxq(t) \/ FillEntryList(t) \/ Punt(t) \/ Resample(t)

NotifyStep(t) ==
    NotifyTest(t) \/ NotifyUnlink(t) \/ NotifyPush(t) \/ NotifyMark(t)

IWait(t) ==
    \/ IWaitEnqueue(t) \/ IWaitTest(t) \/ IWaitUnlink(t)
    \/ ReenterTestOnDeck(t) \/ ReenterSpin(t)

\* What a thread inside an operation does next, and the end of its critical
\* section: everything the scheduler and the caller owe the others.
Proceed(t) ==
    \/ LockSneak(t) \/ LockSpin(t) \/ LockBlock(t) \/ SetOwner(t)
    \/ Unlock(t) \/ ILock(t) \/ IUnlock(t) \/ NotifyStep(t) \/ IWait(t)

Next ==
    \/ \E t \in Threads : Arrive(t) \/ Proceed(t) \/ ParkTimeout(t)
                            \/ WaitSuspended(t) \/ Resumed(t)
    \/ SafepointBegin \/ SafepointReached \/ SafepointEnd

\* Nobody owes a suspended thread its resumption, nor the monitor a new call.
Fairness ==
    /\ \A t \in Threads : WF_vars(Proceed(t))
    /\ WF_vars(SafepointReached) /\ WF_vars(SafepointEnd)

Spec == Init /\ [][Next]_vars /\ Fairness

-----------------------------------------------------------------------------
(***************************************************************************)
(* Properties.                                                             *)
(***************************************************************************)

\* t is inside the critical section lock() and unlock() delimit.
CriticalSection(t) == pc[t] \in NotifyLabels \cup {"held"}

\* t holds the outer lock, physically.
Holds(t) ==
    \/ pc[t] \in {"acquired", "i_clear", "u_release", "w_enq"}
    \/ CriticalSection(t) /\ ~(snuck /\ t = VMThread)

\* t is in IWait(), has enqueued itself and not yet left the queues.
InIWait(t) ==
    call[t] = "wait" /\ pc[t] \in IUnlockLabels \cup QueuedWaitLabels

\* t's ParkEvent has to be on some list or OnDeck.
Enqueued(t) ==
    \/ pc[t] \in {"i_wait", "i_park", "i_ondeck", "i_opark", "i_clear"}
    \/ InIWait(t)

\* The type invariant.
TypeOK ==
    /\ LockByte \in {0, 1}
    /\ cxq \in Seq(Threads) /\ EntryList \in Seq(Threads)
    /\ OnDeck \in Threads \cup {NULL, LBIT}
    /\ WaitSet \in Seq(Threads) /\ WaitLock \in Threads \cup {NULL}
    /\ Notified \in [Threads -> {0, 1}] /\ permit \in [Threads -> {0, 1}]
    /\ owner \in Threads \cup {NULL} /\ snuck \in BOOLEAN
    /\ safepoint \in {"none", "synchronizing", "synchronized"}
    /\ tbivm \subseteq JavaThreads
    /\ pc \in [Threads -> Labels]
    /\ call \in [Threads -> {"none", "lock", "unlock", "wait", "suspend"}]
    /\ all \subseteq Threads
    /\ w \in [Threads -> Threads \cup {NULL}]
    /\ List \in [Threads -> Seq(Threads)]

\* At most one thread is between lock() and unlock(), the VM thread that
\* sneaked past a held lock included (mutex.cpp, lock() and "ON THE VMTHREAD
\* SNEAKING PAST HELD LOCKS").
MutualExclusion ==
    \A t, u \in Threads : CriticalSection(t) /\ CriticalSection(u) => t = u

\* The LockByte is set exactly when one thread holds the outer lock: no step
\* leaks it, releases it twice or takes it while it is held (every
\* assert(ILocked()) of mutex.cpp).
OuterLock ==
    /\ LockByte = 1 <=> \E t \in Threads : Holds(t)
    /\ \A t, u \in Threads : Holds(t) /\ Holds(u) => t = u

\* OnDeck is a lock: it is LBIT exactly while one thread arranges succession
\* in IUnlock(), and the thread that clears it after acquiring the outer lock
\* is the one it names (asserts at 498, 509, 602, 664 and 855).
InnerLock ==
    /\ OnDeck = LBIT <=> \E t \in Threads : pc[t] \in SuccessionLabels
    /\ \A t, u \in Threads :
          pc[t] \in SuccessionLabels /\ pc[u] \in SuccessionLabels => t = u
    /\ \A t \in Threads :
          pc[t] \in {"i_ondeck", "i_opark", "i_clear", "r_spin"} => OnDeck = t

\* The number of places that hold t's ParkEvent: the three lists, the OnDeck
\* position, and what IUnlock() and notify() have unlinked and not yet put.
Occurrences(t) ==
    LET In(s) == Cardinality({i \in DOMAIN s : s[i] = t})
        One(b) == IF b THEN 1 ELSE 0
        Carries(u) == \/ pc[u] \in {"u_pass", "n_push"} /\ w[u] = t
                      \/ In(List[u]) > 0
    IN  In(cxq) + In(EntryList) + In(WaitSet) + One(OnDeck = t)
          + Cardinality({u \in Threads : Carries(u)})

\* A thread that waits for the lock or a notification is in exactly one
\* place, any other thread is in none ("it can't be on two lists at once":
\* ListNext links them all).  A waiter on the WaitSet has not been notified, and
\* one that is neither notified nor on the WaitSet is in the hands of notify(): a
\* timeout and a notify() that race settle on one outcome (the DCL on Notified in
\* IWait()).
QueuesAccounted ==
    /\ \A t \in Threads : Occurrences(t) = IF Enqueued(t) THEN 1 ELSE 0
    /\ \A t \in Threads : InIWait(t) =>
         LET onSet == \E i \in DOMAIN WaitSet : WaitSet[i] = t
             unlinked == \E u \in Threads :
                             pc[u] \in {"n_push", "n_mark"} /\ w[u] = t
         IN  /\ onSet => Notified[t] = 0 /\ ~unlinked
             /\ Notified[t] = 0 => onSet \/ unlinked

\* The heir presumptive will look at the lock again without another unpark.
Awake(h) == pc[h] \notin ParkLabels \/ permit[h] = 1
                \/ \E t \in Threads : pc[t] = "u_unpark" /\ w[t] = h

\* While the lock is free no queued thread is stranded: some thread is still
\* bound to find it.  With an heir OnDeck, it is awake or an exiting thread
\* will unpark it; with threads queued, an exiting thread will run
\* succession (IUnlock()'s early returns, the delegated unpark and the Dekker
\* pivot at Punt).
NoStrandedThread ==
    LockByte = 0 =>
        /\ OnDeck \in Threads =>
             Awake(OnDeck) \/ \E t \in Threads : pc[t] \in {"u_ondeck", "u_check"}
        /\ OnDeck = NULL /\ cxq # <<>> =>
             \E t \in Threads : pc[t] \in {"u_ondeck", "u_word", "u_cas",
                                           "u_resample"}
        /\ OnDeck = NULL /\ EntryList # <<>> =>
             \E t \in Threads : pc[t] \in {"u_ondeck", "u_word", "u_elist",
                                           "u_cas"}

\* set_owner(Self) never finds the mutex owned (asserts at 915, 960, 989, 1146
\* and 1289): a thread that may go on to set the owner finds it NULL.
OwnerIsNullWhenSet ==
    \A t \in Threads :
        At(t, "acquired") /\ (t \in tbivm => safepoint = "none") => owner = NULL

\* notify() finds the lock still locked when it pushes the waiter it unlinked
\* (assert((v & 0xFF) == _LBIT) in its CAS loop): the word it installs has LBIT
\* set whatever the old one had.
NotifyPushesOnLockedWord == \A t \in Threads : At(t, "n_push") => LockByte = 1

\* While the VM thread is in a critical section it sneaked into, a thread
\* that holds the outer lock is a Java thread inside its ThreadBlockInVM,
\* stalled there until the safepoint ends.
SneakIsHarmless ==
    snuck => /\ is_at_safepoint /\ owner = VMThread
             /\ \A t \in Threads : Holds(t) => t \in tbivm

\* A step that takes the heir off the OnDeck position is its own, after it
\* has acquired the outer lock.
OnDeckStep ==
    OnDeck \in Threads /\ OnDeck' # OnDeck =>
        OnDeck' = NULL /\ At(OnDeck, "i_clear") /\ LockByte = 1

\* Once OnDeck a thread stays OnDeck until it holds the outer lock ("Self is
\* now in the ONDECK position and will remain so until it manages to acquire
\* the lock").
OnDeckIsStable == [][OnDeckStep]_vars

\* t competes for the outer lock.
Contends(t) ==
    \/ pc[t] \in ILockLabels \cup {"contended", "r_check", "r_spin", "r_park"}
    \/ InIWait(t) /\ Notified[t] = 1

\* If callers stop making new calls then every thread that competes for the
\* lock gets into its critical section (Monitor::lock(), Monitor::wait()), unless
\* wait() finds that it was suspended and nobody ever resumes it; a thread that
\* stays suspended keeps nobody else out.  (With new arrivals a thread may
\* starve: the lock is unfair by design.)
EveryContenderEnters ==
    <>[][~\E t \in Threads : Arrive(t)]_vars =>
        \A t \in Threads :
            []<>~At(t, "suspended") => (Contends(t) ~> At(t, "held"))

Status(t) ==
    IF CriticalSection(t) THEN "in"
    ELSE IF At(t, "idle") \/ call[t] = "unlock" THEN "out"
    ELSE IF \/ At(t, "w_enq")
            \/ \E i \in DOMAIN WaitSet : WaitSet[i] = t THEN "waiting"
    ELSE "entering"

AM == INSTANCE AbstractMonitor
        WITH status <- [t \in Threads |-> Status(t)],
             MayExpire <- (IF NativeMonitorTimeout THEN Threads
                           ELSE TimedWaiters)

\* The whole of Monitor behaves as a Mesa monitor: one thread inside, notify()
\* moves one waiter to the entry, a waiter moves there by itself only if its
\* wait can time out.
ImplementsAbstractMonitor == AM!Spec
==============================================================================
