------------------------ MODULE SuspendibleThreadSet -------------------------
(***************************************************************************)
(* SuspendibleThreadSet of gc_implementation/shared: concurrent GC threads *)
(* join and leave the set and yield while they are in it; the VM thread    *)
(* stops them for a safepoint with synchronize() and lets them go on with  *)
(* desynchronize().                                                        *)
(*                                                                         *)
(* Everything but yield()'s first look at _suspend_all happens under       *)
(* STS_lock, so a critical section up to its wait() is one step.  A thread *)
(* in wait() goes on once notify_all() has taken it off the wait set.      *)
(***************************************************************************)
EXTENDS Integers, FiniteSets

CONSTANTS GCThreads, VMThread

ASSUME SuspendibleThreadSetAssumption ==
    IsFiniteSet(GCThreads) /\ VMThread \notin GCThreads

VARIABLES
    nthreads, nthreads_stopped, suspend_all,
    waitset,   \* the threads in STS_lock's wait() not yet notified
    pc,        \* of each GC thread
    vpc        \* of the VM thread

counts == <<nthreads, nthreads_stopped>>
vars == <<nthreads, nthreads_stopped, suspend_all, waitset, pc, vpc>>

\* A thread runs outside the set, waits to join, runs in it, has seen
\* _suspend_all, or is stopped in yield().
Labels == {"outside", "joining", "running", "yielding", "stopped"}

\* Every variable has its type: the counters never go below zero.
TypeOK ==
    /\ nthreads \in Nat /\ nthreads_stopped \in Nat /\ suspend_all \in BOOLEAN
    /\ waitset \subseteq GCThreads \cup {VMThread}
    /\ pc \in [GCThreads -> Labels]
    /\ vpc \in {"idle", "synchronizing", "synchronized"}

Init ==
    /\ nthreads = 0 /\ nthreads_stopped = 0 /\ suspend_all = FALSE
    /\ waitset = {}
    /\ pc = [t \in GCThreads |-> "outside"]
    /\ vpc = "idle"

Goto(t, l) == pc' = [pc EXCEPT ![t] = l]

notify_all == waitset' = {}

-----------------------------------------------------------------------------
\* join(), also after a wait(): wait while _suspend_all, else become a member.
join(t) ==
    /\ pc[t] \in {"outside", "joining"} /\ t \notin waitset
    /\ nthreads' = IF suspend_all THEN nthreads ELSE nthreads + 1
    /\ waitset' = IF suspend_all THEN waitset \cup {t} ELSE waitset
    /\ Goto(t, IF suspend_all THEN "joining" ELSE "running")
    /\ UNCHANGED <<nthreads_stopped, suspend_all, vpc>>

leave(t) ==
    /\ pc[t] = "running"
    /\ nthreads' = nthreads - 1
    /\ waitset' = IF suspend_all THEN {} ELSE waitset
    /\ Goto(t, "outside")
    /\ UNCHANGED <<nthreads_stopped, suspend_all, vpc>>

\* yield() looks at _suspend_all without the lock ...
yield(t) ==
    /\ pc[t] = "running" /\ suspend_all
    /\ Goto(t, "yielding")
    /\ UNCHANGED <<counts, suspend_all, waitset, vpc>>

\* ... and again with it: count itself, notify_all(), wait.
yield_stop(t) ==
    /\ pc[t] = "yielding"
    /\ nthreads_stopped' = IF suspend_all THEN nthreads_stopped + 1
                                          ELSE nthreads_stopped
    /\ waitset' = IF suspend_all THEN {t} ELSE waitset
    /\ Goto(t, IF suspend_all THEN "stopped" ELSE "running")
    /\ UNCHANGED <<nthreads, suspend_all, vpc>>

\* The wait() of yield() returns while a new synchronize() is on: wait again.
yield_wait(t) ==
    /\ pc[t] = "stopped" /\ t \notin waitset /\ suspend_all
    /\ waitset' = waitset \cup {t}
    /\ UNCHANGED <<counts, suspend_all, pc, vpc>>

\* Mutant: a woken thread does not look at _suspend_all again.
yield_resume_Unchecked(t) ==
    /\ pc[t] = "stopped" /\ t \notin waitset
    /\ nthreads_stopped' = nthreads_stopped - 1
    /\ notify_all
    /\ Goto(t, "running")
    /\ UNCHANGED <<nthreads, suspend_all, vpc>>

yield_resume(t) ==
    /\ pc[t] = "stopped" /\ t \notin waitset /\ ~suspend_all
    /\ nthreads_stopped' = nthreads_stopped - 1
    /\ notify_all
    /\ Goto(t, "running")
    /\ UNCHANGED <<nthreads, suspend_all, vpc>>

-----------------------------------------------------------------------------
\* while (_nthreads_stopped < _nthreads) wait().
AwaitStopped ==
    /\ waitset' = IF nthreads_stopped < nthreads THEN waitset \cup {VMThread}
                                                 ELSE waitset
    /\ vpc' = IF nthreads_stopped < nthreads THEN "synchronizing"
                                             ELSE "synchronized"
    /\ UNCHANGED <<counts, pc>>

synchronize ==
    /\ vpc = "idle"
    /\ suspend_all' = TRUE
    /\ AwaitStopped

synchronize_wait ==
    /\ vpc = "synchronizing" /\ VMThread \notin waitset
    /\ AwaitStopped
    /\ UNCHANGED suspend_all

desynchronize ==
    /\ vpc = "synchronized"
    /\ suspend_all' = FALSE
    /\ notify_all
    /\ vpc' = "idle"
    /\ UNCHANGED <<counts, pc>>

\* What a member owes the VM thread: it yields or leaves now and then, and
\* goes on when it is woken.
Proceed(t) ==
    \/ yield(t) \/ yield_stop(t) \/ yield_wait(t) \/ yield_resume(t)
    \/ pc[t] = "joining" /\ join(t)

Next ==
    \/ \E t \in GCThreads : join(t) \/ leave(t) \/ Proceed(t)
    \/ synchronize \/ synchronize_wait \/ desynchronize

Spec == Init /\ [][Next]_vars
-----------------------------------------------------------------------------
Members == {t \in GCThreads : pc[t] \in {"running", "yielding", "stopped"}}
Stopped == {t \in GCThreads : pc[t] = "stopped"}

\* The counters are exact, also for a thread that was woken by one
\* desynchronize() and has not left yield() when the next synchronize() counts.
CountsExact ==
    /\ nthreads = Cardinality(Members)
    /\ nthreads_stopped = Cardinality(Stopped)

\* From the return of synchronize() to desynchronize() no member runs, and the
\* assertion _nthreads_stopped == _nthreads of desynchronize() holds
\* (suspendibleThreadSet.cpp:92).
NoMemberRuns ==
    vpc = "synchronized" => Members = Stopped /\ nthreads_stopped = nthreads

\* No notification is lost: a VM thread that waits has a member to wait for,
\* and a stopped or joining thread only waits while the VM thread is at it.
NoLostNotify ==
    /\ VMThread \in waitset => vpc = "synchronizing" /\ Members # Stopped
    /\ waitset \cap GCThreads # {} => suspend_all

=============================================================================
