------------------------------ MODULE Safepoint ------------------------------
(***************************************************************************)
(* The safepoint protocol: begin(), end() and block() of                   *)
(* runtime/safepoint.cpp, the thread-state transitions of                  *)
(* runtime/interfaceSupport.hpp, and external suspension (java_suspend,    *)
(* java_suspend_self and java_resume of runtime/thread.cpp), which the VM  *)
(* thread takes for a stopped thread.                                      *)
(*                                                                         *)
(* A thread's stores to its _thread_state go through a store buffer (total *)
(* store order): the VM thread and a suspender see those that have left    *)
(* it, and a fence or an atomic instruction waits until it is empty.       *)
(* Without UseMembar a transition has no fence; the VM thread makes up for *)
(* it with os::serialize_thread_states().                                  *)
(*                                                                         *)
(* Threads_lock, Safepoint_lock and SR_lock are the monitors of            *)
(* AbstractMonitor.  A critical section that only one side can see is one  *)
(* step: block()'s under Safepoint_lock, and all those under SR_lock.      *)
(***************************************************************************)
EXTENDS Naturals, Sequences, FiniteSets

CONSTANTS
    JavaThreads,
    InitialThreads,   \* the Java threads on the Threads list at the start
    VMThread,
    None,             \* a free lock, no thread
    UseMembar,        \* -XX flag: fence on every thread-state transition
    StoreBufferSize,  \* bound: stores to _thread_state a thread has pending
    Critical,         \* the threads that enter JNI critical regions
    Suspendable,      \* the threads that are suspended externally ...
    Resumable,        \* ... and that are resumed
    Mortal            \* the threads that leave the Threads list and join it

ASSUME SafepointAssumption ==
    /\ VMThread \notin JavaThreads /\ None \notin JavaThreads /\ VMThread # None
    /\ InitialThreads \subseteq JavaThreads /\ Critical \subseteq JavaThreads
    /\ Suspendable \subseteq JavaThreads /\ Resumable \subseteq Suspendable
    /\ Mortal \subseteq JavaThreads
    /\ UseMembar \in BOOLEAN /\ StoreBufferSize \in Nat \ {0}

VARIABLES
    state,            \* SafepointSynchronize::_state
    PageArmed,        \* the polling page faults
    waiting_to_block, \* SafepointSynchronize::_waiting_to_block
    jni_active,       \* _current_jni_active_count
    type,             \* ThreadSafepointState::_type of each thread
    has_called_back,  \* ThreadSafepointState::_has_called_back
    thread_state,     \* _thread_state of each thread in memory
    buffer,           \* its stores that have not reached memory
    Threads_lock, Safepoint_lock,   \* their holders
    list,             \* the threads on the Threads list
    critical,         \* the threads in a JNI critical region
    external_suspend, ext_suspended, suspend_equivalent,  \* threads so flagged
    pc, to, saved, ret,  \* of each thread: label, target state of a transition,
                         \* state that block() restores, label to return to (the
                         \* last three have their initial values when not in use)
    vpc, toVisit, cur, orig,  \* of the VM thread: label, threads its loop has
                              \* left, _thread and _orig_thread_state it examines
    spc, target,      \* of a suspender: label, the thread it suspends
    held,             \* history: the threads for which java_suspend() has returned
    resumed           \* history: the threads that have been resumed at least once

safepoint == <<state, PageArmed, waiting_to_block, jni_active, type, has_called_back>>
memory    == <<thread_state, buffer>>
locks     == <<Threads_lock, Safepoint_lock>>
members   == <<list, critical>>
flags     == <<external_suspend, ext_suspended, suspend_equivalent>>
thread    == <<pc, to, saved, ret>>
vm        == <<vpc, toVisit, cur, orig>>
suspender == <<spc, target, held, resumed>>
vars == <<safepoint, memory, locks, members, flags, thread, vm, suspender>>

\* JavaThreadState; a transition from a state goes through its odd successor.
StableStates == {"new", "native", "vm", "Java", "blocked"}
TransStates == {"new_trans", "native_trans", "vm_trans", "blocked_trans"}
States == StableStates \cup TransStates
Trans == [new |-> "new_trans", native |-> "native_trans", vm |-> "vm_trans",
          blocked |-> "blocked_trans"]

Init ==
    /\ state = "not_synchronized" /\ PageArmed = FALSE
    /\ waiting_to_block = 0 /\ jni_active = 0
    /\ type = [t \in JavaThreads |-> "running"]
    /\ has_called_back = [t \in JavaThreads |-> FALSE]
    /\ thread_state = [t \in JavaThreads |->
                          IF t \in InitialThreads THEN "native" ELSE "new"]
    /\ buffer = [t \in JavaThreads |-> <<>>]
    /\ Threads_lock = None /\ Safepoint_lock = None
    /\ list = InitialThreads /\ critical = {}
    /\ external_suspend = {} /\ ext_suspended = {} /\ suspend_equivalent = {}
    /\ pc = [t \in JavaThreads |-> IF t \in InitialThreads THEN "run" ELSE "none"]
    /\ to = [t \in JavaThreads |-> "native"]
    /\ saved = [t \in JavaThreads |-> "native"]
    /\ ret = [t \in JavaThreads |-> "run"]
    /\ vpc = "idle" /\ toVisit = {} /\ cur = None /\ orig = "new"
    /\ spc = "idle" /\ target = None /\ held = {} /\ resumed = {}

-----------------------------------------------------------------------------
(* The store buffer. *)

\* The state the thread itself reads: the one it stored last.
Own(t) == IF buffer[t] = <<>> THEN thread_state[t] ELSE buffer[t][Len(buffer[t])]

Drained(t) == buffer[t] = <<>>

set_thread_state(t, s) ==
    /\ Len(buffer[t]) < StoreBufferSize
    /\ buffer' = [buffer EXCEPT ![t] = Append(@, s)]
    /\ UNCHANGED thread_state

\* A store between two atomic instructions or fences, as in a critical section.
set_thread_state_fenced(t, s) ==
    /\ Drained(t)
    /\ thread_state' = [thread_state EXCEPT ![t] = s]
    /\ UNCHANGED buffer

StoreReachesMemory(t) ==
    /\ ~Drained(t)
    /\ thread_state' = [thread_state EXCEPT ![t] = Head(buffer[t])]
    /\ buffer' = [buffer EXCEPT ![t] = Tail(@)]
    /\ UNCHANGED <<safepoint, locks, members, flags, thread, vm, suspender>>

Goto(t, l) == pc' = [pc EXCEPT ![t] = l]
Runs(t, s) == pc[t] = "run" /\ Own(t) = s
do_call_back == state # "not_synchronized"
Fence(t) == UseMembar => Drained(t)

-----------------------------------------------------------------------------
(* Thread-state transitions. *)

\* From Java there is no check: ThreadInVMfromJava, the end of a JavaCallWrapper,
\* and the wrapper of a native method.
TransitionFromJava(t) ==
    /\ Runs(t, "Java")
    /\ \E s \in {"vm", "native"} : set_thread_state(t, s)
    /\ UNCHANGED <<safepoint, locks, members, flags, thread, vm, suspender>>

\* The pairs of transition() and transition_and_fence().
Pairs == {<<"vm", "Java">>, <<"vm", "native">>, <<"vm", "blocked">>,
          <<"blocked", "vm">>, <<"new", "vm">>}

TransitionStart(t) ==
    /\ \E p \in Pairs : /\ Runs(t, p[1])
                        /\ set_thread_state(t, Trans[p[1]])
                        /\ to' = [to EXCEPT ![t] = p[2]]
    /\ Goto(t, "check")
    /\ UNCHANGED <<safepoint, locks, members, flags, saved, ret, vm, suspender>>

TransitionCheck(t) ==
    /\ pc[t] = "check" /\ Fence(t)
    /\ Goto(t, IF do_call_back THEN "block" ELSE "set")
    /\ ret' = [ret EXCEPT ![t] = "set"]
    /\ UNCHANGED <<safepoint, memory, locks, members, flags, to, saved, vm, suspender>>

\* The last store.  The ways into Java look for a suspend request afterwards, and
\* so does ThreadToNativeFromVM; the way back from ThreadInVMfromNative does not.
TransitionSet(t) ==
    /\ pc[t] = "set"
    /\ set_thread_state(t, to[t])
    /\ \E l \in CASE Own(t) = "vm_trans" /\ to[t] = "Java" -> {"special"}
                  [] Own(t) = "vm_trans" /\ to[t] = "native" -> {"special", "run"}
                  [] OTHER -> {"run"} :
           Goto(t, l)
    /\ ret' = [ret EXCEPT ![t] = "run"] /\ to' = [to EXCEPT ![t] = "native"]
    /\ UNCHANGED <<safepoint, locks, members, flags, saved, vm, suspender>>

\* transition_from_native(), and the return of a native method to Java.
FromNativeStart(t) ==
    /\ Runs(t, "native")
    /\ set_thread_state(t, "native_trans")
    /\ \E s \in {"vm", "Java"} : to' = [to EXCEPT ![t] = s]
    /\ Goto(t, "native_check")
    /\ UNCHANGED <<safepoint, locks, members, flags, saved, ret, vm, suspender>>

FromNativeCheck(t) ==
    /\ pc[t] = "native_check" /\ Fence(t)
    /\ Goto(t, IF do_call_back THEN "slow" ELSE "native_flags")
    /\ UNCHANGED <<safepoint, memory, locks, members, flags, to, saved, ret, vm,
                   suspender>>

FromNativeFlags(t) ==
    /\ pc[t] = "native_flags"
    /\ Goto(t, IF t \in external_suspend THEN "slow" ELSE "set")
    /\ UNCHANGED <<safepoint, memory, locks, members, flags, to, saved, ret, vm,
                   suspender>>

\* check_safepoint_and_suspend_for_native_trans(): suspend first, as blocked and
\* suspend-equivalent ...
SlowSuspend(t) ==
    /\ pc[t] = "slow" /\ t \in external_suspend
    /\ suspend_equivalent' = suspend_equivalent \cup {t}
    /\ set_thread_state(t, "blocked")
    /\ Goto(t, "suspend_self") /\ ret' = [ret EXCEPT ![t] = "slow_restore"]
    /\ UNCHANGED <<safepoint, locks, members, external_suspend, ext_suspended, to,
                   saved, vm, suspender>>

SlowNoSuspend(t) ==
    /\ pc[t] = "slow" /\ t \notin external_suspend
    /\ Goto(t, "slow_check")
    /\ UNCHANGED <<safepoint, memory, locks, members, flags, to, saved, ret, vm,
                   suspender>>

SlowRestore(t) ==
    /\ pc[t] = "slow_restore"
    /\ set_thread_state(t, "native_trans")
    /\ Goto(t, "slow_check")
    /\ UNCHANGED <<safepoint, locks, members, flags, to, saved, ret, vm, suspender>>

\* ... then look for a safepoint again.
SlowCheck(t) ==
    /\ pc[t] = "slow_check" /\ Fence(t)
    /\ Goto(t, IF do_call_back THEN "block" ELSE "set")
    /\ ret' = [ret EXCEPT ![t] = "set"]
    /\ UNCHANGED <<safepoint, memory, locks, members, flags, to, saved, vm, suspender>>

-----------------------------------------------------------------------------
(* Stopping: the polling page and block(). *)

\* A poll of compiled code faults; the signal handler runs a step later.
PollFaults(t) ==
    /\ Runs(t, "Java") /\ PageArmed
    /\ Goto(t, "poll")
    /\ UNCHANGED <<safepoint, memory, locks, members, flags, to, saved, ret, vm,
                   suspender>>

handle_polling_page_exception(t) ==
    /\ pc[t] = "poll"
    /\ Goto(t, "block") /\ ret' = [ret EXCEPT ![t] = "run"]
    /\ UNCHANGED <<safepoint, memory, locks, members, flags, to, saved, vm, suspender>>

\* block() from vm_trans or Java: pretend to be in the VM, so as to be called back.
BlockAsInVM(t) ==
    /\ pc[t] = "block" /\ Own(t) \in {"vm_trans", "Java"}
    /\ saved' = [saved EXCEPT ![t] = Own(t)]
    /\ set_thread_state(t, "vm")
    /\ Goto(t, "call_back")
    /\ UNCHANGED <<safepoint, locks, members, flags, to, ret, vm, suspender>>

\* Mutant: a thread that calls back is not counted as critical.
BlockCallBack_NoJniCount(t) ==
    /\ pc[t] = "call_back" /\ Safepoint_lock = None
    /\ set_thread_state_fenced(t, "blocked")
    /\ IF state = "synchronizing"
         THEN /\ waiting_to_block' = waiting_to_block - 1
              /\ has_called_back' = [has_called_back EXCEPT ![t] = TRUE]
              /\ UNCHANGED jni_active
              /\ vpc' = IF waiting_to_block' = 0 /\ vpc = "waiting"
                          THEN "notified" ELSE vpc
         ELSE UNCHANGED <<waiting_to_block, has_called_back, jni_active, vpc>>
    /\ Goto(t, "block_wait")
    /\ UNCHANGED <<state, PageArmed, type, locks, members, flags, to, saved, ret,
                   toVisit, cur, orig, suspender>>

\* The section under Safepoint_lock: count oneself out, wake the VM thread, and
\* leave as blocked.
BlockCallBack(t) ==
    /\ pc[t] = "call_back" /\ Safepoint_lock = None
    /\ set_thread_state_fenced(t, "blocked")
    /\ IF state = "synchronizing"
         THEN /\ waiting_to_block' = waiting_to_block - 1
              /\ has_called_back' = [has_called_back EXCEPT ![t] = TRUE]
              /\ jni_active' = jni_active + (IF t \in critical THEN 1 ELSE 0)
              /\ vpc' = IF waiting_to_block' = 0 /\ vpc = "waiting"
                          THEN "notified" ELSE vpc
         ELSE UNCHANGED <<waiting_to_block, has_called_back, jni_active, vpc>>
    /\ Goto(t, "block_wait")
    /\ UNCHANGED <<state, PageArmed, type, locks, members, flags, to, saved, ret,
                   toVisit, cur, orig, suspender>>

\* block() from the other transition states, which the VM thread does not wait for
\* once it sees them blocked.
BlockAtOnce(t) ==
    /\ pc[t] = "block" /\ Own(t) \in {"native_trans", "blocked_trans", "new_trans"}
    /\ saved' = [saved EXCEPT ![t] = Own(t)]
    /\ set_thread_state(t, "blocked")
    /\ Goto(t, "block_wait")
    /\ UNCHANGED <<safepoint, locks, members, flags, to, ret, vm, suspender>>

\* The section under Threads_lock, which the VM thread holds until end().
BlockRestore(t) ==
    /\ pc[t] = "block_wait" /\ Threads_lock = None
    /\ set_thread_state_fenced(t, saved[t])
    /\ Goto(t, IF saved[t] \in {"vm_trans", "blocked_trans"} THEN ret[t] ELSE "special")
    /\ saved' = [saved EXCEPT ![t] = "native"]
    /\ UNCHANGED <<safepoint, locks, members, flags, to, ret, vm, suspender>>

-----------------------------------------------------------------------------
(* Suspending oneself. *)

\* has_special_runtime_exit_condition() and what follows from it.
handle_special_runtime_exit_condition(t) ==
    /\ pc[t] = "special"
    /\ Goto(t, IF t \in external_suspend THEN "suspend_self" ELSE ret[t])
    /\ UNCHANGED <<safepoint, memory, locks, members, flags, to, saved, ret, vm,
                   suspender>>

\* Under SR_lock: give up suspend-equivalence and stay suspended while there is a
\* request.
java_suspend_self(t) ==
    /\ \/ pc[t] = "suspend_self" /\ Drained(t)
       \/ pc[t] = "suspended" /\ t \notin ext_suspended
    /\ suspend_equivalent' = suspend_equivalent \ {t}
    /\ IF t \in external_suspend
         THEN /\ ext_suspended' = ext_suspended \cup {t}
              /\ Goto(t, "suspended")
         ELSE Goto(t, ret[t]) /\ UNCHANGED ext_suspended
    /\ UNCHANGED <<safepoint, memory, locks, members, external_suspend, to, saved, ret,
                   vm, suspender>>

-----------------------------------------------------------------------------
(* What else a thread does to the state a safepoint reads. *)

\* GC_locker's critical regions are entered and left in the VM.
EnterCritical(t) ==
    /\ t \in Critical \ critical /\ Runs(t, "vm")
    /\ critical' = critical \cup {t}
    /\ UNCHANGED <<safepoint, memory, locks, list, flags, thread, vm, suspender>>

ExitCritical(t) ==
    /\ t \in critical /\ Runs(t, "vm")
    /\ critical' = critical \ {t}
    /\ UNCHANGED <<safepoint, memory, locks, list, flags, thread, vm, suspender>>

\* Threads::add() under Threads_lock: a started thread is new, an attaching one is
\* in the VM.
ThreadsAdd(t) ==
    /\ pc[t] = "none" /\ t \in Mortal /\ Threads_lock = None
    /\ list' = list \cup {t}
    /\ \E s \in {"new", "vm"} : set_thread_state_fenced(t, s)
    /\ Goto(t, "run")
    /\ UNCHANGED <<safepoint, locks, critical, flags, to, saved, ret, vm, suspender>>

\* JavaThread::exit() waits until there is no suspend request, then
\* Threads::remove() under Threads_lock.
ThreadsRemove(t) ==
    /\ Runs(t, "vm") /\ t \in Mortal \ critical /\ t \notin external_suspend
    /\ Threads_lock = None
    /\ list' = list \ {t}
    /\ set_thread_state_fenced(t, "new")
    /\ Goto(t, "none")
    /\ UNCHANGED <<safepoint, locks, critical, flags, to, saved, ret, vm, suspender>>

ThreadStep(t) ==
    \/ StoreReachesMemory(t) \/ TransitionFromJava(t)
    \/ TransitionStart(t) \/ TransitionCheck(t) \/ TransitionSet(t)
    \/ FromNativeStart(t) \/ FromNativeCheck(t) \/ FromNativeFlags(t)
    \/ SlowSuspend(t) \/ SlowNoSuspend(t) \/ SlowRestore(t) \/ SlowCheck(t)
    \/ PollFaults(t) \/ handle_polling_page_exception(t)
    \/ BlockAsInVM(t) \/ BlockCallBack(t) \/ BlockAtOnce(t) \/ BlockRestore(t)
    \/ handle_special_runtime_exit_condition(t) \/ java_suspend_self(t)
    \/ EnterCritical(t) \/ ExitCritical(t) \/ ThreadsAdd(t) \/ ThreadsRemove(t)

-----------------------------------------------------------------------------
(* External suspension: one suspender at a time, and resumers. *)

\* JVM_SuspendThread, under SR_lock; an exiting thread is left alone.
RequestSuspend(t) ==
    /\ spc = "idle" /\ t \in (Suspendable \cap list) \ external_suspend
    /\ external_suspend' = external_suspend \cup {t}
    /\ spc' = "includes" /\ target' = t
    /\ UNCHANGED <<safepoint, memory, locks, members, ext_suspended,
                   suspend_equivalent, thread, vm, held, resumed>>

\* Mutant: without Threads_lock.
JavaSuspendIncludes_NoLock ==
    /\ spc = "includes"
    /\ IF target \in list
         THEN spc' = "check" /\ UNCHANGED target
         ELSE spc' = "idle" /\ target' = None
    /\ UNCHANGED <<safepoint, memory, locks, members, flags, thread, vm, held,
                   resumed>>

\* java_suspend() first takes Threads_lock to see whether the thread is there: it
\* gets no further while a safepoint is on.
JavaSuspendIncludes ==
    /\ spc = "includes" /\ Threads_lock = None
    /\ IF target \in list
         THEN spc' = "check" /\ UNCHANGED target
         ELSE spc' = "idle" /\ target' = None
    /\ UNCHANGED <<safepoint, memory, locks, members, flags, thread, vm, held,
                   resumed>>

\* is_ext_suspend_completed(): TRUE when the suspension needs no safepoint.
is_ext_suspend_completed(t) ==
    \/ t \in ext_suspended
    \/ thread_state[t] = "blocked" /\ t \in suspend_equivalent
    \/ thread_state[t] = "native"

\* Then it looks at the thread, and gives up when a resume has cancelled the request.  While
\* the thread is in native_trans it waits and looks again, a bounded number of
\* times.
JavaSuspendCheck ==
    /\ spc = "check"
    /\ IF target \notin external_suspend
         THEN spc' = "idle" /\ target' = None /\ UNCHANGED held
         ELSE IF is_ext_suspend_completed(target)
                THEN spc' = "idle" /\ target' = None /\ held' = held \cup {target}
                ELSE /\ spc' \in IF thread_state[target] = "native_trans"
                                   THEN {"check", "force"} ELSE {"force"}
                     /\ UNCHANGED <<target, held>>
    /\ UNCHANGED <<safepoint, memory, locks, members, flags, thread, vm, resumed>>

\* Mutant: a resume without Threads_lock.
java_resume_NoLock(t) ==
    /\ t \in Resumable \cap external_suspend
    /\ external_suspend' = external_suspend \ {t}
    /\ ext_suspended' = ext_suspended \ {t}
    /\ held' = held \ {t} /\ resumed' = resumed \cup {t}
    /\ UNCHANGED <<safepoint, memory, locks, members, suspend_equivalent, thread, vm,
                   spc, target>>

\* java_resume(), under Threads_lock and SR_lock.
java_resume(t) ==
    /\ t \in Resumable \cap external_suspend /\ Threads_lock = None
    /\ external_suspend' = external_suspend \ {t}
    /\ ext_suspended' = ext_suspended \ {t}
    /\ held' = held \ {t} /\ resumed' = resumed \cup {t}
    /\ UNCHANGED <<safepoint, memory, locks, members, suspend_equivalent, thread, vm,
                   spc, target>>

-----------------------------------------------------------------------------
(* The VM thread. *)

BeginLock ==
    /\ vpc = "idle" /\ Threads_lock = None
    /\ Threads_lock' = VMThread
    /\ vpc' = "begin"
    /\ UNCHANGED <<safepoint, memory, Safepoint_lock, members, flags, thread, toVisit,
                   cur, orig, suspender>>

\* Mutant: the store buffers are not flushed.
BeginSynchronizing_NoSerialize ==
    /\ vpc = "begin" /\ Safepoint_lock = None
    /\ Safepoint_lock' = VMThread
    /\ jni_active' = 0
    /\ waiting_to_block' = Cardinality(list)
    /\ state' = "synchronizing"
    /\ vpc' = "arm"
    /\ toVisit' = {}
    /\ UNCHANGED <<PageArmed, type, has_called_back, memory, Threads_lock, members,
                   flags, thread, cur, orig, suspender>>

BeginSynchronizing ==
    /\ vpc = "begin" /\ Safepoint_lock = None
    /\ Safepoint_lock' = VMThread
    /\ jni_active' = 0
    /\ waiting_to_block' = Cardinality(list)
    /\ state' = "synchronizing"
    /\ vpc' = IF UseMembar THEN "arm" ELSE "serialize"
    /\ toVisit' = IF UseMembar THEN {} ELSE list
    /\ UNCHANGED <<PageArmed, type, has_called_back, memory, Threads_lock, members,
                   flags, thread, cur, orig, suspender>>

\* os::serialize_thread_states(): each processor drains its store buffer when the
\* protection of the page changes.
SerializeThreadState(t) ==
    /\ vpc = "serialize" /\ t \in toVisit
    /\ thread_state' = [thread_state EXCEPT ![t] = Own(t)]
    /\ buffer' = [buffer EXCEPT ![t] = <<>>]
    /\ toVisit' = toVisit \ {t}
    /\ UNCHANGED <<safepoint, locks, members, flags, thread, vpc, cur, orig, suspender>>

ArmPage ==
    /\ vpc \in {"arm", "serialize"} /\ toVisit = {}
    /\ PageArmed' = TRUE
    /\ vpc' = "spin"
    /\ UNCHANGED <<state, waiting_to_block, jni_active, type, has_called_back, memory,
                   locks, members, flags, thread, toVisit, cur, orig, suspender>>

still_running == {t \in list : type[t] = "running"}

\* The loop of begin() goes round all the threads that are still running.
Round == IF toVisit \cap still_running = {} THEN still_running
                                            ELSE toVisit \cap still_running

\* examine_state_of_thread() reads the state ...
ExamineRead(t) ==
    /\ vpc = "spin" /\ t \in Round
    /\ cur' = t /\ orig' = thread_state[t]
    /\ vpc' = "examine" /\ toVisit' = Round \ {t}
    /\ UNCHANGED <<safepoint, memory, locks, members, flags, thread, suspender>>

\* Mutant: the VM thread goes on waiting for a thread that is blocked.
safepoint_safe_OnlyNative(s) == s = "native"

\* safepoint_safe(), of threads whose stack is walkable.
safepoint_safe(s) == s \in {"native", "blocked"}

\* ... then the suspend flag, and rolls the thread forward.
ExamineDecide ==
    LET stopped == cur \in ext_suspended \/ safepoint_safe(orig)
    IN  /\ vpc = "examine"
        /\ type' = [type EXCEPT ![cur] =
                      CASE stopped -> "at_safepoint"
                        [] ~stopped /\ orig = "vm" -> "call_back"
                        [] OTHER -> @]
        /\ waiting_to_block' = waiting_to_block - (IF stopped THEN 1 ELSE 0)
        /\ jni_active' = jni_active + (IF stopped /\ cur \in critical THEN 1 ELSE 0)
        /\ vpc' = "spin" /\ cur' = None /\ orig' = "new"
        /\ UNCHANGED <<state, PageArmed, has_called_back, memory, locks, members, flags,
                       thread, toVisit, suspender>>

SpinDone ==
    /\ vpc = "spin" /\ still_running = {}
    /\ vpc' = "wait"
    /\ UNCHANGED <<safepoint, memory, locks, members, flags, thread, toVisit, cur, orig,
                   suspender>>

\* Safepoint_lock->wait() gives the lock up until the last thread has called back.
WaitToBlock ==
    /\ vpc = "wait" /\ waiting_to_block > 0
    /\ Safepoint_lock' = None
    /\ vpc' = "waiting"
    /\ UNCHANGED <<safepoint, memory, Threads_lock, members, flags, thread, toVisit, cur,
                   orig, suspender>>

WaitNotified ==
    /\ vpc = "notified" /\ Safepoint_lock = None
    /\ Safepoint_lock' = VMThread
    /\ vpc' = "wait"
    /\ UNCHANGED <<safepoint, memory, Threads_lock, members, flags, thread, toVisit, cur,
                   orig, suspender>>

\* The safepoint is reached; a VM_ForceSafepoint of java_suspend() is done here.
Synchronized ==
    /\ vpc = "wait" /\ waiting_to_block = 0
    /\ state' = "synchronized"
    /\ Safepoint_lock' = None
    /\ vpc' = "operation"
    /\ IF spc = "force"
         THEN /\ spc' = "idle" /\ target' = None
              /\ held' = held \cup ({target} \cap external_suspend \cap list)
              /\ UNCHANGED resumed
         ELSE UNCHANGED suspender
    /\ UNCHANGED <<PageArmed, waiting_to_block, jni_active, type, has_called_back,
                   memory, Threads_lock, members, flags, thread, toVisit, cur, orig>>

EndDisarmPage ==
    /\ vpc = "operation"
    /\ PageArmed' = FALSE
    /\ vpc' = "end"
    /\ UNCHANGED <<state, waiting_to_block, jni_active, type, has_called_back, memory,
                   locks, members, flags, thread, toVisit, cur, orig, suspender>>

EndNotSynchronized ==
    /\ vpc = "end" /\ Safepoint_lock = None
    /\ Safepoint_lock' = VMThread
    /\ state' = "not_synchronized"
    /\ vpc' = "restart" /\ toVisit' = list
    /\ UNCHANGED <<PageArmed, waiting_to_block, jni_active, type, has_called_back,
                   memory, Threads_lock, members, flags, thread, cur, orig, suspender>>

restart(t) ==
    /\ vpc = "restart" /\ t \in toVisit
    /\ type' = [type EXCEPT ![t] = "running"]
    /\ has_called_back' = [has_called_back EXCEPT ![t] = FALSE]
    /\ toVisit' = toVisit \ {t}
    /\ UNCHANGED <<state, PageArmed, waiting_to_block, jni_active, memory, locks,
                   members, flags, thread, vpc, cur, orig, suspender>>

EndUnlock ==
    /\ vpc = "restart" /\ toVisit = {}
    /\ Threads_lock' = None /\ Safepoint_lock' = None
    /\ vpc' = "idle"
    /\ UNCHANGED <<safepoint, memory, members, flags, thread, toVisit, cur, orig,
                   suspender>>

VMStep ==
    \/ BeginLock \/ BeginSynchronizing \/ ArmPage \/ ExamineDecide \/ SpinDone
    \/ WaitToBlock \/ WaitNotified \/ Synchronized
    \/ EndDisarmPage \/ EndNotSynchronized \/ EndUnlock
    \/ \E t \in JavaThreads : SerializeThreadState(t) \/ ExamineRead(t) \/ restart(t)

Next ==
    \/ VMStep \/ JavaSuspendIncludes \/ JavaSuspendCheck
    \/ \E t \in JavaThreads : ThreadStep(t) \/ RequestSuspend(t) \/ java_resume(t)

Spec == Init /\ [][Next]_vars

-----------------------------------------------------------------------------
(* Properties. *)

\* The threads that run in Java or in the VM.
Mutators == {t \in list : pc[t] = "run" /\ Own(t) \in {"vm", "Java"}}

World == INSTANCE StopTheWorld WITH Threads <- JavaThreads, phase <- state,
                                    mutators <- Mutators

\* The protocol implements StopTheWorld: a safepoint is reached only when every
\* thread is out of Java and of the VM, and none comes back before it ends.
StopsTheWorld == World!Spec

\* begin() and block() count each thread once, whichever of them sees it stop: while
\* the VM synchronizes _waiting_to_block is the number of threads that are still
\* running or have yet to call back, and at the safepoint the count handed to
\* GC_locker::set_jni_lock_count() is the number of threads in a critical region.
CountsAreExact ==
    /\ state = "synchronizing" =>
         waiting_to_block =
            Cardinality({t \in list : \/ type[t] = "running"
                                      \/ type[t] = "call_back" /\ ~has_called_back[t]})
    /\ state = "synchronized" => jni_active = Cardinality(critical \cap list)

\* A thread whose first suspension java_suspend() has completed runs no Java code
\* until it is resumed: there is no earlier suspension it can be on its way out of
\* (thread.cpp:2245).
FirstSuspensionHolds == \A t \in held \ resumed : ~Runs(t, "Java")

-----------------------------------------------------------------------------
(* Liveness. *)

\* A thread keeps running: its stores reach memory, compiled code polls, code in the
\* VM ends in a transition, and inside the protocol it takes its next step.  A thread
\* in native code, or one that is suspended, may stay there.
KeepsRunning(t) ==
    \/ StoreReachesMemory(t) \/ PollFaults(t) \/ handle_polling_page_exception(t)
    \/ Own(t) \in {"vm", "new"} /\ TransitionStart(t)
    \/ TransitionCheck(t) \/ TransitionSet(t) \/ FromNativeCheck(t) \/ FromNativeFlags(t)
    \/ SlowSuspend(t) \/ SlowNoSuspend(t) \/ SlowRestore(t) \/ SlowCheck(t)
    \/ BlockAsInVM(t) \/ BlockCallBack(t) \/ BlockAtOnce(t) \/ BlockRestore(t)
    \/ handle_special_runtime_exit_condition(t) \/ java_suspend_self(t)

\* The VM thread finishes what it has begun.
Fairness ==
    /\ WF_vars(vpc # "idle" /\ VMStep)
    /\ \A t \in JavaThreads : WF_vars(KeepsRunning(t))

FairSpec == Spec /\ Fairness

\* A safepoint that is begun is reached: begin() does not stay synchronizing.
SafepointIsReached == []<>(state # "synchronizing")

==============================================================================
