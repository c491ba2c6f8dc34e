------------------------------- MODULE VMThread ------------------------------
(***************************************************************************)
(* VM operations: threads hand them to the VM thread with                  *)
(* VMThread::execute(), VMOperationQueue orders them, VMThread::loop()     *)
(* evaluates them, at a safepoint where they ask for one, and              *)
(* wait_for_vm_thread_exit() ends the loop (runtime/vmThread.cpp).         *)
(*                                                                         *)
(* A critical section up to its wait() is one step.  A safepoint is what   *)
(* StopTheWorld says: it is reached when no Java thread runs in the VM,    *)
(* and none enters the VM while it is on.  Other threads never stop for    *)
(* it.  An operation is a member of Ops that its caller uses again and     *)
(* again, each time with a new request.                                    *)
(***************************************************************************)
EXTENDS Naturals, Sequences

CONSTANTS
    JavaThreads,
    OtherThreads,   \* GC threads and the watcher thread
    Ops,            \* the operations, as objects
    caller,         \* the thread that requests each operation
    mode,           \* its evaluation_mode()
    QueueTurns,     \* the 10 of remove_next()
    NULL

Threads == JavaThreads \cup OtherThreads

Modes == {"safepoint", "no_safepoint", "concurrent", "async_safepoint"}

ASSUME VMThreadAssumption ==
    /\ JavaThreads \cap OtherThreads = {} /\ NULL \notin Ops
    /\ caller \in [Ops -> Threads] /\ mode \in [Ops -> Modes]
    /\ QueueTurns \in Nat

VARIABLES
    queue,          \* _queue, by priority
    queue_counter,  \* _queue_counter
    drain_list,     \* _drain_list
    cur,            \* _cur_vm_operation
    safepoint_ops,  \* loop()'s drained operations that are still to do
    vpc,            \* where the VM thread is
    purpose,        \* what its safepoint is for
    safepoint,      \* "none", "synchronizing" or "synchronized"
    started, completed, \* _vm_operation_started_count, _completed_count
    reqwait,        \* the threads in VMOperationRequest_lock's wait()
    pc, op,         \* of each thread: where it is in execute(), with what
    live,           \* the operations that are allocated
    done,           \* those of them whose evaluate() has been called
    should_terminate, terminated,
    dpc             \* the thread that destroys the VM

queueVars == <<queue, queue_counter, drain_list>>
vmVars    == <<cur, safepoint_ops, vpc, purpose, safepoint>>
counts    == <<started, completed>>
objects   == <<live, done>>
callers   == <<reqwait, pc, op>>
exitVars  == <<should_terminate, terminated, dpc>>
vars == <<queueVars, vmVars, counts, objects, callers, exitVars>>

VMLabels == {"top", "wait", "notified", "retake", "begin", "reach", "eval",
             "complete", "next", "peek", "drain", "end", "notify", "interval",
             "terminate", "halted"}
Purposes == {"operation", "timeout", "interval", "exit"}

Init ==
    /\ queue = [p \in {"safepoint", "medium"} |-> <<>>]
    /\ queue_counter = 0 /\ drain_list = <<>>
    /\ cur = NULL /\ safepoint_ops = <<>>
    /\ vpc = "top" /\ purpose = "operation" /\ safepoint = "none"
    /\ started = [t \in Threads |-> 0] /\ completed = [t \in Threads |-> 0]
    /\ reqwait = {} /\ pc = [t \in Threads |-> "idle"]
    /\ op = [t \in Threads |-> NULL]
    /\ live = {} /\ done = {}
    /\ should_terminate = FALSE /\ terminated = FALSE /\ dpc = "running"

evaluate_at_safepoint(o) == mode[o] \in {"safepoint", "async_safepoint"}
evaluate_concurrently(o) == mode[o] \in {"concurrent", "async_safepoint"}

\* A Java thread runs Java or VM code only while the world is not stopped.
MayRun(t) == t \in JavaThreads => safepoint # "synchronized"

-----------------------------------------------------------------------------
(* execute(), for any thread but the VM thread                              *)

\* The prologue has succeeded: a blocking operation takes a ticket.
execute(t, o) ==
    /\ pc[t] = "idle" /\ MayRun(t)
    /\ caller[o] = t /\ o \notin live
    /\ live' = live \cup {o}
    /\ op' = [op EXCEPT ![t] = o]
    /\ started' = IF evaluate_concurrently(o) THEN started
                  ELSE [started EXCEPT ![t] = @ + 1]
    /\ pc' = [pc EXCEPT ![t] = "enqueue"]
    /\ UNCHANGED <<queueVars, vmVars, completed, done, reqwait, exitVars>>

\* VMOperationQueue::add() puts it on the right list.
priority(o) == IF evaluate_at_safepoint(o) THEN "safepoint" ELSE "medium"

\* VMOperationQueue_lock->notify(): only the VM thread waits there.
NotifyQueue == vpc' = IF vpc = "wait" THEN "notified" ELSE vpc

add(t) ==
    /\ pc[t] = "enqueue"
    /\ queue' = [queue EXCEPT ![priority(op[t])] = Append(@, op[t])]
    /\ NotifyQueue
    /\ pc' = [pc EXCEPT ![t] = IF evaluate_concurrently(op[t]) THEN "idle"
                                                              ELSE "check"]
    /\ op' = [op EXCEPT ![t] = IF evaluate_concurrently(@) THEN NULL ELSE @]
    /\ UNCHANGED <<queue_counter, drain_list, cur, safepoint_ops, purpose,
                   safepoint, counts, objects, reqwait, exitVars>>

\* while (completed_count < ticket) wait(), under VMOperationRequest_lock.
AwaitTicket(t) ==
    /\ pc' = [pc EXCEPT ![t] = IF completed[t] < started[t] THEN "wait"
                                                            ELSE "epilogue"]
    /\ reqwait' = IF completed[t] < started[t] THEN reqwait \cup {t}
                                               ELSE reqwait
    /\ UNCHANGED <<queueVars, vmVars, counts, objects, op, exitVars>>

check(t) == pc[t] = "check" /\ AwaitTicket(t)

\* A Java thread leaves wait() in a ThreadBlockInVM.
recheck(t) ==
    pc[t] = "wait" /\ t \notin reqwait /\ MayRun(t) /\ AwaitTicket(t)

\* The epilogue uses the operation, which dies with execute()'s caller.  Only
\* the difference of the counters matters: both are taken down by the same.
epilogue(t) ==
    /\ pc[t] = "epilogue"
    /\ pc' = [pc EXCEPT ![t] = "idle"]
    /\ live' = live \ {op[t]} /\ done' = done \ {op[t]}
    /\ op' = [op EXCEPT ![t] = NULL]
    /\ started' = [started EXCEPT ![t] = @ - 1]
    /\ completed' = [completed EXCEPT ![t] = @ - 1]
    /\ UNCHANGED <<queueVars, vmVars, reqwait, exitVars>>

-----------------------------------------------------------------------------
(* VMOperationQueue::remove_next()                                          *)

Other(p) == IF p = "safepoint" THEN "medium" ELSE "safepoint"

high_prio == IF queue_counter < QueueTurns THEN "safepoint" ELSE "medium"

\* Mutant: the medium priority never gets its turn.
NextPriority_SafepointFirst ==
    IF queue["safepoint"] = <<>> THEN "medium" ELSE "safepoint"

NextPriority ==
    IF queue[high_prio] = <<>> THEN Other(high_prio) ELSE high_prio

CountTurn ==
    queue_counter' = IF queue_counter < QueueTurns THEN queue_counter + 1 ELSE 0

remove_next ==
    IF queue[NextPriority] = <<>> THEN NULL ELSE Head(queue[NextPriority])

-----------------------------------------------------------------------------
(* loop()                                                                   *)

UsesOnlyTheQueue == UNCHANGED <<counts, objects, callers, exitVars>>

\* What follows remove_next() under VMOperationQueue_lock: leave, wait or
\* execute.  drained is what the loop around wait() takes off the queue too.
Dispatch(o, drained) ==
    /\ cur' = o
    /\ safepoint_ops' = drained
    /\ vpc' = IF should_terminate THEN "begin"
              ELSE IF o = NULL THEN "wait"
              ELSE IF evaluate_at_safepoint(o) THEN "begin" ELSE "eval"
    /\ purpose' = IF should_terminate THEN "exit" ELSE "operation"
    /\ CountTurn
    /\ UNCHANGED <<drain_list, safepoint>>
    /\ UsesOnlyTheQueue

\* The first look at the queue.
LoopTop ==
    /\ vpc = "top"
    /\ Dispatch(remove_next, <<>>)
    /\ queue' = IF remove_next = NULL THEN queue
                ELSE [queue EXCEPT ![NextPriority] = Tail(@)]

\* A look after wait(), with drain_at_safepoint_priority().
LookAgain ==
    LET o == remove_next
        drains == o # NULL /\ evaluate_at_safepoint(o)
    IN  /\ Dispatch(o, IF drains THEN Tail(queue["safepoint"]) ELSE <<>>)
        /\ queue' = IF o = NULL THEN queue
                    ELSE [queue EXCEPT ![NextPriority] =
                            IF drains THEN <<>> ELSE Tail(@)]

\* wait() has been notified, or has timed out with no cleanup needed.
WaitReturns == vpc \in {"wait", "notified", "retake"} /\ LookAgain

\* wait() has timed out and a cleanup is needed: force a safepoint.
WaitTimesOut ==
    /\ vpc = "wait"
    /\ vpc' = "begin" /\ purpose' = "timeout"
    /\ UNCHANGED <<queueVars, cur, safepoint_ops, safepoint>>
    /\ UsesOnlyTheQueue

\* Mutant: the drained operations are not registered for oops_do().
BeginSafepoint_NoDrainList ==
    /\ vpc = "begin"
    /\ safepoint' = "synchronizing"
    /\ vpc' = "reach"
    /\ UNCHANGED <<queueVars, cur, safepoint_ops, purpose>>
    /\ UsesOnlyTheQueue

\* set_drain_list(safepoint_ops), SafepointSynchronize::begin().
BeginSafepoint ==
    /\ vpc = "begin"
    /\ safepoint' = "synchronizing"
    /\ drain_list' = IF purpose = "operation" THEN safepoint_ops ELSE drain_list
    /\ vpc' = "reach"
    /\ UNCHANGED <<queue, queue_counter, cur, safepoint_ops, purpose>>
    /\ UsesOnlyTheQueue

InVM == {t \in JavaThreads : pc[t] \in {"enqueue", "check", "epilogue"}}

SafepointReached ==
    /\ vpc = "reach" /\ InVM = {}
    /\ safepoint' = "synchronized"
    /\ vpc' = CASE purpose = "operation" -> "eval"
                [] purpose = "exit" -> "terminate"
                [] OTHER -> "end"
    /\ UNCHANGED <<queueVars, cur, safepoint_ops, purpose>>
    /\ UsesOnlyTheQueue

\* Mutant: the operation counts as completed before it is evaluated.
evaluate_CompletedFirst ==
    /\ vpc = "eval"
    /\ done' = done \cup {cur}
    /\ completed' = IF evaluate_concurrently(cur) THEN completed
                    ELSE [completed EXCEPT ![caller[cur]] = @ + 1]
    /\ vpc' = "complete"
    /\ UNCHANGED <<queueVars, cur, safepoint_ops, purpose, safepoint, started,
                   live, callers, exitVars>>

\* evaluate_operation(): evaluate() ...
evaluate ==
    /\ vpc = "eval"
    /\ done' = done \cup {cur}
    /\ vpc' = "complete"
    /\ UNCHANGED <<queueVars, cur, safepoint_ops, purpose, safepoint, counts,
                   live, callers, exitVars>>

\* Mutant: every operation counts as completed, concurrent ones too.
complete_Always ==
    /\ vpc = "complete"
    /\ completed' = [completed EXCEPT ![caller[cur]] = @ + 1]
    /\ live' = IF evaluate_concurrently(cur) THEN live \ {cur} ELSE live
    /\ done' = done \cap live'
    /\ vpc' = IF safepoint = "synchronized" THEN "next" ELSE "notify"
    /\ cur' = IF safepoint = "synchronized" THEN cur ELSE NULL
    /\ UNCHANGED <<queueVars, safepoint_ops, purpose, safepoint, started,
                   callers, exitVars>>

\* ... and then count it as completed, or delete it if it was concurrent.
complete ==
    /\ vpc = "complete"
    /\ completed' = IF evaluate_concurrently(cur) THEN completed
                    ELSE [completed EXCEPT ![caller[cur]] = @ + 1]
    /\ live' = IF evaluate_concurrently(cur) THEN live \ {cur} ELSE live
    /\ done' = done \cap live'
    /\ vpc' = IF safepoint = "synchronized" THEN "next" ELSE "notify"
    /\ cur' = IF safepoint = "synchronized" THEN cur ELSE NULL
    /\ UNCHANGED <<queueVars, safepoint_ops, purpose, safepoint, started,
                   callers, exitVars>>

\* The next drained operation, if any; the rest stays on the drain list.
NextDrained ==
    /\ vpc = "next"
    /\ \/ /\ safepoint_ops # <<>>
          /\ cur' = Head(safepoint_ops)
          /\ safepoint_ops' = Tail(safepoint_ops)
          /\ drain_list' = Tail(safepoint_ops)
          /\ vpc' = "eval"
       \/ /\ safepoint_ops = <<>>
          /\ cur' = NULL
          /\ vpc' = "peek"
          /\ UNCHANGED <<safepoint_ops, drain_list>>
    /\ UNCHANGED <<queue, queue_counter, purpose, safepoint>>
    /\ UsesOnlyTheQueue

\* A look at the queue without its lock.
peek_at_safepoint_priority ==
    /\ vpc = "peek"
    /\ vpc' = IF queue["safepoint"] # <<>> THEN "drain" ELSE "end"
    /\ drain_list' = IF queue["safepoint"] # <<>> THEN drain_list ELSE <<>>
    /\ UNCHANGED <<queue, queue_counter, cur, safepoint_ops, purpose, safepoint>>
    /\ UsesOnlyTheQueue

drain_at_safepoint_priority ==
    /\ vpc = "drain"
    /\ safepoint_ops' = queue["safepoint"]
    /\ queue' = [queue EXCEPT !["safepoint"] = <<>>]
    /\ vpc' = "next"
    /\ UNCHANGED <<queue_counter, drain_list, cur, purpose, safepoint>>
    /\ UsesOnlyTheQueue

EndSafepoint ==
    /\ vpc = "end"
    /\ safepoint' = "none"
    /\ vpc' = CASE purpose = "operation" -> "notify"
                [] purpose = "timeout" -> "retake"
                [] OTHER -> "top"
    /\ purpose' = "operation"
    /\ UNCHANGED <<queueVars, cur, safepoint_ops>>
    /\ UsesOnlyTheQueue

NotifyRequesters ==
    /\ vpc = "notify"
    /\ reqwait' = {}
    /\ vpc' = "interval"
    /\ UNCHANGED <<queueVars, cur, safepoint_ops, purpose, safepoint, counts,
                   objects, pc, op, exitVars>>

\* There has or has not been a safepoint for long enough.
CheckInterval ==
    /\ vpc = "interval"
    /\ \/ vpc' = "top" /\ UNCHANGED purpose
       \/ vpc' = "begin" /\ purpose' = "interval"
    /\ UNCHANGED <<queueVars, cur, safepoint_ops, safepoint>>
    /\ UsesOnlyTheQueue

-----------------------------------------------------------------------------
(* wait_for_vm_thread_exit() and the end of run()                           *)

RequestExit ==
    /\ dpc = "running"
    /\ should_terminate' = TRUE
    /\ NotifyQueue
    /\ dpc' = "check"
    /\ UNCHANGED <<queueVars, cur, safepoint_ops, purpose, safepoint, counts,
                   objects, callers, terminated>>

\* while (!is_terminated()) wait(), under _terminate_lock.
AwaitExit ==
    /\ dpc = "check"
    /\ dpc' = IF terminated THEN "gone" ELSE "wait"
    /\ UNCHANGED <<queueVars, vmVars, counts, objects, callers,
                   should_terminate, terminated>>

\* Mutant: _terminate_lock is not notified.
Terminate_Silent ==
    /\ vpc = "terminate"
    /\ terminated' = TRUE
    /\ vpc' = "halted"
    /\ UNCHANGED <<queueVars, cur, safepoint_ops, purpose, safepoint, counts,
                   objects, callers, should_terminate, dpc>>

\* The VM thread ends in a safepoint that it never leaves.
Terminate ==
    /\ vpc = "terminate"
    /\ terminated' = TRUE
    /\ dpc' = IF dpc = "wait" THEN "check" ELSE dpc
    /\ vpc' = "halted"
    /\ UNCHANGED <<queueVars, cur, safepoint_ops, purpose, safepoint, counts,
                   objects, callers, should_terminate>>

Halted == vpc = "halted" /\ UNCHANGED vars

-----------------------------------------------------------------------------
Execute(t) == add(t) \/ check(t) \/ recheck(t) \/ epilogue(t)

Loop ==
    \/ LoopTop \/ WaitReturns \/ WaitTimesOut
    \/ BeginSafepoint \/ SafepointReached \/ EndSafepoint
    \/ evaluate \/ complete \/ NextDrained
    \/ peek_at_safepoint_priority \/ drain_at_safepoint_priority
    \/ NotifyRequesters \/ CheckInterval \/ Terminate

Next ==
    \/ \E t \in Threads : Execute(t) \/ \E o \in Ops : execute(t, o)
    \/ Loop
    \/ RequestExit \/ AwaitExit
    \/ Halted

\* Threads run.  wait() is not obliged to time out.  SafepointIsReached of
\* Safepoint justifies the strong fairness of reaching a safepoint.
Fairness ==
    /\ \A t \in Threads : WF_vars(Execute(t))
    /\ WF_vars(vpc # "wait" /\ Loop) /\ SF_vars(SafepointReached)
    /\ WF_vars(AwaitExit)

Spec == Init /\ [][Next]_vars
FairSpec == Spec /\ Fairness

-----------------------------------------------------------------------------
Elements(s) == {s[i] : i \in DOMAIN s}
Queued == Elements(queue["safepoint"]) \cup Elements(queue["medium"])
Evaluating == vpc \in {"eval", "complete"}

\* execute() of a blocking operation returns only when the operation has been
\* evaluated and the VM thread has done with it: the ticket is never satisfied
\* by the completion of another operation of the same thread
\* (vmThread.cpp:692).
ReturnsWhenEvaluated ==
    \A t \in Threads : pc[t] = "epilogue" =>
        /\ op[t] \in done
        /\ op[t] \notin Queued \cup Elements(safepoint_ops)
        /\ Evaluating => cur # op[t]

\* Every request is evaluated once, from memory that is still allocated: what
\* the VM thread has queued, drained or is about to evaluate is live and has
\* not been evaluated (vmThread.cpp:413).
EvaluatedOnceWhileLive ==
    /\ Queued \cup Elements(safepoint_ops) \subseteq live \ done
    /\ vpc = "eval" => cur \in live \ done
    /\ Evaluating => cur \in live

\* While an operation is evaluated at a safepoint, oops_do() can reach every
\* other request that has been queued and not evaluated: in the queue or in
\* the drain list (vmThread.cpp:510, 527).
PendingOpsAreScanned ==
    Evaluating /\ safepoint = "synchronized" =>
        \A o \in live \ done :
            \/ o = cur \/ o \in Queued \cup Elements(drain_list)
            \/ pc[caller[o]] = "enqueue" /\ op[caller[o]] = o

\* loop() drains the queue until it finds it empty, and only Java threads are
\* stopped meanwhile, so threads that are not Java threads could keep one
\* safepoint going for ever with new requests (vmThread.cpp:519).  Liveness is
\* for those that do not.
SafepointsEnd == []<>(safepoint = "none" \/ vpc = "halted")

\* t has returned from its wait, or can as soon as it is let run.
Served(t) ==
    \/ pc[t] \in {"idle", "epilogue"}
    \/ pc[t] = "wait" /\ t \notin reqwait /\ completed[t] >= started[t]

\* Every request is served, whatever its priority, unless the VM is destroyed.
EveryRequestIsServed ==
    SafepointsEnd => \A t \in Threads :
        pc[t] = "enqueue" ~> Served(t) \/ should_terminate

\* Who destroys the VM sees the VM thread end.
ExitIsSeen == SafepointsEnd => (should_terminate ~> dpc = "gone")
==============================================================================
