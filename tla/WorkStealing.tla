---------------------------- MODULE WorkStealing -----------------------------
(***************************************************************************)
(* The workers of a parallel evacuation: each drains its own task queue    *)
(* and overflow stack (G1ParScanThreadState::trim_queue), steals from the  *)
(* others and offers termination to the ParallelTaskTerminator, round      *)
(* after round.                                                            *)
(*                                                                         *)
(* Only the number of tasks in each queue matters.  The queues are those   *)
(* of TaskDeque, which TaskQueue implements.  What peek() answers is not a *)
(* snapshot: it compares _bottom and top with two loads, so for a queue in *)
(* use since the round of peeks began it may answer either way.            *)
(***************************************************************************)
EXTENDS Integers, FiniteSets

CONSTANTS
    Workers,
    Capacity,   \* max_elems() of a task queue
    MaxTasks    \* bound: the tasks of one round

ASSUME WorkStealingAssumption ==
    /\ IsFiniteSet(Workers)
    /\ Capacity \in Nat \ {0} /\ MaxTasks \in Nat

VARIABLES
    active,     \* the workers of this round; _n_threads is their number
    offered,    \* _offered_termination
    queue,      \* the number of tasks in each worker's task queue ...
    overflow,   \* ... and on its overflow stack
    budget,     \* the tasks that processing may still create
    pc,
    ret,        \* where dispatch_reference() returns to
    toPeek,     \* the queues that peek_in_queue_set() has yet to look at
    busy        \* the queues in use when it began

vars == <<active, offered, queue, overflow, budget, pc, ret, toPeek, busy>>
locals == <<ret, toPeek, busy>>

\* In trim_queue(): the worker may push and pop.
TrimLabels == {"overflow", "local", "test", "dispatch"}

\* Between the increment and the decrement of _offered_termination, or out.
OfferLabels == {"spin", "peek", "withdraw", "done"}

Labels == TrimLabels \cup OfferLabels \cup {"steal", "offer", "out"}

\* Every variable has its type; a task queue holds at most max_elems() tasks
\* and _offered_termination is a count.
TypeOK ==
    /\ active \subseteq Workers
    /\ offered \in Nat /\ budget \in Nat
    /\ queue \in [Workers -> 0 .. Capacity]
    /\ overflow \in [Workers -> Nat]
    /\ pc \in [Workers -> Labels]
    /\ ret \in [Workers -> {"overflow", "local"}]
    /\ toPeek \in [Workers -> SUBSET Workers]
    /\ busy \in [Workers -> SUBSET Workers]

\* Nobody works yet.
Init ==
    /\ active = {} /\ offered = 0 /\ budget = 0
    /\ queue = [x \in Workers |-> 0] /\ overflow = [x \in Workers |-> 0]
    /\ pc = [x \in Workers |-> "out"]
    /\ ret = [x \in Workers |-> "overflow"]
    /\ toPeek = [x \in Workers |-> {}] /\ busy = [x \in Workers |-> {}]

Goto(w, l) == pc' = [pc EXCEPT ![w] = l]

-----------------------------------------------------------------------------
\* The gang has finished: reset_for_reuse(active_workers) and the next round,
\* which finds its first tasks (the roots) as it dispatches.
reset_for_reuse(n) ==
    /\ n # {} /\ \A w \in active : pc[w] = "done"
    /\ active' = n
    /\ offered' = 0
    /\ budget' = MaxTasks
    /\ pc' = [x \in Workers |-> IF x \in n THEN "dispatch" ELSE "out"]
    /\ UNCHANGED <<queue, overflow, locals>>

\* OverflowTaskQueue::push: onto the overflow stack when the queue is full.
push(w) ==
    /\ queue' = [queue EXCEPT ![w] = IF @ < Capacity THEN @ + 1 ELSE @]
    /\ overflow' = [overflow EXCEPT ![w] =
                      IF queue[w] < Capacity THEN @ ELSE @ + 1]

\* dispatch_reference() pushes what it finds ...
dispatch_push(w) ==
    /\ pc[w] = "dispatch" /\ budget > 0
    /\ budget' = budget - 1
    /\ push(w)
    /\ UNCHANGED <<active, offered, pc, locals>>

\* ... and returns.
dispatch_return(w) ==
    /\ pc[w] = "dispatch"
    /\ Goto(w, ret[w])
    /\ ret' = [ret EXCEPT ![w] = "overflow"]
    /\ UNCHANGED <<active, offered, queue, overflow, budget, toPeek, busy>>

\* while (pop_overflow(ref)): back to the task queue, where others can steal
\* it, or dispatched when that is full.
trim_overflow(w) ==
    /\ pc[w] = "overflow" /\ overflow[w] > 0
    /\ overflow' = [overflow EXCEPT ![w] = @ - 1]
    /\ queue' = [queue EXCEPT ![w] = IF @ < Capacity THEN @ + 1 ELSE @]
    /\ Goto(w, IF queue[w] < Capacity THEN "overflow" ELSE "dispatch")
    /\ UNCHANGED <<active, offered, budget, locals>>

trim_overflow_end(w) ==
    /\ pc[w] = "overflow" /\ overflow[w] = 0
    /\ Goto(w, "local")
    /\ UNCHANGED <<active, offered, queue, overflow, budget, locals>>

\* while (pop_local(ref)) dispatch_reference(ref).
trim_local(w) ==
    /\ pc[w] = "local" /\ queue[w] > 0
    /\ queue' = [queue EXCEPT ![w] = @ - 1]
    /\ ret' = [ret EXCEPT ![w] = "local"]
    /\ Goto(w, "dispatch")
    /\ UNCHANGED <<active, offered, overflow, budget, toPeek, busy>>

trim_local_end(w) ==
    /\ pc[w] = "local" /\ queue[w] = 0
    /\ Goto(w, "test")
    /\ UNCHANGED <<active, offered, queue, overflow, budget, locals>>

\* Mutant: the overflow stack is not part of is_empty().
is_empty_QueueOnly(w) == queue[w] = 0

is_empty(w) == queue[w] = 0 /\ overflow[w] = 0

\* while (!_refs->is_empty()).
trim_test(w) ==
    /\ pc[w] = "test"
    /\ Goto(w, IF is_empty(w) THEN "steal" ELSE "overflow")
    /\ UNCHANGED <<active, offered, queue, overflow, budget, locals>>

\* steal() finds a task in some other queue ...
steal(w) ==
    /\ pc[w] = "steal"
    /\ \E v \in Workers \ {w} :
         queue[v] > 0 /\ queue' = [queue EXCEPT ![v] = @ - 1]
    /\ Goto(w, "dispatch")
    /\ UNCHANGED <<active, offered, overflow, budget, locals>>

\* ... or gives up: it tries a few queues at random and may lose every race.
steal_fails(w) ==
    /\ pc[w] = "steal"
    /\ Goto(w, "offer")
    /\ UNCHANGED <<active, offered, queue, overflow, budget, locals>>

\* offer_termination(): Atomic::inc(&_offered_termination).
offer_termination(w) ==
    /\ pc[w] = "offer"
    /\ offered' = offered + 1
    /\ Goto(w, "spin")
    /\ UNCHANGED <<active, queue, overflow, budget, locals>>

\* Are all threads offering termination?
offer_all(w) ==
    /\ pc[w] = "spin" /\ offered = Cardinality(active)
    /\ Goto(w, "done")
    /\ UNCHANGED <<active, offered, queue, overflow, budget, locals>>

InUse(v) == queue[v] > 0 \/ pc[v] \in TrimLabels

\* If not, peek_in_queue_set() starts to look for work.
offer_peek(w) ==
    /\ pc[w] = "spin" /\ offered # Cardinality(active)
    /\ toPeek' = [toPeek EXCEPT ![w] = Workers]
    /\ busy' = [busy EXCEPT ![w] = {v \in Workers : InUse(v)}]
    /\ Goto(w, "peek")
    /\ UNCHANGED <<active, offered, queue, overflow, budget, ret>>

\* peek() of one queue is true ...
peek_true(w) ==
    /\ pc[w] = "peek"
    /\ \E v \in toPeek[w] : v \in busy[w] \/ InUse(v)
    /\ toPeek' = [toPeek EXCEPT ![w] = {}]
    /\ busy' = [busy EXCEPT ![w] = {}]
    /\ Goto(w, "withdraw")
    /\ UNCHANGED <<active, offered, queue, overflow, budget, ret>>

\* ... or false.
peek_false(w) ==
    /\ pc[w] = "peek"
    /\ \E v \in toPeek[w] :
         /\ queue[v] > 0 => v \in busy[w] \/ pc[v] \in TrimLabels
         /\ toPeek' = [toPeek EXCEPT ![w] = @ \ {v}]
    /\ UNCHANGED <<active, offered, queue, overflow, budget, pc, ret, busy>>

\* Mutant: the queues are watched and the offers are not.
peek_end_NoResample(w) ==
    /\ pc[w] = "peek" /\ toPeek[w] = {}
    /\ busy' = [busy EXCEPT ![w] = {v \in Workers : InUse(v)}]
    /\ toPeek' = [toPeek EXCEPT ![w] = Workers]
    /\ UNCHANGED <<active, offered, queue, overflow, budget, pc, ret>>

\* No queue has work: sample _offered_termination again.
peek_end(w) ==
    /\ pc[w] = "peek" /\ toPeek[w] = {}
    /\ busy' = [busy EXCEPT ![w] = {}]
    /\ Goto(w, "spin")
    /\ UNCHANGED <<active, offered, queue, overflow, budget, ret, toPeek>>

\* Atomic::dec(&_offered_termination), return false: back to steal().
offer_withdraw(w) ==
    /\ pc[w] = "withdraw"
    /\ offered' = offered - 1
    /\ Goto(w, "steal")
    /\ UNCHANGED <<active, queue, overflow, budget, locals>>

Step(w) ==
    \/ dispatch_push(w) \/ dispatch_return(w)
    \/ trim_overflow(w) \/ trim_overflow_end(w)
    \/ trim_local(w) \/ trim_local_end(w) \/ trim_test(w)
    \/ steal(w) \/ steal_fails(w)
    \/ offer_termination(w) \/ offer_all(w) \/ offer_peek(w)
    \/ peek_true(w) \/ peek_false(w) \/ peek_end(w) \/ offer_withdraw(w)

Next ==
    \/ \E n \in SUBSET Workers : reset_for_reuse(n)
    \/ \E w \in Workers : Step(w)

\* Every worker thread runs.
Fairness == \A w \in Workers : WF_vars(Step(w))

Spec == Init /\ [][Next]_vars
FairSpec == Spec /\ Fairness

-----------------------------------------------------------------------------
Offering == {w \in Workers : pc[w] \in OfferLabels}

\* _offered_termination is exactly the number of workers inside
\* offer_termination() or through with it: it never exceeds _n_threads, is
\* below it before each increment (taskqueue.cpp:155), and is _n_threads when
\* reset_for_reuse() is called (taskqueue.cpp:253-256).
OffersCounted == Offering \subseteq active /\ offered = Cardinality(Offering)

\* When offer_termination() has returned true to one worker there is no task
\* left in any queue, on any overflow stack or in any worker's hands; a worker
\* that still answers a stale peek will find nothing.
TerminationMeansDone ==
    (\E w \in Workers : pc[w] = "done") =>
        \A v \in Workers : /\ queue[v] = 0 /\ overflow[v] = 0
                           /\ pc[v] \notin TrimLabels

\* Every worker of a round gets out of the terminator.
EveryoneTerminates ==
    \A w \in Workers : pc[w] = "dispatch" ~> pc[w] = "done"
=============================================================================
