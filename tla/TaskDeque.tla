----------------------------- MODULE TaskDeque ------------------------------
(***************************************************************************)
(* What a task queue promises to the workers of a parallel collection      *)
(* (taskqueue.hpp:238-248, 294-312): its owner pushes and pops tasks at    *)
(* one end, other threads take them from the other end, and every task is  *)
(* handed out exactly once.                                                *)
(***************************************************************************)
EXTENDS Naturals, Sequences

CONSTANT Task

VARIABLES deque,   \* the tasks in the queue, oldest first
          taken    \* how often each task has been handed out

vars == <<deque, taken>>

Init == deque = <<>> /\ taken = [t \in Task |-> 0]

Give(t) == taken' = [taken EXCEPT ![t] = @ + 1]

Push ==
    /\ \E t \in Task : deque' = Append(deque, t)
    /\ UNCHANGED taken

PopLocal ==
    /\ deque # <<>>
    /\ Give(deque[Len(deque)])
    /\ deque' = SubSeq(deque, 1, Len(deque) - 1)

PopGlobal ==
    /\ deque # <<>>
    /\ Give(Head(deque))
    /\ deque' = Tail(deque)

Next == Push \/ PopLocal \/ PopGlobal

Spec == Init /\ [][Next]_vars
=============================================================================
