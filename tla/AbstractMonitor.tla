--------------------------- MODULE AbstractMonitor ---------------------------
(***************************************************************************)
(* What a VM monitor promises its callers: a Mesa monitor.  A thread is    *)
(* out, entering, in, or waiting to be notified.                           *)
(***************************************************************************)
CONSTANTS
    Threads,
    MayExpire    \* the threads whose wait() can end without a notification

VARIABLE status

Init == status = [t \in Threads |-> "out"]

Become(t, s) == status' = [status EXCEPT ![t] = s]

Request(t) == status[t] = "out" /\ Become(t, "entering")

Enter(t) ==
    /\ status[t] \in {"out", "entering"}
    /\ \A u \in Threads : status[u] # "in"
    /\ Become(t, "in")

Exit(t) == status[t] = "in" /\ Become(t, "out")

Wait(t) == status[t] = "in" /\ Become(t, "waiting")

Notify(t, u) ==
    /\ status[t] = "in" /\ status[u] = "waiting"
    /\ Become(u, "entering")

Expire(t) == t \in MayExpire /\ status[t] = "waiting" /\ Become(t, "entering")

\* A step changes the status of one thread.  (That it changes one is said first: the
\* steps of an implementation that do not are passed over at once.)
Next ==
    /\ status' # status
    /\ \E t \in Threads :
          \/ Request(t) \/ Enter(t) \/ Exit(t) \/ Wait(t) \/ Expire(t)
          \/ \E u \in Threads : Notify(t, u)

Spec == Init /\ [][Next]_status
==============================================================================
