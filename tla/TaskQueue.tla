----------------------------- MODULE TaskQueue ------------------------------
(***************************************************************************)
(* GenericTaskQueue of utilities/taskqueue.hpp, the work-stealing deque of *)
(* the parallel collectors: a ring of N elements, _bottom that only the    *)
(* owner moves, and the word _age that holds the index top and a tag.      *)
(*                                                                         *)
(* The memory is that of x86 (total store order), which the missing fence  *)
(* of pop_global() on IA32 and AMD64 relies on: the owner's stores go      *)
(* through a FIFO buffer that a fence and a compare-and-swap wait for, and *)
(* its loads see its own buffered stores.  Thieves only store with a       *)
(* compare-and-swap.                                                       *)
(*                                                                         *)
(* The k-th task pushed is the number k.                                   *)
(***************************************************************************)
EXTENDS Integers, Sequences, FiniteSetsExt

CONSTANTS
    N,               \* total_size(): a power of two
    TagRange,        \* the number of values of the tag: 2^32, or 2^16
    Thieves,
    MaxPush,         \* bound: the number of tasks pushed
    StoreBufferSize  \* bound: the owner's stores that are pending

ASSUME TaskQueueAssumption ==
    /\ N \in Nat \ 0 .. 2 /\ TagRange \in Nat \ {0}
    /\ MaxPush \in Nat /\ StoreBufferSize \in Nat \ 0 .. 1

VARIABLES
    bottom, age, elems,      \* _bottom, _age, _elems in memory
    buffer,                  \* the owner's pending stores, oldest first
    opc, localBot, ownerAge, \* the owner in pop_local()
    tpc, oldAge, element,    \* each thief in pop_global()
    pushed, taken            \* how many tasks were pushed, how often each taken

memory     == <<bottom, age, elems>>
ownerVars  == <<opc, localBot, ownerAge>>
thiefVars  == <<tpc, oldAge, element>>
history    == <<pushed, taken>>
vars == <<memory, buffer, ownerVars, thiefVars, history>>

Task  == 1 .. MaxPush
Index == 0 .. N - 1
Age   == [top : Index, tag : 0 .. TagRange - 1]
Zero  == [top |-> 0, tag |-> 0]

\* A store: the variable, the index if it is an element, and the value.
Store(var, i, v) == [to |-> var, at |-> i, val |-> v]

\* Indices and the tag stay in their range, and the owner only waits with a
\* store of _bottom pending.
TypeOK ==
    /\ bottom \in Index /\ age \in Age /\ elems \in [Index -> Task \cup {0}]
    /\ Len(buffer) <= StoreBufferSize
    /\ \A k \in DOMAIN buffer : LET s == buffer[k]
                               IN  \/ s.to = "_bottom" /\ s.val \in Index
                                   \/ s.to = "_age" /\ s.val \in Age
                                   \/ s.to = "_elems" /\ s.val \in Task
    /\ opc \in {"idle", "fence", "slow", "cas"}
    /\ localBot \in Index /\ ownerAge \in Age
    /\ tpc \in [Thieves -> {"idle", "bottom", "elem", "cas"}]
    /\ oldAge \in [Thieves -> Age] /\ element \in [Thieves -> Task \cup {0}]
    /\ pushed \in 0 .. MaxPush /\ taken \in [Task -> Nat]
    /\ opc \in {"slow", "cas"} => buffer = <<>>

-----------------------------------------------------------------------------
increment_index(i) == (i + 1) % N
decrement_index(i) == (i - 1) % N
dirty_size(bot, top) == (bot - top) % N

size(bot, top) ==
    IF dirty_size(bot, top) = N - 1 THEN 0 ELSE dirty_size(bot, top)

max_elems == N - 2

\* Age::increment: the tag moves when top wraps.
increment(a) ==
    LET top == increment_index(a.top)
    IN  [top |-> top,
         tag |-> IF top = 0 THEN (a.tag + 1) % TagRange ELSE a.tag]

\* Mutant: the tag stays when the owner takes the last task.
EmptyAge_SameTag(bot, a) == [top |-> bot, tag |-> a.tag]

\* newAge of pop_local_slow: the empty queue at bot.
EmptyAge(bot, a) == [top |-> bot, tag |-> (a.tag + 1) % TagRange]

\* What the owner reads from a variable: its own last pending store, if any.
Own(var, mem) ==
    LET mine == {i \in DOMAIN buffer : buffer[i].to = var}
    IN  IF mine = {} THEN mem ELSE buffer[Max(mine)].val
OwnBottom == Own("_bottom", bottom)
OwnAge    == Own("_age", age)

Pend(stores) ==
    /\ Len(buffer) + Len(stores) <= StoreBufferSize
    /\ buffer' = buffer \o stores

\* The oldest pending store reaches memory.
Drain ==
    /\ buffer # <<>>
    /\ LET s == Head(buffer)
       IN  /\ bottom' = IF s.to = "_bottom" THEN s.val ELSE bottom
           /\ age' = IF s.to = "_age" THEN s.val ELSE age
           /\ elems' = IF s.to = "_elems" THEN [elems EXCEPT ![s.at] = s.val]
                                           ELSE elems
    /\ buffer' = Tail(buffer)
    /\ UNCHANGED <<ownerVars, thiefVars, history>>

Take(t) == taken' = [taken EXCEPT ![t] = @ + 1]

-----------------------------------------------------------------------------
(* The owner.                                                              *)

Init ==
    /\ bottom = 0 /\ age = Zero /\ elems = [i \in Index |-> 0]
    /\ buffer = <<>>
    /\ opc = "idle" /\ localBot = 0 /\ ownerAge = Zero
    /\ tpc = [h \in Thieves |-> "idle"]
    /\ oldAge = [h \in Thieves |-> Zero]
    /\ element = [h \in Thieves |-> 0]
    /\ pushed = 0 /\ taken = [t \in Task |-> 0]

\* push() and push_slow(): the element, then _bottom.  A full queue refuses
\* the task, which changes nothing.
push ==
    /\ opc = "idle" /\ pushed < MaxPush
    /\ LET n == dirty_size(OwnBottom, OwnAge.top)
       IN  n < max_elems \/ n = N - 1
    /\ Pend(<<Store("_elems", OwnBottom, pushed + 1),
              Store("_bottom", 0, increment_index(OwnBottom))>>)
    /\ pushed' = pushed + 1
    /\ UNCHANGED <<memory, ownerVars, thiefVars, taken>>

\* pop_local() up to its fence; an empty queue returns false and changes
\* nothing.
pop_local ==
    /\ opc = "idle"
    /\ dirty_size(OwnBottom, OwnAge.top) # 0
    /\ localBot' = decrement_index(OwnBottom)
    /\ Pend(<<Store("_bottom", 0, localBot')>>)
    /\ opc' = "fence"
    /\ UNCHANGED <<memory, ownerAge, thiefVars, history>>

Return == opc' = "idle" /\ localBot' = 0 /\ ownerAge' = Zero

\* Mutant: no fence.
pop_local_fenced_NoFence ==
    /\ opc = "fence"
    /\ IF size(localBot, OwnAge.top) > 0
       THEN Take(elems[localBot]) /\ Return
       ELSE opc' = "slow" /\ UNCHANGED <<taken, localBot, ownerAge>>
    /\ UNCHANGED <<memory, buffer, thiefVars, pushed>>

\* After the fence: read the element and top again.
pop_local_fenced ==
    /\ opc = "fence" /\ buffer = <<>>
    /\ IF size(localBot, age.top) > 0
       THEN Take(elems[localBot]) /\ Return
       ELSE opc' = "slow" /\ UNCHANGED <<taken, localBot, ownerAge>>
    /\ UNCHANGED <<memory, buffer, thiefVars, pushed>>

\* Lost to a thief: store the canonical empty queue, return false.
Lose(a) ==
    /\ Pend(<<Store("_age", 0, EmptyAge(localBot, a))>>)
    /\ Return
    /\ UNCHANGED <<memory, thiefVars, history>>

\* pop_local_slow(): the last task, if no thief has moved top yet.
pop_local_slow ==
    /\ opc = "slow"
    /\ \/ /\ localBot = age.top
          /\ opc' = "cas" /\ ownerAge' = age
          /\ UNCHANGED <<memory, buffer, localBot, thiefVars, history>>
       \/ /\ localBot # age.top
          /\ Lose(age)

\* ... and its compare-and-swap.
pop_local_cas ==
    /\ opc = "cas"
    /\ \/ /\ age = ownerAge
          /\ age' = EmptyAge(localBot, ownerAge)
          /\ Take(elems[localBot]) /\ Return
          /\ UNCHANGED <<bottom, elems, buffer, thiefVars, pushed>>
       \/ /\ age # ownerAge
          /\ Lose(ownerAge)

-----------------------------------------------------------------------------
(* A thief.                                                                *)

ThiefAt(h, l) == tpc[h] = l
ThiefGoto(h, l) == tpc' = [tpc EXCEPT ![h] = l]

ThiefReturn(h) ==
    /\ ThiefGoto(h, "idle")
    /\ oldAge' = [oldAge EXCEPT ![h] = Zero]
    /\ element' = [element EXCEPT ![h] = 0]

\* pop_global() reads _age ...
pop_global(h) ==
    /\ ThiefAt(h, "idle")
    /\ oldAge' = [oldAge EXCEPT ![h] = age]
    /\ ThiefGoto(h, "bottom")
    /\ UNCHANGED <<memory, buffer, ownerVars, element, history>>

\* ... then _bottom, and returns false if the queue looks empty ...
pop_global_bottom(h) ==
    /\ ThiefAt(h, "bottom")
    /\ IF size(bottom, oldAge[h].top) = 0
       THEN ThiefReturn(h)
       ELSE ThiefGoto(h, "elem") /\ UNCHANGED <<oldAge, element>>
    /\ UNCHANGED <<memory, buffer, ownerVars, history>>

\* ... then the element ...
pop_global_elem(h) ==
    /\ ThiefAt(h, "elem")
    /\ element' = [element EXCEPT ![h] = elems[oldAge[h].top]]
    /\ ThiefGoto(h, "cas")
    /\ UNCHANGED <<memory, buffer, ownerVars, oldAge, history>>

\* ... and claims it by moving top.
pop_global_cas(h) ==
    /\ ThiefAt(h, "cas")
    /\ IF age = oldAge[h]
       THEN age' = increment(oldAge[h]) /\ Take(element[h])
       ELSE UNCHANGED <<age, taken>>
    /\ ThiefReturn(h)
    /\ UNCHANGED <<bottom, elems, buffer, ownerVars, pushed>>

Next ==
    \/ Drain
    \/ push \/ pop_local \/ pop_local_fenced \/ pop_local_slow \/ pop_local_cas
    \/ \E h \in Thieves : \/ pop_global(h) \/ pop_global_bottom(h)
                          \/ pop_global_elem(h) \/ pop_global_cas(h)

Spec == Init /\ [][Next]_vars

-----------------------------------------------------------------------------
\* The tasks pushed and not handed out, oldest first.
Pending == SelectSeq([k \in 1 .. pushed |-> k], LAMBDA t : taken[t] = 0)

Deque == INSTANCE TaskDeque WITH deque <- Pending

\* Whatever the owner and the thieves do at once, every task is handed out
\* exactly once, push() overwrites none, pop_local() takes the newest and
\* pop_global() the oldest (taskqueue.hpp:299-312).
ImplementsTaskDeque == Deque!Spec

\* pop_local() returns false only on an empty queue: at once when top is
\* _bottom, and after it lost the last task to a thief.  So a worker that
\* found its queue empty has no task left in it.
LocalFailureMeansEmpty ==
    [][/\ opc = "idle" => dirty_size(OwnBottom, OwnAge.top) = Len(Pending)
       /\ opc \in {"slow", "cas"} /\ opc' = "idle" /\ taken' = taken
            => Pending = <<>>]_vars
=============================================================================
