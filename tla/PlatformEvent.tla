--------------------------- MODULE PlatformEvent ----------------------------
(***************************************************************************)
(* os::PlatformEvent of the Linux port (src/src/os/linux/vm/os_linux.cpp): *)
(* the park-unpark primitive under every ParkEvent.  One thread, the       *)
(* owner, parks; any other thread unparks.  _Event is changed without the  *)
(* mutex by park's CAS and unpark's xchg, and under the mutex by the tail  *)
(* of park, which is where the races are.                                  *)
(***************************************************************************)
EXTENDS Integers

CONSTANTS Owner,                        \* the thread the event belongs to
          Unparkers,                    \* threads that call unpark()
          NoThread                      \* the mutex is free

ASSUME PlatformEventAssumption ==
  /\ Owner \notin Unparkers
  /\ NoThread \notin Unparkers \cup {Owner}

VARIABLES WorkAroundNPTLTimedWaitHang,  \* -XX flags, fixed when the VM starts
          FilterSpuriousWakeups,        \* (both are on by default)
          Event,       \* _Event: -1 owner blocking, 0 neutral, 1 permit
          nParked,     \* _nParked
          mutex,       \* thread that holds _mutex, or NoThread
          condValid,   \* _cond is initialised (FALSE between destroy and init)
          opc,         \* where the owner is
          timed,       \* the owner is in park(millis)
          upc,         \* where each unparker is
          AnyWaiters   \* unpark's local of that name

flags       == <<WorkAroundNPTLTimedWaitHang, FilterSpuriousWakeups>>
ownerVars   == <<opc, timed>>
unparkVars  == <<upc, AnyWaiters>>
vars == <<flags, Event, nParked, mutex, condValid, opc, timed, upc, AnyWaiters>>

OwnerPCs  == {"run", "lock", "test", "sleep", "cond", "woken", "expired",
              "reinit", "leave", "clear"}
UnparkPCs == {"idle", "lock", "sigLocked", "unlock", "signal"}

Init ==
  /\ WorkAroundNPTLTimedWaitHang \in BOOLEAN
  /\ FilterSpuriousWakeups \in BOOLEAN
  /\ Event = 0 /\ nParked = 0 /\ mutex = NoThread /\ condValid = TRUE
  /\ opc = "run" /\ timed = FALSE
  /\ upc = [u \in Unparkers |-> "idle"]
  /\ AnyWaiters = [u \in Unparkers |-> 0]

-----------------------------------------------------------------------------
(* The owner.                                                              *)

\* reset() stores 0; TryPark()'s CAS loop test-and-clears.  Only the owner
\* calls them, and not while parked.
ResetOrTryPark ==
  /\ opc = "run"
  /\ Event' = 0
  /\ UNCHANGED <<flags, nParked, mutex, condValid, ownerVars, unparkVars>>

\* The CAS loop that opens both forms of park: decrement, and return at once
\* when a permit was there.
ParkDecrement(millis) ==
  /\ opc = "run"
  /\ Event' = Event - 1
  /\ IF Event = 0 THEN opc' = "lock" /\ timed' = millis
                  ELSE UNCHANGED ownerVars
  /\ UNCHANGED <<flags, nParked, mutex, condValid, unparkVars>>

\* pthread_mutex_lock, then ++_nParked.
ParkLock ==
  /\ opc = "lock" /\ mutex = NoThread
  /\ mutex' = Owner
  /\ nParked' = nParked + 1
  /\ opc' = "test"
  /\ UNCHANGED <<flags, Event, condValid, timed, unparkVars>>

\* while (_Event < 0): the test, under the mutex.
ParkTest ==
  /\ opc = "test"
  /\ opc' = IF Event < 0 THEN "sleep" ELSE "leave"
  /\ UNCHANGED <<flags, Event, nParked, mutex, condValid, timed, unparkVars>>

\* pthread_cond_wait drops the mutex as the owner starts to sleep.
CondWait ==
  /\ opc = "sleep"
  /\ opc' = "cond" /\ mutex' = NoThread
  /\ UNCHANGED <<flags, Event, nParked, condValid, timed, unparkVars>>

\* cond_wait returns without a signal (POSIX allows it).
SpuriousWakeup ==
  /\ opc = "cond"
  /\ opc' = "woken"
  /\ UNCHANGED <<flags, Event, nParked, mutex, condValid, timed, unparkVars>>

\* safe_cond_timedwait returns ETIMEDOUT.
Expire ==
  /\ opc = "cond" /\ timed
  /\ opc' = "expired"
  /\ UNCHANGED <<flags, Event, nParked, mutex, condValid, timed, unparkVars>>

\* cond_wait reacquires the mutex before it returns.  A signalled or spurious
\* return re-tests _Event, unless FilterSpuriousWakeups is off in park(millis);
\* an expired one leaves the loop, by way of destroying _cond when
\* WorkAroundNPTLTimedWaitHang is on.
CondReacquire ==
  /\ opc \in {"woken", "expired"} /\ mutex = NoThread
  /\ mutex' = Owner
  /\ IF opc = "woken"
     THEN /\ opc' = IF timed /\ ~FilterSpuriousWakeups THEN "leave" ELSE "test"
          /\ UNCHANGED condValid
     ELSE IF WorkAroundNPTLTimedWaitHang
          THEN opc' = "reinit" /\ condValid' = FALSE
          ELSE opc' = "leave" /\ UNCHANGED condValid
  /\ UNCHANGED <<flags, Event, nParked, timed, unparkVars>>

\* pthread_cond_init after the pthread_cond_destroy.
CondReinit ==
  /\ opc = "reinit"
  /\ condValid' = TRUE /\ opc' = "leave"
  /\ UNCHANGED <<flags, Event, nParked, mutex, timed, unparkVars>>

\* --_nParked; park(millis) also fixes its result here, from _Event >= 0.
ParkLeave ==
  /\ opc = "leave"
  /\ nParked' = nParked - 1
  /\ opc' = "clear"
  /\ UNCHANGED <<flags, Event, mutex, condValid, timed, unparkVars>>

\* Mutant: a permit is left for the next park().
ParkClear_KeepPermit ==
  /\ opc = "clear"
  /\ Event' = IF Event < 0 THEN 0 ELSE Event
  /\ mutex' = NoThread
  /\ opc' = "run" /\ timed' = FALSE
  /\ UNCHANGED <<flags, nParked, condValid, unparkVars>>

\* _Event = 0, unlock, return.
ParkClear ==
  /\ opc = "clear"
  /\ Event' = 0
  /\ mutex' = NoThread
  /\ opc' = "run" /\ timed' = FALSE
  /\ UNCHANGED <<flags, nParked, condValid, unparkVars>>

-----------------------------------------------------------------------------
(* An unparker.                                                            *)

\* pthread_cond_signal (external): wakes the owner if it sleeps.
CondSignal == opc' = IF opc = "cond" THEN "woken" ELSE opc

\* xchg(1, &_Event); done unless the owner was blocking.
UnparkXchg(u) ==
  /\ upc[u] = "idle"
  /\ Event' = 1
  /\ upc' = [upc EXCEPT ![u] = IF Event >= 0 THEN "idle" ELSE "lock"]
  /\ UNCHANGED <<flags, nParked, mutex, condValid, ownerVars, AnyWaiters>>

\* Mutant: _nParked is sampled without the mutex.
UnparkLock_NoMutex(u) ==
  /\ upc[u] = "lock"
  /\ AnyWaiters' = [AnyWaiters EXCEPT ![u] = nParked]
  /\ upc' = [upc EXCEPT ![u] = "signal"]
  /\ UNCHANGED <<flags, Event, nParked, mutex, condValid, ownerVars>>

\* Mutant: the signal is always sent after the mutex is dropped.
UnparkLock_SignalLate(u) ==
  /\ upc[u] = "lock" /\ mutex = NoThread
  /\ mutex' = u
  /\ AnyWaiters' = [AnyWaiters EXCEPT ![u] = nParked]
  /\ upc' = [upc EXCEPT ![u] = "unlock"]
  /\ UNCHANGED <<flags, Event, nParked, condValid, ownerVars>>

\* Lock the mutex, "wait for the thread associated with the event to vacate",
\* and sample _nParked; with the work-around the signal is sent from inside.
UnparkLock(u) ==
  /\ upc[u] = "lock" /\ mutex = NoThread
  /\ mutex' = u
  /\ LET early == nParked # 0 /\ WorkAroundNPTLTimedWaitHang
     IN  /\ AnyWaiters' = [AnyWaiters EXCEPT ![u] = IF early THEN 0 ELSE nParked]
         /\ upc' = [upc EXCEPT ![u] = IF early THEN "sigLocked" ELSE "unlock"]
  /\ UNCHANGED <<flags, Event, nParked, condValid, ownerVars>>

UnparkSignalLocked(u) ==
  /\ upc[u] = "sigLocked"
  /\ CondSignal
  /\ upc' = [upc EXCEPT ![u] = "unlock"]
  /\ UNCHANGED <<flags, Event, nParked, mutex, condValid, timed, AnyWaiters>>

\* Unlock; a signal still owed is sent after dropping the mutex.
UnparkUnlock(u) ==
  /\ upc[u] = "unlock"
  /\ mutex' = NoThread
  /\ upc' = [upc EXCEPT ![u] = IF AnyWaiters[u] # 0 THEN "signal" ELSE "idle"]
  /\ UNCHANGED <<flags, Event, nParked, condValid, ownerVars, AnyWaiters>>

UnparkSignal(u) ==
  /\ upc[u] = "signal"
  /\ CondSignal
  /\ upc' = [upc EXCEPT ![u] = "idle"]
  /\ AnyWaiters' = [AnyWaiters EXCEPT ![u] = 0]
  /\ UNCHANGED <<flags, Event, nParked, mutex, condValid, timed>>

-----------------------------------------------------------------------------
\* The rest of a park that has begun, and of an unpark that has begun.
ParkProgress == ParkLock \/ ParkTest \/ CondWait \/ CondReacquire \/ CondReinit
                \/ ParkLeave \/ ParkClear

UnparkProgress(u) == UnparkLock(u) \/ UnparkSignalLocked(u)
                     \/ UnparkUnlock(u) \/ UnparkSignal(u)

Next ==
  \/ ResetOrTryPark
  \/ \E millis \in BOOLEAN : ParkDecrement(millis)
  \/ ParkProgress
  \/ SpuriousWakeup
  \/ Expire
  \/ \E u \in Unparkers : UnparkXchg(u) \/ UnparkProgress(u)

\* The kernel schedules every runnable thread; nobody is obliged to call park
\* or unpark, and neither a timeout nor a spurious wakeup is promised.
Fairness ==
  /\ WF_vars(ParkProgress)
  /\ \A u \in Unparkers : WF_vars(UnparkProgress(u))

Spec == Init /\ [][Next]_vars /\ Fairness

-----------------------------------------------------------------------------
Parked == opc # "run"

\* Nobody signals the condition variable while park(millis) has it destroyed
\* and not yet initialised again: with the work-around every cond_signal is
\* sent under the mutex (os_linux.cpp:5911-5917), without it _cond is never
\* destroyed.
SignalsOnValidCond ==
  ~condValid => \A u \in Unparkers : upc[u] \notin {"sigLocked", "signal"}

\* No lost wakeup: an owner that sleeps although _Event is no longer negative
\* has an unparker on its way to signal it.
NoLostWakeup ==
  opc = "cond" /\ Event >= 0 =>
    \E u \in Unparkers : \/ upc[u] \in {"lock", "sigLocked"}
                         \/ upc[u] \in {"unlock", "signal"} /\ AnyWaiters[u] # 0

\* The permit semantics the monitors rely on: _Event = 1 is the permit, the
\* owner blocks from its CAS to the final store of 0.  With the filter off a
\* timed park may also give up on a spurious wakeup.
PP == INSTANCE ParkPermit WITH permit <- Event = 1, parked <- Parked

\* PlatformEvent implements ParkPermit, its liveness included.
ImplementsParkPermit == PP!Spec
=============================================================================
