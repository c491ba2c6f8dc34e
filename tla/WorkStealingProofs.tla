------------------------ MODULE WorkStealingProofs ------------------------
(***************************************************************************)
(* Termination of a parallel evacuation: theorems about WorkStealing for   *)
(* every finite set of workers, queue capacity and amount of work.         *)
(***************************************************************************)
EXTENDS WorkStealing, FiniteSetTheorems, TLAPS

\* A worker outside trim_queue() has nothing in its queue or on its overflow
\* stack, so nobody can steal from it.
IdleIsEmpty ==
    \A v \in Workers :
        pc[v] \notin TrimLabels => queue[v] = 0 /\ overflow[v] = 0

\* Who takes part in the round.
ActiveInv == \A v \in Workers : v \in active <=> pc[v] # "out"

\* Once one worker is out, all are outside trim_queue().
DoneInv ==
    (\E v \in Workers : pc[v] = "done") =>
        \A v \in Workers : pc[v] \notin TrimLabels

IInv == TypeOK /\ IdleIsEmpty /\ ActiveInv /\ OffersCounted /\ DoneInv

\* Every step keeps the types; an offer that is withdrawn was counted.
LEMMA TypeOKNext ==
    ASSUME IInv, offered' \in Nat, [Next]_vars
    PROVE  TypeOK'
<1> USE WorkStealingAssumption DEF IInv, TypeOK, Labels, TrimLabels,
        OfferLabels, Goto, locals
<1>1. ASSUME NEW n \in SUBSET Workers, reset_for_reuse(n) PROVE TypeOK'
  BY <1>1 DEF reset_for_reuse
<1>2. ASSUME NEW w \in Workers, dispatch_push(w) PROVE TypeOK'
  BY <1>2 DEF dispatch_push, push
<1>3. ASSUME NEW w \in Workers, dispatch_return(w) PROVE TypeOK'
  BY <1>3 DEF dispatch_return
<1>4. ASSUME NEW w \in Workers, trim_overflow(w) PROVE TypeOK'
  BY <1>4 DEF trim_overflow
<1>5. ASSUME NEW w \in Workers, trim_overflow_end(w) PROVE TypeOK'
  BY <1>5 DEF trim_overflow_end
<1>6. ASSUME NEW w \in Workers, trim_local(w) PROVE TypeOK'
  BY <1>6 DEF trim_local
<1>7. ASSUME NEW w \in Workers, trim_local_end(w) PROVE TypeOK'
  BY <1>7 DEF trim_local_end
<1>8. ASSUME NEW w \in Workers, trim_test(w) PROVE TypeOK'
  BY <1>8 DEF trim_test, is_empty
<1>9. ASSUME NEW w \in Workers, steal(w) PROVE TypeOK'
  BY <1>9 DEF steal
<1>10. ASSUME NEW w \in Workers, steal_fails(w) PROVE TypeOK'
  BY <1>10 DEF steal_fails
<1>11. ASSUME NEW w \in Workers, offer_termination(w) PROVE TypeOK'
  BY <1>11 DEF offer_termination
<1>12. ASSUME NEW w \in Workers, offer_all(w) PROVE TypeOK'
  BY <1>12 DEF offer_all
<1>13. ASSUME NEW w \in Workers, offer_peek(w) PROVE TypeOK'
  BY <1>13 DEF offer_peek, InUse
<1>14. ASSUME NEW w \in Workers, peek_true(w) PROVE TypeOK'
  BY <1>14 DEF peek_true, InUse
<1>15. ASSUME NEW w \in Workers, peek_false(w) PROVE TypeOK'
  BY <1>15 DEF peek_false
<1>16. ASSUME NEW w \in Workers, peek_end(w) PROVE TypeOK'
  BY <1>16 DEF peek_end
<1>17. ASSUME NEW w \in Workers, offer_withdraw(w) PROVE TypeOK'
  BY <1>17 DEF offer_withdraw
<1>18. CASE UNCHANGED vars
  BY <1>18 DEF vars
<1> HIDE DEF IInv, TypeOK, Labels, TrimLabels, OfferLabels, Goto, locals
<1> QED
    BY <1>1, <1>2, <1>3, <1>4, <1>5, <1>6, <1>7, <1>8, <1>9, <1>10, <1>11,
     <1>12, <1>13, <1>14, <1>15, <1>16, <1>17, <1>18 DEF Next, Step

\* Every step keeps the queues of idle workers empty.
LEMMA IdleIsEmptyNext ==
    ASSUME IInv, [Next]_vars
    PROVE  IdleIsEmpty'
<1> USE WorkStealingAssumption DEF IInv, TypeOK, IdleIsEmpty, ActiveInv,
        Labels, TrimLabels, OfferLabels, Goto, locals
<1>1. ASSUME NEW n \in SUBSET Workers, reset_for_reuse(n) PROVE IdleIsEmpty'
  BY <1>1 DEF reset_for_reuse
<1>2. ASSUME NEW w \in Workers, dispatch_push(w) PROVE IdleIsEmpty'
  BY <1>2 DEF dispatch_push, push
<1>3. ASSUME NEW w \in Workers, dispatch_return(w) PROVE IdleIsEmpty'
  BY <1>3 DEF dispatch_return
<1>4. ASSUME NEW w \in Workers, trim_overflow(w) PROVE IdleIsEmpty'
  BY <1>4 DEF trim_overflow
<1>5. ASSUME NEW w \in Workers, trim_overflow_end(w) PROVE IdleIsEmpty'
  BY <1>5 DEF trim_overflow_end
<1>6. ASSUME NEW w \in Workers, trim_local(w) PROVE IdleIsEmpty'
  BY <1>6 DEF trim_local
<1>7. ASSUME NEW w \in Workers, trim_local_end(w) PROVE IdleIsEmpty'
  BY <1>7 DEF trim_local_end
<1>8. ASSUME NEW w \in Workers, trim_test(w) PROVE IdleIsEmpty'
  BY <1>8 DEF trim_test, is_empty
<1>9. ASSUME NEW w \in Workers, steal(w) PROVE IdleIsEmpty'
  BY <1>9 DEF steal
<1>10. ASSUME NEW w \in Workers, steal_fails(w) PROVE IdleIsEmpty'
  BY <1>10 DEF steal_fails
<1>11. ASSUME NEW w \in Workers, offer_termination(w) PROVE IdleIsEmpty'
  BY <1>11 DEF offer_termination
<1>12. ASSUME NEW w \in Workers, offer_all(w) PROVE IdleIsEmpty'
  BY <1>12 DEF offer_all
<1>13. ASSUME NEW w \in Workers, offer_peek(w) PROVE IdleIsEmpty'
  BY <1>13 DEF offer_peek, InUse
<1>14. ASSUME NEW w \in Workers, peek_true(w) PROVE IdleIsEmpty'
  BY <1>14 DEF peek_true, InUse
<1>15. ASSUME NEW w \in Workers, peek_false(w) PROVE IdleIsEmpty'
  BY <1>15 DEF peek_false
<1>16. ASSUME NEW w \in Workers, peek_end(w) PROVE IdleIsEmpty'
  BY <1>16 DEF peek_end
<1>17. ASSUME NEW w \in Workers, offer_withdraw(w) PROVE IdleIsEmpty'
  BY <1>17 DEF offer_withdraw
<1>18. CASE UNCHANGED vars
  BY <1>18 DEF vars
<1> HIDE DEF IInv, TypeOK, IdleIsEmpty, ActiveInv, Labels, TrimLabels,
        OfferLabels, Goto, locals
<1> QED
    BY <1>1, <1>2, <1>3, <1>4, <1>5, <1>6, <1>7, <1>8, <1>9, <1>10, <1>11,
     <1>12, <1>13, <1>14, <1>15, <1>16, <1>17, <1>18 DEF Next, Step

\* Every step keeps the round's workers.
LEMMA ActiveInvNext ==
    ASSUME IInv, [Next]_vars
    PROVE  ActiveInv'
<1> USE WorkStealingAssumption DEF IInv, TypeOK, ActiveInv, Labels, TrimLabels,
        OfferLabels, Goto, locals
<1>1. ASSUME NEW n \in SUBSET Workers, reset_for_reuse(n) PROVE ActiveInv'
  BY <1>1 DEF reset_for_reuse
<1>2. ASSUME NEW w \in Workers, dispatch_push(w) PROVE ActiveInv'
  BY <1>2 DEF dispatch_push, push
<1>3. ASSUME NEW w \in Workers, dispatch_return(w) PROVE ActiveInv'
  BY <1>3 DEF dispatch_return
<1>4. ASSUME NEW w \in Workers, trim_overflow(w) PROVE ActiveInv'
  BY <1>4 DEF trim_overflow
<1>5. ASSUME NEW w \in Workers, trim_overflow_end(w) PROVE ActiveInv'
  BY <1>5 DEF trim_overflow_end
<1>6. ASSUME NEW w \in Workers, trim_local(w) PROVE ActiveInv'
  BY <1>6 DEF trim_local
<1>7. ASSUME NEW w \in Workers, trim_local_end(w) PROVE ActiveInv'
  BY <1>7 DEF trim_local_end
<1>8. ASSUME NEW w \in Workers, trim_test(w) PROVE ActiveInv'
  BY <1>8 DEF trim_test, is_empty
<1>9. ASSUME NEW w \in Workers, steal(w) PROVE ActiveInv'
  BY <1>9 DEF steal
<1>10. ASSUME NEW w \in Workers, steal_fails(w) PROVE ActiveInv'
  BY <1>10 DEF steal_fails
<1>11. ASSUME NEW w \in Workers, offer_termination(w) PROVE ActiveInv'
  BY <1>11 DEF offer_termination
<1>12. ASSUME NEW w \in Workers, offer_all(w) PROVE ActiveInv'
  BY <1>12 DEF offer_all
<1>13. ASSUME NEW w \in Workers, offer_peek(w) PROVE ActiveInv'
  BY <1>13 DEF offer_peek, InUse
<1>14. ASSUME NEW w \in Workers, peek_true(w) PROVE ActiveInv'
  BY <1>14 DEF peek_true, InUse
<1>15. ASSUME NEW w \in Workers, peek_false(w) PROVE ActiveInv'
  BY <1>15 DEF peek_false
<1>16. ASSUME NEW w \in Workers, peek_end(w) PROVE ActiveInv'
  BY <1>16 DEF peek_end
<1>17. ASSUME NEW w \in Workers, offer_withdraw(w) PROVE ActiveInv'
  BY <1>17 DEF offer_withdraw
<1>18. CASE UNCHANGED vars
  BY <1>18 DEF vars
<1> HIDE DEF IInv, TypeOK, ActiveInv, Labels, TrimLabels, OfferLabels, Goto,
        locals
<1> QED
    BY <1>1, <1>2, <1>3, <1>4, <1>5, <1>6, <1>7, <1>8, <1>9, <1>10, <1>11,
     <1>12, <1>13, <1>14, <1>15, <1>16, <1>17, <1>18 DEF Next, Step

\* How a step changes the set of workers that offer termination.
LEMMA OfferingNext ==
    ASSUME IInv, [Next]_vars
    PROVE  \/ Offering' = Offering /\ offered' = offered
           \/ Offering' = {} /\ offered' = 0
           \/ \E w \in Workers : /\ w \notin Offering /\ offered' = offered + 1
                                 /\ Offering' = Offering \cup {w}
           \/ \E w \in Workers : /\ w \in Offering /\ offered' = offered - 1
                                 /\ Offering' = Offering \ {w}
<1> DEFINE Same == Offering' = Offering /\ offered' = offered
<1> USE WorkStealingAssumption DEF IInv, TypeOK, Offering, Labels, TrimLabels,
        OfferLabels, Goto, locals
<1>1. ASSUME NEW n \in SUBSET Workers, reset_for_reuse(n)
      PROVE  Offering' = {} /\ offered' = 0
  BY <1>1 DEF reset_for_reuse
<1>2. ASSUME NEW w \in Workers, offer_termination(w)
      PROVE  /\ w \notin Offering /\ offered' = offered + 1
             /\ Offering' = Offering \cup {w}
  BY <1>2 DEF offer_termination
<1>3. ASSUME NEW w \in Workers, offer_withdraw(w)
      PROVE  /\ w \in Offering /\ offered' = offered - 1
             /\ Offering' = Offering \ {w}
  BY <1>3 DEF offer_withdraw
<1>4. ASSUME NEW w \in Workers, dispatch_push(w) PROVE Same
  BY <1>4 DEF dispatch_push, push
<1>5. ASSUME NEW w \in Workers, dispatch_return(w) PROVE Same
  BY <1>5 DEF dispatch_return
<1>6. ASSUME NEW w \in Workers, trim_overflow(w) PROVE Same
  BY <1>6 DEF trim_overflow
<1>7. ASSUME NEW w \in Workers, trim_overflow_end(w) PROVE Same
  BY <1>7 DEF trim_overflow_end
<1>8. ASSUME NEW w \in Workers, trim_local(w) PROVE Same
  BY <1>8 DEF trim_local
<1>9. ASSUME NEW w \in Workers, trim_local_end(w) PROVE Same
  BY <1>9 DEF trim_local_end
<1>10. ASSUME NEW w \in Workers, trim_test(w) PROVE Same
  BY <1>10 DEF trim_test, is_empty
<1>11. ASSUME NEW w \in Workers, steal(w) PROVE Same
  BY <1>11 DEF steal
<1>12. ASSUME NEW w \in Workers, steal_fails(w) PROVE Same
  BY <1>12 DEF steal_fails
<1>13. ASSUME NEW w \in Workers, offer_all(w) PROVE Same
  BY <1>13 DEF offer_all
<1>14. ASSUME NEW w \in Workers, offer_peek(w) PROVE Same
  BY <1>14 DEF offer_peek, InUse
<1>15. ASSUME NEW w \in Workers, peek_true(w) PROVE Same
  BY <1>15 DEF peek_true, InUse
<1>16. ASSUME NEW w \in Workers, peek_false(w) PROVE Same
  BY <1>16 DEF peek_false
<1>17. ASSUME NEW w \in Workers, peek_end(w) PROVE Same
  BY <1>17 DEF peek_end
<1>18. CASE UNCHANGED vars
  BY <1>18 DEF vars
<1> HIDE DEF IInv, TypeOK, Offering, Labels, TrimLabels, OfferLabels, Goto,
        locals
<1> QED
    BY Zenon, <1>1, <1>2, <1>3, <1>4, <1>5, <1>6, <1>7, <1>8, <1>9, <1>10, <1>11,
     <1>12, <1>13, <1>14, <1>15, <1>16, <1>17, <1>18 DEF Next, Step

\* The offers stay counted, whatever the cardinalities.
LEMMA CountNext ==
    ASSUME IInv, [Next]_vars
    PROVE  offered' \in Nat /\ offered' = Cardinality(Offering')
<1>1. IsFiniteSet(Offering) /\ Offering \in SUBSET Workers
  BY WorkStealingAssumption, FS_Subset DEF Offering
<1>2. offered = Cardinality(Offering) /\ offered \in Nat
  BY <1>1, FS_CardinalityType DEF IInv, OffersCounted
<1>3. CASE Offering' = Offering /\ offered' = offered
  BY <1>2, <1>3
<1>4. CASE Offering' = {} /\ offered' = 0
  BY <1>4, FS_EmptySet
<1>5. ASSUME NEW w \in Workers, w \notin Offering, offered' = offered + 1,
             Offering' = Offering \cup {w}
      PROVE  offered' \in Nat /\ offered' = Cardinality(Offering')
  BY <1>1, <1>2, <1>5, FS_AddElement
<1>6. ASSUME NEW w \in Workers, w \in Offering, offered' = offered - 1,
             Offering' = Offering \ {w}
      PROVE  offered' \in Nat /\ offered' = Cardinality(Offering')
    <2>1. IsFiniteSet(Offering') /\ Cardinality(Offering') =
        Cardinality(Offering) - 1
    BY <1>1, <1>6, FS_RemoveElement
  <2>2. Cardinality(Offering') \in Nat
    BY <2>1, FS_CardinalityType
  <2> QED BY <1>2, <1>6, <2>1, <2>2
<1> QED BY <1>3, <1>4, <1>5, <1>6, OfferingNext

\* A worker leaves only when all have offered, and all that offer are idle.
LEMMA DoneInvNext ==
    ASSUME IInv, [Next]_vars
    PROVE  DoneInv'
<1> USE WorkStealingAssumption DEF IInv, TypeOK, IdleIsEmpty, DoneInv, Labels,
        TrimLabels, OfferLabels, Goto, locals
<1>1. ASSUME NEW n \in SUBSET Workers, reset_for_reuse(n) PROVE DoneInv'
  BY <1>1 DEF reset_for_reuse
<1>2. ASSUME NEW w \in Workers, dispatch_push(w) PROVE DoneInv'
  BY <1>2 DEF dispatch_push, push
<1>3. ASSUME NEW w \in Workers, dispatch_return(w) PROVE DoneInv'
  BY <1>3 DEF dispatch_return
<1>4. ASSUME NEW w \in Workers, trim_overflow(w) PROVE DoneInv'
  BY <1>4 DEF trim_overflow
<1>5. ASSUME NEW w \in Workers, trim_overflow_end(w) PROVE DoneInv'
  BY <1>5 DEF trim_overflow_end
<1>6. ASSUME NEW w \in Workers, trim_local(w) PROVE DoneInv'
  BY <1>6 DEF trim_local
<1>7. ASSUME NEW w \in Workers, trim_local_end(w) PROVE DoneInv'
  BY <1>7 DEF trim_local_end
<1>8. ASSUME NEW w \in Workers, trim_test(w) PROVE DoneInv'
  BY <1>8 DEF trim_test, is_empty
<1>9. ASSUME NEW w \in Workers, steal(w) PROVE DoneInv'
  BY <1>9 DEF steal
<1>10. ASSUME NEW w \in Workers, steal_fails(w) PROVE DoneInv'
  BY <1>10 DEF steal_fails
<1>11. ASSUME NEW w \in Workers, offer_termination(w) PROVE DoneInv'
  BY <1>11 DEF offer_termination
<1>12. ASSUME NEW w \in Workers, offer_all(w) PROVE DoneInv'
  <2>1. Offering \in SUBSET active /\ IsFiniteSet(active)
    BY FS_Subset DEF OffersCounted
  <2>2. Offering = active
    BY <1>12, <2>1, FS_Subset, Zenon DEF offer_all, OffersCounted
  <2>3. \A v \in Workers : pc[v] \notin TrimLabels
    BY <2>2 DEF Offering, ActiveInv
  <2> QED BY <1>12, <2>3 DEF offer_all
<1>13. ASSUME NEW w \in Workers, offer_peek(w) PROVE DoneInv'
  BY <1>13 DEF offer_peek, InUse
<1>14. ASSUME NEW w \in Workers, peek_true(w) PROVE DoneInv'
  BY <1>14 DEF peek_true, InUse
<1>15. ASSUME NEW w \in Workers, peek_false(w) PROVE DoneInv'
  BY <1>15 DEF peek_false
<1>16. ASSUME NEW w \in Workers, peek_end(w) PROVE DoneInv'
  BY <1>16 DEF peek_end
<1>17. ASSUME NEW w \in Workers, offer_withdraw(w) PROVE DoneInv'
  BY <1>17 DEF offer_withdraw
<1>18. CASE UNCHANGED vars
  BY <1>18 DEF vars
<1> HIDE DEF IInv, TypeOK, IdleIsEmpty, DoneInv, Labels, TrimLabels,
        OfferLabels, Goto, locals
<1> QED
    BY <1>1, <1>2, <1>3, <1>4, <1>5, <1>6, <1>7, <1>8, <1>9, <1>10, <1>11,
     <1>12, <1>13, <1>14, <1>15, <1>16, <1>17, <1>18 DEF Next, Step

\* IInv is inductive.
LEMMA IInvNext == ASSUME IInv, [Next]_vars PROVE IInv'
<1>1. TypeOK' /\ IdleIsEmpty' /\ ActiveInv' /\ DoneInv'
  BY TypeOKNext, IdleIsEmptyNext, ActiveInvNext, DoneInvNext, CountNext
<1>2. Offering' \subseteq active'
  BY <1>1 DEF Offering, ActiveInv, OfferLabels
<1> QED BY <1>1, <1>2, CountNext DEF IInv, OffersCounted

\* IInv holds initially: nobody works and nobody offers.
LEMMA IInvInit == ASSUME Init PROVE IInv
<1>1. Offering = {}
  BY DEF Init, Offering, OfferLabels
<1>2. OffersCounted
  BY <1>1, FS_EmptySet DEF Init, OffersCounted
<1>3. TypeOK
  BY WorkStealingAssumption DEF Init, TypeOK, Labels
<1>4. IdleIsEmpty /\ ActiveInv /\ DoneInv
  BY DEF Init, IdleIsEmpty, ActiveInv, DoneInv, TrimLabels
<1> QED BY <1>2, <1>3, <1>4 DEF IInv

\* IInv is an invariant.
LEMMA Invariant == Spec => []IInv
<1>1. Init => IInv
  BY IInvInit
<1>2. IInv /\ [Next]_vars => IInv'
  BY IInvNext
<1> QED BY <1>1, <1>2, PTL DEF Spec

\* The assertions on _offered_termination in taskqueue.cpp hold with any number
\* of workers.
THEOREM OffersCountedSafe == Spec => []OffersCounted
<1>1. IInv => OffersCounted
  BY DEF IInv
<1> QED BY <1>1, Invariant, PTL

\* offer_termination() returns true to a worker only when no task is left
\* anywhere, with any number of workers and any capacity of the queues.
THEOREM TerminationSafe == Spec => []TerminationMeansDone
<1>1. IInv => TerminationMeansDone
  BY DEF IInv, IdleIsEmpty, DoneInv, TerminationMeansDone
<1> QED BY <1>1, Invariant, PTL
=============================================================================
