-------------------------- MODULE DeliveryProofs ---------------------------
(* Proofs about what is written with a message, for any rows, replicas,     *)
(* tries, replies, deletions and failures: the outbox, one logical send,    *)
(* and the reply counter as long as nothing drifts from it.                 *)
EXTENDS MCDelivery, FiniteSetTheorems, TLAPS

-----------------------------------------------------------------------------
(* The outbox. *)

\* Counting replicas: the only arithmetic of sets the proofs need.
LEMMA CountReplicas ==
  ASSUME NEW S \in SUBSET Replicas, NEW T \in SUBSET Replicas, NEW r \in Replicas
  PROVE  /\ Cardinality(S) \in Nat
         /\ S \subseteq T => Cardinality(S) <= Cardinality(T)
         /\ S \subseteq T \cup {r} => Cardinality(S) <= Cardinality(T) + 1
         /\ r \in T /\ S \subseteq T \ {r} => Cardinality(S) <= Cardinality(T) - 1
<1>1. IsFiniteSet(S) /\ IsFiniteSet(T)
  BY FS_Subset, OutboxAssumption DEF OutboxAssumption
<1>2. Cardinality(S) \in Nat /\ Cardinality(T) \in Nat
  BY <1>1, FS_CardinalityType
<1>3. S \subseteq T => Cardinality(S) <= Cardinality(T)
  BY <1>1, FS_Subset
<1>4. ASSUME S \subseteq T \cup {r}
      PROVE  Cardinality(S) <= Cardinality(T) + 1
  <2>1. /\ IsFiniteSet(T \cup {r})
        /\ Cardinality(T \cup {r}) =
             IF r \in T THEN Cardinality(T) ELSE Cardinality(T) + 1
    BY <1>1, FS_AddElement
  <2>2. Cardinality(S) <= Cardinality(T \cup {r})
    BY <1>4, <2>1, FS_Subset
  <2> QED BY <1>2, <2>1, <2>2
<1>5. ASSUME r \in T, S \subseteq T \ {r}
      PROVE  Cardinality(S) <= Cardinality(T) - 1
  <2>1. /\ IsFiniteSet(T \ {r})
        /\ Cardinality(T \ {r}) = Cardinality(T) - 1
    BY <1>1, <1>5, FS_RemoveElement
  <2> QED BY <1>5, <2>1, FS_Subset
<1> QED BY <1>2, <1>3, <1>4, <1>5

\* The invariant holds of rows nobody has claimed.
LEMMA InitIInv == Init => IInv
<1> SUFFICES ASSUME Init PROVE IInv
  OBVIOUS
<1> USE OutboxAssumption DEF OutboxAssumption, Init
<1>1. TypeOK
  BY DEF TypeOK, Phases
<1>2. PhaseHolds /\ LockedHasAttempt /\ ClaimsDisjoint
  BY DEF PhaseHolds, LockedHasAttempt, ClaimsDisjoint
<1>3. DeliveredBeforeMarked
  BY DEF DeliveredBeforeMarked
<1>4. AttemptsBoundDeliveries /\ AttemptsAccounted
  <2>1. \A e \in Events : Holding(e) = {} /\ Working(e) = {}
    BY DEF Holding, Working
  <2> QED BY <2>1, FS_EmptySet DEF AttemptsBoundDeliveries, AttemptsAccounted
<1> QED BY <1>1, <1>2, <1>3, <1>4 DEF IInv

-----------------------------------------------------------------------------
(* The type invariant is preserved, action by action. *)

\* Every step keeps the types.
LEMMA TypeStep == IInv /\ [Next]_vars => TypeOK'
<1> SUFFICES ASSUME IInv, [Next]_vars PROVE TypeOK'
  OBVIOUS
<1> USE OutboxAssumption DEF OutboxAssumption, IInv, TypeOK, Phases
<1>1. ASSUME NEW e \in Events, Record(e) PROVE TypeOK'
  BY <1>1 DEF Record, process, history
<1>2. ASSUME NEW r \in Replicas, ClaimLock(r) PROVE TypeOK'
  BY <1>2 DEF ClaimLock, OldestBatch, Claimable, table, history
<1>3. ASSUME NEW r \in Replicas, ClaimCommit(r) PROVE TypeOK'
  BY <1>3 DEF ClaimCommit, Claimed, LockedHasAttempt, history
<1>4. ASSUME NEW r \in Replicas, ClaimFails(r) PROVE TypeOK'
  BY <1>4 DEF ClaimFails, Claimed, Fault, Rest, LockedHasAttempt, table
<1>5. ASSUME NEW r \in Replicas, NEW e \in Events, Emit(r, e) PROVE TypeOK'
  BY <1>5 DEF Emit, Take, table
<1>6. ASSUME NEW r \in Replicas, NEW e \in Events, EmitRejects(r, e) PROVE TypeOK'
  BY <1>6 DEF EmitRejects, Take, Fault, table
<1>7. ASSUME NEW r \in Replicas, Mark(r) PROVE TypeOK'
  BY <1>7 DEF Mark, NextRow, PhaseHolds, history
<1>8. ASSUME NEW r \in Replicas, MarkFails(r) PROVE TypeOK'
  BY <1>8 DEF MarkFails, Fault, table
<1>9. ASSUME NEW r \in Replicas, RecordError(r) PROVE TypeOK'
  BY <1>9 DEF RecordError, NextRow, PhaseHolds, history
<1>10. ASSUME NEW r \in Replicas, RecordErrorFails(r) PROVE TypeOK'
  BY <1>10 DEF RecordErrorFails, Fault, Rest, table
<1>11. ASSUME NEW r \in Replicas, Finish(r) PROVE TypeOK'
  BY <1>11 DEF Finish, Rest, table, history
<1>12. ASSUME NEW r \in Replicas, Stop(r) PROVE TypeOK'
  BY <1>12 DEF Stop, table
<1>13. ASSUME NEW r \in Replicas, Crash(r) PROVE TypeOK'
  BY <1>13 DEF Crash, Fault, table
<1>14. ASSUME NEW r \in Replicas, Boot(r) PROVE TypeOK'
  BY <1>14 DEF Boot, table, history
<1>15. CASE UNCHANGED vars
  BY <1>15 DEF vars, table, process, history
<1> QED BY <1>1, <1>2, <1>3, <1>4, <1>5, <1>6, <1>7, <1>8, <1>9, <1>10, <1>11,
           <1>12, <1>13, <1>14, <1>15 DEF Next, Dispatch, Failure
-----------------------------------------------------------------------------
(* What a replica's memory holds, and the locks of overlapping claims. *)

\* A dispatcher works on its own claim at every step.
LEMMA PhaseHoldsStep == IInv /\ [Next]_vars => PhaseHolds'
<1> SUFFICES ASSUME IInv, [Next]_vars PROVE PhaseHolds'
  OBVIOUS
<1> USE OutboxAssumption DEF OutboxAssumption, IInv, TypeOK, Phases, PhaseHolds
<1>1. ASSUME NEW e \in Events, Record(e) PROVE PhaseHolds'
  BY <1>1 DEF Record, process, history
<1>2. ASSUME NEW r \in Replicas, ClaimLock(r) PROVE PhaseHolds'
  BY <1>2 DEF ClaimLock, OldestBatch, Claimable, table, history
<1>3. ASSUME NEW r \in Replicas, ClaimCommit(r) PROVE PhaseHolds'
  BY <1>3 DEF ClaimCommit, Claimed, history
<1>4. ASSUME NEW r \in Replicas, ClaimFails(r) PROVE PhaseHolds'
  BY <1>4 DEF ClaimFails, Claimed, Fault, Rest, table
<1>5. ASSUME NEW r \in Replicas, NEW e \in Events, Emit(r, e) PROVE PhaseHolds'
  BY <1>5 DEF Emit, Take, table
<1>6. ASSUME NEW r \in Replicas, NEW e \in Events, EmitRejects(r, e)
      PROVE  PhaseHolds'
  BY <1>6 DEF EmitRejects, Take, Fault, table
<1>7. ASSUME NEW r \in Replicas, Mark(r) PROVE PhaseHolds'
  BY <1>7 DEF Mark, NextRow, history
<1>8. ASSUME NEW r \in Replicas, MarkFails(r) PROVE PhaseHolds'
  BY <1>8 DEF MarkFails, Fault, table
<1>9. ASSUME NEW r \in Replicas, RecordError(r) PROVE PhaseHolds'
  BY <1>9 DEF RecordError, NextRow, history
<1>10. ASSUME NEW r \in Replicas, RecordErrorFails(r) PROVE PhaseHolds'
  BY <1>10 DEF RecordErrorFails, Fault, Rest, table
<1>11. ASSUME NEW r \in Replicas, Finish(r) PROVE PhaseHolds'
  BY <1>11 DEF Finish, Rest, table, history
<1>12. ASSUME NEW r \in Replicas, Stop(r) PROVE PhaseHolds'
  BY <1>12 DEF Stop, table
<1>13. ASSUME NEW r \in Replicas, Crash(r) PROVE PhaseHolds'
  BY <1>13 DEF Crash, Fault, table
<1>14. ASSUME NEW r \in Replicas, Boot(r) PROVE PhaseHolds'
  BY <1>14 DEF Boot, table, history
<1>15. CASE UNCHANGED vars
  BY <1>15 DEF vars, table, process, history
<1> QED BY <1>1, <1>2, <1>3, <1>4, <1>5, <1>6, <1>7, <1>8, <1>9, <1>10, <1>11,
           <1>12, <1>13, <1>14, <1>15 DEF Next, Dispatch, Failure

\* A claim takes unlocked rows and counts the attempt, so no row is claimed twice.
LEMMA LockStep == IInv /\ [Next]_vars => LockedHasAttempt' /\ ClaimsDisjoint'
<1> SUFFICES ASSUME IInv, [Next]_vars PROVE LockedHasAttempt' /\ ClaimsDisjoint'
  OBVIOUS
<1> USE OutboxAssumption
    DEF OutboxAssumption, IInv, TypeOK, LockedHasAttempt, ClaimsDisjoint
\* Most steps leave the locks and the attempts alone.
<1>1. ASSUME UNCHANGED <<locks, attempts>>
      PROVE  LockedHasAttempt' /\ ClaimsDisjoint'
  BY <1>1
<1>2. ASSUME NEW r \in Replicas, ClaimLock(r)
      PROVE  LockedHasAttempt' /\ ClaimsDisjoint'
  BY <1>2 DEF ClaimLock, OldestBatch, Claimable, Locked, table
<1>3. ASSUME NEW r \in Replicas, Claimed(r)
      PROVE  LockedHasAttempt' /\ ClaimsDisjoint'
  BY <1>3 DEF Claimed
<1>4. ASSUME NEW r \in Replicas, locks' = [locks EXCEPT ![r] = {}],
             attempts' = attempts
      PROVE  LockedHasAttempt' /\ ClaimsDisjoint'
  BY <1>4
<1>5. ASSUME NEW r \in Replicas, ClaimFails(r)
      PROVE  LockedHasAttempt' /\ ClaimsDisjoint'
  BY <1>3, <1>4, <1>5 DEF ClaimFails, table
<1>6. ASSUME NEW r \in Replicas, Dispatch(r)
      PROVE  LockedHasAttempt' /\ ClaimsDisjoint'
  BY <1>1, <1>2, <1>3, <1>6
     DEF Dispatch, ClaimCommit, Mark, RecordError, Finish, Emit, table
<1>7. ASSUME NEW r \in Replicas, Failure(r)
      PROVE  LockedHasAttempt' /\ ClaimsDisjoint'
  BY <1>1, <1>4, <1>5, <1>7
     DEF Failure, MarkFails, RecordErrorFails, Crash, EmitRejects, table
<1>8. CASE UNCHANGED vars
  BY <1>1, <1>8 DEF vars, table, process
<1> QED BY <1>1, <1>6, <1>7, <1>8 DEF Next, Record, Stop, Boot, table, process
-----------------------------------------------------------------------------
(* Deliveries, attempts and failures are counted against each other. *)

\* A row is marked after the bus took it.
LEMMA DeliveredStep == IInv /\ [Next]_vars => DeliveredBeforeMarked'
<1> SUFFICES ASSUME IInv, [Next]_vars PROVE DeliveredBeforeMarked'
  OBVIOUS
<1> USE OutboxAssumption
    DEF OutboxAssumption, IInv, TypeOK, DeliveredBeforeMarked
<1>1. ASSUME UNCHANGED <<dispatched, deliveries>> PROVE DeliveredBeforeMarked'
  BY <1>1
<1>2. ASSUME NEW r \in Replicas, NEW e \in Events, Emit(r, e)
      PROVE  DeliveredBeforeMarked'
  BY <1>2 DEF Emit, table
<1>3. ASSUME NEW r \in Replicas, Mark(r) PROVE DeliveredBeforeMarked'
  BY <1>3 DEF Mark, PhaseHolds, history
<1>4. ASSUME NEW r \in Replicas, Dispatch(r) PROVE DeliveredBeforeMarked'
  BY <1>1, <1>2, <1>3, <1>4
     DEF Dispatch, ClaimLock, ClaimCommit, Claimed, RecordError, Finish,
         table, history
<1>5. ASSUME NEW r \in Replicas, Failure(r) PROVE DeliveredBeforeMarked'
  BY <1>1, <1>5
     DEF Failure, ClaimFails, Claimed, MarkFails, RecordErrorFails, Crash,
         EmitRejects, table
<1>6. CASE UNCHANGED vars
  BY <1>1, <1>6 DEF vars, table, history
<1> QED BY <1>1, <1>4, <1>5, <1>6
        DEF Next, Record, Stop, Boot, table, history

\* Each delivery has its attempt.
LEMMA BoundStep == IInv /\ [Next]_vars => AttemptsBoundDeliveries'
<1> SUFFICES ASSUME IInv, [Next]_vars, NEW e \in Events
             PROVE  deliveries'[e] + Cardinality(Holding(e)') <= attempts'[e]
  BY DEF AttemptsBoundDeliveries
<1> USE OutboxAssumption DEF OutboxAssumption, IInv, TypeOK
<1> DEFINE Goal == deliveries'[e] + Cardinality(Holding(e)') <= attempts'[e]
<1>0. /\ Holding(e) \in SUBSET Replicas /\ Holding(e)' \in SUBSET Replicas
      /\ deliveries[e] \in Nat /\ attempts[e] \in Nat
      /\ deliveries[e] + Cardinality(Holding(e)) <= attempts[e]
  BY DEF Holding, AttemptsBoundDeliveries
\* No new delivery, no new row in a batch, no attempt taken back.
<1>1. ASSUME deliveries' = deliveries,
             attempts'[e] \in Nat, attempts'[e] >= attempts[e],
             Holding(e)' \subseteq Holding(e),
             NEW r \in Replicas
      PROVE  Goal
  BY <1>0, <1>1, CountReplicas
<1>2. ASSUME NEW r \in Replicas, ClaimCommit(r) PROVE Goal
  <2>1. CASE e \in locks[r]
    <3>1. /\ attempts'[e] = attempts[e] + 1 /\ deliveries' = deliveries
          /\ Holding(e)' \subseteq Holding(e) \cup {r}
      BY <1>2, <2>1 DEF ClaimCommit, Claimed, Holding, history
    <3> QED BY <1>0, <3>1, CountReplicas
  <2>2. CASE e \notin locks[r]
    BY <1>0, <1>1, <1>2, <2>2 DEF ClaimCommit, Claimed, Holding, history
  <2> QED BY <2>1, <2>2
<1>3. ASSUME NEW r \in Replicas, ClaimFails(r) PROVE Goal
  BY <1>0, <1>1, <1>3 DEF ClaimFails, Claimed, Holding, table
<1>4. ASSUME NEW r \in Replicas, NEW f \in Events, Emit(r, f) PROVE Goal
  <2>1. CASE f = e
    <3>1. /\ deliveries'[e] = deliveries[e] + 1 /\ attempts' = attempts
          /\ r \in Holding(e) /\ Holding(e)' \subseteq Holding(e) \ {r}
      BY <1>4, <2>1 DEF Emit, Take, Holding, table
    <3>2. /\ Cardinality(Holding(e)) \in Nat
          /\ Cardinality(Holding(e)') \in Nat
          /\ Cardinality(Holding(e)') <= Cardinality(Holding(e)) - 1
      BY <1>0, <3>1, CountReplicas
    <3> QED BY <1>0, <3>1, <3>2
  <2>2. CASE f # e
    <3>1. /\ deliveries'[e] = deliveries[e] /\ attempts' = attempts
          /\ Holding(e)' = Holding(e)
      BY <1>4, <2>2 DEF Emit, Take, Holding, table
    <3> QED BY <1>0, <3>1
  <2> QED BY <2>1, <2>2
<1>5. ASSUME UNCHANGED <<deliveries, attempts>>,
             \A s \in Replicas : todo'[s] \subseteq todo[s],
             NEW r \in Replicas
      PROVE  Goal
  BY <1>0, <1>1, <1>5 DEF Holding
<1>6. ASSUME NEW r \in Replicas, Dispatch(r) PROVE Goal
  BY <1>2, <1>4, <1>5, <1>6
     DEF Dispatch, ClaimLock, Mark, RecordError, Finish, table, history
<1>7. ASSUME NEW r \in Replicas, Failure(r) PROVE Goal
  BY <1>3, <1>5, <1>7
     DEF Failure, MarkFails, RecordErrorFails, Crash, EmitRejects, Take, table
<1>8. ASSUME NEW r \in Replicas, Stop(r) \/ Boot(r) PROVE Goal
  BY <1>5, <1>8 DEF Stop, Boot, table, history
<1>9. CASE UNCHANGED vars \/ \E f \in Events : Record(f)
  <2>1. /\ deliveries' = deliveries /\ attempts' = attempts
        /\ Holding(e)' = Holding(e)
    BY <1>9 DEF vars, table, process, history, Record, Holding
  <2> QED BY <1>0, <2>1
<1> QED BY <1>6, <1>7, <1>8, <1>9 DEF Next

\* An attempt ends in a mark, in a failure or in a crash.
LEMMA AccountedStep == IInv /\ [Next]_vars => AttemptsAccounted'
<1> SUFFICES ASSUME IInv, [Next]_vars, NEW e \in Events, e \notin dispatched'
             PROVE  attempts'[e] <= faults' + Cardinality(Working(e)')
  BY DEF AttemptsAccounted
<1> USE OutboxAssumption DEF OutboxAssumption, IInv, TypeOK
<1> DEFINE Goal == attempts'[e] <= faults' + Cardinality(Working(e)')
<1>0. /\ Working(e) \in SUBSET Replicas /\ Working(e)' \in SUBSET Replicas
      /\ attempts[e] \in Nat /\ faults \in Nat
      /\ e \notin dispatched => attempts[e] <= faults + Cardinality(Working(e))
  BY DEF Working, AttemptsAccounted
\* Every step that takes a replica off e without marking e is a failure.
<1>1. ASSUME e \notin dispatched, attempts'[e] = attempts[e], faults' = faults,
             Working(e) \subseteq Working(e)', NEW r \in Replicas
      PROVE  Goal
  <2>1. /\ Cardinality(Working(e)) <= Cardinality(Working(e)')
        /\ Cardinality(Working(e)) \in Nat /\ Cardinality(Working(e)') \in Nat
    BY <1>0, <1>1, CountReplicas
  <2> QED BY <1>0, <1>1, <2>1
<1>2. ASSUME e \notin dispatched, attempts'[e] = attempts[e], Fault,
             NEW r \in Replicas, Working(e) \subseteq Working(e)' \cup {r}
      PROVE  Goal
  <2>1. /\ Cardinality(Working(e)) <= Cardinality(Working(e)') + 1
        /\ Cardinality(Working(e)) \in Nat /\ Cardinality(Working(e)') \in Nat
    BY <1>0, <1>2, CountReplicas
  <2> QED BY <1>0, <1>2, <2>1 DEF Fault
<1>3. ASSUME NEW r \in Replicas, ClaimCommit(r) PROVE Goal
  <2>1. e \notin dispatched /\ faults' = faults /\ todo[r] = {} /\ r \notin Working(e)
    BY <1>3 DEF ClaimCommit, Claimed, PhaseHolds, Working, history
  <2>2. CASE e \in locks[r]
    <3>1. /\ attempts'[e] = attempts[e] + 1
          /\ r \in Working(e)' /\ Working(e) \subseteq Working(e)' \ {r}
      BY <1>3, <2>1, <2>2 DEF ClaimCommit, Claimed, Working
    <3>2. /\ Cardinality(Working(e)) <= Cardinality(Working(e)') - 1
          /\ Cardinality(Working(e)) \in Nat /\ Cardinality(Working(e)') \in Nat
      BY <1>0, <3>1, CountReplicas
    <3> QED BY <1>0, <2>1, <3>1, <3>2
  <2>3. CASE e \notin locks[r]
    <3>1. attempts'[e] = attempts[e] /\ Working(e) \subseteq Working(e)'
      BY <1>3, <2>1, <2>3 DEF ClaimCommit, Claimed, Working
    <3> QED BY <1>1, <2>1, <3>1
  <2> QED BY <2>2, <2>3
<1>4. ASSUME NEW r \in Replicas, ClaimFails(r) PROVE Goal
  <2>1. /\ e \notin dispatched /\ attempts'[e] \in Nat
        /\ attempts'[e] <= attempts[e] + 1 /\ faults' = faults + 1
    BY <1>4 DEF ClaimFails, Claimed, Fault, table
  <2>2. Working(e)' = Working(e)
    BY <1>4 DEF ClaimFails, Rest, Working
  <2>3. Cardinality(Working(e)) \in Nat
    BY <1>0, <1>4, CountReplicas
  <2> QED BY <1>0, <2>1, <2>2, <2>3
<1>5. ASSUME NEW r \in Replicas, NEW f \in Events, Emit(r, f) PROVE Goal
  <2>1. e \notin dispatched /\ attempts' = attempts /\ faults' = faults
    BY <1>5 DEF Emit, table
  <2>2. Working(e) \subseteq Working(e)'
    BY <1>5 DEF Emit, Take, Working
  <2> QED BY <1>1, <1>5, <2>1, <2>2
<1>6. ASSUME NEW r \in Replicas, Mark(r) PROVE Goal
  <2>1. /\ e \notin dispatched /\ e # cur[r]
        /\ attempts' = attempts /\ faults' = faults
    BY <1>6 DEF Mark, history
  <2>2. Working(e) \subseteq Working(e)'
    BY <1>6, <2>1 DEF Mark, NextRow, Working
  <2> QED BY <1>1, <1>6, <2>1, <2>2
<1>7. ASSUME NEW r \in Replicas, ClaimLock(r) \/ RecordError(r) \/ Finish(r)
      PROVE  Goal
  <2>1. e \notin dispatched /\ attempts' = attempts /\ faults' = faults
    BY <1>7 DEF ClaimLock, RecordError, Finish, table, history
  <2>2. Working(e) \subseteq Working(e)'
    BY <1>7 DEF ClaimLock, RecordError, Finish, NextRow, Rest, Working, PhaseHolds
  <2> QED BY <1>1, <1>7, <2>1, <2>2
<1>8. ASSUME NEW r \in Replicas,
             \/ MarkFails(r) \/ RecordErrorFails(r) \/ Crash(r)
             \/ \E f \in Events : EmitRejects(r, f)
      PROVE  Goal
  <2>1. e \notin dispatched /\ attempts' = attempts /\ Fault
    BY <1>8 DEF MarkFails, RecordErrorFails, Crash, EmitRejects, table
  <2>2. Working(e) \subseteq Working(e)' \cup {r}
    BY <1>8 DEF MarkFails, RecordErrorFails, Crash, EmitRejects, Take, Working
  <2> QED BY <1>2, <1>8, <2>1, <2>2
<1>9. ASSUME NEW r \in Replicas, Stop(r) \/ Boot(r) PROVE Goal
  <2>1. e \notin dispatched /\ attempts' = attempts /\ faults' = faults
    BY <1>9 DEF Stop, Boot, table, history
  <2>2. Working(e) \subseteq Working(e)'
    BY <1>9 DEF Stop, Boot, Working
  <2> QED BY <1>1, <1>9, <2>1, <2>2
<1>10. CASE UNCHANGED vars \/ \E f \in Events : Record(f)
  <2>1. /\ e \notin dispatched /\ attempts' = attempts /\ faults' = faults
        /\ Working(e)' = Working(e)
    BY <1>10 DEF vars, table, process, history, Record, Working
  <2> QED BY <1>0, <2>1
<1> QED BY <1>3, <1>4, <1>5, <1>6, <1>7, <1>8, <1>9, <1>10
        DEF Next, Dispatch, Failure

-----------------------------------------------------------------------------
(* The theorems. *)

\* The inductive invariant holds in every reachable state: the columns of the
\* table and the memory of the replicas always account for each other.
THEOREM Invariance == Spec => []IInv
<1>1. IInv /\ [Next]_vars => IInv'
  BY TypeStep, PhaseHoldsStep, LockStep, DeliveredStep, BoundStep, AccountedStep
     DEF IInv
<1> QED BY <1>1, InitIInv, PTL DEF Spec

\* attempts never exceeds OUTBOX_MAX_ATTEMPTS and every variable keeps its type.
THEOREM TypeCorrect == Spec => []TypeOK
<1>1. IInv => TypeOK
  BY DEF IInv
<1> QED BY <1>1, Invariance, PTL

\* A row whose dispatchedAt is set did reach the subscribers.
THEOREM MarkedWasDelivered == Spec => []DeliveredBeforeMarked
<1>1. IInv => DeliveredBeforeMarked
  BY DEF IInv
<1> QED BY <1>1, Invariance, PTL

\* Overlapping claims never hold the same row (SKIP LOCKED of claimBatch).
THEOREM ClaimsStayApart == Spec => []ClaimsDisjoint
<1>1. IInv => ClaimsDisjoint
  BY DEF IInv
<1> QED BY <1>1, Invariance, PTL

\* No row is handed out more often than it was claimed (attempts is raised by the claim).
THEOREM ClaimsAccounted == Spec => []AttemptsBoundDeliveries
<1>1. IInv => AttemptsBoundDeliveries
  BY DEF IInv
<1> QED BY <1>1, Invariance, PTL

\* A row ends in the dead-letter state only after MaxAttempts failures.
THEOREM DeadLettersAreEarned == Spec => []NoSpuriousDeadLetter
<1>1. IInv => NoSpuriousDeadLetter
  <2> SUFFICES ASSUME IInv, NEW e \in recorded \ dispatched,
                      attempts[e] = MaxAttempts, Abandoned(e)
               PROVE  faults >= MaxAttempts
    BY DEF NoSpuriousDeadLetter
  <2>1. Working(e) = {}
    BY DEF Working, Abandoned
  <2>2. attempts[e] <= faults + Cardinality(Working(e))
    BY DEF IInv, AttemptsAccounted, TypeOK
  <2> QED BY <2>1, <2>2, FS_EmptySet, OutboxAssumption
          DEF OutboxAssumption, IInv, TypeOK
<1> QED BY <1>1, Invariance, PTL

\* Every step of the dispatchers is a step of at-least-once delivery, or
\* leaves what the subscribers and the table show unchanged.
LEMMA StepRefines == IInv /\ [Next]_vars => [Abstract!Next]_(Abstract!vars)
<1> SUFFICES ASSUME IInv, [Next]_vars PROVE [Abstract!Next]_(Abstract!vars)
  OBVIOUS
<1> USE OutboxAssumption DEF OutboxAssumption, IInv, TypeOK
<1>1. ASSUME UNCHANGED <<recorded, deliveries, dispatched>>
      PROVE  UNCHANGED Abstract!vars
  BY <1>1 DEF Abstract!vars
<1>2. ASSUME NEW e \in Events, Record(e) PROVE Abstract!Next
  BY <1>2 DEF Record, history, Abstract!Next, Abstract!Record
<1>3. ASSUME NEW r \in Replicas, NEW e \in Events, Emit(r, e)
      PROVE  Abstract!Next
  <2>1. r \in Holding(e)
    BY <1>3 DEF Emit, Take, Holding
  <2>2. /\ Cardinality(Holding(e)) \in Nat /\ Cardinality({}) = 0
        /\ Cardinality({}) <= Cardinality(Holding(e)) - 1
    <3>1. {} \subseteq Holding(e) \ {r} /\ Holding(e) \in SUBSET Replicas
      BY DEF Holding
    <3> QED BY <2>1, <3>1, CountReplicas, FS_EmptySet
  <2>3. deliveries[e] < MaxAttempts
    BY <2>2 DEF AttemptsBoundDeliveries
  <2>4. Abstract!Deliver(e)
    BY <1>3, <2>3 DEF Emit, Take, table, Abstract!Deliver
  <2> QED BY <2>4 DEF Abstract!Next
<1>4. ASSUME NEW r \in Replicas, Mark(r) PROVE Abstract!Next
  <2>1. cur[r] \in Events /\ deliveries[cur[r]] > 0
    BY <1>4 DEF Mark, PhaseHolds
  <2>2. Abstract!Acknowledge(cur[r])
    BY <1>4, <2>1 DEF Mark, history, Abstract!Acknowledge
  <2> QED BY <2>1, <2>2 DEF Abstract!Next
<1>5. ASSUME NEW r \in Replicas, Dispatch(r)
      PROVE  [Abstract!Next]_(Abstract!vars)
  BY <1>1, <1>3, <1>4, <1>5
     DEF Dispatch, ClaimLock, ClaimCommit, Claimed, RecordError, Finish,
         table, history
<1>6. ASSUME NEW r \in Replicas, Failure(r) PROVE UNCHANGED Abstract!vars
  BY <1>1, <1>6
     DEF Failure, ClaimFails, Claimed, MarkFails, RecordErrorFails, Crash,
         EmitRejects, table
<1>7. CASE UNCHANGED vars
  BY <1>1, <1>7 DEF vars, table, history
<1> QED BY <1>1, <1>2, <1>5, <1>6, <1>7 DEF Next, Stop, Boot, table, history

\* The outbox implements at-least-once delivery with OUTBOX_MAX_ATTEMPTS as
\* the budget of deliveries, for any number of replicas.
THEOREM Refinement == Spec => ImplementsAtLeastOnce
<1>1. Init => Abstract!Init
  BY DEF Init, Abstract!Init
<1> QED BY <1>1, StepRefines, Invariance, PTL
        DEF Spec, ImplementsAtLeastOnce, Abstract!Spec

-----------------------------------------------------------------------------
(* What keeps a recorded row on its way. *)

\* A row that is not dispatched can be claimed, or somebody has it: a claim, a batch
\* or the update that marks it.
OnItsWay(e) ==
  \/ e \in Claimable
  \/ \E r \in Replicas : e \in locks[r] \cup todo[r] \/ (phase[r] = "mark" /\ cur[r] = e)

\* A replica waits for a row lock only while another's claim statement runs.
WaitsForClaims ==
  \A r \in Replicas :
    phase[r] \in {"mark", "error"} /\ LockedByOther(r, cur[r]) =>
      \E s \in Replicas : phase[s] = "claim" /\ cur[r] \in locks[s]

NothingStranded == WaitsForClaims /\ \A e \in recorded \ dispatched : OnItsWay(e)

\* With fewer failures than attempts no recorded row is stranded, whatever replicas
\* stop, crash or compete (claimBatch, processOnce, onModuleDestroy), and no replica
\* waits in a circle: the safety half of EventuallyDispatched.
THEOREM RowsStayOnTheirWay ==
  ASSUME MaxFaults < MaxAttempts
  PROVE  Spec => []NothingStranded
<1>1. IInv => NothingStranded
  <2> SUFFICES ASSUME IInv PROVE NothingStranded
    OBVIOUS
  <2>1. WaitsForClaims
    BY DEF IInv, PhaseHolds, WaitsForClaims, LockedByOther
  <2>2. ASSUME NEW e \in recorded \ dispatched PROVE OnItsWay(e)
    <3>1. CASE attempts[e] < MaxAttempts
      <4>1. e \in Claimable \/ Locked(e)
        BY <3>1 DEF Claimable
      <4> QED BY <4>1 DEF Locked, OnItsWay
    <3>2. CASE ~(attempts[e] < MaxAttempts)
      <4>1. e \in Events \ dispatched /\ Working(e) \in SUBSET Replicas
        BY DEF IInv, TypeOK, Working
      <4>2. /\ MaxAttempts <= faults + Cardinality(Working(e)) /\ faults <= MaxFaults
            /\ faults \in Nat /\ MaxFaults \in Nat /\ MaxAttempts \in Nat
        BY <3>2, <4>1, OutboxAssumption DEF OutboxAssumption, IInv, TypeOK, AttemptsAccounted
      <4>3. Cardinality(Working(e)) # 0
        BY <4>2
      <4>4. Working(e) # {}
        BY <4>3, FS_EmptySet
      <4> QED BY <4>4 DEF Working, OnItsWay
    <3> QED BY <3>1, <3>2
  <2> QED BY <2>1, <2>2 DEF NothingStranded
<1> QED BY <1>1, Invariance, PTL

-----------------------------------------------------------------------------
(* The reply counter of a thread. *)

\* A reply has no row before its transaction has ended, and what is being
\* deleted is locked and live until the deletion commits.
RowsOwned ==
  /\ \A r \in Replies : send[r] # "done" => row[ReplyRow(r)] = "none"
  /\ \A d \in Deletes :
       /\ del[d].at # "idle" => del[d].of \in Rows /\ row[del[d].of] # "none"
       /\ del[d].at \in {"count", "commit"} =>
            row[del[d].of] = "live" /\ lock[del[d].of] = Deleter(d)
  /\ \A x \in bulk.of \cap Rows : row[x] # "none"

\* Only the deletion of a reply holds the root.
RootHeld ==
  \A d \in Deletes :
    /\ del[d].at = "count" => del[d].of \in ReplyRows
    /\ lock[Root] = Deleter(d) => del[d].at = "commit" /\ del[d].of \in ReplyRows

\* A reconciler that found a difference has found a drift.
Undrifted ==
  ~drifted => count = Cardinality(Live) /\ \A n \in Cleaners : rec[n].at # "update"

ThreadIInv == ThreadTypeOK /\ RowsOwned /\ RootHeld /\ Undrifted /\ IsFiniteSet(Live)
-----------------------------------------------------------------------------

\* The rows of the replies and of the copies are apart.
LEMMA RowFacts ==
  /\ ReplyRows \subseteq Rows /\ Rows = ReplyRows \cup CopyRows
  /\ \A x \in ReplyRows : x \notin CopyRows
  /\ Root \notin Rows
  /\ \A r \in Replies : ReplyRow(r) \in ReplyRows /\ ReplyRow(r) \in RowsOf(r)
  /\ \A r, q \in Replies : ReplyRow(q) \in RowsOf(r) => q = r
  /\ \A x \in ReplyRows : \E r \in Replies : x = ReplyRow(r)
<1>1. Rows = ReplyRows \cup CopyRows /\ ReplyRows \subseteq Rows
  BY DEF Rows
<1>2. \A x \in ReplyRows : x \notin CopyRows
  BY DEF ReplyRows, CopyRows, ReplyRow, CopyRow
<1>3. Root \notin Rows
  BY ThreadCountAssumption DEF ThreadCountAssumption
<1>4. \A r \in Replies : ReplyRow(r) \in ReplyRows
  BY DEF ReplyRows
<1>5. \A r \in Replies : ReplyRow(r)[1] = r
  BY DEF ReplyRow
<1>6. \A r \in Replies : ReplyRow(r) \in RowsOf(r)
  BY <1>1, <1>4, <1>5 DEF RowsOf
<1>7. \A r, q \in Replies : ReplyRow(q) \in RowsOf(r) => q = r
  BY <1>5 DEF RowsOf
<1>8. \A x \in ReplyRows : \E r \in Replies : x = ReplyRow(r)
  BY DEF ReplyRows
<1> QED BY <1>1, <1>2, <1>3, <1>4, <1>6, <1>7, <1>8

\* The owners of locks are apart.
LEMMA OwnerFacts ==
  /\ \A d, e \in Deletes : Deleter(d) = Deleter(e) => d = e
  /\ \A d \in Deletes : /\ Deleter(d) \in Owners /\ Deleter(d) # Bulk
                        /\ Deleter(d) # NoOwner
                        /\ \A r \in Replies : Deleter(d) # Sender(r)
  /\ \A r \in Replies : Sender(r) \in Owners /\ Sender(r) # NoOwner
  /\ Bulk \in Owners /\ Bulk # NoOwner
<1>1. \A d, e \in Deletes : Deleter(d) = Deleter(e) => d = e
  BY DEF Deleter
<1>2. \A d \in Deletes : Deleter(d) # Bulk /\ \A r \in Replies : Deleter(d) # Sender(r)
  BY DEF Deleter, Bulk, Sender
<1>3. /\ \A d \in Deletes : Deleter(d) \in Owners
      /\ \A r \in Replies : Sender(r) \in Owners
      /\ Bulk \in Owners
  BY DEF Owners
<1>4. NoOwner \notin Owners
  BY ThreadCountAssumption DEF ThreadCountAssumption
<1> QED BY <1>1, <1>2, <1>3, <1>4

\* The end of a transaction frees its locks and no others.
LEMMA ReleaseFacts ==
  ASSUME ThreadTypeOK, NEW who
  PROVE  /\ Release(who) \in [Rows \cup {Root} -> Owners \cup {NoOwner}]
         /\ \A x \in Rows \cup {Root} :
              Release(who)[x] = IF lock[x] = who THEN NoOwner ELSE lock[x]
BY DEF ThreadTypeOK, Release

\* The counter is zero and there is no reply.
LEMMA ThreadInitHolds == ThreadInit => ThreadIInv
<1> SUFFICES ASSUME ThreadInit PROVE ThreadIInv
  OBVIOUS
<1>1. ThreadTypeOK
  <2>1. bulks \in 0..MaxBulks /\ aborts \in 0..MaxAborts
    BY ThreadCountAssumption DEF ThreadCountAssumption, ThreadInit
  <2>2. /\ row \in [Rows -> {"none", "live", "deleted"}]
        /\ rootGone \in BOOLEAN /\ count \in Nat /\ drifted \in BOOLEAN
        /\ lock \in [Rows \cup {Root} -> Owners \cup {NoOwner}]
        /\ send \in [Replies -> {"none", "open", "counted", "done"}]
    BY DEF ThreadInit
  <2>3. del \in [Deletes -> [at : {"idle", "mark", "count", "commit", "done"},
                            of : Rows \cup {NoOwner}]]
    BY DEF ThreadInit
  <2>4. bulk \in [at : {"idle", "lock"}, of : SUBSET (Rows \cup {Root})]
    BY DEF ThreadInit
  <2>5. rec \in [Cleaners -> [at : {"idle", "update"}, actual : Nat]]
    BY DEF ThreadInit
  <2> QED BY <2>1, <2>2, <2>3, <2>4, <2>5 DEF ThreadTypeOK
<1>2. Live = {}
  BY RowFacts DEF ThreadInit, Live
<1>3. Undrifted /\ IsFiniteSet(Live)
  BY <1>2, FS_EmptySet DEF ThreadInit, Undrifted
<1>4. RowsOwned
  BY RowFacts DEF ThreadInit, RowsOwned
<1>5. RootHeld
  BY OwnerFacts DEF ThreadInit, RootHeld
<1> QED BY <1>1, <1>3, <1>4, <1>5 DEF ThreadIInv

\* As long as the rows, the counter and the reconcilers stay, so does the count.
LEMMA CountStays ==
  ASSUME ThreadIInv, UNCHANGED <<row, count, rec, drifted>>
  PROVE  Undrifted' /\ IsFiniteSet(Live')
BY DEF ThreadIInv, Undrifted, Live

-----------------------------------------------------------------------------
(* send. *)

\* A reply opens its transaction, counts itself, or is rolled back.
LEMMA ReplyHolds ==
  ASSUME ThreadIInv, NEW r \in Replies, Open(r) \/ CountUp(r) \/ AbortReply(r)
  PROVE  ThreadIInv'
<1>1. /\ UNCHANGED <<row, rootGone, count, del, bulk, rec, bulks, drifted>>
      /\ aborts' \in 0..MaxAborts
      /\ send[r] # "done" /\ send' \in [Replies -> {"none", "open", "counted", "done"}]
      /\ \A q \in Replies : q # r => send'[q] = send[q]
  BY ThreadCountAssumption
     DEF Open, CountUp, AbortReply, thread, ThreadIInv, ThreadTypeOK, ThreadCountAssumption
<1>2. /\ lock' \in [Rows \cup {Root} -> Owners \cup {NoOwner}]
      /\ \A x \in Rows \cup {Root}, d \in Deletes : lock'[x] = Deleter(d) <=> lock[x] = Deleter(d)
  <2>1. CASE Open(r)
    BY <2>1 DEF Open, ThreadIInv, ThreadTypeOK
  <2>2. CASE CountUp(r)
    BY <2>2, OwnerFacts DEF CountUp, ThreadIInv, ThreadTypeOK
  <2>3. CASE AbortReply(r)
    BY <2>3, OwnerFacts, ReleaseFacts DEF AbortReply, ThreadIInv
  <2> QED BY <2>1, <2>2, <2>3
<1>3. ThreadTypeOK'
  BY <1>1, <1>2 DEF ThreadIInv, ThreadTypeOK
<1>4. RowsOwned'
  BY <1>1, <1>2 DEF ThreadIInv, RowsOwned, ThreadTypeOK
<1>5. RootHeld'
  BY <1>1, <1>2 DEF ThreadIInv, RootHeld
<1> QED BY <1>1, <1>3, <1>4, <1>5, CountStays DEF ThreadIInv

\* The reply becomes live, and the counter goes up with it or drifts.
LEMMA CommitReplyHolds ==
  ASSUME ThreadIInv, NEW r \in Replies, CommitReply(r)
  PROVE  ThreadIInv'
<1> DEFINE x0 == ReplyRow(r)
<1>1. /\ send[r] = "counted" /\ send' = [send EXCEPT ![r] = "done"]
      /\ row' = [x \in Rows |-> IF x \in RowsOf(r) THEN "live" ELSE row[x]]
      /\ count' = IF Holds(Sender(r), Root) THEN count + 1 ELSE count
      /\ drifted' = (drifted \/ ~Holds(Sender(r), Root))
      /\ lock' = Release(Sender(r))
      /\ UNCHANGED <<rootGone, del, bulk, rec, bulks, aborts>>
  BY DEF CommitReply
<1>2. /\ lock' \in [Rows \cup {Root} -> Owners \cup {NoOwner}]
      /\ \A x \in Rows \cup {Root}, d \in Deletes : lock'[x] = Deleter(d) <=> lock[x] = Deleter(d)
  BY <1>1, OwnerFacts, ReleaseFacts DEF ThreadIInv
<1>3. ThreadTypeOK'
  BY <1>1, <1>2 DEF ThreadIInv, ThreadTypeOK
<1>4. x0 \in ReplyRows /\ x0 \in Rows /\ row[x0] = "none" /\ x0 \notin Live
  BY <1>1, RowFacts DEF ThreadIInv, RowsOwned, Live
<1>5. Live' = Live \cup {x0}
  <2>1. ASSUME NEW x \in ReplyRows PROVE x \in RowsOf(r) <=> x = x0
    BY RowFacts
  <2> QED BY <1>1, <1>4, <2>1, RowFacts DEF Live
<1>6. IsFiniteSet(Live') /\ Cardinality(Live') = Cardinality(Live) + 1
  BY <1>4, <1>5, FS_AddElement DEF ThreadIInv
<1>7. Undrifted'
  BY <1>1, <1>6 DEF ThreadIInv, Undrifted
<1>8. RowsOwned'
  <2>1. ASSUME NEW q \in Replies, send'[q] # "done" PROVE row'[ReplyRow(q)] = "none"
    <3>1. q # r /\ send[q] # "done"
      BY <1>1, <2>1 DEF ThreadIInv, ThreadTypeOK
    <3>2. ReplyRow(q) \notin RowsOf(r) /\ ReplyRow(q) \in Rows
      BY <3>1, RowFacts
    <3> QED BY <1>1, <3>1, <3>2 DEF ThreadIInv, RowsOwned
  <2>2. \A x \in Rows : /\ row[x] # "none" => row'[x] # "none"
                        /\ row[x] = "live" => row'[x] = "live"
    BY <1>1
  <2>3. ASSUME NEW d \in Deletes
        PROVE  /\ del'[d].at # "idle" => del'[d].of \in Rows /\ row'[del'[d].of] # "none"
               /\ del'[d].at \in {"count", "commit"} =>
                    row'[del'[d].of] = "live" /\ lock'[del'[d].of] = Deleter(d)
    BY <1>1, <1>2, <2>2 DEF ThreadIInv, RowsOwned
  <2>4. \A x \in bulk'.of \cap Rows : row'[x] # "none"
    BY <1>1, <2>2 DEF ThreadIInv, RowsOwned
  <2> QED BY <2>1, <2>3, <2>4 DEF RowsOwned
<1>9. RootHeld'
  BY <1>1, <1>2 DEF ThreadIInv, RootHeld
<1> QED BY <1>3, <1>6, <1>7, <1>8, <1>9 DEF ThreadIInv

-----------------------------------------------------------------------------
(* softDelete. *)

\* A deletion takes its row, marks it, counts it down, or is rolled back.
LEMMA DeletionHolds ==
  ASSUME ThreadIInv, NEW d \in Deletes,
         DelStart(d) \/ DelMark(d) \/ CountDown(d) \/ DelAbort(d)
  PROVE  ThreadIInv'
<1> DEFINE x0 == del[d].of
<1>0. del \in [Deletes -> [at : {"idle", "mark", "count", "commit", "done"},
                           of : Rows \cup {NoOwner}]]
  BY DEF ThreadIInv, ThreadTypeOK
<1>1. /\ UNCHANGED <<row, rootGone, count, send, bulk, rec, bulks, drifted>>
      /\ aborts' \in 0..MaxAborts
  BY ThreadCountAssumption
     DEF DelStart, DelMark, CountDown, DelAbort, thread, ThreadIInv, ThreadTypeOK,
         ThreadCountAssumption
<1>2. CASE DelStart(d)
  <2>1. PICK x \in Rows : row[x] # "none" /\ del' = [del EXCEPT ![d] = [at |-> "mark", of |-> x]]
    BY <1>2 DEF DelStart
  <2>2. lock' = lock /\ del[d].at = "idle"
    BY <1>2 DEF DelStart
  <2>3. ThreadTypeOK'
    BY <1>1, <2>1, <2>2 DEF ThreadIInv, ThreadTypeOK
  <2>4. RowsOwned' /\ RootHeld'
    BY <1>0, <1>1, <2>1, <2>2 DEF ThreadIInv, RowsOwned, RootHeld
  <2> QED BY <1>1, <2>3, <2>4, CountStays DEF ThreadIInv
<1>3. CASE DelMark(d)
  <2>1. /\ del[d].at = "mark" /\ x0 \in Rows /\ lock[x0] = NoOwner /\ row[x0] # "none"
    BY <1>3 DEF DelMark, ThreadIInv, RowsOwned
  <2>2. CASE row[x0] = "deleted"
    <3>1. del' = [del EXCEPT ![d].at = "done"] /\ lock' = lock
      BY <1>3, <2>2 DEF DelMark
    <3>2. ThreadTypeOK'
      BY <1>1, <3>1 DEF ThreadIInv, ThreadTypeOK
    <3>3. RowsOwned' /\ RootHeld'
      BY <1>0, <1>1, <2>1, <3>1 DEF ThreadIInv, RowsOwned, RootHeld
    <3> QED BY <1>1, <3>2, <3>3, CountStays DEF ThreadIInv
  <2>3. CASE row[x0] # "deleted"
    <3>1. /\ lock' = [lock EXCEPT ![x0] = Deleter(d)]
          /\ del' = [del EXCEPT ![d].at = IF x0 \in CopyRows THEN "commit" ELSE "count"]
      BY <1>3, <2>3 DEF DelMark
    <3>2. ThreadTypeOK'
      BY <1>1, <3>1, OwnerFacts DEF ThreadIInv, ThreadTypeOK
    <3>3. row[x0] = "live"
      BY <2>1, <2>3 DEF ThreadIInv, ThreadTypeOK
    <3>4. lock \in [Rows \cup {Root} -> Owners \cup {NoOwner}]
      BY DEF ThreadIInv, ThreadTypeOK
    <3>5. RowsOwned'
      <4>1. ASSUME NEW e \in Deletes
            PROVE  /\ del'[e].at # "idle" => del'[e].of \in Rows /\ row'[del'[e].of] # "none"
                   /\ del'[e].at \in {"count", "commit"} =>
                        row'[del'[e].of] = "live" /\ lock'[del'[e].of] = Deleter(e)
        <5>1. CASE e = d
          BY <1>0, <1>1, <2>1, <3>1, <3>3, <3>4, <5>1
        <5>2. CASE e # d
          <6>1. del'[e] = del[e]
            BY <1>0, <3>1, <5>2
          <6>2. del[e].at \in {"count", "commit"} => del[e].of # x0
            BY <2>1, OwnerFacts DEF ThreadIInv, RowsOwned
          <6> QED BY <1>1, <3>1, <3>4, <6>1, <6>2 DEF ThreadIInv, RowsOwned
        <5> QED BY <5>1, <5>2
      <4> QED BY <1>1, <4>1 DEF ThreadIInv, RowsOwned
    <3>6. RootHeld'
      BY <1>0, <2>1, <3>1, <3>4, RowFacts DEF ThreadIInv, RootHeld
    <3> QED BY <1>1, <3>2, <3>5, <3>6, CountStays DEF ThreadIInv
  <2> QED BY <2>2, <2>3
<1>4. CASE CountDown(d)
  <2>1. /\ del[d].at = "count" /\ lock[Root] = NoOwner
        /\ del' = [del EXCEPT ![d].at = "commit"]
        /\ lock' = IF rootGone THEN lock ELSE [lock EXCEPT ![Root] = Deleter(d)]
    BY <1>4 DEF CountDown
  <2>2. lock \in [Rows \cup {Root} -> Owners \cup {NoOwner}]
    BY DEF ThreadIInv, ThreadTypeOK
  <2>3. ThreadTypeOK'
    BY <1>1, <2>1, OwnerFacts DEF ThreadIInv, ThreadTypeOK
  <2>4. \A x \in Rows : lock'[x] = lock[x]
    BY <2>1, <2>2, RowFacts
  <2>5. RowsOwned'
    BY <1>0, <1>1, <2>1, <2>4 DEF ThreadIInv, RowsOwned
  <2>6. RootHeld'
    BY <1>0, <2>1, <2>2, OwnerFacts DEF ThreadIInv, RootHeld
  <2> QED BY <1>1, <2>3, <2>5, <2>6, CountStays DEF ThreadIInv
<1>5. CASE DelAbort(d)
  <2>1. /\ del[d].at \in {"count", "commit"} /\ del' = [del EXCEPT ![d].at = "done"]
        /\ lock' = Release(Deleter(d))
    BY <1>5 DEF DelAbort
  <2>2. /\ lock' \in [Rows \cup {Root} -> Owners \cup {NoOwner}]
        /\ \A x \in Rows \cup {Root} : lock'[x] = IF lock[x] = Deleter(d) THEN NoOwner ELSE lock[x]
    BY <2>1, ReleaseFacts DEF ThreadIInv
  <2>3. ThreadTypeOK'
    BY <1>1, <2>1, <2>2 DEF ThreadIInv, ThreadTypeOK
  <2>4. RowsOwned'
    BY <1>0, <1>1, <2>1, <2>2, OwnerFacts DEF ThreadIInv, RowsOwned
  <2>5. RootHeld'
    BY <1>0, <2>1, <2>2, OwnerFacts DEF ThreadIInv, RootHeld
  <2> QED BY <1>1, <2>3, <2>4, <2>5, CountStays DEF ThreadIInv
<1> QED BY <1>2, <1>3, <1>4, <1>5

\* A reply leaves, and the counter goes down with it or drifts; a copy leaves
\* and nothing else changes.
LEMMA DelCommitHolds ==
  ASSUME ThreadIInv, NEW d \in Deletes, DelCommit(d)
  PROVE  ThreadIInv'
<1> DEFINE x0 == del[d].of
<1>1. /\ del[d].at = "commit" /\ del' = [del EXCEPT ![d].at = "done"]
      /\ row' = [row EXCEPT ![x0] = "deleted"]
      /\ count' = IF Holds(Deleter(d), Root) /\ count > 0 THEN count - 1 ELSE count
      /\ drifted' = (drifted \/ (x0 \in ReplyRows /\ ~Holds(Deleter(d), Root)))
      /\ lock' = Release(Deleter(d))
      /\ UNCHANGED <<rootGone, send, bulk, rec, bulks, aborts>>
  BY DEF DelCommit
<1>2. /\ lock' \in [Rows \cup {Root} -> Owners \cup {NoOwner}]
      /\ \A x \in Rows \cup {Root} : lock'[x] = IF lock[x] = Deleter(d) THEN NoOwner ELSE lock[x]
  BY <1>1, ReleaseFacts DEF ThreadIInv
<1>3. /\ x0 \in Rows /\ row[x0] = "live" /\ lock[x0] = Deleter(d)
      /\ row \in [Rows -> {"none", "live", "deleted"}] /\ count \in Nat
      /\ del \in [Deletes -> [at : {"idle", "mark", "count", "commit", "done"},
                              of : Rows \cup {NoOwner}]]
  BY <1>1 DEF ThreadIInv, RowsOwned, ThreadTypeOK
<1>4. ThreadTypeOK'
  <2>1. count' \in Nat
    BY <1>1, <1>3
  <2>2. del' \in [Deletes -> [at : {"idle", "mark", "count", "commit", "done"},
                             of : Rows \cup {NoOwner}]]
    BY <1>1, <1>3
  <2>3. row' \in [Rows -> {"none", "live", "deleted"}] /\ drifted' \in BOOLEAN
    BY <1>1, <1>3 DEF ThreadIInv, ThreadTypeOK
  <2> QED BY <1>1, <1>2, <2>1, <2>2, <2>3 DEF ThreadIInv, ThreadTypeOK
<1>5. ASSUME x0 \in ReplyRows PROVE Undrifted' /\ IsFiniteSet(Live')
  <2>1. x0 \in Live /\ Live' = Live \ {x0}
    BY <1>1, <1>3, <1>5, RowFacts DEF Live
  <2>2. IsFiniteSet(Live') /\ Cardinality(Live') = Cardinality(Live) - 1
    BY <2>1, FS_RemoveElement DEF ThreadIInv
  <2>3. Cardinality(Live) \in Nat /\ Cardinality(Live') \in Nat
    BY <2>2, FS_CardinalityType DEF ThreadIInv
  <2>4. Undrifted'
    <3>1. rec' = rec
      BY <1>1
    <3>2. ~drifted' => ~drifted /\ Holds(Deleter(d), Root)
      BY <1>1, <1>5
    <3>3. ~drifted => count = Cardinality(Live) /\ \A n \in Cleaners : rec[n].at # "update"
      BY DEF ThreadIInv, Undrifted
    <3>4. ~drifted' => count' = Cardinality(Live')
      BY <1>1, <1>3, <2>2, <2>3, <3>2, <3>3
    <3> QED BY <3>1, <3>2, <3>3, <3>4 DEF Undrifted
  <2> QED BY <2>2, <2>4
<1>6. ASSUME x0 \notin ReplyRows PROVE Undrifted' /\ IsFiniteSet(Live')
  <2>1. ~Holds(Deleter(d), Root)
    BY <1>6 DEF ThreadIInv, RootHeld, Holds
  <2>2. Live' = Live
    BY <1>1, <1>3, <1>6, RowFacts DEF Live
  <2>3. count' = count /\ (drifted' <=> drifted) /\ rec' = rec
    BY <1>1, <1>6, <2>1
  <2>4. ~drifted => count = Cardinality(Live) /\ \A n \in Cleaners : rec[n].at # "update"
    BY DEF ThreadIInv, Undrifted
  <2>5. Undrifted'
    BY <2>2, <2>3, <2>4 DEF Undrifted
  <2> QED BY <2>2, <2>5 DEF ThreadIInv
<1>7. RowsOwned'
  <2>1. ASSUME NEW q \in Replies, send'[q] # "done" PROVE row'[ReplyRow(q)] = "none"
    <3>1. row[ReplyRow(q)] = "none" /\ ReplyRow(q) # x0
      BY <1>1, <1>3, <2>1 DEF ThreadIInv, RowsOwned
    <3> QED BY <1>1, <1>3, <3>1
  <2>2. \A x \in Rows : /\ row[x] # "none" => row'[x] # "none"
                        /\ x # x0 => row'[x] = row[x]
    BY <1>1, <1>3
  <2>3. ASSUME NEW e \in Deletes
        PROVE  /\ del'[e].at # "idle" => del'[e].of \in Rows /\ row'[del'[e].of] # "none"
               /\ del'[e].at \in {"count", "commit"} =>
                    row'[del'[e].of] = "live" /\ lock'[del'[e].of] = Deleter(e)
    <3>1. CASE e = d
      BY <1>1, <1>3, <2>2, <3>1
    <3>2. CASE e # d
      <4>1. del'[e] = del[e] /\ Deleter(e) # Deleter(d)
        BY <1>1, <1>3, <3>2, OwnerFacts
      <4> QED BY <1>2, <1>3, <2>2, <4>1 DEF ThreadIInv, RowsOwned
    <3> QED BY <3>1, <3>2
  <2>4. \A x \in bulk'.of \cap Rows : row'[x] # "none"
    BY <1>1, <2>2 DEF ThreadIInv, RowsOwned
  <2> QED BY <2>1, <2>3, <2>4 DEF RowsOwned
<1>8. RootHeld'
  BY <1>1, <1>2, <1>3, OwnerFacts DEF ThreadIInv, RootHeld
<1> QED BY <1>4, <1>5, <1>6, <1>7, <1>8 DEF ThreadIInv

-----------------------------------------------------------------------------
(* The root, bulkDelete and the reconciler. *)

\* The root is deleted, or the bulk deletion selects and locks its rows.
LEMMA RootAndSelectionHold ==
  ASSUME ThreadIInv, DeleteRoot \/ BulkSelect \/ BulkLock
  PROVE  ThreadIInv'
<1>1. /\ UNCHANGED <<row, count, send, del, rec, aborts, drifted>>
      /\ rootGone' \in BOOLEAN /\ bulks' \in 0..MaxBulks
  <2>1. UNCHANGED <<row, count, send, del, rec, aborts, drifted>>
    BY DEF DeleteRoot, BulkSelect, BulkLock, thread
  <2>2. rootGone' \in BOOLEAN
    BY DEF DeleteRoot, BulkSelect, BulkLock, thread, ThreadIInv, ThreadTypeOK
  <2>3. bulks' = bulks \/ (bulks < MaxBulks /\ bulks' = bulks + 1)
    BY DEF DeleteRoot, BulkSelect, BulkLock
  <2>4. bulks' \in 0..MaxBulks
    BY <2>3, ThreadCountAssumption DEF ThreadCountAssumption, ThreadIInv, ThreadTypeOK
  <2> QED BY <2>1, <2>2, <2>4
<1>2. /\ bulk' \in [at : {"idle", "lock"}, of : SUBSET (Rows \cup {Root})]
      /\ \A x \in bulk'.of \cap Rows : row[x] # "none"
  <2>1. CASE DeleteRoot
    BY <2>1 DEF DeleteRoot, ThreadIInv, ThreadTypeOK, RowsOwned
  <2>2. CASE BulkSelect
    <3>1. PICK T \in SUBSET {x \in Rows \cup {Root} : Deletable(x)} :
            bulk' = [at |-> "lock", of |-> T]
      BY <2>2 DEF BulkSelect
    <3> QED BY <3>1, RowFacts DEF Deletable
  <2>3. CASE BulkLock
    <3>1. bulk' = bulk \/ \E x \in bulk.of : bulk' = [bulk EXCEPT !.of = @ \ {x}]
      BY <2>3 DEF BulkLock
    <3> QED BY <3>1 DEF ThreadIInv, ThreadTypeOK, RowsOwned
  <2> QED BY <2>1, <2>2, <2>3
<1>3. /\ lock' \in [Rows \cup {Root} -> Owners \cup {NoOwner}]
      /\ \A x \in Rows \cup {Root}, d \in Deletes : lock'[x] = Deleter(d) <=> lock[x] = Deleter(d)
  <2>0. lock \in [Rows \cup {Root} -> Owners \cup {NoOwner}]
    BY DEF ThreadIInv, ThreadTypeOK
  <2>1. lock' = lock \/ \E x \in Rows \cup {Root} : lock[x] = NoOwner /\ lock' = [lock EXCEPT ![x] = Bulk]
    BY DEF DeleteRoot, BulkSelect, BulkLock, ThreadIInv, ThreadTypeOK
  <2> QED BY <2>0, <2>1, OwnerFacts
<1>4. ThreadTypeOK'
  BY <1>1, <1>2, <1>3 DEF ThreadIInv, ThreadTypeOK
<1>5. RowsOwned'
  <2>1. ASSUME NEW d \in Deletes, del[d].at \in {"count", "commit"}
        PROVE  lock'[del[d].of] = Deleter(d)
    BY <1>3, <2>1 DEF ThreadIInv, RowsOwned
  <2> QED BY <1>1, <1>2, <2>1 DEF ThreadIInv, RowsOwned
<1>6. RootHeld'
  BY <1>1, <1>3 DEF ThreadIInv, RootHeld
<1> QED BY <1>1, <1>4, <1>5, <1>6, CountStays DEF ThreadIInv

\* Replies that leave in bulk are a drift; no other row of the thread changes.
LEMMA BulkCommitHolds ==
  ASSUME ThreadIInv, BulkCommit
  PROVE  ThreadIInv'
<1>1. /\ \A x \in bulk.of : lock[x] = Bulk
      /\ bulk' = [at |-> "idle", of |-> {}]
      /\ row' = [x \in Rows |-> IF x \in bulk.of THEN "deleted" ELSE row[x]]
      /\ rootGone' = (rootGone \/ Root \in bulk.of)
      /\ drifted' = (drifted \/ bulk.of \cap ReplyRows # {})
      /\ lock' = Release(Bulk)
      /\ UNCHANGED <<count, send, del, rec, bulks, aborts>>
  BY DEF BulkCommit, Holds
<1>2. /\ lock' \in [Rows \cup {Root} -> Owners \cup {NoOwner}]
      /\ \A x \in Rows \cup {Root}, d \in Deletes : lock'[x] = Deleter(d) <=> lock[x] = Deleter(d)
  BY <1>1, OwnerFacts, ReleaseFacts DEF ThreadIInv
<1>3. ThreadTypeOK'
  BY <1>1, <1>2 DEF ThreadIInv, ThreadTypeOK
<1>4. IsFiniteSet(Live') /\ (bulk.of \cap ReplyRows = {} => Live' = Live)
  <2>1. Live' = Live \ bulk.of
    BY <1>1, RowFacts DEF Live
  <2>2. IsFiniteSet(Live')
    BY <2>1, FS_Subset DEF ThreadIInv
  <2>3. Live \subseteq ReplyRows
    BY DEF Live
  <2> QED BY <2>1, <2>2, <2>3
<1>5. Undrifted'
  BY <1>1, <1>4 DEF ThreadIInv, Undrifted
<1>6. RowsOwned'
  <2>1. ASSUME NEW q \in Replies, send'[q] # "done" PROVE row'[ReplyRow(q)] = "none"
    BY <1>1, <2>1, RowFacts DEF ThreadIInv, RowsOwned
  <2>2. \A x \in Rows : /\ row[x] # "none" => row'[x] # "none"
                        /\ x \notin bulk.of => row'[x] = row[x]
    BY <1>1
  <2>3. ASSUME NEW e \in Deletes
        PROVE  /\ del'[e].at # "idle" => del'[e].of \in Rows /\ row'[del'[e].of] # "none"
               /\ del'[e].at \in {"count", "commit"} =>
                    row'[del'[e].of] = "live" /\ lock'[del'[e].of] = Deleter(e)
    <3>1. del[e].at \in {"count", "commit"} => del[e].of \notin bulk.of
      BY <1>1, OwnerFacts DEF ThreadIInv, RowsOwned
    <3> QED BY <1>1, <1>2, <2>2, <3>1 DEF ThreadIInv, RowsOwned
  <2> QED BY <1>1, <2>1, <2>3 DEF RowsOwned
<1>7. RootHeld'
  BY <1>1, <1>2 DEF ThreadIInv, RootHeld
<1> QED BY <1>3, <1>4, <1>5, <1>6, <1>7 DEF ThreadIInv

\* The database breaks a deadlock by rolling a deletion back.
LEMMA DeadlockHolds ==
  ASSUME ThreadIInv, NEW d \in Deletes, BreakDeadlock(d)
  PROVE  ThreadIInv'
<1>1. UNCHANGED <<row, rootGone, count, send, rec, bulks, aborts, drifted>>
  BY DEF BreakDeadlock, thread
<1>2. CASE bulk' = [at |-> "idle", of |-> {}] /\ lock' = Release(Bulk) /\ del' = del
  <2>1. /\ lock' \in [Rows \cup {Root} -> Owners \cup {NoOwner}]
        /\ \A x \in Rows \cup {Root}, e \in Deletes : lock'[x] = Deleter(e) <=> lock[x] = Deleter(e)
    BY <1>2, OwnerFacts, ReleaseFacts DEF ThreadIInv
  <2>2. ThreadTypeOK'
    BY <1>1, <1>2, <2>1 DEF ThreadIInv, ThreadTypeOK
  <2>3. RowsOwned' /\ RootHeld'
    BY <1>1, <1>2, <2>1 DEF ThreadIInv, RowsOwned, RootHeld
  <2> QED BY <1>1, <2>2, <2>3, CountStays DEF ThreadIInv
<1>3. CASE del' = [del EXCEPT ![d].at = "done"] /\ lock' = Release(Deleter(d)) /\ bulk' = bulk
  <2>1. /\ lock' \in [Rows \cup {Root} -> Owners \cup {NoOwner}]
        /\ \A x \in Rows \cup {Root} : lock'[x] = IF lock[x] = Deleter(d) THEN NoOwner ELSE lock[x]
    BY <1>3, ReleaseFacts DEF ThreadIInv
  <2>2. /\ del \in [Deletes -> [at : {"idle", "mark", "count", "commit", "done"},
                                of : Rows \cup {NoOwner}]]
        /\ del[d].at = "count"
    BY DEF ThreadIInv, ThreadTypeOK, BreakDeadlock, Deadlocked
  <2>3. ThreadTypeOK'
    BY <1>1, <1>3, <2>1 DEF ThreadIInv, ThreadTypeOK
  <2>4. RowsOwned'
    BY <1>1, <1>3, <2>1, <2>2, OwnerFacts DEF ThreadIInv, RowsOwned
  <2>5. RootHeld'
    BY <1>3, <2>1, <2>2, OwnerFacts DEF ThreadIInv, RootHeld
  <2> QED BY <1>1, <2>3, <2>4, <2>5, CountStays DEF ThreadIInv
<1> QED BY <1>2, <1>3 DEF BreakDeadlock

\* The reconciler finds a difference, and writes, only after a drift.
LEMMA ReconcileHolds ==
  ASSUME ThreadIInv, NEW n \in Cleaners, Reconcile(n)
  PROVE  ThreadIInv'
<1>0. rec \in [Cleaners -> [at : {"idle", "update"}, actual : Nat]]
  BY DEF ThreadIInv, ThreadTypeOK
<1>1. /\ UNCHANGED <<row, rootGone, lock, send, del, bulk, bulks, aborts, drifted>>
      /\ drifted
      /\ rec' \in [Cleaners -> [at : {"idle", "update"}, actual : Nat]] /\ count' \in Nat
  <2>1. CASE RecRead(n)
    <3>1. Cardinality(Live) \in Nat
      BY FS_CardinalityType DEF ThreadIInv
    <3> QED BY <1>0, <2>1, <3>1 DEF RecRead, Actual, thread, ThreadIInv, ThreadTypeOK, Undrifted
  <2>2. CASE RecUpdate(n)
    BY <1>0, <2>2 DEF RecUpdate, ThreadIInv, ThreadTypeOK, Undrifted
  <2> QED BY <2>1, <2>2 DEF Reconcile
<1>2. ThreadTypeOK'
  BY <1>1 DEF ThreadIInv, ThreadTypeOK
<1>3. RowsOwned' /\ RootHeld'
  BY <1>1 DEF ThreadIInv, RowsOwned, RootHeld
<1>4. Undrifted' /\ IsFiniteSet(Live')
  BY <1>1 DEF ThreadIInv, Undrifted, Live
<1> QED BY <1>2, <1>3, <1>4 DEF ThreadIInv

\* Every step keeps the invariant.
LEMMA ThreadStepHolds == ThreadIInv /\ [ThreadNext]_threadVars => ThreadIInv'
<1> SUFFICES ASSUME ThreadIInv, [ThreadNext]_threadVars PROVE ThreadIInv'
  OBVIOUS
<1>1. ASSUME NEW r \in Replies, Open(r) \/ SendReply(r) \/ AbortReply(r) PROVE ThreadIInv'
  BY <1>1, ReplyHolds, CommitReplyHolds DEF SendReply
<1>2. ASSUME NEW d \in Deletes, DelStart(d) \/ SoftDelete(d) \/ DelAbort(d) \/ BreakDeadlock(d)
      PROVE  ThreadIInv'
  BY <1>2, DeletionHolds, DelCommitHolds, DeadlockHolds DEF SoftDelete
<1>3. ASSUME DeleteRoot \/ BulkSelect \/ BulkDelete PROVE ThreadIInv'
  BY <1>3, RootAndSelectionHold, BulkCommitHolds DEF BulkDelete
<1>4. ASSUME NEW n \in Cleaners, Reconcile(n) PROVE ThreadIInv'
  BY <1>4, ReconcileHolds
<1>5. CASE UNCHANGED threadVars
  BY <1>5 DEF threadVars, thread, ThreadIInv, ThreadTypeOK, RowsOwned, RootHeld, Undrifted, Live
<1> QED BY <1>1, <1>2, <1>3, <1>4, <1>5 DEF ThreadNext

\* FR-TH-16, for any number of replies, copies, deletions, bulk deletions and
\* reconcilers: while nothing was left out of the counter, replyCount is the
\* number of live replies.
THEOREM CountIsExact == ThreadSpec => []ThreadTypeOK /\ []CountExact
<1>1. ThreadInit => ThreadIInv
  BY ThreadInitHolds
<1>2. ThreadIInv /\ [ThreadNext]_threadVars => ThreadIInv'
  BY ThreadStepHolds
<1>3. ThreadIInv => ThreadTypeOK /\ CountExact
  BY DEF ThreadIInv, Undrifted, CountExact
<1> QED BY <1>1, <1>2, <1>3, PTL DEF ThreadSpec

-----------------------------------------------------------------------------
(* The locks of a thread: nobody waits for ever but in the one deadlock that   *)
(* the database breaks.                                                       *)

\* Who holds a lock is at work on it: a reply has the root and is about to
\* commit, a deletion its row and then the root, a bulk deletion what it selected.
HoldersWork ==
  \A x \in Rows \cup {Root} :
    /\ \A r \in Replies : lock[x] = Sender(r) => send[r] = "counted"
    /\ \A d \in Deletes :
         lock[x] = Deleter(d) =>
           \/ del[d].at = "commit"
           \/ del[d].at = "count" /\ x = del[d].of
    /\ lock[x] = Bulk => bulk.at = "lock" /\ x \in bulk.of

\* Somebody holds locks and has its next step: CommitReply, DelCommit, CountDown,
\* BulkCommit or BulkLock.
HolderGoesOn ==
  \/ \E r \in Replies : send[r] = "counted"
  \/ \E d \in Deletes : del[d].at = "commit"
  \/ lock[Root] = NoOwner /\ \E d \in Deletes : del[d].at = "count"
  \/ /\ bulk.at = "lock"
     /\ (\A x \in bulk.of : Holds(Bulk, x)) \/ \E x \in bulk.of : lock[x] = NoOwner

\* While anything is locked, a holder goes on, or the database has a deadlock of a
\* bulk deletion and a soft deletion to break (bulkDelete and softDelete take the
\* root and the reply in opposite orders); no other cycle of waiting exists.
LocksAreLeft ==
  (\E x \in Rows \cup {Root} : lock[x] # NoOwner) =>
    HolderGoesOn \/ \E d \in Deletes : Deadlocked(d)

\* Two replies are two owners, and neither is the bulk deletion.
LEMMA SenderFacts ==
  /\ \A r, q \in Replies : Sender(r) = Sender(q) => r = q
  /\ \A r \in Replies : Sender(r) # Bulk /\ Sender(r) # NoOwner
BY OwnerFacts DEF Sender, Bulk

\* The transactions of replies keep it.
LEMMA SendersWork ==
  ASSUME ThreadIInv, HoldersWork, NEW r \in Replies,
         Open(r) \/ CountUp(r) \/ CommitReply(r) \/ AbortReply(r)
  PROVE  HoldersWork'
<1>1. /\ UNCHANGED <<del, bulk>>
      /\ \A q \in Replies \ {r} : send'[q] = send[q]
  BY DEF Open, CountUp, CommitReply, AbortReply, ThreadIInv, ThreadTypeOK
<1>2. CASE Open(r) \/ CountUp(r)
  <2>1. send'[r] = "counted" \/ (send[r] = "none" /\ send'[r] = "open" /\ UNCHANGED lock)
    BY <1>2 DEF Open, CountUp, ThreadIInv, ThreadTypeOK
  <2>2. \A x \in Rows \cup {Root} : lock'[x] = lock[x] \/ lock'[x] = Sender(r)
    BY <1>2 DEF Open, CountUp, ThreadIInv, ThreadTypeOK
  <2> QED BY <1>1, <2>1, <2>2, OwnerFacts, SenderFacts DEF HoldersWork
<1>3. CASE CommitReply(r) \/ AbortReply(r)
  <2>1. \A x \in Rows \cup {Root} : lock'[x] = IF lock[x] = Sender(r) THEN NoOwner ELSE lock[x]
    BY <1>3, ReleaseFacts DEF CommitReply, AbortReply, ThreadIInv
  <2> QED BY <1>1, <2>1, OwnerFacts DEF HoldersWork
<1> QED BY <1>2, <1>3

\* The deletions keep it.
LEMMA DeletersWork ==
  ASSUME ThreadIInv, HoldersWork, NEW d \in Deletes,
         DelStart(d) \/ DelMark(d) \/ CountDown(d) \/ DelCommit(d) \/ DelAbort(d)
  PROVE  HoldersWork'
<1>1. /\ UNCHANGED <<send, bulk>>
      /\ \A e \in Deletes \ {d} : del'[e] = del[e]
  BY DEF DelStart, DelMark, CountDown, DelCommit, DelAbort, ThreadIInv, ThreadTypeOK
<1>2. CASE DelStart(d) \/ DelMark(d) \/ CountDown(d)
  <2>1. \A x \in Rows \cup {Root} :
          \/ lock'[x] = lock[x]
          \/ lock'[x] = Deleter(d) /\ (del'[d].at = "commit" \/ (del'[d].at = "count" /\ x = del'[d].of))
    <3>0. \A x \in Rows \cup {Root} : x \in DOMAIN lock
      BY DEF ThreadIInv, ThreadTypeOK
    <3>1. CASE DelStart(d)
      BY <3>1 DEF DelStart
    <3>2. CASE DelMark(d)
      <4>1. CASE UNCHANGED lock
        BY <4>1
      <4>2. CASE /\ lock' = [lock EXCEPT ![del[d].of] = Deleter(d)]
                 /\ \E c \in {"commit", "count"} : del' = [del EXCEPT ![d].at = c]
        <5>0. \A x \in DOMAIN lock : lock'[x] = lock[x] \/ (x = del[d].of /\ lock'[x] = Deleter(d))
          BY <4>2
        <5>1. del'[d].at \in {"commit", "count"} /\ del'[d].of = del[d].of
          BY <4>2 DEF ThreadIInv, ThreadTypeOK
        <5> QED BY <3>0, <5>0, <5>1
      <4> QED BY <3>2, <4>1, <4>2 DEF DelMark
    <3>3. CASE CountDown(d)
      <4>1. del'[d].at = "commit"
        BY <3>3 DEF CountDown, ThreadIInv, ThreadTypeOK
      <4>2. UNCHANGED lock \/ lock' = [lock EXCEPT ![Root] = Deleter(d)]
        BY <3>3 DEF CountDown
      <4>3. \A x \in DOMAIN lock : lock'[x] = lock[x] \/ lock'[x] = Deleter(d)
        BY <4>2
      <4> QED BY <3>0, <4>1, <4>3
    <3> QED BY <1>2, <3>1, <3>2, <3>3
  <2>2. del[d].at \in {"idle", "mark"} \/ del'[d].at = "commit"
    BY <1>2 DEF DelStart, DelMark, CountDown, ThreadIInv, ThreadTypeOK
  <2> QED BY <1>1, <2>1, <2>2, OwnerFacts DEF HoldersWork
<1>3. CASE DelCommit(d) \/ DelAbort(d)
  <2>1. \A x \in Rows \cup {Root} : lock'[x] = IF lock[x] = Deleter(d) THEN NoOwner ELSE lock[x]
    BY <1>3, ReleaseFacts DEF DelCommit, DelAbort, ThreadIInv
  <2> QED BY <1>1, <2>1, OwnerFacts DEF HoldersWork
<1> QED BY <1>2, <1>3

\* The bulk deletion keeps it, and so does the end of its deadlock.
LEMMA BulkWorks ==
  ASSUME ThreadIInv, HoldersWork, BulkSelect \/ BulkLock \/ BulkCommit
  PROVE  HoldersWork'
<1>1. UNCHANGED <<send, del>>
  BY DEF BulkSelect, BulkLock, BulkCommit
<1>2. CASE BulkSelect
  BY <1>1, <1>2 DEF BulkSelect, HoldersWork
<1>3. CASE BulkLock
  <2>1. PICK x \in bulk.of :
          /\ lock[x] = NoOwner
          /\ \/ lock' = [lock EXCEPT ![x] = Bulk] /\ UNCHANGED bulk
             \/ bulk' = [bulk EXCEPT !.of = @ \ {x}] /\ UNCHANGED lock
    BY <1>3 DEF BulkLock
  <2>2. bulk.at = "lock" /\ bulk'.at = "lock" /\ bulk.of \ {x} \subseteq bulk'.of
    BY <1>3, <2>1 DEF BulkLock, ThreadIInv, ThreadTypeOK
  <2>3. \A y \in Rows \cup {Root} : lock'[y] = lock[y] \/ (y = x /\ lock'[y] = Bulk /\ bulk' = bulk)
    BY <2>1 DEF ThreadIInv, ThreadTypeOK
  <2> QED BY <1>1, <2>1, <2>2, <2>3, OwnerFacts, SenderFacts DEF HoldersWork
<1>4. CASE BulkCommit
  <2>1. \A x \in Rows \cup {Root} : lock'[x] = IF lock[x] = Bulk THEN NoOwner ELSE lock[x]
    BY <1>4, ReleaseFacts DEF BulkCommit, ThreadIInv
  <2> QED BY <1>1, <2>1, OwnerFacts DEF HoldersWork
<1> QED BY <1>2, <1>3, <1>4

LEMMA BreakWorks ==
  ASSUME ThreadIInv, HoldersWork, NEW d \in Deletes, BreakDeadlock(d)
  PROVE  HoldersWork'
<1>1. CASE bulk' = [at |-> "idle", of |-> {}] /\ lock' = Release(Bulk) /\ UNCHANGED <<del, send>>
  <2>1. \A x \in Rows \cup {Root} : lock'[x] = IF lock[x] = Bulk THEN NoOwner ELSE lock[x]
    BY <1>1, ReleaseFacts DEF ThreadIInv
  <2> QED BY <1>1, <2>1, OwnerFacts DEF HoldersWork
<1>2. CASE del' = [del EXCEPT ![d].at = "done"] /\ lock' = Release(Deleter(d)) /\ UNCHANGED <<bulk, send>>
  <2>1. \A x \in Rows \cup {Root} : lock'[x] = IF lock[x] = Deleter(d) THEN NoOwner ELSE lock[x]
    BY <1>2, ReleaseFacts DEF ThreadIInv
  <2>2. \A e \in Deletes \ {d} : del'[e] = del[e]
    BY <1>2 DEF ThreadIInv, ThreadTypeOK
  <2> QED BY <1>2, <2>1, <2>2, OwnerFacts DEF HoldersWork
<1> QED BY <1>1, <1>2 DEF BreakDeadlock

\* Whoever the bulk deletion waits for goes on, or waits for the root it has.
LEMMA BulkIsLeft ==
  ASSUME ThreadIInv, HoldersWork, bulk.at = "lock"
  PROVE  HolderGoesOn \/ \E d \in Deletes : Deadlocked(d)
<1>1. CASE (\A x \in bulk.of : Holds(Bulk, x)) \/ \E x \in bulk.of : lock[x] = NoOwner
  BY <1>1 DEF HolderGoesOn
<1>2. CASE \E x \in bulk.of : lock[x] # Bulk /\ lock[x] # NoOwner
  <2>1. PICK x \in bulk.of : lock[x] # Bulk /\ lock[x] # NoOwner
    BY <1>2
  <2>2. x \in Rows \cup {Root} /\ lock[x] \in Owners /\ lock[Root] \in Owners \cup {NoOwner}
    BY <2>1 DEF ThreadIInv, ThreadTypeOK
  <2>3. CASE \E r \in Replies : lock[x] = Sender(r)
    BY <2>2, <2>3 DEF HoldersWork, HolderGoesOn
  <2>4. ASSUME NEW d \in Deletes, lock[x] = Deleter(d)
        PROVE  HolderGoesOn \/ Deadlocked(d)
    <3>1. CASE del[d].at = "commit"
      BY <3>1 DEF HolderGoesOn
    <3>2. CASE del[d].at = "count" /\ x = del[d].of
      <4>1. CASE lock[Root] = NoOwner
        BY <3>2, <4>1 DEF HolderGoesOn
      <4>2. CASE lock[Root] = Bulk
        BY <2>1, <3>2, <4>2 DEF Deadlocked, Holds
      <4>3. CASE \E r \in Replies : lock[Root] = Sender(r)
        BY <4>3 DEF HoldersWork, HolderGoesOn
      <4>4. CASE \E e \in Deletes : lock[Root] = Deleter(e)
        BY <4>4 DEF ThreadIInv, RootHeld, HolderGoesOn
      <4> QED BY <2>2, <4>1, <4>2, <4>3, <4>4 DEF Owners
    <3> QED BY <2>2, <2>4, <3>1, <3>2 DEF HoldersWork
  <2> QED BY <2>1, <2>2, <2>3, <2>4 DEF Owners
<1> QED BY <1>1, <1>2 DEF Holds

\* No transaction of a thread waits for another in a circle, but a bulk deletion for
\* a soft deletion that waits for the root (messages.service.ts: bulkDelete,
\* softDelete and send take their row locks in different orders).
THEOREM OneDeadlockOnly == ThreadSpec => []LocksAreLeft
<1>1. ThreadInit => HoldersWork
  BY OwnerFacts, SenderFacts DEF ThreadInit, HoldersWork
<1>2. ThreadIInv /\ HoldersWork /\ [ThreadNext]_threadVars => HoldersWork'
  <2> SUFFICES ASSUME ThreadIInv, HoldersWork, [ThreadNext]_threadVars PROVE HoldersWork'
    OBVIOUS
  <2>1. CASE DeleteRoot
    BY <2>1 DEF DeleteRoot, HoldersWork
  <2>2. ASSUME NEW n \in Cleaners, Reconcile(n) PROVE HoldersWork'
    BY <2>2 DEF Reconcile, RecRead, RecUpdate, HoldersWork
  <2>3. CASE UNCHANGED threadVars
    BY <2>3 DEF threadVars, HoldersWork
  <2> QED BY <2>1, <2>2, <2>3, SendersWork, DeletersWork, BulkWorks, BreakWorks
          DEF ThreadNext, SendReply, SoftDelete, BulkDelete
<1>3. ThreadIInv /\ HoldersWork => LocksAreLeft
  <2> SUFFICES ASSUME ThreadIInv, HoldersWork, NEW x \in Rows \cup {Root}, lock[x] # NoOwner
               PROVE  HolderGoesOn \/ \E d \in Deletes : Deadlocked(d)
    BY DEF LocksAreLeft
  <2>1. lock[x] \in Owners /\ lock[Root] \in Owners \cup {NoOwner}
    BY DEF ThreadIInv, ThreadTypeOK
  <2>2. CASE \E r \in Replies : lock[x] = Sender(r)
    BY <2>2 DEF HoldersWork, HolderGoesOn
  <2>3. CASE lock[x] = Bulk \/ lock[Root] = Bulk
    BY <2>3, BulkIsLeft DEF HoldersWork
  <2>4. CASE \E r \in Replies : lock[Root] = Sender(r)
    BY <2>4 DEF HoldersWork, HolderGoesOn
  <2>5. CASE \E e \in Deletes : lock[Root] = Deleter(e)
    BY <2>5 DEF ThreadIInv, RootHeld, HolderGoesOn
  <2>6. ASSUME NEW d \in Deletes, lock[x] = Deleter(d), lock[Root] = NoOwner
        PROVE  HolderGoesOn
    BY <2>6 DEF HoldersWork, HolderGoesOn
  <2> QED BY <2>1, <2>2, <2>3, <2>4, <2>5, <2>6 DEF Owners
<1>4. ThreadInit => ThreadIInv
  BY ThreadInitHolds
<1>5. ThreadIInv /\ [ThreadNext]_threadVars => ThreadIInv'
  BY ThreadStepHolds
<1> QED BY <1>1, <1>2, <1>3, <1>4, <1>5, PTL DEF ThreadSpec

-----------------------------------------------------------------------------
(* One logical send. *)

Answers == {"none", "ok", "refused", "error", "ask"}
TryRows == [at : Running \cup {"unsent", "done", "dead"}, att : BOOLEAN, sure : BOOLEAN,
            ans : Answers]

SendTypes ==
  /\ draft \in Drafts /\ copies \in Nat /\ idem \in BOOLEAN
  /\ timer \in BOOLEAN /\ late \in BOOLEAN
  /\ awaited \in Tries \cup {NoTry} /\ asking \in Tries \cup {NoTry}
  /\ fetch \in {"none", "with", "without"}
  /\ try \in [Tries -> TryRows]
  /\ stored \in [is : BOOLEAN, att : BOOLEAN, edited : BOOLEAN]

\* Whoever holds the key's INSERT finds no row, whoever is past it a row, and an answer
\* is what the row or a gate says.
TrySound(t) ==
  /\ try[t].at = "unsent" => ~try[t].att
  /\ try[t].at # "done" => try[t].ans = "none"
  /\ try[t].at = "commit" => holder = t /\ ~stored.is
  /\ try[t].at \in {"warm", "lookup"} => stored.is
  /\ try[t].ans = "ok" => stored.is
  /\ try[t].ans = "refused" => draft.slow \/ draft.gated \/ stored.edited
TriesAreSound == \A t \in Tries : TrySound(t)

\* The tries are sent one after the other, and one that names the attachments again
\* comes after the others that did were sent back for a confirmation.
TriesInOrder ==
  \A u, t \in Tries :
    u < t => /\ try[t].at # "unsent" => try[u].at # "unsent"
             /\ try[t].att /\ try[u].att => try[u].ans = "ask"

\* The row is of a try that was sent, and so are its attachments; what names the row
\* anywhere comes after it.
RowIsSound ==
  /\ stores = IF stored.is THEN 1 ELSE 0
  /\ stored.is => try[1].at # "unsent"
  /\ stored.att => \E t \in Tries : /\ try[t].att /\ try[t].ans # "ask"
                                    /\ try[t].at \in {"warm", "done", "dead"}
  /\ stored.att \/ stored.edited => stored.is
  /\ idem \/ fetch = "with" \/ copies > 0 => stored.is

\* The list has the row or its bubble, both when a confirmation came late; a row that
\* was echoed is there, or was wiped.
ListIsSound ==
  /\ copies <= 2
  /\ copies = 2 => late /\ bubble = "none" /\ awaited = NoTry /\ asking = NoTry
  /\ bubble # "none" => late \/ copies = 0
  /\ StoredIsShown

\* The dialog is about the last try, and no request is awaited while it is open.
RequestIsSound ==
  /\ asking # NoTry => awaited = NoTry /\ try[asking].ans = "ask"
  /\ \A t, u \in Tries : t \in {awaited, asking} /\ t < u => try[u].at = "unsent"
  /\ PendingIsOwned

SendIInv ==
  /\ SendTypes /\ TriesAreSound /\ TriesInOrder
  /\ RowIsSound /\ ListIsSound /\ RequestIsSound

\* The invariant holds when nothing is sent.
LEMMA SendInitHolds == SendInit => SendIInv
<1> SUFFICES ASSUME SendInit PROVE SendIInv
  OBVIOUS
<1>1. 1 \in Tries /\ \A t \in Tries : t # NoTry
  BY MessageSendAssumption DEF Tries, NoTry
<1>2. \A t \in Tries : try[t] = Unsent
  BY DEF SendInit
<1>3. SendTypes
  BY DEF SendInit, SendTypes, TryRows, Answers, Unsent, NoRow, Running
<1>4. TriesAreSound /\ TriesInOrder
  BY <1>2 DEF TriesAreSound, TrySound, TriesInOrder, Unsent
<1>5. RowIsSound /\ ListIsSound
  BY DEF SendInit, RowIsSound, ListIsSound, StoredIsShown, NoRow
<1>6. RequestIsSound
  BY <1>1 DEF SendInit, RequestIsSound, PendingIsOwned
<1> QED BY <1>3, <1>4, <1>5, <1>6 DEF SendIInv

\* A try is sent: if it names the attachments, no other try does but to be asked.
LEMMA MutateHolds ==
  ASSUME SendIInv, NEW t \in Tries, NEW att \in BOOLEAN, NEW sure \in BOOLEAN,
         Mutate(t, att, sure), copies <= 1,
         att => \A u \in Tries : try[u].att => try[u].ans = "ask"
  PROVE  SendIInv'
<1>0. SendTypes /\ TriesAreSound /\ TriesInOrder /\ RowIsSound /\ ListIsSound /\ RequestIsSound
  BY DEF SendIInv
<1>1. /\ try[t].at = "unsent" /\ \A u \in 1..(t - 1) : try[u].at # "unsent"
      /\ try'[t] = [at |-> "wire", att |-> att, sure |-> sure, ans |-> "none"]
      /\ \A u \in Tries \ {t} : try'[u] = try[u]
      /\ bubble' = "pending" /\ fetch' = "none" /\ awaited' = t /\ timer' = TRUE /\ asking' = NoTry
      /\ UNCHANGED <<draft, copies, echoes, fetches, wiped, stored, stores, holder, idem>>
  BY <1>0 DEF Mutate, server, SendTypes
<1>2. try' \in [Tries -> TryRows]
  BY <1>0, <1>1 DEF Mutate, SendTypes, TryRows, Answers, Running
<1>3. late' = (late \/ (bubble = "none" /\ copies > 0))
  BY DEF Mutate
<1>4. late' \in BOOLEAN /\ (late => late') /\ (bubble = "none" /\ copies > 0 => late')
  BY ONLY <1>3, Zenon
<1>5. SendTypes'
  BY <1>0, <1>1, <1>2, <1>4 DEF SendTypes
<1>6. 1 \in Tries /\ t \in Nat \ {0} /\ \A u \in Tries : u \in Nat /\ u > 0 /\ u # NoTry
  BY MessageSendAssumption DEF MessageSendAssumption, Tries, NoTry
<1>7. /\ \A u \in Tries : u < t => try[u].at # "unsent"
      /\ \A u \in Tries : t < u => try[u].at = "unsent"
  BY <1>0, <1>1, <1>6 DEF TriesInOrder
<1>8. TriesAreSound'
  BY <1>0, <1>1 DEF TriesAreSound, TrySound
<1>9. TriesInOrder'
  <2> SUFFICES ASSUME NEW u \in Tries, NEW v \in Tries, u < v
               PROVE  /\ try'[v].at # "unsent" => try'[u].at # "unsent"
                      /\ try'[v].att /\ try'[u].att => try'[u].ans = "ask"
    BY DEF TriesInOrder
  <2>1. CASE u = t
    BY <1>0, <1>1, <1>6, <1>7, <2>1 DEF TriesAreSound, TrySound
  <2>2. CASE v = t
    <3>1. u \in Tries \ {t} /\ u < t
      BY <1>6, <2>2
    <3>2. try'[u] = try[u] /\ try[u].at # "unsent"
      BY <1>1, <1>7, <3>1
    <3>3. att /\ try[u].att => try[u].ans = "ask"
      OBVIOUS
    <3> QED BY <1>1, <2>2, <3>2, <3>3
  <2>3. CASE u # t /\ v # t
    BY <1>0, <1>1, <2>3 DEF TriesInOrder
  <2> QED BY <2>1, <2>2, <2>3
<1>10. RowIsSound'
  <2>1. try'[1].at # "unsent"
    BY <1>1, <1>6, <1>7
  <2>2. stored.att => \E w \in Tries : /\ try'[w].att /\ try'[w].ans # "ask"
                                       /\ try'[w].at \in {"warm", "done", "dead"}
    BY <1>0, <1>1 DEF RowIsSound
  <2>3. /\ stores = IF stored.is THEN 1 ELSE 0
        /\ stored.att \/ stored.edited => stored.is
        /\ idem \/ copies > 0 => stored.is
    BY <1>0 DEF RowIsSound
  <2>4. UNCHANGED <<stores, stored, idem, copies>> /\ fetch' # "with"
    BY <1>1
  <2> QED BY <2>1, <2>2, <2>3, <2>4 DEF RowIsSound
<1>11. ListIsSound'
  BY <1>0, <1>1, <1>4 DEF ListIsSound, StoredIsShown, SendTypes
<1>12. RequestIsSound'
  <2>1. asking' = NoTry /\ awaited' = t /\ t # NoTry
    BY <1>1, <1>6
  <2>2. ASSUME NEW v \in Tries, NEW u \in Tries, v \in {t, NoTry}, v < u
        PROVE  try'[u].at = "unsent"
    <3>1. v = t /\ u # t
      BY <1>6, <2>2
    <3> QED BY <1>1, <1>7, <2>2, <3>1
  <2> QED BY <2>1, <2>2 DEF RequestIsSound, PendingIsOwned
<1> QED BY <1>5, <1>8, <1>9, <1>10, <1>11, <1>12 DEF SendIInv

\* The three ways to send a try.
LEMMA SendingHolds ==
  ASSUME SendIInv, SendFirst \/ \E t \in Tries : Retry(t) \/ Confirm(t)
  PROVE  SendIInv'
<1>0. SendTypes /\ TriesAreSound /\ TriesInOrder /\ RowIsSound /\ ListIsSound /\ RequestIsSound
  BY DEF SendIInv
<1>1. 1 \in Tries /\ \A u \in Tries : u \in Nat /\ u > 0 /\ u # NoTry
  BY MessageSendAssumption DEF MessageSendAssumption, Tries, NoTry
<1>2. CASE SendFirst
  <2>1. PICK sure \in {FALSE, draft.broad} : Mutate(1, draft.att, sure)
    BY <1>2 DEF SendFirst
  <2>2. draft.att \in BOOLEAN /\ sure \in BOOLEAN
    BY <1>0 DEF SendTypes, Drafts
  <2>3. try[1].at = "unsent" /\ \A u \in Tries : try[u].at = "unsent"
    BY <1>0, <1>1, <2>1 DEF Mutate, TriesInOrder
  <2>4. copies <= 1 /\ \A u \in Tries : ~try[u].att
    BY <1>0, <1>1, <2>3 DEF RowIsSound, SendTypes, TriesAreSound, TrySound
  <2> QED BY <1>1, <2>1, <2>2, <2>4, MutateHolds
<1>3. ASSUME NEW t \in Tries, Retry(t) PROVE SendIInv'
  <2>1. Mutate(t, FALSE, FALSE) /\ bubble = "failed"
    BY <1>3 DEF Retry
  <2>2. copies <= 1
    BY <1>0, <2>1 DEF ListIsSound, SendTypes
  <2> QED BY <2>1, <2>2, MutateHolds
<1>4. ASSUME NEW t \in Tries, Confirm(t) PROVE SendIInv'
  <2>1. asking # NoTry /\ asking \in Tries /\ Mutate(t, try[asking].att, TRUE)
    BY <1>0, <1>4 DEF Confirm, SendTypes
  <2>2. copies <= 1 /\ try[asking].att \in BOOLEAN
    BY <1>0, <2>1 DEF ListIsSound, SendTypes, TryRows
  <2>3. ASSUME try[asking].att, NEW u \in Tries, try[u].att PROVE try[u].ans = "ask"
    <3>1. CASE u < asking
      BY <1>0, <2>1, <2>3, <3>1 DEF TriesInOrder
    <3>2. CASE u = asking
      BY <1>0, <2>1, <3>2 DEF RequestIsSound
    <3>3. CASE asking < u
      BY <1>0, <2>1, <2>3, <3>3 DEF RequestIsSound, TriesAreSound, TrySound
    <3> QED BY <1>1, <2>1, <3>1, <3>2, <3>3
  <2> QED BY <2>1, <2>2, <2>3, MutateHolds
<1> QED BY <1>2, <1>3, <1>4

\* The tab: an answer, the timer, the dialog, the channel is left, the echo, a refetch.
LEMMA TabHolds ==
  ASSUME SendIInv,
         \/ Cancel \/ Unmount \/ Breaks \/ TimeOut \/ Answered
         \/ Echo \/ FetchRead \/ FetchArrives
  PROVE  SendIInv'
<1>0. SendTypes /\ TriesAreSound /\ TriesInOrder /\ RowIsSound /\ ListIsSound /\ RequestIsSound
  BY DEF SendIInv
<1> USE DEF Breaks, TimeOut
<1>1. UNCHANGED <<draft, try, late, stored, stores, holder, idem>>
  BY DEF Cancel, Unmount, Fails, Answered, Echo, FetchRead, FetchArrives, server
<1>2. /\ awaited' \in {awaited, NoTry}
      /\ asking' \in {asking, NoTry} \/ (asking' = awaited /\ awaited' = NoTry)
      /\ timer' \in BOOLEAN
      /\ fetch' \in {"none", "with", "without"}
  BY <1>0 DEF Cancel, Unmount, Fails, Answered, OnSuccess, OnError, Echo, FetchRead, FetchArrives,
              request, refetch, SendTypes
<1>3. /\ copies' \in Nat /\ (copies' > 0 => stored.is) /\ ListIsSound'
      /\ fetch' = "with" => stored.is
  <2>1. CASE Cancel \/ Unmount \/ Fails
    BY <1>0, <2>1 DEF Cancel, Unmount, Fails, refetch, SendTypes, RowIsSound, ListIsSound,
                      StoredIsShown
  <2>2. CASE Answered
    <3>1. /\ awaited # NoTry /\ (OnSuccess \/ OnError) /\ UNCHANGED <<late, echoes, fetch, wiped>>
          /\ awaited' = NoTry
      BY <2>2 DEF Answered, refetch
    <3>2. asking = NoTry /\ copies \in Nat /\ copies <= 1
      BY <1>0, <3>1 DEF RequestIsSound, ListIsSound, SendTypes
    <3>3. CASE OnError
      BY <1>0, <3>1, <3>2, <3>3 DEF OnError, SendTypes, RowIsSound, ListIsSound, StoredIsShown
    <3>4. CASE OnSuccess
      <4>1. stored.is
        BY <1>0, <3>1, <3>4 DEF OnSuccess, SendTypes, TriesAreSound, TrySound
      <4> QED BY <1>0, <3>1, <3>2, <3>4, <4>1 DEF OnSuccess, SendTypes, RowIsSound, ListIsSound,
                                                  StoredIsShown
    <3> QED BY <3>1, <3>3, <3>4
  <2>3. CASE Echo
    BY <1>0, <2>3 DEF Echo, EchoSwap, request, refetch, SendTypes, RowIsSound, ListIsSound,
                      StoredIsShown
  <2>4. CASE FetchRead
    BY <1>0, <2>4 DEF FetchRead, request, SendTypes, RowIsSound, ListIsSound, StoredIsShown
  <2>5. CASE FetchArrives
    <3>1. wiped' = (wiped \/ (fetch = "without" /\ copies > 0))
      BY <2>5 DEF FetchArrives
    <3>2. (wiped => wiped') /\ (fetch = "without" /\ copies > 0 => wiped')
      BY ONLY <3>1, Zenon
    <3> QED BY <1>0, <2>5, <3>2 DEF FetchArrives, request, SendTypes, RowIsSound, ListIsSound,
                                    StoredIsShown
  <2> QED BY <2>1, <2>2, <2>3, <2>4, <2>5
<1>4. RequestIsSound'
  <2>1. asking' # NoTry => awaited' = NoTry /\ try'[asking'].ans = "ask"
    BY <1>0, <1>1 DEF Cancel, Unmount, Fails, Answered, OnSuccess, OnError, Echo, FetchRead,
                      FetchArrives, request, RequestIsSound
  <2>2. \A t, u \in Tries : t \in {awaited', asking'} /\ t < u => try'[u].at = "unsent"
    <3>1. NoTry \notin Tries
      BY MessageSendAssumption DEF Tries, NoTry
    <3> QED BY <1>0, <1>1, <1>2, <3>1 DEF RequestIsSound
  <2>3. PendingIsOwned'
    <3>1. CASE Cancel \/ Unmount \/ Echo \/ FetchRead \/ FetchArrives
      BY <1>0, <1>1, <3>1 DEF Cancel, Unmount, Echo, EchoSwap, FetchRead, FetchArrives, request,
                              RequestIsSound, PendingIsOwned, WaitsForAuthor
    <3>2. CASE Fails
      BY <3>2 DEF Fails, PendingIsOwned
    <3>3. CASE Answered
      BY <1>0, <1>1, <3>3 DEF Answered, OnSuccess, OnError, SendTypes, PendingIsOwned, WaitsForAuthor
    <3> QED BY <3>1, <3>2, <3>3
  <2> QED BY <2>1, <2>2, <2>3 DEF RequestIsSound
<1>5. SendTypes' /\ TriesAreSound' /\ TriesInOrder' /\ RowIsSound'
  BY <1>0, <1>1, <1>2, <1>3 DEF SendTypes, TriesAreSound, TrySound, TriesInOrder, RowIsSound
<1> QED BY <1>3, <1>4, <1>5 DEF SendIInv

\* A step of a try at the server that stores no row.
LEMMA ServerHolds ==
  ASSUME SendIInv, NEW t \in Tries, UNCHANGED <<draft, tab, stored, stores>>,
         try' \in [Tries -> TryRows], idem' \in BOOLEAN, idem' => stored.is,
         try[t].at \in Running, try'[t].at # "unsent", try'[t].att <=> try[t].att,
         \A u \in Tries \ {t} : try'[u] = try[u],
         try[t].at = "warm" => try'[t].at \in {"done", "dead"} /\ try'[t].ans # "ask",
         holder' = holder \/ holder \in {NoTry, t},
         TrySound(t)'
  PROVE  SendIInv'
<1>0. SendTypes /\ TriesAreSound /\ TriesInOrder /\ RowIsSound /\ ListIsSound /\ RequestIsSound
  BY DEF SendIInv
<1>1. UNCHANGED <<draft, bubble, copies, awaited, timer, asking, late, echoes, fetch, wiped, stored,
                  stores>>
  BY DEF tab, request, refetch
<1>2. 1 \in Tries /\ \A u \in Tries : u # NoTry
  BY MessageSendAssumption DEF Tries, NoTry
<1>3. SendTypes' /\ ListIsSound'
  BY <1>0, <1>1 DEF SendTypes, ListIsSound, StoredIsShown
<1>4. /\ \A u \in Tries : try'[u].at = "unsent" <=> try[u].at = "unsent"
      /\ \A u \in Tries : try'[u].att <=> try[u].att
      /\ try[t].ans = "none"
      /\ \A u \in Tries : try[u].ans = "ask" => u # t /\ try'[u] = try[u]
  BY <1>0, <1>2 DEF Running, TriesAreSound, TrySound
<1>5. RowIsSound'
  <2>1. ASSUME stored.att
        PROVE  \E w \in Tries : /\ try'[w].att /\ try'[w].ans # "ask"
                                /\ try'[w].at \in {"warm", "done", "dead"}
    <3>1. PICK w \in Tries : /\ try[w].att /\ try[w].ans # "ask"
                             /\ try[w].at \in {"warm", "done", "dead"}
      BY <1>0, <2>1 DEF RowIsSound
    <3>2. /\ try'[w].att /\ try'[w].ans # "ask"
          /\ try'[w].at \in {"warm", "done", "dead"}
      BY <1>4, <3>1 DEF Running
    <3> QED BY <3>2
  <2> QED BY <1>0, <1>1, <1>2, <1>4, <2>1 DEF RowIsSound
<1>6. TriesAreSound'
  <2> SUFFICES ASSUME NEW u \in Tries, u # t PROVE TrySound(u)'
    BY DEF TriesAreSound
  <2>1. TrySound(u) /\ try'[u] = try[u]
    BY <1>0 DEF TriesAreSound
  <2>2. try[u].at = "commit" => holder' = u
    BY <1>2, <2>1 DEF TrySound
  <2> QED BY <1>1, <2>1, <2>2 DEF TrySound
<1>7. TriesInOrder'
  BY <1>0, <1>4 DEF TriesInOrder
<1>8. RequestIsSound'
  <2>1. asking' # NoTry => awaited' = NoTry /\ try'[asking'].ans = "ask"
    BY <1>0, <1>1, <1>4 DEF RequestIsSound, SendTypes
  <2>2. \A v, u \in Tries : v \in {awaited', asking'} /\ v < u => try'[u].at = "unsent"
    BY <1>0, <1>1, <1>4 DEF RequestIsSound
  <2>3. PendingIsOwned'
    BY <1>0, <1>1, <1>4 DEF RequestIsSound, PendingIsOwned, WaitsForAuthor
  <2> QED BY <2>1, <2>2, <2>3 DEF RequestIsSound
<1> QED BY <1>3, <1>5, <1>6, <1>7, <1>8 DEF SendIInv

\* The transaction commits: one row, of the try that held the key.
LEMMA CommitHolds ==
  ASSUME SendIInv, NEW t \in Tries, Commit(t)
  PROVE  SendIInv'
<1>0. SendTypes /\ TriesAreSound /\ TriesInOrder /\ RowIsSound /\ ListIsSound /\ RequestIsSound
  BY DEF SendIInv
<1>1. /\ try[t].at = "commit" /\ TrySound(t) /\ try[t] \in TryRows /\ holder' = NoTry
      /\ UNCHANGED <<draft, tab, idem>>
  BY <1>0 DEF Commit, TriesAreSound, SendTypes
<1>2. CASE Goes(t, "warm") /\ stores' = stores + 1
           /\ stored' = [is |-> TRUE, att |-> try[t].att, edited |-> FALSE]
  <2>0. UNCHANGED <<draft, idem, bubble, copies, awaited, timer, asking, late, echoes, fetch, wiped>>
    BY <1>1 DEF tab, request, refetch
  <2>1. /\ try'[t].at = "warm" /\ try'[t].att = try[t].att /\ try'[t].ans = try[t].ans
        /\ \A u \in Tries \ {t} : try'[u] = try[u]
        /\ stored'.is /\ stored'.att = try[t].att /\ stored'.edited = FALSE /\ stores' = 1
        /\ ~stored.is /\ ~stored.edited /\ ~stored.att /\ try[t].ans = "none"
    BY <1>0, <1>1, <1>2 DEF Goes, SendTypes, TryRows, TrySound, RowIsSound
  <2>2. try' \in [Tries -> TryRows] /\ stored' \in [is : BOOLEAN, att : BOOLEAN, edited : BOOLEAN]
    BY <1>0, <1>1, <1>2 DEF Goes, SendTypes, TryRows, Running
  <2>3. SendTypes' /\ ListIsSound'
    BY <1>0, <2>0, <2>2 DEF SendTypes, ListIsSound, StoredIsShown
  <2>4. /\ 1 \in Tries /\ \A u \in Tries : u \in Nat /\ u > 0
        /\ \A u \in Tries : try'[u].at = "unsent" <=> try[u].at = "unsent"
        /\ \A u \in Tries : try'[u].att = try[u].att /\ try'[u].ans = try[u].ans
    BY <1>1, <2>1, MessageSendAssumption DEF MessageSendAssumption, Tries
  <2>5. TriesAreSound'
    <3> SUFFICES ASSUME NEW u \in Tries PROVE TrySound(u)'
      BY DEF TriesAreSound
    <3>1. TrySound(u) /\ (u # t => try[u].at # "commit")
      BY <1>0, <1>1 DEF TriesAreSound, TrySound
    <3> QED BY <2>0, <1>1, <2>1, <3>1 DEF TrySound
  <2>6. TriesInOrder'
    BY <1>0, <2>4 DEF TriesInOrder
  <2>7. RowIsSound'
    <3>1. try'[1].at # "unsent"
      BY <1>0, <1>1, <2>4 DEF TriesInOrder
    <3>2. stored'.att => \E w \in Tries : /\ try'[w].att /\ try'[w].ans # "ask"
                                          /\ try'[w].at \in {"warm", "done", "dead"}
      BY <2>1
    <3> QED BY <1>0, <2>0, <2>1, <3>1, <3>2 DEF RowIsSound
  <2>8. RequestIsSound'
    BY <1>0, <2>0, <2>4 DEF RequestIsSound, PendingIsOwned, WaitsForAuthor, SendTypes
  <2> QED BY <2>3, <2>5, <2>6, <2>7, <2>8 DEF SendIInv
<1>3. CASE Ends(t, "error") /\ UNCHANGED <<stored, stores>>
  <2>1. /\ try'[t].at = "done" /\ (try'[t].att <=> try[t].att) /\ try'[t].ans = "error"
        /\ \A u \in Tries \ {t} : try'[u] = try[u]
        /\ try' \in [Tries -> TryRows] /\ idem' \in BOOLEAN /\ (idem' => stored.is)
    BY <1>0, <1>1, <1>3 DEF Ends, SendTypes, TryRows, Answers, RowIsSound
  <2>2. TrySound(t)'
    BY <1>1, <2>1 DEF TrySound
  <2>3. holder \in {NoTry, t}
    BY <1>1 DEF TrySound
  <2> QED BY <1>1, <1>3, <2>1, <2>2, <2>3, ServerHolds DEF Running
<1> QED BY <1>2, <1>3 DEF Commit

\* The other steps of a try.
LEMMA TryHolds ==
  ASSUME SendIInv, NEW t \in Tries,
         \/ Arrive(t) \/ ReadCache(t) \/ CheckAttachments(t) \/ Screen(t)
         \/ Insert(t) \/ Warm(t) \/ LookUp(t) \/ Lose(t)
  PROVE  SendIInv'
<1>0. SendTypes /\ TriesAreSound /\ TriesInOrder /\ RowIsSound /\ ListIsSound /\ RequestIsSound
  BY DEF SendIInv
<1>1. /\ TrySound(t) /\ try[t] \in TryRows /\ t # NoTry
      /\ try[t].at \in Running /\ try[t].ans = "none"
  BY <1>0, MessageSendAssumption DEF TriesAreSound, SendTypes, TrySound, Running, Arrive, ReadCache,
     CheckAttachments, Screen, Insert, Warm, LookUp, Lose, Tries, NoTry
<1>2. UNCHANGED <<draft, tab, stored, stores>>
  BY DEF Arrive, ReadCache, CheckAttachments, Screen, Insert, Warm, LookUp, Lose, server
<1>3. PICK to, ans :
        /\ try'[t].at = to /\ to \in (Running \ {"wire", "warm"}) \cup {"done", "dead"}
        /\ try'[t].ans = ans /\ ans \in Answers
        /\ to # "done" => ans = "none"
        /\ try'[t].att <=> try[t].att
        /\ \A u \in Tries \ {t} : try'[u] = try[u]
        /\ try' \in [Tries -> TryRows]
        /\ to = "commit" => holder' = t /\ ~stored.is
        /\ to = "lookup" => stored.is
        /\ ans = "ok" => stored.is
        /\ ans = "refused" => draft.slow \/ draft.gated \/ stored.edited
        /\ try[t].at = "warm" => to \in {"done", "dead"} /\ ans # "ask"
        /\ holder' = holder \/ holder \in {NoTry, t}
        /\ idem' \in BOOLEAN /\ (idem' => stored.is)
  <2>1. ASSUME NEW to \in (Running \ {"wire", "warm"}) \cup {"dead"}, Goes(t, to)
        PROVE  /\ try'[t].at = to /\ try'[t].ans = "none" /\ "none" \in Answers
               /\ try'[t].att <=> try[t].att
               /\ \A u \in Tries \ {t} : try'[u] = try[u]
               /\ try' \in [Tries -> TryRows]
    BY <1>0, <1>1, <2>1 DEF Goes, SendTypes, TryRows, Answers
  <2>2. ASSUME NEW ans \in Answers, Ends(t, ans)
        PROVE  /\ try'[t].at = "done" /\ try'[t].ans = ans
               /\ try'[t].att <=> try[t].att
               /\ \A u \in Tries \ {t} : try'[u] = try[u]
               /\ try' \in [Tries -> TryRows]
    BY <1>0, <1>1, <2>2 DEF Ends, SendTypes, TryRows
  <2>3. /\ idem \in BOOLEAN /\ (idem => stored.is)
        /\ try[t].at \in {"warm", "lookup"} => stored.is
    BY <1>0, <1>1 DEF SendTypes, RowIsSound, TrySound
  <2>4. CASE Arrive(t)
    <3>0. try[t].at = "wire" /\ UNCHANGED <<holder, idem>>
      BY <2>4 DEF Arrive
    <3>1. CASE Goes(t, "cache")
      BY <2>1, <2>3, <3>0, <3>1 DEF Running
    <3>2. CASE Ends(t, "refused") /\ (draft.slow \/ draft.gated)
      BY <2>2, <2>3, <3>0, <3>2 DEF Answers
    <3>3. CASE Ends(t, "error")
      BY <2>2, <2>3, <3>0, <3>3 DEF Answers
    <3> QED BY <2>4, <3>1, <3>2, <3>3 DEF Arrive, SlowGate
  <2>5. CASE ReadCache(t)
    <3>1. CASE Goes(t, "check")
      BY <2>1, <2>3, <2>5, <3>1 DEF ReadCache, Running, server
    <3>2. CASE idem /\ Replay(t)
      BY <2>2, <2>3, <2>5, <3>2 DEF ReadCache, Replay, Answers, server
    <3> QED BY <2>5, <3>1, <3>2 DEF ReadCache
  <2>6. CASE CheckAttachments(t)
    <3>1. ~(try[t].att /\ stored.att)
      <4> SUFFICES ASSUME try[t].att, stored.att PROVE FALSE
        OBVIOUS
      <4>1. PICK w \in Tries : /\ try[w].att /\ try[w].ans # "ask"
                               /\ try[w].at \in {"warm", "done", "dead"}
        BY <1>0 DEF RowIsSound
      <4>2. w # t /\ w \in Nat /\ t \in Nat
        BY <2>6, <4>1 DEF CheckAttachments, Tries
      <4> QED BY <1>0, <1>1, <4>1, <4>2 DEF TriesInOrder
    <3> QED BY <2>1, <2>3, <2>6, <3>1 DEF CheckAttachments, Running, server
  <2>7. CASE Screen(t)
    <3>0. try[t].at = "screen" /\ UNCHANGED <<holder, idem>>
      BY <2>7 DEF Screen, server
    <3>1. CASE Goes(t, "insert")
      BY <2>1, <2>3, <3>0, <3>1 DEF Running
    <3>2. CASE Ends(t, "refused") /\ draft.gated
      BY <2>2, <2>3, <3>0, <3>2 DEF Answers
    <3>3. CASE Ends(t, "ask")
      BY <2>2, <2>3, <3>0, <3>3 DEF Answers
    <3> QED BY <2>7, <3>1, <3>2, <3>3 DEF Screen
  <2>8. CASE Insert(t)
    BY <2>1, <2>3, <2>8 DEF Insert, Running
  <2>9. CASE Warm(t)
    BY <2>2, <2>3, <2>9 DEF Warm, Answers
  <2>10. CASE LookUp(t)
    BY <2>2, <2>3, <2>10 DEF LookUp, Replay, Answers
  <2>11. CASE Lose(t)
    BY <2>1, <2>3, <2>11 DEF Lose
  <2> QED BY <2>4, <2>5, <2>6, <2>7, <2>8, <2>9, <2>10, <2>11
<1>4. TrySound(t)' /\ try'[t].at # "unsent"
  BY <1>1, <1>2, <1>3 DEF TrySound, Running
<1> QED BY <1>1, <1>2, <1>3, <1>4, ServerHolds DEF Running

\* The invariant of a send holds in every reachable state.
LEMMA SendInvariance == SendSpec => []SendIInv
<1>1. ASSUME SendIInv, SendNext PROVE SendIInv'
  <2>0. SendTypes /\ TriesAreSound /\ TriesInOrder /\ RowIsSound /\ ListIsSound /\ RequestIsSound
    BY <1>1 DEF SendIInv
  <2> USE DEF SendIInv, SendTypes, TriesAreSound, TrySound, TriesInOrder, RowIsSound, ListIsSound,
              StoredIsShown, RequestIsSound, PendingIsOwned, WaitsForAuthor
  <2>1. CASE SendFirst \/ \E t \in Tries : Retry(t) \/ Confirm(t)
    BY ONLY <1>1, <2>1, SendingHolds
  <2>2. CASE \/ Cancel \/ Unmount \/ Breaks \/ TimeOut \/ Answered
             \/ Echo \/ FetchRead \/ FetchArrives
    BY ONLY <1>1, <2>2, TabHolds
  <2>3. ASSUME NEW t \in Tries, ServerTry(t) \/ Lose(t) PROVE SendIInv'
    BY ONLY <1>1, <2>3, t \in Tries, TryHolds, CommitHolds DEF ServerTry
  <2>4. CASE CooldownEnds \/ IdemExpires
    <3>1. UNCHANGED <<draft, try, stored, stores, holder, bubble, copies, awaited, timer, asking,
                      late, echoes, fetch, wiped>>
      BY <2>4 DEF CooldownEnds, IdemExpires, tab, request, refetch
    <3>2. idem' => idem
      BY <2>4 DEF CooldownEnds, IdemExpires
    <3>3. idem' \in BOOLEAN
      BY <2>0, <2>4 DEF CooldownEnds, IdemExpires
    <3>4. SendTypes' /\ TriesAreSound' /\ TriesInOrder'
      BY <2>0, <3>1, <3>3
    <3>5. RowIsSound'
      BY <2>0, <3>1, <3>2
    <3>6. ListIsSound' /\ RequestIsSound'
      BY <2>0, <3>1
    <3> QED BY <3>4, <3>5, <3>6
  <2>5. CASE EditStored
    <3>1. /\ stored'.is /\ stored.is /\ (stored'.att <=> stored.att) /\ stored'.edited
          /\ stored' \in [is : BOOLEAN, att : BOOLEAN, edited : BOOLEAN]
      BY <2>0, <2>5 DEF EditStored
    <3>2. UNCHANGED <<draft, try, stores, holder, idem, bubble, copies, awaited, timer, asking,
                      late, echoes, fetch, wiped>>
      BY <2>5 DEF EditStored, tab, request, refetch
    <3>3. TriesAreSound' /\ RowIsSound'
      BY <2>0, <3>1, <3>2
    <3>4. SendTypes' /\ TriesInOrder' /\ ListIsSound' /\ RequestIsSound'
      BY <2>0, <3>1, <3>2
    <3> QED BY <3>3, <3>4
  <2> QED BY ONLY <1>1, <2>1, <2>2, <2>3, <2>4, <2>5 DEF SendNext
<1>2. SendIInv /\ UNCHANGED sendVars => SendIInv'
  BY DEF sendVars, tab, request, refetch, server, sendBounds, SendIInv, SendTypes, TriesAreSound,
     TrySound, TriesInOrder, RowIsSound, ListIsSound, StoredIsShown, RequestIsSound, PendingIsOwned,
     WaitsForAuthor
<1> QED BY <1>1, <1>2, SendInitHolds, PTL DEF SendSpec

\* However the tries of one nonce overlap, whatever gates shut before a look-up, and in
\* whatever order the answer, the echo, a refetch and the author's confirmation come, one
\* row is stored and shown once, a refusal has its reason outside of the nonce, and a
\* pending bubble has a request or a confirmation it waits for (messages.controller.ts:340,
\* messages.service.ts:1642, 1986, 2479; confirmOptimistic, onError and the
\* message.created handler).
THEOREM SendsHold == SendSpec => []SendSound
<1>1. SendIInv => SendSound
  <2> SUFFICES ASSUME SendIInv PROVE SendSound
    OBVIOUS
  <2>1. ShownOnce
    BY DEF SendIInv, SendTypes, ListIsSound, ShownOnce
  <2>2. StoredOnce /\ RefusalsExplained /\ StoredIsShown
    BY DEF SendIInv, TriesAreSound, TrySound, RowIsSound, ListIsSound, StoredOnce, RefusalsExplained
  <2>3. PendingIsOwned
    BY DEF SendIInv, RequestIsSound
  <2> QED BY <2>1, <2>2, <2>3 DEF SendSound
<1> QED BY <1>1, SendInvariance, PTL

-----------------------------------------------------------------------------
(* The types of a send. *)

SendRest ==
  /\ bubble \in {"none", "pending", "failed"}
  /\ holder \in Tries \cup {NoTry}
  /\ cooldown \in BOOLEAN /\ wiped \in BOOLEAN
  /\ echoes \in 0..MaxEchoes /\ fetches \in 0..MaxFetches
  /\ sendFaults \in 0..MaxSendFaults /\ sendEdits \in 0..MaxSendEdits

LEMMA SendRestStep == SendIInv /\ SendRest /\ [SendNext]_sendVars => SendRest'
<1> SUFFICES ASSUME SendIInv, SendRest, [SendNext]_sendVars PROVE SendRest'
  OBVIOUS
<1>0. {MaxSendFaults, MaxFetches, MaxEchoes, MaxSendEdits} \subseteq Nat
  BY MessageSendAssumption DEF MessageSendAssumption
<1>1. UNCHANGED sendFaults \/ SendFault => sendFaults' \in 0..MaxSendFaults
  BY <1>0 DEF SendRest, SendFault
<1>2. CASE SendFirst \/ \E t \in Tries : Retry(t) \/ Confirm(t)
  BY <1>2 DEF SendRest, SendFirst, Retry, Confirm, Mutate, server, sendBounds
<1>3. CASE Cancel \/ Unmount \/ Breaks \/ TimeOut \/ Answered
  BY <1>3 DEF SendRest, Cancel, Unmount, Breaks, TimeOut, Fails, Answered, OnSuccess, OnError, refetch,
              server, sendBounds
<1>4. CASE Echo
  BY <1>0, <1>4 DEF SendRest, Echo, EchoSwap, refetch, server, sendBounds
<1>5. CASE FetchRead
  BY <1>0, <1>5 DEF SendRest, FetchRead, server, sendBounds
<1>6. CASE FetchArrives
  BY <1>6 DEF SendRest, FetchArrives, server, sendBounds
<1>7. ASSUME NEW t \in Tries, ServerTry(t) \/ Lose(t) PROVE SendRest'
  <2>1. UNCHANGED tab
    BY <1>7 DEF ServerTry, Lose, Arrive, ReadCache, CheckAttachments, Screen, Insert, Commit, Warm, LookUp
  <2>2. sendEdits' = sendEdits /\ (sendFaults' = sendFaults \/ SendFault)
    BY <1>7 DEF ServerTry, Lose, Arrive, SlowGate, ReadCache, CheckAttachments, Screen, Insert, Commit, Warm,
                LookUp, SendFault, sendBounds
  <2>3. holder' \in Tries \cup {NoTry}
    BY <1>7 DEF SendRest, ServerTry, Lose, Arrive, ReadCache, CheckAttachments, Screen, Insert, Commit, Warm,
                LookUp, server
  <2>4. cooldown' \in BOOLEAN
    BY <1>7 DEF SendRest, ServerTry, Lose, Arrive, SlowGate, ReadCache, CheckAttachments, Screen, Insert,
                Commit, Warm, LookUp, server
  <2> QED BY <1>1, <2>1, <2>2, <2>3, <2>4 DEF SendRest, tab, refetch
<1>8. CASE CooldownEnds \/ IdemExpires
  BY <1>8 DEF SendRest, CooldownEnds, IdemExpires, tab, refetch, sendBounds
<1>9. CASE EditStored
  BY <1>0, <1>9 DEF SendRest, EditStored, tab, refetch
<1>10. CASE UNCHANGED sendVars
  BY <1>10 DEF SendRest, sendVars, tab, refetch, server, sendBounds
<1> QED BY <1>2, <1>3, <1>4, <1>5, <1>6, <1>7, <1>8, <1>9, <1>10 DEF SendNext

\* A send keeps its types.
LEMMA SendTypesHold == SendSpec => []SendTypeOK
<1>1. SendInit => SendRest
  <2> SUFFICES ASSUME SendInit PROVE SendRest
    OBVIOUS
  <2>1. \A n \in {MaxSendFaults, MaxFetches, MaxEchoes, MaxSendEdits} : 0 \in 0..n
    BY MessageSendAssumption DEF MessageSendAssumption
  <2>2. draft.slow \in BOOLEAN
    BY DEF SendInit, Drafts
  <2>3. cooldown \in BOOLEAN
    BY <2>2 DEF SendInit
  <2> QED BY <2>1, <2>3 DEF SendInit, SendRest
<1>2. SendIInv /\ SendRest => SendTypeOK
  <2> SUFFICES ASSUME SendIInv, SendRest PROVE SendTypeOK
    OBVIOUS
  <2>1. copies \in 0..2
    BY DEF SendIInv, SendTypes, ListIsSound
  <2>2. stores \in 0..MaxTries
    BY MessageSendAssumption DEF MessageSendAssumption, SendIInv, RowIsSound
  <2>3. try \in [Tries -> [at : Running \cup {"unsent", "done", "dead"},
                           att : BOOLEAN, sure : BOOLEAN,
                           ans : {"none", "ok", "refused", "error", "ask"}]]
    BY DEF SendIInv, SendTypes, TryRows, Answers
  <2> QED BY <2>1, <2>2, <2>3 DEF SendIInv, SendTypes, SendRest, SendTypeOK
<1> QED BY <1>1, <1>2, SendInvariance, SendRestStep, PTL DEF SendSpec

-----------------------------------------------------------------------------
(* A bubble that is pending comes to its end. *)

Waits == bubble = "pending" /\ ~WaitsForAuthor
Timer == timer /\ awaited # NoTry

\* The request of the bubble goes on without a timer: its hook was unmounted.
Untimed == awaited # NoTry /\ ~timer

\* The weak fairness of TimeOut with its guard in the place of ENABLED: a timer that is
\* set does not run for ever, it is cleared (an answer, a new request, the unmount) or
\* fires.
TimerRuns == []<>~Timer \/ []<><<TimeOut>>_sendVars

\* A bubble does not stay pending while its hook is mounted, with any number of tries,
\* losses and gates: the answer, the echo, a refetch or the timer ends it, unless it waits
\* for the author's confirmation (useMessages.ts: useSendMessage's timeout, onSuccess and
\* onError; the unmount at line 279 clears the timer).
THEOREM BubblesEnd ==
  SendSpec /\ TimerRuns
    => (bubble = "pending" ~> (bubble # "pending" \/ WaitsForAuthor \/ Untimed))
<1>1. TimeOut => ~Waits'
  BY DEF TimeOut, Fails, Waits
<1>2. SendSpec => [](Waits => Timer \/ Untimed)
  <2>1. SendSound => (Waits => Timer \/ Untimed)
    BY DEF SendSound, PendingIsOwned, Waits, Timer, Untimed
  <2> QED BY <2>1, SendsHold, PTL
<1>3. SendSpec /\ TimerRuns => (Waits ~> (~Waits \/ Untimed))
  BY <1>1, <1>2, PTL DEF TimerRuns
<1>4. bubble = "pending" => Waits \/ WaitsForAuthor
  BY DEF Waits
<1>5. ~Waits => bubble # "pending" \/ WaitsForAuthor
  BY DEF Waits
<1> QED BY <1>3, <1>4, <1>5, PTL

-----------------------------------------------------------------------------
(* The way of a message: one of the three components runs. *)

\* What the components do is what they do alone.
LEMMA DeliveryParts == DeliverySpec => Spec /\ SendSpec /\ ThreadSpec
<1>1. DeliveryInit => Init /\ SendInit /\ ThreadInit
  BY DEF DeliveryInit
<1>2. [DeliveryNext]_allVars => [Next]_vars /\ [SendNext]_sendVars /\ [ThreadNext]_threadVars
  BY DEF DeliveryNext, allVars
<1> QED BY <1>1, <1>2, PTL DEF DeliverySpec, Spec, SendSpec, ThreadSpec

SomePart == part \in {"outbox", "send", "thread"}

\* The type invariant of the run of the three (MCDelivery), for every value of the
\* constants.
THEOREM DeliveryTypes == DeliverySpec => []DeliveryTypeOK
<1>1. DeliveryInit => SomePart
  BY DEF DeliveryInit, SomePart
<1>2. SomePart /\ [DeliveryNext]_allVars => SomePart'
  BY DEF DeliveryNext, allVars, SomePart
<1>3. SomePart /\ TypeOK /\ SendTypeOK /\ ThreadTypeOK => DeliveryTypeOK
  BY DEF DeliveryTypeOK, SomePart
<1>4. DeliverySpec => []SomePart
  BY <1>1, <1>2, PTL DEF DeliverySpec
<1>5. DeliverySpec => []TypeOK /\ []SendTypeOK /\ []ThreadTypeOK
  BY DeliveryParts, TypeCorrect, SendTypesHold, CountIsExact, PTL
<1> QED BY <1>3, <1>4, <1>5, PTL
=============================================================================
