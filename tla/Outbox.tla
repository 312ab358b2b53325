------------------------------- MODULE Outbox -------------------------------
(***************************************************************************)
(* The transactional outbox: OutboxService.record writes an OutboxEvent    *)
(* row in the business transaction, and the OutboxDispatcher of every API  *)
(* replica polls the table, claims a batch, emits each row through         *)
(* EventEmitter2 and marks it dispatched.                                  *)
(*                                                                         *)
(* The claim is ONE autocommit statement, modelled in two steps because    *)
(* its row locks are what SKIP LOCKED sees: ClaimLock takes them,          *)
(* ClaimCommit increments `attempts` and gives them back.  From then until *)
(* Mark the row is still undispatched and unlocked.                        *)
(*                                                                         *)
(* A failed query, a rejected emitAsync and a process death each consume   *)
(* one of MaxFaults.  drain() is used by the tests alone and left out.     *)
(***************************************************************************)
EXTENDS Naturals, FiniteSets

CONSTANTS
  Events,       \* rows of OutboxEvent
  Replicas,     \* API processes, each with one dispatcher
  None,         \* no current row
  Times,        \* values of occurredAt
  Batch,        \* OUTBOX_BATCH_SIZE
  MaxAttempts,  \* OUTBOX_MAX_ATTEMPTS
  MaxFaults,    \* bound on failures of queries, subscribers and processes
  MaxStops      \* bound on graceful shutdowns

ASSUME OutboxAssumption ==
  /\ IsFiniteSet(Events) /\ IsFiniteSet(Replicas)
  /\ None \notin Events
  /\ Times \subseteq Nat /\ Times # {}
  /\ Batch \in Nat \ {0}
  /\ MaxAttempts \in Nat \ {0}
  /\ MaxFaults \in Nat /\ MaxStops \in Nat

VARIABLES
  recorded,     \* rows visible to every connection
  occurredAt,   \* column occurredAt (default now(), read inside the transaction)
  attempts,     \* column attempts
  dispatched,   \* rows whose dispatchedAt is set
  errored,      \* rows whose lastError is set
  locks,        \* locks[r]: row locks held by r's claim statement
  phase,        \* where r's processOnce stands
  todo,         \* todo[r]: claimed rows r has not emitted yet
  cur,          \* cur[r]: the row r is marking
  stopping,     \* replicas whose onModuleDestroy has begun
  deliveries,   \* history: how often emitAsync resolved for a row
  faults,       \* failures so far
  stops         \* graceful shutdowns so far

table == <<recorded, occurredAt, attempts, dispatched, errored>>
process == <<locks, phase, todo, cur, stopping>>
history == <<deliveries, faults, stops>>
vars == <<table, process, history>>

Phases == {"down", "idle", "claim", "batch", "mark", "error"}

TypeOK ==
  /\ recorded \subseteq Events
  /\ occurredAt \in [Events -> Times]
  /\ attempts \in [Events -> 0..MaxAttempts]
  /\ dispatched \subseteq recorded
  /\ errored \subseteq recorded
  /\ locks \in [Replicas -> SUBSET recorded]
  /\ phase \in [Replicas -> Phases]
  /\ todo \in [Replicas -> SUBSET recorded]
  /\ cur \in [Replicas -> recorded \cup {None}]
  /\ stopping \subseteq Replicas
  /\ deliveries \in [Events -> Nat]
  /\ faults \in 0..MaxFaults
  /\ stops \in 0..MaxStops

Init ==
  /\ recorded = {}
  /\ occurredAt \in [Events -> Times]
  /\ attempts = [e \in Events |-> 0]
  /\ dispatched = {}
  /\ errored = {}
  /\ locks = [r \in Replicas |-> {}]
  /\ phase = [r \in Replicas |-> "idle"]
  /\ todo = [r \in Replicas |-> {}]
  /\ cur = [r \in Replicas |-> None]
  /\ stopping = {}
  /\ deliveries = [e \in Events |-> 0]
  /\ faults = 0
  /\ stops = 0

Fault ==
  /\ faults < MaxFaults
  /\ faults' = faults + 1

\* The business transaction commits: its outbox row becomes visible.  The
\* rows become visible in any order, whatever their occurredAt.
Record(e) ==
  /\ e \notin recorded
  /\ recorded' = recorded \cup {e}
  /\ UNCHANGED <<occurredAt, attempts, dispatched, errored, process, history>>

-----------------------------------------------------------------------------
(* One tick of a dispatcher. *)

Locked(e) == \E r \in Replicas : e \in locks[r]

LockedByOther(r, e) == \E s \in Replicas \ {r} : e \in locks[s]

\* Mutant: a row that failed once is never claimed again.
ClaimableOnce ==
  {e \in recorded \ dispatched : attempts[e] = 0 /\ ~Locked(e)}

\* Mutant: FOR UPDATE without regard to the locks of other claims.
ClaimableLocked ==
  {e \in recorded \ dispatched : attempts[e] < MaxAttempts}

\* Mutant: attempts <= max, one claim too many.
ClaimableOneMore ==
  {e \in recorded \ dispatched : attempts[e] <= MaxAttempts /\ ~Locked(e)}

Claimable ==
  {e \in recorded \ dispatched : attempts[e] < MaxAttempts /\ ~Locked(e)}

\* ORDER BY "occurredAt" LIMIT batch, rows of equal time in any order.
OldestBatch ==
  {S \in SUBSET Claimable :
     /\ \/ Cardinality(S) = Batch
        \/ Cardinality(S) < Batch /\ S = Claimable
     /\ \A e \in S, f \in Claimable \ S : occurredAt[e] <= occurredAt[f]}

\* Where a tick ends: the interval timer is gone once the replica is stopping.
Rest(r) == IF r \in stopping THEN "down" ELSE "idle"

\* tick() with its guard, and the SELECT ... FOR UPDATE SKIP LOCKED.
ClaimLock(r) ==
  /\ phase[r] = "idle"
  /\ r \notin stopping
  /\ Claimable # {}
  /\ \E S \in OldestBatch : locks' = [locks EXCEPT ![r] = S]
  /\ phase' = [phase EXCEPT ![r] = "claim"]
  /\ UNCHANGED <<table, todo, cur, stopping, history>>

\* Mutant: the claim does not count as an attempt.
ClaimedUncounted(r) ==
  /\ locks' = [locks EXCEPT ![r] = {}]
  /\ UNCHANGED table

\* The UPDATE and the commit that gives the locks back.
Claimed(r) ==
  /\ attempts' = [e \in Events |->
                    IF e \in locks[r] THEN attempts[e] + 1 ELSE attempts[e]]
  /\ locks' = [locks EXCEPT ![r] = {}]
  /\ UNCHANGED <<recorded, occurredAt, dispatched, errored>>

ClaimCommit(r) ==
  /\ phase[r] = "claim"
  /\ Claimed(r)
  /\ todo' = [todo EXCEPT ![r] = locks[r]]
  /\ phase' = [phase EXCEPT ![r] = "batch"]
  /\ UNCHANGED <<cur, stopping, history>>

\* The claim query rejects, before or after the database committed it.
ClaimFails(r) ==
  /\ phase[r] = "claim"
  /\ Fault
  /\ \/ Claimed(r)
     \/ locks' = [locks EXCEPT ![r] = {}] /\ UNCHANGED table
  /\ phase' = [phase EXCEPT ![r] = Rest(r)]
  /\ UNCHANGED <<todo, cur, stopping, deliveries, stops>>

\* The loop takes the next row; RETURNING gives them in no particular order.
Take(r, e) ==
  /\ phase[r] = "batch"
  /\ e \in todo[r]
  /\ todo' = [todo EXCEPT ![r] = @ \ {e}]
  /\ cur' = [cur EXCEPT ![r] = e]

Emit(r, e) ==
  /\ Take(r, e)
  /\ deliveries' = [deliveries EXCEPT ![e] = @ + 1]
  /\ phase' = [phase EXCEPT ![r] = "mark"]
  /\ UNCHANGED <<table, locks, stopping, faults, stops>>

\* Mutant: a rejected emitAsync is swallowed and the row marked.
EmitRejectsSwallowed(r, e) ==
  /\ Take(r, e)
  /\ Fault
  /\ phase' = [phase EXCEPT ![r] = "mark"]
  /\ UNCHANGED <<table, locks, stopping, deliveries, stops>>

EmitRejects(r, e) ==
  /\ Take(r, e)
  /\ Fault
  /\ phase' = [phase EXCEPT ![r] = "error"]
  /\ UNCHANGED <<table, locks, stopping, deliveries, stops>>

NextRow(r) ==
  /\ phase' = [phase EXCEPT ![r] = "batch"]
  /\ cur' = [cur EXCEPT ![r] = None]

\* update dispatchedAt = now, lastError = null; it waits for a claim's lock.
Mark(r) ==
  /\ phase[r] = "mark"
  /\ ~LockedByOther(r, cur[r])
  /\ dispatched' = dispatched \cup {cur[r]}
  /\ errored' = errored \ {cur[r]}
  /\ NextRow(r)
  /\ UNCHANGED <<recorded, occurredAt, attempts, locks, todo, stopping, history>>

\* The update is inside the try block: its failure is a dispatch failure.
MarkFails(r) ==
  /\ phase[r] = "mark"
  /\ Fault
  /\ phase' = [phase EXCEPT ![r] = "error"]
  /\ UNCHANGED <<table, locks, todo, cur, stopping, deliveries, stops>>

RecordError(r) ==
  /\ phase[r] = "error"
  /\ ~LockedByOther(r, cur[r])
  /\ errored' = errored \cup {cur[r]}
  /\ NextRow(r)
  /\ UNCHANGED <<recorded, occurredAt, attempts, dispatched, locks, todo,
                 stopping, history>>

\* The update in the catch block rejects: processOnce gives up its batch.
RecordErrorFails(r) ==
  /\ phase[r] = "error"
  /\ Fault
  /\ phase' = [phase EXCEPT ![r] = Rest(r)]
  /\ todo' = [todo EXCEPT ![r] = {}]
  /\ cur' = [cur EXCEPT ![r] = None]
  /\ UNCHANGED <<table, locks, stopping, deliveries, stops>>

\* The batch is empty, the gauges are refreshed, `running` is reset.
Finish(r) ==
  /\ phase[r] = "batch"
  /\ todo[r] = {}
  /\ phase' = [phase EXCEPT ![r] = Rest(r)]
  /\ UNCHANGED <<table, locks, todo, cur, stopping, history>>

-----------------------------------------------------------------------------
(* The process: graceful stop, death, start. *)

\* Mutant: onModuleDestroy does not await the current tick.
StopAtOnce(r) ==
  /\ phase[r] # "down"
  /\ r \notin stopping
  /\ stops < MaxStops
  /\ stops' = stops + 1
  /\ stopping' = stopping \cup {r}
  /\ phase' = [phase EXCEPT ![r] = "down"]
  /\ locks' = [locks EXCEPT ![r] = {}]
  /\ todo' = [todo EXCEPT ![r] = {}]
  /\ cur' = [cur EXCEPT ![r] = None]
  /\ UNCHANGED <<table, deliveries, faults>>

\* onModuleDestroy: no further tick starts, the current one is awaited.
Stop(r) ==
  /\ phase[r] # "down"
  /\ r \notin stopping
  /\ stops < MaxStops
  /\ stops' = stops + 1
  /\ stopping' = stopping \cup {r}
  /\ phase' = [phase EXCEPT ![r] = IF @ = "idle" THEN "down" ELSE @]
  /\ UNCHANGED <<table, locks, todo, cur, deliveries, faults>>

\* The process dies: its memory is gone, its open statement rolls back.
Crash(r) ==
  /\ phase[r] # "down"
  /\ Fault
  /\ phase' = [phase EXCEPT ![r] = "down"]
  /\ locks' = [locks EXCEPT ![r] = {}]
  /\ todo' = [todo EXCEPT ![r] = {}]
  /\ cur' = [cur EXCEPT ![r] = None]
  /\ UNCHANGED <<table, stopping, deliveries, stops>>

\* onModuleInit of a new process: start() arms the interval.
Boot(r) ==
  /\ phase[r] = "down"
  /\ phase' = [phase EXCEPT ![r] = "idle"]
  /\ stopping' = stopping \ {r}
  /\ UNCHANGED <<table, locks, todo, cur, history>>

Dispatch(r) ==
  \/ ClaimLock(r) \/ ClaimCommit(r) \/ Mark(r) \/ RecordError(r) \/ Finish(r)
  \/ \E e \in Events : Emit(r, e)

Failure(r) ==
  \/ ClaimFails(r) \/ MarkFails(r) \/ RecordErrorFails(r) \/ Crash(r)
  \/ \E e \in Events : EmitRejects(r, e)

Next ==
  \/ \E e \in Events : Record(e)
  \/ \E r \in Replicas : Dispatch(r) \/ Failure(r) \/ Stop(r) \/ Boot(r)

Spec == Init /\ [][Next]_vars

\* The interval timer fires again and again, queries and subscribers settle,
\* and the orchestrator restarts a process that went down.
OutboxFairness ==
  \A r \in Replicas : WF_vars(Dispatch(r)) /\ WF_vars(Boot(r))
-----------------------------------------------------------------------------
(* What the dispatchers guarantee together. *)

\* The replicas that claimed e and have not emitted it yet.
Holding(e) == {r \in Replicas : e \in todo[r]}

\* dispatchedAt is set only on a row the subscribers did receive, whichever
\* replica emitted it and whichever marked it (processOnce, lines 156-161).
DeliveredBeforeMarked == \A e \in dispatched : deliveries[e] > 0

\* Every delivery was paid for by an attempt, and every claimed row still
\* waiting in some batch too: however claims of several replicas overlap, an
\* event reaches the subscribers at most OUTBOX_MAX_ATTEMPTS times.
AttemptsBoundDeliveries ==
  \A e \in Events : deliveries[e] + Cardinality(Holding(e)) <= attempts[e]

\* SKIP LOCKED: two claim statements that overlap never take the same row.
ClaimsDisjoint ==
  \A r, s \in Replicas : r # s => locks[r] \cap locks[s] = {}

\* Nobody works on e: it is in no claim, no batch, and nobody is marking it.
Abandoned(e) ==
  \A r \in Replicas : e \notin locks[r] /\ e \notin todo[r] /\ e # cur[r]

\* A row is dead-lettered (attempts used up, undispatched, nobody working on
\* it) only after as many failures as it has attempts.  Neither overlapping
\* claims nor a graceful shutdown use attempts up for nothing: this is what
\* onModuleDestroy waits for the tick for ("so we don't orphan a claim").
NoSpuriousDeadLetter ==
  \A e \in recorded \ dispatched :
    attempts[e] = MaxAttempts /\ Abandoned(e) => faults >= MaxAttempts

\* The replicas whose attempt on e has not failed yet.
Working(e) ==
  {r \in Replicas : e \in todo[r] \/ (phase[r] = "mark" /\ cur[r] = e)}

\* The attempts of an undispatched row are the failures it met plus the
\* replicas still working on it.
AttemptsAccounted ==
  \A e \in Events \ dispatched :
    attempts[e] <= faults + Cardinality(Working(e))

\* What a replica holds in each phase of its tick.
PhaseHolds ==
  \A r \in Replicas :
    /\ phase[r] \in {"mark", "error"} <=> cur[r] # None
    /\ phase[r] \notin {"batch", "mark", "error"} => todo[r] = {}
    /\ phase[r] # "claim" => locks[r] = {}
    /\ phase[r] = "mark" => deliveries[cur[r]] > 0

\* A locked row still has an attempt left, until the claim commits.
LockedHasAttempt ==
  \A r \in Replicas : \A e \in locks[r] : attempts[e] < MaxAttempts

\* The inductive invariant: the bookkeeping of attempts is exact because a
\* replica's phase says which rows its memory holds.
IInv ==
  /\ TypeOK
  /\ PhaseHolds
  /\ LockedHasAttempt
  /\ ClaimsDisjoint
  /\ DeliveredBeforeMarked
  /\ AttemptsBoundDeliveries
  /\ AttemptsAccounted

\* The dispatcher's comment (outbox.dispatcher.ts:19-20): replicas share the
\* table "without double-dispatch".  Stated for runs where nothing fails.
NoDoubleDispatch == \A e \in Events : deliveries[e] <= 1

\* With fewer failures than attempts every recorded row is dispatched in the
\* end, whichever replica stops, crashes or competes for it.
EventuallyDispatched ==
  \A e \in Events : e \in recorded ~> e \in dispatched

\* The outbox is at-least-once delivery with MaxAttempts as the budget.
Abstract == INSTANCE AtLeastOnce WITH Budget <- MaxAttempts,
                                      acked <- dispatched

ImplementsAtLeastOnce == Abstract!Spec
=============================================================================
