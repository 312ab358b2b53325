---------------------------- MODULE ThreadCount ----------------------------
(***************************************************************************)
(* The denormalised replyCount of one thread root: MessagesService.send of *)
(* replies, softDelete, bulkDelete, and the hourly ThreadReplyCount-       *)
(* Reconciler of every node.                                               *)
(*                                                                         *)
(* Transactions run at READ COMMITTED.  A step is a statement; what it     *)
(* writes is seen by others when the transaction commits, and the row lock *)
(* it takes is held until then, so the model writes at the commit.  An     *)
(* UPDATE that waited for a lock reads the row again.  PostgreSQL breaks a *)
(* deadlock by aborting one of its transactions.                           *)
(***************************************************************************)
EXTENDS Naturals, FiniteSets

CONSTANTS
  Replies,      \* sends of a reply to the root
  Broadcasts,   \* those that are also sent to the channel
  Deletes,      \* calls of softDelete
  Cleaners,     \* nodes that run the reconciler
  MaxBulks,     \* bound on calls of bulkDelete
  MaxAborts,    \* bound on transactions that fail
  Root,         \* the root's row
  NoOwner       \* no lock

\* A reply's row, and the copy of it in the channel's timeline, which has the
\* same parentMessageId but is not a reply (isBroadcast).
ReplyRow(r) == <<r, "reply">>
CopyRow(r) == <<r, "copy">>
ReplyRows == {ReplyRow(r) : r \in Replies}
CopyRows == {CopyRow(r) : r \in Broadcasts}
Rows == ReplyRows \cup CopyRows

RowsOf(r) == {row \in Rows : row[1] = r}

\* Who may hold a row lock.
Sender(r) == <<"send", r>>
Deleter(d) == <<"delete", d>>
Bulk == <<"bulk", "bulk">>
Owners == {Sender(r) : r \in Replies} \cup {Deleter(d) : d \in Deletes} \cup {Bulk}

ASSUME ThreadCountAssumption ==
  /\ IsFiniteSet(Replies) /\ Broadcasts \subseteq Replies
  /\ MaxBulks \in Nat /\ MaxAborts \in Nat
  /\ Root \notin Rows /\ NoOwner \notin Owners

VARIABLES
  row,        \* committed state of every reply's row: "none", "live", "deleted"
  rootGone,   \* the root is soft-deleted
  count,      \* the root's replyCount
  lock,       \* lock[x]: the transaction that holds x's row lock
  send,       \* where the transaction of a reply stands
  del,        \* where a softDelete stands: [at, of]
  bulk,       \* where bulkDelete stands: [at, of], of the rows it selected
  rec,        \* where a node's reconcile stands: [at, actual]
  bulks,      \* calls of bulkDelete so far
  aborts,     \* failed transactions so far
  drifted     \* history: a reply came or went and the counter was left alone

thread == <<row, rootGone, count>>
threadVars == <<thread, lock, send, del, bulk, rec, bulks, aborts, drifted>>

Live == {x \in ReplyRows : row[x] = "live"}

ThreadTypeOK ==
  /\ row \in [Rows -> {"none", "live", "deleted"}]
  /\ rootGone \in BOOLEAN
  /\ count \in Nat
  /\ lock \in [Rows \cup {Root} -> Owners \cup {NoOwner}]
  /\ send \in [Replies -> {"none", "open", "counted", "done"}]
  /\ del \in [Deletes -> [at : {"idle", "mark", "count", "commit", "done"},
                          of : Rows \cup {NoOwner}]]
  /\ bulk \in [at : {"idle", "lock"}, of : SUBSET (Rows \cup {Root})]
  /\ rec \in [Cleaners -> [at : {"idle", "update"}, actual : Nat]]
  /\ bulks \in 0..MaxBulks
  /\ aborts \in 0..MaxAborts
  /\ drifted \in BOOLEAN

ThreadInit ==
  /\ row = [x \in Rows |-> "none"]
  /\ rootGone = FALSE /\ count = 0
  /\ lock = [x \in Rows \cup {Root} |-> NoOwner]
  /\ send = [r \in Replies |-> "none"]
  /\ del = [d \in Deletes |-> [at |-> "idle", of |-> NoOwner]]
  /\ bulk = [at |-> "idle", of |-> {}]
  /\ rec = [n \in Cleaners |-> [at |-> "idle", actual |-> 0]]
  /\ bulks = 0 /\ aborts = 0
  /\ drifted = FALSE

Release(who) == [x \in DOMAIN lock |-> IF lock[x] = who THEN NoOwner ELSE lock[x]]
Holds(who, x) == lock[x] = who

-----------------------------------------------------------------------------
(* send of a reply. *)

\* The root is looked at without a lock, then the reply is inserted.
Open(r) ==
  /\ send[r] = "none"
  /\ ~rootGone
  /\ send' = [send EXCEPT ![r] = "open"]
  /\ UNCHANGED <<thread, lock, del, bulk, rec, bulks, aborts, drifted>>

\* UPDATE ... replyCount + 1 WHERE deletedAt IS NULL: no row, no lock, when
\* the root was deleted meanwhile.
CountUp(r) ==
  /\ send[r] = "open"
  /\ lock[Root] = NoOwner
  /\ send' = [send EXCEPT ![r] = "counted"]
  /\ lock' = IF rootGone THEN lock ELSE [lock EXCEPT ![Root] = Sender(r)]
  /\ UNCHANGED <<thread, del, bulk, rec, bulks, aborts, drifted>>

CommitReply(r) ==
  /\ send[r] = "counted"
  /\ send' = [send EXCEPT ![r] = "done"]
  /\ row' = [x \in Rows |-> IF x \in RowsOf(r) THEN "live" ELSE row[x]]
  /\ count' = IF Holds(Sender(r), Root) THEN count + 1 ELSE count
  /\ drifted' = (drifted \/ ~Holds(Sender(r), Root))
  /\ lock' = Release(Sender(r))
  /\ UNCHANGED <<rootGone, del, bulk, rec, bulks, aborts>>

AbortReply(r) ==
  /\ send[r] \in {"open", "counted"}
  /\ aborts < MaxAborts
  /\ aborts' = aborts + 1
  /\ send' = [send EXCEPT ![r] = "done"]
  /\ lock' = Release(Sender(r))
  /\ UNCHANGED <<thread, del, bulk, rec, bulks, drifted>>

-----------------------------------------------------------------------------
(* softDelete of a reply, of its broadcast copy or of the root. *)

DelStart(d) ==
  /\ del[d].at = "idle"
  /\ \E x \in Rows :
       /\ row[x] # "none"
       /\ del' = [del EXCEPT ![d] = [at |-> "mark", of |-> x]]
  /\ UNCHANGED <<thread, lock, send, bulk, rec, bulks, aborts, drifted>>

\* Mutant: the row is marked whether or not it is deleted already.
DelMarkAgain(d) ==
  LET x == del[d].of IN
  /\ del[d].at = "mark"
  /\ lock[x] = NoOwner
  /\ lock' = [lock EXCEPT ![x] = Deleter(d)]
  /\ del' = [del EXCEPT ![d].at = IF x \in CopyRows THEN "commit" ELSE "count"]
  /\ UNCHANGED <<thread, send, bulk, rec, bulks, aborts, drifted>>

\* updateMany WHERE deletedAt IS NULL: nothing more is done when another call
\* was first.  Only a reply that is not a broadcast copy touches the counter.
DelMark(d) ==
  LET x == del[d].of IN
  /\ del[d].at = "mark"
  /\ lock[x] = NoOwner
  /\ IF row[x] = "deleted"
     THEN del' = [del EXCEPT ![d].at = "done"] /\ UNCHANGED lock
     ELSE /\ lock' = [lock EXCEPT ![x] = Deleter(d)]
          /\ del' = [del EXCEPT ![d].at =
                       IF x \in CopyRows THEN "commit" ELSE "count"]
  /\ UNCHANGED <<thread, send, bulk, rec, bulks, aborts, drifted>>

\* UPDATE ... GREATEST(0, replyCount - 1) WHERE deletedAt IS NULL.
CountDown(d) ==
  /\ del[d].at = "count"
  /\ lock[Root] = NoOwner
  /\ del' = [del EXCEPT ![d].at = "commit"]
  /\ lock' = IF rootGone THEN lock ELSE [lock EXCEPT ![Root] = Deleter(d)]
  /\ UNCHANGED <<thread, send, bulk, rec, bulks, aborts, drifted>>

DelCommit(d) ==
  /\ del[d].at = "commit"
  /\ del' = [del EXCEPT ![d].at = "done"]
  /\ row' = [row EXCEPT ![del[d].of] = "deleted"]
  /\ count' = IF Holds(Deleter(d), Root) /\ count > 0 THEN count - 1 ELSE count
  /\ drifted' = (drifted \/ (del[d].of \in ReplyRows /\ ~Holds(Deleter(d), Root)))
  /\ lock' = Release(Deleter(d))
  /\ UNCHANGED <<rootGone, send, bulk, rec, bulks, aborts>>

DelAbort(d) ==
  /\ del[d].at \in {"count", "commit"}
  /\ aborts < MaxAborts
  /\ aborts' = aborts + 1
  /\ del' = [del EXCEPT ![d].at = "done"]
  /\ lock' = Release(Deleter(d))
  /\ UNCHANGED <<thread, send, bulk, rec, bulks, drifted>>

\* The root is no reply: its deletion takes one row lock and no counter.
DeleteRoot ==
  /\ ~rootGone
  /\ lock[Root] = NoOwner
  /\ rootGone' = TRUE
  /\ UNCHANGED <<row, count, lock, send, del, bulk, rec, bulks, aborts, drifted>>

-----------------------------------------------------------------------------
(* bulkDelete. *)

Deletable(x) == IF x = Root THEN ~rootGone ELSE row[x] = "live"

BulkSelect ==
  /\ bulk.at = "idle"
  /\ bulks < MaxBulks
  /\ bulks' = bulks + 1
  /\ \E T \in SUBSET {x \in Rows \cup {Root} : Deletable(x)} :
       T # {} /\ bulk' = [at |-> "lock", of |-> T]
  /\ UNCHANGED <<thread, lock, send, del, rec, aborts, drifted>>

\* updateMany locks the rows in the order it meets them, and passes over one
\* that was deleted since it was selected.
BulkLock ==
  /\ bulk.at = "lock"
  /\ \E x \in bulk.of :
       /\ lock[x] = NoOwner
       /\ IF Deletable(x)
          THEN lock' = [lock EXCEPT ![x] = Bulk] /\ UNCHANGED bulk
          ELSE bulk' = [bulk EXCEPT !.of = @ \ {x}] /\ UNCHANGED lock
  /\ UNCHANGED <<thread, send, del, rec, bulks, aborts, drifted>>

\* The thread counter is not touched (the NOTE at line 3941).
BulkCommit ==
  /\ bulk.at = "lock"
  /\ \A x \in bulk.of : Holds(Bulk, x)
  /\ bulk' = [at |-> "idle", of |-> {}]
  /\ row' = [x \in Rows |-> IF x \in bulk.of THEN "deleted" ELSE row[x]]
  /\ rootGone' = (rootGone \/ Root \in bulk.of)
  /\ drifted' = (drifted \/ bulk.of \cap ReplyRows # {})
  /\ lock' = Release(Bulk)
  /\ UNCHANGED <<count, send, del, rec, bulks, aborts>>

\* bulkDelete has the root and waits for a reply whose softDelete waits for
\* the root: the database aborts one of the two.
Deadlocked(d) ==
  /\ Holds(Bulk, Root)
  /\ del[d].at = "count"
  /\ del[d].of \in bulk.of

BreakDeadlock(d) ==
  /\ Deadlocked(d)
  /\ \/ /\ bulk' = [at |-> "idle", of |-> {}]
        /\ lock' = Release(Bulk)
        /\ UNCHANGED del
     \/ /\ del' = [del EXCEPT ![d].at = "done"]
        /\ lock' = Release(Deleter(d))
        /\ UNCHANGED bulk
  /\ UNCHANGED <<thread, send, rec, bulks, aborts, drifted>>

-----------------------------------------------------------------------------
(* The reconciler. *)

\* Mutant: the copies in the channel are counted as replies.
ActualWithCopies == Cardinality({x \in Rows : row[x] = "live"})

Actual == Cardinality(Live)

\* The subquery counts in the statement's snapshot; a root that has no reply
\* row at all is not in it.
RecRead(n) ==
  /\ rec[n].at = "idle"
  /\ \E x \in ReplyRows : row[x] # "none"
  /\ count # Actual
  /\ rec' = [rec EXCEPT ![n] = [at |-> "update", actual |-> Actual]]
  /\ UNCHANGED <<thread, lock, send, del, bulk, bulks, aborts, drifted>>

\* The UPDATE waits for the row, reads it again, and compares it with the
\* count of its snapshot.
RecUpdate(n) ==
  /\ rec[n].at = "update"
  /\ lock[Root] = NoOwner
  /\ count' = rec[n].actual
  /\ rec' = [rec EXCEPT ![n].at = "idle"]
  /\ UNCHANGED <<row, rootGone, lock, send, del, bulk, bulks, aborts, drifted>>

SendReply(r) == CountUp(r) \/ CommitReply(r)
SoftDelete(d) == DelMark(d) \/ CountDown(d) \/ DelCommit(d)
BulkDelete == BulkLock \/ BulkCommit
Reconcile(n) == RecRead(n) \/ RecUpdate(n)

ThreadNext ==
  \/ \E r \in Replies : Open(r) \/ SendReply(r) \/ AbortReply(r)
  \/ \E d \in Deletes : DelStart(d) \/ SoftDelete(d) \/ DelAbort(d) \/ BreakDeadlock(d)
  \/ DeleteRoot \/ BulkSelect \/ BulkDelete
  \/ \E n \in Cleaners : Reconcile(n)

ThreadSpec == ThreadInit /\ [][ThreadNext]_threadVars

\* A transaction that began goes on while its lock is free, the database ends
\* a deadlock, and the cron runs every hour on every node.
ThreadFairness ==
  /\ \A r \in Replies : WF_threadVars(SendReply(r))
  /\ \A d \in Deletes : WF_threadVars(SoftDelete(d) \/ BreakDeadlock(d))
  /\ WF_threadVars(BulkDelete)
  /\ \A n \in Cleaners : WF_threadVars(Reconcile(n))

-----------------------------------------------------------------------------

\* As long as nothing is deleted in bulk and the root lives, the counter is
\* the number of live replies, whatever sends, deletions, doubled deletions,
\* broadcasts and reconcilers overlap (FR-TH-16: the INSERT or the deletion
\* and the counter are one transaction, and the row lock serialises them).
CountExact == ~drifted => count = Cardinality(Live)

\* When the thread is left in peace, the reconciler makes the counter right,
\* even though it may write a count that has become stale (FR-TH-17).
CountHeals == <>[](count = Cardinality(Live))
=============================================================================
