----------------------------- MODULE ReadState -----------------------------
(***************************************************************************)
(* The read cursors of one user in one workspace: UnreadService.ackRead,   *)
(* markUnread, markAllRead with its undo snapshot, and the unread totals   *)
(* cached in Redis.  The user's devices call them concurrently.            *)
(*                                                                         *)
(* A message is its place in its channel's (createdAt, id) order, 0 is     *)
(* "nothing read".  A step is one statement or one Redis command.  The     *)
(* statement of markAllRead reads its snapshot first and locks the rows    *)
(* one by one afterwards; ON CONFLICT ... WHERE looks at the row as it is  *)
(* then.  Left out: deleted messages, mentions, the visibility of          *)
(* channels, the counts in the payloads.                                   *)
(***************************************************************************)
EXTENDS Naturals, FiniteSets

CONSTANTS
  Chans,          \* the channels of the workspace
  Calls,          \* calls of the service
  MaxMsg,         \* bound on the messages of a channel
  MaxReadFaults,  \* bound on failed commands and dead calls
  NoCall,         \* no call
  NoCache         \* no totals in the cache

ASSUME ReadStateAssumption ==
  /\ MaxMsg \in Nat /\ MaxReadFaults \in Nat
  /\ NoCall \notin Calls /\ NoCache \notin [Chans -> 0..MaxMsg]

Msgs == 0..MaxMsg
Cursors == [Chans -> Msgs]

VARIABLES
  latest,      \* the last message of each channel
  cursor,      \* lastReadMessageId of each channel
  rowLock,     \* the markAllRead that holds a channel's cursor row
  call,        \* call[p]: [op, at, chan, msg, seen, goal, todo, moved, of]
  snapDb,      \* markAllReads whose snapshot is in the table ...
  snapRedis,   \* ... and in Redis
  cache,       \* unread:{ws}:{user}: the cursors its counts are made of
  cacheLock,   \* unread:lock:{ws}:{user}
  readFaults,  \* failures so far
  floor,       \* history: what an ack reached since the cursor was last set back
  restores,    \* history: how often a snapshot was restored
  overlapped,  \* history: snapshots with two undos under way at once
  lagged       \* history: a fill of the cache met an invalidation, or one was lost

cursors == <<latest, cursor, rowLock>>
snaps == <<snapDb, snapRedis>>
totals == <<cache, cacheLock>>
readHistory == <<floor, restores, overlapped, lagged>>
readVars == <<cursors, call, snaps, totals, readFaults, readHistory>>

Zero == [c \in Chans |-> 0]

AnyCall ==
  [op : {"none", "ack", "unread", "all", "undo", "totals"},
   at : {"new", "write", "back", "read", "lock", "save", "claim", "drop", "take",
         "restore", "get", "sum", "fill", "unlock", "invalidate", "done", "failed"},
   chan : Chans, msg : Msgs, seen : Cursors, goal : Cursors,
   todo : SUBSET Chans, moved : SUBSET Chans, of : Calls \cup {NoCall}]

ReadTypeOK ==
  /\ latest \in Cursors /\ cursor \in Cursors
  /\ rowLock \in [Chans -> Calls \cup {NoCall}]
  /\ call \in [Calls -> AnyCall]
  /\ snapDb \subseteq Calls /\ snapRedis \subseteq Calls
  /\ cache \in Cursors \cup {NoCache}
  /\ cacheLock \in Calls \cup {NoCall}
  /\ readFaults \in 0..MaxReadFaults
  /\ floor \in Cursors
  /\ restores \in [Calls -> Nat]
  /\ overlapped \subseteq Calls
  /\ lagged \in BOOLEAN

ReadInit ==
  /\ latest \in Cursors
  /\ cursor \in {f \in Cursors : \A c \in Chans : f[c] <= latest[c]}
  /\ rowLock = [c \in Chans |-> NoCall]
  /\ \E c \in Chans :
       call = [p \in Calls |-> [op |-> "none", at |-> "new", chan |-> c, msg |-> 0,
                                seen |-> Zero, goal |-> Zero, todo |-> {},
                                moved |-> {}, of |-> NoCall]]
  /\ snapDb = {} /\ snapRedis = {}
  /\ cache \in {NoCache, cursor} /\ cacheLock = NoCall
  /\ readFaults = 0
  /\ floor = Zero
  /\ restores = [p \in Calls |-> 0] /\ overlapped = {} /\ lagged = FALSE

Fault ==
  /\ readFaults < MaxReadFaults
  /\ readFaults' = readFaults + 1

At(p, op, where) == call[p].op = op /\ call[p].at = where
Goto(p, where) == call' = [call EXCEPT ![p].at = where]
Starts(p, op, where, fields) ==
  /\ call[p].at = "new"
  /\ call' = [call EXCEPT ![p] = [fields EXCEPT !.op = op, !.at = where]]

-----------------------------------------------------------------------------
(* A message comes; nothing here is told. *)

NewMessage(c) ==
  /\ latest[c] < MaxMsg
  /\ latest' = [latest EXCEPT ![c] = @ + 1]
  /\ UNCHANGED <<cursor, rowLock, call, snaps, totals, readFaults, readHistory>>

(* ackRead, also for the read-ack and the channel:read of the gateway. *)

StartAck(p) ==
  /\ \E c \in Chans : \E m \in 1..latest[c] :
       Starts(p, "ack", "write", [call[p] EXCEPT !.chan = c, !.msg = m])
  /\ UNCHANGED <<cursors, snaps, totals, readFaults, readHistory>>

\* Mutant: the upsert has no WHERE.
AckWriteAny(p) ==
  LET c == call[p].chan  m == call[p].msg IN
  /\ At(p, "ack", "write")
  /\ rowLock[c] = NoCall
  /\ Goto(p, "back")
  /\ cursor' = [cursor EXCEPT ![c] = m]
  /\ floor' = [floor EXCEPT ![c] = IF m > @ THEN m ELSE @]
  /\ UNCHANGED <<latest, rowLock, snaps, totals, readFaults, restores,
                 overlapped, lagged>>

\* The upsert moves the cursor forward or not at all.
AckWrite(p) ==
  LET c == call[p].chan  m == call[p].msg IN
  /\ At(p, "ack", "write")
  /\ rowLock[c] = NoCall
  /\ Goto(p, "back")
  /\ cursor' = [cursor EXCEPT ![c] = IF m > @ THEN m ELSE @]
  /\ floor' = [floor EXCEPT ![c] = IF m > @ THEN m ELSE @]
  /\ UNCHANGED <<latest, rowLock, snaps, totals, readFaults, restores,
                 overlapped, lagged>>

\* The cursor and the counts are read back for the payload.
AckReadBack(p) ==
  /\ At(p, "ack", "back")
  /\ Goto(p, "invalidate")
  /\ UNCHANGED <<cursors, snaps, totals, readFaults, readHistory>>

(* markUnread: the cursor is set before the message, whatever it was. *)

StartUnread(p) ==
  /\ \E c \in Chans : \E m \in 1..latest[c] :
       Starts(p, "unread", "write", [call[p] EXCEPT !.chan = c, !.msg = m - 1])
  /\ UNCHANGED <<cursors, snaps, totals, readFaults, readHistory>>

SetCursorBackward(p) ==
  LET c == call[p].chan  m == call[p].msg IN
  /\ At(p, "unread", "write")
  /\ rowLock[c] = NoCall
  /\ Goto(p, "invalidate")
  /\ cursor' = [cursor EXCEPT ![c] = m]
  /\ floor' = [floor EXCEPT ![c] = m]
  /\ UNCHANGED <<latest, rowLock, snaps, totals, readFaults, restores,
                 overlapped, lagged>>

-----------------------------------------------------------------------------
(* markAllRead: one transaction, whose first statement takes a snapshot    *)
(* (the CTEs latest and prior) and then upserts row after row.             *)

StartAll(p) ==
  /\ Starts(p, "all", "lock",
            [call[p] EXCEPT !.seen = cursor, !.goal = latest,
                            !.todo = {c \in Chans : latest[c] > 0}])
  /\ UNCHANGED <<cursors, snaps, totals, readFaults, readHistory>>

AdvanceVisible(p, c) ==
  /\ At(p, "all", "lock")
  /\ c \in call[p].todo
  /\ rowLock[c] = NoCall
  /\ rowLock' = [rowLock EXCEPT ![c] = p]
  /\ call' = [call EXCEPT ![p].todo = @ \ {c},
                          ![p].moved = IF cursor[c] < call[p].goal[c]
                                       THEN @ \cup {c} ELSE @]
  /\ UNCHANGED <<latest, cursor, snaps, totals, readFaults, readHistory>>

Unlocked(p) == [c \in Chans |-> IF rowLock[c] = p THEN NoCall ELSE rowLock[c]]

\* The snapshot row and the cursors commit together.
CommitAll(p) ==
  LET moved == call[p].moved  goal == call[p].goal IN
  /\ At(p, "all", "lock")
  /\ call[p].todo = {}
  /\ Goto(p, "save")
  /\ cursor' = [c \in Chans |-> IF c \in moved THEN goal[c] ELSE cursor[c]]
  /\ rowLock' = Unlocked(p)
  /\ snapDb' = snapDb \cup {p}
  /\ floor' = [c \in Chans |-> IF c \in moved /\ goal[c] > floor[c] THEN goal[c]
                              ELSE floor[c]]
  /\ UNCHANGED <<latest, snapRedis, totals, readFaults, restores, overlapped, lagged>>

\* The insert of the snapshot fails: the transaction rolls back.
AbortAll(p) ==
  /\ At(p, "all", "lock")
  /\ Fault
  /\ Goto(p, "failed")
  /\ rowLock' = Unlocked(p)
  /\ UNCHANGED <<latest, cursor, snaps, totals, readHistory>>

\* cacheSnapshotRedis, whose errors are swallowed.
SaveSnapshot(p) ==
  /\ At(p, "all", "save")
  /\ Goto(p, IF call[p].moved = {} THEN "done" ELSE "invalidate")
  /\ \/ snapRedis' = snapRedis \cup {p} /\ UNCHANGED readFaults
     \/ Fault /\ UNCHANGED snapRedis
  /\ UNCHANGED <<cursors, snapDb, totals, readHistory>>

\* The snapshot outlives its five minutes in neither place; Redis may drop it
\* earlier.
SnapshotExpires(q) ==
  /\ \/ snapRedis' = snapRedis \ {q} /\ UNCHANGED snapDb
     \/ snapRedis' = snapRedis \ {q} /\ snapDb' = snapDb \ {q}
  /\ snaps' # snaps
  /\ UNCHANGED <<cursors, call, totals, readFaults, readHistory>>

-----------------------------------------------------------------------------
(* undoMarkAllRead. *)

Undoing(q) == {p \in Calls : call[p].of = q /\ call[p].at \in {"claim", "drop", "take"}}

StartUndo(p) ==
  \E q \in Calls :
    /\ At(q, "all", "done")
    /\ Starts(p, "undo", "claim", [call[p] EXCEPT !.of = q])
    /\ overlapped' = IF Undoing(q) = {} THEN overlapped ELSE overlapped \cup {q}
    /\ UNCHANGED <<cursors, snaps, totals, readFaults, floor, restores,
                   lagged>>

\* The Lua claim takes the snapshot out of Redis; when it is not there, or
\* Redis fails, the table is asked.
Claim(p) ==
  LET q == call[p].of IN
  /\ At(p, "undo", "claim")
  /\ \/ /\ q \in snapRedis
        /\ snapRedis' = snapRedis \ {q}
        /\ Goto(p, "drop")
        /\ UNCHANGED readFaults
     \/ /\ q \notin snapRedis
        /\ Goto(p, "take")
        /\ UNCHANGED <<snapRedis, readFaults>>
     \/ /\ q \in snapRedis /\ Fault
        /\ Goto(p, "take")
        /\ UNCHANGED snapRedis
  /\ UNCHANGED <<cursors, snapDb, totals, readHistory>>

\* Mutant: the row in the table is left for the cleaner.
LeaveRow(p) ==
  /\ At(p, "undo", "drop")
  /\ Goto(p, "restore")
  /\ UNCHANGED <<cursors, snaps, totals, readFaults, readHistory>>

\* After a claim the row goes as well, if that works.
DropRow(p) ==
  /\ At(p, "undo", "drop")
  /\ Goto(p, "restore")
  /\ \/ snapDb' = snapDb \ {call[p].of} /\ UNCHANGED readFaults
     \/ Fault /\ UNCHANGED snapDb
  /\ UNCHANGED <<cursors, snapRedis, totals, readHistory>>

\* DELETE ... RETURNING, or 404.
TakeRow(p) ==
  LET q == call[p].of IN
  /\ At(p, "undo", "take")
  /\ Goto(p, IF q \in snapDb THEN "restore" ELSE "done")
  /\ snapDb' = snapDb \ {q}
  /\ UNCHANGED <<cursors, snapRedis, totals, readFaults, readHistory>>

\* The channels of the snapshot are set to its cursors, without a guard.
Restore(p) ==
  LET q == call[p].of  moved == call[q].moved  seen == call[q].seen IN
  /\ At(p, "undo", "restore")
  /\ \A c \in moved : rowLock[c] = NoCall
  /\ Goto(p, IF moved = {} THEN "done" ELSE "invalidate")
  /\ cursor' = [c \in Chans |-> IF c \in moved THEN seen[c] ELSE cursor[c]]
  /\ floor' = [c \in Chans |-> IF c \in moved THEN seen[c] ELSE floor[c]]
  /\ restores' = [restores EXCEPT ![q] = @ + 1]
  /\ UNCHANGED <<latest, rowLock, snaps, totals, readFaults, overlapped,
                 lagged>>

-----------------------------------------------------------------------------
(* The cached totals. *)

Filling(p) == At(p, "totals", "fill")

\* Mutant: the cache is left to its expiry.
KeepCache(p) ==
  /\ call[p].at = "invalidate"
  /\ Goto(p, "done")
  /\ UNCHANGED <<cursors, snaps, totals, readFaults, readHistory>>

\* The last step of every call that moved a cursor: DEL of the user's key,
\* whose errors are swallowed.
Invalidate(p) ==
  /\ call[p].at = "invalidate"
  /\ Goto(p, "done")
  /\ \/ /\ cache' = NoCache
        /\ lagged' = (lagged \/ \E q \in Calls : Filling(q) /\ call[q].seen # cursor)
        /\ UNCHANGED readFaults
     \/ Fault /\ lagged' = TRUE /\ UNCHANGED cache
  /\ UNCHANGED <<cursors, snaps, cacheLock, floor, restores, overlapped>>

\* The process dies in a call that has moved a cursor.
DieBeforeInvalidate(p) ==
  /\ call[p].at \in {"back", "save", "invalidate"}
  /\ Fault
  /\ Goto(p, "failed")
  /\ lagged' = TRUE
  /\ UNCHANGED <<cursors, snaps, totals, floor, restores, overlapped>>

StartTotals(p) ==
  /\ Starts(p, "totals", IF cache = NoCache THEN "get" ELSE "done", call[p])
  /\ UNCHANGED <<cursors, snaps, totals, readFaults, readHistory>>

\* SET NX: the loser polls the cache and counts for itself in the end.
LockTotals(p) ==
  /\ At(p, "totals", "get")
  /\ IF cacheLock = NoCall
     THEN cacheLock' = p /\ Goto(p, "sum")
     ELSE Goto(p, "done") /\ UNCHANGED cacheLock
  /\ UNCHANGED <<cursors, snaps, cache, readFaults, readHistory>>

SumTotals(p) ==
  /\ At(p, "totals", "sum")
  /\ call' = [call EXCEPT ![p].at = "fill", ![p].seen = cursor]
  /\ UNCHANGED <<cursors, snaps, totals, readFaults, readHistory>>

FillCache(p) ==
  /\ Filling(p)
  /\ Goto(p, "unlock")
  /\ \/ cache' = call[p].seen /\ UNCHANGED readFaults
     \/ Fault /\ UNCHANGED cache
  /\ UNCHANGED <<cursors, snaps, cacheLock, readHistory>>

\* The fenced unlock of the one that filled.
UnlockTotals(p) ==
  /\ At(p, "totals", "unlock")
  /\ Goto(p, "done")
  /\ cacheLock' = IF cacheLock = p THEN NoCall ELSE cacheLock
  /\ UNCHANGED <<cursors, snaps, cache, readFaults, readHistory>>

\* The lock expires under a slow holder, and the cache after two hours.
TotalsExpire ==
  /\ \/ cacheLock # NoCall /\ cacheLock' = NoCall /\ UNCHANGED cache
     \/ cache # NoCache /\ cache' = NoCache /\ UNCHANGED cacheLock
  /\ UNCHANGED <<cursors, call, snaps, readFaults, readHistory>>

AckRead(p) == StartAck(p) \/ AckWrite(p) \/ AckReadBack(p)
MarkUnread(p) == StartUnread(p) \/ SetCursorBackward(p)
MarkAllRead(p) ==
  \/ StartAll(p) \/ CommitAll(p) \/ AbortAll(p) \/ SaveSnapshot(p)
  \/ \E c \in Chans : AdvanceVisible(p, c)
UndoMarkAllRead(p) ==
  StartUndo(p) \/ Claim(p) \/ DropRow(p) \/ TakeRow(p) \/ Restore(p)
CachedTotal(p) ==
  \/ StartTotals(p) \/ LockTotals(p) \/ SumTotals(p) \/ FillCache(p)
  \/ UnlockTotals(p)

ReadNext ==
  \/ \E c \in Chans : NewMessage(c)
  \/ \E p \in Calls :
       \/ AckRead(p) \/ MarkUnread(p) \/ MarkAllRead(p) \/ UndoMarkAllRead(p)
       \/ CachedTotal(p) \/ Invalidate(p) \/ DieBeforeInvalidate(p)
       \/ SnapshotExpires(p)
  \/ TotalsExpire

ReadSpec == ReadInit /\ [][ReadNext]_readVars

-----------------------------------------------------------------------------

\* What was acknowledged stays read until markUnread or an undo sets the
\* cursor back: neither a late ack of an older message nor a markAllRead whose
\* snapshot is older takes it back (FR-RS-17).
AckedStaysRead == \A c \in Chans : cursor[c] >= floor[c]

\* A snapshot is restored once, as long as two undos of it do not overlap and
\* Redis and the table answer: the claim and the DELETE take both copies.
UndoneOnce ==
  readFaults = 0 => \A q \in Calls \ overlapped : restores[q] <= 1

\* A call that has moved a cursor and has yet to invalidate the cache.
Dirty(p) == call[p].at \in {"back", "save", "invalidate"}

\* The cached totals show the cursors as they are, except while a call still
\* has to invalidate them, or when a fill that had read older cursors came
\* after an invalidation, or an invalidation was lost (FR-RS-14).
TotalsCurrent ==
  (cache # NoCache /\ ~lagged /\ \A p \in Calls : ~Dirty(p)) => cache = cursor

\* What Redis keeps beside the cursors, the snapshot of an undo and the totals,
\* is used once and agrees with them (unread.service.ts, markAllRead).
CachesSound == UndoneOnce /\ TotalsCurrent
=============================================================================
