-------------------------- MODULE UserStateProofs --------------------------
(* Proofs about the state of one user, for any number of tabs, calls, nodes *)
(* and failures: the read cursors and their caches, the eviction of a       *)
(* temporary member, the session of a browser and the attachments of a      *)
(* message being composed.                                                  *)
EXTENDS MCUserState, FiniteSetTheorems, TLAPS

-----------------------------------------------------------------------------
(* The read cursors. *)

\* A markAllRead holds the rows it is going to move, and moves them forward:
\* nobody else writes them before it commits.
RowsHeld ==
  \A p \in Calls :
    /\ call[p].at = "new" => call[p].moved = {}
    /\ At(p, "all", "lock") =>
         \A c \in call[p].moved : rowLock[c] = p /\ cursor[c] < call[p].goal[c]

\* An undo knows whose snapshot it restores.
UndoKnows == \A p \in Calls : call[p].op = "undo" => call[p].of \in Calls

ReadIInv == ReadTypeOK /\ RowsHeld /\ UndoKnows /\ AckedStaysRead

-----------------------------------------------------------------------------

Places ==
  {"new", "write", "back", "read", "lock", "save", "claim", "drop", "take", "restore",
   "get", "sum", "fill", "unlock", "invalidate", "done", "failed"}
Ops == {"none", "ack", "unread", "all", "undo", "totals"}

\* What the assumptions say of the bounds.
LEMMA Numbers == MaxMsg \in Nat /\ MaxReadFaults \in Nat /\ NoCall \notin Calls
BY ReadStateAssumption DEF ReadStateAssumption

\* A call gets on: where it is, and that the others stay.
LEMMA CallMoves ==
  ASSUME call \in [Calls -> AnyCall], NEW p \in Calls, NEW where \in Places, Goto(p, where)
  PROVE  /\ call' \in [Calls -> AnyCall]
         /\ call'[p].at = where
         /\ \A q \in Calls : q # p => call'[q] = call[q]
         /\ \A q \in Calls : /\ call'[q].op = call[q].op /\ call'[q].moved = call[q].moved
                             /\ call'[q].goal = call[q].goal /\ call'[q].of = call[q].of
<1>1. call' = [call EXCEPT ![p] = [call[p] EXCEPT !.at = where]]
  BY DEF Goto
<1>2. [call[p] EXCEPT !.at = where] \in AnyCall
  BY DEF AnyCall, Places
<1>3. /\ [call[p] EXCEPT !.at = where].at = where
      /\ [call[p] EXCEPT !.at = where].op = call[p].op
      /\ [call[p] EXCEPT !.at = where].moved = call[p].moved
      /\ [call[p] EXCEPT !.at = where].goal = call[p].goal
      /\ [call[p] EXCEPT !.at = where].of = call[p].of
  BY DEF AnyCall
<1> HIDE DEF AnyCall
<1> QED BY <1>1, <1>2, <1>3

\* A call starts with its fields.
LEMMA CallStarts ==
  ASSUME call \in [Calls -> AnyCall], NEW p \in Calls, NEW fields \in AnyCall,
         NEW op \in Ops, NEW where \in Places, where # "new",
         Starts(p, op, where, fields)
  PROVE  /\ call[p].at = "new"
         /\ call' \in [Calls -> AnyCall]
         /\ call'[p].at = where /\ call'[p].op = op
         /\ call'[p].moved = fields.moved /\ call'[p].of = fields.of
         /\ \A q \in Calls : q # p => call'[q] = call[q]
<1>1. /\ call[p].at = "new"
      /\ call' = [call EXCEPT ![p] = [fields EXCEPT !.op = op, !.at = where]]
  BY DEF Starts
<1>2. [fields EXCEPT !.op = op, !.at = where] \in AnyCall
  BY DEF AnyCall, Places, Ops
<1>3. /\ [fields EXCEPT !.op = op, !.at = where].at = where
      /\ [fields EXCEPT !.op = op, !.at = where].op = op
      /\ [fields EXCEPT !.op = op, !.at = where].moved = fields.moved
      /\ [fields EXCEPT !.op = op, !.at = where].of = fields.of
  BY DEF AnyCall
<1> QED BY <1>1, <1>2, <1>3

\* Nothing is read and no call has started.
LEMMA ReadInitHolds == ReadInit => ReadIInv
<1> SUFFICES ASSUME ReadInit PROVE ReadIInv
  OBVIOUS
<1> USE Numbers
<1>1. PICK ch \in Chans :
        call = [p \in Calls |-> [op |-> "none", at |-> "new", chan |-> ch, msg |-> 0,
                                 seen |-> Zero, goal |-> Zero, todo |-> {},
                                 moved |-> {}, of |-> NoCall]]
  BY DEF ReadInit
<1>2. Zero \in Cursors
  BY DEF Zero, Cursors, Msgs
<1>3. call \in [Calls -> AnyCall]
  BY <1>1, <1>2 DEF AnyCall, Msgs
<1>4. /\ latest \in Cursors /\ cursor \in Cursors /\ floor = Zero
      /\ \A c \in Chans : cursor[c] >= floor[c]
  BY DEF ReadInit, Cursors, Zero, Msgs
<1>5. ReadTypeOK
  <2>1. cache \in Cursors \cup {NoCache} /\ readFaults \in 0..MaxReadFaults
    BY <1>4 DEF ReadInit
  <2>2. restores \in [Calls -> Nat] /\ rowLock \in [Chans -> Calls \cup {NoCall}]
    BY DEF ReadInit
  <2>3. snapDb = {} /\ snapRedis = {} /\ cacheLock = NoCall /\ overlapped = {} /\ lagged = FALSE
    BY DEF ReadInit
  <2> QED BY <1>2, <1>3, <1>4, <2>1, <2>2, <2>3 DEF ReadTypeOK
<1>6. RowsHeld /\ UndoKnows
  BY <1>1 DEF RowsHeld, UndoKnows, At
<1> QED BY <1>4, <1>5, <1>6 DEF ReadIInv, AckedStaysRead

\* A step that leaves cursors and row locks alone and moves or starts no
\* markAllRead keeps what the locks hold.
LEMMA LocksStay ==
  ASSUME ReadIInv, NEW p \in Calls,
         UNCHANGED <<cursor, rowLock, floor>>,
         \A q \in Calls : q # p => call'[q] = call[q],
         call'[p].at # "new",
         At(p, "all", "lock")' => call'[p].moved = {},
         call'[p].op = "undo" => call'[p].of \in Calls
  PROVE  RowsHeld' /\ UndoKnows' /\ AckedStaysRead'
BY DEF ReadIInv, RowsHeld, UndoKnows, AckedStaysRead, At
\* A step of one call that touches no cursor and no row lock.
LEMMA OtherStepsHold ==
  ASSUME ReadIInv, NEW p \in Calls,
         \/ AckReadBack(p) \/ SaveSnapshot(p) \/ Claim(p) \/ DropRow(p) \/ TakeRow(p)
         \/ Invalidate(p) \/ DieBeforeInvalidate(p) \/ LockTotals(p) \/ FillCache(p)
         \/ UnlockTotals(p)
  PROVE  ReadIInv'
<1> USE Numbers
<1>1. UNCHANGED <<latest, cursor, rowLock, floor, restores, overlapped>>
  BY DEF AckReadBack, SaveSnapshot, Claim, DropRow, TakeRow, Invalidate, DieBeforeInvalidate,
         LockTotals, FillCache, UnlockTotals, cursors, readHistory
<1>2. PICK where \in Places \ {"new", "lock"} : Goto(p, where)
  BY DEF AckReadBack, SaveSnapshot, Claim, DropRow, TakeRow, Invalidate, DieBeforeInvalidate,
         LockTotals, FillCache, UnlockTotals, Places
<1>3. /\ call' \in [Calls -> AnyCall] /\ call'[p].at = where
      /\ call'[p].op = call[p].op /\ call'[p].of = call[p].of
      /\ \A q \in Calls : q # p => call'[q] = call[q]
  BY <1>2, CallMoves DEF ReadIInv, ReadTypeOK
<1>4. RowsHeld' /\ UndoKnows' /\ AckedStaysRead'
  <2>1. call'[p].op = "undo" => call'[p].of \in Calls
    BY <1>3 DEF ReadIInv, UndoKnows
  <2> QED BY <1>1, <1>3, <2>1, LocksStay DEF At
<1>5. readFaults' \in 0..MaxReadFaults
  BY DEF AckReadBack, SaveSnapshot, Claim, DropRow, TakeRow, Invalidate, DieBeforeInvalidate,
         LockTotals, FillCache, UnlockTotals, Fault, ReadIInv, ReadTypeOK
<1>6. snapDb' \subseteq Calls /\ snapRedis' \subseteq Calls
  BY DEF AckReadBack, SaveSnapshot, Claim, DropRow, TakeRow, Invalidate, DieBeforeInvalidate,
         LockTotals, FillCache, UnlockTotals, snaps, ReadIInv, ReadTypeOK
<1>7. call[p].seen \in Cursors
  BY DEF ReadIInv, ReadTypeOK, AnyCall
<1>8. cache' \in Cursors \cup {NoCache} /\ cacheLock' \in Calls \cup {NoCall}
  BY <1>7 DEF AckReadBack, SaveSnapshot, Claim, DropRow, TakeRow, Invalidate,
         DieBeforeInvalidate, LockTotals, FillCache, UnlockTotals, totals, ReadIInv, ReadTypeOK
<1>9. lagged' \in BOOLEAN
  BY DEF AckReadBack, SaveSnapshot, Claim, DropRow, TakeRow, Invalidate, DieBeforeInvalidate,
         LockTotals, FillCache, UnlockTotals, readHistory, ReadIInv, ReadTypeOK
<1> QED BY <1>1, <1>3, <1>4, <1>5, <1>6, <1>8, <1>9 DEF ReadIInv, ReadTypeOK

\* A call begins, or the counts are summed up: the call alone changes.
LEMMA StartsHold ==
  ASSUME ReadIInv, NEW p \in Calls,
         \/ StartAck(p) \/ StartUnread(p) \/ StartAll(p) \/ StartUndo(p)
         \/ StartTotals(p) \/ SumTotals(p)
  PROVE  ReadIInv'
<1> USE Numbers
<1>0. call \in [Calls -> AnyCall] /\ latest \in Cursors /\ cursor \in Cursors
  BY DEF ReadIInv, ReadTypeOK
<1>1. /\ UNCHANGED <<latest, cursor, rowLock, snapDb, snapRedis, cache, cacheLock, readFaults,
                     floor, restores, lagged>>
      /\ overlapped' \subseteq Calls
  BY DEF StartAck, StartUnread, StartAll, StartUndo, StartTotals, SumTotals, cursors, snaps,
         totals, readHistory, ReadIInv, ReadTypeOK
<1>2. /\ call' \in [Calls -> AnyCall] /\ call'[p].at # "new"
      /\ At(p, "all", "lock")' => call'[p].moved = {}
      /\ call'[p].op = "undo" => call'[p].of \in Calls
      /\ \A q \in Calls : q # p => call'[q] = call[q]
  <2>1. CASE SumTotals(p)
    <3>1. call' = [call EXCEPT ![p] = [[call[p] EXCEPT !.at = "fill"] EXCEPT !.seen = cursor]]
      BY <2>1, <1>0 DEF SumTotals
    <3>2. [[call[p] EXCEPT !.at = "fill"] EXCEPT !.seen = cursor] \in AnyCall
      BY Zenon, <1>0 DEF AnyCall
    <3> QED BY <1>0, <2>1, <3>1, <3>2 DEF SumTotals, At, AnyCall
  <2>2. ASSUME NEW fields \in AnyCall, fields.moved = call[p].moved,
               NEW op \in Ops, NEW where \in Places \ {"new"}, Starts(p, op, where, fields),
               op = "undo" => fields.of \in Calls
        PROVE  /\ call' \in [Calls -> AnyCall] /\ call'[p].at # "new"
               /\ At(p, "all", "lock")' => call'[p].moved = {}
               /\ call'[p].op = "undo" => call'[p].of \in Calls
               /\ \A q \in Calls : q # p => call'[q] = call[q]
    <3>1. call[p].at = "new" /\ call'[p].moved = call[p].moved /\ call'[p].at = where
          /\ call'[p].op = op /\ call'[p].of = fields.of
          /\ call' \in [Calls -> AnyCall] /\ \A q \in Calls : q # p => call'[q] = call[q]
      BY <1>0, <2>2, CallStarts
    <3>2. call[p].moved = {}
      BY <3>1 DEF ReadIInv, RowsHeld
    <3> QED BY <2>2, <3>1, <3>2
  <2>3. CASE StartAck(p)
    <3>0. PICK c \in Chans : \E m \in 1..latest[c] :
            Starts(p, "ack", "write", [call[p] EXCEPT !.chan = c, !.msg = m])
      BY <2>3 DEF StartAck
    <3>1. PICK m \in 1..latest[c] :
            Starts(p, "ack", "write", [call[p] EXCEPT !.chan = c, !.msg = m])
      BY <3>0
    <3>2. m \in Msgs
      BY <1>0 DEF Cursors, Msgs
    <3>3. /\ [call[p] EXCEPT !.chan = c, !.msg = m] \in AnyCall
          /\ [call[p] EXCEPT !.chan = c, !.msg = m].moved = call[p].moved
      BY Zenon, <1>0, <3>2 DEF AnyCall
    <3>4. "ack" \in Ops /\ "write" \in Places \ {"new"}
      BY DEF Ops, Places
    <3> QED BY <2>2, <3>1, <3>3, <3>4
  <2>4. CASE StartUnread(p)
    <3>0. PICK c \in Chans : \E m \in 1..latest[c] :
            Starts(p, "unread", "write", [call[p] EXCEPT !.chan = c, !.msg = m - 1])
      BY <2>4 DEF StartUnread
    <3>1. PICK m \in 1..latest[c] :
            Starts(p, "unread", "write", [call[p] EXCEPT !.chan = c, !.msg = m - 1])
      BY <3>0
    <3>2. m - 1 \in Msgs
      BY <1>0 DEF Cursors, Msgs
    <3>3. /\ [call[p] EXCEPT !.chan = c, !.msg = m - 1] \in AnyCall
          /\ [call[p] EXCEPT !.chan = c, !.msg = m - 1].moved = call[p].moved
      BY Zenon, <1>0, <3>2 DEF AnyCall
    <3>4. "unread" \in Ops /\ "write" \in Places \ {"new"}
      BY DEF Ops, Places
    <3> QED BY <2>2, <3>1, <3>3, <3>4
  <2>5. CASE StartAll(p)
    <3> DEFINE fields == [call[p] EXCEPT !.seen = cursor, !.goal = latest,
                                         !.todo = {c \in Chans : latest[c] > 0}]
    <3>1. Starts(p, "all", "lock", fields)
      BY <2>5 DEF StartAll
    <3>2. {c \in Chans : latest[c] > 0} \in SUBSET Chans
      OBVIOUS
    <3>3. fields \in AnyCall /\ fields.moved = call[p].moved
      BY Zenon, <1>0, <3>2 DEF AnyCall
    <3>4. "all" \in Ops /\ "lock" \in Places \ {"new"}
      BY DEF Ops, Places
    <3> HIDE DEF fields
    <3> QED BY <2>2, <3>1, <3>3, <3>4
  <2>6. CASE StartUndo(p)
    <3>1. PICK q \in Calls : Starts(p, "undo", "claim", [call[p] EXCEPT !.of = q])
      BY <2>6 DEF StartUndo
    <3>2. /\ [call[p] EXCEPT !.of = q] \in AnyCall
          /\ [call[p] EXCEPT !.of = q].moved = call[p].moved
          /\ [call[p] EXCEPT !.of = q].of \in Calls
      BY <1>0 DEF AnyCall
    <3>3. "undo" \in Ops /\ "claim" \in Places \ {"new"}
      BY DEF Ops, Places
    <3> QED BY <2>2, <3>1, <3>2, <3>3
  <2>7. CASE StartTotals(p)
    <3>1. PICK where \in {"get", "done"} : Starts(p, "totals", where, call[p])
      BY <2>7 DEF StartTotals
    <3>2. call[p] \in AnyCall /\ "totals" \in Ops /\ where \in Places \ {"new"}
      BY <1>0 DEF Ops, Places
    <3> QED BY <2>2, <3>1, <3>2
  <2> QED BY <2>1, <2>3, <2>4, <2>5, <2>6, <2>7
<1>3. RowsHeld' /\ UndoKnows' /\ AckedStaysRead'
  BY <1>1, <1>2, LocksStay
<1> QED BY <1>1, <1>2, <1>3 DEF ReadIInv, ReadTypeOK
-----------------------------------------------------------------------------
(* The steps that write cursors. *)

\* The upsert of an ack, and that of markUnread: one row, which nobody holds.
LEMMA OneRowHolds ==
  ASSUME ReadIInv, NEW p \in Calls, AckWrite(p) \/ SetCursorBackward(p)
  PROVE  ReadIInv'
<1> USE Numbers
<1> DEFINE c == call[p].chan
           m == call[p].msg
<1>0. /\ call \in [Calls -> AnyCall] /\ cursor \in Cursors /\ floor \in Cursors
      /\ c \in Chans /\ m \in Msgs
  BY DEF ReadIInv, ReadTypeOK, AnyCall
<1>1. /\ UNCHANGED <<latest, rowLock, snapDb, snapRedis, cache, cacheLock, readFaults, restores,
                     overlapped, lagged>>
      /\ rowLock[c] = NoCall
      /\ call[p].op \in {"ack", "unread"}
  BY DEF AckWrite, SetCursorBackward, At, snaps, totals
<1>2. PICK n \in Msgs, k \in Msgs : /\ cursor' = [cursor EXCEPT ![c] = n]
                                    /\ floor' = [floor EXCEPT ![c] = k]
                                    /\ n >= k
  <2>1. CASE AckWrite(p)
    <3> DEFINE n == IF m > cursor[c] THEN m ELSE cursor[c]
               k == IF m > floor[c] THEN m ELSE floor[c]
    <3>1. cursor' = [cursor EXCEPT ![c] = n] /\ floor' = [floor EXCEPT ![c] = k]
      BY <2>1 DEF AckWrite
    <3>2. cursor[c] \in Msgs /\ floor[c] \in Msgs /\ cursor[c] >= floor[c]
      BY <1>0 DEF Cursors, ReadIInv, AckedStaysRead
    <3>3. n \in Msgs /\ k \in Msgs /\ n >= k
      BY <1>0, <3>2 DEF Msgs
    <3> HIDE DEF n, k
    <3> QED BY <3>1, <3>3
  <2>2. CASE SetCursorBackward(p)
    <3>1. cursor' = [cursor EXCEPT ![c] = m] /\ floor' = [floor EXCEPT ![c] = m]
      BY <2>2 DEF SetCursorBackward
    <3>2. m >= m
      BY <1>0 DEF Msgs
    <3> QED BY <1>0, <3>1, <3>2
  <2> QED BY <2>1, <2>2
<1>3. PICK where \in {"back", "invalidate"} : Goto(p, where)
  BY DEF AckWrite, SetCursorBackward
<1>4. where \in Places
  BY DEF Places
<1>5. /\ call' \in [Calls -> AnyCall] /\ call'[p].at = where
      /\ \A q \in Calls : q # p => call'[q] = call[q]
      /\ UndoKnows'
  BY <1>0, <1>3, <1>4, CallMoves DEF ReadIInv, UndoKnows
<1>6. AckedStaysRead'
  BY <1>0, <1>2 DEF AckedStaysRead, ReadIInv, Cursors
<1>7. RowsHeld'
  <2>1. ASSUME NEW q \in Calls, At(q, "all", "lock")' PROVE At(q, "all", "lock") /\ q # p
    BY <1>5, <2>1 DEF At
  <2>2. ASSUME NEW q \in Calls, At(q, "all", "lock")', NEW d \in call'[q].moved
        PROVE  rowLock'[d] = q /\ cursor'[d] < call'[q].goal[d]
    <3>1. q # p /\ call'[q] = call[q] /\ rowLock[d] = q /\ cursor[d] < call[q].goal[d]
      BY <1>5, <2>1, <2>2 DEF ReadIInv, RowsHeld
    <3>2. d \in Chans /\ d # c
      BY <1>0, <1>1, <3>1, <2>2 DEF AnyCall
    <3> QED BY <1>0, <1>1, <1>2, <3>1, <3>2 DEF Cursors
  <2>3. ASSUME NEW q \in Calls, call'[q].at = "new" PROVE call'[q].moved = {}
    BY <1>5, <2>3 DEF ReadIInv, RowsHeld
  <2> QED BY <2>2, <2>3 DEF RowsHeld
<1>8. cursor' \in Cursors /\ floor' \in Cursors
  BY <1>0, <1>2 DEF Cursors
<1> QED BY <1>1, <1>5, <1>6, <1>7, <1>8 DEF ReadIInv, ReadTypeOK

\* markAllRead takes the lock of a row and sees whether it moves it.
LEMMA AdvanceHolds ==
  ASSUME ReadIInv, NEW p \in Calls, NEW c \in Chans, AdvanceVisible(p, c)
  PROVE  ReadIInv'
<1> USE Numbers
<1>0. call \in [Calls -> AnyCall] /\ cursor \in Cursors
  BY DEF ReadIInv, ReadTypeOK
<1>1. /\ UNCHANGED <<latest, cursor, snapDb, snapRedis, cache, cacheLock, readFaults, floor,
                     restores, overlapped, lagged>>
      /\ call[p].op = "all" /\ call[p].at = "lock" /\ rowLock[c] = NoCall
      /\ rowLock' = [rowLock EXCEPT ![c] = p]
  BY DEF AdvanceVisible, At, snaps, totals, readHistory
<1> DEFINE turned == IF cursor[c] < call[p].goal[c] THEN call[p].moved \cup {c}
                    ELSE call[p].moved
           next == [call[p] EXCEPT !.todo = @ \ {c}, !.moved = turned]
<1>2. call' = [call EXCEPT ![p] = next]
  BY <1>0 DEF AdvanceVisible
<1>3. /\ next \in AnyCall /\ next.at = "lock" /\ next.op = "all" /\ next.moved = turned
      /\ next.goal = call[p].goal
      /\ next.of = call[p].of
  BY Zenon, <1>0, <1>1 DEF AnyCall
<1> HIDE DEF next
<1>4. /\ call' \in [Calls -> AnyCall] /\ call'[p] = next
      /\ \A q \in Calls : q # p => call'[q] = call[q]
  BY <1>0, <1>2, <1>3
<1>5. rowLock' \in [Chans -> Calls \cup {NoCall}]
  BY <1>1 DEF ReadIInv, ReadTypeOK
<1>6. RowsHeld'
  <2>1. ASSUME NEW q \in Calls, call'[q].at = "new" PROVE call'[q].moved = {}
    BY <1>3, <1>4, <2>1 DEF ReadIInv, RowsHeld
  <2>2. ASSUME NEW q \in Calls, At(q, "all", "lock")', NEW d \in call'[q].moved
        PROVE  rowLock'[d] = q /\ cursor'[d] < call'[q].goal[d]
    <3>1. d \in Chans /\ rowLock \in [Chans -> Calls \cup {NoCall}]
      BY <1>4, <2>2 DEF AnyCall, ReadIInv, ReadTypeOK
    <3>2. CASE q # p
      <4>1. call'[q] = call[q] /\ At(q, "all", "lock")
        BY <1>4, <2>2, <3>2 DEF At
      <4>2. rowLock[d] = q /\ cursor[d] < call[q].goal[d]
        BY <2>2, <4>1 DEF ReadIInv, RowsHeld
      <4> QED BY <1>1, <3>1, <4>1, <4>2
    <3>3. CASE q = p /\ d \in call[p].moved
      <4>1. rowLock[d] = p /\ cursor[d] < call[p].goal[d]
        BY <1>1, <3>3 DEF ReadIInv, RowsHeld, At
      <4> QED BY <1>1, <1>3, <1>4, <3>1, <3>3, <4>1
    <3>4. CASE q = p /\ d \notin call[p].moved
      <4>1. d = c /\ cursor[c] < call[p].goal[c]
        BY <1>3, <1>4, <2>2, <3>4
      <4> QED BY <1>1, <1>3, <1>4, <3>1, <3>4, <4>1
    <3> QED BY <3>2, <3>3, <3>4
  <2> QED BY <2>1, <2>2 DEF RowsHeld
<1>7. UndoKnows'
  BY <1>1, <1>3, <1>4 DEF ReadIInv, UndoKnows
<1> QED BY <1>1, <1>4, <1>5, <1>6, <1>7 DEF ReadIInv, ReadTypeOK, AckedStaysRead

\* The transaction of markAllRead ends: its rows are free again.
LEMMA UnlockedHolds ==
  ASSUME ReadIInv, NEW p \in Calls
  PROVE  /\ Unlocked(p) \in [Chans -> Calls \cup {NoCall}]
         /\ \A d \in Chans : rowLock[d] # p => Unlocked(p)[d] = rowLock[d]
BY DEF Unlocked, ReadIInv, ReadTypeOK

\* markAllRead commits, or is rolled back.
LEMMA EndAllHolds ==
  ASSUME ReadIInv, NEW p \in Calls, CommitAll(p) \/ AbortAll(p)
  PROVE  ReadIInv'
<1> USE Numbers
<1> DEFINE moved == call[p].moved
           goal == call[p].goal
<1>0. /\ call \in [Calls -> AnyCall] /\ cursor \in Cursors /\ floor \in Cursors
      /\ goal \in Cursors /\ moved \subseteq Chans
  BY DEF ReadIInv, ReadTypeOK, AnyCall
<1>1. /\ UNCHANGED <<latest, snapRedis, cache, cacheLock, restores, overlapped, lagged>>
      /\ At(p, "all", "lock") /\ rowLock' = Unlocked(p)
  BY DEF CommitAll, AbortAll, totals, snaps, readHistory
<1>2. snapDb' \subseteq Calls /\ readFaults' \in 0..MaxReadFaults
  BY DEF CommitAll, AbortAll, Fault, snaps, ReadIInv, ReadTypeOK
<1>3. PICK where \in {"save", "failed"} : Goto(p, where)
  BY DEF CommitAll, AbortAll
<1>4. where \in Places
  BY DEF Places
<1>5. /\ call' \in [Calls -> AnyCall] /\ call'[p].at = where
      /\ \A q \in Calls : q # p => call'[q] = call[q]
      /\ UndoKnows'
  BY <1>0, <1>3, <1>4, CallMoves DEF ReadIInv, UndoKnows
<1>6. /\ cursor' \in Cursors /\ floor' \in Cursors
      /\ \A d \in Chans : d \notin moved => cursor'[d] = cursor[d] /\ floor'[d] = floor[d]
      /\ \A d \in Chans : cursor'[d] >= floor'[d]
  <2>1. CASE AbortAll(p)
    BY <1>0, <2>1 DEF AbortAll, readHistory, ReadIInv, AckedStaysRead
  <2>2. CASE CommitAll(p)
    <3>1. /\ cursor' = [d \in Chans |-> IF d \in moved THEN goal[d] ELSE cursor[d]]
          /\ floor' = [d \in Chans |-> IF d \in moved /\ goal[d] > floor[d] THEN goal[d]
                                        ELSE floor[d]]
      BY <2>2 DEF CommitAll
    <3>2. \A d \in Chans : /\ cursor[d] \in Msgs /\ floor[d] \in Msgs /\ goal[d] \in Msgs
                           /\ cursor[d] >= floor[d]
                           /\ d \in moved => goal[d] > cursor[d]
      BY <1>0, <1>1 DEF Cursors, ReadIInv, AckedStaysRead, RowsHeld, Msgs
    <3>3. cursor' \in Cursors /\ floor' \in Cursors
      BY <3>1, <3>2 DEF Cursors
    <3>4. \A d \in Chans : cursor'[d] >= floor'[d]
      BY <3>1, <3>2 DEF Msgs
    <3>5. \A d \in Chans : d \notin moved => cursor'[d] = cursor[d] /\ floor'[d] = floor[d]
      BY <3>1
    <3> QED BY <3>3, <3>4, <3>5
  <2> QED BY <2>1, <2>2
<1>7. RowsHeld'
  <2>1. ASSUME NEW q \in Calls, call'[q].at = "new" PROVE call'[q].moved = {}
    BY <1>5, <2>1 DEF ReadIInv, RowsHeld
  <2>2. ASSUME NEW q \in Calls, At(q, "all", "lock")', NEW d \in call'[q].moved
        PROVE  rowLock'[d] = q /\ cursor'[d] < call'[q].goal[d]
    <3>1. q # p /\ call'[q] = call[q] /\ At(q, "all", "lock")
      BY <1>5, <2>2 DEF At
    <3>2. d \in Chans /\ rowLock[d] = q /\ cursor[d] < call[q].goal[d]
      BY <1>0, <2>2, <3>1 DEF ReadIInv, RowsHeld, AnyCall
    <3>3. d \notin moved
      BY <1>1, <3>1, <3>2 DEF ReadIInv, RowsHeld
    <3> QED BY <1>1, <1>6, <3>1, <3>2, <3>3, UnlockedHolds
  <2> QED BY <2>1, <2>2 DEF RowsHeld
<1> QED BY <1>1, <1>2, <1>5, <1>6, <1>7, UnlockedHolds DEF ReadIInv, ReadTypeOK, AckedStaysRead

\* The undo waits for rows that a markAllRead holds, and overwrites the others.
LEMMA RestoreHolds ==
  ASSUME ReadIInv, NEW p \in Calls, Restore(p)
  PROVE  ReadIInv'
<1> USE Numbers
<1> DEFINE q0 == call[p].of
           moved == call[q0].moved
           seen == call[q0].seen
<1>0. q0 \in Calls
  BY DEF Restore, At, ReadIInv, UndoKnows
<1>9. /\ call \in [Calls -> AnyCall] /\ cursor \in Cursors /\ floor \in Cursors
      /\ seen \in Cursors /\ moved \subseteq Chans
  BY <1>0 DEF ReadIInv, ReadTypeOK, AnyCall
<1>1. /\ UNCHANGED <<latest, rowLock, snapDb, snapRedis, cache, cacheLock, readFaults,
                     overlapped, lagged>>
      /\ \A c \in moved : rowLock[c] = NoCall
      /\ cursor' = [c \in Chans |-> IF c \in moved THEN seen[c] ELSE cursor[c]]
      /\ floor' = [c \in Chans |-> IF c \in moved THEN seen[c] ELSE floor[c]]
  BY DEF Restore, snaps, totals
<1>2. restores' \in [Calls -> Nat]
  BY <1>0 DEF Restore, ReadIInv, ReadTypeOK
<1>3. PICK where \in {"done", "invalidate"} : Goto(p, where)
  BY DEF Restore
<1>4. where \in Places
  BY DEF Places
<1>5. /\ call' \in [Calls -> AnyCall] /\ call'[p].at = where
      /\ \A q \in Calls : q # p => call'[q] = call[q]
      /\ UndoKnows'
  BY <1>9, <1>3, <1>4, CallMoves DEF ReadIInv, UndoKnows
<1>6. cursor' \in Cursors /\ floor' \in Cursors
  BY <1>9, <1>1 DEF Cursors
<1>7. AckedStaysRead'
  <2>1. \A d \in Chans : cursor[d] >= floor[d] /\ seen[d] >= seen[d]
    BY <1>9 DEF ReadIInv, AckedStaysRead, Cursors, Msgs
  <2> QED BY <1>1, <2>1 DEF AckedStaysRead
<1>8. RowsHeld'
  <2>1. ASSUME NEW q \in Calls, call'[q].at = "new" PROVE call'[q].moved = {}
    BY <1>5, <2>1 DEF ReadIInv, RowsHeld
  <2>2. ASSUME NEW q \in Calls, At(q, "all", "lock")', NEW d \in call'[q].moved
        PROVE  rowLock'[d] = q /\ cursor'[d] < call'[q].goal[d]
    <3>1. q # p /\ call'[q] = call[q] /\ At(q, "all", "lock")
      BY <1>5, <2>2 DEF At
    <3>2. d \in Chans /\ rowLock[d] = q /\ cursor[d] < call[q].goal[d]
      BY <1>9, <2>2, <3>1 DEF ReadIInv, RowsHeld, AnyCall
    <3> QED BY <1>1, <3>1, <3>2
  <2> QED BY <2>1, <2>2 DEF RowsHeld
<1> QED BY <1>1, <1>2, <1>5, <1>6, <1>7, <1>8 DEF ReadIInv, ReadTypeOK

\* Steps of no call.
LEMMA EnvironmentHolds ==
  ASSUME ReadIInv,
         \/ \E c \in Chans : NewMessage(c)
         \/ \E p \in Calls : SnapshotExpires(p)
         \/ TotalsExpire \/ UNCHANGED readVars
  PROVE  ReadIInv'
<1> USE Numbers
<1>1. UNCHANGED <<cursor, rowLock, call, readFaults, floor, restores, overlapped, lagged>>
  BY DEF NewMessage, SnapshotExpires, TotalsExpire, readVars, cursors, snaps, totals, readHistory
<1>2. latest' \in Cursors
  BY DEF NewMessage, SnapshotExpires, TotalsExpire, readVars, cursors, ReadIInv, ReadTypeOK,
         Cursors, Msgs
<1>3. /\ snapDb' \subseteq Calls /\ snapRedis' \subseteq Calls
      /\ cache' \in Cursors \cup {NoCache} /\ cacheLock' \in Calls \cup {NoCall}
  BY DEF NewMessage, SnapshotExpires, TotalsExpire, readVars, snaps, totals, ReadIInv, ReadTypeOK
<1> QED BY <1>1, <1>2, <1>3 DEF ReadIInv, ReadTypeOK, RowsHeld, UndoKnows, AckedStaysRead, At

-----------------------------------------------------------------------------

\* Every step keeps the invariant.
LEMMA ReadStep == ReadIInv /\ [ReadNext]_readVars => ReadIInv'
<1> SUFFICES ASSUME ReadIInv, [ReadNext]_readVars PROVE ReadIInv'
  OBVIOUS
<1> QED BY OtherStepsHold, StartsHold, OneRowHolds, AdvanceHolds, EndAllHolds, RestoreHolds,
        EnvironmentHolds
        DEF ReadNext, AckRead, MarkUnread, MarkAllRead, UndoMarkAllRead, CachedTotal

\* What was acknowledged stays read until markUnread or an undo sets the cursor
\* back, whatever acks and markAllReads of the user's devices overlap.
THEOREM AcksHold == ReadSpec => []ReadTypeOK /\ []AckedStaysRead
<1>1. ReadIInv => ReadTypeOK /\ AckedStaysRead
  BY DEF ReadIInv
<1> QED BY <1>1, ReadInitHolds, ReadStep, PTL DEF ReadSpec

-----------------------------------------------------------------------------
(* The cached totals and the snapshots. *)

\* A call that has moved a cursor and has not invalidated the totals yet.
Owes(p) ==
  call[p].at \in {"back", "invalidate"} \/ (call[p].at = "save" /\ call[p].moved # {})

\* Unless a call owes an invalidation, the totals in the cache and those about to
\* be filled in are those of the cursors.
TotalsFollow ==
  ~lagged =>
    \/ \E p \in Calls : Owes(p)
    \/ /\ cache \in {NoCache, cursor}
       /\ \A p \in Calls : Filling(p) => call[p].seen = cursor

\* A call that moves on keeps its record.
LEMMA CallKeeps ==
  ASSUME call \in [Calls -> AnyCall], NEW p \in Calls, NEW where \in Places, Goto(p, where)
  PROVE  /\ call'[p].at = where
         /\ \A q \in Calls : q # p => call'[q] = call[q]
         /\ \A q \in Calls : /\ call'[q].op = call[q].op /\ call'[q].moved = call[q].moved
                             /\ call'[q].seen = call[q].seen /\ call'[q].of = call[q].of
<1>1. call' = [call EXCEPT ![p] = [call[p] EXCEPT !.at = where]]
  BY DEF Goto
<1>2. /\ [call[p] EXCEPT !.at = where].at = where
      /\ [call[p] EXCEPT !.at = where].op = call[p].op
      /\ [call[p] EXCEPT !.at = where].moved = call[p].moved
      /\ [call[p] EXCEPT !.at = where].seen = call[p].seen
      /\ [call[p] EXCEPT !.at = where].of = call[p].of
  BY DEF AnyCall
<1> HIDE DEF AnyCall
<1> QED BY <1>1, <1>2

\* What a call that begins is: where, what and of whom.
LEMMA CallBegun ==
  ASSUME ReadIInv, NEW p \in Calls,
         \/ StartAck(p) \/ StartUnread(p) \/ StartAll(p) \/ StartUndo(p) \/ StartTotals(p)
  PROVE  /\ call[p].at = "new" /\ \A q \in Calls : q # p => call'[q] = call[q]
         /\ call'[p].at \in {"write", "lock", "claim", "get", "done"}
         /\ call'[p].at = "claim" =>
              StartUndo(p) /\ call'[p].op = "undo" /\ call'[p].of \in Calls
                /\ At(call'[p].of, "all", "done")
<1>0. call \in [Calls -> AnyCall] /\ latest \in Cursors /\ cursor \in Cursors
  BY DEF ReadIInv, ReadTypeOK
<1>1. ASSUME NEW fields, NEW op \in Ops, NEW where \in Places, Starts(p, op, where, fields),
             fields \in AnyCall
      PROVE  /\ call[p].at = "new" /\ \A q \in Calls : q # p => call'[q] = call[q]
             /\ call'[p].at = where /\ call'[p].op = op /\ call'[p].of = fields.of
  <2>1. /\ call[p].at = "new"
        /\ call' = [call EXCEPT ![p] = [fields EXCEPT !.op = op, !.at = where]]
    BY <1>1 DEF Starts
  <2>2. /\ [fields EXCEPT !.op = op, !.at = where].at = where
        /\ [fields EXCEPT !.op = op, !.at = where].op = op
        /\ [fields EXCEPT !.op = op, !.at = where].of = fields.of
    BY <1>1 DEF AnyCall
  <2> QED BY <1>0, <2>1, <2>2
<1>2. CASE StartAck(p)
  <2>1. PICK c \in Chans : \E m \in 1..latest[c] :
          Starts(p, "ack", "write", [call[p] EXCEPT !.chan = c, !.msg = m])
    BY <1>2 DEF StartAck
  <2>2. PICK m \in 1..latest[c] :
          Starts(p, "ack", "write", [call[p] EXCEPT !.chan = c, !.msg = m])
    BY <2>1
  <2>3. m \in Msgs
    BY <1>0, Numbers DEF Cursors, Msgs
  <2>4. [call[p] EXCEPT !.chan = c, !.msg = m] \in AnyCall
    BY Zenon, <1>0, <2>3 DEF AnyCall
  <2>5. "ack" \in Ops /\ "write" \in Places
    BY DEF Ops, Places
  <2> QED BY <1>1, <2>2, <2>4, <2>5
<1>3. CASE StartUnread(p)
  <2>1. PICK c \in Chans : \E m \in 1..latest[c] :
          Starts(p, "unread", "write", [call[p] EXCEPT !.chan = c, !.msg = m - 1])
    BY <1>3 DEF StartUnread
  <2>2. PICK m \in 1..latest[c] :
          Starts(p, "unread", "write", [call[p] EXCEPT !.chan = c, !.msg = m - 1])
    BY <2>1
  <2>3. m - 1 \in Msgs
    BY <1>0, Numbers DEF Cursors, Msgs
  <2>4. [call[p] EXCEPT !.chan = c, !.msg = m - 1] \in AnyCall
    BY Zenon, <1>0, <2>3 DEF AnyCall
  <2>5. "unread" \in Ops /\ "write" \in Places
    BY DEF Ops, Places
  <2> QED BY <1>1, <2>2, <2>4, <2>5
<1>4. CASE StartAll(p)
  <2> DEFINE fields == [call[p] EXCEPT !.seen = cursor, !.goal = latest,
                                       !.todo = {c \in Chans : latest[c] > 0}]
  <2>1. Starts(p, "all", "lock", fields)
    BY <1>4 DEF StartAll
  <2>2. {c \in Chans : latest[c] > 0} \in SUBSET Chans
    OBVIOUS
  <2>3. fields \in AnyCall
    BY Zenon, <1>0, <2>2 DEF AnyCall
  <2>4. "all" \in Ops /\ "lock" \in Places
    BY DEF Ops, Places
  <2> HIDE DEF fields
  <2> QED BY <1>1, <2>1, <2>3, <2>4
<1>5. CASE StartUndo(p)
  <2>1. PICK q \in Calls : /\ At(q, "all", "done")
                           /\ Starts(p, "undo", "claim", [call[p] EXCEPT !.of = q])
    BY <1>5 DEF StartUndo
  <2>2. [call[p] EXCEPT !.of = q] \in AnyCall /\ [call[p] EXCEPT !.of = q].of = q
    BY <1>0 DEF AnyCall
  <2>3. "undo" \in Ops /\ "claim" \in Places
    BY DEF Ops, Places
  <2> QED BY <1>1, <1>5, <2>1, <2>2, <2>3
<1>6. CASE StartTotals(p)
  <2>1. PICK where \in {"get", "done"} : Starts(p, "totals", where, call[p])
    BY <1>6 DEF StartTotals
  <2>2. call[p] \in AnyCall /\ "totals" \in Ops /\ where \in Places
    BY <1>0 DEF Ops, Places
  <2> QED BY <1>1, <2>1, <2>2
<1> QED BY <1>2, <1>3, <1>4, <1>5, <1>6

\* The step of markAllRead that looks at a row moves no call.
LEMMA AdvanceKeeps ==
  ASSUME ReadIInv, NEW p \in Calls, NEW c \in Chans, AdvanceVisible(p, c)
  PROVE  /\ \A q \in Calls : call'[q].at = call[q].at /\ call'[q].op = call[q].op
                             /\ call'[q].of = call[q].of /\ call'[q].seen = call[q].seen
         /\ \A q \in Calls : call[q].at # "lock" => call'[q] = call[q]
<1>0. call \in [Calls -> AnyCall]
  BY DEF ReadIInv, ReadTypeOK
<1> DEFINE turned == IF cursor[c] < call[p].goal[c] THEN call[p].moved \cup {c}
                    ELSE call[p].moved
           next == [call[p] EXCEPT !.todo = @ \ {c}, !.moved = turned]
<1>1. call' = [call EXCEPT ![p] = next] /\ call[p].at = "lock"
  BY <1>0 DEF AdvanceVisible, At
<1>2. /\ next.at = call[p].at /\ next.op = call[p].op /\ next.of = call[p].of
      /\ next.seen = call[p].seen
  BY <1>0 DEF AnyCall
<1> HIDE DEF next
<1> QED BY <1>0, <1>1, <1>2

\* Sums are of the cursors as they are.
LEMMA SumKeeps ==
  ASSUME ReadIInv, NEW p \in Calls, SumTotals(p)
  PROVE  /\ call[p].at = "sum" /\ call'[p].at = "fill" /\ call'[p].seen = cursor
         /\ call'[p].op = call[p].op /\ call'[p].of = call[p].of
         /\ \A q \in Calls : q # p => call'[q] = call[q]
<1>0. call \in [Calls -> AnyCall] /\ cursor \in Cursors
  BY DEF ReadIInv, ReadTypeOK
<1>1. call' = [call EXCEPT ![p] = [[call[p] EXCEPT !.at = "fill"] EXCEPT !.seen = cursor]]
  BY <1>0 DEF SumTotals
<1>2. /\ [[call[p] EXCEPT !.at = "fill"] EXCEPT !.seen = cursor].at = "fill"
      /\ [[call[p] EXCEPT !.at = "fill"] EXCEPT !.seen = cursor].seen = cursor
      /\ [[call[p] EXCEPT !.at = "fill"] EXCEPT !.seen = cursor].op = call[p].op
      /\ [[call[p] EXCEPT !.at = "fill"] EXCEPT !.seen = cursor].of = call[p].of
  BY <1>0 DEF AnyCall
<1> QED BY <1>0, <1>1, <1>2 DEF SumTotals, At

-----------------------------------------------------------------------------
\* A step after which no cursor was moved, no debt was forgotten and no older sum
\* is about to be filled in.
LEMMA TotalsFrame ==
  ASSUME TotalsFollow, cursor' = cursor, cache' \in {cache, NoCache}, ~lagged' => ~lagged,
         \A q \in Calls : Owes(q) => Owes(q)',
         \A q \in Calls : Filling(q)' =>
           (Filling(q) /\ call'[q].seen = call[q].seen) \/ call'[q].seen = cursor
  PROVE  TotalsFollow'
BY DEF TotalsFollow

\* Every step leaves the totals right, or a call that owes their invalidation.
LEMMA TotalsStayRight ==
  ASSUME ReadIInv, TotalsFollow, ReadNext
  PROVE  TotalsFollow'
<1>0. call \in [Calls -> AnyCall] /\ cursor \in Cursors /\ \A q \in Calls : call[q] \in AnyCall
  BY DEF ReadIInv, ReadTypeOK
<1>k. ASSUME NEW p \in Calls, NEW where \in Places \ {"fill"}, Goto(p, where),
             Owes(p) => where \in {"back", "invalidate"},
             cursor' = cursor, cache' \in {cache, NoCache}, ~lagged' => ~lagged
      PROVE  TotalsFollow'
  <2>1. /\ call'[p].at = where /\ \A q \in Calls : q # p => call'[q] = call[q]
    BY <1>0, <1>k, CallKeeps
  <2>2. \A q \in Calls : Owes(q) => Owes(q)'
    BY <1>k, <2>1 DEF Owes
  <2>3. \A q \in Calls : Filling(q)' => Filling(q) /\ call'[q].seen = call[q].seen
    BY <1>k, <2>1 DEF Filling, At
  <2> QED BY <1>k, <2>2, <2>3, TotalsFrame
<1>o. ASSUME NEW p \in Calls, NEW where \in {"back", "invalidate", "save"}, Goto(p, where),
             where = "save" => call[p].moved # {}
      PROVE  TotalsFollow'
  <2>1. where \in Places
    BY DEF Places
  <2>2. call'[p].at = where /\ call'[p].moved = call[p].moved
    BY <1>0, <1>o, <2>1, CallKeeps
  <2>3. Owes(p)'
    BY <1>o, <2>2 DEF Owes
  <2> QED BY <2>3 DEF TotalsFollow
<1>1. ASSUME NEW c \in Chans, NewMessage(c) PROVE TotalsFollow'
  BY <1>1 DEF NewMessage, TotalsFollow, Owes, Filling, At, totals, readHistory
<1>2. ASSUME NEW p \in Calls, StartAck(p) \/ StartUnread(p) \/ StartAll(p) \/ StartUndo(p)
                              \/ StartTotals(p)
      PROVE  TotalsFollow'
  <2>1. UNCHANGED <<cursor, cache, lagged>>
    BY <1>2 DEF StartAck, StartUnread, StartAll, StartUndo, StartTotals, cursors, totals,
                readHistory
  <2>2. /\ call[p].at = "new" /\ \A q \in Calls : q # p => call'[q] = call[q]
        /\ call'[p].at \in {"write", "lock", "claim", "get", "done"}
    BY <1>2, CallBegun
  <2>3. \A q \in Calls : Owes(q) => Owes(q)'
    BY <2>2 DEF Owes
  <2>4. \A q \in Calls : Filling(q)' => Filling(q) /\ call'[q].seen = call[q].seen
    BY <2>2 DEF Filling, At
  <2> QED BY <2>1, <2>3, <2>4, TotalsFrame
<1>3. ASSUME NEW p \in Calls, AckWrite(p) \/ SetCursorBackward(p) \/ AckReadBack(p)
      PROVE  TotalsFollow'
  <2>1. \E where \in {"back", "invalidate"} : Goto(p, where)
    BY <1>3 DEF AckWrite, SetCursorBackward, AckReadBack
  <2> QED BY <1>o, <2>1
<1>4. ASSUME NEW p \in Calls, NEW c \in Chans, AdvanceVisible(p, c) PROVE TotalsFollow'
  <2>1. UNCHANGED <<cursor, cache, lagged>>
    BY <1>4 DEF AdvanceVisible, totals, readHistory
  <2>2. /\ \A q \in Calls : call'[q].at = call[q].at /\ call'[q].op = call[q].op
                            /\ call'[q].seen = call[q].seen
        /\ \A q \in Calls : call[q].at # "lock" => call'[q] = call[q]
    BY <1>4, AdvanceKeeps
  <2>3. \A q \in Calls : Owes(q) => Owes(q)'
    BY <2>2 DEF Owes
  <2>4. \A q \in Calls : Filling(q)' => Filling(q) /\ call'[q].seen = call[q].seen
    BY <2>2 DEF Filling, At
  <2> QED BY <2>1, <2>3, <2>4, TotalsFrame
<1>5. ASSUME NEW p \in Calls, CommitAll(p) PROVE TotalsFollow'
  <2>1. /\ call[p].at = "lock" /\ Goto(p, "save") /\ UNCHANGED <<cache, lagged>>
        /\ cursor' = [c \in Chans |-> IF c \in call[p].moved THEN call[p].goal[c] ELSE cursor[c]]
    BY <1>5 DEF CommitAll, At, totals
  <2>2. CASE call[p].moved # {}
    BY <1>o, <2>1, <2>2
  <2>3. CASE call[p].moved = {}
    <3>1. cursor' = cursor
      BY <1>0, <2>1, <2>3 DEF Cursors
    <3>2. ~Owes(p) /\ "save" \in Places \ {"fill"}
      BY <2>1 DEF Owes, Places
    <3> QED BY <1>k, <2>1, <3>1, <3>2
  <2> QED BY <2>2, <2>3
<1>6. ASSUME NEW p \in Calls, AbortAll(p) PROVE TotalsFollow'
  <2>1. call[p].at = "lock" /\ Goto(p, "failed") /\ UNCHANGED <<cursor, cache, lagged>>
    BY <1>6 DEF AbortAll, At, totals, readHistory
  <2>2. ~Owes(p) /\ "failed" \in Places \ {"fill"}
    BY <2>1 DEF Owes, Places
  <2> QED BY <1>k, <2>1, <2>2
<1>7. ASSUME NEW p \in Calls, SaveSnapshot(p) PROVE TotalsFollow'
  <2>1. /\ call[p].at = "save" /\ UNCHANGED <<cursor, cache, lagged>>
        /\ Goto(p, IF call[p].moved = {} THEN "done" ELSE "invalidate")
    BY <1>7 DEF SaveSnapshot, At, cursors, totals, readHistory
  <2>2. "done" \in Places \ {"fill"}
    BY DEF Places
  <2>3. call[p].moved = {} => ~Owes(p)
    BY <2>1 DEF Owes
  <2> QED BY <1>k, <1>o, <2>1, <2>2, <2>3
<1>8. ASSUME NEW p \in Calls, SnapshotExpires(p) PROVE TotalsFollow'
  BY <1>8 DEF SnapshotExpires, TotalsFollow, Owes, Filling, At, cursors, totals, readHistory
<1>9. ASSUME NEW p \in Calls, Claim(p) \/ DropRow(p) \/ TakeRow(p) PROVE TotalsFollow'
  <2>1. /\ call[p].at \in {"claim", "drop", "take"} /\ UNCHANGED <<cursor, cache, lagged>>
        /\ \E where \in {"drop", "take", "restore", "done"} : Goto(p, where)
    BY <1>9 DEF Claim, DropRow, TakeRow, At, cursors, totals, readHistory
  <2>2. ~Owes(p) /\ {"drop", "take", "restore", "done"} \subseteq Places \ {"fill"}
    BY <2>1 DEF Owes, Places
  <2> QED BY <1>k, <2>1, <2>2
<1>10. ASSUME NEW p \in Calls, Restore(p) PROVE TotalsFollow'
  <2> DEFINE moved == call[call[p].of].moved
             seen == call[call[p].of].seen
  <2>1. /\ call[p].at = "restore" /\ UNCHANGED <<cache, lagged>>
        /\ Goto(p, IF moved = {} THEN "done" ELSE "invalidate")
        /\ cursor' = [c \in Chans |-> IF c \in moved THEN seen[c] ELSE cursor[c]]
    BY <1>10 DEF Restore, At, totals
  <2>2. CASE moved # {}
    BY <1>o, <2>1, <2>2
  <2>3. CASE moved = {}
    <3>1. cursor' = cursor
      BY <1>0, <2>1, <2>3 DEF Cursors
    <3>2. ~Owes(p) /\ "done" \in Places \ {"fill"}
      BY <2>1 DEF Owes, Places
    <3> QED BY <1>k, <2>1, <2>3, <3>1, <3>2
  <2> QED BY <2>2, <2>3
<1>11. ASSUME NEW p \in Calls, Invalidate(p) PROVE TotalsFollow'
  <2>1. /\ call[p].at = "invalidate" /\ Goto(p, "done") /\ cursor' = cursor
        /\ \/ /\ cache' = NoCache
              /\ lagged' = (lagged \/ \E q \in Calls : Filling(q) /\ call[q].seen # cursor)
           \/ lagged' = TRUE
    BY <1>11 DEF Invalidate, cursors
  <2>2. \/ /\ cache' = NoCache
           /\ ~lagged' => \A q \in Calls : Filling(q) => call[q].seen = cursor
        \/ lagged'
    BY ONLY <2>1, Zenon
  <2>3. "done" \in Places
    BY DEF Places
  <2>4. call'[p].at = "done" /\ \A q \in Calls : q # p => call'[q] = call[q]
    BY <1>0, <2>1, <2>3, CallKeeps
  <2>5. \A q \in Calls : Filling(q)' => Filling(q) /\ call'[q] = call[q]
    BY <2>4 DEF Filling, At
  <2> QED BY <2>1, <2>2, <2>5 DEF TotalsFollow
<1>12. ASSUME NEW p \in Calls, DieBeforeInvalidate(p) PROVE TotalsFollow'
  <2>1. lagged' = TRUE
    BY <1>12 DEF DieBeforeInvalidate
  <2>2. lagged'
    BY ONLY <2>1, Zenon
  <2> QED BY <2>2 DEF TotalsFollow
<1>13. ASSUME NEW p \in Calls, LockTotals(p) \/ UnlockTotals(p) PROVE TotalsFollow'
  <2>1. /\ call[p].at \in {"get", "unlock"} /\ UNCHANGED <<cursor, cache, lagged>>
        /\ \E where \in {"sum", "done"} : Goto(p, where)
    BY <1>13 DEF LockTotals, UnlockTotals, At, cursors, readHistory
  <2>2. ~Owes(p) /\ {"sum", "done"} \subseteq Places \ {"fill"}
    BY <2>1 DEF Owes, Places
  <2> QED BY <1>k, <2>1, <2>2
<1>14. ASSUME NEW p \in Calls, SumTotals(p) PROVE TotalsFollow'
  <2>1. /\ call[p].at = "sum" /\ call'[p].at = "fill" /\ call'[p].seen = cursor
        /\ \A q \in Calls : q # p => call'[q] = call[q]
    BY <1>14, SumKeeps
  <2>2. UNCHANGED <<cursor, cache, lagged>>
    BY <1>14 DEF SumTotals, cursors, totals, readHistory
  <2>3. \A q \in Calls : Owes(q) => Owes(q)'
    BY <2>1 DEF Owes
  <2>4. \A q \in Calls : Filling(q)' =>
          (Filling(q) /\ call'[q].seen = call[q].seen) \/ call'[q].seen = cursor
    BY <2>1 DEF Filling, At
  <2> QED BY <2>2, <2>3, <2>4, TotalsFrame
<1>15. ASSUME NEW p \in Calls, FillCache(p) PROVE TotalsFollow'
  <2>1. /\ Filling(p) /\ Goto(p, "unlock") /\ UNCHANGED <<cursor, lagged>>
        /\ cache' \in {cache, call[p].seen}
    BY <1>15 DEF FillCache, cursors, readHistory
  <2>2. "unlock" \in Places
    BY DEF Places
  <2>3. call'[p].at = "unlock" /\ \A q \in Calls : q # p => call'[q] = call[q]
    BY <1>0, <2>1, <2>2, CallKeeps
  <2>4. \A q \in Calls : Owes(q) => Owes(q)'
    BY <2>1, <2>3 DEF Owes, Filling, At
  <2>5. \A q \in Calls : Filling(q)' => Filling(q) /\ call'[q] = call[q]
    BY <2>3 DEF Filling, At
  <2> QED BY <2>1, <2>4, <2>5 DEF TotalsFollow
<1>16. ASSUME TotalsExpire PROVE TotalsFollow'
  BY <1>16 DEF TotalsExpire, TotalsFollow, Owes, Filling, At, cursors, readHistory
<1> QED BY <1>1, <1>2, <1>3, <1>4, <1>5, <1>6, <1>7, <1>8, <1>9, <1>10, <1>11, <1>12, <1>13,
           <1>14, <1>15, <1>16
        DEF ReadNext, AckRead, MarkUnread, MarkAllRead, UndoMarkAllRead, CachedTotal

-----------------------------------------------------------------------------
\* An undo is of a markAllRead that is done; only such a one was ever restored.
UndoesAreLate ==
  /\ \A p \in Calls :
       call[p].at \in {"claim", "drop", "take", "restore"} =>
         call[p].of \in Calls /\ At(call[p].of, "all", "done")
  /\ \A q \in Calls : restores[q] # 0 => At(q, "all", "done")

\* Undos that do not overlap: one of them at most is at the snapshot, and while no
\* call fails, one that is past Redis has left nothing there.
ClaimsAreApart ==
  /\ \A q \in Calls \ overlapped : \A p, r \in Undoing(q) : p = r
  /\ readFaults = 0 =>
       \A p \in Calls : call[p].at \in {"drop", "take"} => call[p].of \notin snapRedis

\* A snapshot that was restored, or is about to be, is in neither place, and nobody
\* else has it.
Restoring(p, q) == call[p].at = "restore" /\ call[p].of = q
Spent(q) == restores[q] # 0 \/ \E p \in Calls : Restoring(p, q)
SpentIsGone ==
  readFaults = 0 =>
    \A q \in Calls \ overlapped :
      /\ Spent(q) => /\ q \notin snapDb \cup snapRedis
                     /\ \A p \in Calls : call[p].at = "drop" => call[p].of # q
      /\ \A p, r \in Calls : Restoring(p, q) /\ Restoring(r, q) => p = r
      /\ restores[q] <= 1
      /\ restores[q] # 0 => \A p \in Calls : ~Restoring(p, q)

SnapsIInv == UndoesAreLate /\ ClaimsAreApart /\ SpentIsGone

\* A step that puts no snapshot anywhere and moves no call at a snapshot.
LEMMA SnapsFrame ==
  ASSUME ReadIInv, SnapsIInv, readFaults' = 0 => readFaults = 0,
         snapDb' \subseteq snapDb, snapRedis' \subseteq snapRedis, restores' = restores,
         overlapped' = overlapped,
         \A q \in Calls : At(q, "all", "done") => At(q, "all", "done")',
         \A p \in Calls : call'[p].at \in {"claim", "drop", "take", "restore"} =>
                            call'[p].at = call[p].at /\ call'[p].of = call[p].of
  PROVE  SnapsIInv'
<1>1. UndoesAreLate'
  BY DEF SnapsIInv, UndoesAreLate
<1>2. ClaimsAreApart'
  BY DEF SnapsIInv, ClaimsAreApart, Undoing
<1>3. SpentIsGone'
  BY DEF SnapsIInv, SpentIsGone, Spent, Restoring
<1> QED BY <1>1, <1>2, <1>3 DEF SnapsIInv

\* The snapshot of a markAllRead that is under way is put where it belongs.
LEMMA SnapsSaved ==
  ASSUME ReadIInv, SnapsIInv, readFaults' = 0 => readFaults = 0, NEW s \in Calls,
         call[s].at \in {"lock", "save"},
         snapDb' \subseteq snapDb \cup {s}, snapRedis' \subseteq snapRedis \cup {s},
         restores' = restores, overlapped' = overlapped,
         call'[s].at \in {"save", "done", "invalidate"},
         \A q \in Calls : q # s => call'[q] = call[q]
  PROVE  SnapsIInv'
<1>1. /\ \A p \in Calls : call[p].at \in {"claim", "drop", "take", "restore"} => call[p].of # s
      /\ restores[s] = 0
  BY DEF SnapsIInv, UndoesAreLate, At
<1>2. \A q \in Calls : At(q, "all", "done") => At(q, "all", "done")'
  BY DEF At
<1>3. \A p \in Calls : call'[p].at \in {"claim", "drop", "take", "restore"} => call'[p] = call[p]
  OBVIOUS
<1>4. UndoesAreLate'
  BY <1>2, <1>3 DEF SnapsIInv, UndoesAreLate
<1>5. ClaimsAreApart'
  BY <1>1, <1>3 DEF SnapsIInv, ClaimsAreApart, Undoing
<1>6. SpentIsGone'
  BY <1>1, <1>3 DEF SnapsIInv, SpentIsGone, Spent, Restoring
<1> QED BY <1>4, <1>5, <1>6 DEF SnapsIInv

\* Every step leaves a snapshot to be restored once.
LEMMA SnapsStayRight ==
  ASSUME ReadIInv, ReadIInv', SnapsIInv, ReadNext
  PROVE  SnapsIInv'
<1>0. /\ call \in [Calls -> AnyCall] /\ \A q \in Calls : call[q] \in AnyCall
      /\ restores \in [Calls -> Nat] /\ snapDb \subseteq Calls /\ snapRedis \subseteq Calls
      /\ readFaults \in Nat /\ UndoesAreLate /\ ClaimsAreApart /\ SpentIsGone
  BY Numbers DEF ReadIInv, ReadTypeOK, SnapsIInv
<1>f. ASSUME Fault PROVE readFaults' # 0
  BY <1>0, <1>f DEF Fault
\* A step of a call elsewhere.
<1>k. ASSUME NEW p \in Calls, NEW where \in Places \ {"claim", "drop", "take", "restore"},
             Goto(p, where), ~At(p, "all", "done"), readFaults' = 0 => readFaults = 0,
             snapDb' \subseteq snapDb, snapRedis' \subseteq snapRedis,
             UNCHANGED <<restores, overlapped>>
      PROVE  SnapsIInv'
  <2>1. call'[p].at = where /\ \A q \in Calls : q # p => call'[q] = call[q]
    BY <1>0, <1>k, CallKeeps
  <2>2. \A q \in Calls : At(q, "all", "done") => At(q, "all", "done")'
    BY <1>k, <2>1 DEF At
  <2> QED BY <1>k, <2>1, <2>2, SnapsFrame
<1>1. ASSUME UNCHANGED <<call, restores, overlapped>>, snapDb' \subseteq snapDb,
             snapRedis' \subseteq snapRedis, readFaults' = 0 => readFaults = 0
      PROVE  SnapsIInv'
  BY <1>1, SnapsFrame DEF At
<1>2. ASSUME (\E c \in Chans : NewMessage(c)) \/ TotalsExpire
             \/ \E q \in Calls : SnapshotExpires(q)
      PROVE  SnapsIInv'
  <2>1. /\ UNCHANGED <<call, restores, overlapped, readFaults>>
        /\ snapDb' \subseteq snapDb /\ snapRedis' \subseteq snapRedis
    BY <1>2 DEF NewMessage, TotalsExpire, SnapshotExpires, snaps, readHistory
  <2> QED BY <1>1, <2>1
<1>3. ASSUME NEW p \in Calls,
             StartAck(p) \/ StartUnread(p) \/ StartAll(p) \/ StartUndo(p) \/ StartTotals(p)
      PROVE  SnapsIInv'
  <2>1. /\ call[p].at = "new" /\ \A q \in Calls : q # p => call'[q] = call[q]
        /\ call'[p].at \in {"write", "lock", "claim", "get", "done"}
        /\ call'[p].at = "claim" =>
             StartUndo(p) /\ call'[p].op = "undo" /\ call'[p].of \in Calls
               /\ At(call'[p].of, "all", "done")
    BY <1>3, CallBegun
  <2>2. UNCHANGED <<restores, snapDb, snapRedis, readFaults>>
    BY <1>3 DEF StartAck, StartUnread, StartAll, StartUndo, StartTotals, snaps, readHistory
  <2>3. \A q \in Calls : At(q, "all", "done") => q # p /\ At(q, "all", "done")'
    BY <2>1 DEF At
  <2>4. CASE call'[p].at # "claim"
    <3>1. overlapped' = overlapped
      <4>1. CASE StartUndo(p)
        <5>1. PICK q \in Calls : Starts(p, "undo", "claim", [call[p] EXCEPT !.of = q])
          BY <4>1 DEF StartUndo
        <5>2. call' = [call EXCEPT ![p] =
                         [[call[p] EXCEPT !.of = q] EXCEPT !.op = "undo", !.at = "claim"]]
          BY <5>1 DEF Starts
        <5>3. [[call[p] EXCEPT !.of = q] EXCEPT !.op = "undo", !.at = "claim"].at = "claim"
          BY <1>0 DEF AnyCall
        <5> QED BY <1>0, <2>4, <5>2, <5>3
      <4>2. CASE ~StartUndo(p)
        BY <1>3, <4>2 DEF StartAck, StartUnread, StartAll, StartTotals, readHistory
      <4> QED BY <4>1, <4>2
    <3>2. \A r \in Calls : call'[r].at \in {"claim", "drop", "take", "restore"} =>
            call'[r].at = call[r].at /\ call'[r].of = call[r].of
      BY <2>1, <2>4
    <3> QED BY <2>2, <2>3, <3>1, <3>2, SnapsFrame
  <2>5. CASE call'[p].at = "claim"
    <3> DEFINE q == call'[p].of
    <3>1. PICK k \in Calls : /\ Starts(p, "undo", "claim", [call[p] EXCEPT !.of = k])
                             /\ overlapped' = IF Undoing(k) = {} THEN overlapped
                                              ELSE overlapped \cup {k}
      BY <2>1, <2>5 DEF StartUndo
    <3>2. q = k
      <4>1. call' = [call EXCEPT ![p] =
                       [[call[p] EXCEPT !.of = k] EXCEPT !.op = "undo", !.at = "claim"]]
        BY <3>1 DEF Starts
      <4>2. [[call[p] EXCEPT !.of = k] EXCEPT !.op = "undo", !.at = "claim"].of = k
        BY <1>0 DEF AnyCall
      <4> QED BY <1>0, <4>1, <4>2
    <3>3. q \in Calls /\ At(q, "all", "done") /\ overlapped \subseteq overlapped'
          /\ (q \notin overlapped' => Undoing(q) = {})
      BY <2>1, <2>5, <3>1, <3>2
    <3> HIDE DEF q
    <3>4. UndoesAreLate'
      <4>1. call'[p].of = q
        BY DEF q
      <4> QED BY <1>0, <2>1, <2>2, <2>3, <3>3, <4>1 DEF UndoesAreLate
    <3>5. ClaimsAreApart'
      <4>1. ASSUME NEW s \in Calls \ overlapped', NEW a \in Undoing(s)', NEW b \in Undoing(s)'
            PROVE  a = b
        <5>1. \A x \in Calls : x # p => (x \in Undoing(s)' <=> x \in Undoing(s))
          BY <2>1 DEF Undoing
        <5>2. p \in Undoing(s)' => s = q
          BY DEF Undoing, q
        <5>3. a \in Calls /\ b \in Calls
          BY <4>1 DEF Undoing
        <5>4. CASE s = q
          BY <3>3, <4>1, <5>1, <5>3, <5>4
        <5>5. CASE s # q
          BY <1>0, <3>3, <4>1, <5>1, <5>2, <5>3, <5>5 DEF ClaimsAreApart
        <5> QED BY <5>4, <5>5
      <4>2. readFaults' = 0 =>
              \A r \in Calls : call'[r].at \in {"drop", "take"} => call'[r].of \notin snapRedis'
        BY <1>0, <2>1, <2>2, <2>5 DEF ClaimsAreApart
      <4> QED BY <4>1, <4>2 DEF ClaimsAreApart
    <3>6. SpentIsGone'
      <4>1. \A r, s \in Calls : Restoring(r, s)' <=> Restoring(r, s)
        BY <2>1, <2>5 DEF Restoring
      <4>2. \A r \in Calls : call'[r].at = "drop" => call[r].at = "drop" /\ call'[r].of = call[r].of
        BY <2>1, <2>5
      <4> QED BY <1>0, <2>2, <3>3, <4>1, <4>2 DEF SpentIsGone, Spent
    <3> QED BY <3>4, <3>5, <3>6 DEF SnapsIInv
  <2> QED BY <2>4, <2>5
<1>4. ASSUME NEW p \in Calls,
             \/ AckWrite(p) \/ SetCursorBackward(p) \/ AckReadBack(p) \/ AbortAll(p)
             \/ Invalidate(p) \/ DieBeforeInvalidate(p) \/ LockTotals(p) \/ UnlockTotals(p)
             \/ FillCache(p)
      PROVE  SnapsIInv'
  <2>1. /\ call[p].at \notin {"done", "restore"}
        /\ \E where \in {"back", "invalidate", "failed", "done", "sum", "unlock"} : Goto(p, where)
        /\ UNCHANGED <<restores, overlapped, snapDb, snapRedis>>
    BY <1>4 DEF AckWrite, SetCursorBackward, AckReadBack, AbortAll, Invalidate,
                DieBeforeInvalidate, LockTotals, UnlockTotals, FillCache, Filling, At, snaps,
                readHistory
  <2>2. readFaults' = 0 => readFaults = 0
    BY <1>0, <1>4, <1>f DEF AckWrite, SetCursorBackward, AckReadBack, AbortAll, Invalidate,
                DieBeforeInvalidate, LockTotals, UnlockTotals, FillCache
  <2>3. {"back", "invalidate", "failed", "done", "sum", "unlock"}
          \subseteq Places \ {"claim", "drop", "take", "restore"} /\ ~At(p, "all", "done")
    BY <2>1 DEF Places, At
  <2> QED BY <1>k, <2>1, <2>2, <2>3
<1>5. ASSUME NEW p \in Calls, NEW c \in Chans, AdvanceVisible(p, c) PROVE SnapsIInv'
  <2>1. UNCHANGED <<restores, overlapped, snapDb, snapRedis, readFaults>>
    BY <1>5 DEF AdvanceVisible, snaps, readHistory
  <2>2. \A q \in Calls : call'[q].at = call[q].at /\ call'[q].op = call[q].op
                         /\ call'[q].of = call[q].of
    BY <1>5, AdvanceKeeps
  <2> QED BY <2>1, <2>2, SnapsFrame DEF At
<1>6. ASSUME NEW p \in Calls, SumTotals(p) PROVE SnapsIInv'
  <2>1. UNCHANGED <<restores, overlapped, snapDb, snapRedis, readFaults>>
    BY <1>6 DEF SumTotals, snaps, readHistory
  <2>2. /\ call[p].at = "sum" /\ call'[p].at = "fill" /\ \A q \in Calls : q # p => call'[q] = call[q]
    BY <1>6, SumKeeps
  <2>3. \A q \in Calls : At(q, "all", "done") => At(q, "all", "done")'
    BY <2>2 DEF At
  <2> QED BY <2>1, <2>2, <2>3, SnapsFrame
<1>7. ASSUME NEW p \in Calls, CommitAll(p) \/ SaveSnapshot(p) PROVE SnapsIInv'
  <2>1. /\ call[p].at \in {"lock", "save"} /\ UNCHANGED <<restores, overlapped>>
        /\ snapDb' \subseteq snapDb \cup {p} /\ snapRedis' \subseteq snapRedis \cup {p}
        /\ \E where \in {"save", "done", "invalidate"} : Goto(p, where)
    BY <1>7 DEF CommitAll, SaveSnapshot, At, readHistory
  <2>2. readFaults' = 0 => readFaults = 0
    BY <1>0, <1>7, <1>f DEF CommitAll, SaveSnapshot
  <2>3. {"save", "done", "invalidate"} \subseteq Places
    BY DEF Places
  <2>4. /\ call'[p].at \in {"save", "done", "invalidate"}
        /\ \A q \in Calls : q # p => call'[q] = call[q]
    BY <1>0, <2>1, <2>3, CallKeeps
  <2> QED BY <2>1, <2>2, <2>4, SnapsSaved
<1>8. ASSUME NEW p \in Calls, Claim(p) PROVE SnapsIInv'
  <2> DEFINE q == call[p].of
  <2>1. /\ call[p].at = "claim" /\ UNCHANGED <<restores, overlapped, snapDb>>
        /\ \/ q \in snapRedis /\ snapRedis' = snapRedis \ {q} /\ Goto(p, "drop")
              /\ readFaults' = readFaults
           \/ q \notin snapRedis /\ Goto(p, "take") /\ UNCHANGED <<snapRedis, readFaults>>
           \/ Goto(p, "take") /\ UNCHANGED snapRedis /\ readFaults' # 0
    BY <1>8, <1>f DEF Claim, At, readHistory
  <2>2. "drop" \in Places /\ "take" \in Places
    BY DEF Places
  <2>3. /\ call'[p].at \in {"drop", "take"} /\ call'[p].of = q
        /\ \A r \in Calls : r # p => call'[r] = call[r]
        /\ q \in Calls /\ At(q, "all", "done")
        /\ call'[p].at = "drop" => q \in snapRedis
    BY <1>0, <2>1, <2>2, CallKeeps DEF UndoesAreLate
  <2>4. /\ readFaults' = 0 => readFaults = 0 /\ q \notin snapRedis'
        /\ snapRedis' \subseteq snapRedis
    BY <2>1
  <2> HIDE DEF q
  <2>5. \A r \in Calls : At(r, "all", "done") => At(r, "all", "done")'
    BY <2>1, <2>3 DEF At
  <2>6. UndoesAreLate'
    BY <1>0, <2>1, <2>3, <2>5 DEF UndoesAreLate
  <2>7. ClaimsAreApart'
    <3>1. \A s \in Calls : Undoing(s)' = Undoing(s)
      BY <2>1, <2>3 DEF Undoing, q
    <3>2. readFaults' = 0 =>
            \A r \in Calls : call'[r].at \in {"drop", "take"} => call'[r].of \notin snapRedis'
      BY <1>0, <2>3, <2>4 DEF ClaimsAreApart
    <3> QED BY <1>0, <2>1, <3>1, <3>2 DEF ClaimsAreApart
  <2>8. SpentIsGone'
    <3>1. \A r, s \in Calls : Restoring(r, s)' <=> Restoring(r, s)
      BY <2>1, <2>3 DEF Restoring
    <3>2. \A s \in Calls : Spent(s)' <=> Spent(s)
      BY <2>1, <3>1 DEF Spent
    <3>3. readFaults' = 0 /\ q \notin overlapped /\ Spent(q) => call'[p].at # "drop"
      BY <1>0, <2>3, <2>4 DEF SpentIsGone
    <3>4. readFaults' = 0 =>
            \A s \in Calls \ overlapped : Spent(s) =>
              \A r \in Calls : call'[r].at = "drop" => call'[r].of # s
      BY <1>0, <2>3, <2>4, <3>3 DEF SpentIsGone
    <3> QED BY <1>0, <2>1, <2>4, <3>1, <3>2, <3>4 DEF SpentIsGone
  <2> QED BY <2>6, <2>7, <2>8 DEF SnapsIInv
<1>9. ASSUME NEW p \in Calls, DropRow(p) \/ TakeRow(p) PROVE SnapsIInv'
  <2>0. PICK q : q = call[p].of
    OBVIOUS
  <2>1. /\ call[p].at \in {"drop", "take"} /\ UNCHANGED <<restores, overlapped, snapRedis>>
        /\ snapDb' \subseteq snapDb
        /\ readFaults' = 0 => readFaults = 0 /\ q \notin snapDb'
        /\ \/ Goto(p, "restore") /\ (call[p].at = "drop" \/ q \in snapDb)
           \/ Goto(p, "done")
    BY <1>0, <1>9, <1>f, <2>0 DEF DropRow, TakeRow, At, readHistory
  <2>2. "restore" \in Places /\ "done" \in Places
    BY DEF Places
  <2>3. /\ call'[p].at \in {"restore", "done"} /\ call'[p].of = q
        /\ \A r \in Calls : r # p => call'[r] = call[r]
        /\ q \in Calls /\ At(q, "all", "done")
        /\ call'[p].at = "restore" => call[p].at = "drop" \/ q \in snapDb
    BY <1>0, <2>0, <2>1, <2>2, CallKeeps DEF UndoesAreLate
  <2>4. p \in Undoing(q)
    BY <2>0, <2>1 DEF Undoing
  <2>5. \A r \in Calls : At(r, "all", "done") => At(r, "all", "done")'
    BY <2>1, <2>3 DEF At
  <2>6. UndoesAreLate'
    BY <1>0, <2>1, <2>3, <2>5 DEF UndoesAreLate
  <2>7. ClaimsAreApart'
    <3>1. \A s \in Calls : Undoing(s)' \subseteq Undoing(s)
      BY <2>1, <2>3 DEF Undoing
    <3>2. readFaults' = 0 =>
            \A r \in Calls : call'[r].at \in {"drop", "take"} => call'[r].of \notin snapRedis'
      BY <1>0, <2>1, <2>3 DEF ClaimsAreApart
    <3> QED BY <1>0, <2>1, <3>1, <3>2 DEF ClaimsAreApart
  <2>8. SpentIsGone'
    <3>1. \A r, s \in Calls : r # p => (Restoring(r, s)' <=> Restoring(r, s))
      BY <2>3 DEF Restoring
    <3>2. \A s \in Calls : Restoring(p, s)' => s = q /\ call'[p].at = "restore"
      BY <2>3 DEF Restoring
    <3>3. \A s \in Calls : ~Restoring(p, s)
      BY <2>0, <2>1 DEF Restoring
    <3>4. \A r \in Calls : call'[r].at = "drop" => r # p /\ call[r].at = "drop" /\ call'[r].of = call[r].of
      BY <2>3
    <3>5. ASSUME readFaults' = 0, NEW s \in Calls \ overlapped, s # q
          PROVE  /\ Spent(s)' => /\ s \notin snapDb' \cup snapRedis'
                                 /\ \A r \in Calls : call'[r].at = "drop" => call'[r].of # s
                 /\ \A r, t \in Calls : Restoring(r, s)' /\ Restoring(t, s)' => r = t
                 /\ restores'[s] <= 1
                 /\ restores'[s] # 0 => \A r \in Calls : ~Restoring(r, s)'
      <4>1. \A r \in Calls : Restoring(r, s)' => Restoring(r, s)
        BY <3>1, <3>2, <3>5
      <4>2. Spent(s)' => Spent(s)
        BY <2>1, <4>1 DEF Spent
      <4> QED BY <1>0, <2>1, <3>4, <3>5, <4>1, <4>2 DEF SpentIsGone
    <3>6. ASSUME readFaults' = 0, q \notin overlapped, call'[p].at = "restore"
          PROVE  /\ q \notin snapDb' \cup snapRedis'
                 /\ \A r \in Calls : call'[r].at = "drop" => call'[r].of # q
                 /\ \A r, t \in Calls : Restoring(r, q)' /\ Restoring(t, q)' => r = t
                 /\ restores'[q] = 0
      <4>1. ~Spent(q)
        BY <2>0, <1>0, <2>1, <2>3, <3>6 DEF SpentIsGone
      <4>2. restores'[q] = 0 /\ \A r \in Calls : ~Restoring(r, q)
        BY <1>0, <2>1, <2>3, <4>1 DEF Spent
      <4>3. q \notin snapRedis'
        BY <2>0, <1>0, <2>1, <3>6 DEF ClaimsAreApart
      <4>4. \A r \in Calls : call'[r].at = "drop" => call'[r].of # q
        <5>1. ASSUME NEW r \in Calls, call'[r].at = "drop", call'[r].of = q PROVE FALSE
          <6>1. r # p /\ r \in Undoing(q)
            BY <3>4, <5>1 DEF Undoing
          <6> QED BY <1>0, <2>3, <2>4, <3>6, <6>1 DEF ClaimsAreApart
        <5> QED BY <5>1
      <4>5. \A r, t \in Calls : Restoring(r, q)' /\ Restoring(t, q)' => r = t
        BY <2>3, <3>1, <4>2
      <4>6. q \notin snapDb'
        BY <2>1, <3>6
      <4> QED BY <4>2, <4>3, <4>4, <4>5, <4>6
    <3>7. ASSUME readFaults' = 0, q \notin overlapped, call'[p].at = "done"
          PROVE  /\ Spent(q)' => /\ q \notin snapDb' \cup snapRedis'
                                 /\ \A r \in Calls : call'[r].at = "drop" => call'[r].of # q
                 /\ \A r, t \in Calls : Restoring(r, q)' /\ Restoring(t, q)' => r = t
                 /\ restores'[q] <= 1
                 /\ restores'[q] # 0 => \A r \in Calls : ~Restoring(r, q)'
      <4>1. \A r \in Calls : Restoring(r, q)' => Restoring(r, q)
        BY <2>3, <3>1, <3>2, <3>7
      <4>2. Spent(q)' => Spent(q)
        BY <2>1, <4>1 DEF Spent
      <4> QED BY <1>0, <2>1, <2>3, <3>4, <3>7, <4>1, <4>2 DEF SpentIsGone
    <3> QED BY <1>0, <2>1, <2>3, <3>5, <3>6, <3>7 DEF SpentIsGone
  <2> QED BY <2>6, <2>7, <2>8 DEF SnapsIInv
<1>10. ASSUME NEW p \in Calls, Restore(p) PROVE SnapsIInv'
  <2>0. PICK q : q = call[p].of
    OBVIOUS
  <2>1. /\ call[p].at = "restore" /\ UNCHANGED <<overlapped, snapRedis, snapDb, readFaults>>
        /\ \E where \in {"done", "invalidate"} : Goto(p, where)
        /\ restores' = [restores EXCEPT ![q] = restores[q] + 1]
    BY <1>10, <2>0 DEF Restore, At, snaps
  <2>2. "invalidate" \in Places /\ "done" \in Places
    BY DEF Places
  <2>3. /\ call'[p].at \in {"invalidate", "done"}
        /\ \A r \in Calls : r # p => call'[r] = call[r]
        /\ q \in Calls /\ At(q, "all", "done")
    BY <1>0, <2>0, <2>1, <2>2, CallKeeps DEF UndoesAreLate
  <2>4. Restoring(p, q)
    BY <2>0, <2>1 DEF Restoring
  <2>5. \A s \in Calls : s # q => restores'[s] = restores[s]
    BY <1>0, <2>1
  <2>6. restores'[q] = restores[q] + 1
    BY <1>0, <2>1, <2>3
  <2>7. \A r \in Calls : At(r, "all", "done") => At(r, "all", "done")'
    BY <2>1, <2>3 DEF At
  <2>8. UndoesAreLate'
    BY <1>0, <2>1, <2>3, <2>5, <2>7 DEF UndoesAreLate
  <2>9. ClaimsAreApart'
    <3>1. \A s \in Calls : Undoing(s)' \subseteq Undoing(s)
      BY <2>1, <2>3 DEF Undoing
    <3> QED BY <1>0, <2>1, <2>3, <3>1 DEF ClaimsAreApart
  <2>10. SpentIsGone'
    <3>1. \A r, s \in Calls : Restoring(r, s)' => r # p /\ Restoring(r, s)
      BY <2>3 DEF Restoring
    <3>2. \A r \in Calls : call'[r].at = "drop" => call[r].at = "drop" /\ call'[r].of = call[r].of
      BY <2>3
    <3>3. \A s \in Calls : Spent(s)' => Spent(s)
      <4>1. Spent(q)
        BY <2>4 DEF Spent
      <4> QED BY <2>5, <3>1, <4>1 DEF Spent
    <3>4. readFaults = 0 /\ q \notin overlapped => restores[q] = 0
      BY <1>0, <2>3, <2>4 DEF SpentIsGone
    <3>5. ASSUME readFaults = 0, NEW s \in Calls \ overlapped
          PROVE  restores'[s] <= 1 /\ (restores'[s] # 0 => \A r \in Calls : ~Restoring(r, s)')
      <4>1. CASE s = q
        BY <1>0, <2>3, <2>4, <2>6, <3>1, <3>4, <3>5, <4>1 DEF SpentIsGone
      <4>2. CASE s # q
        BY <1>0, <2>5, <3>1, <3>5, <4>2 DEF SpentIsGone
      <4> QED BY <4>1, <4>2
    <3> QED BY <1>0, <2>1, <3>1, <3>2, <3>3, <3>5 DEF SpentIsGone
  <2> QED BY <2>8, <2>9, <2>10 DEF SnapsIInv
<1> QED BY <1>2, <1>3, <1>4, <1>5, <1>6, <1>7, <1>8, <1>9, <1>10
        DEF ReadNext, AckRead, MarkUnread, MarkAllRead, UndoMarkAllRead, CachedTotal

\* CachesSound: a snapshot is restored once, and the cached totals are those of the
\* cursors, but for the calls and failures that are named, whatever calls of the
\* user's devices overlap (UnreadService.undoMarkAllRead, cachedTotal, invalidate).
THEOREM CachesHold == ReadSpec => []CachesSound
<1>1. ReadInit => TotalsFollow /\ SnapsIInv
  <2> SUFFICES ASSUME ReadInit PROVE TotalsFollow /\ SnapsIInv
    OBVIOUS
  <2>1. /\ \A p \in Calls : call[p].at = "new" /\ restores[p] = 0
        /\ cache \in {NoCache, cursor} /\ snapDb = {} /\ snapRedis = {}
    BY DEF ReadInit
  <2>2. TotalsFollow
    BY <2>1 DEF TotalsFollow, Filling, At
  <2>3. UndoesAreLate /\ ClaimsAreApart
    BY <2>1 DEF UndoesAreLate, ClaimsAreApart, Undoing
  <2>4. SpentIsGone
    BY <2>1 DEF SpentIsGone, Spent, Restoring
  <2> QED BY <2>2, <2>3, <2>4 DEF SnapsIInv
<1>2. ReadIInv /\ ReadIInv' /\ TotalsFollow /\ SnapsIInv /\ [ReadNext]_readVars
        => TotalsFollow' /\ SnapsIInv'
  <2> SUFFICES ASSUME ReadIInv, ReadIInv', TotalsFollow, SnapsIInv, [ReadNext]_readVars
               PROVE  TotalsFollow' /\ SnapsIInv'
    OBVIOUS
  <2>1. CASE ReadNext
    BY <2>1, TotalsStayRight, SnapsStayRight
  <2>2. CASE UNCHANGED readVars
    <3>1. UNCHANGED <<call, cursor, cache, lagged, restores, overlapped, snapDb, snapRedis,
                      readFaults>>
      BY <2>2 DEF readVars, cursors, snaps, totals, readHistory
    <3>2. TotalsFollow'
      BY <3>1 DEF TotalsFollow, Owes, Filling, At
    <3>3. SnapsIInv'
      BY <3>1 DEF SnapsIInv, UndoesAreLate, ClaimsAreApart, SpentIsGone, Undoing, Restoring, Spent, At
    <3> QED BY <3>2, <3>3
  <2> QED BY <2>1, <2>2
<1>3. ReadIInv /\ TotalsFollow /\ SnapsIInv => CachesSound
  <2> SUFFICES ASSUME ReadIInv, TotalsFollow, SnapsIInv PROVE CachesSound
    OBVIOUS
  <2>1. UndoneOnce
    BY DEF SnapsIInv, SpentIsGone, UndoneOnce
  <2>2. TotalsCurrent
    BY DEF TotalsFollow, TotalsCurrent, Owes, Dirty
  <2> QED BY <2>1, <2>2 DEF CachesSound
<1> QED BY <1>1, <1>2, <1>3, ReadInitHolds, ReadStep, PTL DEF ReadSpec

-----------------------------------------------------------------------------
(* Eviction of a temporary member. *)

Uses == [join : Nat, fault : Nat, lost : Nat, crash : Nat]

EvictTypes ==
  /\ hs \in [Sockets -> {"none", "rooms", "track", "cancel", "done"}]
  /\ cl \in [Sockets -> {"no", "srem", "scard", "remove", "add", "done"}]
  /\ tracked \in [Sockets -> BOOLEAN]
  /\ job \in {"none", "delayed", "active", "kept"}
  /\ worker \in {"idle", "check", "find", "delete", "finish"}
  /\ worker # "idle" => job = "active"
  /\ used \in Uses
  /\ \A s \in Sockets : hs[s] = "none" => cl[s] = "no"

\* An established socket that is tracked is in the set, unless that lost something;
\* one that is about to cancel the job is, unless its SADD failed.
TrackedAreListed ==
  \A s \in Sockets :
    /\ used.lost = 0 /\ tracked[s] /\ hs[s] \in {"cancel", "done"} /\ cl[s] = "no" => s \in set
    /\ ~missed /\ hs[s] = "cancel" /\ cl[s] = "no" => s \in set

\* Since a disconnect has counted no socket and none was tracked, the set is empty.
DueIsEmpty == due => set = {}

\* An eviction that is due is about to be armed, or its job waits or runs.
Scheduled ==
  \/ job = "delayed" \/ (job = "active" /\ worker # "finish")
  \/ \E s \in Sockets : cl[s] = "remove" \/ (cl[s] = "add" /\ job = "none")
DueIsScheduled == row = "temporary" /\ due /\ ~missed => Scheduled

EvictIInv ==
  EvictTypes /\ TrackedAreListed /\ DueIsEmpty /\ DueIsScheduled /\ AwayWhenChecked

\* The invariant holds before anybody joins.
LEMMA EvictInitHolds == EvictInit => EvictIInv
<1> SUFFICES ASSUME EvictInit PROVE EvictIInv
  OBVIOUS
<1> USE DEF EvictInit
<1>1. EvictTypes
  BY DEF EvictTypes, Uses
<1>2. TrackedAreListed
  BY DEF TrackedAreListed
<1>3. ~due
  OBVIOUS
<1>4. DueIsEmpty /\ DueIsScheduled
  BY <1>3 DEF DueIsEmpty, DueIsScheduled
<1>5. AwayWhenChecked
  BY DEF AwayWhenChecked
<1> QED BY <1>1, <1>2, <1>4, <1>5 DEF EvictIInv

\* What a counted event costs.
LEMMA SpendEffects ==
  ASSUME NEW kind \in {"join", "fault", "lost", "crash"}, NEW max, used \in Uses,
         Spend(kind, max)
  PROVE  /\ used' \in Uses
         /\ IF kind = "lost" THEN used'.lost # 0 ELSE used'.lost = used.lost
BY DEF Spend, Uses

\* A step that neither opens a socket nor touches the set, the job or the marks.
LEMMA EvictFrame ==
  ASSUME EvictIInv, used' \in Uses, used'.lost = used.lost,
         UNCHANGED <<row, sockVars, job, worker, late, due>>, ~missed' => ~missed
  PROVE  EvictIInv'
BY DEF EvictIInv, EvictTypes, TrackedAreListed, DueIsEmpty, DueIsScheduled, Scheduled,
       AwayWhenChecked, Established, Open, sockVars

\* A join, a departure or a deletion of the member ends what was due.
LEMMA MembershipStepHolds ==
  ASSUME EvictIInv,
         (\E kind \in {"temporary", "permanent"} : Join(kind)) \/ Leave \/ Delete
  PROVE  EvictIInv'
<1>1. /\ UNCHANGED <<sockVars, job, late, missed>> /\ due' = FALSE
      /\ used' \in Uses /\ used'.lost = used.lost
      /\ worker' = worker \/ (worker = "delete" /\ worker' = "finish")
  BY SpendEffects DEF Join, Leave, Delete, Work, EvictIInv, EvictTypes
<1>2. ~due'
  BY ONLY <1>1, Zenon
<1>3. EvictTypes'
  BY <1>1 DEF EvictIInv, EvictTypes, sockVars
<1>4. TrackedAreListed' /\ AwayWhenChecked'
  BY <1>1 DEF EvictIInv, TrackedAreListed, AwayWhenChecked, Established, Open, sockVars
<1> QED BY <1>2, <1>3, <1>4 DEF EvictIInv, DueIsEmpty, DueIsScheduled

\* A step of a handshake keeps the invariant.
LEMMA HandshakeStepHolds ==
  ASSUME EvictIInv, NEW s \in Sockets, Connect(s) \/ Handshake(s)
  PROVE  EvictIInv'
<1>0. /\ hs \in [Sockets -> {"none", "rooms", "track", "cancel", "done"}]
      /\ tracked \in [Sockets -> BOOLEAN] /\ used \in Uses
      /\ EvictTypes /\ TrackedAreListed /\ DueIsEmpty /\ DueIsScheduled /\ AwayWhenChecked
  BY DEF EvictIInv, EvictTypes
<1>1. CASE Connect(s) \/ ReadRooms(s)
  <2>1. /\ hs' \in [Sockets -> {"none", "rooms", "track", "cancel", "done"}]
        /\ hs'[s] \in {"rooms", "track"} /\ hs[s] \in {"none", "rooms"}
        /\ tracked' \in [Sockets -> BOOLEAN]
        /\ \A t \in Sockets : t # s => hs'[t] = hs[t] /\ tracked'[t] = tracked[t]
        /\ UNCHANGED <<row, cl, set, job, worker, late, due, missed, used>>
    BY <1>0, <1>1 DEF Connect, ReadRooms, evictHistory
  <2>2. EvictTypes'
    BY <1>0, <2>1 DEF EvictTypes
  <2>3. TrackedAreListed'
    BY <1>0, <2>1 DEF TrackedAreListed
  <2>4. DueIsEmpty' /\ DueIsScheduled'
    BY <1>0, <2>1 DEF DueIsEmpty, DueIsScheduled, Scheduled
  <2>5. AwayWhenChecked'
    BY <1>0, <2>1 DEF AwayWhenChecked, Established, Open
  <2> QED BY <2>2, <2>3, <2>4, <2>5 DEF EvictIInv
<1>2. CASE Track(s)
  <2>1. /\ hs' \in [Sockets -> {"none", "rooms", "track", "cancel", "done"}]
        /\ hs[s] = "track" /\ hs'[s] = "cancel" /\ \A t \in Sockets : t # s => hs'[t] = hs[t]
        /\ late' = late \cup {s} /\ due' = FALSE
        /\ UNCHANGED <<row, tracked, cl, job, worker>>
    BY <1>0, <1>2 DEF Track
  <2>2. ~due'
    BY ONLY <2>1, Zenon
  <2>3. \/ set' = set \cup {s} /\ UNCHANGED <<used, missed>>
        \/ set' = set /\ missed' = TRUE /\ used' \in Uses /\ used'.lost # 0
    BY <1>0, <1>2, SpendEffects DEF Track
  <2>4. \/ set' = set \cup {s} /\ UNCHANGED <<used, missed>>
        \/ set' = set /\ missed' /\ used' \in Uses /\ used'.lost # 0
    BY ONLY <2>3, Zenon
  <2>5. EvictTypes'
    BY <1>0, <2>1, <2>4 DEF EvictTypes
  <2>6. TrackedAreListed'
    BY <1>0, <2>1, <2>4 DEF TrackedAreListed
  <2>7. AwayWhenChecked'
    BY <1>0, <2>1, <2>4 DEF AwayWhenChecked, Established, Open
  <2> QED BY <2>2, <2>5, <2>6, <2>7 DEF EvictIInv, DueIsEmpty, DueIsScheduled
<1>3. CASE Untracked(s)
  <2>1. /\ hs' \in [Sockets -> {"none", "rooms", "track", "cancel", "done"}]
        /\ hs[s] = "track" /\ ~tracked[s] /\ hs'[s] = "done"
        /\ \A t \in Sockets : t # s => hs'[t] = hs[t]
        /\ late' = late \cup {s}
        /\ UNCHANGED <<row, tracked, cl, set, job, worker, due, missed, used>>
    BY <1>0, <1>3 DEF Untracked
  <2>2. EvictTypes'
    BY <1>0, <2>1 DEF EvictTypes
  <2>3. TrackedAreListed'
    BY <1>0, <2>1 DEF TrackedAreListed
  <2>4. DueIsEmpty' /\ DueIsScheduled'
    BY <1>0, <2>1 DEF DueIsEmpty, DueIsScheduled, Scheduled
  <2>5. AwayWhenChecked'
    BY <1>0, <2>1 DEF AwayWhenChecked, Established, Open
  <2> QED BY <2>2, <2>3, <2>4, <2>5 DEF EvictIInv
<1>4. CASE Cancel(s)
  <2>1. /\ hs' \in [Sockets -> {"none", "rooms", "track", "cancel", "done"}]
        /\ hs[s] = "cancel" /\ hs'[s] = "done" /\ \A t \in Sockets : t # s => hs'[t] = hs[t]
        /\ UNCHANGED <<row, tracked, cl, set, worker, late, due>>
    BY <1>0, <1>4 DEF Cancel
  <2>2. \/ job' = Removed /\ UNCHANGED used
             /\ missed' = (missed \/ (cl[s] # "no" /\ job = "delayed"))
        \/ used' \in Uses /\ used'.lost = used.lost /\ UNCHANGED <<job, missed>>
    BY <1>0, <1>4, SpendEffects DEF Cancel
  <2>3. /\ ~missed' => ~missed
        /\ used' \in Uses /\ used'.lost = used.lost
        /\ job' = job \/ (job' = Removed /\ (~missed' => cl[s] = "no" \/ job # "delayed"))
    <3>1. CASE job' = Removed /\ UNCHANGED used
                 /\ missed' = (missed \/ (cl[s] # "no" /\ job = "delayed"))
      <4>1. ~missed' => ~missed /\ (cl[s] = "no" \/ job # "delayed")
        BY ONLY <3>1, Zenon
      <4> QED BY <1>0, <3>1, <4>1
    <3> QED BY <2>2, <3>1
  <2>4. EvictTypes'
    BY <1>0, <2>1, <2>3 DEF EvictTypes, Removed
  <2>5. TrackedAreListed'
    BY <1>0, <2>1, <2>3 DEF TrackedAreListed
  <2>6. DueIsEmpty' /\ AwayWhenChecked'
    BY <1>0, <2>1, <2>3 DEF DueIsEmpty, AwayWhenChecked, Established, Open
  <2>7. DueIsScheduled'
    <3>1. SUFFICES ASSUME row = "temporary", due, ~missed' PROVE Scheduled'
      BY <2>1 DEF DueIsScheduled
    <3>2. Scheduled /\ ~missed /\ set = {}
      BY <1>0, <2>3, <3>1 DEF DueIsScheduled, DueIsEmpty
    <3>3. cl[s] # "no"
      BY <1>0, <2>1, <3>2 DEF TrackedAreListed
    <3>4. job' = job \/ (job # "delayed" /\ job' = Removed)
      BY <2>3, <3>1, <3>3
    <3> QED BY <2>1, <3>2, <3>4 DEF Scheduled, Removed
  <2> QED BY <2>4, <2>5, <2>6, <2>7 DEF EvictIInv
<1> QED BY <1>1, <1>2, <1>3, <1>4 DEF Handshake

\* A step of a disconnect keeps the invariant.
LEMMA DisconnectStepHolds ==
  ASSUME EvictIInv, NEW s \in Sockets, Close(s) \/ Disconnect(s) \/ CloseFails(s) \/ Crash(s)
  PROVE  EvictIInv'
<1>0. /\ hs \in [Sockets -> {"none", "rooms", "track", "cancel", "done"}]
      /\ cl \in [Sockets -> {"no", "srem", "scard", "remove", "add", "done"}]
      /\ tracked \in [Sockets -> BOOLEAN] /\ used \in Uses
      /\ EvictTypes /\ TrackedAreListed /\ DueIsEmpty /\ DueIsScheduled /\ AwayWhenChecked
  BY DEF EvictIInv, EvictTypes
\* A step of the socket to a place where it is closed.
<1>a. ASSUME cl' \in [Sockets -> {"no", "srem", "scard", "remove", "add", "done"}],
             hs' \in [Sockets -> {"none", "rooms", "track", "cancel", "done"}],
             hs[s] # "none", cl'[s] # "no", hs'[s] \in {hs[s], "done"},
             \A t \in Sockets : t # s => cl'[t] = cl[t] /\ hs'[t] = hs[t],
             used' \in Uses, used'.lost = used.lost, ~missed' => ~missed,
             set' = set \/ set' = set \ {s},
             UNCHANGED <<row, tracked, worker, late>>
      PROVE  /\ TrackedAreListed' /\ AwayWhenChecked'
             /\ job' = job => EvictTypes'
  <2>1. TrackedAreListed'
    BY <1>0, <1>a DEF TrackedAreListed
  <2>2. AwayWhenChecked'
    BY <1>0, <1>a DEF AwayWhenChecked, Established, Open
  <2>3. job' = job => EvictTypes'
    BY <1>0, <1>a DEF EvictTypes
  <2> QED BY <2>1, <2>2, <2>3
<1>1. CASE Close(s)
  <2>1. /\ hs[s] # "none" /\ cl[s] = "no" /\ cl'[s] \in {"srem", "done"}
        /\ cl' \in [Sockets -> {"no", "srem", "scard", "remove", "add", "done"}]
        /\ \A t \in Sockets : t # s => cl'[t] = cl[t]
        /\ UNCHANGED <<row, hs, tracked, set, job, worker, late, due, missed, used>>
    BY <1>0, <1>1 DEF Close, Open, evictHistory
  <2>2. DueIsEmpty' /\ DueIsScheduled'
    BY <1>0, <2>1 DEF DueIsEmpty, DueIsScheduled, Scheduled
  <2> QED BY <1>0, <1>a, <2>1, <2>2 DEF EvictIInv
<1>2. CASE Srem(s)
  <2>1. /\ cl[s] = "srem" /\ hs[s] # "none" /\ cl'[s] = "scard" /\ set' = set \ {s}
        /\ cl' \in [Sockets -> {"no", "srem", "scard", "remove", "add", "done"}]
        /\ \A t \in Sockets : t # s => cl'[t] = cl[t]
        /\ UNCHANGED <<row, hs, tracked, job, worker, late, due, missed, used>>
    BY <1>0, <1>2 DEF Srem, evictHistory, EvictTypes
  <2>2. DueIsEmpty' /\ DueIsScheduled'
    BY <1>0, <2>1 DEF DueIsEmpty, DueIsScheduled, Scheduled
  <2> QED BY <1>0, <1>a, <2>1, <2>2 DEF EvictIInv
<1>3. CASE Scard(s)
  <2>1. /\ cl[s] = "scard" /\ hs[s] # "none"
        /\ cl'[s] = IF set = {} THEN "remove" ELSE "done"
        /\ cl' \in [Sockets -> {"no", "srem", "scard", "remove", "add", "done"}]
        /\ \A t \in Sockets : t # s => cl'[t] = cl[t]
        /\ UNCHANGED <<row, hs, tracked, set, job, worker, late, missed, used>>
    BY <1>0, <1>3 DEF Scard, EvictTypes
  <2>2. due' = (due \/ set = {})
    BY <1>3 DEF Scard
  <2>3. due' => due \/ set = {}
    BY ONLY <2>2, Zenon
  <2>4. DueIsEmpty' /\ DueIsScheduled'
    BY <1>0, <2>1, <2>3 DEF DueIsEmpty, DueIsScheduled, Scheduled
  <2> QED BY <1>0, <1>a, <2>1, <2>4 DEF EvictIInv
<1>4. CASE ArmRemove(s)
  <2>1. /\ cl[s] = "remove" /\ hs[s] # "none" /\ cl'[s] = "add"
        /\ cl' \in [Sockets -> {"no", "srem", "scard", "remove", "add", "done"}]
        /\ \A t \in Sockets : t # s => cl'[t] = cl[t]
        /\ UNCHANGED <<row, hs, tracked, set, worker, late, due>>
    BY <1>0, <1>4 DEF ArmRemove, EvictTypes
  <2>2. \/ job' = Removed /\ missed' = (missed \/ job = "active") /\ UNCHANGED used
        \/ missed' = TRUE /\ UNCHANGED job /\ used' \in Uses /\ used'.lost = used.lost
    BY <1>0, <1>4, SpendEffects DEF ArmRemove
  <2>3. /\ job' \in {job, Removed} /\ used' \in Uses /\ used'.lost = used.lost
        /\ ~missed' => ~missed /\ job # "active" /\ job' = Removed
    <3>1. CASE job' = Removed /\ missed' = (missed \/ job = "active") /\ UNCHANGED used
      <4>1. ~missed' => ~missed /\ job # "active"
        BY ONLY <3>1, Zenon
      <4> QED BY <1>0, <3>1, <4>1
    <3>2. CASE missed' = TRUE /\ UNCHANGED job /\ used' \in Uses /\ used'.lost = used.lost
      <4>1. missed'
        BY ONLY <3>2, Zenon
      <4> QED BY <3>2, <4>1
    <3> QED BY <2>2, <3>1, <3>2
  <2>4. EvictTypes'
    BY <1>0, <2>1, <2>3 DEF EvictTypes, Removed
  <2>5. DueIsEmpty' /\ DueIsScheduled'
    BY <1>0, <2>1, <2>3 DEF DueIsEmpty, DueIsScheduled, Scheduled, Removed
  <2> QED BY <1>0, <1>a, <2>1, <2>3, <2>4, <2>5 DEF EvictIInv
<1>5. CASE ArmAdd(s)
  <2>1. /\ cl[s] = "add" /\ hs[s] # "none" /\ cl'[s] = "done" /\ job' = Added
        /\ cl' \in [Sockets -> {"no", "srem", "scard", "remove", "add", "done"}]
        /\ \A t \in Sockets : t # s => cl'[t] = cl[t]
        /\ UNCHANGED <<row, hs, tracked, set, worker, late, due, missed, used>>
    BY <1>0, <1>5 DEF ArmAdd, evictHistory, EvictTypes
  <2>2. EvictTypes'
    BY <1>0, <2>1 DEF EvictTypes, Added
  <2>3. DueIsEmpty' /\ DueIsScheduled'
    BY <1>0, <2>1 DEF DueIsEmpty, DueIsScheduled, Scheduled, Added
  <2> QED BY <1>0, <1>a, <2>1, <2>2, <2>3 DEF EvictIInv
<1>6. CASE CloseFails(s)
  <2>1. /\ cl[s] # "no" /\ hs[s] # "none" /\ cl'[s] = "done" /\ missed' = TRUE
        /\ cl' \in [Sockets -> {"no", "srem", "scard", "remove", "add", "done"}]
        /\ \A t \in Sockets : t # s => cl'[t] = cl[t]
        /\ UNCHANGED <<row, hs, tracked, set, job, worker, late, due>>
    BY <1>0, <1>6 DEF CloseFails, EvictTypes
  <2>2. used' \in Uses /\ used'.lost = used.lost
    BY <1>0, <1>6, SpendEffects DEF CloseFails
  <2>3. missed'
    BY ONLY <2>1, Zenon
  <2>4. DueIsEmpty' /\ DueIsScheduled'
    BY <1>0, <2>1, <2>3 DEF DueIsEmpty, DueIsScheduled
  <2> QED BY <1>0, <1>a, <2>1, <2>2, <2>3, <2>4 DEF EvictIInv
<1>7. CASE Crash(s)
  <2>1. /\ hs[s] # "none" /\ cl'[s] = "done" /\ hs'[s] = "done"
        /\ missed' = (missed \/ cl[s] \notin {"no", "done"})
        /\ cl' \in [Sockets -> {"no", "srem", "scard", "remove", "add", "done"}]
        /\ hs' \in [Sockets -> {"none", "rooms", "track", "cancel", "done"}]
        /\ \A t \in Sockets : t # s => cl'[t] = cl[t] /\ hs'[t] = hs[t]
        /\ UNCHANGED <<row, tracked, set, job, worker, late, due>>
    BY <1>0, <1>7 DEF Crash
  <2>2. used' \in Uses /\ used'.lost = used.lost
    BY <1>0, <1>7, SpendEffects DEF Crash
  <2>3. ~missed' => ~missed /\ cl[s] \in {"no", "done"}
    BY ONLY <2>1, Zenon
  <2>4. DueIsEmpty' /\ DueIsScheduled'
    BY <1>0, <2>1, <2>3 DEF DueIsEmpty, DueIsScheduled, Scheduled
  <2> QED BY <1>0, <1>a, <2>1, <2>2, <2>3, <2>4 DEF EvictIInv
<1> QED BY <1>1, <1>2, <1>3, <1>4, <1>5, <1>6, <1>7 DEF Disconnect

\* The expiry of the set and a step of the worker keep the invariant.
LEMMA WorkerStepHolds ==
  ASSUME EvictIInv, Expire \/ Fire \/ Check \/ Find \/ Finish \/ Recover \/ WorkFails \/ WorkerCrash
  PROVE  EvictIInv'
<1>0. /\ job \in {"none", "delayed", "active", "kept"} /\ used \in Uses
      /\ worker \in {"idle", "check", "find", "delete", "finish"}
      /\ worker # "idle" => job = "active"
      /\ EvictTypes /\ TrackedAreListed /\ DueIsEmpty /\ DueIsScheduled /\ AwayWhenChecked
  BY DEF EvictIInv, EvictTypes
<1>1. CASE Expire
  <2>1. /\ set' = {} /\ \A s \in Sockets : hs[s] # "cancel"
        /\ UNCHANGED <<row, hs, tracked, cl, job, worker, late, due, missed>>
        /\ used' \in Uses /\ used'.lost # 0
    BY <1>0, <1>1, SpendEffects DEF Expire, evictHistory
  <2> QED BY <1>0, <2>1 DEF EvictIInv, EvictTypes, TrackedAreListed, DueIsEmpty, DueIsScheduled,
                            Scheduled, AwayWhenChecked
<1>2. CASE Fire \/ Find \/ Finish \/ Recover
  <2>1. /\ UNCHANGED <<row, hs, tracked, cl, set, late, due, missed, used>>
        /\ \/ job = "delayed" /\ job' = "active" /\ worker' = "check"
           \/ /\ worker = "find" /\ job' = job
              /\ worker' = IF row = "temporary" THEN "delete" ELSE "finish"
           \/ worker = "finish" /\ worker' = "idle" /\ job' = "kept"
           \/ job = "active" /\ job' = job /\ worker = "idle" /\ worker' = "check"
    BY <1>2 DEF Fire, Find, Finish, Recover, Work, sockVars, evictHistory
  <2>2. EvictTypes' /\ TrackedAreListed' /\ DueIsEmpty' /\ AwayWhenChecked'
    BY <1>0, <2>1 DEF EvictTypes, TrackedAreListed, DueIsEmpty, AwayWhenChecked, Established, Open
  <2>3. DueIsScheduled'
    BY <1>0, <2>1 DEF DueIsScheduled, Scheduled
  <2> QED BY <2>2, <2>3 DEF EvictIInv
<1>3. CASE Check
  <2>1. /\ UNCHANGED <<row, hs, tracked, cl, set, job, due>> /\ worker = "check"
        /\ late' = {} /\ used' \in Uses /\ used'.lost = used.lost
        /\ \/ worker' = (IF set = {} THEN "find" ELSE "finish") /\ missed' = missed
           \/ worker' = "finish" /\ missed' = TRUE
    BY <1>0, <1>3, SpendEffects DEF Check, Work, sockVars
  <2>2. \/ worker' = (IF set = {} THEN "find" ELSE "finish") /\ missed' = missed
        \/ worker' = "finish" /\ missed'
    BY ONLY <2>1, Zenon
  <2>3. EvictTypes' /\ TrackedAreListed' /\ DueIsEmpty'
    BY <1>0, <2>1, <2>2 DEF EvictTypes, TrackedAreListed, DueIsEmpty
  <2>4. DueIsScheduled'
    BY <1>0, <2>1, <2>2 DEF DueIsScheduled, DueIsEmpty, Scheduled
  <2>5. AwayWhenChecked'
    BY <1>0, <2>1, <2>2 DEF AwayWhenChecked, TrackedAreListed, Established, Open
  <2> QED BY <2>3, <2>4, <2>5 DEF EvictIInv
<1>4. CASE WorkFails
  <2>1. /\ UNCHANGED <<row, hs, tracked, cl, set, job, late, due>> /\ job = "active"
        /\ worker' = "finish" /\ used' \in Uses /\ used'.lost = used.lost /\ missed' = TRUE
    BY <1>0, <1>4, SpendEffects DEF WorkFails, Work, sockVars
  <2>2. missed'
    BY ONLY <2>1, Zenon
  <2> QED BY <1>0, <2>1, <2>2 DEF EvictIInv, EvictTypes, TrackedAreListed, DueIsEmpty,
                                  DueIsScheduled, AwayWhenChecked
<1>5. CASE WorkerCrash
  <2>1. /\ UNCHANGED <<row, hs, tracked, cl, set, job, late, due, missed>> /\ worker # "idle"
        /\ worker' = "idle" /\ used' \in Uses /\ used'.lost = used.lost
    BY <1>0, <1>5, SpendEffects DEF WorkerCrash, sockVars, evictHistory
  <2> QED BY <1>0, <2>1 DEF EvictIInv, EvictTypes, TrackedAreListed, DueIsEmpty,
                            DueIsScheduled, Scheduled, AwayWhenChecked
<1> QED BY <1>1, <1>2, <1>3, <1>4, <1>5

\* EvictIInv is an invariant of TempEvict.
LEMMA EvictAlways == EvictSpec => []EvictIInv
<1>1. EvictIInv /\ [EvictNext]_evictVars => EvictIInv'
  <2> SUFFICES ASSUME EvictIInv, [EvictNext]_evictVars PROVE EvictIInv'
    OBVIOUS
  <2>1. CASE EvictNext
    BY <2>1, MembershipStepHolds, HandshakeStepHolds, DisconnectStepHolds, WorkerStepHolds
       DEF EvictNext, Worker
  <2>2. CASE UNCHANGED evictVars
    BY <2>2, EvictFrame DEF evictVars, evictHistory, EvictIInv, EvictTypes
  <2> QED BY <2>1, <2>2
<1> QED BY <1>1, EvictInitHolds, PTL DEF EvictSpec

\* EvictionSound: a member with a tracked connection is not evicted, and an eviction
\* that is due stays scheduled, whatever connects, disconnects and fires overlap, for
\* any number of sockets (temp-evict-queue.service.ts, temp-evict.processor.ts).
THEOREM EvictionHolds == EvictSpec => []EvictionSound
<1>1. EvictIInv => EvictionSound
  <2> SUFFICES ASSUME EvictIInv PROVE EvictionSound
    OBVIOUS
  <2>1. AwayWhenChecked
    BY DEF EvictIInv
  <2>2. EvictionScheduled
    BY DEF EvictIInv, EvictTypes, DueIsScheduled, Scheduled, EvictionScheduled
  <2> QED BY <2>1, <2>2 DEF EvictionSound
<1> QED BY <1>1, EvictAlways, PTL

\* Only sockets that are tracked, and have got past the tracking, are in the set.
ListedAreTracked ==
  set \subseteq Sockets /\ \A s \in set : tracked[s] /\ hs[s] \in {"cancel", "done"}

WithinBounds ==
  /\ used.join <= MaxJoins /\ used.fault <= MaxFaults /\ used.lost <= MaxLost
  /\ used.crash <= MaxCrashes

EvictMarks ==
  /\ row \in {"none", "temporary", "permanent"} /\ late \subseteq Sockets
  /\ due \in BOOLEAN /\ missed \in BOOLEAN

\* A counted event stays below its bound.
LEMMA SpendIsBounded ==
  ASSUME used \in Uses, WithinBounds,
         \/ UNCHANGED used
         \/ Spend("join", MaxJoins) \/ Spend("fault", MaxFaults)
         \/ Spend("lost", MaxLost) \/ Spend("crash", MaxCrashes)
  PROVE  WithinBounds'
<1>1. used.join \in Nat /\ used.fault \in Nat /\ used.lost \in Nat /\ used.crash \in Nat
  BY DEF Uses
<1>2. MaxJoins \in Nat /\ MaxFaults \in Nat /\ MaxLost \in Nat /\ MaxCrashes \in Nat
  BY TempEvictAssumption
<1>3. CASE UNCHANGED used
  BY <1>3 DEF WithinBounds
<1>4. CASE Spend("join", MaxJoins)
  BY <1>1, <1>2, <1>4 DEF Spend, WithinBounds, Uses
<1>5. CASE Spend("fault", MaxFaults)
  BY <1>1, <1>2, <1>5 DEF Spend, WithinBounds, Uses
<1>6. CASE Spend("lost", MaxLost)
  BY <1>1, <1>2, <1>6 DEF Spend, WithinBounds, Uses
<1>7. CASE Spend("crash", MaxCrashes)
  BY <1>1, <1>2, <1>7 DEF Spend, WithinBounds, Uses
<1> QED BY <1>3, <1>4, <1>5, <1>6, <1>7

\* Every step counts what it counts, and nothing else.
LEMMA EvictStaysBounded == ASSUME EvictTypes, WithinBounds, EvictNext PROVE WithinBounds'
<1> DEFINE Counted == \/ UNCHANGED used
                      \/ Spend("join", MaxJoins) \/ Spend("fault", MaxFaults)
                      \/ Spend("lost", MaxLost) \/ Spend("crash", MaxCrashes)
<1>1. ASSUME (\E kind \in {"temporary", "permanent"} : Join(kind)) \/ Leave \/ Expire PROVE Counted
  BY <1>1 DEF Join, Leave, Expire
<1>2. ASSUME NEW s \in Sockets, Connect(s) \/ Handshake(s) PROVE Counted
  BY <1>2 DEF Connect, Handshake, ReadRooms, Track, Untracked, Cancel
<1>3. ASSUME NEW s \in Sockets, Close(s) \/ Disconnect(s) \/ CloseFails(s) \/ Crash(s) PROVE Counted
  BY <1>3 DEF Close, Disconnect, Srem, Scard, ArmRemove, ArmAdd, CloseFails, Crash
<1>4. ASSUME Worker \/ WorkFails \/ WorkerCrash PROVE Counted
  BY <1>4 DEF Worker, Fire, Check, Find, Delete, Finish, Recover, WorkFails, WorkerCrash
<1>5. Counted
  BY <1>1, <1>2, <1>3, <1>4 DEF EvictNext
<1> QED BY <1>5, SpendIsBounded DEF EvictTypes

\* The set keeps to those that are tracked.
LEMMA ListedStayTracked == ASSUME EvictTypes, ListedAreTracked, EvictNext PROVE ListedAreTracked'
<1>0. hs \in [Sockets -> {"none", "rooms", "track", "cancel", "done"}]
      /\ tracked \in [Sockets -> BOOLEAN]
  BY DEF EvictTypes
<1>1. ASSUME UNCHANGED <<hs, tracked>>, set' \subseteq set PROVE ListedAreTracked'
  BY <1>1 DEF ListedAreTracked
<1>2. ASSUME (\E kind \in {"temporary", "permanent"} : Join(kind)) \/ Leave \/ Expire
      PROVE  ListedAreTracked'
  BY <1>1, <1>2 DEF Join, Leave, Expire, sockVars
<1>3. ASSUME NEW s \in Sockets, Connect(s) \/ Untracked(s) \/ Cancel(s) PROVE ListedAreTracked'
  BY <1>0, <1>3 DEF Connect, Untracked, Cancel, ListedAreTracked
<1>4. ASSUME NEW s \in Sockets, ReadRooms(s) PROVE ListedAreTracked'
  BY <1>0, <1>4 DEF ReadRooms, ListedAreTracked
<1>5. ASSUME NEW s \in Sockets, Track(s) PROVE ListedAreTracked'
  BY <1>0, <1>5 DEF Track, ListedAreTracked
<1>6. ASSUME NEW s \in Sockets, Close(s) \/ Disconnect(s) \/ CloseFails(s) PROVE ListedAreTracked'
  BY <1>1, <1>6 DEF Close, Disconnect, Srem, Scard, ArmRemove, ArmAdd, CloseFails
<1>7. ASSUME NEW s \in Sockets, Crash(s) PROVE ListedAreTracked'
  BY <1>0, <1>7 DEF Crash, ListedAreTracked
<1>8. ASSUME Worker \/ WorkFails \/ WorkerCrash PROVE ListedAreTracked'
  BY <1>1, <1>8 DEF Worker, Fire, Check, Find, Delete, Finish, Recover, WorkFails, WorkerCrash, Work,
                   sockVars
<1> QED BY <1>2, <1>3, <1>4, <1>5, <1>6, <1>7, <1>8 DEF EvictNext, Handshake

\* The row and the marks keep their types.
LEMMA MarksStay == ASSUME EvictMarks, EvictNext PROVE EvictMarks'
<1> USE DEF EvictMarks
<1>1. ASSUME (\E kind \in {"temporary", "permanent"} : Join(kind)) \/ Leave PROVE EvictMarks'
  BY <1>1 DEF Join, Leave
<1>2. ASSUME NEW s \in Sockets, Connect(s) \/ ReadRooms(s) \/ Track(s) \/ Untracked(s)
      PROVE  EvictMarks'
  BY <1>2 DEF Connect, ReadRooms, Track, Untracked, evictHistory
<1>3. ASSUME NEW s \in Sockets, Cancel(s) PROVE EvictMarks'
  BY <1>3 DEF Cancel
<1>4. ASSUME NEW s \in Sockets, Close(s) \/ Srem(s) \/ ArmAdd(s) \/ CloseFails(s) PROVE EvictMarks'
  BY <1>4 DEF Close, Srem, ArmAdd, CloseFails, evictHistory
<1>5. ASSUME NEW s \in Sockets, Scard(s) \/ ArmRemove(s) \/ Crash(s) PROVE EvictMarks'
  BY <1>5 DEF Scard, ArmRemove, Crash
<1>6. ASSUME Expire \/ Fire \/ Check \/ Find \/ Delete \/ Finish \/ Recover \/ WorkFails \/ WorkerCrash
      PROVE  EvictMarks'
  BY <1>6 DEF Expire, Fire, Check, Find, Delete, Finish, Recover, WorkFails, WorkerCrash, evictHistory
<1> QED BY <1>1, <1>2, <1>3, <1>4, <1>5, <1>6 DEF EvictNext, Handshake, Disconnect, Worker

\* TempEvict keeps its types; only tracked sockets are counted in Redis.
LEMMA EvictTypesOK == EvictSpec => []EvictTypeOK
<1>1. EvictInit => ListedAreTracked /\ WithinBounds /\ EvictMarks
  <2> SUFFICES ASSUME EvictInit PROVE ListedAreTracked /\ WithinBounds /\ EvictMarks
    OBVIOUS
  <2>1. /\ row = "none" /\ set = {} /\ late = {} /\ due = FALSE /\ missed = FALSE
        /\ used = [join |-> 0, fault |-> 0, lost |-> 0, crash |-> 0]
    BY DEF EvictInit
  <2>2. ListedAreTracked /\ EvictMarks
    BY ONLY <2>1 DEF ListedAreTracked, EvictMarks
  <2>3. WithinBounds
    BY <2>1, TempEvictAssumption DEF WithinBounds
  <2> QED BY <2>2, <2>3
<1>2. EvictIInv /\ ListedAreTracked /\ WithinBounds /\ EvictMarks /\ [EvictNext]_evictVars
        => ListedAreTracked' /\ WithinBounds' /\ EvictMarks'
  <2> SUFFICES ASSUME EvictIInv, ListedAreTracked, WithinBounds, EvictMarks, [EvictNext]_evictVars
               PROVE  ListedAreTracked' /\ WithinBounds' /\ EvictMarks'
    OBVIOUS
  <2>1. CASE EvictNext
    BY <2>1, EvictStaysBounded, ListedStayTracked, MarksStay DEF EvictIInv
  <2>2. CASE UNCHANGED evictVars
    BY <2>2 DEF evictVars, sockVars, evictHistory, ListedAreTracked, WithinBounds, EvictMarks
  <2> QED BY <2>1, <2>2
<1>3. EvictIInv /\ ListedAreTracked /\ WithinBounds /\ EvictMarks => EvictTypeOK
  <2> SUFFICES ASSUME EvictIInv, ListedAreTracked, WithinBounds, EvictMarks PROVE EvictTypeOK
    OBVIOUS
  <2>1. /\ used.join \in 0..MaxJoins /\ used.fault \in 0..MaxFaults
        /\ used.lost \in 0..MaxLost /\ used.crash \in 0..MaxCrashes
    BY TempEvictAssumption DEF EvictIInv, EvictTypes, Uses, WithinBounds
  <2>2. set \in SUBSET {s \in Sockets : tracked[s]}
    BY DEF ListedAreTracked
  <2> QED BY <2>1, <2>2 DEF EvictIInv, EvictTypes, EvictMarks, EvictTypeOK
<1> QED BY <1>1, <1>2, <1>3, EvictAlways, PTL DEF EvictSpec

-----------------------------------------------------------------------------
(* The session of a browser. *)

TokenRows == [fam : Nat, revoked : BOOLEAN]
ReqRows == [at : Phases, has : Nat, gets : Nat]
Carrying == {"refresh", "found", "leaving"}

\* A call is where its record says.
TypedCall(c) ==
  /\ req[c].at \in {"idle", "loggedIn"} => req[c].has = 0
  /\ req[c].at \notin {"idle", "loggedIn"} => req[c].has \in DOMAIN tokens
  /\ req[c].at = "loggedIn" => req[c].gets \in DOMAIN tokens
  /\ req[c].at = "rotated" =>
       req[c].gets \in DOMAIN tokens /\ Family(req[c].gets) = Family(req[c].has)

\* Tokens are of families that were begun, by calls that are where they say.
SessionTypes ==
  /\ tokens \in Seq(TokenRows) /\ \A i \in DOMAIN tokens : Family(i) \in DOMAIN tokens
  /\ jar \in {0} \cup DOMAIN tokens /\ ended \subseteq DOMAIN tokens
  /\ req \in [Tabs -> ReqRows]
  /\ \A c \in Tabs : TypedCall(c)

\* A family whose login is not answered yet has one token, and nobody else knows it.
LoginFresh(c) ==
  /\ \A i \in DOMAIN tokens : Family(i) = Family(req[c].gets) => i = req[c].gets
  /\ jar # 0 => Family(jar) # Family(req[c].gets)
  /\ \A d \in Tabs : req[d].has # 0 => Family(req[d].has) # Family(req[c].gets)
  /\ \A d \in Tabs : d # c /\ req[d].at = "loggedIn" => req[d].gets # req[c].gets
LoginsAreFresh == \A c \in Tabs : req[c].at = "loggedIn" => LoginFresh(c)

\* Calls that did not cross are the only ones of their family.
OneCarrier ==
  \A c, d \in Tabs :
    req[c].has # 0 /\ req[d].has # 0 /\ Family(req[c].has) = Family(req[d].has)
      /\ Family(req[c].has) \notin crossed => c = d

\* Who carries a token of a family, or brings one, knows the one that is live; and
\* so does the jar, unless a call is bringing it.
LiveKnown(i) ==
  /\ \A c \in Tabs :
       /\ req[c].at \in Carrying /\ Family(req[c].has) = Family(i) => i = req[c].has
       /\ req[c].at = "rotated" /\ Family(req[c].has) = Family(i) => i = req[c].gets
  /\ jar # 0 /\ Family(jar) = Family(i) =>
       i = jar \/ \E c \in Tabs : req[c].at = "rotated" /\ Family(req[c].has) = Family(i)
LiveIsKnown ==
  \A i \in DOMAIN tokens :
    ~tokens[i].revoked /\ Family(i) \notin raced \cup crossed \cup cut => LiveKnown(i)

\* What is carried or brought can be used, as long as nothing ended the family.
CarriedLive(c) ==
  /\ req[c].at \in Carrying /\ Family(req[c].has) \notin ended \cup crossed \cup cut =>
       ~tokens[req[c].has].revoked
  /\ req[c].at \in {"rotated", "loggedIn"}
       /\ Family(req[c].gets) \notin ended \cup crossed \cup cut =>
         ~tokens[req[c].gets].revoked
CarriedIsLive == \A c \in Tabs : CarriedLive(c)

\* At most one token of a family is live.
LiveOnce ==
  \A i, j \in DOMAIN tokens :
    Family(i) = Family(j) /\ Family(i) \notin raced /\ ~tokens[i].revoked /\ ~tokens[j].revoked
      => i = j

\* Of what was ended, nothing is live.
EndedIsDead ==
  \A i \in DOMAIN tokens :
    Family(i) \in ended /\ Family(i) \notin raced \cup crossed \cup cut => tokens[i].revoked

\* A rotation overlaps another, or an end, or follows a crossing.
RacesAreLate == raced \subseteq ended \cup crossed \cup cut

SessionIInv ==
  /\ SessionTypes /\ LoginsAreFresh /\ OneCarrier /\ LiveIsKnown /\ CarriedIsLive
  /\ StaysLoggedIn /\ LiveOnce /\ EndedIsDead /\ RacesAreLate

\* The invariant holds when the page is opened.
LEMMA SessionInitHolds == SessionInit => SessionIInv
<1> SUFFICES ASSUME SessionInit PROVE SessionIInv
  OBVIOUS
<1>1. /\ DOMAIN tokens = {1} /\ tokens[1].fam = 1 /\ ~tokens[1].revoked /\ jar = 1
      /\ \A c \in Tabs : req[c] = Idle
      /\ ended = {} /\ crossed = {} /\ cut = {} /\ raced = {}
  BY DEF SessionInit
<1>2. tokens \in Seq(TokenRows) /\ req \in [Tabs -> ReqRows]
  BY DEF SessionInit, TokenRows, ReqRows, Idle, Phases
<1>3. SessionTypes
  BY <1>1, <1>2 DEF SessionTypes, TypedCall, Family, Idle
<1>4. LoginsAreFresh /\ OneCarrier /\ LiveIsKnown
  BY <1>1 DEF LoginsAreFresh, LoginFresh, OneCarrier, LiveIsKnown, LiveKnown, Family, Idle, Carrying
<1>5. CarriedIsLive /\ StaysLoggedIn /\ LiveOnce /\ EndedIsDead /\ RacesAreLate
  BY <1>1 DEF CarriedIsLive, CarriedLive, StaysLoggedIn, LiveOnce, EndedIsDead, RacesAreLate, Family, Idle,
              Carrying
<1> QED BY <1>3, <1>4, <1>5 DEF SessionIInv

\* What a revocation changes.
LEMMA RevokedEffects ==
  ASSUME tokens \in Seq(TokenRows), NEW S
  PROVE  /\ Revoked(S) \in Seq(TokenRows) /\ DOMAIN Revoked(S) = DOMAIN tokens
         /\ Len(Revoked(S)) = Len(tokens)
         /\ \A i \in DOMAIN tokens : /\ Revoked(S)[i].fam = tokens[i].fam
                                     /\ Revoked(S)[i].revoked <=> i \in S \/ tokens[i].revoked
<1>1. \A i \in DOMAIN tokens : tokens[i] \in TokenRows
  OBVIOUS
<1>2. ASSUME NEW t \in TokenRows
      PROVE  /\ [t EXCEPT !.revoked = TRUE] \in TokenRows
             /\ [t EXCEPT !.revoked = TRUE].fam = t.fam
             /\ [t EXCEPT !.revoked = TRUE].revoked
  BY DEF TokenRows
<1>3. \A i \in DOMAIN tokens : Revoked(S)[i] = IF i \in S THEN [tokens[i] EXCEPT !.revoked = TRUE]
                                               ELSE tokens[i]
  BY DEF Revoked
<1>4. DOMAIN Revoked(S) = DOMAIN tokens /\ DOMAIN tokens = 1..Len(tokens) /\ Len(tokens) \in Nat
  BY DEF Revoked
<1>5. \A i \in DOMAIN tokens : Revoked(S)[i] \in TokenRows
  BY <1>1, <1>2, <1>3
<1>6. Revoked(S) \in [1..Len(tokens) -> TokenRows]
  BY <1>4, <1>5 DEF Revoked
<1>7. Revoked(S) \in Seq(TokenRows) /\ Len(Revoked(S)) = Len(tokens)
  BY <1>4, <1>6
<1>8. \A i \in DOMAIN tokens : /\ Revoked(S)[i].fam = tokens[i].fam
                               /\ Revoked(S)[i].revoked <=> i \in S \/ tokens[i].revoked
  BY <1>1, <1>2, <1>3
<1> QED BY <1>4, <1>7, <1>8

\* What a new row changes.
LEMMA AppendedEffects ==
  ASSUME NEW q \in Seq(TokenRows), NEW f \in Nat
  PROVE  LET new == Append(q, [fam |-> f, revoked |-> FALSE])
         IN /\ new \in Seq(TokenRows) /\ DOMAIN new = DOMAIN q \cup {Len(q) + 1}
            /\ Len(q) + 1 \notin DOMAIN q /\ Len(q) + 1 \in Nat \ {0}
            /\ \A i \in DOMAIN q : new[i] = q[i]
            /\ new[Len(q) + 1].fam = f /\ ~new[Len(q) + 1].revoked
<1>1. [fam |-> f, revoked |-> FALSE] \in TokenRows
  BY DEF TokenRows
<1> QED BY <1>1

\* A request is sent: its sender carries the cookie, and so do those it crosses.
LEMMA SendHolds ==
  ASSUME SessionIInv, NEW c \in Tabs, NEW what \in {"refresh", "leaving"}, Send(c, what)
  PROVE  SessionIInv'
<1>0. /\ SessionTypes /\ LoginsAreFresh /\ OneCarrier /\ LiveIsKnown /\ CarriedIsLive
      /\ StaysLoggedIn /\ LiveOnce /\ EndedIsDead /\ RacesAreLate
  BY DEF SessionIInv
<1>1. /\ req[c].at = "idle" /\ jar # 0 /\ jar \in DOMAIN tokens
      /\ req'[c].at = what /\ req'[c].has = jar /\ what \in Carrying
      /\ what \notin {"idle", "loggedIn", "rotated"}
      /\ \A d \in Tabs \ {c} : req'[d] = req[d]
      /\ UNCHANGED <<tokens, jar, cuts, ends, ended, cut, raced>>
  BY <1>0 DEF Send, SessionTypes, Carrying
<1>2. /\ crossed \subseteq crossed'
      /\ \A d \in Tabs \ {c} : req[d].has # 0 /\ Family(req[d].has) = Family(jar)
           => Family(jar) \in crossed'
  BY DEF Send, Carriers
<1>3. req' \in [Tabs -> ReqRows]
  BY <1>0, <1>1 DEF Send, SessionTypes, ReqRows, Phases
<1>4. SessionTypes'
  BY <1>0, <1>1, <1>3 DEF SessionTypes, TypedCall, Family
<1>5. LoginsAreFresh'
  <2> SUFFICES ASSUME NEW e \in Tabs, req'[e].at = "loggedIn"
               PROVE  LoginFresh(e)'
    BY DEF LoginsAreFresh
  <2>1. e # c /\ req'[e] = req[e] /\ LoginFresh(e)
    BY <1>0, <1>1 DEF LoginsAreFresh
  <2> QED BY <1>1, <2>1 DEF LoginFresh, Family
<1>7. /\ \A d \in Tabs : req[d].at = "rotated" => d # c /\ req[d].has # 0
      /\ \A d \in Tabs : req[d].at \in Carrying => d # c /\ req[d].has # 0
      /\ \A i \in DOMAIN tokens : i # 0
  BY <1>0, <1>1 DEF SessionTypes, TypedCall, Carrying
<1>6. OneCarrier'
  <2> SUFFICES ASSUME NEW d \in Tabs, NEW e \in Tabs, req'[d].has # 0, req'[e].has # 0,
                      tokens[req'[d].has].fam = tokens[req'[e].has].fam,
                      tokens[req'[d].has].fam \notin crossed', d # e
               PROVE  FALSE
    BY <1>1 DEF OneCarrier, Family
  <2>1. CASE d = c
    BY <1>1, <1>2, <2>1 DEF Family
  <2>2. CASE e = c
    BY <1>1, <1>2, <2>2 DEF Family
  <2>3. CASE d # c /\ e # c
    BY <1>0, <1>1, <1>2, <2>3 DEF OneCarrier, Family
  <2> QED BY <2>1, <2>2, <2>3
<1>8. LiveIsKnown'
  <2> SUFFICES ASSUME NEW i \in DOMAIN tokens, ~tokens[i].revoked,
                      tokens[i].fam \notin raced \cup crossed' \cup cut
               PROVE  LiveKnown(i)'
    BY <1>1 DEF LiveIsKnown, Family
  <2>1. LiveKnown(i)
    BY <1>0, <1>2 DEF LiveIsKnown, Family
  <2>2. tokens[jar].fam = tokens[i].fam => i = jar
    BY <1>1, <1>2, <1>7, <2>1 DEF LiveKnown, Family
  <2> QED BY <1>1, <1>7, <2>1, <2>2 DEF LiveKnown, Family
<1>9. CarriedIsLive'
  <2> SUFFICES ASSUME NEW d \in Tabs PROVE CarriedLive(d)'
    BY DEF CarriedIsLive
  <2>1. CASE d = c
    BY <1>0, <1>1, <1>2, <1>7, <2>1 DEF CarriedLive, StaysLoggedIn, Family
  <2>2. CASE d # c
    BY <1>0, <1>1, <1>2, <2>2 DEF CarriedLive, CarriedIsLive, Family
  <2> QED BY <2>1, <2>2
<1>10. StaysLoggedIn'
  BY <1>0, <1>1, <1>2, <1>7 DEF StaysLoggedIn, Family
<1>11. LiveOnce' /\ EndedIsDead' /\ RacesAreLate'
  BY <1>0, <1>1, <1>2 DEF LiveOnce, EndedIsDead, RacesAreLate, Family
<1> QED BY <1>4, <1>5, <1>6, <1>8, <1>9, <1>10, <1>11 DEF SessionIInv

\* A step that revokes tokens only of families that are ended, crossed or cut.
LEMMA EndingHolds ==
  ASSUME SessionIInv, EndedIsDead',
         UNCHANGED <<jar, crossed, cut, raced>>, ended \subseteq ended',
         ended' \subseteq DOMAIN tokens, req' \in [Tabs -> ReqRows],
         \A d \in Tabs : \/ req'[d] = req[d]
                         \/ /\ req[d].at \in {"refresh", "leaving"}
                            /\ req'[d].at \in {"refused", "found", "left"}
                            /\ req'[d].has = req[d].has,
         tokens' \in Seq(TokenRows), DOMAIN tokens' = DOMAIN tokens,
         \A i \in DOMAIN tokens :
           /\ tokens'[i].fam = tokens[i].fam
           /\ tokens[i].revoked => tokens'[i].revoked
           /\ tokens'[i].revoked => \/ tokens[i].revoked
                                    \/ tokens[i].fam \in ended' \cup crossed \cup cut
  PROVE  SessionIInv'
<1>0. /\ SessionTypes /\ LoginsAreFresh /\ OneCarrier /\ LiveIsKnown /\ CarriedIsLive
      /\ StaysLoggedIn /\ LiveOnce /\ EndedIsDead /\ RacesAreLate
  BY DEF SessionIInv
<1>1. /\ UNCHANGED <<jar, crossed, cut, raced>>
      /\ ended \subseteq ended' /\ ended' \subseteq DOMAIN tokens
  OBVIOUS
<1>2. /\ DOMAIN tokens' = DOMAIN tokens
      /\ \A i \in DOMAIN tokens :
           /\ tokens'[i].fam = tokens[i].fam
           /\ tokens[i].revoked => tokens'[i].revoked
           /\ tokens'[i].revoked => \/ tokens[i].revoked
                                    \/ tokens[i].fam \in ended' \cup crossed \cup cut
  OBVIOUS
<1>3. \A d \in Tabs : /\ req'[d].has = req[d].has
                      /\ \/ req'[d] = req[d]
                         \/ /\ req[d].at \in {"refresh", "leaving"}
                            /\ req'[d].at \in {"refused", "found", "left"}
  OBVIOUS
<1>4. \A d \in Tabs : /\ req'[d].at \in {"idle", "loggedIn", "rotated"} => req'[d] = req[d]
                      /\ req'[d].at \in Carrying => req[d].at \in Carrying
                      /\ req[d].at = "rotated" => req'[d].at = "rotated"
  BY <1>3 DEF Carrying
<1>5. /\ jar = 0 \/ jar \in DOMAIN tokens
      /\ \A d \in Tabs : req[d].has # 0 => req[d].has \in DOMAIN tokens
      /\ \A d \in Tabs : req[d].at \in Carrying \cup {"rotated"} => req[d].has \in DOMAIN tokens
      /\ \A d \in Tabs : req[d].at \in {"rotated", "loggedIn"} => req[d].gets \in DOMAIN tokens
  BY <1>0 DEF SessionTypes, TypedCall, Carrying
<1>6. SessionTypes'
  <2>1. ASSUME NEW d \in Tabs PROVE TypedCall(d)'
    <3>1. TypedCall(d)
      BY <1>0 DEF SessionTypes
    <3>2. CASE req'[d] = req[d]
      BY <1>2, <3>1, <3>2 DEF TypedCall, Family
    <3>3. CASE req'[d] # req[d]
      BY <1>2, <1>3, <3>1, <3>3 DEF TypedCall
    <3> QED BY <3>2, <3>3
  <2>2. \A i \in DOMAIN tokens' : tokens'[i].fam \in DOMAIN tokens'
    BY <1>0, <1>2 DEF SessionTypes, Family
  <2> QED BY <1>0, <1>1, <1>2, <2>1, <2>2 DEF SessionTypes, Family
<1>7. OneCarrier'
  BY <1>0, <1>1, <1>2, <1>3, <1>5 DEF OneCarrier, Family
<1>8. LoginsAreFresh'
  <2> SUFFICES ASSUME NEW e \in Tabs, req'[e].at = "loggedIn" PROVE LoginFresh(e)'
    BY DEF LoginsAreFresh
  <2>1. req'[e] = req[e] /\ req[e].gets \in DOMAIN tokens /\ LoginFresh(e)
    BY <1>0, <1>4, <1>5 DEF LoginsAreFresh
  <2> QED BY <1>1, <1>2, <1>3, <1>4, <1>5, <2>1 DEF LoginFresh, Family
<1>9. LiveIsKnown'
  <2> SUFFICES ASSUME NEW i \in DOMAIN tokens, ~tokens'[i].revoked,
                      Family(i)' \notin raced \cup crossed \cup cut
               PROVE  LiveKnown(i)'
    BY <1>1, <1>2 DEF LiveIsKnown
  <2>1. LiveKnown(i)
    BY <1>0, <1>2 DEF LiveIsKnown, Family
  <2> QED BY <1>1, <1>2, <1>3, <1>4, <1>5, <2>1 DEF LiveKnown, Family
<1>10. CarriedIsLive'
  <2> SUFFICES ASSUME NEW d \in Tabs PROVE CarriedLive(d)'
    BY DEF CarriedIsLive
  <2>1. CarriedLive(d)
    BY <1>0 DEF CarriedIsLive
  <2> QED BY <1>1, <1>2, <1>3, <1>4, <1>5, <2>1 DEF CarriedLive, Family
<1>11. StaysLoggedIn'
  BY <1>0, <1>1, <1>2, <1>3, <1>4, <1>5 DEF StaysLoggedIn, Family
<1>12. LiveOnce' /\ RacesAreLate'
  BY <1>0, <1>1, <1>2 DEF LiveOnce, RacesAreLate, Family
<1> QED BY <1>6, <1>7, <1>8, <1>9, <1>10, <1>11, <1>12 DEF SessionIInv

\* The look-up: a token that is used again takes its family with it.
LEMMA LookHolds ==
  ASSUME SessionIInv, NEW c \in Tabs, Look(c)
  PROVE  SessionIInv'
<1>0. SessionTypes /\ CarriedIsLive /\ EndedIsDead
  BY DEF SessionIInv
<1>1. /\ req[c].at = "refresh" /\ req[c].has \in DOMAIN tokens
      /\ req'[c].at \in {"refused", "found"} /\ req'[c].has = req[c].has
      /\ \A d \in Tabs \ {c} : req'[d] = req[d]
      /\ UNCHANGED <<jar, cuts, ends, ended, crossed, cut, raced>>
  BY <1>0 DEF Look, SessionTypes, TypedCall, ReqRows
<1>2. tokens[req[c].has].revoked => Family(req[c].has) \in ended \cup crossed \cup cut
  BY <1>0, <1>1 DEF CarriedIsLive, CarriedLive, Carrying
<1>3. /\ tokens' \in Seq(TokenRows) /\ DOMAIN tokens' = DOMAIN tokens
      /\ \A i \in DOMAIN tokens :
           /\ tokens'[i].fam = tokens[i].fam
           /\ tokens[i].revoked => tokens'[i].revoked
           /\ tokens'[i].revoked => \/ tokens[i].revoked
                                    \/ /\ tokens[req[c].has].revoked
                                       /\ Family(i) = Family(req[c].has)
  <2>1. CASE tokens[req[c].has].revoked
    BY <1>0, <2>1, RevokedEffects DEF Look, SessionTypes, LiveOf
  <2>2. CASE ~tokens[req[c].has].revoked
    BY <1>0, <2>2 DEF Look, SessionTypes
  <2> QED BY <2>1, <2>2
<1>4. req' \in [Tabs -> ReqRows]
  BY <1>0, <1>1 DEF Look, SessionTypes, ReqRows, Phases
<1>5. \A i \in DOMAIN tokens : tokens'[i].revoked => \/ tokens[i].revoked
                                                  \/ tokens[i].fam \in ended' \cup crossed \cup cut
  BY <1>1, <1>2, <1>3 DEF Family
<1>6. EndedIsDead'
  BY <1>0, <1>1, <1>3 DEF EndedIsDead, Family
<1>7. ended' \subseteq DOMAIN tokens
  BY <1>0, <1>1 DEF SessionTypes
<1> QED BY <1>1, <1>3, <1>4, <1>5, <1>6, <1>7, EndingHolds

\* The logout revokes the only token of its family that lives.
LEMMA LogoutHolds ==
  ASSUME SessionIInv, NEW c \in Tabs, Logout(c)
  PROVE  SessionIInv'
<1>0. SessionTypes /\ LiveIsKnown /\ EndedIsDead
  BY DEF SessionIInv
<1>1. /\ req[c].at = "leaving" /\ req[c].has \in DOMAIN tokens
      /\ req'[c].at = "left" /\ req'[c].has = req[c].has
      /\ \A d \in Tabs \ {c} : req'[d] = req[d]
      /\ ended' = ended \cup {Family(req[c].has)}
      /\ UNCHANGED <<jar, cuts, ends, crossed, cut, raced>>
  BY <1>0 DEF Logout, SessionTypes, TypedCall, ReqRows
<1>2. /\ tokens' \in Seq(TokenRows) /\ DOMAIN tokens' = DOMAIN tokens
      /\ \A i \in DOMAIN tokens :
           /\ tokens'[i].fam = tokens[i].fam
           /\ tokens'[i].revoked <=> tokens[i].revoked \/ i = req[c].has
  BY <1>0, RevokedEffects DEF Logout, RevokeRaw, SessionTypes
<1>3. req' \in [Tabs -> ReqRows]
  BY <1>0, <1>1 DEF Logout, SessionTypes, ReqRows, Phases
<1>4. EndedIsDead'
  BY <1>0, <1>1, <1>2 DEF EndedIsDead, LiveIsKnown, LiveKnown, Carrying, Family
<1>5. \A i \in DOMAIN tokens : tokens'[i].revoked => \/ tokens[i].revoked
                                                  \/ tokens[i].fam \in ended' \cup crossed \cup cut
  BY <1>1, <1>2 DEF Family
<1>6. ended' \subseteq DOMAIN tokens
  BY <1>0, <1>1 DEF SessionTypes
<1> QED BY <1>1, <1>2, <1>3, <1>4, <1>5, <1>6, EndingHolds

\* A revocation from another device takes the whole family.
LEMMA EndElsewhereHolds ==
  ASSUME SessionIInv, NEW f \in Families, EndElsewhere(f)
  PROVE  SessionIInv'
<1>0. SessionTypes /\ EndedIsDead
  BY DEF SessionIInv
<1>1. ended' = ended \cup {f} /\ UNCHANGED <<jar, req, crossed, cut, raced>>
  BY DEF EndElsewhere
<1>2. /\ tokens' \in Seq(TokenRows) /\ DOMAIN tokens' = DOMAIN tokens
      /\ \A i \in DOMAIN tokens :
           /\ tokens'[i].fam = tokens[i].fam
           /\ tokens'[i].revoked <=> tokens[i].revoked \/ tokens[i].fam = f
  BY <1>0, RevokedEffects DEF EndElsewhere, LiveOf, SessionTypes, Family
<1>3. EndedIsDead'
  BY <1>0, <1>1, <1>2 DEF EndedIsDead, Family
<1>4. \A i \in DOMAIN tokens : tokens'[i].revoked => \/ tokens[i].revoked
                                                  \/ tokens[i].fam \in ended' \cup crossed \cup cut
  BY <1>1, <1>2
<1>5. req' \in [Tabs -> ReqRows]
  BY <1>0, <1>1 DEF SessionTypes
<1>6. ended' \subseteq DOMAIN tokens
  BY <1>0, <1>1 DEF SessionTypes, Families
<1> QED BY <1>0, <1>1, <1>2, <1>3, <1>4, <1>5, <1>6, EndingHolds

\* A call is over: the jar takes what it brought, is emptied, or stays as it is.
LEMMA AnswerHolds ==
  ASSUME SessionIInv, NEW c \in Tabs, req' = [req EXCEPT ![c] = Idle],
         UNCHANGED <<tokens, ended, crossed, raced>>, cut \subseteq cut',
         \/ req[c].at \in {"rotated", "loggedIn"} /\ jar' = req[c].gets
         \/ jar' = 0
         \/ jar' = jar /\ (req[c].at = "rotated" => Family(req[c].gets) \in cut')
  PROVE  SessionIInv'
<1>0. /\ SessionTypes /\ LoginsAreFresh /\ OneCarrier /\ LiveIsKnown /\ CarriedIsLive
      /\ StaysLoggedIn /\ LiveOnce /\ EndedIsDead /\ RacesAreLate
  BY DEF SessionIInv
<1>1. /\ req'[c].at = "idle" /\ req'[c].has = 0 /\ \A d \in Tabs \ {c} : req'[d] = req[d]
      /\ UNCHANGED <<tokens, ended, crossed, raced>> /\ cut \subseteq cut'
  BY <1>0 DEF SessionTypes, Idle
<1>2. \/ req[c].at \in {"rotated", "loggedIn"} /\ jar' = req[c].gets
      \/ jar' = 0
      \/ jar' = jar /\ (req[c].at = "rotated" => Family(req[c].gets) \in cut')
  OBVIOUS
<1>3. TypedCall(c) /\ CarriedLive(c) /\ (req[c].at = "loggedIn" => LoginFresh(c))
  BY <1>0 DEF SessionTypes, CarriedIsLive, LoginsAreFresh
<1>4. req' \in [Tabs -> ReqRows]
  BY <1>0 DEF SessionTypes, ReqRows, Idle, Phases
<1>5. SessionTypes'
  <2>1. ASSUME NEW d \in Tabs PROVE TypedCall(d)'
    BY <1>0, <1>1 DEF TypedCall, SessionTypes, Family
  <2>2. jar' \in {0} \cup DOMAIN tokens
    BY <1>0, <1>2, <1>3 DEF TypedCall, SessionTypes
  <2> QED BY <1>0, <1>1, <1>4, <2>1, <2>2 DEF SessionTypes, Family
<1>6. LoginsAreFresh'
  <2> SUFFICES ASSUME NEW e \in Tabs, req'[e].at = "loggedIn" PROVE LoginFresh(e)'
    BY DEF LoginsAreFresh
  <2>1. e # c /\ req'[e] = req[e] /\ LoginFresh(e)
    BY <1>0, <1>1 DEF LoginsAreFresh
  <2>2. jar' # 0 => tokens[jar'].fam # tokens[req[e].gets].fam
    BY <1>2, <1>3, <2>1 DEF LoginFresh, TypedCall, Family
  <2> QED BY <1>1, <2>1, <2>2 DEF LoginFresh, Family
<1>7. OneCarrier'
  BY <1>0, <1>1 DEF OneCarrier, Family
<1>8. LiveIsKnown'
  <2> SUFFICES ASSUME NEW i \in DOMAIN tokens, ~tokens[i].revoked,
                      tokens[i].fam \notin raced \cup crossed \cup cut'
               PROVE  LiveKnown(i)'
    BY <1>1 DEF LiveIsKnown, Family
  <2>1. LiveKnown(i)
    BY <1>0, <1>1 DEF LiveIsKnown, Family
  <2>2. CASE req[c].at \in {"rotated", "loggedIn"} /\ jar' = req[c].gets
    BY <1>1, <1>3, <2>1, <2>2 DEF LiveKnown, LoginFresh, TypedCall, Carrying, Family
  <2>3. CASE jar' = 0
    BY <1>1, <2>1, <2>3 DEF LiveKnown, Carrying, Family
  <2>4. CASE jar' = jar /\ (req[c].at = "rotated" => Family(req[c].gets) \in cut')
    BY <1>1, <1>3, <2>1, <2>4 DEF LiveKnown, TypedCall, Carrying, Family
  <2> QED BY <1>2, <2>2, <2>3, <2>4
<1>9. CarriedIsLive'
  BY <1>0, <1>1 DEF CarriedIsLive, CarriedLive, Carrying, Family
<1>10. StaysLoggedIn'
  <2>2. CASE req[c].at \in {"rotated", "loggedIn"} /\ jar' = req[c].gets
    BY <1>1, <1>3, <2>2 DEF StaysLoggedIn, CarriedLive, Family
  <2>3. CASE jar' = 0
    BY <2>3 DEF StaysLoggedIn
  <2>4. CASE jar' = jar /\ (req[c].at = "rotated" => Family(req[c].gets) \in cut')
    BY <1>0, <1>1, <1>3, <2>4 DEF StaysLoggedIn, TypedCall, Family
  <2> QED BY <1>2, <2>2, <2>3, <2>4
<1>11. LiveOnce' /\ EndedIsDead' /\ RacesAreLate'
  BY <1>0, <1>1 DEF LiveOnce, EndedIsDead, RacesAreLate, Family
<1> QED BY <1>5, <1>6, <1>7, <1>8, <1>9, <1>10, <1>11 DEF SessionIInv

\* The rotation: the new token takes the place of the parent.
LEMMA RotateHolds ==
  ASSUME SessionIInv, NEW c \in Tabs, Rotate(c)
  PROVE  SessionIInv'
<1>0. /\ SessionTypes /\ LoginsAreFresh /\ OneCarrier /\ LiveIsKnown /\ CarriedIsLive
      /\ StaysLoggedIn /\ LiveOnce /\ EndedIsDead /\ RacesAreLate
  BY DEF SessionIInv
<1> PICK p : p = req[c].has
  OBVIOUS
<1> PICK n : n = Len(tokens) + 1
  OBVIOUS
<1>1. /\ req[c].at = "found" /\ p \in DOMAIN tokens /\ p # 0
      /\ req'[c].at = "rotated" /\ req'[c].has = p /\ req'[c].gets = n
      /\ \A d \in Tabs \ {c} : req'[d] = req[d]
      /\ UNCHANGED <<jar, ended, crossed, cut>>
  BY <1>0 DEF Rotate, SessionTypes, TypedCall, ReqRows
<1>2. /\ tokens' \in Seq(TokenRows) /\ DOMAIN tokens' = DOMAIN tokens \cup {n}
      /\ n \notin DOMAIN tokens /\ n \in Nat \ {0}
      /\ \A i \in DOMAIN tokens : /\ tokens'[i].fam = tokens[i].fam
                                  /\ tokens'[i].revoked <=> tokens[i].revoked \/ i = p
      /\ tokens'[n].fam = tokens[p].fam /\ ~tokens'[n].revoked
  <2> PICK q : q = Revoked({p})
    OBVIOUS
  <2>1. /\ q \in Seq(TokenRows) /\ DOMAIN q = DOMAIN tokens /\ Len(q) = Len(tokens)
        /\ \A i \in DOMAIN tokens : /\ q[i].fam = tokens[i].fam
                                    /\ q[i].revoked <=> i \in {p} \/ tokens[i].revoked
    BY <1>0, RevokedEffects DEF SessionTypes
  <2>2. tokens[p] \in TokenRows
    BY <1>0, <1>1 DEF SessionTypes
  <2>3. tokens[p].fam \in Nat
    BY <2>2 DEF TokenRows
  <2> PICK f : f = tokens[p].fam
    OBVIOUS
  <2>4. tokens' = Append(q, [fam |-> f, revoked |-> FALSE]) /\ f \in Nat
    BY <2>3 DEF Rotate, Replaced, Family
  <2>6. LET new == Append(q, [fam |-> f, revoked |-> FALSE])
        IN /\ new \in Seq(TokenRows) /\ DOMAIN new = DOMAIN q \cup {Len(q) + 1}
           /\ Len(q) + 1 \notin DOMAIN q /\ Len(q) + 1 \in Nat \ {0}
           /\ \A i \in DOMAIN q : new[i] = q[i]
           /\ new[Len(q) + 1].fam = f /\ ~new[Len(q) + 1].revoked
    BY ONLY <2>1, <2>4, AppendedEffects
  <2>5. /\ tokens' \in Seq(TokenRows)
        /\ DOMAIN tokens' = DOMAIN tokens \cup {n} /\ n \notin DOMAIN tokens /\ n \in Nat \ {0}
        /\ \A i \in DOMAIN tokens : tokens'[i] = q[i]
        /\ tokens'[n].fam = tokens[p].fam /\ ~tokens'[n].revoked
    BY <2>1, <2>4, <2>6
  <2> QED BY <2>1, <2>5
<1>3. /\ raced \subseteq raced' /\ raced' \subseteq raced \cup {tokens[p].fam}
      /\ tokens[p].revoked => tokens[p].fam \in raced'
      /\ ~tokens[p].revoked => raced' = raced
  BY DEF Rotate, Family
<1>4. tokens[p].revoked => tokens[p].fam \in ended \cup crossed \cup cut
  BY <1>0, <1>1 DEF CarriedIsLive, CarriedLive, Carrying, Family
<1>5. /\ jar = 0 \/ jar \in DOMAIN tokens
      /\ \A d \in Tabs : req[d].has # 0 => req[d].has \in DOMAIN tokens
      /\ \A d \in Tabs : /\ req[d].at \in Carrying \cup {"rotated"}
                              => req[d].has \in DOMAIN tokens /\ req[d].has # 0
                         /\ req[d].at \in {"rotated", "loggedIn"} => req[d].gets \in DOMAIN tokens
                         /\ req[d].at = "rotated" => tokens[req[d].gets].fam = tokens[req[d].has].fam
  BY <1>0 DEF SessionTypes, TypedCall, Carrying, Family
<1>6. /\ \A d \in Tabs \ {c} : req[d].has # 0 /\ tokens[req[d].has].fam = tokens[p].fam
           => tokens[p].fam \in crossed
      /\ \A d \in Tabs : req[d].at = "loggedIn" => tokens[req[d].gets].fam # tokens[p].fam
  BY <1>0, <1>1 DEF OneCarrier, LoginsAreFresh, LoginFresh, Family
<1>7. req' \in [Tabs -> ReqRows]
  BY Zenon, <1>0, <1>1, <1>2 DEF Rotate, SessionTypes, ReqRows, Phases
<1>8. SessionTypes'
  <2>1. ASSUME NEW d \in Tabs PROVE TypedCall(d)'
    <3>1. TypedCall(d)
      BY <1>0 DEF SessionTypes
    <3>2. CASE d = c
      BY <1>1, <1>2, <3>2 DEF TypedCall, Family
    <3>3. CASE d # c
      BY <1>1, <1>2, <3>1, <3>3 DEF TypedCall, Family
    <3> QED BY <3>2, <3>3
  <2>2. \A i \in DOMAIN tokens' : tokens'[i].fam \in DOMAIN tokens'
    BY <1>0, <1>1, <1>2 DEF SessionTypes, Family
  <2> QED BY <1>0, <1>1, <1>2, <1>7, <2>1, <2>2 DEF SessionTypes, Family
<1>9. LoginsAreFresh'
  <2> SUFFICES ASSUME NEW e \in Tabs, req'[e].at = "loggedIn" PROVE LoginFresh(e)'
    BY DEF LoginsAreFresh
  <2>1. e # c /\ req'[e] = req[e] /\ req[e].gets \in DOMAIN tokens /\ LoginFresh(e)
    BY <1>0, <1>1, <1>5 DEF LoginsAreFresh
  <2> QED BY <1>1, <1>2, <1>5, <1>6, <2>1 DEF LoginFresh, Family
<1>10. OneCarrier'
  BY <1>0, <1>1, <1>2, <1>5, <1>6 DEF OneCarrier, Family
<1>11. LiveIsKnown'
  <2> SUFFICES ASSUME NEW i \in DOMAIN tokens', ~tokens'[i].revoked,
                      tokens'[i].fam \notin raced' \cup crossed \cup cut
               PROVE  LiveKnown(i)'
    BY <1>1 DEF LiveIsKnown, Family
  <2>1. CASE i = n
    BY <1>1, <1>2, <1>5, <1>6, <2>1 DEF LiveKnown, Carrying, Family
  <2>2. CASE i \in DOMAIN tokens
    <3>1. LiveKnown(i) /\ i # p
      BY <1>0, <1>2, <1>3, <2>2 DEF LiveIsKnown, Family
    <3>2. tokens[i].fam # tokens[p].fam
      BY <1>1, <3>1 DEF LiveKnown, Carrying, Family
    <3> QED BY <1>1, <1>2, <1>5, <2>2, <3>1, <3>2 DEF LiveKnown, Carrying, Family
  <2> QED BY <1>2, <2>1, <2>2
<1>12. CarriedIsLive'
  <2> SUFFICES ASSUME NEW d \in Tabs PROVE CarriedLive(d)'
    BY DEF CarriedIsLive
  <2>1. CarriedLive(d)
    BY <1>0 DEF CarriedIsLive
  <2>2. CASE d = c
    BY <1>1, <1>2, <2>2 DEF CarriedLive, Carrying
  <2>3. CASE d # c
    BY <1>1, <1>2, <1>5, <1>6, <2>1, <2>3 DEF CarriedLive, Family
  <2> QED BY <2>2, <2>3
<1>13. StaysLoggedIn'
  BY <1>0, <1>1, <1>2, <1>5 DEF StaysLoggedIn, Family
<1>14. LiveOnce'
  BY <1>0, <1>1, <1>2, <1>3 DEF LiveOnce, Family
<1>15. EndedIsDead' /\ RacesAreLate'
  BY <1>0, <1>1, <1>2, <1>3, <1>4 DEF EndedIsDead, RacesAreLate, Family
<1> QED BY <1>8, <1>9, <1>10, <1>11, <1>12, <1>13, <1>14, <1>15 DEF SessionIInv

\* The login: a family of which nobody has heard.
LEMMA LoginHolds ==
  ASSUME SessionIInv, NEW c \in Tabs, Login(c)
  PROVE  SessionIInv'
<1>0. /\ SessionTypes /\ LoginsAreFresh /\ OneCarrier /\ LiveIsKnown /\ CarriedIsLive
      /\ StaysLoggedIn /\ LiveOnce /\ EndedIsDead /\ RacesAreLate
  BY DEF SessionIInv
<1> PICK n : n = Len(tokens) + 1
  OBVIOUS
<1>1. /\ req[c].at = "idle" /\ req[c].has = 0
      /\ req'[c].at = "loggedIn" /\ req'[c].has = 0 /\ req'[c].gets = n
      /\ \A d \in Tabs \ {c} : req'[d] = req[d]
      /\ UNCHANGED <<jar, ended, crossed, cut, raced>>
  BY <1>0 DEF Login, SessionTypes, TypedCall, ReqRows
<1>2. /\ tokens' \in Seq(TokenRows) /\ DOMAIN tokens' = DOMAIN tokens \cup {n}
      /\ n \notin DOMAIN tokens /\ n \in Nat \ {0}
      /\ \A i \in DOMAIN tokens : tokens'[i] = tokens[i] /\ tokens[i].fam \in DOMAIN tokens
      /\ tokens'[n].fam = n /\ ~tokens'[n].revoked
  BY <1>0, AppendedEffects DEF Login, SessionTypes, Family
<1>3. /\ jar = 0 \/ jar \in DOMAIN tokens
      /\ \A d \in Tabs : req[d].has # 0 => req[d].has \in DOMAIN tokens
      /\ \A d \in Tabs : /\ req[d].at \in Carrying \cup {"rotated"}
                              => req[d].has \in DOMAIN tokens /\ req[d].has # 0
                         /\ req[d].at \in {"rotated", "loggedIn"} => req[d].gets \in DOMAIN tokens
  BY <1>0 DEF SessionTypes, TypedCall, Carrying, Family
<1>4. req' \in [Tabs -> ReqRows]
  BY <1>0, <1>2 DEF Login, SessionTypes, ReqRows, Phases
<1>5. SessionTypes'
  <2>1. ASSUME NEW d \in Tabs PROVE TypedCall(d)'
    <3>1. TypedCall(d)
      BY <1>0 DEF SessionTypes
    <3>2. CASE d = c
      BY <1>1, <1>2, <3>2 DEF TypedCall, Family
    <3>3. CASE d # c
      BY <1>1, <1>2, <3>1, <3>3 DEF TypedCall, Family
    <3> QED BY <3>2, <3>3
  <2> QED BY <1>0, <1>1, <1>2, <1>4, <2>1 DEF SessionTypes, Family
<1>6. LoginsAreFresh'
  <2> SUFFICES ASSUME NEW e \in Tabs, req'[e].at = "loggedIn" PROVE LoginFresh(e)'
    BY DEF LoginsAreFresh
  <2>1. CASE e = c
    BY <1>1, <1>2, <1>3, <2>1 DEF LoginFresh, Family
  <2>2. CASE e # c
    <3>1. req'[e] = req[e] /\ req[e].gets \in DOMAIN tokens /\ LoginFresh(e)
      BY <1>0, <1>1, <1>3, <2>2 DEF LoginsAreFresh
    <3> QED BY <1>1, <1>2, <1>3, <2>2, <3>1 DEF LoginFresh, Family
  <2> QED BY <2>1, <2>2
<1>7. OneCarrier'
  BY <1>0, <1>1, <1>2, <1>3 DEF OneCarrier, Family
<1>8. LiveIsKnown'
  <2> SUFFICES ASSUME NEW i \in DOMAIN tokens', ~tokens'[i].revoked,
                      tokens'[i].fam \notin raced \cup crossed \cup cut
               PROVE  LiveKnown(i)'
    BY <1>1 DEF LiveIsKnown, Family
  <2>1. CASE i = n
    BY <1>1, <1>2, <1>3, <2>1 DEF LiveKnown, Carrying, Family
  <2>2. CASE i \in DOMAIN tokens
    <3>1. LiveKnown(i)
      BY <1>0, <1>2, <2>2 DEF LiveIsKnown, Family
    <3> QED BY <1>1, <1>2, <1>3, <2>2, <3>1 DEF LiveKnown, Carrying, Family
  <2> QED BY <1>2, <2>1, <2>2
<1>9. CarriedIsLive'
  BY <1>0, <1>1, <1>2, <1>3 DEF CarriedIsLive, CarriedLive, Carrying, Family
<1>10. StaysLoggedIn'
  BY <1>0, <1>1, <1>2, <1>3 DEF StaysLoggedIn, Family
<1>11. ended \subseteq DOMAIN tokens
  BY <1>0 DEF SessionTypes
<1>12. LiveOnce' /\ EndedIsDead' /\ RacesAreLate'
  BY <1>0, <1>1, <1>2, <1>11 DEF LiveOnce, EndedIsDead, RacesAreLate, Family
<1> QED BY <1>5, <1>6, <1>7, <1>8, <1>9, <1>10, <1>12 DEF SessionIInv

\* What is checked follows: a family's live tokens are a set of one, or of none.
LEMMA SessionInvImplies == SessionIInv => SessionSound
<1> SUFFICES ASSUME SessionIInv PROVE SessionSound
  OBVIOUS
<1>1. OneLive
  <2> SUFFICES ASSUME NEW f \in Families \ raced PROVE Cardinality(LiveOf(f)) <= 1
    BY DEF OneLive
  <2>1. CASE LiveOf(f) = {}
    BY <2>1, FS_EmptySet
  <2>2. CASE LiveOf(f) # {}
    <3>1. PICK i : i \in LiveOf(f)
      BY <2>2
    <3>2. LiveOf(f) = {i}
      BY <3>1 DEF SessionIInv, LiveOnce, LiveOf
    <3>3. Cardinality({i}) = 1
      BY ONLY FS_Singleton, Zenon
    <3> QED BY <3>2, <3>3
  <2> QED BY <2>1, <2>2
<1>2. EndedStaysEnded
  BY DEF SessionIInv, EndedIsDead, EndedStaysEnded, LiveOf
<1> QED BY <1>1, <1>2 DEF SessionIInv, SessionSound

\* SessionIInv is an invariant of Session.
LEMMA SessionAlways == SessionSpec => []SessionIInv
<1>1. ASSUME SessionIInv, SessionNext PROVE SessionIInv'
  <2>1. CASE \E f \in Families : EndElsewhere(f)
    BY <1>1, <2>1, EndElsewhereHolds
  <2>2. ASSUME NEW c \in Tabs,
               \/ SendRefresh(c) \/ SendLogout(c) \/ Look(c) \/ Rotate(c)
               \/ Logout(c) \/ Login(c) \/ Reply(c) \/ ReplyLost(c)
        PROVE  SessionIInv'
    <3>1. CASE SendRefresh(c) \/ SendLogout(c)
      BY <1>1, <3>1, SendHolds DEF SendRefresh, SendLogout
    <3>2. CASE Look(c)
      BY <1>1, <3>2, LookHolds
    <3>3. CASE Rotate(c)
      BY <1>1, <3>3, RotateHolds
    <3>4. CASE Logout(c)
      BY <1>1, <3>4, LogoutHolds
    <3>5. CASE Login(c)
      BY <1>1, <3>5, LoginHolds
    <3>6. CASE Reply(c)
      BY <1>1, <3>6, AnswerHolds DEF Reply
    <3>7. CASE ReplyLost(c)
      <4>1. /\ req' = [req EXCEPT ![c] = Idle]
            /\ UNCHANGED <<tokens, jar, ended, crossed, raced>> /\ cut \subseteq cut'
            /\ req[c].at = "rotated" => Family(req[c].gets) \in cut'
        BY <3>7 DEF ReplyLost
      <4> QED BY <1>1, <4>1, AnswerHolds
    <3> QED BY <2>2, <3>1, <3>2, <3>3, <3>4, <3>5, <3>6, <3>7
  <2> QED BY <1>1, <2>1, <2>2 DEF SessionNext
<1>2. SessionIInv /\ UNCHANGED sessionVars => SessionIInv'
  BY DEF SessionIInv, sessionVars, SessionTypes, TypedCall, LoginsAreFresh, LoginFresh, OneCarrier,
         LiveIsKnown, LiveKnown, CarriedIsLive, CarriedLive, StaysLoggedIn, LiveOnce, EndedIsDead,
         RacesAreLate, Family
<1> QED BY <1>1, <1>2, SessionInitHolds, PTL DEF SessionSpec

\* A browser whose requests did not cross stays logged in, a family has one token
\* that works, and what was ended stays ended (token.service.ts:106-162).
THEOREM SessionHolds == SessionSpec => []SessionSound
BY SessionAlways, SessionInvImplies, PTL

\* What a call brings back is a token, and only families are marked.
Marked == ended \cup crossed \cup cut \cup raced
SessionMore ==
  /\ \A c \in Tabs : req[c].gets \in {0} \cup DOMAIN tokens
  /\ cuts \in Nat /\ cuts <= MaxCuts /\ ends \in Nat /\ ends <= MaxEnds
  /\ Marked \subseteq Families

\* Rows are never deleted, and none changes its family.
LEMMA TokensGrow ==
  ASSUME SessionIInv, SessionNext
  PROVE  /\ DOMAIN tokens \subseteq DOMAIN tokens'
         /\ \A i \in DOMAIN tokens : tokens'[i].fam = tokens[i].fam
         /\ Families \subseteq Families'
<1>0. tokens \in Seq(TokenRows)
  BY DEF SessionIInv, SessionTypes
<1> DEFINE Grow == /\ DOMAIN tokens \subseteq DOMAIN tokens'
                   /\ \A i \in DOMAIN tokens : tokens'[i].fam = tokens[i].fam
<1>1. ASSUME tokens' = tokens PROVE Grow
  BY <1>1
<1>2. ASSUME NEW S, tokens' = Revoked(S) PROVE Grow
  BY <1>0, <1>2, RevokedEffects
<1>3. ASSUME NEW q \in Seq(TokenRows), NEW n \in Nat, tokens' = Append(q, [fam |-> n, revoked |-> FALSE]),
             DOMAIN q = DOMAIN tokens, \A i \in DOMAIN tokens : q[i].fam = tokens[i].fam
      PROVE  Grow
  <2>1. /\ DOMAIN q \subseteq DOMAIN tokens' /\ \A i \in DOMAIN q : tokens'[i] = q[i]
    BY <1>3, AppendedEffects
  <2> QED BY <1>3, <2>1
<1>4. ASSUME NEW c \in Tabs, SendRefresh(c) \/ SendLogout(c) \/ Reply(c) \/ ReplyLost(c) PROVE Grow
  BY <1>1, <1>4 DEF SendRefresh, SendLogout, Send, Reply, ReplyLost
<1>5. ASSUME NEW c \in Tabs, Look(c) PROVE Grow
  <2>1. tokens' = tokens \/ tokens' = Revoked(LiveOf(Family(req[c].has)))
    BY <1>5 DEF Look
  <2> QED BY <1>1, <1>2, <2>1
<1>6. ASSUME NEW c \in Tabs, Logout(c) PROVE Grow
  BY <1>2, <1>6 DEF Logout, RevokeRaw
<1>7. ASSUME NEW f \in Families, EndElsewhere(f) PROVE Grow
  BY <1>2, <1>7 DEF EndElsewhere
<1>8. ASSUME NEW c \in Tabs, Login(c) PROVE Grow
  BY <1>0, <1>3, <1>8 DEF Login
<1>9. ASSUME NEW c \in Tabs, Rotate(c) PROVE Grow
  <2> PICK parent : parent = req[c].has
    OBVIOUS
  <2>1. parent \in DOMAIN tokens /\ tokens' = Replaced(parent)
    BY <1>9 DEF SessionIInv, SessionTypes, TypedCall, Rotate
  <2>2. Family(parent) \in Nat
    <3>1. tokens[parent] \in TokenRows
      BY <1>0, <2>1
    <3> QED BY <3>1 DEF Family, TokenRows
  <2>3. /\ Revoked({parent}) \in Seq(TokenRows) /\ DOMAIN Revoked({parent}) = DOMAIN tokens
        /\ \A i \in DOMAIN tokens : Revoked({parent})[i].fam = tokens[i].fam
    BY <1>0, RevokedEffects
  <2> QED BY <1>3, <2>1, <2>2, <2>3 DEF Replaced
<1>10. Grow
  BY <1>4, <1>5, <1>6, <1>7, <1>8, <1>9 DEF SessionNext
<1>11. Families \subseteq Families'
  BY <1>10 DEF Families, Family
<1> QED BY <1>10, <1>11

\* Only families that there are get marked.
LEMMA MarksAreOfFamilies ==
  ASSUME SessionIInv, SessionNext
  PROVE  Marked' \subseteq Marked \cup Families
<1>0. /\ jar # 0 => jar \in DOMAIN tokens
      /\ \A c \in Tabs : TypedCall(c)
  BY DEF SessionIInv, SessionTypes
<1>1. \A i \in DOMAIN tokens : Family(i) \in Families
  BY DEF Families
<1>2. ASSUME NEW c \in Tabs, SendRefresh(c) \/ SendLogout(c) PROVE Marked' \subseteq Marked \cup Families
  <2>1. /\ crossed' \subseteq crossed \cup {Family(jar)} /\ jar # 0
        /\ UNCHANGED <<ended, cut, raced>>
    BY <1>2 DEF SendRefresh, SendLogout, Send
  <2> QED BY <1>0, <1>1, <2>1 DEF Marked
<1>3. ASSUME NEW c \in Tabs, Look(c) \/ Login(c) \/ Reply(c) PROVE Marked' \subseteq Marked \cup Families
  BY <1>3 DEF Look, Login, Reply, Marked
<1>4. ASSUME NEW c \in Tabs, Rotate(c) PROVE Marked' \subseteq Marked \cup Families
  <2>1. /\ raced' \subseteq raced \cup {Family(req[c].has)} /\ UNCHANGED <<ended, crossed, cut>>
        /\ req[c].at = "found"
    BY <1>4 DEF Rotate
  <2> QED BY <1>0, <1>1, <2>1 DEF Marked, TypedCall
<1>5. ASSUME NEW c \in Tabs, Logout(c) PROVE Marked' \subseteq Marked \cup Families
  <2>1. /\ ended' = ended \cup {Family(req[c].has)} /\ UNCHANGED <<raced, crossed, cut>>
        /\ req[c].at = "leaving"
    BY <1>5 DEF Logout
  <2> QED BY <1>0, <1>1, <2>1 DEF Marked, TypedCall
<1>6. ASSUME NEW c \in Tabs, ReplyLost(c) PROVE Marked' \subseteq Marked \cup Families
  <2>1. UNCHANGED <<ended, crossed, raced>>
    BY <1>6 DEF ReplyLost
  <2>2. CASE req[c].at = "rotated"
    <3>1. cut' = cut \cup {Family(req[c].gets)}
      BY <1>6, <2>2 DEF ReplyLost
    <3> QED BY <1>0, <1>1, <2>1, <2>2, <3>1 DEF Marked, TypedCall
  <2>3. CASE req[c].at # "rotated"
    BY <1>6, <2>1, <2>3 DEF ReplyLost, Marked
  <2> QED BY <2>2, <2>3
<1>7. ASSUME NEW f \in Families, EndElsewhere(f) PROVE Marked' \subseteq Marked \cup Families
  BY <1>7 DEF EndElsewhere, Marked
<1> QED BY <1>2, <1>3, <1>4, <1>5, <1>6, <1>7 DEF SessionNext

\* A call brings back a row that is there, or none.
LEMMA GetsATokenStays ==
  ASSUME SessionIInv, \A c \in Tabs : req[c].gets \in {0} \cup DOMAIN tokens, SessionNext
  PROVE  \A c \in Tabs : req'[c].gets \in {0} \cup DOMAIN tokens'
<1>0. /\ tokens \in Seq(TokenRows) /\ req \in [Tabs -> ReqRows] /\ DOMAIN tokens \subseteq DOMAIN tokens'
      /\ \A c \in Tabs : req[c] \in ReqRows
  BY TokensGrow DEF SessionIInv, SessionTypes
<1>1. ASSUME NEW c \in Tabs, \A d \in Tabs \ {c} : req'[d] = req[d],
             req'[c].gets \in {0, req[c].gets} \cup DOMAIN tokens'
      PROVE  \A d \in Tabs : req'[d].gets \in {0} \cup DOMAIN tokens'
  BY <1>0, <1>1
<1>2. ASSUME NEW c \in Tabs, SendRefresh(c) \/ SendLogout(c)
      PROVE  \A d \in Tabs : req'[d].gets \in {0} \cup DOMAIN tokens'
  <2>1. PICK what : req' = [req EXCEPT ![c] = [at |-> what, has |-> jar, gets |-> 0]]
    BY <1>2 DEF SendRefresh, SendLogout, Send
  <2> QED BY <1>0, <1>1, <2>1
<1>3. ASSUME NEW c \in Tabs, Look(c) \/ Logout(c)
      PROVE  \A d \in Tabs : req'[d].gets \in {0} \cup DOMAIN tokens'
  <2>1. PICK at : req' = [req EXCEPT ![c].at = at]
    BY <1>3 DEF Look, Logout
  <2>2. [req[c] EXCEPT !.at = at].gets = req[c].gets
    BY <1>0 DEF ReqRows
  <2> QED BY <1>0, <1>1, <2>1, <2>2
<1>4. ASSUME NEW c \in Tabs, Rotate(c)
      PROVE  \A d \in Tabs : req'[d].gets \in {0} \cup DOMAIN tokens'
  <2> PICK parent : parent = req[c].has
    OBVIOUS
  <2>1. /\ req' = [req EXCEPT ![c].at = "rotated", ![c].gets = Len(tokens) + 1]
        /\ tokens' = Replaced(parent) /\ parent \in DOMAIN tokens
    BY <1>4 DEF Rotate, SessionIInv, SessionTypes, TypedCall
  <2>2. Family(parent) \in Nat
    <3>1. tokens[parent] \in TokenRows
      BY <1>0, <2>1
    <3> QED BY <3>1 DEF Family, TokenRows
  <2>3. Len(Revoked({parent})) = Len(tokens) /\ Revoked({parent}) \in Seq(TokenRows)
    BY <1>0, RevokedEffects
  <2>4. Len(tokens) + 1 \in DOMAIN tokens'
    <3> PICK q, n : q = Revoked({parent}) /\ n = Family(parent)
      OBVIOUS
    <3>1. tokens' = Append(q, [fam |-> n, revoked |-> FALSE]) /\ q \in Seq(TokenRows) /\ n \in Nat
      BY <2>1, <2>2, <2>3 DEF Replaced
    <3>2. Len(q) + 1 \in DOMAIN tokens'
      BY <3>1, AppendedEffects
    <3> QED BY <2>3, <3>2
  <2>5. [req[c] EXCEPT !.at = "rotated", !.gets = Len(tokens) + 1].gets = Len(tokens) + 1
    BY <1>0 DEF ReqRows
  <2>6. req'[c].gets = Len(tokens) + 1
    BY <1>0, <2>1, <2>5
  <2> QED BY <1>0, <1>1, <2>1, <2>4, <2>6
<1>5. ASSUME NEW c \in Tabs, Login(c)
      PROVE  \A d \in Tabs : req'[d].gets \in {0} \cup DOMAIN tokens'
  <2>1. /\ req' = [req EXCEPT ![c] = [at |-> "loggedIn", has |-> 0, gets |-> Len(tokens) + 1]]
        /\ tokens' = Append(tokens, [fam |-> Len(tokens) + 1, revoked |-> FALSE])
    BY <1>5 DEF Login
  <2>2. Len(tokens) + 1 \in DOMAIN tokens'
    BY <1>0, <2>1
  <2> QED BY <1>0, <1>1, <2>1, <2>2
<1>6. ASSUME NEW c \in Tabs, Reply(c) \/ ReplyLost(c)
      PROVE  \A d \in Tabs : req'[d].gets \in {0} \cup DOMAIN tokens'
  <2>1. req' = [req EXCEPT ![c] = Idle]
    BY <1>6 DEF Reply, ReplyLost
  <2> QED BY <1>0, <1>1, <2>1 DEF Idle
<1>7. ASSUME NEW f \in Families, EndElsewhere(f)
      PROVE  \A d \in Tabs : req'[d].gets \in {0} \cup DOMAIN tokens'
  BY <1>0, <1>7 DEF EndElsewhere
<1> QED BY <1>2, <1>3, <1>4, <1>5, <1>6, <1>7 DEF SessionNext

\* Session keeps its types: a row is of a family that there is, and so is a mark.
LEMMA SessionTypesOK == SessionSpec => []SessionTypeOK
<1>1. SessionInit => SessionMore
  <2> SUFFICES ASSUME SessionInit PROVE SessionMore
    OBVIOUS
  <2>1. /\ \A c \in Tabs : req[c].gets = 0
        /\ cuts = 0 /\ ends = 0 /\ ended = {} /\ crossed = {} /\ cut = {} /\ raced = {}
    BY DEF SessionInit, Idle
  <2>2. 0 <= MaxCuts /\ 0 <= MaxEnds
    BY SessionAssumption
  <2> QED BY ONLY <2>1, <2>2 DEF SessionMore, Marked
<1>2. SessionIInv /\ SessionMore /\ [SessionNext]_sessionVars => SessionMore'
  <2> SUFFICES ASSUME SessionIInv, SessionMore, [SessionNext]_sessionVars PROVE SessionMore'
    OBVIOUS
  <2>1. CASE UNCHANGED sessionVars
    BY <2>1 DEF sessionVars, SessionMore, Marked, Families, Family
  <2>2. CASE SessionNext
    <3>1. \A c \in Tabs : req'[c].gets \in {0} \cup DOMAIN tokens'
      BY <2>2, GetsATokenStays DEF SessionMore
    <3>2. Marked' \subseteq Families'
      BY <2>2, TokensGrow, MarksAreOfFamilies DEF SessionMore
    <3>3. /\ cuts' = cuts \/ (cuts < MaxCuts /\ cuts' = cuts + 1)
          /\ ends' = ends \/ (ends < MaxEnds /\ ends' = ends + 1)
      <4>1. ASSUME NEW c \in Tabs, \/ SendRefresh(c) \/ SendLogout(c) \/ Look(c) \/ Rotate(c)
                                   \/ Logout(c) \/ Login(c) \/ Reply(c)
            PROVE  cuts' = cuts /\ ends' = ends
        BY <4>1 DEF SendRefresh, SendLogout, Send, Look, Rotate, Logout, Login, Reply
      <4>2. ASSUME NEW c \in Tabs, ReplyLost(c)
            PROVE  cuts < MaxCuts /\ cuts' = cuts + 1 /\ ends' = ends
        BY <4>2 DEF ReplyLost
      <4>3. ASSUME NEW f \in Families, EndElsewhere(f)
            PROVE  ends < MaxEnds /\ ends' = ends + 1 /\ cuts' = cuts
        BY <4>3 DEF EndElsewhere
      <4> QED BY <2>2, <4>1, <4>2, <4>3 DEF SessionNext
    <3>4. cuts' \in Nat /\ cuts' <= MaxCuts /\ ends' \in Nat /\ ends' <= MaxEnds
      BY <3>3, SessionAssumption DEF SessionMore
    <3> QED BY <3>1, <3>2, <3>4 DEF SessionMore
  <2> QED BY <2>1, <2>2
<1>3. SessionIInv /\ SessionMore => SessionTypeOK
  <2> SUFFICES ASSUME SessionIInv, SessionMore PROVE SessionTypeOK
    OBVIOUS
  <2>1. /\ tokens \in Seq(TokenRows) /\ \A i \in DOMAIN tokens : tokens[i].fam \in DOMAIN tokens
        /\ jar \in {0} \cup DOMAIN tokens /\ req \in [Tabs -> ReqRows]
        /\ \A c \in Tabs : TypedCall(c)
        /\ DOMAIN tokens = 1..Len(tokens) /\ Len(tokens) \in Nat
    BY DEF SessionIInv, SessionTypes, Family
  <2>2. \A i \in DOMAIN tokens : tokens[i] \in [fam : DOMAIN tokens, revoked : BOOLEAN]
    <3>1. ASSUME NEW i \in DOMAIN tokens
          PROVE  tokens[i] \in [fam : DOMAIN tokens, revoked : BOOLEAN]
      <4>1. tokens[i] \in TokenRows /\ tokens[i].fam \in DOMAIN tokens
        BY <2>1
      <4> QED BY <4>1 DEF TokenRows
    <3> QED BY <3>1
  <2>3. jar \in 0..Len(tokens)
    BY <2>1
  <2>4. \A c \in Tabs : req[c] \in [at : Phases, has : 0..Len(tokens), gets : 0..Len(tokens)]
    <3>1. ASSUME NEW c \in Tabs
          PROVE  req[c] \in [at : Phases, has : 0..Len(tokens), gets : 0..Len(tokens)]
      <4>1. req[c] \in ReqRows /\ req[c].has \in {0} \cup DOMAIN tokens
            /\ req[c].gets \in {0} \cup DOMAIN tokens
        BY <2>1 DEF SessionMore, TypedCall
      <4>2. req[c].has \in 0..Len(tokens) /\ req[c].gets \in 0..Len(tokens)
        BY <2>1, <4>1
      <4> QED BY <4>1, <4>2 DEF ReqRows
    <3> QED BY <3>1
  <2>5. req \in [Tabs -> [at : Phases, has : 0..Len(tokens), gets : 0..Len(tokens)]]
    BY <2>1, <2>4
  <2>6. cuts \in 0..MaxCuts /\ ends \in 0..MaxEnds
    BY SessionAssumption DEF SessionMore
  <2> QED BY <2>1, <2>2, <2>3, <2>5, <2>6 DEF SessionMore, Marked, SessionTypeOK
<1> QED BY <1>1, <1>2, <1>3, SessionAlways, PTL DEF SessionSpec

-----------------------------------------------------------------------------
(* The attachments of a message being composed. *)

ItemRows == [is : {"new", "uploading", "ready", "sending", "failed", "gone"}, s : Nat]
RunRows == [at : {"none", "presign", "store"}, s : Nat]
PressRows == [at : {"idle", "refresh", "presign", "store", "ask", "sleep"}, list : Seq(Files),
              had : Seq(Nat), use : Seq(Nat), stale : BOOLEAN, try : Nat]

TrayTypes ==
  /\ tray \in Seq(Files) /\ item \in [Files -> ItemRows] /\ run \in [Files -> RunRows]
  /\ press \in [Presses -> PressRows] /\ inFlight \in BOOLEAN
  /\ fileOf \in Seq(Files) /\ pending \subseteq DOMAIN fileOf
  /\ sent \subseteq SUBSET DOMAIN fileOf

\* An item is in the tray from the time it is added to the time it goes, and its session
\* is one of its own; its upload runs while it is uploading, or after it went.
ItemSound(f) ==
  /\ item[f].is \notin {"new", "gone"} <=> InTray(f)
  /\ item[f].s # 0 => item[f].s \in DOMAIN fileOf /\ fileOf[item[f].s] = f
  /\ item[f].is \in {"new", "gone"} => item[f].s = 0
  /\ run[f].at # "none" => item[f].is \in {"uploading", "gone"}
  /\ run[f].at = "presign" => item[f].s = 0
  /\ run[f].at = "store" /\ item[f].is = "uploading" => item[f].s # 0
  /\ item[f].is = "ready" => item[f].s # 0
ItemsAreSound == \A f \in Files : ItemSound(f)

\* A press has a session for each item of its list, the old one or the new one.
ListSound(p) ==
  /\ Len(p.had) = Len(p.list) /\ Len(p.use) <= Len(p.list)
  /\ p.at \in {"ask", "sleep"} => Len(p.use) = Len(p.list)
  /\ p.at = "presign" => Len(p.use) < Len(p.list)
  /\ \A i, j \in DOMAIN p.list : p.list[i] = p.list[j] => i = j
  /\ \A i \in DOMAIN p.list : p.had[i] \in DOMAIN fileOf /\ fileOf[p.had[i]] = p.list[i]
  /\ \A i \in DOMAIN p.use : p.use[i] \in DOMAIN fileOf /\ fileOf[p.use[i]] = p.list[i]

\* The items of a press are being sent, with its sessions; those of one that is stale
\* are gone. A session that is being replaced is not noted any more.
ItemsFollow(p) ==
  /\ p.stale => \A i \in DOMAIN p.list : item[p.list[i]].is = "gone"
  /\ ~p.stale => \A i \in DOMAIN p.list :
       /\ item[p.list[i]].is = "sending"
       /\ item[p.list[i]].s = IF i <= Len(p.use) THEN p.use[i] ELSE p.had[i]
  /\ p.at = "presign" => p.had[Len(p.use) + 1] \notin pending

\* One press runs at a time, and holds the latch.
PressesAreSound ==
  \A c \in Presses : press[c].at # "idle" =>
    /\ inFlight /\ ListSound(press[c]) /\ ItemsFollow(press[c])
    /\ \A d \in Presses : press[d].at # "idle" => d = c

\* What was sent is gone.
SentIsGone == \A m \in sent : \A s \in m : item[fileOf[s]].is = "gone"

\* What is noted is of the tray, or stray; the sessions of the tray are noted.
Noted ==
  /\ \A s \in pending : s \in stray \/ \E f \in Members(tray) : item[f].s = s
  /\ \A f \in Members(tray) :
       item[f].is \in {"uploading", "ready"} /\ item[f].s # 0 => item[f].s \in pending

TrayIInv ==
  /\ TrayTypes /\ ItemsAreSound /\ PressesAreSound /\ SentIsGone
  /\ SentOnce /\ LockedIsDriven /\ Noted

\* The invariant holds when nothing is attached.
LEMMA TrayInitHolds == TrayInit => TrayIInv
<1> SUFFICES ASSUME TrayInit PROVE TrayIInv
  OBVIOUS
<1>1. /\ \A f \in Files : item[f] = [is |-> "new", s |-> 0] /\ run[f] = NoRun
      /\ \A c \in Presses : press[c] = NoPress
      /\ tray = <<>> /\ pending = {} /\ sent = {} /\ DOMAIN tray = {}
  BY DEF TrayInit
<1>2. TrayTypes
  <2>1. NoPress \in PressRows /\ NoRun \in RunRows /\ [is |-> "new", s |-> 0] \in ItemRows
    BY DEF NoPress, PressRows, NoRun, RunRows, ItemRows
  <2>2. item \in [Files -> ItemRows] /\ run \in [Files -> RunRows] /\ press \in [Presses -> PressRows]
    BY <2>1 DEF TrayInit
  <2>3. fileOf = <<>> /\ tray = <<>> /\ inFlight = FALSE
    BY DEF TrayInit
  <2>5. <<>> \in Seq(Files)
    OBVIOUS
  <2>4. fileOf \in Seq(Files) /\ tray \in Seq(Files) /\ inFlight \in BOOLEAN
    BY <2>3, <2>5, Zenon
  <2> QED BY <1>1, <2>2, <2>4 DEF TrayTypes
<1>3. ItemsAreSound
  BY <1>1 DEF ItemsAreSound, ItemSound, InTray, NoRun
<1>4. PressesAreSound /\ SentIsGone /\ SentOnce /\ LockedIsDriven /\ Noted
  BY <1>1 DEF PressesAreSound, NoPress, SentIsGone, SentOnce, LockedIsDriven, Noted, Members
<1> QED BY <1>2, <1>3, <1>4 DEF TrayIInv

\* A sub-list of the tray holds its items, each once.
LEMMA KeptIs ==
  ASSUME tray \in Seq(Files), NEW S \in SUBSET Members(tray), NEW q \in Kept(S)
  PROVE  /\ q \in Seq(Files) /\ Members(q) = S
         /\ \A i, j \in DOMAIN q : q[i] = q[j] => i = j
<1>1. S \subseteq Files /\ DOMAIN tray = 1..Len(tray) /\ Len(tray) \in Nat
  BY DEF Members
<1>2. IsFiniteSet(S)
  BY <1>1, UploadTrayAssumption, FS_Subset
<1>3. Cardinality(S) \in Nat
  BY <1>2, FS_CardinalityType
<1>4. /\ q \in [1..Cardinality(S) -> S] /\ S \subseteq Members(q)
      /\ \A i, j \in DOMAIN q : \A k, l \in DOMAIN tray :
           i < j /\ q[i] = tray[k] /\ q[j] = tray[l] => k < l
  BY DEF Kept
<1>5. q \in Seq(Files) /\ Members(q) = S
  BY <1>1, <1>3, <1>4 DEF Members
<1>6. ASSUME NEW i \in DOMAIN q, NEW j \in DOMAIN q, q[i] = q[j], i < j PROVE FALSE
  <2>1. PICK k \in DOMAIN tray : tray[k] = q[i]
    BY <1>4 DEF Members
  <2> QED BY <1>1, <1>4, <1>6, <2>1
<1>7. \A i \in DOMAIN q : i \in Nat
  BY <1>3, <1>4
<1>8. \A i, j \in DOMAIN q : q[i] = q[j] => i = j
  BY <1>6, <1>7
<1> QED BY <1>5, <1>8

\* A step of one file's item or upload: no press is about it, and the sessions of the
\* others stay.
LEMMA ItemHolds ==
  ASSUME TrayIInv, NEW f \in Files, TrayTypes', ItemSound(f)', Noted',
         UNCHANGED <<press, inFlight, sent>>,
         \A g \in Files \ {f} : /\ item'[g] = item[g] /\ run'[g] = run[g]
                                /\ g \in Members(tray') <=> g \in Members(tray),
         item[f].is # "sending", item'[f].is # "sending",
         item[f].is = "gone" => item'[f] = item[f],
         item'[f].is = "gone" => item[f].is = "gone" \/ f \in removed',
         \A s \in DOMAIN fileOf : s \in DOMAIN fileOf' /\ fileOf'[s] = fileOf[s],
         \A s \in DOMAIN fileOf : s \in pending' => s \in pending,
         removed \subseteq removed'
  PROVE  TrayIInv'
<1>0. /\ TrayTypes /\ ItemsAreSound /\ PressesAreSound /\ SentIsGone
      /\ SentOnce /\ LockedIsDriven /\ Noted
  BY DEF TrayIInv
<1>1. ItemsAreSound'
  <2> SUFFICES ASSUME NEW g \in Files, g # f PROVE ItemSound(g)'
    BY DEF ItemsAreSound
  <2>1. /\ ItemSound(g) /\ item'[g] = item[g] /\ run'[g] = run[g]
        /\ InTray(g)' <=> InTray(g)
    BY <1>0 DEF ItemsAreSound, InTray, Members
  <2> QED BY <2>1 DEF ItemSound
<1>2. PressesAreSound'
  <2> SUFFICES ASSUME NEW c \in Presses, press[c].at # "idle"
               PROVE  ListSound(press[c])' /\ ItemsFollow(press[c])'
    BY <1>0 DEF PressesAreSound
  <2> PICK p : p = press[c]
    OBVIOUS
  <2>1. ListSound(p) /\ ItemsFollow(p) /\ p \in PressRows /\ press'[c] = p
    BY <1>0 DEF PressesAreSound, TrayTypes
  <2>2. p.list \in Seq(Files) /\ p.had \in Seq(Nat) /\ p.use \in Seq(Nat)
    BY <2>1 DEF PressRows
  <2>3. ListSound(p)'
    BY <2>1, <2>2 DEF ListSound
  <2>4. \A i \in DOMAIN p.list : item'[p.list[i]] = item[p.list[i]]
    BY <2>1, <2>2 DEF ItemsFollow
  <2>5. p.at = "presign" => p.had[Len(p.use) + 1] \in DOMAIN fileOf
    BY <2>1, <2>2 DEF ListSound
  <2>6. ItemsFollow(p)'
    BY <2>1, <2>4, <2>5 DEF ItemsFollow
  <2> QED BY <2>1, <2>3, <2>6
<1>3. SentIsGone' /\ SentOnce'
  <2>1. \A m \in sent : \A s \in m : s \in DOMAIN fileOf /\ fileOf[s] \in Files /\ fileOf'[s] = fileOf[s]
    BY <1>0 DEF TrayTypes
  <2>2. SentIsGone'
    BY <1>0, <2>1 DEF SentIsGone
  <2>3. ASSUME NEW m \in sent, NEW n \in sent, m # n
        PROVE  {fileOf'[s] : s \in m} \cap {fileOf'[s] : s \in n} = {}
    <3>1. {fileOf[s] : s \in m} \cap {fileOf[s] : s \in n} = {}
      BY <1>0, <2>3 DEF SentOnce
    <3> QED BY <2>1, <3>1
  <2>4. {fileOf'[s] : s \in UNION sent} = {fileOf[s] : s \in UNION sent}
    BY <2>1
  <2>5. \A g \in Files : item'[g].is = "gone" => item[g].is = "gone" \/ g \in removed'
    OBVIOUS
  <2> QED BY <1>0, <2>2, <2>3, <2>4, <2>5 DEF SentOnce
<1>4. LockedIsDriven'
  BY <1>0 DEF LockedIsDriven
<1> QED BY <1>1, <1>2, <1>3, <1>4 DEF TrayIInv

\* One more element.
LEMMA AppendIs ==
  ASSUME NEW S, NEW q \in Seq(S), NEW e \in S, NEW r, r = Append(q, e)
  PROVE  /\ r \in Seq(S) /\ Len(r) = Len(q) + 1 /\ DOMAIN r = DOMAIN q \cup {Len(q) + 1}
         /\ \A j \in DOMAIN q : r[j] = q[j]
         /\ r[Len(q) + 1] = e
OBVIOUS

\* A new session: of the file, and noted.
LEMMA PresignEffects ==
  ASSUME TrayIInv, NEW f \in Files, Presign(f)
  PROVE  /\ fileOf' \in Seq(Files) /\ DOMAIN fileOf' = DOMAIN fileOf \cup {Len(fileOf) + 1}
         /\ Len(fileOf) + 1 \notin DOMAIN fileOf /\ Len(fileOf) + 1 \in Nat \ {0}
         /\ \A s \in DOMAIN fileOf : s \in DOMAIN fileOf' /\ fileOf'[s] = fileOf[s]
         /\ fileOf'[Len(fileOf) + 1] = f
         /\ pending' = pending \cup {Len(fileOf) + 1} /\ pending \subseteq DOMAIN fileOf
         /\ item' \in [Files -> ItemRows] /\ item'[f].is = item[f].is
         /\ \A g \in Files \ {f} : item'[g] = item[g]
         /\ f \in Members(tray) => item'[f].s = Len(fileOf) + 1 /\ stray' = stray
         /\ f \notin Members(tray) => item' = item /\ stray' = stray \cup {Len(fileOf) + 1}
         /\ \A m \in SUBSET (SUBSET DOMAIN fileOf) : m \in SUBSET (SUBSET DOMAIN fileOf')
<1>0. TrayTypes
  BY DEF TrayIInv
<1>1. /\ fileOf' = Append(fileOf, f) /\ pending' = pending \cup {Len(fileOf) + 1}
      /\ fileOf \in Seq(Files) /\ Len(fileOf) \in Nat /\ DOMAIN fileOf = 1..Len(fileOf)
      /\ pending \subseteq DOMAIN fileOf
  BY <1>0 DEF Presign, TrayTypes
<1>2. /\ fileOf' \in Seq(Files) /\ DOMAIN fileOf' = DOMAIN fileOf \cup {Len(fileOf) + 1}
      /\ Len(fileOf) + 1 \notin DOMAIN fileOf /\ Len(fileOf) + 1 \in Nat \ {0}
      /\ \A s \in DOMAIN fileOf : s \in DOMAIN fileOf' /\ fileOf'[s] = fileOf[s]
      /\ fileOf'[Len(fileOf) + 1] = f
  BY <1>1
<1>3. InTray(f) <=> f \in Members(tray)
  BY DEF InTray, Members
<1>4. item[f] \in ItemRows /\ item \in [Files -> ItemRows]
  BY <1>0 DEF TrayTypes
<1>5. CASE f \in Members(tray)
  <2>1. item' = [item EXCEPT ![f].s = Len(fileOf) + 1] /\ stray' = stray
    BY <1>3, <1>5 DEF Presign
  <2> QED BY <1>1, <1>2, <1>4, <1>5, <2>1 DEF ItemRows
<1>6. CASE f \notin Members(tray)
  <2>1. item' = item /\ stray' = stray \cup {Len(fileOf) + 1}
    BY <1>3, <1>6 DEF Presign
  <2> QED BY <1>1, <1>2, <1>4, <1>6, <2>1
<1> QED BY <1>5, <1>6

\* The steps of a file: it is added, uploaded, removed, tried again.
LEMMA FileHolds ==
  ASSUME TrayIInv, NEW f \in Files,
         AddFile(f) \/ RunPresigned(f) \/ RunStored(f) \/ RunFails(f) \/ RemoveItem(f) \/ RetryItem(f)
  PROVE  TrayIInv'
<1>0. /\ TrayTypes /\ ItemSound(f) /\ Noted /\ item[f] \in ItemRows /\ run[f] \in RunRows
      /\ InTray(f) <=> f \in Members(tray)
      /\ item \in [Files -> ItemRows] /\ run \in [Files -> RunRows] /\ tray \in Seq(Files)
      /\ \A g \in Files : ItemSound(g)
      /\ Members(tray) \subseteq Files /\ pending \subseteq DOMAIN fileOf /\ 0 \notin DOMAIN fileOf
      /\ f \in Members(tray) <=> item[f].is \notin {"new", "gone"}
      /\ \A g \in Files : item[g].s # 0 => item[g].s \in DOMAIN fileOf
  BY DEF TrayIInv, ItemsAreSound, ItemSound, TrayTypes, InTray, Members
<1>1. CASE AddFile(f)
  <2>1. /\ item[f].is = "new" /\ item[f].s = 0 /\ f \notin Members(tray)
        /\ item'[f].is = "uploading" /\ item'[f].s = 0
        /\ run'[f].at = "presign" /\ run'[f].s = 0
        /\ \A g \in Files \ {f} : item'[g] = item[g] /\ run'[g] = run[g]
        /\ item' \in [Files -> ItemRows] /\ run' \in [Files -> RunRows]
        /\ UNCHANGED <<press, inFlight, pending, fileOf, sent, removed, stray>>
    BY <1>0, <1>1 DEF AddFile, ItemSound, ItemRows, RunRows
  <2>2. tray' \in Seq(Files) /\ Members(tray') = Members(tray) \cup {f}
    <3>1. tray' = Append(tray, f)
      BY <1>1 DEF AddFile
    <3>2. /\ tray' \in Seq(Files) /\ DOMAIN tray' = DOMAIN tray \cup {Len(tray) + 1}
          /\ \A i \in DOMAIN tray : tray'[i] = tray[i]
          /\ tray'[Len(tray) + 1] = f
      BY <1>0, <3>1
    <3> QED BY <3>2 DEF Members
  <2>3. TrayTypes'
    BY <1>0, <2>1, <2>2 DEF TrayTypes
  <2>4. ItemSound(f)'
    BY <2>1, <2>2 DEF ItemSound, InTray, Members
  <2>5. Noted'
    BY <1>0, <2>1, <2>2 DEF Noted
  <2> QED BY <2>1, <2>2, <2>3, <2>4, <2>5, ItemHolds
<1>2. CASE RunPresigned(f)
  <2> PICK n : n = Len(fileOf) + 1
    OBVIOUS
  <2>1. /\ fileOf' \in Seq(Files) /\ DOMAIN fileOf' = DOMAIN fileOf \cup {n}
        /\ n \notin DOMAIN fileOf /\ n \in Nat \ {0}
        /\ \A s \in DOMAIN fileOf : s \in DOMAIN fileOf' /\ fileOf'[s] = fileOf[s]
        /\ fileOf'[n] = f
        /\ pending' = pending \cup {n} /\ pending \subseteq DOMAIN fileOf
        /\ item' \in [Files -> ItemRows] /\ item'[f].is = item[f].is
        /\ \A g \in Files \ {f} : item'[g] = item[g]
        /\ f \in Members(tray) => item'[f].s = n /\ stray' = stray
        /\ f \notin Members(tray) => item' = item /\ stray' = stray \cup {n}
        /\ sent \subseteq SUBSET DOMAIN fileOf'
    BY <1>0, <1>2, PresignEffects DEF RunPresigned, TrayTypes
  <2>2. /\ run[f].at = "presign" /\ run'[f].at = "store" /\ run'[f].s = n
        /\ \A g \in Files \ {f} : run'[g] = run[g]
        /\ run' \in [Files -> RunRows]
        /\ UNCHANGED <<tray, press, inFlight, sent, removed>>
    BY <1>0, <1>2, <2>1 DEF RunPresigned, RunRows
  <2>3. item[f].is \in {"uploading", "gone"} /\ item[f].s = 0
    BY <1>0, <2>2 DEF ItemSound
  <2>4. TrayTypes'
    BY <1>0, <2>1, <2>2 DEF TrayTypes
  <2>5. ItemSound(f)'
    BY <1>0, <2>1, <2>2, <2>3 DEF ItemSound, InTray, Members
  <2>7. Noted'
    BY <1>0, <2>1, <2>2, <2>3 DEF Noted
  <2> QED BY <1>0, <2>1, <2>2, <2>3, <2>4, <2>5, <2>7, ItemHolds DEF ItemSound
<1>3. CASE RunStored(f)
  <2>1. /\ run[f].at = "store" /\ run'[f].at = "none"
        /\ \A g \in Files \ {f} : item'[g] = item[g] /\ run'[g] = run[g]
        /\ f \in Members(tray) => item'[f].is = "ready" /\ item'[f].s = item[f].s
        /\ f \notin Members(tray) => item'[f] = item[f]
        /\ item' \in [Files -> ItemRows] /\ run' \in [Files -> RunRows]
        /\ UNCHANGED <<tray, press, inFlight, pending, fileOf, sent, removed, stray>>
    BY <1>0, <1>3 DEF RunStored, Patched, ItemRows, RunRows, NoRun
  <2>2. item[f].is \in {"uploading", "gone"}
    BY <1>0, <2>1 DEF ItemSound
  <2>3. TrayTypes'
    BY <1>0, <2>1 DEF TrayTypes
  <2>4. ItemSound(f)'
    BY <1>0, <2>1, <2>2 DEF ItemSound, InTray, Members
  <2>5. Noted'
    BY <1>0, <2>1, <2>2 DEF Noted
  <2> QED BY <1>0, <2>1, <2>2, <2>3, <2>4, <2>5, ItemHolds DEF ItemSound
<1>4. CASE RunFails(f)
  <2>1. /\ run[f].at # "none" /\ run'[f].at = "none"
        /\ \A g \in Files \ {f} : item'[g] = item[g] /\ run'[g] = run[g]
        /\ f \in Members(tray) => item'[f].is = "failed" /\ item'[f].s = item[f].s
        /\ f \notin Members(tray) => item'[f] = item[f]
        /\ item' \in [Files -> ItemRows] /\ run' \in [Files -> RunRows]
        /\ UNCHANGED <<tray, press, inFlight, pending, fileOf, sent, removed, stray>>
    BY <1>0, <1>4 DEF RunFails, Patched, ItemRows, RunRows, NoRun
  <2>2. item[f].is \in {"uploading", "gone"}
    BY <1>0, <2>1 DEF ItemSound
  <2>3. TrayTypes'
    BY <1>0, <2>1 DEF TrayTypes
  <2>4. ItemSound(f)'
    BY <1>0, <2>1, <2>2 DEF ItemSound, InTray, Members
  <2>5. Noted'
    BY <1>0, <2>1, <2>2 DEF Noted
  <2> QED BY <1>0, <2>1, <2>2, <2>3, <2>4, <2>5, ItemHolds DEF ItemSound
<1>5. CASE RemoveItem(f)
  <2>1. /\ f \in Members(tray) /\ item[f].is # "sending"
        /\ item'[f].is = "gone" /\ item'[f].s = 0
        /\ \A g \in Files \ {f} : item'[g] = item[g]
        /\ pending' = pending \ {item[f].s} /\ removed' = removed \cup {f}
        /\ item' \in [Files -> ItemRows]
        /\ UNCHANGED <<run, press, inFlight, fileOf, sent, stray>>
    BY <1>0, <1>5 DEF RemoveItem, ItemRows
  <2>2. tray' \in Seq(Files) /\ Members(tray') = Members(tray) \ {f}
    BY <1>0, <1>5, KeptIs DEF RemoveItem
  <2>3. TrayTypes'
    BY <1>0, <2>1, <2>2 DEF TrayTypes
  <2>6. ~InTray(f)'
    BY <2>2 DEF InTray, Members
  <2>4. ItemSound(f)'
    BY <1>0, <2>1, <2>6 DEF ItemSound
  <2>5. Noted'
    <3>1. \A s \in pending' : s \in stray' \/ \E g \in Members(tray') : item'[g].s = s
      BY <1>0, <2>1, <2>2 DEF Noted
    <3>2. ASSUME NEW g \in Members(tray'), item'[g].is \in {"uploading", "ready"}, item'[g].s # 0
          PROVE  item'[g].s \in pending'
      <4>1. g \in Files /\ g # f /\ item'[g] = item[g] /\ item[g].s \in pending
        BY <1>0, <2>1, <2>2, <3>2 DEF Noted
      <4>2. item[g].s # item[f].s
        BY <1>0, <3>2, <4>1 DEF ItemSound
      <4> QED BY <2>1, <4>1, <4>2
    <3> QED BY <3>1, <3>2 DEF Noted
  <2> QED BY <1>0, <2>1, <2>2, <2>3, <2>4, <2>5, ItemHolds DEF ItemSound
<1>6. CASE RetryItem(f)
  <2>1. /\ f \in Members(tray) /\ item[f].is = "failed"
        /\ item'[f].is = "uploading" /\ item'[f].s = 0
        /\ run'[f].at = "presign"
        /\ \A g \in Files \ {f} : item'[g] = item[g] /\ run'[g] = run[g]
        /\ stray' = stray \cup ({item[f].s} \ {0})
        /\ item' \in [Files -> ItemRows] /\ run' \in [Files -> RunRows]
        /\ UNCHANGED <<tray, press, inFlight, pending, fileOf, sent, removed>>
    BY <1>0, <1>6 DEF RetryItem, ItemRows, RunRows
  <2>2. TrayTypes' /\ 0 \notin pending
    BY <1>0, <2>1 DEF TrayTypes
  <2>3. ItemSound(f)'
    BY <1>0, <2>1 DEF ItemSound, InTray, Members
  <2>4. Noted'
    BY <1>0, <2>1, <2>2 DEF Noted
  <2> QED BY <2>1, <2>2, <2>3, <2>4, ItemHolds
<1> QED BY <1>1, <1>2, <1>3, <1>4, <1>5, <1>6

\* A step of a press that leaves the items as they are: it gets on, or it is stale and
\* ends.
LEMMA PressHolds ==
  ASSUME TrayIInv, NEW c \in Presses, NEW q \in PressRows,
         press[c].at # "idle", press' = [press EXCEPT ![c] = q],
         UNCHANGED <<tray, item, run, fileOf, sent, removed, stray>>,
         pending' \subseteq pending, inFlight' \in BOOLEAN, Noted',
         \/ q.at = "idle" /\ press[c].stale
         \/ /\ q.at # "idle" /\ inFlight' = inFlight /\ ListSound(q) /\ ItemsFollow(q)'
            /\ q.list = press[c].list /\ q.stale = press[c].stale
  PROVE  TrayIInv'
<1>0. /\ TrayTypes /\ ItemsAreSound /\ PressesAreSound /\ SentIsGone
      /\ SentOnce /\ LockedIsDriven /\ Noted
  BY DEF TrayIInv
<1>1. /\ press'[c] = q /\ \A d \in Presses \ {c} : press'[d] = press[d] /\ press[d].at = "idle"
      /\ press' \in [Presses -> PressRows] /\ inFlight
  BY <1>0 DEF TrayTypes, PressesAreSound
<1>2. TrayTypes'
  BY <1>0, <1>1 DEF TrayTypes
<1>3. ItemsAreSound' /\ SentIsGone' /\ SentOnce'
  BY <1>0 DEF ItemsAreSound, ItemSound, SentIsGone, SentOnce, InTray
<1>4. ListSound(q)' <=> ListSound(q)
  BY DEF ListSound
<1>5. PressesAreSound'
  BY <1>1, <1>4 DEF PressesAreSound
<1>6. LockedIsDriven'
  BY <1>0, <1>1 DEF LockedIsDriven
<1> QED BY <1>2, <1>3, <1>5, <1>6 DEF TrayIInv

\* The latch is cleared, the items are unlocked and their sessions forgotten.
LEMMA FailedHolds ==
  ASSUME TrayIInv, NEW c \in Presses, press[c].at # "idle", Failed(c),
         UNCHANGED <<tray, run, fileOf, sent, removed, stray>>
  PROVE  TrayIInv'
<1>0. /\ TrayTypes /\ ItemsAreSound /\ PressesAreSound /\ SentIsGone
      /\ SentOnce /\ LockedIsDriven /\ Noted
  BY DEF TrayIInv
<1> PICK p : p = press[c]
  OBVIOUS
<1>1. /\ p \in PressRows /\ ListSound(p) /\ ItemsFollow(p)
      /\ \A d \in Presses : press'[d].at = "idle"
      /\ \A d \in Presses \ {c} : press[d].at = "idle"
      /\ press' \in [Presses -> PressRows] /\ inFlight' \in BOOLEAN
  <2>1. NoPress \in PressRows /\ NoPress.at = "idle"
    BY DEF NoPress, PressRows
  <2> QED BY <1>0, <2>1 DEF Failed, TrayTypes, PressesAreSound
<1>2. p.list \in Seq(Files) /\ p.had \in Seq(Nat) /\ p.use \in Seq(Nat) /\ p.stale \in BOOLEAN
  BY <1>1 DEF PressRows
<1>3. \A f \in Files : /\ InTray(f) <=> item[f].is \notin {"new", "gone"}
                       /\ InTray(f) <=> f \in Members(tray)
                       /\ item[f] \in ItemRows
  BY <1>0 DEF ItemsAreSound, ItemSound, InTray, Members, TrayTypes
<1>4. /\ item' \in [Files -> ItemRows]
      /\ \A f \in Files :
           \/ item'[f] = item[f] /\ (f \in Members(p.list) => item[f].is = "gone")
           \/ /\ f \in Members(p.list) /\ item[f].is = "sending"
              /\ item'[f].is = "failed" /\ item'[f].s = item[f].s
  <2>1. \A f \in Files : item'[f] = IF f \in Members(p.list) /\ InTray(f)
                                    THEN [item[f] EXCEPT !.is = "failed"] ELSE item[f]
    BY DEF Failed, Patched
  <2>2. \A f \in Members(p.list) : item[f].is \in {"sending", "gone"}
    BY <1>1, <1>2 DEF ItemsFollow, Members
  <2>3. item' \in [Files -> ItemRows]
    BY <1>3 DEF Failed, Patched, ItemRows
  <2> QED BY <1>3, <2>1, <2>2, <2>3 DEF ItemRows
<1>5. TrayTypes'
  BY <1>0, <1>1, <1>4 DEF TrayTypes, Failed
<1>6. ItemsAreSound'
  <2> SUFFICES ASSUME NEW f \in Files PROVE ItemSound(f)'
    BY DEF ItemsAreSound
  <2>1. ItemSound(f) /\ (InTray(f)' <=> InTray(f))
    BY <1>0 DEF ItemsAreSound, InTray
  <2> QED BY <1>4, <2>1 DEF ItemSound
<1>7. PressesAreSound'
  BY <1>1 DEF PressesAreSound
<1>8. SentIsGone' /\ SentOnce'
  <2>1. \A f \in Files : item'[f].is = "gone" <=> item[f].is = "gone"
    BY <1>4
  <2>2. \A m \in sent : \A s \in m : fileOf[s] \in Files
    BY <1>0 DEF TrayTypes
  <2> QED BY <1>0, <2>1, <2>2 DEF SentIsGone, SentOnce
<1>9. LockedIsDriven'
  <2> SUFFICES ASSUME NEW f \in Files, item'[f].is = "sending" PROVE FALSE
    BY DEF LockedIsDriven
  <2>1. item[f].is = "sending" /\ f \notin Members(p.list)
    BY <1>4
  <2> QED BY <1>0, <1>1, <2>1 DEF LockedIsDriven
<1>10. Noted'
  <2>1. pending' = pending \ (Members(p.had) \cup Members(p.use))
    BY DEF Failed
  <2>2. Members(tray) \subseteq Files
    BY <1>0 DEF TrayTypes, Members
  <2>3. \A s \in pending' : s \in stray \/ \E f \in Members(tray) : item'[f].s = s
    BY <1>0, <1>4, <2>1, <2>2 DEF Noted
  <2>4. ASSUME NEW f \in Members(tray), item'[f].is \in {"uploading", "ready"}, item'[f].s # 0
        PROVE  item'[f].s \in pending'
    <3>1. item'[f] = item[f] /\ f \notin Members(p.list)
      BY <1>3, <1>4, <2>2, <2>4
    <3>2. item[f].s \in pending /\ fileOf[item[f].s] = f
      BY <1>0, <2>2, <2>4, <3>1 DEF Noted, ItemsAreSound, ItemSound
    <3>3. \A s \in Members(p.had) \cup Members(p.use) : fileOf[s] \in Members(p.list)
      <4>1. ASSUME NEW i \in DOMAIN p.had PROVE fileOf[p.had[i]] \in Members(p.list)
        BY <1>1, <1>2 DEF ListSound, Members
      <4>2. ASSUME NEW i \in DOMAIN p.use PROVE fileOf[p.use[i]] \in Members(p.list)
        <5>1. i \in DOMAIN p.list
          BY <1>1, <1>2 DEF ListSound
        <5> QED BY <1>1, <5>1 DEF ListSound, Members
      <4> QED BY <4>1, <4>2 DEF Members
    <3> QED BY <2>1, <3>1, <3>2, <3>3
  <2> QED BY <2>3, <2>4 DEF Noted
<1> QED BY <1>5, <1>6, <1>7, <1>8, <1>9, <1>10 DEF TrayIInv

\* A press gets on, ends when it is stale, or fails.
LEMMA StepHolds ==
  ASSUME TrayIInv, NEW c \in Presses,
         \/ Bail(c) \/ Refresh(c) \/ RefreshStored(c) \/ RefreshFails(c) \/ NotCompleted(c)
         \/ Wake(c) \/ (Completed(c) /\ press[c].stale)
  PROVE  TrayIInv'
<1>0. /\ TrayTypes /\ PressesAreSound /\ Noted
  BY DEF TrayIInv
<1> PICK p : p = press[c]
  OBVIOUS
<1>1. /\ p.at # "idle" /\ p \in PressRows /\ ListSound(p) /\ ItemsFollow(p) /\ inFlight
  BY <1>0 DEF Bail, Refresh, RefreshStored, RefreshFails, NotCompleted, Wake, Completed,
     TrayTypes, PressesAreSound
<1>2. /\ p.list \in Seq(Files) /\ p.had \in Seq(Nat) /\ p.use \in Seq(Nat) /\ p.stale \in BOOLEAN
      /\ p.try \in Nat
  BY <1>1 DEF PressRows
<1>3. NoPress \in PressRows /\ NoPress.at = "idle"
  BY DEF NoPress, PressRows
<1>4. CASE Bail(c) \/ (Completed(c) /\ press[c].stale)
  <2>1. /\ press' = [press EXCEPT ![c] = NoPress] /\ inFlight' \in BOOLEAN
        /\ UNCHANGED <<tray, item, run, fileOf, sent, removed, stray, pending>> /\ press[c].stale
    BY <1>4 DEF Bail, Completed
  <2>2. Noted'
    BY <1>0, <2>1 DEF Noted
  <2> QED BY <1>1, <1>3, <2>1, <2>2, PressHolds
<1>5. ASSUME NEW at \in {"refresh", "ask", "sleep", "presign"}, NEW use \in Seq(Nat), NEW try \in Nat,
             GetsOn(c, at, use, try)
      PROVE  LET q == [at |-> at, list |-> p.list, had |-> p.had, use |-> use, stale |-> p.stale, try |-> try]
             IN press' = [press EXCEPT ![c] = q] /\ q \in PressRows
  BY <1>2, <1>5 DEF GetsOn, PressRows
<1>6. ASSUME NEW at \in {"refresh", "ask", "sleep"}, NEW try \in Nat, GetsOn(c, at, p.use, try),
             at \in {"ask", "sleep"} => Len(p.use) = Len(p.list),
             UNCHANGED <<tray, item, run, fileOf, sent, removed, stray, pending, inFlight>>
      PROVE  TrayIInv'
  <2> PICK q : q = [at |-> at, list |-> p.list, had |-> p.had, use |-> p.use, stale |-> p.stale, try |-> try]
    OBVIOUS
  <2>1. /\ press' = [press EXCEPT ![c] = q] /\ q \in PressRows
        /\ q.at = at /\ q.list = p.list /\ q.had = p.had /\ q.use = p.use /\ q.stale = p.stale
    BY <1>2, <1>5, <1>6
  <2>2. ListSound(q)
    BY <1>1, <1>6, <2>1 DEF ListSound
  <2>3. ItemsFollow(q)' /\ Noted'
    BY <1>0, <1>1, <1>6, <2>1 DEF ItemsFollow, Noted
  <2>4. inFlight' \in BOOLEAN /\ inFlight' = inFlight /\ q.at # "idle"
    BY <1>0, <1>6, <2>1 DEF TrayTypes
  <2> QED BY <1>1, <1>6, <2>1, <2>2, <2>3, <2>4, PressHolds
<1>12. ASSUME NEW i \in DOMAIN p.list, NEW use \in Seq(Nat), GetsOn(c, "refresh", use, p.try),
              ~p.stale, i = Len(p.use) + 1, Len(use) = i, DOMAIN use = DOMAIN p.use \cup {i},
              \A j \in DOMAIN p.use : use[j] = p.use[j], use[i] = p.had[i],
              UNCHANGED <<tray, item, run, fileOf, sent, removed, stray, pending, inFlight>>
       PROVE  TrayIInv'
  <2> PICK q : q = [at |-> "refresh", list |-> p.list, had |-> p.had, use |-> use, stale |-> p.stale,
                    try |-> p.try]
    OBVIOUS
  <2>1. /\ press' = [press EXCEPT ![c] = q] /\ q \in PressRows
        /\ q.at = "refresh" /\ q.list = p.list /\ q.had = p.had /\ q.use = use /\ q.stale = p.stale
    BY <1>2, <1>5, <1>12
  <2>2. ListSound(q)
    <3>1. /\ Len(p.had) = Len(p.list) /\ i <= Len(p.list)
          /\ \A k, l \in DOMAIN p.list : p.list[k] = p.list[l] => k = l
          /\ \A k \in DOMAIN p.list : p.had[k] \in DOMAIN fileOf /\ fileOf[p.had[k]] = p.list[k]
      BY <1>1, <1>2, <1>12 DEF ListSound
    <3>2. \A k \in DOMAIN use : use[k] \in DOMAIN fileOf /\ fileOf[use[k]] = p.list[k]
      <4>1. \A k \in DOMAIN p.use : use[k] \in DOMAIN fileOf /\ fileOf[use[k]] = p.list[k]
        BY <1>1, <1>12 DEF ListSound
      <4>2. use[i] \in DOMAIN fileOf /\ fileOf[use[i]] = p.list[i]
        BY <1>12, <3>1
      <4> QED BY <1>12, <4>1, <4>2
    <3> QED BY <1>12, <2>1, <3>1, <3>2 DEF ListSound
  <2>3. ItemsFollow(q)'
    <3>1. ASSUME NEW k \in DOMAIN p.list
          PROVE  (IF k <= i THEN use[k] ELSE p.had[k])
                   = (IF k <= Len(p.use) THEN p.use[k] ELSE p.had[k])
      <4> PICK n : n = Len(p.use)
        OBVIOUS
      <4>1. /\ Len(p.use) = n /\ n \in Nat /\ i = n + 1 /\ k \in Nat \ {0} /\ DOMAIN p.use = 1..n
            /\ \A j \in DOMAIN p.use : use[j] = p.use[j]
            /\ use[i] = p.had[i]
        BY <1>2, <1>12
      <4> QED BY ONLY <4>1
    <3>2. \A k \in DOMAIN p.list : /\ item[p.list[k]].is = "sending"
                                    /\ item[p.list[k]].s = IF k <= i THEN use[k] ELSE p.had[k]
      <4> SUFFICES ASSUME NEW k \in DOMAIN p.list
                   PROVE  /\ item[p.list[k]].is = "sending"
                          /\ item[p.list[k]].s = IF k <= i THEN use[k] ELSE p.had[k]
        OBVIOUS
      <4>1. /\ item[p.list[k]].is = "sending"
            /\ item[p.list[k]].s = IF k <= Len(p.use) THEN p.use[k] ELSE p.had[k]
        BY <1>1, <1>12 DEF ItemsFollow
      <4> QED BY <3>1, <4>1
    <3>3. /\ item' = item /\ q.list = p.list /\ q.had = p.had /\ q.use = use /\ Len(use) = i
          /\ ~q.stale /\ q.at # "presign"
      BY <1>12, <2>1
    <3> QED BY ONLY <3>2, <3>3 DEF ItemsFollow
  <2>4. Noted' /\ inFlight' \in BOOLEAN
    BY <1>0, <1>12 DEF Noted, TrayTypes
  <2> QED BY <1>1, <1>12, <2>1, <2>2, <2>3, <2>4, PressHolds
<1>7. CASE Refresh(c)
  <2> PICK i : i = Len(p.use) + 1
    OBVIOUS
  <2>0. /\ p.at = "refresh" /\ ~p.stale /\ i \in Nat \ {0} /\ Len(p.use) \in Nat
        /\ UNCHANGED <<tray, item, run, fileOf, sent, removed, stray, inFlight>>
    BY <1>2, <1>7 DEF Refresh
  <2>1. CASE i > Len(p.list) /\ GetsOn(c, "ask", p.use, p.try) /\ UNCHANGED pending
    <3>1. Len(p.use) = Len(p.list)
      BY <1>1, <1>2, <2>0, <2>1 DEF ListSound
    <3> QED BY <1>2, <1>6, <2>0, <2>1, <3>1
  <2>2. CASE i <= Len(p.list) /\ GetsOn(c, "refresh", Append(p.use, p.had[i]), p.try) /\ UNCHANGED pending
    <3> PICK u, e, use : u = p.use /\ e = p.had[i] /\ use = Append(u, e)
      OBVIOUS
    <3>1. /\ i \in DOMAIN p.had /\ i \in DOMAIN p.list
          /\ p.had[i] \in DOMAIN fileOf /\ fileOf[p.had[i]] = p.list[i]
      BY <1>1, <1>2, <2>0, <2>2 DEF ListSound
    <3>8. u \in Seq(Nat) /\ e \in Nat /\ i = Len(u) + 1
      BY <1>2, <3>1
    <3>9. /\ use \in Seq(Nat) /\ Len(use) = i /\ DOMAIN use = DOMAIN u \cup {i}
          /\ \A j \in DOMAIN u : use[j] = u[j]
          /\ use[i] = e
      BY <3>8, AppendIs
    <3>2. /\ use \in Seq(Nat) /\ Len(use) = i /\ DOMAIN use = DOMAIN p.use \cup {i}
          /\ \A j \in DOMAIN p.use : use[j] = p.use[j]
          /\ use[i] = p.had[i]
      BY <3>9
    <3>7. GetsOn(c, "refresh", use, p.try)
      BY <2>2
    <3> QED BY <1>12, <2>0, <2>2, <3>1, <3>2, <3>7
  <2>3. CASE i <= Len(p.list) /\ GetsOn(c, "presign", p.use, p.try) /\ pending' = pending \ {p.had[i]}
    <3> PICK q : q = [at |-> "presign", list |-> p.list, had |-> p.had, use |-> p.use, stale |-> p.stale,
                      try |-> p.try]
      OBVIOUS
    <3>1. /\ press' = [press EXCEPT ![c] = q] /\ q \in PressRows
          /\ q.at = "presign" /\ q.list = p.list /\ q.had = p.had /\ q.use = p.use /\ q.stale = p.stale
      BY <1>2, <1>5, <2>3
    <3>2. ListSound(q)
      BY <1>1, <1>2, <2>0, <2>3, <3>1 DEF ListSound
    <3>3. ItemsFollow(q)'
      BY <1>1, <2>0, <2>3, <3>1 DEF ItemsFollow
    <3>8. i \in DOMAIN p.list
      BY <1>2, <2>0, <2>3
    <3>4. /\ p.list[i] \in Files /\ fileOf[p.had[i]] = p.list[i]
          /\ item[p.list[i]].is = "sending"
      BY <1>1, <1>2, <2>0, <3>8 DEF ListSound, ItemsFollow
    <3>5. \A f \in Members(tray) : f \in Files /\ (item[f].s # 0 => fileOf[item[f].s] = f)
      BY <1>0 DEF TrayIInv, ItemsAreSound, ItemSound, TrayTypes, Members
    <3>6. Noted'
      BY <1>0, <2>0, <2>3, <3>4, <3>5 DEF Noted
    <3>7. inFlight' \in BOOLEAN /\ inFlight' = inFlight
      BY <1>0, <2>0 DEF TrayTypes
    <3> QED BY <1>1, <2>0, <2>3, <3>1, <3>2, <3>3, <3>6, <3>7, PressHolds
  <2> QED BY <1>7, <2>1, <2>2, <2>3 DEF Refresh
<1>8. CASE RefreshStored(c)
  BY <1>2, <1>6, <1>8 DEF RefreshStored
<1>9. CASE Wake(c)
  <2>1. Len(p.use) = Len(p.list) /\ p.try + 1 \in Nat
    BY <1>1, <1>2, <1>9 DEF ListSound, Wake
  <2> QED BY <1>6, <1>9, <2>1 DEF Wake
<1>10. CASE RefreshFails(c)
  BY <1>1, <1>10, FailedHolds DEF RefreshFails
<1>11. CASE NotCompleted(c)
  <2>1. p.at = "ask" /\ Len(p.use) = Len(p.list)
    BY <1>1, <1>11 DEF ListSound, NotCompleted
  <2>2. UNCHANGED <<tray, run, fileOf, sent, removed, stray>>
    BY <1>11 DEF NotCompleted
  <2>3. CASE GetsOn(c, "sleep", p.use, p.try) /\ UNCHANGED <<item, pending, inFlight>>
    BY <1>2, <1>6, <2>1, <2>2, <2>3
  <2>4. CASE Failed(c)
    BY <1>1, <2>2, <2>4, FailedHolds
  <2> QED BY <1>11, <2>3, <2>4 DEF NotCompleted
<1> QED BY <1>4, <1>7, <1>8, <1>9, <1>10, <1>11

\* What holds of every state of a press that runs.
LEMMA RunningFacts ==
  ASSUME TrayIInv, NEW c \in Presses, press[c].at # "idle", NEW p, p = press[c]
  PROVE  /\ p \in PressRows /\ ListSound(p) /\ ItemsFollow(p) /\ inFlight
         /\ \A d \in Presses \ {c} : press[d].at = "idle"
         /\ p.list \in Seq(Files) /\ p.had \in Seq(Nat) /\ p.use \in Seq(Nat) /\ p.stale \in BOOLEAN
         /\ p.try \in Nat
         /\ \A f \in Files : /\ f \in Members(tray) <=> item[f].is \notin {"new", "gone"}
                             /\ item[f].s # 0 => item[f].s \in DOMAIN fileOf /\ fileOf[item[f].s] = f
                             /\ item[f].is = "sending" => run[f].at = "none"
                             /\ item[f] \in ItemRows
         /\ Members(tray) \subseteq Files
         /\ \A f \in Files : item[f].is = "sending" =>
              ~p.stale /\ \E i \in DOMAIN p.list : p.list[i] = f
<1>0. /\ TrayTypes /\ ItemsAreSound /\ PressesAreSound /\ LockedIsDriven
  BY DEF TrayIInv
<1>1. /\ p \in PressRows /\ ListSound(p) /\ ItemsFollow(p) /\ inFlight
      /\ \A d \in Presses \ {c} : press[d].at = "idle"
  BY <1>0 DEF TrayTypes, PressesAreSound
<1>2. /\ p.list \in Seq(Files) /\ p.had \in Seq(Nat) /\ p.use \in Seq(Nat) /\ p.stale \in BOOLEAN
      /\ p.try \in Nat
  BY <1>1 DEF PressRows
<1>3. \A f \in Files : /\ f \in Members(tray) <=> item[f].is \notin {"new", "gone"}
                       /\ item[f].s # 0 => item[f].s \in DOMAIN fileOf /\ fileOf[item[f].s] = f
                       /\ item[f].is = "sending" => run[f].at = "none"
                       /\ item[f] \in ItemRows
  BY <1>0 DEF ItemsAreSound, ItemSound, InTray, Members, TrayTypes
<1>4. \A f \in Files : item[f].is = "sending" => ~p.stale /\ f \in Members(p.list)
  BY <1>0, <1>1 DEF LockedIsDriven
<1> QED BY <1>0, <1>1, <1>2, <1>3, <1>4 DEF Members, TrayTypes

\* A press gets another session for an item whose session is about to expire.
LEMMA RefreshPresignedHolds ==
  ASSUME TrayIInv, NEW c \in Presses, RefreshPresigned(c)
  PROVE  TrayIInv'
<1>0. /\ TrayTypes /\ ItemsAreSound /\ PressesAreSound /\ SentIsGone
      /\ SentOnce /\ LockedIsDriven /\ Noted
  BY DEF TrayIInv
<1> PICK p, i, n : p = press[c] /\ i = Len(p.use) + 1 /\ n = Len(fileOf) + 1
  OBVIOUS
<1>1. /\ p.at = "presign" /\ press[c].at # "idle" /\ p = press[c]
  BY DEF RefreshPresigned
<1>2. /\ p \in PressRows /\ ListSound(p) /\ ItemsFollow(p) /\ inFlight
      /\ \A d \in Presses \ {c} : press[d].at = "idle"
      /\ p.list \in Seq(Files) /\ p.had \in Seq(Nat) /\ p.use \in Seq(Nat) /\ p.stale \in BOOLEAN
      /\ p.try \in Nat
      /\ \A g \in Files : /\ g \in Members(tray) <=> item[g].is \notin {"new", "gone"}
                          /\ item[g].s # 0 => item[g].s \in DOMAIN fileOf /\ fileOf[item[g].s] = g
                          /\ item[g].is = "sending" => run[g].at = "none"
                          /\ item[g] \in ItemRows
      /\ Members(tray) \subseteq Files
  BY <1>1, RunningFacts
<1>3. i \in DOMAIN p.list /\ Len(p.use) \in Nat /\ DOMAIN p.use = 1..Len(p.use)
  BY <1>1, <1>2 DEF ListSound
<1> PICK f : f = p.list[i]
  OBVIOUS
<1>4. f \in Files /\ Presign(f)
  BY <1>2, <1>3 DEF RefreshPresigned
<1>5. /\ fileOf' \in Seq(Files) /\ DOMAIN fileOf' = DOMAIN fileOf \cup {n}
      /\ n \notin DOMAIN fileOf /\ n \in Nat \ {0}
      /\ \A s \in DOMAIN fileOf : s \in DOMAIN fileOf' /\ fileOf'[s] = fileOf[s]
      /\ fileOf'[n] = f
      /\ pending' = pending \cup {n} /\ pending \subseteq DOMAIN fileOf
      /\ item' \in [Files -> ItemRows] /\ item'[f].is = item[f].is
      /\ \A g \in Files \ {f} : item'[g] = item[g]
      /\ f \in Members(tray) => item'[f].s = n /\ stray' = stray
      /\ f \notin Members(tray) => item' = item /\ stray' = stray \cup {n}
      /\ sent \subseteq SUBSET DOMAIN fileOf'
  BY <1>0, <1>4, PresignEffects DEF TrayTypes
<1>6. /\ p.stale => item[f].is = "gone" /\ item' = item /\ n \in stray'
      /\ ~p.stale => /\ item[f].is = "sending" /\ item'[f].s = n /\ f \in Members(tray)
                     /\ item[f].s = p.had[i] /\ p.had[i] \notin pending
      /\ stray \subseteq stray'
  <2>1. p.stale => item[f].is = "gone"
    BY <1>2, <1>3 DEF ItemsFollow
  <2>2. ~p.stale => item[f].is = "sending" /\ item[f].s = p.had[i] /\ p.had[i] \notin pending
    BY <1>1, <1>2, <1>3 DEF ItemsFollow
  <2> QED BY <1>2, <1>4, <1>5, <2>1, <2>2
<1>u. PICK use : use = Append(p.use, n)
  OBVIOUS
<1>7. /\ use \in Seq(Nat) /\ Len(use) = i /\ DOMAIN use = DOMAIN p.use \cup {i}
      /\ \A j \in DOMAIN p.use : use[j] = p.use[j]
      /\ use[i] = n
  <2> PICK u : u = p.use
    OBVIOUS
  <2>1. u \in Seq(Nat) /\ n \in Nat /\ use = Append(u, n)
    BY <1>2, <1>5, <1>u
  <2>2. /\ use \in Seq(Nat) /\ Len(use) = Len(u) + 1 /\ DOMAIN use = DOMAIN u \cup {Len(u) + 1}
        /\ \A j \in DOMAIN u : use[j] = u[j]
        /\ use[Len(u) + 1] = n
    BY ONLY <2>1, AppendIs
  <2> QED BY <2>2
<1>q. PICK q : q = [at |-> "store", list |-> p.list, had |-> p.had, use |-> use, stale |-> p.stale,
                  try |-> p.try]
  OBVIOUS
<1>8. /\ press'[c] = q /\ press' \in [Presses -> PressRows]
      /\ \A d \in Presses \ {c} : press'[d] = press[d]
      /\ q.at = "store" /\ q.list = p.list /\ q.had = p.had /\ q.use = use /\ q.stale = p.stale
      /\ UNCHANGED <<tray, run, inFlight, sent, removed>>
  <2>1. q \in PressRows
    BY <1>2, <1>7, <1>q DEF PressRows
  <2>2. press' = [press EXCEPT ![c] = q]
    BY <1>u, <1>q DEF RefreshPresigned, GetsOn
  <2>3. /\ q.at = "store" /\ q.list = p.list /\ q.had = p.had /\ q.use = use
        /\ q.stale = p.stale
    BY <1>q
  <2> QED BY <1>0, <2>1, <2>2, <2>3 DEF RefreshPresigned, TrayTypes
<1>9. TrayTypes'
  BY <1>0, <1>5, <1>8 DEF TrayTypes
<1>10. \A g \in Files : item'[g].is = item[g].is
  BY <1>5
<1>11. ItemsAreSound'
  <2> SUFFICES ASSUME NEW g \in Files PROVE ItemSound(g)'
    BY DEF ItemsAreSound
  <2>1. ItemSound(g) /\ (InTray(g)' <=> InTray(g))
    BY <1>0, <1>8 DEF ItemsAreSound, InTray
  <2>2. CASE g # f \/ p.stale
    BY <1>5, <1>6, <1>8, <2>1, <2>2 DEF ItemSound
  <2>3. CASE g = f /\ ~p.stale
    BY Zenon, <1>2, <1>5, <1>6, <1>8, <2>1, <2>3 DEF ItemSound
  <2> QED BY <2>2, <2>3
<1>12. ListSound(q)'
  <2>1. /\ Len(p.had) = Len(p.list) /\ i <= Len(p.list)
        /\ \A k, l \in DOMAIN p.list : p.list[k] = p.list[l] => k = l
        /\ \A k \in DOMAIN p.list : p.had[k] \in DOMAIN fileOf' /\ fileOf'[p.had[k]] = p.list[k]
    BY <1>2, <1>3, <1>5 DEF ListSound
  <2>2. \A k \in DOMAIN use : use[k] \in DOMAIN fileOf' /\ fileOf'[use[k]] = p.list[k]
    <3>1. ASSUME NEW k \in DOMAIN p.use
          PROVE  use[k] \in DOMAIN fileOf' /\ fileOf'[use[k]] = p.list[k]
      <4>1. p.use[k] \in DOMAIN fileOf /\ fileOf[p.use[k]] = p.list[k]
        BY <1>2 DEF ListSound
      <4> QED BY ONLY <1>5, <1>7, <4>1, k \in DOMAIN p.use
    <3> QED BY <1>5, <1>7, <3>1
  <2>3. /\ q.list = p.list /\ q.had = p.had /\ q.use = use /\ Len(use) = i
        /\ q.at = "store"
    BY <1>7, <1>8
  <2> QED BY ONLY <2>1, <2>2, <2>3 DEF ListSound
<1>13. ItemsFollow(q)'
  <2>1. CASE p.stale
    BY <1>2, <1>6, <1>8, <2>1 DEF ItemsFollow
  <2>2. CASE ~p.stale
    <3>1. \A k \in DOMAIN p.list : /\ item'[p.list[k]].is = "sending"
                                   /\ item'[p.list[k]].s = IF k <= i THEN use[k] ELSE p.had[k]
      <4> SUFFICES ASSUME NEW k \in DOMAIN p.list
                   PROVE  /\ item'[p.list[k]].is = "sending"
                          /\ item'[p.list[k]].s = IF k <= i THEN use[k] ELSE p.had[k]
        OBVIOUS
      <4>1. p.list[k] \in Files /\ k \in Nat \ {0} /\ item[p.list[k]].is = "sending"
            /\ item[p.list[k]].s = (IF k <= Len(p.use) THEN p.use[k] ELSE p.had[k])
        <5>1. p.list[k] \in Files /\ k \in Nat \ {0}
          BY <1>2
        <5>2. ItemsFollow(p)
          BY <1>2
        <5> QED BY ONLY <2>2, <5>1, <5>2 DEF ItemsFollow
      <4>2. CASE k = i
        BY <1>3, <1>5, <1>6, <1>7, <2>2, <4>1, <4>2
      <4>3. CASE k # i
        <5>1. item'[p.list[k]] = item[p.list[k]]
          BY <1>2, <1>3, <1>5, <4>1, <4>3 DEF ListSound
        <5>2. (IF k <= i THEN use[k] ELSE p.had[k]) = (IF k <= Len(p.use) THEN p.use[k] ELSE p.had[k])
          BY <1>3, <1>7, <4>1, <4>3
        <5> QED BY <4>1, <5>1, <5>2
      <4> QED BY <4>2, <4>3
    <3>2. q.list = p.list /\ q.had = p.had /\ q.use = use /\ Len(use) = i
          /\ ~q.stale /\ q.at # "presign"
      BY <1>7, <1>8, <2>2
    <3> QED BY ONLY <3>1, <3>2 DEF ItemsFollow
  <2> QED BY <2>1, <2>2
<1>14. PressesAreSound'
  <2>1. \A d \in Presses \ {c} : press[d].at = "idle" /\ press'[d] = press[d]
    BY Zenon, <1>2, <1>8
  <2>2. inFlight' = inFlight /\ press'[c] = q
    BY <1>8
  <2>3. inFlight' /\ press'[c] = q /\ \A d \in Presses \ {c} : press'[d].at = "idle"
    BY <1>2, <2>1, <2>2
  <2> QED BY ONLY <1>12, <1>13, <2>3 DEF PressesAreSound
<1>15. SentIsGone' /\ SentOnce'
  <2>1. \A m \in sent : \A s \in m : s \in DOMAIN fileOf /\ fileOf[s] \in Files /\ fileOf'[s] = fileOf[s]
    BY <1>0, <1>5 DEF TrayTypes
  <2>2. SentIsGone'
    BY <1>0, <1>8, <1>10, <2>1 DEF SentIsGone
  <2>3. ASSUME NEW m \in sent, NEW o \in sent, m # o
        PROVE  {fileOf'[s] : s \in m} \cap {fileOf'[s] : s \in o} = {}
    <3>1. {fileOf[s] : s \in m} \cap {fileOf[s] : s \in o} = {}
      BY <1>0, <2>3 DEF SentOnce
    <3> QED BY <2>1, <3>1
  <2>4. {fileOf'[s] : s \in UNION sent} = {fileOf[s] : s \in UNION sent}
    BY <2>1
  <2> QED BY <1>0, <1>8, <1>10, <2>2, <2>3, <2>4 DEF SentOnce
<1>16. LockedIsDriven'
  <2> SUFFICES ASSUME NEW g \in Files, item'[g].is = "sending"
               PROVE  q.at # "idle" /\ ~q.stale /\ g \in Members(q.list)
    BY <1>8 DEF LockedIsDriven
  <2>1. item[g].is = "sending"
    BY <1>10
  <2>2. ~p.stale /\ g \in Members(p.list)
    BY <1>1, <2>1, RunningFacts DEF Members
  <2> QED BY <1>8, <2>2
<1>17. Noted'
  <2>1. ASSUME NEW s \in pending' PROVE s \in stray' \/ \E g \in Members(tray) : item'[g].s = s
    <3>1. CASE s = n
      BY <1>2, <1>5, <1>6, <3>1
    <3>2. CASE s \in pending
      <4>1. CASE s \in stray
        BY <1>6, <4>1
      <4>2. CASE \E g \in Members(tray) : item[g].s = s
        <5>1. PICK g \in Members(tray) : item[g].s = s
          BY <4>2
        <5>2. item'[g] = item[g]
          BY <1>2, <1>5, <1>6, <3>2, <5>1
        <5> QED BY <5>1, <5>2
      <4> QED BY <1>0, <3>2, <4>1, <4>2 DEF Noted
    <3> QED BY <1>5, <3>1, <3>2
  <2>2. ASSUME NEW g \in Members(tray), item'[g].is \in {"uploading", "ready"}, item'[g].s # 0
        PROVE  item'[g].s \in pending'
    <3>1. item'[g] = item[g]
      BY <1>2, <1>5, <1>6, <2>2
    <3> QED BY <1>0, <1>5, <2>2, <3>1 DEF Noted
  <2> QED BY <1>8, <2>1, <2>2 DEF Noted
<1> QED BY <1>9, <1>11, <1>14, <1>15, <1>16, <1>17 DEF TrayIInv

\* The message is sent: its items are gone, and nothing of them is noted.
LEMMA CompletedHolds ==
  ASSUME TrayIInv, NEW c \in Presses, Completed(c), ~press[c].stale
  PROVE  TrayIInv'
<1>0. /\ TrayTypes /\ ItemsAreSound /\ PressesAreSound /\ SentIsGone
      /\ SentOnce /\ LockedIsDriven /\ Noted
  BY DEF TrayIInv
<1> PICK p : p = press[c]
  OBVIOUS
<1> PICK mine : mine = Members(p.list)
  OBVIOUS
<1>1. p.at = "ask" /\ press[c].at # "idle" /\ p = press[c] /\ ~p.stale
  BY DEF Completed
<1>2. /\ p \in PressRows /\ ListSound(p) /\ ItemsFollow(p)
      /\ \A d \in Presses \ {c} : press[d].at = "idle"
      /\ p.list \in Seq(Files) /\ p.had \in Seq(Nat) /\ p.use \in Seq(Nat)
      /\ \A g \in Files : /\ g \in Members(tray) <=> item[g].is \notin {"new", "gone"}
                          /\ item[g].s # 0 => item[g].s \in DOMAIN fileOf /\ fileOf[item[g].s] = g
                          /\ item[g].is = "sending" => run[g].at = "none"
      /\ Members(tray) \subseteq Files
      /\ \A f \in Files : item[f].is = "sending" => \E i \in DOMAIN p.list : p.list[i] = f
  BY <1>1, RunningFacts
<1>3. Len(p.use) = Len(p.list) /\ DOMAIN p.use = DOMAIN p.list
  BY <1>1, <1>2 DEF ListSound
<1>4. /\ \A i \in DOMAIN p.use : p.use[i] \in DOMAIN fileOf /\ fileOf[p.use[i]] = p.list[i]
      /\ \A i \in DOMAIN p.had : p.had[i] \in DOMAIN fileOf /\ fileOf[p.had[i]] = p.list[i]
      /\ \A i \in DOMAIN p.list : /\ item[p.list[i]].is = "sending" /\ item[p.list[i]].s = p.use[i]
                                  /\ p.list[i] \in mine /\ p.list[i] \in Files
      /\ \A f \in mine : \E i \in DOMAIN p.list : f = p.list[i]
  <2>1. \A i \in DOMAIN p.use : i <= Len(p.use)
    BY <1>2
  <2>2. DOMAIN p.had = DOMAIN p.list
    BY <1>2 DEF ListSound
  <2> QED BY <1>1, <1>2, <1>3, <2>1, <2>2 DEF ListSound, ItemsFollow, Members
<1>5. /\ mine \subseteq Files /\ \A f \in mine : item[f].is = "sending" /\ item[f].s \in Members(p.use)
      /\ \A s \in Members(p.use) : s \in DOMAIN fileOf /\ fileOf[s] \in mine
      /\ \A s \in Members(p.had) : s \in DOMAIN fileOf /\ fileOf[s] \in mine
      /\ \A f \in mine : \E s \in Members(p.use) : fileOf[s] = f
      /\ \A f \in Files : item[f].is = "sending" => f \in mine
  <2>1. /\ \A i \in DOMAIN p.use : p.use[i] \in Members(p.use)
        /\ DOMAIN p.had = DOMAIN p.list
    BY <1>2 DEF Members, ListSound
  <2>2. mine \subseteq Files /\ \A f \in mine : item[f].is = "sending" /\ item[f].s \in Members(p.use)
    BY <1>3, <1>4, <2>1
  <2>3. \A s \in Members(p.use) : s \in DOMAIN fileOf /\ fileOf[s] \in mine
    BY <1>3, <1>4 DEF Members
  <2>4. \A s \in Members(p.had) : s \in DOMAIN fileOf /\ fileOf[s] \in mine
    BY <1>4, <2>1 DEF Members
  <2>5. \A f \in mine : \E s \in Members(p.use) : fileOf[s] = f
    BY <1>3, <1>4, <2>1
  <2>6. \A f \in Files : item[f].is = "sending" => f \in mine
    BY <1>2, <1>4
  <2> QED BY <2>2, <2>3, <2>4, <2>5, <2>6
<1>6. /\ \A d \in Presses : press'[d].at = "idle"
      /\ press' \in [Presses -> PressRows] /\ inFlight' = FALSE
      /\ pending' = pending \ (Members(p.had) \cup Members(p.use))
      /\ sent' = sent \cup {Members(p.use)}
      /\ UNCHANGED <<run, fileOf, removed, stray>>
  <2>1. NoPress \in PressRows /\ NoPress.at = "idle"
    BY DEF NoPress, PressRows
  <2> QED BY <1>0, <1>1, <1>2, <2>1 DEF Completed, TrayTypes
<1>7. tray' \in Seq(Files) /\ Members(tray') = Members(tray) \ mine
  <2>1. tray' \in Kept(Members(tray) \ mine)
    BY <1>1 DEF Completed, ClearConfirmed
  <2>2. Members(tray) \ mine \in SUBSET Members(tray) /\ tray \in Seq(Files)
    BY <1>0 DEF TrayTypes
  <2> QED BY <2>1, <2>2, KeptIs
<1>8. /\ item' \in [Files -> ItemRows]
      /\ \A f \in mine : item'[f].is = "gone" /\ item'[f].s = 0
      /\ \A f \in Files \ mine : item'[f] = item[f]
  <2>1. item' = [f \in Files |-> IF f \in mine THEN [is |-> "gone", s |-> 0] ELSE item[f]]
    BY <1>1 DEF Completed, ClearConfirmed
  <2>2. [is |-> "gone", s |-> 0] \in ItemRows /\ item \in [Files -> ItemRows]
    BY <1>0 DEF ItemRows, TrayTypes
  <2> QED BY <1>5, <2>1, <2>2
<1>9. TrayTypes'
  <2>1. sent' \subseteq SUBSET DOMAIN fileOf
    BY <1>0, <1>5, <1>6 DEF TrayTypes
  <2> QED BY <1>0, <1>6, <1>7, <1>8, <2>1 DEF TrayTypes
<1>10. ItemsAreSound'
  <2> SUFFICES ASSUME NEW g \in Files PROVE ItemSound(g)'
    BY DEF ItemsAreSound
  <2>1. ItemSound(g) /\ (InTray(g)' <=> g \in Members(tray')) /\ (InTray(g) <=> g \in Members(tray))
    BY <1>0 DEF ItemsAreSound, InTray, Members
  <2>2. CASE g \in mine
    BY <1>2, <1>5, <1>6, <1>7, <1>8, <2>1, <2>2 DEF ItemSound
  <2>3. CASE g \notin mine
    BY <1>6, <1>7, <1>8, <2>1, <2>3 DEF ItemSound
  <2> QED BY <2>2, <2>3
<1>11. PressesAreSound'
  BY <1>6 DEF PressesAreSound
<1>12. \A m \in sent : \A s \in m : /\ s \in DOMAIN fileOf /\ fileOf[s] \in Files
                                   /\ item[fileOf[s]].is = "gone" /\ fileOf[s] \notin mine
  BY <1>0, <1>5 DEF TrayTypes, SentIsGone
<1>13. SentIsGone'
  BY <1>5, <1>6, <1>8, <1>12 DEF SentIsGone
<1>14. SentOnce'
  <2>1. ASSUME NEW m \in sent', NEW n \in sent', m # n
        PROVE  {fileOf[s] : s \in m} \cap {fileOf[s] : s \in n} = {}
    <3>1. CASE m \in sent /\ n \in sent
      BY <1>0, <2>1, <3>1 DEF SentOnce
    <3>2. CASE m = Members(p.use) /\ n \in sent
      BY <1>5, <1>12, <3>2
    <3>3. CASE n = Members(p.use) /\ m \in sent
      BY <1>5, <1>12, <3>3
    <3> QED BY <1>6, <2>1, <3>1, <3>2, <3>3
  <2>2. ASSUME NEW f \in Files, item'[f].is = "gone"
        PROVE  f \in removed \cup {fileOf[s] : s \in UNION sent'}
    <3>1. CASE f \in mine
      BY <1>5, <1>6, <3>1
    <3>2. CASE f \notin mine
      <4>1. f \in removed \cup {fileOf[s] : s \in UNION sent}
        BY <1>0, <1>8, <2>2, <3>2 DEF SentOnce
      <4>2. UNION sent \subseteq UNION sent'
        BY <1>6
      <4> QED BY <4>1, <4>2
    <3> QED BY <3>1, <3>2
  <2> QED BY <1>6, <2>1, <2>2 DEF SentOnce
<1>15. LockedIsDriven'
  BY <1>5, <1>8 DEF LockedIsDriven
<1>16. Noted'
  <2>1. ASSUME NEW s \in pending' PROVE s \in stray \/ \E g \in Members(tray') : item'[g].s = s
    <3>1. CASE \E g \in Members(tray) : item[g].s = s
      <4>1. PICK g \in Members(tray) : item[g].s = s
        BY <3>1
      <4>2. g \notin mine /\ g \in Files
        BY <1>2, <1>5, <1>6, <2>1, <4>1
      <4> QED BY <1>7, <1>8, <4>1, <4>2
    <3> QED BY <1>0, <1>6, <2>1, <3>1 DEF Noted
  <2>2. ASSUME NEW g \in Members(tray'), item'[g].is \in {"uploading", "ready"}, item'[g].s # 0
        PROVE  item'[g].s \in pending'
    <3>1. g \in Members(tray) /\ g \notin mine /\ g \in Files /\ item'[g] = item[g]
      BY <1>2, <1>7, <1>8
    <3>2. item[g].s \in pending /\ fileOf[item[g].s] = g
      BY <1>0, <1>2, <2>2, <3>1 DEF Noted
    <3> QED BY <1>5, <1>6, <3>1, <3>2
  <2> QED BY <1>6, <2>1, <2>2 DEF Noted
<1> QED BY <1>9, <1>10, <1>11, <1>13, <1>14, <1>15, <1>16 DEF TrayIInv

\* Send is pressed: one press takes the ready items.
LEMMA DoSendHolds ==
  ASSUME TrayIInv, NEW P \in SUBSET Presses, DoSend(P)
  PROVE  TrayIInv'
<1>0. /\ TrayTypes /\ ItemsAreSound /\ PressesAreSound /\ SentIsGone
      /\ SentOnce /\ LockedIsDriven /\ Noted
  BY DEF TrayIInv
<1>1. PICK L \in Latched(P), q \in Kept(Ready) :
        press' = [c \in Presses |-> IF c \in L THEN Begun(q) ELSE press[c]]
  BY DEF DoSend
<1>2. PICK c \in Presses : L = {c} /\ ~inFlight
  BY <1>1 DEF Latched
<1>3. /\ \A d \in Presses : press[d].at = "idle"
      /\ inFlight' = TRUE /\ item' = Patched(Ready, "sending")
      /\ UNCHANGED <<tray, run, pending, fileOf, sent, removed, stray>>
  BY <1>0, <1>2 DEF DoSend, PressesAreSound
<1>4. \A f \in Files : /\ f \in Members(tray) <=> item[f].is \notin {"new", "gone"}
                       /\ f \in Members(tray) <=> InTray(f)
                       /\ item[f].s # 0 => item[f].s \in DOMAIN fileOf /\ fileOf[item[f].s] = f
                       /\ item[f].is = "ready" => item[f].s # 0 /\ run[f].at = "none"
                       /\ item[f] \in ItemRows
  BY <1>0 DEF ItemsAreSound, ItemSound, InTray, Members, TrayTypes
<1>5. /\ Ready \subseteq Members(tray) /\ Members(tray) \subseteq Files
      /\ \A f \in Files : f \in Ready <=> item[f].is = "ready"
  BY <1>0, <1>4 DEF Ready, Members, TrayTypes
<1>6. /\ q \in Seq(Files) /\ Members(q) = Ready
      /\ \A i, j \in DOMAIN q : q[i] = q[j] => i = j
  BY <1>0, <1>1, <1>5, KeptIs DEF TrayTypes
<1>7. /\ item' \in [Files -> ItemRows]
      /\ \A f \in Ready : item'[f].is = "sending" /\ item'[f].s = item[f].s
      /\ \A f \in Files \ Ready : item'[f] = item[f]
  <2>1. item' = [f \in Files |-> IF f \in Ready /\ InTray(f) THEN [item[f] EXCEPT !.is = "sending"]
                                 ELSE item[f]]
    BY <1>3 DEF Patched
  <2>2. \A f \in Files : [item[f] EXCEPT !.is = "sending"] \in ItemRows
    BY <1>4 DEF ItemRows
  <2>3. \A f \in Files : [item[f] EXCEPT !.is = "sending"].is = "sending"
                         /\ [item[f] EXCEPT !.is = "sending"].s = item[f].s
    BY <1>4 DEF ItemRows
  <2> QED BY <1>4, <1>5, <2>1, <2>2, <2>3
<1> PICK p : p = Begun(q)
  OBVIOUS
<1>8. /\ p.at = "refresh" /\ p.list = q /\ p.use = <<>> /\ p.stale = FALSE
      /\ p.had = [i \in DOMAIN q |-> item[q[i]].s] /\ p \in PressRows /\ p.had \in Seq(Nat)
  <2>1. [i \in DOMAIN q |-> item[q[i]].s] \in Seq(Nat)
    <3>1. \A i \in DOMAIN q : item[q[i]].s \in Nat
      BY <1>4, <1>6 DEF ItemRows
    <3> QED BY <1>6, <3>1
  <2>2. <<>> \in Seq(Nat)
    OBVIOUS
  <2> QED BY <1>6, <2>1, <2>2 DEF Begun, PressRows
<1>9. press'[c] = p /\ \A d \in Presses \ {c} : press'[d] = press[d]
  BY <1>1, <1>2
<1>10. TrayTypes'
  <2>1. press' \in [Presses -> PressRows]
    BY <1>0, <1>1, <1>8 DEF TrayTypes
  <2> QED BY <1>0, <1>3, <1>7, <2>1 DEF TrayTypes
<1>11. ItemsAreSound'
  <2> SUFFICES ASSUME NEW g \in Files PROVE ItemSound(g)'
    BY DEF ItemsAreSound
  <2>1. ItemSound(g) /\ (InTray(g)' <=> InTray(g))
    BY <1>0, <1>3 DEF ItemsAreSound, InTray
  <2>2. CASE g \in Ready
    BY <1>3, <1>4, <1>5, <1>7, <2>1, <2>2 DEF ItemSound
  <2>3. CASE g \notin Ready
    BY <1>3, <1>7, <2>1, <2>3 DEF ItemSound
  <2> QED BY <2>2, <2>3
<1>12. \A i \in DOMAIN q : q[i] \in Ready /\ q[i] \in Files
  BY <1>6 DEF Members
<1>13. ListSound(p)'
  <2>1. Len(p.had) = Len(q) /\ Len(p.use) = 0 /\ DOMAIN p.use = {} /\ Len(q) \in Nat
    BY <1>6, <1>8
  <2>2. \A i \in DOMAIN q : p.had[i] \in DOMAIN fileOf /\ fileOf[p.had[i]] = q[i]
    BY <1>4, <1>5, <1>8, <1>12
  <2> QED BY <1>3, <1>6, <1>8, <2>1, <2>2 DEF ListSound
<1>14. ItemsFollow(p)'
  <2>1. \A i \in DOMAIN q : i \in Nat \ {0} /\ Len(p.use) = 0
    BY <1>6, <1>8
  <2>2. \A i \in DOMAIN q : ~(i <= Len(p.use))
    BY <2>1
  <2>3. \A i \in DOMAIN q : item'[q[i]].is = "sending" /\ item'[q[i]].s = p.had[i]
    BY <1>7, <1>8, <1>12
  <2> QED BY <1>8, <2>2, <2>3 DEF ItemsFollow
<1>15. PressesAreSound'
  <2>1. inFlight' /\ press'[c] = p /\ \A d \in Presses \ {c} : press'[d].at = "idle"
    BY <1>3, <1>9
  <2> QED BY <1>13, <1>14, <2>1 DEF PressesAreSound
<1>16. \A f \in Files : item'[f].is = "gone" <=> item[f].is = "gone"
  BY <1>5, <1>7
<1>17. SentIsGone' /\ SentOnce'
  <2>1. \A m \in sent : \A s \in m : fileOf[s] \in Files
    BY <1>0 DEF TrayTypes
  <2> QED BY <1>0, <1>3, <1>16, <2>1 DEF SentIsGone, SentOnce
<1>18. LockedIsDriven'
  <2> SUFFICES ASSUME NEW g \in Files, item'[g].is = "sending"
               PROVE  p.at # "idle" /\ ~p.stale /\ g \in Members(p.list)
    BY <1>9 DEF LockedIsDriven
  <2>1. item[g].is # "sending"
    BY <1>0, <1>3 DEF LockedIsDriven
  <2>2. g \in Ready
    BY <1>7, <2>1
  <2> QED BY <1>6, <1>8, <2>2
<1>19. Noted'
  <2>1. \A g \in Members(tray) : /\ item'[g].s = item[g].s
                                 /\ item'[g].is \in {"uploading", "ready"} => item'[g] = item[g]
    BY <1>5, <1>7
  <2> QED BY <1>0, <1>3, <2>1 DEF Noted
<1> QED BY <1>10, <1>11, <1>15, <1>17, <1>18, <1>19 DEF TrayIInv

\* The user moves on, or the page is loaded again: the items are left behind.
LEMMA LeftBehindHolds ==
  ASSUME TrayIInv, Reset \/ Reload
  PROVE  TrayIInv'
<1>0. /\ TrayTypes /\ ItemsAreSound /\ PressesAreSound /\ SentIsGone
      /\ SentOnce /\ LockedIsDriven /\ Noted
  BY DEF TrayIInv
<1>1. /\ LeftBehind /\ pending' \subseteq pending /\ UNCHANGED <<fileOf, sent, stray>>
      /\ tray' = <<>> /\ removed' = removed \cup Members(tray)
  BY DEF Reset, Reload, LeftBehind
<1>2. \A f \in Files : /\ f \in Members(tray) <=> item[f].is \notin {"new", "gone"}
                       /\ f \in Members(tray) <=> InTray(f)
                       /\ item[f].is \in {"new", "gone"} => item[f].s = 0
  BY <1>0 DEF ItemsAreSound, ItemSound, InTray, Members
<1>3. /\ item' \in [Files -> ItemRows]
      /\ \A f \in Files : /\ f \in Members(tray) => item'[f].is = "gone" /\ item'[f].s = 0
                          /\ f \notin Members(tray) => item'[f] = item[f]
  <2>1. item' = [f \in Files |-> IF InTray(f) THEN [is |-> "gone", s |-> 0] ELSE item[f]]
    BY <1>1 DEF LeftBehind
  <2>2. [is |-> "gone", s |-> 0] \in ItemRows /\ item \in [Files -> ItemRows]
    BY <1>0 DEF ItemRows, TrayTypes
  <2> QED BY <1>2, <2>1, <2>2
<1>4. /\ run' \in [Files -> RunRows] /\ \A f \in Files : run'[f] = run[f] \/ run'[f].at = "none"
      /\ press' \in [Presses -> PressRows] /\ inFlight' \in BOOLEAN
  <2>1. NoRun \in RunRows /\ NoRun.at = "none" /\ NoPress \in PressRows
    BY DEF NoRun, RunRows, NoPress, PressRows
  <2>2. CASE Reload
    BY <1>0, <2>1, <2>2 DEF Reload, TrayTypes
  <2>3. CASE Reset
    <3>1. \A c \in Presses : [press[c] EXCEPT !.stale = (press[c].at # "idle")] \in PressRows
      BY Zenon, <1>0 DEF TrayTypes, PressRows
    <3> QED BY <1>0, <2>3, <3>1 DEF Reset, Stale, TrayTypes
  <2> QED BY <2>2, <2>3
<1>5. TrayTypes' /\ Members(tray') = {}
  <2>1. <<>> \in Seq(Files)
    OBVIOUS
  <2>2. tray' \in Seq(Files)
    BY <1>1, <2>1
  <2>3. Members(tray') = {}
    BY <1>1 DEF Members
  <2> QED BY <1>0, <1>1, <1>3, <1>4, <2>2, <2>3 DEF TrayTypes
<1>6. ItemsAreSound'
  <2> SUFFICES ASSUME NEW g \in Files PROVE ItemSound(g)'
    BY DEF ItemsAreSound
  <2>1. ItemSound(g) /\ ~InTray(g)'
    BY <1>0, <1>5 DEF ItemsAreSound, InTray, Members
  <2>2. run'[g] = run[g] \/ run'[g].at = "none"
    BY <1>4
  <2>3. CASE g \in Members(tray)
    BY <1>3, <2>1, <2>3 DEF ItemSound
  <2>4. CASE g \notin Members(tray)
    BY <1>1, <1>2, <1>3, <2>1, <2>2, <2>4 DEF ItemSound
  <2> QED BY <2>3, <2>4
<1>7. PressesAreSound'
  <2>1. CASE Reload
    BY <2>1 DEF Reload, PressesAreSound, NoPress
  <2>2. CASE Reset
    <3>1. ASSUME NEW c \in Presses, press'[c].at # "idle"
          PROVE  ListSound(press[c])' /\ ItemsFollow(press[c])' /\ press[c].at # "idle"
      <4> PICK p, q : p = press[c] /\ q = press'[c]
        OBVIOUS
      <4>1. p \in PressRows /\ q = [p EXCEPT !.stale = (p.at # "idle")]
        BY <1>0, <2>2 DEF TrayTypes, Reset, Stale
      <4>2. /\ q.at = p.at /\ q.list = p.list /\ q.had = p.had /\ q.use = p.use /\ p.at # "idle"
            /\ q.stale
        BY <3>1, <4>1 DEF PressRows
      <4>3. /\ ListSound(p) /\ ItemsFollow(p) /\ p.list \in Seq(Files) /\ p.stale \in BOOLEAN
            /\ fileOf' = fileOf
        BY <1>0, <1>1, <4>1, <4>2 DEF PressesAreSound, PressRows
      <4>4. ListSound(q)'
        BY <4>2, <4>3 DEF ListSound
      <4>5. \A i \in DOMAIN p.list : p.list[i] \in Files /\ item[p.list[i]].is \in {"gone", "sending"}
        BY <4>3 DEF ItemsFollow
      <4>6. \A i \in DOMAIN p.list : item'[p.list[i]].is = "gone"
        BY <1>2, <1>3, <4>5
      <4>7. q.at = "presign" => q.had[Len(q.use) + 1] \notin pending'
        BY <1>1, <4>2, <4>3 DEF ItemsFollow
      <4>8. ItemsFollow(q)'
        BY <4>2, <4>6, <4>7 DEF ItemsFollow
      <4> QED BY <4>2, <4>4, <4>8
    <3>2. inFlight' = inFlight
      BY <2>2 DEF Reset
    <3>3. \A c \in Presses : press'[c].at # "idle" => press[c].at # "idle"
      BY <3>1
    <3>4. \A c \in Presses : press[c].at # "idle" =>
            inFlight /\ \A d \in Presses : press[d].at # "idle" => d = c
      BY <1>0 DEF PressesAreSound
    <3> QED BY <3>1, <3>2, <3>3, <3>4 DEF PressesAreSound
  <2> QED BY <2>1, <2>2
<1>8. SentIsGone' /\ SentOnce'
  <2>1. \A m \in sent : \A s \in m : fileOf[s] \in Files
    BY <1>0 DEF TrayTypes
  <2>2. SentIsGone'
    BY <1>0, <1>1, <1>3, <2>1 DEF SentIsGone
  <2>3. ASSUME NEW f \in Files, item'[f].is = "gone"
        PROVE  f \in removed' \cup {fileOf'[s] : s \in UNION sent'}
    <3>1. CASE f \in Members(tray)
      BY <1>1, <3>1
    <3>2. CASE f \notin Members(tray)
      <4>1. item[f].is = "gone"
        BY <1>3, <2>3, <3>2
      <4>2. f \in removed \cup {fileOf[s] : s \in UNION sent}
        BY <1>0, <4>1 DEF SentOnce
      <4> QED BY <1>1, <4>2
    <3> QED BY <3>1, <3>2
  <2>4. \A m, n \in sent' : m # n => {fileOf'[s] : s \in m} \cap {fileOf'[s] : s \in n} = {}
    BY <1>0, <1>1 DEF SentOnce
  <2> QED BY <2>2, <2>3, <2>4 DEF SentOnce
<1>9. LockedIsDriven'
  BY <1>2, <1>3 DEF LockedIsDriven
<1>10. Noted'
  <2>1. CASE Reload
    BY <1>5, <2>1 DEF Reload, Noted
  <2>2. CASE Reset
    <3>1. pending' = pending \ {item[f].s : f \in Members(tray)}
      BY <2>2 DEF Reset
    <3> QED BY <1>0, <1>1, <1>5, <3>1 DEF Noted
  <2> QED BY <2>1, <2>2
<1> QED BY <1>5, <1>6, <1>7, <1>8, <1>9, <1>10 DEF TrayIInv

\* A step that leaves the items, the presses and the notes alone.
LEMMA SameHolds ==
  ASSUME TrayIInv, UNCHANGED <<tray, item, run, press, inFlight, pending, fileOf, sent, removed, stray>>
  PROVE  TrayIInv'
<1>0. /\ TrayTypes /\ ItemsAreSound /\ PressesAreSound /\ SentIsGone
      /\ SentOnce /\ LockedIsDriven /\ Noted
  BY DEF TrayIInv
<1>1. TrayTypes'
  BY <1>0 DEF TrayTypes
<1>2. ItemsAreSound'
  BY <1>0 DEF ItemsAreSound, ItemSound, InTray
<1>3. \A p : /\ ListSound(p)' <=> ListSound(p)
            /\ ItemsFollow(p)' <=> ItemsFollow(p)
  BY DEF ListSound, ItemsFollow
<1>4. PressesAreSound'
  BY <1>0, <1>3 DEF PressesAreSound
<1>5. SentIsGone' /\ SentOnce'
  BY <1>0 DEF SentIsGone, SentOnce
<1>6. LockedIsDriven' /\ Noted'
  BY <1>0 DEF LockedIsDriven, Noted
<1> QED BY <1>1, <1>2, <1>4, <1>5, <1>6 DEF TrayIInv

\* TrayIInv is an invariant of UploadTray.
LEMMA TrayAlways == TraySpec => []TrayIInv
<1>1. ASSUME TrayIInv, TrayNext PROVE TrayIInv'
  <2>1. ASSUME NEW f \in Files, AddFile(f) \/ RunPresigned(f) \/ RunStored(f) \/ RunFails(f)
                               \/ RemoveItem(f) \/ RetryItem(f)
        PROVE  TrayIInv'
    BY <1>1, <2>1, FileHolds
  <2>2. ASSUME NEW s \in 1..MaxSessions, Expiring(s) PROVE TrayIInv'
    BY <1>1, <2>2, SameHolds DEF Expiring
  <2>3. ASSUME NEW P \in SUBSET Presses \ {{}}, DoSend(P) PROVE TrayIInv'
    BY <1>1, <2>3, DoSendHolds
  <2>4. ASSUME NEW c \in Presses, Bail(c) \/ Refresh(c) \/ RefreshPresigned(c) \/ RefreshStored(c)
                                  \/ RefreshFails(c) \/ Completed(c) \/ NotCompleted(c) \/ Wake(c)
        PROVE  TrayIInv'
    BY <1>1, <2>4, StepHolds, RefreshPresignedHolds, CompletedHolds
  <2>5. CASE Reset \/ Reload
    BY <1>1, <2>5, LeftBehindHolds
  <2> QED BY <1>1, <2>1, <2>2, <2>3, <2>4, <2>5 DEF TrayNext
<1>2. TrayIInv /\ UNCHANGED trayVars => TrayIInv'
  BY SameHolds DEF trayVars
<1> QED BY <1>1, <1>2, TrayInitHolds, PTL DEF TraySpec

\* A file is in one message at most and none is lost, a locked card belongs to a call that
\* will unlock it, and the sessions noted are those of the tray (the latch and the
\* generation of useAttachmentUpload.ts:214-223, and the notes of lines 246-249).
THEOREM TrayHolds == TraySpec => []TraySound
<1>1. TrayIInv => TraySound
  BY DEF TrayIInv, Noted, NotedIsInTray, TraySound
<1> QED BY <1>1, TrayAlways, PTL

\* The tray holds a file once.
TrayIsASet == Len(tray) = Cardinality(Members(tray))

\* What has been begun of a session is of one that there is, a press that sleeps has
\* a try left, and what was sent was completed.
RunIsTyped(f) ==
  run[f].s \in {0} \cup DOMAIN fileOf /\ (run[f].at = "store" => run[f].s # 0)
PressIsTyped(c) ==
  /\ press[c].try <= MaxAttempts /\ (press[c].at = "sleep" => press[c].try < MaxAttempts)
  /\ press[c].at = "store" => Len(press[c].use) # 0
SessionsAreThere == stored \cup old \cup done \cup stray \subseteq DOMAIN fileOf
SentIsDone == sent \subseteq SUBSET done /\ removed \subseteq Files

TrayMore ==
  /\ TrayIsASet /\ (\A f \in Files : RunIsTyped(f)) /\ (\A c \in Presses : PressIsTyped(c))
  /\ SessionsAreThere /\ SentIsDone

\* A list that is kept has as many items as its set.
LEMMA KeptIsASet ==
  ASSUME TrayIInv, NEW S \in SUBSET Members(tray), NEW q \in Kept(S)
  PROVE  Len(q) = Cardinality(Members(q))
<1>1. tray \in Seq(Files)
  BY DEF TrayIInv, TrayTypes
<1>2. Members(tray) \subseteq Files
  BY <1>1 DEF Members
<1>3. Cardinality(S) \in Nat
  BY <1>2, UploadTrayAssumption, FS_Subset, FS_CardinalityType
<1>4. q \in [1..Cardinality(S) -> S] /\ q \in Seq(Files)
  BY <1>1, KeptIs DEF Kept
<1>5. Len(q) = Cardinality(S)
  BY <1>3, <1>4
<1>6. Members(q) = S
  BY <1>1, KeptIs
<1> QED BY <1>5, <1>6

\* The tray stays a set of files.
LEMMA TrayStaysASet == ASSUME TrayIInv, TrayIsASet, TrayNext PROVE TrayIsASet'
<1>0. tray \in Seq(Files) /\ ItemsAreSound
  BY DEF TrayIInv, TrayTypes
<1>1. ASSUME tray' = tray PROVE TrayIsASet'
  BY <1>1 DEF TrayIsASet, Members
<1>2. ASSUME tray' = <<>> PROVE TrayIsASet'
  <2>1. Members(tray') = {} /\ Len(tray') = 0
    BY <1>2 DEF Members
  <2> QED BY <2>1, FS_EmptySet DEF TrayIsASet
<1>3. ASSUME NEW S \in SUBSET Members(tray), tray' \in Kept(S) PROVE TrayIsASet'
  BY <1>3, KeptIsASet DEF TrayIsASet
<1>4. ASSUME NEW f \in Files, AddFile(f) PROVE TrayIsASet'
  <2>1. tray' = Append(tray, f) /\ f \notin Members(tray)
    BY <1>0, <1>4 DEF AddFile, ItemsAreSound, ItemSound, InTray, Members
  <2>2. /\ Len(tray') = Len(tray) + 1 /\ DOMAIN tray' = DOMAIN tray \cup {Len(tray) + 1}
        /\ \A k \in DOMAIN tray : tray'[k] = tray[k]
        /\ tray'[Len(tray) + 1] = f
    BY <1>0, <2>1, AppendIs
  <2>3. Members(tray') = Members(tray) \cup {f}
    BY <2>2 DEF Members
  <2>4. IsFiniteSet(Members(tray))
    <3>1. Members(tray) \in SUBSET Files
      BY <1>0 DEF Members
    <3> QED BY <3>1, UploadTrayAssumption, FS_Subset
  <2>5. Cardinality(Members(tray) \cup {f}) = Cardinality(Members(tray)) + 1
    BY <2>1, <2>4, FS_AddElement
  <2> QED BY <2>2, <2>3, <2>5 DEF TrayIsASet
<1>5. ASSUME NEW f \in Files, RunPresigned(f) \/ RunStored(f) \/ RunFails(f) \/ RetryItem(f)
      PROVE  TrayIsASet'
  BY <1>1, <1>5 DEF RunPresigned, RunStored, RunFails, RetryItem
<1>6. ASSUME NEW f \in Files, RemoveItem(f) PROVE TrayIsASet'
  BY <1>3, <1>6 DEF RemoveItem
<1>7. ASSUME NEW s \in 1..MaxSessions, Expiring(s) PROVE TrayIsASet'
  BY <1>1, <1>7 DEF Expiring
<1>8. ASSUME NEW P \in SUBSET Presses \ {{}}, DoSend(P) PROVE TrayIsASet'
  BY <1>1, <1>8 DEF DoSend
<1>9. ASSUME NEW c \in Presses,
             \/ Bail(c) \/ Refresh(c) \/ RefreshPresigned(c) \/ RefreshStored(c) \/ RefreshFails(c)
             \/ NotCompleted(c) \/ Wake(c)
      PROVE  TrayIsASet'
  BY <1>1, <1>9 DEF Bail, Refresh, RefreshPresigned, RefreshStored, RefreshFails, NotCompleted, Wake
<1>10. ASSUME NEW c \in Presses, Completed(c) PROVE TrayIsASet'
  BY <1>1, <1>3, <1>10 DEF Completed, ClearConfirmed
<1>11. ASSUME Reset \/ Reload PROVE TrayIsASet'
  BY <1>2, <1>11 DEF Reset, Reload, LeftBehind
<1> QED BY <1>4, <1>5, <1>6, <1>7, <1>8, <1>9, <1>10, <1>11 DEF TrayNext

\* The server's sessions are never fewer.
LEMMA SessionsGrow ==
  ASSUME TrayIInv, TrayNext
  PROVE  DOMAIN fileOf \subseteq DOMAIN fileOf' /\ fileOf' \in Seq(Files)
<1>0. fileOf \in Seq(Files)
  BY DEF TrayIInv, TrayTypes
<1>1. ASSUME NEW f \in Files, Presign(f) PROVE DOMAIN fileOf \subseteq DOMAIN fileOf' /\ fileOf' \in Seq(Files)
  BY <1>1, PresignEffects
<1>2. ASSUME UNCHANGED fileOf PROVE DOMAIN fileOf \subseteq DOMAIN fileOf' /\ fileOf' \in Seq(Files)
  BY <1>0, <1>2
<1>3. ASSUME NEW f \in Files, AddFile(f) \/ RunStored(f) \/ RunFails(f) \/ RemoveItem(f) \/ RetryItem(f)
      PROVE  UNCHANGED fileOf
  BY <1>3 DEF AddFile, RunStored, RunFails, RemoveItem, RetryItem
<1>4. ASSUME \/ \E s \in 1..MaxSessions : Expiring(s)
             \/ \E P \in SUBSET Presses \ {{}} : DoSend(P)
             \/ Reset \/ Reload
      PROVE  UNCHANGED fileOf
  BY <1>4 DEF Expiring, DoSend, Reset, Reload
<1>5. ASSUME NEW c \in Presses,
             \/ Bail(c) \/ Refresh(c) \/ RefreshStored(c) \/ RefreshFails(c) \/ Completed(c)
             \/ NotCompleted(c) \/ Wake(c)
      PROVE  UNCHANGED fileOf
  BY <1>5 DEF Bail, Refresh, RefreshStored, RefreshFails, Completed, NotCompleted, Wake
<1>6. ASSUME NEW c \in Presses, RefreshPresigned(c) PROVE \E f \in Files : Presign(f)
  <2>1. press[c].at # "idle"
    BY <1>6 DEF RefreshPresigned
  <2> PICK p : p = press[c]
    OBVIOUS
  <2>2. ListSound(p) /\ p.list \in Seq(Files) /\ p.use \in Seq(Nat)
    BY <2>1, RunningFacts
  <2>3. Len(p.use) + 1 \in DOMAIN p.list
    BY <1>6, <2>2 DEF ListSound, RefreshPresigned
  <2> QED BY <1>6, <2>2, <2>3 DEF RefreshPresigned
<1> QED BY <1>1, <1>2, <1>3, <1>4, <1>5, <1>6 DEF TrayNext, RunPresigned

\* An upload stores the session it asked for.
LEMMA RunsStayTyped ==
  ASSUME TrayIInv, \A f \in Files : RunIsTyped(f), TrayNext
  PROVE  \A f \in Files : RunIsTyped(f)'
<1>0. /\ run \in [Files -> RunRows] /\ DOMAIN fileOf \subseteq DOMAIN fileOf' /\ fileOf \in Seq(Files)
  BY SessionsGrow DEF TrayIInv, TrayTypes
<1>1. ASSUME NEW f \in Files,
             run'[f] = run[f] \/ run'[f] = NoRun \/ run'[f] = [at |-> "presign", s |-> 0]
      PROVE  RunIsTyped(f)'
  <2>1. RunIsTyped(f)
    OBVIOUS
  <2> QED BY <1>0, <1>1, <2>1 DEF RunIsTyped, NoRun
<1>2. ASSUME NEW f \in Files, AddFile(f) \/ RunStored(f) \/ RunFails(f) \/ RemoveItem(f) \/ RetryItem(f)
      PROVE  \A g \in Files : RunIsTyped(g)'
  <2>1. \A g \in Files : run'[g] = run[g] \/ run'[g] = NoRun \/ run'[g] = [at |-> "presign", s |-> 0]
    BY <1>0, <1>2 DEF AddFile, RunStored, RunFails, RemoveItem, RetryItem
  <2> QED BY <1>1, <2>1
<1>3. ASSUME NEW f \in Files, RunPresigned(f) PROVE \A g \in Files : RunIsTyped(g)'
  <2>1. run' = [run EXCEPT ![f] = [at |-> "store", s |-> Len(fileOf) + 1]] /\ Presign(f)
    BY <1>3 DEF RunPresigned
  <2>2. Len(fileOf) + 1 \in DOMAIN fileOf' /\ Len(fileOf) + 1 # 0
    BY <2>1, PresignEffects
  <2>3. \A g \in Files : g # f => run'[g] = run[g]
    BY <1>0, <2>1
  <2>4. run'[f].s = Len(fileOf) + 1
    BY <1>0, <2>1
  <2>5. RunIsTyped(f)'
    BY <2>2, <2>4 DEF RunIsTyped
  <2> QED BY <1>1, <2>3, <2>5
<1>4. ASSUME UNCHANGED run PROVE \A g \in Files : RunIsTyped(g)'
  BY <1>1, <1>4
<1>5. ASSUME (\E s \in 1..MaxSessions : Expiring(s)) \/ (\E P \in SUBSET Presses \ {{}} : DoSend(P)) \/ Reset
      PROVE  UNCHANGED run
  BY <1>5 DEF Expiring, DoSend, Reset
<1>6. ASSUME NEW c \in Presses,
             \/ Bail(c) \/ Refresh(c) \/ RefreshPresigned(c) \/ RefreshStored(c) \/ RefreshFails(c)
             \/ Completed(c) \/ NotCompleted(c) \/ Wake(c)
      PROVE  UNCHANGED run
  BY <1>6 DEF Bail, Refresh, RefreshPresigned, RefreshStored, RefreshFails, Completed, NotCompleted, Wake
<1>7. ASSUME Reload PROVE \A g \in Files : RunIsTyped(g)'
  <2>1. \A g \in Files : run'[g] = NoRun
    BY <1>7 DEF Reload
  <2> QED BY <1>1, <2>1
<1> QED BY <1>2, <1>3, <1>4, <1>5, <1>6, <1>7 DEF TrayNext

\* A press tries as often as it may, and stores what it asked for.
LEMMA PressesStayTyped ==
  ASSUME TrayIInv, \A c \in Presses : PressIsTyped(c), TrayNext
  PROVE  \A c \in Presses : PressIsTyped(c)'
<1>0. /\ press \in [Presses -> PressRows] /\ MaxAttempts \in Nat \ {0}
      /\ \A c \in Presses : press[c] \in PressRows
  BY UploadTrayAssumption DEF TrayIInv, TrayTypes
<1>1. ASSUME NEW c \in Presses,
             \/ press'[c] = press[c]
             \/ press'[c].at \notin {"sleep", "store"} /\ press'[c].try \in {0, 1, press[c].try}
      PROVE  PressIsTyped(c)'
  <2>1. PressIsTyped(c) /\ press[c].try \in Nat
    BY <1>0 DEF PressRows
  <2> QED BY <1>0, <1>1, <2>1 DEF PressIsTyped
<1>2. ASSUME NEW c \in Presses, press' = [press EXCEPT ![c] = NoPress]
      PROVE  \A d \in Presses : PressIsTyped(d)'
  <2>1. \A d \in Presses : d # c => press'[d] = press[d]
    BY <1>0, <1>2
  <2>2. press'[c].at = "idle" /\ press'[c].try = 0
    BY <1>0, <1>2 DEF NoPress
  <2> QED BY <1>1, <2>1, <2>2
<1>3. ASSUME NEW c \in Presses, NEW at, NEW use, NEW try, GetsOn(c, at, use, try),
             try \in Nat, try <= MaxAttempts, at = "sleep" => try < MaxAttempts,
             at = "store" => Len(use) # 0
      PROVE  \A d \in Presses : PressIsTyped(d)'
  <2>1. \A d \in Presses : d # c => press'[d] = press[d]
    BY <1>0, <1>3 DEF GetsOn
  <2>2. press'[c].at = at /\ press'[c].use = use /\ press'[c].try = try
    BY <1>0, <1>3 DEF GetsOn
  <2>3. PressIsTyped(c)'
    BY <1>3, <2>2 DEF PressIsTyped
  <2> QED BY <1>1, <2>1, <2>3
<1>4. \A c \in Presses : press[c].try \in Nat /\ press[c].try <= MaxAttempts
  BY <1>0 DEF PressRows, PressIsTyped
<1>5. ASSUME UNCHANGED press PROVE \A d \in Presses : PressIsTyped(d)'
  BY <1>1, <1>5
<1>6. ASSUME NEW f \in Files, AddFile(f) \/ RunPresigned(f) \/ RunStored(f) \/ RunFails(f)
                              \/ RemoveItem(f) \/ RetryItem(f)
      PROVE  \A d \in Presses : PressIsTyped(d)'
  BY <1>5, <1>6 DEF AddFile, RunPresigned, RunStored, RunFails, RemoveItem, RetryItem
<1>7. ASSUME NEW s \in 1..MaxSessions, Expiring(s) PROVE \A d \in Presses : PressIsTyped(d)'
  BY <1>5, <1>7 DEF Expiring
<1>8. ASSUME NEW P \in SUBSET Presses \ {{}}, DoSend(P) PROVE \A d \in Presses : PressIsTyped(d)'
  <2>1. PICK L, q : press' = [c \in Presses |-> IF c \in L THEN Begun(q) ELSE press[c]]
    BY <1>8 DEF DoSend
  <2>2. \A c \in Presses : press'[c] = press[c] \/ (press'[c].at = "refresh" /\ press'[c].try = 1)
    BY <2>1 DEF Begun
  <2> QED BY <1>1, <2>2
<1>9. ASSUME NEW c \in Presses, Bail(c) \/ Completed(c) \/ RefreshFails(c)
      PROVE  \A d \in Presses : PressIsTyped(d)'
  BY <1>2, <1>9 DEF Bail, Completed, RefreshFails, Failed
<1>10. ASSUME NEW c \in Presses, Refresh(c) PROVE \A d \in Presses : PressIsTyped(d)'
  <2>1. PICK at, use : at \in {"ask", "refresh", "presign"} /\ GetsOn(c, at, use, press[c].try)
    BY <1>10 DEF Refresh
  <2> QED BY <1>3, <1>4, <2>1
<1>11. ASSUME NEW c \in Presses, RefreshPresigned(c) PROVE \A d \in Presses : PressIsTyped(d)'
  <2> PICK u, e, use : u = press[c].use /\ e = Len(fileOf) + 1 /\ use = Append(u, e)
    OBVIOUS
  <2>1. u \in Seq(Nat) /\ e \in Nat
    BY <1>0 DEF TrayIInv, TrayTypes, PressRows
  <2>2. Len(use) # 0
    BY <2>1, AppendIs
  <2>3. GetsOn(c, "store", use, press[c].try)
    BY <1>11 DEF RefreshPresigned
  <2> QED BY <1>3, <1>4, <2>2, <2>3
<1>12. ASSUME NEW c \in Presses, RefreshStored(c) PROVE \A d \in Presses : PressIsTyped(d)'
  BY <1>3, <1>4, <1>12 DEF RefreshStored
<1>13. ASSUME NEW c \in Presses, NotCompleted(c) PROVE \A d \in Presses : PressIsTyped(d)'
  <2>1. CASE press[c].try < MaxAttempts
    <3>1. GetsOn(c, "sleep", press[c].use, press[c].try)
      BY <1>13, <2>1 DEF NotCompleted
    <3> QED BY <1>3, <1>4, <2>1, <3>1
  <2>2. CASE ~(press[c].try < MaxAttempts)
    BY <1>2, <1>13, <2>2 DEF NotCompleted, Failed
  <2> QED BY <2>1, <2>2
<1>14. ASSUME NEW c \in Presses, Wake(c) PROVE \A d \in Presses : PressIsTyped(d)'
  <2>1. GetsOn(c, "ask", press[c].use, press[c].try + 1) /\ press[c].at = "sleep"
    BY <1>14 DEF Wake
  <2>2. press[c].try + 1 \in Nat /\ press[c].try + 1 <= MaxAttempts
    BY <1>0, <1>4, <2>1 DEF PressIsTyped
  <2> QED BY <1>3, <2>1, <2>2
<1>15. ASSUME Reset PROVE \A d \in Presses : PressIsTyped(d)'
  <2>1. \A d \in Presses : press'[d] = [press[d] EXCEPT !.stale = (press[d].at # "idle")]
    BY <1>15 DEF Reset, Stale
  <2>2. ASSUME NEW d \in Presses PROVE PressIsTyped(d)'
    <3>1. press'[d].at = press[d].at /\ press'[d].try = press[d].try /\ press'[d].use = press[d].use
      BY Zenon, <1>0, <2>1 DEF PressRows
    <3>2. PressIsTyped(d)
      OBVIOUS
    <3> QED BY <3>1, <3>2 DEF PressIsTyped
  <2> QED BY <2>2
<1>16. ASSUME Reload PROVE \A d \in Presses : PressIsTyped(d)'
  <2>1. \A d \in Presses : press'[d].at = "idle" /\ press'[d].try = 0
    BY <1>16 DEF Reload, NoPress
  <2> QED BY <1>1, <2>1
<1> QED BY <1>6, <1>7, <1>8, <1>9, <1>10, <1>11, <1>12, <1>13, <1>14, <1>15, <1>16 DEF TrayNext

\* What is stored, old, completed or stray is a session that the server has given.
LEMMA SessionsStayThere ==
  ASSUME TrayIInv, TrayMore, TrayNext
  PROVE  SessionsAreThere'
<1>0. /\ TrayTypes /\ ItemsAreSound /\ DOMAIN fileOf \subseteq DOMAIN fileOf'
      /\ stored \subseteq DOMAIN fileOf /\ old \subseteq DOMAIN fileOf
      /\ done \subseteq DOMAIN fileOf /\ stray \subseteq DOMAIN fileOf
  BY SessionsGrow DEF TrayIInv, TrayMore, SessionsAreThere
<1>1. ASSUME stored' \cup old' \cup done' \cup stray' \subseteq
               stored \cup old \cup done \cup stray \cup DOMAIN fileOf \cup DOMAIN fileOf'
      PROVE  SessionsAreThere'
  BY <1>0, <1>1 DEF SessionsAreThere
<1>2. ASSUME NEW f \in Files, AddFile(f) \/ RunFails(f) \/ RemoveItem(f) PROVE SessionsAreThere'
  BY <1>1, <1>2 DEF AddFile, RunFails, RemoveItem
<1>3. ASSUME NEW f \in Files, Presign(f), UNCHANGED <<stored, old, done>> PROVE SessionsAreThere'
  <2>1. stray' \subseteq stray \cup DOMAIN fileOf'
    <3>1. stray' = stray \/ stray' = stray \cup {Len(fileOf) + 1}
      BY <1>3 DEF Presign
    <3>2. Len(fileOf) + 1 \in DOMAIN fileOf'
      BY <1>3, PresignEffects
    <3> QED BY <3>1, <3>2
  <2> QED BY <1>0, <1>3, <2>1 DEF SessionsAreThere
<1>4. ASSUME NEW f \in Files, RunPresigned(f) PROVE SessionsAreThere'
  BY <1>3, <1>4 DEF RunPresigned
<1>5. ASSUME NEW f \in Files, RunStored(f) PROVE SessionsAreThere'
  <2>1. run[f].s \in DOMAIN fileOf
    BY <1>5 DEF RunStored, TrayMore, RunIsTyped
  <2>2. stored' = stored \cup {run[f].s} /\ UNCHANGED <<old, done, stray>>
    BY <1>5 DEF RunStored
  <2> QED BY <1>1, <2>1, <2>2
<1>6. ASSUME NEW f \in Files, RetryItem(f) PROVE SessionsAreThere'
  <2>1. stray' = stray \cup ({item[f].s} \ {0}) /\ UNCHANGED <<stored, old, done>>
    BY <1>6 DEF RetryItem
  <2>2. item[f].s # 0 => item[f].s \in DOMAIN fileOf
    BY <1>0 DEF ItemsAreSound, ItemSound
  <2> QED BY <1>1, <2>1, <2>2
<1>7. ASSUME NEW s \in 1..MaxSessions, Expiring(s) PROVE SessionsAreThere'
  BY <1>1, <1>7 DEF Expiring
<1>8. ASSUME NEW P \in SUBSET Presses \ {{}}, DoSend(P) PROVE SessionsAreThere'
  BY <1>1, <1>8 DEF DoSend
<1>9. ASSUME NEW c \in Presses, Bail(c) \/ Refresh(c) \/ RefreshFails(c) \/ Wake(c)
      PROVE  SessionsAreThere'
  BY <1>1, <1>9 DEF Bail, Refresh, RefreshFails, Wake
<1>10. ASSUME NEW c \in Presses, RefreshPresigned(c) PROVE SessionsAreThere'
  <2>1. press[c].at # "idle" /\ UNCHANGED <<stored, old, done>>
    BY <1>10 DEF RefreshPresigned
  <2> PICK p : p = press[c]
    OBVIOUS
  <2>2. ListSound(p) /\ p.list \in Seq(Files) /\ p.use \in Seq(Nat)
    BY <2>1, RunningFacts
  <2>3. Len(p.use) + 1 \in DOMAIN p.list
    BY <1>10, <2>2 DEF ListSound, RefreshPresigned
  <2>4. p.list[Len(p.use) + 1] \in Files /\ Presign(p.list[Len(p.use) + 1])
    BY <1>10, <2>2, <2>3 DEF RefreshPresigned
  <2> QED BY <1>3, <2>1, <2>4
<1>11. ASSUME NEW c \in Presses, press[c].at # "idle"
       PROVE  \A i \in DOMAIN press[c].use : press[c].use[i] \in DOMAIN fileOf
  BY <1>11, RunningFacts DEF ListSound
<1>12. ASSUME NEW c \in Presses, RefreshStored(c) PROVE SessionsAreThere'
  <2> PICK u : u = press[c].use
    OBVIOUS
  <2>1. /\ press[c].at = "store" /\ stored' = stored \cup {u[Len(u)]} /\ UNCHANGED <<old, done, stray>>
    BY <1>12 DEF RefreshStored
  <2>2. u \in Seq(Nat) /\ Len(u) # 0
    BY <1>0, <2>1 DEF TrayTypes, PressRows, TrayMore, PressIsTyped
  <2>3. Len(u) \in DOMAIN u
    BY <2>2
  <2>4. u[Len(u)] \in DOMAIN fileOf
    BY <1>11, <2>1, <2>3
  <2> QED BY <1>1, <2>1, <2>4
<1>13. ASSUME NEW c \in Presses, Completed(c) \/ NotCompleted(c) PROVE SessionsAreThere'
  <2>1. PICK n : Completes(c, n)
    BY <1>13 DEF Completed, NotCompleted
  <2>2. done' \subseteq done \cup stored
    BY <2>1 DEF Completes
  <2>3. UNCHANGED <<stored, old, stray>>
    BY <1>13 DEF Completed, NotCompleted
  <2> QED BY <1>1, <2>2, <2>3
<1>14. ASSUME Reset \/ Reload PROVE SessionsAreThere'
  BY <1>1, <1>14 DEF Reset, Reload
<1> QED BY <1>2, <1>4, <1>5, <1>6, <1>7, <1>8, <1>9, <1>10, <1>12, <1>13, <1>14 DEF TrayNext

\* A message has sessions that are completed.
LEMMA SentStaysDone ==
  ASSUME TrayIInv, SentIsDone, TrayNext
  PROVE  SentIsDone'
<1>0. sent \subseteq SUBSET done /\ removed \subseteq Files /\ tray \in Seq(Files)
  BY DEF SentIsDone, TrayIInv, TrayTypes
<1>1. ASSUME sent' = sent, done \subseteq done', removed' \subseteq removed \cup Files PROVE SentIsDone'
  BY <1>0, <1>1 DEF SentIsDone
<1>2. ASSUME NEW f \in Files, AddFile(f) \/ RunPresigned(f) \/ RunStored(f) \/ RunFails(f)
                              \/ RemoveItem(f) \/ RetryItem(f)
      PROVE  SentIsDone'
  BY <1>1, <1>2 DEF AddFile, RunPresigned, RunStored, RunFails, RemoveItem, RetryItem
<1>3. ASSUME (\E s \in 1..MaxSessions : Expiring(s)) \/ (\E P \in SUBSET Presses \ {{}} : DoSend(P))
      PROVE  SentIsDone'
  BY <1>1, <1>3 DEF Expiring, DoSend
<1>4. ASSUME NEW c \in Presses,
             \/ Bail(c) \/ Refresh(c) \/ RefreshPresigned(c) \/ RefreshStored(c) \/ RefreshFails(c)
             \/ Wake(c)
      PROVE  SentIsDone'
  BY <1>1, <1>4 DEF Bail, Refresh, RefreshPresigned, RefreshStored, RefreshFails, Wake
<1>5. ASSUME NEW c \in Presses, NotCompleted(c) PROVE SentIsDone'
  <2>1. \E n \in 0..Len(press[c].use) : Completes(c, n)
    BY <1>5 DEF NotCompleted
  <2>2. done \subseteq done'
    BY <2>1 DEF Completes
  <2> QED BY <1>1, <1>5, <2>2 DEF NotCompleted
<1>6. ASSUME NEW c \in Presses, Completed(c) PROVE SentIsDone'
  <2> PICK u : u = press[c].use
    OBVIOUS
  <2>1. /\ Completes(c, Len(u)) /\ press[c].at = "ask" /\ removed' = removed
        /\ sent' = sent \/ sent' = sent \cup {Members(u)}
    BY <1>6 DEF Completed
  <2>2. u \in Seq(Nat)
    BY DEF TrayIInv, TrayTypes, PressRows
  <2>3. DOMAIN u = 1..Len(u)
    BY <2>2
  <2>4. done' = done \cup {u[i] : i \in 1..Len(u)}
    BY <2>1 DEF Completes
  <2>5. Members(u) \subseteq done'
    BY <2>3, <2>4 DEF Members
  <2> QED BY <1>0, <2>1, <2>4, <2>5 DEF SentIsDone
<1>7. ASSUME Reset \/ Reload PROVE SentIsDone'
  <2>1. Members(tray) \subseteq Files
    BY <1>0 DEF Members
  <2> QED BY <1>1, <1>7, <2>1 DEF Reset, Reload, LeftBehind
<1> QED BY <1>2, <1>3, <1>4, <1>5, <1>6, <1>7 DEF TrayNext

\* UploadTray keeps its types: every session it mentions is one of the server's, a
\* message has completed ones, and a press tries no more often than it may.
LEMMA TrayTypesOK == TraySpec => []TrayTypeOK
<1>1. TrayInit => TrayMore
  <2> SUFFICES ASSUME TrayInit PROVE TrayMore
    OBVIOUS
  <2>1. TrayIsASet
    <3>1. Members(tray) = {} /\ Len(tray) = 0
      BY DEF TrayInit, Members
    <3> QED BY <3>1, FS_EmptySet DEF TrayIsASet
  <2>2. \A f \in Files : RunIsTyped(f)
    BY DEF TrayInit, NoRun, RunIsTyped
  <2>3. \A c \in Presses : PressIsTyped(c)
    <3>1. \A c \in Presses : press[c].at = "idle" /\ press[c].try = 0
      BY DEF TrayInit, NoPress
    <3>2. 0 <= MaxAttempts
      BY UploadTrayAssumption
    <3> QED BY <3>1, <3>2 DEF PressIsTyped
  <2>4. SessionsAreThere /\ SentIsDone
    BY DEF TrayInit, SessionsAreThere, SentIsDone
  <2> QED BY <2>1, <2>2, <2>3, <2>4 DEF TrayMore
<1>2. TrayIInv /\ TrayMore /\ [TrayNext]_trayVars => TrayMore'
  <2> SUFFICES ASSUME TrayIInv, TrayMore, [TrayNext]_trayVars PROVE TrayMore'
    OBVIOUS
  <2>1. CASE TrayNext
    <3>1. /\ TrayIsASet /\ (\A f \in Files : RunIsTyped(f)) /\ (\A c \in Presses : PressIsTyped(c))
          /\ SentIsDone
      BY DEF TrayMore
    <3> QED BY <2>1, <3>1, TrayStaysASet, RunsStayTyped, PressesStayTyped, SessionsStayThere,
               SentStaysDone DEF TrayMore
  <2>2. CASE UNCHANGED trayVars
    BY <2>2 DEF trayVars, TrayMore, TrayIsASet, RunIsTyped, PressIsTyped, SessionsAreThere,
                SentIsDone, Members
  <2> QED BY <2>1, <2>2
<1>3. TrayIInv /\ TrayMore => TrayTypeOK
  <2> SUFFICES ASSUME TrayIInv, TrayMore PROVE TrayTypeOK
    OBVIOUS
  <2>0. TrayTypes /\ ItemsAreSound
    BY DEF TrayIInv
  <2>1. Members(tray) \subseteq Files /\ Members(fileOf) \subseteq Files
        /\ DOMAIN fileOf = 1..Len(fileOf) /\ Len(fileOf) \in Nat
    BY <2>0 DEF TrayTypes, Members
  <2>2. item \in [Files -> [is : {"new", "uploading", "ready", "sending", "failed", "gone"},
                            s : 0..Len(fileOf)]]
    <3>1. ASSUME NEW f \in Files
          PROVE  item[f] \in [is : {"new", "uploading", "ready", "sending", "failed", "gone"},
                              s : 0..Len(fileOf)]
      <4>1. item[f] \in ItemRows /\ (item[f].s # 0 => item[f].s \in DOMAIN fileOf)
        BY <2>0 DEF TrayTypes, ItemsAreSound, ItemSound
      <4>2. item[f].s \in 0..Len(fileOf)
        BY <2>1, <4>1
      <4> QED BY <4>1, <4>2 DEF ItemRows
    <3> QED BY <2>0, <3>1 DEF TrayTypes
  <2>3. run \in [Files -> [at : {"none", "presign", "store"}, s : 0..Len(fileOf)]]
    <3>1. ASSUME NEW f \in Files
          PROVE  run[f] \in [at : {"none", "presign", "store"}, s : 0..Len(fileOf)]
      <4>1. run[f] \in RunRows /\ run[f].s \in {0} \cup DOMAIN fileOf
        BY <2>0 DEF TrayTypes, TrayMore, RunIsTyped
      <4>2. run[f].s \in 0..Len(fileOf)
        BY <2>1, <4>1
      <4> QED BY <4>1, <4>2 DEF RunRows
    <3> QED BY <2>0, <3>1 DEF TrayTypes
  <2>4. ASSUME NEW c \in Presses
        PROVE  /\ press[c].at \in {"idle", "refresh", "presign", "store", "ask", "sleep"}
               /\ press[c].stale \in BOOLEAN /\ press[c].try \in 0..MaxAttempts
    <3>1. press[c] \in PressRows /\ PressIsTyped(c) /\ MaxAttempts \in Nat
      BY <2>0, UploadTrayAssumption DEF TrayTypes, TrayMore
    <3>2. press[c].try \in Nat /\ press[c].try <= MaxAttempts
      BY <3>1 DEF PressRows, PressIsTyped
    <3>3. press[c].try \in 0..MaxAttempts
      BY <3>1, <3>2
    <3> QED BY <3>1, <3>3 DEF PressRows
  <2>5. inFlight \in BOOLEAN /\ pending \cup stored \cup old \cup done \cup stray \subseteq DOMAIN fileOf
    BY <2>0 DEF TrayTypes, TrayMore, SessionsAreThere
  <2> QED BY <2>1, <2>2, <2>3, <2>4, <2>5 DEF TrayMore, TrayIsASet, SentIsDone, TrayTypeOK
<1> QED BY <1>1, <1>2, <1>3, TrayAlways, PTL DEF TraySpec

\* What a browser keeps is sound (token.service.ts:141, useAttachmentUpload.ts:531):
\* neither the session nor the tray depends on how the two interleave.
THEOREM BrowserHolds == BrowserSpec => []BrowserSound
BY SessionHolds, TrayHolds, PTL DEF BrowserSpec, BrowserSound

-----------------------------------------------------------------------------
(* The run of the four. *)

\* A behaviour of the run (MCUserState) is one of each of its components, so what is
\* proved of TempEvict, ReadState, Session and UploadTray holds in it.
LEMMA UserStateParts == Spec => EvictSpec /\ ReadSpec /\ SessionSpec /\ TraySpec
<1>1. Init => EvictInit /\ ReadInit /\ SessionInit /\ TrayInit
  BY DEF Init
<1>2. [Next]_<<part, evictVars, readVars, sessionVars, trayVars>>
        => [EvictNext]_evictVars /\ [ReadNext]_readVars /\ [SessionNext]_sessionVars /\ [TrayNext]_trayVars
  BY DEF Next
<1> QED BY <1>1, <1>2, PTL DEF Spec, EvictSpec, ReadSpec, SessionSpec, TraySpec

SomePart == part \in {"evict", "read", "session", "tray"}

\* The type invariant of the run of the four (MCUserState), for every value of the
\* constants.
THEOREM UserStateTypes == Spec => []UserStateTypeOK
<1>1. Init => SomePart
  BY DEF Init, SomePart
<1>2. SomePart /\ [Next]_<<part, evictVars, readVars, sessionVars, trayVars>> => SomePart'
  BY DEF Next, SomePart
<1>3. SomePart /\ EvictTypeOK /\ ReadTypeOK /\ SessionTypeOK /\ TrayTypeOK => UserStateTypeOK
  BY DEF UserStateTypeOK, SomePart
<1>4. Spec => []SomePart
  BY <1>1, <1>2, PTL DEF Spec
<1>5. Spec => []EvictTypeOK /\ []ReadTypeOK /\ []SessionTypeOK /\ []TrayTypeOK
  BY UserStateParts, EvictTypesOK, AcksHold, SessionTypesOK, TrayTypesOK, PTL
<1> QED BY <1>3, <1>4, <1>5, PTL
=============================================================================
