----------------------------- MODULE Reactions -----------------------------
(***************************************************************************)
(* The MessageReaction rows of one message: ReactionsService.add (the      *)
(* toggle), remove, removeByActor and clearAll.                            *)
(*                                                                         *)
(* Every call is one transaction at READ COMMITTED; a step is one of its   *)
(* statements, and what it has written shows with its last one.  Left out: *)
(* the gates of the controller (a call they turn down does nothing), the   *)
(* look-up of custom emojis, the counts of the response.                   *)
(***************************************************************************)
EXTENDS Naturals, FiniteSets

CONSTANTS
  Reactors,  \* users
  Emojis,
  Toggles,   \* calls
  MaxKinds,  \* MAX_REACTION_KINDS
  NoToggle,  \* nobody
  NoRow      \* no row

ASSUME ReactionsAssumption ==
  /\ MaxKinds \in Nat
  /\ NoToggle \notin Toggles
  /\ NoRow \notin Reactors \X Emojis

VARIABLES
  rows,      \* committed <<user, emoji>>
  live,      \* the message is not deleted
  msgLock,   \* the transaction that holds the Message row FOR NO KEY UPDATE
  toggle     \* toggle[p]: [at, row, mine], mine: its own uncommitted insert

reactionVars == <<rows, live, msgLock, toggle>>

Kinds(rs) == {r[2] : r \in rs}

ReactionsTypeOK ==
  /\ rows \subseteq Reactors \X Emojis
  /\ live \in BOOLEAN
  /\ msgLock \in Toggles \cup {NoToggle}
  /\ toggle \in [Toggles -> [at : {"new", "read", "delete", "lock", "insert", "count",
                                   "commit", "done"},
                             row : (Reactors \X Emojis) \cup {NoRow},
                             mine : BOOLEAN]]

ReactionsInit ==
  /\ rows = {} /\ live = TRUE /\ msgLock = NoToggle
  /\ toggle = [p \in Toggles |-> [at |-> "new", row |-> NoRow, mine |-> FALSE]]

Goes(p, where) == toggle' = [toggle EXCEPT ![p].at = where]
Releases(p) == msgLock' = IF msgLock = p THEN NoToggle ELSE msgLock

\* The call finds the message live; a deleted one is 404.
Toggle(p, r) ==
  /\ toggle[p].at = "new"
  /\ toggle' = [toggle EXCEPT ![p] = [at |-> IF live THEN "read" ELSE "done",
                                      row |-> r, mine |-> FALSE]]
  /\ UNCHANGED <<rows, live, msgLock>>

ReadOwn(p) ==
  /\ toggle[p].at = "read"
  /\ Goes(p, IF toggle[p].row \in rows THEN "delete" ELSE "lock")
  /\ UNCHANGED <<rows, live, msgLock>>

\* A row that is gone by now fails the call (P2025).
DeleteOwn(p) ==
  /\ toggle[p].at = "delete"
  /\ Goes(p, "done")
  /\ rows' = rows \ {toggle[p].row}
  /\ UNCHANGED <<live, msgLock>>

\* Mutant: the message row is not locked.
LockNothing(p) ==
  /\ toggle[p].at = "lock"
  /\ Goes(p, "insert")
  /\ UNCHANGED <<rows, live, msgLock>>

\* SELECT ... FOR NO KEY UPDATE of the message, whatever its deletedAt is.
LockMessage(p) ==
  /\ toggle[p].at = "lock"
  /\ msgLock = NoToggle
  /\ msgLock' = p
  /\ Goes(p, "insert")
  /\ UNCHANGED <<rows, live>>

\* ON CONFLICT DO NOTHING: a row that is there already is not inserted, nor
\* kept when it goes.
InsertOwn(p) ==
  /\ toggle[p].at = "insert"
  /\ toggle' = [toggle EXCEPT ![p].at = "count",
                              ![p].mine = toggle[p].row \notin rows]
  /\ UNCHANGED <<rows, live, msgLock>>

\* What the transaction sees: what is committed and what it has inserted.
Sees(p) == rows \cup IF toggle[p].mine THEN {toggle[p].row} ELSE {}

\* COUNT(DISTINCT emoji); too many kinds roll the transaction back.
CountKinds(p) ==
  /\ toggle[p].at = "count"
  /\ IF Cardinality(Kinds(Sees(p))) > MaxKinds
     THEN Goes(p, "done") /\ Releases(p)
     ELSE Goes(p, "commit") /\ UNCHANGED msgLock
  /\ UNCHANGED <<rows, live>>

CommitInsert(p) ==
  /\ toggle[p].at = "commit"
  /\ Goes(p, "done")
  /\ Releases(p)
  /\ rows' = Sees(p)
  /\ UNCHANGED live

\* remove and removeByActor of one row, clearAll of all of them.
RemoveRows(rs) ==
  /\ rs # {} /\ rs \subseteq rows
  /\ Cardinality(rs) = 1 \/ rs = rows
  /\ rows' = rows \ rs
  /\ UNCHANGED <<live, msgLock, toggle>>

\* softDelete of the message, which waits for its row.
DeleteMessage ==
  /\ live /\ msgLock = NoToggle
  /\ live' = FALSE
  /\ UNCHANGED <<rows, msgLock, toggle>>

ReactionsNext ==
  \/ \E p \in Toggles :
       \/ \E r \in Reactors \X Emojis : Toggle(p, r)
       \/ ReadOwn(p) \/ DeleteOwn(p)
       \/ LockMessage(p) \/ InsertOwn(p) \/ CountKinds(p) \/ CommitInsert(p)
  \/ \E rs \in SUBSET rows : RemoveRows(rs)
  \/ DeleteMessage

ReactionsSpec == ReactionsInit /\ [][ReactionsNext]_reactionVars

-----------------------------------------------------------------------------

\* Never more than MAX_REACTION_KINDS kinds on a message, whatever toggles of
\* different emojis, removals and clears overlap (add, FR-RE02).
KindCap == INSTANCE CappedSet WITH Cap <- MaxKinds, held <- Kinds(rows)
ReactionsImplementCap == KindCap!CapSpec
=============================================================================
