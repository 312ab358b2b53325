------------------------------ MODULE Friends ------------------------------
(***************************************************************************)
(* The Friendship rows of one pair of users: FriendsService.               *)
(* requestByUsername, accept, reject, remove, block and unblock.           *)
(*                                                                         *)
(* A row is directed, (requesterId, addresseeId) is unique, so a pair has  *)
(* at most one row per direction; findRow returns either when both exist.  *)
(* Every call reads outside the transaction that writes, and writes by the *)
(* id it has read.  Left out: the cap on accepted rows, which needs a      *)
(* thousand users, the outbox and the lists.                               *)
(***************************************************************************)
EXTENDS Naturals, FiniteSets

CONSTANTS
  Pair,       \* the two users
  Requests,   \* calls of the service
  MaxRows     \* bound on rows ever created

ASSUME FriendsAssumption ==
  (\E u, v \in Pair : u # v /\ Pair = {u, v}) /\ MaxRows \in Nat

VARIABLES
  friendship,  \* the row each user is the requester of: [id, status], id 0: none
  nextRow,     \* the id of the next row
  ask,         \* ask[p]: [at, me, id, from], progress of a call
  consent,     \* history: <<user, id>> when the user asked for or agreed to a row
  blockers,    \* history: users who have blocked and not taken it back
  doubled      \* history: the pair has had a row in each direction

friendHistory == <<consent, blockers, doubled>>
friendVars == <<friendship, nextRow, ask, friendHistory>>

Other(u) == CHOOSE v \in Pair : v # u
Unrelated == [id |-> 0, status |-> "none"]

FriendsTypeOK ==
  /\ friendship \in [Pair -> [id : 0..MaxRows,
                              status : {"none", "PENDING", "ACCEPTED", "BLOCKED"}]]
  /\ \A u \in Pair : friendship[u].id = 0 <=> friendship[u].status = "none"
  /\ nextRow \in 1..MaxRows + 1
  /\ ask \in [Requests -> [at : {"new", "agree", "create", "delete", "mark", "flip",
                                 "find", "insert", "done"},
                           me : Pair, id : 0..MaxRows, from : Pair]]
  /\ consent \subseteq Pair \X (1..MaxRows)
  /\ blockers \subseteq Pair
  /\ doubled \in BOOLEAN

FriendsInit ==
  /\ friendship = [u \in Pair |-> Unrelated]
  /\ nextRow = 1
  /\ \E u \in Pair :
       ask = [p \in Requests |-> [at |-> "new", me |-> u, id |-> 0, from |-> u]]
  /\ consent = {} /\ blockers = {} /\ doubled = FALSE

Present == {u \in Pair : friendship[u].id # 0}

\* The call goes on with the row that u is the requester of, as read now.
Reads(p, me, u, where) ==
  ask' = [ask EXCEPT ![p] = [at |-> where, me |-> me, id |-> friendship[u].id,
                             from |-> u]]
Returns(p) == ask' = [ask EXCEPT ![p].at = "done"]

\* The row of the id is still there: an update or delete by id finds it.
Stands(id, u) == friendship[u].id = id

Insert(p, status) ==
  LET me == ask[p].me IN
  /\ nextRow <= MaxRows
  /\ friendship' = [friendship EXCEPT ![me] = [id |-> nextRow, status |-> status]]
  /\ nextRow' = nextRow + 1

-----------------------------------------------------------------------------
(* requestByUsername. *)

Request(p, me) ==
  /\ ask[p].at = "new"
  /\ \/ /\ Present = {}
        /\ Reads(p, me, me, "create")
     \/ \E u \in Present :
          Reads(p, me, u, IF friendship[u].status = "PENDING" /\ u = Other(me)
                          THEN "agree" ELSE "done")
  /\ UNCHANGED <<friendship, nextRow, friendHistory>>

\* The serialisable transaction; on P2002 the row that won is returned, and
\* the policy of the target, the cap or a serialisation failure end it.
CreatePending(p) ==
  LET me == ask[p].me IN
  /\ ask[p].at = "create"
  /\ Returns(p)
  /\ \/ /\ me \notin Present
        /\ Insert(p, "PENDING")
        /\ consent' = consent \cup {<<me, nextRow>>}
        /\ doubled' = (doubled \/ Other(me) \in Present)
     \/ UNCHANGED <<friendship, nextRow, consent, doubled>>
  /\ UNCHANGED blockers

\* Mutant: the requester may accept as well.
AcceptAny(p, me) ==
  /\ ask[p].at = "new"
  /\ \E u \in Present :
       Reads(p, me, u, IF friendship[u].status = "PENDING" THEN "agree" ELSE "done")
  /\ UNCHANGED <<friendship, nextRow, friendHistory>>

\* accept: the addressee of a pending row.
Accept(p, me) ==
  /\ ask[p].at = "new"
  /\ \E u \in Present :
       Reads(p, me, u, IF friendship[u].status = "PENDING" /\ u = Other(me)
                       THEN "agree" ELSE "done")
  /\ UNCHANGED <<friendship, nextRow, friendHistory>>

\* The update of accept and of the automatic accept looks at nothing but the id.
Agree(p) ==
  LET c == ask[p] IN
  /\ c.at = "agree"
  /\ Returns(p)
  /\ IF Stands(c.id, c.from)
     THEN /\ friendship' = [friendship EXCEPT ![c.from].status = "ACCEPTED"]
          /\ consent' = consent \cup {<<c.me, c.id>>}
     ELSE UNCHANGED <<friendship, consent>>
  /\ UNCHANGED <<nextRow, blockers, doubled>>

\* reject and remove.
Reject(p, me) ==
  /\ ask[p].at = "new"
  /\ \E u \in Present :
       Reads(p, me, u, IF friendship[u].status = "PENDING" /\ u = Other(me)
                       THEN "delete" ELSE "done")
  /\ UNCHANGED <<friendship, nextRow, friendHistory>>

RemoveFriend(p, me) ==
  /\ ask[p].at = "new"
  /\ \E u \in Present :
       Reads(p, me, u, IF friendship[u].status = "ACCEPTED" THEN "delete" ELSE "done")
  /\ UNCHANGED <<friendship, nextRow, friendHistory>>

DeleteFriendship(p) ==
  LET c == ask[p] IN
  /\ c.at = "delete"
  /\ Returns(p)
  /\ friendship' = IF Stands(c.id, c.from)
                   THEN [friendship EXCEPT ![c.from] = Unrelated] ELSE friendship
  /\ blockers' = IF Stands(c.id, c.from) THEN blockers \ ({c.me} \cap {c.from})
                 ELSE blockers
  /\ UNCHANGED <<nextRow, consent, doubled>>

-----------------------------------------------------------------------------
(* block and unblock. *)

\* Mutant: the row of the other side is updated in place.
BlockInPlace(p, me) ==
  /\ ask[p].at = "new"
  /\ \/ Present = {} /\ Reads(p, me, me, "insert")
     \/ \E u \in Present : Reads(p, me, u, "mark")
  /\ UNCHANGED <<friendship, nextRow, friendHistory>>

Block(p, me) ==
  /\ ask[p].at = "new"
  /\ \/ Present = {} /\ Reads(p, me, me, "insert")
     \/ \E u \in Present : Reads(p, me, u, IF u = me THEN "mark" ELSE "flip")
  /\ UNCHANGED <<friendship, nextRow, friendHistory>>

\* The row becomes BLOCKED, whoever its requester is; it may be gone (P2025).
MarkBlocked(p) ==
  LET c == ask[p] IN
  /\ c.at = "mark"
  /\ Returns(p)
  /\ IF Stands(c.id, c.from)
     THEN /\ friendship' = [friendship EXCEPT ![c.from].status = "BLOCKED"]
          /\ blockers' = blockers \cup {c.me}
     ELSE UNCHANGED <<friendship, blockers>>
  /\ UNCHANGED <<nextRow, consent, doubled>>

\* One transaction: the other side's row goes, mine is created.  P2025 fails
\* the call; on P2002 both stay and the rows are looked up again.
Flip(p) ==
  LET c == ask[p] IN
  /\ c.at = "flip"
  /\ IF Stands(c.id, c.from) /\ c.me \in Present
     THEN /\ ask' = [ask EXCEPT ![p].at = "find"]
          /\ UNCHANGED <<friendship, nextRow, blockers>>
     ELSE /\ Returns(p)
          /\ IF Stands(c.id, c.from)
             THEN /\ nextRow <= MaxRows
                  /\ friendship' = [u \in Pair |->
                       IF u = c.me THEN [id |-> nextRow, status |-> "BLOCKED"]
                       ELSE Unrelated]
                  /\ nextRow' = nextRow + 1
                  /\ blockers' = blockers \cup {c.me}
             ELSE UNCHANGED <<friendship, nextRow, blockers>>
  /\ UNCHANGED <<consent, doubled>>

FindAgain(p) ==
  /\ ask[p].at = "find"
  /\ \/ Present = {} /\ Returns(p)
     \/ \E u \in Present : Reads(p, ask[p].me, u, "mark")
  /\ UNCHANGED <<friendship, nextRow, friendHistory>>

\* Nothing catches the P2002 of this insert.
CreateBlocked(p) ==
  LET me == ask[p].me IN
  /\ ask[p].at = "insert"
  /\ Returns(p)
  /\ IF me \in Present
     THEN UNCHANGED <<friendship, nextRow, blockers, doubled>>
     ELSE /\ Insert(p, "BLOCKED")
          /\ blockers' = blockers \cup {me}
          /\ doubled' = (doubled \/ Other(me) \in Present)
  /\ UNCHANGED consent

Unblock(p, me) ==
  /\ ask[p].at = "new"
  /\ \E u \in Present :
       Reads(p, me, u, IF friendship[u].status = "BLOCKED" /\ u = me
                       THEN "delete" ELSE "done")
  /\ UNCHANGED <<friendship, nextRow, friendHistory>>

FriendsNext == \E p \in Requests :
  \/ \E me \in Pair :
       \/ Request(p, me) \/ Accept(p, me) \/ Reject(p, me) \/ RemoveFriend(p, me)
       \/ Block(p, me) \/ Unblock(p, me)
  \/ CreatePending(p) \/ Agree(p) \/ DeleteFriendship(p)
  \/ MarkBlocked(p) \/ Flip(p) \/ FindAgain(p) \/ CreateBlocked(p)

FriendsSpec == FriendsInit /\ [][FriendsNext]_friendVars

-----------------------------------------------------------------------------

\* Nobody is a friend without having asked or agreed, whatever requests,
\* blocks and removals overlap (accept, the automatic accept).
FriendsAgreed ==
  \A u \in Pair : friendship[u].status = "ACCEPTED" =>
    \A v \in Pair : <<v, friendship[u].id>> \in consent

\* "BLOCKED is always owned by the blocker (the requester column)"
\* (friends.service.ts:31), as long as two overlapping requests have not given
\* the pair a row in each direction: then the fallback of block may mark
\* either.
BlockOwned ==
  ~doubled => \A u \in Pair : friendship[u].status = "BLOCKED" => u \in blockers

\* What the rows of a pair say is so: friends have both consented and a block
\* is in the row of somebody who has blocked (friends.service.ts:31).
FriendsCorrect == FriendsAgreed /\ BlockOwned
=============================================================================
