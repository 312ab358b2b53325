----------------------------- MODULE Membership -----------------------------
(***************************************************************************)
(* The members of one workspace: who joins through an invite link, a       *)
(* public join, an e-mail invite, an approved application or the undo of a *)
(* kick, who leaves, is kicked, banned or gets another role, and who owns  *)
(* the workspace.                                                          *)
(*                                                                         *)
(* A call reads first and writes later: its look-ups are one step, each    *)
(* transaction another.  Left out: the rank of the actor except for the    *)
(* OWNER gate, the e-mail and address gates (a call they turn down does    *)
(* nothing), roles between ADMIN and MEMBER, outbox and audit rows.        *)
(***************************************************************************)
EXTENDS Naturals, FiniteSets

CONSTANTS
  Users,
  Founder,  \* the user who created the workspace
  Acts,     \* calls
  MaxUses   \* maxUses of the invite

ASSUME MembershipAssumption ==
  Founder \in Users /\ MaxUses \in Nat /\ IsFiniteSet(Acts)

VARIABLES
  role,     \* WorkspaceMember.role, "none": not a member
  sysRole,  \* the system role of the member's MemberRole rows
  ownerId,  \* Workspace.ownerId
  banned,   \* BannedMember
  invite,   \* [state, used]: an invite link, used: usedCount
  undo,     \* users with a live kick-undo token
  act,      \* act[c]: [at, who, whom, saw], progress of a call
  seated,   \* history: accepts that made a member
  lost,     \* history: accepts that failed after taking a seat
  crossed,  \* history: a transfer committed while another write to roles was under way
  barred    \* history: users banned while no call was about to let them in

memberHistory == <<seated, lost, crossed, barred>>
memberVars == <<role, sysRole, ownerId, banned, invite, undo, act, memberHistory>>

Roles == {"OWNER", "ADMIN", "MEMBER"}
Members == {u \in Users : role[u] # "none"}

JoinSteps == {"create", "join", "admit"}
RoleSteps == {"drop", "kick", "ban", "assign", "transfer"}

MembershipTypeOK ==
  /\ role \in [Users -> Roles \cup {"none"}]
  /\ sysRole \in [Users -> Roles \cup {"none"}]
  /\ ownerId \in Users
  /\ banned \subseteq Users /\ undo \subseteq Users /\ barred \subseteq Users
  /\ invite \in [state : {"live", "revoked", "gone"}, used : 0..Cardinality(Acts)]
  /\ act \in [Acts -> [at : {"new", "seat", "refund", "token", "recheck", "approve", "done"}
                              \cup JoinSteps \cup RoleSteps,
                       who : Users, whom : Users, saw : Roles \cup {"none"}]]
  /\ seated \subseteq Acts /\ lost \subseteq Acts
  /\ crossed \in BOOLEAN

MembershipInit ==
  /\ role = [u \in Users |-> IF u = Founder THEN "OWNER" ELSE "none"]
  /\ sysRole = role
  /\ ownerId = Founder
  /\ banned = {} /\ undo = {} /\ barred = {}
  /\ invite = [state |-> "live", used |-> 0]
  /\ act = [c \in Acts |-> [at |-> "new", who |-> Founder, whom |-> Founder,
                            saw |-> "none"]]
  /\ seated = {} /\ lost = {} /\ crossed = FALSE

\* The call goes on about user u with the role it has read.
GoesOn(c, where, u) ==
  /\ act[c].at = "new"
  /\ act' = [act EXCEPT ![c] = [at |-> where, who |-> u, whom |-> u, saw |-> role[u]]]
Step(c, where) == act' = [act EXCEPT ![c].at = where]
ActDone(c) == Step(c, "done")

OnlyAct == UNCHANGED <<role, sysRole, ownerId, banned, invite, undo, memberHistory>>

\* syncMemberSystemRole: the one system role that goes with the role.
Becomes(u, r) ==
  /\ role' = [role EXCEPT ![u] = r]
  /\ sysRole' = [sysRole EXCEPT ![u] = r]

\* Deleting the member deletes its MemberRole rows.
Drops(u) == Becomes(u, "none")

-----------------------------------------------------------------------------
(* Joining. *)

MayJoin(u) == role[u] = "none" /\ u \notin banned

\* accept: a live link, not a member, not banned.
AcceptInvite(c, u) ==
  /\ invite.state = "live" /\ MayJoin(u)
  /\ GoesOn(c, "seat", u)
  /\ OnlyAct

\* Mutant: the limit is not part of the update.
SeatUnchecked(c) ==
  /\ act[c].at = "seat"
  /\ IF invite.state = "live"
     THEN Step(c, "create") /\ invite' = [invite EXCEPT !.used = @ + 1]
     ELSE ActDone(c) /\ UNCHANGED invite
  /\ UNCHANGED <<role, sysRole, ownerId, banned, undo, memberHistory>>

\* The compare-and-swap, a transaction of its own.
TakeSeat(c) ==
  /\ act[c].at = "seat"
  /\ IF invite.state = "live" /\ invite.used < MaxUses
     THEN Step(c, "create") /\ invite' = [invite EXCEPT !.used = @ + 1]
     ELSE ActDone(c) /\ UNCHANGED invite
  /\ UNCHANGED <<role, sysRole, ownerId, banned, undo, memberHistory>>

\* P2002 on the member's key sends the call to the refund.
CreateMember(c) ==
  LET u == act[c].who IN
  /\ act[c].at = "create"
  /\ IF role[u] = "none"
     THEN /\ Becomes(u, "MEMBER")
          /\ seated' = seated \cup {c}
          /\ ActDone(c)
     ELSE /\ Step(c, "refund")
          /\ UNCHANGED <<role, sysRole, seated>>
  /\ UNCHANGED <<ownerId, banned, invite, undo, lost, crossed, barred>>

\* Mutant: the seat is not given back.
NoRefund(c) ==
  /\ act[c].at = "refund"
  /\ ActDone(c)
  /\ OnlyAct

Refund(c) ==
  /\ act[c].at = "refund"
  /\ ActDone(c)
  /\ invite' = IF invite.state # "gone" /\ invite.used > 0
               THEN [invite EXCEPT !.used = @ - 1] ELSE invite
  /\ UNCHANGED <<role, sysRole, ownerId, banned, undo, memberHistory>>

\* The transaction or the refund fails some other way, or the node stops.
LoseSeat(c) ==
  /\ act[c].at \in {"create", "refund"}
  /\ ActDone(c)
  /\ lost' = lost \cup {c}
  /\ UNCHANGED <<role, sysRole, ownerId, banned, invite, undo, seated, crossed, barred>>

RevokeInvite ==
  /\ invite.state = "live"
  /\ invite' = [invite EXCEPT !.state = "revoked"]
  /\ UNCHANGED <<role, sysRole, ownerId, banned, undo, act, memberHistory>>

DeleteInvite ==
  /\ invite.state # "gone"
  /\ invite' = [state |-> "gone", used |-> 0]
  /\ UNCHANGED <<role, sysRole, ownerId, banned, undo, act, memberHistory>>

\* Mutant: as before the ban was looked up here.
JoinUnlessMember(c, u) ==
  /\ role[u] = "none"
  /\ GoesOn(c, "join", u)
  /\ OnlyAct

JoinPublic(c, u) == MayJoin(u) /\ GoesOn(c, "join", u) /\ OnlyAct
AcceptPending(c, u) == MayJoin(u) /\ GoesOn(c, "join", u) /\ OnlyAct

\* P2002 leaves everything as it is, whichever way the caller answers it.
JoinTx(c) ==
  LET u == act[c].who IN
  /\ act[c].at \in {"join", "admit"}
  /\ ActDone(c)
  /\ IF role[u] = "none" THEN Becomes(u, "MEMBER") ELSE UNCHANGED <<role, sysRole>>
  /\ UNCHANGED <<ownerId, banned, invite, undo, memberHistory>>

\* process, approve: the ban is looked up in the transaction.
ApproveApplication(c, u) == GoesOn(c, "approve", u) /\ OnlyAct

ApproveCheck(c) ==
  /\ act[c].at = "approve"
  /\ Step(c, IF act[c].who \in banned THEN "done" ELSE "admit")
  /\ OnlyAct

-----------------------------------------------------------------------------
(* Leaving. *)

\* leave and remove: the role was read before the transaction.
LeaveOrRemove(c, u) ==
  /\ role[u] \notin {"none", "OWNER"}
  /\ GoesOn(c, "drop", u)
  /\ OnlyAct

DropTx(c) ==
  LET u == act[c].who IN
  /\ act[c].at = "drop"
  /\ ActDone(c)
  /\ IF role[u] # "none" THEN Drops(u) ELSE UNCHANGED <<role, sysRole>>
  /\ UNCHANGED <<ownerId, banned, invite, undo, memberHistory>>

Kick(c, u) ==
  /\ role[u] \notin {"none", "OWNER"}
  /\ GoesOn(c, "kick", u)
  /\ OnlyAct

KickTx(c) ==
  LET u == act[c].who IN
  /\ act[c].at = "kick"
  /\ IF role[u] # "none" THEN Drops(u) /\ Step(c, "token")
     ELSE ActDone(c) /\ UNCHANGED <<role, sysRole>>
  /\ UNCHANGED <<ownerId, banned, invite, undo, memberHistory>>

\* Redis may be away: then there is no undo.
KickToken(c) ==
  /\ act[c].at = "token"
  /\ ActDone(c)
  /\ undo' \in {undo, undo \cup {act[c].who}}
  /\ UNCHANGED <<role, sysRole, ownerId, banned, invite, memberHistory>>

TokenExpires(u) ==
  /\ u \in undo
  /\ undo' = undo \ {u}
  /\ UNCHANGED <<role, sysRole, ownerId, banned, invite, act, memberHistory>>

\* kickUndo reads the token, deletes it and looks at the ban list.
KickUndo(c, u) == u \in undo /\ GoesOn(c, "recheck", u) /\ OnlyAct

KickUndoCheck(c) ==
  LET u == act[c].who IN
  /\ act[c].at = "recheck"
  /\ undo' = undo \ {u}
  /\ Step(c, IF u \in banned THEN "done" ELSE "join")
  /\ UNCHANGED <<role, sysRole, ownerId, banned, invite, memberHistory>>

\* ban: the member row decides now whether the transaction deletes one.
Ban(c, u) ==
  /\ u \notin banned /\ role[u] # "OWNER"
  /\ GoesOn(c, "ban", u)
  /\ OnlyAct

\* Nobody is about to let u in.
Settled(u) == \A d \in Acts : act[d].who = u => act[d].at \notin JoinSteps \cup {"seat"}

\* P2002 (banned already) and P2025 (the member is gone) roll it back.
BanTx(c) ==
  LET u == act[c].who
      fails == u \in banned \/ (act[c].saw # "none" /\ role[u] = "none")
  IN
  /\ act[c].at = "ban"
  /\ ActDone(c)
  /\ IF fails THEN UNCHANGED <<role, sysRole, banned, barred>>
     ELSE /\ banned' = banned \cup {u}
          /\ IF act[c].saw # "none" THEN Drops(u) ELSE UNCHANGED <<role, sysRole>>
          /\ barred' = IF Settled(u) /\ role'[u] = "none" THEN barred \cup {u}
                       ELSE barred
  /\ UNCHANGED <<ownerId, invite, undo, seated, lost, crossed>>

Unban(u) ==
  /\ u \in banned
  /\ banned' = banned \ {u}
  /\ barred' = barred \ {u}
  /\ UNCHANGED <<role, sysRole, ownerId, invite, undo, act, seated, lost, crossed>>

-----------------------------------------------------------------------------
(* Roles and ownership. *)

\* updateRole reads the target; the owner's role is not changed here.
UpdateRole(c, u) ==
  /\ role[u] \notin {"none", "OWNER"}
  /\ GoesOn(c, "assign", u)
  /\ OnlyAct

UpdateRoleTx(c) ==
  LET u == act[c].who IN
  /\ act[c].at = "assign"
  /\ ActDone(c)
  /\ IF role[u] # "none" THEN \E r \in {"ADMIN", "MEMBER"} : Becomes(u, r)
     ELSE UNCHANGED <<role, sysRole>>
  /\ UNCHANGED <<ownerId, banned, invite, undo, memberHistory>>

\* The guard of the route has read the role; then the password is checked.
TransferOwnership(c, u, v) ==
  /\ u # v /\ role[u] = "OWNER"
  /\ act[c].at = "new"
  /\ act' = [act EXCEPT ![c] = [at |-> "transfer", who |-> u, whom |-> v,
                                saw |-> "OWNER"]]
  /\ OnlyAct

RoleWriteUnderWay(c) == \E d \in Acts \ {c} : act[d].at \in RoleSteps

\* Mutant: the MemberRole rows of the old owner stay.
TransferKeepsRole(c) ==
  LET u == act[c].who  v == act[c].whom IN
  /\ act[c].at = "transfer"
  /\ ActDone(c)
  /\ IF role[u] # "none" /\ role[v] # "none"
     THEN /\ role' = [role EXCEPT ![u] = "ADMIN", ![v] = "OWNER"]
          /\ sysRole' = [sysRole EXCEPT ![v] = "OWNER"]
          /\ ownerId' = v
          /\ crossed' = (crossed \/ RoleWriteUnderWay(c))
     ELSE UNCHANGED <<role, sysRole, ownerId, crossed>>
  /\ UNCHANGED <<banned, invite, undo, seated, lost, barred>>

\* Mutant: the old owner is not demoted.
TransferPromotesOnly(c) ==
  LET u == act[c].who  v == act[c].whom IN
  /\ act[c].at = "transfer"
  /\ ActDone(c)
  /\ IF role[u] # "none" /\ role[v] # "none"
     THEN /\ Becomes(v, "OWNER")
          /\ ownerId' = v
          /\ crossed' = (crossed \/ RoleWriteUnderWay(c))
     ELSE UNCHANGED <<role, sysRole, ownerId, crossed>>
  /\ UNCHANGED <<banned, invite, undo, seated, lost, barred>>

\* Serializable, but the role of the old owner is not read in it.
TransferTx(c) ==
  LET u == act[c].who  v == act[c].whom
      moved(f) == [f EXCEPT ![u] = "ADMIN", ![v] = "OWNER"]
  IN
  /\ act[c].at = "transfer"
  /\ ActDone(c)
  /\ IF role[u] # "none" /\ role[v] # "none"
     THEN /\ role' = moved(role)
          /\ sysRole' = moved(sysRole)
          /\ ownerId' = v
          /\ crossed' = (crossed \/ RoleWriteUnderWay(c))
     ELSE UNCHANGED <<role, sysRole, ownerId, crossed>>
  /\ UNCHANGED <<banned, invite, undo, seated, lost, barred>>

MembershipNext ==
  \/ \E c \in Acts, u \in Users :
       \/ AcceptInvite(c, u) \/ JoinPublic(c, u) \/ AcceptPending(c, u)
       \/ ApproveApplication(c, u) \/ KickUndo(c, u)
       \/ LeaveOrRemove(c, u) \/ Kick(c, u) \/ Ban(c, u) \/ UpdateRole(c, u)
       \/ \E v \in Users : TransferOwnership(c, u, v)
  \/ \E c \in Acts :
       \/ TakeSeat(c) \/ CreateMember(c) \/ Refund(c) \/ LoseSeat(c)
       \/ JoinTx(c) \/ ApproveCheck(c) \/ DropTx(c) \/ KickTx(c) \/ KickToken(c)
       \/ KickUndoCheck(c) \/ BanTx(c) \/ UpdateRoleTx(c) \/ TransferTx(c)
  \/ \E u \in Users : TokenExpires(u) \/ Unban(u)
  \/ RevokeInvite \/ DeleteInvite

MembershipSpec == MembershipInit /\ [][MembershipNext]_memberVars

-----------------------------------------------------------------------------

\* An invite lets in no more than maxUses users, whatever accepts, failures and
\* refunds overlap (accept: the seat is taken before the member exists).
InviteSeats == INSTANCE CappedSet WITH Cap <- MaxUses, held <- seated
InviteImplementsCap == InviteSeats!CapSpec

\* usedCount is the accepts that made a member, those on their way and those
\* that failed with a seat in hand: a refund gives back its own seat and no
\* other (accept).
SeatsAccounted ==
  invite.state # "gone" =>
    invite.used = Cardinality(seated \cup lost
                              \cup {c \in Acts : act[c].at \in {"create", "refund"}})

\* Whoever is banned while no call is about to let them in stays out until the
\* ban is lifted, by every way in (moderation.service.ts, FR-RM06).
BarredStayOut == barred \cap Members = {}

\* The system role of a member's MemberRole rows is the member's role, by
\* every path that writes either (system-role-seed.ts:76).
RolesInStep == sysRole = role

\* The one OWNER is the workspace's ownerId
\* (workspaces.int.spec.ts:170, docs/tasks/002-workspace.review.md:102).
SingleOwner == {u \in Users : role[u] = "OWNER"} = {ownerId}

\* So it is while no call carries a role it has read across a transfer.
SingleOwnerUncrossed == ~crossed => SingleOwner

\* Both ways to tell what a member may do agree, and one member owns the
\* workspace (transferOwnership, updateRole, syncMemberSystemRole).
RolesCorrect == RolesInStep /\ SingleOwnerUncrossed
=============================================================================
