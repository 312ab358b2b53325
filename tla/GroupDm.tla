------------------------------ MODULE GroupDm ------------------------------
(***************************************************************************)
(* One group DM: its members, its owner and its icon                       *)
(* (DirectMessagesService.addParticipants, kickParticipant, leaveGroup,    *)
(* setGroupIcon, removeGroupIcon).                                         *)
(*                                                                         *)
(* Membership is written by Serializable transactions.  One is modelled by *)
(* the snapshot it starts from and a commit that fails when the group has  *)
(* changed since (P2034), after which the call starts again or gives up,   *)
(* whatever the number of attempts; a serialisable database may let more   *)
(* of them commit, in some serial order that is a behaviour here too.  An  *)
(* icon is a key in the object store.  Left out: the gates of friendship   *)
(* and privacy, which turn calls down, names, visibility and the outbox.   *)
(***************************************************************************)
EXTENDS Naturals, Sequences, FiniteSets, SequencesExt

CONSTANTS
  Persons,   \* users
  DmCalls,   \* calls; also the storage key an icon call uploads to
  GroupMax,  \* GROUP_DM_MAX_TOTAL
  NoIcon     \* iconUrl is null

ASSUME GroupDmAssumption ==
  GroupMax \in Nat /\ NoIcon \notin DmCalls /\ IsFiniteSet(Persons)

VARIABLES
  group,     \* [members, owner]: the active members by joinedAt; none: deleted
  iconUrl,
  store,     \* keys of icons in the object store
  dmCall     \* dmCall[c]: [at, me, them, seen, old], progress of a call

dmVars == <<group, iconUrl, store, dmCall>>

In(g) == ToSet(g.members)

Groups == [members : {s \in SeqOf(Persons, GroupMax) : IsInjective(s)}, owner : Persons]

GroupDmTypeOK ==
  /\ group \in Groups
  /\ iconUrl \in DmCalls \cup {NoIcon}
  /\ store \subseteq DmCalls
  /\ \A c \in DmCalls :
       /\ dmCall[c].at \in {"new", "add", "kick", "leave", "put", "seticon", "oldicon",
                            "cleanup", "noicon", "dropicon", "done"}
       /\ dmCall[c].me \in Persons /\ dmCall[c].them \subseteq Persons
       /\ dmCall[c].seen \in Groups /\ dmCall[c].old \in DmCalls \cup {NoIcon}

\* createGroupDm: the creator first, then the others; three at the least.
GroupDmInit ==
  /\ \E s \in SeqOf(Persons, GroupMax) :
       /\ Len(s) >= 3 /\ IsInjective(s)
       /\ group = [members |-> s, owner |-> s[1]]
  /\ iconUrl = NoIcon /\ store = {}
  /\ dmCall = [c \in DmCalls |-> [at |-> "new", me |-> group.owner, them |-> {},
                                  seen |-> group, old |-> NoIcon]]

LiveGroup == group.members # <<>>

\* The transaction starts: what it reads is the group as it is now.
BeginsCall(c, what, me, them) ==
  /\ dmCall[c].at = "new"
  /\ dmCall' = [dmCall EXCEPT ![c] = [at |-> what, me |-> me, them |-> them,
                                      seen |-> group, old |-> NoIcon]]
  /\ UNCHANGED <<group, iconUrl, store>>
DmGoes(c, where) == dmCall' = [dmCall EXCEPT ![c].at = where]

\* Mutant: READ COMMITTED instead, the writes of each row on top of what is there.
CommitsAnyway(c, g) ==
  LET seen == dmCall[c].seen
      gone == In(seen) \ In(g)
      more == SelectSeq(g.members, LAMBDA u : u \notin In(seen) \cup In(group))
  IN
  /\ group' = [members |-> SelectSeq(group.members, LAMBDA u : u \notin gone) \o more,
               owner |-> IF g.owner # seen.owner THEN g.owner ELSE group.owner]
  /\ DmGoes(c, "done")
  /\ UNCHANGED <<iconUrl, store>>

\* It commits g, or starts again or gives up on a serialisation failure.
Commits(c, g) ==
  /\ IF dmCall[c].seen = group
     THEN group' = g /\ DmGoes(c, "done")
     ELSE UNCHANGED group /\ (DmGoes(c, "new") \/ DmGoes(c, "done"))
  /\ UNCHANGED <<iconUrl, store>>

-----------------------------------------------------------------------------

\* addParticipants: the owner only, and the cap on all of them together.
AddMembers(c, me, us) ==
  /\ LiveGroup /\ me = group.owner
  /\ us \ In(group) # {}
  /\ Cardinality(In(group) \cup us) <= GroupMax
  /\ BeginsCall(c, "add", me, us \ In(group))

\* All join at one moment: createdAt breaks the tie.
AddMembersTx(c) ==
  LET seen == dmCall[c].seen IN
  /\ dmCall[c].at = "add"
  /\ \E news \in SetToSeqs(dmCall[c].them) :
       Commits(c, [seen EXCEPT !.members = @ \o news])

\* kickParticipant: the owner, never of the owner.
KickMember(c, me, u) ==
  /\ LiveGroup /\ me = group.owner /\ u # me /\ u \in In(group)
  /\ BeginsCall(c, "kick", me, {u})

\* The row of one of us: a user has one.
RowsOf(g, us) == {i \in DOMAIN g.members : g.members[i] \in us}
Without(g, i) == [g EXCEPT !.members = RemoveAt(@, i)]

KickMemberTx(c) ==
  /\ dmCall[c].at = "kick"
  /\ \E i \in RowsOf(dmCall[c].seen, dmCall[c].them) :
       Commits(c, Without(dmCall[c].seen, i))

LeaveGroup(c, me) ==
  /\ me \in In(group)
  /\ BeginsCall(c, "leave", me, {me})

\* Mutant: the oldest row of all is the successor, the leaver's included.
HandOverToFirst(g, i) ==
  LET left == Without(g, i) IN
  IF left.members = <<>> \/ g.owner # g.members[i] THEN left
  ELSE [left EXCEPT !.owner = Head(g.members)]

\* The last one out deletes the channel; an owner's place goes to the member
\* who joined first.
HandOver(g, i) ==
  LET left == Without(g, i) IN
  IF left.members = <<>> \/ g.owner # g.members[i] THEN left
  ELSE [left EXCEPT !.owner = Head(left.members)]

LeaveGroupTx(c) ==
  /\ dmCall[c].at = "leave"
  /\ \E i \in RowsOf(dmCall[c].seen, {dmCall[c].me}) :
       Commits(c, HandOver(dmCall[c].seen, i))

-----------------------------------------------------------------------------
(* The icon.  loadGroupForMember reads it, and whether the caller is in,   *)
(* outside the transaction.                                                *)

IconCall(c, me, what) ==
  /\ dmCall[c].at = "new" /\ me \in In(group)
  /\ dmCall' = [dmCall EXCEPT ![c] = [at |-> what, me |-> me, them |-> {},
                                      seen |-> group, old |-> iconUrl]]
  /\ UNCHANGED <<group, iconUrl, store>>

SetGroupIcon(c, me) == IconCall(c, me, "put")

\* putObject; it may fail.
PutIcon(c) ==
  /\ dmCall[c].at = "put"
  /\ \/ store' = store \cup {c} /\ DmGoes(c, "seticon")
     \/ DmGoes(c, "done") /\ UNCHANGED store
  /\ UNCHANGED <<group, iconUrl>>

\* The transaction commits, fails (then the new object is to go), or the node
\* stops.
SetIconTx(c) ==
  /\ dmCall[c].at = "seticon"
  /\ \/ iconUrl' = c /\ DmGoes(c, IF dmCall[c].old = NoIcon THEN "done" ELSE "oldicon")
     \/ DmGoes(c, "cleanup") /\ UNCHANGED iconUrl
     \/ DmGoes(c, "done") /\ UNCHANGED iconUrl
  /\ UNCHANGED <<group, store>>

\* The icon it has read goes from the store, or stays there for good.
DeleteOldIcon(c) ==
  /\ dmCall[c].at \in {"oldicon", "dropicon"}
  /\ store' \in {store, store \ {dmCall[c].old}}
  /\ DmGoes(c, "done")
  /\ UNCHANGED <<group, iconUrl>>

DeleteNewIcon(c) ==
  /\ dmCall[c].at = "cleanup"
  /\ store' \in {store, store \ {c}}
  /\ DmGoes(c, "done")
  /\ UNCHANGED <<group, iconUrl>>

RemoveGroupIcon(c, me) == iconUrl # NoIcon /\ IconCall(c, me, "noicon")

\* Mutant: the object goes before the row is written.
RemoveObjectFirst(c) ==
  /\ dmCall[c].at = "noicon"
  /\ \/ store' = store \ {dmCall[c].old} /\ DmGoes(c, "dropicon") /\ UNCHANGED iconUrl
     \/ iconUrl' = NoIcon /\ DmGoes(c, "dropicon") /\ UNCHANGED store
  /\ UNCHANGED group

RemoveIconTx(c) ==
  /\ dmCall[c].at = "noicon"
  /\ \/ iconUrl' = NoIcon /\ DmGoes(c, "dropicon")
     \/ DmGoes(c, "done") /\ UNCHANGED iconUrl
  /\ UNCHANGED <<group, store>>

GroupDmNext == \E c \in DmCalls :
  \/ \E me \in Persons :
       \/ \E us \in SUBSET Persons : AddMembers(c, me, us)
       \/ \E u \in Persons : KickMember(c, me, u)
       \/ LeaveGroup(c, me) \/ SetGroupIcon(c, me) \/ RemoveGroupIcon(c, me)
  \/ AddMembersTx(c) \/ KickMemberTx(c) \/ LeaveGroupTx(c)
  \/ PutIcon(c) \/ SetIconTx(c) \/ DeleteOldIcon(c) \/ DeleteNewIcon(c)
  \/ RemoveIconTx(c)

GroupDmSpec == GroupDmInit /\ [][GroupDmNext]_dmVars

-----------------------------------------------------------------------------

\* Never more than GROUP_DM_MAX_TOTAL members, whatever additions overlap
\* (addParticipants, FR-DM-07).
GroupCap == INSTANCE CappedSet WITH Cap <- GroupMax, held <- In(group)
GroupImplementsCap == GroupCap!CapSpec

\* A group with members has its owner among them, whoever leaves, is removed or
\* takes over at the same time (leaveGroup, FR-DM-09; kickParticipant).
OwnerIsMember == LiveGroup => group.owner \in In(group)

\* The icon the group shows is in the object store, whatever uploads and
\* removals overlap or fail half-way (setGroupIcon, removeGroupIcon).
IconStored == iconUrl # NoIcon => iconUrl \in store

\* A group never refers to what is not there, an owner or an icon.
GroupSound == OwnerIsMember /\ IconStored
=============================================================================
