---------------------------- MODULE MCWorkspace ----------------------------
(* Small instances of ten components of a workspace that share no state,   *)
(* for TLC: a behaviour is one of one of them, the others stay in one       *)
(* initial state.                                                           *)
EXTENDS Friends, Pins, Reactions, Membership, GroupDm, Attachments, Ordering,
        Reminders, RegexRunner, MessageEdit, TLC

CONSTANTS x1, x2, x3, y1, y2, y3, y4, z1, z2

OnlyOne == {y1}
Two == {y1, y2}
TheThree == {y1, y2, y3}
Four == {y1, y2, y3, y4}
Three == {x1, x2, x3}
TwoPages == {z1, z2}

VARIABLE part \* the component that runs

Init ==
  /\ part \in {"friends", "pins", "reactions", "members", "dm", "attachments",
               "ordering", "reminders", "automod", "edits"}
  /\ PinsInit /\ ReactionsInit /\ MembershipInit /\ AttachmentsInit /\ RemindersInit
  /\ EditInit
  /\ FriendsInit /\ (part = "friends" \/ \A p \in Requests : ask[p].me = y1)
  /\ GroupDmInit /\ group.members = <<y1, y2, y3>> \* whoever they are
  /\ OrderingInit /\ (part = "ordering" \/ Listed = {})
  /\ RunnerInit /\ (part = "automod" \/ \A j \in Jobs : job[j].op = "match" /\ job[j].re = "hit")

Next ==
  \/ /\ part = "friends" /\ FriendsNext
     /\ UNCHANGED <<part, pinVars, reactionVars, memberVars, dmVars, attachmentVars,
                    orderingVars, remindersVars, runnerVars, editVars>>
  \/ /\ part = "pins" /\ PinsNext
     /\ UNCHANGED <<part, friendVars, reactionVars, memberVars, dmVars, attachmentVars,
                    orderingVars, remindersVars, runnerVars, editVars>>
  \/ /\ part = "reactions" /\ ReactionsNext
     /\ UNCHANGED <<part, friendVars, pinVars, memberVars, dmVars, attachmentVars,
                    orderingVars, remindersVars, runnerVars, editVars>>
  \/ /\ part = "members" /\ MembershipNext
     /\ UNCHANGED <<part, friendVars, pinVars, reactionVars, dmVars, attachmentVars,
                    orderingVars, remindersVars, runnerVars, editVars>>
  \/ /\ part = "dm" /\ GroupDmNext
     /\ UNCHANGED <<part, friendVars, pinVars, reactionVars, memberVars, attachmentVars,
                    orderingVars, remindersVars, runnerVars, editVars>>
  \/ /\ part = "attachments" /\ AttachmentsNext
     /\ UNCHANGED <<part, friendVars, pinVars, reactionVars, memberVars, dmVars,
                    orderingVars, remindersVars, runnerVars, editVars>>
  \/ /\ part = "ordering" /\ OrderingNext
     /\ UNCHANGED <<part, friendVars, pinVars, reactionVars, memberVars, dmVars,
                    attachmentVars, remindersVars, runnerVars, editVars>>
  \/ /\ part = "automod" /\ RunnerNext
     /\ UNCHANGED <<part, friendVars, pinVars, reactionVars, memberVars, dmVars,
                    attachmentVars, orderingVars, remindersVars, editVars>>
  \/ /\ part = "reminders" /\ RemindersNext
     /\ UNCHANGED <<part, friendVars, pinVars, reactionVars, memberVars, dmVars,
                    attachmentVars, orderingVars, runnerVars, editVars>>
  \/ /\ part = "edits" /\ EditNext
     /\ UNCHANGED <<part, friendVars, pinVars, reactionVars, memberVars, dmVars,
                    attachmentVars, orderingVars, remindersVars, runnerVars>>

workspaceVars == <<part, friendVars, pinVars, reactionVars, memberVars, dmVars,
                   attachmentVars, orderingVars, remindersVars, runnerVars, editVars>>

Spec == Init /\ [][Next]_workspaceVars

\* The component that runs keeps its types; the others do not move.
WorkspaceTypeOK ==
  CASE part = "friends" -> FriendsTypeOK
    [] part = "pins" -> PinsTypeOK
    [] part = "reactions" -> ReactionsTypeOK
    [] part = "members" -> MembershipTypeOK
    [] part = "dm" -> GroupDmTypeOK
    [] part = "attachments" -> AttachmentsTypeOK
    [] part = "ordering" -> OrderingTypeOK
    [] part = "reminders" -> RemindersTypeOK
    [] part = "automod" -> RunnerTypeOK
    [] part = "edits" -> EditTypeOK

\* Every cap of a workspace is kept the way CappedSet says: the pins of a
\* channel (messages.service.ts:4103), the kinds of reaction of a message
\* (reactions.service.ts:229), the uses of an invite (invites.service.ts:399)
\* and the members of a group DM (direct-messages.service.ts:1179).
CapsImplemented ==
  PinsImplementCap /\ ReactionsImplementCap /\ InviteImplementsCap /\ GroupImplementsCap

Symmetry == Permutations(Three) \cup Permutations(TwoPages)
=============================================================================
