----------------------------- MODULE CapProofs -----------------------------
(* The caps on pins, on kinds of reaction and on the members of a group     *)
(* hold for any number of calls and any cap: each of the tables implements  *)
(* CappedSet.                                                               *)
EXTENDS MCWorkspace, PeopleProofs, WorkspaceProofs, MessageEditProofs,
        FiniteSetTheorems, SequenceTheorems, TLAPS

-----------------------------------------------------------------------------
(* Pins. *)

\* The call in the critical section has the channel's advisory lock, and the
\* count it has made still holds.
PinLocked ==
  \A p \in Pinners :
    /\ pinCall[p].at \in {"read", "count", "pin"} => pinLock = p
    /\ pinCall[p].at \in {"count", "pin", "unpin"} => pinCall[p].msg \in PinMsgs
    /\ pinCall[p].at = "read" => pinCall[p].msg \in PinMsgs
    /\ pinCall[p].at = "pin" => Cardinality(LivePins) < HardCap

PinsIInv ==
  /\ PinsTypeOK /\ PinLocked /\ PinsAnnounced
  /\ IsFiniteSet(LivePins) /\ Cardinality(LivePins) <= HardCap

\* Taking pins away keeps what is finite finite, and the count.
LEMMA FewerPins ==
  ASSUME IsFiniteSet(LivePins), LivePins' \subseteq LivePins
  PROVE  /\ IsFiniteSet(LivePins') /\ Cardinality(LivePins') <= Cardinality(LivePins)
         /\ Cardinality(LivePins') \in Nat /\ Cardinality(LivePins) \in Nat
BY FS_Subset, FS_CardinalityType

\* Nothing is pinned at first.
LEMMA PinsInitHolds == PinsInit => PinsIInv
<1> SUFFICES ASSUME PinsInit PROVE PinsIInv
  OBVIOUS
<1>1. LivePins = {}
  BY DEF PinsInit, LivePins
<1>2. IsFiniteSet(LivePins) /\ Cardinality(LivePins) <= HardCap
  BY <1>1, FS_EmptySet, PinsAssumption DEF PinsAssumption
<1>3. PinsTypeOK
  BY DEF PinsInit, PinsTypeOK
<1>4. PinLocked /\ PinsAnnounced
  BY DEF PinsInit, PinLocked, PinsAnnounced
<1> QED BY <1>2, <1>3, <1>4 DEF PinsIInv

\* A step of PinsNext keeps the invariant, and adds to the live pins within
\* the cap or takes some away.
LEMMA PinsStep ==
  ASSUME PinsIInv, [PinsNext]_pinVars
  PROVE  /\ PinsIInv'
         /\ \/ LivePins' \subseteq LivePins
            \/ /\ LivePins \subseteq LivePins'
               /\ IsFiniteSet(LivePins') /\ Cardinality(LivePins') <= HardCap
<1> USE PinsAssumption DEF PinsAssumption, PinsIInv
<1> DEFINE PinsStay == LivePins' \subseteq LivePins /\ IsFiniteSet(LivePins')
                   /\ Cardinality(LivePins') <= Cardinality(LivePins)
                   /\ Cardinality(LivePins') \in Nat
<1>0. Cardinality(LivePins) \in Nat
  BY FS_CardinalityType
<1>1. ASSUME NEW p \in Pinners, Pin(p) PROVE PinsIInv' /\ LivePins' = LivePins
  <2>1. LivePins' = LivePins
    BY <1>1 DEF Pin, LivePins
  <2>2. PinsTypeOK'
    BY <1>1 DEF Pin, PinsTypeOK
  <2>3. PinLocked'
    BY <1>1, <2>1 DEF Pin, PinLocked, PinsTypeOK
  <2> QED BY <1>1, <2>1, <2>2, <2>3 DEF Pin, PinsAnnounced
<1>2. ASSUME NEW p \in Pinners, PinRead(p) \/ PinCount(p)
      PROVE  PinsIInv' /\ LivePins' = LivePins
  <2>1. LivePins' = LivePins
    BY <1>2 DEF PinRead, PinCount, LivePins
  <2>2. PinsTypeOK'
    BY <1>2 DEF PinRead, PinCount, PinsTypeOK, PinEnds, PinGoto
  <2>3. PinLocked'
    BY <1>0, <1>2, <2>1 DEF PinRead, PinCount, PinLocked, PinsTypeOK, PinEnds, PinGoto
  <2> QED BY <1>2, <2>1, <2>2, <2>3 DEF PinRead, PinCount, PinsAnnounced
<1>3. ASSUME NEW p \in Pinners, PinUpdate(p)
      PROVE  /\ PinsIInv' /\ LivePins \subseteq LivePins'
             /\ IsFiniteSet(LivePins') /\ Cardinality(LivePins') <= HardCap
  <2> DEFINE m == pinCall[p].msg
  <2>1. LivePins' = LivePins \/ LivePins' = LivePins \cup {m}
    BY <1>3 DEF PinUpdate, LivePins
  <2>2. m \in PinMsgs /\ pinLock = p /\ Cardinality(LivePins) < HardCap
    BY <1>3 DEF PinUpdate, PinLocked
  <2>3. IsFiniteSet(LivePins') /\ Cardinality(LivePins') <= HardCap
    <3>1. CASE LivePins' = LivePins
      BY <3>1
    <3>2. CASE LivePins' = LivePins \cup {m}
      <4>1. /\ IsFiniteSet(LivePins')
            /\ Cardinality(LivePins') \in {Cardinality(LivePins), Cardinality(LivePins) + 1}
        BY <3>2, FS_AddElement
      <4>2. Cardinality(LivePins) < HardCap /\ HardCap \in Nat
        BY <2>2
      <4> QED BY ONLY <1>0, <4>1, <4>2
    <3> QED BY <2>1, <3>1, <3>2
  <2>4. PinsTypeOK'
    BY <1>3, <2>2 DEF PinUpdate, PinsTypeOK, PinEnds, PinGoto
  <2>5. PinLocked'
    <3>1. /\ pinCall'[p].at = "done"
          /\ \A q \in Pinners : q # p => pinCall'[q] = pinCall[q]
      BY <1>3 DEF PinUpdate, PinsTypeOK, PinEnds, PinGoto
    <3>2. ASSUME NEW q \in Pinners, q # p
          PROVE  /\ pinCall'[q].at \notin {"read", "count", "pin"}
                 /\ pinCall'[q].at = "unpin" => pinCall'[q].msg \in PinMsgs
      BY <2>2, <3>1, <3>2 DEF PinLocked
    <3> QED BY <3>1, <3>2 DEF PinLocked
  <2>6. PinsAnnounced'
    BY <1>3 DEF PinUpdate, PinsAnnounced
  <2> QED BY <2>1, <2>3, <2>4, <2>5, <2>6
<1>4. ASSUME NEW p \in Pinners, Unpin(p) PROVE PinsIInv' /\ LivePins' = LivePins
  <2>1. LivePins' = LivePins
    BY <1>4 DEF Unpin, LivePins
  <2>2. PinsTypeOK'
    BY <1>4 DEF Unpin, PinsTypeOK
  <2>3. PinLocked'
    BY <1>4, <2>1 DEF Unpin, PinLocked, PinsTypeOK
  <2> QED BY <1>4, <2>1, <2>2, <2>3 DEF Unpin, PinsAnnounced
<1>5. ASSUME NEW p \in Pinners, UnpinUpdate(p) PROVE PinsIInv' /\ PinsStay
  <2>1. LivePins' \subseteq LivePins
    BY <1>5 DEF UnpinUpdate, LivePins
  <2>2. PinsStay
    BY <2>1, FewerPins
  <2>3. PinsTypeOK'
    BY <1>5 DEF UnpinUpdate, PinsTypeOK, PinGoto
  <2>4. PinLocked'
    BY <1>0, <1>5, <2>2 DEF UnpinUpdate, PinLocked, PinsTypeOK, PinGoto
  <2>5. PinsAnnounced'
    BY <1>5 DEF UnpinUpdate, PinsAnnounced
  <2> QED BY <1>0, <2>2, <2>3, <2>4, <2>5
<1>6. ASSUME NEW ms \in SUBSET PinMsgs, DeleteMessages(ms) PROVE PinsIInv' /\ PinsStay
  <2>1. LivePins' \subseteq LivePins
    BY <1>6 DEF DeleteMessages, LivePins
  <2>2. PinsStay
    BY <2>1, FewerPins
  <2>3. PinsTypeOK'
    BY <1>6 DEF DeleteMessages, PinsTypeOK
  <2>4. PinLocked'
    BY <1>0, <1>6, <2>2 DEF DeleteMessages, PinLocked
  <2>5. PinsAnnounced'
    BY <1>6 DEF DeleteMessages, PinsAnnounced
  <2> QED BY <1>0, <2>2, <2>3, <2>4, <2>5
<1>7. ASSUME UNCHANGED pinVars PROVE PinsIInv' /\ LivePins' = LivePins
  BY <1>7 DEF pinVars, LivePins, PinsTypeOK, PinLocked, PinsAnnounced
<1> QED BY <1>1, <1>2, <1>3, <1>4, <1>5, <1>6, <1>7 DEF PinsNext

\* The pins of a channel and the calls of pin and unpin keep their types, and
\* what the last pin event of a live message said is how it is stored.
THEOREM PinsHold == PinsSpec => []PinsTypeOK /\ []PinsAnnounced
<1>1. PinsInit => PinsIInv
  BY PinsInitHolds
<1>2. PinsIInv /\ [PinsNext]_pinVars => PinsIInv'
  BY PinsStep
<1>3. PinsIInv => PinsTypeOK /\ PinsAnnounced
  BY DEF PinsIInv
<1> QED BY <1>1, <1>2, <1>3, PTL DEF PinsSpec

\* CappedSet counts as this module does.
LEMMA PinsSameCount ==
  \A S : (PinCap!IsFiniteSet(S) <=> IsFiniteSet(S)) /\ PinCap!Cardinality(S) = Cardinality(S)
BY DEF PinCap!IsFiniteSet, IsFiniteSet, PinCap!Cardinality, Cardinality

\* Whatever calls of pin overlap, the live pins never exceed HARD_PIN_CAP and
\* every step adds within the cap or takes away (pin, the advisory lock).
THEOREM PinsImplementTheCap == PinsSpec => PinsImplementCap
<1>1. PinsInit => PinsIInv
  BY PinsInitHolds
<1>2. PinsIInv /\ [PinsNext]_pinVars => PinsIInv'
  BY PinsStep
<1>3. PinsIInv => PinCap!CapInit
  BY PinsSameCount DEF PinsIInv, PinCap!CapInit, PinCap!WithinCap
<1>4. PinsIInv /\ [PinsNext]_pinVars => [PinCap!Take \/ PinCap!Free]_LivePins
  BY PinsStep, PinsSameCount DEF PinCap!Take, PinCap!Free, PinCap!WithinCap
<1> QED BY <1>1, <1>2, <1>3, <1>4, PTL DEF PinsSpec, PinsImplementCap, PinCap!CapSpec

-----------------------------------------------------------------------------
(* Kinds of reaction. *)

\* A toggle that inserts has the message's row lock, and the count it has made
\* still holds: what others do meanwhile only takes rows away.
ToggleLocked ==
  \A p \in Toggles :
    /\ toggle[p].at \in {"insert", "count", "commit"} => msgLock = p
    /\ toggle[p].at = "commit" => Cardinality(Kinds(Sees(p))) <= MaxKinds
    /\ toggle[p].at # "new" => toggle[p].row \in Reactors \X Emojis
    /\ toggle[p].at = "new" => ~toggle[p].mine

ReactionsIInv ==
  /\ ReactionsTypeOK /\ ToggleLocked
  /\ IsFiniteSet(Kinds(rows)) /\ Cardinality(Kinds(rows)) <= MaxKinds

\* Whoever commits sees the committed kinds and at most one more.
LEMMA KindsSeen ==
  ASSUME IsFiniteSet(Kinds(rows)), NEW p \in Toggles
  PROVE  /\ Kinds(rows) \subseteq Kinds(Sees(p))
         /\ IsFiniteSet(Kinds(Sees(p))) /\ Cardinality(Kinds(Sees(p))) \in Nat
         /\ Cardinality(Kinds(rows)) \in Nat
<1>1. Kinds(Sees(p)) \in {Kinds(rows), Kinds(rows) \cup {toggle[p].row[2]}}
  BY DEF Kinds, Sees
<1>2. IsFiniteSet(Kinds(rows) \cup {toggle[p].row[2]})
  BY FS_AddElement
<1> QED BY <1>1, <1>2, FS_CardinalityType

\* When rows go and the toggles stay, every count that was made still holds.
LEMMA FewerKinds ==
  ASSUME ReactionsIInv, rows' \subseteq rows
  PROVE  /\ Kinds(rows)' \subseteq Kinds(rows)
         /\ IsFiniteSet(Kinds(rows)') /\ Cardinality(Kinds(rows)') <= MaxKinds
         /\ \A p \in Toggles :
              toggle'[p].mine = toggle[p].mine /\ toggle'[p].row = toggle[p].row =>
                /\ Kinds(Sees(p))' \subseteq Kinds(Sees(p))
                /\ Cardinality(Kinds(Sees(p))) <= MaxKinds
                     => Cardinality(Kinds(Sees(p))') <= MaxKinds
<1> USE ReactionsAssumption DEF ReactionsAssumption, ReactionsIInv
<1>1. Kinds(rows)' \subseteq Kinds(rows)
  BY DEF Kinds
<1>2. IsFiniteSet(Kinds(rows)') /\ Cardinality(Kinds(rows)') <= Cardinality(Kinds(rows))
  BY <1>1, FS_Subset
<1>3. /\ Cardinality(Kinds(rows)') \in Nat /\ Cardinality(Kinds(rows)) \in Nat
      /\ Cardinality(Kinds(rows)') <= MaxKinds
  BY <1>2, FS_CardinalityType
<1>4. ASSUME NEW p \in Toggles, toggle'[p].mine = toggle[p].mine,
             toggle'[p].row = toggle[p].row
      PROVE  /\ Kinds(Sees(p))' \subseteq Kinds(Sees(p))
             /\ Cardinality(Kinds(Sees(p))) <= MaxKinds
                  => Cardinality(Kinds(Sees(p))') <= MaxKinds
  <2>1. Kinds(Sees(p))' \subseteq Kinds(Sees(p))
    BY <1>4 DEF Kinds, Sees
  <2>2. IsFiniteSet(Kinds(Sees(p))) /\ Cardinality(Kinds(Sees(p))) \in Nat
    BY KindsSeen
  <2>3. /\ IsFiniteSet(Kinds(Sees(p))')
        /\ Cardinality(Kinds(Sees(p))') <= Cardinality(Kinds(Sees(p)))
    BY <2>1, <2>2, FS_Subset
  <2>4. Cardinality(Kinds(Sees(p))') \in Nat
    BY <2>3, FS_CardinalityType
  <2> QED BY <2>1, <2>2, <2>3, <2>4
<1> QED BY <1>1, <1>2, <1>3, <1>4

\* There is no reaction at first.
LEMMA ReactionsInitHolds == ReactionsInit => ReactionsIInv
<1> SUFFICES ASSUME ReactionsInit PROVE ReactionsIInv
  OBVIOUS
<1>1. Kinds(rows) = {}
  BY DEF ReactionsInit, Kinds
<1>2. IsFiniteSet(Kinds(rows)) /\ Cardinality(Kinds(rows)) <= MaxKinds
  BY <1>1, FS_EmptySet, ReactionsAssumption DEF ReactionsAssumption
<1>3. ReactionsTypeOK /\ ToggleLocked
  BY DEF ReactionsInit, ReactionsTypeOK, ToggleLocked
<1> QED BY <1>2, <1>3 DEF ReactionsIInv

\* A step keeps the invariant, and the kinds of reaction shrink or stay within the cap.
LEMMA ReactionsStep ==
  ASSUME ReactionsIInv, [ReactionsNext]_reactionVars
  PROVE  /\ ReactionsIInv'
         /\ \/ Kinds(rows)' \subseteq Kinds(rows)
            \/ /\ Kinds(rows) \subseteq Kinds(rows)'
               /\ IsFiniteSet(Kinds(rows)') /\ Cardinality(Kinds(rows)') <= MaxKinds
<1> USE ReactionsAssumption DEF ReactionsAssumption
<1>1. ASSUME NEW p \in Toggles, NEW r \in Reactors \X Emojis, Toggle(p, r)
      PROVE  ReactionsIInv' /\ rows' = rows
  <2>1. ReactionsTypeOK'
    BY <1>1 DEF Toggle, ReactionsIInv, ReactionsTypeOK
  <2>2. ToggleLocked'
    BY <1>1 DEF Toggle, ReactionsIInv, ReactionsTypeOK, ToggleLocked, Sees, Kinds
  <2> QED BY <1>1, <2>1, <2>2 DEF Toggle, ReactionsIInv, Kinds
<1>2. ASSUME NEW p \in Toggles, ReadOwn(p) \/ LockMessage(p) \/ InsertOwn(p) \/ CountKinds(p)
      PROVE  ReactionsIInv' /\ rows' = rows
  <2>1. ReactionsTypeOK'
    BY <1>2 DEF ReadOwn, LockMessage, InsertOwn, CountKinds, Goes, Releases,
                ReactionsIInv, ReactionsTypeOK
  <2>2. ToggleLocked'
    <3>1. CASE ReadOwn(p) \/ LockMessage(p) \/ InsertOwn(p)
      <4>1. ASSUME NEW q \in Toggles, toggle'[q].at = "commit"
            PROVE  toggle[q].at = "commit" /\ Kinds(Sees(q))' = Kinds(Sees(q))
        BY <3>1, <4>1 DEF ReadOwn, LockMessage, InsertOwn, Goes, ReactionsIInv,
                          ReactionsTypeOK, Sees, Kinds
      <4>2. \A q \in Toggles : toggle'[q].at \in {"insert", "count", "commit"} => msgLock' = q
        BY <3>1 DEF ReadOwn, LockMessage, InsertOwn, Goes, ReactionsIInv, ReactionsTypeOK,
                    ToggleLocked
      <4>3. \A q \in Toggles :
              /\ toggle'[q].at # "new" => toggle'[q].row \in Reactors \X Emojis
              /\ toggle'[q].at = "new" => ~toggle'[q].mine
        BY <3>1 DEF ReadOwn, LockMessage, InsertOwn, Goes, ReactionsIInv, ReactionsTypeOK,
                    ToggleLocked
      <4> QED BY <4>1, <4>2, <4>3 DEF ReactionsIInv, ToggleLocked
    <3>2. CASE CountKinds(p)
      <4>1. \A q \in Toggles : Kinds(Sees(q))' = Kinds(Sees(q))
        BY <3>2 DEF CountKinds, Goes, ReactionsIInv, ReactionsTypeOK, Sees, Kinds
      <4>2. Cardinality(Kinds(Sees(p))) \in Nat
        BY KindsSeen DEF ReactionsIInv
      <4> QED BY <3>2, <4>1, <4>2
              DEF CountKinds, Goes, Releases, ReactionsIInv, ReactionsTypeOK, ToggleLocked
    <3> QED BY <1>2, <3>1, <3>2
  <2> QED BY <1>2, <2>1, <2>2
          DEF ReadOwn, LockMessage, InsertOwn, CountKinds, ReactionsIInv, Kinds
<1>3. ASSUME NEW p \in Toggles, DeleteOwn(p) PROVE ReactionsIInv' /\ rows' \subseteq rows
  <2>1. ReactionsTypeOK'
    BY <1>3 DEF DeleteOwn, Goes, ReactionsIInv, ReactionsTypeOK
  <2>2. rows' \subseteq rows
    BY <1>3 DEF DeleteOwn
  <2>3. ToggleLocked'
    <3>1. \A q \in Toggles : toggle'[q].mine = toggle[q].mine /\ toggle'[q].row = toggle[q].row
      BY <1>3 DEF DeleteOwn, Goes, ReactionsIInv, ReactionsTypeOK
    <3>2. /\ msgLock' = msgLock
          /\ \A q \in Toggles : \/ toggle'[q].at = toggle[q].at
                                \/ toggle'[q].at = "done" /\ toggle[q].at # "new"
      BY <1>3 DEF DeleteOwn, Goes, ReactionsIInv, ReactionsTypeOK
    <3> QED BY <2>2, <3>1, <3>2, FewerKinds, KindsSeen DEF ToggleLocked, ReactionsIInv
  <2> QED BY <2>1, <2>2, <2>3, FewerKinds DEF ReactionsIInv
<1>4. ASSUME NEW p \in Toggles, CommitInsert(p)
      PROVE  /\ ReactionsIInv' /\ Kinds(rows) \subseteq Kinds(rows)'
             /\ IsFiniteSet(Kinds(rows)') /\ Cardinality(Kinds(rows)') <= MaxKinds
  <2>1. ReactionsTypeOK'
    <3>1. toggle[p].row \in Reactors \X Emojis /\ ReactionsTypeOK
      BY <1>4 DEF CommitInsert, ReactionsIInv, ToggleLocked
    <3>2. rows' \subseteq Reactors \X Emojis /\ live' \in BOOLEAN
      BY <1>4, <3>1 DEF CommitInsert, Sees, ReactionsTypeOK
    <3>3. /\ toggle' = [toggle EXCEPT ![p].at = "done"]
          /\ msgLock' \in Toggles \cup {NoToggle}
      BY <1>4, <3>1 DEF CommitInsert, Goes, Releases, ReactionsTypeOK
    <3> QED BY <3>1, <3>2, <3>3 DEF ReactionsTypeOK
  <2>2. Kinds(rows)' = Kinds(Sees(p))
    BY <1>4 DEF CommitInsert, Kinds
  <2>3. msgLock = p /\ Cardinality(Kinds(Sees(p))) <= MaxKinds
    BY <1>4 DEF CommitInsert, ReactionsIInv, ToggleLocked
  <2>4. \A q \in Toggles : toggle'[q].at \notin {"insert", "count", "commit"}
    BY <1>4, <2>3 DEF CommitInsert, Goes, ReactionsIInv, ReactionsTypeOK, ToggleLocked
  <2>5. ToggleLocked'
    BY <1>4, <2>4 DEF CommitInsert, Goes, ReactionsIInv, ReactionsTypeOK, ToggleLocked
  <2> QED BY <2>1, <2>2, <2>3, <2>5, KindsSeen DEF ReactionsIInv
<1>5. ASSUME NEW rs \in SUBSET rows, RemoveRows(rs)
      PROVE  ReactionsIInv' /\ rows' \subseteq rows
  <2>1. ReactionsTypeOK' /\ rows' \subseteq rows /\ toggle' = toggle /\ msgLock' = msgLock
    BY <1>5 DEF RemoveRows, ReactionsIInv, ReactionsTypeOK
  <2>2. ToggleLocked'
    BY <2>1, FewerKinds, KindsSeen DEF ToggleLocked, ReactionsIInv
  <2> QED BY <2>1, <2>2, FewerKinds DEF ReactionsIInv
<1>6. ASSUME DeleteMessage \/ UNCHANGED reactionVars
      PROVE  ReactionsIInv' /\ rows' = rows
  BY <1>6 DEF DeleteMessage, reactionVars, ReactionsIInv, ReactionsTypeOK, ToggleLocked,
              Sees, Kinds
<1> QED BY <1>1, <1>2, <1>3, <1>4, <1>5, <1>6 DEF ReactionsNext, Kinds

\* CappedSet counts as this module does.
LEMMA KindsSameCount ==
  \A S : (KindCap!IsFiniteSet(S) <=> IsFiniteSet(S)) /\ KindCap!Cardinality(S) = Cardinality(S)
BY DEF KindCap!IsFiniteSet, IsFiniteSet, KindCap!Cardinality, Cardinality

\* The types of the toggles and of the rows of a message.
THEOREM ReactionTypesOK == ReactionsSpec => []ReactionsTypeOK
<1>1. ReactionsIInv /\ [ReactionsNext]_reactionVars => ReactionsIInv'
  BY ReactionsStep
<1>2. ReactionsIInv => ReactionsTypeOK
  BY DEF ReactionsIInv
<1> QED BY <1>1, <1>2, ReactionsInitHolds, PTL DEF ReactionsSpec

\* Whatever toggles, removals and clears overlap, a message never has more
\* kinds of reaction than MAX_REACTION_KINDS (add, the row lock).
THEOREM ReactionsImplementTheCap == ReactionsSpec => ReactionsImplementCap
<1>1. ReactionsInit => ReactionsIInv
  BY ReactionsInitHolds
<1>2. ReactionsIInv /\ [ReactionsNext]_reactionVars => ReactionsIInv'
  BY ReactionsStep
<1>3. ReactionsIInv => KindCap!CapInit
  BY KindsSameCount DEF ReactionsIInv, KindCap!CapInit, KindCap!WithinCap
<1>4. ReactionsIInv /\ [ReactionsNext]_reactionVars
        => [KindCap!Take \/ KindCap!Free]_(Kinds(rows))
  BY ReactionsStep, KindsSameCount DEF KindCap!Take, KindCap!Free, KindCap!WithinCap
<1> QED BY <1>1, <1>2, <1>3, <1>4, PTL
        DEF ReactionsSpec, ReactionsImplementCap, KindCap!CapSpec

-----------------------------------------------------------------------------
(* Group DMs. *)

\* A group that may be: within the cap, and with its owner unless it is deleted.
GroupRows == [members : Seq(Persons), owner : Persons]
GoodGroup(g) ==
  /\ g \in GroupRows /\ IsInjective(g.members)
  /\ IsFiniteSet(In(g)) /\ Cardinality(In(g)) <= GroupMax
  /\ g.members # <<>> => g.owner \in In(g)

DmStages == {"new", "add", "kick", "leave", "put", "seticon", "oldicon", "cleanup", "noicon",
             "dropicon", "done"}

DmTypes ==
  /\ iconUrl \in DmCalls \cup {NoIcon} /\ store \subseteq DmCalls
  /\ dmCall \in [DmCalls -> [at : DmStages, me : Persons, them : SUBSET Persons,
                             seen : GroupRows, old : DmCalls \cup {NoIcon}]]

\* What a call has read is a group that was there, and what it is to write was
\* checked against it.
CallsAreChecked ==
  \A c \in DmCalls :
    /\ GoodGroup(dmCall[c].seen)
    /\ dmCall[c].at = "kick" => dmCall[c].seen.owner \notin dmCall[c].them
    /\ dmCall[c].at = "add" =>
         /\ dmCall[c].seen.members # <<>> /\ dmCall[c].them \cap In(dmCall[c].seen) = {}
         /\ IsFiniteSet(In(dmCall[c].seen) \cup dmCall[c].them)
         /\ Cardinality(In(dmCall[c].seen) \cup dmCall[c].them) <= GroupMax

\* A key is the icon only once the call that uploaded it has committed, and a key
\* that was the icon of a call's group is never set again.
KeysAreSpent ==
  /\ iconUrl # NoIcon => iconUrl \in store /\ dmCall[iconUrl].at \in {"oldicon", "done"}
  /\ \A c \in DmCalls :
       /\ dmCall[c].at = "seticon" => c \in store
       /\ dmCall[c].old # NoIcon => dmCall[dmCall[c].old].at \in {"oldicon", "done"}
       /\ dmCall[c].at \in {"oldicon", "noicon", "dropicon"} => dmCall[c].old # NoIcon
       /\ dmCall[c].at \in {"oldicon", "dropicon"} => dmCall[c].old # iconUrl

GroupIInv == DmTypes /\ GoodGroup(group) /\ CallsAreChecked /\ KeysAreSpent

-----------------------------------------------------------------------------
\* The members of a group of at most n rows are n at most.
LEMMA FewMembers ==
  ASSUME NEW n \in Nat, NEW s \in [1..n -> Persons]
  PROVE  IsFiniteSet(ToSet(s)) /\ Cardinality(ToSet(s)) <= n
<1>1. s \in Surjection(1..n, ToSet(s))
  BY DEF Surjection, ToSet
<1>2. ExistsSurjection(1..n, ToSet(s))
  BY <1>1 DEF ExistsSurjection
<1> QED BY <1>2, FS_NatSurjection, FS_SurjCardinalityBound

\* Removing a row takes its user off the list, and nobody else.
LEMMA RemovedRow ==
  ASSUME NEW s \in Seq(Persons), IsInjective(s), NEW i \in DOMAIN s
  PROVE  /\ RemoveAt(s, i) \in Seq(Persons) /\ IsInjective(RemoveAt(s, i))
         /\ ToSet(RemoveAt(s, i)) = ToSet(s) \ {s[i]}
<1> DEFINE t == RemoveAt(s, i)
<1>1. /\ i \in 1..Len(s) /\ Len(s) \in Nat /\ DOMAIN s = 1..Len(s)
      /\ \A j \in 1..Len(s) : s[j] \in Persons
  OBVIOUS
<1>2. /\ t \in Seq(Persons) /\ Len(t) = Len(s) - 1 /\ DOMAIN t = 1..(Len(s) - 1)
      /\ \A j \in 1..(Len(s) - 1) : t[j] = IF j < i THEN s[j] ELSE s[j + 1]
  <2> DEFINE u == SubSeq(s, 1, i - 1)
             v == SubSeq(s, i + 1, Len(s))
  <2>1. /\ u \in Seq(Persons) /\ Len(u) = i - 1
        /\ \A j \in 1..(i - 1) : u[j] = s[j]
    BY <1>1
  <2>2. /\ v \in Seq(Persons) /\ Len(v) = Len(s) - i
        /\ \A j \in 1..(Len(s) - i) : v[j] = s[i + j]
    <3>1. /\ v \in Seq(Persons)
          /\ Len(v) = IF i + 1 <= Len(s) THEN Len(s) - (i + 1) + 1 ELSE 0
          /\ \A j \in 1..(Len(s) - (i + 1) + 1) : v[j] = s[i + 1 + j - 1]
      BY <1>1, SubSeqProperties
    <3> HIDE DEF v
    <3>2. Len(v) = Len(s) - i
      BY <1>1, <3>1
    <3>3. ASSUME NEW j \in 1..(Len(s) - i) PROVE v[j] = s[i + j]
      <4>1. j \in 1..(Len(s) - (i + 1) + 1) /\ i + 1 + j - 1 = i + j
        BY <1>1
      <4> QED BY <3>1, <4>1
    <3> QED BY <3>1, <3>2, <3>3
  <2>3. t = u \o v
    BY DEF RemoveAt
  <2> HIDE DEF u, v, t
  <2>4. t \in Seq(Persons) /\ Len(t) = Len(s) - 1 /\ DOMAIN t = 1..(Len(s) - 1)
    <3>1. t \in Seq(Persons) /\ Len(t) = Len(u) + Len(v)
      BY <2>1, <2>2, <2>3, ConcatProperties
    <3> QED BY <1>1, <2>1, <2>2, <3>1
  <2>5. ASSUME NEW j \in 1..(Len(s) - 1) PROVE t[j] = IF j < i THEN s[j] ELSE s[j + 1]
    <3>1. CASE j < i
      BY <1>1, <2>1, <2>2, <2>3, <3>1
    <3>2. CASE ~(j < i)
      <4>1. t[j] = v[j - (i - 1)] /\ j - (i - 1) \in 1..(Len(s) - i)
        BY <1>1, <2>1, <2>2, <2>3, <3>2
      <4>2. i + (j - (i - 1)) = j + 1
        BY <1>1
      <4> QED BY <2>2, <3>2, <4>1, <4>2
    <3> QED BY <3>1, <3>2
  <2> QED BY <2>4, <2>5
<1> HIDE DEF t
<1>3. IsInjective(t)
  BY <1>1, <1>2 DEF IsInjective
<1>4. ASSUME NEW x \in ToSet(t) PROVE x \in ToSet(s) \ {s[i]}
  BY <1>1, <1>2, <1>4 DEF ToSet, IsInjective
<1>5. ASSUME NEW x \in ToSet(s) \ {s[i]} PROVE x \in ToSet(t)
  <2>1. PICK j \in 1..Len(s) : x = s[j] /\ j # i
    BY <1>1, <1>5 DEF ToSet
  <2>2. CASE j < i
    <3>1. j \in 1..(Len(s) - 1) /\ t[j] = x
      BY <1>1, <1>2, <2>1, <2>2
    <3> QED BY <1>2, <3>1 DEF ToSet
  <2>3. CASE j > i
    <3>1. (j - 1) \in 1..(Len(s) - 1) /\ t[j - 1] = x
      BY <1>1, <1>2, <2>1, <2>3
    <3> QED BY <1>2, <3>1 DEF ToSet
  <2> QED BY <1>1, <2>1, <2>2, <2>3
<1> QED BY <1>2, <1>3, <1>4, <1>5 DEF t

\* The rows added come behind those that are there.
LEMMA AddedRows ==
  ASSUME NEW s \in Seq(Persons), IsInjective(s), NEW us \in SUBSET Persons, IsFiniteSet(us),
         us \cap ToSet(s) = {}, NEW t \in SetToSeqs(us)
  PROVE  /\ s \o t \in Seq(Persons) /\ IsInjective(s \o t)
         /\ ToSet(s) \subseteq ToSet(s \o t) /\ ToSet(s \o t) \subseteq ToSet(s) \cup us
<1>1. Cardinality(us) \in Nat
  BY FS_CardinalityType
<1> DEFINE n == Cardinality(us)
<1>2. t \in [1..n -> us] /\ \A a, b \in 1..n : a # b => t[a] # t[b]
  BY DEF SetToSeqs
<1>3. /\ t \in Seq(Persons) /\ Len(t) = n /\ DOMAIN t = 1..n /\ DOMAIN s = 1..Len(s)
      /\ Len(s) \in Nat /\ \A j \in 1..Len(s) : s[j] \in ToSet(s)
  BY <1>1, <1>2 DEF ToSet
<1> HIDE DEF n
<1>4. /\ s \o t \in Seq(Persons) /\ Len(s \o t) = Len(s) + n /\ DOMAIN (s \o t) = 1..(Len(s) + n)
      /\ \A j \in 1..Len(s) : (s \o t)[j] = s[j]
      /\ \A j \in (Len(s) + 1)..(Len(s) + n) : (s \o t)[j] = t[j - Len(s)] /\ j - Len(s) \in 1..n
  BY <1>1, <1>3 DEF n
<1>5. IsInjective(s \o t)
  <2> SUFFICES ASSUME NEW a \in 1..(Len(s) + n), NEW b \in 1..(Len(s) + n),
                      (s \o t)[a] = (s \o t)[b]
               PROVE  a = b
    BY <1>4 DEF IsInjective
  <2>1. CASE a <= Len(s) /\ b <= Len(s)
    BY <1>3, <1>4, <2>1 DEF IsInjective
  <2>2. CASE a > Len(s) /\ b > Len(s)
    <3>1. a \in (Len(s) + 1)..(Len(s) + n) /\ b \in (Len(s) + 1)..(Len(s) + n) /\ n \in Nat
      BY <1>1, <1>3, <2>2 DEF n
    <3>2. t[a - Len(s)] = t[b - Len(s)] /\ a - Len(s) \in 1..n /\ b - Len(s) \in 1..n
      BY <1>4, <3>1
    <3> QED BY <1>2, <1>3, <3>1, <3>2 DEF n
  <2>3. CASE (a <= Len(s) /\ b > Len(s)) \/ (b <= Len(s) /\ a > Len(s))
    <3>1. ASSUME NEW x \in 1..Len(s), NEW y \in (Len(s) + 1)..(Len(s) + n)
          PROVE  (s \o t)[x] # (s \o t)[y]
      <4>1. (s \o t)[x] \in ToSet(s) /\ (s \o t)[y] \in us
        BY <1>2, <1>3, <1>4, <3>1 DEF n
      <4> QED BY <4>1
    <3> QED BY <1>1, <1>3, <2>3, <3>1 DEF n
  <2> QED BY <1>1, <1>3, <2>1, <2>2, <2>3 DEF n
<1>6. ASSUME NEW x \in ToSet(s) PROVE x \in ToSet(s \o t)
  <2>1. PICK j \in 1..Len(s) : x = s[j]
    BY <1>3, <1>6 DEF ToSet
  <2>2. j \in DOMAIN (s \o t) /\ (s \o t)[j] = x
    BY <1>1, <1>3, <1>4, <2>1 DEF n
  <2> QED BY <2>2 DEF ToSet
<1>7. ASSUME NEW x \in ToSet(s \o t) PROVE x \in ToSet(s) \cup us
  <2>1. PICK j \in 1..(Len(s) + n) : x = (s \o t)[j]
    BY <1>4, <1>7 DEF ToSet
  <2>2. CASE j <= Len(s)
    BY <1>3, <1>4, <2>1, <2>2
  <2>3. CASE j > Len(s)
    <3>1. j \in (Len(s) + 1)..(Len(s) + n)
      BY <1>1, <1>3, <2>1, <2>3 DEF n
    <3> QED BY <1>2, <1>4, <2>1, <3>1 DEF n
  <2> QED BY <1>1, <1>3, <2>1, <2>2, <2>3 DEF n
<1> QED BY <1>4, <1>5, <1>6, <1>7

-----------------------------------------------------------------------------
\* The invariant holds of the group as it is created.
LEMMA DmInitHolds == GroupDmInit => GroupIInv
<1> SUFFICES ASSUME GroupDmInit PROVE GroupIInv
  OBVIOUS
<1>1. PICK s \in SeqOf(Persons, GroupMax) :
        Len(s) >= 3 /\ IsInjective(s) /\ group = [members |-> s, owner |-> s[1]]
  BY DEF GroupDmInit
<1>2. PICK n \in 0..GroupMax : s \in [1..n -> Persons]
  BY DEF SeqOf
<1>3. n \in Nat /\ n <= GroupMax /\ s \in Seq(Persons) /\ Len(s) = n /\ DOMAIN s = 1..n
  BY <1>2, GroupDmAssumption DEF GroupDmAssumption
<1>4. IsFiniteSet(ToSet(s)) /\ Cardinality(ToSet(s)) <= GroupMax
  <2>1. IsFiniteSet(ToSet(s)) /\ Cardinality(ToSet(s)) <= n
    BY <1>2, <1>3, FewMembers
  <2> QED BY <1>3, <2>1, FS_CardinalityType, GroupDmAssumption DEF GroupDmAssumption
<1>5. 1 \in DOMAIN s /\ s[1] \in Persons /\ s[1] \in ToSet(s)
  BY <1>1, <1>2, <1>3 DEF ToSet
<1>6. GoodGroup(group)
  BY <1>1, <1>3, <1>4, <1>5 DEF GoodGroup, GroupRows, In
<1>7. dmCall = [c \in DmCalls |-> [at |-> "new", me |-> group.owner, them |-> {},
                                   seen |-> group, old |-> NoIcon]]
      /\ iconUrl = NoIcon /\ store = {}
  BY DEF GroupDmInit
<1>8. group \in GroupRows /\ group.owner \in Persons
  BY <1>6 DEF GoodGroup, GroupRows
<1>9. DmTypes
  BY <1>7, <1>8 DEF DmTypes, DmStages
<1>10. CallsAreChecked
  BY <1>6, <1>7 DEF CallsAreChecked
<1>11. KeysAreSpent
  BY <1>7, GroupDmAssumption DEF KeysAreSpent, GroupDmAssumption
<1> QED BY <1>6, <1>9, <1>10, <1>11 DEF GroupIInv

-----------------------------------------------------------------------------
\* A call that begins has read the group as it is.
LEMMA CallBegins ==
  ASSUME GroupIInv, NEW c \in DmCalls, NEW me \in Persons, NEW us \in SUBSET Persons,
         NEW what \in DmStages, NEW old \in {NoIcon, iconUrl},
         UNCHANGED <<group, iconUrl, store>>, dmCall[c].at = "new",
         dmCall' = [dmCall EXCEPT ![c] = [at |-> what, me |-> me, them |-> us,
                                          seen |-> group, old |-> old]],
         what = "kick" => group.owner \notin us,
         what = "add" => /\ LiveGroup /\ us \cap In(group) = {} /\ IsFiniteSet(In(group) \cup us)
                         /\ Cardinality(In(group) \cup us) <= GroupMax,
         what \notin {"seticon", "oldicon", "dropicon"},
         what = "noicon" => old # NoIcon
  PROVE  GroupIInv'
<1> DEFINE row == [at |-> what, me |-> me, them |-> us, seen |-> group, old |-> old]
<1>1. DmTypes /\ GoodGroup(group) /\ CallsAreChecked /\ KeysAreSpent
  BY DEF GroupIInv
<1>2. row \in [at : DmStages, me : Persons, them : SUBSET Persons,
               seen : GroupRows, old : DmCalls \cup {NoIcon}]
      /\ row.at = what /\ row.them = us /\ row.seen = group /\ row.old = old
  BY <1>1 DEF DmTypes, GoodGroup
<1>3. dmCall' = [dmCall EXCEPT ![c] = row]
  OBVIOUS
<1> HIDE DEF row
<1>4. dmCall'[c] = row /\ \A d \in DmCalls : d # c => dmCall'[d] = dmCall[d]
  BY <1>1, <1>3 DEF DmTypes
<1>5. DmTypes'
  BY <1>1, <1>2, <1>3 DEF DmTypes
<1>6. GoodGroup(group)'
  BY <1>1 DEF GoodGroup, In
<1>7. CallsAreChecked'
  <2>1. ASSUME NEW d \in DmCalls, d # c
        PROVE  /\ GoodGroup(dmCall'[d].seen)
               /\ dmCall'[d].at = "kick" => dmCall'[d].seen.owner \notin dmCall'[d].them
               /\ dmCall'[d].at = "add" =>
                    /\ dmCall'[d].seen.members # <<>>
                    /\ dmCall'[d].them \cap In(dmCall'[d].seen) = {}
                    /\ IsFiniteSet(In(dmCall'[d].seen) \cup dmCall'[d].them)
                    /\ Cardinality(In(dmCall'[d].seen) \cup dmCall'[d].them) <= GroupMax
    BY <1>1, <1>4, <2>1 DEF CallsAreChecked
  <2>2. /\ GoodGroup(dmCall'[c].seen)
        /\ dmCall'[c].at = "kick" => dmCall'[c].seen.owner \notin dmCall'[c].them
        /\ dmCall'[c].at = "add" =>
             /\ dmCall'[c].seen.members # <<>>
             /\ dmCall'[c].them \cap In(dmCall'[c].seen) = {}
             /\ IsFiniteSet(In(dmCall'[c].seen) \cup dmCall'[c].them)
             /\ Cardinality(In(dmCall'[c].seen) \cup dmCall'[c].them) <= GroupMax
    BY <1>1, <1>2, <1>4 DEF LiveGroup
  <2> QED BY <2>1, <2>2 DEF CallsAreChecked
<1>8. KeysAreSpent'
  <2>1. ASSUME NEW k \in DmCalls, dmCall[k].at \in {"oldicon", "done"}
        PROVE  dmCall'[k].at \in {"oldicon", "done"}
    BY <1>4, <2>1
  <2>2. iconUrl' # NoIcon => iconUrl' \in store' /\ dmCall'[iconUrl'].at \in {"oldicon", "done"}
    BY <1>1, <2>1 DEF KeysAreSpent, DmTypes
  <2>3. ASSUME NEW d \in DmCalls
        PROVE  /\ dmCall'[d].at = "seticon" => d \in store'
               /\ dmCall'[d].old # NoIcon => dmCall'[dmCall'[d].old].at \in {"oldicon", "done"}
               /\ dmCall'[d].at \in {"oldicon", "noicon", "dropicon"} => dmCall'[d].old # NoIcon
               /\ dmCall'[d].at \in {"oldicon", "dropicon"} => dmCall'[d].old # iconUrl'
    <3>1. CASE d = c
      BY <1>1, <1>2, <1>4, <2>1, <3>1 DEF KeysAreSpent, DmTypes
    <3>2. CASE d # c
      <4>1. dmCall'[d] = dmCall[d] /\ dmCall[d].old \in DmCalls \cup {NoIcon}
        BY <1>1, <1>4, <3>2 DEF DmTypes
      <4> QED BY <1>1, <2>1, <4>1 DEF KeysAreSpent
    <3> QED BY <3>1, <3>2
  <2> QED BY <2>2, <2>3 DEF KeysAreSpent
<1> QED BY <1>5, <1>6, <1>7, <1>8 DEF GroupIInv

\* A call that goes on, with a group that may be and an icon that is stored.
LEMMA GroupCallGoes ==
  ASSUME GroupIInv, NEW c \in DmCalls, NEW at \in DmStages, DmGoes(c, at), GoodGroup(group'),
         dmCall[c].at \notin {"oldicon", "done"} \/ at = "done",
         at \notin {"kick", "add"},
         at \in {"noicon", "dropicon", "oldicon"} => dmCall[c].old # NoIcon,
         at = "seticon" => c \in store',
         iconUrl' \in {NoIcon, iconUrl, c},
         iconUrl' = c => at \in {"oldicon", "done"} /\ c \in store'
                         /\ (iconUrl = c \/ dmCall[c].at \notin {"oldicon", "done"}),
         at = "dropicon" => iconUrl' = NoIcon,
         at = "oldicon" => iconUrl' = c,
         store' \subseteq DmCalls,
         \A k \in store : k \in store' \/ (k # iconUrl' /\ dmCall[k].at # "seticon")
                          \/ (k = c /\ iconUrl' # c)
  PROVE  GroupIInv'
<1>1. DmTypes /\ GoodGroup(group) /\ CallsAreChecked /\ KeysAreSpent
  BY DEF GroupIInv
<1>2. /\ dmCall' \in [DmCalls -> [at : DmStages, me : Persons, them : SUBSET Persons,
                                  seen : GroupRows, old : DmCalls \cup {NoIcon}]]
      /\ dmCall'[c].at = at /\ dmCall'[c].seen = dmCall[c].seen /\ dmCall'[c].old = dmCall[c].old
      /\ \A d \in DmCalls : d # c => dmCall'[d] = dmCall[d]
  BY <1>1 DEF DmGoes, DmTypes
<1>3. DmTypes'
  BY <1>1, <1>2 DEF DmTypes
<1>4. GoodGroup(group)'
  BY DEF GoodGroup, In
<1>5. CallsAreChecked'
  <2> SUFFICES ASSUME NEW d \in DmCalls
               PROVE  /\ GoodGroup(dmCall'[d].seen)
                      /\ dmCall'[d].at = "kick" => dmCall'[d].seen.owner \notin dmCall'[d].them
                      /\ dmCall'[d].at = "add" =>
                           /\ dmCall'[d].seen.members # <<>>
                           /\ dmCall'[d].them \cap In(dmCall'[d].seen) = {}
                           /\ IsFiniteSet(In(dmCall'[d].seen) \cup dmCall'[d].them)
                           /\ Cardinality(In(dmCall'[d].seen) \cup dmCall'[d].them) <= GroupMax
    BY DEF CallsAreChecked
  <2>1. CASE d = c
    BY <1>1, <1>2, <2>1 DEF CallsAreChecked
  <2>2. CASE d # c
    BY <1>1, <1>2, <2>2 DEF CallsAreChecked
  <2> QED BY <2>1, <2>2
<1>6. KeysAreSpent'
  <2>1. \A k \in DmCalls : dmCall[k].at \in {"oldicon", "done"}
                             => dmCall'[k].at \in {"oldicon", "done"}
    BY <1>2
  <2>2. iconUrl' # NoIcon => iconUrl' \in store' /\ dmCall'[iconUrl'].at \in {"oldicon", "done"}
    <3>1. CASE iconUrl' = c
      BY <1>2, <3>1
    <3>2. CASE iconUrl' = iconUrl /\ iconUrl # NoIcon /\ iconUrl # c
      <4>1. iconUrl \in DmCalls /\ iconUrl \in store /\ dmCall[iconUrl].at \in {"oldicon", "done"}
        BY <1>1, <3>2 DEF KeysAreSpent, DmTypes
      <4> QED BY <2>1, <3>2, <4>1
    <3> QED BY <3>1, <3>2
  <2>3. ASSUME NEW d \in DmCalls
        PROVE  /\ dmCall'[d].at = "seticon" => d \in store'
               /\ dmCall'[d].old # NoIcon => dmCall'[dmCall'[d].old].at \in {"oldicon", "done"}
               /\ dmCall'[d].at \in {"oldicon", "noicon", "dropicon"} => dmCall'[d].old # NoIcon
               /\ dmCall'[d].at \in {"oldicon", "dropicon"} => dmCall'[d].old # iconUrl'
    <3>1. dmCall'[d].old = dmCall[d].old /\ dmCall[d].old \in DmCalls \cup {NoIcon}
      BY <1>1, <1>2 DEF DmTypes
    <3>2. dmCall[d].old # NoIcon =>
            dmCall[dmCall[d].old].at \in {"oldicon", "done"}
            /\ dmCall'[dmCall[d].old].at \in {"oldicon", "done"}
      BY <1>1, <2>1, <3>1 DEF KeysAreSpent
    <3>3. CASE d = c
      BY <1>2, <3>1, <3>2, <3>3, GroupDmAssumption DEF GroupDmAssumption
    <3>4. CASE d # c
      <4>1. dmCall'[d] = dmCall[d]
        BY <1>2, <3>4
      <4>2. dmCall[d].at = "seticon" => d \in store'
        BY <1>1, <3>4 DEF KeysAreSpent
      <4>3. dmCall[d].at \in {"oldicon", "dropicon"} => dmCall[d].old # iconUrl'
        BY <1>1, <3>2 DEF KeysAreSpent
      <4>4. dmCall[d].at \in {"oldicon", "noicon", "dropicon"} => dmCall[d].old # NoIcon
        BY <1>1 DEF KeysAreSpent
      <4> QED BY <3>1, <3>2, <4>1, <4>2, <4>3, <4>4
    <3> QED BY <3>3, <3>4
  <2> QED BY <2>2, <2>3 DEF KeysAreSpent
<1> QED BY <1>3, <1>4, <1>5, <1>6 DEF GroupIInv

-----------------------------------------------------------------------------
\* What the transactions of membership commit.
LEMMA AddedGroup ==
  ASSUME NEW g, GoodGroup(g), g.members # <<>>, NEW us \in SUBSET Persons,
         us \cap In(g) = {}, IsFiniteSet(In(g) \cup us), Cardinality(In(g) \cup us) <= GroupMax,
         NEW news \in SetToSeqs(us)
  PROVE  LET h == [g EXCEPT !.members = g.members \o news]
         IN  GoodGroup(h) /\ In(g) \subseteq In(h)
<1> DEFINE h == [g EXCEPT !.members = g.members \o news]
<1>1. g \in GroupRows /\ g.members \in Seq(Persons) /\ g.owner \in Persons
      /\ IsInjective(g.members)
  BY DEF GoodGroup, GroupRows
<1>2. IsFiniteSet(us)
  BY FS_Subset
<1>3. /\ g.members \o news \in Seq(Persons) /\ IsInjective(g.members \o news)
      /\ ToSet(g.members) \subseteq ToSet(g.members \o news)
      /\ ToSet(g.members \o news) \subseteq ToSet(g.members) \cup us
  BY <1>1, <1>2, AddedRows DEF In
<1>4. h \in GroupRows /\ h.members = g.members \o news /\ h.owner = g.owner
  BY <1>1, <1>3 DEF GroupRows
<1> HIDE DEF h
<1>5. In(g) \subseteq In(h) /\ In(h) \subseteq In(g) \cup us
  BY <1>3, <1>4 DEF In
<1>6. IsFiniteSet(In(h)) /\ Cardinality(In(h)) <= GroupMax
  <2>1. IsFiniteSet(In(h)) /\ Cardinality(In(h)) <= Cardinality(In(g) \cup us)
    BY <1>5, FS_Subset
  <2>2. Cardinality(In(h)) \in Nat /\ Cardinality(In(g) \cup us) \in Nat
    BY <2>1, FS_CardinalityType
  <2> QED BY <2>1, <2>2, GroupDmAssumption DEF GroupDmAssumption
<1>7. h.owner \in In(h)
  BY <1>4, <1>5 DEF GoodGroup
<1>8. GoodGroup(h)
  BY <1>3, <1>4, <1>6, <1>7 DEF GoodGroup
<1> QED BY <1>5, <1>8 DEF h

\* A group that loses a member, or changes hands, is still a group that may be.
LEMMA SmallerGroup ==
  ASSUME NEW g, GoodGroup(g), NEW i \in DOMAIN g.members
  PROVE  /\ g.members[i] # g.owner =>
              GoodGroup(Without(g, i)) /\ In(Without(g, i)) \subseteq In(g)
         /\ GoodGroup(HandOver(g, i)) /\ In(HandOver(g, i)) \subseteq In(g)
<1> DEFINE left == Without(g, i)
           took == [left EXCEPT !.owner = Head(left.members)]
<1>1. g \in GroupRows /\ g.members \in Seq(Persons) /\ g.owner \in Persons
      /\ IsInjective(g.members)
  BY DEF GoodGroup, GroupRows
<1>2. /\ RemoveAt(g.members, i) \in Seq(Persons) /\ IsInjective(RemoveAt(g.members, i))
      /\ ToSet(RemoveAt(g.members, i)) = ToSet(g.members) \ {g.members[i]}
  BY <1>1, RemovedRow
<1>3. left \in GroupRows /\ left.members = RemoveAt(g.members, i) /\ left.owner = g.owner
  BY <1>1, <1>2 DEF Without, GroupRows
<1> HIDE DEF left
<1>4. In(left) = In(g) \ {g.members[i]}
  BY <1>2, <1>3 DEF In
<1>5. ASSUME NEW h, In(h) = In(left)
      PROVE  IsFiniteSet(In(h)) /\ Cardinality(In(h)) <= GroupMax
  <2>1. IsFiniteSet(In(g)) /\ Cardinality(In(g)) <= GroupMax /\ In(h) \in SUBSET In(g)
    BY <1>4, <1>5 DEF GoodGroup
  <2>2. IsFiniteSet(In(h)) /\ Cardinality(In(h)) <= Cardinality(In(g))
    BY <2>1, FS_Subset
  <2>3. Cardinality(In(h)) \in Nat /\ Cardinality(In(g)) \in Nat
    BY <2>1, <2>2, FS_CardinalityType
  <2> QED BY <2>1, <2>2, <2>3, GroupDmAssumption DEF GroupDmAssumption
<1>6. g.owner \in In(g)
  BY <1>1 DEF GoodGroup
<1>7. IsFiniteSet(In(left)) /\ Cardinality(In(left)) <= GroupMax
  BY <1>5
<1>8. g.members[i] # g.owner \/ left.members = <<>> => GoodGroup(left)
  BY <1>2, <1>3, <1>4, <1>6, <1>7 DEF GoodGroup
<1>9. left.members # <<>> => GoodGroup(took) /\ In(took) = In(left)
  <2> SUFFICES ASSUME left.members # <<>> PROVE GoodGroup(took) /\ In(took) = In(left)
    OBVIOUS
  <2>1. Len(left.members) > 0 /\ left.members \in Seq(Persons)
    BY <1>2, <1>3
  <2>2. Head(left.members) \in Persons /\ Head(left.members) = left.members[1]
        /\ 1 \in DOMAIN left.members
    BY <2>1
  <2>3. took \in GroupRows /\ took.members = left.members /\ took.owner = Head(left.members)
    BY <1>3, <2>2 DEF GroupRows
  <2> HIDE DEF took
  <2>4. In(took) = In(left) /\ took.owner \in In(took)
    BY <2>2, <2>3 DEF In, ToSet
  <2>5. IsFiniteSet(In(took)) /\ Cardinality(In(took)) <= GroupMax
    BY <1>7, <2>4
  <2> QED BY <1>2, <1>3, <2>3, <2>4, <2>5 DEF GoodGroup
<1>10. HandOver(g, i) = IF left.members = <<>> \/ g.owner # g.members[i] THEN left ELSE took
  BY DEF HandOver, left
<1> HIDE DEF took
<1> QED BY <1>4, <1>8, <1>9, <1>10 DEF left

-----------------------------------------------------------------------------
\* A step keeps the invariant, and the group takes more within the cap or loses
\* members.
LEMMA CommitStep ==
  ASSUME GroupIInv, NEW c \in DmCalls, dmCall[c].at \in {"add", "kick", "leave"},
         NEW g, Commits(c, g), GoodGroup(g),
         In(dmCall[c].seen) \subseteq In(g) \/ In(g) \subseteq In(dmCall[c].seen)
  PROVE  /\ GroupIInv'
         /\ In(group) \subseteq In(group)' \/ In(group)' \subseteq In(group)
<1>1. UNCHANGED <<iconUrl, store>> /\ (DmGoes(c, "new") \/ DmGoes(c, "done"))
  BY DEF Commits
<1>2. (group' = g /\ dmCall[c].seen = group) \/ group' = group
  BY DEF Commits
<1>3. GoodGroup(group')
  BY <1>2 DEF GroupIInv
<1>4. DmTypes /\ KeysAreSpent
  BY DEF GroupIInv
<1>5. iconUrl # c /\ store \subseteq DmCalls
  BY <1>4, GroupDmAssumption DEF KeysAreSpent, DmTypes, GroupDmAssumption
<1>6. PICK at \in {"new", "done"} : DmGoes(c, at)
  BY <1>1
<1>7. GroupIInv'
  BY <1>1, <1>3, <1>5, <1>6, GroupCallGoes DEF DmStages
<1>8. In(group)' = In(group')
  BY DEF In
<1> QED BY <1>2, <1>7, <1>8

\* Every step keeps the invariant, and the members only join or only leave.
LEMMA GroupStepHolds ==
  ASSUME GroupIInv, [GroupDmNext]_dmVars
  PROVE  GroupIInv' /\ (In(group) \subseteq In(group)' \/ In(group)' \subseteq In(group))
<1> DEFINE Held == GroupIInv' /\ (In(group) \subseteq In(group)' \/ In(group)' \subseteq In(group))
<1>0. /\ DmTypes /\ GoodGroup(group) /\ CallsAreChecked /\ KeysAreSpent
      /\ UNCHANGED group => GoodGroup(group') /\ In(group)' = In(group)
  BY DEF GroupIInv, In
<1>1. ASSUME NEW c \in DmCalls, NEW me \in Persons, NEW us \in SUBSET Persons,
             AddMembers(c, me, us)
      PROVE  Held
  <2> DEFINE news == us \ In(group)
  <2>1. In(group) \cup news = In(group) \cup us /\ news \in SUBSET Persons
       /\ news \cap In(group) = {}
    OBVIOUS
  <2>2. IsFiniteSet(In(group) \cup us)
    BY <1>0, FS_Subset, FS_Union, GroupDmAssumption DEF GoodGroup, GroupDmAssumption
  <2>3. LiveGroup /\ IsFiniteSet(In(group) \cup news)
        /\ Cardinality(In(group) \cup news) <= GroupMax
    BY <1>1, <2>1, <2>2 DEF AddMembers
  <2>4. /\ UNCHANGED <<group, iconUrl, store>> /\ dmCall[c].at = "new"
        /\ dmCall' = [dmCall EXCEPT ![c] = [at |-> "add", me |-> me, them |-> news,
                                            seen |-> group, old |-> NoIcon]]
    BY <1>1 DEF AddMembers, BeginsCall
  <2> HIDE DEF news
  <2>5. GroupIInv'
    BY <2>1, <2>3, <2>4, CallBegins DEF DmStages
  <2> QED BY <1>0, <2>4, <2>5
<1>2. ASSUME NEW c \in DmCalls, NEW me \in Persons, NEW u \in Persons, KickMember(c, me, u)
      PROVE  Held
  <2>1. /\ UNCHANGED <<group, iconUrl, store>> /\ dmCall[c].at = "new" /\ group.owner \notin {u}
        /\ dmCall' = [dmCall EXCEPT ![c] = [at |-> "kick", me |-> me, them |-> {u},
                                            seen |-> group, old |-> NoIcon]]
    BY <1>2 DEF KickMember, BeginsCall
  <2>2. GroupIInv'
    BY <2>1, CallBegins DEF DmStages
  <2> QED BY <1>0, <2>1, <2>2
<1>3. ASSUME NEW c \in DmCalls, NEW me \in Persons, LeaveGroup(c, me) PROVE Held
  <2>1. /\ UNCHANGED <<group, iconUrl, store>> /\ dmCall[c].at = "new"
        /\ dmCall' = [dmCall EXCEPT ![c] = [at |-> "leave", me |-> me, them |-> {me},
                                            seen |-> group, old |-> NoIcon]]
    BY <1>3 DEF LeaveGroup, BeginsCall
  <2>2. GroupIInv'
    BY <2>1, CallBegins DEF DmStages
  <2> QED BY <1>0, <2>1, <2>2
<1>4. ASSUME NEW c \in DmCalls, NEW me \in Persons, SetGroupIcon(c, me) \/ RemoveGroupIcon(c, me)
      PROVE  Held
  <2>1. PICK what \in {"put", "noicon"} :
          /\ UNCHANGED <<group, iconUrl, store>> /\ dmCall[c].at = "new"
          /\ dmCall' = [dmCall EXCEPT ![c] = [at |-> what, me |-> me, them |-> {},
                                              seen |-> group, old |-> iconUrl]]
          /\ what = "noicon" => iconUrl # NoIcon
    BY <1>4 DEF SetGroupIcon, RemoveGroupIcon, IconCall
  <2>2. GroupIInv'
    BY <2>1, CallBegins DEF DmStages
  <2> QED BY <1>0, <2>1, <2>2
<1>5. ASSUME NEW c \in DmCalls, AddMembersTx(c) PROVE Held
  <2>1. PICK news \in SetToSeqs(dmCall[c].them) :
          Commits(c, [dmCall[c].seen EXCEPT !.members = dmCall[c].seen.members \o news])
    BY <1>5 DEF AddMembersTx
  <2> DEFINE g == [dmCall[c].seen EXCEPT !.members = dmCall[c].seen.members \o news]
  <2>2. dmCall[c].at = "add" /\ dmCall[c].them \in SUBSET Persons
    BY <1>0, <1>5 DEF AddMembersTx, DmTypes
  <2>3. GoodGroup(g) /\ In(dmCall[c].seen) \subseteq In(g)
    BY <1>0, <2>2, AddedGroup DEF CallsAreChecked
  <2> HIDE DEF g
  <2>4. Commits(c, g)
    BY <2>1 DEF g
  <2> QED BY <2>2, <2>3, <2>4, CommitStep
<1>6. ASSUME NEW c \in DmCalls, KickMemberTx(c) PROVE Held
  <2> DEFINE seen == dmCall[c].seen
  <2>1. PICK i \in RowsOf(seen, dmCall[c].them) : Commits(c, Without(seen, i))
    BY <1>6 DEF KickMemberTx
  <2>2. /\ dmCall[c].at = "kick" /\ GoodGroup(seen) /\ i \in DOMAIN seen.members
        /\ seen.members[i] # seen.owner
    BY <1>0, <1>6, <2>1 DEF KickMemberTx, CallsAreChecked, RowsOf
  <2>3. GoodGroup(Without(seen, i)) /\ In(Without(seen, i)) \subseteq In(seen)
    BY <2>2, SmallerGroup
  <2> QED BY <2>1, <2>2, <2>3, CommitStep
<1>7. ASSUME NEW c \in DmCalls, LeaveGroupTx(c) PROVE Held
  <2> DEFINE seen == dmCall[c].seen
  <2>1. PICK i \in RowsOf(seen, {dmCall[c].me}) : Commits(c, HandOver(seen, i))
    BY <1>7 DEF LeaveGroupTx
  <2>2. dmCall[c].at = "leave" /\ GoodGroup(seen) /\ i \in DOMAIN seen.members
    BY <1>0, <1>7, <2>1 DEF LeaveGroupTx, CallsAreChecked, RowsOf
  <2>3. GoodGroup(HandOver(seen, i)) /\ In(HandOver(seen, i)) \subseteq In(seen)
    BY <2>2, SmallerGroup
  <2> QED BY <2>1, <2>2, <2>3, CommitStep
<1>8. ASSUME NEW c \in DmCalls, PutIcon(c) \/ SetIconTx(c) \/ RemoveIconTx(c) PROVE Held
  <2>1. UNCHANGED group /\ dmCall[c].at \in {"put", "seticon", "noicon"}
    BY <1>8 DEF PutIcon, SetIconTx, RemoveIconTx
  <2>2. iconUrl # c /\ store \subseteq DmCalls /\ c # NoIcon
    BY <1>0, <2>1, GroupDmAssumption DEF KeysAreSpent, DmTypes, GroupDmAssumption
  <2>3. CASE PutIcon(c)
    <3>1. PICK at \in {"seticon", "done"} :
            DmGoes(c, at) /\ store' = (IF at = "seticon" THEN store \cup {c} ELSE store)
      BY <2>3 DEF PutIcon
    <3>2. GroupIInv'
      BY <1>0, <2>1, <2>2, <2>3, <3>1, GroupCallGoes DEF PutIcon, DmStages
    <3> QED BY <1>0, <2>1, <3>2
  <2>4. CASE SetIconTx(c)
    <3>1. dmCall[c].at = "seticon" /\ UNCHANGED store /\ c \in store
      BY <1>0, <2>4 DEF SetIconTx, KeysAreSpent
    <3>2. CASE iconUrl' = c
      <4>1. PICK at \in {"done", "oldicon"} :
              DmGoes(c, at) /\ (at = "oldicon" => dmCall[c].old # NoIcon)
        BY <2>2, <2>4, <3>2 DEF SetIconTx
      <4>2. GroupIInv'
        BY <1>0, <2>1, <2>2, <3>1, <3>2, <4>1, GroupCallGoes DEF DmStages
      <4> QED BY <1>0, <2>1, <4>2
    <3>3. CASE iconUrl' # c
      <4>1. PICK at \in {"done", "cleanup"} : DmGoes(c, at) /\ UNCHANGED iconUrl
        BY <2>4, <3>3 DEF SetIconTx
      <4>2. GroupIInv'
        BY <1>0, <2>1, <2>2, <3>1, <4>1, GroupCallGoes DEF DmStages
      <4> QED BY <1>0, <2>1, <4>2
    <3> QED BY <3>2, <3>3
  <2>5. CASE RemoveIconTx(c)
    <3>1. dmCall[c].at = "noicon" /\ UNCHANGED store /\ dmCall[c].old # NoIcon
      BY <1>0, <2>5 DEF RemoveIconTx, KeysAreSpent
    <3>2. PICK at \in {"dropicon", "done"} :
            DmGoes(c, at) /\ iconUrl' = (IF at = "dropicon" THEN NoIcon ELSE iconUrl)
      BY <2>5 DEF RemoveIconTx
    <3>3. GroupIInv'
      BY <1>0, <2>1, <2>2, <3>1, <3>2, GroupCallGoes DEF DmStages
    <3> QED BY <1>0, <2>1, <3>3
  <2> QED BY <1>8, <2>3, <2>4, <2>5
<1>9. ASSUME NEW c \in DmCalls, DeleteOldIcon(c) \/ DeleteNewIcon(c) PROVE Held
  <2>1. UNCHANGED <<group, iconUrl>> /\ DmGoes(c, "done")
    BY <1>9 DEF DeleteOldIcon, DeleteNewIcon
  <2>2. store \subseteq DmCalls /\ store' \subseteq store
    BY <1>0, <1>9 DEF DmTypes, DeleteOldIcon, DeleteNewIcon
  <2>3. ASSUME NEW k \in store, k \notin store'
        PROVE  k # iconUrl /\ dmCall[k].at # "seticon"
    <3>1. CASE DeleteOldIcon(c)
      <4>1. k = dmCall[c].old /\ k # iconUrl /\ k # NoIcon
        BY <1>0, <2>3, <3>1 DEF DeleteOldIcon, KeysAreSpent
      <4>2. dmCall[k].at \in {"oldicon", "done"}
        BY <1>0, <4>1 DEF KeysAreSpent
      <4> QED BY <4>1, <4>2
    <3>2. CASE DeleteNewIcon(c)
      <4>1. k = c /\ dmCall[k].at = "cleanup"
        BY <2>3, <3>2 DEF DeleteNewIcon
      <4>2. k # iconUrl
        BY <1>0, <2>2, <4>1, GroupDmAssumption DEF KeysAreSpent, GroupDmAssumption
      <4> QED BY <4>1, <4>2
    <3> QED BY <1>9, <3>1, <3>2
  <2>4. iconUrl = c => c \in store'
    <3>1. iconUrl = c => c \in store
      BY <1>0, GroupDmAssumption DEF KeysAreSpent, GroupDmAssumption
    <3> QED BY <2>3, <3>1
  <2>5. GroupIInv'
    <3>1. \A k \in store : k \in store' \/ (k # iconUrl' /\ dmCall[k].at # "seticon")
      BY <2>1, <2>3
    <3>2. store' \subseteq DmCalls /\ iconUrl' = iconUrl /\ GoodGroup(group')
      BY <1>0, <2>1, <2>2
    <3> QED BY <2>1, <2>4, <3>1, <3>2, GroupCallGoes DEF DmStages
  <2> QED BY <1>0, <2>1, <2>5
<1>10. CASE UNCHANGED dmVars
  BY <1>10, <1>0 DEF dmVars, GroupIInv, DmTypes, GoodGroup, In, CallsAreChecked, KeysAreSpent
<1> QED BY <1>1, <1>2, <1>3, <1>4, <1>5, <1>6, <1>7, <1>8, <1>9, <1>10 DEF GroupDmNext

\* A group has its owner among its members and its icon in the object store, for
\* any number of people, calls and any cap (leaveGroup, kickParticipant,
\* setGroupIcon, removeGroupIcon).
THEOREM GroupsHold == GroupDmSpec => []GroupSound
<1>1. GroupIInv => GroupSound
  BY DEF GroupIInv, GroupSound, OwnerIsMember, LiveGroup, IconStored, GoodGroup, KeysAreSpent
<1> QED BY <1>1, DmInitHolds, GroupStepHolds, PTL DEF GroupDmSpec

\* A group that may be has as many rows as members, so no more than the cap.
LEMMA GoodIsTyped == ASSUME NEW g, GoodGroup(g) PROVE g \in Groups
<1> PICK s : s = g.members
  OBVIOUS
<1>1. /\ g \in GroupRows /\ s \in Seq(Persons) /\ IsInjective(s) /\ IsFiniteSet(ToSet(s))
      /\ Cardinality(ToSet(s)) <= GroupMax /\ GroupMax \in Nat
  BY GroupDmAssumption DEF GoodGroup, GroupRows, In, GroupDmAssumption
<1> PICK n : n = Len(s)
  OBVIOUS
<1>2. n \in Nat /\ DOMAIN s = 1..n /\ s \in [1..n -> Persons]
  BY <1>1
<1>3. s \in Bijection(1..n, ToSet(s))
  BY <1>1, <1>2 DEF Bijection, Injection, Surjection, ToSet, IsInjective
<1>4. Cardinality(ToSet(s)) = n
  BY <1>1, <1>2, <1>3, FS_NatBijection, FS_CountingElements DEF ExistsBijection
<1>5. s \in SeqOf(Persons, GroupMax)
  <2>1. n \in 0..GroupMax
    BY <1>1, <1>2, <1>4
  <2> QED BY <1>2, <2>1 DEF SeqOf
<1> QED BY <1>1, <1>5 DEF GroupRows, Groups

\* The types of a group and of the calls on it, for any number of people, calls and
\* any cap.
THEOREM GroupTypesOK == GroupDmSpec => []GroupDmTypeOK
<1>1. GroupIInv => GroupDmTypeOK
  <2> SUFFICES ASSUME GroupIInv PROVE GroupDmTypeOK
    OBVIOUS
  <2>1. DmTypes /\ GoodGroup(group) /\ CallsAreChecked
    BY DEF GroupIInv
  <2>2. group \in Groups /\ \A c \in DmCalls : dmCall[c].seen \in Groups
    BY <2>1, GoodIsTyped DEF CallsAreChecked
  <2>3. ASSUME NEW c \in DmCalls
        PROVE  /\ dmCall[c].at \in DmStages /\ dmCall[c].me \in Persons
               /\ dmCall[c].them \subseteq Persons /\ dmCall[c].old \in DmCalls \cup {NoIcon}
    BY <2>1 DEF DmTypes
  <2> QED BY <2>1, <2>2, <2>3 DEF GroupDmTypeOK, DmTypes, DmStages
<1> QED BY <1>1, DmInitHolds, GroupStepHolds, PTL DEF GroupDmSpec

\* CappedSet counts as this module does.
LEMMA GroupSameCount ==
  \A S : (GroupCap!IsFiniteSet(S) <=> IsFiniteSet(S)) /\ GroupCap!Cardinality(S) = Cardinality(S)
BY DEF GroupCap!IsFiniteSet, IsFiniteSet, GroupCap!Cardinality, Cardinality

\* Whatever additions, removals and departures overlap, a group DM never has more
\* than GROUP_DM_MAX_TOTAL members (addParticipants).
THEOREM GroupsImplementTheCap == GroupDmSpec => GroupImplementsCap
<1>1. GroupIInv => GroupCap!CapInit
  BY GroupSameCount DEF GroupIInv, GoodGroup, GroupCap!CapInit, GroupCap!WithinCap
<1>2. GroupIInv /\ [GroupDmNext]_dmVars => [GroupCap!Take \/ GroupCap!Free]_(In(group))
  <2> SUFFICES ASSUME GroupIInv, [GroupDmNext]_dmVars
               PROVE  [GroupCap!Take \/ GroupCap!Free]_(In(group))
    OBVIOUS
  <2>1. GroupIInv' /\ (In(group) \subseteq In(group)' \/ In(group)' \subseteq In(group))
    BY GroupStepHolds
  <2>2. IsFiniteSet(In(group)') /\ Cardinality(In(group)') <= GroupMax
    BY <2>1 DEF GroupIInv, GoodGroup, In
  <2> QED BY <2>1, <2>2, GroupSameCount DEF GroupCap!Take, GroupCap!Free, GroupCap!WithinCap
<1> QED BY <1>1, <1>2, DmInitHolds, GroupStepHolds, PTL
        DEF GroupDmSpec, GroupImplementsCap, GroupCap!CapSpec
-----------------------------------------------------------------------------
(* The run of the ten. *)

\* A behaviour of the run (MCWorkspace) is one of each of its components, so what is
\* proved of them holds in it.
LEMMA WorkspaceParts ==
  Spec => /\ FriendsSpec /\ PinsSpec /\ ReactionsSpec /\ MembershipSpec /\ GroupDmSpec
          /\ AttachmentsSpec /\ OrderingSpec /\ RemindersSpec /\ RunnerSpec /\ EditSpec
<1>1. Init => /\ FriendsInit /\ PinsInit /\ ReactionsInit /\ MembershipInit /\ GroupDmInit
              /\ AttachmentsInit /\ OrderingInit /\ RemindersInit /\ RunnerInit /\ EditInit
  BY DEF Init
<1>2. [Next]_workspaceVars =>
        /\ [FriendsNext]_friendVars /\ [PinsNext]_pinVars /\ [ReactionsNext]_reactionVars
        /\ [MembershipNext]_memberVars /\ [GroupDmNext]_dmVars
        /\ [AttachmentsNext]_attachmentVars /\ [OrderingNext]_orderingVars
        /\ [RemindersNext]_remindersVars /\ [RunnerNext]_runnerVars /\ [EditNext]_editVars
  BY DEF Next, workspaceVars
<1> QED BY <1>1, <1>2, PTL
        DEF Spec, FriendsSpec, PinsSpec, ReactionsSpec, MembershipSpec, GroupDmSpec,
            AttachmentsSpec, OrderingSpec, RemindersSpec, RunnerSpec, EditSpec

OneOfTheTen ==
  part \in {"friends", "pins", "reactions", "members", "dm", "attachments",
            "ordering", "reminders", "automod", "edits"}

\* The type invariant of the run of the ten (MCWorkspace), for every value of the
\* constants.
THEOREM WorkspaceTypes == Spec => []WorkspaceTypeOK
<1>1. Init => OneOfTheTen
  BY DEF Init, OneOfTheTen
<1>2. OneOfTheTen /\ [Next]_workspaceVars => OneOfTheTen'
  BY DEF Next, workspaceVars, OneOfTheTen
<1>3. Spec => []OneOfTheTen
  BY <1>1, <1>2, PTL DEF Spec
<1>4. OneOfTheTen /\ FriendsTypeOK /\ PinsTypeOK /\ ReactionsTypeOK /\ MembershipTypeOK
        /\ GroupDmTypeOK /\ AttachmentsTypeOK /\ OrderingTypeOK /\ RemindersTypeOK
        /\ RunnerTypeOK /\ EditTypeOK
      => WorkspaceTypeOK
  BY DEF WorkspaceTypeOK, OneOfTheTen
<1>5. Spec => /\ []FriendsTypeOK /\ []PinsTypeOK /\ []ReactionsTypeOK /\ []MembershipTypeOK
              /\ []GroupDmTypeOK /\ []AttachmentsTypeOK /\ []OrderingTypeOK
              /\ []RemindersTypeOK /\ []RunnerTypeOK /\ []EditTypeOK
  BY WorkspaceParts, FriendsHold, PinsHold, ReactionTypesOK, RolesAreCorrect, GroupTypesOK,
     AttachmentsHold, PositionsHold, RemindersHold, RunnerHolds, EditTypesOK, PTL
<1> QED BY <1>3, <1>4, <1>5, PTL

\* The four caps of a workspace are the abstract one: whatever pins, reactions,
\* seats of an invite and members of a group are asked for at once, each set takes
\* more only within its cap (the advisory lock, the row lock, the compare-and-set
\* and the serializable transaction).
THEOREM CapsHold == Spec => CapsImplemented
BY WorkspaceParts, PinsImplementTheCap, ReactionsImplementTheCap, InviteSeatsAreCapped,
   GroupsImplementTheCap, PTL DEF CapsImplemented
=============================================================================
