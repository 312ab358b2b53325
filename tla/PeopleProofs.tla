--------------------------- MODULE PeopleProofs ----------------------------
(* Proofs about who is whom, for any number of users, rows and overlapping  *)
(* calls: the friendship of a pair, and the members of a workspace (the     *)
(* seats of an invite, bans, roles and the owner).                          *)
EXTENDS Friends, Membership, FiniteSetTheorems, TLAPS

-----------------------------------------------------------------------------
(* Friends and blocks. *)

FriendRows == [id : 0..MaxRows, status : {"none", "PENDING", "ACCEPTED", "BLOCKED"}]

FriendCall == [at : {"new", "agree", "create", "delete", "mark", "flip", "find", "insert", "done"},
             me : Pair, id : 0..MaxRows, from : Pair]

\* Whoever asked for a row has consented to it.
Requested ==
  \A u \in Pair : friendship[u].status = "PENDING" => <<u, friendship[u].id>> \in consent

\* Two rows at once have been noticed.
TwoRowsNoticed == (\A u \in Pair : friendship[u].id # 0) => doubled

\* What a call carries from its look-up to its write.
AskHolds == \A p \in Requests :
  /\ ask[p].at \in {"agree", "mark", "flip"} => ask[p].id # 0
  /\ ask[p].at = "agree" => /\ ask[p].from = Other(ask[p].me)
                            /\ <<ask[p].from, ask[p].id>> \in consent
  /\ ask[p].at = "find" => doubled
  /\ ask[p].at = "mark" => ask[p].from = ask[p].me \/ doubled
  /\ ask[p].at = "flip" => ask[p].from # ask[p].me

FriendsIInv ==
  FriendsTypeOK /\ FriendsAgreed /\ BlockOwned /\ Requested /\ TwoRowsNoticed /\ AskHolds

-----------------------------------------------------------------------------

\* A pair has two users.
LEMMA OtherOne == \A u \in Pair : /\ Other(u) \in Pair /\ Other(u) # u
                                  /\ \A v \in Pair : v = u \/ v = Other(u)
BY FriendsAssumption DEF FriendsAssumption, Other

\* The pair is strangers at first.
LEMMA FriendsInitHolds == FriendsInit => FriendsIInv
<1> SUFFICES ASSUME FriendsInit PROVE FriendsIInv
  OBVIOUS
<1> USE FriendsAssumption DEF FriendsAssumption, FriendsInit, Unrelated
<1>1. FriendsTypeOK
  <2>1. PICK w \in Pair :
          ask = [p \in Requests |-> [at |-> "new", me |-> w, id |-> 0, from |-> w]]
    OBVIOUS
  <2>2. ask \in [Requests -> FriendCall]
    BY <2>1 DEF FriendCall
  <2>3. friendship \in [Pair -> FriendRows]
    BY DEF FriendRows
  <2>6. nextRow \in 1..MaxRows + 1
    BY ONLY MaxRows \in Nat, nextRow = 1
  <2>7. doubled \in BOOLEAN
    BY ONLY FriendsInit DEF FriendsInit
  <2>4. consent \subseteq Pair \X (1..MaxRows) /\ blockers \subseteq Pair
    OBVIOUS
  <2>5. \A u \in Pair : friendship[u].id = 0 <=> friendship[u].status = "none"
    OBVIOUS
  <2> QED BY ONLY <2>2, <2>3, <2>4, <2>5, <2>6, <2>7 DEF FriendsTypeOK, FriendCall, FriendRows
<1>2. FriendsAgreed /\ BlockOwned /\ Requested /\ TwoRowsNoticed
  BY DEF FriendsAgreed, BlockOwned, Requested, TwoRowsNoticed
<1>3. AskHolds
  BY DEF AskHolds
<1> QED BY <1>1, <1>2, <1>3 DEF FriendsIInv

\* A call goes on or returns: nothing but its progress changes.
LEMMA AskMoves ==
  ASSUME FriendsTypeOK, NEW p \in Requests, Returns(p)
  PROVE  /\ ask' \in [Requests -> FriendCall]
         /\ ask'[p].at = "done"
         /\ \A q \in Requests : q # p => ask'[q] = ask[q]
BY DEF FriendsTypeOK, FriendCall, Returns

\* An insert writes the one row the asker may have.
LEMMA Inserted ==
  ASSUME FriendsTypeOK, NEW p \in Requests, NEW status \in {"PENDING", "BLOCKED"},
         Insert(p, status)
  PROVE  /\ nextRow \in 1..MaxRows /\ nextRow' \in 1..(MaxRows + 1)
         /\ friendship' \in [Pair -> FriendRows]
         /\ friendship'[ask[p].me] = [id |-> nextRow, status |-> status]
         /\ friendship'[ask[p].me].id = nextRow
         /\ friendship'[ask[p].me].status = status
         /\ \A u \in Pair : u # ask[p].me => friendship'[u] = friendship[u]
         /\ \A u \in Pair : friendship'[u].id = 0 <=> friendship'[u].status = "none"
BY FriendsAssumption DEF FriendsAssumption, FriendsTypeOK, FriendRows, Insert

\* The calls that only look a row up and decide what to write.
LEMMA FriendsLookUps ==
  ASSUME FriendsIInv, NEW p \in Requests, NEW me \in Pair,
         Request(p, me) \/ Accept(p, me) \/ Reject(p, me) \/ RemoveFriend(p, me)
         \/ Block(p, me) \/ Unblock(p, me)
  PROVE  FriendsIInv'
<1> USE OtherOne DEF FriendsIInv, FriendsTypeOK
<1>1. UNCHANGED <<friendship, nextRow, friendHistory>>
  BY DEF Request, Accept, Reject, RemoveFriend, Block, Unblock
<1>2. ask' \in [Requests -> [at : {"new", "agree", "create", "delete", "mark", "flip",
                                   "find", "insert", "done"},
                             me : Pair, id : 0..MaxRows, from : Pair]]
  BY <1>1 DEF Request, Accept, Reject, RemoveFriend, Block, Unblock, Reads, Present
<1>3. AskHolds'
  BY <1>1, <1>2 DEF AskHolds, Request, Accept, Reject, RemoveFriend, Block, Unblock, Reads,
                    Present, Requested, friendHistory
<1> QED BY <1>1, <1>2, <1>3
        DEF FriendsAgreed, BlockOwned, Requested, TwoRowsNoticed, friendHistory

\* The calls that write the row they decided on.
LEMMA FriendsWrites ==
  ASSUME FriendsIInv, NEW p \in Requests,
         CreatePending(p) \/ Agree(p) \/ DeleteFriendship(p)
         \/ MarkBlocked(p) \/ Flip(p) \/ FindAgain(p) \/ CreateBlocked(p)
  PROVE  FriendsIInv'
<1> USE OtherOne, FriendsAssumption
    DEF FriendsAssumption, FriendsIInv, FriendsTypeOK, Returns, friendHistory
<1> DEFINE c == ask[p]
<1>0. /\ c.me \in Pair /\ c.from \in Pair /\ c.id \in 0..MaxRows
      /\ friendship \in [Pair -> FriendRows] /\ ask \in [Requests -> FriendCall]
  BY DEF FriendCall, FriendRows
<1>1. CASE CreatePending(p)
  <2>1. /\ ask' \in [Requests -> FriendCall] /\ ask'[p].at = "done"
        /\ \A q \in Requests : q # p => ask'[q] = ask[q]
    BY <1>1, AskMoves DEF CreatePending
  <2>2. CASE UNCHANGED <<friendship, nextRow, consent, doubled>>
    BY <1>1, <2>1, <2>2 DEF CreatePending, FriendsAgreed, Requested, BlockOwned,
       TwoRowsNoticed, AskHolds, FriendCall
  <2>3. CASE /\ Insert(p, "PENDING") /\ consent' = consent \cup {<<c.me, nextRow>>}
             /\ doubled' = (doubled \/ Other(c.me) \in Present)
    <3>0. /\ friendship'[c.me].id = nextRow /\ friendship'[c.me].status = "PENDING"
          /\ \A u \in Pair : u # c.me => friendship'[u] = friendship[u]
      BY <2>3, Inserted
    <3>1. FriendsTypeOK'
      BY <1>0, <1>1, <2>1, <2>3, Inserted DEF CreatePending, FriendCall, FriendRows
    <3>2. FriendsAgreed' /\ Requested'
      <4>1. ASSUME NEW u \in Pair, friendship'[u].status = "ACCEPTED"
            PROVE  u # c.me /\ friendship[u].status = "ACCEPTED"
                   /\ friendship'[u].id = friendship[u].id
        BY <3>0, <4>1
      <4>2. ASSUME NEW u \in Pair, friendship'[u].status = "PENDING"
            PROVE  <<u, friendship'[u].id>> \in consent'
        <5>1. CASE u = c.me
          BY <2>3, <3>0, <5>1
        <5>2. CASE u # c.me
          BY <2>3, <3>0, <4>2, <5>2 DEF Requested
        <5> QED BY <5>1, <5>2
      <4> QED BY <2>3, <4>1, <4>2 DEF FriendsAgreed, Requested
    <3>3. BlockOwned'
      <4>1. ASSUME NEW u \in Pair, friendship'[u].status = "BLOCKED"
            PROVE  friendship[u].status = "BLOCKED"
        BY <3>0, <4>1
      <4> QED BY <1>1, <2>3, <4>1 DEF CreatePending, BlockOwned
    <3>5. TwoRowsNoticed'
      <4> SUFFICES ASSUME \A u \in Pair : friendship'[u].id # 0 PROVE doubled'
        BY DEF TwoRowsNoticed
      <4>1. Other(c.me) \in Pair /\ Other(c.me) # c.me
        BY <1>0
      <4>2. friendship[Other(c.me)].id # 0
        BY <1>0, <2>3, <3>0, <4>1
      <4> QED BY <1>0, <2>3, <3>0, <4>1, <4>2 DEF Present
    <3>4. AskHolds'
      BY <2>1, <2>3 DEF AskHolds
    <3> QED BY <3>1, <3>2, <3>3, <3>4, <3>5
  <2> QED BY <1>1, <2>2, <2>3 DEF CreatePending
<1>2. CASE Agree(p)
  <2>1. /\ ask' \in [Requests -> FriendCall] /\ ask'[p].at = "done"
        /\ \A q \in Requests : q # p => ask'[q] = ask[q]
    BY <1>2, AskMoves DEF Agree
  <2>2. /\ friendship' \in [Pair -> FriendRows]
        /\ \A u \in Pair : friendship'[u].id = 0 <=> friendship'[u].status = "none"
    <3>1. CASE Stands(c.id, c.from)
      <4>1. c.id # 0 /\ friendship[c.from].id = c.id
        BY <1>2, <3>1 DEF Agree, Stands, AskHolds
      <4>2. friendship' = [friendship EXCEPT ![c.from].status = "ACCEPTED"]
        BY <1>2, <3>1 DEF Agree
      <4>3. friendship' \in [Pair -> FriendRows]
        BY <1>0, <4>2 DEF FriendRows
      <4>4. ASSUME NEW u \in Pair
            PROVE  friendship'[u].id = 0 <=> friendship'[u].status = "none"
        <5>1. CASE u = c.from
          BY <1>0, <4>1, <4>2, <5>1 DEF FriendRows
        <5>2. CASE u # c.from
          BY <1>0, <4>2, <5>2
        <5> QED BY <5>1, <5>2
      <4> QED BY <4>3, <4>4
    <3>2. CASE ~Stands(c.id, c.from)
      BY <1>0, <1>2, <3>2 DEF Agree
    <3> QED BY <3>1, <3>2
  <2>3. consent' \subseteq Pair \X (1..MaxRows)
    <3>1. c.id \in 1..MaxRows
      BY <1>0, <1>2 DEF Agree, AskHolds
    <3>2. <<c.me, c.id>> \in Pair \X (1..MaxRows)
      BY <1>0, <3>1
    <3>3. consent' \subseteq consent \cup {<<c.me, c.id>>}
      BY <1>2 DEF Agree
    <3> QED BY <3>2, <3>3
  <2>4. FriendsTypeOK'
    BY <1>2, <2>1, <2>2, <2>3 DEF Agree, FriendCall, FriendRows
  <2>5. FriendsAgreed' /\ Requested'
    BY <1>0, <1>2 DEF Agree, Stands, FriendsAgreed, Requested, AskHolds
  <2>6. BlockOwned' /\ TwoRowsNoticed'
    BY <1>0, <1>2 DEF Agree, Stands, BlockOwned, TwoRowsNoticed, AskHolds
  <2>7. AskHolds'
    BY <1>2, <2>1 DEF Agree, AskHolds
  <2> QED BY <2>4, <2>5, <2>6, <2>7
<1>3. CASE DeleteFriendship(p)
  <2>1. /\ ask' \in [Requests -> FriendCall] /\ ask'[p].at = "done"
        /\ \A q \in Requests : q # p => ask'[q] = ask[q]
    BY <1>3, AskMoves DEF DeleteFriendship
  <2>2. FriendsTypeOK'
    BY <1>0, <1>3, <2>1 DEF DeleteFriendship, Stands, Unrelated, FriendCall, FriendRows
  <2>3. FriendsAgreed' /\ Requested'
    BY <1>0, <1>3 DEF DeleteFriendship, Stands, Unrelated, FriendsAgreed, Requested
  <2>4. BlockOwned' /\ TwoRowsNoticed'
    BY <1>0, <1>3 DEF DeleteFriendship, Stands, Unrelated, BlockOwned, TwoRowsNoticed
  <2>5. AskHolds'
    BY <1>3, <2>1 DEF DeleteFriendship, AskHolds
  <2> QED BY <2>2, <2>3, <2>4, <2>5
<1>4. CASE MarkBlocked(p)
  <2>1. /\ ask' \in [Requests -> FriendCall] /\ ask'[p].at = "done"
        /\ \A q \in Requests : q # p => ask'[q] = ask[q]
    BY <1>4, AskMoves DEF MarkBlocked
  <2>2. /\ friendship' \in [Pair -> FriendRows]
        /\ \A u \in Pair : friendship'[u].id = 0 <=> friendship'[u].status = "none"
    <3>1. CASE Stands(c.id, c.from)
      <4>1. c.id # 0 /\ friendship[c.from].id = c.id
        BY <1>4, <3>1 DEF MarkBlocked, Stands, AskHolds
      <4>2. friendship' = [friendship EXCEPT ![c.from].status = "BLOCKED"]
        BY <1>4, <3>1 DEF MarkBlocked
      <4>3. friendship' \in [Pair -> FriendRows]
        BY <1>0, <4>2 DEF FriendRows
      <4>4. ASSUME NEW u \in Pair
            PROVE  friendship'[u].id = 0 <=> friendship'[u].status = "none"
        <5>1. CASE u = c.from
          BY <1>0, <4>1, <4>2, <5>1 DEF FriendRows
        <5>2. CASE u # c.from
          BY <1>0, <4>2, <5>2
        <5> QED BY <5>1, <5>2
      <4> QED BY <4>3, <4>4
    <3>2. CASE ~Stands(c.id, c.from)
      BY <1>0, <1>4, <3>2 DEF MarkBlocked
    <3> QED BY <3>1, <3>2
  <2>3. FriendsTypeOK'
    BY <1>0, <1>4, <2>1, <2>2 DEF MarkBlocked, FriendCall, FriendRows
  <2>4. FriendsAgreed' /\ Requested'
    BY <1>0, <1>4 DEF MarkBlocked, Stands, FriendsAgreed, Requested
  <2>5. BlockOwned'
    <3>1. CASE Stands(c.id, c.from)
      <4>1. friendship' = [friendship EXCEPT ![c.from].status = "BLOCKED"]
            /\ blockers' = blockers \cup {c.me} /\ doubled' = doubled
        BY <1>4, <3>1 DEF MarkBlocked
      <4>2. c.from = c.me \/ doubled
        BY <1>4 DEF MarkBlocked, AskHolds
      <4>3. ASSUME NEW u \in Pair, u # c.from
            PROVE  friendship'[u] = friendship[u]
        BY <1>0, <4>1, <4>3
      <4> QED BY <4>1, <4>2, <4>3 DEF BlockOwned
    <3>2. CASE ~Stands(c.id, c.from)
      BY <1>4, <3>2 DEF MarkBlocked, BlockOwned
    <3> QED BY <3>1, <3>2
  <2>6. TwoRowsNoticed'
    BY <1>0, <1>4 DEF MarkBlocked, Stands, TwoRowsNoticed
  <2>7. AskHolds'
    BY <1>4, <2>1 DEF MarkBlocked, AskHolds
  <2> QED BY <2>3, <2>4, <2>5, <2>6, <2>7
<1>5. CASE Flip(p)
  <2>1. FriendsTypeOK'
    BY <1>5 DEF Flip, Stands, Present, Unrelated, AskHolds
  <2>2. FriendsAgreed' /\ Requested'
    BY <1>5 DEF Flip, Stands, Present, Unrelated, FriendsAgreed, Requested, AskHolds
  <2>3. BlockOwned' /\ TwoRowsNoticed'
    BY <1>5 DEF Flip, Stands, Present, Unrelated, BlockOwned, TwoRowsNoticed, AskHolds
  <2>4. AskHolds'
    BY <1>5, <2>1 DEF Flip, Stands, Present, Unrelated, AskHolds, TwoRowsNoticed
  <2> QED BY <2>1, <2>2, <2>3, <2>4
<1>6. CASE FindAgain(p)
  <2>1. CASE Returns(p)
    <3>1. /\ ask' \in [Requests -> FriendCall] /\ ask'[p].at = "done"
          /\ \A q \in Requests : q # p => ask'[q] = ask[q]
      BY <2>1, AskMoves
    <3> QED BY <1>6, <3>1 DEF FindAgain, FriendsAgreed, Requested, BlockOwned,
               TwoRowsNoticed, AskHolds, FriendCall
  <2>2. ASSUME NEW u \in Present, Reads(p, c.me, u, "mark")
        PROVE  FriendsIInv'
    <3>1. /\ u \in Pair /\ friendship[u].id # 0 /\ friendship[u].id \in 0..MaxRows
      BY <1>0 DEF Present, FriendRows
    <3>2. ask' = [ask EXCEPT ![p] = [at |-> "mark", me |-> c.me, id |-> friendship[u].id,
                                     from |-> u]]
      BY <2>2 DEF Reads
    <3>3. ask' \in [Requests -> FriendCall]
      BY <1>0, <3>1, <3>2 DEF FriendCall
    <3>4. AskHolds'
      BY <1>0, <1>6, <3>1, <3>2 DEF FindAgain, AskHolds
    <3> QED BY <1>6, <3>3, <3>4 DEF FindAgain, FriendsAgreed, Requested, BlockOwned,
               TwoRowsNoticed, FriendCall
  <2> QED BY <1>6, <2>1, <2>2 DEF FindAgain
<1>7. CASE CreateBlocked(p)
  <2>1. /\ ask' \in [Requests -> FriendCall] /\ ask'[p].at = "done"
        /\ \A q \in Requests : q # p => ask'[q] = ask[q]
    BY <1>7, AskMoves DEF CreateBlocked
  <2>2. CASE c.me \in Present
    BY <1>7, <2>1, <2>2 DEF CreateBlocked, FriendsAgreed, Requested, BlockOwned,
       TwoRowsNoticed, AskHolds, FriendCall
  <2>3. CASE c.me \notin Present
    <3>0. /\ Insert(p, "BLOCKED") /\ blockers' = blockers \cup {c.me}
          /\ doubled' = (doubled \/ Other(c.me) \in Present) /\ UNCHANGED consent
      BY <1>7, <2>3 DEF CreateBlocked
    <3>5. /\ friendship'[c.me].id = nextRow /\ friendship'[c.me].status = "BLOCKED"
          /\ \A u \in Pair : u # c.me => friendship'[u] = friendship[u]
      BY <3>0, Inserted
    <3>1. FriendsTypeOK'
      BY <1>0, <2>1, <3>0, Inserted DEF FriendCall, FriendRows
    <3>2. FriendsAgreed' /\ Requested'
      BY <1>0, <3>0, <3>5 DEF FriendsAgreed, Requested
    <3>3. BlockOwned'
      BY <1>0, <3>0, <3>5 DEF BlockOwned
    <3>6. TwoRowsNoticed'
      <4> SUFFICES ASSUME \A u \in Pair : friendship'[u].id # 0 PROVE doubled'
        BY DEF TwoRowsNoticed
      <4>1. Other(c.me) \in Pair /\ Other(c.me) # c.me
        BY <1>0
      <4>2. friendship[Other(c.me)].id # 0
        BY <1>0, <3>0, <3>5, <4>1
      <4> QED BY <1>0, <3>0, <3>5, <4>1, <4>2 DEF Present
    <3>4. AskHolds'
      BY <2>1, <3>0 DEF AskHolds
    <3> QED BY <3>1, <3>2, <3>3, <3>4, <3>6
  <2> QED BY <2>2, <2>3
<1> QED BY <1>1, <1>2, <1>3, <1>4, <1>5, <1>6, <1>7

-----------------------------------------------------------------------------

\* The rows and the calls of FriendsService keep their types, and what the
\* rows of a pair say is so: friends have both consented and a block is in the
\* row of somebody who has blocked, however look-ups and writes overlap.
THEOREM FriendsHold == FriendsSpec => []FriendsTypeOK /\ []FriendsCorrect
<1>1. FriendsInit => FriendsIInv
  BY FriendsInitHolds
<1>2. FriendsIInv /\ [FriendsNext]_friendVars => FriendsIInv'
  <2> SUFFICES ASSUME FriendsIInv, [FriendsNext]_friendVars PROVE FriendsIInv'
    OBVIOUS
  <2>1. CASE FriendsNext
    BY <2>1, FriendsLookUps, FriendsWrites DEF FriendsNext
  <2>2. CASE UNCHANGED friendVars
    BY <2>2 DEF friendVars, friendHistory, FriendsIInv, FriendsTypeOK, FriendsAgreed,
                BlockOwned, Requested, TwoRowsNoticed, AskHolds
  <2> QED BY <2>1, <2>2
<1>3. FriendsIInv => FriendsTypeOK /\ FriendsCorrect
  BY DEF FriendsIInv, FriendsCorrect
<1> QED BY <1>1, <1>2, <1>3, PTL DEF FriendsSpec

-----------------------------------------------------------------------------
(* The members of a workspace. *)

\* Accepts that have taken a seat and have not given it back.
Seats == seated \cup lost \cup {c \in Acts : act[c].at \in {"create", "refund"}}

SeatsWithinCap ==
  /\ \A c \in seated \cup lost : act[c].at = "done"
  /\ Cardinality(Seats) <= MaxUses
  /\ invite.state # "gone" => invite.used = Cardinality(Seats)

\* Nobody is about to let in a user who was banned for good.
ShutOut == \A u \in barred : u \in banned /\ role[u] = "none" /\ Settled(u)

\* While no call carries a role across a transfer, none of those that write
\* roles is about the owner, and a transfer is the owner's.
RolesCarried ==
  ~crossed =>
    /\ \A c \in Acts :
         /\ act[c].at \in {"drop", "kick", "ban", "assign"} => role[act[c].who] # "OWNER"
         /\ act[c].at = "transfer" => role[act[c].who] = "OWNER"
    /\ \A u \in Users : role[u] = "OWNER" <=> u = ownerId

TransfersMove == \A c \in Acts : act[c].at = "transfer" => act[c].who # act[c].whom

MembershipIInv ==
  MembershipTypeOK /\ SeatsWithinCap /\ ShutOut /\ RolesInStep /\ RolesCarried /\ TransfersMove
-----------------------------------------------------------------------------

Places == {"new", "seat", "refund", "token", "recheck", "approve", "done"}
            \cup JoinSteps \cup RoleSteps
Progress == [at : Places, who : Users, whom : Users, saw : Roles \cup {"none"}]

\* A step of one call changes where that call is, and nothing else of any.
LEMMA ActMoves ==
  ASSUME MembershipTypeOK, NEW c \in Acts, NEW where \in Places, Step(c, where)
  PROVE  /\ act' \in [Acts -> Progress]
         /\ act'[c].at = where
         /\ \A d \in Acts : d # c => act'[d] = act[d]
         /\ \A d \in Acts : act'[d].who = act[d].who /\ act'[d].whom = act[d].whom
BY DEF MembershipTypeOK, Step, Progress, Places, JoinSteps, RoleSteps

\* Counting sets of calls: the only arithmetic of sets the proofs need.
LEMMA ActsCounted ==
  /\ IsFiniteSet(Acts) /\ Cardinality(Acts) \in Nat /\ MaxUses \in Nat
  /\ \A S \in SUBSET Acts : /\ IsFiniteSet(S) /\ Cardinality(S) \in Nat
                            /\ Cardinality(S) <= Cardinality(Acts)
  /\ \A S \in SUBSET Acts, c \in Acts :
       /\ c \notin S => Cardinality(S \cup {c}) = Cardinality(S) + 1
       /\ c \in S => Cardinality(S \ {c}) = Cardinality(S) - 1
BY MembershipAssumption, FS_Subset, FS_CardinalityType, FS_AddElement, FS_RemoveElement
   DEF MembershipAssumption

\* The invariant holds of a workspace with its owner alone.
LEMMA MembershipInitHolds == MembershipInit => MembershipIInv
<1> SUFFICES ASSUME MembershipInit PROVE MembershipIInv
  OBVIOUS
<1> USE MembershipAssumption DEF MembershipAssumption, MembershipInit
<1>1. MembershipTypeOK
  <2>1. invite \in [state : {"live", "revoked", "gone"}, used : 0..Cardinality(Acts)]
    BY ActsCounted
  <2>2. /\ role \in [Users -> Roles \cup {"none"}] /\ sysRole \in [Users -> Roles \cup {"none"}]
        /\ ownerId \in Users
    BY DEF Roles
  <2>3. act \in [Acts -> Progress]
    BY DEF Progress, Places
  <2> QED BY <2>1, <2>2, <2>3 DEF MembershipTypeOK, Progress, Places
<1>2. Seats = {}
  BY DEF Seats
<1>3. SeatsWithinCap
  BY <1>2, FS_EmptySet DEF SeatsWithinCap
<1>4. ShutOut /\ RolesInStep /\ RolesCarried /\ TransfersMove
  BY DEF ShutOut, RolesInStep, RolesCarried, TransfersMove
<1> QED BY <1>1, <1>3, <1>4 DEF MembershipIInv

\* What a look-up leads to keeps the invariant: it lets nobody in who is
\* banned, and is about the owner only when it is a transfer of theirs.
LEMMA LookUpHolds ==
  ASSUME MembershipIInv, NEW c \in Acts, NEW u \in Users, NEW v \in Users,
         NEW where \in {"seat", "join", "approve", "recheck"} \cup RoleSteps,
         NEW r \in Roles \cup {"none"},
         act[c].at = "new",
         act' = [act EXCEPT ![c] = [at |-> where, who |-> u, whom |-> v, saw |-> r]],
         OnlyAct,
         where \in {"seat", "join"} => u \notin banned,
         where \in {"drop", "kick", "ban", "assign"} => role[u] # "OWNER",
         where = "transfer" => role[u] = "OWNER" /\ u # v
  PROVE  MembershipIInv'
<1> USE DEF MembershipIInv, OnlyAct, memberHistory
<1>1. /\ act' \in [Acts -> Progress]
      /\ act'[c] = [at |-> where, who |-> u, whom |-> v, saw |-> r]
      /\ \A d \in Acts : d # c => act'[d] = act[d]
  BY DEF MembershipTypeOK, Progress, Places, JoinSteps, RoleSteps
<1>2. MembershipTypeOK'
  BY <1>1 DEF MembershipTypeOK, Progress, Places
<1>3. Seats' = Seats /\ c \notin Seats
  <2>1. c \notin seated \cup lost
    BY DEF SeatsWithinCap
  <2>2. \A d \in Acts : act'[d].at \in {"create", "refund"} <=> act[d].at \in {"create", "refund"}
    BY <1>1 DEF RoleSteps
  <2> QED BY <2>1, <2>2 DEF Seats
<1>4. SeatsWithinCap'
  <2>1. seated' = seated /\ lost' = lost /\ invite' = invite
    OBVIOUS
  <2>2. \A d \in seated \cup lost : act'[d].at = "done"
    BY <1>1, <1>3 DEF SeatsWithinCap, Seats, MembershipTypeOK
  <2> QED BY <1>3, <2>1, <2>2 DEF SeatsWithinCap
<1>5. ShutOut'
  BY <1>1 DEF ShutOut, Settled, JoinSteps, RoleSteps
<1>6. RolesInStep' /\ RolesCarried' /\ TransfersMove'
  BY <1>1 DEF RolesInStep, RolesCarried, TransfersMove, RoleSteps
<1> QED BY <1>2, <1>4, <1>5, <1>6

\* A call that passes its look-up and its checks, and writes nothing yet.
LEMMA GoesOnHolds ==
  ASSUME MembershipIInv, NEW c \in Acts, NEW u \in Users,
         NEW where \in {"seat", "join", "approve", "recheck", "drop", "kick", "ban", "assign"},
         GoesOn(c, where, u), OnlyAct,
         where \in {"seat", "join"} => u \notin banned,
         where \in {"drop", "kick", "ban", "assign"} => role[u] # "OWNER"
  PROVE  MembershipIInv'
<1>1. role[u] \in Roles \cup {"none"}
  BY DEF MembershipIInv, MembershipTypeOK
<1>2. where \in {"seat", "join", "approve", "recheck"} \cup RoleSteps /\ where # "transfer"
  BY DEF RoleSteps
<1>3. /\ act[c].at = "new"
      /\ act' = [act EXCEPT ![c] = [at |-> where, who |-> u, whom |-> u, saw |-> role[u]]]
  BY DEF GoesOn
<1> QED BY <1>1, <1>2, <1>3, LookUpHolds

\* The look-ups that open the calls on members.
LEMMA LookUps ==
  ASSUME MembershipIInv, NEW c \in Acts, NEW u \in Users,
         \/ AcceptInvite(c, u) \/ JoinPublic(c, u) \/ AcceptPending(c, u)
         \/ ApproveApplication(c, u) \/ KickUndo(c, u)
         \/ LeaveOrRemove(c, u) \/ Kick(c, u) \/ Ban(c, u) \/ UpdateRole(c, u)
         \/ \E v \in Users : TransferOwnership(c, u, v)
  PROVE  MembershipIInv'
<1>1. CASE AcceptInvite(c, u) \/ JoinPublic(c, u) \/ AcceptPending(c, u)
  BY <1>1, GoesOnHolds DEF AcceptInvite, JoinPublic, AcceptPending, MayJoin
<1>2. CASE ApproveApplication(c, u) \/ KickUndo(c, u)
  BY <1>2, GoesOnHolds DEF ApproveApplication, KickUndo
<1>3. CASE LeaveOrRemove(c, u) \/ Kick(c, u) \/ Ban(c, u) \/ UpdateRole(c, u)
  BY <1>3, GoesOnHolds DEF LeaveOrRemove, Kick, Ban, UpdateRole
<1>4. ASSUME NEW v \in Users, TransferOwnership(c, u, v) PROVE MembershipIInv'
  <2>1. /\ u # v /\ role[u] = "OWNER" /\ act[c].at = "new" /\ OnlyAct
        /\ act' = [act EXCEPT ![c] = [at |-> "transfer", who |-> u, whom |-> v,
                                      saw |-> "OWNER"]]
    BY <1>4 DEF TransferOwnership
  <2>2. /\ "transfer" \in {"seat", "join", "approve", "recheck"} \cup RoleSteps
        /\ "OWNER" \in Roles \cup {"none"}
    BY DEF RoleSteps, Roles
  <2> QED BY <2>1, <2>2, LookUpHolds
<1> QED BY <1>1, <1>2, <1>3, <1>4
-----------------------------------------------------------------------------
(* Seats. *)

\* A step of a call that takes no seat and gives none back.
LEMMA SeatsStay ==
  ASSUME MembershipTypeOK, SeatsWithinCap, NEW c \in Acts, NEW where \in Places,
         Step(c, where), act[c].at # "done",
         act[c].at \in {"create", "refund"} <=> where \in {"create", "refund"},
         UNCHANGED <<invite, seated, lost>>
  PROVE  SeatsWithinCap'
<1>1. \A d \in Acts : act'[d].at \in {"create", "refund"} <=> act[d].at \in {"create", "refund"}
  BY ActMoves
<1>2. \A d \in seated \cup lost : act'[d].at = "done"
  BY ActMoves DEF SeatsWithinCap, MembershipTypeOK
<1>3. Seats' = Seats
  BY <1>1 DEF Seats
<1> QED BY <1>2, <1>3 DEF SeatsWithinCap

\* The conditional update of the invite takes a seat below the cap.
LEMMA TakeSeatHolds ==
  ASSUME MembershipIInv, NEW c \in Acts, TakeSeat(c)
  PROVE  MembershipIInv'
<1> USE DEF MembershipIInv, memberHistory
<1>1. /\ act[c].at = "seat"
      /\ UNCHANGED <<role, sysRole, ownerId, banned, undo, seated, lost, crossed, barred>>
  BY DEF TakeSeat
<1>2. Seats \subseteq Acts /\ c \notin Seats
  BY <1>1 DEF Seats, MembershipTypeOK, SeatsWithinCap
<1>3. CASE /\ invite.state = "live" /\ invite.used < MaxUses
           /\ Step(c, "create") /\ invite' = [invite EXCEPT !.used = @ + 1]
  <2>1. /\ act' \in [Acts -> Progress] /\ act'[c].at = "create"
        /\ \A d \in Acts : d # c => act'[d] = act[d]
        /\ \A d \in Acts : act'[d].who = act[d].who /\ act'[d].whom = act[d].whom
    BY <1>3, ActMoves DEF Places, JoinSteps
  <2>2. Seats' = Seats \cup {c} /\ Cardinality(Seats') = Cardinality(Seats) + 1
    <3>1. Seats' = Seats \cup {c}
      BY <1>1, <2>1 DEF Seats, MembershipTypeOK
    <3> QED BY <1>2, <3>1, ActsCounted
  <2>3. Seats' \subseteq Acts /\ invite.used = Cardinality(Seats)
    BY <1>2, <1>3, <2>2 DEF SeatsWithinCap
  <2>4. Cardinality(Seats) \in Nat /\ Cardinality(Seats') <= Cardinality(Acts)
    BY <1>2, <2>3, ActsCounted
  <2>5. invite'.used = Cardinality(Seats') /\ invite'.state = "live"
    BY <1>3, <2>2, <2>3 DEF MembershipTypeOK
  <2>6. SeatsWithinCap'
    <3>1. Cardinality(Seats') <= MaxUses
      BY <1>3, <2>2, <2>3, <2>4, ActsCounted
    <3>2. \A d \in seated' \cup lost' : act'[d].at = "done"
      BY <1>1, <1>2, <2>1 DEF SeatsWithinCap, Seats, MembershipTypeOK
    <3> QED BY <2>5, <3>1, <3>2 DEF SeatsWithinCap
  <2>7. invite' \in [state : {"live", "revoked", "gone"}, used : 0..Cardinality(Acts)]
    BY <1>3, <2>2, <2>3, <2>4, ActsCounted DEF MembershipTypeOK
  <2>8. MembershipTypeOK'
    BY <1>1, <2>1, <2>7 DEF MembershipTypeOK, Progress, Places
  <2>9. ShutOut' /\ RolesInStep' /\ RolesCarried' /\ TransfersMove'
    BY <1>1, <2>1 DEF ShutOut, Settled, JoinSteps, RolesInStep, RolesCarried, TransfersMove
  <2> QED BY <2>6, <2>8, <2>9
<1>4. CASE ActDone(c) /\ UNCHANGED invite
  <2>1. /\ act' \in [Acts -> Progress] /\ act'[c].at = "done"
        /\ \A d \in Acts : d # c => act'[d] = act[d]
        /\ \A d \in Acts : act'[d].who = act[d].who /\ act'[d].whom = act[d].whom
    BY <1>4, ActMoves DEF ActDone, Places
  <2>2. SeatsWithinCap'
    BY <1>1, <1>4, SeatsStay DEF ActDone, Places
  <2>3. MembershipTypeOK'
    BY <1>1, <1>4, <2>1 DEF MembershipTypeOK, Progress, Places
  <2>4. ShutOut' /\ RolesInStep' /\ RolesCarried' /\ TransfersMove'
    BY <1>1, <2>1 DEF ShutOut, Settled, JoinSteps, RolesInStep, RolesCarried, TransfersMove
  <2> QED BY <2>2, <2>3, <2>4
<1> QED BY <1>3, <1>4 DEF TakeSeat

\* The member is created, or is there already and the seat is to be refunded.
LEMMA CreateMemberHolds ==
  ASSUME MembershipIInv, NEW c \in Acts, CreateMember(c)
  PROVE  /\ MembershipIInv' /\ seated \subseteq seated'
<1> USE DEF MembershipIInv
<1> DEFINE u == act[c].who
<1>1. /\ act[c].at = "create" /\ u \in Users
      /\ UNCHANGED <<ownerId, banned, invite, undo, lost, crossed, barred>>
  BY DEF CreateMember, MembershipTypeOK
<1>2. CASE role[u] = "none" /\ Becomes(u, "MEMBER") /\ seated' = seated \cup {c} /\ ActDone(c)
  <2>1. /\ act' \in [Acts -> Progress] /\ act'[c].at = "done"
        /\ \A d \in Acts : d # c => act'[d] = act[d]
        /\ \A d \in Acts : act'[d].who = act[d].who /\ act'[d].whom = act[d].whom
    BY <1>2, ActMoves DEF ActDone, Places
  <2>2. /\ role' = [role EXCEPT ![u] = "MEMBER"] /\ sysRole' = [sysRole EXCEPT ![u] = "MEMBER"]
    BY <1>2 DEF Becomes
  <2>3. Seats' = Seats
    BY <1>1, <1>2, <2>1 DEF Seats, MembershipTypeOK
  <2>4. SeatsWithinCap'
    <3>1. \A d \in seated' \cup lost' : act'[d].at = "done"
      BY <1>1, <1>2, <2>1 DEF SeatsWithinCap, MembershipTypeOK
    <3> QED BY <1>1, <2>3, <3>1 DEF SeatsWithinCap
  <2>5. MembershipTypeOK'
    BY <1>1, <1>2, <2>1, <2>2 DEF MembershipTypeOK, Progress, Places, Roles
  <2>6. ShutOut'
    BY <1>1, <2>1, <2>2 DEF ShutOut, Settled, JoinSteps, MembershipTypeOK
  <2>7. RolesInStep' /\ TransfersMove'
    BY <2>1, <2>2 DEF RolesInStep, TransfersMove
  <2>8. RolesCarried'
    BY <1>1, <1>2, <2>1, <2>2 DEF RolesCarried, MembershipTypeOK
  <2> QED BY <1>2, <2>4, <2>5, <2>6, <2>7, <2>8
<1>3. CASE Step(c, "refund") /\ UNCHANGED <<role, sysRole, seated>>
  <2>1. /\ act' \in [Acts -> Progress] /\ act'[c].at = "refund"
        /\ \A d \in Acts : d # c => act'[d] = act[d]
        /\ \A d \in Acts : act'[d].who = act[d].who /\ act'[d].whom = act[d].whom
    BY <1>3, ActMoves DEF Places
  <2>2. SeatsWithinCap'
    BY <1>1, <1>3, SeatsStay DEF Places
  <2>3. MembershipTypeOK'
    BY <1>1, <1>3, <2>1 DEF MembershipTypeOK, Progress, Places
  <2>4. ShutOut' /\ RolesInStep' /\ RolesCarried' /\ TransfersMove'
    BY <1>1, <1>3, <2>1 DEF ShutOut, Settled, JoinSteps, RolesInStep, RolesCarried, TransfersMove
  <2> QED BY <1>3, <2>2, <2>3, <2>4
<1> QED BY <1>2, <1>3 DEF CreateMember
\* The seat of an accept that found the member there is given back.
LEMMA RefundHolds ==
  ASSUME MembershipIInv, NEW c \in Acts, Refund(c)
  PROVE  MembershipIInv'
<1> USE DEF MembershipIInv, memberHistory
<1>1. /\ act[c].at = "refund"
      /\ UNCHANGED <<role, sysRole, ownerId, banned, undo, seated, lost, crossed, barred>>
      /\ invite' = IF invite.state # "gone" /\ invite.used > 0
                   THEN [invite EXCEPT !.used = @ - 1] ELSE invite
  BY DEF Refund
<1>2. /\ act' \in [Acts -> Progress] /\ act'[c].at = "done"
      /\ \A d \in Acts : d # c => act'[d] = act[d]
      /\ \A d \in Acts : act'[d].who = act[d].who /\ act'[d].whom = act[d].whom
  BY ActMoves DEF Refund, ActDone, Places
<1>3. Seats \subseteq Acts /\ c \in Seats /\ Seats' = Seats \ {c}
  BY <1>1, <1>2 DEF Seats, SeatsWithinCap, MembershipTypeOK
<1>4. /\ Cardinality(Seats) \in Nat /\ Cardinality(Seats') \in Nat
      /\ Cardinality(Seats') = Cardinality(Seats) - 1
      /\ Cardinality(Seats) <= Cardinality(Acts)
  <2>1. Cardinality(Seats') = Cardinality(Seats) - 1
    BY <1>3, ActsCounted
  <2>2. Cardinality(Seats) \in Nat /\ Cardinality(Seats) <= Cardinality(Acts)
    BY <1>3, ActsCounted
  <2>3. Seats' \in SUBSET Acts
    BY <1>3
  <2>4. Cardinality(Seats') \in Nat
    BY <2>3, ActsCounted
  <2> QED BY <2>1, <2>2, <2>4
<1>5. /\ invite' \in [state : {"live", "revoked", "gone"}, used : 0..Cardinality(Acts)]
      /\ invite'.state # "gone" => invite'.used = Cardinality(Seats')
  BY <1>1, <1>4, ActsCounted DEF MembershipTypeOK, SeatsWithinCap
<1>6. SeatsWithinCap'
  <2>1. \A d \in seated' \cup lost' : act'[d].at = "done"
    BY <1>1, <1>2 DEF SeatsWithinCap, MembershipTypeOK
  <2>2. Cardinality(Seats') <= MaxUses
    BY <1>4, ActsCounted DEF SeatsWithinCap
  <2> QED BY <1>5, <2>1, <2>2 DEF SeatsWithinCap
<1>7. MembershipTypeOK'
  BY <1>1, <1>2, <1>5 DEF MembershipTypeOK, Progress, Places
<1>8. ShutOut' /\ RolesInStep' /\ RolesCarried' /\ TransfersMove'
  BY <1>1, <1>2 DEF ShutOut, Settled, JoinSteps, RolesInStep, RolesCarried, TransfersMove
<1> QED BY <1>6, <1>7, <1>8

\* A call that fails after its seat was taken keeps it for good.
LEMMA LoseSeatHolds ==
  ASSUME MembershipIInv, NEW c \in Acts, LoseSeat(c)
  PROVE  MembershipIInv'
<1> USE DEF MembershipIInv
<1>1. /\ act[c].at \in {"create", "refund"} /\ lost' = lost \cup {c}
      /\ UNCHANGED <<role, sysRole, ownerId, banned, invite, undo, seated, crossed, barred>>
  BY DEF LoseSeat
<1>2. /\ act' \in [Acts -> Progress] /\ act'[c].at = "done"
      /\ \A d \in Acts : d # c => act'[d] = act[d]
      /\ \A d \in Acts : act'[d].who = act[d].who /\ act'[d].whom = act[d].whom
  BY ActMoves DEF LoseSeat, ActDone, Places
<1>3. Seats' = Seats
  BY <1>1, <1>2 DEF Seats, MembershipTypeOK
<1>4. SeatsWithinCap'
  <2>1. \A d \in seated' \cup lost' : act'[d].at = "done"
    BY <1>1, <1>2 DEF SeatsWithinCap, MembershipTypeOK
  <2> QED BY <1>1, <1>3, <2>1 DEF SeatsWithinCap
<1>5. MembershipTypeOK'
  BY <1>1, <1>2 DEF MembershipTypeOK, Progress, Places
<1>6. ShutOut' /\ RolesInStep' /\ RolesCarried' /\ TransfersMove'
  BY <1>1, <1>2 DEF ShutOut, Settled, JoinSteps, RolesInStep, RolesCarried, TransfersMove
<1> QED BY <1>4, <1>5, <1>6

\* The invite is revoked or deleted.
LEMMA EndInviteHolds ==
  ASSUME MembershipIInv, RevokeInvite \/ DeleteInvite
  PROVE  MembershipIInv'
<1> USE DEF MembershipIInv, memberHistory
<1>1. UNCHANGED <<role, sysRole, ownerId, banned, undo, act, seated, lost, crossed, barred>>
  BY DEF RevokeInvite, DeleteInvite
<1>2. /\ invite' \in [state : {"live", "revoked", "gone"}, used : 0..Cardinality(Acts)]
      /\ invite'.state # "gone" => invite.state # "gone" /\ invite'.used = invite.used
  BY ActsCounted DEF RevokeInvite, DeleteInvite, MembershipTypeOK
<1>3. Seats' = Seats
  BY <1>1 DEF Seats
<1>4. SeatsWithinCap'
  BY <1>1, <1>2, <1>3 DEF SeatsWithinCap
<1>5. MembershipTypeOK'
  BY <1>1, <1>2 DEF MembershipTypeOK
<1>6. ShutOut' /\ RolesInStep' /\ RolesCarried' /\ TransfersMove'
  BY <1>1 DEF ShutOut, Settled, RolesInStep, RolesCarried, TransfersMove
<1> QED BY <1>4, <1>5, <1>6

-----------------------------------------------------------------------------
(* Roles and bans: the seats stay as they are. *)

\* What every one of these calls does to its progress.
LEMMA Moved ==
  ASSUME MembershipIInv, NEW c \in Acts, NEW where \in {"join", "admit", "token", "done"},
         Step(c, where), act[c].at \notin {"done", "create", "refund"},
         UNCHANGED <<invite, seated, lost>>
  PROVE  /\ act' \in [Acts -> Progress] /\ act'[c].at = where
         /\ \A d \in Acts : d # c => act'[d] = act[d]
         /\ \A d \in Acts : act'[d].who = act[d].who /\ act'[d].whom = act[d].whom
         /\ SeatsWithinCap'
         /\ TransfersMove'
<1>1. where \in Places /\ where \notin {"create", "refund"}
  BY DEF Places, JoinSteps
<1>2. SeatsWithinCap'
  BY <1>1, SeatsStay DEF MembershipIInv
<1>3. /\ act' \in [Acts -> Progress] /\ act'[c].at = where
      /\ \A d \in Acts : d # c => act'[d] = act[d]
      /\ \A d \in Acts : act'[d].who = act[d].who /\ act'[d].whom = act[d].whom
  BY <1>1, ActMoves DEF MembershipIInv
<1>4. TransfersMove'
  BY <1>3 DEF MembershipIInv, TransfersMove
<1> QED BY <1>2, <1>3, <1>4

\* A transaction lets a user in, unless it finds a ban.
LEMMA JoinTxHolds ==
  ASSUME MembershipIInv, NEW c \in Acts, JoinTx(c)
  PROVE  MembershipIInv'
<1> DEFINE u == act[c].who
<1>1. /\ act[c].at \in {"join", "admit"} /\ u \in Users
      /\ UNCHANGED <<ownerId, banned, invite, undo, seated, lost, crossed, barred>>
      /\ Step(c, "done")
  BY DEF JoinTx, ActDone, memberHistory, MembershipIInv, MembershipTypeOK
<1>2. /\ act' \in [Acts -> Progress] /\ act'[c].at = "done"
      /\ \A d \in Acts : d # c => act'[d] = act[d]
      /\ \A d \in Acts : act'[d].who = act[d].who /\ act'[d].whom = act[d].whom
      /\ SeatsWithinCap' /\ TransfersMove'
  BY <1>1, Moved
<1>3. \/ /\ role[u] = "none" /\ role' = [role EXCEPT ![u] = "MEMBER"]
         /\ sysRole' = [sysRole EXCEPT ![u] = "MEMBER"]
      \/ UNCHANGED <<role, sysRole>>
  BY DEF JoinTx, Becomes
<1>4. u \notin barred
  BY <1>1 DEF MembershipIInv, ShutOut, Settled, JoinSteps
<1>5. MembershipTypeOK'
  BY <1>1, <1>2, <1>3 DEF MembershipIInv, MembershipTypeOK, Progress, Places, Roles
<1>6. ShutOut'
  BY <1>1, <1>2, <1>3, <1>4 DEF MembershipIInv, ShutOut, Settled, JoinSteps, MembershipTypeOK
<1>7. RolesInStep'
  BY <1>3 DEF MembershipIInv, RolesInStep
<1>8. RolesCarried'
  BY <1>1, <1>2, <1>3 DEF MembershipIInv, RolesCarried, MembershipTypeOK
<1> QED BY <1>2, <1>5, <1>6, <1>7, <1>8 DEF MembershipIInv

\* The second look at the ban list, before an application or an undo lets in.
LEMMA ChecksHold ==
  ASSUME MembershipIInv, NEW c \in Acts, ApproveCheck(c) \/ KickUndoCheck(c)
  PROVE  MembershipIInv'
<1> DEFINE u == act[c].who
<1>1. PICK where \in {"admit", "join", "done"} :
        Step(c, where) /\ (where # "done" => u \notin banned)
  BY DEF ApproveCheck, KickUndoCheck
<1>2. /\ act[c].at \in {"approve", "recheck"} /\ u \in Users /\ undo' \subseteq undo
      /\ UNCHANGED <<role, sysRole, ownerId, banned, invite, seated, lost, crossed, barred>>
  BY DEF ApproveCheck, KickUndoCheck, OnlyAct, memberHistory, MembershipIInv, MembershipTypeOK
<1>3. /\ act' \in [Acts -> Progress] /\ act'[c].at = where
      /\ \A d \in Acts : d # c => act'[d] = act[d]
      /\ \A d \in Acts : act'[d].who = act[d].who /\ act'[d].whom = act[d].whom
      /\ SeatsWithinCap' /\ TransfersMove'
  BY <1>1, <1>2, Moved
<1>4. MembershipTypeOK'
  BY <1>2, <1>3 DEF MembershipIInv, MembershipTypeOK, Progress, Places
<1>5. ShutOut'
  BY <1>1, <1>2, <1>3 DEF MembershipIInv, ShutOut, Settled, JoinSteps, MembershipTypeOK
<1>6. RolesInStep' /\ RolesCarried'
  BY <1>2, <1>3 DEF MembershipIInv, RolesInStep, RolesCarried
<1> QED BY <1>3, <1>4, <1>5, <1>6 DEF MembershipIInv

\* The member goes: it was not the owner unless a transfer has crossed.
LEMMA DropsHold ==
  ASSUME MembershipIInv, NEW c \in Acts, DropTx(c) \/ KickTx(c)
  PROVE  MembershipIInv'
<1> DEFINE u == act[c].who
<1>1. PICK where \in {"token", "done"} : Step(c, where)
  BY DEF DropTx, KickTx, ActDone
<1>2. /\ act[c].at \in {"drop", "kick"} /\ u \in Users
      /\ UNCHANGED <<ownerId, banned, invite, undo, seated, lost, crossed, barred>>
  BY DEF DropTx, KickTx, memberHistory, MembershipIInv, MembershipTypeOK
<1>3. /\ act' \in [Acts -> Progress] /\ act'[c].at = where
      /\ \A d \in Acts : d # c => act'[d] = act[d]
      /\ \A d \in Acts : act'[d].who = act[d].who /\ act'[d].whom = act[d].whom
      /\ SeatsWithinCap' /\ TransfersMove'
  BY <1>1, <1>2, Moved
<1>4. \/ role' = [role EXCEPT ![u] = "none"] /\ sysRole' = [sysRole EXCEPT ![u] = "none"]
      \/ UNCHANGED <<role, sysRole>>
  BY DEF DropTx, KickTx, Drops, Becomes
<1>5. MembershipTypeOK'
  BY <1>2, <1>3, <1>4 DEF MembershipIInv, MembershipTypeOK, Progress, Places
<1>6. ShutOut'
  BY <1>2, <1>3, <1>4 DEF MembershipIInv, ShutOut, Settled, JoinSteps, MembershipTypeOK
<1>7. RolesInStep'
  BY <1>4 DEF MembershipIInv, RolesInStep
<1>8. RolesCarried'
  BY <1>2, <1>3, <1>4 DEF MembershipIInv, RolesCarried, MembershipTypeOK
<1> QED BY <1>3, <1>5, <1>6, <1>7, <1>8 DEF MembershipIInv
\* The transaction of a ban writes the ban and removes the member.
LEMMA BanTxHolds ==
  ASSUME MembershipIInv, NEW c \in Acts, BanTx(c)
  PROVE  MembershipIInv'
<1> DEFINE u == act[c].who
<1>1. /\ act[c].at = "ban" /\ u \in Users /\ Step(c, "done")
      /\ UNCHANGED <<ownerId, invite, undo, seated, lost, crossed>>
  BY DEF BanTx, ActDone, MembershipIInv, MembershipTypeOK
<1>2. /\ act' \in [Acts -> Progress] /\ act'[c].at = "done"
      /\ \A d \in Acts : d # c => act'[d] = act[d]
      /\ \A d \in Acts : act'[d].who = act[d].who /\ act'[d].whom = act[d].whom
      /\ SeatsWithinCap' /\ TransfersMove'
  BY <1>1, Moved
<1>3. CASE UNCHANGED <<role, sysRole, banned, barred>>
  <2>1. MembershipTypeOK'
    BY <1>1, <1>2, <1>3 DEF MembershipIInv, MembershipTypeOK, Progress, Places
  <2>2. ShutOut' /\ RolesInStep' /\ RolesCarried'
    BY <1>1, <1>2, <1>3
       DEF MembershipIInv, ShutOut, Settled, JoinSteps, RolesInStep, RolesCarried
  <2> QED BY <1>2, <2>1, <2>2 DEF MembershipIInv
<1>4. CASE /\ banned' = banned \cup {u}
           /\ IF act[c].saw # "none" THEN Drops(u) ELSE UNCHANGED <<role, sysRole>>
           /\ barred' = IF Settled(u) /\ role'[u] = "none" THEN barred \cup {u} ELSE barred
  <2>1. \/ role' = [role EXCEPT ![u] = "none"] /\ sysRole' = [sysRole EXCEPT ![u] = "none"]
        \/ UNCHANGED <<role, sysRole>>
    BY <1>4 DEF Drops, Becomes
  <2>2. MembershipTypeOK'
    BY <1>1, <1>2, <1>4, <2>1 DEF MembershipIInv, MembershipTypeOK, Progress, Places
  <2>3. \A v \in Users : Settled(v) => Settled(v)'
    BY <1>2 DEF Settled, JoinSteps
  <2>4. ShutOut'
    BY <1>1, <1>4, <2>1, <2>3 DEF MembershipIInv, ShutOut, MembershipTypeOK
  <2>5. RolesInStep'
    BY <2>1 DEF MembershipIInv, RolesInStep
  <2>6. RolesCarried'
    BY <1>1, <1>2, <2>1 DEF MembershipIInv, RolesCarried, MembershipTypeOK
  <2> QED BY <1>2, <2>2, <2>4, <2>5, <2>6 DEF MembershipIInv
<1> QED BY <1>3, <1>4 DEF BanTx

\* The transactions of roles, of ownership and of removal.
LEMMA UpdateRoleTxHolds ==
  ASSUME MembershipIInv, NEW c \in Acts, UpdateRoleTx(c)
  PROVE  MembershipIInv'
<1> DEFINE u == act[c].who
<1>1. /\ act[c].at = "assign" /\ u \in Users /\ Step(c, "done")
      /\ UNCHANGED <<ownerId, banned, invite, undo, seated, lost, crossed, barred>>
  BY DEF UpdateRoleTx, ActDone, memberHistory, MembershipIInv, MembershipTypeOK
<1>2. /\ act' \in [Acts -> Progress] /\ act'[c].at = "done"
      /\ \A d \in Acts : d # c => act'[d] = act[d]
      /\ \A d \in Acts : act'[d].who = act[d].who /\ act'[d].whom = act[d].whom
      /\ SeatsWithinCap' /\ TransfersMove'
  BY <1>1, Moved
<1>3. CASE UNCHANGED <<role, sysRole>>
  <2>1. MembershipTypeOK'
    BY <1>1, <1>2, <1>3 DEF MembershipIInv, MembershipTypeOK, Progress, Places
  <2>2. ShutOut' /\ RolesInStep' /\ RolesCarried'
    BY <1>1, <1>2, <1>3
       DEF MembershipIInv, ShutOut, Settled, JoinSteps, RolesInStep, RolesCarried
  <2> QED BY <1>2, <2>1, <2>2 DEF MembershipIInv
<1>4. ASSUME role[u] # "none", NEW r \in {"ADMIN", "MEMBER"}, Becomes(u, r)
      PROVE  MembershipIInv'
  <2>1. role' = [role EXCEPT ![u] = r] /\ sysRole' = [sysRole EXCEPT ![u] = r]
    BY <1>4 DEF Becomes
  <2>2. MembershipTypeOK'
    BY <1>1, <1>2, <2>1 DEF MembershipIInv, MembershipTypeOK, Progress, Places, Roles
  <2>3. \A v \in Users : Settled(v) => Settled(v)'
    BY <1>2 DEF Settled, JoinSteps
  <2>4. ShutOut'
    BY <1>1, <1>4, <2>1, <2>3 DEF MembershipIInv, ShutOut, MembershipTypeOK
  <2>5. RolesInStep'
    BY <2>1 DEF MembershipIInv, RolesInStep
  <2>6. RolesCarried'
    BY <1>1, <1>2, <1>4, <2>1 DEF MembershipIInv, RolesCarried, MembershipTypeOK
  <2> QED BY <1>2, <2>2, <2>4, <2>5, <2>6 DEF MembershipIInv
<1> QED BY <1>3, <1>4 DEF UpdateRoleTx

\* A transfer makes another member the owner, and notes what it has crossed.
LEMMA TransferTxHolds ==
  ASSUME MembershipIInv, NEW c \in Acts, TransferTx(c)
  PROVE  MembershipIInv'
<1> DEFINE u == act[c].who
           v == act[c].whom
<1>1. /\ act[c].at = "transfer" /\ u \in Users /\ v \in Users /\ u # v /\ Step(c, "done")
      /\ UNCHANGED <<banned, invite, undo, seated, lost, barred>>
  BY DEF TransferTx, ActDone, MembershipIInv, MembershipTypeOK, TransfersMove
<1>2. /\ act' \in [Acts -> Progress] /\ act'[c].at = "done"
      /\ \A d \in Acts : d # c => act'[d] = act[d]
      /\ \A d \in Acts : act'[d].who = act[d].who /\ act'[d].whom = act[d].whom
      /\ SeatsWithinCap' /\ TransfersMove'
  BY <1>1, Moved
<1>3. \A w \in Users : Settled(w) => Settled(w)'
  BY <1>2 DEF Settled, JoinSteps
<1>4. CASE UNCHANGED <<role, sysRole, ownerId, crossed>>
  <2>1. MembershipTypeOK'
    BY <1>1, <1>2, <1>4 DEF MembershipIInv, MembershipTypeOK, Progress, Places
  <2>2. ShutOut' /\ RolesInStep' /\ RolesCarried'
    BY <1>1, <1>2, <1>3, <1>4
       DEF MembershipIInv, ShutOut, MembershipTypeOK, RolesInStep, RolesCarried
  <2> QED BY <1>2, <2>1, <2>2 DEF MembershipIInv
<1>5. CASE /\ role[u] # "none" /\ role[v] # "none"
           /\ role' = [role EXCEPT ![u] = "ADMIN", ![v] = "OWNER"]
           /\ sysRole' = [sysRole EXCEPT ![u] = "ADMIN", ![v] = "OWNER"]
           /\ ownerId' = v /\ crossed' = (crossed \/ RoleWriteUnderWay(c))
  <2>1. MembershipTypeOK'
    BY <1>1, <1>2, <1>5 DEF MembershipIInv, MembershipTypeOK, Progress, Places, Roles,
                            RoleWriteUnderWay
  <2>2. ShutOut'
    BY <1>1, <1>3, <1>5 DEF MembershipIInv, ShutOut, MembershipTypeOK
  <2>3. RolesInStep'
    BY <1>5 DEF MembershipIInv, RolesInStep
  <2>4. RolesCarried'
    <3> SUFFICES ASSUME ~crossed' PROVE RolesCarried'
      BY DEF RolesCarried
    <3>1. ~crossed /\ \A d \in Acts \ {c} : act[d].at \notin RoleSteps
      BY <1>5 DEF RoleWriteUnderWay
    <3>2. \A d \in Acts : act'[d].at \notin RoleSteps
      BY <1>2, <3>1 DEF RoleSteps
    <3>3. \A w \in Users : role[w] = "OWNER" <=> w = ownerId
      BY <3>1 DEF MembershipIInv, RolesCarried
    <3>4. role[u] = "OWNER"
      BY <1>1, <3>1 DEF MembershipIInv, RolesCarried
    <3>5. \A w \in Users : role'[w] = "OWNER" <=> w = ownerId'
      BY <1>1, <1>5, <3>3, <3>4 DEF MembershipIInv, MembershipTypeOK
    <3> QED BY <3>2, <3>5 DEF RolesCarried, RoleSteps
  <2> QED BY <1>2, <2>1, <2>2, <2>3, <2>4 DEF MembershipIInv
<1> QED BY <1>4, <1>5 DEF TransferTx

\* The tokens of kicks, the end of a ban, and steps elsewhere.
LEMMA TokensHold ==
  ASSUME MembershipIInv,
         \/ \E c \in Acts : KickToken(c)
         \/ \E u \in Users : TokenExpires(u) \/ Unban(u)
         \/ UNCHANGED memberVars
  PROVE  MembershipIInv'
<1>1. ASSUME NEW c \in Acts, KickToken(c) PROVE MembershipIInv'
  <2>1. /\ act[c].at = "token" /\ Step(c, "done") /\ undo' \subseteq undo \cup {act[c].who}
        /\ UNCHANGED <<role, sysRole, ownerId, banned, invite, seated, lost, crossed, barred>>
    BY <1>1 DEF KickToken, ActDone, memberHistory
  <2>2. /\ act' \in [Acts -> Progress] /\ act'[c].at = "done"
        /\ \A d \in Acts : d # c => act'[d] = act[d]
        /\ \A d \in Acts : act'[d].who = act[d].who /\ act'[d].whom = act[d].whom
        /\ SeatsWithinCap' /\ TransfersMove'
    BY <2>1, Moved
  <2>3. MembershipTypeOK'
    BY <2>1, <2>2 DEF MembershipIInv, MembershipTypeOK, Progress, Places
  <2>4. ShutOut' /\ RolesInStep' /\ RolesCarried'
    BY <2>1, <2>2 DEF MembershipIInv, ShutOut, Settled, JoinSteps, RolesInStep, RolesCarried
  <2> QED BY <2>2, <2>3, <2>4 DEF MembershipIInv
<1>2. ASSUME \/ \E u \in Users : TokenExpires(u) \/ Unban(u)
             \/ UNCHANGED memberVars
      PROVE  MembershipIInv'
  <2>1. /\ UNCHANGED <<role, sysRole, ownerId, invite, act, seated, lost, crossed>>
        /\ undo' \subseteq undo
        /\ \/ UNCHANGED <<banned, barred>>
           \/ \E u \in Users : banned' = banned \ {u} /\ barred' = barred \ {u}
    BY <1>2 DEF TokenExpires, Unban, memberVars, memberHistory
  <2>2. MembershipTypeOK'
    BY <2>1 DEF MembershipIInv, MembershipTypeOK
  <2>3. SeatsWithinCap'
    BY <2>1 DEF MembershipIInv, SeatsWithinCap, Seats
  <2>4. ShutOut' /\ RolesInStep' /\ RolesCarried' /\ TransfersMove'
    BY <2>1 DEF MembershipIInv, ShutOut, Settled, RolesInStep, RolesCarried, TransfersMove
  <2> QED BY <2>2, <2>3, <2>4 DEF MembershipIInv
<1> QED BY <1>1, <1>2

-----------------------------------------------------------------------------

\* Every step keeps the invariant.
LEMMA MembershipStep == MembershipIInv /\ [MembershipNext]_memberVars => MembershipIInv'
<1> SUFFICES ASSUME MembershipIInv, [MembershipNext]_memberVars PROVE MembershipIInv'
  OBVIOUS
<1>1. CASE MembershipNext
  BY <1>1, LookUps, TakeSeatHolds, CreateMemberHolds, RefundHolds, LoseSeatHolds,
     EndInviteHolds, JoinTxHolds, ChecksHold, DropsHold, BanTxHolds, UpdateRoleTxHolds,
     TransferTxHolds, TokensHold
     DEF MembershipNext
<1>2. CASE UNCHANGED memberVars
  BY <1>2, TokensHold
<1> QED BY <1>1, <1>2

\* The inductive invariant holds of every behaviour.
LEMMA MembershipInvariant == MembershipSpec => []MembershipIInv
BY MembershipInitHolds, MembershipStep, PTL DEF MembershipSpec

\* usedCount is the accepts that made a member, those under way and those that
\* failed with a seat in hand, for any number of overlapping accepts (accept).
THEOREM SeatsAreAccounted == MembershipSpec => []SeatsAccounted
<1>1. MembershipIInv => SeatsAccounted
  BY DEF MembershipIInv, SeatsWithinCap, SeatsAccounted, Seats
<1> QED BY <1>1, MembershipInvariant, PTL

\* A ban that finds nobody on the way in keeps its user out, by every way in,
\* until it is lifted (moderation.service.ts, ban; the five ways in).
THEOREM BarredAreOut == MembershipSpec => []BarredStayOut
<1>1. MembershipIInv => BarredStayOut
  BY DEF MembershipIInv, ShutOut, BarredStayOut, Members
<1> QED BY <1>1, MembershipInvariant, PTL

\* The system role is the role, and the one OWNER is the workspace's ownerId
\* while no call has carried a role across a transfer (transferOwnership).
THEOREM RolesAreCorrect == MembershipSpec => []MembershipTypeOK /\ []RolesCorrect
<1>1. MembershipIInv => MembershipTypeOK /\ RolesCorrect
  BY DEF MembershipIInv, MembershipTypeOK, RolesCarried, RolesCorrect,
         SingleOwnerUncrossed, SingleOwner
<1> QED BY <1>1, MembershipInvariant, PTL

\* CappedSet counts as this module does.
LEMMA SeatsSameCount ==
  \A S : /\ InviteSeats!IsFiniteSet(S) <=> IsFiniteSet(S)
         /\ InviteSeats!Cardinality(S) = Cardinality(S)
BY DEF InviteSeats!IsFiniteSet, IsFiniteSet, InviteSeats!Cardinality, Cardinality

\* An invite makes no more members than maxUses, whatever accepts, failures and
\* refunds overlap and whoever revokes or deletes it (accept).
THEOREM InviteSeatsAreCapped == MembershipSpec => InviteImplementsCap
<1>1. MembershipIInv => IsFiniteSet(seated) /\ Cardinality(seated) <= MaxUses
  <2> SUFFICES ASSUME MembershipIInv
               PROVE  IsFiniteSet(seated) /\ Cardinality(seated) <= MaxUses
    OBVIOUS
  <2>1. seated \subseteq Seats /\ Seats \subseteq Acts
    BY DEF Seats, MembershipIInv, MembershipTypeOK
  <2>2. /\ IsFiniteSet(Seats) /\ Cardinality(Seats) \in Nat
        /\ IsFiniteSet(seated) /\ Cardinality(seated) \in Nat
    BY <2>1, ActsCounted
  <2>3. Cardinality(seated) <= Cardinality(Seats)
    BY <2>1, <2>2, FS_Subset
  <2> QED BY <2>2, <2>3, ActsCounted DEF MembershipIInv, SeatsWithinCap
<1>2. MembershipIInv => InviteSeats!CapInit
  BY <1>1, SeatsSameCount DEF InviteSeats!CapInit, InviteSeats!WithinCap
<1>3. [MembershipNext]_memberVars => seated \subseteq seated'
  BY DEF MembershipNext, memberVars, memberHistory, OnlyAct, AcceptInvite, JoinPublic,
         AcceptPending, ApproveApplication, KickUndo, LeaveOrRemove, Kick, Ban, UpdateRole,
         TransferOwnership, TakeSeat, CreateMember, Refund, LoseSeat, JoinTx, ApproveCheck,
         DropTx, KickTx, KickToken, KickUndoCheck, BanTx, UpdateRoleTx, TransferTx,
         TokenExpires, Unban, RevokeInvite, DeleteInvite
<1>4. MembershipIInv' => (IsFiniteSet(seated) /\ Cardinality(seated) <= MaxUses)'
  BY <1>1, PTL
<1>5. MembershipIInv /\ MembershipIInv' /\ [MembershipNext]_memberVars
        => [InviteSeats!Take \/ InviteSeats!Free]_seated
  <2> SUFFICES ASSUME MembershipIInv', [MembershipNext]_memberVars
               PROVE  InviteSeats!Take
    OBVIOUS
  <2>1. IsFiniteSet(seated') /\ Cardinality(seated') <= MaxUses
    BY <1>4
  <2> QED BY <1>3, <2>1, SeatsSameCount DEF InviteSeats!Take, InviteSeats!WithinCap
<1> QED BY <1>2, <1>5, MembershipInvariant, PTL
        DEF MembershipSpec, InviteImplementsCap, InviteSeats!CapSpec
=============================================================================
