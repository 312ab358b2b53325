------------------------------ MODULE Ordering ------------------------------
(* The order of one list of the sidebar: the channels of a category, the     *)
(* categories of a workspace, somebody's favourites or sidebar sections. A   *)
(* row's place is a Decimal(20,10), counted here in units of 10^-10; readers *)
(* sort by it alone, so rows with equal positions appear in any order. A     *)
(* browser that drops a row somewhere sends ONE anchor, and the server turns *)
(* it into a number with calcBetween.                                        *)
EXTENDS Integers, Sequences, SequencesExt, FiniteSets, Functions

CONSTANTS Items,    \* the rows that may be on the list
          Movers,   \* the calls that will be made, each of them once
          Stride,   \* POSITION_STRIDE
          Renorm,   \* RENORMALIZE_STRIDE
          MaxBatch, \* the rows one reorder may name: 200, channel.ts:130
          MinGap,   \* MIN_GAP
          Limit,    \* the first value Decimal(20,10) cannot hold
          Nothing,  \* no row, no position (elsewhere, or not made yet), a refusal
          Deleted   \* the position of a row that was deleted

ASSUME OrderingAssumption ==
  /\ IsFiniteSet(Items)
  /\ MinGap \in Nat /\ MinGap > 0
  /\ Renorm \in Nat /\ Stride \in Nat /\ Limit \in Nat
  /\ MaxBatch \in Nat /\ Renorm * MaxBatch < Limit
  /\ MinGap < Renorm /\ Renorm < Stride /\ Stride < Limit
  /\ Nothing \notin Int /\ Deleted \notin Int /\ Deleted # Nothing

VARIABLES position, \* the stored position of every row
          mover,    \* where each call stands
          landed    \* history: the last drop, while nothing was written since

orderingVars == <<position, mover, landed>>

-----------------------------------------------------------------------------
\* Mutant: positions do not go below zero.
CalcBetweenClamped(prev, next) ==
  IF prev = Nothing /\ next = Nothing THEN Stride
  ELSE IF prev = Nothing THEN IF next < Stride THEN 0 ELSE next - Stride
  ELSE prev + Stride

(* calcBetween: a stride past the one neighbour given, the middle of two.    *)
CalcBetween(prev, next) ==
  IF prev = Nothing /\ next = Nothing THEN Stride
  ELSE IF prev = Nothing THEN next - Stride
  ELSE IF next = Nothing THEN prev + Stride
  ELSE IF next - prev <= MinGap THEN Nothing
  ELSE (prev + next) \div 2

Fits(p) == p \in (1 - Limit)..(Limit - 1)

Listed == {i \in Items : position[i] \notin {Nothing, Deleted}}

LastOf(S) ==
  IF S = {} THEN Nothing
  ELSE position[CHOOSE i \in S : \A j \in S : position[j] <= position[i]]

\* The orders in which rows may be shown: ORDER BY position leaves ties open.
Displays(S) == {s \in SetToSeqs(S) :
            \A a, b \in 1..Len(s) : a < b => position[s[a]] <= position[s[b]]}

IdleMover == [at |-> "idle"]
DoneMover == [at |-> "done"]

\* A write of somebody else makes the outstanding drops dirty.
Disturb(c, m) == [d \in Movers |->
                    IF d = c THEN DoneMover
                    ELSE IF m[d].at \in {"sent", "moving"} THEN [m[d] EXCEPT !.clean = FALSE]
                    ELSE m[d]]

OrderingInit ==
  /\ position \in [Items ->
       {Nothing} \cup {p \in {Stride * n : n \in 1..Cardinality(Items)} : Fits(p)}]
  /\ \A i, j \in Listed : position[i] = position[j] => i = j
  /\ mover = [c \in Movers |-> IdleMover]
  /\ landed = Nothing

-----------------------------------------------------------------------------
\* A new row goes behind the last one, which is read outside the transaction
\* that inserts it.
CreateRead(c, i) ==
  /\ mover[c] = IdleMover
  /\ position[i] = Nothing
  /\ mover' = [mover EXCEPT ![c] = [at |-> "creating", item |-> i,
                                    pos |-> CalcBetween(LastOf(Listed), Nothing)]]
  /\ UNCHANGED <<position, landed>>

\* Mutant: the column takes any number.
CreateUnchecked(c) ==
  /\ mover[c].at = "creating"
  /\ IF position[mover[c].item] = Nothing
       THEN /\ position' = [position EXCEPT ![mover[c].item] = mover[c].pos]
            /\ mover' = Disturb(c, mover)
            /\ landed' = Nothing
       ELSE /\ mover' = [mover EXCEPT ![c] = DoneMover]
            /\ UNCHANGED <<position, landed>>

CreateWrite(c) ==
  /\ mover[c].at = "creating"
  /\ IF Fits(mover[c].pos) /\ position[mover[c].item] = Nothing
       THEN /\ position' = [position EXCEPT ![mover[c].item] = mover[c].pos]
            /\ mover' = Disturb(c, mover)
            /\ landed' = Nothing
       ELSE /\ mover' = [mover EXCEPT ![c] = DoneMover]
            /\ UNCHANGED <<position, landed>>

\* The browser drops row i at place k among the others, another place than it
\* has: the row that then follows is the anchor, and only at the end of the list
\* the row before.
Anchor(lo, hi) == IF hi # Nothing THEN [kind |-> "before", row |-> hi]
                  ELSE IF lo # Nothing THEN [kind |-> "after", row |-> lo]
                  ELSE [kind |-> "none", row |-> Nothing]

Drop(c, i) ==
  /\ mover[c] = IdleMover
  /\ position[i] # Deleted
  /\ \E rest \in Displays(Listed \ {i}) : \E k \in 1..(Len(rest) + 1) :
       /\ i \in Listed =>
            \E n \in (1..(Len(rest) + 1)) \ {k} : InsertAt(rest, n, i) \in Displays(Listed)
       /\ LET lo == IF k > 1 THEN rest[k - 1] ELSE Nothing
              hi == IF k <= Len(rest) THEN rest[k] ELSE Nothing
          IN mover' = [mover EXCEPT ![c] =
                         [at |-> "sent", item |-> i, anchor |-> Anchor(lo, hi),
                          lo |-> lo, hi |-> hi, clean |-> TRUE]]
  /\ UNCHANGED <<position, landed>>

\* The transaction of a move reads the anchor. An anchor that is gone counts as
\* none for channels and categories and is refused for favourites and sections;
\* without an anchor the row goes behind the last of the others.
MoveRead(c) ==
  /\ mover[c].at = "sent"
  /\ LET a == mover[c].anchor
         behind == CalcBetween(LastOf(Listed \ {mover[c].item}), Nothing)
         places == IF a.kind = "none" THEN {behind}
                   ELSE IF a.row \notin Listed THEN {behind, Nothing}
                   ELSE IF a.kind = "after" THEN {CalcBetween(position[a.row], Nothing)}
                   ELSE {CalcBetween(Nothing, position[a.row])}
     IN \E p \in places :
          mover' = [mover EXCEPT ![c] =
                      [at |-> "moving", item |-> @.item, pos |-> p,
                       lo |-> @.lo, hi |-> @.hi, clean |-> @.clean]]
  /\ UNCHANGED <<position, landed>>

\* ... and writes the new position, unless the column cannot hold it. A deleted
\* row stays deleted.
MoveWrite(c) ==
  /\ mover[c].at = "moving"
  /\ IF Fits(mover[c].pos) /\ position[mover[c].item] # Deleted
       THEN /\ position' = [position EXCEPT ![mover[c].item] = mover[c].pos]
            /\ mover' = Disturb(c, mover)
            /\ landed' = IF mover[c].clean
                           THEN [item |-> mover[c].item, lo |-> mover[c].lo, hi |-> mover[c].hi]
                           ELSE Nothing
       ELSE /\ mover' = [mover EXCEPT ![c] = DoneMover]
            /\ UNCHANGED <<position, landed>>

\* The batch: the rows named get Renorm, 2 Renorm, ... in the order given, under
\* row locks; rows not named keep what they have.
Reorder(c) ==
  /\ mover[c] = IdleMover
  /\ \E S \in SUBSET Listed \ {{}} : \E place \in Bijection(S, 1..Cardinality(S)) :
       /\ Cardinality(S) <= MaxBatch
       /\ position' = [i \in Items |-> IF i \in S THEN Renorm * place[i] ELSE position[i]]
  /\ mover' = Disturb(c, mover)
  /\ landed' = Nothing

\* A row is deleted, a favourite taken off.
DeleteRow(c, i) ==
  /\ mover[c] = IdleMover
  /\ i \in Listed
  /\ position' = [position EXCEPT ![i] = Deleted]
  /\ mover' = Disturb(c, mover)
  /\ landed' = Nothing

OrderingNext ==
  \E c \in Movers :
    \/ \E i \in Items : CreateRead(c, i) \/ Drop(c, i) \/ DeleteRow(c, i)
    \/ CreateWrite(c) \/ MoveRead(c) \/ MoveWrite(c) \/ Reorder(c)

OrderingSpec == OrderingInit /\ [][OrderingNext]_orderingVars

-----------------------------------------------------------------------------
(* Properties.                                                               *)
OrderingTypeOK ==
  /\ \A i \in Listed : Fits(position[i])
  /\ \A c \in Movers : mover[c].at \in {"idle", "creating", "sent", "moving", "done"}

Between(d) == /\ d.lo # Nothing => position[d.lo] < position[d.item]
              /\ d.hi # Nothing => position[d.item] < position[d.hi]

\* "`beforeId` / `afterId` anchor the target position" (channels.service.ts:1059):
\* a row dropped between two others, with nobody else writing, is stored between
\* them. The one anchor sent makes it `next - STRIDE`, which is not.
DropLands == landed # Nothing => Between(landed)

\* A drop at the top or the bottom of the list does land there.
EndDropsLand ==
  landed # Nothing => (landed.lo # Nothing /\ landed.hi # Nothing) \/ Between(landed)
=============================================================================
