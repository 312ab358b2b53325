-------------------------------- MODULE Pins --------------------------------
(***************************************************************************)
(* The pinned messages of one channel: MessagesService.pin and unpin, and  *)
(* what softDelete and bulkDelete do to pins.                              *)
(*                                                                         *)
(* Every call is one transaction at READ COMMITTED; a step is one of its   *)
(* reads, or its update together with the commit.  The event is recorded   *)
(* in the transaction; the SYSTEM_PIN message, which nobody can pin, and   *)
(* the system messages that pin turns down are left out.                   *)
(***************************************************************************)
EXTENDS Naturals, FiniteSets

CONSTANTS
  PinMsgs,  \* messages of the channel
  Pinners,  \* calls
  HardCap,  \* HARD_PIN_CAP
  NoPinner, \* nobody
  NoMsg     \* no message

ASSUME PinsAssumption ==
  /\ HardCap \in Nat
  /\ NoPinner \notin Pinners
  /\ NoMsg \notin PinMsgs

VARIABLES
  pinned,    \* messages with a pinnedAt
  gone,      \* messages with a deletedAt
  pinLock,   \* the holder of the channel's advisory lock
  pinCall,   \* pinCall[p]: [at, msg]
  announced  \* history: messages whose last pin event, in commit order, said pinned

pinVars == <<pinned, gone, pinLock, pinCall, announced>>

LivePins == pinned \ gone

PinsTypeOK ==
  /\ pinned \subseteq PinMsgs /\ gone \subseteq PinMsgs /\ announced \subseteq PinMsgs
  /\ pinLock \in Pinners \cup {NoPinner}
  /\ pinCall \in [Pinners -> [at : {"new", "read", "count", "pin", "unpin", "done"},
                              msg : PinMsgs \cup {NoMsg}]]

PinsInit ==
  /\ pinned = {} /\ gone = {} /\ announced = {}
  /\ pinLock = NoPinner
  /\ pinCall = [p \in Pinners |-> [at |-> "new", msg |-> NoMsg]]

PinGoto(p, where) == pinCall' = [pinCall EXCEPT ![p].at = where]

\* The transaction ends, and the advisory lock with it.
PinEnds(p) == PinGoto(p, "done") /\ pinLock' = NoPinner

-----------------------------------------------------------------------------

\* Mutant: no lock is taken.
PinUnlocked(p) ==
  /\ pinCall[p].at = "new"
  /\ \E m \in PinMsgs : pinCall' = [pinCall EXCEPT ![p] = [at |-> "read", msg |-> m]]
  /\ UNCHANGED <<pinned, gone, pinLock, announced>>

\* pg_advisory_xact_lock on the channel.
Pin(p) ==
  /\ pinCall[p].at = "new"
  /\ pinLock = NoPinner
  /\ pinLock' = p
  /\ \E m \in PinMsgs : pinCall' = [pinCall EXCEPT ![p] = [at |-> "read", msg |-> m]]
  /\ UNCHANGED <<pinned, gone, announced>>

\* A deleted message is an error, a pinned one is returned as it is.
PinRead(p) ==
  LET m == pinCall[p].msg IN
  /\ pinCall[p].at = "read"
  /\ IF m \in gone \/ m \in pinned THEN PinEnds(p)
     ELSE PinGoto(p, "count") /\ UNCHANGED pinLock
  /\ UNCHANGED <<pinned, gone, announced>>

\* Mutant: the event is recorded outside the transaction, before the cap.
CountAnnounced(p) ==
  /\ pinCall[p].at = "count"
  /\ IF Cardinality(LivePins) >= HardCap THEN PinEnds(p)
     ELSE PinGoto(p, "pin") /\ UNCHANGED pinLock
  /\ announced' = announced \cup {pinCall[p].msg}
  /\ UNCHANGED <<pinned, gone>>

PinCount(p) ==
  /\ pinCall[p].at = "count"
  /\ IF Cardinality(LivePins) >= HardCap THEN PinEnds(p)
     ELSE PinGoto(p, "pin") /\ UNCHANGED pinLock
  /\ UNCHANGED <<pinned, gone, announced>>

\* The update does not look at deletedAt again.
PinUpdate(p) ==
  LET m == pinCall[p].msg IN
  /\ pinCall[p].at = "pin"
  /\ PinEnds(p)
  /\ pinned' = pinned \cup {m}
  /\ announced' = announced \cup {m}
  /\ UNCHANGED gone

\* unpin takes no lock and does not mind a deleted message.
Unpin(p) ==
  /\ pinCall[p].at = "new"
  /\ \E m \in PinMsgs :
       pinCall' = [pinCall EXCEPT ![p] = [at |-> IF m \in pinned THEN "unpin" ELSE "done",
                                          msg |-> m]]
  /\ UNCHANGED <<pinned, gone, pinLock, announced>>

UnpinUpdate(p) ==
  LET m == pinCall[p].msg IN
  /\ pinCall[p].at = "unpin"
  /\ PinGoto(p, "done")
  /\ pinned' = pinned \ {m}
  /\ announced' = announced \ {m}
  /\ UNCHANGED <<gone, pinLock>>

\* softDelete announces the unpinning when the message was pinned just before;
\* bulkDelete clears the pins of its messages without an event of theirs.
DeleteMessages(ms) ==
  /\ ms # {} /\ ms \cap gone = {}
  /\ gone' = gone \cup ms
  /\ pinned' = pinned \ ms
  /\ \/ Cardinality(ms) = 1 /\ announced' = announced \ ms
     \/ UNCHANGED announced
  /\ UNCHANGED <<pinLock, pinCall>>

PinsNext ==
  \/ \E p \in Pinners :
       \/ Pin(p) \/ PinRead(p) \/ PinCount(p) \/ PinUpdate(p)
       \/ Unpin(p) \/ UnpinUpdate(p)
  \/ \E ms \in SUBSET PinMsgs : DeleteMessages(ms)

PinsSpec == PinsInit /\ [][PinsNext]_pinVars

-----------------------------------------------------------------------------

\* Never more than HARD_PIN_CAP live pins: calls that count at the same time,
\* unpin and deletions in between (pin, FR-PS-04).
PinCap == INSTANCE CappedSet WITH Cap <- HardCap, held <- LivePins
PinsImplementCap == PinCap!CapSpec

\* What the last pin event of a live message said is how it is stored, so that
\* clients which apply the events in order agree with the table (pin, unpin).
PinsAnnounced ==
  \A m \in PinMsgs \ gone : m \in announced <=> m \in pinned
=============================================================================
