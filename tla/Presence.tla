------------------------------ MODULE Presence ------------------------------
(***************************************************************************)
(* Presence of one user in one workspace: the sessions on several nodes,   *)
(* the Redis state they share, the grace timer each node keeps in memory,  *)
(* finalizeOffline, the lazy clean-up of onlineIn, and the changes of the  *)
(* user's preference.                                                      *)
(*                                                                         *)
(* PresenceService, PresenceGraceTimers and the presence part of           *)
(* RealtimeGateway.  One MULTI is one step, and so is every other call;    *)
(* between two steps of a handler every other handler may run.             *)
(***************************************************************************)
EXTENDS Naturals, FiniteSets

CONSTANTS
  Sessions,    \* session ids, one per connection attempt
  Nodes,       \* API processes
  Patches,     \* changes of the preference
  MaxNodeCrashes,  \* bound on processes that die
  Unset            \* no node, no timer

ASSUME PresenceAssumption ==
  /\ IsFiniteSet(Sessions) /\ IsFiniteSet(Nodes) /\ IsFiniteSet(Patches)
  /\ MaxNodeCrashes \in Nat
  /\ Unset \notin Nodes \cup Nat

VARIABLES
  pref,      \* User.presencePreference
  sessions,  \* presence:user:{uid}:sessions
  key,       \* presence:user:{uid}:preference
  epoch,     \* presence:user:{uid}:graceEpoch, 0 when absent
  listed,    \* the user is in presence:workspace:{wsId}:users
  joining,        \* progress of handleConnection: [at, node, got]
  leaving,        \* progress of handleDisconnect, "no" while the transport is open
  pending,     \* PresenceGraceTimers.pending: the armed epoch, per node
  fin,       \* progress of finalizeOffline, per node: [at, epoch]
  gc,        \* progress of onlineIn
  patch,     \* progress of a PATCH /me/presence: [at, want, online]
  crashes,   \* processes that died so far
  expired,   \* history: the keys of the user have expired before
  stale,     \* history: a preference was written that was not the last one
  undone,    \* history: a listing was removed that a session had just made
  ghost      \* history: a PATCH listed the user after the last session left

redis == <<sessions, key, epoch, listed>>
sessionVars == <<joining, leaving>>
timers == <<pending, fin, gc>>
presenceHistory == <<expired, stale, undone, ghost>>
presenceVars == <<pref, redis, sessionVars, timers, patch, crashes, presenceHistory>>

\* "dnd" differs from "auto" in a set of its own, which is not modelled.
Preferences == {"auto", "invisible"}

PresenceTypeOK ==
  /\ {pref, key} \subseteq Preferences
  /\ sessions \subseteq Sessions
  /\ epoch \in 0..Cardinality(Sessions)
  /\ {listed, expired, stale, undone, ghost} \subseteq BOOLEAN
  /\ joining \in [Sessions -> [at : {"none", "rooms", "pref", "register", "done"},
                          node : Nodes \cup {Unset}, got : Preferences]]
  /\ leaving \in [Sessions -> {"no", "unregister", "scard", "epoch", "done"}]
  /\ pending \in [Nodes -> Nat \cup {Unset}]
  /\ fin \in [Nodes -> [at : {"idle", "scard", "epoch", "drop"}, epoch : Nat]]
  /\ gc \in {"idle", "scard", "drop"}
  /\ patch \in [Patches -> [at : {"none", "key", "scard", "apply", "done"},
                            want : Preferences, online : BOOLEAN]]
  /\ crashes \in 0..MaxNodeCrashes

PresenceInit ==
  /\ pref = "auto" /\ key = "auto"
  /\ sessions = {} /\ epoch = 0 /\ listed = FALSE
  /\ joining = [s \in Sessions |-> [at |-> "none", node |-> Unset, got |-> "auto"]]
  /\ leaving = [s \in Sessions |-> "no"]
  /\ pending = [n \in Nodes |-> Unset]
  /\ fin = [n \in Nodes |-> [at |-> "idle", epoch |-> 0]]
  /\ gc = "idle"
  /\ patch = [p \in Patches |->
                [at |-> "none", want |-> "auto", online |-> FALSE]]
  /\ crashes = 0
  /\ expired = FALSE /\ stale = FALSE /\ undone = FALSE /\ ghost = FALSE

Live(s) == joining[s].at # "none" /\ leaving[s] = "no"
Shown(preference) == preference # "invisible"

-----------------------------------------------------------------------------
(* handleConnection.  It is not aborted when the transport breaks. *)

ConnectSession(s, n) ==
  /\ joining[s].at = "none"
  /\ joining' = [joining EXCEPT ![s].at = "rooms", ![s].node = n]
  /\ UNCHANGED <<pref, redis, leaving, timers, patch, crashes, presenceHistory>>

\* roomsForUser answers: client.data.state is set.
JoinRooms(s) ==
  /\ joining[s].at = "rooms"
  /\ joining' = [joining EXCEPT ![s].at = "pref"]
  /\ UNCHANGED <<pref, redis, leaving, timers, patch, crashes, presenceHistory>>

\* The preference is read, and the grace timer of this node cancelled.
ReadPreference(s) ==
  /\ joining[s].at = "pref"
  /\ joining' = [joining EXCEPT ![s].at = "register", ![s].got = pref]
  /\ pending' = [pending EXCEPT ![joining[s].node] = Unset]
  /\ UNCHANGED <<pref, redis, leaving, fin, gc, patch, crashes, presenceHistory>>

register(s) ==
  /\ joining[s].at = "register"
  /\ joining' = [joining EXCEPT ![s].at = "done"]
  /\ sessions' = sessions \cup {s}
  /\ key' = joining[s].got
  /\ epoch' = epoch + 1
  /\ listed' = Shown(key')
  /\ stale' = (stale \/ key' # pref)
  /\ undone' = FALSE
  /\ UNCHANGED <<pref, leaving, timers, patch, crashes, expired, ghost>>

-----------------------------------------------------------------------------
(* handleDisconnect. *)

\* The transport breaks; without a state the handler returns at once.
CloseSession(s) ==
  /\ Live(s)
  /\ leaving' = [leaving EXCEPT ![s] = IF joining[s].at = "rooms" THEN "done"
                             ELSE "unregister"]
  /\ UNCHANGED <<pref, redis, joining, timers, patch, crashes, presenceHistory>>

unregister(s) ==
  /\ leaving[s] = "unregister"
  /\ leaving' = [leaving EXCEPT ![s] = "scard"]
  /\ sessions' = sessions \ {s}
  /\ UNCHANGED <<pref, key, epoch, listed, joining, timers, patch, crashes, presenceHistory>>

CountRemaining(s) ==
  /\ leaving[s] = "scard"
  /\ leaving' = [leaving EXCEPT ![s] = IF sessions = {} THEN "epoch" ELSE "done"]
  /\ UNCHANGED <<pref, redis, joining, timers, patch, crashes, presenceHistory>>

\* Mutant: a timer that is armed already stays.
ArmFirst(s) ==
  /\ leaving[s] = "epoch"
  /\ leaving' = [leaving EXCEPT ![s] = "done"]
  /\ pending' = [pending EXCEPT ![joining[s].node] = IF @ = Unset THEN epoch ELSE @]
  /\ UNCHANGED <<pref, redis, joining, fin, gc, patch, crashes, presenceHistory>>

\* currentGraceEpoch answers, and arm replaces the timer of this node.
Arm(s) ==
  /\ leaving[s] = "epoch"
  /\ leaving' = [leaving EXCEPT ![s] = "done"]
  /\ pending' = [pending EXCEPT ![joining[s].node] = epoch]
  /\ UNCHANGED <<pref, redis, joining, fin, gc, patch, crashes, presenceHistory>>

-----------------------------------------------------------------------------
(* finalizeOffline, when a grace timer elapses. *)

\* Mutant: the epoch is looked up when the timer is gone.
ElapseCleared(n) ==
  /\ pending[n] # Unset /\ fin[n].at = "idle"
  /\ pending' = [pending EXCEPT ![n] = Unset]
  /\ fin' = [fin EXCEPT ![n] = [at |-> "scard", epoch |-> pending'[n]]]
  /\ UNCHANGED <<pref, redis, sessionVars, gc, patch, crashes, presenceHistory>>

Elapse(n) ==
  /\ pending[n] # Unset /\ fin[n].at = "idle"
  /\ fin' = [fin EXCEPT ![n] = [at |-> "scard", epoch |-> pending[n]]]
  /\ pending' = [pending EXCEPT ![n] = Unset]
  /\ UNCHANGED <<pref, redis, sessionVars, gc, patch, crashes, presenceHistory>>

Finalizing(n, from, to) ==
  /\ fin[n].at = from
  /\ fin' = [fin EXCEPT ![n].at = to]
  /\ UNCHANGED <<pref, sessionVars, pending, gc, patch, crashes, expired, stale,
                 ghost>>

\* Mutant: the sessions are not counted again.
FinalizeScardNot(n) ==
  /\ Finalizing(n, "scard", "epoch")
  /\ UNCHANGED <<redis, undone>>

FinalizeScard(n) ==
  /\ Finalizing(n, "scard", IF sessions = {} THEN "epoch" ELSE "idle")
  /\ UNCHANGED <<redis, undone>>

FinalizeEpoch(n) ==
  /\ Finalizing(n, "epoch", IF epoch = fin[n].epoch THEN "drop" ELSE "idle")
  /\ UNCHANGED <<redis, undone>>

\* Mutant: the preference key is deleted with the rest.
FinalizeDropKey(n) ==
  /\ Finalizing(n, "drop", "idle")
  /\ listed' = FALSE
  /\ key' = "auto"
  /\ undone' = (undone \/ epoch # fin[n].epoch)
  /\ UNCHANGED <<sessions, epoch>>

FinalizeDrop(n) ==
  /\ Finalizing(n, "drop", "idle")
  /\ listed' = FALSE
  /\ undone' = (undone \/ epoch # fin[n].epoch)
  /\ UNCHANGED <<sessions, key, epoch>>

-----------------------------------------------------------------------------
(* onlineIn: read the listed users, count their sessions, remove those that
   have none. *)

Sweeping(from, to) ==
  /\ gc = from
  /\ gc' = to
  /\ UNCHANGED <<pref, sessions, key, epoch, sessionVars, pending, fin, patch,
                 crashes, expired, stale, ghost>>

SweepRead ==
  /\ listed /\ Sweeping("idle", "scard")
  /\ UNCHANGED <<listed, undone>>

SweepCount ==
  /\ Sweeping("scard", IF sessions = {} THEN "drop" ELSE "idle")
  /\ UNCHANGED <<listed, undone>>

SweepDrop ==
  /\ Sweeping("drop", "idle")
  /\ listed' = FALSE
  /\ undone' = (undone \/ sessions # {})

-----------------------------------------------------------------------------
(* PATCH /me/presence: the database, the key, then the listing. *)

Patching(p, from, to) ==
  /\ patch[p].at = from
  /\ UNCHANGED <<sessions, epoch, sessionVars, timers, crashes, expired, undone>>

PatchUser(p, preference) ==
  /\ Patching(p, "none", "key")
  /\ patch' = [patch EXCEPT ![p] =
                 [at |-> "key", want |-> preference, online |-> FALSE]]
  /\ pref' = preference
  /\ UNCHANGED <<key, listed, stale, ghost>>

PatchKey(p) ==
  /\ Patching(p, "key", "scard")
  /\ patch' = [patch EXCEPT ![p].at = "scard"]
  /\ key' = patch[p].want
  /\ stale' = (stale \/ key' # pref)
  /\ UNCHANGED <<pref, listed, ghost>>

PatchScard(p) ==
  /\ Patching(p, "scard", "apply")
  /\ patch' = [patch EXCEPT ![p] =
                 [at |-> "apply", want |-> patch[p].want, online |-> sessions # {}]]
  /\ UNCHANGED <<pref, key, listed, stale, ghost>>

PatchApply(p) ==
  /\ Patching(p, "apply", "done")
  /\ patch' = [patch EXCEPT ![p].at = "done"]
  /\ listed' = (Shown(patch[p].want) /\ (patch[p].online \/ listed))
  /\ stale' = (stale \/ patch[p].want # pref)
  /\ ghost' = (ghost \/ (listed' /\ sessions = {}))
  /\ UNCHANGED <<pref, key>>

-----------------------------------------------------------------------------
(* Expiry and crashes. *)

\* Four minutes after the last register, whatever the heartbeats: they extend
\* only the hash of the session.
KeysExpire ==
  /\ sessions # {}
  /\ sessions' = {} /\ epoch' = 0 /\ key' \in {key, "auto"}
  /\ expired' = TRUE
  /\ UNCHANGED <<pref, listed, sessionVars, timers, patch, crashes, stale, undone,
                 ghost>>

\* A process dies with its sockets, handlers and timers.
NodeCrash(n) ==
  /\ \E s \in Sessions : joining[s].node = n
  /\ crashes < MaxNodeCrashes
  /\ crashes' = crashes + 1
  /\ joining' = [s \in Sessions |->
              IF joining[s].node = n THEN [joining[s] EXCEPT !.at = "done"] ELSE joining[s]]
  /\ leaving' = [s \in Sessions |-> IF joining[s].node = n THEN "done" ELSE leaving[s]]
  /\ pending' = [pending EXCEPT ![n] = Unset]
  /\ fin' = [fin EXCEPT ![n].at = "idle"]
  /\ UNCHANGED <<pref, redis, gc, patch, presenceHistory>>

HandshakeSession(s) == JoinRooms(s) \/ ReadPreference(s) \/ register(s)
DisconnectSession(s) == unregister(s) \/ CountRemaining(s) \/ Arm(s)
Finalize(n) ==
  Elapse(n) \/ FinalizeScard(n) \/ FinalizeEpoch(n) \/ FinalizeDrop(n)
Sweep == SweepRead \/ SweepCount \/ SweepDrop
Patch(p) == PatchKey(p) \/ PatchScard(p) \/ PatchApply(p)

PresenceNext ==
  \/ \E s \in Sessions :
       (\E n \in Nodes : ConnectSession(s, n)) \/ HandshakeSession(s) \/ CloseSession(s) \/ DisconnectSession(s)
  \/ \E n \in Nodes : Finalize(n) \/ NodeCrash(n)
  \/ Sweep \/ KeysExpire
  \/ \E p \in Patches :
       (\E preference \in Preferences : PatchUser(p, preference)) \/ Patch(p)

PresenceSpec == PresenceInit /\ [][PresenceNext]_presenceVars
-----------------------------------------------------------------------------
\* No handler is under way.
Rest ==
  /\ \A s \in Sessions : joining[s].at \in {"none", "done"} /\ leaving[s] \in {"no", "done"}
  /\ \A n \in Nodes : fin[n].at = "idle"
  /\ gc = "idle"
  /\ \A p \in Patches : patch[p].at \in {"none", "done"}

Connected == \E s \in Sessions : Live(s) /\ joining[s].at = "done"

\* An invisible user is neither listed nor exposed by the key, whatever
\* reconnects, grace timers, sweeps and crashes there were ("only self sees
\* them", setPreferenceForUser; the key survives finalizeOffline), unless a
\* handshake or a PATCH wrote a preference that another had just replaced.
HiddenWhileInvisible ==
  Rest /\ pref = "invisible" /\ ~stale =>
    ~listed /\ (key = "invisible" \/ expired)

\* A connected user is listed: no order of the disconnects, the reconnects on
\* other nodes and the timers of former disconnects unlists it (register,
\* finalizeOffline), unless a removal came between its guard and a register,
\* or the keys expired.
ListedWhileConnected ==
  Rest /\ Connected /\ Shown(pref) /\ ~stale /\ ~undone /\ ~expired => listed

\* An unlisting stays pending: while a user without a session is listed, some
\* node has a timer armed that finalizeOffline will not turn down for its
\* epoch, whatever the order of the last disconnects (handleDisconnect, arm,
\* cancel).  A crash, an expiry and a PATCH that overtakes the last disconnect
\* leave it to the sweep.
UnlistingPending ==
  Rest /\ listed /\ sessions = {} /\ crashes = 0 /\ ~expired /\ ~ghost =>
    \E n \in Nodes : pending[n] = epoch

\* What the list of those online in a workspace promises (presence.service.ts,
\* setPreference, finalizeOffline, onlineIn).
PresenceSound == HiddenWhileInvisible /\ ListedWhileConnected /\ UnlistingPending

\* "A user is online in a workspace iff at least one of their sessions has
\* said so" (presence.service.ts:22-23), for a user who neither changed the
\* preference nor reconnected.
ConnectedIsListed == Rest /\ Connected /\ Shown(pref) => listed
=============================================================================
