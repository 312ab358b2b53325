-------------------------- MODULE PresenceProofs ---------------------------
(* Proofs about who is shown as there and as typing, for any number of      *)
(* nodes, users, sockets and failures.                                      *)
EXTENDS MCRealtime, ChannelProofs, FiniteSetTheorems, FunctionTheorems, TLAPS

-----------------------------------------------------------------------------
(* Presence. *)

JoinRows == [at : {"none", "rooms", "pref", "register", "done"}, node : Nodes \cup {Unset},
             got : Preferences]
LeaveSteps == {"no", "unregister", "scard", "epoch", "done"}
FinRows == [at : {"idle", "scard", "epoch", "drop"}, epoch : Nat]
PatchRows == [at : {"none", "key", "scard", "apply", "done"}, want : Preferences,
              online : BOOLEAN]

PresenceTypes ==
  /\ pref \in Preferences /\ key \in Preferences /\ epoch \in Nat /\ crashes \in Nat
  /\ joining \in [Sessions -> JoinRows] /\ leaving \in [Sessions -> LeaveSteps]
  /\ pending \in [Nodes -> Nat \cup {Unset}] /\ fin \in [Nodes -> FinRows]
  /\ patch \in [Patches -> PatchRows]

\* A session that has begun is on a node; one that is connected is in the set of
\* sessions until that expires.
SessionsAreKnown ==
  \A s \in Sessions :
    /\ joining[s].at # "none" => joining[s].node \in Nodes
    /\ leaving[s] # "no" => joining[s].at # "none"
    /\ ~expired /\ joining[s].at = "done" /\ leaving[s] = "no" => s \in sessions

\* No timer is armed for an epoch to come; a finalizeOffline that has counted no
\* session has counted right as long as the epoch is the one it was armed for.
EpochsAreBehind ==
  ~expired => \A n \in Nodes :
    /\ pending[n] # Unset => pending[n] <= epoch
    /\ fin[n].epoch <= epoch
    /\ fin[n].at \in {"epoch", "drop"} /\ fin[n].epoch = epoch => sessions = {}

\* The key is the preference or a PATCH is about to write it; the user is not
\* listed while invisible, or a PATCH is about to unlist it.
KeyFollows == ~stale => key = pref \/ expired \/ \E p \in Patches : patch[p].at = "key"
HiddenSoon ==
  ~stale /\ pref = "invisible" =>
    ~listed \/ \E p \in Patches : patch[p].at \in {"key", "scard", "apply"}

Listing(p) == patch[p].at \in {"key", "scard"} \/ (patch[p].at = "apply" /\ patch[p].online)

\* A user with a session is listed, or a PATCH is about to list it.
ListedSoon ==
  ~stale /\ ~undone /\ ~expired /\ Shown(pref) /\ sessions # {} =>
    listed \/ \E p \in Patches : Listing(p)

\* A listed user without a session is on the way out: the last to leave has not
\* armed its timer yet, a timer is armed or finalizeOffline runs for this epoch,
\* or another session is about to register.
LeavingSoon ==
  listed /\ sessions = {} /\ crashes = 0 /\ ~expired /\ ~ghost =>
    \/ \E s \in Sessions : leaving[s] \in {"scard", "epoch"} \/ joining[s].at = "register"
    \/ \E n \in Nodes : pending[n] = epoch \/ (fin[n].at # "idle" /\ fin[n].epoch = epoch)

PresenceIInv ==
  /\ PresenceTypes /\ SessionsAreKnown /\ EpochsAreBehind /\ KeyFollows /\ HiddenSoon
  /\ ListedSoon /\ LeavingSoon

\* Nobody is connected at first.
LEMMA PresenceInitHolds == PresenceInit => PresenceIInv
<1> SUFFICES ASSUME PresenceInit PROVE PresenceIInv
  OBVIOUS
<1> USE DEF PresenceInit
<1>1. PresenceTypes
  BY DEF PresenceTypes, JoinRows, LeaveSteps, FinRows, PatchRows, Preferences
<1>2. SessionsAreKnown /\ EpochsAreBehind
  BY DEF SessionsAreKnown, EpochsAreBehind
<1>3. KeyFollows
  BY DEF KeyFollows
<1>4. ~listed /\ pref = "auto" /\ sessions = {}
  OBVIOUS
<1>5. HiddenSoon /\ ListedSoon /\ LeavingSoon
  BY <1>4 DEF HiddenSoon, ListedSoon, LeavingSoon
<1> QED BY <1>1, <1>2, <1>3, <1>5 DEF PresenceIInv

-----------------------------------------------------------------------------
\* A step of a handshake, of a disconnect, of finalizeOffline, of a sweep or of a
\* PATCH keeps the types.
LEMMA PresenceTypesHold == PresenceTypes /\ SessionsAreKnown /\ PresenceNext => PresenceTypes'
<1> SUFFICES ASSUME PresenceTypes, SessionsAreKnown, PresenceNext PROVE PresenceTypes'
  OBVIOUS
<1>0. /\ pref \in Preferences /\ key \in Preferences /\ epoch \in Nat /\ crashes \in Nat
      /\ joining \in [Sessions -> JoinRows] /\ leaving \in [Sessions -> LeaveSteps]
      /\ pending \in [Nodes -> Nat \cup {Unset}] /\ fin \in [Nodes -> FinRows]
      /\ patch \in [Patches -> PatchRows]
  BY DEF PresenceTypes
<1>1. ASSUME NEW s \in Sessions, NEW n \in Nodes, ConnectSession(s, n) PROVE PresenceTypes'
  <2>1. joining' \in [Sessions -> JoinRows]
    BY <1>0, <1>1 DEF ConnectSession, JoinRows
  <2> QED BY <1>0, <1>1, <2>1 DEF ConnectSession, PresenceTypes, redis, timers
<1>2. ASSUME NEW s \in Sessions, JoinRooms(s) PROVE PresenceTypes'
  <2>1. joining' \in [Sessions -> JoinRows]
    BY <1>0, <1>2 DEF JoinRooms, JoinRows
  <2> QED BY <1>0, <1>2, <2>1 DEF JoinRooms, PresenceTypes, redis, timers
<1>3. ASSUME NEW s \in Sessions, ReadPreference(s) PROVE PresenceTypes'
  <2>1. joining' \in [Sessions -> JoinRows]
    BY <1>0, <1>3 DEF ReadPreference, JoinRows
  <2>2. pending' \in [Nodes -> Nat \cup {Unset}]
    BY <1>0, <1>3 DEF ReadPreference
  <2> QED BY <1>0, <1>3, <2>1, <2>2 DEF ReadPreference, PresenceTypes, redis
<1>4. ASSUME NEW s \in Sessions, register(s) PROVE PresenceTypes'
  <2>1. joining' \in [Sessions -> JoinRows] /\ key' \in Preferences
    BY <1>0, <1>4 DEF register, JoinRows
  <2> QED BY <1>0, <1>4, <2>1 DEF register, PresenceTypes, timers
<1>5. ASSUME NEW s \in Sessions, CloseSession(s) \/ unregister(s) \/ CountRemaining(s)
      PROVE  PresenceTypes'
  <2>1. leaving' \in [Sessions -> LeaveSteps]
    BY <1>0, <1>5 DEF CloseSession, unregister, CountRemaining, LeaveSteps
  <2> QED BY <1>0, <1>5, <2>1
          DEF CloseSession, unregister, CountRemaining, PresenceTypes, redis, timers
<1>6. ASSUME NEW s \in Sessions, Arm(s) PROVE PresenceTypes'
  <2>1. leaving' \in [Sessions -> LeaveSteps] /\ pending' \in [Nodes -> Nat \cup {Unset}]
    BY <1>0, <1>6 DEF Arm, LeaveSteps
  <2> QED BY <1>0, <1>6, <2>1 DEF Arm, PresenceTypes, redis
<1>7. ASSUME NEW n \in Nodes, Elapse(n) PROVE PresenceTypes'
  <2>1. pending' \in [Nodes -> Nat \cup {Unset}] /\ fin' \in [Nodes -> FinRows]
    BY <1>0, <1>7 DEF Elapse, FinRows
  <2> QED BY <1>0, <1>7, <2>1 DEF Elapse, PresenceTypes, redis, sessionVars
<1>8. ASSUME NEW n \in Nodes, FinalizeScard(n) \/ FinalizeEpoch(n) \/ FinalizeDrop(n)
      PROVE  PresenceTypes'
  <2>1. fin' \in [Nodes -> FinRows]
    BY <1>0, <1>8 DEF FinalizeScard, FinalizeEpoch, FinalizeDrop, Finalizing, FinRows
  <2> QED BY <1>0, <1>8, <2>1 DEF FinalizeScard, FinalizeEpoch, FinalizeDrop, Finalizing,
                                  PresenceTypes, redis, sessionVars
<1>9. ASSUME Sweep PROVE PresenceTypes'
  BY <1>0, <1>9 DEF Sweep, SweepRead, SweepCount, SweepDrop, Sweeping, PresenceTypes, sessionVars
<1>10. ASSUME NEW p \in Patches, NEW preference \in Preferences, PatchUser(p, preference)
       PROVE  PresenceTypes'
  <2>1. patch' \in [Patches -> PatchRows]
    BY <1>0, <1>10 DEF PatchUser, PatchRows
  <2> QED BY <1>0, <1>10, <2>1 DEF PatchUser, Patching, PresenceTypes, sessionVars, timers
<1>11. ASSUME NEW p \in Patches, Patch(p) PROVE PresenceTypes'
  <2>1. patch[p] \in PatchRows
    BY <1>0
  <2>2. CASE PatchKey(p)
    <3>1. patch' \in [Patches -> PatchRows] /\ key' \in Preferences
      BY <1>0, <2>1, <2>2 DEF PatchKey, PatchRows
    <3> QED BY <1>0, <2>2, <3>1 DEF PatchKey, Patching, PresenceTypes, sessionVars, timers
  <2>3. CASE PatchScard(p)
    <3> DEFINE row == [at |-> "apply", want |-> patch[p].want, online |-> sessions # {}]
    <3>1. row \in PatchRows
      <4>1. (sessions # {}) \in BOOLEAN
        OBVIOUS
      <4> QED BY <2>1, <4>1 DEF PatchRows
    <3>2. patch' = [patch EXCEPT ![p] = row]
      BY <2>3 DEF PatchScard
    <3> HIDE DEF row
    <3>3. patch' \in [Patches -> PatchRows]
      BY <1>0, <3>1, <3>2
    <3> QED BY <1>0, <2>3, <3>3 DEF PatchScard, Patching, PresenceTypes, sessionVars, timers
  <2>4. CASE PatchApply(p)
    <3>1. patch' \in [Patches -> PatchRows]
      BY <1>0, <2>1, <2>4 DEF PatchApply, PatchRows
    <3> QED BY <1>0, <2>4, <3>1 DEF PatchApply, Patching, PresenceTypes, sessionVars, timers
  <2> QED BY <1>11, <2>2, <2>3, <2>4 DEF Patch
<1>12. ASSUME KeysExpire PROVE PresenceTypes'
  BY <1>0, <1>12 DEF KeysExpire, PresenceTypes, sessionVars, timers, Preferences
<1>13. ASSUME NEW n \in Nodes, NodeCrash(n) PROVE PresenceTypes'
  <2>1. joining' \in [Sessions -> JoinRows]
    <3>1. \A s \in Sessions : [joining[s] EXCEPT !.at = "done"] \in JoinRows
      BY <1>0 DEF JoinRows
    <3> QED BY <1>0, <1>13, <3>1 DEF NodeCrash
  <2>2. leaving' \in [Sessions -> LeaveSteps]
    BY <1>0, <1>13 DEF NodeCrash, LeaveSteps
  <2>3. pending' \in [Nodes -> Nat \cup {Unset}] /\ fin' \in [Nodes -> FinRows]
    BY <1>0, <1>13 DEF NodeCrash, FinRows
  <2> QED BY <1>0, <1>13, <2>1, <2>2, <2>3 DEF NodeCrash, PresenceTypes, redis
<1> QED BY <1>1, <1>2, <1>3, <1>4, <1>5, <1>6, <1>7, <1>8, <1>9, <1>10, <1>11, <1>12, <1>13
        DEF PresenceNext, HandshakeSession, DisconnectSession, Finalize

-----------------------------------------------------------------------------
\* What a step may do to what is stored.
LEMMA PresenceEffects ==
  ASSUME PresenceTypes, PresenceNext
  PROVE  \/ UNCHANGED <<pref, sessions, key, epoch, listed, patch, expired, stale, undone, ghost>>
         \/ \E s \in Sessions : register(s) \/ unregister(s)
         \/ (\E n \in Nodes : FinalizeDrop(n)) \/ SweepDrop
         \/ \E p \in Patches : Patch(p) \/ \E w \in Preferences : PatchUser(p, w)
         \/ KeysExpire
<1> USE DEF redis, presenceHistory
<1>1. ASSUME NEW s \in Sessions, NEW n \in Nodes, ConnectSession(s, n)
      PROVE  UNCHANGED <<pref, sessions, key, epoch, listed, patch, expired, stale, undone, ghost>>
  BY <1>1 DEF ConnectSession
<1>2. ASSUME NEW s \in Sessions,
             \/ JoinRooms(s) \/ ReadPreference(s) \/ CloseSession(s) \/ CountRemaining(s) \/ Arm(s)
      PROVE  UNCHANGED <<pref, sessions, key, epoch, listed, patch, expired, stale, undone, ghost>>
  BY <1>2 DEF JoinRooms, ReadPreference, CloseSession, CountRemaining, Arm
<1>3. ASSUME NEW n \in Nodes, Elapse(n) \/ FinalizeScard(n) \/ FinalizeEpoch(n) \/ NodeCrash(n)
      PROVE  UNCHANGED <<pref, sessions, key, epoch, listed, patch, expired, stale, undone, ghost>>
  BY <1>3 DEF Elapse, FinalizeScard, FinalizeEpoch, Finalizing, NodeCrash
<1>4. ASSUME SweepRead \/ SweepCount
      PROVE  UNCHANGED <<pref, sessions, key, epoch, listed, patch, expired, stale, undone, ghost>>
  BY <1>4 DEF SweepRead, SweepCount, Sweeping
<1> QED BY <1>1, <1>2, <1>3, <1>4
        DEF PresenceNext, HandshakeSession, DisconnectSession, Finalize, Sweep

\* What a PATCH step does.
LEMMA PatchEffects ==
  ASSUME PresenceTypes, NEW p \in Patches,
         Patch(p) \/ \E w \in Preferences : PatchUser(p, w)
  PROVE  /\ UNCHANGED <<sessions, epoch, expired, undone, crashes>>
         /\ \A q \in Patches : q # p => patch'[q] = patch[q]
         /\ \/ patch'[p].at = "key" /\ UNCHANGED <<key, listed, stale>>
            \/ /\ patch[p].at = "key" /\ patch'[p].at = "scard" /\ UNCHANGED <<pref, listed>>
               /\ ~stale' => ~stale /\ key' = pref
            \/ /\ patch[p].at = "scard" /\ patch'[p].at = "apply"
               /\ patch'[p].online <=> sessions # {}
               /\ UNCHANGED <<pref, key, listed, stale>>
            \/ /\ patch[p].at = "apply" /\ patch'[p].at = "done" /\ UNCHANGED <<pref, key>>
               /\ ~stale' => ~stale /\ patch[p].want = pref
               /\ listed' <=> Shown(patch[p].want) /\ (patch[p].online \/ listed)
         /\ ~ghost' => ~ghost /\ (listed' => listed \/ sessions # {})
<1>1. UNCHANGED <<sessions, epoch, expired, undone, crashes>>
  BY DEF Patch, PatchUser, PatchKey, PatchScard, PatchApply, Patching
<1>2. patch \in [Patches -> PatchRows] /\ patch[p] \in PatchRows
  BY DEF PresenceTypes
<1>3. \A q \in Patches : q # p => patch'[q] = patch[q]
  BY <1>2 DEF Patch, PatchUser, PatchKey, PatchScard, PatchApply
<1>4. CASE \E w \in Preferences : PatchUser(p, w)
  <2>1. patch'[p].at = "key" /\ UNCHANGED <<key, listed, stale, ghost>>
    BY <1>2, <1>4 DEF PatchUser, PatchRows
  <2> QED BY <1>1, <1>3, <2>1
<1>5. CASE PatchKey(p)
  <2>1. patch[p].at = "key" /\ patch'[p].at = "scard" /\ UNCHANGED <<pref, listed, ghost>>
    BY <1>2, <1>5 DEF PatchKey, Patching, PatchRows
  <2>2. stale' = (stale \/ key' # pref)
    BY <1>5 DEF PatchKey
  <2>3. ~stale' => ~stale /\ key' = pref
    BY ONLY <2>2, Zenon
  <2> QED BY <1>1, <1>3, <2>1, <2>3
<1>6. CASE PatchScard(p)
  <2>1. patch[p].at = "scard" /\ patch'[p].at = "apply"
        /\ UNCHANGED <<pref, key, listed, stale, ghost>>
    BY <1>2, <1>6 DEF PatchScard, Patching, PatchRows
  <2>2. patch'[p].online <=> sessions # {}
    BY <1>2, <1>6 DEF PatchScard, PatchRows
  <2> QED BY <1>1, <1>3, <2>1, <2>2
<1>7. CASE PatchApply(p)
  <2>1. patch[p].at = "apply" /\ patch'[p].at = "done" /\ UNCHANGED <<pref, key>>
    BY <1>2, <1>7 DEF PatchApply, Patching, PatchRows
  <2>2. /\ stale' = (stale \/ patch[p].want # pref)
        /\ listed' = (Shown(patch[p].want) /\ (patch[p].online \/ listed))
        /\ ghost' = (ghost \/ (listed' /\ sessions = {}))
    BY <1>7 DEF PatchApply
  <2>3. ~stale' => ~stale /\ patch[p].want = pref
    BY ONLY <2>2, Zenon
  <2>4. listed' <=> Shown(patch[p].want) /\ (patch[p].online \/ listed)
    BY ONLY <2>2, Zenon
  <2>5. ~ghost' => ~ghost /\ ~(listed' /\ sessions = {})
    BY ONLY <2>2, Zenon
  <2> QED BY <1>1, <1>3, <2>1, <2>3, <2>4, <2>5
<1> QED BY <1>4, <1>5, <1>6, <1>7 DEF Patch

-----------------------------------------------------------------------------
\* A handshake or a disconnect keeps every session known.
LEMMA SessionsStayKnown ==
  ASSUME PresenceTypes, SessionsAreKnown, PresenceNext
  PROVE  SessionsAreKnown'
<1>0. joining \in [Sessions -> JoinRows] /\ leaving \in [Sessions -> LeaveSteps]
  BY DEF PresenceTypes
<1>1. \A s \in Sessions : joining[s] \in JoinRows /\ leaving[s] \in LeaveSteps
  BY <1>0
<1>2. ASSUME NEW s \in Sessions, NEW n \in Nodes, ConnectSession(s, n) PROVE SessionsAreKnown'
  BY <1>0, <1>1, <1>2 DEF ConnectSession, SessionsAreKnown, JoinRows, redis, presenceHistory
<1>3. ASSUME NEW s \in Sessions, JoinRooms(s) PROVE SessionsAreKnown'
  BY <1>0, <1>1, <1>3 DEF JoinRooms, SessionsAreKnown, JoinRows, redis, presenceHistory
<1>4. ASSUME NEW s \in Sessions, ReadPreference(s) PROVE SessionsAreKnown'
  BY <1>0, <1>1, <1>4 DEF ReadPreference, SessionsAreKnown, JoinRows, redis, presenceHistory
<1>5. ASSUME NEW s \in Sessions, register(s) PROVE SessionsAreKnown'
  BY <1>0, <1>1, <1>5 DEF register, SessionsAreKnown, JoinRows
<1>6. ASSUME NEW s \in Sessions, CloseSession(s) PROVE SessionsAreKnown'
  <2>1. /\ leaving'[s] # "no" /\ joining[s].at # "none" /\ joining' = joining
        /\ \A t \in Sessions : t # s => leaving'[t] = leaving[t]
        /\ UNCHANGED <<sessions, expired>>
    BY <1>0, <1>6 DEF CloseSession, Live, redis, presenceHistory
  <2> QED BY <2>1 DEF SessionsAreKnown
<1>7. ASSUME NEW s \in Sessions, unregister(s) \/ CountRemaining(s) \/ Arm(s)
      PROVE  SessionsAreKnown'
  <2>1. /\ leaving[s] # "no" /\ leaving'[s] # "no" /\ joining' = joining
        /\ \A t \in Sessions : t # s => leaving'[t] = leaving[t]
        /\ expired' = expired /\ \A t \in sessions : t # s => t \in sessions'
    BY <1>0, <1>7 DEF unregister, CountRemaining, Arm, redis, presenceHistory
  <2> QED BY <2>1 DEF SessionsAreKnown
<1>8. ASSUME NEW n \in Nodes, NodeCrash(n) PROVE SessionsAreKnown'
  <2>1. /\ \A s \in Sessions :
             IF joining[s].node = n
             THEN joining'[s] = [joining[s] EXCEPT !.at = "done"] /\ leaving'[s] = "done"
             ELSE joining'[s] = joining[s] /\ leaving'[s] = leaving[s]
        /\ UNCHANGED <<sessions, expired>>
    BY <1>0, <1>8 DEF NodeCrash, redis, presenceHistory
  <2>2. \A s \in Sessions : joining[s].node = n =>
          joining'[s].node = n /\ joining'[s].at # "none"
    BY <1>1, <2>1 DEF JoinRows
  <2> QED BY <2>1, <2>2 DEF SessionsAreKnown
<1>9. ASSUME KeysExpire PROVE SessionsAreKnown'
  BY <1>9 DEF KeysExpire, SessionsAreKnown, sessionVars
<1>10. ASSUME UNCHANGED <<sessions, joining, leaving, expired>> PROVE SessionsAreKnown'
  BY <1>10 DEF SessionsAreKnown
<1>11. ASSUME NEW n \in Nodes, Finalize(n) PROVE SessionsAreKnown'
  BY <1>10, <1>11 DEF Finalize, Elapse, FinalizeScard, FinalizeEpoch, FinalizeDrop, Finalizing,
                      redis, sessionVars, presenceHistory
<1>12. ASSUME Sweep PROVE SessionsAreKnown'
  BY <1>10, <1>12 DEF Sweep, SweepRead, SweepCount, SweepDrop, Sweeping, sessionVars
<1>13. ASSUME NEW p \in Patches, Patch(p) \/ \E w \in Preferences : PatchUser(p, w)
       PROVE  SessionsAreKnown'
  BY <1>10, <1>13 DEF Patch, PatchUser, PatchKey, PatchScard, PatchApply, Patching, sessionVars
<1> QED BY <1>2, <1>3, <1>4, <1>5, <1>6, <1>7, <1>8, <1>9, <1>11, <1>12, <1>13
        DEF PresenceNext, HandshakeSession, DisconnectSession

\* What a PATCH, a sweep or a handshake on its way leaves of the epochs and timers.
EpochFrame == UNCHANGED <<sessions, epoch, expired, pending, fin>>

\* No step arms a timer for an epoch to come, and a count of finalizeOffline
\* stands until a session registers, which begins another epoch.
LEMMA EpochsStayBehind ==
  ASSUME PresenceTypes, EpochsAreBehind, PresenceNext
  PROVE  EpochsAreBehind'
<1>0. /\ epoch \in Nat /\ pending \in [Nodes -> Nat \cup {Unset}] /\ fin \in [Nodes -> FinRows]
      /\ Unset \notin Nat
  BY PresenceAssumption DEF PresenceTypes
<1>1. \A n \in Nodes : fin[n] \in FinRows /\ fin[n].epoch \in Nat /\ pending[n] \in Nat \cup {Unset}
  BY <1>0 DEF FinRows
<1>2. ASSUME EpochFrame PROVE EpochsAreBehind'
  BY <1>2 DEF EpochFrame, EpochsAreBehind
<1>3. ASSUME NEW s \in Sessions, NEW n \in Nodes, ConnectSession(s, n) PROVE EpochsAreBehind'
  BY <1>2, <1>3 DEF ConnectSession, EpochFrame, redis, timers, presenceHistory
<1>4. ASSUME NEW s \in Sessions, JoinRooms(s) \/ CloseSession(s) \/ CountRemaining(s)
      PROVE  EpochsAreBehind'
  BY <1>2, <1>4 DEF JoinRooms, CloseSession, CountRemaining, EpochFrame, redis, timers,
                    presenceHistory
<1>5. ASSUME NEW s \in Sessions, ReadPreference(s) PROVE EpochsAreBehind'
  <2>1. /\ \A n \in Nodes : pending'[n] # Unset => pending'[n] = pending[n]
        /\ UNCHANGED <<sessions, epoch, expired, fin>>
    BY <1>0, <1>5 DEF ReadPreference, redis, presenceHistory
  <2> QED BY <2>1 DEF EpochsAreBehind
<1>6. ASSUME NEW s \in Sessions, register(s) PROVE EpochsAreBehind'
  <2>1. epoch' = epoch + 1 /\ UNCHANGED <<expired, pending, fin>>
    BY <1>6 DEF register, timers
  <2> QED BY <1>0, <1>1, <2>1 DEF EpochsAreBehind
<1>7. ASSUME NEW s \in Sessions, unregister(s) PROVE EpochsAreBehind'
  <2>1. (sessions = {} => sessions' = {}) /\ UNCHANGED <<epoch, expired, pending, fin>>
    BY <1>7 DEF unregister, timers, presenceHistory
  <2> QED BY <2>1 DEF EpochsAreBehind
<1>8. ASSUME NEW s \in Sessions, Arm(s) PROVE EpochsAreBehind'
  <2>1. /\ \A n \in Nodes : pending'[n] = pending[n] \/ pending'[n] = epoch
        /\ UNCHANGED <<sessions, epoch, expired, fin>>
    BY <1>0, <1>8 DEF Arm, redis, presenceHistory
  <2> QED BY <1>0, <2>1 DEF EpochsAreBehind
<1>9. ASSUME NEW n \in Nodes, Elapse(n) PROVE EpochsAreBehind'
  <2>1. /\ pending[n] # Unset /\ pending'[n] = Unset
        /\ fin'[n].at = "scard" /\ fin'[n].epoch = pending[n]
        /\ \A m \in Nodes : m # n => pending'[m] = pending[m] /\ fin'[m] = fin[m]
        /\ UNCHANGED <<sessions, epoch, expired>>
    BY <1>0, <1>9 DEF Elapse, redis, presenceHistory
  <2> QED BY <2>1 DEF EpochsAreBehind
<1>10. ASSUME NEW n \in Nodes, FinalizeScard(n) \/ FinalizeEpoch(n) \/ FinalizeDrop(n)
       PROVE  EpochsAreBehind'
  <2>1. /\ fin'[n].epoch = fin[n].epoch
        /\ fin'[n].at \in {"epoch", "drop"} => sessions = {} \/ fin[n].at = "epoch"
        /\ \A m \in Nodes : m # n => fin'[m] = fin[m]
        /\ UNCHANGED <<sessions, epoch, expired, pending>>
    BY <1>0, <1>1, <1>10
       DEF FinalizeScard, FinalizeEpoch, FinalizeDrop, Finalizing, FinRows, redis
  <2> QED BY <2>1 DEF EpochsAreBehind
<1>11. ASSUME Sweep PROVE EpochsAreBehind'
  BY <1>2, <1>11 DEF Sweep, SweepRead, SweepCount, SweepDrop, Sweeping, EpochFrame
<1>12. ASSUME NEW p \in Patches, Patch(p) \/ \E w \in Preferences : PatchUser(p, w)
       PROVE  EpochsAreBehind'
  BY <1>2, <1>12 DEF Patch, PatchUser, PatchKey, PatchScard, PatchApply, Patching, EpochFrame,
                     timers
<1>13. ASSUME KeysExpire PROVE EpochsAreBehind'
  BY <1>13 DEF KeysExpire, EpochsAreBehind
<1>14. ASSUME NEW n \in Nodes, NodeCrash(n) PROVE EpochsAreBehind'
  <2>1. /\ \A m \in Nodes : pending'[m] # Unset => pending'[m] = pending[m]
        /\ \A m \in Nodes : fin'[m].epoch = fin[m].epoch /\ fin'[m].at \in {"idle", fin[m].at}
        /\ UNCHANGED <<sessions, epoch, expired>>
    BY <1>0, <1>1, <1>14 DEF NodeCrash, FinRows, redis, presenceHistory
  <2> QED BY <2>1 DEF EpochsAreBehind
<1> QED BY <1>3, <1>4, <1>5, <1>6, <1>7, <1>8, <1>9, <1>10, <1>11, <1>12, <1>13, <1>14
        DEF PresenceNext, HandshakeSession, DisconnectSession, Finalize

-----------------------------------------------------------------------------
\* What a register, a removal and an expiry do to what is stored.
LEMMA StoredEffects ==
  ASSUME PresenceTypes, EpochsAreBehind, PresenceNext
  PROVE  \/ UNCHANGED <<pref, sessions, key, epoch, listed, patch, expired, stale, undone, ghost>>
         \/ /\ \E s \in Sessions : s \in sessions'
            /\ UNCHANGED <<pref, patch, expired>>
            /\ ~stale' => key' = pref
            /\ listed' <=> Shown(key')
         \/ /\ (sessions = {} => sessions' = {})
            /\ UNCHANGED <<pref, key, patch, expired, stale, undone, listed, ghost>>
         \/ /\ ~listed' /\ UNCHANGED <<pref, sessions, key, patch, expired, stale>>
            /\ ~expired /\ ~undone' => ~undone /\ sessions = {}
         \/ \E p \in Patches : Patch(p) \/ \E w \in Preferences : PatchUser(p, w)
         \/ expired' /\ UNCHANGED <<pref, patch, listed, stale>>
<1>1. ASSUME NEW s \in Sessions, register(s)
      PROVE  /\ s \in sessions' /\ UNCHANGED <<pref, patch, expired>>
             /\ ~stale' => key' = pref
             /\ listed' <=> Shown(key')
  <2>1. s \in sessions' /\ UNCHANGED <<pref, patch, expired>>
    BY <1>1 DEF register
  <2>2. stale' = (stale \/ key' # pref) /\ listed' = Shown(key')
    BY <1>1 DEF register
  <2>3. ~stale' => key' = pref
    BY ONLY <2>2, Zenon
  <2>4. listed' <=> Shown(key')
    BY ONLY <2>2, Zenon
  <2> QED BY <2>1, <2>3, <2>4
<1>2. ASSUME NEW s \in Sessions, unregister(s)
      PROVE  /\ (sessions = {} => sessions' = {})
             /\ UNCHANGED <<pref, key, patch, expired, stale, undone, listed, ghost>>
  BY <1>2 DEF unregister, presenceHistory
<1>3. ASSUME NEW n \in Nodes, FinalizeDrop(n)
      PROVE  /\ ~listed' /\ UNCHANGED <<pref, sessions, key, patch, expired, stale>>
             /\ ~expired /\ ~undone' => ~undone /\ sessions = {}
  <2>1. fin[n].at = "drop" /\ UNCHANGED <<pref, sessions, key, patch, expired, stale>>
    BY <1>3 DEF FinalizeDrop, Finalizing
  <2>2. listed' = FALSE /\ undone' = (undone \/ epoch # fin[n].epoch)
    BY <1>3 DEF FinalizeDrop
  <2>3. ~listed' /\ (~undone' => ~undone /\ epoch = fin[n].epoch)
    BY ONLY <2>2, Zenon
  <2>4. ~expired /\ epoch = fin[n].epoch => sessions = {}
    BY <2>1 DEF EpochsAreBehind
  <2> QED BY <2>1, <2>3, <2>4
<1>4. ASSUME SweepDrop
      PROVE  /\ ~listed' /\ UNCHANGED <<pref, sessions, key, patch, expired, stale>>
             /\ ~expired /\ ~undone' => ~undone /\ sessions = {}
  <2>1. UNCHANGED <<pref, sessions, key, patch, expired, stale>>
    BY <1>4 DEF SweepDrop, Sweeping
  <2>2. listed' = FALSE /\ undone' = (undone \/ sessions # {})
    BY <1>4 DEF SweepDrop
  <2>3. ~listed' /\ (~undone' => ~undone /\ sessions = {})
    BY ONLY <2>2, Zenon
  <2> QED BY <2>1, <2>3
<1>5. ASSUME KeysExpire PROVE expired' /\ UNCHANGED <<pref, patch, listed, stale>>
  <2>1. UNCHANGED <<pref, patch, listed, stale>> /\ expired' = TRUE
    BY <1>5 DEF KeysExpire
  <2> QED BY ONLY <2>1, Zenon
<1> QED BY PresenceEffects, <1>1, <1>2, <1>3, <1>4, <1>5

\* The key, the hiding and the listing follow the preference.
LEMMA PreferenceIsFollowed ==
  ASSUME PresenceIInv, PresenceNext
  PROVE  KeyFollows' /\ HiddenSoon' /\ ListedSoon'
<1>0. PresenceTypes /\ EpochsAreBehind /\ KeyFollows /\ HiddenSoon /\ ListedSoon
  BY DEF PresenceIInv
<1>1. CASE UNCHANGED <<pref, sessions, key, epoch, listed, patch, expired, stale, undone, ghost>>
  BY <1>0, <1>1 DEF KeyFollows, HiddenSoon, ListedSoon, Listing
<1>2. CASE /\ \E s \in Sessions : s \in sessions'
           /\ UNCHANGED <<pref, patch, expired>>
           /\ ~stale' => key' = pref
           /\ listed' <=> Shown(key')
  BY <1>0, <1>2 DEF KeyFollows, HiddenSoon, ListedSoon, Shown
<1>3. CASE /\ (sessions = {} => sessions' = {})
           /\ UNCHANGED <<pref, key, patch, expired, stale, undone, listed, ghost>>
  BY <1>0, <1>3 DEF KeyFollows, HiddenSoon, ListedSoon, Listing
<1>4. CASE /\ ~listed' /\ UNCHANGED <<pref, sessions, key, patch, expired, stale>>
           /\ ~expired /\ ~undone' => ~undone /\ sessions = {}
  BY <1>0, <1>4 DEF KeyFollows, HiddenSoon, ListedSoon, Listing
<1>5. CASE expired' /\ UNCHANGED <<pref, patch, listed, stale>>
  BY <1>0, <1>5 DEF KeyFollows, HiddenSoon, ListedSoon
<1>6. ASSUME NEW p \in Patches, Patch(p) \/ \E w \in Preferences : PatchUser(p, w)
      PROVE  KeyFollows' /\ HiddenSoon' /\ ListedSoon'
  <2>0. /\ UNCHANGED <<sessions, epoch, expired, undone, crashes>>
        /\ \A q \in Patches : q # p => patch'[q] = patch[q]
    BY <1>0, <1>6, PatchEffects
  <2>1. CASE patch'[p].at = "key" /\ UNCHANGED <<key, listed, stale>>
    BY <2>1 DEF KeyFollows, HiddenSoon, ListedSoon, Listing
  <2>2. CASE /\ patch[p].at = "key" /\ patch'[p].at = "scard" /\ UNCHANGED <<pref, listed>>
             /\ ~stale' => ~stale /\ key' = pref
    BY <1>0, <2>0, <2>2 DEF KeyFollows, HiddenSoon, ListedSoon, Listing
  <2>3. CASE /\ patch[p].at = "scard" /\ patch'[p].at = "apply"
             /\ patch'[p].online <=> sessions # {}
             /\ UNCHANGED <<pref, key, listed, stale>>
    BY <1>0, <2>0, <2>3 DEF KeyFollows, HiddenSoon, ListedSoon, Listing
  <2>4. CASE /\ patch[p].at = "apply" /\ patch'[p].at = "done" /\ UNCHANGED <<pref, key>>
             /\ ~stale' => ~stale /\ patch[p].want = pref
             /\ listed' <=> Shown(patch[p].want) /\ (patch[p].online \/ listed)
    <3>1. KeyFollows'
      BY <1>0, <2>0, <2>4 DEF KeyFollows
    <3>2. HiddenSoon'
      BY <1>0, <2>0, <2>4 DEF HiddenSoon, Shown
    <3>3. ListedSoon'
      BY <1>0, <2>0, <2>4 DEF ListedSoon, Listing
    <3> QED BY <3>1, <3>2, <3>3
  <2> QED BY <1>0, <1>6, <2>1, <2>2, <2>3, <2>4, PatchEffects
<1> QED BY <1>0, <1>1, <1>2, <1>3, <1>4, <1>5, <1>6, StoredEffects

-----------------------------------------------------------------------------
\* A listed user without a session: a disconnect or a handshake is under way, or a
\* node counts down for this epoch.
Departing == \E s \in Sessions : leaving[s] \in {"scard", "epoch"} \/ joining[s].at = "register"
CountingDown ==
  \E n \in Nodes : pending[n] = epoch \/ (fin[n].at # "idle" /\ fin[n].epoch = epoch)

\* No step leaves a listed user without a session to nobody.
LEMMA LeavingGoesOn ==
  ASSUME PresenceIInv, PresenceNext
  PROVE  LeavingSoon'
<1>0. /\ PresenceTypes /\ SessionsAreKnown /\ EpochsAreBehind
      /\ joining \in [Sessions -> JoinRows] /\ leaving \in [Sessions -> LeaveSteps]
      /\ pending \in [Nodes -> Nat \cup {Unset}] /\ fin \in [Nodes -> FinRows]
      /\ epoch \in Nat /\ crashes \in Nat /\ Unset \notin Nat
  BY PresenceAssumption DEF PresenceIInv, PresenceTypes
<1>a. \A s \in Sessions : joining[s] \in JoinRows
  BY <1>0
<1>b. \A n \in Nodes : fin[n] \in FinRows
  BY <1>0
<1> SUFFICES ASSUME listed', sessions' = {}, crashes' = 0, ~expired', ~ghost'
             PROVE  Departing' \/ CountingDown'
  BY DEF LeavingSoon, Departing, CountingDown
<1>c. ASSUME listed, sessions = {}, crashes = 0, ~expired, ~ghost
      PROVE  Departing \/ CountingDown
  BY <1>c DEF PresenceIInv, LeavingSoon, Departing, CountingDown
<1>1. ASSUME NEW s \in Sessions, NEW n \in Nodes, ConnectSession(s, n)
      PROVE  Departing' \/ CountingDown'
  <2>1. /\ \A t \in Sessions : joining[t].at = "register" => joining'[t].at = "register"
        /\ UNCHANGED <<leaving, pending, fin, epoch, listed, sessions, crashes, expired, ghost>>
    BY <1>0, <1>a, <1>1 DEF ConnectSession, JoinRows, redis, timers, presenceHistory
  <2> QED BY <1>c, <2>1 DEF Departing, CountingDown
<1>2. ASSUME NEW s \in Sessions, JoinRooms(s) PROVE Departing' \/ CountingDown'
  <2>1. /\ \A t \in Sessions : joining[t].at = "register" => joining'[t].at = "register"
        /\ UNCHANGED <<leaving, pending, fin, epoch, listed, sessions, crashes, expired, ghost>>
    BY <1>0, <1>a, <1>2 DEF JoinRooms, JoinRows, redis, timers, presenceHistory
  <2> QED BY <1>c, <2>1 DEF Departing, CountingDown
<1>3. ASSUME NEW s \in Sessions, ReadPreference(s) PROVE Departing' \/ CountingDown'
  <2>1. joining'[s].at = "register"
    BY <1>0, <1>a, <1>3 DEF ReadPreference, JoinRows
  <2> QED BY <2>1 DEF Departing
<1>4. ASSUME NEW s \in Sessions, register(s) PROVE Departing' \/ CountingDown'
  BY <1>4 DEF register
<1>5. ASSUME NEW s \in Sessions, CloseSession(s) PROVE Departing' \/ CountingDown'
  <2>1. /\ \A t \in Sessions : leaving[t] \in {"scard", "epoch"} => leaving'[t] = leaving[t]
        /\ UNCHANGED <<joining, pending, fin, epoch, listed, sessions, crashes, expired, ghost>>
    BY <1>0, <1>5 DEF CloseSession, Live, redis, timers, presenceHistory
  <2> QED BY <1>c, <2>1 DEF Departing, CountingDown
<1>6. ASSUME NEW s \in Sessions, unregister(s) PROVE Departing' \/ CountingDown'
  <2>1. leaving'[s] = "scard"
    BY <1>0, <1>6 DEF unregister
  <2> QED BY <2>1 DEF Departing
<1>7. ASSUME NEW s \in Sessions, CountRemaining(s) PROVE Departing' \/ CountingDown'
  <2>1. UNCHANGED <<joining, pending, fin, epoch, listed, sessions, crashes, expired, ghost>>
    BY <1>7 DEF CountRemaining, redis, timers, presenceHistory
  <2>2. leaving'[s] = "epoch"
    BY <1>0, <1>7, <2>1 DEF CountRemaining
  <2> QED BY <2>2 DEF Departing
<1>8. ASSUME NEW s \in Sessions, Arm(s) PROVE Departing' \/ CountingDown'
  <2>1. leaving[s] = "epoch" /\ joining[s].node \in Nodes
    BY <1>0, <1>8 DEF Arm, SessionsAreKnown
  <2>2. pending'[joining[s].node] = epoch'
    BY <1>0, <1>8, <2>1 DEF Arm, redis
  <2> QED BY <2>1, <2>2 DEF CountingDown
<1>9. ASSUME NEW n \in Nodes, Elapse(n) PROVE Departing' \/ CountingDown'
  <2>1. /\ fin'[n].at = "scard" /\ fin'[n].epoch = pending[n] /\ fin[n].at = "idle"
        /\ \A m \in Nodes : m # n => pending'[m] = pending[m] /\ fin'[m] = fin[m]
        /\ UNCHANGED <<joining, leaving, epoch, listed, sessions, crashes, expired, ghost>>
    BY <1>0, <1>9 DEF Elapse, redis, sessionVars, presenceHistory
  <2> QED BY <1>c, <2>1 DEF Departing, CountingDown
<1>10. ASSUME NEW n \in Nodes, FinalizeScard(n) \/ FinalizeEpoch(n)
       PROVE  Departing' \/ CountingDown'
  <2>1. /\ UNCHANGED <<joining, leaving, epoch, listed, sessions, crashes, expired, ghost, pending>>
        /\ \A m \in Nodes : m # n => fin'[m] = fin[m]
    BY <1>0, <1>10 DEF FinalizeScard, FinalizeEpoch, Finalizing, redis, sessionVars
  <2>2. fin'[n].epoch = fin[n].epoch
    BY <1>0, <1>b, <1>10 DEF FinalizeScard, FinalizeEpoch, Finalizing, FinRows
  <2>3. fin[n].epoch = epoch => fin'[n].at # "idle"
    BY <1>0, <1>b, <1>10, <2>1 DEF FinalizeScard, FinalizeEpoch, Finalizing, FinRows
  <2> QED BY <1>c, <2>1, <2>2, <2>3 DEF Departing, CountingDown
<1>11. ASSUME NEW n \in Nodes, FinalizeDrop(n) PROVE FALSE
  <2>1. listed' = FALSE
    BY <1>11 DEF FinalizeDrop
  <2> QED BY ONLY <2>1, listed', Zenon
<1>12. ASSUME Sweep PROVE Departing' \/ CountingDown'
  <2>1. CASE SweepDrop
    <3>1. listed' = FALSE
      BY <2>1 DEF SweepDrop
    <3> QED BY ONLY <3>1, listed', Zenon
  <2>2. CASE SweepRead \/ SweepCount
    <3>1. UNCHANGED <<joining, leaving, pending, fin, epoch, listed, sessions, crashes, expired,
                      ghost>>
      BY <2>2 DEF SweepRead, SweepCount, Sweeping, sessionVars
    <3> QED BY <1>c, <3>1 DEF Departing, CountingDown
  <2> QED BY <1>12, <2>1, <2>2 DEF Sweep
<1>13. ASSUME NEW p \in Patches, Patch(p) \/ \E w \in Preferences : PatchUser(p, w)
       PROVE  Departing' \/ CountingDown'
  <2>1. UNCHANGED <<joining, leaving, pending, fin, epoch, sessions, crashes, expired>>
    BY <1>13 DEF Patch, PatchUser, PatchKey, PatchScard, PatchApply, Patching, sessionVars, timers
  <2>2. ~ghost /\ listed
    BY <1>0, <1>13, <2>1, PatchEffects
  <2> QED BY <1>c, <2>1, <2>2 DEF Departing, CountingDown
<1>14. ASSUME KeysExpire PROVE FALSE
  <2>1. expired' = TRUE
    BY <1>14 DEF KeysExpire
  <2> QED BY ONLY <2>1, ~expired', Zenon
<1>15. ASSUME NEW n \in Nodes, NodeCrash(n) PROVE FALSE
  BY <1>0, <1>15 DEF NodeCrash
<1> QED BY <1>1, <1>2, <1>3, <1>4, <1>5, <1>6, <1>7, <1>8, <1>9, <1>10, <1>11, <1>12, <1>13,
           <1>14, <1>15
        DEF PresenceNext, HandshakeSession, DisconnectSession, Finalize

\* The three parts of PresenceSound are the invariant where no handler runs.
LEMMA PresenceInvImplies == PresenceIInv => PresenceSound
<1> SUFFICES ASSUME PresenceIInv, Rest PROVE PresenceSound
  BY DEF PresenceSound, HiddenWhileInvisible, ListedWhileConnected, UnlistingPending
<1>1. HiddenWhileInvisible
  BY DEF PresenceIInv, KeyFollows, HiddenSoon, HiddenWhileInvisible, Rest
<1>2. ListedWhileConnected
  BY DEF PresenceIInv, SessionsAreKnown, ListedSoon, Listing, ListedWhileConnected, Rest,
         Connected, Live
<1>3. UnlistingPending
  BY DEF PresenceIInv, LeavingSoon, UnlistingPending, Rest
<1> QED BY <1>1, <1>2, <1>3 DEF PresenceSound

\* PresenceIInv is an invariant of Presence.
LEMMA PresenceAlways == PresenceSpec => []PresenceIInv
<1>1. PresenceIInv /\ [PresenceNext]_presenceVars => PresenceIInv'
  <2> SUFFICES ASSUME PresenceIInv, [PresenceNext]_presenceVars PROVE PresenceIInv'
    OBVIOUS
  <2>1. CASE PresenceNext
    <3>1. PresenceTypes /\ SessionsAreKnown /\ EpochsAreBehind
      BY DEF PresenceIInv
    <3> QED BY <2>1, <3>1, PresenceTypesHold, SessionsStayKnown, EpochsStayBehind,
               PreferenceIsFollowed, LeavingGoesOn DEF PresenceIInv
  <2>2. CASE UNCHANGED presenceVars
    BY <2>2 DEF PresenceIInv, presenceVars, redis, sessionVars, timers, presenceHistory,
                PresenceTypes, SessionsAreKnown, EpochsAreBehind, KeyFollows, HiddenSoon,
                ListedSoon, LeavingSoon, Listing
  <2> QED BY <2>1, <2>2
<1> QED BY <1>1, PresenceInitHolds, PTL DEF PresenceSpec

\* PresenceSound: an invisible user is not listed, a connected one is, and one who
\* has left stays on the way out, whatever reconnects, grace timers, sweeps,
\* changes of the preference, expiries and crashes there are (PresenceService).
THEOREM PresenceHolds == PresenceSpec => []PresenceSound
BY PresenceAlways, PresenceInvImplies, PTL

-----------------------------------------------------------------------------
(* The types of Presence. *)

\* Sessions that have registered, or died on the way.
Came == {s \in Sessions : joining[s].at = "done"}

PresenceMore ==
  /\ sessions \subseteq Sessions
  /\ listed \in BOOLEAN /\ expired \in BOOLEAN /\ stale \in BOOLEAN /\ undone \in BOOLEAN
  /\ ghost \in BOOLEAN
  /\ gc \in {"idle", "scard", "drop"} /\ crashes <= MaxNodeCrashes

\* The epoch counts registers, and no session registers twice.
EpochCounts == epoch <= Cardinality(Came)

\* Nobody comes twice, and a register is of one that had not come.
LEMMA ComingGoesOn ==
  ASSUME PresenceTypes, PresenceNext
  PROVE  /\ Came \subseteq Came'
         /\ \A s \in Sessions : register(s) => s \in Came' \ Came
<1>0. joining \in [Sessions -> JoinRows] /\ \A s \in Sessions : joining[s] \in JoinRows
  BY DEF PresenceTypes
<1>1. ASSUME NEW s \in Sessions, NEW n \in Nodes, ConnectSession(s, n) PROVE Came \subseteq Came'
  BY <1>0, <1>1 DEF ConnectSession, Came, JoinRows
<1>2. ASSUME NEW s \in Sessions, JoinRooms(s) \/ ReadPreference(s) PROVE Came \subseteq Came'
  BY <1>0, <1>2 DEF JoinRooms, ReadPreference, Came, JoinRows
<1>3. ASSUME NEW s \in Sessions, register(s) PROVE Came \subseteq Came' /\ s \in Came' \ Came
  BY <1>0, <1>3 DEF register, Came, JoinRows
<1>4. ASSUME NEW n \in Nodes, NodeCrash(n) PROVE Came \subseteq Came'
  <2>1. \A s \in Sessions : joining[s].at = "done" => joining'[s].at = "done"
    <3>1. \A s \in Sessions : [joining[s] EXCEPT !.at = "done"].at = "done"
      BY <1>0 DEF JoinRows
    <3> QED BY <1>4, <3>1 DEF NodeCrash
  <2> QED BY <2>1 DEF Came
<1>5. ASSUME UNCHANGED joining PROVE Came \subseteq Came'
  BY <1>5 DEF Came
<1>6. \/ UNCHANGED joining
      \/ \E s \in Sessions : \/ \E n \in Nodes : ConnectSession(s, n)
                            \/ JoinRooms(s) \/ ReadPreference(s) \/ register(s)
      \/ \E n \in Nodes : NodeCrash(n)
  <2>1. ASSUME NEW s \in Sessions, CloseSession(s) \/ DisconnectSession(s) PROVE UNCHANGED joining
    BY <2>1 DEF CloseSession, DisconnectSession, unregister, CountRemaining, Arm
  <2>2. ASSUME NEW n \in Nodes, Finalize(n) PROVE UNCHANGED joining
    BY <2>2 DEF Finalize, Elapse, FinalizeScard, FinalizeEpoch, FinalizeDrop, Finalizing, sessionVars
  <2>3. ASSUME Sweep \/ KeysExpire PROVE UNCHANGED joining
    BY <2>3 DEF Sweep, SweepRead, SweepCount, SweepDrop, Sweeping, KeysExpire, sessionVars
  <2>4. ASSUME NEW p \in Patches, Patch(p) \/ \E w \in Preferences : PatchUser(p, w)
        PROVE  UNCHANGED joining
    BY <2>4 DEF Patch, PatchUser, PatchKey, PatchScard, PatchApply, Patching, sessionVars
  <2> QED BY <2>1, <2>2, <2>3, <2>4 DEF PresenceNext, HandshakeSession
<1> QED BY <1>1, <1>2, <1>3, <1>4, <1>5, <1>6

\* The epoch is below the number of those who came: a register adds one to both.
LEMMA EpochGoesOn ==
  ASSUME PresenceTypes, EpochCounts, PresenceNext
  PROVE  EpochCounts'
<1>0. epoch \in Nat
  BY DEF PresenceTypes
<1>1. IsFiniteSet(Came) /\ IsFiniteSet(Came') /\ Cardinality(Came) \in Nat
      /\ Cardinality(Came') \in Nat
  <2>1. Came \subseteq Sessions /\ Came' \subseteq Sessions
    BY DEF Came
  <2>2. IsFiniteSet(Came) /\ IsFiniteSet(Came')
    BY <2>1, FS_Subset, PresenceAssumption
  <2> QED BY <2>2, FS_CardinalityType
<1>2. Cardinality(Came) <= Cardinality(Came')
  <2>1. Came \in SUBSET Came'
    BY ComingGoesOn
  <2> QED BY <1>1, <2>1, FS_Subset
<1>3. CASE \E s \in Sessions : register(s)
  <2>1. PICK s \in Sessions : register(s)
    BY <1>3
  <2>2. s \notin Came /\ Came \cup {s} \in SUBSET Came'
    BY <2>1, ComingGoesOn
  <2>3. Cardinality(Came \cup {s}) = Cardinality(Came) + 1
    BY <1>1, <2>2, FS_AddElement
  <2>4. Cardinality(Came \cup {s}) <= Cardinality(Came')
    BY <1>1, <2>2, FS_Subset
  <2>5. epoch' = epoch + 1
    BY <2>1 DEF register
  <2> QED BY <1>0, <1>1, <2>3, <2>4, <2>5 DEF EpochCounts
<1>4. CASE KeysExpire
  BY <1>1, <1>4 DEF KeysExpire, EpochCounts
<1>5. CASE epoch' = epoch
  BY <1>0, <1>1, <1>2, <1>5 DEF EpochCounts
<1>6. \/ \E s \in Sessions : register(s)
      \/ KeysExpire \/ epoch' = epoch
  <2>1. ASSUME NEW s \in Sessions, unregister(s) PROVE epoch' = epoch
    BY <2>1 DEF unregister
  <2>2. ASSUME NEW n \in Nodes, FinalizeDrop(n) PROVE epoch' = epoch
    BY <2>2 DEF FinalizeDrop
  <2>3. ASSUME SweepDrop PROVE epoch' = epoch
    BY <2>3 DEF SweepDrop, Sweeping
  <2>4. ASSUME NEW p \in Patches, Patch(p) \/ \E w \in Preferences : PatchUser(p, w)
        PROVE  epoch' = epoch
    BY <2>4, PatchEffects
  <2> QED BY <2>1, <2>2, <2>3, <2>4, PresenceEffects
<1> QED BY <1>3, <1>4, <1>5, <1>6

\* The rest of the types: what is stored, the sweep and the crashes.
LEMMA MoreStays ==
  ASSUME PresenceTypes, PresenceMore, PresenceNext
  PROVE  PresenceMore'
<1>0. /\ sessions \subseteq Sessions /\ listed \in BOOLEAN /\ expired \in BOOLEAN
      /\ stale \in BOOLEAN /\ undone \in BOOLEAN /\ ghost \in BOOLEAN
      /\ gc \in {"idle", "scard", "drop"} /\ crashes <= MaxNodeCrashes
      /\ crashes \in Nat /\ MaxNodeCrashes \in Nat
  BY PresenceAssumption DEF PresenceMore, PresenceTypes
<1> DEFINE Stored == /\ sessions' \subseteq Sessions /\ listed' \in BOOLEAN
                     /\ expired' \in BOOLEAN /\ stale' \in BOOLEAN /\ undone' \in BOOLEAN
                     /\ ghost' \in BOOLEAN
<1>1. Stored
  <2>1. ASSUME NEW s \in Sessions, register(s) PROVE Stored
    <3>1. /\ sessions' = sessions \cup {s} /\ listed' = Shown(key') /\ undone' = FALSE
          /\ stale' = (stale \/ key' # pref) /\ expired' = expired /\ ghost' = ghost
      BY <2>1 DEF register
    <3> QED BY <1>0, <3>1 DEF Shown
  <2>2. ASSUME NEW s \in Sessions, unregister(s) PROVE Stored
    BY <1>0, <2>2 DEF unregister, presenceHistory
  <2>3. ASSUME NEW n \in Nodes, FinalizeDrop(n) PROVE Stored
    BY <1>0, <2>3 DEF FinalizeDrop, Finalizing
  <2>4. ASSUME SweepDrop PROVE Stored
    BY <1>0, <2>4 DEF SweepDrop, Sweeping
  <2>5. ASSUME NEW p \in Patches, PatchKey(p) \/ PatchScard(p) \/ PatchApply(p) PROVE Stored
    BY <1>0, <2>5 DEF PatchKey, PatchScard, PatchApply, Patching, Shown
  <2>6. ASSUME NEW p \in Patches, NEW w \in Preferences, PatchUser(p, w) PROVE Stored
    BY <1>0, <2>6 DEF PatchUser, Patching
  <2>7. ASSUME KeysExpire PROVE Stored
    BY <1>0, <2>7 DEF KeysExpire
  <2> QED BY <1>0, <2>1, <2>2, <2>3, <2>4, <2>5, <2>6, <2>7, PresenceEffects DEF Patch
<1>2. gc' \in {"idle", "scard", "drop"}
  <2>1. ASSUME NEW s \in Sessions, NEW n \in Nodes, ConnectSession(s, n) PROVE gc' = gc
    BY <2>1 DEF ConnectSession, timers
  <2>2. ASSUME NEW s \in Sessions, HandshakeSession(s) PROVE gc' = gc
    BY <2>2 DEF HandshakeSession, JoinRooms, ReadPreference, register, timers
  <2>3. ASSUME NEW s \in Sessions, CloseSession(s) \/ DisconnectSession(s) PROVE gc' = gc
    BY <2>3 DEF CloseSession, DisconnectSession, unregister, CountRemaining, Arm, timers
  <2>4. ASSUME NEW n \in Nodes, Finalize(n) \/ NodeCrash(n) PROVE gc' = gc
    BY <2>4 DEF Finalize, Elapse, FinalizeScard, FinalizeEpoch, FinalizeDrop, Finalizing, NodeCrash
  <2>5. ASSUME KeysExpire PROVE gc' = gc
    BY <2>5 DEF KeysExpire, timers
  <2>6. ASSUME NEW p \in Patches, Patch(p) \/ \E w \in Preferences : PatchUser(p, w)
        PROVE  gc' = gc
    BY <2>6 DEF Patch, PatchUser, PatchKey, PatchScard, PatchApply, Patching, timers
  <2>7. ASSUME Sweep PROVE gc' \in {"idle", "scard", "drop"}
    BY <2>7 DEF Sweep, SweepRead, SweepCount, SweepDrop, Sweeping
  <2> QED BY <1>0, <2>1, <2>2, <2>3, <2>4, <2>5, <2>6, <2>7 DEF PresenceNext
<1>3. crashes' <= MaxNodeCrashes
  <2>1. ASSUME NEW s \in Sessions, NEW n \in Nodes, ConnectSession(s, n) PROVE crashes' = crashes
    BY <2>1 DEF ConnectSession
  <2>2. ASSUME NEW s \in Sessions, HandshakeSession(s) PROVE crashes' = crashes
    BY <2>2 DEF HandshakeSession, JoinRooms, ReadPreference, register
  <2>3. ASSUME NEW s \in Sessions, CloseSession(s) \/ DisconnectSession(s) PROVE crashes' = crashes
    BY <2>3 DEF CloseSession, DisconnectSession, unregister, CountRemaining, Arm
  <2>4. ASSUME NEW n \in Nodes, Finalize(n) PROVE crashes' = crashes
    BY <2>4 DEF Finalize, Elapse, FinalizeScard, FinalizeEpoch, FinalizeDrop, Finalizing
  <2>5. ASSUME KeysExpire \/ Sweep PROVE crashes' = crashes
    BY <2>5 DEF KeysExpire, Sweep, SweepRead, SweepCount, SweepDrop, Sweeping
  <2>6. ASSUME NEW p \in Patches, Patch(p) \/ \E w \in Preferences : PatchUser(p, w)
        PROVE  crashes' = crashes
    BY <2>6 DEF Patch, PatchUser, PatchKey, PatchScard, PatchApply, Patching
  <2>7. ASSUME NEW n \in Nodes, NodeCrash(n) PROVE crashes < MaxNodeCrashes /\ crashes' = crashes + 1
    BY <2>7 DEF NodeCrash
  <2>8. crashes' = crashes \/ (crashes < MaxNodeCrashes /\ crashes' = crashes + 1)
    BY <2>1, <2>2, <2>3, <2>4, <2>5, <2>6, <2>7 DEF PresenceNext
  <2> QED BY <1>0, <2>8
<1> HIDE DEF Stored
<1> QED BY <1>1, <1>2, <1>3 DEF PresenceMore, Stored

\* Presence keeps its types: no session is stored that never was, no timer is armed for
\* what is no epoch, and the epoch never passes the number of sessions.
LEMMA PresenceTypesOK == PresenceSpec => []PresenceTypeOK
<1>1. PresenceInit => PresenceMore /\ EpochCounts
  <2> SUFFICES ASSUME PresenceInit PROVE PresenceMore /\ EpochCounts
    OBVIOUS
  <2>1. IsFiniteSet(Came)
    <3>1. Came \in SUBSET Sessions
      BY DEF Came
    <3> QED BY <3>1, FS_Subset, PresenceAssumption
  <2>2. Cardinality(Came) \in Nat
    BY <2>1, FS_CardinalityType
  <2>3. EpochCounts
    BY <2>2 DEF PresenceInit, EpochCounts
  <2>4. /\ sessions = {} /\ listed = FALSE /\ expired = FALSE /\ stale = FALSE /\ undone = FALSE
        /\ ghost = FALSE /\ gc = "idle" /\ crashes = 0
    BY DEF PresenceInit
  <2>5. crashes <= MaxNodeCrashes
    BY <2>4, PresenceAssumption
  <2>6. PresenceMore
    BY ONLY <2>4, <2>5 DEF PresenceMore
  <2> QED BY <2>3, <2>6
<1>2. PresenceIInv /\ PresenceMore /\ EpochCounts /\ [PresenceNext]_presenceVars
        => PresenceMore' /\ EpochCounts'
  <2> SUFFICES ASSUME PresenceIInv, PresenceMore, EpochCounts, [PresenceNext]_presenceVars
               PROVE  PresenceMore' /\ EpochCounts'
    OBVIOUS
  <2>1. CASE UNCHANGED presenceVars
    <3>1. PresenceMore'
      BY <2>1 DEF presenceVars, redis, timers, presenceHistory, PresenceMore
    <3>2. joining' = joining /\ epoch' = epoch
      BY <2>1 DEF presenceVars, redis, sessionVars
    <3>3. Came' = Came
      BY <3>2 DEF Came
    <3> QED BY <3>1, <3>2, <3>3 DEF EpochCounts
  <2>2. CASE PresenceNext
    BY <2>2, MoreStays, EpochGoesOn DEF PresenceIInv
  <2> QED BY <2>1, <2>2
<1>3. PresenceIInv /\ PresenceMore /\ EpochCounts => PresenceTypeOK
  <2> SUFFICES ASSUME PresenceIInv, PresenceMore, EpochCounts PROVE PresenceTypeOK
    OBVIOUS
  <2>0. PresenceTypes
    BY DEF PresenceIInv
  <2>1. epoch \in 0..Cardinality(Sessions)
    <3>1. Came \in SUBSET Sessions
      BY DEF Came
    <3>2. /\ Cardinality(Came) \in Nat /\ Cardinality(Sessions) \in Nat
          /\ Cardinality(Came) <= Cardinality(Sessions)
      BY <3>1, FS_Subset, FS_CardinalityType, PresenceAssumption
    <3> QED BY <2>0, <3>2 DEF EpochCounts, PresenceTypes
  <2>2. crashes \in 0..MaxNodeCrashes
    BY <2>0, PresenceAssumption DEF PresenceMore, PresenceTypes
  <2>3. {listed, expired, stale, undone, ghost} \subseteq BOOLEAN
    BY DEF PresenceMore
  <2>4. sessions \subseteq Sessions /\ gc \in {"idle", "scard", "drop"}
    BY DEF PresenceMore
  <2>5. {pref, key} \subseteq Preferences
    BY <2>0 DEF PresenceTypes
  <2> QED BY <2>0, <2>1, <2>2, <2>3, <2>4, <2>5
          DEF PresenceTypes, PresenceTypeOK, JoinRows, LeaveSteps, FinRows, PatchRows
<1> QED BY <1>1, <1>2, <1>3, PresenceAlways, PTL DEF PresenceSpec

-----------------------------------------------------------------------------
(* Typing. *)

Emitters == [on : BOOLEAN, idle : Nat]

TypingTypes ==
  /\ now \in Nat /\ drops \in Nat
  /\ emitter \in [Typers -> Emitters] /\ link \in [Typers -> {"up", "lost", "down"}]
  /\ starting \in [Typers -> {"no", "sent", "taken"}]
  /\ zset \in [Typers -> Nat] /\ shown \in [Typers -> Nat] /\ pinged \in [Typers -> Nat]

\* A start that is under way was sent in this tick; a score is for a TTL after the
\* last start at most, and what is shown for less than two.
StartsAreFresh ==
  \A u \in Typers : pinged[u] <= now /\ (starting[u] # "no" => pinged[u] = now)
ScoresAreShort == \A u \in Typers : zset[u] <= pinged[u] + Ttl
ShownIsShort ==
  \A u \in Typers : shown[u] # 0 => now <= shown[u] /\ shown[u] < pinged[u] + 2 * Ttl

\* Somebody answers for a start under way: the emitter will still stop, its stop is
\* under way, or the stop was not heard.
Answered(u) == emitter[u].on \/ u \in stopping \cup unheard
StartsAreAnswered == \A u \in Typers : starting[u] # "no" => Answered(u)

\* Who is stopped is no member; who is no member is not shown when every list was
\* sent; a connection is lost at the price of a drop.
StoppedLeft == \A u \in Typers : starting[u] # "no" \/ Answered(u) \/ zset[u] = 0
OnlyMembersShown == drops = 0 /\ ~batching => \A u \in Typers : zset[u] = 0 => shown[u] = 0
LinksCost == \A u \in Typers : link[u] # "up" => drops # 0

TypingIInv ==
  /\ TypingTypes /\ StartsAreFresh /\ ScoresAreShort /\ ShownIsShort
  /\ StartsAreAnswered /\ StoppedLeft /\ OnlyMembersShown /\ LinksCost

\* The invariant holds when nobody types.
LEMMA TypingInitHolds == TypingInit => TypingIInv
<1> SUFFICES ASSUME TypingInit PROVE TypingIInv
  OBVIOUS
<1> USE TypingAssumption DEF TypingInit
<1>1. TypingTypes
  BY DEF TypingTypes, Emitters, Still
<1>2. StartsAreFresh /\ ScoresAreShort /\ ShownIsShort /\ StartsAreAnswered /\ StoppedLeft
  BY DEF StartsAreFresh, ScoresAreShort, ShownIsShort, StartsAreAnswered, StoppedLeft
<1>3. OnlyMembersShown /\ LinksCost
  BY DEF OnlyMembersShown, LinksCost
<1> QED BY <1>1, <1>2, <1>3 DEF TypingIInv

\* capVisible selects members, the one that is preferred among them.
LEMMA CapVisibleSelects ==
  ASSUME NEW S, NEW p, p \cap S # {} => p \subseteq S
  PROVE  CapVisible(S, p) \subseteq S
BY DEF CapVisible, First

\* What is shown after a list of members was sent, put off or dropped.
LEMMA ListEffects ==
  ASSUME TypingTypes, ScoresAreShort', ShownIsShort, pinged' = pinged, now' = now,
         zset' \in [Typers -> Nat],
         NEW names \in SUBSET Valid(zset'), OnTypersChanged(names) \/ (Store(names) /\ drops' = drops)
  PROVE  /\ drops' \in Nat /\ (drops' = 0 => drops = 0)
         /\ shown' \in [Typers -> Nat] /\ ShownIsShort'
         /\ (OnTypersChanged(names) => OnlyMembersShown')
         /\ (Store(names) => OnlyMembersShown')
<1>0. /\ now \in Nat /\ drops \in Nat /\ Ttl \in Nat \ {0} /\ pinged \in [Typers -> Nat]
      /\ shown \in [Typers -> Nat] /\ zset' \in [Typers -> Nat]
  BY TypingAssumption DEF TypingTypes
<1>1. names \subseteq Typers /\ \A u \in names : zset'[u] > now /\ zset'[u] <= pinged[u] + Ttl
  BY DEF Valid, ScoresAreShort
<1>2. ASSUME Store(names)
      PROVE  shown' \in [Typers -> Nat] /\ ShownIsShort' /\ OnlyMembersShown'
  <2>1. shown' = [u \in Typers |-> IF u \in names THEN now + Ttl ELSE 0]
    BY <1>2 DEF Store
  <2>2. shown' \in [Typers -> Nat]
    BY <1>0, <2>1
  <2>3. \A u \in Typers : shown'[u] # 0 => u \in names /\ shown'[u] = now + Ttl
    BY <2>1
  <2>4. ShownIsShort'
    BY <1>0, <1>1, <2>3 DEF ShownIsShort
  <2>5. OnlyMembersShown'
    BY <1>0, <1>1, <2>3 DEF OnlyMembersShown
  <2> QED BY <2>2, <2>4, <2>5
<1>3. ASSUME UNCHANGED shown PROVE shown' \in [Typers -> Nat] /\ ShownIsShort'
  BY <1>0, <1>3 DEF ShownIsShort
<1>4. ASSUME OnTypersChanged(names)
      PROVE  \/ Store(names) /\ drops' = drops
             \/ UNCHANGED shown /\ batching' /\ drops' = drops
             \/ UNCHANGED shown /\ drops' = drops + 1
  <2>1. CASE Cardinality(names) >= Cap
    <3>1. batching' = (Cardinality(names) >= Cap)
      BY <1>4 DEF OnTypersChanged
    <3>2. batching'
      BY ONLY <2>1, <3>1, Zenon
    <3> QED BY <1>4, <2>1, <3>2 DEF OnTypersChanged
  <2>2. CASE ~(Cardinality(names) >= Cap)
    BY <1>4, <2>2 DEF OnTypersChanged
  <2> QED BY <2>1, <2>2
<1>5. (UNCHANGED shown /\ batching') \/ (UNCHANGED shown /\ drops' = drops + 1) => OnlyMembersShown'
        \/ ~UNCHANGED shown
  BY <1>0 DEF OnlyMembersShown
<1> QED BY <1>0, <1>2, <1>3, <1>4, <1>5

\* No step of an emitter, of the service, of a connection or of the clock breaks the
\* invariant.
LEMMA TypingStepHolds == TypingIInv /\ TypingNext => TypingIInv'
<1> SUFFICES ASSUME TypingIInv, TypingNext PROVE TypingIInv'
  OBVIOUS
<1>0. /\ TypingTypes /\ StartsAreFresh /\ ScoresAreShort /\ ShownIsShort
      /\ StartsAreAnswered /\ StoppedLeft /\ OnlyMembersShown /\ LinksCost
      /\ now \in Nat /\ drops \in Nat /\ Ttl \in Nat \ {0}
      /\ emitter \in [Typers -> Emitters] /\ link \in [Typers -> {"up", "lost", "down"}]
      /\ starting \in [Typers -> {"no", "sent", "taken"}]
      /\ zset \in [Typers -> Nat] /\ shown \in [Typers -> Nat] /\ pinged \in [Typers -> Nat]
  BY TypingAssumption DEF TypingIInv, TypingTypes
<1>e. \A u \in Typers : emitter[u] \in Emitters
  BY <1>0
<1>1. ASSUME NEW u \in Typers, Input(u) PROVE TypingIInv'
  <2>1. /\ emitter'[u].on /\ \A v \in Typers : v # u => emitter'[v] = emitter[v]
        /\ emitter' \in [Typers -> Emitters]
    <3>1. CASE emitter[u].on /\ pinged[u] = now
      <4>1. emitter' = [emitter EXCEPT ![u].idle = now + Ttl]
        BY <1>1, <3>1 DEF Input
      <4>2. emitter'[u] = [emitter[u] EXCEPT !.idle = now + Ttl]
        BY <1>0, <4>1
      <4>3. emitter'[u].on = emitter[u].on /\ emitter'[u] \in Emitters
        BY <1>0, <1>e, <4>2 DEF Emitters
      <4> QED BY <1>0, <3>1, <4>1, <4>3
    <3>2. CASE ~(emitter[u].on /\ pinged[u] = now)
      <4>1. emitter' = [emitter EXCEPT ![u] = [on |-> TRUE, idle |-> now + Ttl]]
        BY <1>1, <3>2 DEF Input
      <4>2. [on |-> TRUE, idle |-> now + Ttl] \in Emitters
        BY <1>0 DEF Emitters
      <4>3. emitter'[u].on = TRUE
        BY <1>0, <4>1
      <4>4. emitter'[u].on
        BY ONLY <4>3, Zenon
      <4> QED BY <1>0, <4>1, <4>2, <4>4
    <3> QED BY <3>1, <3>2
  <2>2. /\ \A v \in Typers : v # u => starting'[v] = starting[v] /\ pinged'[v] = pinged[v]
        /\ pinged'[u] = now
        /\ starting' \in [Typers -> {"no", "sent", "taken"}] /\ pinged' \in [Typers -> Nat]
        /\ UNCHANGED <<now, link, stopping, dropping, zset, throttled, batching, shown, drops,
                       unheard>>
    BY <1>0, <1>1 DEF Input
  <2>3. TypingTypes'
    BY <1>0, <2>1, <2>2 DEF TypingTypes
  <2>4. StartsAreFresh' /\ ScoresAreShort' /\ ShownIsShort'
    BY <1>0, <2>2 DEF StartsAreFresh, ScoresAreShort, ShownIsShort
  <2>5. StartsAreAnswered' /\ StoppedLeft'
    BY <1>0, <2>1, <2>2 DEF StartsAreAnswered, StoppedLeft, Answered
  <2>6. OnlyMembersShown' /\ LinksCost'
    BY <1>0, <2>2 DEF OnlyMembersShown, LinksCost
  <2> QED BY <2>3, <2>4, <2>5, <2>6 DEF TypingIInv
<1>2. ASSUME NEW u \in Typers, EmitStop(u) PROVE TypingIInv'
  <2>1. /\ \A v \in Typers : v # u => emitter'[v] = emitter[v]
        /\ u \in stopping' \cup unheard' /\ stopping \subseteq stopping' /\ unheard \subseteq unheard'
        /\ UNCHANGED <<now, link, starting, dropping, zset, throttled, batching, shown, drops,
                       pinged>>
    BY <1>0, <1>2 DEF EmitStop
  <2>2. emitter' \in [Typers -> Emitters]
    BY <1>0, <1>2 DEF EmitStop, Still, Emitters
  <2>3. \A v \in Typers : Answered(v) => Answered(v)'
    BY <2>1 DEF Answered
  <2> QED BY <1>0, <2>1, <2>2, <2>3
          DEF TypingIInv, TypingTypes, StartsAreFresh, ScoresAreShort, ShownIsShort,
              StartsAreAnswered, StoppedLeft, OnlyMembersShown, LinksCost
<1>3. ASSUME NEW u \in Typers, TakeThrottle(u) PROVE TypingIInv'
  <2>1. /\ starting[u] = "sent" /\ \A v \in Typers : v # u => starting'[v] = starting[v]
        /\ starting' \in [Typers -> {"no", "sent", "taken"}]
        /\ UNCHANGED <<now, emitter, link, stopping, dropping, zset, batching, shown, drops,
                       pinged, unheard>>
    BY <1>0, <1>3 DEF TakeThrottle
  <2>2. \A v \in Typers : Answered(v) <=> Answered(v)'
    BY <2>1 DEF Answered
  <2>3. Answered(u)
    BY <1>0, <2>1 DEF StartsAreAnswered
  <2> QED BY <1>0, <2>1, <2>2, <2>3
          DEF TypingIInv, TypingTypes, StartsAreFresh, ScoresAreShort, ShownIsShort,
              StartsAreAnswered, StoppedLeft, OnlyMembersShown, LinksCost
<1>4. ASSUME NEW u \in Typers, Ping(u) PROVE TypingIInv'
  <2>1. /\ starting[u] = "taken" /\ \A v \in Typers : v # u => starting'[v] = starting[v]
        /\ starting' \in [Typers -> {"no", "sent", "taken"}]
        /\ UNCHANGED <<now, emitter, link, stopping, dropping, throttled, pinged, unheard>>
        /\ zset' = Renewed(u) /\ OnTypersChanged(CapVisible(Valid(zset'), {u}))
    BY <1>0, <1>4 DEF Ping
  <2>2. /\ zset' \in [Typers -> Nat] /\ zset'[u] = now + Ttl
        /\ \A v \in Typers : v # u => zset'[v] \in {0, zset[v]}
    BY <1>0, <2>1 DEF Renewed
  <2>3. pinged[u] = now
    BY <1>0, <2>1 DEF StartsAreFresh
  <2>4. ScoresAreShort'
    BY <1>0, <2>1, <2>2, <2>3 DEF ScoresAreShort
  <2>5. CapVisible(Valid(zset'), {u}) \in SUBSET Valid(zset')
    <3>1. u \in Valid(zset')
      BY <1>0, <2>2 DEF Valid
    <3> QED BY <3>1, CapVisibleSelects
  <2>6. drops' \in Nat /\ (drops' = 0 => drops = 0) /\ shown' \in [Typers -> Nat]
        /\ ShownIsShort' /\ OnlyMembersShown'
    BY <1>0, <2>1, <2>2, <2>4, <2>5, ListEffects
  <2>7. \A v \in Typers : Answered(v) <=> Answered(v)'
    BY <2>1 DEF Answered
  <2>8. Answered(u)
    BY <1>0, <2>1 DEF StartsAreAnswered
  <2>9. TypingTypes'
    BY <1>0, <2>1, <2>2, <2>6 DEF TypingTypes
  <2>10. StartsAreFresh' /\ StartsAreAnswered' /\ LinksCost'
    BY <1>0, <2>1, <2>6, <2>7, <2>8 DEF StartsAreFresh, StartsAreAnswered, LinksCost
  <2>11. StoppedLeft'
    BY <1>0, <2>1, <2>2, <2>7, <2>8 DEF StoppedLeft
  <2> QED BY <2>4, <2>6, <2>9, <2>10, <2>11 DEF TypingIInv
<1>5. ASSUME NEW u \in Typers, Stop(u) PROVE TypingIInv'
  <2>1. /\ zset' = [zset EXCEPT ![u] = 0] /\ stopping' = stopping \ {u}
        /\ unheard' = IF starting[u] # "no" THEN unheard \cup {u} ELSE unheard \ {u}
        /\ IF zset[u] # 0 THEN OnTypersChanged(CapVisible(Valid(zset'), {}))
           ELSE UNCHANGED <<batching, shown, drops>>
        /\ UNCHANGED <<now, emitter, link, starting, dropping, pinged>>
    BY <1>0, <1>5 DEF Stop
  <2>2. /\ zset' \in [Typers -> Nat] /\ zset'[u] = 0
        /\ \A v \in Typers : v # u => zset'[v] = zset[v]
    BY <1>0, <2>1
  <2>3. ScoresAreShort'
    BY <1>0, <2>1, <2>2 DEF ScoresAreShort
  <2>4. CapVisible(Valid(zset'), {}) \in SUBSET Valid(zset')
    BY CapVisibleSelects
  <2>5. drops' \in Nat /\ (drops' = 0 => drops = 0) /\ shown' \in [Typers -> Nat]
        /\ ShownIsShort' /\ OnlyMembersShown'
    <3>1. CASE zset[u] # 0
      BY <1>0, <2>1, <2>2, <2>3, <2>4, <3>1, ListEffects
    <3>2. CASE zset[u] = 0
      <4>1. zset' = zset /\ UNCHANGED <<batching, shown, drops>>
        BY <1>0, <2>1, <3>2
      <4> QED BY <1>0, <2>1, <4>1 DEF ShownIsShort, OnlyMembersShown
    <3> QED BY <3>1, <3>2
  <2>6. \A v \in Typers : v # u => (Answered(v) <=> Answered(v)')
    BY <2>1 DEF Answered
  <2>7. starting[u] # "no" => Answered(u)'
    BY <2>1 DEF Answered
  <2>8. TypingTypes'
    BY <1>0, <2>1, <2>2, <2>5 DEF TypingTypes
  <2>9. StartsAreFresh' /\ StartsAreAnswered' /\ LinksCost'
    BY <1>0, <2>1, <2>5, <2>6, <2>7 DEF StartsAreFresh, StartsAreAnswered, LinksCost
  <2>10. StoppedLeft'
    BY <1>0, <2>1, <2>2, <2>6 DEF StoppedLeft
  <2> QED BY <2>3, <2>5, <2>8, <2>9, <2>10 DEF TypingIInv
<1>6. ASSUME NEW u \in Typers, LinkLost(u) \/ LinkUp(u) PROVE TypingIInv'
  <2>1. /\ link' \in [Typers -> {"up", "lost", "down"}] /\ drops' \in Nat
        /\ (drops' = 0 => drops = 0 /\ \A v \in Typers : link'[v] \in {"up", link[v]})
        /\ UNCHANGED <<now, emitter, starting, stopping, dropping, zset, throttled, batching,
                       shown, pinged, unheard>>
    BY <1>0, <1>6 DEF LinkLost, LinkUp
  <2>2. \A v \in Typers : Answered(v) <=> Answered(v)'
    BY <2>1 DEF Answered
  <2> QED BY <1>0, <2>1, <2>2
          DEF TypingIInv, TypingTypes, StartsAreFresh, ScoresAreShort, ShownIsShort,
              StartsAreAnswered, StoppedLeft, OnlyMembersShown, LinksCost
<1>7. ASSUME NEW u \in Typers, DropForUser(u) PROVE TypingIInv'
  <2>1. /\ drops # 0 /\ link' \in [Typers -> {"up", "lost", "down"}]
        /\ zset' \in [Typers -> Nat] /\ \A v \in Typers : zset'[v] \in {0, zset[v]}
        /\ UNCHANGED <<now, emitter, starting, stopping, throttled, batching, shown, drops, pinged,
                       unheard>>
    BY <1>0, <1>7 DEF DropForUser, LinksCost
  <2>2. \A v \in Typers : Answered(v) <=> Answered(v)'
    BY <2>1 DEF Answered
  <2> QED BY <1>0, <2>1, <2>2
          DEF TypingIInv, TypingTypes, StartsAreFresh, ScoresAreShort, ShownIsShort,
              StartsAreAnswered, StoppedLeft, OnlyMembersShown, LinksCost
<1>8. ASSUME NEW names \in SUBSET Valid(zset),
             OnTypersChanged(names) \/ (Store(names) /\ drops' = drops),
             UNCHANGED <<now, emitter, link, starting, stopping, zset, throttled, pinged, unheard>>
      PROVE  TypingIInv'
  <2>1. ScoresAreShort'
    BY <1>0, <1>8 DEF ScoresAreShort
  <2>2. Valid(zset') = Valid(zset)
    BY <1>8 DEF Valid
  <2>3. names \in SUBSET Valid(zset') /\ zset' \in [Typers -> Nat] /\ pinged' = pinged /\ now' = now
    BY <1>0, <1>8, <2>2
  <2>4. drops' \in Nat /\ (drops' = 0 => drops = 0) /\ shown' \in [Typers -> Nat]
        /\ ShownIsShort' /\ OnlyMembersShown'
    BY <1>0, <1>8, <2>1, <2>3, ListEffects
  <2>5. \A v \in Typers : Answered(v) <=> Answered(v)'
    BY <1>8 DEF Answered
  <2> QED BY <1>0, <1>8, <2>1, <2>4, <2>5
          DEF TypingIInv, TypingTypes, StartsAreFresh, StartsAreAnswered, StoppedLeft, LinksCost
<1>9. ASSUME NEW u \in Typers, Dropped(u) PROVE TypingIInv'
  <2>1. CapVisible(Valid(zset), {}) \in SUBSET Valid(zset)
    BY CapVisibleSelects
  <2> QED BY <1>8, <1>9, <2>1 DEF Dropped
<1>10. ASSUME BatchTick PROVE TypingIInv'
  <2>1. CapVisible(Valid(zset), {}) \in SUBSET Valid(zset)
    BY CapVisibleSelects
  <2> QED BY <1>8, <1>10, <2>1 DEF BatchTick
<1>11. ASSUME NEW u \in Typers, ExpireUser(u) PROVE TypingIInv'
  <2>1. /\ shown' \in [Typers -> Nat] /\ \A v \in Typers : shown'[v] \in {0, shown[v]}
        /\ UNCHANGED <<now, emitter, link, starting, stopping, dropping, zset, throttled, batching,
                       drops, pinged, unheard>>
    BY <1>0, <1>11 DEF ExpireUser
  <2>2. \A v \in Typers : Answered(v) <=> Answered(v)'
    BY <2>1 DEF Answered
  <2> QED BY <1>0, <2>1, <2>2
          DEF TypingIInv, TypingTypes, StartsAreFresh, ScoresAreShort, ShownIsShort,
              StartsAreAnswered, StoppedLeft, OnlyMembersShown, LinksCost
<1>12. ASSUME Tick PROVE TypingIInv'
  <2>1. /\ now' = now + 1
        /\ \A u \in Typers : starting[u] = "no" /\ (shown[u] = 0 \/ shown[u] > now)
        /\ UNCHANGED <<emitter, link, starting, stopping, dropping, zset, batching, shown, drops,
                       pinged, unheard>>
    BY <1>12 DEF Tick, Quiet
  <2>2. \A v \in Typers : Answered(v) <=> Answered(v)'
    BY <2>1 DEF Answered
  <2>3. StartsAreFresh' /\ ShownIsShort'
    BY <1>0, <2>1 DEF StartsAreFresh, ShownIsShort
  <2> QED BY <1>0, <2>1, <2>2, <2>3
          DEF TypingIInv, TypingTypes, ScoresAreShort, StartsAreAnswered, StoppedLeft,
              OnlyMembersShown, LinksCost
<1> QED BY <1>1, <1>2, <1>3, <1>4, <1>5, <1>6, <1>7, <1>9, <1>10, <1>11, <1>12 DEF TypingNext

\* TypingIInv is an invariant of Typing.
LEMMA TypingAlways == TypingSpec => []TypingIInv
<1>1. TypingIInv /\ [TypingNext]_typingVars => TypingIInv'
  <2> SUFFICES ASSUME TypingIInv, [TypingNext]_typingVars PROVE TypingIInv'
    OBVIOUS
  <2>1. CASE UNCHANGED typingVars
    BY <2>1 DEF typingVars, TypingIInv, TypingTypes, StartsAreFresh, ScoresAreShort, ShownIsShort,
                StartsAreAnswered, StoppedLeft, OnlyMembersShown, LinksCost, Answered
  <2> QED BY <2>1, TypingStepHolds
<1> QED BY <1>1, TypingInitHolds, PTL DEF TypingSpec

\* TypingSound: however a user falls silent, it is shown for less than two TTLs after
\* its last start, and who is stopped is no member any more nor shown, for every
\* number of typers, every cap and every TTL (TypingService, useTypingStore).
THEOREM TypingHolds == TypingSpec => []TypingSound
<1>1. TypingIInv => TypingSound
  <2> SUFFICES ASSUME TypingIInv PROVE TypingSound
    OBVIOUS
  <2>0. /\ now \in Nat /\ Ttl \in Nat \ {0} /\ drops \in Nat
        /\ zset \in [Typers -> Nat] /\ shown \in [Typers -> Nat] /\ pinged \in [Typers -> Nat]
    BY TypingAssumption DEF TypingIInv, TypingTypes
  <2>1. StaleIsBounded
    BY <2>0 DEF TypingIInv, ShownIsShort, StaleIsBounded
  <2>2. StoppedIsGone
    BY <2>0 DEF TypingIInv, StoppedLeft, OnlyMembersShown, Answered, StoppedIsGone
  <2> QED BY <2>1, <2>2 DEF TypingSound
<1> QED BY <1>1, TypingAlways, PTL

-----------------------------------------------------------------------------
(* The types of Typing, and the cap of the list. *)

\* First(S, n) has n members at most: each has a rank of its own below n.
LEMMA FirstIsShort ==
  ASSUME NEW S \in SUBSET Nat, IsFiniteSet(S), NEW n \in Nat
  PROVE  IsFiniteSet(First(S, n)) /\ Cardinality(First(S, n)) \in Nat
         /\ Cardinality(First(S, n)) <= n
<1> DEFINE Below(x) == {y \in S : y < x}
           rank == [x \in First(S, n) |-> Cardinality(Below(x))]
<1>1. \A x \in S : IsFiniteSet(Below(x)) /\ Cardinality(Below(x)) \in Nat
  <2>1. \A x \in S : Below(x) \in SUBSET S
    OBVIOUS
  <2> QED BY <2>1, FS_Subset, FS_CardinalityType
<1>2. First(S, n) \subseteq S /\ \A x \in First(S, n) : Cardinality(Below(x)) < n
  BY DEF First
<1>3. ASSUME NEW x \in S, NEW z \in S, x < z PROVE Cardinality(Below(x)) # Cardinality(Below(z))
  <2>1. x \in Below(z) /\ x \notin Below(x)
    BY <1>3
  <2>2. Below(x) \in SUBSET Below(z)
    <3>1. \A y \in S : y < x => y < z
      BY <1>3
    <3> QED BY <3>1
  <2>3. IsFiniteSet(Below(z)) /\ Below(x) # Below(z)
    BY <1>1, <2>1
  <2> HIDE DEF Below
  <2> QED BY <2>2, <2>3, FS_Subset
<1>4. \A x, z \in S : Cardinality(Below(x)) = Cardinality(Below(z)) => x = z
  <2> SUFFICES ASSUME NEW x \in S, NEW z \in S, Cardinality(Below(x)) = Cardinality(Below(z))
               PROVE  x = z
    OBVIOUS
  <2>1. ~(x < z) /\ ~(z < x)
    BY <1>3
  <2>2. x \in Nat /\ z \in Nat
    OBVIOUS
  <2> QED BY ONLY <2>1, <2>2
<1> HIDE DEF Below
<1>5. rank \in [First(S, n) -> 0..(n - 1)]
  <2>1. ASSUME NEW x \in First(S, n) PROVE Cardinality(Below(x)) \in 0..(n - 1)
    <3>1. Cardinality(Below(x)) \in Nat /\ Cardinality(Below(x)) < n
      BY <1>1, <1>2
    <3> QED BY ONLY n \in Nat, <3>1
  <2> QED BY <2>1
<1>6. rank \in Injection(First(S, n), 0..(n - 1))
  <2>1. \A x, z \in First(S, n) : rank[x] = rank[z] => x = z
    BY <1>2, <1>4
  <2> HIDE DEF rank
  <2> QED BY <1>5, <2>1, Fun_IsInj
<1>7. IsFiniteSet(0..(n - 1)) /\ Cardinality(0..(n - 1)) = n
  BY FS_Interval
<1> QED BY <1>6, <1>7, FS_Injection, FS_CardinalityType

\* capVisible returns Cap users at most, the preferred one among them.
LEMMA CapVisibleIsShort ==
  ASSUME NEW S \in SUBSET Typers, NEW p, p = {} \/ \E u \in S : p = {u}
  PROVE  Cardinality(CapVisible(S, p)) \in Nat /\ Cardinality(CapVisible(S, p)) <= Cap
<1>1. S \in SUBSET Nat /\ IsFiniteSet(S) /\ Cap \in Nat \ {0} /\ Cardinality(S) \in Nat
  BY FS_Subset, FS_CardinalityType, TypingAssumption
<1>2. CASE Cardinality(S) <= Cap
  BY <1>1, <1>2 DEF CapVisible
<1>3. CASE ~(Cardinality(S) <= Cap) /\ p \cap S = {}
  BY <1>1, <1>3, FirstIsShort DEF CapVisible
<1>4. CASE ~(Cardinality(S) <= Cap) /\ p \cap S # {}
  <2>1. PICK u \in S : p = {u}
    BY <1>4
  <2>2. S \ p \in SUBSET S
    OBVIOUS
  <2>3. S \ p \in SUBSET Nat /\ IsFiniteSet(S \ p) /\ Cap - 1 \in Nat
    <3>1. IsFiniteSet(S \ p)
      BY <1>1, <2>2, FS_Subset
    <3>2. S \ p \in SUBSET Nat
      BY <1>1, <2>2
    <3>3. Cap - 1 \in Nat
      BY <1>1
    <3> QED BY <3>1, <3>2, <3>3
  <2> DEFINE rest == First(S \ p, Cap - 1)
  <2>4. IsFiniteSet(rest) /\ Cardinality(rest) \in Nat /\ Cardinality(rest) <= Cap - 1
    BY <2>3, FirstIsShort
  <2>5. CapVisible(S, p) = rest \cup {u}
    BY <1>4, <2>1 DEF CapVisible
  <2> HIDE DEF rest
  <2>6. /\ IsFiniteSet(rest \cup {u})
        /\ Cardinality(rest \cup {u}) = IF u \in rest THEN Cardinality(rest) ELSE Cardinality(rest) + 1
    BY <2>4, FS_AddElement
  <2> QED BY <1>1, <2>4, <2>5, <2>6
<1> QED BY <1>2, <1>3, <1>4

ShownUsers == {u \in Typers : shown[u] # 0}

TypingMore ==
  /\ now >= 1 /\ now <= MaxTime /\ drops <= MaxDrops /\ batching \in BOOLEAN
  /\ stopping \subseteq Typers /\ dropping \subseteq Typers /\ throttled \subseteq Typers
  /\ unheard \subseteq Typers
  /\ \A u \in Typers : emitter[u].idle <= MaxTime + Ttl /\ shown[u] <= now + Ttl
  /\ Cardinality(ShownUsers) <= Cap

\* A list that the observer is sent is one of Cap users at most.
LEMMA StoreIsShort ==
  ASSUME TypingTypes, TypingMore, now' = now, NEW names \in SUBSET Typers,
         Cardinality(names) <= Cap, OnTypersChanged(names) \/ (Store(names) /\ drops' = drops)
  PROVE  /\ drops' <= MaxDrops
         /\ \A u \in Typers : shown'[u] <= now' + Ttl
         /\ Cardinality(ShownUsers') <= Cap
<1>0. /\ now \in Nat /\ drops \in Nat /\ Ttl \in Nat \ {0} /\ Cap \in Nat \ {0}
      /\ drops <= MaxDrops /\ MaxDrops \in Nat
      /\ \A u \in Typers : shown[u] <= now + Ttl
      /\ Cardinality(ShownUsers) <= Cap
  BY TypingAssumption DEF TypingTypes, TypingMore
<1>1. drops' <= MaxDrops
  BY <1>0 DEF OnTypersChanged
<1>2. CASE Store(names)
  <2>1. \A u \in Typers : shown'[u] = IF u \in names THEN now + Ttl ELSE 0
    BY <1>2 DEF Store
  <2>2. \A u \in Typers : shown'[u] <= now' + Ttl
    BY <1>0, <2>1
  <2>3. ShownUsers' = names
    BY <1>0, <2>1 DEF ShownUsers
  <2> QED BY <1>1, <2>2, <2>3
<1>3. CASE UNCHANGED shown
  <2>1. ShownUsers' = ShownUsers
    BY <1>3 DEF ShownUsers
  <2> QED BY <1>0, <1>1, <1>3, <2>1
<1> QED BY <1>2, <1>3 DEF OnTypersChanged

\* No step leaves the types.
LEMMA TypingMoreStays ==
  ASSUME TypingIInv, TypingMore, TypingNext
  PROVE  TypingMore'
<1>0. /\ TypingTypes /\ now \in Nat /\ drops \in Nat /\ Ttl \in Nat \ {0} /\ MaxTime \in Nat \ {0}
      /\ emitter \in [Typers -> Emitters] /\ shown \in [Typers -> Nat]
      /\ \A u \in Typers : emitter[u] \in Emitters
  BY TypingAssumption DEF TypingIInv, TypingTypes
<1>m. /\ now >= 1 /\ now <= MaxTime /\ drops <= MaxDrops /\ batching \in BOOLEAN
      /\ stopping \subseteq Typers /\ dropping \subseteq Typers /\ throttled \subseteq Typers
      /\ unheard \subseteq Typers
      /\ \A u \in Typers : emitter[u].idle <= MaxTime + Ttl /\ shown[u] <= now + Ttl
      /\ Cardinality(ShownUsers) <= Cap
  BY DEF TypingMore
<1>1. ASSUME NEW u \in Typers, Input(u) PROVE TypingMore'
  <2>1. /\ UNCHANGED <<now, stopping, dropping, throttled, batching, shown, drops, unheard>>
        /\ now < MaxTime
    BY <1>1 DEF Input
  <2>2. \A v \in Typers : emitter'[v].idle <= MaxTime + Ttl
    <3>1. CASE emitter[u].on /\ pinged[u] = now
      <4>1. emitter' = [emitter EXCEPT ![u].idle = now + Ttl]
        BY <1>1, <3>1 DEF Input
      <4>2. emitter'[u] = [emitter[u] EXCEPT !.idle = now + Ttl]
        BY <1>0, <4>1
      <4>3. emitter'[u].idle = now + Ttl
        BY <1>0, <4>2 DEF Emitters
      <4> QED BY <1>0, <1>m, <2>1, <4>1, <4>3
    <3>2. CASE ~(emitter[u].on /\ pinged[u] = now)
      <4>1. emitter' = [emitter EXCEPT ![u] = [on |-> TRUE, idle |-> now + Ttl]]
        BY <1>1, <3>2 DEF Input
      <4> QED BY <1>0, <1>m, <2>1, <4>1
    <3> QED BY <3>1, <3>2
  <2>3. ShownUsers' = ShownUsers
    BY <2>1 DEF ShownUsers
  <2> QED BY <1>m, <2>1, <2>2, <2>3 DEF TypingMore
<1>2. ASSUME NEW u \in Typers, EmitStop(u) PROVE TypingMore'
  <2>1. /\ UNCHANGED <<now, dropping, throttled, batching, shown, drops>>
        /\ stopping' \subseteq Typers /\ unheard' \subseteq Typers
    BY <1>m, <1>2 DEF EmitStop
  <2>2. \A v \in Typers : emitter'[v].idle <= MaxTime + Ttl
    BY <1>0, <1>m, <1>2 DEF EmitStop, Still
  <2>3. ShownUsers' = ShownUsers
    BY <2>1 DEF ShownUsers
  <2> QED BY <1>m, <2>1, <2>2, <2>3 DEF TypingMore
<1>3. ASSUME NEW u \in Typers, TakeThrottle(u) \/ LinkLost(u) \/ LinkUp(u) \/ DropForUser(u)
      PROVE  TypingMore'
  <2>1. /\ UNCHANGED <<now, emitter, stopping, batching, shown, unheard>>
        /\ dropping' \subseteq Typers /\ throttled' \subseteq Typers
    BY <1>m, <1>3 DEF TakeThrottle, LinkLost, LinkUp, DropForUser
  <2>2. drops' <= MaxDrops
    BY <1>0, <1>m, <1>3, TypingAssumption DEF TakeThrottle, LinkLost, LinkUp, DropForUser
  <2>3. ShownUsers' = ShownUsers
    BY <2>1 DEF ShownUsers
  <2> QED BY <1>m, <2>1, <2>2, <2>3 DEF TypingMore
<1>4. ASSUME NEW z, NEW p, p = {} \/ \E u \in Valid(z) : p = {u}, now' = now,
             \/ OnTypersChanged(CapVisible(Valid(z), p))
             \/ Store(CapVisible(Valid(z), p)) /\ drops' = drops
      PROVE  /\ drops' <= MaxDrops /\ Cardinality(ShownUsers') <= Cap
             /\ \A u \in Typers : shown'[u] <= now' + Ttl
  <2>1. Valid(z) \in SUBSET Typers
    BY DEF Valid
  <2>2. p \cap Valid(z) # {} => p \subseteq Valid(z)
    BY <1>4
  <2>3. CapVisible(Valid(z), p) \in SUBSET Typers
    BY <2>1, <2>2, CapVisibleSelects
  <2>4. Cardinality(CapVisible(Valid(z), p)) <= Cap
    BY <1>4, <2>1, CapVisibleIsShort
  <2> QED BY <1>0, <1>4, <2>3, <2>4, StoreIsShort
<1>b. ASSUME NEW names, OnTypersChanged(names) PROVE batching' \in BOOLEAN
  <2>1. batching' = (Cardinality(names) >= Cap)
    BY <1>b DEF OnTypersChanged
  <2> QED BY ONLY <2>1
<1>5. ASSUME NEW u \in Typers, Ping(u) PROVE TypingMore'
  <2>1. /\ zset' = Renewed(u) /\ OnTypersChanged(CapVisible(Valid(zset'), {u}))
        /\ UNCHANGED <<now, emitter, stopping, dropping, throttled, unheard>>
    BY <1>5 DEF Ping
  <2>2. u \in Valid(zset')
    BY <1>0, <2>1 DEF Renewed, Valid
  <2>3. /\ drops' <= MaxDrops /\ Cardinality(ShownUsers') <= Cap
        /\ \A v \in Typers : shown'[v] <= now' + Ttl
    BY <1>4, <2>1, <2>2
  <2>4. batching' \in BOOLEAN
    BY <1>b, <2>1
  <2> QED BY <1>m, <2>1, <2>3, <2>4 DEF TypingMore
<1>6. ASSUME NEW u \in Typers, Stop(u) PROVE TypingMore'
  <2>1. /\ UNCHANGED <<now, emitter, dropping>>
        /\ stopping' \subseteq Typers /\ throttled' \subseteq Typers /\ unheard' \subseteq Typers
    BY <1>m, <1>6 DEF Stop
  <2>2. CASE zset[u] # 0
    <3>1. OnTypersChanged(CapVisible(Valid(zset'), {}))
      BY <1>6, <2>2 DEF Stop
    <3>2. /\ drops' <= MaxDrops /\ Cardinality(ShownUsers') <= Cap
          /\ \A v \in Typers : shown'[v] <= now' + Ttl
      BY <1>4, <2>1, <3>1
    <3>3. batching' \in BOOLEAN
      BY <1>b, <3>1
    <3> QED BY <1>m, <2>1, <3>2, <3>3 DEF TypingMore
  <2>3. CASE zset[u] = 0
    <3>1. UNCHANGED <<batching, shown, drops>>
      BY <1>6, <2>3 DEF Stop
    <3>2. ShownUsers' = ShownUsers
      BY <3>1 DEF ShownUsers
    <3> QED BY <1>m, <2>1, <3>1, <3>2 DEF TypingMore
  <2> QED BY <2>2, <2>3
<1>7. ASSUME NEW u \in Typers, Dropped(u) PROVE TypingMore'
  <2>1. /\ OnTypersChanged(CapVisible(Valid(zset), {})) /\ dropping' \subseteq Typers
        /\ UNCHANGED <<now, emitter, stopping, throttled, unheard>>
    BY <1>m, <1>7 DEF Dropped
  <2>2. /\ drops' <= MaxDrops /\ Cardinality(ShownUsers') <= Cap
        /\ \A v \in Typers : shown'[v] <= now' + Ttl
    BY <1>4, <2>1
  <2>3. batching' \in BOOLEAN
    BY <1>b, <2>1
  <2> QED BY <1>m, <2>1, <2>2, <2>3 DEF TypingMore
<1>8. ASSUME BatchTick PROVE TypingMore'
  <2>1. /\ Store(CapVisible(Valid(zset), {}))
        /\ batching' = (Cardinality(CapVisible(Valid(zset), {})) >= Cap)
        /\ UNCHANGED <<now, emitter, stopping, dropping, throttled, drops, unheard>>
    BY <1>8 DEF BatchTick
  <2>2. /\ drops' <= MaxDrops /\ Cardinality(ShownUsers') <= Cap
        /\ \A v \in Typers : shown'[v] <= now' + Ttl
    BY <1>4, <2>1
  <2>3. batching' \in BOOLEAN
    BY ONLY <2>1
  <2> QED BY <1>m, <2>1, <2>2, <2>3 DEF TypingMore
<1>9. ASSUME NEW u \in Typers, ExpireUser(u) PROVE TypingMore'
  <2>1. /\ shown' = [shown EXCEPT ![u] = 0]
        /\ UNCHANGED <<now, emitter, stopping, dropping, throttled, batching, drops, unheard>>
    BY <1>9 DEF ExpireUser
  <2>2. \A v \in Typers : shown'[v] <= now' + Ttl
    BY <1>0, <1>m, <2>1
  <2>3. ShownUsers \in SUBSET Typers /\ ShownUsers' \in SUBSET ShownUsers
    BY <1>0, <2>1 DEF ShownUsers
  <2>4. IsFiniteSet(ShownUsers) /\ IsFiniteSet(ShownUsers')
    BY <2>3, FS_Subset, TypingAssumption
  <2>5. Cardinality(ShownUsers') <= Cardinality(ShownUsers)
    BY <2>3, <2>4, FS_Subset
  <2>6. Cardinality(ShownUsers') <= Cap
    BY <1>m, <2>4, <2>5, FS_CardinalityType, TypingAssumption
  <2> QED BY <1>m, <2>1, <2>2, <2>6 DEF TypingMore
<1>10. ASSUME Tick PROVE TypingMore'
  <2>1. /\ now' = now + 1 /\ now < MaxTime /\ throttled' = {}
        /\ UNCHANGED <<emitter, stopping, dropping, batching, shown, drops, unheard>>
    BY <1>10 DEF Tick
  <2>2. \A v \in Typers : shown'[v] <= now' + Ttl
    BY <1>0, <1>m, <2>1
  <2>3. ShownUsers' = ShownUsers
    BY <2>1 DEF ShownUsers
  <2>4. now' >= 1 /\ now' <= MaxTime
    BY <1>0, <1>m, <2>1
  <2> QED BY <1>m, <2>1, <2>2, <2>3, <2>4 DEF TypingMore
<1> QED BY <1>1, <1>2, <1>3, <1>5, <1>6, <1>7, <1>8, <1>9, <1>10 DEF TypingNext

\* Typing keeps its types, and never shows more than Cap users.
LEMMA TypingTypesOK == TypingSpec => []TypingTypeOK
<1>1. TypingInit => TypingMore
  <2> SUFFICES ASSUME TypingInit PROVE TypingMore
    OBVIOUS
  <2>1. \A u \in Typers : emitter[u].idle = 0 /\ shown[u] = 0
    BY DEF TypingInit, Still
  <2>2. ShownUsers = {}
    BY <2>1 DEF ShownUsers
  <2>3. Cardinality(ShownUsers) <= Cap
    BY <2>2, FS_EmptySet, TypingAssumption
  <2>4. /\ now = 1 /\ batching = FALSE /\ drops = 0 /\ stopping = {} /\ dropping = {}
        /\ throttled = {} /\ unheard = {}
    BY DEF TypingInit
  <2>5. now >= 1 /\ now <= MaxTime /\ drops <= MaxDrops
    BY <2>4, TypingAssumption
  <2>6. \A u \in Typers : emitter[u].idle <= MaxTime + Ttl /\ shown[u] <= now + Ttl
    <3>1. 0 <= MaxTime + Ttl /\ 0 <= 1 + Ttl
      BY TypingAssumption
    <3> QED BY <2>1, <2>4, <3>1
  <2> QED BY ONLY <2>3, <2>4, <2>5, <2>6 DEF TypingMore
<1>2. TypingIInv /\ TypingMore /\ [TypingNext]_typingVars => TypingMore'
  <2> SUFFICES ASSUME TypingIInv, TypingMore, [TypingNext]_typingVars PROVE TypingMore'
    OBVIOUS
  <2>1. CASE UNCHANGED typingVars
    BY <2>1 DEF typingVars, TypingMore, ShownUsers
  <2> QED BY <2>1, TypingMoreStays
<1>3. TypingIInv /\ TypingMore => TypingTypeOK
  <2> SUFFICES ASSUME TypingIInv, TypingMore PROVE TypingTypeOK
    OBVIOUS
  <2>0. /\ TypingTypes /\ StartsAreFresh /\ ScoresAreShort
        /\ Ttl \in Nat \ {0} /\ MaxTime \in Nat \ {0} /\ MaxDrops \in Nat
    BY TypingAssumption DEF TypingIInv
  <2>1. now \in 1..MaxTime /\ batching \in BOOLEAN /\ drops \in 0..MaxDrops
    BY <2>0 DEF TypingTypes, TypingMore
  <2>2. emitter \in [Typers -> [on : BOOLEAN, idle : 0..(MaxTime + Ttl)]]
    <3>1. \A u \in Typers : emitter[u] \in Emitters /\ emitter[u].idle <= MaxTime + Ttl
      BY <2>0 DEF TypingTypes, TypingMore
    <3>2. \A u \in Typers : emitter[u] \in [on : BOOLEAN, idle : 0..(MaxTime + Ttl)]
      BY <2>0, <3>1 DEF Emitters
    <3> QED BY <2>0, <3>2 DEF TypingTypes
  <2>3. pinged \in [Typers -> 0..MaxTime]
    BY <2>0, <2>1 DEF TypingTypes, StartsAreFresh
  <2>4. zset \in [Typers -> 0..(MaxTime + Ttl)]
    BY <2>0, <2>3 DEF TypingTypes, ScoresAreShort
  <2>5. shown \in [Typers -> 0..(MaxTime + Ttl)]
    BY <2>0, <2>1 DEF TypingTypes, TypingMore
  <2>6. /\ stopping \cup dropping \cup throttled \cup unheard \subseteq Typers
        /\ Cardinality({u \in Typers : shown[u] # 0}) <= Cap
    BY DEF TypingMore, ShownUsers
  <2> QED BY <2>0, <2>1, <2>2, <2>3, <2>4, <2>5, <2>6 DEF TypingTypes, TypingTypeOK
<1> QED BY <1>1, <1>2, <1>3, TypingAlways, PTL DEF TypingSpec

-----------------------------------------------------------------------------
(* The run of the three. *)

\* A behaviour of the run (MCRealtime) is one of each of its components, so what is
\* proved of ChannelStream, of Presence and of Typing holds in it.
LEMMA RealtimeParts == RealtimeSpec => StreamSpec /\ PresenceSpec /\ TypingSpec
<1>1. RealtimeInit => StreamInit /\ PresenceInit /\ TypingInit
  BY DEF RealtimeInit
<1>2. [RealtimeNext]_realtimeVars
        => [ServerNext \/ Sink \/ Drop]_serverVars /\ [PresenceNext]_presenceVars /\ [TypingNext]_typingVars
  BY DEF RealtimeNext, realtimeVars
<1> QED BY <1>1, <1>2, PTL DEF RealtimeSpec, StreamSpec, PresenceSpec, TypingSpec

SomePart == part \in {"stream", "presence", "typing"}

\* The type invariant of the run of the three (MCRealtime), for every value of the
\* constants.
THEOREM RealtimeTypes == RealtimeSpec => []RealtimeTypeOK
<1>1. RealtimeInit => SomePart
  BY DEF RealtimeInit, SomePart
<1>2. SomePart /\ [RealtimeNext]_realtimeVars => SomePart'
  BY DEF RealtimeNext, realtimeVars, SomePart
<1>3. SomePart /\ ServerTypeOK /\ PresenceTypeOK /\ TypingTypeOK => RealtimeTypeOK
  BY DEF RealtimeTypeOK, SomePart
<1>4. RealtimeSpec => []SomePart
  BY <1>1, <1>2, PTL DEF RealtimeSpec
<1>5. RealtimeSpec => []ServerTypeOK /\ []PresenceTypeOK /\ []TypingTypeOK
  BY RealtimeParts, StreamTypes, PresenceTypesOK, TypingTypesOK, PTL
<1> QED BY <1>3, <1>4, <1>5, PTL
=============================================================================
