------------------------------- MODULE Typing -------------------------------
(* Who is typing in one channel (features/typing/typingEmitter.ts and       *)
(* useTypingStore.ts in the browser; typing.service.ts, typing-fanout.ts    *)
(* and the handlers of realtime.gateway.ts on one node).  The clock is      *)
(* explicit: a tick is the throttle of three seconds, in which a Redis call *)
(* is answered, a frame is delivered and a due timer fires.  The node has   *)
(* one connection to Redis, so the lists it emits are in the order of the   *)
(* MULTIs that have read them: a MULTI and its fan-out are one step.        *)
EXTENDS Naturals, FiniteSets

CONSTANTS
  Typers,   \* users, as numbers: the order in which capVisible sorts them
  Cap,      \* TYPING_MAX_VISIBLE
  Ttl,      \* TYPING_TTL, in ticks
  MaxTime,  \* bound: ticks
  MaxDrops  \* bound: lost connections and updates over the rate limit

ASSUME TypingAssumption ==
  Typers \subseteq Nat /\ IsFiniteSet(Typers) /\ Cap \in Nat \ {0} /\ Ttl \in Nat \ {0}
  /\ MaxTime \in Nat \ {0} /\ MaxDrops \in Nat

VARIABLES
  now,
  emitter,   \* per user: whether a start was sent since the last stop, idle timer
  link,      \* per user: the socket is up, lost unnoticed by the server, or down
  starting,  \* per user: onTypingPing is before its throttle key, or before its MULTI
  stopping,  \* users of whom onTypingStop is before its MULTI
  dropping,  \* users removed by a disconnect that has not read the rest yet
  zset,      \* typing:channel: when a member expires, 0 when it is none
  throttled, \* users with a key typing:throttle, which lives for a tick
  batching,  \* the node has a batch timer
  shown,     \* the observer's useTypingStore: when the user is taken out, 0 if not in
  drops,
  pinged,    \* when the user's last start was sent (lastStartAt)
  unheard    \* history: users whose last stop did not arrive, or overtook a start

typingVars == <<now, emitter, link, starting, stopping, dropping, zset, throttled, batching,
                shown, drops, pinged, unheard>>

Still == [on |-> FALSE, idle |-> 0]

TypingInit ==
  /\ now = 1 /\ batching = FALSE /\ drops = 0
  /\ emitter = [u \in Typers |-> Still] /\ link = [u \in Typers |-> "up"]
  /\ starting = [u \in Typers |-> "no"] /\ stopping = {} /\ dropping = {}
  /\ zset = [u \in Typers |-> 0] /\ throttled = {}
  /\ shown = [u \in Typers |-> 0] /\ pinged = [u \in Typers |-> 0] /\ unheard = {}

-----------------------------------------------------------------------------
\* onInput: the idle timer is set anew, and a start is sent unless one has been
\* in this tick. One start and one stop of a user are under way at a time.
Input(u) ==
  /\ now < MaxTime
  /\ IF emitter[u].on /\ pinged[u] = now
     THEN /\ emitter[u].idle # now + Ttl \* or nothing happens
          /\ emitter' = [emitter EXCEPT ![u].idle = now + Ttl]
          /\ UNCHANGED <<starting, pinged>>
     ELSE /\ starting[u] = "no"
          /\ emitter' = [emitter EXCEPT ![u] = [on |-> TRUE, idle |-> now + Ttl]]
          /\ starting' = IF link[u] = "up" THEN [starting EXCEPT ![u] = "sent"] ELSE starting
          /\ pinged' = [pinged EXCEPT ![u] = now]
  /\ UNCHANGED <<now, link, stopping, dropping, zset, throttled, batching, shown, drops, unheard>>

\* stop: the message is sent, the draft is emptied, the channel left, or the idle
\* timer has fired. It is lost with the connection.
EmitStop(u) ==
  /\ emitter[u].on /\ u \notin stopping
  /\ emitter' = [emitter EXCEPT ![u] = Still]
  /\ stopping' = IF link[u] = "up" THEN stopping \cup {u} ELSE stopping
  /\ unheard' = IF link[u] = "up" THEN unheard ELSE unheard \cup {u}
  /\ UNCHANGED <<now, link, starting, dropping, zset, throttled, batching, shown, drops, pinged>>

-----------------------------------------------------------------------------
First(S, n) == {x \in S : Cardinality({y \in S : y < x}) < n}
CapVisible(S, p) ==
  IF Cardinality(S) <= Cap THEN S
  ELSE IF p \cap S # {} THEN p \cup First(S \ p, Cap - 1) ELSE First(S, Cap)

\* Members of the sorted set whose own score has not passed.
Valid(z) == {u \in Typers : z[u] > now}

\* The store replaces the list, and every user in it gets a timer of its own.
Store(list) == shown' = [u \in Typers |-> IF u \in list THEN now + Ttl ELSE 0]

\* onTypersChanged: a batch begins with a list and goes on by its timer; below
\* the cap a list is sent at once, unless it is over the rate limit. An empty one
\* always is.
OnTypersChanged(list) ==
  /\ batching' = (Cardinality(list) >= Cap)
  /\ IF Cardinality(list) >= Cap
     THEN (IF batching THEN UNCHANGED shown ELSE Store(list)) /\ UNCHANGED drops
     ELSE \/ Store(list) /\ UNCHANGED drops
          \/ /\ list # {} /\ drops < MaxDrops /\ drops' = drops + 1
             /\ UNCHANGED shown

\* ping: SET NX of the throttle key.
TakeThrottle(u) ==
  /\ starting[u] = "sent"
  /\ IF u \in throttled
     THEN starting' = [starting EXCEPT ![u] = "no"] /\ UNCHANGED throttled
     ELSE /\ starting' = [starting EXCEPT ![u] = "taken"]
          /\ throttled' = throttled \cup {u}
  /\ UNCHANGED <<now, emitter, link, stopping, dropping, zset, batching, shown, drops, pinged,
                 unheard>>

\* Mutant: the key has one expiry, as the set of before had.
RenewAll(u) == [v \in Typers |-> IF v = u \/ zset[v] > now THEN now + Ttl ELSE 0]

\* Its MULTI gives this member, and no other, its new score.
Renewed(u) == [v \in Typers |-> IF v = u THEN now + Ttl ELSE IF zset[v] > now THEN zset[v] ELSE 0]

Ping(u) ==
  /\ starting[u] = "taken"
  /\ starting' = [starting EXCEPT ![u] = "no"]
  /\ zset' = Renewed(u)
  /\ OnTypersChanged(CapVisible(Valid(zset'), {u}))
  /\ UNCHANGED <<now, emitter, link, stopping, dropping, throttled, pinged, unheard>>

\* stop: its MULTI may come before the longer way of a start sent earlier.
Stop(u) ==
  /\ u \in stopping
  /\ stopping' = stopping \ {u}
  /\ zset' = [zset EXCEPT ![u] = 0]
  /\ throttled' = throttled \ {u}
  /\ IF zset[u] # 0 THEN OnTypersChanged(CapVisible(Valid(zset'), {}))
     ELSE UNCHANGED <<batching, shown, drops>>
  /\ unheard' = IF starting[u] # "no" THEN unheard \cup {u} ELSE unheard \ {u}
  /\ UNCHANGED <<now, emitter, link, starting, dropping, pinged>>

\* batchTick.
BatchTick ==
  /\ batching
  /\ LET list == CapVisible(Valid(zset), {})
     IN batching' = (Cardinality(list) >= Cap) /\ Store(list)
  /\ shown' # shown \/ ~batching'
  /\ UNCHANGED <<now, emitter, link, starting, stopping, dropping, zset, throttled, drops,
                 pinged, unheard>>

-----------------------------------------------------------------------------
\* The connection is lost; the server notices by its ping, and removes the user.
LinkLost(u) ==
  /\ link[u] = "up" /\ drops < MaxDrops /\ drops' = drops + 1
  /\ link' = [link EXCEPT ![u] = "lost"]
  /\ UNCHANGED <<now, emitter, starting, stopping, dropping, zset, throttled, batching, shown,
                 pinged, unheard>>

DropForUser(u) ==
  /\ link[u] = "lost"
  /\ link' = [link EXCEPT ![u] = "down"]
  /\ zset' = [zset EXCEPT ![u] = 0]
  /\ dropping' = IF zset[u] # 0 THEN dropping \cup {u} ELSE dropping
  /\ UNCHANGED <<now, emitter, starting, stopping, throttled, batching, shown, drops, pinged,
                 unheard>>

\* currentlyTyping, and the rest is told.
Dropped(u) ==
  /\ u \in dropping
  /\ dropping' = dropping \ {u}
  /\ OnTypersChanged(CapVisible(Valid(zset), {}))
  /\ UNCHANGED <<now, emitter, link, starting, stopping, zset, throttled, pinged, unheard>>

LinkUp(u) ==
  /\ link[u] # "up"
  /\ link' = [link EXCEPT ![u] = "up"]
  /\ UNCHANGED <<now, emitter, starting, stopping, dropping, zset, throttled, batching, shown,
                 drops, pinged, unheard>>

\* expireUser, the timer of the observer's store.
ExpireUser(u) ==
  /\ shown[u] # 0 /\ shown[u] <= now
  /\ shown' = [shown EXCEPT ![u] = 0]
  /\ UNCHANGED <<now, emitter, link, starting, stopping, dropping, zset, throttled, batching,
                 drops, pinged, unheard>>

Quiet == /\ stopping = {} /\ dropping = {}
         /\ \A u \in Typers : /\ starting[u] = "no"
                              /\ shown[u] = 0 \/ shown[u] > now
                              /\ ~emitter[u].on \/ emitter[u].idle > now

Tick ==
  /\ Quiet /\ now < MaxTime
  /\ now' = now + 1 /\ throttled' = {}
  /\ UNCHANGED <<emitter, link, starting, stopping, dropping, zset, batching, shown,
                 drops, pinged, unheard>>

TypingNext ==
  \/ \E u \in Typers : Input(u) \/ EmitStop(u) \/ TakeThrottle(u) \/ Ping(u) \/ Stop(u)
                       \/ LinkLost(u) \/ DropForUser(u) \/ Dropped(u) \/ LinkUp(u)
                       \/ ExpireUser(u)
  \/ BatchTick \/ Tick

TypingSpec == TypingInit /\ [][TypingNext]_typingVars

-----------------------------------------------------------------------------
\* Type invariant (the Redis layout of typing.service.ts:9-13, the store's timers).
TypingTypeOK ==
  /\ now \in 1..MaxTime /\ batching \in BOOLEAN /\ drops \in 0..MaxDrops
  /\ emitter \in [Typers -> [on : BOOLEAN, idle : 0..(MaxTime + Ttl)]]
  /\ link \in [Typers -> {"up", "lost", "down"}]
  /\ starting \in [Typers -> {"no", "sent", "taken"}]
  /\ stopping \cup dropping \cup throttled \cup unheard \subseteq Typers
  /\ zset \in [Typers -> 0..(MaxTime + Ttl)] /\ shown \in [Typers -> 0..(MaxTime + Ttl)]
  /\ pinged \in [Typers -> 0..MaxTime]
  /\ Cardinality({u \in Typers : shown[u] # 0}) <= Cap

\* FR-RT-17 (typing.service.ts:16-20): a user who has fallen silent, however it
\* did, is shown for twice the TTL at most, whoever else goes on typing.
StaleIsBounded == \A u \in Typers : shown[u] # 0 => now < pinged[u] + 2 * Ttl

\* A user whose stop was heard is no typer any more, and below the cap it is not
\* shown either when every list was sent (task-021-R1-typing-stale-on-clear).
StoppedIsGone ==
  \A u \in Typers :
    ~emitter[u].on /\ starting[u] = "no" /\ u \notin stopping \cup unheard =>
      /\ zset[u] <= now
      /\ drops = 0 /\ ~batching => shown[u] = 0

TypingSound == StaleIsBounded /\ StoppedIsGone
=============================================================================
