# A TLA+ model of bongtalk

bongtalk (package name `qufox`) is a Discord-like chat: a NestJS API in
`src/apps/api` over Postgres (Prisma), Redis and BullMQ, a React page in
`src/apps/web`, and socket.io between the two. Several API processes
("replicas", "nodes") run behind one load balancer and share nothing but
Postgres and Redis. What makes the system hard is in that sentence: nearly
every handler is a chain of awaited Redis and database calls, and the handlers
of other requests, sockets and processes run between two links of the chain.

This directory models the parts of the system where that matters most, checks
them with TLC on small instances, and proves with TLAPS, for every value of the
constants, every safety property that the passing runs check. What stays with TLC
alone is liveness under fairness (section 4).

    tlc -workers 2 -config Delivery.cfg MCDelivery    # any run: see "Runs"
    tlapm DeliveryProofs.tla                          # any module of proofs

1 Inventory · 2 Modules · 3 Runs · 4 Proofs · 5 Where the code and its comments
disagree · 6 What is not modelled · 7 Plan

## 1. Inventory

### How a message travels

The composer uploads the **attachments** of a message and completes them when it
is sent. `MessagesService.send` inserts the message and an `OutboxEvent` row in
one transaction. The **outbox dispatcher** of every replica polls the table,
claims a batch of rows and emits each through EventEmitter2. The **outbox-to-WS
subscriber** of that replica takes a per-channel sequence number from Redis
(`INCR seq:{channelId}`), appends the event to the channel's **replay buffer**
(`XADD replay:channel:{id}`) and emits it to the channel's socket.io room, which
the Redis adapter carries to every node. The **page** adds the row to its cached
list, and its **channel sync** compares the seq with the last one it saw: a
hole starts a gap-fetch over REST. When a socket connects, **handleConnection**
joins the rooms, sends the current seq of every channel (`channel:joined`) and,
if the handshake named a `lastEventId`, replays what the buffer holds after it.
The same connects and disconnects drive **presence**, **typing** and the
**eviction of temporary members**.

Everything else in the API is a request that reads some rows, decides, and writes
them in a transaction, at READ COMMITTED unless it says otherwise. Two requests
about the same thing at the same time are what those parts are hard about, and
what their modules are about.

### Components

`PROJECT.json` lists every component with its sources and a note on what is left
out of it.

| component | state | operations | what is hard | what makes it correct | status |
|---|---|---|---|---|---|
| Transactional outbox (`common/outbox`) | `OutboxEvent` rows, the claimed batch in memory | record, tick (claim, emit, mark, record the error), start, stop | claims of several replicas; crash between emit and mark; shutdown in mid-batch | at-least-once delivery; attempts bound deliveries; no dead letter without failures | modelled |
| Channel event stream (`realtime`, server) | Redis counter and stream per channel, rooms | `emitAndBuffer`, `handleConnection` | three awaits per event on several replicas; replay meets live traffic; trimmed buffer | seqs are unique; nothing falls between replay and live stream | partly |
| Channel sync (`features/realtime`, page) | cached list, `SeqTracker`, FSM, shared gap-fetch promise, backoff, pending buffer | socket events, gap-fetch pages, retries, eviction | frames, pages and timers in any order; waiters of one failing fetch; reconnects | a page at rest shows everything or says it does not; GAP_FETCHING is left | partly |
| Presence (`realtime/presence`) | Redis session set, preference key, grace epoch, online set; timers in memory | register, unregister, finalizeOffline, onlineIn, setPreference | timers of several nodes; sweep and finalize against a register; TTLs | connected users are listed, invisible ones never are | partly |
| Typing indicators | sorted set, throttles, batch, timers of the observer | start, stop, renew, disconnect, batch tick, expiry | two throttles and three clocks | nobody types for ever; who stopped is gone | modelled |
| Temporary-member eviction (`queue`, gateway) | Redis set of sockets, one delayed job of a fixed id, member row | onSocketConnect, onSocketDisconnect, arm, cancel, process | arm and cancel of several sockets; a job that is active; lost set members | nobody who is here is evicted; a due eviction stays scheduled | modelled |
| Messages and threads (`messages`) | rows, reply counters, pins, edit history, idempotency keys; the pages' bubbles and lists | send and its retries, reply, edit, delete, bulk delete, pin, unpin, reconcile | retries racing the unique index; counters against concurrent replies; optimistic lock against events and refetches | one message per nonce; counter equals replies; no text is lost | partly |
| Reactions | reaction rows | toggle, remove, removeByActor, clearAll | cap of kinds under concurrency | the cap | modelled |
| Channels, DMs, permissions | fractional positions, group DMs with owner and icon | create, move, reorder, add, kick, leave, set icon | serialisable retries; object store and row; equal positions | cap, a group has an owner who is in it, drops land | partly |
| Read state and unread | cursors, undo snapshots, cached totals | ackRead, markUnread, markAllRead, undo, totals | devices out of order; cache against cursor | what was acknowledged stays read; caches agree | partly |
| Workspaces, members, invites | members, roles, owner, invite uses, bans, undo tokens; AutoMod's worker thread | accept, join, approve, leave, kick, undo, ban, roles, transfer; match, validate | look-ups outside the transactions; compare-and-set and refund; watchdogs that kill a shared thread | seats are accounted; the banned stay out; one owner; verdicts are one's own | partly |
| Friends and blocks | a directed row per pair | request, accept, reject, remove, block, unblock | crossing requests | friends have both agreed; a block is its blocker's | modelled |
| Authentication | refresh-token families and the browser's cookie | login, refresh, logout, revoke | two refreshes of one token, reuse detection, lost answers | the owner stays logged in; one live token per family | partly |
| Job processors (`queue`) | reminders with their BullMQ jobs | set, clear, cancel, schedule, recover, run | retries, stalls and duplicate jobs | a reminder that waits will fire, and once | partly |
| Attachments, emojis, storage | upload sessions, objects, attachments; the composer's tray | presign, upload, complete, link, sweep; add, retry, remove, send, reset | object and row in two stores; presses, moves and reloads during a send | one attachment per upload, kept unless abandoned; a file is sent once | partly |
| Users and settings | reminder of a saved message, presence preference | as above | | | partly |
| Push and notifications; Subscriptions and limits; Search, slash commands, links, feedback; Platform; Web interface; Shared types; Infrastructure | | | mostly reads, pure functions of rows, formatting and I/O | | not modelled: section 6 |

The hazards of this code, each at its line with the properties that would catch it
going wrong, are in `PROJECT.json` under "hazards".

## 2. Modules

    AtLeastOnce <- - - implemented by - - Outbox    MessageSend   ThreadCount
        | its promise is the input of          \        |        /
        v                                       MCDelivery          [DeliveryProofs]
    ChannelStream <- extended by - ChannelSync - MCChannelSync      [ChannelProofs]
        \     Presence    Typing                                    [PresenceProofs]
         MCRealtime
    TempEvict   ReadState   Browser = Session + UploadTray
        \___________|___________/
               MCUserState                                          [UserStateProofs]
    CappedSet <- - implemented by - - Pins  Reactions  Membership  GroupDm
    Friends  Attachments  Ordering  Reminders  RegexRunner  MessageEdit
        \___________ all ten in _________/        [CapProofs, PeopleProofs,
               MCWorkspace                         WorkspaceProofs, MessageEditProofs]

The `MC` modules hold the sets TLC needs. `ChannelSync` is a real composition: it
takes every action of `ChannelStream` as it is and adds the page. The components
of `MCDelivery`, `MCRealtime`, `MCUserState` and `MCWorkspace` share no state;
a variable `part` chooses at first which of them a behaviour is one of, and the
others stay where they are. Such a run checks each of them as a run of its own
would, and its specification implies theirs, so that what is proved of one component
holds in it. In brackets are the modules of proofs beside what they are about; those
of a sum extend its `MC` module. `MCOutbox`, `MCPresence`, `MCTempEvict`, `MCMembership` and `MCOrdering` are
the instances of the runs that end in a counterexample.

Two kinds of variables are not in the program. *Histories* (`deliveries`, `sent`,
`late`, `missed`, `drifted`, `crossed`, ...) record what happened for a property to
speak of; no guard reads them, save `started` and `done` of `ChannelStream`, which
stand for the outbox that hands the events out. *Budgets* (`faults`, `bounds`,
`used`, ...) bound how often the environment misbehaves or a user acts.

### The way of a message: Outbox, MessageSend, ThreadCount

**Outbox.** The columns of the table, and per replica the row `locks` of its
claim statement, the `phase` of `processOnce`, the claimed rows still to emit
(`todo`) and the one being handled (`cur`).

| action | code |
|---|---|
| `Record` | the transaction of `OutboxService.record` commits |
| `ClaimLock`, `ClaimCommit`, `ClaimFails` | the `UPDATE ... FOR UPDATE SKIP LOCKED ... RETURNING` |
| `Emit`, `EmitRejects` | `emitAsync` resolves, or rejects |
| `Mark`, `MarkFails` | the update of `dispatchedAt` |
| `RecordError`, `RecordErrorFails` | the update in the catch block |
| `Finish`, `Stop`, `Crash`, `Boot` | the end of the loop, `onModuleDestroy`, the process dies, `onModuleInit` |

The claim is one statement in the code and two steps here, because that is the
only way to see what SKIP LOCKED does: it protects a row while the claim's
transaction is open, which is until `ClaimCommit` and not until `Mark`.
`EmitRejects` says that a listener's failure reaches the dispatcher. In the
application most `@OnEvent` listeners are wrapped by NestJS, which suppresses
errors unless told otherwise: "delivered" means that `emitAsync` resolved, not
that every subscriber did its work. `AtLeastOnce` is what the rest of the system
may rely on: an event may be handed out up to `Budget` times and is acknowledged
only after the first time.

**MessageSend.** One logical send: the optimistic bubble of a tab, its tries under
one `clientNonce`, and what each try does at the server. `draft` says which gates it
can meet: an attachment, a slow channel, a mention of everybody, a sender or content
that some gate refuses now and then.

| action | code |
|---|---|
| `SendFirst`, `Retry`, `Answered`, `TimeOut`, `Breaks`, `Unmount` | `useSendMessage`: `mutate`, `onSuccess` and `onError`, the timer and its abort, a broken connection, the clean-up of the hook |
| `Confirm`, `Cancel` | the dialog that a 409 BULK_MENTION_CONFIRM_REQUIRED opens |
| `Echo`, `FetchRead`, `FetchArrives` | the dispatcher's `message.created`, the refetch of the list |
| `Arrive` | the gates of the controller: verified address, timeout, rules, announcement, block, rate limit, and slow mode (`SlowGate`) last |
| `ReadCache`, `CheckAttachments`, `Screen`, `Insert`, `Commit`, `Warm`, `LookUp` | the statements of `MessagesService.send`, with the unique index on which a second INSERT waits |
| `Lose`, `CooldownEnds`, `IdemExpires`, `EditStored` | what happens around it |

All gates of `Arrive` come before anything looks at the key, so that a retry of a
message that is stored meets them again. For a gated draft any of them may be shut at
any moment, whatever was let through before: the facts they read (a mute, a rule, a
block, a rate) belong to others. `Screen` has the gates on the content, between the
cache and the index. A demand for confirmation leaves the bubble pending (`onError`
returns early) and clears its timer; `asking` is the open dialog. An unmount clears
the timer and leaves the bubble.

**ThreadCount.** The reply counter of a root under replies, copies to the channel,
`softDelete`, `bulkDelete`, the deletion of the root and the hourly reconciler. A
step is a statement; row locks are held until the commit, and PostgreSQL breaks a
deadlock (`BreakDeadlock`).

### The socket: ChannelStream, ChannelSync, Presence, Typing, TempEvict

**ChannelStream.** One channel and one client socket. `fan[r]` is the
`emitAndBuffer` replica `r` is in; `FanStart`, `FanSeq`, `FanAppend` and `FanEmit` are
the points between its awaits, `FanEmitLost` and `FanCrash` its failures. Which
events arrive, how often and on how many replicas is the promise of
`AtLeastOnce`, so the duplicates the outbox allows are duplicates here.
`Connect`, `Join`, `ReadBaseline`, `SendBaseline`, `ReadReplay` and `SendReplay` are
`handleConnection`, with what it read in `read` and what it sent in `wire`. `Drop`
breaks the transport. The `MAXLEN ~ n` of XADD lets Redis keep more than `n`
entries: `Trimmed` allows any suffix of at least `n`. Message ids are numbers in
list order; edits, deletions and reactions are events of the same kind to the
stream.

**ChannelSync.** The page. `cache` and `cursor` are the first page of the cached
list and its `prevCursor`, `last` is `SeqTracker.lastSeq`, `fsm` the channel's FSM
state with the edges of `channelSyncFsm.transition` in `Edges`; `gap` is the
in-flight gap-fetch with the number of `runSync` calls waiting on its promise,
`timer`, `attempt` and `pend` are retry timer, backoff and pending buffer.

| action | code |
|---|---|
| `OnConnect`, `OnDisconnect`, `OnReplayComplete` | the connection listeners |
| `Abandon` | socket.io stops: the tenth attempt in a row failed, the handshake was refused, or the server ended the connection |
| `OnChannelJoined` | `onChannelJoined`: overwrites `lastSeq` |
| `OnReplayTruncated`, `OnChannelEvent` | `enterGapFetch` with its two reasons; the dispatcher's cache update |
| `GapPage`, `GapSettles`, `GapFails`, `RetryFires` | `runSync`, `fetchGap`, `Backoff` |
| `Evict` | `runChannelLruEntry` |
| `LoadList`, `ListLoaded` | `useMessageHistory` loads the list again |

`Abandon` takes the connection from "off" to "lost", from where only a reload of the
page leads back: the options of `lib/socket.ts` allow ten attempts and keep the token
the socket was opened with. (`Down` is either phase.)

A page's handlers run one at a time, so one handler is one action; what
interleaves are frames, REST answers and timers.

**Presence.** One user in one workspace, sessions on several nodes. One MULTI is
one step, any other call a step of its own. `pending[n]` is the grace timer of node
`n` with the epoch it was armed for, `fin[n]` the `finalizeOffline` it started.
`Expire` has no clock: it may come at any time after a register, which allows
everything a TTL of 240 seconds allows and more. `Elapse` assumes a node finishes
one `finalizeOffline` of a user before it starts the next, three Redis calls
against the grace period of several seconds.

**Typing.** One channel on one node, with a clock whose tick is the throttle of
three seconds: the emitter of the browser (`Input`, `EmitStop`), the server's
throttle, sorted set and fan-out (`TakeThrottle`, `Ping`, `Stop`, `BatchTick`),
the disconnect (`LinkLost`, `Dropped`), and the observer's timers (`ExpireUser`).

**TempEvict.** The sockets of one user and one workspace. `hs` and `cl` are how far
`handleConnection` and `handleDisconnect` of a socket have come: the two overlap
when the transport breaks during the handshake. `set` is the Redis set, `job` the
BullMQ job of the fixed id, including its completed or failed form, which keeps
the id and makes a later `add` a no-op (`kept`). `Removed` and `Added` are what
BullMQ does with such ids. `WorkerCrash` and `Recover` are the stalled-job check;
that a job which stalls more than `maxStalledCount` times fails is left out, and
`MaxCrashes` keeps below it.

### What is kept for one user: ReadState, Session, UploadTray

**ReadState.** `ackRead`, `markUnread`, `markAllRead` with its undo and the cached
totals, a step per statement or Redis command. `markAllRead` reads its snapshot
first and locks the rows one by one (`AdvanceVisible`); `ON CONFLICT ... WHERE`
looks at the row as it is then.

**Session.** The family of refresh tokens that the cookie of a browser is from.
`Look` and `Rotate` are the look-up and the transaction of a refresh, between
which other requests run; `Reply` and `ReplyLost` the answer; `Login`, `Logout`,
`EndElsewhere` what the names say. Reuse of a revoked token revokes the family.

**UploadTray.** The files of a message being composed: `Presign`, `RunStored`,
`RunFails`, `RetryItem`, `RemoveItem` and the run of `completeAndCollect` that a
press starts (`DoSend`, `Refresh`, `Completed`, `NotCompleted`, `Wake`), which goes
on while the user switches channels (`Reset`) or reloads (`Reload`). `Browser`
puts the two side by side.

### A workspace

Each of these is a table or two with calls that look first and write later.
`CappedSet` is what four of them promise alike: a set that takes more only as far
as its cap, whoever asks at the same time.

| module | calls | what serialises them |
|---|---|---|
| `Pins` | pin, unpin, deletions | advisory lock of the channel |
| `Reactions` | toggle, remove, removeByActor, clearAll | row lock of the message |
| `Membership` | accept (`TakeSeat`, `CreateMember`, `Refund`), public join, approve, leave, remove, kick and its undo, ban, unban, updateRole, transfer | compare-and-set on `usedCount`; transactions, with look-ups outside them |
| `GroupDm` | add, kick, leave with hand-over, set and remove the icon | serialisable transactions that are tried again; nothing between the store and the row |
| `Friends` | request with its automatic accept, accept, reject, remove, block, unblock | unique index per direction |
| `Attachments` | createUploadUrl, upload, complete, link, sweep | conditional updates; the claim of the session |
| `Ordering` | create, move, reorder, delete; `CalcBetween` | nothing |
| `Reminders` | set, clear, reopen, unsave, /remind, cancel, recover; the worker's run, its retry and its stall | fixed job ids; a conditional update for /remind |
| `RegexRunner` | match, validateSafety, watchdogs, exits of threads | one event loop |
| `MessageEdit` | PATCH with `expectedVersion`, history, deletion; the editor, list and events of the pages | row lock and the version |

## 3. Runs

Deadlock is not checked: with every bound used up and every request answered, the
modelled part of the system has nothing left to do, and rightly stops.

| run | configuration | distinct states | shows |
|---|---|---|---|
| delivery | `Delivery.cfg`, `MCDelivery` | 261,000 | one row per nonce and one entry in the list, whatever retries, confirmations, gates, echoes and refetches overlap, and a pending bubble has a request or a dialog behind it (`SendSound`); the reply counter is exact until something leaves it alone (`CountExact`); claims are disjoint, attempts pay for deliveries, nothing is marked undelivered, dead letters need failures, and the outbox implements `AtLeastOnce`. Under fairness every row is dispatched, every pending bubble ends or is one of two that the code leaves (`PendingEnds`), the reconciler repairs the counter |
| realtime | `Realtime.cfg`, `MCRealtime` | 1,697,000 | seqs are unique and nothing falls between a replay and the live stream; invisible users are hidden, connected ones listed, unlistings stay pending; who has fallen silent is not shown for longer than twice the TTL |
| sync_live | `ChannelSync_live.cfg`, `MCChannelSync` | 412,000 | no silent gap, by replay or by gap-fetch; under fairness GAP_FETCHING is always left, and every message is shown, the gap reported, or the connection given up |
| sync_faults | `ChannelSync_faults.cfg`, `MCChannelSync` | 1,568,000 | with every kind of fault, GAP_FETCHING has a fetch in flight or a retry armed |
| user_state | `UserState.cfg`, `MCUserState` | 1,255,000 | a temporary member who is here is not evicted and one who has left will be; what was acknowledged stays read and the caches agree; the browser stays logged in; a file is sent once and none is lost |
| workspace | `Workspace.cfg`, `MCWorkspace` | 480,000 | friends have agreed; pins follow their events; seats, bans, roles; the group and its icon; uploads are linked once and kept; drops at the ends land; reminders fire; verdicts are one's own; edits lose no text; four caps implement `CappedSet` |
| outbox_double | `Outbox_double.cfg`, `MCOutbox` | violation | section 5 |
| sync_handshake | `ChannelSync_handshake.cfg`, `MCChannelSync` | violation | section 5 |
| presence_expiry | `Presence_expiry.cfg`, `MCPresence` | violation | section 5 |
| evict_connected | `TempEvict_connected.cfg`, `MCTempEvict` | violation | section 5 |
| single_owner | `SingleOwner.cfg`, `MCMembership` | violation | section 5 |
| drop_lands | `DropLands.cfg`, `MCOrdering` | violation | section 5 |

Each property of a passing run has a mutant in `PROJECT.json`: an operator of
the module that changes one definition as a plausible bug would (SKIP LOCKED
dropped, the room joined too late, a refund not given, a look-up not repeated,
...), under which TLC finds the property violated by the same configuration.

### The bounds, and why they are enough

The theorems of section 4 hold for all values of the constants; the bounds of the
runs matter for what is only model-checked, and for the runs to show each case.

- *Outbox*: two rows, two replicas, batch 1, three attempts, two faults, one stop.
  A claim has one rival; fewer faults than attempts, as the dead letter is the
  intended end otherwise; crashes count among them.
- *MessageSend*: three tries, of which the third is a confirmation (`ThirdConfirms`:
  send, retry, confirm is the shortest way to put a bubble next to a stored row), one lost request or failed
  query, one refetch, one delivery of the event and one edit: each race needs one of
  each. Three drafts (`MCDrafts`): an attachment with a mention of everybody, a slow
  channel, a gated sender. The theorems have all sixteen and any number of tries.
- *ThreadCount*: two replies of which one is copied to the channel, two deletions,
  one bulk deletion, one aborted transaction, one reconciler.
- *ChannelStream*: two replicas, two new messages, each fanned out up to twice,
  buffer of two; one message is in the buffer at the handshake and can be trimmed
  away by the others. One fault in a behaviour, of any kind (`OneFault`). `Eager`
  has the client read a frame before the next step; no step of the server looks
  at the wire. `ChannelSync` has no such constraint.
- *Presence*: two sessions, two nodes, one PATCH, one crash. *Typing*: two users,
  a cap of two, a TTL of two ticks, five ticks, one lost connection: twice the TTL
  and one tick more.
- *ChannelSync, live*: a message that the buffer holds or has lost, two new ones,
  one disconnect, one crash, two failing requests. *Faults*: one new message,
  a buffer of one, two faults of the server (`TwoFaults`), two disconnects (a
  reconnect while the gap-fetch of the first one is under way), three failing
  requests (SYNC_FAILED is reached), one eviction. Pages hold one row, so three pages
  are the cut-off.
- *TempEvict*: three sockets and one join; a failed call, a lost set member and a
  crash. One closes, one connects, and a third does either while the worker is
  between two of its steps.
- *ReadState*: one channel, two messages, three calls, one fault. *Session*: two
  requests, three tokens, one lost answer, one revocation from elsewhere.
  *UploadTray*: two files, two presses, two attempts, three sessions, one fault, one
  move.
- *Workspace*: three calls of each kind, users and rows to match; caps of one to
  three, which are reached. `Attachments` has one upload, two completions
  and two sends: uploads meet only in a send. `Ordering` has three rows with a
  stride of four units, a column that overflows at 14 and batches of up to three rows
  (1000, 10^10 and 200 in the code). `Reminders` has two tries
  of a job, one fault, one stall; `RegexRunner` two calls, two probes, three threads,
  one death; `MessageEdit` two pages, two edits, a history of one, one upset.
- Symmetry: sets that only name things are symmetric; no run with a liveness
  property uses symmetry.

### Fairness

`DeliverySpec`: weak fairness of a replica's tick and of its `Boot` (the interval
timer fires as long as the process lives, queries and subscribers settle, the
orchestrator restarts a dead process), of a send (`SendFairness`): the request timer
fires unless it is cleared (`TimeOut`; an answer, an unmount or a new request disables
it), an answer that has come is handled, the event arrives, a request that is not lost
goes on at the server; and of the statements of open
transactions, the breaking of a deadlock and the hourly reconciler
(`ThreadFairness`). As a behaviour is one of one component, actions of different
components share a conjunct. Failures, stops and users are never fair: nobody has to
retry, to answer the dialog or to stay in the channel.

`ChannelSync!FairSpec`: weak fairness of each replica's fan-out (the retrying
outbox above), of connecting and of `handleConnection` (Redis answers; a page that is
off connects or gives up by `Abandon`, which is not fair and ends all connecting),
of the page's socket listeners and timers, of the gap-fetch (a request
is answered; `GapFails` instead of an answer is bounded), and of loading the list.
Disconnects are not fair and are bounded.

## 4. Proofs

Eight modules, for any finite sets of calls, users, rows, nodes and replicas, any
caps, strides, limits of retries and numbers of faults. Assumed are only the named
assumptions next to the constants: that sets which are counted are finite, that
numbers are numbers (positive where the code divides by or indexes with them), that
the values standing for "nothing" are none of the others, and that a batch of
renumbered rows fits the column, as 200 rows a thousand apart do. Four
theorems have a condition of their own in their statement: `NoGapIsSilent` (`Calm`),
`RowsStayOnTheirWay` (fewer failures than attempts), and, of fairness, `BubblesEnd`
(`TimerRuns`) and `FetchesAdvance` (`FetchesGoOn`).

| theorem | establishes | by the inductive invariant |
|---|---|---|
| `DeliveryProofs` | | |
| `Invariance`, `TypeCorrect`, `MarkedWasDelivered`, `ClaimsStayApart`, `ClaimsAccounted`, `DeadLettersAreEarned` | `IInv` and the safety properties of `Outbox` | `IInv` |
| `Refinement` | `Outbox` implements `AtLeastOnce` | `IInv` |
| `RowsStayOnTheirWay` | `NothingStranded`: a row not dispatched can be claimed or is worked on | `IInv` |
| `SendsHold` | `SendSound` | `SendIInv`: `TriesAreSound`, `TriesInOrder`, `RowIsSound`, `ListIsSound`, `RequestIsSound` |
| `BubblesEnd` | a pending bubble ends, waits for its author, or has lost its timer to an unmount (`Untimed`), if timers run (`TimerRuns`) | `PendingIsOwned`, of `SendSound` |
| `CountIsExact` | `ThreadTypeOK`, `CountExact` | `ThreadIInv`: `RowsOwned`, `RootHeld`, `Undrifted` |
| `OneDeadlockOnly` | `LocksAreLeft`: a holder of a lock can go on, or the one known deadlock is there | `ThreadIInv`, `HoldersWork` |
| `DeliveryTypes` | `DeliveryTypeOK`, of the three together | the three above |
| `ChannelProofs` | | |
| `SeqsAreUnique` | `SeqUnique` | `SeqInv`: no seq in use is ahead of the counter |
| `ReplayIsComplete` | `ReplayMeetsLive` | `ReplayInv` |
| `FetchesAreDriven` | `GapFetchingIsDriven`, of page and server together | `DrivenIInv` |
| `TypesHold` | `ServerTypeOK` and `ClientTypeOK` | `TypesIInv`: `ReplayInv`, `DrivenIInv`, `AllKnown`, `ServerKeeps`, `PageTyped` |
| `StreamTypes` | `ServerTypeOK`, of the stream alone | `SeqInv`, `AllKnown`, `ServerKeeps` |
| `FetchesAdvance` | a fetch gets nearer to its end or is over, if requests and timers go on (`FetchesGoOn`) | `FetchIInv` |
| `NoGapIsSilent` | `NoSilentGap`, of page and server together, under `Calm` | `GapIInv`: `ReplayInv`, `DrivenIInv`, `IdsKnown`, `PageInv` |
| `PresenceProofs` | | |
| `PresenceHolds` | `PresenceSound` | `PresenceIInv`: `SessionsAreKnown`, `EpochsAreBehind`, `KeyFollows`, `HiddenSoon`, `ListedSoon`, `LeavingSoon` |
| `TypingHolds` | `TypingSound` | `TypingIInv`: `StartsAreFresh`, `ScoresAreShort`, `ShownIsShort`, `StartsAreAnswered`, `StoppedLeft`, ... |
| `RealtimeTypes` | `RealtimeTypeOK`, of stream, presence and typing | theirs |
| `UserStateProofs` | | |
| `AcksHold`, `CachesHold` | `AckedStaysRead`, `CachesSound` | `ReadIInv` |
| `EvictionHolds` | `EvictionSound` | `EvictIInv`: `TrackedAreListed`, `DueIsEmpty`, `DueIsScheduled`, `AwayWhenChecked` |
| `SessionHolds`, `TrayHolds`, `BrowserHolds` | `BrowserSound` | `SessionIInv`, `TrayIInv` |
| `UserStateTypes` | `UserStateTypeOK`, of the four together | theirs |
| `PeopleProofs` | | |
| `FriendsHold` | `FriendsCorrect` | `FriendsIInv` |
| `SeatsAreAccounted`, `BarredAreOut`, `RolesAreCorrect`, `InviteSeatsAreCapped` | the properties of `Membership`; its seats implement `CappedSet` | `MembershipIInv` |
| `CapProofs` | | |
| `PinsHold`, `PinsImplementTheCap`, `ReactionsImplementTheCap`, `GroupsHold`, `GroupsImplementTheCap` | `PinsAnnounced`, `GroupSound`; the three implement `CappedSet` | `PinsIInv`, `ReactionsIInv`, `GroupIInv` |
| `CapsHold` | `CapsImplemented`: the four caps of the run of the ten | theirs |
| `ReactionTypesOK`, `GroupTypesOK`, `WorkspaceTypes` | the types of two modules, and `WorkspaceTypeOK`, of the ten together | those of the ten |
| `WorkspaceProofs` | | |
| `AttachmentsHold`, `LinksAreForGood` | `AttachmentsSound`, `LinkedForGood` (an action property) | `AttachmentsIInv` |
| `RemindersHold`, `RunnerHolds`, `EndDropsHold` | `RemindersSound`, `RunnerSound`, `EndDropsLand` | `RemindersIInv`, `RunnerIInv`, `OrderingIInv` |
| `PositionsHold` | `OrderingTypeOK`: what is stored fits the column | `OrderingIInv`, `PositionsFit` |
| `MessageEditProofs` | | |
| `EditsHold`, `EditTypesOK` | `EditsSound`, `EditTypeOK` | `EditIInv` |

TLC checked each inductive invariant on the instance of the run before it was
proved. Each proof has one lemma or step per action; the arguments worth
telling:

**Outbox.** What a delivery costs depends on which rows the replicas hold in
memory. `IInv` adds to the properties the link between `phase` and memory
(`PhaseHolds`), the fact that a locked row has an attempt left
(`LockedHasAttempt`), and a count: `AttemptsAccounted` says that the attempts of
an undispatched row are at most the faults so far plus the replicas still working
on it. A dead-lettered row has no replica working on it, which gives
`NoSpuriousDeadLetter`. The refinement: every step is a `Record`, a `Deliver`
(`Emit`), an `Acknowledge` (`Mark`) or a stutter of `AtLeastOnce`. The same count gives
`RowsStayOnTheirWay`, the safety half of `EventuallyDispatched`: with fewer faults
than attempts a row that nobody works on can still be claimed, and who waits for a
row lock waits for a claim statement that waits for nobody.

**Locks of a thread.** A reply locks the root, a soft deletion its row and then the
root, a bulk deletion what it selected, in any order and the root among it if
selected. `HoldersWork` says of every holder at which statement it is; then some
holder can take its next step, or a bulk deletion holds the root and waits for the
row of a soft deletion, which waits for the root (`Deadlocked`). That is the one
circle, and the one PostgreSQL has to break.

**The stream.** `ReplayMeetsLive` says nothing of the time between the join and the
replay, so `ReplayInv` adds three facts. `OldFirst`: the entries from before the
page come first in the buffer. `KeptIsStored`: while one old entry is in the
buffer, every event that was appended since is there too and behind it, because
XADD trims from the old end. `ReadMeetsLive`: between XRANGE and the sending of
the replay, what was appended and emitted is in what was read or already on the
wire. The step that establishes it is `ReadReplay`; the step that could break it is
`FanEmit`, and there the socket is in the room (`LiveStep`).

**The page.** `GapFetchingIsDriven` is inductive with the types of the fetch alone:
entering GAP_FETCHING starts a fetch or joins one, and every settling of it leaves
the state or arms the retry. That takes the cases of `runSync` apart by the
numbers of waiters and attempts (`SettlesDrives`, `FailsDrives`).

**Progress.** The prover has no ENABLED, and weak fairness of an action is the same as
"again and again its guard is false, or again and again it is taken". `TimerRuns` and
`FetchesGoOn` say that with the guards written out. From the first follows
`BubblesEnd`: `PendingIsOwned` gives a pending bubble a request or an unanswered
confirmation, and a request has its timer unless an unmount took it (`Untimed`). From the second,
that a channel in GAP_FETCHING comes nearer to the end of it: fewer requests that may
still fail, or as many and fewer steps of the fetch. No step increases that pair, a
fetch or a retry is always there to decrease it (`GapFetchingIsDriven`), and neither
number is below zero.

**Types.** `ClientTypeOK` bounds the tracker's cursor by `counter`, which is no fact
about the page alone: `AllKnown` follows a seq from INCR through the buffer, the
replay that was read and the wire to the page, and an id from the insert. The types of
the sums put together those of their components. Three of these needed more than their
own conjuncts: the grace epoch of presence is at most the number of sessions
that have come (`PresenceProofs`), a position of `Ordering` fits the column because a
batch is no longer than 200 rows and every other write is checked (`PositionsFit`), and
the members of a group, being as many as its cap allows and each there once, are
a sequence over the persons of no greater length (`GoodIsTyped`).

**No gap is silent.** `NoSilentGap` speaks of a page at rest; `GapIInv` says for
every moment where each finished message is. `GapOwed`: once a connection is
ready, the list and what was sent on it make up everything (`Caught`), or the
page fetches, has given up, or has "truncated" on its wire. `SentArrives`: what was
sent is in the list or on the wire, whatever verdict `SeqTracker` gives of its
seq. `FetchCovers`: the pages of a fetch join the list they started from, and when
the last one is in, list, fetch and wire have everything. `FramesInOrder`: the
connect event comes first, and a page catches up only in the room of its second
connection, so no emit passes a fetch by (`BusyInRoom`). `NothingLost` brings in the
stream: what was emitted was appended, so that a replay which is not cut off
(`ReadMeetsLive`) closes the gap. The steps that matter are `SendReplay`,
`OnReplayTruncated`, `GapPage`, `GapSettles` and `FanEmit`.

`Calm` is the hypothesis of this theorem, about constants only: the page was opened
online, with messages and with an id in its handshake; its socket breaks once at
most; no XADD, emit or handler fails; nothing is evicted. Replicas may crash,
INCRs and requests may fail, a buffer may overflow, any number of times. It is as
weak as the code allows: with any one of the eight conditions lifted, TLC finds a
silent gap within the bounds of sync_live (section 5 tells of each).

**Presence.** The three properties speak of rest; `HiddenSoon`, `ListedSoon` and
`LeavingSoon` say for every moment which step that is under way will bring it
about, with the epochs it compares (`EpochsAreBehind`: no timer is ahead).

**The tray.** `TraySound` rests on who owns a file: `ItemsAreSound` says of every
state of a card which session, press and server row belong to it, `SentIsGone` and
`SentOnce` that what a press completed has left the tray of every other press.

**The session.** `OneCarrier` and `CarriedIsLive`: while nothing crossed and no
answer was lost, the token that works is the cookie's or travels in one answer.

**Membership.** One count, `SeatsAccounted`; for bans, that a call which passed its
check before the ban is among those the history names.

**CappedSet.** A call in the critical section has the lock, and the count it has
made still holds (`PinLocked`, its like for reactions); for groups, a commit finds
the group as it was read; for invites the compare and the set are one statement.

**Ordering.** With nobody else writing, the sorted list the browser has shown is the
list the server reads, so `calcBetween` of one anchor at an end is beyond it.

### What stays with TLC, and why

- `EventuallyDispatched`, `CountHeals`, `FetchSettles`, `EventuallyShown`: liveness
  under fairness needs ENABLED, which the prover does not handle, and an
  induction over how far there is to go, which its library states with an operator
  for a parameter. `FetchesAdvance` is the step of that induction for `FetchSettles`, and
  `RowsStayOnTheirWay` says that a row is never where `EventuallyDispatched` could not
  reach it.
- `PendingEnds` says more of an unmounted hook than `BubblesEnd`: its request is
  answered all the same unless it is lost (`Orphaned`). That is an induction over the
  tries that wait for each other at the INSERT.
- Nothing here is recursive: sorting, trimming and counting are operators of the
  library, of which the proofs use what the sequences and cardinalities give.

## 5. Where the code and its comments disagree

Six runs end in a counterexample; each checks one sentence of the repository.

- **outbox_double** (`NoDoubleDispatch`). The dispatcher's comment says replicas
  share the table "without double-dispatch". The row locks end with the claim
  statement and `dispatchedAt` is set after the emit: two replicas deliver one
  event twice with nothing failing. Consumers get at-least-once.
- **sync_handshake** (`NoSilentGap`). `lastEventId` is read once, when the page
  opens its socket, and sent unchanged at every reconnect. A page opened without
  one gets no replay later; `channel:joined` overwrites `lastSeq`, so no hole is
  seen, and what was missed stays missing with nothing reported.
- **presence_expiry** (`ConnectedIsListed`). Heartbeats extend the hash of a
  session, not the set of sessions, whose TTL runs out four minutes after the
  last register: a connected user becomes offline at the next `onlineIn`.
- **evict_connected** (`NoConnectedEvicted`). A socket that was open when its user
  joined is not in the set of sockets, and does not count when the worker checks.
- **single_owner** (`SingleOwner`). A transfer of ownership overlaps a removal or a
  role change that has read the target's role before: no OWNER is left, or one who
  is not the workspace's `ownerId`.
- **drop_lands** (`DropLands`). The browser sends one anchor, and the server goes a
  whole stride past it: a row dropped between two others lands before the upper one.

The properties that hold name what these leave (`~expired`, tracked sockets,
`crossed`, drops at the ends). More of the same kind was met while modelling; the
histories of the modules exclude it by name:

- *Channel sync.* `NoSilentGap` fails when the constants of sync_live are changed:
  with two disconnects `runSync` joins the promise of a fetch whose pages are read
  already; with `NotInBuffer` and `Loaded = 0` an empty list has no `prevCursor` and
  counts as synced; a failed XADD is swallowed and the replay of a later reconnect
  omits the event; a handler that fails before the replay leaves the socket in its
  rooms without one; an emit the adapter loses is missed when no later event shows
  the hole; with an eviction the reloaded list may be older than the seqs; a page
  whose list came before its first connection is untracked until "joined", and the
  FSM of an untracked channel ignores the connection.
  Two waiters on one failing fetch count two attempts. `seqHole` has no edge in
  DISCONNECTED.
- *Presence, eviction.* A sweep, a `finalizeOffline` or a PATCH that reads the count
  before a register and writes after (`undone`, `ghost`); a disconnect that arms
  while the former job is active (`missed`).
- *Typing.* A stop's MULTI can overtake an earlier start's; a start right after a
  stop may be throttled for three seconds.
- *Sends.* A retry of a message that is stored is refused when slow mode, a mute, the
  rules, an announcement channel, a block or the rate limit shuts meanwhile, or, with
  the cache gone, a gate on the content; an edit in between makes an honest retry a
  409; a retry drops the attachments; a refetch that read before the commit wipes the
  row. A retry also drops the confirmation of a mention of everybody: the composer's
  asks for it again, the retry button of the desktop's list (a hook without a callback)
  can only fail again. When the message arrives while the dialog of a retry is open,
  confirming it puts a bubble next to the stored row, and its answer leaves two rows of
  one id until a refetch (`late`); `useMessages.ts:416` says a resend makes no second
  row ("중복 행 미생성"). A bubble stays pending when the dialog is dismissed, or when
  the channel is left and the request is lost, until a refetch drops it.
- *Connection.* After ten failed attempts the page is "failed" until a reload, and says
  so. When the server refuses the handshake (its token is the one of the page's opening and
  lives for 15 minutes) or ends the connection, socket.io does not try again, while the
  banner says "다시 연결 중…" (`computeConnectionBanner.ts`).
- *Edits.* The comments say `expectedVersion` is snapshotted when the editor opens
  (`MessageList.tsx:1157`, `messages.service.ts:3225`); it is the version of the
  live row at the save, so the save overwrites a version that arrived while the
  editor was open. A list or a conflict answer that was read before an event and
  arrives after it shows the older row (`overtaken`).
- *Read state.* Two overlapping undos both restore; a fill of the totals that read
  before an acknowledgement and writes after its DEL stays for its TTL (`lagged`).
- *Members.* `approve` catches the unique violation inside the aborted transaction,
  which rolls back; a ban between look-up and create lets the user in; a seat whose
  accept fails otherwise than by an existing member is kept (`lost`).
- *Groups.* Overlapping icon uploads leave orphans in the store.
- *Attachments.* Of two sends with one attachment the loser goes out without it; a
  sweep that has selected an upload deletes it although it is linked meanwhile
  (`doomed`). A retry of a failed upload leaves the old session noted (`stray`).
- *AutoMod.* The exit event of a thread that was killed clears a newer thread, and
  its matches fail open.
- *Ordering.* Nine or ten appends overflow `Decimal(20,10)`; concurrent creates tie;
  a reorder of a subset collides with the rest.
- *Reminders.* A reminder that is set again between the worker's read and its mark
  is marked fired; one set on a completed item never fires; a cancel overwrites SENT.
- *Session.* Requests of one page that meet a 401 at the same time rotate one token
  each; a lost answer ends the family.

Outside the model, in the page: the list is fetched again when the window
regains focus after `staleTime` (10 s), which hides some of these gaps in time.

## 6. What is not modelled

The map covers what the components above do to state they share. Most of the
repository is elsewhere: React components, pages and styles, schemas and DTOs,
controllers and modules that wire and validate, queries that read, scripts and
infrastructure. They keep no state that two actors race for, and a model of them
would restate them.

In the modelled components: one channel at a time, so `GapFetchQueue` with its
concurrency over channels, the LRU's order, and `rangeAfter` using one
`lastEventId` for all channels are outside (`Foreign` stands for an id of another
channel); lists that are loaded around a message; the detach at logout; presence
broadcasts, "dnd" and idle; the delivery of MEMBER_LEFT; metrics and traces.
Mentions, system messages, thread locks and reports; permission masks, which are
pure functions of rows; mention counts and the visibility of channels; workspace
settings, discovery, the soft delete, custom roles, the other rules of AutoMod and
the audit log; passwords, TOTP, mail and rate limits; unfurl, onboarding and role
caches, which are one-shot consumers; custom emojis; the legacy upload path.

Components without a module: push and notifications (gates re-read when the job
runs), subscriptions and rate limits (volatile, rebuilt by the client), search,
slash commands, links and feedback (reads and one-shot requests), platform, shared
types, the rest of the web interface, infrastructure.

## 7. Plan

1. Several channels of one page: `GapFetchQueue`, the LRU and one `lastEventId`.
2. The rooms of a socket after a membership change, composed with `TempEvict`'s
   join and leave; custom emojis and their aliases; notification jobs.
