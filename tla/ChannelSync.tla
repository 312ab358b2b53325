---------------------------- MODULE ChannelSync ----------------------------
(***************************************************************************)
(* One browser page following one channel: the dispatcher's cache of the   *)
(* message list, SeqTracker, the channel sync FSM, the gap-fetch with its  *)
(* shared promise, backoff and pending buffer (installChannelSync), and    *)
(* the LRU that evicts the channel.  Composed with ChannelStream, which    *)
(* is the server side of the same channel.                                 *)
(*                                                                         *)
(* The handlers of the page run one at a time; what interleaves with them  *)
(* is the network: frames, REST pages, timers.                             *)
(***************************************************************************)
EXTENDS ChannelStream

CONSTANTS
  StartOnline,    \* the list was loaded under an established connection
  PageLimit,      \* rows in a gap-fetch page
  MaxPages,       \* GAP_FETCH_MAX_PAGES
  MaxPending,     \* PENDING_EVENTS_MAX
  MaxAttempts,    \* Backoff.maxAttempts
  MaxHttpFaults,  \* bound on failed gap-fetch requests
  MaxEvicts       \* bound on LRU evictions

ASSUME ChannelSyncAssumption ==
  /\ \A ids \in SUBSET (1..(Loaded + NMsgs)) : ids # None  \* None is no list
  /\ StartOnline \in BOOLEAN
  /\ {PageLimit, MaxPages, MaxPending, MaxAttempts} \subseteq Nat \ {0}
  /\ {MaxHttpFaults, MaxEvicts} \subseteq Nat

VARIABLES
  cache,      \* ids in the cached message list, None when there is no query
  cursor,     \* prevCursor of its first page, 0 when that page is empty
  loading,    \* newest id in the list response on its way, None without one
  last,       \* SeqTracker.lastSeq of the channel, None when untracked
  fsm,        \* channelSyncStore.states
  truncated,  \* channelSyncStore.truncated
  gap,        \* the in-flight gap-fetch: [at, after, got, pages, over, waiters]
  timer,      \* a retry timer is armed
  attempt,    \* Backoff.attempt
  pend,       \* the PendingEventBuffer: [size, over]
  used        \* failed requests and evictions so far

list == <<cache, cursor, loading>>
sync == <<fsm, truncated, gap, timer, attempt, pend>>
clientVars == <<list, last, sync, used>>
allVars == <<serverVars, clientVars>>

States == {"DISCONNECTED", "RECONNECTING", "GAP_FETCHING", "SYNCED",
           "SYNC_FAILED"}
NoGap == [at |-> "idle", after |-> 0, got |-> {}, pages |-> 0,
          over |-> FALSE, waiters |-> 0]
NoPend == [size |-> 0, over |-> FALSE]

ClientTypeOK ==
  /\ cache = None \/ cache \subseteq 1..db
  /\ cursor \in 0..db /\ (cache = None => cursor = 0)
  /\ loading = None \/ loading \in 0..db
  /\ last = None \/ last \in 0..counter
  /\ fsm \in States
  /\ truncated \in BOOLEAN /\ timer \in BOOLEAN
  /\ gap.at \in {"idle", "fetch", "ok"} /\ gap.got \subseteq 1..db
  /\ gap.pages \in 0..MaxPages
  /\ gap.waiters > 0 <=> gap.at # "idle"
  /\ attempt \in Nat
  /\ pend.size \in 0..MaxPending
  /\ used.http \in 0..MaxHttpFaults /\ used.evict \in 0..MaxEvicts

SyncInit ==
  /\ ServerInit
  /\ conn = IF StartOnline THEN "ready" ELSE "off"
  /\ last = IF StartOnline THEN counter ELSE None
  /\ cache = 1..Loaded /\ cursor = Loaded /\ loading = None
  /\ fsm = "DISCONNECTED"
  /\ truncated = FALSE /\ gap = NoGap /\ timer = FALSE /\ attempt = 0
  /\ pend = NoPend
  /\ used = [http |-> 0, evict |-> 0]

-----------------------------------------------------------------------------
(* channelSyncFsm.transition: an event without an edge changes nothing. *)

\* Mutant: SYNCED is not reached from GAP_FETCHING.
EdgesDeaf == [
  DISCONNECTED |-> [connect |-> "RECONNECTING"],
  RECONNECTING |-> [gapNeeded |-> "GAP_FETCHING", seqHole |-> "GAP_FETCHING",
                    replayComplete |-> "SYNCED"],
  GAP_FETCHING |-> [failed |-> "SYNC_FAILED"],
  SYNCED       |-> [gapNeeded |-> "GAP_FETCHING", seqHole |-> "GAP_FETCHING",
                    connect |-> "RECONNECTING"],
  SYNC_FAILED  |-> [retry |-> "GAP_FETCHING", connect |-> "RECONNECTING"]]

Edges == [
  DISCONNECTED |-> [connect |-> "RECONNECTING"],
  RECONNECTING |-> [gapNeeded |-> "GAP_FETCHING", seqHole |-> "GAP_FETCHING",
                    replayComplete |-> "SYNCED"],
  GAP_FETCHING |-> [synced |-> "SYNCED", failed |-> "SYNC_FAILED"],
  SYNCED       |-> [gapNeeded |-> "GAP_FETCHING", seqHole |-> "GAP_FETCHING",
                    connect |-> "RECONNECTING"],
  SYNC_FAILED  |-> [retry |-> "GAP_FETCHING", connect |-> "RECONNECTING"]]

transition(state, event) ==
  IF event = "disconnect" THEN "DISCONNECTED"
  ELSE IF event \in DOMAIN Edges[state] THEN Edges[state][event] ELSE state

\* Mutant: the sentinel of a failed INCR is taken for a seq.
observeSentinel(seq) ==
  IF last = None \/ seq = last + 1 THEN [kind |-> "ok", last |-> seq]
  ELSE IF seq <= last THEN [kind |-> "duplicate", last |-> last]
  ELSE [kind |-> "hole", last |-> seq]

\* SeqTracker.observe: its verdict and the new lastSeq.
observe(seq) ==
  IF seq = Sentinel THEN [kind |-> "sentinel", last |-> last]
  ELSE IF last = None \/ seq = last + 1 THEN [kind |-> "ok", last |-> seq]
  ELSE IF seq <= last THEN [kind |-> "duplicate", last |-> last]
  ELSE [kind |-> "hole", last |-> seq]

\* Mutant: the gap-fetch starts after the newest message of the cache.
NewestCached == IF cache = None \/ cache = {} THEN 0
                ELSE CHOOSE m \in cache : \A n \in cache : n <= m

\* The cursor a gap-fetch starts from: pages[0].pageInfo.prevCursor.
After == cursor

\* runSync in FSM state f with a failures counted: share the in-flight
\* promise, start a fetch, or have nothing to fetch after.
RunSync(f, a) ==
  \/ /\ gap.at # "idle"
     /\ gap' = [gap EXCEPT !.waiters = @ + 1]
     /\ fsm' = f /\ attempt' = a
     /\ UNCHANGED <<truncated, pend>>
  \/ /\ gap.at = "idle" /\ After # 0
     /\ gap' = [NoGap EXCEPT !.at = "fetch", !.after = After, !.waiters = 1]
     /\ fsm' = f /\ attempt' = a
     /\ UNCHANGED <<truncated, pend>>
  \/ /\ gap.at = "idle" /\ After = 0
     /\ fsm' = transition(f, "synced") /\ attempt' = 0
     /\ truncated' = (truncated \/ pend.over) /\ pend' = NoPend
     /\ UNCHANGED gap

\* enterGapFetch: only the transition's result decides, also when the state
\* was GAP_FETCHING before.
EnterGapFetch(reason) ==
  LET next == transition(fsm, reason)
  IN  IF next = "GAP_FETCHING"
      THEN RunSync(next, 0) /\ UNCHANGED timer
      ELSE fsm' = next /\ UNCHANGED <<truncated, gap, timer, attempt, pend>>

-----------------------------------------------------------------------------
(* Frames from the socket. *)

Frame(t) ==
  /\ wire # <<>> /\ Head(wire).t = t
  /\ wire' = Tail(wire)
  /\ UNCHANGED <<stored, fan, handshake, conn, read, sent, replayed, buffered,
                 bounds>>

\* Connection events reach the FSM only of a channel the tracker knows.
Dispatched(event) ==
  /\ fsm' = IF last = None THEN fsm ELSE transition(fsm, event)
  /\ UNCHANGED <<truncated, gap, timer, attempt, pend>>

OnConnect ==
  /\ Frame("connect")
  /\ Dispatched("connect")
  /\ UNCHANGED <<list, last, used>>

OnChannelJoined ==
  /\ Frame("joined")
  /\ last' = IF Head(wire).seq = Sentinel THEN last ELSE Head(wire).seq
  /\ UNCHANGED <<list, sync, used>>

OnReplayComplete ==
  /\ Frame("complete")
  /\ Dispatched("replayComplete")
  /\ UNCHANGED <<list, last, used>>

OnReplayTruncated ==
  /\ Frame("truncated")
  /\ EnterGapFetch("gapNeeded")
  /\ UNCHANGED <<list, last, used>>

Pushed == IF pend.size < MaxPending THEN [pend EXCEPT !.size = @ + 1]
          ELSE [pend EXCEPT !.over = TRUE]

\* The dispatcher of message.created adds the row by id if there is a list.
WithRow(id) == IF cache = None THEN None ELSE cache \cup {id}

\* The sync listener buffers the event while GAP_FETCHING and observes its seq
\* otherwise.
OnChannelEvent ==
  /\ Frame("event")
  /\ cache' = WithRow(Head(wire).id)
  /\ \/ /\ fsm = "GAP_FETCHING"
        /\ pend' = Pushed
        /\ UNCHANGED <<last, fsm, truncated, gap, timer, attempt>>
     \/ /\ fsm # "GAP_FETCHING"
        /\ LET seen == observe(Head(wire).seq)
           IN /\ last' = seen.last
              /\ IF seen.kind = "hole" THEN EnterGapFetch("seqHole")
                 ELSE UNCHANGED sync
  /\ UNCHANGED <<cursor, loading, used>>

\* The socket notices that its transport broke.
OnDisconnect ==
  /\ Drop
  /\ Dispatched("disconnect")
  /\ UNCHANGED <<list, last, used>>

\* The page is not connected again: the tenth attempt in a row has failed, the
\* handshake was refused (its token is the one the page opened with), or it was
\* the server that ended the connection.  Only a reload or another login opens a
\* new socket.
Abandon ==
  /\ conn = "off"
  /\ conn' = "lost"
  /\ UNCHANGED <<stored, fan, handshake, read, wire, sent, replayed, buffered,
                 bounds, clientVars>>

-----------------------------------------------------------------------------
(* The gap-fetch. *)

\* Mutant: of the limit + 1 rows read, the one next to the cursor is cut off.
PageFarEnd ==
  LET skip == IF gap.after + PageLimit < db THEN 1 ELSE 0
  IN {m \in 1..db : gap.after + skip < m /\ m <= gap.after + skip + PageLimit}

Page == {m \in 1..db : gap.after < m /\ m <= gap.after + PageLimit}

\* A page arrives: the PageLimit rows next to the cursor.
GapPage ==
  /\ gap.at = "fetch"
  /\ LET more == gap.after + PageLimit < db
         stop == gap.pages + 1 = MaxPages
     IN gap' = [gap EXCEPT !.got = @ \cup Page,
                           !.pages = @ + 1,
                           !.after = IF more THEN @ + PageLimit ELSE @,
                           !.over = more /\ stop,
                           !.at = IF more /\ ~stop THEN "fetch" ELSE "ok"]
  /\ UNCHANGED <<serverVars, list, last, fsm, truncated, timer, attempt, pend,
                 used>>

\* A list that was evicted meanwhile stays absent; ids are merged once.
mergeGapMessages(got) == IF cache = None THEN None ELSE cache \cup got

\* The result is merged into the list, the buffer dropped, and every caller
\* of runSync that shares the promise resets the backoff.
GapSettles ==
  /\ gap.at = "ok"
  /\ cache' = mergeGapMessages(gap.got)
  /\ truncated' = (truncated \/ gap.over \/ pend.over)
  /\ pend' = NoPend
  /\ fsm' = transition(fsm, "synced")
  /\ attempt' = 0
  /\ gap' = NoGap
  /\ UNCHANGED <<serverVars, cursor, loading, last, timer, used>>

\* Backoff.exhausted after a failures.
Exhausted(a) == a >= MaxAttempts

\* Mutant: a failed fetch is not retried.
GapFailsForGood ==
  /\ gap.at = "fetch"
  /\ used.http < MaxHttpFaults
  /\ used' = [used EXCEPT !.http = @ + 1]
  /\ attempt' = attempt + gap.waiters
  /\ fsm' = IF Exhausted(attempt') THEN transition(fsm, "failed") ELSE fsm
  /\ gap' = NoGap
  /\ UNCHANGED <<serverVars, list, last, truncated, timer, pend>>

\* A request fails: each of the callers counts an attempt, then arms the one
\* retry timer or gives up.
GapFails ==
  /\ gap.at = "fetch"
  /\ used.http < MaxHttpFaults
  /\ used' = [used EXCEPT !.http = @ + 1]
  /\ attempt' = attempt + gap.waiters
  /\ timer' = (timer \/ ~Exhausted(attempt + 1))
  /\ fsm' = IF Exhausted(attempt') THEN transition(fsm, "failed") ELSE fsm
  /\ gap' = NoGap
  /\ UNCHANGED <<serverVars, list, last, truncated, pend>>

RetryFires ==
  /\ timer
  /\ timer' = FALSE
  /\ RunSync(fsm, attempt)
  /\ UNCHANGED <<serverVars, list, last, used>>

-----------------------------------------------------------------------------
(* The LRU and the first page of the list. *)

\* runChannelLruEntry evicts the channel; an in-flight fetch, the backoff, the
\* buffer and the timer are not touched.
Evict ==
  /\ cache # None
  /\ used.evict < MaxEvicts
  /\ used' = [used EXCEPT !.evict = @ + 1]
  /\ cache' = None /\ cursor' = 0
  /\ fsm' = "DISCONNECTED" /\ truncated' = FALSE /\ last' = None
  /\ UNCHANGED <<serverVars, loading, gap, timer, attempt, pend>>

\* The channel is entered again: the server reads the list for useMessageHistory.
LoadList ==
  /\ cache = None /\ loading = None
  /\ loading' = db
  /\ UNCHANGED <<serverVars, cache, cursor, last, sync, used>>

ListLoaded ==
  /\ loading # None
  /\ cache' = 1..loading /\ cursor' = loading /\ loading' = None
  /\ UNCHANGED <<serverVars, last, sync, used>>

Receive ==
  \/ OnConnect \/ OnChannelJoined \/ OnReplayComplete \/ OnReplayTruncated
  \/ OnChannelEvent

Fetch == GapPage \/ GapSettles \/ RetryFires

Load == LoadList \/ ListLoaded

ClientNext ==
  Receive \/ OnDisconnect \/ Abandon \/ Fetch \/ GapFails \/ Evict \/ Load

Next ==
  \/ ServerNext /\ UNCHANGED clientVars
  \/ ClientNext

Spec == SyncInit /\ [][Next]_allVars

\* Redis and the socket answer, the event loop runs and timers fire.  A page that
\* is off either connects or gives up: the attempts are at most ten.
FairSpec ==
  /\ Spec
  /\ \A r \in Replicas : WF_allVars(FanStep(r) /\ UNCHANGED clientVars)
  /\ WF_allVars(HandleConnection /\ UNCHANGED clientVars)
  /\ WF_allVars(Receive)
  /\ WF_allVars(GapPage \/ GapSettles)
  /\ WF_allVars(RetryFires)
  /\ WF_allVars(Load)
-----------------------------------------------------------------------------
(* What the page promises its user. *)

\* Nothing is on its way to the page any more, and nothing tells the user that
\* the list is incomplete.
Settled ==
  /\ conn = "ready" /\ wire = <<>>
  /\ done = 1..db /\ \A r \in Replicas : fan[r].at = "idle"
  /\ gap.at = "idle" /\ ~timer
  /\ cache # None /\ loading = None

Reported == truncated \/ fsm = "SYNC_FAILED"

\* No silent gap: a page at rest shows every message, unless it says it does
\* not.  Replay, seq holes, gap-fetch, retries and the dispatcher's dedup all
\* take part (installChannelSync and handleConnection).
NoSilentGap == Settled /\ ~Reported => cache = 1..db

\* A channel in GAP_FETCHING has a fetch in flight or a retry armed: no order
\* of failures, shared promises and reconnects leaves the FSM stuck there,
\* where events go unobserved.
GapFetchingIsDriven == fsm = "GAP_FETCHING" => gap.at # "idle" \/ timer

\* GAP_FETCHING is always left again.
FetchSettles == fsm = "GAP_FETCHING" ~> fsm # "GAP_FETCHING"

\* Every message reaches the list in the end, or the page reports the gap, or it
\* is off for good and its banner says so ('failed') or that it is not connected.
EventuallyShown ==
  \A m \in Msgs :
    m <= db ~> (Reported \/ conn = "lost" \/ (cache # None /\ m \in cache))
=============================================================================
