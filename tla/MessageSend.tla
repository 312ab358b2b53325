---------------------------- MODULE MessageSend ----------------------------
(***************************************************************************)
(* One logical send of a message: the optimistic bubble of the sending     *)
(* tab (useSendMessage, sendState.ts, the message.created handler of the   *)
(* dispatcher), the tries it makes under one clientNonce, and what each    *)
(* try does in MessagesService.send.                                       *)
(*                                                                         *)
(* The clientNonce is the Idempotency-Key.  Three look-ups guard it: the   *)
(* Redis cache, the unique index (authorId, idempotencyKey), on which a    *)
(* second INSERT waits until the first transaction ends, and the look-up   *)
(* after P2002.  Gates stand before them and between them: the ones on the *)
(* sender come before the cache is read, the ones on the content after it, *)
(* and a broad mention needs the author's confirmation.  A try goes on at  *)
(* the server after the tab gave it up, so tries overlap.  The list        *)
(* refetches whenever it is invalidated or the window gets the focus, and  *)
(* a refetch replaces the cached list.                                     *)
(*                                                                         *)
(* Left out: replies (another cache, and the lock of their thread) and the *)
(* deletion of the message.                                                *)
(***************************************************************************)
EXTENDS Naturals, FiniteSets

CONSTANTS
  MaxTries,       \* bound on the tries of the send
  MaxSendFaults,  \* bound on failed queries, lost requests and dead processes
  MaxFetches,     \* bound on refetches of the list
  MaxEchoes,      \* bound on deliveries of message.created to this tab
  MaxSendEdits    \* bound on edits of the stored message

ASSUME MessageSendAssumption ==
  /\ MaxTries \in Nat \ {0}
  /\ {MaxSendFaults, MaxFetches, MaxEchoes, MaxSendEdits} \subseteq Nat

Tries == 1..MaxTries
NoTry == 0

VARIABLES
  draft,      \* what is sent, to where, by whom: [att, slow, broad, gated]
              \* att: an attachment, slow: in a slow channel, broad: with a
              \* mention of everybody, gated: some gate is shut now and then
  bubble,     \* the optimistic row tmp-<nonce> in the cached list
  copies,     \* how often the stored row is in the cached list
  try,        \* try[t]: [at, att, sure, ans], where the t-th request stands
  awaited,    \* the try whose answer the mutation still waits for
  timer,      \* the pendingRef entry of its hook: the timer runs
  asking,     \* the try whose payload the open confirmation dialog holds
  late,       \* history: a bubble was put next to the stored row
  stored,     \* the Message row: [att, edited] once there is one
  stores,     \* history: Message rows committed for the nonce
  holder,     \* the try whose INSERT is not committed yet
  idem,       \* idem:{userId}:{key} is cached
  cooldown,   \* slowmode:{channelId}:{userId} is set
  echoes,     \* deliveries of message.created so far
  fetch,      \* "none", or what the refetch under way has read
  fetches,    \* refetches so far
  wiped,      \* history: a refetch took the stored row out of the list
  sendFaults, \* failures so far
  sendEdits   \* edits so far

request == <<awaited, timer, asking>>
refetch == <<fetch, fetches, wiped>>
tab == <<bubble, copies, request, late, echoes, refetch>>
server == <<stored, stores, holder, idem, cooldown>>
sendBounds == <<sendFaults, sendEdits>>
sendVars == <<draft, try, tab, server, sendBounds>>

Drafts == [att : BOOLEAN, slow : BOOLEAN, broad : BOOLEAN, gated : BOOLEAN]
Unsent == [at |-> "unsent", att |-> FALSE, sure |-> FALSE, ans |-> "none"]
NoRow == [is |-> FALSE, att |-> FALSE, edited |-> FALSE]

\* The steps of a try at the server, in their order.
Running ==
  {"wire", "cache", "check", "screen", "insert", "commit", "warm", "lookup"}

SendTypeOK ==
  /\ draft \in Drafts
  /\ bubble \in {"none", "pending", "failed"}
  /\ copies \in 0..2
  /\ try \in [Tries -> [at : Running \cup {"unsent", "done", "dead"},
                        att : BOOLEAN, sure : BOOLEAN,
                        ans : {"none", "ok", "refused", "error", "ask"}]]
  /\ {awaited, asking} \subseteq Tries \cup {NoTry}
  /\ stored \in [is : BOOLEAN, att : BOOLEAN, edited : BOOLEAN]
  /\ stores \in 0..MaxTries
  /\ holder \in Tries \cup {NoTry}
  /\ {idem, cooldown, wiped, timer, late} \subseteq BOOLEAN
  /\ echoes \in 0..MaxEchoes
  /\ fetch \in {"none", "with", "without"}
  /\ fetches \in 0..MaxFetches
  /\ sendFaults \in 0..MaxSendFaults
  /\ sendEdits \in 0..MaxSendEdits

SendInit ==
  /\ draft \in Drafts
  /\ bubble = "none" /\ copies = 0
  /\ try = [t \in Tries |-> Unsent]
  /\ awaited = NoTry /\ timer = FALSE /\ asking = NoTry /\ late = FALSE
  /\ stored = NoRow /\ stores = 0 /\ holder = NoTry
  /\ idem = FALSE
  /\ cooldown \in {FALSE, draft.slow}
  /\ echoes = 0 /\ fetch = "none" /\ fetches = 0 /\ wiped = FALSE
  /\ sendFaults = 0 /\ sendEdits = 0

SendFault ==
  /\ sendFaults < MaxSendFaults
  /\ sendFaults' = sendFaults + 1
  /\ UNCHANGED sendEdits

-----------------------------------------------------------------------------
(* The sending tab. *)

\* mutate(): onMutate cancels the refetch, puts the bubble in the list or
\* flips it back to pending, the timer starts and the request goes out.
Mutate(t, att, sure) ==
  /\ try[t].at = "unsent"
  /\ \A u \in 1..(t - 1) : try[u].at # "unsent"
  /\ bubble' = "pending"
  /\ late' = (late \/ (bubble = "none" /\ copies > 0))
  /\ fetch' = "none"
  /\ awaited' = t /\ timer' = TRUE /\ asking' = NoTry
  /\ try' = [try EXCEPT ![t] = [at |-> "wire", att |-> att, sure |-> sure, ans |-> "none"]]
  /\ UNCHANGED <<draft, copies, echoes, fetches, wiped, server, sendBounds>>

\* The composer may have had a broad mention confirmed before it sends.
SendFirst == \E sure \in {FALSE, draft.broad} : Mutate(1, draft.att, sure)

\* Mutant: the retry names the attachments again.
RetryInFull(t) ==
  /\ bubble = "failed"
  /\ t > 1
  /\ Mutate(t, draft.att, FALSE)

\* The retry button of a failed bubble: the call names no attachments and
\* carries no confirmation.
Retry(t) ==
  /\ bubble = "failed"
  /\ t > 1
  /\ Mutate(t, FALSE, FALSE)

\* The dialog is confirmed: its payload is sent again under the same nonce.
Confirm(t) ==
  /\ asking # NoTry
  /\ Mutate(t, try[asking].att, TRUE)

\* The dialog is dismissed: it only closes, the bubble stays as it is.
Cancel ==
  /\ asking # NoTry
  /\ asking' = NoTry
  /\ UNCHANGED <<draft, try, bubble, copies, awaited, timer, late, echoes,
                 refetch, server, sendBounds>>

\* The channel is left: the hook clears its timers and the dialog goes; the
\* request and its bubble stay.
Unmount ==
  /\ timer \/ asking # NoTry
  /\ timer' = FALSE /\ asking' = NoTry
  /\ UNCHANGED <<draft, try, bubble, copies, awaited, late, echoes, refetch,
                 server, sendBounds>>

\* The request comes to nothing here, whatever it does there: onError marks
\* the bubble, if it is still there, and onSettled clears the timer.
Fails ==
  /\ awaited # NoTry
  /\ awaited' = NoTry /\ timer' = FALSE
  /\ bubble' = IF bubble = "pending" THEN "failed" ELSE bubble
  /\ UNCHANGED <<draft, try, copies, asking, late, echoes, refetch,
                 server, sendBounds>>

\* The connection of the request breaks.
Breaks == Fails

\* Mutant: the abort is taken for a success and changes nothing.
TimeOutSilent ==
  /\ timer /\ awaited # NoTry
  /\ awaited' = NoTry /\ timer' = FALSE
  /\ UNCHANGED <<draft, try, bubble, copies, asking, late, echoes, refetch,
                 server, sendBounds>>

\* The timer fires and aborts the request.
TimeOut == timer /\ Fails

\* Mutant: onSuccess adds the row whether or not the bubble is there.
OnSuccessAdds ==
  /\ try[awaited].ans = "ok"
  /\ bubble' = "none"
  /\ copies' = copies + 1
  /\ UNCHANGED asking

\* onSuccess: confirmOptimistic swaps the bubble, if it is still there.
OnSuccess ==
  /\ try[awaited].ans = "ok"
  /\ bubble' = "none"
  /\ copies' = IF bubble # "none" THEN copies + 1 ELSE copies
  /\ UNCHANGED asking

\* onError: the bubble is marked failed, if it is still there.  A hook with a
\* callback hands a demand for confirmation on instead: the bubble stays
\* pending and the dialog opens, unless its composer is gone.  The retry
\* button of the desktop's list has a hook without one.
OnError ==
  /\ UNCHANGED copies
  /\ \/ /\ try[awaited].ans \in {"refused", "error", "ask"}
        /\ bubble' = IF bubble # "none" THEN "failed" ELSE "none"
        /\ UNCHANGED asking
     \/ /\ try[awaited].ans = "ask"
        /\ asking' = IF timer THEN awaited ELSE NoTry
        /\ UNCHANGED bubble

\* The answer is handled, and onSettled clears the timer.
Answered ==
  /\ awaited # NoTry
  /\ OnSuccess \/ OnError
  /\ awaited' = NoTry /\ timer' = FALSE
  /\ UNCHANGED <<draft, try, late, echoes, refetch, server, sendBounds>>

\* Mutant: the echo is not matched with the bubble.
EchoSwapIgnored ==
  /\ copies' = IF copies > 0 THEN copies ELSE 1
  /\ UNCHANGED bubble

\* message.created: nothing when the row is in the list, or else it takes the
\* place of the bubble or comes on top.
EchoSwap ==
  IF copies > 0 THEN UNCHANGED <<bubble, copies>>
  ELSE copies' = 1 /\ bubble' = "none"

Echo ==
  /\ stored.is
  /\ echoes < MaxEchoes
  /\ echoes' = echoes + 1
  /\ EchoSwap
  /\ UNCHANGED <<draft, try, request, late, refetch, server, sendBounds>>

\* A refetch of the list reads the table ...
FetchRead ==
  /\ fetch = "none"
  /\ fetches < MaxFetches
  /\ fetch' = IF stored.is THEN "with" ELSE "without"
  /\ fetches' = fetches + 1
  /\ UNCHANGED <<draft, try, bubble, copies, request, late, echoes, wiped,
                 server, sendBounds>>

\* ... and its answer replaces the cached list.
FetchArrives ==
  /\ fetch # "none"
  /\ fetch' = "none"
  /\ bubble' = "none"
  /\ copies' = IF fetch = "with" THEN 1 ELSE 0
  /\ wiped' = (wiped \/ (fetch = "without" /\ copies > 0))
  /\ UNCHANGED <<draft, try, request, late, echoes, fetches, server,
                 sendBounds>>

-----------------------------------------------------------------------------
(* A try at the server. *)

Goes(t, to) == try' = [try EXCEPT ![t].at = to]
Ends(t, ans) == try' = [try EXCEPT ![t].at = "done", ![t].ans = ans]

\* slowmode.enforce: the first try starts the cooldown, every later one is
\* refused until it is over; without Redis the last message decides.
SlowGate(t) ==
  \/ /\ ~draft.slow
     /\ Goes(t, "cache")
     /\ UNCHANGED <<cooldown, sendBounds>>
  \/ /\ draft.slow /\ ~cooldown
     /\ cooldown' = TRUE
     /\ Goes(t, "cache")
     /\ UNCHANGED sendBounds
  \/ /\ draft.slow /\ cooldown
     /\ Ends(t, "refused")
     /\ UNCHANGED <<cooldown, sendBounds>>
  \/ /\ draft.slow
     /\ SendFault
     /\ Goes(t, "cache") \/ Ends(t, "refused")
     /\ UNCHANGED cooldown

\* The gates of the controller, before anything looks at the key.  The ones on
\* the sender (verified address, timeout, rules, announcements, a block, the
\* rate limit) may be shut at any moment for a gated draft, also for a try
\* whose message is stored; the errors of the rate limit's Redis are not
\* caught; slow mode comes last.
Arrive(t) ==
  /\ try[t].at = "wire"
  /\ \/ draft.gated /\ Ends(t, "refused") /\ UNCHANGED <<cooldown, sendBounds>>
     \/ SendFault /\ Ends(t, "error") /\ UNCHANGED cooldown
     \/ SlowGate(t)
  /\ UNCHANGED <<draft, tab, stored, stores, holder, idem>>

CooldownEnds ==
  /\ cooldown
  /\ cooldown' = FALSE
  /\ UNCHANGED <<draft, try, tab, stored, stores, holder, idem, sendBounds>>

\* The stored row answers the try, unless its content is another by now.
Replay(t) == IF stored.edited THEN Ends(t, "refused") ELSE Ends(t, "ok")

\* readIdemCache: a hit answers, a miss or a Redis error falls through.
ReadCache(t) ==
  /\ try[t].at = "cache"
  /\ \/ idem /\ Replay(t) /\ UNCHANGED sendBounds
     \/ ~idem /\ Goes(t, "check") /\ UNCHANGED sendBounds
     \/ idem /\ SendFault /\ Goes(t, "check")
  /\ UNCHANGED <<draft, tab, server>>

\* The attachments the try names must not be linked to a message yet.
CheckAttachments(t) ==
  /\ try[t].at = "check"
  /\ IF try[t].att /\ stored.att THEN Ends(t, "refused") ELSE Goes(t, "screen")
  /\ UNCHANGED <<draft, tab, server, sendBounds>>

\* The gates on the content (caps and rate limit of mentions, AutoMod, which
\* may mute the sender as well), still before the INSERT.  A broad mention that
\* is not confirmed is sent back when the members are many at the moment and
\* the sender may mention them.
Screen(t) ==
  /\ try[t].at = "screen"
  /\ \/ draft.broad /\ ~try[t].sure /\ Ends(t, "ask")
     \/ draft.gated /\ Ends(t, "refused")
     \/ Goes(t, "insert")
  /\ UNCHANGED <<draft, tab, server, sendBounds>>

\* Mutant: the index is not unique.
InsertTwice(t) ==
  /\ try[t].at = "insert"
  /\ holder = NoTry
  /\ Goes(t, "commit") /\ holder' = t
  /\ UNCHANGED <<draft, tab, stored, stores, idem, cooldown, sendBounds>>

\* The INSERT: it waits for another one of the key, and fails with P2002 when
\* that one is committed.
Insert(t) ==
  /\ try[t].at = "insert"
  /\ holder = NoTry
  /\ IF stored.is
     THEN Goes(t, "lookup") /\ UNCHANGED holder
     ELSE Goes(t, "commit") /\ holder' = t
  /\ UNCHANGED <<draft, tab, stored, stores, idem, cooldown, sendBounds>>

\* The rest of the transaction (attachments, outbox row) and its end.
Commit(t) ==
  /\ try[t].at = "commit"
  /\ holder' = NoTry
  /\ \/ /\ stored' = [is |-> TRUE, att |-> try[t].att, edited |-> FALSE]
        /\ stores' = stores + 1
        /\ Goes(t, "warm")
        /\ UNCHANGED sendBounds
     \/ /\ SendFault
        /\ Ends(t, "error")
        /\ UNCHANGED <<stored, stores>>
  /\ UNCHANGED <<draft, tab, idem, cooldown>>

\* writeIdemCache, whose errors are swallowed, and the answer.
Warm(t) ==
  /\ try[t].at = "warm"
  /\ Ends(t, "ok")
  /\ \/ idem' = TRUE /\ UNCHANGED sendBounds
     \/ SendFault /\ UNCHANGED idem
  /\ UNCHANGED <<draft, tab, stored, stores, holder, cooldown>>

\* After P2002 the row of the key answers, and the cache is warmed.
LookUp(t) ==
  /\ try[t].at = "lookup"
  /\ Replay(t)
  /\ IF stored.edited
     THEN UNCHANGED <<idem, sendBounds>>
     ELSE \/ idem' = TRUE /\ UNCHANGED sendBounds
          \/ SendFault /\ UNCHANGED idem
  /\ UNCHANGED <<draft, tab, stored, stores, holder, cooldown>>

\* The request or its process is lost; an open transaction rolls back.
Lose(t) ==
  /\ try[t].at \in Running
  /\ SendFault
  /\ Goes(t, "dead")
  /\ holder' = IF holder = t THEN NoTry ELSE holder
  /\ UNCHANGED <<draft, tab, stored, stores, idem, cooldown>>

\* The cache entry expires after a day, or Redis evicts it.
IdemExpires ==
  /\ idem
  /\ idem' = FALSE
  /\ UNCHANGED <<draft, try, tab, stored, stores, holder, cooldown, sendBounds>>

\* The author edits the message: updateMany replaces its content.
EditStored ==
  /\ stored.is
  /\ sendEdits < MaxSendEdits
  /\ stored' = [stored EXCEPT !.edited = TRUE]
  /\ sendEdits' = sendEdits + 1
  /\ UNCHANGED <<draft, try, tab, stores, holder, idem, cooldown, sendFaults>>

ServerTry(t) ==
  \/ Arrive(t) \/ ReadCache(t) \/ CheckAttachments(t) \/ Screen(t)
  \/ Insert(t) \/ Commit(t) \/ Warm(t) \/ LookUp(t)

SendNext ==
  \/ SendFirst \/ Cancel \/ Unmount \/ Breaks \/ TimeOut \/ Answered
  \/ Echo \/ FetchRead \/ FetchArrives
  \/ \E t \in Tries : Retry(t) \/ Confirm(t) \/ ServerTry(t) \/ Lose(t)
  \/ CooldownEnds \/ IdemExpires \/ EditStored

\* A timer that is set fires unless it is cleared, an answer that comes is
\* handled, the event loop ends every request that is not lost, and the outbox
\* delivers until a client took the event.  Nothing makes the author answer a
\* dialog, nor a lost connection break.
SendFairness ==
  /\ WF_sendVars(TimeOut) /\ WF_sendVars(Answered) /\ WF_sendVars(Echo)
  /\ \A t \in Tries : WF_sendVars(ServerTry(t))

SendSpec == SendInit /\ [][SendNext]_sendVars

-----------------------------------------------------------------------------

\* One logical message is never twice in the list, neither as two rows nor as
\* a row and its bubble, in whatever order the answer, the echo, a refetch
\* and a retry come (FR-RT-24; confirmOptimistic and the message.created
\* handler each look for the other's result).  The exception is a demand for
\* confirmation that a retry met and the author confirms when the message has
\* arrived meanwhile: onMutate looks for the bubble only.
ShownOnce ==
  late \/ (IF bubble = "none" THEN 0 ELSE 1) + copies <= 1

\* However the tries of a nonce overlap, at most one row is stored, and every
\* try that is answered with success names it (messages.service.ts:1642, 1986
\* and 2479: cache, index, look-up).
StoredOnce ==
  /\ stores <= 1
  /\ \A t \in Tries : try[t].ans = "ok" => stores = 1

\* A try is not refused for what an earlier one has done: its attachments are
\* not found linked and its key not taken.  What may refuse it is slow mode, an
\* edit in between (the content is compared with the row's present content),
\* or a gate on the sender or the content, also when the message is stored
\* already: the former come before every look-up, the latter before the index.
RefusalsExplained ==
  \A t \in Tries :
    try[t].ans = "refused" => draft.slow \/ draft.gated \/ stored.edited

\* A tab that has handled the event of its message shows the message, unless
\* a refetch that had read the table before the commit came after it.
StoredIsShown ==
  echoes > 0 => copies > 0 \/ wiped

\* No request is under way for the bubble, and one was sent back for the
\* author's confirmation: its dialog is open, or was dismissed, or is gone.
WaitsForAuthor == awaited = NoTry /\ \E t \in Tries : try[t].ans = "ask"

\* A pending bubble always has a request it waits for, or a confirmation.
PendingIsOwned ==
  bubble = "pending" => awaited # NoTry \/ WaitsForAuthor

\* The promise of the nonce as a whole, to the sender and to the channel.
SendSound ==
  ShownOnce /\ StoredOnce /\ RefusalsExplained /\ StoredIsShown /\ PendingIsOwned

\* The composer is gone, with its timer, and the request is lost.
Orphaned ==
  awaited # NoTry /\ ~timer /\ try[awaited].at = "dead"

\* A bubble does not stay pending: it is confirmed, or marked failed by an
\* answer or by the timer of its last request, or replaced by a refetch.  The
\* two ways in which it may stay are a confirmation the author does not give
\* and a lost request whose hook was unmounted (useMessages.ts:279 clears the
\* timers and leaves the bubble).
PendingEnds ==
  bubble = "pending" ~> (bubble # "pending" \/ WaitsForAuthor \/ Orphaned)
=============================================================================
