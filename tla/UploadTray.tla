----------------------------- MODULE UploadTray -----------------------------
(* The attachments of a message being composed (features/attachments/       *)
(* useAttachmentUpload.ts, MessageComposer.tsx doSend): a file is uploaded  *)
(* at once, and completed when the message is sent, in a call that may take *)
(* half a minute while the user goes on. A file is added once. Of the       *)
(* server there is what complete answers; module Attachments has the rest.  *)
(* Left out: the text of the draft, previews and progress, the limit of ten *)
(* files, and a composer that is mounted again within one page.             *)
EXTENDS Naturals, Sequences, FiniteSets

CONSTANTS
  Files,       \* what the user may attach
  Presses,     \* runs of completeAndCollect, each one at a time
  MaxAttempts, \* COMPLETE_MAX_ATTEMPTS
  MaxSessions, \* bound: upload sessions
  MaxNetFaults,\* bound: requests that fail or lose their answer
  MaxMoves     \* bound: channel switches and reloads

ASSUME UploadTrayAssumption ==
  /\ IsFiniteSet(Files)
  /\ MaxAttempts \in Nat \ {0} /\ MaxSessions \in Nat /\ MaxNetFaults \in Nat /\ MaxMoves \in Nat

VARIABLES
  tray,     \* items: the files, in their order
  item,     \* per file: its status and session; "new" before, "gone" after the tray
  run,      \* per file: how far its runUpload is, and with which session
  press,     \* per press: how far its completeAndCollect is
  inFlight, \* inFlightRef
  pending,  \* qufox:pending_sessions in the sessionStorage
  fileOf,   \* the sessions of the server, in their order, and the files they are for
  stored,   \* those of which the object is there
  old,      \* those that expire within ten seconds, or have
  done,     \* those completed
  sent,     \* the messages, each with its sessions
  netFaults, moves,
  removed,  \* history: files the user removed, or left behind by moving on
  stray     \* history: sessions noted after their item was gone, or given up by a retry

trayVars == <<tray, item, run, press, inFlight, pending, fileOf, stored, old, done, sent,
              netFaults, moves, removed, stray>>

InTray(f) == \E i \in DOMAIN tray : tray[i] = f
NoRun == [at |-> "none", s |-> 0]
NoPress == [at |-> "idle", list |-> <<>>, had |-> <<>>, use |-> <<>>, stale |-> FALSE,
            try |-> 0]
Members(q) == {q[i] : i \in DOMAIN q}

\* The tray's items of S, in their order.
Kept(S) ==
  {q \in [1..Cardinality(S) -> S] :
     /\ S \subseteq Members(q)
     /\ \A i, j \in DOMAIN q : \A k, l \in DOMAIN tray :
          i < j /\ q[i] = tray[k] /\ q[j] = tray[l] => k < l}

\* patch: an item that is no longer there is not brought back.
Patched(F, what) == [f \in Files |-> IF f \in F /\ InTray(f) THEN [item[f] EXCEPT !.is = what]
                                     ELSE item[f]]
NetFault == netFaults < MaxNetFaults /\ netFaults' = netFaults + 1

TrayInit ==
  /\ tray = <<>> /\ item = [f \in Files |-> [is |-> "new", s |-> 0]]
  /\ run = [f \in Files |-> NoRun] /\ press = [c \in Presses |-> NoPress] /\ inFlight = FALSE
  /\ pending = {} /\ fileOf = <<>> /\ stored = {} /\ old = {} /\ done = {} /\ sent = {}
  /\ netFaults = 0 /\ moves = 0 /\ removed = {} /\ stray = {}

AddFile(f) ==
  /\ item[f].is = "new"
  /\ tray' = Append(tray, f)
  /\ item' = [item EXCEPT ![f].is = "uploading"]
  /\ run' = [run EXCEPT ![f] = [at |-> "presign", s |-> 0]]
  /\ UNCHANGED <<press, inFlight, pending, fileOf, stored, old, done, sent, netFaults, moves,
                 removed, stray>>

-----------------------------------------------------------------------------
\* presign: the server's new session is noted in the item, if there is one, and
\* in the sessionStorage, whatever has become of the item.
Presign(f) ==
  /\ Len(fileOf) < MaxSessions
  /\ fileOf' = Append(fileOf, f)
  /\ pending' = pending \cup {Len(fileOf) + 1}
  /\ item' = IF InTray(f) THEN [item EXCEPT ![f].s = Len(fileOf) + 1] ELSE item
  /\ stray' = IF InTray(f) THEN stray ELSE stray \cup {Len(fileOf) + 1}

RunPresigned(f) ==
  /\ run[f].at = "presign" /\ Presign(f)
  /\ run' = [run EXCEPT ![f] = [at |-> "store", s |-> Len(fileOf) + 1]]
  /\ UNCHANGED <<tray, press, inFlight, stored, old, done, sent, netFaults, moves, removed>>

RunStored(f) ==
  /\ run[f].at = "store"
  /\ stored' = stored \cup {run[f].s}
  /\ item' = Patched({f}, "ready")
  /\ run' = [run EXCEPT ![f] = NoRun]
  /\ UNCHANGED <<tray, press, inFlight, pending, fileOf, old, done, sent, netFaults, moves,
                 removed, stray>>

RunFails(f) ==
  /\ run[f].at # "none" /\ NetFault
  /\ item' = Patched({f}, "failed")
  /\ run' = [run EXCEPT ![f] = NoRun]
  /\ UNCHANGED <<tray, press, inFlight, pending, fileOf, stored, old, done, sent, moves,
                 removed, stray>>

\* A card is locked while it is being sent (AttachmentTrayCard.tsx:58).
RemoveItem(f) ==
  /\ InTray(f) /\ item[f].is # "sending"
  /\ tray' \in Kept(Members(tray) \ {f})
  /\ item' = [item EXCEPT ![f] = [is |-> "gone", s |-> 0]]
  /\ pending' = pending \ {item[f].s}
  /\ removed' = removed \cup {f}
  /\ UNCHANGED <<run, press, inFlight, fileOf, stored, old, done, sent, netFaults, moves, stray>>

\* The session of the first try stays in the sessionStorage.
RetryItem(f) ==
  /\ InTray(f) /\ item[f].is = "failed"
  /\ stray' = stray \cup ({item[f].s} \ {0})
  /\ item' = [item EXCEPT ![f] = [is |-> "uploading", s |-> 0]]
  /\ run' = [run EXCEPT ![f] = [at |-> "presign", s |-> 0]]
  /\ UNCHANGED <<tray, press, inFlight, pending, fileOf, stored, old, done, sent, netFaults,
                 moves, removed>>

Expiring(s) ==
  /\ s \in DOMAIN fileOf \ old
  /\ old' = old \cup {s}
  /\ UNCHANGED <<tray, item, run, press, inFlight, pending, fileOf, stored, done, sent,
                 netFaults, moves, removed, stray>>

-----------------------------------------------------------------------------
Ready == {f \in Members(tray) : item[f].is = "ready"}
Begun(q) == [at |-> "refresh", list |-> q, had |-> [i \in DOMAIN q |-> item[q[i]].s],
             use |-> <<>>, stale |-> FALSE, try |-> 1]

\* Mutant: the second press of a tick finds the items ready too, and no latch.
LatchNone(P) == {P}

\* The latch admits the first of the presses.
Latched(P) == IF inFlight THEN {} ELSE {{c} : c \in P}

\* doSend, pressed once or twice before the page is drawn again: every file is up,
\* and completeAndCollect takes the ready ones.
DoSend(P) ==
  /\ Ready # {}
  /\ \A f \in Members(tray) : item[f].is \notin {"uploading", "failed"}
  /\ \A c \in P : press[c].at = "idle"
  /\ \E L \in Latched(P), q \in Kept(Ready) :
       press' = [c \in Presses |-> IF c \in L THEN Begun(q) ELSE press[c]]
  /\ inFlight' = TRUE
  /\ item' = Patched(Ready, "sending")
  /\ UNCHANGED <<tray, run, pending, fileOf, stored, old, done, sent, netFaults, moves,
                 removed, stray>>

\* A call that is stale leaves everything as it is; its finally clears the latch.
Bail(c) ==
  /\ press[c].stale
  /\ press[c].at \in {"refresh", "sleep"}
  /\ press' = [press EXCEPT ![c] = NoPress] /\ inFlight' = FALSE
  /\ UNCHANGED <<tray, item, run, pending, fileOf, stored, old, done, sent, netFaults, moves,
                 removed, stray>>

\* The FAILED path of completeAndCollect.
Failed(c) ==
  /\ press' = [press EXCEPT ![c] = NoPress] /\ inFlight' = FALSE
  /\ item' = Patched(Members(press[c].list), "failed")
  /\ pending' = pending \ (Members(press[c].had) \cup Members(press[c].use))

\* A press gets on: where it is, the sessions it will complete, its try.
GetsOn(c, at, use, try) ==
  press' = [press EXCEPT ![c] = [at |-> at, list |-> press[c].list, had |-> press[c].had,
                                 use |-> use, stale |-> press[c].stale, try |-> try]]

\* refreshIfExpiring for the next item of the list: a session about to expire is
\* taken out of the sessionStorage and another one is asked for.
Refresh(c) ==
  /\ press[c].at = "refresh" /\ ~press[c].stale
  /\ LET i == Len(press[c].use) + 1
     IN \/ /\ i > Len(press[c].list)
           /\ GetsOn(c, "ask", press[c].use, press[c].try) /\ UNCHANGED pending
        \/ /\ i <= Len(press[c].list) /\ press[c].had[i] \notin old
           /\ GetsOn(c, "refresh", Append(press[c].use, press[c].had[i]), press[c].try)
           /\ UNCHANGED pending
        \/ /\ i <= Len(press[c].list) /\ press[c].had[i] \in old
           /\ GetsOn(c, "presign", press[c].use, press[c].try)
           /\ pending' = pending \ {press[c].had[i]}
  /\ UNCHANGED <<tray, item, run, inFlight, fileOf, stored, old, done, sent, netFaults, moves,
                 removed, stray>>

RefreshPresigned(c) ==
  /\ press[c].at = "presign"
  /\ Presign(press[c].list[Len(press[c].use) + 1])
  /\ GetsOn(c, "store", Append(press[c].use, Len(fileOf) + 1), press[c].try)
  /\ UNCHANGED <<tray, run, inFlight, stored, old, done, sent, netFaults, moves, removed>>

RefreshStored(c) ==
  /\ press[c].at = "store"
  /\ stored' = stored \cup {press[c].use[Len(press[c].use)]}
  /\ GetsOn(c, "refresh", press[c].use, press[c].try)
  /\ UNCHANGED <<tray, item, run, inFlight, pending, fileOf, old, done, sent, netFaults, moves,
                 removed, stray>>

RefreshFails(c) ==
  /\ press[c].at \in {"presign", "store"} /\ NetFault /\ Failed(c)
  /\ UNCHANGED <<tray, run, fileOf, stored, old, done, sent, moves, removed, stray>>

-----------------------------------------------------------------------------
\* The server completes the sessions one by one, up to the first it refuses.
Completes(c, n) ==
  LET use == press[c].use
  IN /\ n <= Len(use)
     /\ \A i \in 1..n : use[i] \in stored \ done
     /\ done' = done \cup {use[i] : i \in 1..n}
Refuses(c, n) == n < Len(press[c].use) /\ press[c].use[n + 1] \in done \cup old

\* Mutant: the tray is emptied with the message.
ClearTray(c) == tray' = <<>> /\ item' = [f \in Files |-> IF InTray(f) THEN [is |-> "gone", s |-> 0] ELSE item[f]]

\* CONFIRMED, the message is sent and clearConfirmed drops what it carries.
ClearConfirmed(c) ==
  LET mine == Members(press[c].list)
  IN /\ tray' \in Kept(Members(tray) \ mine)
     /\ item' = [f \in Files |-> IF f \in mine THEN [is |-> "gone", s |-> 0] ELSE item[f]]

Completed(c) ==
  /\ press[c].at = "ask" /\ Completes(c, Len(press[c].use))
  /\ press' = [press EXCEPT ![c] = NoPress] /\ inFlight' = FALSE
  /\ IF press[c].stale
     THEN UNCHANGED <<tray, item, pending, sent>>
     ELSE /\ ClearConfirmed(c)
          /\ pending' = pending \ (Members(press[c].had) \cup Members(press[c].use))
          /\ sent' = sent \cup {Members(press[c].use)}
  /\ UNCHANGED <<run, fileOf, stored, old, netFaults, moves, removed, stray>>

\* The request is refused, does not arrive, or its answer is lost; the last of
\* three tries fails the send, whether or not the call is stale.
NotCompleted(c) ==
  /\ press[c].at = "ask"
  /\ \E n \in 0..Len(press[c].use) :
       /\ Completes(c, n)
       /\ (Refuses(c, n) /\ UNCHANGED netFaults) \/ NetFault
  /\ IF press[c].try < MaxAttempts
     THEN /\ GetsOn(c, "sleep", press[c].use, press[c].try)
          /\ UNCHANGED <<item, pending, inFlight>>
     ELSE Failed(c)
  /\ UNCHANGED <<tray, run, fileOf, stored, old, sent, moves, removed, stray>>

Wake(c) ==
  /\ press[c].at = "sleep" /\ ~press[c].stale
  /\ GetsOn(c, "ask", press[c].use, press[c].try + 1)
  /\ UNCHANGED <<tray, item, run, inFlight, pending, fileOf, stored, old, done, sent,
                 netFaults, moves, removed, stray>>

-----------------------------------------------------------------------------
Stale == [c \in Presses |-> [press[c] EXCEPT !.stale = press[c].at # "idle"]]
LeftBehind ==
  /\ tray' = <<>> /\ removed' = removed \cup Members(tray)
  /\ item' = [f \in Files |-> IF InTray(f) THEN [is |-> "gone", s |-> 0] ELSE item[f]]

\* Another channel: reset. What is on its way goes on.
Reset ==
  /\ moves < MaxMoves /\ moves' = moves + 1
  /\ LeftBehind /\ press' = Stale
  /\ pending' = pending \ {item[f].s : f \in Members(tray)}
  /\ UNCHANGED <<run, inFlight, fileOf, stored, old, done, sent, netFaults, stray>>

\* The page is loaded again: the composer that is mounted tells the user of the
\* sessions the last one has left in the sessionStorage, and clears them.
Reload ==
  /\ moves < MaxMoves /\ moves' = moves + 1
  /\ LeftBehind /\ pending' = {} /\ inFlight' = FALSE
  /\ run' = [f \in Files |-> NoRun] /\ press' = [c \in Presses |-> NoPress]
  /\ UNCHANGED <<fileOf, stored, old, done, sent, netFaults, stray>>

TrayNext ==
  \/ \E f \in Files : AddFile(f) \/ RunPresigned(f) \/ RunStored(f) \/ RunFails(f)
                      \/ RemoveItem(f) \/ RetryItem(f)
  \/ \E s \in 1..MaxSessions : Expiring(s)
  \/ \E P \in SUBSET Presses \ {{}} : DoSend(P)
  \/ \E c \in Presses : Bail(c) \/ Refresh(c) \/ RefreshPresigned(c) \/ RefreshStored(c)
                        \/ RefreshFails(c) \/ Completed(c) \/ NotCompleted(c) \/ Wake(c)
  \/ Reset \/ Reload

TraySpec == TrayInit /\ [][TrayNext]_trayVars

-----------------------------------------------------------------------------
\* Type invariant (TrayItem, lines 21-51; the refs of the hook, lines 201-230).
TrayTypeOK ==
  /\ Members(tray) \subseteq Files /\ Len(tray) = Cardinality(Members(tray))
  /\ DOMAIN fileOf = 1..Len(fileOf) /\ Members(fileOf) \subseteq Files
  /\ item \in [Files -> [is : {"new", "uploading", "ready", "sending", "failed", "gone"},
                         s : 0..Len(fileOf)]]
  /\ run \in [Files -> [at : {"none", "presign", "store"}, s : 0..Len(fileOf)]]
  /\ \A c \in Presses :
       /\ press[c].at \in {"idle", "refresh", "presign", "store", "ask", "sleep"}
       /\ press[c].stale \in BOOLEAN /\ press[c].try \in 0..MaxAttempts
  /\ inFlight \in BOOLEAN
  /\ pending \cup stored \cup old \cup done \cup stray \subseteq DOMAIN fileOf
  /\ sent \subseteq SUBSET done /\ removed \subseteq Files

\* A file is in one message at most, and none is lost: it is in the tray until it
\* was removed, left behind or sent (doSend, and the comments on
\* the latch and the generation, useAttachmentUpload.ts:214-223).
SentOnce ==
  /\ \A m, n \in sent : m # n => {fileOf[s] : s \in m} \cap {fileOf[s] : s \in n} = {}
  /\ \A f \in Files : item[f].is = "gone" =>
       f \in removed \cup {fileOf[s] : s \in UNION sent}

\* A card that is locked belongs to a call that will unlock it.
LockedIsDriven ==
  \A f \in Files : item[f].is = "sending" =>
    \E c \in Presses : press[c].at # "idle" /\ ~press[c].stale /\ f \in Members(press[c].list)

\* A reload tells of what was lost, and of nothing else (lines 246-249): the
\* sessions noted are those of the tray, save for strays and for the one that is
\* being replaced.
NotedIsInTray ==
  /\ pending \subseteq stray \cup {item[f].s : f \in Members(tray)}
  /\ \A f \in Members(tray) :
       item[f].is \in {"uploading", "ready"} /\ item[f].s # 0 => item[f].s \in pending

TraySound == SentOnce /\ LockedIsDriven /\ NotedIsInTray
=============================================================================
