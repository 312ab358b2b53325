---------------------------- MODULE MessageEdit ----------------------------
(***************************************************************************)
(* The edits of one message: the PATCH of its author's pages with its      *)
(* optimistic lock (MessagesService.update, useUpdateMessage), the history *)
(* of what was replaced, the deletion, and how the cached lists of the     *)
(* pages follow: message.updated and message.deleted through the outbox,   *)
(* the answer of a conflict, and lists that are fetched again.             *)
(*                                                                         *)
(* A text is the number of the edit it was saved by, Sent for the text as  *)
(* it was sent, so that equal texts are equal numbers.  A deleted row is   *)
(* gone from a page, whether nothing or a placeholder is in its place.     *)
(*                                                                         *)
(* Left out: mentions and the confirmation a broad one asks for, AutoMod,  *)
(* what else the row carries (reactions, thread, pins), and the deletion   *)
(* of history rows with the message.                                       *)
(***************************************************************************)
EXTENDS Naturals, FiniteSets, Sequences, SequencesExt

CONSTANTS
  Pages,          \* the pages of the author that show the message
  MaxEdits,       \* bound on the edits saved
  HistoryCap,     \* EDIT_HISTORY_CAP
  MaxUpsets,      \* bound on lists fetched again for another reason than an
                  \* edit, events handed out twice or out of order, failing
                  \* transactions and lost answers
  NoPage          \* nobody waits for the answer

ASSUME MessageEditAssumption ==
  /\ {MaxEdits, MaxUpsets} \subseteq Nat
  /\ HistoryCap \in Nat \ {0}
  /\ NoPage \notin Pages

Edits == 1..MaxEdits
Sent == 0
NoEdit == 0
Gone == [v |-> MaxEdits + 1, by |-> Sent]  \* newer than every version

VARIABLES
  msg,        \* Message: [v, by], its version and its text
  deleted,    \* Message.deletedAt is set
  past,       \* MessageEditHistory: rows [v, by]
  texts,      \* history: the text of each version
  holder,     \* the edit whose transaction holds the row's lock
  patch,      \* patch[e]: [at, page, exp, was, ans], the PATCH of edit e
  events,     \* the outbox rows of the message, the oldest first
  frames,     \* frames[p]: frames on their way to page p
  shown,      \* shown[p]: the row in the cached list of page p
  editor,     \* editor[p]: [at, edit], the input under the row, and the edit it
              \* waits for while it is saved
  fetch,      \* fetch[p]: [at, row], the request for the list, what it has read
  overtaken,  \* history: pages where an answer replaced something newer
  swapped,    \* history: an event was handed out twice or out of order
  upsets      \* refetches, swaps and failures so far

server == <<msg, deleted, past, texts, holder>>
page == <<frames, shown, editor, fetch, overtaken>>
editVars == <<server, patch, events, page, swapped, upsets>>

First == [v |-> 0, by |-> Sent]
Version == [v : 0..MaxEdits, by : 0..MaxEdits]
Row == Version \cup {Gone}
NoFetch == [at |-> "idle", row |-> Gone]
Asked == [at |-> "asked", row |-> Gone]
Closed == [at |-> "closed", edit |-> NoEdit]
Editing == [at |-> "open", edit |-> NoEdit]
Unsaved == [at |-> "unsaved", page |-> NoPage, exp |-> 0, was |-> First, ans |-> First]

EditTypeOK ==
  /\ msg \in Version
  /\ deleted \in BOOLEAN
  /\ past \in SUBSET Version
  /\ texts \in [0..MaxEdits -> 0..MaxEdits]
  /\ holder \in Edits \cup {NoEdit}
  /\ patch \in [Edits -> [at : {"unsaved", "sent", "read", "locked", "beaten",
                                "ok", "conflict", "error"},
                          page : Pages \cup {NoPage}, exp : 0..MaxEdits,
                          was : Version, ans : Row]]
  /\ events \in Seq(Row)
  /\ frames \in [Pages -> Seq(Row)]
  /\ shown \in [Pages -> Row]
  /\ editor \in [Pages -> [at : {"closed", "open", "saving"}, edit : Edits \cup {NoEdit}]]
  /\ fetch \in [Pages -> [at : {"idle", "asked", "read"}, row : Row]]
  /\ overtaken \in SUBSET Pages
  /\ swapped \in BOOLEAN
  /\ upsets \in 0..MaxUpsets

EditInit ==
  /\ msg = First /\ deleted = FALSE /\ past = {} /\ holder = NoEdit
  /\ texts = [v \in 0..MaxEdits |-> Sent]
  /\ patch = [e \in Edits |-> Unsaved]
  /\ events = <<>>
  /\ frames = [p \in Pages |-> <<>>]
  /\ shown = [p \in Pages |-> First]
  /\ editor = [p \in Pages |-> Closed]
  /\ fetch = [p \in Pages |-> NoFetch]
  /\ overtaken = {}
  /\ swapped = FALSE /\ upsets = 0

\* toDto of the row, or the list without it.
View == IF deleted THEN Gone ELSE msg

Upset == upsets < MaxUpsets /\ upsets' = upsets + 1

\* The row of a page is replaced by r; its editor goes with a row that goes.
Shows(p, r) ==
  /\ shown' = [shown EXCEPT ![p] = r]
  /\ editor' = IF r = Gone THEN [editor EXCEPT ![p] = Closed] ELSE editor

-----------------------------------------------------------------------------
(* A page. *)

\* The menu, the E key, or the arrow up of an empty composer.
OpenEditor(p) ==
  /\ shown[p] # Gone /\ editor[p] = Closed
  /\ editor' = [editor EXCEPT ![p] = Editing]
  /\ UNCHANGED <<server, patch, events, frames, shown, fetch, overtaken, swapped, upsets>>

\* Escape.
CloseEditor(p) ==
  /\ editor[p] = Editing
  /\ editor' = [editor EXCEPT ![p] = Closed]
  /\ UNCHANGED <<server, patch, events, frames, shown, fetch, overtaken, swapped, upsets>>

\* Enter or the button: the version is that of the cached row as it is now.
Save(p, e) ==
  /\ editor[p] = Editing
  /\ patch[e].at = "unsaved"
  /\ \A f \in 1..(e - 1) : patch[f].at # "unsaved"
  /\ editor' = [editor EXCEPT ![p] = [at |-> "saving", edit |-> e]]
  /\ patch' = [patch EXCEPT ![e] = [Unsaved EXCEPT !.at = "sent", !.page = p,
                                                   !.exp = shown[p].v]]
  /\ UNCHANGED <<server, events, frames, shown, fetch, overtaken, swapped, upsets>>

Awaited(e) == patch[e].page # NoPage
Heard(e) == patch' = [patch EXCEPT ![e].page = NoPage]
Editor(e, s) ==
  editor' = [p \in Pages |-> IF editor[p].edit = e THEN s ELSE editor[p]]

\* onSuccess: the list is fetched again, in place of a fetch under way.
OnEdited(e) ==
  /\ patch[e].at = "ok" /\ Awaited(e) /\ Heard(e)
  /\ Editor(e, Closed)
  /\ fetch' = [fetch EXCEPT ![patch[e].page] = Asked]
  /\ UNCHANGED <<server, events, frames, shown, overtaken, swapped, upsets>>

Overtakes(p, r) == overtaken' = IF r.v < shown[p].v THEN overtaken \cup {p} ELSE overtaken

\* applyEditConflict: the row of the answer takes the place of the cached
\* one, if there still is one; the editor stays open.
OnConflict(e) ==
  LET p == patch[e].page  cur == patch[e].ans IN
  /\ patch[e].at = "conflict" /\ Awaited(e) /\ Heard(e)
  /\ IF shown[p] = Gone
     THEN UNCHANGED <<shown, overtaken, editor>>
     ELSE /\ shown' = [shown EXCEPT ![p] = cur]
          /\ Overtakes(p, cur)
          /\ IF cur = Gone THEN editor' = [editor EXCEPT ![p] = Closed]
                           ELSE Editor(e, Editing)
  /\ UNCHANGED <<server, events, frames, fetch, swapped, upsets>>

\* Every other refusal is a toast.
OnEditError(e) ==
  /\ patch[e].at = "error" /\ Awaited(e) /\ Heard(e)
  /\ Editor(e, Editing)
  /\ UNCHANGED <<server, events, frames, shown, fetch, overtaken, swapped, upsets>>

\* The connection breaks: a toast here, whatever the server does.
EditAnswerLost(e) ==
  /\ Upset
  /\ Awaited(e) /\ Heard(e)
  /\ Editor(e, Editing)
  /\ UNCHANGED <<server, events, frames, shown, fetch, overtaken, swapped>>

\* The list is invalidated by something else, or the window gets the focus.
Refetch(p) ==
  /\ Upset
  /\ fetch' = [fetch EXCEPT ![p] = Asked]
  /\ UNCHANGED <<server, patch, events, frames, shown, editor, overtaken, swapped>>

ListReads(p) ==
  /\ fetch[p] = Asked
  /\ fetch' = [fetch EXCEPT ![p] = [at |-> "read", row |-> View]]
  /\ UNCHANGED <<server, patch, events, frames, shown, editor, overtaken, swapped, upsets>>

ListArrives(p) ==
  /\ fetch[p].at = "read"
  /\ Shows(p, fetch[p].row)
  /\ Overtakes(p, fetch[p].row)
  /\ fetch' = [fetch EXCEPT ![p] = NoFetch]
  /\ UNCHANGED <<server, patch, events, frames, swapped, upsets>>

\* message.updated is merged into the cached row, whatever version that has;
\* message.deleted takes it out.
\* A merge that leaves the version of the cached row.
MergedText(r, f) == IF r = Gone \/ f = Gone THEN Gone ELSE [r EXCEPT !.by = f.by]

Merged(r, f) == IF r = Gone THEN Gone ELSE f

OnFrame(p) ==
  /\ frames[p] # <<>>
  /\ Shows(p, Merged(shown[p], Head(frames[p])))
  /\ frames' = [frames EXCEPT ![p] = Tail(@)]
  /\ UNCHANGED <<server, patch, events, fetch, overtaken, swapped, upsets>>

-----------------------------------------------------------------------------
(* The API. *)

\* A guard, a check of the content or AutoMod refuses the edit.
Refuse(e) ==
  /\ patch[e].at = "sent"
  /\ patch' = [patch EXCEPT ![e].at = "error"]
  /\ UNCHANGED <<server, events, page, swapped, upsets>>

\* The transaction begins with the row as it is: a deleted one is a 404.
EditRead(e) ==
  /\ patch[e].at = "sent"
  /\ patch' = [patch EXCEPT ![e].at = IF deleted THEN "error" ELSE "read",
                            ![e].was = msg]
  /\ UNCHANGED <<server, events, page, swapped, upsets>>

\* UPDATE ... WHERE version = expected AND deletedAt IS NULL: it waits for
\* the row's lock and looks at the row as it is then.
MatchesAny(e) == ~deleted \* the lock forgotten
Matches(e) == ~deleted /\ msg.v = patch[e].exp

EditUpdate(e) ==
  /\ patch[e].at = "read" /\ holder = NoEdit
  /\ IF Matches(e)
     THEN /\ patch' = [patch EXCEPT ![e].at = "locked"]
          /\ holder' = e
     ELSE /\ patch' = [patch EXCEPT ![e].at = "beaten"]
          /\ UNCHANGED holder
  /\ UNCHANGED <<msg, deleted, past, texts, events, page, swapped, upsets>>

\* The ring buffer: all but the HistoryCap newest rows are deleted.
TrimNewest(rows) == \* in the wrong order
  {h \in rows : Cardinality({g \in rows : g.v < h.v}) < HistoryCap}
Trim(rows) ==
  {h \in rows : Cardinality({g \in rows : g.v > h.v}) < HistoryCap}

Edited(e) == [v |-> msg.v + 1, by |-> e]

\* The history row of what was replaced, and the event, commit with it.
EditCommit(e) ==
  /\ patch[e].at = "locked"
  /\ msg' = Edited(e)
  /\ texts' = [texts EXCEPT ![msg.v + 1] = e]
  /\ past' = Trim(past \cup {patch[e].was})
  /\ events' = Append(events, Edited(e))
  /\ holder' = NoEdit
  /\ patch' = [patch EXCEPT ![e].at = "ok"]
  /\ UNCHANGED <<deleted, page, swapped, upsets>>

EditFails(e) ==
  /\ Upset
  /\ patch[e].at \in {"read", "locked"}
  /\ patch' = [patch EXCEPT ![e].at = "error"]
  /\ holder' = IF holder = e THEN NoEdit ELSE holder
  /\ UNCHANGED <<msg, deleted, past, texts, events, page, swapped>>

\* Nothing was updated: the answer carries the row as it is by now.
EditConflict(e) ==
  /\ patch[e].at = "beaten"
  /\ patch' = [patch EXCEPT ![e].at = "conflict", ![e].ans = View]
  /\ UNCHANGED <<server, events, page, swapped, upsets>>

\* A deletion nobody is told of.
SoftDeleteSilent ==
  /\ ~deleted /\ holder = NoEdit
  /\ deleted' = TRUE
  /\ UNCHANGED <<msg, past, texts, holder, patch, events, page, swapped, upsets>>

\* softDelete, by the author or a moderator.
SoftDelete ==
  /\ ~deleted /\ holder = NoEdit
  /\ deleted' = TRUE
  /\ events' = Append(events, Gone)
  /\ UNCHANGED <<msg, past, texts, holder, patch, page, swapped, upsets>>

\* A dispatcher hands the i-th event out; another replica may be ahead of it
\* or hand the same one out.
FanOut(i) ==
  /\ frames' = [p \in Pages |-> Append(frames[p], events[i])]
  /\ \/ /\ i = 1 /\ events' = Tail(events)
        /\ UNCHANGED <<swapped, upsets>>
     \/ /\ Upset /\ swapped' = TRUE
        /\ events' \in {events, RemoveAt(events, i)}
  /\ UNCHANGED <<server, patch, shown, editor, fetch, overtaken>>

EditNext ==
  \/ \E p \in Pages : OpenEditor(p) \/ CloseEditor(p) \/ Refetch(p) \/ ListReads(p)
                        \/ ListArrives(p) \/ OnFrame(p)
  \/ \E p \in Pages, e \in Edits : Save(p, e)
  \/ \E e \in Edits : OnEdited(e) \/ OnConflict(e) \/ OnEditError(e) \/ EditAnswerLost(e)
  \/ \E e \in Edits : Refuse(e) \/ EditRead(e) \/ EditUpdate(e) \/ EditCommit(e)
                        \/ EditFails(e) \/ EditConflict(e)
  \/ SoftDelete
  \/ \E i \in DOMAIN events : FanOut(i)

EditSpec == EditInit /\ [][EditNext]_editVars
-----------------------------------------------------------------------------
(* Properties. *)

\* The history holds what was replaced: the HistoryCap versions before the
\* row's, each with the text it had (messages.service.ts:3438-3470).
HistoryIsTrue ==
  past = {[v |-> k, by |-> texts[k]] :
            k \in {k \in 0..MaxEdits : k < msg.v /\ msg.v <= k + HistoryCap}}

\* Nobody's text is lost: an edit that was accepted replaced the version its
\* page showed when it was saved and nothing else, and one that was refused
\* replaced nothing, whatever overlapped.
EditsReplaceWhatWasShown ==
  \A e \in Edits :
    /\ patch[e].at = "ok" => patch[e].exp < msg.v /\ texts[patch[e].exp + 1] = e
    /\ patch[e].at # "ok" => \A k \in 0..MaxEdits : texts[k] # e

\* What a page shows, or will be told, is the text of its version, so that the
\* version of the next save stands for the text on the screen.
Genuine(r) == r = Gone \/ (r.v <= msg.v /\ r.by = texts[r.v])
VersionsNameTexts ==
  /\ msg.by = texts[msg.v]
  /\ \A p \in Pages :
       /\ Genuine(shown[p])
       /\ fetch[p].at = "read" => Genuine(fetch[p].row)
       /\ \A i \in DOMAIN frames[p] : Genuine(frames[p][i])
  /\ \A i \in DOMAIN events : Genuine(events[i])
  /\ \A e \in Edits : Genuine(patch[e].ans)

\* Nothing is under way to page p.
AtRest(p) ==
  /\ events = <<>> /\ frames[p] = <<>> /\ fetch[p].at = "idle"
  /\ \A e \in Edits : patch[e].page # p

\* A page at rest shows the row, unless events were swapped or an answer that
\* had been read before an event came after it.
PagesAgree ==
  \A p \in Pages : AtRest(p) /\ ~swapped /\ p \notin overtaken => shown[p] = View

\* The four of them.
EditsSound == HistoryIsTrue /\ EditsReplaceWhatWasShown /\ VersionsNameTexts /\ PagesAgree
=============================================================================
