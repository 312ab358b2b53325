------------------------- MODULE MessageEditProofs -------------------------
(* Proofs about the edits of a message, for any number of pages, edits and  *)
(* upsets and any length of the history.                                    *)
EXTENDS MessageEdit, FiniteSetTheorems, SequenceTheorems, TLAPS

\* The rows somebody may know of: the row itself, versions it has had with
\* their texts, and that it is gone once it is.
Known ==
  {r \in Row : IF r = Gone THEN deleted ELSE r.v <= msg.v /\ r.by = texts[r.v]}

\* Whatever shows or carries a row carries one of those.
AllKnown ==
  /\ First \in Known /\ msg \in Known
  /\ shown \in [Pages -> Known]
  /\ frames \in [Pages -> Seq(Known)]
  /\ events \in Seq(Known)
  /\ \A p \in Pages : fetch[p].at = "read" => fetch[p].row \in Known
  /\ \A e \in Edits : patch[e].ans \in Known

\* The edit that holds the lock replaces the row it has read, and has been
\* written for it; there is a row to replace.
LockedRow ==
  /\ \A e \in Edits : patch[e].at = "locked" =>
       holder = e /\ patch[e].was = msg /\ patch[e].exp = msg.v
  /\ holder # NoEdit => ~deleted

\* A save is for a version the row has had, and the row is read after it.
PastExpected ==
  \A e \in Edits :
    /\ patch[e].at # "unsaved" => patch[e].exp <= msg.v
    /\ patch[e].at = "read" => patch[e].exp <= patch[e].was.v /\ patch[e].was \in Known

\* An editor is open under a row that is there.
EditorHasRow == \A p \in Pages : editor[p] # Closed => shown[p] # Gone

\* Each version but the first is an edit that was accepted.
Accepted == {e \in Edits : patch[e].at = "ok"}
VersionsCount == Cardinality(Accepted) = msg.v

\* What a page shows, or the last that is on its way to it, is the row.
Lastly(p) ==
  IF events # <<>> THEN events[Len(events)]
  ELSE IF frames[p] # <<>> THEN frames[p][Len(frames[p])]
  ELSE shown[p]
WillAgree == \A p \in Pages : ~swapped /\ p \notin overtaken => Lastly(p) = View

EditIInv ==
  /\ EditTypeOK
  /\ AllKnown
  /\ LockedRow
  /\ PastExpected
  /\ EditorHasRow
  /\ VersionsCount
  /\ WillAgree
  /\ HistoryIsTrue
  /\ EditsReplaceWhatWasShown

-----------------------------------------------------------------------------
(* Data. *)

AnyPatch ==
  [at : {"unsaved", "sent", "read", "locked", "beaten", "ok", "conflict", "error"},
   page : Pages \cup {NoPage}, exp : 0..MaxEdits, was : Version, ans : Row]

\* What the assumptions say of the bounds.
LEMMA EditNumbers ==
  /\ MaxEdits \in Nat /\ MaxUpsets \in Nat /\ HistoryCap \in Nat \ {0}
  /\ NoPage \notin Pages
BY MessageEditAssumption DEF MessageEditAssumption

\* The versions of the row, and its tombstone.
LEMMA EditedRow ==
  /\ First \in Version /\ First.v = 0 /\ First.by = 0 /\ Gone \notin Version
  /\ Gone.v = MaxEdits + 1
  /\ \A r \in Version : r \in Row /\ r # Gone /\ r.v \in 0..MaxEdits /\ r.by \in 0..MaxEdits
  /\ \A r \in Row : r # Gone => r \in Version
  /\ \A q, r \in Version : q.v = r.v /\ q.by = r.by => q = r
BY EditNumbers DEF First, Sent, Version, Gone, Row

\* A sequence without its i-th element has the elements it had.
LEMMA RemovedAt ==
  ASSUME NEW S, NEW s \in Seq(S), NEW i \in 1..Len(s)
  PROVE  RemoveAt(s, i) \in Seq(S)
<1>1. Len(s) \in Nat /\ \A j \in 1..Len(s) : s[j] \in S
  BY ElementOfSeq, LenProperties
<1>2. SubSeq(s, 1, i - 1) \in Seq(S)
  BY <1>1, SubSeqProperties
<1>3. SubSeq(s, i + 1, Len(s)) \in Seq(S)
  BY <1>1, SubSeqProperties
<1> QED
  BY <1>2, <1>3, ConcatProperties DEF RemoveAt

\* The versions after k up to n, with their texts.
After(f, k, n) == {[v |-> j, by |-> f[j]] : j \in (k + 1)..n}

\* They are as many as the difference.
LEMMA NewerCount ==
  ASSUME NEW f, NEW k \in Nat, NEW n \in Nat, k <= n
  PROVE  Cardinality(After(f, k, n)) = n - k
<1> DEFINE T == {[v |-> j, by |-> f[j]] : j \in (k + 1)..n}
           b == [j \in (k + 1)..n |-> [v |-> j, by |-> f[j]]]
<1>1. IsFiniteSet((k + 1)..n) /\ Cardinality((k + 1)..n) = n - k
  <2>1. k + 1 \in Int /\ n \in Int
    OBVIOUS
  <2>2. /\ IsFiniteSet((k + 1)..n)
        /\ Cardinality((k + 1)..n) = IF k + 1 > n THEN 0 ELSE n - (k + 1) + 1
    BY <2>1, FS_Interval
  <2> QED
    BY <2>2
<1>2. b \in Bijection((k + 1)..n, T)
  <2>1. b \in [(k + 1)..n -> T]
    OBVIOUS
  <2>2. \A i, j \in (k + 1)..n : b[i] = b[j] => i = j
    <3> SUFFICES ASSUME NEW i \in (k + 1)..n, NEW j \in (k + 1)..n, b[i] = b[j]
                 PROVE  i = j
      OBVIOUS
    <3>1. b[i].v = i /\ b[j].v = j
      OBVIOUS
    <3> QED
      BY <3>1
  <2>3. \A y \in T : \E j \in (k + 1)..n : b[j] = y
    OBVIOUS
  <2> HIDE DEF b, T
  <2> QED
    BY <2>1, <2>2, <2>3 DEF Bijection, Injection, Surjection, IsInjective
<1>3. ExistsBijection((k + 1)..n, T)
  BY <1>2 DEF ExistsBijection
<1> QED
  BY <1>1, <1>3, FS_Bijection DEF After

\* The history of version n.
Newest(f, n) ==
  {[v |-> k, by |-> f[k]] : k \in {k \in 0..MaxEdits : k < n /\ n <= k + HistoryCap}}

\* With version n it is trimmed to the history of the next one.
LEMMA TrimKeepsTheNewest ==
  ASSUME NEW f, NEW n \in 0..MaxEdits
  PROVE  Trim(Newest(f, n) \cup {[v |-> n, by |-> f[n]]}) = Newest(f, n + 1)
<1> USE EditNumbers
<1> DEFINE R(k) == [v |-> k, by |-> f[k]]
           K == {k \in 0..MaxEdits : k <= n /\ n <= k + HistoryCap}
           Q == {R(k) : k \in K}
           newer(h) == {g \in Q : g.v > h.v}
<1>1. \A k \in K : newer(R(k)) = {R(j) : j \in (k + 1)..n}
  <2> SUFFICES ASSUME NEW k \in K PROVE newer(R(k)) = {R(j) : j \in (k + 1)..n}
    OBVIOUS
  <2>1. \A j \in K : R(j).v = j /\ R(k).v = k
    OBVIOUS
  <2>2. \A j \in (k + 1)..n : j \in K /\ j > k
    OBVIOUS
  <2>3. \A j \in K : j > k => j \in (k + 1)..n
    OBVIOUS
  <2> HIDE DEF R, K
  <2> QED
    BY <2>1, <2>2, <2>3
<1>2. \A k \in K : Cardinality(newer(R(k))) = n - k
  <2> SUFFICES ASSUME NEW k \in K PROVE Cardinality(newer(R(k))) = n - k
    OBVIOUS
  <2>1. k \in Nat /\ n \in Nat /\ k <= n
    OBVIOUS
  <2>2. Cardinality(After(f, k, n)) = n - k
    BY <2>1, NewerCount
  <2>3. newer(R(k)) = After(f, k, n)
    BY <1>1 DEF After
  <2> QED
    BY <2>2, <2>3
<1>3. Trim(Q) = {h \in Q : Cardinality(newer(h)) < HistoryCap}
  BY DEF Trim
<1> HIDE DEF newer
<1>4. Trim(Q) = {R(k) : k \in {k \in K : n - k < HistoryCap}}
  BY <1>2, <1>3
<1>5. {k \in K : n - k < HistoryCap}
        = {k \in 0..MaxEdits : k < n + 1 /\ n + 1 <= k + HistoryCap}
  <2>1. \A k \in 0..MaxEdits :
          k \in K /\ n - k < HistoryCap <=> k < n + 1 /\ n + 1 <= k + HistoryCap
    OBVIOUS
  <2> QED
    BY <2>1
<1>6. Newest(f, n) \cup {R(n)} = Q
  <2>1. \A k \in 0..MaxEdits : k \in K <=> (k < n /\ n <= k + HistoryCap) \/ k = n
    OBVIOUS
  <2>2. n \in 0..MaxEdits
    OBVIOUS
  <2> HIDE DEF R
  <2>3. Newest(f, n) = {R(k) : k \in {k \in 0..MaxEdits : k < n /\ n <= k + HistoryCap}}
    BY DEF Newest, R
  <2> QED
    BY <2>1, <2>2, <2>3
<1> QED
  BY <1>4, <1>5, <1>6 DEF Newest

\* The history of version n has no texts from n on.
LEMMA NewestLooksBack ==
  ASSUME NEW f, NEW g, NEW n \in Nat, \A k \in 0..MaxEdits : k < n => f[k] = g[k]
  PROVE  Newest(f, n) = Newest(g, n)
<1>1. \A k \in {k \in 0..MaxEdits : k < n /\ n <= k + HistoryCap} :
        [v |-> k, by |-> f[k]] = [v |-> k, by |-> g[k]]
  OBVIOUS
<1> QED
  BY <1>1 DEF Newest

-----------------------------------------------------------------------------
(* The initial state, and what a step leaves alone. *)

\* The message is as it was sent, and nobody edits it.
LEMMA EditInitHolds == EditInit => EditIInv
<1> SUFFICES ASSUME EditInit PROVE EditIInv
  OBVIOUS
<1> USE EditNumbers, EditedRow
<1>1. texts = [v \in 0..MaxEdits |-> 0] /\ texts[0] = 0 /\ msg = First
  BY DEF EditInit, Sent
<1>2. First \in Known
  BY <1>1 DEF Known
<1>3. patch = [e \in Edits |-> Unsaved]
  BY DEF EditInit
<1>4. Unsaved \in AnyPatch /\ Unsaved.at = "unsaved" /\ Unsaved.ans = First
  BY DEF Unsaved, AnyPatch
<1>5. EditTypeOK
  <2>1. patch \in [Edits -> AnyPatch]
    BY <1>3, <1>4
  <2>2. events \in Seq(Row) /\ frames \in [Pages -> Seq(Row)]
    BY EmptySeq DEF EditInit
  <2>3. fetch \in [Pages -> [at : {"idle", "asked", "read"}, row : Row]]
    BY DEF EditInit, NoFetch, Row
  <2>4. editor \in [Pages -> [at : {"closed", "open", "saving"}, edit : Edits \cup {NoEdit}]]
    BY DEF EditInit, Closed
  <2> QED
    BY <1>1, <2>1, <2>2, <2>3, <2>4 DEF EditInit, EditTypeOK, AnyPatch
<1>6. AllKnown
  <2>1. events \in Seq(Known) /\ frames \in [Pages -> Seq(Known)]
    BY EmptySeq DEF EditInit
  <2>2. \A q \in Pages : fetch[q].at = "idle"
    BY DEF EditInit, NoFetch
  <2> QED
    BY <1>1, <1>2, <1>3, <1>4, <2>1, <2>2 DEF EditInit, AllKnown
<1>7. LockedRow /\ PastExpected
  BY <1>3, <1>4 DEF EditInit, LockedRow, PastExpected
<1>8. EditorHasRow
  BY DEF EditInit, EditorHasRow
<1>9. VersionsCount
  <2>1. Accepted = {}
    BY <1>3, <1>4 DEF Accepted
  <2> QED
    BY <1>1, <2>1, FS_EmptySet DEF VersionsCount
<1>10. WillAgree
  BY <1>1 DEF EditInit, WillAgree, Lastly, View
<1>11. HistoryIsTrue
  <2>1. \A k \in 0..MaxEdits : ~(k < msg.v)
    BY <1>1
  <2> QED
    BY <2>1 DEF EditInit, HistoryIsTrue
<1>12. EditsReplaceWhatWasShown
  <2>1. \A e \in Edits : e # 0
    BY DEF Edits
  <2> QED
    BY <1>1, <1>3, <1>4, <2>1 DEF EditsReplaceWhatWasShown
<1> QED
  BY <1>5, <1>6, <1>7, <1>8, <1>9, <1>10, <1>11, <1>12 DEF EditIInv

\* Nothing that was known becomes unknown.
LEMMA KnownGrows ==
  ASSUME EditTypeOK, deleted => deleted', msg'.v \in Nat, msg.v <= msg'.v,
         \A k \in 0..msg.v : texts'[k] = texts[k]
  PROVE  Known \subseteq Known'
<1> USE EditNumbers, EditedRow
<1>1. msg.v \in Nat
  BY DEF EditTypeOK
<1> SUFFICES ASSUME NEW r \in Known PROVE r \in Known'
  OBVIOUS
<1>2. CASE r = Gone
  BY <1>2 DEF Known, Row
<1>3. CASE r # Gone
  <2>1. r \in Version /\ r.v \in 0..msg.v /\ r.by = texts[r.v]
    BY <1>1, <1>3 DEF Known
  <2> QED
    BY <1>1, <1>3, <2>1 DEF Known
<1> QED
  BY <1>2, <1>3

\* Sequences of what was known are sequences of what is.
LEMMA KnownCarried ==
  ASSUME Known \subseteq Known', AllKnown, NEW s \in Seq(Known)
  PROVE  s \in Seq(Known')
BY SeqMonotonic

\* A step that commits no edit leaves the versions as they are.
LEMMA NothingCommits ==
  ASSUME EditIInv, UNCHANGED <<msg, past, texts>>,
         \A e \in Edits : /\ patch'[e].at = "ok" <=> patch[e].at = "ok"
                          /\ patch'[e].at = "ok" => patch'[e].exp = patch[e].exp
  PROVE  VersionsCount' /\ HistoryIsTrue' /\ EditsReplaceWhatWasShown'
<1>1. Accepted' = Accepted
  BY DEF Accepted
<1>2. VersionsCount'
  BY <1>1 DEF EditIInv, VersionsCount
<1>3. HistoryIsTrue'
  BY DEF EditIInv, HistoryIsTrue
<1>4. EditsReplaceWhatWasShown'
  BY DEF EditIInv, EditsReplaceWhatWasShown
<1> QED
  BY <1>2, <1>3, <1>4

\* A step of a page that changes no more of a PATCH than who waits for it.
LEMMA PageSteps ==
  ASSUME EditIInv, UNCHANGED <<server, events>>,
         patch' \in [Edits -> AnyPatch],
         \A e \in Edits : /\ patch'[e].at = patch[e].at /\ patch'[e].exp = patch[e].exp
                          /\ patch'[e].was = patch[e].was /\ patch'[e].ans = patch[e].ans
  PROVE  /\ Known' = Known /\ View' = View
         /\ \A e \in Edits : patch'[e].ans \in Known
         /\ LockedRow' /\ PastExpected'
         /\ VersionsCount' /\ HistoryIsTrue' /\ EditsReplaceWhatWasShown'
<1>1. UNCHANGED <<msg, deleted, past, texts, holder>>
  BY DEF server
<1>2. Known' = Known /\ View' = View
  BY <1>1 DEF Known, View
<1>3. \A e \in Edits : patch'[e].ans \in Known
  BY DEF EditIInv, AllKnown
<1>4. LockedRow'
  BY <1>1 DEF EditIInv, LockedRow
<1>5. PastExpected'
  BY <1>1, <1>2 DEF EditIInv, PastExpected
<1> QED
  BY <1>1, <1>2, <1>3, <1>4, <1>5, NothingCommits

AnyEditor == [at : {"closed", "open", "saving"}, edit : Edits \cup {NoEdit}]
AnyFetch == [at : {"idle", "asked", "read"}, row : Row]

\* The upsets stay within their bound.
LEMMA UpsetCounts == EditTypeOK /\ Upset => upsets' \in 0..MaxUpsets
BY EditNumbers DEF EditTypeOK, Upset

\* What an editor may hold.
LEMMA Editors ==
  /\ Closed \in AnyEditor /\ Editing \in AnyEditor
  /\ EditTypeOK => editor \in [Pages -> AnyEditor]
BY DEF Closed, Editing, NoEdit, AnyEditor, EditTypeOK

\* What is left to show of such a step.
LEMMA PageDone ==
  ASSUME EditIInv, UNCHANGED <<server, events, swapped>>,
         patch' \in [Edits -> AnyPatch],
         \A e \in Edits : /\ patch'[e].at = patch[e].at /\ patch'[e].exp = patch[e].exp
                          /\ patch'[e].was = patch[e].was /\ patch'[e].ans = patch[e].ans,
         shown' \in [Pages -> Known], frames' \in [Pages -> Seq(Known)],
         editor' \in [Pages -> AnyEditor], fetch' \in [Pages -> AnyFetch],
         \A p \in Pages : fetch'[p].at = "read" => fetch'[p].row \in Known,
         overtaken' \in SUBSET Pages, upsets' \in 0..MaxUpsets,
         EditorHasRow', WillAgree'
  PROVE  EditIInv'
<1>1. /\ Known' = Known
      /\ \A e \in Edits : patch'[e].ans \in Known
      /\ LockedRow' /\ PastExpected'
      /\ VersionsCount' /\ HistoryIsTrue' /\ EditsReplaceWhatWasShown'
  BY PageSteps
<1>2. AllKnown'
  BY <1>1 DEF EditIInv, AllKnown, server
<1>3. EditTypeOK'
  <2>1. Known \subseteq Row
    BY DEF Known
  <2>2. shown' \in [Pages -> Row]
    BY <2>1
  <2>3. frames' \in [Pages -> Seq(Row)]
    BY <2>1, SeqMonotonic
  <2> QED
    BY <2>2, <2>3 DEF EditIInv, EditTypeOK, AnyPatch, AnyEditor, AnyFetch, server
<1> QED
  BY <1>1, <1>2, <1>3 DEF EditIInv

\* An answer that was heard changes no more than who waits.
LEMMA HeardMoves ==
  ASSUME EditTypeOK, NEW e \in Edits, Heard(e)
  PROVE  /\ patch' \in [Edits -> AnyPatch]
         /\ \A f \in Edits : /\ patch'[f].at = patch[f].at /\ patch'[f].exp = patch[f].exp
                             /\ patch'[f].was = patch[f].was /\ patch'[f].ans = patch[f].ans
<1>1. patch \in [Edits -> AnyPatch]
  BY DEF EditTypeOK, AnyPatch
<1>2. patch' = [patch EXCEPT ![e] = [patch[e] EXCEPT !.page = NoPage]]
  BY <1>1 DEF Heard
<1>3. [patch[e] EXCEPT !.page = NoPage] \in AnyPatch
  BY <1>1 DEF AnyPatch
<1>4. /\ [patch[e] EXCEPT !.page = NoPage].at = patch[e].at
      /\ [patch[e] EXCEPT !.page = NoPage].exp = patch[e].exp
      /\ [patch[e] EXCEPT !.page = NoPage].was = patch[e].was
      /\ [patch[e] EXCEPT !.page = NoPage].ans = patch[e].ans
  BY <1>1 DEF AnyPatch
<1> HIDE DEF AnyPatch
<1> QED
  BY <1>1, <1>2, <1>3, <1>4

\* No editor opens because an edit ends.
LEMMA EditorMoves ==
  ASSUME EditTypeOK, NEW e \in Edits, NEW s \in {Closed, Editing}, Editor(e, s)
  PROVE  /\ editor' \in [Pages -> AnyEditor]
         /\ \A p \in Pages : editor'[p] # Closed => editor[p] # Closed
<1>1. e # NoEdit /\ Closed.edit = NoEdit /\ Closed \in AnyEditor /\ Editing \in AnyEditor
  BY DEF Edits, NoEdit, Closed, Editing, AnyEditor
<1>2. editor \in [Pages -> AnyEditor]
  BY DEF EditTypeOK, AnyEditor
<1> HIDE DEF AnyEditor
<1> QED
  BY <1>1, <1>2 DEF Editor

\* What a page shows is replaced by something known, and its editor goes with
\* a row that goes.
LEMMA ShowsMoves ==
  ASSUME EditIInv, NEW p \in Pages, NEW r \in Known, Shows(p, r)
  PROVE  /\ shown' \in [Pages -> Known] /\ shown'[p] = r
         /\ \A q \in Pages : q # p => shown'[q] = shown[q]
         /\ editor' \in [Pages -> AnyEditor]
         /\ EditorHasRow'
<1>1. shown \in [Pages -> Known] /\ editor \in [Pages -> AnyEditor] /\ EditorHasRow
  BY DEF EditIInv, EditTypeOK, AllKnown, AnyEditor
<1>2. Closed \in AnyEditor
  BY DEF Closed, AnyEditor, NoEdit
<1> HIDE DEF AnyEditor
<1> QED
  BY <1>1, <1>2 DEF Shows, EditorHasRow

\* A page that takes a row on shows the row itself, or something else is on
\* its way, or it has been overtaken.
LEMMA OvertakesMoves ==
  ASSUME EditIInv, NEW p \in Pages, NEW r \in Known, Overtakes(p, r),
         UNCHANGED <<server, events, frames, swapped>>,
         shown'[p] = r, \A q \in Pages : q # p => shown'[q] = shown[q]
  PROVE  overtaken' \in SUBSET Pages /\ WillAgree'
<1> USE EditNumbers, EditedRow
<1>1. overtaken' \in SUBSET Pages /\ overtaken \subseteq overtaken'
  BY DEF EditIInv, EditTypeOK, Overtakes
<1>2. View' = View
  BY DEF View, server
<1>3. ASSUME NEW q \in Pages, ~swapped, q \notin overtaken' PROVE Lastly(q)' = View
  <2>1. Lastly(q) = View
    BY <1>1, <1>3 DEF EditIInv, WillAgree
  <2>2. CASE q # p \/ events # <<>> \/ frames[q] # <<>>
    BY <2>1, <2>2 DEF Lastly
  <2>3. CASE q = p /\ events = <<>> /\ frames[q] = <<>>
    <3>1. shown[p] = View /\ ~(r.v < shown[p].v)
      BY <1>3, <2>1, <2>3 DEF Lastly, Overtakes
    <3>2. msg \in Version /\ msg.by = texts[msg.v]
      BY DEF EditIInv, EditTypeOK, AllKnown, Known
    <3>3. r = View
      BY <3>1, <3>2 DEF Known, View
    <3> QED
      BY <2>3, <3>3 DEF Lastly
  <2> QED
    BY <2>2, <2>3
<1> QED
  BY <1>1, <1>2, <1>3 DEF WillAgree

-----------------------------------------------------------------------------
(* The steps of a page. *)

\* The editor is opened, or closed without a save.
LEMMA EditorSteps ==
  ASSUME EditIInv, NEW p \in Pages, OpenEditor(p) \/ CloseEditor(p)
  PROVE  EditIInv'
<1>1. /\ UNCHANGED <<server, patch, events, frames, shown, fetch, overtaken, swapped, upsets>>
      /\ \/ editor' = [editor EXCEPT ![p] = Editing] /\ shown[p] # Gone
         \/ editor' = [editor EXCEPT ![p] = Closed]
  BY DEF OpenEditor, CloseEditor
<1>2. editor' \in [Pages -> AnyEditor]
  BY <1>1, Editors DEF EditIInv
<1>3. EditorHasRow'
  BY <1>1 DEF EditIInv, EditTypeOK, EditorHasRow
<1>4. WillAgree'
  BY <1>1 DEF EditIInv, WillAgree, Lastly, View, server
<1> QED
  BY <1>1, <1>2, <1>3, <1>4, PageDone
     DEF EditIInv, EditTypeOK, AllKnown, AnyPatch, AnyFetch

\* The answer of a save that went through reaches the page.
LEMMA OnEditedStep ==
  ASSUME EditIInv, NEW e \in Edits, OnEdited(e)
  PROVE  EditIInv'
<1>1. /\ UNCHANGED <<server, events, frames, shown, overtaken, swapped, upsets>>
      /\ Heard(e) /\ Editor(e, Closed)
      /\ fetch' = [fetch EXCEPT ![patch[e].page] = Asked]
  BY DEF OnEdited
<1>2. fetch' \in [Pages -> AnyFetch]
  BY <1>1 DEF EditIInv, EditTypeOK, AnyFetch, Asked, Row
<1>3. \A q \in Pages : fetch'[q].at = "read" => fetch'[q].row \in Known
  BY <1>1 DEF EditIInv, EditTypeOK, AllKnown, Asked
<1>4. /\ editor' \in [Pages -> AnyEditor]
      /\ \A q \in Pages : editor'[q] # Closed => editor[q] # Closed
  BY <1>1, EditorMoves DEF EditIInv
<1>5. EditorHasRow'
  BY <1>1, <1>4 DEF EditIInv, EditorHasRow
<1>6. WillAgree'
  BY <1>1 DEF EditIInv, WillAgree, Lastly, View, server
<1> QED
  BY <1>1, <1>2, <1>3, <1>4, <1>5, <1>6, HeardMoves, PageDone DEF EditIInv, EditTypeOK, AllKnown

\* The 409 with the current row reaches the page.
LEMMA OnConflictStep ==
  ASSUME EditIInv, NEW e \in Edits, OnConflict(e)
  PROVE  EditIInv'
<1> DEFINE p == patch[e].page
           cur == patch[e].ans
<1>1. UNCHANGED <<server, events, frames, fetch, swapped, upsets>> /\ Heard(e)
  BY DEF OnConflict
<1>2. p \in Pages /\ cur \in Known
  BY DEF OnConflict, Awaited, EditIInv, EditTypeOK, AllKnown
<1>3. /\ shown' \in [Pages -> Known] /\ overtaken' \in SUBSET Pages
      /\ editor' \in [Pages -> AnyEditor]
      /\ EditorHasRow' /\ WillAgree'
  <2>1. CASE shown[p] = Gone
    <3>1. UNCHANGED <<shown, overtaken, editor>>
      BY <2>1 DEF OnConflict
    <3> QED
      BY <1>1, <3>1
         DEF EditIInv, EditTypeOK, AllKnown, AnyEditor, EditorHasRow, WillAgree, Lastly, View, server
  <2>2. CASE shown[p] # Gone
    <3>1. /\ shown' = [shown EXCEPT ![p] = cur] /\ Overtakes(p, cur)
          /\ IF cur = Gone THEN editor' = [editor EXCEPT ![p] = Closed]
                           ELSE Editor(e, Editing)
      BY <2>2 DEF OnConflict
    <3>2. /\ shown' \in [Pages -> Known] /\ shown'[p] = cur
          /\ \A q \in Pages : q # p => shown'[q] = shown[q]
      BY <1>2, <3>1 DEF EditIInv, AllKnown
    <3>3. overtaken' \in SUBSET Pages /\ WillAgree'
      BY <1>1, <1>2, <3>1, <3>2, OvertakesMoves
    <3>4. editor' \in [Pages -> AnyEditor] /\ EditorHasRow'
      <4>1. CASE cur = Gone
        <5>1. editor \in [Pages -> AnyEditor] /\ EditorHasRow
          BY Editors DEF EditIInv
        <5> QED
          BY <1>2, <3>1, <3>2, <4>1, <5>1, Editors DEF EditorHasRow
      <4>2. CASE cur # Gone
        <5>1. /\ editor' \in [Pages -> AnyEditor]
              /\ \A q \in Pages : editor'[q] # Closed => editor[q] # Closed
          BY <3>1, <4>2, EditorMoves DEF EditIInv
        <5> QED
          BY <3>2, <4>2, <5>1 DEF EditIInv, EditorHasRow
      <4> QED
        BY <4>1, <4>2
    <3> QED
      BY <3>2, <3>3, <3>4
  <2> QED
    BY <2>1, <2>2
<1> QED
  BY <1>1, <1>3, HeardMoves, PageDone DEF EditIInv, EditTypeOK, AllKnown, AnyFetch

\* A save ends in an error, or its answer is lost.
LEMMA OnEditErrorStep ==
  ASSUME EditIInv, NEW e \in Edits, OnEditError(e) \/ EditAnswerLost(e)
  PROVE  EditIInv'
<1>1. /\ UNCHANGED <<server, events, frames, shown, fetch, overtaken, swapped>>
      /\ Heard(e) /\ Editor(e, Editing)
  BY DEF OnEditError, EditAnswerLost
<1>2. upsets' \in 0..MaxUpsets
  <2>1. CASE OnEditError(e)
    BY <2>1 DEF OnEditError, EditIInv, EditTypeOK
  <2>2. CASE EditAnswerLost(e)
    BY <2>2, UpsetCounts DEF EditAnswerLost, EditIInv
  <2> QED
    BY <2>1, <2>2
<1>3. /\ editor' \in [Pages -> AnyEditor]
      /\ \A q \in Pages : editor'[q] # Closed => editor[q] # Closed
  BY <1>1, EditorMoves DEF EditIInv
<1>4. EditorHasRow'
  BY <1>1, <1>3 DEF EditIInv, EditorHasRow
<1>5. WillAgree'
  BY <1>1 DEF EditIInv, WillAgree, Lastly, View, server
<1> QED
  BY <1>1, <1>2, <1>3, <1>4, <1>5, HeardMoves, PageDone
     DEF EditIInv, EditTypeOK, AllKnown, AnyFetch

\* The page asks for the list again, and the server reads it.
LEMMA FetchSteps ==
  ASSUME EditIInv, NEW p \in Pages, Refetch(p) \/ ListReads(p)
  PROVE  EditIInv'
<1> USE EditNumbers, EditedRow
<1>1. /\ UNCHANGED <<server, patch, events, frames, shown, editor, overtaken, swapped>>
      /\ \/ fetch' = [fetch EXCEPT ![p] = Asked]
         \/ fetch' = [fetch EXCEPT ![p] = [at |-> "read", row |-> View]]
      /\ upsets' \in 0..MaxUpsets
  <2>1. CASE Refetch(p)
    BY <2>1, UpsetCounts DEF Refetch, EditIInv
  <2>2. CASE ListReads(p)
    BY <2>2 DEF ListReads, EditIInv, EditTypeOK
  <2> QED
    BY <2>1, <2>2
<1>2. View \in Known
  BY DEF EditIInv, AllKnown, Known, View, Row
<1>3. fetch \in [Pages -> AnyFetch] /\ Asked \in AnyFetch /\ Asked.at = "asked"
  BY DEF EditIInv, EditTypeOK, AnyFetch, Asked, Row
<1>4. [at |-> "read", row |-> View] \in AnyFetch
  BY <1>2 DEF Known, AnyFetch
<1>5. /\ fetch' \in [Pages -> AnyFetch]
      /\ \A q \in Pages : fetch'[q].at = "read" => fetch'[q].row \in Known
  <2> HIDE DEF AnyFetch
  <2>1. CASE fetch' = [fetch EXCEPT ![p] = Asked]
    BY <1>3, <2>1 DEF EditIInv, AllKnown
  <2>2. CASE fetch' = [fetch EXCEPT ![p] = [at |-> "read", row |-> View]]
    BY <1>2, <1>3, <1>4, <2>2 DEF EditIInv, AllKnown
  <2> QED
    BY <1>1, <2>1, <2>2
<1>6. EditorHasRow' /\ WillAgree'
  BY <1>1 DEF EditIInv, EditorHasRow, WillAgree, Lastly, View, server
<1> QED
  BY <1>1, <1>5, <1>6, Editors, PageDone
     DEF EditIInv, EditTypeOK, AllKnown, AnyPatch

\* A list that was read earlier replaces what the page shows.
LEMMA ListArrivesStep ==
  ASSUME EditIInv, NEW p \in Pages, ListArrives(p)
  PROVE  EditIInv'
<1> DEFINE r == fetch[p].row
<1>1. /\ UNCHANGED <<server, patch, events, frames, swapped, upsets>>
      /\ Shows(p, r) /\ Overtakes(p, r)
      /\ fetch' = [fetch EXCEPT ![p] = NoFetch]
  BY DEF ListArrives
<1>2. r \in Known
  BY DEF ListArrives, EditIInv, AllKnown
<1>3. /\ shown' \in [Pages -> Known] /\ shown'[p] = r
      /\ \A q \in Pages : q # p => shown'[q] = shown[q]
      /\ editor' \in [Pages -> AnyEditor] /\ EditorHasRow'
  BY <1>1, <1>2, ShowsMoves
<1>4. overtaken' \in SUBSET Pages /\ WillAgree'
  BY <1>1, <1>2, <1>3, OvertakesMoves
<1>5. fetch' \in [Pages -> AnyFetch]
  BY <1>1, EditedRow DEF EditIInv, EditTypeOK, AnyFetch, NoFetch, Row
<1>6. \A q \in Pages : fetch'[q].at = "read" => fetch'[q].row \in Known
  BY <1>1 DEF EditIInv, EditTypeOK, AllKnown, NoFetch
<1> QED
  BY <1>1, <1>3, <1>4, <1>5, <1>6, PageDone DEF EditIInv, EditTypeOK, AllKnown, AnyPatch

\* message.updated or message.deleted arrives at a page.
LEMMA OnFrameStep ==
  ASSUME EditIInv, NEW p \in Pages, OnFrame(p)
  PROVE  EditIInv'
<1> USE EditNumbers, EditedRow
<1> DEFINE f == Head(frames[p])
           r == Merged(shown[p], f)
<1>1. /\ UNCHANGED <<server, patch, events, fetch, overtaken, swapped, upsets>>
      /\ frames[p] # <<>>
      /\ Shows(p, r)
      /\ frames' = [frames EXCEPT ![p] = Tail(frames[p])]
  BY DEF OnFrame, EditIInv, AllKnown
<1>2. frames \in [Pages -> Seq(Known)] /\ shown \in [Pages -> Known]
  BY DEF EditIInv, AllKnown
<1>3. /\ f \in Known /\ f = frames[p][1]
      /\ Tail(frames[p]) \in Seq(Known) /\ Len(Tail(frames[p])) = Len(frames[p]) - 1
      /\ \A i \in 1..Len(Tail(frames[p])) : Tail(frames[p])[i] = frames[p][i + 1]
  BY <1>1, <1>2
<1>4. r \in Known /\ r \in {f, shown[p]} /\ (r # f => shown[p] = Gone)
  BY <1>2, <1>3 DEF Merged
<1>5. /\ shown' \in [Pages -> Known] /\ shown'[p] = r
      /\ \A q \in Pages : q # p => shown'[q] = shown[q]
      /\ editor' \in [Pages -> AnyEditor] /\ EditorHasRow'
  BY <1>1, <1>4, ShowsMoves
<1>6. frames' \in [Pages -> Seq(Known)]
  BY <1>1, <1>2, <1>3
<1>7. ASSUME NEW q \in Pages, ~swapped, q \notin overtaken PROVE Lastly(q)' = View
  <2>1. Lastly(q) = View
    BY <1>7 DEF EditIInv, WillAgree
  <2>2. CASE q # p \/ events # <<>>
    BY <1>1, <1>2, <1>5, <2>1, <2>2 DEF Lastly
  <2>3. CASE q = p /\ events = <<>> /\ Len(frames[p]) = 1
    <3>1. f = View /\ frames'[p] = <<>>
      BY <1>1, <1>2, <1>3, <2>1, <2>3 DEF Lastly
    <3>2. r = View
      BY <1>2, <1>4, <3>1 DEF Known, View
    <3> QED
      BY <1>1, <1>5, <2>3, <3>1, <3>2 DEF Lastly
  <2>4. CASE q = p /\ events = <<>> /\ Len(frames[p]) # 1
    <3>1. frames[p] \in Seq(Known) /\ Len(frames[p]) \in Nat /\ Len(frames[p]) # 0
      BY <1>1, <1>2, EmptySeq, LenProperties
    <3>2. Len(frames[p]) > 1
      <4>1. \A n \in Nat : n # 0 /\ n # 1 => n > 1
        OBVIOUS
      <4> QED
        BY <2>4, <3>1, <4>1, Zenon
    <3>3. frames'[p] = Tail(frames[p]) /\ Len(Tail(frames[p])) = Len(frames[p]) - 1
      BY <1>1, <1>2, <1>3
    <3>4. Tail(frames[p])[Len(frames[p]) - 1] = frames[p][Len(frames[p])]
      BY <1>3, <3>1, <3>2
    <3>5. /\ frames'[p] # <<>>
          /\ frames'[p][Len(frames'[p])] = frames[p][Len(frames[p])]
      <4>1. Len(Tail(frames[p])) # 0
        <5>1. \A n \in Nat : n > 1 => n - 1 # 0
          OBVIOUS
        <5> QED
          BY <3>1, <3>2, <3>3, <5>1, Zenon
      <4>2. Len(frames'[p]) = Len(frames[p]) - 1
        BY <3>3
      <4> QED
        BY <3>3, <3>4, <4>1, <4>2, EmptySeq
    <3> QED
      BY <1>1, <2>1, <2>4, <3>1, <3>5, EmptySeq DEF Lastly
  <2> QED
    BY <2>2, <2>3, <2>4
<1>8. WillAgree'
  BY <1>1, <1>7 DEF WillAgree, View, server
<1> QED
  BY <1>1, <1>5, <1>6, <1>8, PageDone DEF EditIInv, EditTypeOK, AllKnown, AnyPatch, AnyFetch

\* A save carries the version of the row the page shows.
LEMMA SaveStep ==
  ASSUME EditIInv, NEW p \in Pages, NEW e \in Edits, Save(p, e)
  PROVE  EditIInv'
<1> USE EditNumbers, EditedRow
<1> DEFINE sent == [Unsaved EXCEPT !.at = "sent", !.page = p, !.exp = shown[p].v]
<1>1. /\ UNCHANGED <<msg, deleted, past, texts, holder>>
      /\ UNCHANGED <<events, frames, shown, fetch, overtaken, swapped, upsets>>
      /\ editor[p] = Editing /\ patch[e].at = "unsaved"
      /\ editor' = [editor EXCEPT ![p] = [at |-> "saving", edit |-> e]]
      /\ patch' = [patch EXCEPT ![e] = sent]
  BY DEF Save, server
<1>2. shown[p] \in Known /\ shown[p] # Gone
  BY <1>1 DEF EditIInv, AllKnown, EditorHasRow, Editing, Closed
<1>3. shown[p].v \in 0..MaxEdits /\ shown[p].v <= msg.v
  BY <1>2 DEF Known
<1>4. /\ sent \in AnyPatch /\ sent.at = "sent" /\ sent.exp = shown[p].v /\ sent.ans = First
  BY <1>3 DEF Unsaved, AnyPatch
<1>5. patch \in [Edits -> AnyPatch]
  BY DEF EditIInv, EditTypeOK, AnyPatch
<1> HIDE DEF sent
<1>6. /\ patch' \in [Edits -> AnyPatch] /\ patch'[e] = sent
      /\ \A f \in Edits : f # e => patch'[f] = patch[f]
  <2> HIDE DEF AnyPatch
  <2> QED
    BY <1>1, <1>4, <1>5
<1>7. Known' = Known /\ View' = View
  BY <1>1 DEF Known, View
<1>8. editor' \in [Pages -> AnyEditor]
  BY <1>1, Editors DEF EditIInv, AnyEditor
<1>9. EditTypeOK'
  BY <1>1, <1>6, <1>8 DEF EditIInv, EditTypeOK, AnyPatch, AnyEditor
<1>10. AllKnown'
  BY <1>1, <1>4, <1>6, <1>7 DEF EditIInv, AllKnown
<1>11. LockedRow'
  BY <1>1, <1>4, <1>6 DEF EditIInv, LockedRow
<1>12. PastExpected'
  BY <1>1, <1>3, <1>4, <1>6, <1>7 DEF EditIInv, PastExpected
<1>13. EditorHasRow'
  BY <1>1, <1>2 DEF EditIInv, EditorHasRow, EditTypeOK
<1>14. WillAgree'
  BY <1>1, <1>7 DEF EditIInv, WillAgree, Lastly
<1>15. VersionsCount' /\ HistoryIsTrue' /\ EditsReplaceWhatWasShown'
  BY <1>1, <1>4, <1>6, NothingCommits
<1> QED
  BY <1>9, <1>10, <1>11, <1>12, <1>13, <1>14, <1>15 DEF EditIInv

-----------------------------------------------------------------------------
(* The steps of the API. *)

\* A step that moves one PATCH, commits nothing and is not seen by a page.
LEMMA PatchSteps ==
  ASSUME EditIInv, NEW e \in Edits, NEW q \in AnyPatch,
         UNCHANGED <<msg, deleted, past, texts, events, page, swapped>>,
         patch' = [patch EXCEPT ![e] = q],
         patch[e].at # "ok", q.at # "ok", q.ans \in Known,
         q.at # "unsaved" => q.exp <= msg.v,
         q.at = "read" => q.exp <= q.was.v /\ q.was \in Known,
         holder' \in Edits \cup {NoEdit}, upsets' \in 0..MaxUpsets,
         LockedRow'
  PROVE  EditIInv'
<1>1. /\ UNCHANGED <<frames, shown, editor, fetch, overtaken>>
      /\ UNCHANGED <<msg, deleted, past, texts, events, swapped>>
  BY DEF page
<1>2. patch \in [Edits -> AnyPatch]
  BY DEF EditIInv, EditTypeOK, AnyPatch
<1>3. /\ patch' \in [Edits -> AnyPatch] /\ patch'[e] = q
      /\ \A f \in Edits : f # e => patch'[f] = patch[f]
  <2> HIDE DEF AnyPatch
  <2> QED
    BY <1>2
<1>4. Known' = Known /\ View' = View
  BY <1>1 DEF Known, View
<1>5. EditTypeOK'
  BY <1>1, <1>3 DEF EditIInv, EditTypeOK, AnyPatch
<1>6. AllKnown'
  BY <1>1, <1>3, <1>4 DEF EditIInv, AllKnown
<1>7. PastExpected'
  BY <1>1, <1>3, <1>4 DEF EditIInv, PastExpected
<1>8. EditorHasRow' /\ WillAgree'
  BY <1>1, <1>4 DEF EditIInv, EditorHasRow, WillAgree, Lastly
<1>9. VersionsCount' /\ HistoryIsTrue' /\ EditsReplaceWhatWasShown'
  BY <1>1, <1>3, NothingCommits
<1> QED
  BY <1>5, <1>6, <1>7, <1>8, <1>9 DEF EditIInv

\* A PATCH that moves on takes its other fields along.
EditMoved(e, at, was, ans) == [patch[e] EXCEPT !.at = at, !.was = was, !.ans = ans]

\* A PATCH gets on: its fields.
LEMMA PatchMoves ==
  ASSUME EditIInv, NEW e \in Edits,
         NEW at \in {"sent", "read", "locked", "beaten", "ok", "conflict", "error"},
         NEW was \in Version, NEW ans \in Known
  PROVE  /\ EditMoved(e, at, was, ans) \in AnyPatch
         /\ EditMoved(e, at, was, ans).at = at /\ EditMoved(e, at, was, ans).was = was
         /\ EditMoved(e, at, was, ans).ans = ans /\ EditMoved(e, at, was, ans).exp = patch[e].exp
<1>1. patch[e] \in AnyPatch
  BY DEF EditIInv, EditTypeOK, AnyPatch
<1>2. ans \in Row
  BY DEF Known
<1> QED
  BY <1>1, <1>2 DEF AnyPatch, EditMoved

\* What the invariant says of every PATCH.
LEMMA Patches ==
  ASSUME EditIInv
  PROVE  /\ patch \in [Edits -> AnyPatch]
         /\ \A e \in Edits : patch[e].was \in Version /\ patch[e].ans \in Known
         /\ holder \in Edits \cup {NoEdit} /\ upsets \in 0..MaxUpsets
BY DEF EditIInv, EditTypeOK, AnyPatch, AllKnown

\* The PATCH is refused before its transaction.
LEMMA RefuseStep ==
  ASSUME EditIInv, NEW e \in Edits, Refuse(e)
  PROVE  EditIInv'
<1> DEFINE q == EditMoved(e, "error", patch[e].was, patch[e].ans)
<1>1. /\ UNCHANGED <<msg, deleted, past, texts, holder, events, page, swapped, upsets>>
      /\ patch[e].at = "sent"
      /\ patch' = [patch EXCEPT ![e].at = "error"]
  BY DEF Refuse, server
<1>2. /\ q \in AnyPatch
      /\ q.at = "error" /\ q.was = patch[e].was /\ q.ans = patch[e].ans /\ q.exp = patch[e].exp
  BY Patches, PatchMoves
<1>3. patch' = [patch EXCEPT ![e] = q]
  BY <1>1, Patches DEF AnyPatch, EditMoved
<1> HIDE DEF q
<1>4. q.exp <= msg.v /\ q.ans \in Known
  BY <1>1, <1>2, Patches DEF EditIInv, PastExpected
<1>5. LockedRow'
  <2> HIDE DEF AnyPatch
  <2> QED
    BY <1>1, <1>2, <1>3, Patches DEF EditIInv, LockedRow
<1>6. holder' \in Edits \cup {NoEdit} /\ upsets' \in 0..MaxUpsets
  BY <1>1, Patches
<1> QED
  BY <1>1, <1>2, <1>3, <1>4, <1>5, <1>6, PatchSteps

\* The transaction of an edit reads the row.
LEMMA EditReadStep ==
  ASSUME EditIInv, NEW e \in Edits, EditRead(e)
  PROVE  EditIInv'
<1> DEFINE at == IF deleted THEN "error" ELSE "read"
           q == EditMoved(e, at, msg, patch[e].ans)
<1>1. /\ UNCHANGED <<msg, deleted, past, texts, holder, events, page, swapped, upsets>>
      /\ patch[e].at = "sent"
      /\ patch' = [patch EXCEPT ![e].at = at, ![e].was = msg]
  BY DEF EditRead, server
<1>2. msg \in Version /\ msg \in Known /\ at \in {"error", "read"}
  BY DEF EditIInv, EditTypeOK, AllKnown
<1> HIDE DEF at
<1>3. /\ q \in AnyPatch
      /\ q.at = at /\ q.was = msg /\ q.ans = patch[e].ans /\ q.exp = patch[e].exp
  BY <1>2, Patches, PatchMoves
<1>4. patch' = [patch EXCEPT ![e] = q]
  BY <1>1, Patches DEF AnyPatch, EditMoved
<1> HIDE DEF q
<1>5. q.exp <= msg.v /\ q.ans \in Known
  BY <1>1, <1>3, Patches DEF EditIInv, PastExpected
<1>6. LockedRow'
  <2> HIDE DEF AnyPatch
  <2> QED
    BY <1>1, <1>2, <1>3, <1>4, Patches DEF EditIInv, LockedRow
<1>7. holder' \in Edits \cup {NoEdit} /\ upsets' \in 0..MaxUpsets
  BY <1>1, Patches
<1>8. q.exp <= q.was.v /\ q.was \in Known
  BY <1>2, <1>3, <1>5
<1>9. patch[e].at # "ok" /\ q.at # "ok"
  BY <1>1, <1>2, <1>3
<1> QED
  BY <1>1, <1>3, <1>4, <1>5, <1>6, <1>7, <1>8, <1>9, PatchSteps

\* Whoever takes the lock has read the row that is there: the version the
\* save was for has neither been passed by the read nor by the lock.
LEMMA EditUpdateStep ==
  ASSUME EditIInv, NEW e \in Edits, EditUpdate(e)
  PROVE  EditIInv'
<1> USE EditNumbers, EditedRow
<1> DEFINE at == IF Matches(e) THEN "locked" ELSE "beaten"
           q == EditMoved(e, at, patch[e].was, patch[e].ans)
<1>1. /\ UNCHANGED <<msg, deleted, past, texts, events, page, swapped, upsets>>
      /\ patch[e].at = "read" /\ holder = NoEdit
      /\ patch' = [patch EXCEPT ![e].at = at]
      /\ holder' = IF Matches(e) THEN e ELSE NoEdit
  BY DEF EditUpdate
<1>2. at \in {"locked", "beaten"} /\ (at = "locked" <=> Matches(e))
  OBVIOUS
<1> HIDE DEF at
<1>3. /\ q \in AnyPatch
      /\ q.at = at /\ q.was = patch[e].was /\ q.ans = patch[e].ans /\ q.exp = patch[e].exp
  BY <1>2, Patches, PatchMoves
<1>4. patch' = [patch EXCEPT ![e] = q]
  BY <1>1, Patches DEF AnyPatch, EditMoved
<1> HIDE DEF q
<1>5. q.exp <= msg.v /\ q.ans \in Known
  BY <1>1, <1>3, Patches DEF EditIInv, PastExpected
<1>6. Matches(e) => patch[e].was = msg
  <2> SUFFICES ASSUME Matches(e) PROVE patch[e].was = msg
    OBVIOUS
  <2>1. patch[e].exp = msg.v
    BY DEF Matches
  <2>2. patch[e].exp <= patch[e].was.v /\ patch[e].was \in Known
    BY <1>1 DEF EditIInv, PastExpected
  <2>3. patch[e].was \in Version /\ msg \in Version /\ msg \in Known
    BY Patches DEF EditIInv, EditTypeOK, AllKnown
  <2>4. patch[e].was.v <= msg.v /\ patch[e].was.by = texts[patch[e].was.v]
    BY <2>2, <2>3 DEF Known
  <2>5. msg.by = texts[msg.v]
    BY <2>3 DEF Known
  <2>6. patch[e].was.v = msg.v
    BY <2>1, <2>2, <2>3, <2>4
  <2> QED
    BY <2>3, <2>4, <2>5, <2>6
<1>7. LockedRow'
  <2>1. \A f \in Edits : patch[f].at # "locked"
    BY <1>1 DEF EditIInv, LockedRow, NoEdit, Edits
  <2>2. patch'[e] = q /\ \A f \in Edits : f # e => patch'[f] = patch[f]
    <3> HIDE DEF AnyPatch
    <3> QED
      BY <1>4, Patches
  <2>3. Matches(e) => ~deleted /\ q.exp = msg.v
    BY <1>3 DEF Matches
  <2> QED
    BY <1>1, <1>2, <1>3, <1>6, <2>1, <2>2, <2>3 DEF LockedRow
<1>8. holder' \in Edits \cup {NoEdit} /\ upsets' \in 0..MaxUpsets
  BY <1>1, Patches
<1>9. patch[e].at # "ok" /\ q.at \notin {"ok", "unsaved", "read"}
  BY <1>1, <1>2, <1>3
<1> QED
  BY <1>1, <1>3, <1>4, <1>5, <1>7, <1>8, <1>9, PatchSteps

\* The transaction of an edit fails.
LEMMA EditFailsStep ==
  ASSUME EditIInv, NEW e \in Edits, EditFails(e)
  PROVE  EditIInv'
<1> DEFINE q == EditMoved(e, "error", patch[e].was, patch[e].ans)
<1>1. /\ UNCHANGED <<msg, deleted, past, texts, events, page, swapped>>
      /\ patch[e].at \in {"read", "locked"}
      /\ patch' = [patch EXCEPT ![e].at = "error"]
      /\ holder' = IF holder = e THEN NoEdit ELSE holder
      /\ Upset
  BY DEF EditFails
<1>2. /\ q \in AnyPatch
      /\ q.at = "error" /\ q.was = patch[e].was /\ q.ans = patch[e].ans /\ q.exp = patch[e].exp
  BY Patches, PatchMoves
<1>3. patch' = [patch EXCEPT ![e] = q]
  BY <1>1, Patches DEF AnyPatch, EditMoved
<1> HIDE DEF q
<1>4. q.exp <= msg.v /\ q.ans \in Known
  BY <1>1, <1>2, Patches DEF EditIInv, PastExpected
<1>5. LockedRow'
  <2>1. patch'[e] = q /\ \A f \in Edits : f # e => patch'[f] = patch[f]
    <3> HIDE DEF AnyPatch
    <3> QED
      BY <1>3, Patches
  <2> QED
    BY <1>1, <1>2, <2>1 DEF EditIInv, LockedRow
<1>6. holder' \in Edits \cup {NoEdit} /\ upsets' \in 0..MaxUpsets
  BY <1>1, Patches, UpsetCounts DEF EditIInv
<1>7. patch[e].at # "ok"
  BY <1>1
<1> QED
  BY <1>1, <1>2, <1>3, <1>4, <1>5, <1>6, <1>7, PatchSteps

\* The conditional update finds another version, and the row is read again.
LEMMA EditConflictStep ==
  ASSUME EditIInv, NEW e \in Edits, EditConflict(e)
  PROVE  EditIInv'
<1> USE EditNumbers, EditedRow
<1> DEFINE q == EditMoved(e, "conflict", patch[e].was, View)
<1>1. /\ UNCHANGED <<msg, deleted, past, texts, holder, events, page, swapped, upsets>>
      /\ patch[e].at = "beaten"
      /\ patch' = [patch EXCEPT ![e].at = "conflict", ![e].ans = View]
  BY DEF EditConflict, server
<1>2. View \in Known
  BY DEF EditIInv, AllKnown, Known, View, Row
<1>3. /\ q \in AnyPatch
      /\ q.at = "conflict" /\ q.was = patch[e].was /\ q.ans = View /\ q.exp = patch[e].exp
  BY <1>2, Patches, PatchMoves
<1>4. patch' = [patch EXCEPT ![e] = q]
  BY <1>1, Patches DEF AnyPatch, EditMoved
<1> HIDE DEF q
<1>5. q.exp <= msg.v
  BY <1>1, <1>3 DEF EditIInv, PastExpected
<1>6. LockedRow'
  <2> HIDE DEF AnyPatch
  <2> QED
    BY <1>1, <1>3, <1>4, Patches DEF EditIInv, LockedRow
<1>7. holder' \in Edits \cup {NoEdit} /\ upsets' \in 0..MaxUpsets
  BY <1>1, Patches
<1>8. patch[e].at # "ok" /\ q.at \notin {"ok", "unsaved", "read"}
  BY <1>1, <1>3
<1>9. q.ans \in Known
  BY <1>2, <1>3
<1> QED
  BY <1>1, <1>3, <1>4, <1>5, <1>6, <1>7, <1>8, <1>9, PatchSteps

\* Fewer edits have been accepted than there are when one is about to be.
LEMMA AnotherVersion ==
  ASSUME EditIInv, NEW e \in Edits, patch[e].at # "ok"
  PROVE  /\ msg.v + 1 \in 0..MaxEdits
         /\ Cardinality(Accepted \cup {e}) = msg.v + 1
<1> USE EditNumbers
<1>1. IsFiniteSet(Edits) /\ Cardinality(Edits) = MaxEdits
  <2>1. 1 \in Int /\ MaxEdits \in Int
    OBVIOUS
  <2>2. IsFiniteSet(1..MaxEdits)
        /\ Cardinality(1..MaxEdits) = IF 1 > MaxEdits THEN 0 ELSE MaxEdits - 1 + 1
    BY <2>1, FS_Interval
  <2> QED
    BY <2>2 DEF Edits
<1>2. Accepted \in SUBSET Edits /\ e \notin Accepted /\ Accepted \cup {e} \in SUBSET Edits
  BY DEF Accepted
<1>3. IsFiniteSet(Accepted)
  BY <1>1, <1>2, FS_Subset
<1>4. Cardinality(Accepted \cup {e}) = Cardinality(Accepted) + 1
  BY <1>2, <1>3, FS_AddElement
<1>5. Cardinality(Accepted \cup {e}) <= MaxEdits
  BY <1>1, <1>2, FS_Subset
<1>6. Cardinality(Accepted) = msg.v /\ msg.v \in Nat
  BY EditedRow DEF EditIInv, EditTypeOK, VersionsCount
<1> QED
  BY <1>4, <1>5, <1>6

\* The successor of a number.
LEMMA NextNumber ==
  /\ \A n \in Nat : n + 1 \in Nat /\ n < n + 1
  /\ \A n \in Nat : \A x \in Nat : x <= n => x <= n + 1
  /\ \A n \in Nat : \A x \in Nat : x < n + 1 => x # n + 1
OBVIOUS

\* The conditional update finds its version, the history is written and trimmed.
LEMMA EditCommitStep ==
  ASSUME EditIInv, NEW e \in Edits, EditCommit(e)
  PROVE  EditIInv'
<1> USE EditNumbers, EditedRow
<1> DEFINE n == msg.v
           q == EditMoved(e, "ok", patch[e].was, patch[e].ans)
<1>1. /\ UNCHANGED <<deleted, frames, shown, editor, fetch, overtaken, swapped, upsets>>
      /\ patch[e].at = "locked"
      /\ msg' = Edited(e)
      /\ texts' = [texts EXCEPT ![n + 1] = e]
      /\ past' = Trim(past \cup {patch[e].was})
      /\ events' = Append(events, Edited(e))
      /\ holder' = NoEdit
      /\ patch' = [patch EXCEPT ![e].at = "ok"]
  BY DEF EditCommit, page
<1>2. /\ holder = e /\ patch[e].was = msg /\ patch[e].exp = n /\ ~deleted
  <2>1. e # NoEdit
    BY DEF Edits, NoEdit
  <2> QED
    BY <1>1, <2>1 DEF EditIInv, LockedRow
<1>3. msg \in Version /\ n \in 0..MaxEdits /\ texts \in [0..MaxEdits -> 0..MaxEdits]
  BY DEF EditIInv, EditTypeOK
<1>4. n + 1 \in 0..MaxEdits /\ Cardinality(Accepted \cup {e}) = n + 1
  BY <1>1, AnotherVersion
<1>5. e \in 0..MaxEdits /\ e # 0
  BY DEF Edits
<1>6. /\ msg' = [v |-> n + 1, by |-> e] /\ msg' \in Version
      /\ texts' \in [0..MaxEdits -> 0..MaxEdits] /\ texts'[n + 1] = e
      /\ \A k \in 0..MaxEdits : k # n + 1 => texts'[k] = texts[k]
  BY <1>1, <1>3, <1>4, <1>5 DEF Edited, Version
<1>7. Known \subseteq Known' /\ msg' \in Known'
  <2>1. Known \subseteq Known'
    BY <1>1, <1>3, <1>6, KnownGrows DEF EditIInv
  <2>2. msg' \in Known'
    <3>1. msg' \in Row /\ msg' # Gone
      BY <1>6 DEF Row
    <3>2. msg'.v = n + 1 /\ msg'.by = e
      BY ONLY <1>6
    <3>3. n + 1 <= n + 1
      BY ONLY <1>3, EditNumbers
    <3>4. msg'.v <= msg'.v /\ msg'.by = texts'[msg'.v]
      BY ONLY <1>6, <3>2, <3>3
    <3> QED BY <3>1, <3>4 DEF Known
  <2> QED
    BY <2>1, <2>2
<1>8. /\ q \in AnyPatch
      /\ q.at = "ok" /\ q.was = patch[e].was /\ q.ans = patch[e].ans /\ q.exp = patch[e].exp
  BY Patches, PatchMoves
<1>9. patch' = [patch EXCEPT ![e] = q]
  BY <1>1, Patches DEF AnyPatch, EditMoved
<1> HIDE DEF q
<1>10. /\ patch' \in [Edits -> AnyPatch] /\ patch'[e] = q
       /\ \A f \in Edits : f # e => patch'[f] = patch[f]
  <2> HIDE DEF AnyPatch
  <2> QED
    BY <1>8, <1>9, Patches
<1>11. /\ events' \in Seq(Known') /\ events' # <<>>
       /\ events'[Len(events')] = msg'
  <2>1. events \in Seq(Known')
    BY <1>7, KnownCarried DEF EditIInv, AllKnown
  <2>2. events' = Append(events, msg')
    BY <1>1
  <2> QED
    BY <1>7, <2>1, <2>2
<1>12. AllKnown'
  <2>1. frames' \in [Pages -> Seq(Known')]
    BY <1>1, <1>7, KnownCarried DEF EditIInv, AllKnown
  <2>2. \A f \in Edits : patch'[f].ans \in Known'
    BY <1>7, <1>8, <1>10, Patches
  <2>3. shown' \in [Pages -> Known'] /\ First \in Known'
    BY <1>1, <1>7 DEF EditIInv, AllKnown
  <2>4. \A p \in Pages : fetch'[p].at = "read" => fetch'[p].row \in Known'
    BY <1>1, <1>7 DEF EditIInv, AllKnown
  <2> QED
    BY <1>7, <1>11, <2>1, <2>2, <2>3, <2>4 DEF AllKnown
<1>13. past' = Newest(texts, n + 1)
  <2>1. msg = [v |-> n, by |-> texts[n]]
    BY <1>3 DEF EditIInv, AllKnown, Known, Version
  <2>2. past = Newest(texts, n)
    BY DEF EditIInv, HistoryIsTrue, Newest
  <2>3. n \in 0..MaxEdits
    BY <1>3
  <2> QED
    BY <1>1, <1>2, <2>1, <2>2, <2>3, TrimKeepsTheNewest
<1>14. HistoryIsTrue'
  <2>1. n + 1 \in Nat /\ \A k \in 0..MaxEdits : k < n + 1 => texts[k] = texts'[k]
    <3>1. n \in Nat /\ \A k \in 0..MaxEdits : k \in Nat
      BY <1>3
    <3>2. n + 1 \in Nat /\ \A k \in 0..MaxEdits : k < n + 1 => k # n + 1
      BY <3>1, NextNumber, Zenon
    <3> QED
      BY <1>6, <3>2, Zenon
  <2>2. Newest(texts, n + 1) = Newest(texts', n + 1)
    BY <2>1, NewestLooksBack
  <2>3. msg'.v = n + 1
    BY <1>6
  <2> QED
    BY <1>13, <2>2, <2>3 DEF HistoryIsTrue, Newest
<1>15. past' \in SUBSET Version
  BY <1>3, <1>13 DEF Version, Newest
<1>16. EditTypeOK'
  <2>1. events' \in Seq(Row)
    <3>1. events \in Seq(Row) /\ msg' \in Row
      BY <1>6 DEF EditIInv, EditTypeOK
    <3> QED
      BY <1>1, <3>1
  <2> QED
    BY <1>1, <1>6, <1>10, <1>15, <2>1 DEF EditIInv, EditTypeOK, AnyPatch
<1>17. LockedRow'
  <2>1. \A f \in Edits : patch[f].at = "locked" => f = e
    BY <1>2 DEF EditIInv, LockedRow
  <2> QED
    BY <1>1, <1>8, <1>10, <2>1 DEF LockedRow
<1>18. PastExpected'
  <2>1. msg'.v = n + 1
    BY <1>6
  <2> QED
    <3> SUFFICES ASSUME NEW f \in Edits
                 PROVE  /\ patch'[f].at # "unsaved" => patch'[f].exp <= n + 1
                        /\ patch'[f].at = "read" =>
                             patch'[f].exp <= patch'[f].was.v /\ patch'[f].was \in Known'
      BY <2>1 DEF PastExpected
    <3>1. CASE f = e
      BY <1>2, <1>3, <1>8, <1>10, <3>1
    <3>2. CASE f # e
      <4>1. patch'[f] = patch[f] /\ patch[f].exp \in 0..MaxEdits
        BY <1>10, <3>2, Patches DEF AnyPatch
      <4>2. patch[f].at # "unsaved" => patch[f].exp <= n
        BY DEF EditIInv, PastExpected
      <4>3. patch[f].at # "unsaved" => patch[f].exp <= n + 1
        <5>1. n \in Nat /\ patch[f].exp \in Nat
          BY <1>3, <4>1
        <5> QED
          BY <4>2, <5>1, NextNumber, Zenon
      <4> QED
        BY <1>7, <4>1, <4>3 DEF EditIInv, PastExpected
    <3> QED
      BY <3>1, <3>2
<1>19. EditorHasRow'
  BY <1>1 DEF EditIInv, EditorHasRow
<1>20. VersionsCount'
  <2>1. Accepted' = Accepted \cup {e}
    BY <1>8, <1>10 DEF Accepted
  <2>2. msg'.v = n + 1
    BY <1>6
  <2> QED
    BY <1>4, <2>1, <2>2 DEF VersionsCount
<1>21. WillAgree'
  BY <1>1, <1>2, <1>11 DEF WillAgree, Lastly, View
<1>22. EditsReplaceWhatWasShown'
  <2>1. msg'.v = n + 1
    BY <1>6
  <2>2. ASSUME NEW f \in Edits, patch'[f].at = "ok"
        PROVE  patch'[f].exp < n + 1 /\ texts'[patch'[f].exp + 1] = f
    <3>1. CASE f = e
      <4>1. patch'[f].exp = n
        BY <1>2, <1>8, <1>10, <3>1
      <4> QED
        <5>1. n \in Nat
          BY <1>3
        <5>2. n < n + 1
          BY <5>1, NextNumber, Zenon
        <5>3. texts'[n + 1] = f
          BY <1>6, <3>1, Zenon
        <5> QED
          BY <4>1, <5>2, <5>3, Zenon
    <3>2. CASE f # e
      <4>1. patch[f].at = "ok" /\ patch'[f].exp = patch[f].exp
        BY <1>10, <2>2, <3>2
      <4>2. patch[f].exp < n /\ texts[patch[f].exp + 1] = f /\ patch[f].exp \in 0..MaxEdits
        BY <4>1, Patches DEF EditIInv, EditsReplaceWhatWasShown, AnyPatch
      <4> QED
        <5>1. /\ patch[f].exp + 1 \in 0..MaxEdits /\ patch[f].exp + 1 # n + 1
              /\ patch[f].exp < n + 1
          BY <1>3, <1>4, <4>2
        <5> QED
          BY <1>6, <4>1, <4>2, <5>1
    <3> QED
      BY <3>1, <3>2
  <2>3. ASSUME NEW f \in Edits, patch'[f].at # "ok"
        PROVE  \A k \in 0..MaxEdits : texts'[k] # f
    <3>1. f # e /\ patch[f].at # "ok"
      BY <1>8, <1>10, <2>3
    <3> QED
      BY <1>6, <3>1 DEF EditIInv, EditsReplaceWhatWasShown
  <2> QED
    BY <2>1, <2>2, <2>3 DEF EditsReplaceWhatWasShown
<1> QED
  BY <1>12, <1>14, <1>16, <1>17, <1>18, <1>19, <1>20, <1>21, <1>22 DEF EditIInv

\* The message is deleted.
LEMMA SoftDeleteStep ==
  ASSUME EditIInv, SoftDelete
  PROVE  EditIInv'
<1> USE EditNumbers, EditedRow
<1>1. /\ UNCHANGED <<msg, past, texts, holder, patch>>
      /\ UNCHANGED <<frames, shown, editor, fetch, overtaken, swapped, upsets>>
      /\ ~deleted /\ holder = NoEdit /\ deleted' = TRUE
      /\ events' = Append(events, Gone)
  BY DEF SoftDelete, page
<1>2. Known \subseteq Known' /\ Gone \in Known'
  <2>1. Known \subseteq Known'
    <3>1. EditTypeOK /\ msg \in Version
      BY DEF EditIInv, EditTypeOK
    <3>2. msg'.v \in Nat /\ msg.v <= msg'.v
      BY <1>1, <3>1
    <3> QED
      BY <1>1, <3>1, <3>2, KnownGrows
  <2>2. Gone \in Known'
    BY <1>1 DEF Known, Row
  <2> QED
    BY <2>1, <2>2
<1>3. /\ events' \in Seq(Known') /\ events' # <<>> /\ events'[Len(events')] = Gone
  <2>1. events \in Seq(Known')
    BY <1>2, KnownCarried DEF EditIInv, AllKnown
  <2> QED
    BY <1>1, <1>2, <2>1
<1>4. AllKnown'
  <2>1. frames' \in [Pages -> Seq(Known')]
    BY <1>1, <1>2, KnownCarried DEF EditIInv, AllKnown
  <2> QED
    BY <1>1, <1>2, <1>3, <2>1 DEF EditIInv, AllKnown
<1>5. EditTypeOK'
  <2>1. events' \in Seq(Row)
    BY <1>1 DEF EditIInv, EditTypeOK, Row
  <2> QED
    BY <1>1, <2>1 DEF EditIInv, EditTypeOK
<1>6. LockedRow'
  BY <1>1 DEF EditIInv, LockedRow
<1>7. PastExpected'
  BY <1>1, <1>2 DEF EditIInv, PastExpected
<1>8. EditorHasRow'
  BY <1>1 DEF EditIInv, EditorHasRow
<1>9. WillAgree'
  BY <1>1, <1>3 DEF WillAgree, Lastly, View
<1>10. VersionsCount' /\ HistoryIsTrue' /\ EditsReplaceWhatWasShown'
  BY <1>1, NothingCommits
<1> QED
  BY <1>4, <1>5, <1>6, <1>7, <1>8, <1>9, <1>10 DEF EditIInv

\* The outbox row of a change is sent to the pages.
LEMMA FanOutStep ==
  ASSUME EditIInv, NEW i \in DOMAIN events, FanOut(i)
  PROVE  EditIInv'
<1>1. /\ UNCHANGED <<msg, deleted, past, texts, holder, patch, shown, editor, fetch, overtaken>>
      /\ frames' = [p \in Pages |-> Append(frames[p], events[i])]
      /\ \/ i = 1 /\ events' = Tail(events) /\ UNCHANGED <<swapped, upsets>>
         \/ Upset /\ swapped' = TRUE /\ events' \in {events, RemoveAt(events, i)}
  BY DEF FanOut, server
<1>2. /\ events \in Seq(Known) /\ Len(events) \in Nat /\ i \in 1..Len(events)
      /\ events[i] \in Known /\ events # <<>>
      /\ \A p \in Pages : frames[p] \in Seq(Known)
  <2>1. events \in Seq(Known) /\ \A p \in Pages : frames[p] \in Seq(Known)
    BY DEF EditIInv, AllKnown
  <2>2. DOMAIN events = 1..Len(events) /\ Len(events) \in Nat
    BY <2>1, LenProperties
  <2>3. events[i] \in Known
    BY <2>1, <2>2, ElementOfSeq
  <2>4. events # <<>>
    BY <2>2, EmptySeq
  <2> QED
    BY <2>1, <2>2, <2>3, <2>4
<1>3. Known' = Known /\ View' = View
  BY <1>1 DEF Known, View
<1>4. events' \in Seq(Known)
  <2>1. CASE events' = Tail(events)
    BY <1>2, <2>1, HeadTailProperties
  <2>2. CASE events' \in {events, RemoveAt(events, i)}
    BY <1>2, <2>2, RemovedAt
  <2> QED
    BY <1>1, <2>1, <2>2
<1>5. /\ frames' \in [Pages -> Seq(Known)]
      /\ \A p \in Pages : frames'[p] # <<>> /\ frames'[p][Len(frames'[p])] = events[i]
  BY <1>1, <1>2
<1>6. AllKnown'
  BY <1>1, <1>3, <1>4, <1>5 DEF EditIInv, AllKnown
<1>7. EditTypeOK'
  <2>1. Known \subseteq Row
    BY DEF Known
  <2>2. events' \in Seq(Row) /\ frames' \in [Pages -> Seq(Row)]
    BY <1>4, <1>5, <2>1, SeqMonotonic
  <2>3. upsets' \in 0..MaxUpsets /\ swapped' \in BOOLEAN
    BY <1>1, UpsetCounts DEF EditIInv, EditTypeOK
  <2> QED
    BY <1>1, <2>2, <2>3 DEF EditIInv, EditTypeOK
<1>8. LockedRow' /\ PastExpected' /\ EditorHasRow'
  BY <1>1, <1>3 DEF EditIInv, LockedRow, PastExpected, EditorHasRow
<1>9. WillAgree'
  <2>1. CASE i = 1 /\ events' = Tail(events) /\ swapped' = swapped
    <3>1. ASSUME NEW p \in Pages, ~swapped, p \notin overtaken PROVE Lastly(p)' = View
      <4>1. events[Len(events)] = View
        BY <1>2, <3>1 DEF EditIInv, WillAgree, Lastly
      <4>2. CASE events' = <<>>
        <5>1. Len(events) = 1
          <6>1. Len(Tail(events)) = Len(events) - 1 /\ Len(Tail(events)) = 0
            BY <1>2, <2>1, <4>2, HeadTailProperties, EmptySeq
          <6> QED
            <7>1. \A m \in Nat : m - 1 = 0 => m = 1
              OBVIOUS
            <7> QED
              BY <1>2, <6>1, <7>1, Zenon
        <5> QED
          BY <1>5, <2>1, <4>1, <4>2, <5>1 DEF Lastly
      <4>3. CASE events' # <<>>
        <5>1. events'[Len(events')] = events[Len(events)]
          BY <1>2, <2>1, <4>3
        <5> QED
          BY <4>1, <4>3, <5>1 DEF Lastly
      <4> QED
        BY <4>2, <4>3
    <3> QED
      BY <1>1, <1>3, <2>1, <3>1 DEF WillAgree
  <2>2. CASE swapped' = TRUE
    BY <2>2 DEF WillAgree
  <2> QED
    BY <1>1, <2>1, <2>2
<1>10. VersionsCount' /\ HistoryIsTrue' /\ EditsReplaceWhatWasShown'
  BY <1>1, NothingCommits
<1> QED
  BY <1>6, <1>7, <1>8, <1>9, <1>10 DEF EditIInv

-----------------------------------------------------------------------------
(* The theorems. *)

\* Every step keeps the invariant.
LEMMA EditStep == EditIInv /\ [EditNext]_editVars => EditIInv'
<1> SUFFICES ASSUME EditIInv, [EditNext]_editVars PROVE EditIInv'
  OBVIOUS
<1>1. CASE UNCHANGED editVars
  BY <1>1 DEF editVars, server, page, EditIInv, EditTypeOK, AllKnown, Known, LockedRow,
              PastExpected, EditorHasRow, VersionsCount, Accepted, WillAgree, Lastly, View,
              HistoryIsTrue, EditsReplaceWhatWasShown
<1>2. ASSUME NEW p \in Pages,
             OpenEditor(p) \/ CloseEditor(p) \/ Refetch(p) \/ ListReads(p)
               \/ ListArrives(p) \/ OnFrame(p)
      PROVE  EditIInv'
  BY <1>2, EditorSteps, FetchSteps, ListArrivesStep, OnFrameStep
<1>3. ASSUME NEW p \in Pages, NEW e \in Edits, Save(p, e) PROVE EditIInv'
  BY <1>3, SaveStep
<1>4. ASSUME NEW e \in Edits,
             OnEdited(e) \/ OnConflict(e) \/ OnEditError(e) \/ EditAnswerLost(e)
      PROVE  EditIInv'
  BY <1>4, OnEditedStep, OnConflictStep, OnEditErrorStep
<1>5. ASSUME NEW e \in Edits,
             Refuse(e) \/ EditRead(e) \/ EditUpdate(e) \/ EditCommit(e)
               \/ EditFails(e) \/ EditConflict(e)
      PROVE  EditIInv'
  BY <1>5, RefuseStep, EditReadStep, EditUpdateStep, EditCommitStep, EditFailsStep,
     EditConflictStep
<1>6. CASE SoftDelete
  BY <1>6, SoftDeleteStep
<1>7. ASSUME NEW i \in DOMAIN events, FanOut(i) PROVE EditIInv'
  BY <1>7, FanOutStep
<1> QED
  BY <1>1, <1>2, <1>3, <1>4, <1>5, <1>6, <1>7 DEF EditNext

\* What the pages and the history may show follows from the invariant.
LEMMA EditIInvSound == EditIInv => EditsSound
<1> SUFFICES ASSUME EditIInv PROVE EditsSound
  OBVIOUS
<1> USE EditNumbers, EditedRow
<1>1. \A r \in Known : Genuine(r)
  BY DEF Known, Genuine
<1>2. VersionsNameTexts
  <2>1. msg.by = texts[msg.v]
    BY DEF EditIInv, EditTypeOK, AllKnown, Known
  <2>2. \A p \in Pages : Genuine(shown[p])
    BY <1>1 DEF EditIInv, AllKnown
  <2>3. \A p \in Pages : fetch[p].at = "read" => Genuine(fetch[p].row)
    BY <1>1 DEF EditIInv, AllKnown
  <2>4. \A p \in Pages : \A i \in DOMAIN frames[p] : Genuine(frames[p][i])
    BY <1>1, ElementOfSeq, LenProperties DEF EditIInv, AllKnown
  <2>5. \A i \in DOMAIN events : Genuine(events[i])
    BY <1>1, ElementOfSeq, LenProperties DEF EditIInv, AllKnown
  <2>6. \A e \in Edits : Genuine(patch[e].ans)
    BY <1>1, Patches
  <2> QED
    BY <2>1, <2>2, <2>3, <2>4, <2>5, <2>6 DEF VersionsNameTexts
<1>3. PagesAgree
  BY DEF EditIInv, WillAgree, Lastly, PagesAgree, AtRest
<1> QED
  BY <1>2, <1>3 DEF EditIInv, EditsSound

\* An edit that is accepted replaces what its page showed when it was saved,
\* the history keeps the newest versions with their texts, a version stands
\* for one text wherever it is shown, and a page at rest shows the row
\* (messages.service.ts:3364-3668, useMessages.ts:65-91).
THEOREM EditsHold == EditSpec => []EditsSound
<1>1. EditInit => EditIInv
  BY EditInitHolds
<1>2. EditIInv /\ [EditNext]_editVars => EditIInv'
  BY EditStep
<1>3. EditIInv => EditsSound
  BY EditIInvSound
<1> QED
  BY <1>1, <1>2, <1>3, PTL DEF EditSpec

\* The types of the row, the calls and the pages.
THEOREM EditTypesOK == EditSpec => []EditTypeOK
<1>1. EditInit => EditIInv
  BY EditInitHolds
<1>2. EditIInv /\ [EditNext]_editVars => EditIInv'
  BY EditStep
<1>3. EditIInv => EditTypeOK
  BY DEF EditIInv
<1> QED
  BY <1>1, <1>2, <1>3, PTL DEF EditSpec
=============================================================================
