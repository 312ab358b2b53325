-------------------------- MODULE WorkspaceProofs --------------------------
(* Proofs about attachments, reminders, the threads of AutoMod and the      *)
(* order of channels, for any number of calls, rows and failures.           *)
EXTENDS Attachments, Reminders, RegexRunner, Ordering, FiniteSetTheorems, TLAPS

-----------------------------------------------------------------------------
(* Attachments. *)

OneOf == {{s} : s \in Uploads} \cup {{}}

AttachmentRows == [of : OneOf, msg : Sends \cup {NoSend}]

CompleteCalls == [at : {"new", "head", "close", "done"}, s : OneOf, msg : Sends \cup {NoSend}]

\* The call that has created a row, or that of a row a sweep has chosen, is over.
RowsAreDone ==
  \A c \in Completes : c \in Rows \cup sweeping.atts => completing[c].at = "done"

\* A row closes its session for good, and its bytes have been looked at.
RowsAreClosed ==
  \A c \in Rows : \A s \in attachment[c].of :
    session[s] \in {"completed", "gone"} /\ object[s] # "bad"

\* A call about to close a session has found good bytes, which only a sweep
\* takes away again.
CloseIsChecked ==
  \A c \in Completes : completing[c].at = "close" =>
    \A s \in completing[c].s : object[s] # "bad" /\ (object[s] = "none" => s \in doomed)

\* Nothing is uploaded any more to a session a sweep was right to select, and a
\* sweep selects no other.
DoomedForGood ==
  /\ \A s \in doomed : s \in lapsed \/ session[s] \in {"completed", "gone"}
  /\ sweeping.sessions \subseteq doomed
  /\ \A c \in sweeping.atts : attachment[c].of \subseteq doomed

AttachmentTypes ==
  /\ session \in [Uploads -> {"none", "open", "completed", "gone"}]
  /\ object \in [Uploads -> {"none", "good", "bad"}]
  /\ lapsed \subseteq Uploads /\ doomed \subseteq Uploads /\ aged \subseteq Completes
  /\ attachment \in [Completes -> AttachmentRows]
  /\ completing \in [Completes -> CompleteCalls]
  /\ sending \in [Sends -> [at : {"new", "link", "done"}, atts : SUBSET Completes]]
  /\ sweeping \in [at : {"idle", "sessions"}, sessions : SUBSET Uploads,
                   atts : SUBSET Completes]

AttachmentsIInv ==
  /\ AttachmentTypes
  /\ RowsAreDone /\ RowsAreClosed /\ CloseIsChecked /\ DoomedForGood
  /\ OneAttachmentPerUpload /\ KeptUnlessAbandoned

\* Nothing is attached, stored or under way at first.
LEMMA AttachmentsInitHolds == AttachmentsInit => AttachmentsIInv
BY DEF AttachmentsInit, AttachmentsIInv, AttachmentTypes, AttachmentRows, CompleteCalls, OneOf, RowsAreDone,
       RowsAreClosed, CloseIsChecked, DoomedForGood, OneAttachmentPerUpload,
       KeptUnlessAbandoned, Rows, NoAttachment

\* What a row may hold, without its set of records.
LEMMA RowShape ==
  ASSUME NEW r
  PROVE  /\ r \in AttachmentRows => r.of \subseteq Uploads /\ r.msg \in Sends \cup {NoSend}
         /\ NoAttachment \in AttachmentRows
         /\ \A m \in Sends : r \in AttachmentRows => [r EXCEPT !.msg = m] \in AttachmentRows
                            /\ [r EXCEPT !.msg = m].of = r.of
         /\ \A s \in Uploads, m \in Sends \cup {NoSend} :
              [of |-> {s}, msg |-> m] \in AttachmentRows
<1>1. /\ r \in AttachmentRows => r.of \subseteq Uploads /\ r.msg \in Sends \cup {NoSend}
      /\ NoAttachment \in AttachmentRows
  BY DEF AttachmentRows, OneOf, NoAttachment
<1>2. ASSUME NEW m \in Sends, r \in AttachmentRows
      PROVE  [r EXCEPT !.msg = m] \in AttachmentRows /\ [r EXCEPT !.msg = m].of = r.of
  BY <1>2 DEF AttachmentRows
<1>3. ASSUME NEW s \in Uploads, NEW m \in Sends \cup {NoSend}
      PROVE  [of |-> {s}, msg |-> m] \in AttachmentRows
  BY <1>3 DEF AttachmentRows, OneOf
<1> QED BY <1>1, <1>2, <1>3

\* A call that goes on keeps its upload.
LEMMA CallGoes ==
  ASSUME AttachmentTypes, NEW c \in Completes, NEW at \in {"close", "done"},
         completing' = [completing EXCEPT ![c].at = at]
  PROVE  /\ completing' \in [Completes -> CompleteCalls]
         /\ \A d \in Completes : d # c => completing'[d] = completing[d]
         /\ completing'[c].at = at /\ completing'[c].s = completing[c].s
BY DEF AttachmentTypes, CompleteCalls

\* What a sweep has selected only gets less.
LEMMA SweepShrinks ==
  ASSUME AttachmentTypes, NEW S \in SUBSET Uploads, NEW A \in SUBSET sweeping.atts,
         S \subseteq sweeping.sessions,
         sweeping' = [sweeping EXCEPT !.sessions = S, !.atts = A]
  PROVE  /\ sweeping' \in [at : {"idle", "sessions"}, sessions : SUBSET Uploads,
                           atts : SUBSET Completes]
         /\ sweeping'.sessions \subseteq sweeping.sessions
         /\ sweeping'.atts \subseteq sweeping.atts
BY DEF AttachmentTypes

\* Whatever a step does to sessions, objects and sweeps, the rows that were linked
\* stay as they are or go.
AttachmentsKeep ==
  AttachmentsIInv' /\ \A c \in Rows \ Unlinked : attachment'[c] \in {attachment[c], NoAttachment}

\* A step that changes no row, no call and no object.
LEMMA SessionSteps ==
  ASSUME AttachmentsIInv,
         \/ \E s \in Uploads : CreateUploadUrl(s) \/ SessionExpires(s)
         \/ \E c \in Completes : GraceEnds(c)
         \/ \E m \in Sends : \E atts \in SUBSET Unlinked : Send(m, atts)
         \/ UNCHANGED attachmentVars
  PROVE  AttachmentsKeep
<1>1. /\ attachment' = attachment /\ object' = object /\ completing' = completing
      /\ sweeping' = sweeping /\ doomed' = doomed /\ lapsed \subseteq lapsed'
      /\ \A s \in Uploads : session'[s] = session[s] \/ session[s] = "none"
  BY DEF CreateUploadUrl, SessionExpires, GraceEnds, Send, attachmentVars, AttachmentsIInv,
         AttachmentTypes
<1>2. AttachmentTypes'
  <2>1. CASE \E s \in Uploads : CreateUploadUrl(s) \/ SessionExpires(s)
    BY <2>1 DEF CreateUploadUrl, SessionExpires, AttachmentsIInv, AttachmentTypes
  <2>2. CASE \E c \in Completes : GraceEnds(c)
    BY <2>2 DEF GraceEnds, AttachmentsIInv, AttachmentTypes
  <2>3. CASE \E m \in Sends : \E atts \in SUBSET Unlinked : Send(m, atts)
    BY <2>3 DEF Send, AttachmentsIInv, AttachmentTypes, Rows, Unlinked
  <2>4. CASE UNCHANGED attachmentVars
    BY <2>4 DEF attachmentVars, AttachmentsIInv, AttachmentTypes
  <2> QED BY <2>1, <2>2, <2>3, <2>4
<1>3. \A c \in Completes : attachment[c].of \subseteq Uploads
  BY RowShape DEF AttachmentsIInv, AttachmentTypes
<1>4. RowsAreDone' /\ CloseIsChecked' /\ OneAttachmentPerUpload' /\ KeptUnlessAbandoned'
  BY <1>1 DEF AttachmentsIInv, RowsAreDone, CloseIsChecked, OneAttachmentPerUpload,
              KeptUnlessAbandoned, Rows
<1>5. RowsAreClosed'
  BY <1>1, <1>3 DEF AttachmentsIInv, RowsAreClosed, Rows
<1>6. DoomedForGood'
  BY <1>1 DEF AttachmentsIInv, DoomedForGood, AttachmentTypes
<1> QED BY <1>1, <1>2, <1>4, <1>5, <1>6 DEF AttachmentsKeep, AttachmentsIInv

\* An upload goes to a session nobody has closed or doomed.
LEMMA UploadStep ==
  ASSUME AttachmentsIInv, NEW s \in Uploads, NEW bytes \in {"good", "bad"}, Upload(s, bytes)
  PROVE  AttachmentsKeep
<1>1. s \notin doomed /\ \A c \in Rows : s \notin attachment[c].of
  BY DEF Upload, AttachmentsIInv, DoomedForGood, RowsAreClosed
<1>2. \A c \in Completes : completing[c].at = "close" => s \notin completing[c].s
  BY <1>1 DEF Upload, AttachmentsIInv, CloseIsChecked
<1>3. \A t \in Uploads : t # s => object'[t] = object[t]
  BY DEF Upload, AttachmentsIInv, AttachmentTypes
<1>4. AttachmentTypes'
  BY DEF Upload, AttachmentsIInv, AttachmentTypes
<1>5. RowsAreClosed' /\ KeptUnlessAbandoned'
  BY <1>1, <1>3 DEF Upload, AttachmentsIInv, AttachmentTypes, RowsAreClosed,
                    KeptUnlessAbandoned, Rows
<1>6. CloseIsChecked'
  BY <1>2, <1>3 DEF Upload, AttachmentsIInv, CloseIsChecked, CompleteCalls, OneOf
<1>7. RowsAreDone' /\ DoomedForGood' /\ OneAttachmentPerUpload'
  BY DEF Upload, AttachmentsIInv, RowsAreDone, DoomedForGood, OneAttachmentPerUpload, Rows
<1> QED BY <1>4, <1>5, <1>6, <1>7 DEF AttachmentsKeep, AttachmentsIInv, Upload

\* Completing an upload links it or leaves the links alone.
LEMMA CompleteStep ==
  ASSUME AttachmentsIInv, NEW c \in Completes, NEW s \in Uploads, NEW m \in Sends \cup {NoSend},
         Complete(c, s, m)
  PROVE  AttachmentsKeep
<1>1. /\ completing' \in [Completes -> CompleteCalls]
      /\ \A d \in Completes : d # c => completing'[d] = completing[d]
      /\ completing[c].at = "new" /\ completing'[c].at # "close"
  BY DEF Complete, AttachmentsIInv, AttachmentTypes, CompleteCalls, OneOf
<1>2. AttachmentTypes'
  BY <1>1 DEF Complete, AttachmentsIInv, AttachmentTypes, CompleteCalls
<1>3. RowsAreDone' /\ CloseIsChecked'
  BY <1>1 DEF Complete, AttachmentsIInv, RowsAreDone, CloseIsChecked, Rows
<1>4. RowsAreClosed' /\ DoomedForGood' /\ OneAttachmentPerUpload' /\ KeptUnlessAbandoned'
  BY DEF Complete, AttachmentsIInv, RowsAreClosed, DoomedForGood, OneAttachmentPerUpload,
         KeptUnlessAbandoned, Rows
<1> QED BY <1>1, <1>2, <1>3, <1>4 DEF AttachmentsKeep, AttachmentsIInv, Complete

\* Bytes of another type are found before anybody has closed their session.
LEMMA CheckStep ==
  ASSUME AttachmentsIInv, NEW c \in Completes, CheckObject(c)
  PROVE  AttachmentsKeep
<1>1. PICK s \in completing[c].s : CheckObject(c)!(s)
  BY DEF CheckObject
<1>2. s \in Uploads /\ completing[c].s = {s}
  BY <1>1 DEF AttachmentsIInv, AttachmentTypes, CompleteCalls, OneOf
<1>3. /\ completing' \in [Completes -> CompleteCalls]
      /\ \A d \in Completes : d # c => completing'[d] = completing[d]
      /\ completing[c].at = "head" /\ completing'[c].at \in {"done", "close"}
      /\ completing'[c].s = {s}
      /\ completing'[c].at = "close" => object[s] = "good"
  <2>1. \E at \in {"close", "done"} : /\ completing' = [completing EXCEPT ![c].at = at]
                                      /\ at = "close" => object[s] = "good"
    BY <1>1, <1>2 DEF CompleteEnds, AttachmentsIInv, AttachmentTypes
  <2> QED BY <1>1, <1>2, <2>1, CallGoes DEF AttachmentsIInv
<1>4. /\ \A t \in Uploads : \/ object'[t] = object[t] /\ session'[t] = session[t]
                            \/ t = s /\ object[s] = "bad" /\ completing'[c].at = "done"
                               /\ object'[s] = "none" /\ session'[s] = "gone"
      /\ UNCHANGED <<lapsed, attachment, aged, sending, sweeping, doomed>>
      /\ session' \in [Uploads -> {"none", "open", "completed", "gone"}]
      /\ object' \in [Uploads -> {"none", "good", "bad"}]
  <2>1. CASE object[s] = "bad"
    <3>1. completing'[c].at = "done"
      BY <1>1, <2>1, CallGoes DEF CompleteEnds, AttachmentsIInv
    <3> QED BY <1>1, <1>2, <2>1, <3>1 DEF AttachmentsIInv, AttachmentTypes
  <2>2. CASE object[s] # "bad"
    BY <1>1, <2>2 DEF AttachmentsIInv, AttachmentTypes
  <2> QED BY <2>1, <2>2
<1>5. AttachmentTypes'
  BY <1>3, <1>4 DEF AttachmentsIInv, AttachmentTypes
<1>6. RowsAreDone' /\ OneAttachmentPerUpload'
  BY <1>3, <1>4 DEF AttachmentsIInv, RowsAreDone, OneAttachmentPerUpload, Rows
<1>7. RowsAreClosed' /\ KeptUnlessAbandoned'
  <2>1. \A d \in Completes : attachment[d].of \subseteq Uploads
    BY RowShape DEF AttachmentsIInv, AttachmentTypes
  <2> QED BY <1>2, <1>4, <2>1 DEF AttachmentsIInv, RowsAreClosed, KeptUnlessAbandoned, Rows
<1>8. CloseIsChecked'
  <2>1. ASSUME NEW d \in Completes, completing'[d].at = "close", NEW t \in completing'[d].s
        PROVE  object'[t] # "bad" /\ (object'[t] = "none" => t \in doomed')
    <3>1. t \in Uploads
      BY <1>3, <2>1 DEF CompleteCalls, OneOf
    <3>2. CASE d = c
      BY <1>3, <1>4, <2>1, <3>1, <3>2
    <3>3. CASE d # c
      BY <1>3, <1>4, <2>1, <3>1, <3>3 DEF AttachmentsIInv, CloseIsChecked
    <3> QED BY <3>2, <3>3
  <2> QED BY <2>1 DEF CloseIsChecked
<1>9. DoomedForGood'
  BY <1>4 DEF AttachmentsIInv, DoomedForGood, AttachmentTypes
<1> QED BY <1>3, <1>4, <1>5, <1>6, <1>7, <1>8, <1>9 DEF AttachmentsKeep, AttachmentsIInv

\* Closing a session makes it one attachment.
LEMMA CloseStep ==
  ASSUME AttachmentsIInv, NEW c \in Completes, CloseUpload(c)
  PROVE  AttachmentsKeep
<1>1. PICK s \in completing[c].s : CloseUpload(c)!(s)
  BY DEF CloseUpload
<1>2. s \in Uploads /\ completing[c].s = {s} /\ completing[c].msg \in Sends \cup {NoSend}
  BY <1>1 DEF AttachmentsIInv, AttachmentTypes, CompleteCalls, OneOf
<1>3. /\ completing' \in [Completes -> CompleteCalls]
      /\ \A d \in Completes : d # c => completing'[d] = completing[d]
      /\ completing[c].at = "close" /\ completing'[c].at = "done"
  BY <1>1, CallGoes DEF CompleteEnds, AttachmentsIInv
<1>4. c \notin Rows /\ c \notin sweeping.atts
  BY <1>3 DEF AttachmentsIInv, RowsAreDone
<1>5. CASE session[s] = "open"
  <2>1. /\ \A d \in Completes : d # c => attachment'[d] = attachment[d]
        /\ attachment'[c] = [of |-> {s}, msg |-> completing[c].msg]
        /\ attachment'[c].of = {s} /\ Rows' = Rows \cup {c}
        /\ \A t \in Uploads : t # s => session'[t] = session[t]
        /\ session'[s] = "completed"
    BY <1>1, <1>2, <1>5 DEF AttachmentsIInv, AttachmentTypes, Rows
  <2>2. \A d \in Rows : s \notin attachment[d].of
    BY <1>5 DEF AttachmentsIInv, RowsAreClosed
  <2>3. object[s] # "bad" /\ (object[s] = "none" => s \in doomed)
    BY <1>2, <1>3 DEF AttachmentsIInv, CloseIsChecked
  <2>4. AttachmentTypes'
    <3>1. attachment' \in [Completes -> AttachmentRows]
      BY <1>1, <1>2, <1>5, RowShape DEF AttachmentsIInv, AttachmentTypes
    <3> QED BY <1>1, <1>2, <1>3, <1>5, <3>1 DEF AttachmentsIInv, AttachmentTypes
  <2>5. RowsAreDone' /\ CloseIsChecked'
    BY <1>1, <1>3, <2>1 DEF AttachmentsIInv, RowsAreDone, CloseIsChecked
  <2>6. RowsAreClosed' /\ KeptUnlessAbandoned'
    <3>1. ASSUME NEW d \in Rows', NEW t \in attachment'[d].of
          PROVE  /\ session'[t] \in {"completed", "gone"} /\ object'[t] # "bad"
                 /\ object'[t] = "none" => t \in doomed'
      <4>1. CASE d = c
        BY <1>1, <1>5, <2>1, <2>3, <3>1, <4>1
      <4>2. CASE d # c
        <5>1. d \in Rows /\ t \in attachment[d].of /\ t # s /\ t \in Uploads
          BY <2>1, <2>2, <3>1, <4>2, RowShape DEF AttachmentsIInv, AttachmentTypes, Rows
        <5> QED BY <1>1, <1>5, <2>1, <5>1 DEF AttachmentsIInv, RowsAreClosed, KeptUnlessAbandoned
      <4> QED BY <4>1, <4>2
    <3> QED BY <3>1 DEF RowsAreClosed, KeptUnlessAbandoned
  <2>7. OneAttachmentPerUpload'
    <3>1. \A d \in Rows : attachment[d].of # {s}
      BY <2>2
    <3> QED BY <1>4, <2>1, <3>1 DEF AttachmentsIInv, OneAttachmentPerUpload, Rows
  <2>8. DoomedForGood'
    BY <1>1, <1>4, <2>1 DEF AttachmentsIInv, DoomedForGood, AttachmentTypes
  <2>9. \A d \in Rows \ Unlinked : attachment'[d] = attachment[d]
    BY <1>4, <2>1 DEF Rows
  <2> QED BY <1>3, <2>4, <2>5, <2>6, <2>7, <2>8, <2>9 DEF AttachmentsKeep, AttachmentsIInv
<1>6. CASE session[s] # "open"
  <2>1. UNCHANGED <<session, attachment, lapsed, object, aged, sending, sweeping, doomed>>
    BY <1>1, <1>6
  <2>2. AttachmentTypes'
    BY <1>3, <2>1 DEF AttachmentsIInv, AttachmentTypes
  <2>3. RowsAreDone' /\ CloseIsChecked'
    BY <1>3, <2>1 DEF AttachmentsIInv, RowsAreDone, CloseIsChecked, Rows
  <2>4. RowsAreClosed' /\ DoomedForGood' /\ OneAttachmentPerUpload' /\ KeptUnlessAbandoned'
    BY <2>1 DEF AttachmentsIInv, RowsAreClosed, DoomedForGood, OneAttachmentPerUpload,
                KeptUnlessAbandoned, Rows
  <2> QED BY <1>3, <2>1, <2>2, <2>3, <2>4 DEF AttachmentsKeep, AttachmentsIInv
<1> QED BY <1>5, <1>6

\* A send links what is unlinked still, whose rows stay what they were.
LEMMA LinkStep ==
  ASSUME AttachmentsIInv, NEW m \in Sends, Link(m)
  PROVE  AttachmentsKeep
<1>1. /\ \A c \in Completes : attachment'[c].of = attachment[c].of
      /\ \A c \in Completes \ Unlinked : attachment'[c] = attachment[c]
  BY RowShape DEF Link, AttachmentsIInv, AttachmentTypes
<1>2. AttachmentTypes'
  <2>1. attachment' \in [Completes -> AttachmentRows]
    BY RowShape DEF Link, AttachmentsIInv, AttachmentTypes
  <2> QED BY <2>1 DEF Link, AttachmentsIInv, AttachmentTypes
<1>3. Rows' = Rows
  BY <1>1 DEF Rows
<1>4. RowsAreDone' /\ RowsAreClosed' /\ CloseIsChecked'
  BY <1>1, <1>3 DEF Link, AttachmentsIInv, RowsAreDone, RowsAreClosed, CloseIsChecked, Rows
<1>5. DoomedForGood' /\ OneAttachmentPerUpload' /\ KeptUnlessAbandoned'
  <2>1. sweeping' = sweeping /\ sweeping.atts \subseteq Completes
        /\ session' = session /\ object' = object /\ doomed' = doomed /\ lapsed' = lapsed
    BY DEF Link, AttachmentsIInv, AttachmentTypes
  <2>2. DoomedForGood'
    BY <1>1, <2>1 DEF AttachmentsIInv, DoomedForGood
  <2> QED BY <1>1, <1>3, <2>1, <2>2 DEF AttachmentsIInv, OneAttachmentPerUpload,
                                      KeptUnlessAbandoned, Rows
<1> QED BY <1>1, <1>2, <1>4, <1>5 DEF AttachmentsKeep, AttachmentsIInv, Link, Rows

\* A sweep selects what its rules let it.
LEMMA SelectSteps ==
  ASSUME AttachmentsIInv, SweepAttachments \/ SweepSessions
  PROVE  AttachmentsKeep
<1> DEFINE old == UNION {attachment[c].of : c \in Unlinked \cap aged}
           stale == {s \in lapsed : session[s] = "open"}
<1>1. /\ UNCHANGED <<session, lapsed, object, attachment, aged, completing, sending>>
      /\ doomed' = doomed \cup old \/ doomed' = doomed \cup stale
      /\ doomed \subseteq doomed'
      /\ sweeping'.atts \subseteq Rows
  BY DEF SweepAttachments, SweepSessions, Unlinked
<1>2. old \subseteq Uploads /\ \A s \in old : session[s] \in {"completed", "gone"}
  BY RowShape DEF Unlinked, Rows, AttachmentsIInv, AttachmentTypes, RowsAreClosed
<1>3. AttachmentTypes'
  BY <1>2 DEF SweepAttachments, SweepSessions, AttachmentsIInv, AttachmentTypes, Rows, Unlinked
<1>4. RowsAreDone' /\ RowsAreClosed' /\ CloseIsChecked'
  BY <1>1 DEF AttachmentsIInv, RowsAreDone, RowsAreClosed, CloseIsChecked, Rows
<1>5. DoomedForGood'
  <2>1. \A s \in doomed' : s \in lapsed \/ session[s] \in {"completed", "gone"}
    BY <1>1, <1>2 DEF AttachmentsIInv, DoomedForGood
  <2>2. /\ sweeping'.sessions \subseteq doomed'
        /\ \A c \in sweeping'.atts : attachment[c].of \subseteq doomed'
    BY DEF SweepAttachments, SweepSessions
  <2> QED BY <1>1, <2>1, <2>2 DEF DoomedForGood
<1>6. OneAttachmentPerUpload' /\ KeptUnlessAbandoned'
  BY <1>1 DEF AttachmentsIInv, OneAttachmentPerUpload, KeptUnlessAbandoned, Rows
<1> QED BY <1>1, <1>3, <1>4, <1>5, <1>6 DEF AttachmentsKeep, AttachmentsIInv

\* It takes objects and rows of doomed sessions away, one or both.
LEMMA SweepSteps ==
  ASSUME AttachmentsIInv, NEW s \in Uploads, SweepObject(s) \/ SweepRow(s)
  PROVE  AttachmentsKeep
<1>0. s \in doomed
  BY DEF SweepObject, SweepRow, Selected, AttachmentsIInv, DoomedForGood
<1>1. /\ sweeping' \in [at : {"idle", "sessions"}, sessions : SUBSET Uploads,
                         atts : SUBSET Completes]
      /\ sweeping'.sessions \subseteq sweeping.sessions
      /\ sweeping'.atts \subseteq sweeping.atts
  <2> DEFINE mine == {c \in sweeping.atts : s \in attachment[c].of}
             S == sweeping.sessions \ {s}
             A == sweeping.atts \ mine
  <2>1. S \in SUBSET Uploads /\ A \in SUBSET sweeping.atts /\ S \subseteq sweeping.sessions
    BY DEF AttachmentsIInv, AttachmentTypes
  <2>2. A = {c \in sweeping.atts : s \notin attachment[c].of}
    OBVIOUS
  <2>3. sweeping' = sweeping \/ sweeping' = [sweeping EXCEPT !.sessions = S, !.atts = A]
    <3>1. CASE SweepObject(s)
      BY <2>2, <3>1 DEF SweepObject
    <3>2. CASE SweepRow(s)
      BY <3>2 DEF SweepRow
    <3> QED BY <3>1, <3>2
  <2>4. CASE sweeping' = sweeping
    BY <2>4 DEF AttachmentsIInv, AttachmentTypes
  <2>5. CASE sweeping' = [sweeping EXCEPT !.sessions = S, !.atts = A]
    <3> HIDE DEF S, A
    <3> QED BY <2>1, <2>5, SweepShrinks DEF AttachmentsIInv
  <2> QED BY <2>3, <2>4, <2>5
<1>2. /\ \A c \in Completes : attachment'[c] = attachment[c] \/ attachment'[c] = NoAttachment
      /\ \A t \in Uploads : session'[t] = session[t] \/ session'[t] = "gone"
      /\ \A t \in Uploads : object'[t] = object[t] \/ (t = s /\ object'[t] = "none")
      /\ UNCHANGED <<lapsed, aged, completing, sending, doomed>>
  <2>1. CASE SweepObject(s)
    <3>1. /\ UNCHANGED <<session, lapsed, attachment, aged, completing, sending, doomed>>
          /\ object' = object \/ object' = [object EXCEPT ![s] = "none"]
      BY <2>1 DEF SweepObject
    <3>2. object \in [Uploads -> {"none", "good", "bad"}]
      BY DEF AttachmentsIInv, AttachmentTypes
    <3> QED BY <3>1, <3>2
  <2>2. CASE SweepRow(s)
    <3>1. /\ \/ attachment' = attachment
             \/ attachment' = [c \in Completes |->
                                 IF c \in {d \in sweeping.atts : s \in attachment[d].of}
                                 THEN NoAttachment ELSE attachment[c]]
          /\ session' = session \/ session' = [session EXCEPT ![s] = "gone"]
          /\ UNCHANGED <<object, lapsed, aged, completing, sending, doomed>>
      BY <2>2 DEF SweepRow
    <3>2. /\ \A c \in Completes : attachment'[c] = attachment[c] \/ attachment'[c] = NoAttachment
          /\ \A t \in Uploads : session'[t] = session[t] \/ session'[t] = "gone"
      BY <3>1 DEF AttachmentsIInv, AttachmentTypes
    <3> QED BY <3>1, <3>2
  <2> QED BY <2>1, <2>2
<1>3. /\ Rows' \subseteq Rows /\ \A c \in Rows' : attachment'[c] = attachment[c]
      /\ \A c \in Completes : attachment'[c].of \subseteq attachment[c].of
  BY <1>2 DEF Rows, NoAttachment
<1>4. AttachmentTypes'
  <2>1. attachment' \in [Completes -> AttachmentRows]
    BY RowShape DEF SweepObject, SweepRow, AttachmentsIInv, AttachmentTypes
  <2>2. session' \in [Uploads -> {"none", "open", "completed", "gone"}]
    BY DEF SweepObject, SweepRow, AttachmentsIInv, AttachmentTypes
  <2>3. object' \in [Uploads -> {"none", "good", "bad"}]
    BY DEF SweepObject, SweepRow, AttachmentsIInv, AttachmentTypes
  <2> QED BY <1>1, <1>2, <2>1, <2>2, <2>3 DEF AttachmentsIInv, AttachmentTypes
<1>5. RowsAreDone' /\ OneAttachmentPerUpload'
  BY <1>1, <1>2, <1>3 DEF AttachmentsIInv, RowsAreDone, OneAttachmentPerUpload
<1>6. \A c \in Completes : attachment[c].of \subseteq Uploads
  BY RowShape DEF AttachmentsIInv, AttachmentTypes
<1>7. RowsAreClosed' /\ KeptUnlessAbandoned'
  BY <1>0, <1>2, <1>3, <1>6 DEF AttachmentsIInv, RowsAreClosed, KeptUnlessAbandoned, Rows
<1>8. CloseIsChecked'
  <2>1. \A c \in Completes : completing[c].s \subseteq Uploads
    BY DEF AttachmentsIInv, AttachmentTypes, CompleteCalls, OneOf
  <2> QED BY <1>0, <1>2, <2>1 DEF AttachmentsIInv, CloseIsChecked
<1>9. DoomedForGood'
  BY <1>1, <1>2, <1>3 DEF AttachmentsIInv, AttachmentTypes, DoomedForGood
<1> QED BY <1>2, <1>4, <1>5, <1>7, <1>8, <1>9 DEF AttachmentsKeep, AttachmentsIInv, Rows

\* Every step keeps the invariant and every link that is there.
LEMMA AttachmentsStep ==
  ASSUME AttachmentsIInv, [AttachmentsNext]_attachmentVars
  PROVE  AttachmentsKeep
BY SessionSteps, UploadStep, CompleteStep, CheckStep, CloseStep, LinkStep, SelectSteps,
   SweepSteps DEF AttachmentsNext

\* However many calls of complete name an upload at once it becomes one
\* attachment, and whatever of them, of sends and sweeps overlap, an attachment
\* loses its object only to a sweep that was right to select it
\* (attachment-upload.service.ts complete, attachment-gc.service.ts sweep).
THEOREM AttachmentsHold == AttachmentsSpec => []AttachmentsTypeOK /\ []AttachmentsSound
<1>1. AttachmentsInit => AttachmentsIInv
  BY AttachmentsInitHolds
<1>2. AttachmentsIInv /\ [AttachmentsNext]_attachmentVars => AttachmentsIInv'
  BY AttachmentsStep DEF AttachmentsKeep
<1>3. AttachmentsIInv => AttachmentsTypeOK /\ AttachmentsSound
  BY DEF AttachmentsIInv, AttachmentsSound, AttachmentTypes, AttachmentsTypeOK, AttachmentRows,
         CompleteCalls, OneOf
<1> QED BY <1>1, <1>2, <1>3, PTL DEF AttachmentsSpec

\* An attachment that is linked stays with its message until its row goes,
\* whatever sends name it too (messages.service.ts send, updateMany).
THEOREM LinksAreForGood == AttachmentsSpec => LinkedForGood
<1>1. AttachmentsInit => AttachmentsIInv
  BY AttachmentsInitHolds
<1>2. AttachmentsIInv /\ [AttachmentsNext]_attachmentVars
        => /\ AttachmentsIInv'
           /\ [\A c \in Rows \ Unlinked :
                 attachment'[c] \in {attachment[c], NoAttachment}]_attachmentVars
  BY AttachmentsStep DEF AttachmentsKeep
<1> QED BY <1>1, <1>2, PTL DEF AttachmentsSpec, LinkedForGood

-----------------------------------------------------------------------------
(* Reminders. *)

JobRows == [state : {"none", "delayed", "active", "kept"}, tries : 0..MaxJobTries]
RunRows == [at : {"idle", "read", "mark", "emit", "finish"}, kind : JobKinds]
RequestRows == [at : {"idle", "remove", "add", "clear", "drop", "write", "done"},
                kind : JobKinds]

RemindersTypes ==
  /\ saved.tab \in {"none", "open", "completed"} /\ saved.set \in Nat
  /\ saved.fired \in BOOLEAN
  /\ saved = [tab |-> saved.tab, set |-> saved.set, fired |-> saved.fired]
  /\ remind \in {"none", "pending", "sent", "cancelled"}
  /\ jobs \in [JobKinds -> JobRows]
  /\ runs \in [Workers -> RunRows]
  /\ requests \in [ReminderCalls -> RequestRows]

\* The notes of what went wrong are a record of a note per kind.
AstrayShape ==
  /\ astray = [missed |-> astray.missed, faults |-> astray.faults, stalls |-> astray.stalls]
  /\ DOMAIN astray.missed = JobKinds

\* A job that a worker has is active, and one that will be tried again may be.
JobsAreKept ==
  /\ \A w \in Workers : runs[w].at # "idle" => jobs[runs[w].kind].state = "active"
  /\ \A k \in JobKinds : /\ jobs[k].state = "none" => jobs[k].tries = 0
                         /\ jobs[k].state \in {"delayed", "active"} => jobs[k].tries < MaxJobTries

\* What is not stored yet is not asked for; what is not saved has no reminder.
NothingBefore ==
  /\ remind = "none" => /\ jobs["remind"].state = "none"
                        /\ \A c \in ReminderCalls : requests[c].kind = "saved"
  /\ saved.tab = "none" => saved.set = 0

WaitingFor(k) == IF k = "saved" THEN saved.set > 0 /\ ~saved.fired ELSE remind = "pending"
Asking(k, steps) == \E c \in ReminderCalls : requests[c].at \in steps /\ requests[c].kind = k

\* A reminder that waits, and nothing went wrong about it, has a job that will
\* fire it, or a request that is about to store one: nobody removes a job but on
\* the way to store it again, and no worker has ended one.
JobAhead ==
  \A k \in JobKinds : ~astray.missed[k] /\ WaitingFor(k) =>
    /\ jobs[k].state = "none" => Asking(k, {"remove", "add"})
    /\ jobs[k].state = "kept" => Asking(k, {"remove"})
    /\ \A w \in Workers :
         runs[w].kind = k /\ runs[w].at \in {"emit", "finish"} => Asking(k, {"remove"})

Emits(w) == runs[w].at = "emit" /\ runs[w].kind = "remind"

\* Whoever emits a /remind has marked it, and nobody else will.
MarkedToEmit ==
  /\ emitted \in {0, 1}
  /\ \A w \in Workers : Emits(w) => emitted = 0 /\ \A v \in Workers : Emits(v) => v = w
  /\ remind \in {"none", "pending"} =>
       /\ emitted = 0
       /\ \A w \in Workers : runs[w].kind = "remind" => runs[w].at \notin {"emit", "finish"}

RemindersIInv ==
  /\ RemindersTypes /\ AstrayShape /\ JobsAreKept /\ NothingBefore /\ JobAhead /\ MarkedToEmit

\* No reminder is set and no job waits at first.
LEMMA RemindersInitHolds == RemindersInit => RemindersIInv
<1> SUFFICES ASSUME RemindersInit PROVE RemindersIInv
  OBVIOUS
<1> USE RemindersAssumption DEF RemindersAssumption, RemindersInit, NoJob, NoRun, JobKinds
<1>1. RemindersTypes
  <2>1. saved.fired \in BOOLEAN
    <3>1. saved.fired = FALSE
      OBVIOUS
    <3> QED BY ONLY <3>1, Zenon
  <2>2. jobs \in [JobKinds -> JobRows] /\ runs \in [Workers -> RunRows]
        /\ requests \in [ReminderCalls -> RequestRows]
    BY DEF JobRows, RunRows, RequestRows
  <2> QED BY <2>1, <2>2 DEF RemindersTypes
<1>2. AstrayShape
  BY DEF AstrayShape
<1>3. JobsAreKept /\ NothingBefore /\ JobAhead /\ MarkedToEmit
  BY DEF JobsAreKept, NothingBefore, JobAhead, MarkedToEmit, WaitingFor, Emits
<1> QED BY <1>1, <1>2, <1>3 DEF RemindersIInv

-----------------------------------------------------------------------------
\* A request goes on, or begins.
LEMMA RequestMoves ==
  ASSUME RemindersTypes, NEW c \in ReminderCalls,
         NEW at \in {"idle", "remove", "add", "clear", "drop", "write", "done"}
  PROVE  /\ RequestGoes(c, at) =>
              /\ requests' \in [ReminderCalls -> RequestRows]
              /\ \A d \in ReminderCalls : d # c => requests'[d] = requests[d]
              /\ requests'[c].at = at /\ requests'[c].kind = requests[c].kind
         /\ \A k \in JobKinds : RequestBegins(c, k, at) =>
              /\ requests' \in [ReminderCalls -> RequestRows]
              /\ \A d \in ReminderCalls : d # c => requests'[d] = requests[d]
              /\ requests'[c].at = at /\ requests'[c].kind = k
<1>1. requests[c] \in RequestRows /\ requests \in [ReminderCalls -> RequestRows]
  BY DEF RemindersTypes
<1>2. ASSUME RequestGoes(c, at)
      PROVE  /\ requests' \in [ReminderCalls -> RequestRows]
             /\ \A d \in ReminderCalls : d # c => requests'[d] = requests[d]
             /\ requests'[c].at = at /\ requests'[c].kind = requests[c].kind
  BY <1>1, <1>2 DEF RequestGoes, RequestRows
<1>3. ASSUME NEW k \in JobKinds, RequestBegins(c, k, at)
      PROVE  /\ requests' \in [ReminderCalls -> RequestRows]
             /\ \A d \in ReminderCalls : d # c => requests'[d] = requests[d]
             /\ requests'[c].at = at /\ requests'[c].kind = k
  BY <1>1, <1>3 DEF RequestBegins, RequestRows
<1> QED BY <1>2, <1>3

\* A job is removed, unless it is active.
LEMMA RemovedJob ==
  ASSUME RemindersTypes, NEW k \in JobKinds, jobs' = JobRemoved(k)
  PROVE  /\ jobs' \in [JobKinds -> JobRows]
         /\ \A j \in JobKinds : j # k => jobs'[j] = jobs[j]
         /\ jobs[k].state = "active" => jobs'[k] = jobs[k]
         /\ jobs[k].state # "active" => jobs'[k].state = "none" /\ jobs'[k].tries = 0
BY RemindersAssumption DEF RemindersAssumption, RemindersTypes, JobRemoved, NoJob, JobRows

\* It is stored, unless one of its id is.
LEMMA AddedJob ==
  ASSUME RemindersTypes, NEW k \in JobKinds, jobs' = Add(k)
  PROVE  /\ jobs' \in [JobKinds -> JobRows]
         /\ \A j \in JobKinds : j # k => jobs'[j] = jobs[j]
         /\ jobs[k].state # "none" => jobs'[k] = jobs[k]
         /\ jobs[k].state = "none" => jobs'[k].state = "delayed" /\ jobs'[k].tries = jobs[k].tries
<1>1. jobs[k] \in JobRows /\ jobs \in [JobKinds -> JobRows]
  BY DEF RemindersTypes
<1> QED BY <1>1 DEF Add, JobRows

\* What went wrong about one kind is no matter of the other.
LEMMA AstrayMoves ==
  ASSUME AstrayShape, NEW k \in JobKinds
  PROVE  /\ JobFault(k) => AstrayShape' /\ astray'.missed[k]
                       /\ \A j \in JobKinds : j # k => astray'.missed[j] = astray.missed[j]
         /\ \A lost : Miss(k, lost) =>
              /\ AstrayShape' /\ (lost => astray'.missed[k])
              /\ (~astray'.missed[k] => ~astray.missed[k])
              /\ \A j \in JobKinds : j # k => astray'.missed[j] = astray.missed[j]
<1>1. ASSUME JobFault(k)
      PROVE  /\ AstrayShape' /\ astray'.missed[k]
             /\ \A j \in JobKinds : j # k => astray'.missed[j] = astray.missed[j]
  BY <1>1 DEF AstrayShape, JobFault
<1>2. ASSUME NEW lost, Miss(k, lost)
      PROVE  /\ AstrayShape' /\ (lost => astray'.missed[k])
             /\ (~astray'.missed[k] => ~astray.missed[k])
             /\ \A j \in JobKinds : j # k => astray'.missed[j] = astray.missed[j]
  BY <1>2 DEF AstrayShape, Miss
<1> QED BY <1>1, <1>2

-----------------------------------------------------------------------------
\* A step of a request that leaves the rows alone, and moves the job of its kind
\* with a note when that might lose it.
LEMMA RequestSteps ==
  ASSUME RemindersIInv, NEW c \in ReminderCalls,
         ScheduleRemove(c) \/ ScheduleAdd(c) \/ CancelDrop(c) \/ RequestDies(c)
  PROVE  RemindersIInv'
<1> DEFINE k == requests[c].kind
<1>1. UNCHANGED <<saved, remind, runs, emitted>>
  BY DEF ScheduleRemove, ScheduleAdd, CancelDrop, RequestDies
<1>2. RemindersTypes /\ AstrayShape /\ k \in JobKinds /\ JobKinds = {"saved", "remind"}
      /\ requests \in [ReminderCalls -> RequestRows] /\ jobs \in [JobKinds -> JobRows]
  BY DEF RemindersIInv, RemindersTypes, RequestRows, JobKinds
<1>3. /\ requests' \in [ReminderCalls -> RequestRows]
      /\ \A d \in ReminderCalls : d # c => requests'[d] = requests[d]
      /\ requests'[c].kind = k
      /\ ScheduleRemove(c) => requests'[c].at = "add"
  BY <1>2, RequestMoves DEF ScheduleRemove, ScheduleAdd, CancelDrop, RequestDies
<1>4. /\ jobs' \in [JobKinds -> JobRows]
      /\ \A j \in JobKinds : j # k => jobs'[j] = jobs[j]
      /\ \/ jobs'[k] = jobs[k]
         \/ jobs[k].state # "active" /\ jobs'[k].state = "none" /\ jobs'[k].tries = 0
         \/ jobs[k].state = "none" /\ jobs'[k].state = "delayed" /\ jobs'[k].tries = jobs[k].tries
  <2>1. jobs' \in {jobs, JobRemoved(k), Add(k)}
    BY DEF ScheduleRemove, ScheduleAdd, CancelDrop, RequestDies
  <2>2. CASE jobs' = jobs
    BY <1>2, <2>2
  <2>3. CASE jobs' = JobRemoved(k)
    BY <1>2, <2>3, RemovedJob
  <2>4. CASE jobs' = Add(k)
    BY <1>2, <2>4, AddedJob
  <2> QED BY <2>1, <2>2, <2>3, <2>4
<1>5. /\ AstrayShape'
      /\ \A j \in JobKinds : j # k => astray'.missed[j] = astray.missed[j]
      /\ \/ astray'.missed[k]
         \/ /\ ScheduleRemove(c) /\ jobs' = JobRemoved(k) /\ ~astray.missed[k]
            /\ k = "saved" => jobs[k].state # "active"
         \/ /\ ScheduleAdd(c) /\ jobs' = Add(k)
            /\ jobs[k].state = "none" \/ ~astray.missed[k]
  <2>1. CASE ScheduleRemove(c)
    BY <1>2, <2>1, AstrayMoves DEF ScheduleRemove
  <2>2. CASE ScheduleAdd(c)
    <3>1. CASE JobFault(k)
      BY <1>2, <3>1, AstrayMoves
    <3>2. CASE /\ jobs' = Add(k)
               /\ astray' = [astray EXCEPT !.missed[k] =
                               @ /\ ~(k = "remind" /\ jobs[k].state = "none")]
      BY <1>2, <2>2, <3>2 DEF AstrayShape
    <3> QED BY <2>2, <3>1, <3>2 DEF ScheduleAdd
  <2>3. CASE CancelDrop(c)
    <3>1. JobFault(k) \/ Miss(k, TRUE)
      BY <2>3 DEF CancelDrop
    <3> QED BY <1>2, <3>1, AstrayMoves
  <2>4. CASE RequestDies(c)
    BY <1>2, <2>4, AstrayMoves DEF RequestDies
  <2> QED BY <2>1, <2>2, <2>3, <2>4
<1> HIDE DEF k
<1>6. RemindersTypes'
  BY <1>1, <1>2, <1>3, <1>4 DEF RemindersTypes
<1>7. JobsAreKept'
  BY <1>1, <1>2, <1>4, RemindersAssumption
     DEF RemindersAssumption, RemindersIInv, RemindersTypes, JobsAreKept, RunRows
<1>8. NothingBefore'
  <2>1. remind = "none" => k = "saved"
    BY <1>3 DEF RemindersIInv, NothingBefore, k
  <2> QED BY <1>1, <1>2, <1>3, <1>4, <2>1 DEF RemindersIInv, NothingBefore
<1>9. JobAhead'
  <2> SUFFICES ASSUME NEW j \in JobKinds, ~astray'.missed[j], WaitingFor(j)'
               PROVE  /\ jobs'[j].state = "none" => Asking(j, {"remove", "add"})'
                      /\ jobs'[j].state = "kept" => Asking(j, {"remove"})'
                      /\ \A w \in Workers : runs'[w].kind = j /\ runs'[w].at \in {"emit", "finish"}
                           => Asking(j, {"remove"})'
    BY DEF JobAhead
  <2>1. WaitingFor(j)
    BY <1>1 DEF WaitingFor
  <2>2. CASE j # k
    <3>1. \A steps : Asking(j, steps) => Asking(j, steps)'
      BY <1>3, <2>2 DEF Asking, k
    <3> QED BY <1>1, <1>4, <1>5, <2>1, <2>2, <3>1 DEF RemindersIInv, JobAhead
  <2>3. CASE j = k /\ ScheduleRemove(c)
    <3>1. Asking(j, {"remove", "add"})'
      BY <1>3, <2>3 DEF Asking
    <3>2. jobs' = JobRemoved(k) /\ (k = "saved" => jobs[k].state # "active")
      <4>1. ~ScheduleAdd(c)
        BY <2>3 DEF ScheduleRemove, ScheduleAdd
      <4> QED BY <1>5, <2>3, <4>1
    <3>3. jobs'[k].state # "kept"
      BY <1>2, <3>2, RemovedJob
    <3>4. ASSUME NEW w \in Workers, runs[w].kind = j, runs[w].at \in {"emit", "finish"}
          PROVE  FALSE
      <4>1. jobs[k].state = "active" /\ k = "remind"
        BY <1>2, <2>3, <3>2, <3>4 DEF RemindersIInv, JobsAreKept
      <4> QED BY <2>1, <2>3, <3>4, <4>1 DEF RemindersIInv, MarkedToEmit, WaitingFor
    <3> QED BY <1>1, <2>3, <3>1, <3>3, <3>4
  <2>4. CASE j = k /\ ScheduleAdd(c)
    <3>1. jobs' = Add(k) /\ (jobs[k].state = "none" \/ ~astray.missed[k])
      <4>1. ~ScheduleRemove(c)
        BY <2>4 DEF ScheduleRemove, ScheduleAdd
      <4> QED BY <1>5, <2>4, <4>1
    <3>2. Asking(j, {"remove"}) => Asking(j, {"remove"})'
      BY <1>3, <2>4 DEF Asking, ScheduleAdd
    <3>3. CASE jobs[k].state = "none"
      <4>1. jobs'[k].state = "delayed"
        BY <1>2, <3>1, <3>3, AddedJob
      <4>2. \A w \in Workers : runs[w].kind = k => runs[w].at = "idle"
        BY <3>3 DEF RemindersIInv, JobsAreKept
      <4> QED BY <1>1, <2>4, <4>1, <4>2
    <3>4. CASE jobs[k].state # "none"
      <4>1. jobs'[k] = jobs[k]
        BY <1>2, <3>1, <3>4, AddedJob
      <4> QED BY <1>1, <2>1, <2>4, <3>1, <3>2, <3>4, <4>1 DEF RemindersIInv, JobAhead
    <3> QED BY <3>3, <3>4
  <2> QED BY <1>5, <2>2, <2>3, <2>4
<1>10. MarkedToEmit'
  BY <1>1 DEF RemindersIInv, MarkedToEmit, Emits
<1> QED BY <1>5, <1>6, <1>7, <1>8, <1>9, <1>10 DEF RemindersIInv

-----------------------------------------------------------------------------
\* A request begins, or ends, with what it writes to the rows.
LEMMA RowSteps ==
  ASSUME RemindersIInv, NEW c \in ReminderCalls,
         \/ SetReminder(c) \/ Reopen(c) \/ Unsave(c) \/ PersistRemind(c) \/ RecoverPending(c)
         \/ CancelRemind(c) \/ WriteRow(c)
         \/ \E tab \in {saved.tab, "completed"} : ClearReminder(c, tab)
  PROVE  RemindersIInv'
<1> DEFINE Begun(k) == requests'[c].at = "remove" /\ requests'[c].kind = k
<1>1. UNCHANGED <<jobs, runs, emitted, astray>>
  BY DEF SetReminder, Reopen, Unsave, PersistRemind, RecoverPending, CancelRemind, WriteRow,
         ClearReminder
<1>2. RemindersTypes /\ JobKinds = {"saved", "remind"}
  BY DEF RemindersIInv, JobKinds
<1>3. /\ requests' \in [ReminderCalls -> RequestRows]
      /\ \A d \in ReminderCalls : d # c => requests'[d] = requests[d]
      /\ requests[c].at \in {"idle", "write"}
      /\ SetReminder(c) => Begun("saved")
      /\ PersistRemind(c) => Begun("remind") \/ UNCHANGED remind
      /\ SetReminder(c) \/ Reopen(c) \/ Unsave(c)
         \/ (\E tab \in {saved.tab, "completed"} : ClearReminder(c, tab))
           => requests'[c].kind = "saved"
      /\ WriteRow(c) => requests'[c].kind = requests[c].kind
  <2>1. CASE WriteRow(c)
    <3>1. RequestGoes(c, "done") /\ requests[c].at = "write"
      BY <2>1 DEF WriteRow
    <3>2. /\ requests' \in [ReminderCalls -> RequestRows]
          /\ \A d \in ReminderCalls : d # c => requests'[d] = requests[d]
          /\ requests'[c].kind = requests[c].kind
      BY <1>2, <3>1, RequestMoves
    <3>3. requests[c].at # "idle"
      BY <3>1
    <3>4. ~SetReminder(c) /\ ~Reopen(c) /\ ~Unsave(c) /\ ~PersistRemind(c)
          /\ ~\E tab \in {saved.tab, "completed"} : ClearReminder(c, tab)
      BY <3>3 DEF SetReminder, Reopen, Unsave, PersistRemind, ClearReminder, RequestBegins
    <3> QED BY <3>1, <3>2, <3>4
  <2>2. CASE SetReminder(c)
    <3>1. RequestBegins(c, "saved", "remove") /\ saved'.set = saved.set + 1
      BY <1>2, <2>2 DEF SetReminder, RemindersTypes
    <3>2. requests[c].at = "idle" /\ ~PersistRemind(c) /\ ~WriteRow(c)
      BY <3>1, <1>2, <2>2 DEF RequestBegins, PersistRemind, WriteRow, RemindersTypes
    <3> QED BY <1>2, <3>1, <3>2, RequestMoves
  <2>3. CASE PersistRemind(c)
    <3>1. \/ RequestBegins(c, "remind", "remove")
          \/ RequestBegins(c, "remind", "done") /\ UNCHANGED remind
      BY <2>3 DEF PersistRemind
    <3>2. requests[c].at = "idle" /\ requests'[c].kind = "remind"
          /\ requests' \in [ReminderCalls -> RequestRows]
          /\ (\A d \in ReminderCalls : d # c => requests'[d] = requests[d])
          /\ (Begun("remind") \/ UNCHANGED remind)
      BY <1>2, <3>1, RequestMoves DEF RequestBegins
    <3>3. /\ ~SetReminder(c) /\ ~Reopen(c) /\ ~Unsave(c) /\ ~WriteRow(c)
          /\ ~\E tab \in {saved.tab, "completed"} : ClearReminder(c, tab)
      <4>1. ASSUME NEW at \in {"remove", "done", "drop", "clear"}, RequestBegins(c, "saved", at)
            PROVE  FALSE
        BY <1>2, <3>2, <4>1, RequestMoves
      <4> QED BY <3>2, <4>1 DEF SetReminder, Reopen, Unsave, WriteRow, ClearReminder
    <3> QED BY <3>2, <3>3
  <2>4. CASE Reopen(c) \/ Unsave(c) \/ \E tab \in {saved.tab, "completed"} : ClearReminder(c, tab)
    <3>1. PICK at \in {"done", "drop", "clear"} : RequestBegins(c, "saved", at)
      BY <2>4 DEF Reopen, Unsave, ClearReminder
    <3>2. /\ requests[c].at = "idle" /\ requests'[c].kind = "saved" /\ requests'[c].at = at
          /\ requests' \in [ReminderCalls -> RequestRows]
          /\ \A d \in ReminderCalls : d # c => requests'[d] = requests[d]
      BY <1>2, <3>1, RequestMoves DEF RequestBegins
    <3>3. ~SetReminder(c) /\ ~PersistRemind(c) /\ ~WriteRow(c)
      BY <1>2, <3>2, RequestMoves DEF SetReminder, PersistRemind, WriteRow
    <3> QED BY <3>2, <3>3
  <2>5. CASE RecoverPending(c) \/ CancelRemind(c)
    <3>1. PICK at \in {"remove", "drop"} : RequestBegins(c, "remind", at)
      BY <2>5 DEF RecoverPending, CancelRemind
    <3>2. /\ requests[c].at = "idle" /\ requests'[c].kind = "remind"
          /\ requests' \in [ReminderCalls -> RequestRows] /\ UNCHANGED remind
          /\ \A d \in ReminderCalls : d # c => requests'[d] = requests[d]
      BY <1>2, <2>5, <3>1, RequestMoves DEF RequestBegins, RecoverPending, CancelRemind
    <3>3. /\ ~SetReminder(c) /\ ~Reopen(c) /\ ~Unsave(c) /\ ~WriteRow(c)
          /\ ~\E tab \in {saved.tab, "completed"} : ClearReminder(c, tab)
      <4>1. ASSUME NEW at2 \in {"remove", "done", "drop", "clear"}, RequestBegins(c, "saved", at2)
            PROVE  FALSE
        BY <1>2, <3>2, <4>1, RequestMoves
      <4> QED BY <3>2, <4>1 DEF SetReminder, Reopen, Unsave, WriteRow, ClearReminder
    <3> QED BY <3>2, <3>3
  <2> QED BY <2>1, <2>2, <2>3, <2>4, <2>5
<1>4. /\ saved'.tab \in {"none", "open", "completed"} /\ saved'.set \in Nat
      /\ saved'.fired \in BOOLEAN
      /\ saved' = [tab |-> saved'.tab, set |-> saved'.set, fired |-> saved'.fired]
      /\ saved'.tab = "none" => saved'.set = 0
      /\ saved'.set > 0 /\ ~saved'.fired => WaitingFor("saved") \/ Begun("saved")
  <2>1. CASE UNCHANGED saved
    BY <2>1 DEF RemindersIInv, RemindersTypes, NothingBefore, WaitingFor
  <2>2. CASE \/ saved' = [tab |-> "none", set |-> 0, fired |-> FALSE]
             \/ \E tab \in {saved.tab, "completed"} : saved' = [tab |-> tab, set |-> 0, fired |-> FALSE]
    <3>1. PICK tab \in {"none", saved.tab, "completed"} :
             saved' = [tab |-> tab, set |-> 0, fired |-> FALSE]
      BY <2>2
    <3>2. saved'.tab = tab /\ saved'.set = 0 /\ saved'.fired = FALSE
      BY ONLY <3>1, SMT
    <3>3. saved'.fired \in BOOLEAN
      BY ONLY <3>2, Zenon
    <3>4. saved' = [tab |-> saved'.tab, set |-> saved'.set, fired |-> saved'.fired]
      BY ONLY <3>1, <3>2, Zenon
    <3>5. tab \in {"none", "open", "completed"}
      BY <1>2 DEF RemindersTypes
    <3>6. saved'.set \in Nat /\ ~(saved'.set > 0)
      BY ONLY <3>2, SMT
    <3> QED BY ONLY <3>2, <3>3, <3>4, <3>5, <3>6, Zenon
  <2>3. CASE SetReminder(c)
    <3>1. /\ saved' = [tab |-> saved.tab, set |-> saved.set + 1, fired |-> FALSE]
          /\ saved.tab \in {"none", "open", "completed"} /\ saved.set \in Nat
          /\ saved.tab # "none" /\ Begun("saved")
      BY <1>2, <1>3, <2>3 DEF RemindersTypes, SetReminder
    <3>3. saved'.tab = saved.tab /\ saved'.set = saved.set + 1 /\ saved'.fired = FALSE
      BY ONLY <3>1, SMT
    <3>4. saved'.fired \in BOOLEAN
      BY ONLY <3>3, Zenon
    <3>5. saved' = [tab |-> saved'.tab, set |-> saved'.set, fired |-> saved'.fired]
      BY ONLY <3>1, <3>3, Zenon
    <3>6. saved'.set \in Nat /\ saved'.tab # "none" /\ saved'.tab \in {"none", "open", "completed"}
      BY ONLY <3>1, <3>3, SMT
    <3> QED BY <3>1, <3>4, <3>5, <3>6
  <2>4. CASE Reopen(c)
    BY <1>2, <2>4 DEF RemindersTypes, Reopen, WaitingFor
  <2> QED BY <2>1, <2>2, <2>3, <2>4
          DEF Unsave, PersistRemind, RecoverPending, CancelRemind, WriteRow, ClearReminder
<1>5. /\ remind' \in {"none", "pending", "sent", "cancelled"}
      /\ remind' \in {"none", "pending"} => remind \in {"none", "pending"}
      /\ remind' = "pending" => remind = "pending" \/ Begun("remind")
      /\ remind' = "none" => remind = "none"
      /\ remind' = "none" => requests'[c].kind = "saved"
  <2>1. CASE PersistRemind(c)
    BY <1>2, <1>3, <2>1 DEF PersistRemind, RemindersTypes
  <2>2. CASE RecoverPending(c) \/ CancelRemind(c)
    BY <1>2, <2>2 DEF RecoverPending, CancelRemind, RemindersTypes
  <2>3. CASE WriteRow(c)
    BY <1>3, <2>3 DEF WriteRow, RemindersIInv, RemindersTypes, NothingBefore
  <2>4. CASE SetReminder(c) \/ Reopen(c) \/ Unsave(c)
             \/ \E tab \in {saved.tab, "completed"} : ClearReminder(c, tab)
    <3>1. UNCHANGED remind
      BY <2>4 DEF SetReminder, Reopen, Unsave, ClearReminder
    <3> QED BY <1>2, <1>3, <2>4, <3>1 DEF RemindersTypes
  <2> QED BY <2>1, <2>2, <2>3, <2>4
<1>6. RemindersTypes'
  BY <1>1, <1>2, <1>3, <1>4, <1>5 DEF RemindersTypes
<1>7. AstrayShape' /\ JobsAreKept'
  BY <1>1 DEF RemindersIInv, AstrayShape, JobsAreKept
<1>8. NothingBefore'
  BY <1>1, <1>3, <1>4, <1>5 DEF RemindersIInv, NothingBefore
<1>9. JobAhead'
  <2>1. ASSUME NEW k \in JobKinds, WaitingFor(k)' PROVE WaitingFor(k) \/ Begun(k)
    BY <1>2, <1>4, <1>5, <2>1 DEF WaitingFor
  <2>2. ASSUME NEW k \in JobKinds, NEW steps \in {{"remove"}, {"remove", "add"}},
               Asking(k, steps) \/ Begun(k)
        PROVE  Asking(k, steps)'
    <3>1. CASE Begun(k)
      <4>1. requests'[c].at \in steps /\ requests'[c].kind = k
        BY <3>1
      <4> QED BY <4>1 DEF Asking
    <3>2. CASE Asking(k, steps)
      <4>1. PICK d \in ReminderCalls : requests[d].at \in steps /\ requests[d].kind = k
        BY <3>2 DEF Asking
      <4>2. d # c
        BY <1>3, <4>1
      <4> QED BY <1>3, <4>1, <4>2 DEF Asking
    <3> QED BY <2>2, <3>1, <3>2
  <2> HIDE DEF Begun
  <2> QED BY <1>1, <2>1, <2>2 DEF RemindersIInv, JobAhead
<1>10. MarkedToEmit'
  BY <1>1, <1>5 DEF RemindersIInv, MarkedToEmit, Emits
<1> QED BY <1>6, <1>7, <1>8, <1>9, <1>10 DEF RemindersIInv

-----------------------------------------------------------------------------
\* A worker's step moves its own run only.
LEMMA RunMoves ==
  ASSUME RemindersTypes, NEW w \in Workers, NEW at \in {"idle", "read", "mark", "emit", "finish"}
  PROVE  /\ Steps(w, at) =>
              /\ runs' \in [Workers -> RunRows]
              /\ \A v \in Workers : v # w => runs'[v] = runs[v]
              /\ runs'[w].at = at /\ runs'[w].kind = runs[w].kind
         /\ \A k \in JobKinds : runs' = [runs EXCEPT ![w] = [at |-> at, kind |-> k]] =>
              /\ runs' \in [Workers -> RunRows]
              /\ \A v \in Workers : v # w => runs'[v] = runs[v]
              /\ runs'[w].at = at /\ runs'[w].kind = k
<1>1. runs[w] \in RunRows /\ runs \in [Workers -> RunRows]
  BY DEF RemindersTypes
<1>2. ASSUME Steps(w, at)
      PROVE  /\ runs' \in [Workers -> RunRows]
             /\ \A v \in Workers : v # w => runs'[v] = runs[v]
             /\ runs'[w].at = at /\ runs'[w].kind = runs[w].kind
  BY <1>1, <1>2 DEF Steps, RunRows
<1>3. ASSUME NEW k \in JobKinds, runs' = [runs EXCEPT ![w] = [at |-> at, kind |-> k]]
      PROVE  /\ runs' \in [Workers -> RunRows]
             /\ \A v \in Workers : v # w => runs'[v] = runs[v]
             /\ runs'[w].at = at /\ runs'[w].kind = k
  BY <1>1, <1>3 DEF RunRows
<1> QED BY <1>2, <1>3

\* A worker takes a job, one that is due or one that another worker has.
LEMMA TakeSteps ==
  ASSUME RemindersIInv, NEW w \in Workers, Take(w) \/ TakeStalled(w)
  PROVE  RemindersIInv'
<1>1. UNCHANGED <<saved, remind, requests, emitted>>
  BY DEF Take, TakeStalled
<1>2. RemindersTypes /\ AstrayShape /\ JobsAreKept
  BY DEF RemindersIInv
<1>3. AstrayShape' /\ \A k \in JobKinds : astray'.missed[k] = astray.missed[k]
  BY <1>2 DEF Take, TakeStalled, AstrayShape
<1>4. PICK k \in JobKinds :
        /\ runs' = [runs EXCEPT ![w] = [at |-> "read", kind |-> k]]
        /\ jobs[k].state \in {"delayed", "active"}
        /\ jobs' = [jobs EXCEPT ![k].state = "active"] \/ (jobs' = jobs /\ jobs[k].state = "active")
  BY DEF Take, TakeStalled
<1>5. /\ jobs' \in [JobKinds -> JobRows]
      /\ \A j \in JobKinds : j # k => jobs'[j] = jobs[j]
      /\ jobs'[k].state = "active" /\ jobs'[k].tries = jobs[k].tries
  <2>1. jobs \in [JobKinds -> JobRows] /\ jobs[k] \in JobRows
    BY <1>2 DEF RemindersTypes
  <2> QED BY <1>4, <2>1 DEF JobRows
<1>6. /\ runs' \in [Workers -> RunRows]
      /\ \A v \in Workers : v # w => runs'[v] = runs[v]
      /\ runs'[w].at = "read" /\ runs'[w].kind = k
  BY <1>2, <1>4, RunMoves
<1>7. RemindersTypes'
  BY <1>1, <1>2, <1>5, <1>6 DEF RemindersTypes
<1>8. JobsAreKept'
  <2>1. jobs[k].tries < MaxJobTries
    BY <1>2, <1>4 DEF JobsAreKept
  <2>2. \A v \in Workers : runs'[v].at # "idle" => jobs'[runs'[v].kind].state = "active"
    <3> SUFFICES ASSUME NEW v \in Workers, runs'[v].at # "idle"
                 PROVE  jobs'[runs'[v].kind].state = "active"
      OBVIOUS
    <3>1. CASE v = w
      BY <1>5, <1>6, <3>1
    <3>2. CASE v # w
      <4>1. runs'[v] = runs[v] /\ jobs[runs[v].kind].state = "active" /\ runs[v].kind \in JobKinds
        BY <1>2, <1>6, <3>2 DEF JobsAreKept, RemindersTypes, RunRows
      <4> QED BY <1>5, <4>1
    <3> QED BY <3>1, <3>2
  <2>3. \A j \in JobKinds : /\ jobs'[j].state = "none" => jobs'[j].tries = 0
                            /\ jobs'[j].state \in {"delayed", "active"} => jobs'[j].tries < MaxJobTries
    BY <1>2, <1>5, <2>1 DEF JobsAreKept
  <2> QED BY <2>2, <2>3 DEF JobsAreKept
<1>9. NothingBefore'
  <2>1. remind = "none" => k # "remind" /\ "remind" \in JobKinds
    BY <1>4 DEF RemindersIInv, NothingBefore, JobKinds
  <2> QED BY <1>1, <1>5, <2>1 DEF RemindersIInv, NothingBefore
<1>10. JobAhead'
  <2>1. \A j \in JobKinds : /\ WaitingFor(j)' => WaitingFor(j)
                            /\ \A steps : Asking(j, steps) => Asking(j, steps)'
    BY <1>1 DEF WaitingFor, Asking
  <2>2. \A j \in JobKinds, v \in Workers :
          runs'[v].kind = j /\ runs'[v].at \in {"emit", "finish"} =>
            runs[v].kind = j /\ runs[v].at \in {"emit", "finish"}
    BY <1>6
  <2>3. \A j \in JobKinds : /\ jobs'[j].state = "none" => jobs[j].state = "none"
                            /\ jobs'[j].state = "kept" => jobs[j].state = "kept"
    BY <1>5
  <2> QED BY <1>3, <2>1, <2>2, <2>3 DEF RemindersIInv, JobAhead
<1>11. MarkedToEmit'
  BY <1>1, <1>6 DEF RemindersIInv, MarkedToEmit, Emits
<1> QED BY <1>3, <1>7, <1>8, <1>9, <1>10, <1>11 DEF RemindersIInv

\* It reads the row.
LEMMA ReadSteps ==
  ASSUME RemindersIInv, NEW w \in Workers, ReadRow(w)
  PROVE  RemindersIInv'
<1> DEFINE k == runs[w].kind
           goesOn == IF k = "remind" THEN remind = "pending"
                     ELSE saved.tab \notin {"none", "completed"} /\ ~saved.fired
<1>1. UNCHANGED <<saved, remind, jobs, requests, emitted>> /\ runs[w].at = "read"
  BY DEF ReadRow
<1>2. RemindersTypes /\ AstrayShape /\ JobsAreKept /\ k \in JobKinds
      /\ JobKinds = {"saved", "remind"}
  BY DEF RemindersIInv, RemindersTypes, RunRows, JobKinds
<1>3. Steps(w, IF goesOn THEN "mark" ELSE "finish") /\ Miss(k, k = "saved" /\ ~goesOn)
  BY DEF ReadRow
<1> HIDE DEF goesOn
<1>4. /\ runs' \in [Workers -> RunRows]
      /\ \A v \in Workers : v # w => runs'[v] = runs[v]
      /\ runs'[w].kind = k /\ runs'[w].at \in {"mark", "finish"}
      /\ goesOn => runs'[w].at = "mark"
      /\ ~goesOn => runs'[w].at = "finish"
  BY <1>2, <1>3, RunMoves
<1>5. /\ AstrayShape' /\ (k = "saved" /\ ~goesOn => astray'.missed[k])
      /\ (~astray'.missed[k] => ~astray.missed[k])
      /\ \A j \in JobKinds : j # k => astray'.missed[j] = astray.missed[j]
  BY <1>2, <1>3, AstrayMoves
<1>6. k = "remind" => (goesOn <=> remind = "pending") /\ remind # "none"
  BY <1>1, <1>2 DEF goesOn, RemindersIInv, JobsAreKept, NothingBefore
<1> HIDE DEF k
<1>7. RemindersTypes'
  BY <1>1, <1>2, <1>4 DEF RemindersTypes
<1>8. JobsAreKept'
  <2>1. jobs[k].state = "active"
    BY <1>1, <1>2 DEF JobsAreKept, k
  <2> QED BY <1>1, <1>2, <1>4, <2>1 DEF JobsAreKept
<1>9. NothingBefore'
  BY <1>1 DEF RemindersIInv, NothingBefore
<1>10. JobAhead'
  <2> SUFFICES ASSUME NEW j \in JobKinds, ~astray'.missed[j], WaitingFor(j)'
               PROVE  /\ jobs'[j].state = "none" => Asking(j, {"remove", "add"})'
                      /\ jobs'[j].state = "kept" => Asking(j, {"remove"})'
                      /\ \A v \in Workers : runs'[v].kind = j /\ runs'[v].at \in {"emit", "finish"}
                           => Asking(j, {"remove"})'
    BY DEF JobAhead
  <2>1. WaitingFor(j) /\ ~astray.missed[j] /\ \A steps : Asking(j, steps) => Asking(j, steps)'
    BY <1>1, <1>5 DEF WaitingFor, Asking
  <2>2. ASSUME NEW v \in Workers, runs'[v].kind = j, runs'[v].at \in {"emit", "finish"}
        PROVE  runs[v].kind = j /\ runs[v].at \in {"emit", "finish"}
    <3>1. CASE v # w
      BY <1>4, <2>2, <3>1
    <3>2. CASE v = w
      <4>1. j = k /\ ~goesOn
        BY <1>4, <2>2, <3>2
      <4>2. k = "remind"
        BY <1>2, <1>5, <4>1
      <4> QED BY <1>6, <2>1, <4>1, <4>2 DEF WaitingFor
    <3> QED BY <3>1, <3>2
  <2> QED BY <1>1, <2>1, <2>2 DEF RemindersIInv, JobAhead
<1>11. MarkedToEmit'
  BY <1>1, <1>4, <1>6 DEF RemindersIInv, MarkedToEmit, Emits
<1> QED BY <1>5, <1>7, <1>8, <1>9, <1>10, <1>11 DEF RemindersIInv

\* It marks the row.
LEMMA MarkSteps ==
  ASSUME RemindersIInv, NEW w \in Workers, MarkSaved(w) \/ MarkRemind(w)
  PROVE  RemindersIInv'
<1> DEFINE k == runs[w].kind
<1>1. UNCHANGED <<jobs, requests, emitted, astray>> /\ runs[w].at = "mark"
  BY DEF MarkSaved, MarkRemind
<1>2. RemindersTypes /\ AstrayShape /\ JobsAreKept /\ k \in JobKinds
      /\ JobKinds = {"saved", "remind"} /\ jobs[k].state = "active"
  BY <1>1 DEF RemindersIInv, RemindersTypes, RunRows, JobKinds, JobsAreKept
<1>3. PICK at \in {"emit", "finish"} : Steps(w, at)
  BY DEF MarkSaved, MarkRemind
<1>4. /\ runs' \in [Workers -> RunRows]
      /\ \A v \in Workers : v # w => runs'[v] = runs[v]
      /\ runs'[w].kind = k /\ runs'[w].at \in {"emit", "finish"}
  BY <1>2, <1>3, RunMoves
<1>5. /\ saved'.tab \in {"none", "open", "completed"} /\ saved'.set \in Nat
      /\ saved'.fired \in BOOLEAN
      /\ saved' = [tab |-> saved'.tab, set |-> saved'.set, fired |-> saved'.fired]
      /\ saved'.tab = saved.tab /\ saved'.set = saved.set
      /\ \A j \in JobKinds : j = k => ~WaitingFor(j)'
      /\ WaitingFor("saved")' => WaitingFor("saved")
      /\ remind' \in {"none", "pending", "sent", "cancelled"}
      /\ remind' = remind \/ (remind = "pending" /\ remind' = "sent")
      /\ k = "remind" => remind' \notin {"none", "pending"}
      /\ k = "remind" /\ runs'[w].at = "emit" => remind = "pending"
  <2>1. CASE MarkSaved(w)
    <3>1. saved' = [saved EXCEPT !.fired = saved.tab # "none"] /\ k = "saved" /\ UNCHANGED remind
      BY <2>1 DEF MarkSaved
    <3>2. saved = [tab |-> saved.tab, set |-> saved.set, fired |-> saved.fired]
      BY <1>2 DEF RemindersTypes
    <3>3. saved' = [tab |-> saved.tab, set |-> saved.set, fired |-> saved.tab # "none"]
      <4>1. ASSUME NEW t, NEW n, NEW f, NEW g
            PROVE  [[tab |-> t, set |-> n, fired |-> f] EXCEPT !.fired = g]
                     = [tab |-> t, set |-> n, fired |-> g]
        OBVIOUS
      <4> QED BY ONLY <3>1, <3>2, <4>1, Zenon
    <3>4. saved'.tab = saved.tab /\ saved'.set = saved.set
      BY ONLY <3>3, SMT
    <3>5. saved'.fired = (saved.tab # "none")
      BY ONLY <3>3, Zenon
    <3>6. saved'.fired \in BOOLEAN
      BY ONLY <3>5, Zenon
    <3>7. saved' = [tab |-> saved'.tab, set |-> saved'.set, fired |-> saved'.fired]
      BY ONLY <3>3, <3>4, <3>5, Zenon
    <3>8. ~(saved'.set > 0 /\ ~saved'.fired)
      <4>1. saved.tab = "none" => ~(saved.set > 0)
        BY DEF RemindersIInv, NothingBefore
      <4>2. saved.tab # "none" => saved'.fired
        BY ONLY <3>5, Zenon
      <4> QED BY <3>4, <4>1, <4>2
    <3>9. ~WaitingFor("saved")'
      BY ONLY <3>8, Zenon DEF WaitingFor
    <3> QED BY <1>2, <3>1, <3>4, <3>6, <3>7, <3>9 DEF RemindersTypes
  <2>2. CASE MarkRemind(w)
    <3>1. UNCHANGED saved /\ k = "remind"
      BY <2>2 DEF MarkRemind
    <3>2. remind # "none"
      BY <1>2, <3>1 DEF RemindersIInv, NothingBefore
    <3>3. /\ remind' \in {"sent", "cancelled"}
          /\ remind' = remind \/ (remind = "pending" /\ remind' = "sent")
          /\ runs'[w].at = "emit" => remind = "pending"
      <4>1. CASE remind = "pending"
        BY <2>2, <4>1 DEF MarkRemind
      <4>2. CASE remind # "pending"
        <5>1. Steps(w, "finish") /\ UNCHANGED remind
          BY <2>2, <4>2 DEF MarkRemind
        <5> QED BY <1>2, <3>2, <4>2, <5>1, RunMoves DEF RemindersTypes
      <4> QED BY <4>1, <4>2
    <3>4. WaitingFor("saved")' <=> WaitingFor("saved")
      BY <3>1 DEF WaitingFor
    <3>5. ~WaitingFor("remind")'
      BY <3>3 DEF WaitingFor
    <3> QED BY <1>2, <3>1, <3>3, <3>4, <3>5 DEF RemindersTypes
  <2> QED BY <2>1, <2>2
<1> HIDE DEF k
<1>6. RemindersTypes'
  BY <1>1, <1>2, <1>4, <1>5 DEF RemindersTypes
<1>7. AstrayShape'
  BY <1>1, <1>2 DEF AstrayShape
<1>8. JobsAreKept'
  BY <1>1, <1>2, <1>4 DEF JobsAreKept
<1>9. NothingBefore'
  BY <1>1, <1>5 DEF RemindersIInv, NothingBefore
<1>10. JobAhead'
  <2> SUFFICES ASSUME NEW j \in JobKinds, ~astray'.missed[j], WaitingFor(j)'
               PROVE  /\ jobs'[j].state = "none" => Asking(j, {"remove", "add"})'
                      /\ jobs'[j].state = "kept" => Asking(j, {"remove"})'
                      /\ \A v \in Workers : runs'[v].kind = j /\ runs'[v].at \in {"emit", "finish"}
                           => Asking(j, {"remove"})'
    BY DEF JobAhead
  <2>1. ~astray.missed[j] /\ \A steps : Asking(j, steps) => Asking(j, steps)'
    BY <1>1 DEF Asking
  <2>2. j # k
    BY <1>5
  <2>3. WaitingFor(j)
    <3>1. CASE j = "saved"
      BY <1>5, <3>1
    <3>2. CASE j = "remind"
      BY <1>5, <3>2 DEF WaitingFor
    <3> QED BY <1>2, <3>1, <3>2
  <2> QED BY <1>1, <1>4, <2>1, <2>2, <2>3 DEF RemindersIInv, JobAhead
<1>11. MarkedToEmit'
  <2>1. emitted' \in {0, 1}
    BY <1>1 DEF RemindersIInv, MarkedToEmit
  <2>2. ASSUME NEW v \in Workers, Emits(v)'
        PROVE  emitted' = 0 /\ \A u \in Workers : Emits(u)' => u = v
    <3>1. CASE k = "remind" /\ runs'[w].at = "emit"
      <4>1. emitted = 0 /\ \A u \in Workers : ~Emits(u)
        BY <1>5, <3>1 DEF RemindersIInv, MarkedToEmit, Emits
      <4>2. \A u \in Workers : Emits(u)' => u = w
        BY <1>4, <4>1 DEF Emits
      <4> QED BY <1>1, <2>2, <4>1, <4>2
    <3>2. CASE ~(k = "remind" /\ runs'[w].at = "emit")
      <4>1. \A u \in Workers : Emits(u)' => Emits(u)
        BY <1>4, <3>2 DEF Emits
      <4> QED BY <1>1, <2>2, <4>1 DEF RemindersIInv, MarkedToEmit
    <3> QED BY <3>1, <3>2
  <2>3. ASSUME remind' \in {"none", "pending"}
        PROVE  /\ emitted' = 0
               /\ \A v \in Workers : runs'[v].kind = "remind" => runs'[v].at \notin {"emit", "finish"}
    BY <1>1, <1>4, <1>5, <2>3 DEF RemindersIInv, MarkedToEmit
  <2> QED BY <2>1, <2>2, <2>3 DEF MarkedToEmit
<1> QED BY <1>6, <1>7, <1>8, <1>9, <1>10, <1>11 DEF RemindersIInv

\* It emits.
LEMMA EmitSteps ==
  ASSUME RemindersIInv, NEW w \in Workers, Emit(w)
  PROVE  RemindersIInv'
<1>1. UNCHANGED <<saved, remind, jobs, requests, astray>> /\ runs[w].at = "emit"
  BY DEF Emit
<1>2. RemindersTypes /\ AstrayShape /\ JobsAreKept
  BY DEF RemindersIInv
<1>3. /\ runs' \in [Workers -> RunRows]
      /\ \A v \in Workers : v # w => runs'[v] = runs[v]
      /\ runs'[w].at = "finish" /\ runs'[w].kind = runs[w].kind
  BY <1>2, RunMoves DEF Emit
<1>4. RemindersTypes' /\ AstrayShape'
  BY <1>1, <1>2, <1>3 DEF RemindersTypes, AstrayShape
<1>5. JobsAreKept' /\ NothingBefore'
  BY <1>1, <1>2, <1>3 DEF RemindersIInv, JobsAreKept, NothingBefore
<1>6. JobAhead'
  <2>1. \A j \in JobKinds : /\ WaitingFor(j)' => WaitingFor(j)
                            /\ \A steps : Asking(j, steps) => Asking(j, steps)'
    BY <1>1 DEF WaitingFor, Asking
  <2>2. \A j \in JobKinds, v \in Workers :
          runs'[v].kind = j /\ runs'[v].at \in {"emit", "finish"} =>
            runs[v].kind = j /\ runs[v].at \in {"emit", "finish"}
    BY <1>1, <1>3
  <2> QED BY <1>1, <2>1, <2>2 DEF RemindersIInv, JobAhead
<1>7. MarkedToEmit'
  <2>1. CASE runs[w].kind = "remind"
    <3>1. Emits(w) /\ emitted = 0 /\ emitted' = 1
      BY <1>1, <2>1 DEF Emits, Emit, RemindersIInv, MarkedToEmit
    <3>2. \A v \in Workers : ~Emits(v)'
      BY <1>3, <3>1 DEF Emits, RemindersIInv, MarkedToEmit
    <3>3. remind' \notin {"none", "pending"}
      BY <1>1, <2>1 DEF RemindersIInv, MarkedToEmit
    <3> QED BY <3>1, <3>2, <3>3 DEF MarkedToEmit
  <2>2. CASE runs[w].kind # "remind"
    BY <1>1, <1>3, <2>2 DEF RemindersIInv, MarkedToEmit, Emits, Emit
  <2> QED BY <2>1, <2>2
<1> QED BY <1>4, <1>5, <1>6, <1>7 DEF RemindersIInv

\* It ends its run, with the row dealt with or because the database failed.
LEMMA RunEnds ==
  ASSUME RemindersIInv, NEW w \in Workers, FinishRun(w) \/ RunFails(w)
  PROVE  RemindersIInv'
<1> DEFINE k == runs[w].kind
           mine == Alone(w) /\ jobs[k].state = "active"
<1>1. UNCHANGED <<saved, remind, requests, emitted>> /\ runs[w].at # "idle"
      /\ runs' = [runs EXCEPT ![w] = [at |-> "idle", kind |-> "saved"]]
  BY DEF FinishRun, RunFails, NoRun
<1>2. RemindersTypes /\ AstrayShape /\ JobsAreKept /\ k \in JobKinds
      /\ JobKinds = {"saved", "remind"} /\ jobs[k].state = "active" /\ jobs[k].tries < MaxJobTries
      /\ jobs[k] \in JobRows /\ jobs \in [JobKinds -> JobRows]
  BY <1>1 DEF RemindersIInv, RemindersTypes, RunRows, JobKinds, JobsAreKept
<1>3. /\ runs' \in [Workers -> RunRows]
      /\ \A v \in Workers : v # w => runs'[v] = runs[v]
      /\ runs'[w].at = "idle"
  BY <1>1, <1>2, RunMoves
<1>4. /\ AstrayShape' /\ jobs' \in [JobKinds -> JobRows]
      /\ \A j \in JobKinds : (j # k => jobs'[j] = jobs[j] /\ astray'.missed[j] = astray.missed[j])
                             /\ (~astray'.missed[j] => ~astray.missed[j])
      /\ (jobs'[k] = jobs[k] \/ Alone(w))
      /\ jobs'[k].state \in {"active", "delayed", "kept"}
      /\ jobs'[k].state \in {"active", "delayed"} => jobs'[k].tries < MaxJobTries
      /\ jobs'[k].state = "kept" => astray'.missed[k] \/ runs[w].at = "finish"
  <2>1. CASE FinishRun(w)
    BY <1>2, <2>1 DEF FinishRun, JobRows, AstrayShape
  <2>2. CASE RunFails(w)
    <3>1. AstrayShape'
          /\ \A j \in JobKinds : (j # k => astray'.missed[j] = astray.missed[j])
                                 /\ (~astray'.missed[j] => ~astray.missed[j])
      BY <1>2, <2>2 DEF RunFails, AstrayShape
    <3>2. CASE mine
      <4>1. jobs' = [jobs EXCEPT ![k] =
                       [state |-> IF jobs[k].tries + 1 < MaxJobTries THEN "delayed" ELSE "kept",
                        tries |-> jobs[k].tries + 1]]
        BY <2>2, <3>2 DEF RunFails
      <4>2. jobs[k].tries + 1 = MaxJobTries => astray'.missed[k]
        BY <1>2, <2>2, <3>2 DEF RunFails, AstrayShape
      <4>3. jobs[k].tries + 1 \in 0..MaxJobTries
            /\ (~(jobs[k].tries + 1 < MaxJobTries) => jobs[k].tries + 1 = MaxJobTries)
        BY <1>2, RemindersAssumption DEF JobRows, RemindersAssumption
      <4>4. CASE jobs[k].tries + 1 < MaxJobTries
        BY <1>2, <3>1, <3>2, <4>1, <4>3, <4>4 DEF JobRows
      <4>5. CASE ~(jobs[k].tries + 1 < MaxJobTries)
        BY <1>2, <3>1, <3>2, <4>1, <4>2, <4>3, <4>5 DEF JobRows
      <4> QED BY <4>4, <4>5
    <3>3. CASE ~mine
      <4>1. jobs' = jobs
        BY <2>2, <3>3 DEF RunFails
      <4> QED BY <1>2, <3>1, <4>1
    <3> QED BY <3>2, <3>3
  <2> QED BY <2>1, <2>2
<1> HIDE DEF mine
<1>5. RemindersTypes'
  BY <1>1, <1>2, <1>3, <1>4 DEF RemindersTypes
<1>6. JobsAreKept'
  <2>1. \A v \in Workers : runs'[v].at # "idle" => jobs'[runs'[v].kind].state = "active"
    <3> SUFFICES ASSUME NEW v \in Workers, runs'[v].at # "idle"
                 PROVE  jobs'[runs'[v].kind].state = "active"
      OBVIOUS
    <3>1. v # w /\ runs'[v] = runs[v] /\ runs[v].kind \in JobKinds
          /\ jobs[runs[v].kind].state = "active"
      BY <1>2, <1>3 DEF JobsAreKept, RemindersTypes, RunRows
    <3>2. CASE runs[v].kind = k
      <4>1. ~Alone(w)
        BY <1>3, <3>1, <3>2 DEF Alone
      <4> QED BY <1>4, <3>1, <3>2, <4>1
    <3>3. CASE runs[v].kind # k
      BY <1>4, <3>1, <3>3
    <3> QED BY <3>2, <3>3
  <2>2. \A j \in JobKinds : /\ jobs'[j].state = "none" => jobs'[j].tries = 0
                            /\ jobs'[j].state \in {"delayed", "active"} => jobs'[j].tries < MaxJobTries
    BY <1>2, <1>4 DEF JobsAreKept
  <2> QED BY <2>1, <2>2 DEF JobsAreKept
<1>7. NothingBefore'
  <2>1. remind = "none" => k # "remind" /\ "remind" \in JobKinds
    BY <1>2 DEF RemindersIInv, NothingBefore
  <2> QED BY <1>1, <1>4, <2>1 DEF RemindersIInv, NothingBefore
<1>8. JobAhead'
  <2> SUFFICES ASSUME NEW j \in JobKinds, ~astray'.missed[j], WaitingFor(j)'
               PROVE  /\ jobs'[j].state = "none" => Asking(j, {"remove", "add"})'
                      /\ jobs'[j].state = "kept" => Asking(j, {"remove"})'
                      /\ \A v \in Workers : runs'[v].kind = j /\ runs'[v].at \in {"emit", "finish"}
                           => Asking(j, {"remove"})'
    BY DEF JobAhead
  <2>1. WaitingFor(j) /\ ~astray.missed[j] /\ \A steps : Asking(j, steps) => Asking(j, steps)'
    BY <1>1, <1>4 DEF WaitingFor, Asking
  <2>2. \A v \in Workers : runs'[v].kind = j /\ runs'[v].at \in {"emit", "finish"} =>
            runs[v].kind = j /\ runs[v].at \in {"emit", "finish"}
    BY <1>3
  <2>3. CASE j # k
    BY <1>4, <2>1, <2>2, <2>3 DEF RemindersIInv, JobAhead
  <2>4. CASE j = k
    <3>1. runs[w].at = "finish" => Asking(j, {"remove"})
      BY <1>2, <2>1, <2>4 DEF RemindersIInv, JobAhead
    <3>2. jobs'[j].state # "none" /\ (jobs'[j].state = "kept" => Asking(j, {"remove"})')
      BY <1>4, <2>1, <2>4, <3>1
    <3> QED BY <2>1, <2>2, <3>2 DEF RemindersIInv, JobAhead
  <2> QED BY <2>3, <2>4
<1>9. MarkedToEmit'
  BY <1>1, <1>3 DEF RemindersIInv, MarkedToEmit, Emits
<1> QED BY <1>4, <1>5, <1>6, <1>7, <1>8, <1>9 DEF RemindersIInv

\* Every step keeps the invariant.
LEMMA RemindersStepHolds == RemindersIInv /\ [RemindersNext]_remindersVars => RemindersIInv'
<1> SUFFICES ASSUME RemindersIInv, [RemindersNext]_remindersVars PROVE RemindersIInv'
  OBVIOUS
<1>1. CASE UNCHANGED remindersVars
  BY <1>1 DEF remindersVars, RemindersIInv, RemindersTypes, AstrayShape, JobsAreKept,
              NothingBefore, JobAhead, WaitingFor, Asking, MarkedToEmit, Emits
<1>2. ASSUME NEW c \in ReminderCalls,
             \/ SetReminder(c) \/ Reopen(c) \/ Unsave(c) \/ PersistRemind(c) \/ RecoverPending(c)
             \/ CancelRemind(c) \/ WriteRow(c)
             \/ \E tab \in {saved.tab, "completed"} : ClearReminder(c, tab)
      PROVE  RemindersIInv'
  BY <1>2, RowSteps
<1>3. ASSUME NEW c \in ReminderCalls,
             ScheduleRemove(c) \/ ScheduleAdd(c) \/ CancelDrop(c) \/ RequestDies(c)
      PROVE  RemindersIInv'
  BY <1>3, RequestSteps
<1>4. ASSUME NEW w \in Workers,
             \/ Take(w) \/ TakeStalled(w) \/ ReadRow(w) \/ MarkSaved(w) \/ MarkRemind(w)
             \/ Emit(w) \/ FinishRun(w) \/ RunFails(w)
      PROVE  RemindersIInv'
  BY <1>4, TakeSteps, ReadSteps, MarkSteps, EmitSteps, RunEnds
<1> QED BY <1>1, <1>2, <1>3, <1>4 DEF RemindersNext

\* A /remind is emitted once at most, and a reminder that waits has a job that
\* will fire it unless a call about it failed or raced, for any number of
\* requests, workers, tries and stalls (ReminderQueueService.schedule and cancel,
\* ReminderProcessor.process and processRemind, recoverPending).
THEOREM RemindersHold == RemindersSpec => []RemindersTypeOK /\ []RemindersSound
<1>1. RemindersIInv => RemindersTypeOK
  BY DEF RemindersIInv, RemindersTypes, RemindersTypeOK, JobRows, RunRows, RequestRows
<1>2. RemindersIInv => RemindersSound
  <2> SUFFICES ASSUME RemindersIInv PROVE RemindersSound
    OBVIOUS
  <2>1. RemindSentOnce
    BY DEF RemindSentOnce, RemindersIInv, MarkedToEmit
  <2>2. JobKinds = {"saved", "remind"} /\ jobs["saved"] \in JobRows /\ jobs["remind"] \in JobRows
    BY DEF JobKinds, RemindersIInv, RemindersTypes
  <2>3. \A k \in JobKinds : ~astray.missed[k] /\ WaitingFor(k) /\ ~Outstanding(k)
                              => jobs[k].state \notin {"none", "kept"}
    BY DEF RemindersIInv, JobAhead, Asking, Outstanding
  <2> QED BY <2>1, <2>2, <2>3 DEF RemindersSound, ReminderQueued, WaitingFor, JobRows
<1> QED BY <1>1, <1>2, RemindersInitHolds, RemindersStepHolds, PTL DEF RemindersSpec

-----------------------------------------------------------------------------
(* The worker thread of AutoMod. *)

ThreadStates == {"starting", "up", "ended", "gone"}
RunnerThread == [is : ThreadStates, queue : Seq(Jobs)]
CallStates == {"idle", "waiting", "posted", "done"}
RunnerCalls == [op : {"match", "validate"}, re : Expressions, at : CallStates,
                on : 0..MaxThreads, probe : 1..Probes, result : Results]

\* A call that waits or has posted has a thread that was started.
OnThread ==
  \A j \in Jobs : job[j].at \in {"waiting", "posted"} => job[j].on \in 1..Len(thread)

\* A match is posted once, to the thread it has found: an answer from another
\* thread cannot be about it.
PostedOnce ==
  \A w \in 1..Len(thread) : \A i \in 1..Len(thread[w].queue) :
    LET j == thread[w].queue[i] IN
    job[j].op = "match" => job[j].on = w /\ job[j].at \in {"posted", "done"}

RunnerTypes ==
  /\ thread \in Seq(RunnerThread) /\ Len(thread) <= MaxThreads
  /\ matchWorker \in 0..Len(thread) /\ resolveFailed \in BOOLEAN
  /\ pending \subseteq Jobs /\ failedOpen \subseteq Jobs /\ deaths \in 0..MaxDeaths
  /\ job \in [Jobs -> RunnerCalls]

RunnerIInv == RunnerTypes /\ OnThread /\ PostedOnce /\ VerdictsAreOwn /\ PendingIsPosted

\* No thread runs at first.
LEMMA RunnerInitHolds == RunnerInit => RunnerIInv
<1> SUFFICES ASSUME RunnerInit PROVE RunnerIInv
  OBVIOUS
<1> USE RunnerAssumption DEF RunnerAssumption
<1>1. RunnerTypes
  <2>1. thread \in Seq(RunnerThread) /\ Len(thread) = 1
    <3>1. [is |-> "starting", queue |-> <<>>] \in RunnerThread
      BY DEF RunnerThread, ThreadStates
    <3> QED BY <3>1 DEF RunnerInit
  <2>2. job \in [Jobs -> RunnerCalls]
    <3> DEFINE First == [op : {"match", "validate"}, re : Expressions, at : {"idle"},
                         on : {0}, probe : {1}, result : {"none"}]
    <3>1. First \subseteq RunnerCalls
      BY DEF RunnerCalls, CallStates, Results
    <3>2. job \in [Jobs -> First]
      BY DEF RunnerInit
    <3> HIDE DEF First
    <3> QED BY <3>1, <3>2
  <2>3. /\ Len(thread) <= MaxThreads /\ matchWorker \in 0..Len(thread)
        /\ resolveFailed \in BOOLEAN /\ pending \subseteq Jobs /\ failedOpen \subseteq Jobs
    <3>1. matchWorker = 1 /\ resolveFailed = FALSE /\ pending = {} /\ failedOpen = {}
      BY Zenon DEF RunnerInit
    <3>2. resolveFailed \in BOOLEAN
      BY ONLY <3>1, Zenon
    <3> QED BY <2>1, <3>1, <3>2
  <2>4. deaths \in 0..MaxDeaths
    <3>1. deaths = 0
      BY Zenon DEF RunnerInit
    <3> QED BY <3>1
  <2> QED BY <2>1, <2>2, <2>3, <2>4 DEF RunnerTypes
<1>2. OnThread /\ PostedOnce /\ VerdictsAreOwn /\ PendingIsPosted
  BY DEF RunnerInit, OnThread, PostedOnce, VerdictsAreOwn, PendingIsPosted
<1> QED BY <1>1, <1>2 DEF RunnerIInv

-----------------------------------------------------------------------------
\* A thread is started behind the others, or gets a message, or changes state.
LEMMA ThreadStarts ==
  ASSUME thread \in Seq(RunnerThread), NEW q \in Seq(Jobs)
  PROVE  LET t == Append(thread, [is |-> "starting", queue |-> q]) IN
         /\ t \in Seq(RunnerThread) /\ Len(t) = Len(thread) + 1
         /\ \A w \in 1..Len(thread) : t[w] = thread[w]
         /\ t[Len(thread) + 1] = [is |-> "starting", queue |-> q]
<1>1. [is |-> "starting", queue |-> q] \in RunnerThread
  BY DEF RunnerThread, ThreadStates
<1> QED BY <1>1

\* One thread is replaced in the list of threads, and the others stay.
LEMMA ThreadChanges ==
  ASSUME thread \in Seq(RunnerThread), NEW w \in 1..Len(thread), NEW state \in ThreadStates,
         NEW q \in Seq(Jobs), NEW t, t = [thread EXCEPT ![w] = [is |-> state, queue |-> q]]
  PROVE  /\ t \in Seq(RunnerThread) /\ Len(t) = Len(thread)
         /\ \A v \in 1..Len(thread) : v # w => t[v] = thread[v]
         /\ t[w] = [is |-> state, queue |-> q]
<1>1. [is |-> state, queue |-> q] \in RunnerThread
  BY DEF RunnerThread
<1> QED BY <1>1

\* A thread is its state and its queue; changing one of the two is replacing it.
LEMMA ThreadRecord ==
  ASSUME thread \in Seq(RunnerThread), NEW w \in 1..Len(thread)
  PROVE  /\ thread[w].is \in ThreadStates /\ thread[w].queue \in Seq(Jobs)
         /\ thread[w] = [is |-> thread[w].is, queue |-> thread[w].queue]
         /\ DOMAIN thread = 1..Len(thread) /\ Len(thread) \in Nat
         /\ \A state : [thread EXCEPT ![w].is = state]
                         = [thread EXCEPT ![w] = [is |-> state, queue |-> thread[w].queue]]
         /\ \A q : [thread EXCEPT ![w].queue = q]
                     = [thread EXCEPT ![w] = [is |-> thread[w].is, queue |-> q]]
<1>1. /\ DOMAIN thread = 1..Len(thread) /\ Len(thread) \in Nat
      /\ thread[w] \in RunnerThread
  OBVIOUS
<1>2. /\ thread[w].is \in ThreadStates /\ thread[w].queue \in Seq(Jobs)
      /\ thread[w] = [is |-> thread[w].is, queue |-> thread[w].queue]
  BY <1>1 DEF RunnerThread
<1>3. ASSUME NEW state
      PROVE  [thread EXCEPT ![w].is = state]
               = [thread EXCEPT ![w] = [is |-> state, queue |-> thread[w].queue]]
  <2>1. [thread[w] EXCEPT !.is = state] = [is |-> state, queue |-> thread[w].queue]
    BY <1>2
  <2> QED BY <2>1
<1>4. ASSUME NEW q
      PROVE  [thread EXCEPT ![w].queue = q]
               = [thread EXCEPT ![w] = [is |-> thread[w].is, queue |-> q]]
  <2>1. [thread[w] EXCEPT !.queue = q] = [is |-> thread[w].is, queue |-> q]
    BY <1>2
  <2> QED BY <2>1
<1> QED BY <1>1, <1>2, <1>3, <1>4

-----------------------------------------------------------------------------
\* A step that adds threads or messages, and leaves who waits to the call itself.

\* A job is sent to the thread that is there, or to a new one.
LEMMA BeginStep ==
  ASSUME RunnerIInv, NEW j \in Jobs, Begin(j)
  PROVE  RunnerIInv'
<1> USE RunnerAssumption DEF RunnerAssumption
<1>1. PICK w \in 0..MaxThreads : Begin(j)!2!(w)
  BY DEF Begin
<1>2. /\ thread \in Seq(RunnerThread) /\ Len(thread) \in Nat /\ Len(thread) <= MaxThreads
      /\ matchWorker \in 0..Len(thread) /\ job \in [Jobs -> RunnerCalls]
  BY DEF RunnerIInv, RunnerTypes
<1>3. /\ thread' \in Seq(RunnerThread) /\ Len(thread') <= MaxThreads
      /\ matchWorker' \in 0..Len(thread') 
      /\ w \in 0..Len(thread') /\ Len(thread') \in Nat /\ Len(thread) <= Len(thread')
      /\ \A v \in 1..Len(thread) : thread'[v] = thread[v]
      /\ \A v \in 1..Len(thread') : v \notin 1..Len(thread) =>
           thread'[v] = [is |-> "starting", queue |-> <<>>] /\ matchWorker' = v
      /\ matchWorker' # matchWorker => matchWorker' = Len(thread) + 1 /\ Len(thread') = Len(thread) + 1
  <2>0. EnsureMatchWorker(w)
    BY <1>1
  <2>1. CASE UNCHANGED <<thread, matchWorker>> /\ w = matchWorker
    BY <1>2, <2>1
  <2>2. CASE /\ Len(thread) < MaxThreads /\ w = Len(thread) + 1
             /\ thread' = Append(thread, [is |-> "starting", queue |-> <<>>])
             /\ matchWorker' = w /\ UNCHANGED resolveFailed
    <3>1. <<>> \in Seq(Jobs)
      OBVIOUS
    <3>2. /\ thread' \in Seq(RunnerThread) /\ Len(thread') = Len(thread) + 1
          /\ \A v \in 1..Len(thread) : thread'[v] = thread[v]
          /\ thread'[Len(thread) + 1] = [is |-> "starting", queue |-> <<>>]
      BY <1>2, <2>2, <3>1, ThreadStarts
    <3> QED BY <1>2, <2>2, <3>2
  <2> QED BY <2>0, <2>1, <2>2 DEF EnsureMatchWorker
<1>10. resolveFailed' \in BOOLEAN
  <2>1. resolveFailed' = resolveFailed \/ resolveFailed' = TRUE
    BY <1>1, Zenon DEF EnsureMatchWorker
  <2>2. resolveFailed \in BOOLEAN
    BY Zenon DEF RunnerIInv, RunnerTypes
  <2> QED BY ONLY <2>1, <2>2, Zenon
<1>4. /\ job' \in [Jobs -> RunnerCalls]
      /\ \A k \in Jobs : k # j => job'[k] = job[k]
      /\ job[j].at = "idle" /\ job'[j].op = job[j].op /\ job'[j].re = job[j].re
      /\ job'[j].at \in {"waiting", "done"}
      /\ job'[j].at = "waiting" => job'[j].on = w /\ w # 0 /\ job'[j].result = job[j].result
      /\ job'[j].result = "matched" => job[j].result = "matched"
      /\ job'[j].result = "passed" => job[j].result = "passed" \/ j \in failedOpen'
      /\ job'[j].result = "safe" => job[j].result = "safe" \/ job[j].re # "endless"
  <2>0. job[j] \in RunnerCalls
    BY <1>2
  <2>1. CASE w # 0
    <3> DEFINE q == [job[j] EXCEPT !.at = "waiting", !.on = w]
    <3>1. job' = [job EXCEPT ![j] = q]
      BY <1>1, <2>1
    <3>2. q \in RunnerCalls /\ q.op = job[j].op /\ q.re = job[j].re /\ q.at = "waiting"
          /\ q.on = w /\ q.result = job[j].result
      BY <2>0 DEF RunnerCalls, CallStates
    <3> HIDE DEF q
    <3> QED BY <1>2, <2>1, <3>1, <3>2 DEF Begin
  <2>2. CASE w = 0
    <3> DEFINE v == IF job[j].op = "match" THEN "passed"
                    ELSE IF job[j].re = "endless" THEN "unsafe" ELSE "safe"
               q == [job[j] EXCEPT !.at = "done", !.result = v]
    <3>1. job' = [job EXCEPT ![j] = q] /\ (v = "passed" => j \in failedOpen')
      BY <1>1, <2>2 DEF Ended
    <3>2. v \in Results /\ v # "matched" /\ (v = "safe" => job[j].re # "endless")
      BY DEF Results
    <3> HIDE DEF v
    <3>3. q \in RunnerCalls /\ q.op = job[j].op /\ q.re = job[j].re /\ q.at = "done"
          /\ q.result = v
      BY <2>0, <3>2 DEF RunnerCalls, CallStates
    <3> HIDE DEF q
    <3> QED BY <1>2, <2>2, <3>1, <3>2, <3>3 DEF Begin
  <2> QED BY <2>1, <2>2
<1>5. RunnerTypes'
  BY <1>1, <1>3, <1>4, <1>10 DEF Begin, RunnerIInv, RunnerTypes
<1>6. OnThread'
  BY <1>2, <1>3, <1>4 DEF RunnerIInv, OnThread
<1>7. PostedOnce'
  <2>1. ASSUME NEW v \in 1..Len(thread'), NEW i \in 1..Len(thread'[v].queue),
               job'[thread'[v].queue[i]].op = "match"
        PROVE  /\ job'[thread'[v].queue[i]].on = v
               /\ job'[thread'[v].queue[i]].at \in {"posted", "done"}
    <3>1. v \in 1..Len(thread) /\ thread'[v] = thread[v]
      <4>1. thread'[v] = [is |-> "starting", queue |-> <<>>] => Len(thread'[v].queue) = 0
        OBVIOUS
      <4> QED BY <1>2, <1>3, <4>1
    <3>2. thread[v].queue[i] \in Jobs
      <4>1. thread[v].queue \in Seq(Jobs)
        BY <1>2, <3>1, ThreadRecord
      <4> QED BY <2>1, <3>1, <4>1
    <3>3. thread[v].queue[i] # j /\ job[thread[v].queue[i]].op = "match" => job[thread[v].queue[i]].at \in {"posted", "done"} /\ job[thread[v].queue[i]].on = v
      BY <2>1, <3>1, <3>2 DEF RunnerIInv, PostedOnce
    <3>4. thread[v].queue[i] # j
      BY <1>4, <2>1, <3>1, <3>2 DEF RunnerIInv, PostedOnce
    <3> QED BY <1>4, <2>1, <3>1, <3>2, <3>3, <3>4
  <2> QED BY <2>1 DEF PostedOnce
<1>8. VerdictsAreOwn'
  <2>1. failedOpen \subseteq failedOpen'
    BY <1>1
  <2> QED BY <1>4, <2>1 DEF RunnerIInv, VerdictsAreOwn
<1>9. PendingIsPosted'
  <2>1. pending' = {k \in Jobs : job'[k].op = "match" /\ job'[k].at = "posted"}
    BY <1>4 DEF Begin, RunnerIInv, PendingIsPosted
  <2>2. matchWorker' # 0 => thread'[matchWorker'].is # "gone"
    BY <1>2, <1>3 DEF RunnerIInv, PendingIsPosted
  <2> QED BY <2>1, <2>2 DEF PendingIsPosted
<1> QED BY <1>5, <1>6, <1>7, <1>8, <1>9 DEF RunnerIInv

\* A step that takes messages away, and ends calls.
LEMMA StillPosted ==
  ASSUME RunnerIInv, thread' \in Seq(RunnerThread), Len(thread') = Len(thread),
         \A w \in 1..Len(thread) : thread'[w].queue \in {thread[w].queue, <<>>},
         \A k \in Jobs : /\ job'[k].op = job[k].op /\ job'[k].on = job[k].on
                         /\ job'[k].at \in {job[k].at, "done"}
  PROVE  PostedOnce' /\ OnThread'
<1>1. thread \in Seq(RunnerThread)
  BY DEF RunnerIInv, RunnerTypes
<1>2. OnThread'
  BY DEF RunnerIInv, OnThread
<1>3. ASSUME NEW w \in 1..Len(thread'), NEW i \in 1..Len(thread'[w].queue),
             job'[thread'[w].queue[i]].op = "match"
      PROVE  /\ job'[thread'[w].queue[i]].on = w
             /\ job'[thread'[w].queue[i]].at \in {"posted", "done"}
  <2>1. w \in 1..Len(thread)
    OBVIOUS
  <2>2. thread'[w].queue = thread[w].queue
    <3>1. Len(<<>>) = 0
      OBVIOUS
    <3> QED BY <1>3, <2>1, <3>1
  <2>3. thread[w].queue[i] \in Jobs
    <3>1. thread[w].queue \in Seq(Jobs)
      BY <1>1, <2>1, ThreadRecord
    <3> QED BY <1>3, <2>2, <3>1
  <2> QED BY <1>3, <2>1, <2>2, <2>3 DEF RunnerIInv, PostedOnce
<1> QED BY <1>2, <1>3 DEF PostedOnce

\* terminate empties a thread that runs, and no thread is gone by that.
LEMMA TerminatedThread ==
  ASSUME RunnerIInv, NEW w \in 1..Len(thread), thread' = Terminated(w)
  PROVE  /\ thread' \in Seq(RunnerThread) /\ Len(thread') = Len(thread)
         /\ \A v \in 1..Len(thread) : /\ thread'[v].queue \in {thread[v].queue, <<>>}
                                      /\ thread'[v].is = "gone" => thread[v].is = "gone"
<1>1. thread \in Seq(RunnerThread) /\ Len(thread) \in Nat
  BY DEF RunnerIInv, RunnerTypes
<1>2. CASE Running(w)
  <2>1. <<>> \in Seq(Jobs) /\ "ended" \in ThreadStates
    BY DEF ThreadStates
  <2>2. thread' = [thread EXCEPT ![w] = [is |-> "ended", queue |-> <<>>]]
    BY <1>2 DEF Terminated
  <2>3. /\ thread' \in Seq(RunnerThread) /\ Len(thread') = Len(thread)
        /\ \A v \in 1..Len(thread) : v # w => thread'[v] = thread[v]
        /\ thread'[w] = [is |-> "ended", queue |-> <<>>]
    <3>1. [is |-> "ended", queue |-> <<>>] \in RunnerThread
      BY <2>1 DEF RunnerThread
    <3> QED BY <1>1, <2>2, <3>1
  <2> QED BY <2>3
<1>3. CASE ~Running(w)
  BY <1>1, <1>3 DEF Terminated
<1> QED BY <1>2, <1>3

\* A thread comes up, or dies before anybody is told.
LEMMA ThreadEnds ==
  ASSUME RunnerIInv, NEW w \in 1..Len(thread), Online(w) \/ Die(w)
  PROVE  RunnerIInv'
<1> USE RunnerAssumption DEF RunnerAssumption
<1>0. thread \in Seq(RunnerThread) /\ Len(thread) \in Nat
  BY DEF RunnerIInv, RunnerTypes
<1>1. UNCHANGED <<matchWorker, resolveFailed, pending, job, failedOpen>>
  BY DEF Online, Die
<1>2. /\ thread' \in Seq(RunnerThread) /\ Len(thread') = Len(thread)
      /\ \A v \in 1..Len(thread) : /\ thread'[v].queue \in {thread[v].queue, <<>>}
                                   /\ thread'[v].is = "gone" => thread[v].is = "gone"
  <2>1. CASE Online(w)
    <3>1. thread[w].queue \in Seq(Jobs) /\ "up" \in ThreadStates
          /\ thread' = [thread EXCEPT ![w] = [is |-> "up", queue |-> thread[w].queue]]
      BY <1>0, <2>1, ThreadRecord DEF Online, ThreadStates
    <3>2. /\ thread' \in Seq(RunnerThread) /\ Len(thread') = Len(thread)
          /\ \A v \in 1..Len(thread) : v # w => thread'[v] = thread[v]
          /\ thread'[w] = [is |-> "up", queue |-> thread[w].queue]
      BY <1>0, <3>1, ThreadChanges
    <3> QED BY <3>2
  <2>2. CASE Die(w)
    BY <2>2, TerminatedThread DEF Die
  <2> QED BY <2>1, <2>2
<1>3. deaths' \in 0..MaxDeaths
  BY DEF Online, Die, RunnerIInv, RunnerTypes
<1>4. RunnerTypes'
  BY <1>1, <1>2, <1>3 DEF RunnerIInv, RunnerTypes
<1>5. PostedOnce' /\ OnThread'
  <2>1. \A k \in Jobs : /\ job'[k].op = job[k].op /\ job'[k].on = job[k].on
                        /\ job'[k].at \in {job[k].at, "done"}
    BY <1>1
  <2> QED BY <1>2, <2>1, StillPosted
<1>6. VerdictsAreOwn'
  BY <1>1 DEF RunnerIInv, VerdictsAreOwn
<1>7. PendingIsPosted'
  BY <1>1, <1>2 DEF RunnerIInv, RunnerTypes, PendingIsPosted
<1> QED BY <1>4, <1>5, <1>6, <1>7 DEF RunnerIInv

\* failAllPending ends the calls of the map, and no other.
LEMMA AllFailed ==
  ASSUME NEW calls \in [Jobs -> RunnerCalls], NEW k \in Jobs
  PROVE  /\ FailAll(calls) \in [Jobs -> RunnerCalls]
         /\ k \notin pending => FailAll(calls)[k] = calls[k]
         /\ k \in pending => /\ FailAll(calls)[k].op = calls[k].op
                             /\ FailAll(calls)[k].re = calls[k].re
                             /\ FailAll(calls)[k].on = calls[k].on
                             /\ FailAll(calls)[k].at = "done"
                             /\ FailAll(calls)[k].result = "passed"
<1>1. ASSUME NEW r \in RunnerCalls
      PROVE  LET q == [r EXCEPT !.at = "done", !.result = "passed"] IN
             /\ q \in RunnerCalls /\ q.op = r.op /\ q.re = r.re /\ q.on = r.on
             /\ q.at = "done" /\ q.result = "passed"
  BY <1>1 DEF RunnerCalls, CallStates, Results
<1>2. \A i \in Jobs : calls[i] \in RunnerCalls
  OBVIOUS
<1>3. ASSUME NEW i \in Jobs
      PROVE  FailAll(calls)[i] = IF i \in pending
                                THEN [calls[i] EXCEPT !.at = "done", !.result = "passed"]
                                ELSE calls[i]
  BY DEF FailAll
<1>4. FailAll(calls) \in [Jobs -> RunnerCalls]
  BY <1>1, <1>2, <1>3 DEF FailAll
<1>5. CASE k \in pending
  <2> DEFINE q == [calls[k] EXCEPT !.at = "done", !.result = "passed"]
  <2>1. /\ q.op = calls[k].op /\ q.re = calls[k].re /\ q.on = calls[k].on
        /\ q.at = "done" /\ q.result = "passed"
    BY <1>1, <1>2
  <2>2. FailAll(calls)[k] = q
    BY <1>3, <1>5
  <2> QED BY <1>4, <1>5, <2>1, <2>2
<1>6. CASE k \notin pending
  BY <1>3, <1>4, <1>6
<1> QED BY <1>5, <1>6

\* A call that ends with a verdict.
LEMMA EndedCall ==
  ASSUME job \in [Jobs -> RunnerCalls], NEW j \in Jobs, NEW v \in Results
  PROVE  LET calls == [job EXCEPT ![j] = Ended(j, v)] IN
         /\ calls \in [Jobs -> RunnerCalls]
         /\ \A k \in Jobs : k # j => calls[k] = job[k]
         /\ calls[j].op = job[j].op /\ calls[j].re = job[j].re /\ calls[j].on = job[j].on
         /\ calls[j].at = "done" /\ calls[j].result = v
<1>1. job[j] \in RunnerCalls
  OBVIOUS
<1>2. /\ Ended(j, v) \in RunnerCalls /\ Ended(j, v).op = job[j].op /\ Ended(j, v).re = job[j].re
      /\ Ended(j, v).on = job[j].on /\ Ended(j, v).at = "done" /\ Ended(j, v).result = v
  BY <1>1 DEF Ended, RunnerCalls, CallStates
<1> QED BY <1>2

\* The calls that are ended from outside: every pending match, told that nothing
\* matched, and validations, told that they are unsafe.
LEMMA AllEnd ==
  ASSUME RunnerIInv, thread' \in Seq(RunnerThread), Len(thread') = Len(thread),
         \A w \in 1..Len(thread) : thread'[w].queue \in {thread[w].queue, <<>>},
         matchWorker' = 0, UNCHANGED <<resolveFailed, deaths>>,
         failedOpen' = failedOpen \cup pending, pending' = {},
         NEW calls \in [Jobs -> RunnerCalls], job' = FailAll(calls),
         \A k \in Jobs : /\ calls[k].op = job[k].op /\ calls[k].re = job[k].re
                         /\ calls[k].on = job[k].on
                         /\ \/ calls[k] = job[k]
                            \/ calls[k].at = "done" /\ calls[k].result = "unsafe"
  PROVE  RunnerIInv'
<1>1. \A k \in Jobs : /\ job'[k].op = job[k].op /\ job'[k].re = job[k].re
                      /\ job'[k].on = job[k].on
                      /\ \/ job'[k] = job[k] /\ k \notin pending
                         \/ job'[k].at = "done" /\ job'[k].result = "unsafe"
                         \/ job'[k].at = "done" /\ job'[k].result = "passed" /\ k \in pending
  BY AllFailed
<1>2. RunnerTypes'
  <2>1. job' \in [Jobs -> RunnerCalls]
    BY AllFailed DEF FailAll
  <2>2. Len(thread') \in Nat /\ Len(thread') <= MaxThreads /\ matchWorker' \in 0..Len(thread')
    BY DEF RunnerIInv, RunnerTypes
  <2>3. resolveFailed' \in BOOLEAN
    BY Zenon DEF RunnerIInv, RunnerTypes
  <2> QED BY <2>1, <2>2, <2>3 DEF RunnerIInv, RunnerTypes
<1>3. PostedOnce' /\ OnThread'
  <2>1. \A k \in Jobs : job'[k].at \in {job[k].at, "done"}
    BY <1>1
  <2> QED BY <1>1, <2>1, StillPosted
<1>4. VerdictsAreOwn'
  BY <1>1 DEF RunnerIInv, VerdictsAreOwn
<1>5. PendingIsPosted'
  <2>1. \A k \in Jobs : job'[k].op = "match" => job'[k].at # "posted"
    BY <1>1 DEF RunnerIInv, PendingIsPosted
  <2> QED BY <2>1 DEF PendingIsPosted
<1> QED BY <1>2, <1>3, <1>4, <1>5 DEF RunnerIInv

\* A validation runs into its deadline, and its thread is terminated.
LEMMA ValidateTimeoutStep ==
  ASSUME RunnerIInv, NEW j \in Jobs, ValidateTimeout(j)
  PROVE  RunnerIInv'
<1> DEFINE calls == [job EXCEPT ![j] = Ended(j, "unsafe")]
<1>1. job[j].on \in 1..Len(thread) /\ job \in [Jobs -> RunnerCalls]
  BY DEF ValidateTimeout, RunnerIInv, RunnerTypes, OnThread
<1>2. /\ calls \in [Jobs -> RunnerCalls]
      /\ \A k \in Jobs : /\ calls[k].op = job[k].op /\ calls[k].re = job[k].re
                         /\ calls[k].on = job[k].on
                         /\ \/ calls[k] = job[k]
                            \/ calls[k].at = "done" /\ calls[k].result = "unsafe"
  BY <1>1, EndedCall DEF Results
<1>3. /\ job' = FailAll(calls) /\ matchWorker' = 0 /\ UNCHANGED <<resolveFailed, deaths>>
      /\ failedOpen' = failedOpen \cup pending /\ pending' = {}
      /\ thread' = Terminated(job[j].on)
  BY DEF ValidateTimeout
<1> HIDE DEF calls
<1>4. /\ thread' \in Seq(RunnerThread) /\ Len(thread') = Len(thread)
      /\ \A w \in 1..Len(thread) : thread'[w].queue \in {thread[w].queue, <<>>}
  BY <1>1, <1>3, TerminatedThread
<1> QED BY <1>2, <1>3, <1>4, AllEnd

\* The exit event of a thread fails what waits for the thread of the runner.
LEMMA ExitStep ==
  ASSUME RunnerIInv, NEW w \in 1..Len(thread), Exit(w)
  PROVE  RunnerIInv'
<1>0. job \in [Jobs -> RunnerCalls] /\ thread \in Seq(RunnerThread)
  BY DEF RunnerIInv, RunnerTypes
<1>1. /\ Orphaned(w) \in [Jobs -> RunnerCalls]
      /\ \A k \in Jobs : /\ Orphaned(w)[k].op = job[k].op /\ Orphaned(w)[k].re = job[k].re
                         /\ Orphaned(w)[k].on = job[k].on
                         /\ \/ Orphaned(w)[k] = job[k]
                            \/ Orphaned(w)[k].at = "done" /\ Orphaned(w)[k].result = "unsafe"
  <2>1. ASSUME NEW k \in Jobs
        PROVE  /\ Ended(k, "unsafe") \in RunnerCalls /\ Ended(k, "unsafe").op = job[k].op
               /\ Ended(k, "unsafe").re = job[k].re /\ Ended(k, "unsafe").on = job[k].on
               /\ Ended(k, "unsafe").at = "done" /\ Ended(k, "unsafe").result = "unsafe"
               /\ job[k] \in RunnerCalls
    BY <1>0 DEF Ended, RunnerCalls, CallStates, Results
  <2> QED BY <2>1 DEF Orphaned
<1>2. /\ job' = FailAll(Orphaned(w)) /\ matchWorker' = 0 /\ UNCHANGED <<resolveFailed, deaths>>
      /\ failedOpen' = failedOpen \cup pending /\ pending' = {}
  BY DEF Exit
<1>3. /\ thread' \in Seq(RunnerThread) /\ Len(thread') = Len(thread)
      /\ \A v \in 1..Len(thread) : thread'[v].queue \in {thread[v].queue, <<>>}
  <2>1. thread[w].queue \in Seq(Jobs) /\ "gone" \in ThreadStates
        /\ thread' = [thread EXCEPT ![w] = [is |-> "gone", queue |-> thread[w].queue]]
    BY <1>0, ThreadRecord DEF Exit, ThreadStates
  <2>2. /\ thread' \in Seq(RunnerThread) /\ Len(thread') = Len(thread)
        /\ \A v \in 1..Len(thread) : v # w => thread'[v] = thread[v]
        /\ thread'[w] = [is |-> "gone", queue |-> thread[w].queue]
    BY <1>0, <2>1, ThreadChanges
  <2> QED BY <2>2
<1> QED BY <1>1, <1>2, <1>3, AllEnd

\* A match runs into its deadline, and the match thread is terminated.
LEMMA MatchTimeoutStep ==
  ASSUME RunnerIInv, NEW j \in Jobs, MatchTimeout(j)
  PROVE  RunnerIInv'
<1>1. job[j].on \in 1..Len(thread) /\ job \in [Jobs -> RunnerCalls]
  BY DEF MatchTimeout, RunnerIInv, RunnerTypes, OnThread
<1>2. /\ job' \in [Jobs -> RunnerCalls]
      /\ \A k \in Jobs : k # j => job'[k] = job[k]
      /\ job'[j].op = job[j].op /\ job'[j].re = job[j].re /\ job'[j].on = job[j].on
      /\ job'[j].at = "done" /\ job'[j].result = "timedOut"
  BY <1>1, EndedCall DEF MatchTimeout, Results
<1>3. /\ thread' \in Seq(RunnerThread) /\ Len(thread') = Len(thread)
      /\ \A w \in 1..Len(thread) : thread'[w].queue \in {thread[w].queue, <<>>}
  BY <1>1, TerminatedThread DEF MatchTimeout
<1>4. RunnerTypes'
  <2>1. Len(thread') \in Nat /\ Len(thread') <= MaxThreads /\ matchWorker' \in 0..Len(thread')
    BY <1>3 DEF MatchTimeout, RunnerIInv, RunnerTypes
  <2>2. resolveFailed' \in BOOLEAN
    BY Zenon DEF MatchTimeout, RunnerIInv, RunnerTypes
  <2> QED BY <1>2, <1>3, <2>1, <2>2 DEF MatchTimeout, Forgotten, RunnerIInv, RunnerTypes
<1>5. PostedOnce' /\ OnThread'
  <2>1. \A k \in Jobs : /\ job'[k].op = job[k].op /\ job'[k].on = job[k].on
                        /\ job'[k].at \in {job[k].at, "done"}
    BY <1>2
  <2> QED BY <1>3, <2>1, StillPosted
<1>6. VerdictsAreOwn'
  BY <1>2 DEF MatchTimeout, RunnerIInv, VerdictsAreOwn
<1>7. PendingIsPosted'
  BY <1>2 DEF MatchTimeout, Forgotten, RunnerIInv, PendingIsPosted
<1> QED BY <1>4, <1>5, <1>6, <1>7 DEF RunnerIInv

-----------------------------------------------------------------------------
\* What a call posts is in the queue it posts to, behind what was there.
LEMMA PostedThread ==
  ASSUME thread \in Seq(RunnerThread), NEW w \in 1..Len(thread), NEW j \in Jobs,
         thread' = Posted(w, j)
  PROVE  /\ thread' \in Seq(RunnerThread) /\ Len(thread') = Len(thread)
         /\ \A v \in 1..Len(thread) : v # w => thread'[v] = thread[v]
         /\ thread'[w] = [is |-> thread[w].is, queue |-> Append(thread[w].queue, j)]
<1>1. thread[w].queue \in Seq(Jobs) /\ thread[w].is \in ThreadStates
      /\ thread' = [thread EXCEPT ![w] = [is |-> thread[w].is,
                                          queue |-> Append(thread[w].queue, j)]]
  BY ThreadRecord DEF Posted
<1> DEFINE r == [is |-> thread[w].is, queue |-> Append(thread[w].queue, j)]
<1>2. r \in RunnerThread /\ thread' = [thread EXCEPT ![w] = r]
  BY <1>1 DEF RunnerThread
<1>3. ASSUME NEW q \in RunnerThread, thread' = [thread EXCEPT ![w] = q]
      PROVE  /\ thread' \in Seq(RunnerThread) /\ Len(thread') = Len(thread)
             /\ \A v \in 1..Len(thread) : v # w => thread'[v] = thread[v]
             /\ thread'[w] = q
  BY <1>3
<1> HIDE DEF r
<1>4. /\ thread' \in Seq(RunnerThread) /\ Len(thread') = Len(thread)
      /\ \A v \in 1..Len(thread) : v # w => thread'[v] = thread[v]
      /\ thread'[w] = r
  BY <1>2, <1>3
<1> QED BY <1>4 DEF r

\* The match thread answers the first job of its queue.
LEMMA MatchStep ==
  ASSUME RunnerIInv, NEW j \in Jobs, Match(j)
  PROVE  RunnerIInv'
<1> DEFINE w == job[j].on
<1>1. /\ w \in 1..Len(thread) /\ thread \in Seq(RunnerThread)
      /\ job \in [Jobs -> RunnerCalls] /\ job[j] \in RunnerCalls
  BY DEF Match, RunnerIInv, RunnerTypes, OnThread
<1>2. /\ thread' \in Seq(RunnerThread) /\ Len(thread') = Len(thread)
      /\ \A v \in 1..Len(thread) : v # w => thread'[v] = thread[v]
      /\ thread'[w] = [is |-> thread[w].is, queue |-> Append(thread[w].queue, j)]
  BY <1>1, PostedThread DEF Match
<1>3. /\ job' \in [Jobs -> RunnerCalls]
      /\ \A k \in Jobs : k # j => job'[k] = job[k]
      /\ job'[j].op = "match" /\ job'[j].re = job[j].re /\ job'[j].on = w
      /\ job'[j].at = "posted" /\ job'[j].result = job[j].result
  <2>1. [job[j] EXCEPT !.at = "posted"] \in RunnerCalls
    BY <1>1 DEF RunnerCalls, CallStates
  <2> QED BY <1>1, <2>1 DEF Match
<1>4. RunnerTypes'
  BY <1>2, <1>3 DEF Match, RunnerIInv, RunnerTypes
<1>5. OnThread'
  BY <1>1, <1>2, <1>3 DEF RunnerIInv, OnThread
<1>6. PostedOnce'
  <2>1. ASSUME NEW v \in 1..Len(thread'), NEW i \in 1..Len(thread'[v].queue),
               job'[thread'[v].queue[i]].op = "match"
        PROVE  /\ job'[thread'[v].queue[i]].on = v
               /\ job'[thread'[v].queue[i]].at \in {"posted", "done"}
    <3>1. v \in 1..Len(thread) /\ thread[v].queue \in Seq(Jobs)
      BY <1>1, <1>2, ThreadRecord
    <3>2. \/ v = w /\ thread'[v].queue[i] = j
          \/ i \in 1..Len(thread[v].queue) /\ thread'[v].queue[i] = thread[v].queue[i]
      <4>1. CASE v = w
        <5>1. thread'[v].queue = Append(thread[v].queue, j)
          BY <1>2, <4>1
        <5> PICK q : q = thread[v].queue
          OBVIOUS
        <5>2. /\ q \in Seq(Jobs) /\ j \in Jobs /\ thread'[v].queue = Append(q, j)
              /\ i \in 1..Len(Append(q, j))
          BY <2>1, <3>1, <5>1
        <5>3. CASE i \in 1..Len(q)
          BY <5>2, <5>3
        <5>4. CASE i \notin 1..Len(q)
          <6>1. i = Len(q) + 1
            BY ONLY <5>2, <5>4
          <6> QED BY <4>1, <5>2, <6>1
        <5> QED BY <5>3, <5>4
      <4>2. CASE v # w
        BY <1>2, <2>1, <3>1, <4>2
      <4> QED BY <4>1, <4>2
    <3>3. CASE v = w /\ thread'[v].queue[i] = j
      BY <1>3, <3>3
    <3>4. CASE i \in 1..Len(thread[v].queue) /\ thread'[v].queue[i] = thread[v].queue[i]
      <4>1. thread[v].queue[i] \in Jobs
        BY <3>1, <3>4
      <4>2. thread[v].queue[i] # j
        BY <3>1, <3>4 DEF Match, RunnerIInv, PostedOnce
      <4> QED BY <1>3, <2>1, <3>1, <3>4, <4>1, <4>2 DEF RunnerIInv, PostedOnce
    <3> QED BY <3>2, <3>3, <3>4
  <2> QED BY <2>1 DEF PostedOnce
<1>7. VerdictsAreOwn'
  BY <1>3 DEF Match, RunnerIInv, VerdictsAreOwn
<1>8. PendingIsPosted'
  <2>1. pending' = {k \in Jobs : job'[k].op = "match" /\ job'[k].at = "posted"}
    BY <1>3 DEF Match, RunnerIInv, PendingIsPosted
  <2>2. \A v \in 1..Len(thread) : thread'[v].is = thread[v].is
    BY <1>2
  <2> QED BY <2>1, <2>2 DEF Match, RunnerIInv, RunnerTypes, PendingIsPosted
<1> QED BY <1>4, <1>5, <1>6, <1>7, <1>8 DEF RunnerIInv

\* A thread of one validation answers, and is terminated.
LEMMA ValidateStep ==
  ASSUME RunnerIInv, NEW j \in Jobs, ValidateSingleProbe(j)
  PROVE  RunnerIInv'
<1> USE RunnerAssumption DEF RunnerAssumption
<1>1. /\ thread \in Seq(RunnerThread) /\ Len(thread) \in Nat /\ Len(thread) <= MaxThreads
      /\ matchWorker \in 0..Len(thread)
      /\ job \in [Jobs -> RunnerCalls] /\ job[j] \in RunnerCalls
  BY DEF RunnerIInv, RunnerTypes
<1>2. \/ /\ thread' \in Seq(RunnerThread) /\ Len(thread') \in Nat
         /\ Len(thread) <= Len(thread') /\ Len(thread') <= MaxThreads
         /\ matchWorker' \in 1..Len(thread')
         /\ \A v \in 1..Len(thread) : /\ thread'[v].is = thread[v].is
                                      /\ v # matchWorker' => thread'[v] = thread[v]
         /\ \A v \in 1..Len(thread') : v \notin 1..Len(thread) => v = matchWorker'
         /\ \/ /\ matchWorker' \in 1..Len(thread) /\ matchWorker' = matchWorker
               /\ thread'[matchWorker'].queue = Append(thread[matchWorker'].queue, j)
            \/ /\ matchWorker' \notin 1..Len(thread)
               /\ thread'[matchWorker'] = [is |-> "starting", queue |-> <<j>>]
         /\ job' = [job EXCEPT ![j].at = "posted", ![j].on = matchWorker']
      \/ UNCHANGED <<thread, matchWorker>> /\ \E v \in {"unsafe", "safe"} :
            /\ job' = [job EXCEPT ![j] = Ended(j, v)]
            /\ v = "safe" => job[j].re # "endless"
  <2>1. CASE /\ matchWorker # 0
             /\ thread' = Posted(matchWorker, j)
             /\ job' = [job EXCEPT ![j].at = "posted", ![j].on = matchWorker]
             /\ UNCHANGED <<matchWorker, resolveFailed>>
    <3>1. matchWorker \in 1..Len(thread)
      BY <1>1, <2>1
    <3>2. /\ thread' \in Seq(RunnerThread) /\ Len(thread') = Len(thread)
          /\ \A v \in 1..Len(thread) : v # matchWorker => thread'[v] = thread[v]
          /\ thread'[matchWorker] = [is |-> thread[matchWorker].is,
                                     queue |-> Append(thread[matchWorker].queue, j)]
      BY <1>1, <2>1, <3>1, PostedThread
    <3> QED BY <1>1, <2>1, <3>1, <3>2
  <2>2. CASE /\ Len(thread) < MaxThreads
             /\ thread' = Append(thread, [is |-> "starting", queue |-> <<j>>])
             /\ matchWorker' = Len(thread) + 1
             /\ job' = [job EXCEPT ![j].at = "posted", ![j].on = Len(thread) + 1]
    <3>1. <<j>> \in Seq(Jobs)
      OBVIOUS
    <3>2. /\ thread' \in Seq(RunnerThread) /\ Len(thread') = Len(thread) + 1
          /\ \A v \in 1..Len(thread) : thread'[v] = thread[v]
          /\ thread'[Len(thread) + 1] = [is |-> "starting", queue |-> <<j>>]
      BY <1>1, <2>2, <3>1, ThreadStarts
    <3> QED BY <1>1, <2>2, <3>2
  <2>3. CASE /\ job' = [job EXCEPT ![j] = Ended(j, IF @.re = "endless" THEN "unsafe" ELSE "safe")]
             /\ UNCHANGED <<thread, matchWorker>>
    BY <2>3
  <2> QED BY <2>1, <2>2, <2>3 DEF ValidateSingleProbe
<1>3. /\ job[j].at = "waiting" /\ job[j].op = "validate"
      /\ UNCHANGED <<pending, deaths, failedOpen>>
  BY DEF ValidateSingleProbe
<1>4. resolveFailed' \in BOOLEAN
  <2>1. resolveFailed' = resolveFailed \/ resolveFailed' = TRUE
    BY Zenon DEF ValidateSingleProbe
  <2>2. resolveFailed \in BOOLEAN
    BY Zenon DEF RunnerIInv, RunnerTypes
  <2> QED BY ONLY <2>1, <2>2, Zenon
<1>5. /\ job' \in [Jobs -> RunnerCalls]
      /\ \A k \in Jobs : k # j => job'[k] = job[k]
      /\ job'[j].op = "validate" /\ job'[j].re = job[j].re
      /\ job'[j].at \in {"posted", "done"}
      /\ job'[j].at = "posted" => job'[j].on = matchWorker' /\ matchWorker' \in 1..Len(thread')
      /\ \/ job'[j].result = job[j].result
         \/ job'[j].result = "unsafe"
         \/ job'[j].result = "safe" /\ job[j].re # "endless"
  <2>1. ASSUME NEW v \in {"unsafe", "safe"}, job' = [job EXCEPT ![j] = Ended(j, v)]
        PROVE  /\ job' \in [Jobs -> RunnerCalls]
               /\ \A k \in Jobs : k # j => job'[k] = job[k]
               /\ job'[j].op = job[j].op /\ job'[j].re = job[j].re
               /\ job'[j].at = "done" /\ job'[j].result = v
    BY <1>1, <2>1, EndedCall DEF Results
  <2>2. ASSUME NEW n \in 0..MaxThreads, job' = [job EXCEPT ![j].at = "posted", ![j].on = n]
        PROVE  /\ job' \in [Jobs -> RunnerCalls]
               /\ \A k \in Jobs : k # j => job'[k] = job[k]
               /\ job'[j].op = job[j].op /\ job'[j].re = job[j].re
               /\ job'[j].at = "posted" /\ job'[j].result = job[j].result /\ job'[j].on = n
    <3>1. [job[j] EXCEPT !.at = "posted", !.on = n] \in RunnerCalls
      BY <1>1 DEF RunnerCalls, CallStates
    <3> QED BY <1>1, <2>2, <3>1 DEF RunnerCalls
  <2>3. CASE /\ job' = [job EXCEPT ![j].at = "posted", ![j].on = matchWorker']
             /\ matchWorker' \in 1..Len(thread') /\ Len(thread') \in Nat
             /\ Len(thread') <= MaxThreads
    <3>1. matchWorker' \in 0..MaxThreads
      BY <2>3
    <3> QED BY <1>3, <2>2, <2>3, <3>1
  <2>4. CASE \E v \in {"unsafe", "safe"} :
               /\ job' = [job EXCEPT ![j] = Ended(j, v)]
               /\ v = "safe" => job[j].re # "endless"
    <3>1. PICK v \in {"unsafe", "safe"} :
               /\ job' = [job EXCEPT ![j] = Ended(j, v)]
               /\ v = "safe" => job[j].re # "endless"
      BY <2>4
    <3>2. /\ job' \in [Jobs -> RunnerCalls]
          /\ \A k \in Jobs : k # j => job'[k] = job[k]
          /\ job'[j].op = job[j].op /\ job'[j].re = job[j].re
          /\ job'[j].at = "done" /\ job'[j].result = v
      <4>1. v \in Results
        BY DEF Results
      <4> QED BY <1>1, <3>1, <4>1, EndedCall
    <3> QED BY <1>3, <3>1, <3>2
  <2> QED BY <1>2, <2>3, <2>4
<1>6. /\ thread' \in Seq(RunnerThread) /\ Len(thread') \in Nat /\ Len(thread) <= Len(thread')
      /\ Len(thread') <= MaxThreads /\ matchWorker' \in 0..Len(thread')
  BY <1>1, <1>2
<1>7. RunnerTypes'
  BY <1>3, <1>4, <1>5, <1>6 DEF RunnerIInv, RunnerTypes
<1>8. OnThread'
  BY <1>1, <1>5, <1>6 DEF RunnerIInv, OnThread
<1>9. PostedOnce'
  <2>1. ASSUME NEW v \in 1..Len(thread'), NEW i \in 1..Len(thread'[v].queue),
               job'[thread'[v].queue[i]].op = "match"
        PROVE  /\ job'[thread'[v].queue[i]].on = v
               /\ job'[thread'[v].queue[i]].at \in {"posted", "done"}
    <3>1. thread'[v].queue[i] # j
      BY <1>5, <2>1
    <3>2. /\ v \in 1..Len(thread) /\ i \in 1..Len(thread[v].queue)
          /\ thread'[v].queue[i] = thread[v].queue[i]
      <4>1. CASE v \in 1..Len(thread)
        <5>1. thread[v].queue \in Seq(Jobs)
          BY <1>1, <4>1, ThreadRecord
        <5>2. \/ thread'[v].queue = thread[v].queue
              \/ thread'[v].queue = Append(thread[v].queue, j)
          BY <1>2, <4>1
        <5>3. CASE thread'[v].queue = thread[v].queue
          BY <2>1, <4>1, <5>3
        <5>4. CASE thread'[v].queue = Append(thread[v].queue, j)
          <6>1. i \in 1..(Len(thread[v].queue) + 1)
            BY <2>1, <5>1, <5>4
          <6>2. i # Len(thread[v].queue) + 1
            BY <3>1, <5>1, <5>4
          <6> QED BY <4>1, <5>1, <5>4, <6>1, <6>2
        <5> QED BY <5>2, <5>3, <5>4
      <4>2. CASE v \notin 1..Len(thread)
        <5>1. thread'[v].queue = <<j>>
          BY <1>2, <4>2
        <5> QED BY <2>1, <3>1, <5>1
      <4> QED BY <4>1, <4>2
    <3>3. thread[v].queue[i] \in Jobs
      <4>1. thread[v].queue \in Seq(Jobs)
        BY <1>1, <3>2, ThreadRecord
      <4> QED BY <3>2, <4>1
    <3> QED BY <1>5, <2>1, <3>1, <3>2, <3>3 DEF RunnerIInv, PostedOnce
  <2> QED BY <2>1 DEF PostedOnce
<1>10. VerdictsAreOwn'
  BY <1>3, <1>5 DEF RunnerIInv, VerdictsAreOwn
<1>11. PendingIsPosted'
  <2>1. pending' = {k \in Jobs : job'[k].op = "match" /\ job'[k].at = "posted"}
    BY <1>3, <1>5 DEF RunnerIInv, PendingIsPosted
  <2>2. matchWorker' # 0 => thread'[matchWorker'].is # "gone"
    BY <1>1, <1>2 DEF RunnerIInv, PendingIsPosted
  <2> QED BY <2>1, <2>2 DEF PendingIsPosted
<1> QED BY <1>7, <1>8, <1>9, <1>10, <1>11 DEF RunnerIInv

\* An answer ends the call it is about, or sends a validation to its next probe.
LEMMA AnswerStep ==
  ASSUME RunnerIInv, NEW w \in 1..Len(thread), Answer(w)
  PROVE  RunnerIInv'
<1> DEFINE q == thread[w].queue
           j == Head(q)
<1>1. /\ thread \in Seq(RunnerThread) /\ Len(thread) \in Nat
      /\ q \in Seq(Jobs) /\ q # <<>> /\ thread[w].is \in ThreadStates
      /\ job \in [Jobs -> RunnerCalls]
  <2>1. thread \in Seq(RunnerThread) /\ Len(thread) \in Nat /\ job \in [Jobs -> RunnerCalls]
    BY DEF RunnerIInv, RunnerTypes
  <2> QED BY <2>1, ThreadRecord DEF Answer
<1>2. /\ j \in Jobs /\ j = q[1] /\ 1 \in 1..Len(q) /\ Tail(q) \in Seq(Jobs)
      /\ Len(Tail(q)) = Len(q) - 1 /\ \A i \in 1..Len(Tail(q)) : Tail(q)[i] = q[i + 1]
  BY <1>1
<1>3. /\ thread' \in Seq(RunnerThread) /\ Len(thread') = Len(thread)
      /\ \A v \in 1..Len(thread) : v # w => thread'[v] = thread[v]
      /\ thread'[w] = [is |-> thread[w].is, queue |-> Tail(q)]
  <2>1. thread' = [thread EXCEPT ![w] = [is |-> thread[w].is, queue |-> Tail(q)]]
    BY <1>1, ThreadRecord DEF Answer
  <2>2. [is |-> thread[w].is, queue |-> Tail(q)] \in RunnerThread
    BY <1>1, <1>2 DEF RunnerThread
  <2>3. ASSUME NEW r \in RunnerThread, thread' = [thread EXCEPT ![w] = r]
        PROVE  /\ thread' \in Seq(RunnerThread) /\ Len(thread') = Len(thread)
               /\ \A v \in 1..Len(thread) : v # w => thread'[v] = thread[v]
               /\ thread'[w] = r
    BY <1>1, <2>3
  <2> DEFINE r == [is |-> thread[w].is, queue |-> Tail(q)]
  <2>4. r \in RunnerThread /\ thread' = [thread EXCEPT ![w] = r]
    BY <2>1, <2>2
  <2> HIDE DEF r
  <2>5. /\ thread' \in Seq(RunnerThread) /\ Len(thread') = Len(thread)
        /\ \A v \in 1..Len(thread) : v # w => thread'[v] = thread[v]
        /\ thread'[w] = r
    BY <2>3, <2>4
  <2> QED BY <2>5 DEF r
<1>4. job[j].op = "match" => job[j].on = w /\ job[j].at \in {"posted", "done"}
  BY <1>1, <1>2 DEF RunnerIInv, PostedOnce
<1>5. /\ job[j].re # "endless" /\ pending' = pending \ {j}
      /\ UNCHANGED <<matchWorker, resolveFailed, deaths, failedOpen>>
  BY DEF Answer
<1>6. /\ job' \in [Jobs -> RunnerCalls]
      /\ \A k \in Jobs : k # j => job'[k] = job[k]
      /\ job'[j].op = job[j].op /\ job'[j].re = job[j].re /\ job'[j].on = job[j].on
      /\ \/ job'[j] = job[j] /\ (job[j].op = "match" => job[j].at # "posted")
         \/ job'[j].at = "done" /\ job[j].op = "match"
            /\ job'[j].result = (IF job[j].re = "hit" THEN "matched" ELSE "passed")
         \/ job'[j].at = "done" /\ job[j].op # "match" /\ job'[j].result = "safe"
         \/ job[j].at = "posted" /\ job'[j].at = "waiting" /\ job[j].op # "match"
            /\ job'[j].result = job[j].result
  <2>1. CASE job[j].at # "posted" \/ job[j].on # w
    <3>1. job' = [job EXCEPT ![j] = job[j]]
      BY <2>1 DEF Answer
    <3>2. job' = job
      BY <1>1, <3>1
    <3> QED BY <1>1, <1>4, <2>1, <3>2
  <2>2. CASE /\ job[j].at = "posted" /\ job[j].on = w
             /\ job[j].op = "match" \/ job[j].probe = Probes
    <3> DEFINE v == IF job[j].op # "match" THEN "safe"
                    ELSE IF job[j].re = "hit" THEN "matched" ELSE "passed"
    <3>1. job' = [job EXCEPT ![j] = Ended(j, v)] /\ v \in Results
      BY <2>2 DEF Answer, Results
    <3> HIDE DEF v
    <3>2. /\ job' \in [Jobs -> RunnerCalls]
          /\ \A k \in Jobs : k # j => job'[k] = job[k]
          /\ job'[j].op = job[j].op /\ job'[j].re = job[j].re /\ job'[j].on = job[j].on
          /\ job'[j].at = "done" /\ job'[j].result = v
      BY <1>1, <1>2, <3>1, EndedCall
    <3> QED BY <3>2 DEF v
  <2>3. CASE /\ job[j].at = "posted" /\ job[j].on = w
             /\ job[j].op # "match" /\ job[j].probe # Probes
    <3> DEFINE r == [job[j] EXCEPT !.at = "waiting", !.probe = @ + 1]
    <3>1. job' = [job EXCEPT ![j] = r]
      <4>1. ~(job[j].at # "posted" \/ job[j].on # w) /\ job[j].op # "match"
            /\ job[j].probe # Probes
        BY <2>3
      <4> QED BY <4>1 DEF Answer
    <3>2. job[j] \in RunnerCalls
      BY <1>1, <1>2
    <3>3. job[j].probe + 1 \in 1..Probes
      BY <2>3, <3>2, RunnerAssumption DEF RunnerAssumption, RunnerCalls
    <3>4. /\ r \in RunnerCalls /\ r.op = job[j].op /\ r.re = job[j].re /\ r.on = job[j].on
          /\ r.at = "waiting" /\ r.result = job[j].result
      BY <3>2, <3>3 DEF RunnerCalls, CallStates
    <3> HIDE DEF r
    <3> QED BY <1>1, <1>2, <2>3, <3>1, <3>4
  <2> QED BY <2>1, <2>2, <2>3
<1> HIDE DEF j
<1>7. RunnerTypes'
  <2>1. Len(thread') \in Nat /\ Len(thread') <= MaxThreads /\ matchWorker' \in 0..Len(thread')
    BY <1>3, <1>5 DEF RunnerIInv, RunnerTypes
  <2>2. resolveFailed' \in BOOLEAN
    BY <1>5, Zenon DEF RunnerIInv, RunnerTypes
  <2> QED BY <1>3, <1>5, <1>6, <2>1, <2>2 DEF RunnerIInv, RunnerTypes
<1>8. OnThread'
  BY <1>2, <1>3, <1>6 DEF RunnerIInv, OnThread
<1>9. PostedOnce'
  <2>1. ASSUME NEW v \in 1..Len(thread'), NEW i \in 1..Len(thread'[v].queue),
               job'[thread'[v].queue[i]].op = "match"
        PROVE  /\ job'[thread'[v].queue[i]].on = v
               /\ job'[thread'[v].queue[i]].at \in {"posted", "done"}
    <3>1. PICK n \in 1..Len(thread[v].queue) : thread'[v].queue[i] = thread[v].queue[n]
      <4>1. CASE v = w
        <5>1. thread'[v].queue = Tail(q)
          <6>1. thread'[v] = [is |-> thread[w].is, queue |-> Tail(q)]
            BY <1>3, <4>1
          <6> QED BY <6>1
        <5>2. i \in 1..Len(Tail(q)) /\ i + 1 \in 1..Len(q) /\ Tail(q)[i] = q[i + 1]
          BY <1>1, <1>2, <2>1, <5>1
        <5> QED BY <4>1, <5>1, <5>2
      <4>2. CASE v # w
        BY <1>3, <2>1, <4>2
      <4> QED BY <4>1, <4>2
    <3>2. v \in 1..Len(thread) /\ thread[v].queue[n] \in Jobs
      <4>1. v \in 1..Len(thread) /\ thread[v].queue \in Seq(Jobs)
        BY <1>1, <1>3, ThreadRecord
      <4> QED BY <4>1
    <3> QED BY <1>6, <2>1, <3>1, <3>2 DEF RunnerIInv, PostedOnce
  <2> QED BY <2>1 DEF PostedOnce
<1>10. VerdictsAreOwn'
  <2>1. job[j].re \in {"hit", "miss"}
    BY <1>1, <1>2, <1>5 DEF RunnerCalls, Expressions
  <2> QED BY <1>2, <1>5, <1>6, <2>1 DEF RunnerIInv, VerdictsAreOwn
<1>11. PendingIsPosted'
  <2>1. \A k \in Jobs : job'[k].op = "match" /\ job'[k].at = "posted"
                          <=> job[k].op = "match" /\ job[k].at = "posted" /\ k # j
    BY <1>2, <1>6
  <2>2. \A v \in 1..Len(thread) : thread'[v].is = thread[v].is
    BY <1>3
  <2> QED BY <1>3, <1>5, <2>1, <2>2 DEF RunnerIInv, RunnerTypes, PendingIsPosted
<1> QED BY <1>7, <1>8, <1>9, <1>10, <1>11 DEF RunnerIInv

\* However calls, answers, deaths and watchdogs interleave, and whatever threads
\* are started, a verdict is about the call's own expression, and exactly the
\* matches that wait are in the map (automod-regex-runner.ts, match,
\* validateSafety, failAllPending).
THEOREM RunnerHolds == RunnerSpec => []RunnerTypeOK /\ []RunnerSound
<1>1. RunnerInit => RunnerIInv
  BY RunnerInitHolds
<1>2. RunnerIInv /\ [RunnerNext]_runnerVars => RunnerIInv'
  <2> SUFFICES ASSUME RunnerIInv, [RunnerNext]_runnerVars PROVE RunnerIInv'
    OBVIOUS
  <2>1. DOMAIN thread = 1..Len(thread)
    BY DEF RunnerIInv, RunnerTypes
  <2>2. CASE RunnerNext
    BY <2>1, <2>2, BeginStep, MatchStep, ValidateStep, MatchTimeoutStep, ValidateTimeoutStep,
       ThreadEnds, AnswerStep, ExitStep DEF RunnerNext
  <2>3. CASE UNCHANGED runnerVars
    BY <2>3 DEF runnerVars, RunnerIInv, RunnerTypes, OnThread, PostedOnce, VerdictsAreOwn,
                PendingIsPosted
  <2> QED BY <2>2, <2>3
<1>3. RunnerIInv => RunnerTypeOK /\ RunnerSound
  <2> SUFFICES ASSUME RunnerIInv PROVE RunnerTypeOK /\ RunnerSound
    OBVIOUS
  <2>1. thread \in Seq(RunnerThread) /\ DOMAIN thread = 1..Len(thread)
    BY DEF RunnerIInv, RunnerTypes
  <2>2. ASSUME NEW w \in DOMAIN thread
        PROVE  /\ thread[w].is \in {"starting", "up", "ended", "gone"}
               /\ \A i \in DOMAIN thread[w].queue : thread[w].queue[i] \in Jobs
    <3>1. thread[w].is \in ThreadStates /\ thread[w].queue \in Seq(Jobs)
      BY <2>1, <2>2, ThreadRecord
    <3> QED BY <3>1 DEF ThreadStates
  <2>3. RunnerTypeOK
    BY <2>1, <2>2 DEF RunnerIInv, RunnerTypes, RunnerTypeOK, RunnerCalls, CallStates
  <2> QED BY <2>3 DEF RunnerIInv, RunnerSound
<1> QED BY <1>1, <1>2, <1>3, PTL DEF RunnerSpec

-----------------------------------------------------------------------------
(* Ordering. *)

SentMove(m) == [at |-> "sent", item |-> m.item, anchor |-> m.anchor, lo |-> m.lo, hi |-> m.hi,
            clean |-> m.clean]
Moving(m) == [at |-> "moving", item |-> m.item, pos |-> m.pos, lo |-> m.lo, hi |-> m.hi,
              clean |-> m.clean]

OrderingTypes ==
  /\ position \in [Items -> Int \cup {Nothing, Deleted}]
  /\ mover = [c \in Movers |-> mover[c]]
  /\ \A c \in Movers :
       /\ mover[c].at \in {"idle", "creating", "sent", "moving", "done"}
       /\ mover[c].at = "sent" => mover[c] = SentMove(mover[c]) /\ mover[c].item \in Items
       /\ mover[c].at = "moving" => mover[c] = Moving(mover[c]) /\ mover[c].item \in Items
       /\ mover[c].at = "creating" => mover[c].item \in Items

\* While nobody else writes, the rows that a drop was put between are on the list,
\* and a drop at an end of it is on its way past the one neighbour it has.
Neighbours(m) ==
  /\ m.lo # Nothing => m.lo \in Listed /\ m.lo # m.item
  /\ m.hi # Nothing => m.hi \in Listed /\ m.hi # m.item

DropsAreOnTheirWay ==
  \A c \in Movers :
    /\ mover[c].at = "sent" /\ mover[c].clean =>
         Neighbours(mover[c]) /\ mover[c].anchor = Anchor(mover[c].lo, mover[c].hi)
    /\ mover[c].at = "moving" /\ mover[c].clean =>
         /\ Neighbours(mover[c])
         /\ mover[c].lo = Nothing /\ mover[c].hi # Nothing =>
              mover[c].pos = position[mover[c].hi] - Stride
         /\ mover[c].hi = Nothing /\ mover[c].lo # Nothing =>
              mover[c].pos = position[mover[c].lo] + Stride

OrderingIInv == OrderingTypes /\ DropsAreOnTheirWay /\ EndDropsLand

\* The invariant holds of positions that are apart.
LEMMA OrderingInitHolds == OrderingInit => OrderingIInv
<1> SUFFICES ASSUME OrderingInit PROVE OrderingIInv
  OBVIOUS
<1>1. \A n \in 1..Cardinality(Items) : Stride * n \in Int
  BY OrderingAssumption DEF OrderingAssumption
<1>2. OrderingTypes
  BY <1>1 DEF OrderingInit, OrderingTypes, IdleMover
<1>3. DropsAreOnTheirWay /\ EndDropsLand
  BY DEF OrderingInit, DropsAreOnTheirWay, EndDropsLand, IdleMover
<1> QED BY <1>2, <1>3 DEF OrderingIInv

-----------------------------------------------------------------------------
\* A write makes the drops of the others dirty, which have nothing to keep.
LEMMA WritesDisturb ==
  ASSUME OrderingTypes, NEW c \in Movers, mover' = Disturb(c, mover),
         position' \in [Items -> Int \cup {Nothing, Deleted}]
  PROVE  OrderingTypes' /\ DropsAreOnTheirWay'
<1>1. ASSUME NEW d \in Movers
      PROVE  /\ mover'[d].at \in {"idle", "creating", "sent", "moving", "done"}
             /\ mover'[d].at = "sent" =>
                  mover'[d] = SentMove(mover'[d]) /\ mover'[d].item \in Items /\ ~mover'[d].clean
             /\ mover'[d].at = "moving" =>
                  mover'[d] = Moving(mover'[d]) /\ mover'[d].item \in Items /\ ~mover'[d].clean
             /\ mover'[d].at = "creating" => mover'[d].item \in Items
  <2>1. CASE d = c
    BY <2>1 DEF Disturb, DoneMover
  <2>2. CASE d # c /\ mover[d].at = "sent"
    <3>1. mover'[d] = [mover[d] EXCEPT !.clean = FALSE]
      BY <2>2 DEF Disturb
    <3>2. mover[d] = SentMove(mover[d]) /\ mover[d].item \in Items
      BY <2>2 DEF OrderingTypes
    <3>3. mover'[d] = [at |-> "sent", item |-> mover[d].item, anchor |-> mover[d].anchor,
                       lo |-> mover[d].lo, hi |-> mover[d].hi, clean |-> FALSE]
      <4>2. PICK i, a, lo, hi, f :
              /\ i = mover[d].item /\ a = mover[d].anchor /\ lo = mover[d].lo /\ hi = mover[d].hi
              /\ mover[d] = [at |-> "sent", item |-> i, anchor |-> a, lo |-> lo, hi |-> hi, clean |-> f]
        BY ONLY <3>2, Zenon DEF SentMove
      <4>3. [mover[d] EXCEPT !.clean = FALSE]
              = [[at |-> "sent", item |-> i, anchor |-> a, lo |-> lo, hi |-> hi, clean |-> f]
                   EXCEPT !.clean = FALSE]
        BY ONLY <4>2, Zenon
      <4>4. mover'[d] = [at |-> "sent", item |-> i, anchor |-> a, lo |-> lo, hi |-> hi, clean |-> FALSE]
        <5>0. PICK g : g = FALSE
          OBVIOUS
        <5>1. [[at |-> "sent", item |-> i, anchor |-> a, lo |-> lo, hi |-> hi, clean |-> f] EXCEPT !.clean = g]
              = [at |-> "sent", item |-> i, anchor |-> a, lo |-> lo, hi |-> hi, clean |-> g]
          OBVIOUS
        <5> QED BY ONLY <3>1, <4>3, <5>0, <5>1, Zenon
      <4> QED BY ONLY <4>2, <4>4, Zenon
    <3> QED BY <3>2, <3>3 DEF SentMove
  <2>3. CASE d # c /\ mover[d].at = "moving"
    <3>1. mover'[d] = [mover[d] EXCEPT !.clean = FALSE]
      BY <2>3 DEF Disturb
    <3>2. mover[d] = Moving(mover[d]) /\ mover[d].item \in Items
      BY <2>3 DEF OrderingTypes
    <3>3. mover'[d] = [at |-> "moving", item |-> mover[d].item, pos |-> mover[d].pos,
                       lo |-> mover[d].lo, hi |-> mover[d].hi, clean |-> FALSE]
      <4>2. PICK i, a, lo, hi, f :
              /\ i = mover[d].item /\ a = mover[d].pos /\ lo = mover[d].lo /\ hi = mover[d].hi
              /\ mover[d] = [at |-> "moving", item |-> i, pos |-> a, lo |-> lo, hi |-> hi, clean |-> f]
        BY ONLY <3>2, Zenon DEF Moving
      <4>3. [mover[d] EXCEPT !.clean = FALSE]
              = [[at |-> "moving", item |-> i, pos |-> a, lo |-> lo, hi |-> hi, clean |-> f]
                   EXCEPT !.clean = FALSE]
        BY ONLY <4>2, Zenon
      <4>4. mover'[d] = [at |-> "moving", item |-> i, pos |-> a, lo |-> lo, hi |-> hi, clean |-> FALSE]
        <5>0. PICK g : g = FALSE
          OBVIOUS
        <5>1. [[at |-> "moving", item |-> i, pos |-> a, lo |-> lo, hi |-> hi, clean |-> f] EXCEPT !.clean = g]
              = [at |-> "moving", item |-> i, pos |-> a, lo |-> lo, hi |-> hi, clean |-> g]
          OBVIOUS
        <5> QED BY ONLY <3>1, <4>3, <5>0, <5>1, Zenon
      <4> QED BY ONLY <4>2, <4>4, Zenon
    <3> QED BY <3>2, <3>3 DEF Moving
  <2>4. CASE d # c /\ mover[d].at \notin {"sent", "moving"}
    BY <2>4 DEF Disturb, OrderingTypes
  <2> QED BY <2>1, <2>2, <2>3, <2>4
<1>2. mover' = [d \in Movers |-> mover'[d]]
  BY DEF Disturb
<1> QED BY <1>1, <1>2 DEF OrderingTypes, DropsAreOnTheirWay

\* A call moves on and writes nothing.
LEMMA CallMoves ==
  ASSUME OrderingIInv, NEW c \in Movers, NEW m, mover' = [mover EXCEPT ![c] = m],
         UNCHANGED <<position, landed>>,
         m.at \in {"idle", "creating", "sent", "moving", "done"},
         m.at = "sent" => m = SentMove(m) /\ m.item \in Items,
         m.at = "moving" => m = Moving(m) /\ m.item \in Items,
         m.at = "creating" => m.item \in Items,
         m.at = "sent" /\ m.clean => Neighbours(m) /\ m.anchor = Anchor(m.lo, m.hi),
         m.at = "moving" /\ m.clean =>
           /\ Neighbours(m)
           /\ m.lo = Nothing /\ m.hi # Nothing => m.pos = position[m.hi] - Stride
           /\ m.hi = Nothing /\ m.lo # Nothing => m.pos = position[m.lo] + Stride
  PROVE  OrderingIInv'
<1>1. mover'[c] = m /\ mover' = [d \in Movers |-> mover'[d]]
      /\ \A d \in Movers : d # c => mover'[d] = mover[d]
  BY DEF OrderingIInv, OrderingTypes
<1>2. OrderingTypes'
  BY <1>1 DEF OrderingIInv, OrderingTypes
<1>3. Listed' = Listed
  BY DEF Listed
<1>4. \A n : Neighbours(n)' <=> Neighbours(n)
  BY <1>3 DEF Neighbours
<1>5. DropsAreOnTheirWay'
  <2>1. ASSUME NEW d \in Movers
        PROVE  /\ mover'[d].at = "sent" /\ mover'[d].clean =>
                    Neighbours(mover'[d]) /\ mover'[d].anchor = Anchor(mover'[d].lo, mover'[d].hi)
               /\ mover'[d].at = "moving" /\ mover'[d].clean =>
                    /\ Neighbours(mover'[d])
                    /\ mover'[d].lo = Nothing /\ mover'[d].hi # Nothing =>
                         mover'[d].pos = position[mover'[d].hi] - Stride
                    /\ mover'[d].hi = Nothing /\ mover'[d].lo # Nothing =>
                         mover'[d].pos = position[mover'[d].lo] + Stride
    <3>1. CASE d = c
      BY <1>1, <3>1
    <3>2. CASE d # c
      BY <1>1, <3>2 DEF OrderingIInv, DropsAreOnTheirWay
    <3> QED BY <3>1, <3>2
  <2> QED BY <1>3, <2>1 DEF DropsAreOnTheirWay, Neighbours
<1>6. EndDropsLand'
  BY DEF OrderingIInv, EndDropsLand, Between
<1> QED BY <1>2, <1>5, <1>6 DEF OrderingIInv

-----------------------------------------------------------------------------
\* Every step keeps the order of the list.
LEMMA OrderingStepHolds == OrderingIInv /\ [OrderingNext]_orderingVars => OrderingIInv'
<1> SUFFICES ASSUME OrderingIInv, [OrderingNext]_orderingVars PROVE OrderingIInv'
  OBVIOUS
<1>0. OrderingTypes /\ DropsAreOnTheirWay /\ EndDropsLand /\ Nothing # Deleted
      /\ Nothing \notin Int /\ Deleted \notin Int /\ Stride \in Nat /\ Stride > 0 /\ Renorm \in Nat
  BY OrderingAssumption DEF OrderingIInv, OrderingAssumption
<1>1. CASE UNCHANGED orderingVars
  BY <1>0, <1>1 DEF orderingVars, OrderingIInv, OrderingTypes, DropsAreOnTheirWay, EndDropsLand,
                    Neighbours, Listed, Between
<1>2. ASSUME NEW c \in Movers, NEW i \in Items, CreateRead(c, i) PROVE OrderingIInv'
  <2> DEFINE m == [at |-> "creating", item |-> i, pos |-> CalcBetween(LastOf(Listed), Nothing)]
  <2>1. mover' = [mover EXCEPT ![c] = m] /\ UNCHANGED <<position, landed>>
    BY <1>2 DEF CreateRead
  <2>2. m.at = "creating" /\ m.item = i
    OBVIOUS
  <2> HIDE DEF m
  <2> QED BY <2>1, <2>2, CallMoves
<1>3. ASSUME NEW c \in Movers, NEW i \in Items, Drop(c, i) PROVE OrderingIInv'
  <2>1. PICK rest \in Displays(Listed \ {i}) : \E k \in 1..(Len(rest) + 1) :
          LET lo == IF k > 1 THEN rest[k - 1] ELSE Nothing
              hi == IF k <= Len(rest) THEN rest[k] ELSE Nothing
          IN mover' = [mover EXCEPT ![c] =
                         [at |-> "sent", item |-> i, anchor |-> Anchor(lo, hi),
                          lo |-> lo, hi |-> hi, clean |-> TRUE]]
    BY <1>3 DEF Drop
  <2>2. PICK k \in 1..(Len(rest) + 1) :
          LET lo == IF k > 1 THEN rest[k - 1] ELSE Nothing
              hi == IF k <= Len(rest) THEN rest[k] ELSE Nothing
          IN mover' = [mover EXCEPT ![c] =
                         [at |-> "sent", item |-> i, anchor |-> Anchor(lo, hi),
                          lo |-> lo, hi |-> hi, clean |-> TRUE]]
    BY <2>1
  <2> DEFINE lo == IF k > 1 THEN rest[k - 1] ELSE Nothing
             hi == IF k <= Len(rest) THEN rest[k] ELSE Nothing
             m == [at |-> "sent", item |-> i, anchor |-> Anchor(lo, hi),
                   lo |-> lo, hi |-> hi, clean |-> TRUE]
  <2>3. rest \in [1..Cardinality(Listed \ {i}) -> Listed \ {i}]
    BY DEF Displays, SetToSeqs
  <2>4. Len(rest) \in Nat /\ \A n \in 1..Len(rest) : rest[n] \in Listed \ {i}
    <3>1. Cardinality(Listed \ {i}) \in Nat
      <4>1. Listed \ {i} \in SUBSET Items /\ IsFiniteSet(Items)
        BY OrderingAssumption DEF OrderingAssumption, Listed
      <4>2. IsFiniteSet(Listed \ {i})
        BY <4>1, FS_Subset
      <4> QED BY <4>2, FS_CardinalityType
    <3> DEFINE X == Listed \ {i}
               n == Cardinality(X)
    <3>2. n \in Nat /\ rest \in [1..n -> X]
      BY <2>3, <3>1
    <3> HIDE DEF X, n
    <3>3. Len(rest) \in Nat /\ \A j \in 1..Len(rest) : rest[j] \in X
      BY <3>2
    <3> QED BY <3>3 DEF X
  <2>5. mover' = [mover EXCEPT ![c] = m] /\ UNCHANGED <<position, landed>>
    BY <1>3, <2>2 DEF Drop
  <2>6. (lo # Nothing => lo \in Listed /\ lo # i) /\ (hi # Nothing => hi \in Listed /\ hi # i)
    BY <2>4
  <2> HIDE DEF lo, hi
  <2>7. m.at = "sent" /\ m.item = i /\ m.lo = lo /\ m.hi = hi /\ m.anchor = Anchor(lo, hi)
        /\ m = SentMove(m)
    BY DEF SentMove
  <2> HIDE DEF m
  <2> QED BY <2>5, <2>6, <2>7, CallMoves DEF Neighbours
<1>4. ASSUME NEW c \in Movers, MoveRead(c) PROVE OrderingIInv'
  <2>1. PICK p : mover' = [mover EXCEPT ![c] =
                      [at |-> "moving", item |-> mover[c].item, pos |-> p,
                       lo |-> mover[c].lo, hi |-> mover[c].hi, clean |-> mover[c].clean]]
                 /\ (mover[c].anchor.kind # "none" /\ mover[c].anchor.row \in Listed =>
                       p = IF mover[c].anchor.kind = "after"
                             THEN CalcBetween(position[mover[c].anchor.row], Nothing)
                             ELSE CalcBetween(Nothing, position[mover[c].anchor.row]))
    BY <1>4 DEF MoveRead
  <2> DEFINE m == [at |-> "moving", item |-> mover[c].item, pos |-> p,
                   lo |-> mover[c].lo, hi |-> mover[c].hi, clean |-> mover[c].clean]
  <2>2. mover' = [mover EXCEPT ![c] = m] /\ UNCHANGED <<position, landed>>
        /\ mover[c].at = "sent"
    BY <1>4, <2>1 DEF MoveRead
  <2>3. m.at = "moving" /\ m.item = mover[c].item /\ m.lo = mover[c].lo /\ m.hi = mover[c].hi
        /\ m.pos = p
    OBVIOUS
  <2>4. m.clean = mover[c].clean
    BY Zenon
  <2>5. m = Moving(m)
    BY <2>3, <2>4, Zenon DEF Moving
  <2> HIDE DEF m
  <2>6. m.item \in Items
    BY <1>0, <2>2, <2>3 DEF OrderingTypes
  <2>7. m.clean => Neighbours(m) /\ mover[c].anchor = Anchor(m.lo, m.hi)
    BY <1>0, <2>2, <2>3, <2>4 DEF DropsAreOnTheirWay, Neighbours
  <2>8. m.clean /\ m.lo = Nothing /\ m.hi # Nothing => m.pos = position[m.hi] - Stride
    BY <1>0, <2>1, <2>3, <2>7 DEF Neighbours, Anchor, CalcBetween, Listed
  <2>9. m.clean /\ m.hi = Nothing /\ m.lo # Nothing => m.pos = position[m.lo] + Stride
    BY <1>0, <2>1, <2>3, <2>7 DEF Neighbours, Anchor, CalcBetween, Listed
  <2> QED BY <2>2, <2>3, <2>5, <2>6, <2>7, <2>8, <2>9, CallMoves
<1>5. ASSUME NEW c \in Movers, CreateWrite(c) PROVE OrderingIInv'
  <2>1. CASE Fits(mover[c].pos) /\ position[mover[c].item] = Nothing
    <3>1. position' = [position EXCEPT ![mover[c].item] = mover[c].pos]
          /\ mover' = Disturb(c, mover) /\ landed' = Nothing
      BY <1>5, <2>1 DEF CreateWrite
    <3>2. mover[c].pos \in Int
      BY <2>1, OrderingAssumption DEF Fits, OrderingAssumption
    <3>3. position' \in [Items -> Int \cup {Nothing, Deleted}]
      BY <1>0, <3>1, <3>2 DEF OrderingTypes
    <3> QED BY <1>0, <3>1, <3>3, WritesDisturb DEF OrderingIInv, EndDropsLand
  <2>2. CASE ~(Fits(mover[c].pos) /\ position[mover[c].item] = Nothing)
    <3>1. mover' = [mover EXCEPT ![c] = DoneMover] /\ UNCHANGED <<position, landed>>
      BY <1>5, <2>2 DEF CreateWrite
    <3>2. DoneMover.at = "done"
      BY DEF DoneMover
    <3> QED BY <3>1, <3>2, CallMoves
  <2> QED BY <2>1, <2>2
<1>6. ASSUME NEW c \in Movers, MoveWrite(c) PROVE OrderingIInv'
  <2>1. CASE Fits(mover[c].pos) /\ position[mover[c].item] # Deleted
    <3>1. /\ position' = [position EXCEPT ![mover[c].item] = mover[c].pos]
          /\ mover' = Disturb(c, mover)
          /\ landed' = IF mover[c].clean
                         THEN [item |-> mover[c].item, lo |-> mover[c].lo, hi |-> mover[c].hi]
                         ELSE Nothing
          /\ mover[c].at = "moving"
      BY <1>6, <2>1 DEF MoveWrite
    <3>2. mover[c].pos \in Int
      BY <2>1, OrderingAssumption DEF Fits, OrderingAssumption
    <3>3. position' \in [Items -> Int \cup {Nothing, Deleted}]
      BY <1>0, <3>1, <3>2 DEF OrderingTypes
    <3>4. EndDropsLand'
      <4>1. CASE ~mover[c].clean
        BY <3>1, <4>1 DEF EndDropsLand
      <4>2. CASE mover[c].clean
        <5> DEFINE d == [item |-> mover[c].item, lo |-> mover[c].lo, hi |-> mover[c].hi]
        <5>1. landed' = d
          BY <3>1, <4>2
        <5>2. d.item = mover[c].item /\ d.lo = mover[c].lo /\ d.hi = mover[c].hi
          OBVIOUS
        <5> HIDE DEF d
        <5>3. /\ d.lo # Nothing => d.lo \in Items /\ d.lo # d.item /\ position[d.lo] \in Int
              /\ d.hi # Nothing => d.hi \in Items /\ d.hi # d.item /\ position[d.hi] \in Int
          BY <1>0, <3>1, <4>2, <5>2 DEF DropsAreOnTheirWay, Neighbours, Listed, OrderingTypes
        <5>4. /\ d.lo = Nothing /\ d.hi # Nothing => mover[c].pos = position[d.hi] - Stride
              /\ d.hi = Nothing /\ d.lo # Nothing => mover[c].pos = position[d.lo] + Stride
          BY <1>0, <3>1, <4>2, <5>2 DEF DropsAreOnTheirWay
        <5>5. /\ position'[d.item] = mover[c].pos
              /\ d.lo # Nothing => position'[d.lo] = position[d.lo]
              /\ d.hi # Nothing => position'[d.hi] = position[d.hi]
          BY <1>0, <3>1, <5>2, <5>3 DEF OrderingTypes
        <5>6. (d.lo # Nothing /\ d.hi # Nothing)
              \/ (/\ d.lo # Nothing => position'[d.lo] < position'[d.item]
                  /\ d.hi # Nothing => position'[d.item] < position'[d.hi])
          BY <1>0, <3>2, <5>3, <5>4, <5>5
        <5> QED BY <5>1, <5>6 DEF EndDropsLand, Between
      <4> QED BY <4>1, <4>2
    <3> QED BY <1>0, <3>1, <3>3, <3>4, WritesDisturb DEF OrderingIInv
  <2>2. CASE ~(Fits(mover[c].pos) /\ position[mover[c].item] # Deleted)
    <3>1. mover' = [mover EXCEPT ![c] = DoneMover] /\ UNCHANGED <<position, landed>>
      BY <1>6, <2>2 DEF MoveWrite
    <3>2. DoneMover.at = "done"
      BY DEF DoneMover
    <3> QED BY <3>1, <3>2, CallMoves
  <2> QED BY <2>1, <2>2
<1>7. ASSUME NEW c \in Movers, Reorder(c) PROVE OrderingIInv'
  <2>0. PICK S \in SUBSET Listed : \E place \in Bijection(S, 1..Cardinality(S)) :
          Cardinality(S) <= MaxBatch /\ position' = [i \in Items |-> IF i \in S THEN Renorm * place[i] ELSE position[i]]
    BY <1>7 DEF Reorder
  <2>1. PICK place \in Bijection(S, 1..Cardinality(S)) :
          position' = [i \in Items |-> IF i \in S THEN Renorm * place[i] ELSE position[i]]
    BY <2>0
  <2>2. place \in [S -> 1..Cardinality(S)]
    BY DEF Bijection, Injection, Surjection
  <2>3. ASSUME NEW i \in S PROVE Renorm * place[i] \in Int
    <3>1. place[i] \in Int
      BY <2>2, <2>3
    <3> QED BY <1>0, <3>1
  <2>4. position' \in [Items -> Int \cup {Nothing, Deleted}]
    BY <1>0, <2>1, <2>3 DEF OrderingTypes
  <2> QED BY <1>0, <1>7, <2>4, WritesDisturb DEF Reorder, OrderingIInv, EndDropsLand
<1>8. ASSUME NEW c \in Movers, NEW i \in Items, DeleteRow(c, i) PROVE OrderingIInv'
  <2>1. position' \in [Items -> Int \cup {Nothing, Deleted}]
    BY <1>0, <1>8 DEF DeleteRow, OrderingTypes
  <2> QED BY <1>0, <1>8, <2>1, WritesDisturb DEF DeleteRow, OrderingIInv, EndDropsLand
<1> QED BY <1>1, <1>2, <1>3, <1>4, <1>5, <1>6, <1>7, <1>8 DEF OrderingNext

\* Every position on the list is one the column can hold.
PositionsFit == \A i \in Listed : Fits(position[i])

\* A batch numbers its rows below the limit.
LEMMA BatchFits ==
  ASSUME NEW S, IsFiniteSet(S), Cardinality(S) <= MaxBatch, NEW n \in 1..Cardinality(S)
  PROVE  Fits(Renorm * n)
<1>1. /\ n \in Nat /\ MaxBatch \in Nat /\ Renorm \in Nat /\ Limit \in Nat /\ Renorm * MaxBatch < Limit
      /\ n <= MaxBatch
  BY FS_CardinalityType, OrderingAssumption DEF OrderingAssumption
<1>2. PICK d \in Nat : MaxBatch = n + d
  <2>1. MaxBatch - n \in Nat /\ MaxBatch = n + (MaxBatch - n)
    BY <1>1
  <2> QED BY <2>1
<1>3. /\ Renorm * (n + d) = Renorm * n + Renorm * d
      /\ Renorm * n \in Nat /\ Renorm * d \in Nat
  BY <1>1, <1>2
<1>4. Renorm * n < Limit
  BY <1>1, <1>2, <1>3
<1> QED BY <1>1, <1>3, <1>4 DEF Fits

\* No step stores a position that does not fit.
LEMMA FitStepHolds ==
  ASSUME OrderingIInv, PositionsFit, [OrderingNext]_orderingVars
  PROVE  PositionsFit'
<1>0. OrderingTypes /\ \A i \in Items : position[i] \notin {Nothing, Deleted} => Fits(position[i])
  BY DEF OrderingIInv, PositionsFit, Listed
<1>1. SUFFICES ASSUME NEW i \in Items, position'[i] \notin {Nothing, Deleted}
               PROVE  Fits(position'[i])
  BY DEF PositionsFit, Listed, Fits
<1>2. CASE position' = position
  BY <1>0, <1>1, <1>2
<1>3. ASSUME NEW c \in Movers, CreateWrite(c) \/ MoveWrite(c) PROVE Fits(position'[i])
  <2>1. \/ position' = position
        \/ Fits(mover[c].pos) /\ position' = [position EXCEPT ![mover[c].item] = mover[c].pos]
    BY <1>3 DEF CreateWrite, MoveWrite
  <2> QED BY <1>0, <1>1, <2>1 DEF OrderingTypes
<1>4. ASSUME NEW c \in Movers, Reorder(c) PROVE Fits(position'[i])
  <2>0. PICK S \in SUBSET Listed : \E place \in Bijection(S, 1..Cardinality(S)) :
          /\ Cardinality(S) <= MaxBatch
          /\ position' = [j \in Items |-> IF j \in S THEN Renorm * place[j] ELSE position[j]]
    BY <1>4 DEF Reorder
  <2>1. PICK place \in Bijection(S, 1..Cardinality(S)) :
          /\ Cardinality(S) <= MaxBatch
          /\ position' = [j \in Items |-> IF j \in S THEN Renorm * place[j] ELSE position[j]]
    BY <2>0
  <2>2. place \in [S -> 1..Cardinality(S)]
    BY DEF Bijection, Injection, Surjection
  <2>3. IsFiniteSet(S)
    BY FS_Subset, OrderingAssumption DEF OrderingAssumption, Listed
  <2>4. CASE i \in S
    <3>1. Fits(Renorm * place[i])
      BY <2>1, <2>2, <2>3, <2>4, BatchFits
    <3> QED BY <2>1, <2>4, <3>1
  <2>5. CASE i \notin S
    BY <1>0, <1>1, <2>1, <2>5
  <2> QED BY <2>4, <2>5
<1>5. ASSUME NEW c \in Movers, NEW j \in Items, DeleteRow(c, j) PROVE Fits(position'[i])
  BY <1>0, <1>1, <1>5 DEF DeleteRow, OrderingTypes
<1> QED BY <1>2, <1>3, <1>4, <1>5 DEF OrderingNext, orderingVars, CreateRead, Drop, MoveRead

\* Only positions the column can hold are stored (CreateWrite, MoveWrite), those of
\* a batch included, which names 200 rows at most (reorderChannels).
THEOREM PositionsHold == OrderingSpec => []OrderingTypeOK
<1>1. OrderingInit => PositionsFit
  BY DEF OrderingInit, PositionsFit, Listed
<1>2. OrderingIInv /\ PositionsFit => OrderingTypeOK
  BY DEF OrderingIInv, OrderingTypes, PositionsFit, OrderingTypeOK
<1> QED BY <1>1, <1>2, OrderingInitHolds, OrderingStepHolds, FitStepHolds, PTL DEF OrderingSpec

\* A row dropped at the top or at the bottom of a list lands there, whatever other
\* moves, creations, reorders and deletions there were before, for any stride and
\* any list (calcBetween and the anchors, channels.service.ts, positioning).
THEOREM EndDropsHold == OrderingSpec => []EndDropsLand
<1>1. OrderingIInv => EndDropsLand
  BY DEF OrderingIInv
<1> QED BY <1>1, OrderingInitHolds, OrderingStepHolds, PTL DEF OrderingSpec
=============================================================================
