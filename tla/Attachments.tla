---------------------------- MODULE Attachments ----------------------------
(***************************************************************************)
(* Upload sessions, attachments, the messages they are linked to and the   *)
(* sweep that collects what nobody has used                                *)
(* (AttachmentUploadService.createUploadUrl and complete, the attachments  *)
(* of MessagesService.send, AttachmentGcService.sweep).                    *)
(*                                                                         *)
(* A session, its object in the store and its key are one model value; an  *)
(* attachment is named by the call of complete that creates it.  A call    *)
(* names one session: those of a longer list are handled one by one, each  *)
(* like a call of its own.  The client uploads to a session once.  Left    *)
(* out: limits and policies of uploading, the caps per user and message,   *)
(* the legacy presign and finalize.                                        *)
(***************************************************************************)
EXTENDS Naturals, FiniteSets

CONSTANTS
  Uploads,    \* upload sessions
  Completes,  \* calls of complete, and the attachments they create
  Sends,      \* messages sent with attachments
  NoSend      \* messageId is null

ASSUME AttachmentsAssumption == NoSend \notin Sends

VARIABLES
  session,     \* session[s]: "none", "open", "completed", "gone"
  lapsed,     \* sessions past expiresAt
  object,      \* object[s]: "none", "good", "bad" (the bytes are not of the type)
  attachment,  \* attachment[c]: [of, msg]; of = {}: no row
  aged,        \* attachments older than the grace of 24 hours
  completing,  \* completing[c]: [at, s, msg]
  sending,     \* sending[m]: [at, atts]
  sweeping,    \* [at, sessions, atts]: what a sweep has selected and not done
  doomed       \* history: sessions a sweep was right to select

attachmentVars == <<session, lapsed, object, attachment, aged, completing, sending,
                    sweeping, doomed>>

Rows == {c \in Completes : attachment[c].of # {}}
Unlinked == {c \in Rows : attachment[c].msg = NoSend}
NoAttachment == [of |-> {}, msg |-> NoSend]
Selected == sweeping.sessions \cup UNION {attachment[c].of : c \in sweeping.atts}

AttachmentsTypeOK ==
  /\ session \in [Uploads -> {"none", "open", "completed", "gone"}]
  /\ object \in [Uploads -> {"none", "good", "bad"}]
  /\ lapsed \subseteq Uploads /\ doomed \subseteq Uploads /\ aged \subseteq Completes
  /\ attachment \in [Completes -> [of : {{s} : s \in Uploads} \cup {{}},
                                   msg : Sends \cup {NoSend}]]
  /\ \A c \in Completes : completing[c].at \in {"new", "head", "close", "done"}
  /\ sending \in [Sends -> [at : {"new", "link", "done"}, atts : SUBSET Completes]]
  /\ sweeping \in [at : {"idle", "sessions"}, sessions : SUBSET Uploads,
                   atts : SUBSET Completes]

AttachmentsInit ==
  /\ session = [s \in Uploads |-> "none"] /\ object = [s \in Uploads |-> "none"]
  /\ lapsed = {} /\ aged = {} /\ doomed = {}
  /\ attachment = [c \in Completes |-> NoAttachment]
  /\ completing = [c \in Completes |-> [at |-> "new", s |-> {}, msg |-> NoSend]]
  /\ sending = [m \in Sends |-> [at |-> "new", atts |-> {}]]
  /\ sweeping = [at |-> "idle", sessions |-> {}, atts |-> {}]

CompleteEnds(c) == completing' = [completing EXCEPT ![c].at = "done"]

-----------------------------------------------------------------------------

\* createUploadUrl, and the client's upload of what it chose.
CreateUploadUrl(s) ==
  /\ session[s] = "none"
  /\ session' = [session EXCEPT ![s] = "open"]
  /\ UNCHANGED <<lapsed, object, attachment, aged, completing, sending, sweeping, doomed>>

Upload(s, bytes) ==
  /\ session[s] = "open" /\ object[s] = "none" /\ s \notin lapsed
  /\ object' = [object EXCEPT ![s] = bytes]
  /\ UNCHANGED <<session, lapsed, attachment, aged, completing, sending, sweeping, doomed>>

\* The clock passes expiresAt, or 24 hours after createdAt.
SessionExpires(s) ==
  /\ session[s] # "none" /\ s \notin lapsed
  /\ lapsed' = lapsed \cup {s}
  /\ UNCHANGED <<session, object, attachment, aged, completing, sending, sweeping, doomed>>

GraceEnds(c) ==
  /\ c \in Rows \ aged
  /\ aged' = aged \cup {c}
  /\ UNCHANGED <<session, lapsed, object, attachment, completing, sending, sweeping, doomed>>

-----------------------------------------------------------------------------

\* complete: the session is open and not lapsed as of the start of the call;
\* a message it names has been sent.
Complete(c, s, m) ==
  /\ completing[c].at = "new"
  /\ m # NoSend => sending[m].at = "done"
  /\ completing' = [completing EXCEPT ![c] =
       [at |-> IF session[s] = "open" /\ s \notin lapsed THEN "head" ELSE "done",
        s |-> {s}, msg |-> m]]
  /\ UNCHANGED <<session, lapsed, object, attachment, aged, sending, sweeping, doomed>>

\* headObject and the first bytes; bytes of another type take the object and
\* the session away.
CheckObject(c) ==
  \E s \in completing[c].s :
    /\ completing[c].at = "head"
    /\ IF object[s] = "bad"
       THEN /\ object' = [object EXCEPT ![s] = "none"]
            /\ session' = [session EXCEPT ![s] = "gone"]
            /\ CompleteEnds(c)
       ELSE /\ completing' = [completing EXCEPT ![c].at =
                                IF object[s] = "none" THEN "done" ELSE "close"]
            /\ UNCHANGED <<object, session>>
    /\ UNCHANGED <<lapsed, attachment, aged, sending, sweeping, doomed>>

\* Mutant: the check made before is enough.
CloseUnchecked(c) ==
  \E s \in completing[c].s :
    /\ completing[c].at = "close"
    /\ CompleteEnds(c)
    /\ IF session[s] # "gone"
       THEN /\ session' = [session EXCEPT ![s] = "completed"]
            /\ attachment' = [attachment EXCEPT ![c] = [of |-> {s}, msg |-> completing[c].msg]]
       ELSE UNCHANGED <<session, attachment>>
    /\ UNCHANGED <<lapsed, object, aged, sending, sweeping, doomed>>

\* The transaction: closes the session if it is open still, and creates the row.
CloseUpload(c) ==
  \E s \in completing[c].s :
    /\ completing[c].at = "close"
    /\ CompleteEnds(c)
    /\ IF session[s] = "open"
       THEN /\ session' = [session EXCEPT ![s] = "completed"]
            /\ attachment' = [attachment EXCEPT ![c] = [of |-> {s}, msg |-> completing[c].msg]]
       ELSE UNCHANGED <<session, attachment>>
    /\ UNCHANGED <<lapsed, object, aged, sending, sweeping, doomed>>

-----------------------------------------------------------------------------

\* send: all of them are unlinked, before the transaction.
Send(m, atts) ==
  /\ sending[m].at = "new"
  /\ atts # {} /\ atts \subseteq Unlinked
  /\ sending' = [sending EXCEPT ![m] = [at |-> "link", atts |-> atts]]
  /\ UNCHANGED <<session, lapsed, object, attachment, aged, completing, sweeping, doomed>>

\* Mutant: linked by id alone.
LinkAny(m) ==
  /\ sending[m].at = "link"
  /\ sending' = [sending EXCEPT ![m].at = "done"]
  /\ attachment' = [c \in Completes |->
       IF c \in sending[m].atts \cap Rows THEN [attachment[c] EXCEPT !.msg = m]
       ELSE attachment[c]]
  /\ UNCHANGED <<session, lapsed, object, aged, completing, sweeping, doomed>>

\* The transaction links those that are unlinked still; the message is sent
\* whether or not that is all of them.
Link(m) ==
  /\ sending[m].at = "link"
  /\ sending' = [sending EXCEPT ![m].at = "done"]
  /\ attachment' = [c \in Completes |->
       IF c \in sending[m].atts \cap Unlinked THEN [attachment[c] EXCEPT !.msg = m]
       ELSE attachment[c]]
  /\ UNCHANGED <<session, lapsed, object, aged, completing, sweeping, doomed>>

-----------------------------------------------------------------------------
(* The sweep, one at a time: unlinked attachments past the grace first,    *)
(* then the sessions that have lapsed.                                    *)

\* What may go by the rules: nobody has linked it in 24 hours, or nobody has
\* completed it in time.
Abandoned ==
  UNION {attachment[c].of : c \in Unlinked \cap aged}
    \cup {s \in lapsed : session[s] = "open"}

\* Mutant: no grace for what has just been uploaded.
SweepAllUnlinked ==
  /\ sweeping.at = "idle"
  /\ sweeping' = [at |-> "sessions", sessions |-> {}, atts |-> Unlinked]
  /\ doomed' = doomed \cup (Abandoned \cap UNION {attachment[c].of : c \in Unlinked})
  /\ UNCHANGED <<session, lapsed, object, attachment, aged, completing, sending>>

SweepAttachments ==
  /\ sweeping.at = "idle"
  /\ sweeping' = [at |-> "sessions", sessions |-> {}, atts |-> Unlinked \cap aged]
  /\ doomed' = doomed \cup UNION {attachment[c].of : c \in Unlinked \cap aged}
  /\ UNCHANGED <<session, lapsed, object, attachment, aged, completing, sending>>

SweepSessions ==
  LET stale == {s \in lapsed : session[s] = "open"} IN
  /\ sweeping.at = "sessions" /\ sweeping.atts = {} /\ sweeping.sessions = {}
  /\ sweeping' = [at |-> "idle", sessions |-> stale, atts |-> {}]
  /\ doomed' = doomed \cup stale
  /\ UNCHANGED <<session, lapsed, object, attachment, aged, completing, sending>>

\* deleteObject, which may fail and leave both for the next sweep.
SweepObject(s) ==
  /\ s \in Selected /\ object[s] # "none"
  /\ \/ object' = [object EXCEPT ![s] = "none"] /\ UNCHANGED sweeping
     \/ /\ UNCHANGED object
        /\ sweeping' = [sweeping EXCEPT !.sessions = @ \ {s},
                                        !.atts = {c \in @ : s \notin attachment[c].of}]
  /\ UNCHANGED <<session, lapsed, attachment, aged, completing, sending, doomed>>

\* Then the row goes, by its id, or its delete fails.
SweepRow(s) ==
  LET mine == {c \in sweeping.atts : s \in attachment[c].of} IN
  /\ s \in Selected /\ object[s] = "none"
  /\ sweeping' = [sweeping EXCEPT !.sessions = @ \ {s}, !.atts = @ \ mine]
  /\ \/ /\ attachment' = [c \in Completes |->
                            IF c \in mine THEN NoAttachment ELSE attachment[c]]
        /\ session' = IF s \in sweeping.sessions THEN [session EXCEPT ![s] = "gone"]
                      ELSE session
     \/ UNCHANGED <<attachment, session>>
  /\ UNCHANGED <<lapsed, object, aged, completing, sending, doomed>>

AttachmentsNext ==
  \/ \E s \in Uploads :
       \/ CreateUploadUrl(s) \/ SessionExpires(s) \/ SweepObject(s) \/ SweepRow(s)
       \/ \E bytes \in {"good", "bad"} : Upload(s, bytes)
       \/ \E c \in Completes, m \in Sends \cup {NoSend} : Complete(c, s, m)
  \/ \E c \in Completes : CheckObject(c) \/ CloseUpload(c) \/ GraceEnds(c)
  \/ \E m \in Sends : Link(m) \/ \E atts \in SUBSET Unlinked : Send(m, atts)
  \/ SweepAttachments \/ SweepSessions

AttachmentsSpec == AttachmentsInit /\ [][AttachmentsNext]_attachmentVars

-----------------------------------------------------------------------------

\* However many calls of complete name a session at once, it becomes one
\* attachment (complete, S54 C-01).
OneAttachmentPerUpload ==
  \A c, d \in Rows : attachment[c].of = attachment[d].of => c = d

\* An attachment of a message keeps its object, unless the sweep had chosen it
\* before, past the grace or past its session's end (sweep, S55 GC-1).
KeptUnlessAbandoned ==
  \A c \in Rows : \A s \in attachment[c].of : object[s] = "none" => s \in doomed

\* No upload is shown twice or lost before its time (complete, sweep).
AttachmentsSound == OneAttachmentPerUpload /\ KeptUnlessAbandoned

\* Two messages sent with the same attachment: it stays with the first
\* (send, updateMany of the unlinked only).
LinkedForGood ==
  [][\A c \in Rows \ Unlinked :
       attachment'[c] \in {attachment[c], NoAttachment}]_attachmentVars
=============================================================================
