------------------------------ MODULE Browser ------------------------------
(* What a browser keeps for its user between requests: the refresh token of *)
(* its cookie, which its tabs share (Session), and the attachments of the   *)
(* message being composed in one of them (UploadTray).                      *)
EXTENDS Session, UploadTray

\* The two do not meet: a request that the tray makes and that finds its access
\* token expired is a look-up and a rotation of Session like any other.
BrowserSpec == SessionSpec /\ TraySpec

\* The user stays logged in, and loses no attachment (token.service.ts:141,
\* useAttachmentUpload.ts:531).
BrowserSound == SessionSound /\ TraySound
=============================================================================
