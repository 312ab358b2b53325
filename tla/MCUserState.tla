---------------------------- MODULE MCUserState ----------------------------
(* Small instances of what is kept for one user, for TLC: a behaviour is one *)
(* of TempEvict (the sockets of the user's devices), of ReadState (the read  *)
(* cursors those devices move), of Session (the refresh tokens of one        *)
(* browser) or of UploadTray (the files of a message being written there);   *)
(* the others stay in one initial state.                                     *)
EXTENDS TempEvict, ReadState, Browser, TLC

CONSTANTS x1, x2, x3, y1, y2, g1

Three == {x1, x2, x3}
Two == {y1, y2}
OneChannel == {g1}

VARIABLE part \* the component that runs

Init ==
  /\ part \in {"evict", "read", "session", "tray"}
  /\ EvictInit /\ SessionInit /\ TrayInit
  /\ ReadInit /\ (part # "read" => latest = Zero /\ cache = NoCache)

Next ==
  \/ /\ part = "evict" /\ EvictNext
     /\ UNCHANGED <<part, readVars, sessionVars, trayVars>>
  \/ /\ part = "read" /\ ReadNext
     /\ UNCHANGED <<part, evictVars, sessionVars, trayVars>>
  \/ /\ part = "session" /\ SessionNext
     /\ UNCHANGED <<part, evictVars, readVars, trayVars>>
  \/ /\ part = "tray" /\ TrayNext
     /\ UNCHANGED <<part, evictVars, readVars, sessionVars>>

Spec == Init /\ [][Next]_<<part, evictVars, readVars, sessionVars, trayVars>>

\* The component that runs keeps its types; the others do not move.
UserStateTypeOK ==
  CASE part = "evict" -> EvictTypeOK
    [] part = "read" -> ReadTypeOK
    [] part = "session" -> SessionTypeOK
    [] part = "tray" -> TrayTypeOK

Symmetry == Permutations(Three)
=============================================================================
