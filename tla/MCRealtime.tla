---------------------------- MODULE MCRealtime ----------------------------
(* Small instances of the three components of the realtime gateway, for     *)
(* TLC: a behaviour is one of ChannelStream, of Presence or of Typing, the  *)
(* others stay in their initial state.                                      *)
EXTENDS ChannelStream, Presence, Typing, TLC

CONSTANTS r1, r2, s1, s2, p1

MCReplicas == {r1, r2}
MCHandshakes == {1}
TwoSessions == {s1, s2}
OnePatch == {p1}
TwoTypers == {1, 2}

VARIABLE part \* the component that runs

RealtimeInit == part \in {"stream", "presence", "typing"} /\ StreamInit /\ PresenceInit /\ TypingInit

RealtimeNext ==
  \/ /\ part = "stream" /\ (ServerNext \/ Sink \/ Drop)
     /\ UNCHANGED <<part, presenceVars, typingVars>>
  \/ /\ part = "presence" /\ PresenceNext
     /\ UNCHANGED <<part, serverVars, typingVars>>
  \/ /\ part = "typing" /\ TypingNext
     /\ UNCHANGED <<part, serverVars, presenceVars>>

realtimeVars == <<part, serverVars, presenceVars, typingVars>>

RealtimeSpec == RealtimeInit /\ [][RealtimeNext]_realtimeVars

\* The client reads a frame before the next step is taken: no step of the
\* server looks at the wire, so nothing but the order of the two is lost.
Eager == wire = <<>> \/ wire' = <<>> \/ conn' = "off"

\* Bound: one fault of the stream in one behaviour, of any kind.
OneFault == bounds.crash + bounds.append + bounds.lost + bounds.disconnect <= 1

\* The component that runs keeps its types; the others do not move.
RealtimeTypeOK ==
  CASE part = "stream" -> ServerTypeOK
    [] part = "presence" -> PresenceTypeOK
    [] part = "typing" -> TypingTypeOK

Symmetry == Permutations(MCReplicas) \cup Permutations(TwoSessions)
=============================================================================
