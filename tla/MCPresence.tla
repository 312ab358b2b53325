---------------------------- MODULE MCPresence ----------------------------
(* Small instances of Presence for TLC. *)
EXTENDS Presence, TLC

CONSTANTS s1, s2, s3, n1, n2, p1

OneSession == {s1}
TwoSessions == {s1, s2}
ThreeSessions == {s1, s2, s3}
MCNodes == {n1, n2}
NoPatch == {}
OnePatch == {p1}

Symmetry == Permutations(ThreeSessions) \cup Permutations(MCNodes)
=============================================================================
