---------------------------- MODULE MCTempEvict ----------------------------
(* Small instances of TempEvict for TLC. *)
EXTENDS TempEvict, TLC

CONSTANTS s1, s2, s3

Two == {s1, s2}
Three == {s1, s2, s3}

Symmetry == Permutations(Three)
=============================================================================
