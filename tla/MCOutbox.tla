------------------------------ MODULE MCOutbox ------------------------------
(* Small instances of Outbox for TLC. *)
EXTENDS Outbox, TLC

CONSTANTS e1, e2, r1, r2

MCEvents == {e1, e2}
MCReplicas == {r1, r2}
MCTimes == 1..2

Symmetry == Permutations(MCEvents) \cup Permutations(MCReplicas)
=============================================================================
