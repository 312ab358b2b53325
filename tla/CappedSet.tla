----------------------------- MODULE CappedSet -----------------------------
(***************************************************************************)
(* What the pins of a channel, the kinds of reaction of a message, the     *)
(* uses of an invite and the members of a group DM promise alike: a set    *)
(* that takes more only as far as its cap, whoever asks at the same time,  *)
(* and that no other step makes grow.                                      *)
(***************************************************************************)
EXTENDS Naturals, FiniteSets

CONSTANT Cap  \* the most it may hold

VARIABLE held

WithinCap == IsFiniteSet(held) /\ Cardinality(held) <= Cap

CapInit == WithinCap

Take == held \subseteq held' /\ WithinCap'
Free == held' \subseteq held

CapSpec == CapInit /\ [][Take \/ Free]_held
=============================================================================
