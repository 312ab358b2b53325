----------------------------- MODULE MCOrdering -----------------------------
(* A small instance of Ordering for TLC. *)
EXTENDS Ordering

CONSTANTS i1, i2, i3, m1, m2

MCItems == {i1, i2, i3}
MCMovers == {m1, m2}
=============================================================================
