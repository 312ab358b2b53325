---------------------------- MODULE MCMembership ----------------------------
(* A small instance of Membership for TLC. *)
EXTENDS Membership

CONSTANTS u1, u2, u3, c1, c2, c3

MCUsers == {u1, u2, u3}
MCActs == {c1, c2, c3}
=============================================================================
