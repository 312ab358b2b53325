---------------------------- MODULE AtLeastOnce ----------------------------
(***************************************************************************)
(* What the transactional outbox promises to the rest of the API, without  *)
(* rows, claims, replicas or crashes: an event that was recorded may be    *)
(* handed to the subscribers up to Budget times, and it is acknowledged    *)
(* only after it was handed to them at least once.                         *)
(*                                                                         *)
(* Outbox.tla is shown to implement this specification.                    *)
(***************************************************************************)
EXTENDS Naturals

CONSTANTS Events,   \* the events business transactions record
          Budget    \* how often one event may be handed out

VARIABLES recorded,     \* events whose transaction committed
          deliveries,   \* deliveries[e]: how often e reached the subscribers
          acked         \* events the outbox will not hand out on its own again

vars == <<recorded, deliveries, acked>>

Init ==
  /\ recorded = {}
  /\ deliveries = [e \in Events |-> 0]
  /\ acked = {}

Record(e) ==
  /\ e \notin recorded
  /\ recorded' = recorded \cup {e}
  /\ UNCHANGED <<deliveries, acked>>

Deliver(e) ==
  /\ e \in recorded
  /\ deliveries[e] < Budget
  /\ deliveries' = [deliveries EXCEPT ![e] = @ + 1]
  /\ UNCHANGED <<recorded, acked>>

Acknowledge(e) ==
  /\ deliveries[e] > 0
  /\ acked' = acked \cup {e}
  /\ UNCHANGED <<recorded, deliveries>>

Next == \E e \in Events : Record(e) \/ Deliver(e) \/ Acknowledge(e)

Spec == Init /\ [][Next]_vars
=============================================================================
