---------------------------- MODULE MCDelivery ----------------------------
(* Small instances of the way of a message, for TLC: the send and its       *)
(* retries (MessageSend), the reply counter of a thread (ThreadCount) and   *)
(* the dispatch of the recorded events (Outbox). A behaviour is one of one  *)
(* of them, the others stay in one initial state.                           *)
EXTENDS Outbox, MessageSend, ThreadCount, TLC

CONSTANTS e1, e2, r1, r2, a1, a2, d1, d2, n1

MCEvents == {e1, e2}
MCReplicas == {r1, r2}
MCTimes == 1..2

TwoReplies == {a1, a2}
OneBroadcast == {a1}
TwoDeletes == {d1, d2}
OneCleaner == {n1}

\* The drafts the send is checked with: an attachment and a mention of
\* everybody, a slow channel, a sender for whom some gate is shut.
Plain == [att |-> FALSE, slow |-> FALSE, broad |-> FALSE, gated |-> FALSE]
MCDrafts == {[Plain EXCEPT !.att = TRUE, !.broad = TRUE],
             [Plain EXCEPT !.slow = TRUE], [Plain EXCEPT !.gated = TRUE]}

\* A bound of the send: its third try is a confirmation.
ThirdConfirms == try'[3].at = "unsent" \/ try'[3].sure

VARIABLE part \* the component that runs

DeliveryInit ==
  /\ part \in {"outbox", "send", "thread"}
  /\ Init /\ (part # "outbox" => occurredAt = [e \in Events |-> 1])
  /\ occurredAt[e1] = 1 \* which event is the older one is a matter of names
  /\ SendInit /\ draft \in IF part = "send" THEN MCDrafts ELSE {Plain}
  /\ ThreadInit

DeliveryNext ==
  \/ /\ part = "outbox" /\ Next
     /\ UNCHANGED <<part, sendVars, threadVars>>
  \/ /\ part = "send" /\ SendNext /\ ThirdConfirms
     /\ UNCHANGED <<part, vars, threadVars>>
  \/ /\ part = "thread" /\ ThreadNext
     /\ UNCHANGED <<part, vars, sendVars>>

OutboxPart(A) == part = "outbox" /\ A /\ UNCHANGED <<part, sendVars, threadVars>>
SendPart(A) == part = "send" /\ A /\ UNCHANGED <<part, vars, threadVars>>
ThreadPart(A) == part = "thread" /\ A /\ UNCHANGED <<part, vars, sendVars>>
allVars == <<part, vars, sendVars, threadVars>>

\* Each component has its own fairness in the behaviours in which it runs. As
\* only one of them runs, a fair action of each may share a conjunct.
DeliverySpec ==
  /\ DeliveryInit /\ [][DeliveryNext]_allVars
  /\ WF_allVars(OutboxPart(Dispatch(r1)) \/ SendPart(TimeOut) \/ ThreadPart(SendReply(a1)))
  /\ WF_allVars(OutboxPart(Dispatch(r2)) \/ SendPart(Answered) \/ ThreadPart(SendReply(a2)))
  /\ WF_allVars(OutboxPart(Boot(r1)) \/ SendPart(Echo) \/ ThreadPart(SoftDelete(d1) \/ BreakDeadlock(d1)))
  /\ WF_allVars(OutboxPart(Boot(r2)) \/ SendPart(ServerTry(1)) \/ ThreadPart(SoftDelete(d2) \/ BreakDeadlock(d2)))
  /\ WF_allVars(SendPart(ServerTry(2)) \/ ThreadPart(BulkDelete))
  /\ WF_allVars(SendPart(ServerTry(3)) \/ ThreadPart(Reconcile(n1)))

\* The component that runs keeps its types; the others do not move.
DeliveryTypeOK ==
  CASE part = "outbox" -> TypeOK
    [] part = "send" -> SendTypeOK
    [] part = "thread" -> ThreadTypeOK
=============================================================================
