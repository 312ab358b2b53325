------------------------------ MODULE Session ------------------------------
(* The session of a user in one browser (auth/services/token.service.ts,    *)
(* auth.controller.ts, lib/api.ts, AuthProvider.tsx): a family of refresh   *)
(* tokens of which the browser's cookie names the latest. Its tabs share    *)
(* the cookie and know nothing of each other, and one tab may have several  *)
(* requests that met a 401 at once: each is a call of its own here.         *)
EXTENDS Naturals, Sequences, FiniteSets

CONSTANTS
  Tabs,      \* requests of the browser's tabs, each one at a time
  MaxTokens, \* bound: tokens that are ever issued
  MaxCuts,   \* bound: answers that are lost
  MaxEnds    \* bound: revocations from another device

ASSUME SessionAssumption == MaxTokens \in Nat /\ MaxCuts \in Nat /\ MaxEnds \in Nat

VARIABLES
  tokens,  \* the RefreshToken rows, in the order of their creation
  jar,     \* the cookie: the token it names, 0 when there is none
  req,     \* per call: how far it is, the cookie it carries, the token it brings back
  cuts,    \* answers lost so far
  ends,    \* revocations so far
  ended,   \* history: families that were to be logged out
  crossed, \* history: families of which two calls carried one cookie at once
  cut,     \* history: families of which the answer with a new token was lost
  raced    \* history: families with a token made of a parent that was revoked by then

sessionVars == <<tokens, jar, req, cuts, ends, ended, crossed, cut, raced>>

Idle == [at |-> "idle", has |-> 0, gets |-> 0]
Phases == {"idle", "refresh", "found", "rotated", "refused", "leaving", "left",
           "loggedIn"}
Family(i) == tokens[i].fam
Families == {Family(i) : i \in DOMAIN tokens}
LiveOf(f) == {i \in DOMAIN tokens : Family(i) = f /\ ~tokens[i].revoked}
Revoked(S) == [i \in DOMAIN tokens |-> IF i \in S THEN [tokens[i] EXCEPT !.revoked = TRUE]
                                       ELSE tokens[i]]
Carriers(c) == {d \in Tabs \ {c} : req[d].has # 0 /\ Family(req[d].has) = Family(jar)}

\* The page is open and its user has logged in, in the family 1.
SessionInit ==
  /\ tokens = <<[fam |-> 1, revoked |-> FALSE]>> /\ jar = 1
  /\ req = [c \in Tabs |-> Idle]
  /\ cuts = 0 /\ ends = 0 /\ ended = {} /\ crossed = {} /\ cut = {} /\ raced = {}

\* A request is sent with the cookie of the moment; it may cross another one.
Send(c, what) ==
  /\ req[c].at = "idle" /\ jar # 0
  /\ req' = [req EXCEPT ![c] = [at |-> what, has |-> jar, gets |-> 0]]
  /\ crossed' = IF Carriers(c) = {} THEN crossed ELSE crossed \cup {Family(jar)}
  /\ UNCHANGED <<tokens, jar, cuts, ends, ended, cut, raced>>

\* apiRequest met a 401, or the page is being loaded: refreshOnce.
SendRefresh(c) == Len(tokens) < MaxTokens /\ Send(c, "refresh")
SendLogout(c) == Send(c, "leaving")

\* rotate looks the token up. One that is revoked was used before: its whole
\* family is revoked, and the call is refused.
Look(c) ==
  /\ req[c].at = "refresh"
  /\ IF tokens[req[c].has].revoked
     THEN /\ req' = [req EXCEPT ![c].at = "refused"]
          /\ tokens' = Revoked(LiveOf(Family(req[c].has)))
     ELSE req' = [req EXCEPT ![c].at = "found"] /\ UNCHANGED tokens
  /\ UNCHANGED <<jar, cuts, ends, ended, crossed, cut, raced>>

\* Mutant: the parent stays usable.
KeepParent(parent) == Append(tokens, [fam |-> Family(parent), revoked |-> FALSE])

Replaced(parent) == Append(Revoked({parent}), [fam |-> Family(parent), revoked |-> FALSE])

\* The transaction of rotate: it does not ask again whether the parent is live.
Rotate(c) ==
  /\ req[c].at = "found"
  /\ LET parent == req[c].has
     IN /\ tokens' = Replaced(parent)
        /\ raced' = IF tokens[parent].revoked THEN raced \cup {Family(parent)} ELSE raced
  /\ req' = [req EXCEPT ![c].at = "rotated", ![c].gets = Len(tokens) + 1]
  /\ UNCHANGED <<jar, cuts, ends, ended, crossed, cut>>

\* Mutant: the logout clears the cookie and nothing else.
RevokeNone(i) == tokens

\* revokeRaw revokes the token the request carries, and no other.
RevokeRaw(i) == Revoked({i})

Logout(c) ==
  /\ req[c].at = "leaving"
  /\ tokens' = RevokeRaw(req[c].has)
  /\ req' = [req EXCEPT ![c].at = "left"]
  /\ ended' = ended \cup {Family(req[c].has)}
  /\ UNCHANGED <<jar, cuts, ends, crossed, cut, raced>>

\* The page has no session any more and the user logs in: a family of its own.
Login(c) ==
  /\ req[c].at = "idle" /\ Len(tokens) < MaxTokens
  /\ jar \notin {i \in DOMAIN tokens : ~tokens[i].revoked}
  /\ tokens' = Append(tokens, [fam |-> Len(tokens) + 1, revoked |-> FALSE])
  /\ req' = [req EXCEPT ![c] = [at |-> "loggedIn", has |-> 0, gets |-> Len(tokens) + 1]]
  /\ UNCHANGED <<jar, cuts, ends, ended, crossed, cut, raced>>

\* The answer sets the cookie, or takes it away; a refused refresh leaves it.
Reply(c) ==
  /\ \/ req[c].at \in {"rotated", "loggedIn"} /\ jar' = req[c].gets
     \/ req[c].at = "left" /\ jar' = 0
     \/ req[c].at = "refused" /\ UNCHANGED jar
  /\ req' = [req EXCEPT ![c] = Idle]
  /\ UNCHANGED <<tokens, cuts, ends, ended, crossed, cut, raced>>

\* The connection breaks after the server has done its part.
ReplyLost(c) ==
  /\ req[c].at \in {"rotated", "loggedIn", "left", "refused"} /\ cuts < MaxCuts
  /\ cuts' = cuts + 1
  /\ cut' = IF req[c].at = "rotated" THEN cut \cup {Family(req[c].gets)} ELSE cut
  /\ req' = [req EXCEPT ![c] = Idle]
  /\ UNCHANGED <<tokens, jar, ends, ended, crossed, raced>>

\* The session is ended from elsewhere: revokeSession from another device's list
\* of sessions, revokeAllExceptFamily there, or a password reset.
EndElsewhere(f) ==
  /\ ends < MaxEnds
  /\ ends' = ends + 1
  /\ tokens' = Revoked(LiveOf(f)) /\ ended' = ended \cup {f}
  /\ UNCHANGED <<jar, req, cuts, crossed, cut, raced>>

SessionNext ==
  \/ \E c \in Tabs : SendRefresh(c) \/ SendLogout(c) \/ Look(c) \/ Rotate(c)
                      \/ Logout(c) \/ Login(c) \/ Reply(c) \/ ReplyLost(c)
  \/ \E f \in Families : EndElsewhere(f)

SessionSpec == SessionInit /\ [][SessionNext]_sessionVars

-----------------------------------------------------------------------------
\* Type invariant (token.service.ts, the row of RefreshToken; the cookie).
SessionTypeOK ==
  /\ DOMAIN tokens = 1..Len(tokens)
  /\ \A i \in DOMAIN tokens : tokens[i] \in [fam : DOMAIN tokens, revoked : BOOLEAN]
  /\ jar \in 0..Len(tokens)
  /\ req \in [Tabs -> [at : Phases, has : 0..Len(tokens), gets : 0..Len(tokens)]]
  /\ cuts \in 0..MaxCuts /\ ends \in 0..MaxEnds
  /\ ended \cup crossed \cup cut \cup raced \subseteq Families

\* A browser whose requests did not cross, of which no answer was lost, and whose
\* session nobody ended, holds a token it can use, or is about to receive one:
\* the refresh of token.service.ts:106-162 never logs its owner out.
StaysLoggedIn ==
  jar # 0 /\ Family(jar) \notin ended \cup crossed \cup cut =>
    \/ ~tokens[jar].revoked
    \/ \E c \in Tabs : req[c].at = "rotated" /\ req[c].has = jar

\* A family has one token that works (the page's comment on listSessions,
\* token.service.ts:195-198: a session is a family), unless two rotations of one
\* parent overlapped: line 145 does not look again. A later reuse repairs it.
OneLive == \A f \in Families \ raced : Cardinality(LiveOf(f)) <= 1

\* What was ended stays ended, unless a rotation was between its look-up and its
\* transaction, or the logout carried a cookie another call had just rotated.
EndedStaysEnded ==
  \A f \in ended \ (raced \cup crossed \cup cut) : LiveOf(f) = {}

SessionSound == StaysLoggedIn /\ OneLive /\ EndedStaysEnded
=============================================================================
