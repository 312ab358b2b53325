------------------------------ MODULE TempEvict ------------------------------
(***************************************************************************)
(* Eviction of a temporary member: the sockets of one user and one         *)
(* workspace, the Redis set that counts them, the delayed BullMQ job their *)
(* disconnects arm, and the worker that evicts.                            *)
(*                                                                         *)
(* The gateway runs one handleConnection and one handleDisconnect per      *)
(* socket, on any node; the two overlap when the transport breaks during   *)
(* the handshake.  Every Redis, queue and database call is a step.         *)
(***************************************************************************)
EXTENDS Naturals, FiniteSets

CONSTANTS
  Sockets,     \* socket ids, one per connection attempt
  MaxJoins,    \* bound on joins
  MaxFaults,   \* bound on calls that fail, other than SADD
  MaxLost,     \* bound on failed SADDs and expiries of the set
  MaxCrashes   \* bound on processes that die

ASSUME TempEvictAssumption ==
  /\ IsFiniteSet(Sockets)
  /\ {MaxJoins, MaxFaults, MaxLost, MaxCrashes} \subseteq Nat

VARIABLES
  row,      \* the WorkspaceMember row
  hs,       \* progress of handleConnection
  tracked,  \* the workspace is in the socket's temporaryWorkspaceIds
  cl,       \* progress of handleDisconnect, "no" while the transport is open
  set,      \* temp-evict:sockets:{userId}:{workspaceId}
  job,      \* the job of the fixed id; "kept" once completed or failed
  worker,   \* progress of TempEvictProcessor.process
  late,     \* history: sockets tracked since the last SCARD of the worker
  due,      \* history: a disconnect counted no socket, none was tracked since
  missed,   \* history: a call failed, or raced, on the way to the eviction
  used      \* joins, failures, losses and crashes so far

sockVars == <<hs, tracked, cl, set>>
evictHistory == <<late, due, missed>>
evictVars == <<row, sockVars, job, worker, evictHistory, used>>

EvictTypeOK ==
  /\ row \in {"none", "temporary", "permanent"}
  /\ hs \in [Sockets -> {"none", "rooms", "track", "cancel", "done"}]
  /\ tracked \in [Sockets -> BOOLEAN]
  /\ cl \in [Sockets -> {"no", "srem", "scard", "remove", "add", "done"}]
  /\ set \in SUBSET {s \in Sockets : tracked[s]}
  /\ job \in {"none", "delayed", "active", "kept"}
  /\ worker \in {"idle", "check", "find", "delete", "finish"}
  /\ worker # "idle" => job = "active"
  /\ late \in SUBSET Sockets /\ due \in BOOLEAN /\ missed \in BOOLEAN
  /\ used.join \in 0..MaxJoins /\ used.fault \in 0..MaxFaults
  /\ used.lost \in 0..MaxLost /\ used.crash \in 0..MaxCrashes

EvictInit ==
  /\ row = "none"
  /\ hs = [s \in Sockets |-> "none"]
  /\ tracked = [s \in Sockets |-> FALSE]
  /\ cl = [s \in Sockets |-> "no"]
  /\ set = {} /\ job = "none" /\ worker = "idle"
  /\ late = {} /\ due = FALSE /\ missed = FALSE
  /\ used = [join |-> 0, fault |-> 0, lost |-> 0, crash |-> 0]

Open(s) == hs[s] # "none" /\ cl[s] = "no"

Spend(kind, max) == used[kind] < max /\ used' = [used EXCEPT ![kind] = @ + 1]

\* Mutant: the job of the id is not removed first.
RemovedNot == job

\* queue.remove(jobId): a job that is being processed cannot be removed.
Removed == IF job = "active" THEN job ELSE "none"

\* queue.add with a fixed jobId: ignored while a job of the id is stored.
Added == IF job = "none" THEN "delayed" ELSE job

-----------------------------------------------------------------------------
(* The membership. *)

\* An invite is accepted.  member.joined refreshes the channelIds and the
\* workspaceIds of the sockets that are open, not their temporaryWorkspaceIds.
Join(kind) ==
  /\ row = "none" /\ Spend("join", MaxJoins)
  /\ row' = kind
  /\ due' = FALSE
  /\ UNCHANGED <<sockVars, job, worker, late, missed>>

\* The member leaves, or is kicked or banned.
Leave ==
  /\ row # "none"
  /\ row' = "none"
  /\ due' = FALSE
  /\ UNCHANGED <<sockVars, job, worker, late, missed, used>>

-----------------------------------------------------------------------------
(* handleConnection. *)

Connect(s) ==
  /\ hs[s] = "none"
  /\ hs' = [hs EXCEPT ![s] = "rooms"]
  /\ UNCHANGED <<row, tracked, cl, set, job, worker, evictHistory, used>>

\* roomsForUser reads the memberships.
ReadRooms(s) ==
  /\ hs[s] = "rooms"
  /\ hs' = [hs EXCEPT ![s] = "track"]
  /\ tracked' = [tracked EXCEPT ![s] = row = "temporary"]
  /\ UNCHANGED <<row, cl, set, job, worker, evictHistory, used>>

\* client.data.state is set and, in the same tick, SADD is sent.  A socket
\* that closed before is added all the same.
Track(s) ==
  /\ hs[s] = "track" /\ tracked[s]
  /\ hs' = [hs EXCEPT ![s] = "cancel"]
  /\ \/ set' = set \cup {s} /\ UNCHANGED <<used, missed>>
     \/ Spend("lost", MaxLost) /\ missed' = TRUE /\ UNCHANGED set
  /\ late' = late \cup {s} /\ due' = FALSE
  /\ UNCHANGED <<row, tracked, cl, job, worker>>

\* Mutant: every socket is added.
UntrackedAdded(s) ==
  /\ hs[s] = "track" /\ ~tracked[s]
  /\ hs' = [hs EXCEPT ![s] = "done"]
  /\ set' = set \cup {s} /\ late' = late \cup {s}
  /\ UNCHANGED <<row, tracked, cl, job, worker, due, missed, used>>

Untracked(s) ==
  /\ hs[s] = "track" /\ ~tracked[s]
  /\ hs' = [hs EXCEPT ![s] = "done"]
  /\ late' = late \cup {s}
  /\ UNCHANGED <<row, tracked, cl, set, job, worker, due, missed, used>>

\* cancelEvict; its failure is swallowed.
Cancel(s) ==
  /\ hs[s] = "cancel"
  /\ hs' = [hs EXCEPT ![s] = "done"]
  /\ \/ job' = Removed /\ UNCHANGED used
        /\ missed' = (missed \/ (cl[s] # "no" /\ job = "delayed"))
     \/ Spend("fault", MaxFaults) /\ UNCHANGED <<job, missed>>
  /\ UNCHANGED <<row, tracked, cl, set, worker, late, due>>

-----------------------------------------------------------------------------
(* handleDisconnect. *)

\* The transport breaks.  Without a state, or for a socket that is not
\* tracked, there is nothing to do.
Close(s) ==
  /\ Open(s)
  /\ cl' = [cl EXCEPT ![s] =
              IF tracked[s] /\ hs[s] \in {"cancel", "done"} THEN "srem"
              ELSE "done"]
  /\ UNCHANGED <<row, hs, tracked, set, job, worker, evictHistory, used>>

Srem(s) ==
  /\ cl[s] = "srem"
  /\ cl' = [cl EXCEPT ![s] = "scard"]
  /\ set' = set \ {s}
  /\ UNCHANGED <<row, hs, tracked, job, worker, evictHistory, used>>

Scard(s) ==
  /\ cl[s] = "scard"
  /\ cl' = [cl EXCEPT ![s] = IF set = {} THEN "remove" ELSE "done"]
  /\ due' = (due \/ set = {})
  /\ UNCHANGED <<row, hs, tracked, set, job, worker, late, missed, used>>

\* A failure of the remove is swallowed, and the add goes ahead.
ArmRemove(s) ==
  /\ cl[s] = "remove"
  /\ cl' = [cl EXCEPT ![s] = "add"]
  /\ \/ job' = Removed /\ missed' = (missed \/ job = "active") /\ UNCHANGED used
     \/ Spend("fault", MaxFaults) /\ missed' = TRUE /\ UNCHANGED job
  /\ UNCHANGED <<row, hs, tracked, set, worker, late, due>>

ArmAdd(s) ==
  /\ cl[s] = "add"
  /\ cl' = [cl EXCEPT ![s] = "done"]
  /\ job' = Added
  /\ UNCHANGED <<row, hs, tracked, set, worker, evictHistory, used>>

\* A call of onSocketDisconnect, or one before it, fails and ends the handler.
CloseFails(s) ==
  /\ cl[s] \in {"srem", "scard", "add"}
  /\ Spend("fault", MaxFaults)
  /\ cl' = [cl EXCEPT ![s] = "done"]
  /\ missed' = TRUE
  /\ UNCHANGED <<row, hs, tracked, set, job, worker, late, due>>

\* The process of the socket dies, its handlers with it.
Crash(s) ==
  /\ hs[s] # "none" /\ (cl[s] # "done" \/ hs[s] # "done")
  /\ Spend("crash", MaxCrashes)
  /\ hs' = [hs EXCEPT ![s] = "done"]
  /\ cl' = [cl EXCEPT ![s] = "done"]
  /\ missed' = (missed \/ cl[s] \notin {"no", "done"})
  /\ UNCHANGED <<row, tracked, set, job, worker, late, due>>

\* One hour after the last SADD, whose handshake is long over.
Expire ==
  /\ set # {} /\ \A s \in Sockets : hs[s] # "cancel"
  /\ Spend("lost", MaxLost)
  /\ set' = {}
  /\ UNCHANGED <<row, hs, tracked, cl, job, worker, evictHistory>>

-----------------------------------------------------------------------------
(* The worker. *)

Fire ==
  /\ job = "delayed"
  /\ job' = "active" /\ worker' = "check"
  /\ UNCHANGED <<row, sockVars, evictHistory, used>>

Work(from, to) ==
  /\ worker = from
  /\ worker' = to
  /\ UNCHANGED <<sockVars, job>>

\* Mutant: the set is not looked at again.
CheckNot ==
  /\ Work("check", "find")
  /\ late' = {}
  /\ UNCHANGED <<row, due, missed, used>>

\* activeSocketCount, where a failure counts as one socket.
Check ==
  /\ late' = {}
  /\ \/ Work("check", IF set = {} THEN "find" ELSE "finish")
        /\ UNCHANGED <<missed, used>>
     \/ Work("check", "finish") /\ Spend("fault", MaxFaults)
        /\ missed' = TRUE
  /\ UNCHANGED <<row, due>>

Find ==
  /\ Work("find", IF row = "temporary" THEN "delete" ELSE "finish")
  /\ UNCHANGED <<row, evictHistory, used>>

\* One transaction: the row and MEMBER_LEFT.  A row that is gone (P2025) is
\* left alone.
Delete ==
  /\ Work("delete", "finish")
  /\ row' = "none"
  /\ due' = FALSE
  /\ UNCHANGED <<late, missed, used>>

\* The database fails: attempts is 1, the job is not tried again.
WorkFails ==
  /\ worker \in {"find", "delete"}
  /\ Work(worker, "finish") /\ Spend("fault", MaxFaults)
  /\ missed' = TRUE
  /\ UNCHANGED <<row, late, due>>

Finish ==
  /\ worker = "finish"
  /\ worker' = "idle" /\ job' = "kept"
  /\ UNCHANGED <<row, sockVars, evictHistory, used>>

\* The worker's process dies; the stalled job is given to a worker again.
WorkerCrash ==
  /\ worker # "idle" /\ Spend("crash", MaxCrashes)
  /\ worker' = "idle"
  /\ UNCHANGED <<row, sockVars, job, evictHistory>>

Recover ==
  /\ job = "active" /\ worker = "idle"
  /\ worker' = "check"
  /\ UNCHANGED <<row, sockVars, job, evictHistory, used>>

Handshake(s) == ReadRooms(s) \/ Track(s) \/ Untracked(s) \/ Cancel(s)
Disconnect(s) == Srem(s) \/ Scard(s) \/ ArmRemove(s) \/ ArmAdd(s)
Worker == Fire \/ Check \/ Find \/ Delete \/ Finish \/ Recover

EvictNext ==
  \/ \E kind \in {"temporary", "permanent"} : Join(kind)
  \/ Leave \/ Expire
  \/ \E s \in Sockets :
       \/ Connect(s) \/ Handshake(s)
       \/ Close(s) \/ Disconnect(s) \/ CloseFails(s) \/ Crash(s)
  \/ Worker \/ WorkFails \/ WorkerCrash

EvictSpec == EvictInit /\ [][EvictNext]_evictVars
-----------------------------------------------------------------------------
\* Established sockets: the handshake got as far as the tracking.
Established == {s \in Sockets : Open(s) /\ hs[s] \in {"cancel", "done"}}

\* The worker goes on to evict only if every tracked socket that is open was
\* connected after its SCARD: no order of connects and disconnects of several
\* devices makes it overlook one (onSocketConnect, onSocketDisconnect,
\* activeSocketCount), as long as the set lost nothing.
AwayWhenChecked ==
  worker \in {"find", "delete"} /\ used.lost = 0 =>
    {s \in Established : tracked[s]} \subseteq late

\* An eviction stays scheduled until it is carried out: when a disconnect has
\* counted no socket, nobody was tracked since and every socket is gone with
\* its handlers, the job is waiting or running, unless one of the calls failed
\* or raced (armEvict, cancelEvict, process).
EvictionScheduled ==
  /\ row = "temporary" /\ due /\ ~missed
  /\ \A s \in Sockets : hs[s] = "none" \/ (cl[s] = "done" /\ hs[s] # "cancel")
  => job = "delayed" \/ (job = "active" /\ worker # "finish")

\* Who is here is not evicted, and who has left is (temp-evict-queue.service.ts,
\* temp-evict.processor.ts), each unless one of its calls failed or raced.
EvictionSound == AwayWhenChecked /\ EvictionScheduled

\* "When a reconnect within two seconds or a socket of another device or node
\* remains, skip" (temp-evict.processor.ts:16-18): a member with an
\* established socket at the time of the check is not evicted.
NoConnectedEvicted ==
  worker = "delete" => Established \subseteq late
=============================================================================
