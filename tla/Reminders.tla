------------------------------ MODULE Reminders ------------------------------
(***************************************************************************)
(* Reminders: one saved message with a reminder and one /remind.  Both     *)
(* have a database row, which is the truth, and a delayed BullMQ job with  *)
(* a fixed id, which a worker of some node takes when it is due.           *)
(*                                                                         *)
(* Every database statement and queue call is a step.  A saved reminder's  *)
(* settings are numbered; times are not modelled, a delayed job may be due *)
(* at once.                                                                *)
(***************************************************************************)
EXTENDS Naturals, FiniteSets

CONSTANTS
  ReminderCalls,     \* the requests and server starts, each of them once
  Workers,           \* the workers, one per node
  MaxJobTries,       \* REMINDER_JOB_OPTS.attempts
  MaxReminderFaults, \* bound on calls that fail and processes that die
  MaxStalls          \* bound on jobs taken for stalled while they run

ASSUME RemindersAssumption ==
  /\ IsFiniteSet(Workers)
  /\ MaxJobTries \in Nat \ {0}
  /\ {MaxReminderFaults, MaxStalls} \subseteq Nat

VARIABLES
  saved,    \* the SavedMessage row: its tab, its setting, whether that fired
  remind,   \* Reminder.status
  jobs,     \* the job of each kind: its state, its tries, the worker it is with
  runs,     \* progress of ReminderProcessor.process
  requests, \* progress of the requests
  emitted,  \* history: how often each /remind was emitted
  astray    \* history: a call failed, or raced, on the way to the firing

remindersVars == <<saved, remind, jobs, runs, requests, emitted, astray>>

JobKinds == {"saved", "remind"}
NoRun == [at |-> "idle", kind |-> "saved"]
NoJob == [state |-> "none", tries |-> 0]

RemindersTypeOK ==
  /\ saved.tab \in {"none", "open", "completed"}
  /\ saved.set \in Nat /\ saved.fired \in BOOLEAN
  /\ remind \in {"none", "pending", "sent", "cancelled"}
  /\ \A k \in JobKinds : /\ jobs[k].state \in {"none", "delayed", "active", "kept"}
                         /\ jobs[k].tries \in 0..MaxJobTries
  /\ \A w \in Workers : runs[w].at \in {"idle", "read", "mark", "emit", "finish"}
  /\ \A c \in ReminderCalls : requests[c].at \in {"idle", "remove", "add", "clear", "drop", "write", "done"}

RemindersInit ==
  /\ saved = [tab |-> "open", set |-> 0, fired |-> FALSE]
  /\ remind = "none"
  /\ jobs = [k \in JobKinds |-> NoJob]
  /\ runs = [w \in Workers |-> NoRun]
  /\ requests = [c \in ReminderCalls |-> [at |-> "idle", kind |-> "saved"]]
  /\ emitted = 0
  /\ astray = [missed |-> [k \in JobKinds |-> FALSE], faults |-> 0, stalls |-> 0]

RequestGoes(c, at) == requests' = [requests EXCEPT ![c].at = at]
RequestBegins(c, kind, at) ==
  /\ requests[c].at = "idle"
  /\ requests' = [requests EXCEPT ![c] = [at |-> at, kind |-> kind]]

JobFault(k) == /\ astray.faults < MaxReminderFaults
            /\ astray' = [astray EXCEPT !.faults = @ + 1, !.missed[k] = TRUE]
Miss(k, lost) == astray' = [astray EXCEPT !.missed[k] = @ \/ lost]

-----------------------------------------------------------------------------
(* ReminderQueueService: schedule is remove, then add; cancel is remove.     *)

\* Mutant: the stored job stays.
JobStays(k) == jobs

\* A job that is being processed cannot be removed; the failure is swallowed.
JobRemoved(k) == IF jobs[k].state = "active" THEN jobs ELSE [jobs EXCEPT ![k] = NoJob]

\* The add is ignored while a job of the id is stored.
Add(k) == IF jobs[k].state = "none" THEN [jobs EXCEPT ![k].state = "delayed"] ELSE jobs

ScheduleRemove(c) ==
  LET k == requests[c].kind IN
  /\ requests[c].at = "remove" /\ RequestGoes(c, "add")
  /\ \/ jobs' = JobRemoved(k) /\ Miss(k, k = "saved" /\ jobs[k].state = "active")
     \/ JobFault(k) /\ UNCHANGED jobs
  /\ UNCHANGED <<saved, remind, runs, emitted>>

\* When it lets the last scheduling through, a /remind is back on its way.
ScheduleAdd(c) ==
  LET k == requests[c].kind IN
  /\ requests[c].at = "add" /\ RequestGoes(c, "done")
  /\ \/ jobs' = Add(k)
        /\ astray' = [astray EXCEPT !.missed[k] =
                        @ /\ ~(k = "remind" /\ jobs[k].state = "none")]
     \/ JobFault(k) /\ UNCHANGED jobs
  /\ UNCHANGED <<saved, remind, runs, emitted>>

\* cancel: the job, and then, for an unsave and a /remind, the row. The job of
\* a /remind is left alone when its id is not stored yet.
CancelDrop(c) ==
  LET k == requests[c].kind IN
  /\ requests[c].at \in {"clear", "drop"}
  /\ RequestGoes(c, IF requests[c].at = "drop" THEN "write" ELSE "done")
  /\ \/ jobs' = JobRemoved(k) /\ Miss(k, TRUE)
     \/ JobFault(k) /\ UNCHANGED jobs
     \/ k = "remind" /\ Miss(k, TRUE) /\ UNCHANGED jobs
  /\ UNCHANGED <<saved, remind, runs, emitted>>

\* The process of a request dies between two of its steps.
RequestDies(c) ==
  /\ requests[c].at \notin {"idle", "done"} /\ RequestGoes(c, "done")
  /\ JobFault(requests[c].kind)
  /\ UNCHANGED <<saved, remind, jobs, runs, emitted>>

-----------------------------------------------------------------------------
(* SavedService. *)

\* update and snooze with a time: any earlier firing is forgotten.
SetReminder(c) ==
  /\ saved.tab # "none"
  /\ RequestBegins(c, "saved", "remove")
  /\ saved' = [tab |-> saved.tab, set |-> saved.set + 1, fired |-> FALSE]
  /\ UNCHANGED <<remind, jobs, runs, emitted, astray>>

\* update without a time, or to COMPLETED.
ClearReminder(c, tab) ==
  /\ saved.tab # "none"
  /\ RequestBegins(c, "saved", "clear")
  /\ saved' = [tab |-> tab, set |-> 0, fired |-> FALSE]
  /\ UNCHANGED <<remind, jobs, runs, emitted, astray>>

\* update of the tab only.
Reopen(c) ==
  /\ saved.tab = "completed"
  /\ RequestBegins(c, "saved", "done")
  /\ saved' = [saved EXCEPT !.tab = "open"]
  /\ UNCHANGED <<remind, jobs, runs, emitted, astray>>

\* unsave.
Unsave(c) ==
  /\ saved.tab # "none"
  /\ RequestBegins(c, "saved", "drop")
  /\ UNCHANGED <<saved, remind, jobs, runs, emitted, astray>>

-----------------------------------------------------------------------------
(* ReminderService. *)

\* persist: the row, then the job. A retry with the same key ends at the row.
PersistRemind(c) ==
  /\ \/ /\ remind = "none" /\ RequestBegins(c, "remind", "remove")
        /\ remind' = "pending"
     \/ /\ remind # "none" /\ RequestBegins(c, "remind", "done")
        /\ UNCHANGED remind
  /\ UNCHANGED <<saved, jobs, runs, emitted, astray>>

\* onModuleInit of a node that starts: recoverPending.
RecoverPending(c) ==
  /\ remind = "pending"
  /\ RequestBegins(c, "remind", "remove")
  /\ UNCHANGED <<saved, remind, jobs, runs, emitted, astray>>

\* cancel.
CancelRemind(c) ==
  /\ remind # "none"
  /\ RequestBegins(c, "remind", "drop")
  /\ UNCHANGED <<saved, remind, jobs, runs, emitted, astray>>

\* The last step of unsave and of cancel, whatever the row says by now.
WriteRow(c) ==
  /\ requests[c].at = "write" /\ RequestGoes(c, "done")
  /\ \/ /\ requests[c].kind = "saved" /\ UNCHANGED remind
        /\ saved' = [tab |-> "none", set |-> 0, fired |-> FALSE]
     \/ /\ requests[c].kind = "remind" /\ UNCHANGED saved
        /\ remind' = "cancelled"
  /\ UNCHANGED <<jobs, runs, emitted, astray>>

-----------------------------------------------------------------------------
(* ReminderProcessor. *)

Steps(w, at) == runs' = [runs EXCEPT ![w].at = at]

\* A worker takes a job that is due, or one that has stalled: the worker that
\* had it may be dead, or only slow.
Take(w) ==
  /\ runs[w].at = "idle"
  /\ \E k \in JobKinds :
       /\ jobs[k].state = "delayed"
       /\ jobs' = [jobs EXCEPT ![k].state = "active"]
       /\ runs' = [runs EXCEPT ![w] = [at |-> "read", kind |-> k]]
  /\ UNCHANGED <<saved, remind, requests, emitted, astray>>

TakeStalled(w) ==
  /\ runs[w].at = "idle"
  /\ astray.stalls < MaxStalls /\ astray' = [astray EXCEPT !.stalls = @ + 1]
  /\ \E k \in JobKinds :
       /\ jobs[k].state = "active"
       /\ runs' = [runs EXCEPT ![w] = [at |-> "read", kind |-> k]]
  /\ UNCHANGED <<saved, remind, jobs, requests, emitted>>

\* The row is read: gone, fired before, completed or not PENDING ends the job.
ReadRow(w) ==
  /\ runs[w].at = "read"
  /\ LET k == runs[w].kind
         goesOn == IF k = "remind" THEN remind = "pending"
                   ELSE saved.tab \notin {"none", "completed"} /\ ~saved.fired
     IN /\ Steps(w, IF goesOn THEN "mark" ELSE "finish")
        /\ Miss(k, k = "saved" /\ ~goesOn)
  /\ UNCHANGED <<saved, remind, jobs, requests, emitted>>

\* The mark: a saved row is marked as it is now, a /remind only while PENDING.
MarkSaved(w) ==
  /\ runs[w].at = "mark" /\ runs[w].kind = "saved"
  /\ saved' = [saved EXCEPT !.fired = saved.tab # "none"]
  /\ Steps(w, "emit")
  /\ UNCHANGED <<remind, jobs, requests, emitted, astray>>

\* Mutant: the update does not look at the status.
MarkAgain(w) ==
  /\ runs[w].at = "mark" /\ runs[w].kind = "remind"
  /\ remind' = "sent" /\ Steps(w, "emit")
  /\ UNCHANGED <<saved, jobs, requests, emitted, astray>>

MarkRemind(w) ==
  /\ runs[w].at = "mark" /\ runs[w].kind = "remind"
  /\ IF remind = "pending" THEN remind' = "sent" /\ Steps(w, "emit")
     ELSE UNCHANGED remind /\ Steps(w, "finish")
  /\ UNCHANGED <<saved, jobs, requests, emitted, astray>>

Emit(w) ==
  /\ runs[w].at = "emit" /\ Steps(w, "finish")
  /\ emitted' = IF runs[w].kind = "remind" THEN emitted + 1 ELSE emitted
  /\ UNCHANGED <<saved, remind, jobs, requests, astray>>

Alone(w) == \A v \in Workers \ {w} : runs[v].at = "idle" \/ runs[v].kind # runs[w].kind

\* Completed. The job stays stored; one that another worker has now is its own.
FinishRun(w) ==
  /\ runs[w].at = "finish" /\ runs' = [runs EXCEPT ![w] = NoRun]
  /\ jobs' = IF Alone(w) /\ jobs[runs[w].kind].state = "active"
               THEN [jobs EXCEPT ![runs[w].kind].state = "kept"] ELSE jobs
  /\ UNCHANGED <<saved, remind, requests, emitted, astray>>

\* The database fails: tried again after the backoff, three times in all.
RunFails(w) ==
  LET k == runs[w].kind
      tries == jobs[k].tries + 1
      mine == Alone(w) /\ jobs[k].state = "active" IN
  /\ runs[w].at \in {"read", "mark"} /\ runs' = [runs EXCEPT ![w] = NoRun]
  /\ astray.faults < MaxReminderFaults
  /\ jobs' = IF mine
               THEN [jobs EXCEPT ![k] = [state |-> IF tries < MaxJobTries THEN "delayed" ELSE "kept",
                                         tries |-> tries]]
               ELSE jobs
  /\ astray' = [astray EXCEPT !.faults = @ + 1,
                              !.missed[k] = @ \/ (mine /\ tries = MaxJobTries)]
  /\ UNCHANGED <<saved, remind, requests, emitted>>

RemindersNext ==
  \/ \E c \in ReminderCalls :
       \/ SetReminder(c) \/ Reopen(c) \/ Unsave(c)
       \/ \E tab \in {saved.tab, "completed"} : ClearReminder(c, tab)
       \/ PersistRemind(c) \/ RecoverPending(c) \/ CancelRemind(c)
       \/ ScheduleRemove(c) \/ ScheduleAdd(c) \/ CancelDrop(c) \/ WriteRow(c)
       \/ RequestDies(c)
  \/ \E w \in Workers :
       \/ Take(w) \/ TakeStalled(w) \/ ReadRow(w) \/ MarkSaved(w) \/ MarkRemind(w)
       \/ Emit(w) \/ FinishRun(w) \/ RunFails(w)

RemindersSpec == RemindersInit /\ [][RemindersNext]_remindersVars

-----------------------------------------------------------------------------
(* Properties. *)

\* A /remind is emitted at most once, however many workers run its job at the
\* same time and however often a node that starts schedules it again
\* (processRemind's WHERE status = 'PENDING', recoverPending).
RemindSentOnce == emitted <= 1

Outstanding(k) == \E c \in ReminderCalls : requests[c].at \in {"remove", "add"}
                                           /\ requests[c].kind = k

\* A reminder that is waiting has a job that will fire it, once the requests
\* about it have answered, unless a call failed or raced; for a /remind, not
\* later than the start of the next node (schedule, persist, recoverPending).
ReminderQueued ==
  /\ remind = "pending" /\ ~astray.missed["remind"] /\ ~Outstanding("remind")
       => jobs["remind"].state \in {"delayed", "active"}
  /\ saved.tab = "open" /\ saved.set > 0 /\ ~saved.fired
     /\ ~astray.missed["saved"] /\ ~Outstanding("saved")
       => jobs["saved"].state \in {"delayed", "active"}

\* A reminder that is waiting will fire, and a /remind does so once
\* (ReminderQueueService.schedule, processRemind).
RemindersSound == RemindSentOnce /\ ReminderQueued
=============================================================================
