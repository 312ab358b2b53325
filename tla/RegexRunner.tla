---------------------------- MODULE RegexRunner ----------------------------
(* The worker thread that runs the regular expressions of AutoMod           *)
(* (workspaces/automod/automod-regex-runner.ts): one thread, which match    *)
(* uses for a message and validateSafety for a rule that is being saved,    *)
(* is killed by whoever has waited too long and started again by the next.  *)
(* The main thread is an event loop: what runs between two awaits is one    *)
(* step. A regular expression is quick, with or without a match, or it does *)
(* not come back.                                                           *)
EXTENDS Naturals, Sequences, FiniteSets

CONSTANTS
  Jobs,       \* calls of match and of validateSafety
  Probes,     \* PROBE_INPUTS.length
  MaxThreads, \* bound: threads that are ever started
  MaxDeaths   \* bound: threads that die by themselves

ASSUME RunnerAssumption == Probes \in Nat \ {0} /\ MaxThreads \in Nat \ {0} /\ MaxDeaths \in Nat

VARIABLES
  thread,      \* the Workers, in the order of their start: state and message queue
  matchWorker, \* the field: an index, 0 for null
  resolveFailed,
  pending,     \* the map of the match calls that wait for a message
  job,         \* per call: its operation, expression, progress, thread and result
  deaths,
  failedOpen   \* history: match calls that failAllPending has answered

runnerVars == <<thread, matchWorker, resolveFailed, pending, job, deaths, failedOpen>>

Expressions == {"hit", "miss", "endless"}
Results == {"none", "matched", "passed", "timedOut", "safe", "unsafe"}

RunnerInit ==
  /\ thread = <<[is |-> "starting", queue |-> <<>>]>> /\ matchWorker = 1 \* onModuleInit
  /\ resolveFailed = FALSE /\ pending = {} /\ deaths = 0 /\ failedOpen = {}
  /\ job \in [Jobs -> [op : {"match", "validate"}, re : Expressions, at : {"idle"},
                       on : {0}, probe : {1}, result : {"none"}]]

Ended(j, r) == [job[j] EXCEPT !.at = "done", !.result = r]
Running(w) == thread[w].is \in {"starting", "up"}

\* failAllPending: every call in the map is told that nothing matched.
FailAll(jobs) == [j \in Jobs |-> IF j \in pending THEN [jobs[j] EXCEPT !.at = "done",
                                                       !.result = "passed"]
                                 ELSE jobs[j]]

\* ensureMatchWorker: the thread there is, or a new one; or none can be started.
EnsureMatchWorker(w) ==
  \/ w = matchWorker /\ w # 0 /\ UNCHANGED <<thread, matchWorker, resolveFailed>>
  \/ /\ matchWorker = 0 /\ ~resolveFailed /\ Len(thread) < MaxThreads
     /\ w = Len(thread) + 1
     /\ thread' = Append(thread, [is |-> "starting", queue |-> <<>>])
     /\ matchWorker' = w /\ UNCHANGED resolveFailed
  \/ /\ matchWorker = 0 /\ w = 0 /\ resolveFailed' = TRUE
     /\ UNCHANGED <<thread, matchWorker>>

\* The call finds its thread and waits until that is up, is gone or 100 ms have
\* passed: it may go on at any time. Without a thread a message passes, and a
\* rule is tried on the main thread.
Begin(j) ==
  /\ job[j].at = "idle"
  /\ \E w \in 0..MaxThreads :
       /\ EnsureMatchWorker(w)
       /\ job' = [job EXCEPT ![j] =
            IF w # 0 THEN [@ EXCEPT !.at = "waiting", !.on = w]
            ELSE IF job[j].op = "match" THEN Ended(j, "passed")
            ELSE Ended(j, IF job[j].re = "endless" THEN "unsafe" ELSE "safe")]
       /\ failedOpen' = IF w = 0 /\ job[j].op = "match" THEN failedOpen \cup {j} ELSE failedOpen
  /\ UNCHANGED <<pending, deaths>>

Posted(w, j) == [thread EXCEPT ![w].queue = Append(@, j)]

\* match goes on with the thread it found before the wait, whatever became of it.
Match(j) ==
  /\ job[j].at = "waiting" /\ job[j].op = "match"
  /\ pending' = pending \cup {j}
  /\ thread' = Posted(job[j].on, j)
  /\ job' = [job EXCEPT ![j].at = "posted"]
  /\ UNCHANGED <<matchWorker, resolveFailed, deaths, failedOpen>>

\* validateSingleProbe asks for the thread again, for every probe.
ValidateSingleProbe(j) ==
  /\ job[j].at = "waiting" /\ job[j].op = "validate"
  /\ \/ /\ matchWorker # 0
        /\ thread' = Posted(matchWorker, j)
        /\ job' = [job EXCEPT ![j].at = "posted", ![j].on = matchWorker]
        /\ UNCHANGED <<matchWorker, resolveFailed>>
     \/ /\ matchWorker = 0 /\ ~resolveFailed /\ Len(thread) < MaxThreads
        /\ thread' = Append(thread, [is |-> "starting", queue |-> <<j>>])
        /\ matchWorker' = Len(thread) + 1
        /\ job' = [job EXCEPT ![j].at = "posted", ![j].on = Len(thread) + 1]
        /\ UNCHANGED resolveFailed
     \/ /\ matchWorker = 0 /\ resolveFailed' = TRUE
        /\ job' = [job EXCEPT ![j] = Ended(j, IF @.re = "endless" THEN "unsafe" ELSE "safe")]
        /\ UNCHANGED <<thread, matchWorker>>
  /\ UNCHANGED <<pending, deaths, failedOpen>>

Online(w) ==
  /\ thread[w].is = "starting"
  /\ thread' = [thread EXCEPT ![w].is = "up"]
  /\ UNCHANGED <<matchWorker, resolveFailed, pending, job, deaths, failedOpen>>

\* The thread works off the oldest message, unless it does not come back from it,
\* and the main thread gives the answer to the call that has its id.
Answer(w) ==
  /\ thread[w].is = "up" /\ thread[w].queue # <<>>
  /\ LET j == Head(thread[w].queue)
     IN /\ job[j].re # "endless"
        /\ thread' = [thread EXCEPT ![w].queue = Tail(@)]
        /\ job' = [job EXCEPT ![j] =
             IF @.at # "posted" \/ @.on # w THEN @
             ELSE IF @.op = "match" THEN Ended(j, IF @.re = "hit" THEN "matched" ELSE "passed")
             ELSE IF @.probe = Probes THEN Ended(j, "safe")
             ELSE [@ EXCEPT !.at = "waiting", !.probe = job[j].probe + 1]]
        /\ pending' = pending \ {j}
  /\ UNCHANGED <<matchWorker, resolveFailed, deaths, failedOpen>>

Terminated(w) == IF Running(w) THEN [thread EXCEPT ![w] = [is |-> "ended", queue |-> <<>>]]
                 ELSE thread

\* Mutant: the map keeps a call that has given up.
Kept(j) == pending

Forgotten(j) == pending \ {j}

\* The watchdog of a match: the call gives up and kills the thread it has used.
MatchTimeout(j) ==
  /\ job[j].at = "posted" /\ job[j].op = "match"
  /\ pending' = Forgotten(j)
  /\ thread' = Terminated(job[j].on)
  /\ matchWorker' = 0
  /\ job' = [job EXCEPT ![j] = Ended(j, "timedOut")]
  /\ UNCHANGED <<resolveFailed, deaths, failedOpen>>

\* That of a validation: the rule is unsafe, and whoever waits is answered.
ValidateTimeout(j) ==
  /\ job[j].at = "posted" /\ job[j].op = "validate"
  /\ matchWorker' = 0
  /\ job' = FailAll([job EXCEPT ![j] = Ended(j, "unsafe")])
  /\ failedOpen' = failedOpen \cup pending /\ pending' = {}
  /\ thread' = Terminated(job[j].on)
  /\ UNCHANGED <<resolveFailed, deaths>>

\* A thread dies by itself. (The error event before its exit does the same as that.)
Die(w) ==
  /\ Running(w) /\ deaths < MaxDeaths
  /\ deaths' = deaths + 1 /\ thread' = Terminated(w)
  /\ UNCHANGED <<matchWorker, resolveFailed, pending, job, failedOpen>>

\* Mutant: a validation whose thread is gone has found nothing wrong.
OrphanedSafe(w) == [j \in Jobs |->
  IF job[j].at = "posted" /\ job[j].op = "validate" /\ job[j].on = w
  THEN Ended(j, "safe") ELSE job[j]]

Orphaned(w) == [j \in Jobs |->
  IF job[j].at = "posted" /\ job[j].op = "validate" /\ job[j].on = w
  THEN Ended(j, "unsafe") ELSE job[j]]

\* The exit event of a thread arrives, some time after it was killed or died: its
\* handlers end the validations on it, all the matches, and forget matchWorker.
Exit(w) ==
  /\ thread[w].is = "ended"
  /\ thread' = [thread EXCEPT ![w].is = "gone"]
  /\ matchWorker' = 0
  /\ job' = FailAll(Orphaned(w))
  /\ failedOpen' = failedOpen \cup pending /\ pending' = {}
  /\ UNCHANGED <<resolveFailed, deaths>>

RunnerNext ==
  \/ \E j \in Jobs : Begin(j) \/ Match(j) \/ ValidateSingleProbe(j) \/ MatchTimeout(j)
                     \/ ValidateTimeout(j)
  \/ \E w \in DOMAIN thread : Online(w) \/ Answer(w) \/ Die(w) \/ Exit(w)

RunnerSpec == RunnerInit /\ [][RunnerNext]_runnerVars

-----------------------------------------------------------------------------
\* Type invariant (the fields of AutoModRegexRunner, lines 104-117).
RunnerTypeOK ==
  /\ DOMAIN thread = 1..Len(thread) /\ Len(thread) <= MaxThreads
  /\ \A w \in DOMAIN thread : thread[w].is \in {"starting", "up", "ended", "gone"}
                              /\ \A i \in DOMAIN thread[w].queue : thread[w].queue[i] \in Jobs
  /\ matchWorker \in 0..Len(thread) /\ resolveFailed \in BOOLEAN
  /\ pending \subseteq Jobs /\ failedOpen \subseteq Jobs /\ deaths \in 0..MaxDeaths
  /\ job \in [Jobs -> [op : {"match", "validate"}, re : Expressions,
                       at : {"idle", "waiting", "posted", "done"},
                       on : 0..MaxThreads, probe : 1..Probes, result : Results]]

\* Whatever threads were killed and started while a call waited, it gets the
\* verdict of its own expression: a match is one, a message that should have been
\* stopped passes only through failAllPending, and a rule that is saved has come
\* back from every probe (lines 46-50).
VerdictsAreOwn ==
  \A j \in Jobs :
    /\ job[j].result = "matched" => job[j].re = "hit"
    /\ job[j].result = "passed" => job[j].re = "miss" \/ j \in failedOpen
    /\ job[j].result = "safe" => job[j].re # "endless"

\* The map holds exactly the matches that wait for a message, so none is answered
\* twice or forgotten, and no call that begins is given a thread whose exit has
\* been handled: it would wait for its watchdog (lines 174-179).
\* (A thread may well be left running that is no longer matchWorker.)
PendingIsPosted ==
  /\ pending = {j \in Jobs : job[j].op = "match" /\ job[j].at = "posted"}
  /\ matchWorker # 0 => thread[matchWorker].is # "gone"

\* What the worker thread promises to the messages and rules of AutoMod
\* (automod-regex-runner.ts:46-50, 174-179).
RunnerSound == VerdictsAreOwn /\ PendingIsPosted
=============================================================================
