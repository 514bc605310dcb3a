---------------------------- MODULE MediaTasks ----------------------------
(***************************************************************************)
(* Asynchronous image tasks.  The gateway stores a row for a job that the   *)
(* provider has accepted; a poller asks the provider and, when the job has  *)
(* ended, settles the row with one guarded UPDATE and then logs the event   *)
(* that bills it.  During a restart the pollers of two processes overlap.   *)
(***************************************************************************)
EXTENDS Integers, Sequences, FiniteSets

CONSTANTS
    MediaJobs,      \* jobs of the provider
    Pollers,        \* processes that poll
    MaxAge,         \* media_poller.max_age_hours
    PollLimit,      \* rows per round (100 in the code)
    MaxNow,         \* bound on the clock
    MaxMediaFaults  \* bound on failures of the database, crashes and switches

ASSUME MediaAssumption ==
    /\ {MaxAge, MaxNow, MaxMediaFaults} \subseteq Nat /\ PollLimit \in Nat \ {0}
    /\ IsFiniteSet(MediaJobs)

VARIABLES
    job,        \* what the provider says of each job
    task,       \* media_tasks: status and created_at, or NoTask
    poller,     \* each poller: the rows it has selected and what it is doing
    billed,     \* number of "-done" events logged for each job
    unbilled,   \* ghost: jobs whose poller died between the UPDATE and the event
    channel_on, \* the upstream is enabled
    now,        \* the clock
    media_faults

mediaVars == <<job, task, poller, billed, unbilled, channel_on, now, media_faults>>

NoTask == [status |-> "none", created |-> 0]
PollerIdle == [pc |-> "idle", rows |-> <<>>]
OpenStates == {"pending", "processing"}
IsOpen(j) == task[j].status \in OpenStates

MediaInit ==
    /\ job = [j \in MediaJobs |-> "none"] /\ task = [j \in MediaJobs |-> NoTask]
    /\ poller = [p \in Pollers |-> PollerIdle]
    /\ billed = [j \in MediaJobs |-> 0] /\ unbilled = {}
    /\ channel_on = TRUE /\ now = 0 /\ media_faults = 0

Fault == media_faults < MaxMediaFaults /\ media_faults' = media_faults + 1

-----------------------------------------------------------------------------
(* The gateway and the provider                                              *)

\* The provider has accepted the job; the row is inserted, or the INSERT fails.
SubmitTask(j) ==
    /\ job[j] = "none" /\ now + MaxAge <= MaxNow
    /\ job' = [job EXCEPT ![j] = "PENDING"]
    /\ \/ task' = [task EXCEPT ![j] = [status |-> "pending", created |-> now]] /\ UNCHANGED media_faults
       \/ Fault /\ UNCHANGED task
    /\ UNCHANGED <<poller, billed, unbilled, channel_on, now>>

ProviderMoves(j) ==
    /\ \/ job[j] = "PENDING" /\ job' = [job EXCEPT ![j] = "RUNNING"]
       \/ job[j] = "RUNNING" /\ \E end \in {"SUCCEEDED", "FAILED", "CANCELED"} : job' = [job EXCEPT ![j] = end]
    /\ UNCHANGED <<task, poller, billed, unbilled, channel_on, now, media_faults>>

normalize_task_status(s) ==
    CASE s = "RUNNING" -> "processing"
      [] s = "SUCCEEDED" -> "succeeded"
      [] s \in {"FAILED", "CANCELED"} -> "failed"
      [] OTHER -> "pending"

SwitchChannel ==
    /\ Fault /\ channel_on' = ~channel_on
    /\ UNCHANGED <<job, task, poller, billed, unbilled, now>>

MediaTick == now < MaxNow /\ now' = now + 1 /\ UNCHANGED <<job, task, poller, billed, unbilled, channel_on, media_faults>>

-----------------------------------------------------------------------------
(* poll_once: the oldest open rows, at most PollLimit.                       *)
OldestFirst(s) == \A a, b \in DOMAIN s : a < b => task[s[a]].created <= task[s[b]].created

poll_once(p) ==
    /\ poller[p].pc = "idle"
    /\ LET open == {j \in MediaJobs : IsOpen(j)}
           n == IF Cardinality(open) < PollLimit THEN Cardinality(open) ELSE PollLimit
       IN  /\ n > 0
           /\ \E s \in [1 .. n -> open] :
               /\ \A a, b \in 1 .. n : a # b => s[a] # s[b]
               /\ OldestFirst(s)
               /\ \A j \in open : (\A a \in 1 .. n : s[a] # j) => \A a \in 1 .. n : task[s[a]].created <= task[j].created
               /\ poller' = [poller EXCEPT ![p] = [pc |-> "row", rows |-> s]]
    /\ UNCHANGED <<job, task, billed, unbilled, channel_on, now, media_faults>>

Row1(p) == Head(poller[p].rows)
NextRow(p) ==
    IF Len(poller[p].rows) = 1 THEN PollerIdle ELSE [pc |-> "row", rows |-> Tail(poller[p].rows)]
PollerAt(p, state) == poller' = [poller EXCEPT ![p] = state]

is_expired(j) == task[j].created <= now - MaxAge

\* Bug: the tasks of a disabled upstream are skipped first
ExpireTask_IfEnabled(p) ==
    /\ poller[p].pc = "row" /\ is_expired(Row1(p)) /\ channel_on
    /\ task' = IF IsOpen(Row1(p)) THEN [task EXCEPT ![Row1(p)].status = "timeout"] ELSE task
    /\ PollerAt(p, NextRow(p))
    /\ UNCHANGED <<job, billed, unbilled, channel_on, now, media_faults>>

\* A task that is too old ends as timeout; the provider is not asked.
ExpireTask(p) ==
    /\ poller[p].pc = "row" /\ is_expired(Row1(p))
    /\ task' = IF IsOpen(Row1(p)) THEN [task EXCEPT ![Row1(p)].status = "timeout"] ELSE task
    /\ PollerAt(p, NextRow(p))
    /\ UNCHANGED <<job, billed, unbilled, channel_on, now, media_faults>>

\* The upstream is disabled, or the provider does not answer: the next round.
SkipTask(p) ==
    /\ poller[p].pc = "row"
    /\ \/ ~channel_on /\ ~is_expired(Row1(p)) /\ UNCHANGED media_faults
       \/ channel_on /\ ~is_expired(Row1(p)) /\ Fault
    /\ PollerAt(p, NextRow(p))
    /\ UNCHANGED <<job, task, billed, unbilled, channel_on, now>>

fetch_task_status(p) ==
    /\ poller[p].pc = "row" /\ channel_on /\ ~is_expired(Row1(p))
    /\ PollerAt(p, [pc |-> "answer", rows |-> poller[p].rows, status |-> normalize_task_status(job[Row1(p)])])
    /\ UNCHANGED <<job, task, billed, unbilled, channel_on, now, media_faults>>

\* The condition of every UPDATE: the row is still open.
Guarded(j) == IsOpen(j)

\* Bug: the event is logged whether or not the UPDATE changed the row
FinalizeTask_LogsAnyway(p, status) ==
    /\ poller[p].pc = "answer" /\ poller[p].status = status
    /\ task' = IF Guarded(Row1(p)) THEN [task EXCEPT ![Row1(p)].status = poller[p].status] ELSE task
    /\ PollerAt(p, [pc |-> "log", rows |-> poller[p].rows])
    /\ UNCHANGED <<job, billed, unbilled, channel_on, now, media_faults>>

\* Only the one whose UPDATE changed the row goes on to log the event.
FinalizeTask(p, status) ==
    /\ poller[p].pc = "answer" /\ poller[p].status = status
    /\ IF Guarded(Row1(p))
       THEN /\ task' = [task EXCEPT ![Row1(p)].status = poller[p].status]
            /\ PollerAt(p, [pc |-> "log", rows |-> poller[p].rows])
       ELSE PollerAt(p, NextRow(p)) /\ UNCHANGED task
    /\ UNCHANGED <<job, billed, unbilled, channel_on, now, media_faults>>

finalize_succeeded(p) == FinalizeTask(p, "succeeded")
finalize_failed(p) == FinalizeTask(p, "failed")

LogDone(p) ==
    /\ poller[p].pc = "log"
    /\ billed' = [billed EXCEPT ![Row1(p)] = @ + 1]
    /\ PollerAt(p, NextRow(p))
    /\ UNCHANGED <<job, task, unbilled, channel_on, now, media_faults>>

sync_status(p) ==
    /\ poller[p].pc = "answer" /\ poller[p].status \in OpenStates
    /\ task' = IF Guarded(Row1(p)) THEN [task EXCEPT ![Row1(p)].status = poller[p].status] ELSE task
    /\ PollerAt(p, NextRow(p))
    /\ UNCHANGED <<job, billed, unbilled, channel_on, now, media_faults>>

\* An UPDATE fails: this row waits for the next round.
UpdateFails(p) ==
    /\ poller[p].pc \in {"row", "answer"} /\ Fault
    /\ PollerAt(p, NextRow(p))
    /\ UNCHANGED <<job, task, billed, unbilled, channel_on, now>>

\* The process dies and another takes its place.
PollerCrash(p) ==
    /\ poller[p].pc # "idle" /\ Fault
    /\ unbilled' = IF poller[p].pc = "log" THEN unbilled \cup {Row1(p)} ELSE unbilled
    /\ PollerAt(p, PollerIdle)
    /\ UNCHANGED <<job, task, billed, channel_on, now>>

PollerStep(p) ==
    \/ poll_once(p) \/ ExpireTask(p) \/ SkipTask(p) \/ fetch_task_status(p)
    \/ finalize_succeeded(p) \/ finalize_failed(p) \/ LogDone(p) \/ sync_status(p)

MediaNext ==
    \/ \E j \in MediaJobs : SubmitTask(j) \/ ProviderMoves(j)
    \/ SwitchChannel \/ MediaTick
    \/ \E p \in Pollers : PollerStep(p) \/ UpdateFails(p) \/ PollerCrash(p)

\* The pollers' loops go on, and so does time.
MediaFairness == WF_mediaVars(MediaTick) /\ \A p \in Pollers : WF_mediaVars(PollerStep(p))

MediaSpec == MediaInit /\ [][MediaNext]_mediaVars /\ MediaFairness

-----------------------------------------------------------------------------
\* A poller that is not idle has rows left, the first of them at work.
Answers == {"succeeded", "failed"} \cup OpenStates
PollerState ==
    LET Rows == Seq(MediaJobs) \ {<<>>}
    IN  {PollerIdle} \cup [pc : {"row", "log"}, rows : Rows]
        \cup [pc : {"answer"}, rows : Rows, status : Answers]

MediaTypeOK ==
    /\ job \in [MediaJobs -> {"none", "PENDING", "RUNNING", "SUCCEEDED", "FAILED", "CANCELED"}]
    /\ poller \in [Pollers -> PollerState] /\ channel_on \in BOOLEAN
    /\ task \in [MediaJobs -> [status : {"none", "timeout", "succeeded", "failed"} \cup OpenStates, created : 0 .. MaxNow]]
    /\ billed \in [MediaJobs -> Nat] /\ unbilled \subseteq MediaJobs
    /\ now \in 0 .. MaxNow /\ media_faults \in 0 .. MaxMediaFaults

\* No job is billed twice, though two pollers ask for it; and a job that has
\* ended with an answer is billed, unless its poller died after the UPDATE.
BilledOnce ==
    \A j \in MediaJobs :
        /\ billed[j] <= 1
        /\ task[j].status \in {"succeeded", "failed"} =>
               \/ billed[j] = 1 \/ j \in unbilled
               \/ \E p \in Pollers : poller[p].pc = "log" /\ Row1(p) = j

\* A media job is settled once: two pollers and late answers neither bill it twice nor
\* leave an ended job unbilled, unless the poller died in between.
MediaSettled == MediaTypeOK /\ BilledOnce

\* A task that has ended keeps its end, whatever answer comes in late.
EndIsFinal ==
    [][\A j \in MediaJobs :
        task[j].status \notin OpenStates \cup {"none"} => task'[j].status = task[j].status]_mediaVars

\* Every task ends, even when its upstream is switched off for good, polls
\* fail and other tasks fill the rounds.
TaskEnds == \A j \in MediaJobs : IsOpen(j) ~> ~IsOpen(j)
=============================================================================
