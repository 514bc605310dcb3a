---------------------------- MODULE WriterShutdown ----------------------------
(***************************************************************************)
(* The timing of the log writer's shutdown (logging/writer.rs, main.rs):   *)
(* the backoff sleeps of flush against the 10 s for which main waits for   *)
(* the writer task.  One step of the clock is a second; inserts and        *)
(* appends take no time, so every duration here is a lower bound.          *)
(***************************************************************************)
EXTENDS Integers

CONSTANTS
    MaxQueued      \* flushes the events still in the channel can trigger

ASSUME QueuedAssumption == MaxQueued \in Nat

BackoffMax == 30
JoinSeconds == 10
DrainAttempts == 3

VARIABLES
    wpc,        \* control point of run_writer: recv, sleep, drain, exited
    batch,      \* the batch is not empty
    due,        \* the batch interval has elapsed, the timer branch is ready
    backoff,    \* the next backoff sleep
    sleepLeft,  \* seconds left of the current one
    drains,     \* drain_attempts
    draining,   \* the receive loop has ended
    queued,     \* flushes still to be triggered by events in the channel
    closed,     \* LogSink.close has been called
    quiet,      \* at close: no backoff pending, no timer due, an empty channel
    waited,     \* seconds main has waited for the writer
    elapsed     \* seconds since close

shutdownVars == <<wpc, batch, due, backoff, sleepLeft, drains, draining, queued, closed, quiet,
                  waited, elapsed>>

ShutdownInit ==
    /\ wpc = "recv" /\ batch = FALSE /\ due = FALSE
    /\ backoff = 1 /\ sleepLeft = 0
    /\ drains = 0 /\ draining = FALSE
    /\ queued = 0 /\ closed = FALSE /\ quiet = FALSE
    /\ waited = 0 /\ elapsed = 0

next_backoff(b) == IF 2 * b < BackoffMax THEN 2 * b ELSE BackoffMax

\* flush succeeded: the batch is gone and the backoff starts again at one second.
FlushOk ==
    /\ batch' = FALSE
    /\ backoff' = 1
    /\ wpc' = IF draining' THEN "drain" ELSE "recv"
    /\ UNCHANGED sleepLeft

\* flush failed: the WAL took the batch or it stays in memory; then the writer sleeps.
FlushErr ==
    /\ batch' \in BOOLEAN
    /\ sleepLeft' = IF backoff < BackoffMax THEN backoff ELSE BackoffMax
    /\ backoff' = next_backoff(backoff)
    /\ wpc' = "sleep"

Flush == (FlushOk \/ FlushErr) /\ due' = FALSE

\* Events arrive while the sender is open.
Arrive ==
    /\ ~closed
    /\ queued < MaxQueued
    /\ queued' = queued + 1
    /\ UNCHANGED <<wpc, batch, due, backoff, sleepLeft, drains, draining, closed, quiet,
                   waited, elapsed>>

\* recv fills the batch to BATCH_MAX: flush.
Receive ==
    /\ wpc = "recv"
    /\ queued > 0
    /\ queued' = queued - 1
    /\ UNCHANGED <<drains, draining, closed, quiet, waited, elapsed>>
    /\ Flush

\* recv leaves a partial batch.
Collect ==
    /\ wpc = "recv"
    /\ ~closed
    /\ batch' = TRUE
    /\ UNCHANGED <<wpc, due, backoff, sleepLeft, drains, draining, queued, closed, quiet,
                   waited, elapsed>>

\* Time passes in select! only while there is nothing to receive; once the channel is
\* closed recv() is ready at once and no timer elapses any more.
TimerElapses ==
    /\ wpc = "recv"
    /\ batch /\ ~due
    /\ queued = 0 /\ ~closed
    /\ due' = TRUE
    /\ UNCHANGED <<wpc, batch, backoff, sleepLeft, drains, draining, queued, closed, quiet,
                   waited, elapsed>>

\* select! takes the timer branch, perhaps in a race with recv().
Timer ==
    /\ wpc = "recv"
    /\ due
    /\ UNCHANGED <<drains, draining, queued, closed, quiet, waited, elapsed>>
    /\ Flush

Wake ==
    /\ wpc = "sleep"
    /\ sleepLeft = 0
    /\ wpc' = IF draining THEN "drain" ELSE "recv"
    /\ UNCHANGED <<batch, due, backoff, sleepLeft, drains, draining, queued, closed, quiet,
                   waited, elapsed>>

Closed ==
    /\ wpc = "recv"
    /\ closed
    /\ queued = 0
    /\ draining' = TRUE
    /\ wpc' = "drain"
    /\ UNCHANGED <<batch, due, backoff, sleepLeft, drains, queued, closed, quiet, waited, elapsed>>

\* Bug: one attempt too many.
Drain_OneMore ==
    /\ wpc = "drain"
    /\ UNCHANGED <<draining, queued, closed, quiet, waited, elapsed>>
    /\ \/ /\ batch /\ drains <= DrainAttempts
          /\ drains' = drains + 1
          /\ Flush
       \/ /\ ~batch \/ drains > DrainAttempts
          /\ batch' = FALSE
          /\ wpc' = "exited"
          /\ UNCHANGED <<due, backoff, sleepLeft, drains>>

\* The shutdown loop of run_writer.
Drain ==
    /\ wpc = "drain"
    /\ UNCHANGED <<draining, queued, closed, quiet, waited, elapsed>>
    /\ \/ /\ batch /\ drains < DrainAttempts
          /\ drains' = drains + 1
          /\ Flush
       \/ /\ ~batch \/ drains >= DrainAttempts
          /\ batch' = FALSE
          /\ wpc' = "exited"
          /\ UNCHANGED <<due, backoff, sleepLeft, drains>>

\* The shutdown signal.  The connections may drain at once, so that main reaches the
\* join with the writer right away.
Close ==
    /\ ~closed
    /\ closed' = TRUE
    /\ quiet' = (backoff = 1 /\ wpc = "recv" /\ ~due /\ queued = 0)
    /\ UNCHANGED <<wpc, batch, due, backoff, sleepLeft, drains, draining, queued, waited, elapsed>>

\* A second passes when the writer has nothing to do.
ShutdownTick ==
    /\ wpc = "sleep" /\ sleepLeft > 0
    /\ sleepLeft' = sleepLeft - 1
    /\ elapsed' = IF closed THEN elapsed + 1 ELSE 0
    /\ waited' = IF closed /\ waited <= JoinSeconds THEN waited + 1 ELSE waited
    /\ UNCHANGED <<wpc, batch, due, backoff, drains, draining, queued, closed, quiet>>

\* The writer is gone; nothing follows.
ShutdownDone == wpc = "exited" /\ UNCHANGED shutdownVars

ShutdownNext == \/ Arrive \/ Receive \/ Collect \/ TimerElapses \/ Timer \/ Wake \/ Closed \/ Drain \/ Close
                \/ ShutdownTick \/ ShutdownDone

ShutdownSpec == ShutdownInit /\ [][ShutdownNext]_shutdownVars

-----------------------------------------------------------------------------
\* The comment of run_writer: the retries at shutdown stay within the 10 s that main
\* waits for the writer, so that the last batch is not cut off.
DrainFitsJoinWindow == waited <= JoinSeconds

\* It is true of a shutdown that meets the writer without a pending backoff and with an
\* empty channel: the three retries sleep 1 + 2 + 4 seconds.
QuietDrainFits == quiet => waited <= 7

\* From close on the writer sleeps at most once more for the flush it is in, once for
\* each flush the channel still triggers, once for a timer that races with close, and
\* three times in the drain loop.
DrainTimeBounded == elapsed <= BackoffMax * (MaxQueued + 2 + DrainAttempts)

\* The writer comes to an end after close: within the join window if nothing was pending,
\* and otherwise within a time that the queue and the backoff bound.
DrainBounded == QuietDrainFits /\ DrainTimeBounded
=============================================================================
