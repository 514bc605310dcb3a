--------------------------- MODULE ChannelState ---------------------------
(***************************************************************************)
(* What traffic leaves behind on a channel: the mark that its credentials   *)
(* are refused (in memory at once, in extra.auth_state by a task), and the  *)
(* quota that its response headers report (in extra.quota, by a task,       *)
(* throttled).  Tasks run in any order and may fail; a restart loses them   *)
(* and the memory.                                                          *)
(***************************************************************************)
EXTENDS Integers, FiniteSets

CONSTANTS
    AuthCodes,      \* normalised error codes
    QuotaReadings,  \* contents of the quota headers
    AuthFailTtl,    \* AUTH_FAIL_TTL_SECS
    ThrottleTime,   \* 60 s
    MaxMoment,      \* bound on the clock
    MaxTasks,       \* bound on the tasks spawned
    MaxRestarts     \* bound on restarts

ASSUME ChannelAssumption ==
    /\ {AuthFailTtl, ThrottleTime, MaxMoment, MaxTasks, MaxRestarts} \subseteq Nat
    /\ {"none", "idle"} \cap (AuthCodes \cup QuotaReadings) = {}

VARIABLES
    guard,      \* AuthGuard: the failure, or NoFailure
    throttle,   \* QuotaThrottle: the last reading and its time, or NoReading
    extra,      \* upstreams.extra: auth_state and quota
    edit,       \* "idle", or the quota that an edit of the row has read
    tasks,      \* tasks that have been spawned and not run
    moment,     \* the clock
    spawned,    \* number of tasks spawned
    restarts,   \* number of restarts
    reading,    \* ghost: the last reading of the headers
    stores,     \* ghost: times at which a failure was sent to the database
    excuses     \* ghost: fields of the row that may differ from what is known

channelVars == <<guard, throttle, extra, edit, tasks, moment, spawned, restarts, reading, stores, excuses>>

NoFailure == [code |-> "none", at |-> 0]
NoReading == [value |-> "none", at |-> 0]

ChannelInit ==
    /\ guard = NoFailure /\ throttle = NoReading
    /\ extra = [auth_state |-> "none", quota |-> "none"]
    /\ edit = "idle" /\ tasks = {} /\ moment = 0 /\ spawned = 0 /\ restarts = 0
    /\ reading = "none" /\ stores = {} /\ excuses = {}

blocked_at(f) == f.code # "none" /\ moment - f.at < AuthFailTtl

\* Two tasks that write the same field may run in either order.
Spawn(field, value) ==
    /\ spawned < MaxTasks
    /\ tasks' = tasks \cup {[n |-> spawned + 1, field |-> field, value |-> value]}
    /\ spawned' = spawned + 1
    /\ excuses' = IF \E x \in tasks : x.field = field THEN excuses \cup {field} ELSE excuses

-----------------------------------------------------------------------------

\* mark: the same failure within its period changes nothing.
MarkUnchanged(code) == guard.code = code /\ blocked_at(guard)

mark_auth_failure(code) ==
    /\ ~MarkUnchanged(code)
    /\ guard' = [code |-> code, at |-> moment]
    /\ Spawn("auth_state", code)
    /\ stores' = stores \cup {[code |-> code, at |-> moment, n |-> spawned]}
    /\ UNCHANGED <<throttle, extra, edit, moment, restarts, reading>>

\* A success, or new credentials.  Without a mark in memory the row is left alone.
clear_auth_failure ==
    /\ guard # NoFailure /\ guard' = NoFailure
    /\ stores' = {}
    /\ Spawn("auth_state", "none")
    /\ UNCHANGED <<throttle, extra, edit, moment, restarts, reading>>

\* Bug: the content is not compared
throttle_claim_TimeOnly(q) == throttle.value # "none" /\ moment - throttle.at < ThrottleTime

\* The same content within the time is not written again.
throttle_claim(q) == throttle.value = q /\ moment - throttle.at < ThrottleTime

capture_codex_headers(q) ==
    /\ throttle' = [value |-> q, at |-> moment]
    /\ reading' = q
    /\ IF throttle_claim(q) THEN UNCHANGED <<tasks, spawned, excuses>> ELSE Spawn("quota", q)
    /\ UNCHANGED <<guard, extra, edit, moment, restarts, stores>>

\* cred::store, cred::clear_stored and quota::store
RunTask(x) ==
    /\ extra' = IF x.field = "quota" THEN [extra EXCEPT !.quota = x.value] ELSE [extra EXCEPT !.auth_state = x.value]
    /\ tasks' = tasks \ {x}
    /\ UNCHANGED <<guard, throttle, edit, moment, spawned, restarts, reading, stores, excuses>>

TaskFails(x) ==
    /\ tasks' = tasks \ {x}
    /\ excuses' = excuses \cup {x.field}
    /\ UNCHANGED <<guard, throttle, extra, edit, moment, spawned, restarts, reading, stores>>

\* update_upstream reads the row, with the quota it will write back,
EditBegins ==
    /\ edit = "idle" /\ edit' = extra.quota
    /\ UNCHANGED <<guard, throttle, extra, tasks, moment, spawned, restarts, reading, stores, excuses>>

\* and writes extra as a whole: auth_state dropped, the quota it read put
\* back.  New credentials also clear the mark.
EditEnds(credentials) ==
    /\ edit # "idle" /\ edit' = "idle"
    /\ extra' = [auth_state |-> "none", quota |-> edit]
    /\ LET more == {f \in {"quota", "auth_state"} : IF f = "quota" THEN extra.quota # edit ELSE guard # NoFailure}
       IN IF credentials /\ guard # NoFailure
          THEN /\ guard' = NoFailure /\ stores' = {} /\ spawned < MaxTasks
               /\ tasks' = tasks \cup {[n |-> spawned + 1, field |-> "auth_state", value |-> "none"]}
               /\ spawned' = spawned + 1
               /\ excuses' = excuses \cup more
          ELSE excuses' = excuses \cup more /\ UNCHANGED <<guard, tasks, spawned, stores>>
    /\ UNCHANGED <<throttle, moment, restarts, reading>>

\* main starts with an empty guard and an empty throttle.
ChannelRestart ==
    /\ restarts < MaxRestarts /\ restarts' = restarts + 1
    /\ guard' = NoFailure /\ throttle' = NoReading /\ tasks' = {} /\ stores' = {} /\ edit' = "idle"
    /\ reading' = extra.quota
    /\ excuses' = IF extra.auth_state # "none" \/ tasks # {} THEN excuses \cup {"auth_state"} ELSE excuses
    /\ UNCHANGED <<extra, moment, spawned>>

MomentPasses ==
    /\ moment < MaxMoment /\ moment' = moment + 1
    /\ UNCHANGED <<guard, throttle, extra, edit, tasks, spawned, restarts, reading, stores, excuses>>

ChannelNext ==
    \/ \E c \in AuthCodes : mark_auth_failure(c)
    \/ clear_auth_failure
    \/ \E q \in QuotaReadings : capture_codex_headers(q)
    \/ \E x \in tasks : RunTask(x) \/ TaskFails(x)
    \/ EditBegins
    \/ \E credentials \in BOOLEAN : EditEnds(credentials)
    \/ ChannelRestart \/ MomentPasses

ChannelSpec == ChannelInit /\ [][ChannelNext]_channelVars

-----------------------------------------------------------------------------
ChannelTypeOK ==
    /\ guard \in [code : AuthCodes \cup {"none"}, at : 0 .. MaxMoment]
    /\ throttle \in [value : QuotaReadings \cup {"none"}, at : 0 .. MaxMoment]
    /\ extra \in [auth_state : AuthCodes \cup {"none"}, quota : QuotaReadings \cup {"none"}]
    /\ moment \in 0 .. MaxMoment /\ spawned \in 0 .. MaxTasks /\ Cardinality(tasks) <= MaxTasks

\* Within one period of a failure its details are sent to the database once,
\* however many requests meet it.
StoreOncePerPeriod ==
    \A a, b \in stores :
        a.n < b.n /\ a.code = b.code /\ b.at - a.at < AuthFailTtl =>
            \E c \in stores : a.n < c.n /\ c.n < b.n /\ c.code # a.code

AtRest(field) == ~\E x \in tasks : x.field = field
Explained(field) == field \in excuses

\* At rest the row names the failure the guard holds, and none if it holds
\* none, unless tasks overlapped or failed, the channel was edited, or the
\* process was restarted.
LabelExplained == AtRest("auth_state") /\ ~Explained("auth_state") => extra.auth_state = guard.code

\* At rest the row has the last reading of the headers, unless tasks for it
\* overlapped or failed, or an edit wrote back the quota it had read before.
QuotaExplained == AtRest("quota") /\ ~Explained("quota") => extra.quota = reading

\* What the row of a channel says is what the process knows, and was written once, except
\* after the events that are known to part them.
RowExplained == ChannelTypeOK /\ StoreOncePerPeriod /\ LabelExplained /\ QuotaExplained

\* "cleared ... after any successful request": at rest, a channel without a
\* mark shows none.  (Refuted: tasks in another order; after a restart the
\* guard is empty and clear_auth_failure leaves the row alone.)
LabelClears == AtRest("auth_state") /\ guard = NoFailure => extra.auth_state = "none"
=============================================================================
