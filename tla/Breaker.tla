------------------------------- MODULE Breaker -------------------------------
(***************************************************************************)
(* The circuit breaker of one upstream (routing/mod.rs) with everything    *)
(* that shares its state: requests that ask allow and report on_success    *)
(* and on_failure, the upstreams row they write back to after the lock is  *)
(* released, the entity snapshot they read it from (cache.rs), the admin   *)
(* handlers that change or reset it, and restarts.                         *)
(*                                                                         *)
(* The unit of time is the default cooldown of a minute.  An instant is    *)
(* the time left until it, so a cooldown that is over is 0.  A disabled    *)
(* upstream (enabled = false) is always one with disabled_by = 'manual'.   *)
(***************************************************************************)
EXTENDS Naturals, FiniteSets

CONSTANTS
    Request,          \* concurrent requests that consider the upstream
    Threshold,        \* upstreams.breaker_threshold
    MaxCooldown,      \* MAX_COOLDOWN_SECS
    HalfOpenTimeout,  \* HALFOPEN_TIMEOUT_SECS
    MaxOpens,         \* counts of openings and failures stop growing here, where the
                      \* cooldown has long reached MaxCooldown
    MaxEvents,        \* bound: admin operations and restarts
    Events,           \* which of them happen
    LongWaits         \* whether time may pass while a write-back is on its way

EventKinds == {"disable", "enable", "edit", "reload", "switch", "restart"}

ASSUME BoundAssumption ==
    /\ Threshold \in Nat \ {0}
    /\ MaxCooldown \in Nat \ {0}
    /\ HalfOpenTimeout \in Nat \ {0}
    /\ MaxOpens \in Nat /\ MaxOpens >= Threshold
    /\ MaxEvents \in Nat
ASSUME EventAssumption == Events \subseteq EventKinds /\ LongWaits \in BOOLEAN

VARIABLES
    db,       \* disabled_by, cooldown_until, consecutive_failures in the upstreams row
    snap,     \* the same fields in the entity snapshot
    auto,     \* auto_disable_active: the global switch (the upstream's own is left on)
    mem,      \* Breaker.states entry
    since,    \* Breaker.halfopen_since entry: time since then, NoTimer if there is none
    pc,       \* control point of each request
    up,       \* the row in the snapshot a request took when it began
    wr,       \* the write-back a request still has to make
    apc,      \* control point of the admin handler
    arow,     \* the row the admin handler read
    events,   \* admin operations and restarts still allowed
    streak,   \* history: failures counted since the last success, reset or start
    ban,      \* history: time left of the last cooldown written to the database
    lastCool  \* history: the last cooldown since a success, a reset or an admin write

memVars   == <<mem, since>>
adminVars == <<apc, arow, events>>
histVars  == <<streak, ban, lastCool>>
vars == <<db, snap, auto, memVars, pc, up, wr, adminVars, histVars>>

Least(a, b) == IF a < b THEN a ELSE b
Lower(n) == IF n > 0 THEN n - 1 ELSE 0

NoTimer == HalfOpenTimeout + 1
NoWrite == [kind |-> "none", cool |-> 0, fails |-> 0]
FreshRow == [by |-> "null", cool |-> 0, fails |-> 0]
NoEntry == [st |-> "none", n |-> 0, cool |-> 0]
ClosedAt(n) == [st |-> "closed", n |-> n, cool |-> 0]
OpenFor(cool, n) == [st |-> "open", n |-> n, cool |-> cool]
HalfOpenAt(n) == [st |-> "half", n |-> n, cool |-> 0]

Rows    == [by : {"null", "auto", "manual"}, cool : 0..MaxCooldown, fails : 0..MaxOpens]
Entries == [st : {"none", "closed", "open", "half"}, n : 0..MaxOpens, cool : 0..MaxCooldown]
Writes  == [kind : {"none", "open", "failures"}, cool : 0..MaxCooldown, fails : 0..MaxOpens]

Init ==
    /\ db = FreshRow /\ snap = FreshRow
    /\ auto = TRUE
    /\ mem = NoEntry /\ since = NoTimer
    /\ pc = [r \in Request |-> "idle"]
    /\ up = [r \in Request |-> FreshRow]
    /\ wr = [r \in Request |-> NoWrite]
    /\ apc = "idle" /\ arow = FreshRow
    /\ events = MaxEvents
    /\ streak = 0 /\ ban = 0 /\ lastCool = 0

-----------------------------------------------------------------------------
(* Requests. *)

\* A request goes on to a control point; with its end it drops the row it holds.
Goto(r, place) ==
    /\ pc' = [pc EXCEPT ![r] = place]
    /\ up' = IF place = "idle" THEN [up EXCEPT ![r] = FreshRow] ELSE up

\* run_gateway takes the snapshot before its rate and quota checks.
Begin(r) ==
    /\ pc[r] = "idle"
    /\ pc' = [pc EXCEPT ![r] = "candidate"]
    /\ up' = [up EXCEPT ![r] = snap]
    /\ UNCHANGED <<db, snap, auto, memVars, wr, adminVars, histVars>>

Cooling(row) == row.by = "auto" /\ row.cool > 0

\* Bug: a half-open breaker waits for its probe for ever.
Stuck_Never == FALSE

\* The probe has been out for HALFOPEN_TIMEOUT_SECS: another may pass.
Stuck == since # NoTimer /\ since >= HalfOpenTimeout

\* What allow answers for a row when the breaker is not bypassed.
Passes(row) ==
    /\ ~Cooling(row)
    /\ \/ mem.st \in {"none", "closed"}
       \/ mem.st = "open" /\ mem.cool = 0
       \/ mem.st = "half" /\ Stuck

\* allow refuses; a cooldown found in the row is taken over if there is no entry yet.
AllowNo(r) ==
    /\ pc[r] = "candidate"
    /\ up[r].by = "manual" \/ (auto /\ ~Passes(up[r]))
    /\ Goto(r, "idle")
    /\ mem' = IF Cooling(up[r]) /\ mem.st = "none"
              THEN OpenFor(up[r].cool, IF up[r].fails > 1 THEN up[r].fails ELSE 1)
              ELSE mem
    /\ UNCHANGED <<db, snap, auto, since, wr, adminVars, histVars>>

\* allow lets the request through; an expired cooldown becomes a half-open probe.
AllowYes(r) ==
    /\ pc[r] = "candidate"
    /\ up[r].by # "manual" /\ auto /\ Passes(up[r])
    /\ Goto(r, IF mem.st \in {"open", "half"} THEN "probe" ELSE "admitted")
    /\ mem' = CASE mem.st = "none" -> ClosedAt(0)
                [] mem.st = "open" -> HalfOpenAt(mem.n)
                [] OTHER           -> mem
    /\ since' = IF mem.st \in {"open", "half"} THEN 0 ELSE since
    /\ UNCHANGED <<db, snap, auto, wr, adminVars, histVars>>

\* Automatic disabling is off: allow drops what is left of the state and lets through.
AllowBypass(r) ==
    /\ pc[r] = "candidate"
    /\ up[r].by # "manual" /\ ~auto
    /\ Goto(r, "admitted")
    /\ mem' = NoEntry /\ since' = NoTimer
    /\ streak' = 0 /\ ban' = 0 /\ lastCool' = 0
    /\ UNCHANGED <<db, snap, auto, wr, adminVars>>

Trying == {"admitted", "probe"}

\* The request ends without the breaker hearing of it: another candidate answered, the
\* error was not retryable, or the client went away.
Leave(r) ==
    /\ pc[r] \in Trying
    /\ Goto(r, "idle")
    /\ UNCHANGED <<db, snap, auto, memVars, wr, adminVars, histVars>>

\* on_success: the entry is closed, then the timer removed under a lock of its own.
OnSuccess(r) ==
    /\ pc[r] \in Trying
    /\ Goto(r, "timer")
    /\ mem' = ClosedAt(0)
    /\ streak' = 0 /\ ban' = 0 /\ lastCool' = 0
    /\ UNCHANGED <<db, snap, auto, since, wr, adminVars>>

RemoveTimer(r) ==
    /\ pc[r] = "timer"
    /\ since' = NoTimer
    /\ Goto(r, IF up[r].by = "auto" THEN "restore" ELSE "idle")
    /\ UNCHANGED <<db, snap, auto, mem, wr, adminVars, histVars>>

\* UPDATE ... WHERE disabled_by = 'auto'; an error is only logged.
Restore(r) ==
    /\ pc[r] = "restore"
    /\ Goto(r, "idle")
    /\ db' \in {IF db.by = "auto" THEN FreshRow ELSE db, db}
    /\ UNCHANGED <<snap, auto, memVars, wr, adminVars, histVars>>

\* 1 << opens
Shift[opens \in Nat] == IF opens = 0 THEN 1 ELSE 2 * Shift[opens - 1]

cooldown_secs(opens) == Least(Shift[opens], MaxCooldown)

\* Bug: the threshold is compared with the count before this failure.
AfterFailure_Late ==
    CASE mem.st \in {"none", "closed"} ->
           IF mem.n >= Threshold THEN OpenFor(cooldown_secs(0), 1) ELSE ClosedAt(mem.n + 1)
      [] mem.st = "open" -> mem
      [] mem.st = "half" -> OpenFor(cooldown_secs(mem.n), Least(mem.n + 1, MaxOpens))

\* next_on_failure.
AfterFailure ==
    CASE mem.st \in {"none", "closed"} ->
           IF mem.n + 1 >= Threshold THEN OpenFor(cooldown_secs(0), 1) ELSE ClosedAt(mem.n + 1)
      [] mem.st = "open" -> mem
      [] mem.st = "half" -> OpenFor(cooldown_secs(mem.n), Least(mem.n + 1, MaxOpens))

\* What on_failure writes back.
WriteBack(r) ==
    CASE mem.st = "open" ->
           [kind |-> "failures", cool |-> 0, fails |-> Least(up[r].fails + 1, MaxOpens)]
      [] mem.st # "open" /\ AfterFailure.st = "open" ->
           [kind |-> "open", cool |-> AfterFailure.cool,
            fails |-> IF mem.st = "half" THEN Threshold ELSE mem.n]
      [] OTHER -> NoWrite

\* After a failure the same candidate is retried, or the request goes elsewhere.
Onward == {"admitted", "idle"}

\* on_failure up to the release of the lock.
OnFailure(r) ==
    /\ pc[r] \in Trying
    /\ auto
    /\ mem' = AfterFailure
    /\ since' = IF mem.st = "half" THEN NoTimer ELSE since
    /\ wr' = [wr EXCEPT ![r] = WriteBack(r)]
    /\ \E next \in Onward :
          Goto(r, IF WriteBack(r).kind = "none" THEN next ELSE "write")
    /\ streak' = IF mem.st \in {"none", "closed"} THEN Least(streak + 1, MaxOpens) ELSE streak
    /\ lastCool' = IF mem.st # "open" /\ mem'.st = "open" THEN mem'.cool ELSE lastCool
    /\ UNCHANGED <<db, snap, auto, adminVars, ban>>

\* on_failure returns at once when automatic disabling is off.
FailureIgnored(r) ==
    /\ pc[r] \in Trying
    /\ ~auto
    /\ \E next \in Onward : Goto(r, next)
    /\ UNCHANGED <<db, snap, auto, memVars, wr, adminVars, histVars>>

\* Bug: the write-back does not look at disabled_by.
WriteDb_NoGuard(r) ==
    /\ pc[r] = "write"
    /\ db' = IF wr[r].kind = "open"
             THEN [by |-> "auto", cool |-> wr[r].cool, fails |-> wr[r].fails]
             ELSE [db EXCEPT !.fails = wr[r].fails]
    /\ Goto(r, "idle")
    /\ wr' = [wr EXCEPT ![r] = NoWrite]
    /\ UNCHANGED <<snap, auto, memVars, adminVars, histVars>>

\* The write-back, guarded by disabled_by IS DISTINCT FROM 'manual'; an error is logged.
WriteDb(r) ==
    /\ pc[r] = "write"
    /\ \/ UNCHANGED <<db, ban>>
       \/ /\ db.by # "manual"
          /\ db' = IF wr[r].kind = "open"
                   THEN [by |-> "auto", cool |-> wr[r].cool, fails |-> wr[r].fails]
                   ELSE [db EXCEPT !.fails = wr[r].fails]
          /\ ban' = IF wr[r].kind = "open" /\ mem.st = "open" /\ mem.cool = wr[r].cool
                    THEN wr[r].cool ELSE ban
    /\ \E next \in Onward : Goto(r, next)
    /\ wr' = [wr EXCEPT ![r] = NoWrite]
    /\ UNCHANGED <<snap, auto, memVars, adminVars, streak, lastCool>>

-----------------------------------------------------------------------------
(* The admin handlers, one at a time. *)

Event(kind) == kind \in Events /\ events > 0 /\ events' = events - 1

\* update_upstream reads the row, and decides the new one from what it read.
AdminRead(op) ==
    /\ apc = "idle"
    /\ Event(op)
    /\ apc' = op
    /\ arow' = db
    /\ UNCHANGED <<db, snap, auto, memVars, pc, up, wr, histVars>>

AdminWrite ==
    /\ apc \in {"disable", "enable", "edit"}
    /\ db' = CASE apc = "disable" -> [arow EXCEPT !.by = "manual"]
               [] apc = "enable"  -> FreshRow
               [] apc = "edit"    -> arow
    /\ apc' = IF apc = "edit" THEN "refresh" ELSE "reload"
    /\ arow' = FreshRow
    /\ ban' = 0 /\ lastCool' = 0
    /\ UNCHANGED <<snap, auto, memVars, pc, up, wr, events, streak>>

\* The snapshot is replaced; after enabling or disabling the breaker is reset.
AdminReload ==
    /\ apc \in {"reload", "refresh"}
    /\ snap' = db
    /\ apc' = IF apc = "reload" THEN "reset" ELSE "idle"
    /\ UNCHANGED <<db, auto, memVars, pc, up, wr, arow, events, histVars>>

\* A statement of the handler fails: it answers with an error and leaves the rest undone.
AdminFails ==
    /\ apc \in {"disable", "enable", "edit", "reload", "refresh"}
    /\ apc' = "idle" /\ arow' = FreshRow
    /\ UNCHANGED <<db, snap, auto, memVars, pc, up, wr, events, histVars>>

AdminReset ==
    /\ apc \in {"reset", "cleared"}
    /\ apc' = IF apc = "reset" THEN "idle" ELSE "refresh"
    /\ mem' = NoEntry /\ since' = NoTimer
    /\ streak' = 0 /\ ban' = 0 /\ lastCool' = 0
    /\ UNCHANGED <<db, snap, auto, pc, up, wr, arow, events>>

\* Any other admin write, model synchronisation or token refresh reloads the snapshot.
Reload ==
    /\ Event("reload")
    /\ snap' = db
    /\ UNCHANGED <<db, auto, memVars, pc, up, wr, apc, arow, histVars>>

\* put_settings saves the switch; turning it off also lifts automatic disables.
SwitchAuto ==
    /\ apc = "idle"
    /\ Event("switch")
    /\ auto' = ~auto
    /\ apc' = IF auto THEN "clear" ELSE "idle"
    /\ UNCHANGED <<db, snap, memVars, pc, up, wr, arow, histVars>>

\* UPDATE ... WHERE disabled_by = 'auto' RETURNING id; the rows it names are reset and the
\* snapshot reloaded.  An error is only logged.
ClearAuto ==
    /\ apc = "clear"
    /\ \/ /\ db.by = "auto"
          /\ db' = FreshRow
          /\ ban' = 0 /\ lastCool' = 0
          /\ apc' = "cleared"
       \/ /\ apc' = "idle"
          /\ UNCHANGED <<db, ban, lastCool>>
    /\ UNCHANGED <<snap, auto, memVars, pc, up, wr, arow, events, streak>>

\* The process restarts: the breaker is empty and the snapshot is read from the database.
Restart ==
    /\ Event("restart")
    /\ mem' = NoEntry /\ since' = NoTimer
    /\ snap' = db
    /\ pc' = [r \in Request |-> "idle"]
    /\ up' = [r \in Request |-> FreshRow]
    /\ wr' = [r \in Request |-> NoWrite]
    /\ apc' = "idle" /\ arow' = FreshRow
    /\ streak' = 0
    /\ UNCHANGED <<db, auto, ban, lastCool>>

-----------------------------------------------------------------------------
Older(row) == [row EXCEPT !.cool = Lower(@)]

\* A minute passes.  The steps between two locks take no time; a statement may.
Tick ==
    /\ \A r \in Request : pc[r] # "timer" /\ (LongWaits \/ pc[r] \notin {"write", "restore"})
    /\ mem' = Older(mem) /\ db' = Older(db) /\ snap' = Older(snap) /\ arow' = Older(arow)
    /\ since' = IF since = NoTimer THEN NoTimer ELSE Least(since + 1, HalfOpenTimeout)
    /\ up' = [r \in Request |-> Older(up[r])]
    /\ wr' = [r \in Request |-> Older(wr[r])]
    /\ ban' = Lower(ban)
    /\ UNCHANGED <<auto, pc, apc, events, streak, lastCool>>

Serve(r) == \/ AllowNo(r) \/ AllowYes(r) \/ AllowBypass(r) \/ Leave(r) \/ OnSuccess(r)
            \/ RemoveTimer(r) \/ Restore(r) \/ OnFailure(r) \/ FailureIgnored(r) \/ WriteDb(r)

Admin == \/ \E op \in {"disable", "enable", "edit"} : AdminRead(op)
         \/ AdminWrite \/ AdminReload \/ AdminFails \/ AdminReset \/ Reload
         \/ SwitchAuto \/ ClearAuto

Next == (\E r \in Request : Begin(r) \/ Serve(r)) \/ Admin \/ Restart \/ Tick

\* Time passes; a request's statements and the admin handler's steps complete.
Fairness == /\ SF_vars(Tick)
            /\ \A r \in Request : WF_vars(RemoveTimer(r)) /\ WF_vars(Restore(r))
                                  /\ WF_vars(WriteDb(r))
            /\ WF_vars(AdminWrite) /\ WF_vars(AdminReload) /\ WF_vars(AdminReset)
            /\ WF_vars(ClearAuto)

Spec == Init /\ [][Next]_vars
FairSpec == Spec /\ Fairness

-----------------------------------------------------------------------------
(* Properties. *)

\* Types.  Every cooldown, in memory, in the row and on its way there, is within the cap.
TypeOK ==
    /\ db \in Rows /\ snap \in Rows /\ arow \in Rows
    /\ auto \in BOOLEAN
    /\ mem \in Entries
    /\ since \in 0..NoTimer
    /\ pc \in [Request -> {"idle", "candidate", "admitted", "probe", "timer", "restore", "write"}]
    /\ up \in [Request -> Rows]
    /\ wr \in [Request -> Writes]
    /\ apc \in {"idle", "disable", "enable", "edit", "reload", "refresh", "reset", "clear",
               "cleared"}
    /\ events \in 0..MaxEvents
    /\ streak \in 0..MaxOpens /\ ban \in 0..MaxCooldown /\ lastCool \in 0..MaxCooldown

\* No write-back of a request, however late it arrives, touches a manual disable: only an
\* admin handler changes such a row.
ManualStays == [][db.by = "manual" /\ apc' = apc => db' \in {db, Older(db)}]_vars

\* No failure is lost or counted twice among concurrent requests: a closed breaker has
\* counted exactly the failures since the last success or reset, fewer than the threshold.
FailuresCounted == mem.st = "closed" => mem.n = streak /\ streak < Threshold

\* A breaker that is half open always has a timer, although on_success removes it after it
\* has given up the lock: without one allow would refuse for ever.
HalfOpenTimed == mem.st = "half" => since # NoTimer

\* The breaker in memory is right about concurrent requests: it counts each failure once,
\* opens at the threshold, and is never half open without the timer that frees it.
BreakerExact == TypeOK /\ FailuresCounted /\ HalfOpenTimed

\* An upstream that is not disabled by hand is offered to requests again and again.
NotBlockedForever == []<>(snap.by = "manual" \/ ~auto \/ Passes(snap))

\* allow's comment on the half-open state: a probe is in flight, so others are refused.
HalfOpenHasProbe == mem.st = "half" => \E r \in Request : pc[r] = "probe"

\* allow's comment on restarts: a cooldown written to the database is not bypassed by a
\* restart.
CooldownSurvives == [][\A r \in Request : AllowYes(r) => ban = 0]_vars

\* on_failure's comment: a failed probe doubles the cooldown.
BackoffDoubles == [][\A r \in Request :
    OnFailure(r) /\ mem.st = "half" => mem'.cool <= 2 * lastCool]_vars

=============================================================================
