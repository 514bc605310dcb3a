------------------------------ MODULE Quota ------------------------------
(***************************************************************************)
(* The usage limit of one API key.  Requests are admitted by a verdict that *)
(* is cached for a few seconds; the counter behind it is written by the log *)
(* pipeline after the fact, and reset by a new period.  A check reads the   *)
(* database twice, and any number of checks run at once.                    *)
(***************************************************************************)
EXTENDS Integers

CONSTANTS
    Requests,       \* requests in flight
    QuotaLimit,     \* quota_limit
    QuotaTtl,       \* quota_check_cache_secs
    QueryTime,      \* the longest a check takes
    QuotaActions,   \* values of quota_exceed_action
    Periods,        \* periods (days or months) that pass
    MaxClock        \* bound on the clock

ASSUME QuotaAssumption == {QuotaLimit, QuotaTtl, QueryTime, MaxClock} \subseteq Nat /\ Periods \in Nat \ {0}

VARIABLES
    clock,      \* time
    action,     \* quota_exceed_action
    period,     \* the current period
    usage,      \* quota_usage: the counter of each period
    unpriced,   \* a period holds an event whose cost could not be converted
    verdict,    \* QuotaCache: the verdict and when it was put
    check,      \* what each request does
    since       \* ghost: the verdict that would be right now, and since when

quotaVars == <<clock, action, period, usage, unpriced, verdict, check, since>>

NoVerdict == [at |-> -1, over |-> FALSE]
QuotaIdle == [pc |-> "idle"]

\* Whether the key is over its limit, read from the database at one moment
Over(p, u, un) == u[p] >= QuotaLimit \/ p \in un

QuotaInit ==
    /\ clock = 0 /\ action \in QuotaActions
    /\ period = 1 /\ usage = [p \in 1 .. Periods |-> 0] /\ unpriced = {}
    /\ verdict = NoVerdict
    /\ check = [r \in Requests |-> QuotaIdle]
    /\ since = [over |-> Over(1, usage, unpriced), at |-> 0]

Judge(p, u, un) ==
    since' = IF Over(p, u, un) = since.over THEN since ELSE [over |-> ~since.over, at |-> clock]

-----------------------------------------------------------------------------
\* Bug: a refusal never expires
CacheGet_RefusesOn ==
    IF verdict.at >= 0 /\ (verdict.over \/ clock - verdict.at < QuotaTtl) THEN {verdict.over} ELSE {}

(* QuotaCache::get and put                                                   *)
CacheGet == IF verdict.at >= 0 /\ clock - verdict.at < QuotaTtl THEN {verdict.over} ELSE {}

Answer(r, over) == [check EXCEPT ![r] = [pc |-> IF over THEN "refused" ELSE "admitted", at |-> clock]]

\* A cached verdict answers at once; otherwise the check begins, with the
\* period of this moment.
BeginCheck(r) ==
    /\ check[r].pc = "idle"
    /\ IF CacheGet # {} THEN \E over \in CacheGet : check' = Answer(r, over)
       ELSE check' = [check EXCEPT ![r] = [pc |-> "cost", period |-> period, begun |-> clock]]
    /\ UNCHANGED <<clock, action, period, usage, unpriced, verdict, since>>

\* The query for events without a cost: any refuses the request when the
\* action is block.
CostQuery(r) ==
    /\ check[r].pc = "cost"
    /\ check' = [check EXCEPT ![r] =
           IF @.period \in unpriced /\ action = "block" THEN [@ EXCEPT !.pc = "over"] ELSE [@ EXCEPT !.pc = "usage"]]
    /\ UNCHANGED <<clock, action, period, usage, unpriced, verdict, since>>

\* The query for the counter
UsageQuery(r) ==
    /\ check[r].pc = "usage"
    /\ check' = [check EXCEPT ![r] =
           IF usage[@.period] >= QuotaLimit /\ action = "block" THEN [@ EXCEPT !.pc = "over"] ELSE [@ EXCEPT !.pc = "under"]]
    /\ UNCHANGED <<clock, action, period, usage, unpriced, verdict, since>>

\* A query fails: a key that must be blocked is refused with 503 and nothing
\* is cached; one that is only warned about goes on.
QueryFails(r) ==
    /\ check[r].pc \in {"cost", "usage"}
    /\ check' = [check EXCEPT ![r] =
           IF action = "block" THEN QuotaIdle
           ELSE IF @.pc = "cost" THEN [@ EXCEPT !.pc = "usage"] ELSE [@ EXCEPT !.pc = "under"]]
    /\ UNCHANGED <<clock, action, period, usage, unpriced, verdict, since>>

\* The verdict is cached with the time of the put, not of the query.
PutVerdict(r) ==
    /\ check[r].pc \in {"over", "under"}
    /\ verdict' = [at |-> clock, over |-> check[r].pc = "over"]
    /\ check' = Answer(r, check[r].pc = "over")
    /\ UNCHANGED <<clock, action, period, usage, unpriced, since>>

-----------------------------------------------------------------------------
\* The request ends; its event reaches the counter of the current period
\* (or has no cost), or it failed and costs nothing.
Settle(r) ==
    /\ check[r].pc = "admitted"
    /\ \/ /\ usage[period] < QuotaLimit + 1
          /\ usage' = [usage EXCEPT ![period] = @ + 1] /\ UNCHANGED unpriced
       \/ unpriced' = unpriced \cup {period} /\ UNCHANGED usage
       \/ UNCHANGED <<usage, unpriced>>
    /\ check' = [check EXCEPT ![r] = QuotaIdle]
    /\ Judge(period, usage', unpriced')
    /\ UNCHANGED <<clock, action, period, verdict>>

Refused429(r) ==
    /\ check[r].pc = "refused"
    /\ check' = [check EXCEPT ![r] = QuotaIdle]
    /\ UNCHANGED <<clock, action, period, usage, unpriced, verdict, since>>

\* window_start moves on: the counter of the new period has no row yet.
NewPeriod ==
    /\ period < Periods
    /\ period' = period + 1
    /\ Judge(period + 1, usage, unpriced)
    /\ UNCHANGED <<clock, action, usage, unpriced, verdict, check>>

Checking(r) == check[r].pc \in {"cost", "usage", "over", "under"}

\* No check takes longer than QueryTime.
QuotaTick ==
    /\ clock < MaxClock
    /\ \A r \in Requests : Checking(r) => clock - check[r].begun < QueryTime
    /\ clock' = clock + 1
    /\ UNCHANGED <<action, period, usage, unpriced, verdict, check, since>>

QuotaNext ==
    \/ QuotaTick \/ NewPeriod
    \/ \E r \in Requests :
        \/ BeginCheck(r) \/ CostQuery(r) \/ UsageQuery(r) \/ QueryFails(r) \/ PutVerdict(r)
        \/ Settle(r) \/ Refused429(r)

QuotaSpec == QuotaInit /\ [][QuotaNext]_quotaVars

-----------------------------------------------------------------------------
CheckStates ==
    [pc : {"idle"}]
    \cup [pc : {"cost", "usage", "over", "under"}, period : 1 .. Periods, begun : 0 .. MaxClock]
    \cup [pc : {"admitted", "refused"}, at : 0 .. MaxClock]

QuotaTypeOK ==
    /\ clock \in 0 .. MaxClock /\ period \in 1 .. Periods
    /\ usage \in [1 .. Periods -> 0 .. QuotaLimit + 1] /\ unpriced \subseteq 1 .. Periods
    /\ verdict \in [at : -1 .. MaxClock, over : BOOLEAN]
    /\ check \in [Requests -> CheckStates]
    /\ since \in [over : BOOLEAN, at : 0 .. MaxClock]

Stale == QuotaTtl + QueryTime

\* In block mode no request is admitted when the key has been over its limit
\* for longer than a verdict lives plus the check that made it, whatever
\* checks overtake each other and whatever queries fail.
OverrunBounded ==
    \A r \in Requests :
        /\ action = "block" /\ check[r].pc = "admitted" /\ since.over /\ since.at <= check[r].at
        => check[r].at - since.at <= Stale

\* And no request is refused when the key has been under its limit for that
\* long: a new period reopens the key.
RefusalBounded ==
    \A r \in Requests :
        /\ check[r].pc = "refused" /\ ~since.over /\ since.at <= check[r].at
        => check[r].at - since.at <= Stale

\* A cached quota verdict is at most one lifetime and one query behind, in both
\* directions.
VerdictsCurrent == QuotaTypeOK /\ OverrunBounded /\ RefusalBounded
=============================================================================
