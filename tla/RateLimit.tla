---------------------------- MODULE RateLimit ----------------------------
(***************************************************************************)
(* The sliding windows: requests per minute of an API key, and attempts of  *)
(* a login name (the sensitive endpoints share that table under names of    *)
(* their own).  Each check runs under one mutex, so it is one step.         *)
(***************************************************************************)
EXTENDS Integers, Sequences, FiniteSets

CONSTANTS
    ApiKeys,        \* keys of the gateway
    LoginNames,     \* names that try to log in
    Rpms,           \* values of api_keys.rpm; 0 or less: no limit
    DefaultRpm,     \* default_rate_limit_rpm
    LoginLimit,     \* admin_login_rate_limit_per_min
    Window,         \* 60 s
    IdleEvict,      \* 600 s
    MaxRateEntries, \* 10 000 names
    MaxTime         \* bound on the clock

NoRpm == -1         \* NULL in api_keys.rpm

ASSUME RateAssumption ==
    /\ {Window, IdleEvict, MaxRateEntries, MaxTime, DefaultRpm, LoginLimit} \subseteq Nat
    /\ Window <= IdleEvict
    /\ Rpms \subseteq Int
    /\ ApiKeys \cap LoginNames = {}    \* the ghost names both

VARIABLES
    time,       \* the clock
    rpm,        \* api_keys.rpm, as the cached key has it
    windows,    \* RateLimiter.windows
    logins,     \* LoginRateLimiter: name -> events and last_seen
    grants      \* ghost: who was let through in the last Window, when, under
                \* which limit, and after how many others

rateVars == <<time, rpm, windows, logins, grants>>

RateInit ==
    /\ time = 0
    /\ rpm \in [ApiKeys -> Rpms \cup {NoRpm}]
    /\ windows = [k \in {} |-> <<>>] /\ logins = [n \in {} |-> <<>>]
    /\ grants = {}

Lookup(map, k, default) == IF k \in DOMAIN map THEN map[k] ELSE default
Entry(map, k, v) == [x \in DOMAIN map \cup {k} |-> IF x = k THEN v ELSE map[x]]
Without(map, ks) == [x \in DOMAIN map \ ks |-> map[x]]

-----------------------------------------------------------------------------
(* window_allow: an event expires when it is older than the window; the      *)
(* queue is in time order, so the expired ones are at its head.              *)
FirstLive(queue) ==
    CHOOSE i \in 1 .. Len(queue) + 1 :
        /\ \A j \in 1 .. i - 1 : time - queue[j] > Window
        /\ i <= Len(queue) => time - queue[i] <= Window

Live(queue) == SubSeq(queue, FirstLive(queue), Len(queue))

window_allow(queue, limit) == limit = 0 \/ Len(Live(queue)) < limit

AfterAllow(queue, limit) ==
    IF limit = 0 THEN queue
    ELSE IF window_allow(queue, limit) THEN Append(Live(queue), time) ELSE Live(queue)

\* rpm: none: the default; zero or less: no limit
EffectiveRpm(k) == IF rpm[k] = NoRpm THEN DefaultRpm ELSE rpm[k]

Granted(who, limit) ==
    LET recent == {g \in grants : time - g.at <= Window}
    IN  grants' = recent \cup {[who |-> who, at |-> time, limit |-> limit,
                                after |-> Cardinality({g \in recent : g.who = who})]}

check_rpm(k) ==
    LET limit == EffectiveRpm(k)
        queue == Lookup(windows, k, <<>>)
    IN  /\ limit > 0
        /\ windows' = Entry(windows, k, AfterAllow(queue, limit))
        /\ IF window_allow(queue, limit) THEN Granted(k, limit) ELSE UNCHANGED grants
        /\ UNCHANGED <<time, rpm, logins>>

(* The remaining requests that the X-RateLimit headers promise.              *)
rpm_status(k) ==
    LET queue == Lookup(windows, k, <<>>)
        used == Cardinality({i \in DOMAIN queue : time - queue[i] < Window})
    IN  IF EffectiveRpm(k) > used THEN EffectiveRpm(k) - used ELSE 0

\* The administrator edits the key, or deletes it.
SetRpm(k) ==
    /\ \E r \in Rpms \cup {NoRpm} : rpm' = [rpm EXCEPT ![k] = r]
    /\ UNCHANGED <<time, windows, logins, grants>>

remove_key(k) ==
    /\ windows' = Without(windows, {k})
    /\ grants' = {g \in grants : g.who # k}
    /\ UNCHANGED <<time, rpm, logins>>

-----------------------------------------------------------------------------
\* Bug: a name counts as idle while its attempts are still in the window
evict_idle_entries_Early(map) ==
    Without(map, {n \in DOMAIN map : time - map[n].last_seen >= Window \div 2})

evict_idle_entries(map) == Without(map, {n \in DOMAIN map : time - map[n].last_seen > IdleEvict})

\* A new name in a full table: idle names go; if none does it is refused.
LoginTable(n) ==
    IF n \notin DOMAIN logins /\ Cardinality(DOMAIN logins) >= MaxRateEntries
    THEN evict_idle_entries(logins) ELSE logins

check_login(n) ==
    LET map == LoginTable(n)
        e == Lookup(map, n, [events |-> <<>>, last_seen |-> time])
    IN  /\ LoginLimit > 0
        /\ IF n \notin DOMAIN map /\ Cardinality(DOMAIN map) >= MaxRateEntries
           THEN logins' = map /\ UNCHANGED grants
           ELSE /\ logins' = Entry(map, n, [events |-> AfterAllow(e.events, LoginLimit), last_seen |-> time])
                /\ IF window_allow(e.events, LoginLimit) THEN Granted(n, LoginLimit) ELSE UNCHANGED grants
        /\ UNCHANGED <<time, rpm, windows>>

RateTick == time < MaxTime /\ time' = time + 1 /\ UNCHANGED <<rpm, windows, logins, grants>>

RateNext ==
    \/ RateTick
    \/ \E k \in ApiKeys : check_rpm(k) \/ SetRpm(k) \/ remove_key(k)
    \/ \E n \in LoginNames : check_login(n)

RateSpec == RateInit /\ [][RateNext]_rateVars

-----------------------------------------------------------------------------
RateTypeOK ==
    /\ time \in 0 .. MaxTime
    /\ rpm \in [ApiKeys -> Rpms \cup {NoRpm}]
    /\ DOMAIN windows \subseteq ApiKeys /\ windows \in [DOMAIN windows -> Seq(0 .. MaxTime)]
    /\ DOMAIN logins \subseteq LoginNames /\ Cardinality(DOMAIN logins) <= MaxRateEntries
    /\ logins \in [DOMAIN logins -> [events : Seq(0 .. MaxTime), last_seen : 0 .. MaxTime]]

\* At every grant, the grants to the same key or name in the window that ends
\* there, this one included, are at most the limit then in force: neither an
\* edit of the limit nor the eviction of idle names gives a second window.
WindowBound ==
    \A g \in grants : g.after < g.limit

\* What the headers promise is granted: that many requests sent now pass,
\* unless an event is exactly Window old (it is live for check_rpm, and no
\* longer counted by rpm_status).
HeaderHonest ==
    \A k \in ApiKeys :
        LET queue == Lookup(windows, k, <<>>)
        IN  \/ EffectiveRpm(k) <= 0
            \/ Len(Live(queue)) + rpm_status(k) <= EffectiveRpm(k)
            \/ Len(Live(queue)) >= EffectiveRpm(k) /\ rpm_status(k) = 0
            \/ \E i \in DOMAIN queue : time - queue[i] = Window

\* The rate limits hold in every window, across edits and evictions, with a bounded table,
\* and the headers promise no request that would be refused.
LimitsExact == RateTypeOK /\ WindowBound /\ HeaderHonest
=============================================================================
