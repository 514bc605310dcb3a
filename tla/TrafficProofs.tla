---------------------------- MODULE TrafficProofs ----------------------------
(***************************************************************************)
(* Proofs about what a request passes on its way: the usage limit of its   *)
(* key, the marks it leaves on a channel, the rate limits, the log writer  *)
(* when the process stops, and the meter of a streamed answer.             *)
(***************************************************************************)
EXTENDS RateLimit, Quota, ChannelState, StreamBilling, WriterShutdown, Recursion, SequenceTheorems, FiniteSetTheorems,
        WellFoundedInduction, TLAPS

-----------------------------------------------------------------------------
(* Usage limits.                                                             *)

\* The ghost says what the database says at this moment.
SinceTrue == since.over <=> Over(period, usage, unpriced)

\* Nothing is dated in the future, and no check has run for longer than QueryTime.
Dated ==
    /\ verdict.at <= clock /\ since.at <= clock
    /\ \A r \in Requests :
        /\ Checking(r) => check[r].begun <= clock /\ clock - check[r].begun <= QueryTime
        /\ check[r].pc \in {"admitted", "refused"} => check[r].at <= clock

\* A check that began after the key went over its limit, with no change since, is on its way
\* to refuse: the counter it has still to read, or the event without a cost, is of the period
\* it began in, and stays.  QueryFails ends a check in block mode, so none is skipped.
OverSeen ==
    \A r \in Requests :
        action = "block" /\ Checking(r) /\ since.over /\ since.at < check[r].begun =>
            /\ check[r].pc # "under"
            /\ check[r].pc = "usage" => usage[check[r].period] >= QuotaLimit
            /\ check[r].pc = "cost" => Over(check[r].period, usage, unpriced)

\* A check that began after the key came under its limit, with no change since, is on its
\* way to admit: if its period has passed, nobody writes to that counter any more.
UnderSeen ==
    \A r \in Requests :
        Checking(r) /\ ~since.over /\ since.at < check[r].begun =>
            check[r].pc # "over" /\ ~Over(check[r].period, usage, unpriced)

\* The cached verdict is at most one check behind.
VerdictFollows ==
    verdict.at >= 0 /\ since.over # verdict.over /\ (verdict.over \/ action = "block") =>
        verdict.at - since.at <= QueryTime

QuotaInv ==
    QuotaTypeOK /\ SinceTrue /\ Dated /\ OverSeen /\ UnderSeen /\ VerdictFollows
        /\ OverrunBounded /\ RefusalBounded

\* The bounds as numbers.
LEMMA QuotaNats == /\ QuotaLimit \in Nat /\ QuotaTtl \in Nat /\ QueryTime \in Nat /\ MaxClock \in Nat
                   /\ Periods \in Nat /\ Periods >= 1
  BY QuotaAssumption

\* No check runs, and no verdict is cached.
LEMMA QuotaStarts == QuotaInit => QuotaInv
<1> SUFFICES ASSUME QuotaInit PROVE QuotaInv
    OBVIOUS
<1>1. QuotaTypeOK
    BY QuotaNats DEF QuotaInit, QuotaTypeOK, CheckStates, QuotaIdle, NoVerdict, Over
<1>2. \A r \in Requests : check[r].pc = "idle"
    BY DEF QuotaInit, QuotaIdle
<1> QED BY <1>1, <1>2 DEF QuotaInit, QuotaInv, SinceTrue, Dated, OverSeen, UnderSeen, VerdictFollows,
           OverrunBounded, RefusalBounded, Checking, NoVerdict

\* What a check holds at each of its places.
LEMMA QuotaFacts ==
    ASSUME QuotaTypeOK, NEW r \in Requests
    PROVE  /\ check[r] \in CheckStates
           /\ Checking(r) => check[r].period \in 1 .. Periods /\ check[r].begun \in 0 .. MaxClock
           /\ check[r].pc \in {"admitted", "refused"} => check[r].at \in 0 .. MaxClock
  BY DEF QuotaTypeOK, CheckStates, Checking

\* The ghost keeps its type when the key goes over its limit or comes under it.
LEMMA SinceType ==
    ASSUME QuotaTypeOK, NEW now, now \in {since, [over |-> ~since.over, at |-> clock]}
    PROVE  now \in [over : BOOLEAN, at : 0 .. MaxClock]
<1>1. since.over \in BOOLEAN /\ clock \in 0 .. MaxClock /\ since \in [over : BOOLEAN, at : 0 .. MaxClock]
    BY DEF QuotaTypeOK
<1>2. PICK opposite \in BOOLEAN : opposite = ~since.over
    OBVIOUS
<1>3. now \in {since, [over |-> opposite, at |-> clock]}
    BY <1>2
<1> QED BY <1>1, <1>3

\* What the invariant says of one check.
CheckSound(r) ==
    /\ Checking(r) =>
        /\ check[r].begun <= clock /\ clock - check[r].begun <= QueryTime
        /\ action = "block" /\ since.over /\ since.at < check[r].begun =>
               /\ check[r].pc # "under"
               /\ check[r].pc = "usage" => usage[check[r].period] >= QuotaLimit
               /\ check[r].pc = "cost" => Over(check[r].period, usage, unpriced)
        /\ ~since.over /\ since.at < check[r].begun =>
               check[r].pc # "over" /\ ~Over(check[r].period, usage, unpriced)
    /\ check[r].pc \in {"admitted", "refused"} => check[r].at <= clock
    /\ check[r].pc = "admitted" /\ action = "block" /\ since.over /\ since.at <= check[r].at =>
           check[r].at - since.at <= Stale
    /\ check[r].pc = "refused" /\ ~since.over /\ since.at <= check[r].at =>
           check[r].at - since.at <= Stale

\* The invariant, taken apart by check.
LEMMA CheckParts ==
    Dated /\ OverSeen /\ UnderSeen /\ OverrunBounded /\ RefusalBounded
        <=> verdict.at <= clock /\ since.at <= clock /\ \A r \in Requests : CheckSound(r)
  BY DEF Dated, OverSeen, UnderSeen, OverrunBounded, RefusalBounded, CheckSound

\* A step of one check that leaves the database, the clock and the verdict alone.
LEMMA CheckStep ==
    ASSUME QuotaInv, NEW r \in Requests, check'[r] \in CheckStates, check' = [check EXCEPT ![r] = check'[r]],
           UNCHANGED <<clock, action, period, usage, unpriced, verdict, since>>,
           CheckSound(r)'
    PROVE  QuotaInv'
<1>1. QuotaTypeOK'
    BY DEF QuotaInv, QuotaTypeOK
<1>2. \A q \in Requests : q # r => check'[q] = check[q]
    BY DEF QuotaInv, QuotaTypeOK
<1>3. SinceTrue' /\ VerdictFollows'
    BY DEF QuotaInv, SinceTrue, VerdictFollows, Over
<1>4. ASSUME NEW q \in Requests PROVE CheckSound(q)'
    <2>1. CASE q = r
        BY <2>1
    <2>2. CASE q # r
        BY <1>2, <2>2, CheckParts DEF QuotaInv, CheckSound, Checking, Over, Stale
    <2> QED BY <2>1, <2>2
<1>5. (verdict.at <= clock /\ since.at <= clock)'
    BY DEF QuotaInv, Dated
<1>6. (Dated /\ OverSeen /\ UnderSeen /\ OverrunBounded /\ RefusalBounded)'
    BY <1>4, <1>5 DEF Dated, OverSeen, UnderSeen, OverrunBounded, RefusalBounded, CheckSound
<1> QED BY <1>1, <1>3, <1>6 DEF QuotaInv

\* Every step keeps verdicts and checks at most one check behind.
LEMMA QuotaStep == QuotaInv /\ [QuotaNext]_quotaVars => QuotaInv'
<1> SUFFICES ASSUME QuotaInv, [QuotaNext]_quotaVars PROVE QuotaInv'
    OBVIOUS
<1> USE QuotaNats
<1>1. QuotaTypeOK /\ SinceTrue /\ Dated /\ OverSeen /\ UnderSeen /\ VerdictFollows /\ OverrunBounded /\ RefusalBounded
    BY DEF QuotaInv
<1>2. /\ clock \in Nat /\ since.at \in Nat /\ since.at <= clock /\ since.over \in BOOLEAN
      /\ verdict.at \in Int /\ verdict.over \in BOOLEAN
    BY <1>1 DEF QuotaTypeOK, Dated
<1>3. ASSUME NEW r \in Requests, BeginCheck(r) PROVE QuotaInv'
    <2>1. CASE CacheGet # {}
        <3>1. /\ verdict.at >= 0 /\ clock - verdict.at < QuotaTtl
              /\ check' = Answer(r, verdict.over)
            BY <1>3, <2>1 DEF BeginCheck, CacheGet
        <3>2. check'[r] = [pc |-> IF verdict.over THEN "refused" ELSE "admitted", at |-> clock]
            BY <1>1, <3>1 DEF QuotaTypeOK, Answer
        <3>3. check'[r] \in CheckStates /\ check' = [check EXCEPT ![r] = check'[r]]
            BY <1>1, <3>1, <3>2 DEF CheckStates, QuotaTypeOK, Answer
        <3>4. clock - since.at <= Stale \/ since.over = verdict.over \/ (~verdict.over /\ action # "block")
            BY <1>1, <1>2, <3>1 DEF VerdictFollows, Stale
        <3>5. CheckSound(r)'
            BY <1>2, <1>3, <3>2, <3>4 DEF BeginCheck, CheckSound, Checking, Stale
        <3> QED BY <1>3, <3>3, <3>5, CheckStep DEF BeginCheck
    <2>2. CASE CacheGet = {}
        <3>1. check'[r] = [pc |-> "cost", period |-> period, begun |-> clock]
            BY <1>1, <1>3, <2>2 DEF BeginCheck, QuotaTypeOK
        <3>2. check'[r] \in CheckStates /\ check' = [check EXCEPT ![r] = check'[r]]
            BY <1>1, <1>3, <2>2, <3>1 DEF BeginCheck, CheckStates, QuotaTypeOK
        <3>3. CheckSound(r)'
            BY <1>1, <1>2, <1>3, <3>1 DEF BeginCheck, SinceTrue, CheckSound, Checking, Over
        <3> QED BY <1>3, <3>2, <3>3, CheckStep DEF BeginCheck
    <2> QED BY <2>1, <2>2
<1>4. ASSUME NEW r \in Requests, CostQuery(r) PROVE QuotaInv'
    <2>1. /\ check[r].pc = "cost" /\ Checking(r) /\ check[r] \in CheckStates
          /\ check[r].period \in 1 .. Periods /\ check[r].begun \in 0 .. MaxClock
        BY <1>1, <1>4, QuotaFacts DEF CostQuery, Checking
    <2>2. check'[r] = [check[r] EXCEPT !.pc = IF check[r].period \in unpriced /\ action = "block"
                                              THEN "over" ELSE "usage"]
        BY <1>1, <1>4 DEF CostQuery, QuotaTypeOK
    <2>3. /\ check'[r] \in CheckStates /\ check' = [check EXCEPT ![r] = check'[r]]
          /\ check'[r].period = check[r].period /\ check'[r].begun = check[r].begun
          /\ check'[r].pc = IF check[r].period \in unpriced /\ action = "block" THEN "over" ELSE "usage"
        BY <1>1, <1>4, <2>1, <2>2 DEF CostQuery, CheckStates, QuotaTypeOK
    <2>4. CheckSound(r)'
        BY <1>1, <1>2, <1>4, <2>1, <2>3, CheckParts DEF CostQuery, CheckSound, Checking, Over
    <2> QED BY <1>4, <2>3, <2>4, CheckStep DEF CostQuery
<1>5. ASSUME NEW r \in Requests, UsageQuery(r) PROVE QuotaInv'
    <2>1. /\ check[r].pc = "usage" /\ Checking(r) /\ check[r] \in CheckStates
          /\ check[r].period \in 1 .. Periods /\ check[r].begun \in 0 .. MaxClock
        BY <1>1, <1>5, QuotaFacts DEF UsageQuery, Checking
    <2>2. check'[r] = [check[r] EXCEPT !.pc = IF usage[check[r].period] >= QuotaLimit /\ action = "block"
                                              THEN "over" ELSE "under"]
        BY <1>1, <1>5 DEF UsageQuery, QuotaTypeOK
    <2>3. /\ check'[r] \in CheckStates /\ check' = [check EXCEPT ![r] = check'[r]]
          /\ check'[r].period = check[r].period /\ check'[r].begun = check[r].begun
          /\ check'[r].pc = IF usage[check[r].period] >= QuotaLimit /\ action = "block" THEN "over" ELSE "under"
        BY <1>1, <1>5, <2>1, <2>2 DEF UsageQuery, CheckStates, QuotaTypeOK
    <2>4. CheckSound(r)'
        BY <1>1, <1>2, <1>5, <2>1, <2>3, CheckParts DEF UsageQuery, CheckSound, Checking, Over
    <2> QED BY <1>5, <2>3, <2>4, CheckStep DEF UsageQuery
<1>6. ASSUME NEW r \in Requests, QueryFails(r) PROVE QuotaInv'
    <2>1. /\ check[r].pc \in {"cost", "usage"} /\ Checking(r) /\ check[r] \in CheckStates
          /\ check[r].period \in 1 .. Periods /\ check[r].begun \in 0 .. MaxClock
        BY <1>1, <1>6, QuotaFacts DEF QueryFails, Checking
    <2>2. /\ check'[r] \in CheckStates /\ check' = [check EXCEPT ![r] = check'[r]]
          /\ action # "block" => /\ check'[r].period = check[r].period /\ check'[r].begun = check[r].begun
                                 /\ check'[r].pc \in {"usage", "under"}
          /\ action = "block" => check'[r].pc = "idle"
        BY <1>1, <1>6, <2>1 DEF QueryFails, CheckStates, QuotaTypeOK, QuotaIdle
    <2>3. CheckSound(r)'
        BY <1>1, <1>2, <1>6, <2>1, <2>2, CheckParts DEF QueryFails, CheckSound, Checking, Over
    <2> QED BY <1>6, <2>2, <2>3, CheckStep DEF QueryFails
<1>7. ASSUME NEW r \in Requests, Refused429(r) PROVE QuotaInv'
    <2>1. check'[r] \in CheckStates /\ check' = [check EXCEPT ![r] = check'[r]] /\ check'[r].pc = "idle"
        BY <1>1, <1>7 DEF Refused429, QuotaTypeOK, CheckStates, QuotaIdle
    <2>2. CheckSound(r)'
        BY <2>1 DEF CheckSound, Checking
    <2> QED BY <1>7, <2>1, <2>2, CheckStep DEF Refused429
<1>8. ASSUME NEW r \in Requests, PutVerdict(r) PROVE QuotaInv'
    <2> DEFINE over == check[r].pc = "over"
               c == [pc |-> IF over THEN "refused" ELSE "admitted", at |-> clock]
    <2>1. /\ check[r].pc \in {"over", "under"} /\ Checking(r)
          /\ check' = [check EXCEPT ![r] = c] /\ verdict' = [at |-> clock, over |-> over]
        BY <1>8 DEF PutVerdict, Answer, Checking
    <2>2. c \in CheckStates /\ check[r].begun \in Nat
        BY <1>1, <2>1, QuotaFacts DEF CheckStates, QuotaTypeOK
    <2>3. since.over # over /\ (over \/ action = "block") => clock - since.at <= QueryTime
        BY <1>1, <1>2, <2>1, <2>2 DEF Dated, OverSeen, UnderSeen
    <2>4. check'[r] = c /\ \A q \in Requests : q # r => check'[q] = check[q]
        BY <1>1, <2>1 DEF QuotaTypeOK
    <2>5. QuotaTypeOK'
        <3>1. verdict' \in [at : -1 .. MaxClock, over : BOOLEAN]
            <4>1. over \in BOOLEAN /\ clock \in -1 .. MaxClock
                BY <1>1 DEF QuotaTypeOK
            <4> HIDE DEF over
            <4> QED BY <2>1, <4>1
        <3>2. check' \in [Requests -> CheckStates]
            BY <1>1, <2>1, <2>2 DEF QuotaTypeOK
        <3> QED BY <1>1, <1>8, <3>1, <3>2 DEF QuotaTypeOK, PutVerdict
    <2>6. SinceTrue' /\ Dated' /\ OverSeen' /\ UnderSeen'
        <3>1. UNCHANGED <<clock, action, period, usage, unpriced, since>>
            BY <1>8 DEF PutVerdict
        <3>2. \A q \in Requests : Checking(q)' => q # r /\ Checking(q) /\ check'[q] = check[q]
            BY <2>4 DEF Checking
        <3>3. SinceTrue'
            BY <1>1, <1>2, <3>1 DEF SinceTrue, Over
        <3>4. Dated'
            BY <1>1, <1>2, <2>1, <2>4, <3>1, <3>2 DEF Dated
        <3>5. OverSeen'
            BY <1>1, <1>2, <2>4, <3>1, <3>2 DEF OverSeen, Over
        <3>6. UnderSeen'
            BY <1>1, <1>2, <2>4, <3>1, <3>2 DEF UnderSeen, Over
        <3> QED BY <3>3, <3>4, <3>5, <3>6
    <2>7. VerdictFollows'
        <3>1. verdict'.at = clock /\ (verdict'.over <=> over)
            BY <2>1
        <3>2. (since.over # verdict'.over) => (since.over # over)
            BY <2>1
        <3> HIDE DEF over
        <3> QED BY <1>2, <1>8, <2>3, <3>1, <3>2 DEF PutVerdict, VerdictFollows
    <2>8. OverrunBounded' /\ RefusalBounded'
        BY <1>1, <1>2, <1>8, <2>3, <2>4 DEF PutVerdict, OverrunBounded, RefusalBounded, Stale
    <2> QED BY <2>5, <2>6, <2>7, <2>8 DEF QuotaInv
<1>9. ASSUME since' \in {since, [over |-> ~since.over, at |-> clock]}, UNCHANGED <<clock, action, verdict>>,
             \A q \in Requests : check'[q].pc # "idle" => check'[q] = check[q],
             \A q \in Requests : Checking(q) /\ since' = since =>
                 /\ usage'[check[q].period] >= usage[check[q].period]
                 /\ unpriced \subseteq unpriced'
                 /\ ~since.over /\ ~Over(check[q].period, usage, unpriced) => ~Over(check[q].period, usage', unpriced'),
             QuotaTypeOK', SinceTrue'
      PROVE  QuotaInv'
    <2>1. ASSUME NEW q \in Requests
          PROVE  /\ Checking(q)' => Checking(q) /\ check'[q] = check[q]
                 /\ check'[q].pc \in {"admitted", "refused"} => check'[q] = check[q]
        BY <1>9 DEF Checking
    <2>2. Dated'
        BY <1>1, <1>2, <1>9, <2>1 DEF Dated
    <2>3. VerdictFollows'
        BY <1>1, <1>2, <1>9 DEF VerdictFollows, Dated
    <2>4. OverrunBounded' /\ RefusalBounded'
        <3> SUFFICES ASSUME NEW q \in Requests, check'[q].pc \in {"admitted", "refused"}, since'.at <= check'[q].at,
                            \/ action = "block" /\ check'[q].pc = "admitted" /\ since'.over
                            \/ check'[q].pc = "refused" /\ ~since'.over
                     PROVE  check'[q].at - since'.at <= QuotaTtl + QueryTime
            BY <1>9 DEF OverrunBounded, RefusalBounded, Stale
        <3>2. check'[q] = check[q]
            BY <2>1
        <3>3. CASE since' = since
            BY <1>1, <3>2, <3>3 DEF OverrunBounded, RefusalBounded, Stale
        <3>4. CASE since' # since
            <4>1. since'.at = clock /\ check[q].at <= clock /\ check[q].at \in Nat
                BY <1>1, <1>9, <3>2, <3>4, QuotaFacts DEF Dated
            <4> QED BY <1>2, <3>2, <4>1
        <3> QED BY <3>3, <3>4
    <2>5. OverSeen' /\ UnderSeen'
        <3> SUFFICES ASSUME NEW q \in Requests, Checking(q)', since'.at < check'[q].begun
                     PROVE  /\ action' = "block" /\ since'.over =>
                                /\ check'[q].pc # "under"
                                /\ check'[q].pc = "usage" => usage'[check'[q].period] >= QuotaLimit
                                /\ check'[q].pc = "cost" => Over(check'[q].period, usage', unpriced')
                            /\ ~since'.over => check'[q].pc # "over" /\ ~Over(check'[q].period, usage', unpriced')
            BY DEF OverSeen, UnderSeen
        <3>1. Checking(q) /\ check'[q] = check[q] /\ check[q].begun \in Nat /\ check[q].begun <= clock
            BY <1>1, <2>1, QuotaFacts DEF Dated
        <3>2. since' = since
            BY <1>2, <1>9, <3>1
        <3>3. usage[check[q].period] \in Nat /\ usage'[check[q].period] \in Nat
            <4>1. check[q].period \in 1 .. Periods
                BY <1>1, <3>1, QuotaFacts
            <4>2. usage \in [1 .. Periods -> 0 .. QuotaLimit + 1] /\ usage' \in [1 .. Periods -> 0 .. QuotaLimit + 1]
                BY <1>1, <1>9 DEF QuotaTypeOK
            <4> QED BY <4>1, <4>2
        <3> QED BY <1>1, <1>9, <3>1, <3>2, <3>3 DEF OverSeen, UnderSeen, Over
    <2> QED BY <1>9, <2>2, <2>3, <2>4, <2>5 DEF QuotaInv
<1>10. ASSUME NEW r \in Requests, Settle(r) PROVE QuotaInv'
    <2>1. since' \in {since, [over |-> ~since.over, at |-> clock]} /\ SinceTrue'
        BY <1>1, <1>2, <1>10 DEF Settle, Judge, SinceTrue, Over
    <2>2. QuotaTypeOK'
        <3>1. QuotaIdle \in CheckStates
            BY DEF CheckStates, QuotaIdle
        <3>2. usage' \in [1 .. Periods -> 0 .. QuotaLimit + 1] /\ unpriced' \subseteq 1 .. Periods
            <4>1. usage[period] \in 0 .. QuotaLimit + 1 /\ period \in 1 .. Periods
                BY <1>1 DEF QuotaTypeOK
            <4>2. CASE usage[period] < QuotaLimit + 1 /\ usage' = [usage EXCEPT ![period] = @ + 1] /\ UNCHANGED unpriced
                <5>1. usage[period] + 1 \in 0 .. QuotaLimit + 1
                    BY <4>1, <4>2
                <5> QED BY <1>1, <4>1, <4>2, <5>1 DEF QuotaTypeOK
            <4>3. CASE unpriced' = unpriced \cup {period} /\ UNCHANGED usage
                BY <1>1, <4>1, <4>3 DEF QuotaTypeOK
            <4>4. CASE UNCHANGED <<usage, unpriced>>
                BY <1>1, <4>4 DEF QuotaTypeOK
            <4> QED BY <1>10, <4>2, <4>3, <4>4 DEF Settle
        <3>3. since' \in [over : BOOLEAN, at : 0 .. MaxClock]
            BY <1>1, <2>1, SinceType
        <3> QED BY <1>1, <1>10, <3>1, <3>2, <3>3 DEF Settle, QuotaTypeOK
    <2>3. \A q \in Requests : check'[q].pc # "idle" => check'[q] = check[q]
        BY <1>1, <1>10 DEF Settle, QuotaTypeOK, QuotaIdle
    <2>4. ASSUME NEW q \in Requests, Checking(q), since' = since
          PROVE  /\ usage'[check[q].period] >= usage[check[q].period]
                 /\ unpriced \subseteq unpriced'
                 /\ ~since.over /\ ~Over(check[q].period, usage, unpriced) => ~Over(check[q].period, usage', unpriced')
        <3>1. check[q].period \in 1 .. Periods /\ usage[check[q].period] \in Nat
            BY <1>1, <2>4, QuotaFacts DEF QuotaTypeOK
        <3>2. CASE check[q].period = period
            BY <1>1, <1>10, <2>1, <2>4, <3>1, <3>2 DEF Settle, SinceTrue, QuotaTypeOK
        <3>3. CASE check[q].period # period
            <4>1. usage'[check[q].period] = usage[check[q].period]
                BY <1>1, <1>10, <3>1, <3>3 DEF Settle, QuotaTypeOK
            <4>2. unpriced \subseteq unpriced' /\ (check[q].period \in unpriced' => check[q].period \in unpriced)
                BY <1>10, <3>3 DEF Settle
            <4> QED BY <3>1, <4>1, <4>2 DEF Over
        <3> QED BY <3>2, <3>3
    <2> QED BY <1>9, <1>10, <2>1, <2>2, <2>3, <2>4 DEF Settle
<1>11. CASE NewPeriod
    <2>1. since' \in {since, [over |-> ~since.over, at |-> clock]} /\ SinceTrue'
        BY <1>1, <1>2, <1>11 DEF NewPeriod, Judge, SinceTrue, Over
    <2>2. QuotaTypeOK'
        BY <1>1, <1>11, <2>1, SinceType DEF NewPeriod, QuotaTypeOK
    <2>3. ASSUME NEW q \in Requests, Checking(q) PROVE usage[check[q].period] \in Nat
        BY <1>1, <2>3, QuotaFacts DEF QuotaTypeOK
    <2> QED BY <1>9, <1>11, <2>1, <2>2, <2>3 DEF NewPeriod
<1>12. CASE QuotaTick
    <2>1. QuotaTypeOK'
        BY <1>1, <1>12 DEF QuotaTick, QuotaTypeOK
    <2>2. ASSUME NEW q \in Requests, Checking(q) PROVE clock' - check[q].begun <= QueryTime
        BY <1>1, <1>2, <1>12, <2>2, QuotaFacts DEF QuotaTick
    <2>3. Dated'
        <3>1. ASSUME NEW q \in Requests, check[q].pc \in {"admitted", "refused"} PROVE check[q].at <= clock'
            BY <1>1, <1>2, <1>12, <3>1, QuotaFacts DEF QuotaTick, Dated
        <3>2. ASSUME NEW q \in Requests, Checking(q) PROVE check[q].begun <= clock'
            BY <1>1, <1>2, <1>12, <3>2, QuotaFacts DEF QuotaTick, Dated
        <3> QED BY <1>1, <1>2, <1>12, <2>2, <3>1, <3>2 DEF QuotaTick, Dated, Checking
    <2>4. SinceTrue' /\ OverSeen' /\ UnderSeen' /\ VerdictFollows' /\ OverrunBounded' /\ RefusalBounded'
        BY <1>1, <1>12 DEF QuotaTick, SinceTrue, OverSeen, UnderSeen, VerdictFollows, OverrunBounded,
           RefusalBounded, Checking, Over, Stale
    <2> QED BY <2>1, <2>3, <2>4 DEF QuotaInv
<1>13. CASE UNCHANGED quotaVars
    BY <1>1, <1>13 DEF quotaVars, QuotaInv, QuotaTypeOK, SinceTrue, Dated, OverSeen, UnderSeen, VerdictFollows,
       OverrunBounded, RefusalBounded, Checking, Over, Stale
<1> QED BY <1>3, <1>4, <1>5, <1>6, <1>7, <1>8, <1>10, <1>11, <1>12, <1>13 DEF QuotaNext

\* However many checks of a key run at once, overtake each other and fail, and whatever
\* periods begin: no request is admitted, or refused, by a verdict that has been wrong for
\* longer than it may be cached plus the time of one check.
THEOREM QuotaVerdictsAreCurrent == QuotaSpec => []VerdictsCurrent
<1>1. QuotaInv => VerdictsCurrent
    BY DEF QuotaInv, VerdictsCurrent
<1> QED BY <1>1, QuotaStarts, QuotaStep, PTL DEF QuotaSpec

-----------------------------------------------------------------------------
(* The log writer at shutdown.                                               *)

ShutdownTypes ==
    /\ wpc \in {"recv", "sleep", "drain", "exited"}
    /\ backoff \in 1 .. BackoffMax /\ sleepLeft \in 0 .. BackoffMax
    /\ drains \in 0 .. DrainAttempts /\ queued \in 0 .. MaxQueued
    /\ waited \in Nat /\ elapsed \in Nat

\* The order of the stages: the drain loop follows close, and only there drains are counted.
Stages ==
    /\ wpc # "sleep" => sleepLeft = 0
    /\ wpc \in {"drain", "exited"} => draining
    /\ draining => closed
    /\ ~draining => drains = 0
    /\ ~closed => elapsed = 0 /\ waited = 0 /\ ~quiet

\* The sleeps still to come: one for each flush that the channel, the timer and the drain
\* loop can still cause.
SleepsLeft == queued + (IF due THEN 1 ELSE 0) + (DrainAttempts - drains)

Budget == closed => elapsed + sleepLeft + BackoffMax * SleepsLeft <= BackoffMax * (MaxQueued + 2 + DrainAttempts)

\* Seconds slept in the first attempts of a drain that began without a backoff.
Slept(attempts) == CASE attempts = 0 -> 0 [] attempts = 1 -> 1 [] attempts = 2 -> 3 [] attempts = 3 -> 7

QuietDrain ==
    quiet =>
        /\ ~due /\ queued = 0
        /\ ~draining => wpc = "recv" /\ backoff = 1 /\ waited = 0
        /\ draining => /\ waited + sleepLeft <= Slept(drains)
                       /\ batch => backoff = Slept(drains) + 1

ShutdownInv == ShutdownTypes /\ Stages /\ Budget /\ QuietDrain

\* The writer starts without a backoff, and nothing was closed.
LEMMA ShutdownStarts == ShutdownInit => ShutdownInv
  BY QueuedAssumption DEF ShutdownInit, ShutdownInv, ShutdownTypes, Stages, Budget, QuietDrain, BackoffMax, DrainAttempts

\* What a flush does to the sleep, the backoff and the stage.
LEMMA FlushEffect ==
    ASSUME ShutdownInv, Flush, wpc \in {"recv", "drain"}, draining' = draining
    PROVE  /\ ~due'
           /\ sleepLeft' \in 0 .. BackoffMax /\ backoff' \in 1 .. BackoffMax
           /\ \/ ~batch' /\ sleepLeft' = 0 /\ wpc' = IF draining THEN "drain" ELSE "recv"
              \/ /\ wpc' = "sleep" /\ sleepLeft' = backoff
                 /\ backoff' = IF 2 * backoff < BackoffMax THEN 2 * backoff ELSE BackoffMax
  BY DEF ShutdownInv, ShutdownTypes, Stages, Flush, FlushOk, FlushErr, next_backoff, BackoffMax

\* A sleep of at most half a minute that is one of those still to come.
LEMMA OneSleepLess ==
    \A e, s, t, m, n, b \in Int : n + 1 <= m /\ e + s + 30 * m <= b /\ 0 <= s /\ t <= 30 => e + t + 30 * n <= b
  OBVIOUS

\* The budget at the moment of close.
LEMMA SleepsAtClose == \A n, q, s \in Int : n <= q + 4 /\ s <= 30 => 0 + s + 30 * n <= 30 * (q + 2 + 3)
  OBVIOUS

\* Every step spends the sleep that the budget has for it.
LEMMA ShutdownStep == ShutdownInv /\ [ShutdownNext]_shutdownVars => ShutdownInv'
<1> SUFFICES ASSUME ShutdownInv, [ShutdownNext]_shutdownVars PROVE ShutdownInv'
    OBVIOUS
<1> USE QueuedAssumption DEF BackoffMax, DrainAttempts
<1>1. ShutdownTypes /\ Stages /\ Budget /\ QuietDrain
    BY DEF ShutdownInv
<1>2. CASE Arrive
    BY <1>1, <1>2 DEF Arrive, ShutdownInv, ShutdownTypes, Stages, Budget, QuietDrain, SleepsLeft
<1>3. CASE Receive
    BY <1>1, <1>3, FlushEffect DEF Receive, ShutdownInv, ShutdownTypes, Stages, Budget, QuietDrain, SleepsLeft
<1>4. CASE Collect
    BY <1>1, <1>4 DEF Collect, ShutdownInv, ShutdownTypes, Stages, Budget, QuietDrain, SleepsLeft
<1>5. CASE TimerElapses
    BY <1>1, <1>5 DEF TimerElapses, ShutdownInv, ShutdownTypes, Stages, Budget, QuietDrain, SleepsLeft
<1>6. CASE Timer
    BY <1>1, <1>6, FlushEffect DEF Timer, ShutdownInv, ShutdownTypes, Stages, Budget, QuietDrain, SleepsLeft
<1>7. CASE Wake
    BY <1>1, <1>7 DEF Wake, ShutdownInv, ShutdownTypes, Stages, Budget, QuietDrain, SleepsLeft
<1>8. CASE Closed
    BY <1>1, <1>8 DEF Closed, ShutdownInv, ShutdownTypes, Stages, Budget, QuietDrain, SleepsLeft, Slept
<1>9. CASE Drain
    <2>1. CASE batch /\ drains < DrainAttempts /\ drains' = drains + 1 /\ Flush
        <3>1. /\ ~due' /\ sleepLeft' \in 0 .. BackoffMax /\ backoff' \in 1 .. BackoffMax
              /\ \/ ~batch' /\ sleepLeft' = 0 /\ wpc' = "drain"
                 \/ /\ wpc' = "sleep" /\ sleepLeft' = backoff
                    /\ backoff' = IF 2 * backoff < BackoffMax THEN 2 * backoff ELSE BackoffMax
            BY <1>1, <1>9, <2>1, FlushEffect DEF Drain, Stages
        <3>2. ShutdownTypes' /\ Stages'
            BY <1>1, <1>9, <2>1, <3>1 DEF Drain, ShutdownTypes, Stages
        <3>3. Budget'
            <4>1. SleepsLeft \in Int /\ SleepsLeft' \in Int /\ SleepsLeft' + 1 <= SleepsLeft
                BY <1>1, <1>9, <2>1, <3>1 DEF Drain, ShutdownTypes, SleepsLeft
            <4>2. sleepLeft' <= 30 /\ sleepLeft' \in Nat /\ sleepLeft \in Nat /\ elapsed \in Nat
                BY <1>1, <3>1 DEF ShutdownTypes
            <4>3. PICK m \in Int, n \in Int : m = SleepsLeft /\ n = SleepsLeft' /\ n + 1 <= m
                BY <4>1
            <4>4. PICK e \in Int, x \in Int : e = elapsed /\ x = sleepLeft /\ 0 <= x
                BY <4>2
            <4>5. PICK y \in Int : y = sleepLeft' /\ y <= 30
                BY <4>2
            <4>6. /\ m = SleepsLeft /\ n = SleepsLeft' /\ n + 1 <= m
                  /\ e = elapsed /\ x = sleepLeft /\ y = sleepLeft' /\ 0 <= x /\ y <= 30
                BY <4>3, <4>4, <4>5
            <4>7. closed => e + x + 30 * m <= 30 * (MaxQueued + 2 + 3)
                BY <1>1, <4>6 DEF Budget
            <4>8. PICK b \in Int : b = 30 * (MaxQueued + 2 + 3)
                OBVIOUS
            <4>9. closed => e + y + 30 * n <= b
                BY <4>6, <4>7, <4>8, OneSleepLess
            <4>10. closed => elapsed + sleepLeft' + 30 * SleepsLeft' <= 30 * (MaxQueued + 2 + 3)
                BY <4>6, <4>8, <4>9
            <4> QED BY <1>9, <4>10 DEF Drain, Budget
        <3>4. QuietDrain'
            BY <1>1, <1>9, <2>1, <3>1 DEF Drain, ShutdownTypes, Stages, QuietDrain, Slept
        <3> QED BY <3>2, <3>3, <3>4 DEF ShutdownInv
    <2>2. CASE /\ ~batch \/ drains >= DrainAttempts
               /\ batch' = FALSE
               /\ wpc' = "exited"
               /\ UNCHANGED <<due, backoff, sleepLeft, drains>>
        BY <1>1, <1>9, <2>2 DEF Drain, ShutdownInv, ShutdownTypes, Stages, Budget, QuietDrain, SleepsLeft
    <2> QED BY <1>9, <2>1, <2>2 DEF Drain
<1>10. CASE Close
    <2>1. ShutdownTypes' /\ Stages' /\ QuietDrain'
        BY <1>1, <1>10 DEF Close, ShutdownTypes, Stages, QuietDrain
    <2>2. SleepsLeft' \in Int /\ SleepsLeft' <= MaxQueued + 1 + DrainAttempts
        BY <1>1, <1>10 DEF Close, ShutdownTypes, SleepsLeft
    <2>3. Budget'
        <3>1. PICK n \in Int : n = SleepsLeft' /\ n <= MaxQueued + 4
            BY <2>2
        <3>2. PICK y \in Int : y = sleepLeft' /\ y <= 30 /\ elapsed' = 0
            BY <1>1, <1>10 DEF Close, ShutdownTypes, Stages
        <3>3. MaxQueued \in Int
            OBVIOUS
        <3>4. 0 + y + 30 * n <= 30 * (MaxQueued + 2 + 3)
            BY <3>1, <3>2, <3>3, SleepsAtClose
        <3> QED BY <3>1, <3>2, <3>4 DEF Budget
    <2> QED BY <2>1, <2>3 DEF ShutdownInv
<1>11. CASE ShutdownTick
    BY <1>1, <1>11 DEF ShutdownTick, ShutdownInv, ShutdownTypes, Stages, Budget, QuietDrain, SleepsLeft, Slept
<1>12. CASE UNCHANGED shutdownVars
    BY <1>1, <1>12 DEF shutdownVars, ShutdownInv, ShutdownTypes, Stages, Budget, QuietDrain, SleepsLeft
<1> QED BY <1>2, <1>3, <1>4, <1>5, <1>6, <1>7, <1>8, <1>9, <1>10, <1>11, <1>12 DEF ShutdownNext, ShutdownDone

\* However many events are still queued at close, and wherever close meets the writer: it
\* sleeps no longer than the queue and the backoff bound, and if nothing was pending its
\* three retries sleep 7 s at most, within the 10 s for which main waits.
THEOREM ShutdownIsBounded == ShutdownSpec => []DrainBounded
<1>1. ShutdownInv => DrainBounded
    <2> SUFFICES ASSUME ShutdownInv PROVE QuietDrainFits /\ DrainTimeBounded
        BY DEF DrainBounded
    <2> USE QueuedAssumption DEF BackoffMax, DrainAttempts
    <2>1. SleepsLeft \in Nat
        BY DEF ShutdownInv, ShutdownTypes, SleepsLeft
    <2>2. DrainTimeBounded
        BY <2>1 DEF ShutdownInv, ShutdownTypes, Stages, Budget, DrainTimeBounded
    <2>3. drains \in {0, 1, 2, 3}
        BY DEF ShutdownInv, ShutdownTypes
    <2>4. Slept(drains) <= 7 /\ Slept(drains) \in Nat
        BY <2>3 DEF Slept
    <2>5. QuietDrainFits
        BY <2>4 DEF ShutdownInv, ShutdownTypes, QuietDrain, QuietDrainFits
    <2> QED BY <2>2, <2>5
<1> QED BY <1>1, ShutdownStarts, ShutdownStep, PTL DEF ShutdownSpec

-----------------------------------------------------------------------------
(* The marks on a channel.                                                   *)

\* The bounds as numbers, and the values that name no code and no reading.
LEMMA ChannelNats == AuthFailTtl \in Nat /\ ThrottleTime \in Nat /\ MaxMoment \in Nat /\ MaxTasks \in Nat
  BY ChannelAssumption

ChannelFields == {"auth_state", "quota"}
Labels == AuthCodes \cup {"none"}
Readings == QuotaReadings \cup {"none"}
TaskValues(field) == IF field = "quota" THEN Readings ELSE Labels

\* The types of what the type invariant leaves open.
ChannelTypes ==
    /\ ChannelTypeOK
    /\ \A x \in tasks : x.field \in ChannelFields /\ x.value \in TaskValues(x.field)
    /\ IsFiniteSet(tasks) /\ Cardinality(tasks) <= spawned
    /\ edit \in Readings \cup {"idle"} /\ reading \in Readings
    /\ \A s \in stores : s.n \in Nat /\ s.at \in Nat

\* What a field of the row is to become.
Known(field) == IF field = "quota" THEN reading ELSE guard.code
RowHas(field) == IF field = "quota" THEN extra.quota ELSE extra.auth_state

\* A field that is not excused has at most one task on its way, with what is known; without
\* one the row has it already.
FieldFollows(field) ==
    field \notin excuses =>
        /\ \A x, y \in tasks : x.field = field /\ y.field = field => x = y
        /\ \A x \in tasks : x.field = field => x.value = Known(field)
        /\ AtRest(field) => RowHas(field) = Known(field)

\* The throttle remembers the last reading, or nothing.
ThrottleFollows == throttle.value \in {reading, "none"}

\* The mark in memory is the last failure stored, and the earlier ones are older.
StoresOrdered ==
    /\ guard.at <= moment
    /\ \A s \in stores : s.n < spawned /\ s.at <= guard.at
    /\ stores # {} => \E last \in stores : /\ last.code = guard.code /\ last.at = guard.at
                                         /\ \A s \in stores : s = last \/ s.n < last.n

ChannelInv ==
    /\ ChannelTypes /\ FieldFollows("auth_state") /\ FieldFollows("quota")
    /\ ThrottleFollows /\ StoresOrdered /\ StoreOncePerPeriod

\* Nothing is known of a channel, and its row is empty.
LEMMA ChannelStarts == ChannelInit => ChannelInv
<1> SUFFICES ASSUME ChannelInit PROVE ChannelInv
    OBVIOUS
<1> USE ChannelNats
<1>1. IsFiniteSet(tasks) /\ Cardinality(tasks) = 0
    BY FS_EmptySet DEF ChannelInit
<1>2. ChannelTypes
    BY <1>1 DEF ChannelInit, ChannelTypes, ChannelTypeOK, Readings, NoFailure, NoReading
<1> QED BY <1>2 DEF ChannelInit, ChannelInv, FieldFollows, AtRest, RowHas, Known, ThrottleFollows, StoresOrdered,
           StoreOncePerPeriod, NoFailure, NoReading

\* A task more or less, with the count of those spawned.
LEMMA TasksChange ==
    ASSUME ChannelTypes
    PROVE  /\ spawned \in Nat
           /\ \A x : /\ IsFiniteSet(tasks \cup {x}) /\ Cardinality(tasks \cup {x}) <= spawned + 1
           /\ \A x \in tasks : IsFiniteSet(tasks \ {x}) /\ Cardinality(tasks \ {x}) <= spawned
<1>1. spawned \in Nat /\ IsFiniteSet(tasks) /\ Cardinality(tasks) \in Nat /\ Cardinality(tasks) <= spawned
    BY FS_CardinalityType, ChannelNats DEF ChannelTypes, ChannelTypeOK
<1>2. ASSUME NEW x PROVE IsFiniteSet(tasks \cup {x}) /\ Cardinality(tasks \cup {x}) <= spawned + 1
    BY <1>1, FS_AddElement
<1>3. ASSUME NEW x \in tasks PROVE IsFiniteSet(tasks \ {x}) /\ Cardinality(tasks \ {x}) <= spawned
    <2>1. Cardinality(tasks \ {x}) = Cardinality(tasks) - 1 /\ IsFiniteSet(tasks \ {x})
        BY <1>1, FS_RemoveElement
    <2> QED BY <1>1, <2>1
<1> QED BY <1>1, <1>2, <1>3

\* Spawning the task that brings a field what has become known of it.
LEMMA SpawnFollows ==
    ASSUME ChannelInv, NEW field \in ChannelFields, NEW value \in TaskValues(field), Spawn(field, value)
    PROVE  /\ spawned' = spawned + 1 /\ spawned' \in 0 .. MaxTasks
           /\ IsFiniteSet(tasks') /\ Cardinality(tasks') <= spawned' /\ Cardinality(tasks') <= MaxTasks
           /\ \A x \in tasks' : x.field \in ChannelFields /\ x.value \in TaskValues(x.field)
           /\ Known(field)' = value => FieldFollows(field)'
           /\ \A f \in ChannelFields : f # field /\ Known(f)' = Known(f) /\ RowHas(f)' = RowHas(f) => FieldFollows(f)'
<1> USE ChannelNats
<1>1. ChannelTypes /\ FieldFollows(field)
    BY DEF ChannelInv, ChannelFields
<1> DEFINE new == [n |-> spawned + 1, field |-> field, value |-> value]
<1>2. tasks' = tasks \cup {new} /\ new.field = field /\ new.value = value
    BY DEF Spawn
<1> HIDE DEF new
<1>3. spawned' = spawned + 1 /\ spawned' \in 0 .. MaxTasks
    BY <1>1 DEF Spawn, ChannelTypes, ChannelTypeOK
<1>4. IsFiniteSet(tasks') /\ Cardinality(tasks') <= spawned'
    BY <1>1, <1>2, <1>3, TasksChange
<1>5. Cardinality(tasks') <= MaxTasks
    BY <1>3, <1>4, FS_CardinalityType
<1>6. \A x \in tasks' : x.field \in ChannelFields /\ x.value \in TaskValues(x.field)
    BY <1>1, <1>2 DEF ChannelTypes
<1>7. ASSUME Known(field)' = value PROVE FieldFollows(field)'
    <2> SUFFICES ASSUME field \notin excuses'
                 PROVE  /\ \A x, y \in tasks' : x.field = field /\ y.field = field => x = y
                        /\ \A x \in tasks' : x.field = field => x.value = value
                        /\ ~AtRest(field)'
        BY <1>7 DEF FieldFollows
    <2>1. ~\E x \in tasks : x.field = field
        BY DEF Spawn
    <2> QED BY <1>2, <2>1 DEF AtRest
<1>8. ASSUME NEW f \in ChannelFields, f # field, Known(f)' = Known(f), RowHas(f)' = RowHas(f) PROVE FieldFollows(f)'
    <2>1. FieldFollows(f)
        BY DEF ChannelInv, ChannelFields
    <2>2. f \notin excuses' => f \notin excuses
        BY DEF Spawn
    <2> QED BY <1>2, <1>8, <2>1, <2>2 DEF FieldFollows, AtRest
<1> QED BY <1>3, <1>4, <1>5, <1>6, <1>7, <1>8

\* Every step keeps the row explained.
LEMMA ChannelStep == ChannelInv /\ [ChannelNext]_channelVars => ChannelInv'
<1> SUFFICES ASSUME ChannelInv, [ChannelNext]_channelVars PROVE ChannelInv'
    OBVIOUS
<1> USE ChannelNats
<1>1. ChannelTypes /\ FieldFollows("auth_state") /\ FieldFollows("quota") /\ ThrottleFollows /\ StoresOrdered
      /\ StoreOncePerPeriod /\ ChannelTypeOK
    BY DEF ChannelInv, ChannelTypes
<1>2. /\ moment \in Nat /\ guard.at \in Nat /\ spawned \in Nat
      /\ "auth_state" \in ChannelFields /\ "quota" \in ChannelFields
      /\ TaskValues("auth_state") = Labels /\ TaskValues("quota") = Readings
    BY <1>1 DEF ChannelTypeOK, ChannelFields, TaskValues
<1>3. ASSUME NEW code \in AuthCodes, mark_auth_failure(code) PROVE ChannelInv'
    <2>1. /\ Spawn("auth_state", code) /\ code \in TaskValues("auth_state")
          /\ guard' = [code |-> code, at |-> moment] /\ guard'.code = code /\ guard'.at = moment
        BY <1>2, <1>3 DEF mark_auth_failure, Labels
    <2>2. Known("auth_state")' = code /\ Known("quota")' = Known("quota") /\ RowHas("quota")' = RowHas("quota")
        BY <1>3, <2>1 DEF mark_auth_failure, Known, RowHas
    <2> DEFINE new == [code |-> code, at |-> moment, n |-> spawned]
    <2>3. stores' = stores \cup {new} /\ new.code = code /\ new.at = moment /\ new.n = spawned
        BY <1>3 DEF mark_auth_failure
    <2> HIDE DEF new
    <2>4. ChannelTypes'
        <3>1. guard' \in [code : AuthCodes \cup {"none"}, at : 0 .. MaxMoment]
            BY <1>1, <2>1 DEF ChannelTypeOK
        <3> QED BY <1>1, <1>2, <1>3, <2>1, <2>3, <3>1, SpawnFollows DEF mark_auth_failure, ChannelTypes, ChannelTypeOK
    <2>5. FieldFollows("auth_state")' /\ FieldFollows("quota")'
        BY <1>2, <2>1, <2>2, SpawnFollows
    <2>6. ThrottleFollows'
        BY <1>1, <1>3 DEF mark_auth_failure, ThrottleFollows
    <2>7. spawned' = spawned + 1
        BY <2>1 DEF Spawn
    <2>8. StoresOrdered'
        <3>1. \A x \in stores : x.n \in Nat /\ x.at \in Nat /\ x.n < spawned /\ x.at <= moment
            BY <1>1, <1>2 DEF ChannelTypes, StoresOrdered
        <3> QED BY <1>2, <1>3, <2>1, <2>3, <2>7, <3>1 DEF mark_auth_failure, StoresOrdered
    <2>9. StoreOncePerPeriod'
        <3> SUFFICES ASSUME NEW a \in stores', NEW b \in stores', a.n < b.n, a.code = b.code, b.at - a.at < AuthFailTtl
                     PROVE  \E c \in stores' : a.n < c.n /\ c.n < b.n /\ c.code # a.code
            BY DEF StoreOncePerPeriod
        <3>1. \A x \in stores : x.n \in Nat /\ x.at \in Nat /\ x.n < spawned /\ x.at <= guard.at
            BY <1>1 DEF ChannelTypes, StoresOrdered
        <3>2. a \in stores
            BY <1>2, <2>3, <3>1
        <3>3. CASE b \in stores
            BY <1>1, <2>3, <3>2, <3>3 DEF StoreOncePerPeriod
        <3>4. CASE b = new
            <4>1. PICK last \in stores : /\ last.code = guard.code /\ last.at = guard.at
                                         /\ \A s \in stores : s = last \/ s.n < last.n
                BY <1>1, <3>2 DEF StoresOrdered
            <4>2. guard.code # code
                <5>1. code # "none"
                    BY ChannelAssumption
                <5>2. moment - a.at < AuthFailTtl /\ a.at <= guard.at /\ a.at \in Nat
                    BY <2>3, <3>1, <3>2, <3>4
                <5> QED BY <1>2, <1>3, <5>1, <5>2 DEF mark_auth_failure, MarkUnchanged, blocked_at
            <4>3. a.n < last.n /\ last.n < b.n
                BY <2>3, <3>1, <3>2, <3>4, <4>1, <4>2
            <4> QED BY <2>3, <3>4, <4>1, <4>2, <4>3
        <3> QED BY <2>3, <3>3, <3>4
    <2> QED BY <2>4, <2>5, <2>6, <2>8, <2>9 DEF ChannelInv
<1>4. CASE clear_auth_failure
    <2>1. Spawn("auth_state", "none") /\ "none" \in TaskValues("auth_state") /\ guard' = NoFailure /\ stores' = {}
        BY <1>2, <1>4 DEF clear_auth_failure, Labels
    <2>2. Known("auth_state")' = "none" /\ Known("quota")' = Known("quota") /\ RowHas("quota")' = RowHas("quota")
        BY <1>4, <2>1 DEF clear_auth_failure, Known, RowHas, NoFailure
    <2>3. ChannelTypes'
        BY <1>1, <1>2, <1>4, <2>1, SpawnFollows DEF clear_auth_failure, ChannelTypes, ChannelTypeOK, NoFailure
    <2>4. FieldFollows("auth_state")' /\ FieldFollows("quota")'
        BY <1>2, <2>1, <2>2, SpawnFollows
    <2> QED BY <1>1, <1>2, <1>4, <2>1, <2>3, <2>4
            DEF clear_auth_failure, ChannelInv, ThrottleFollows, StoresOrdered, StoreOncePerPeriod, NoFailure
<1>5. ASSUME NEW q \in QuotaReadings, capture_codex_headers(q) PROVE ChannelInv'
    <2>1. /\ q \in TaskValues("quota") /\ q # "none"
          /\ throttle' = [value |-> q, at |-> moment] /\ reading' = q
        BY <1>2, <1>5, ChannelAssumption DEF capture_codex_headers, Readings
    <2>2. Known("quota")' = q /\ Known("auth_state")' = Known("auth_state") /\ RowHas("auth_state")' = RowHas("auth_state")
        BY <1>5, <2>1 DEF capture_codex_headers, Known, RowHas
    <2>3. throttle' \in [value : QuotaReadings \cup {"none"}, at : 0 .. MaxMoment] /\ reading' \in Readings
        BY <1>1, <2>1 DEF ChannelTypeOK, Readings
    <2>4. ChannelTypes' /\ FieldFollows("auth_state")' /\ FieldFollows("quota")'
        <3>1. CASE throttle_claim(q)
            <4>1. reading = q /\ UNCHANGED <<tasks, spawned, excuses, guard, extra, edit, moment, stores>>
                BY <1>1, <1>5, <2>1, <3>1 DEF capture_codex_headers, throttle_claim, ThrottleFollows
            <4> QED BY <1>1, <2>1, <2>3, <4>1
                    DEF ChannelTypes, ChannelTypeOK, FieldFollows, AtRest, Known, RowHas
        <3>2. CASE ~throttle_claim(q)
            <4>1. Spawn("quota", q) /\ UNCHANGED <<guard, extra, edit, moment, stores>>
                BY <1>5, <3>2 DEF capture_codex_headers
            <4> QED BY <1>1, <1>2, <2>1, <2>2, <2>3, <4>1, SpawnFollows DEF ChannelTypes, ChannelTypeOK
        <3> QED BY <3>1, <3>2
    <2>5. ThrottleFollows'
        BY <2>1 DEF ThrottleFollows
    <2>6. spawned' >= spawned /\ spawned' \in Nat
        BY <1>2, <1>5 DEF capture_codex_headers, Spawn
    <2>7. StoresOrdered'
        <3>1. \A x \in stores : x.n \in Nat /\ x.n < spawned
            BY <1>1 DEF ChannelTypes, StoresOrdered
        <3>2. \A x \in stores : x.n < spawned'
            BY <1>2, <2>6, <3>1
        <3> QED BY <1>1, <1>5, <3>2 DEF capture_codex_headers, StoresOrdered
    <2>8. StoreOncePerPeriod'
        BY <1>1, <1>5 DEF capture_codex_headers, StoreOncePerPeriod
    <2> QED BY <2>4, <2>5, <2>7, <2>8 DEF ChannelInv
<1>6. ASSUME NEW x \in tasks, RunTask(x) PROVE ChannelInv'
    <2>1. x.field \in ChannelFields /\ x.value \in TaskValues(x.field)
        BY <1>1 DEF ChannelTypes
    <2>2. /\ RowHas(x.field)' = x.value
          /\ \A f \in ChannelFields : f # x.field => RowHas(f)' = RowHas(f)
          /\ extra' \in [auth_state : AuthCodes \cup {"none"}, quota : QuotaReadings \cup {"none"}]
        BY <1>1, <1>6, <2>1 DEF RunTask, RowHas, ChannelFields, TaskValues, Labels, Readings, ChannelTypeOK
    <2>3. IsFiniteSet(tasks') /\ Cardinality(tasks') <= spawned' /\ Cardinality(tasks') <= MaxTasks
        <3>1. IsFiniteSet(tasks') /\ Cardinality(tasks') <= spawned'
            BY <1>1, <1>6, TasksChange DEF RunTask
        <3> QED BY <1>1, <1>6, <3>1, FS_CardinalityType DEF RunTask, ChannelTypeOK
    <2>4. ChannelTypes'
        BY <1>1, <1>6, <2>2, <2>3 DEF RunTask, ChannelTypes, ChannelTypeOK
    <2>5. ASSUME NEW f \in ChannelFields, FieldFollows(f) PROVE FieldFollows(f)'
        <3>1. Known(f)' = Known(f) /\ excuses' = excuses /\ tasks' = tasks \ {x}
            BY <1>6 DEF RunTask, Known
        <3>2. CASE f = x.field
            BY <2>2, <2>5, <3>1, <3>2 DEF FieldFollows, AtRest
        <3>3. CASE f # x.field
            BY <2>2, <2>5, <3>1, <3>3 DEF FieldFollows, AtRest
        <3> QED BY <3>2, <3>3
    <2>6. FieldFollows("auth_state")' /\ FieldFollows("quota")'
        BY <1>1, <1>2, <2>5
    <2> QED BY <1>1, <1>6, <2>4, <2>6 DEF RunTask, ChannelInv, ThrottleFollows, StoresOrdered, StoreOncePerPeriod
<1>7. ASSUME NEW x \in tasks, TaskFails(x) PROVE ChannelInv'
    <2>1. IsFiniteSet(tasks') /\ Cardinality(tasks') <= spawned' /\ Cardinality(tasks') <= MaxTasks
        <3>1. IsFiniteSet(tasks') /\ Cardinality(tasks') <= spawned'
            BY <1>1, <1>7, TasksChange DEF TaskFails
        <3> QED BY <1>1, <1>7, <3>1, FS_CardinalityType DEF TaskFails, ChannelTypeOK
    <2>2. ChannelTypes'
        BY <1>1, <1>7, <2>1 DEF TaskFails, ChannelTypes, ChannelTypeOK
    <2>3. ASSUME NEW f \in ChannelFields, FieldFollows(f) PROVE FieldFollows(f)'
        <3>1. Known(f)' = Known(f) /\ RowHas(f)' = RowHas(f) /\ tasks' = tasks \ {x} /\ excuses' = excuses \cup {x.field}
            BY <1>7 DEF TaskFails, Known, RowHas
        <3> QED BY <2>3, <3>1 DEF FieldFollows, AtRest
    <2>4. FieldFollows("auth_state")' /\ FieldFollows("quota")'
        BY <1>1, <1>2, <2>3
    <2> QED BY <1>1, <1>7, <2>2, <2>4 DEF TaskFails, ChannelInv, ThrottleFollows, StoresOrdered, StoreOncePerPeriod
<1>8. CASE EditBegins
    <2>1. extra.quota \in Readings
        BY <1>1 DEF ChannelTypeOK, Readings
    <2> QED BY <1>1, <1>8, <2>1 DEF EditBegins, ChannelInv, ChannelTypes, ChannelTypeOK, FieldFollows, AtRest, Known, RowHas,
            ThrottleFollows, StoresOrdered, StoreOncePerPeriod
<1>9. ASSUME NEW credentials \in BOOLEAN, EditEnds(credentials) PROVE ChannelInv'
    <2>1. /\ edit \in Readings /\ edit' = "idle" /\ extra' = [auth_state |-> "none", quota |-> edit]
          /\ UNCHANGED <<throttle, moment, restarts, reading>>
        BY <1>1, <1>9 DEF EditEnds, ChannelTypes
    <2>2. /\ excuses \subseteq excuses'
          /\ guard # NoFailure => "auth_state" \in excuses'
          /\ extra.quota # edit => "quota" \in excuses'
        BY <1>9 DEF EditEnds
    <2>3. \/ UNCHANGED <<guard, tasks, spawned, stores>>
          \/ /\ guard # NoFailure /\ guard' = NoFailure /\ stores' = {} /\ spawned < MaxTasks /\ spawned' = spawned + 1
             /\ tasks' = tasks \cup {[n |-> spawned + 1, field |-> "auth_state", value |-> "none"]}
        BY <1>9 DEF EditEnds
    <2>4. extra' \in [auth_state : AuthCodes \cup {"none"}, quota : QuotaReadings \cup {"none"}]
        BY <2>1 DEF Readings
    <2>5. ChannelTypes'
        <3>1. CASE UNCHANGED <<guard, tasks, spawned, stores>>
            BY <1>1, <2>1, <2>4, <3>1 DEF ChannelTypes, ChannelTypeOK
        <3>2. CASE ~UNCHANGED <<guard, tasks, spawned, stores>>
            <4>1. spawned' \in 0 .. MaxTasks /\ guard' \in [code : AuthCodes \cup {"none"}, at : 0 .. MaxMoment]
                BY <1>2, <2>3, <3>2 DEF NoFailure
            <4>2. IsFiniteSet(tasks') /\ Cardinality(tasks') <= spawned'
                BY <1>1, <2>3, <3>2, TasksChange
            <4>3. Cardinality(tasks') <= MaxTasks
                BY <4>1, <4>2, FS_CardinalityType
            <4>4. \A y \in tasks' : y.field \in ChannelFields /\ y.value \in TaskValues(y.field)
                BY <1>1, <1>2, <2>3, <3>2 DEF ChannelTypes, Labels
            <4> QED BY <1>1, <2>1, <2>3, <2>4, <3>2, <4>1, <4>2, <4>3, <4>4 DEF ChannelTypes, ChannelTypeOK
        <3> QED BY <3>1, <3>2
    <2>6. FieldFollows("auth_state")'
        <3> SUFFICES ASSUME "auth_state" \notin excuses' PROVE FieldFollows("auth_state")'
            BY DEF FieldFollows
        <3>1. guard = NoFailure /\ "auth_state" \notin excuses /\ UNCHANGED <<guard, tasks, spawned, stores>>
            BY <2>2, <2>3
        <3> QED BY <1>1, <2>1, <3>1 DEF FieldFollows, AtRest, Known, RowHas, NoFailure
    <2>7. FieldFollows("quota")'
        <3> SUFFICES ASSUME "quota" \notin excuses' PROVE FieldFollows("quota")'
            BY DEF FieldFollows
        <3>1. extra.quota = edit /\ "quota" \notin excuses
            BY <2>2
        <3>2. \A y : y.field = "quota" => (y \in tasks' <=> y \in tasks)
            BY <2>3
        <3>3. RowHas("quota")' = RowHas("quota") /\ Known("quota")' = Known("quota")
            BY <2>1, <3>1 DEF RowHas, Known
        <3> QED BY <1>1, <3>1, <3>2, <3>3 DEF FieldFollows, AtRest
    <2>8. ThrottleFollows'
        BY <1>1, <2>1 DEF ThrottleFollows
    <2>9. StoresOrdered' /\ StoreOncePerPeriod'
        BY <1>1, <1>2, <2>1, <2>3 DEF StoresOrdered, StoreOncePerPeriod, NoFailure
    <2> QED BY <2>5, <2>6, <2>7, <2>8, <2>9 DEF ChannelInv
<1>10. CASE ChannelRestart
    <2>1. IsFiniteSet(tasks') /\ Cardinality(tasks') = 0 /\ tasks' = {}
        BY <1>10, FS_EmptySet DEF ChannelRestart
    <2>2. extra.quota \in Readings
        BY <1>1 DEF ChannelTypeOK, Readings
    <2>3. ChannelTypes'
        BY <1>1, <1>2, <1>10, <2>1, <2>2 DEF ChannelRestart, ChannelTypes, ChannelTypeOK, NoFailure, NoReading
    <2>4. FieldFollows("auth_state")' /\ FieldFollows("quota")'
        BY <1>10 DEF ChannelRestart, FieldFollows, AtRest, Known, RowHas, NoFailure
    <2> QED BY <1>1, <1>2, <1>10, <2>3, <2>4
            DEF ChannelRestart, ChannelInv, ThrottleFollows, StoresOrdered, StoreOncePerPeriod, NoFailure, NoReading
<1>11. CASE MomentPasses
    <2>1. ChannelTypes'
        BY <1>1, <1>11 DEF MomentPasses, ChannelTypes, ChannelTypeOK
    <2>2. FieldFollows("auth_state")' /\ FieldFollows("quota")' /\ ThrottleFollows' /\ StoreOncePerPeriod'
        BY <1>1, <1>11 DEF MomentPasses, FieldFollows, AtRest, Known, RowHas, ThrottleFollows, StoreOncePerPeriod
    <2>3. StoresOrdered'
        BY <1>1, <1>2, <1>11 DEF MomentPasses, StoresOrdered
    <2> QED BY <2>1, <2>2, <2>3 DEF ChannelInv
<1>12. CASE UNCHANGED channelVars
    BY <1>1, <1>12 DEF channelVars, ChannelInv, ChannelTypes, ChannelTypeOK, FieldFollows, AtRest, Known, RowHas,
       ThrottleFollows, StoresOrdered, StoreOncePerPeriod
<1> QED BY <1>3, <1>4, <1>5, <1>6, <1>7, <1>8, <1>9, <1>10, <1>11, <1>12 DEF ChannelNext

\* However many failures, readings, edits, failed tasks and restarts there are: the details
\* of a failure go to the database once per period, and at rest the row of a channel says
\* what the process knows, except after the events that are known to part them.
THEOREM RowIsExplained == ChannelSpec => []RowExplained
<1>1. ChannelInv => RowExplained
    BY DEF ChannelInv, ChannelTypes, RowExplained, FieldFollows, Known, RowHas, LabelExplained, QuotaExplained, Explained
<1> QED BY <1>1, ChannelStarts, ChannelStep, PTL DEF ChannelSpec

-----------------------------------------------------------------------------
(* The sliding windows.                                                      *)

\* The bounds as numbers.
LEMMA RateNats ==
    /\ Window \in Nat /\ IdleEvict \in Nat /\ MaxRateEntries \in Nat /\ MaxTime \in Nat /\ DefaultRpm \in Nat
    /\ LoginLimit \in Nat /\ Window <= IdleEvict
  BY RateAssumption

Moments == 0 .. MaxTime

\* The queue of a key or of a login name.
QueueOf(who) ==
    IF who \in ApiKeys THEN Lookup(windows, who, <<>>)
    ELSE IF who \in DOMAIN logins THEN logins[who].events ELSE <<>>

\* The grants to who from T on.
GrantsFrom(who, T) == {g \in grants : g.who = who /\ g.at >= T}

\* The last n events of a queue are not older than T.
EndsWith(queue, n, T) == n <= Len(queue) /\ \A i \in Len(queue) - n + 1 .. Len(queue) : queue[i] >= T

\* Every grant that a window may still count is in the queue.
QueuesKnow ==
    \A who \in ApiKeys \cup LoginNames : \A T \in Int :
        T >= time - Window => EndsWith(QueueOf(who), Cardinality(GrantsFrom(who, T)), T)

GrantsTyped ==
    /\ IsFiniteSet(grants)
    /\ \A g \in grants : g.at \in Nat /\ g.at <= time /\ g.after \in Nat /\ g.limit \in Int

\* The queues are in order of time, and no name was seen before its last event.
InOrder(queue) == \A i, j \in DOMAIN queue : i <= j => queue[i] <= queue[j]

QueuesOrdered ==
    /\ \A k \in DOMAIN windows : InOrder(windows[k]) /\ \A i \in DOMAIN windows[k] : windows[k][i] <= time
    /\ \A n \in DOMAIN logins : logins[n].last_seen <= time
                              /\ \A i \in DOMAIN logins[n].events : logins[n].events[i] <= logins[n].last_seen

RateInv ==
    /\ RateTypeOK /\ IsFiniteSet(DOMAIN logins) /\ GrantsTyped
    /\ QueuesKnow /\ QueuesOrdered /\ WindowBound

\* The loop of window_allow ends at the first event that has not expired.
LEMMA FirstLiveIs ==
    ASSUME NEW q \in Seq(Moments), time \in Nat
    PROVE  /\ FirstLive(q) \in 1 .. Len(q) + 1
           /\ \A j \in 1 .. FirstLive(q) - 1 : time - q[j] > Window
           /\ FirstLive(q) <= Len(q) => time - q[FirstLive(q)] <= Window
<1> USE RateNats
<1> DEFINE Below == OpToRel(<, Nat)
           Ends == {i \in 1 .. Len(q) + 1 : i <= Len(q) => time - q[i] <= Window}
<1>1. IsWellFoundedOn(Below, Nat)
    BY NatLessThanWellFounded, Zenon
<1> HIDE DEF Below
<1>2. Len(q) \in Nat /\ Ends \subseteq Nat /\ Len(q) + 1 \in Ends
    OBVIOUS
<1>3. PICK i \in Ends : \A j \in Ends : ~(<<j, i>> \in Below)
    <2> HIDE DEF Ends
    <2> QED BY <1>1, <1>2, WFMin
<1>4. ASSUME NEW j \in 1 .. i - 1 PROVE time - q[j] > Window
    <2>1. j \in Nat /\ i \in Nat /\ j < i /\ j \in 1 .. Len(q)
        BY <1>2
    <2>2. <<j, i>> \in Below
        BY <2>1, Zenon DEF OpToRel, Below
    <2>3. j \notin Ends
        <3> HIDE DEF Ends
        <3> QED BY <1>3, <2>2
    <2>4. ~(time - q[j] <= Window)
        BY <2>1, <2>3
    <2>5. q[j] \in Int
        BY <2>1 DEF Moments
    <2> QED BY <2>4, <2>5
<1>5. \E k \in 1 .. Len(q) + 1 : (\A j \in 1 .. k - 1 : time - q[j] > Window) /\ (k <= Len(q) => time - q[k] <= Window)
    BY <1>3, <1>4
<1> QED BY <1>5 DEF FirstLive

\* What is left of a queue: its end, in the same order.
LEMMA LiveIs ==
    ASSUME NEW q \in Seq(Moments), time \in Nat
    PROVE  /\ Live(q) \in Seq(Moments) /\ Len(Live(q)) = Len(q) - FirstLive(q) + 1
           /\ \A i \in 1 .. Len(Live(q)) : Live(q)[i] = q[FirstLive(q) + i - 1]
<1>1. FirstLive(q) \in 1 .. Len(q) + 1 /\ Len(q) \in Nat
    BY FirstLiveIs
<1> HIDE DEF FirstLive
<1> QED BY <1>1, SubSeqProperties DEF Live

\* No event that the window still counts is lost.
LEMMA LiveEnds ==
    ASSUME NEW q \in Seq(Moments), time \in Nat, NEW n \in Nat, NEW T \in Int, T >= time - Window, EndsWith(q, n, T)
    PROVE  EndsWith(Live(q), n, T)
<1> USE RateNats
<1> DEFINE f == FirstLive(q)
<1>1. /\ f \in 1 .. Len(q) + 1 /\ Len(q) \in Nat
      /\ \A j \in 1 .. f - 1 : time - q[j] > Window
    BY FirstLiveIs
<1>2. /\ Len(Live(q)) = Len(q) - f + 1
      /\ \A i \in 1 .. Len(Live(q)) : Live(q)[i] = q[f + i - 1]
    BY LiveIs
<1> HIDE DEF f
<1>3. n <= Len(q) /\ \A i \in Len(q) - n + 1 .. Len(q) : q[i] >= T
    BY DEF EndsWith
<1>4. n = 0 \/ Len(q) - n + 1 >= f
    <2> SUFFICES ASSUME n # 0, Len(q) - n + 1 < f PROVE FALSE
        BY <1>1
    <2>1. Len(q) - n + 1 \in 1 .. f - 1 /\ Len(q) - n + 1 \in Len(q) - n + 1 .. Len(q)
        BY <1>1, <1>3
    <2>2. PICK j \in 1 .. f - 1 : j = Len(q) - n + 1
        BY <2>1
    <2>3. j \in 1 .. Len(q) /\ time - q[j] > Window
        BY <1>1, <2>2
    <2>4. q[j] >= T
        BY <1>3, <2>1, <2>2
    <2>5. q[j] \in Int
        BY <2>3 DEF Moments
    <2> QED BY <2>3, <2>4, <2>5
<1>5. n <= Len(Live(q))
    BY <1>1, <1>2, <1>4
<1>6. ASSUME NEW i \in Len(Live(q)) - n + 1 .. Len(Live(q)) PROVE Live(q)[i] >= T
    <2>1. i \in 1 .. Len(Live(q)) /\ f + i - 1 \in Len(q) - n + 1 .. Len(q)
        BY <1>1, <1>2, <1>5
    <2> QED BY <1>2, <1>3, <2>1
<1> QED BY <1>5, <1>6 DEF EndsWith

\* An event more at the end.
LEMMA AppendEnds ==
    ASSUME NEW q \in Seq(Moments), time \in Moments, NEW n \in Nat, NEW m \in Nat, m <= n + 1, NEW T \in Int, T <= time,
           EndsWith(q, n, T)
    PROVE  EndsWith(Append(q, time), m, T)
<1>1. Len(q) \in Nat /\ Len(Append(q, time)) = Len(q) + 1 /\ time \in Nat
    BY RateNats DEF Moments
<1>2. n <= Len(q) /\ \A i \in Len(q) - n + 1 .. Len(q) : q[i] >= T
    BY DEF EndsWith
<1>3. ASSUME NEW i \in Len(q) + 1 - m + 1 .. Len(q) + 1 PROVE Append(q, time)[i] >= T
    <2>1. CASE i = Len(q) + 1
        BY <1>1, <2>1
    <2>2. CASE i # Len(q) + 1
        <3>1. i \in Len(q) - n + 1 .. Len(q) /\ i \in 1 .. Len(q)
            BY <1>1, <1>2, <2>2
        <3>2. Append(q, time)[i] = q[i]
            BY <3>1
        <3> QED BY <1>2, <3>1, <3>2
    <2> QED BY <2>1, <2>2
<1> QED BY <1>1, <1>2, <1>3 DEF EndsWith

\* A queue with one event more.
LEMMA AppendIs ==
    ASSUME NEW s \in Seq(Moments), NEW e \in Moments
    PROVE  /\ Append(s, e) \in Seq(Moments) /\ Len(Append(s, e)) = Len(s) + 1 /\ Len(s) \in Nat
           /\ DOMAIN Append(s, e) = 1 .. Len(s) + 1
           /\ \A i \in 1 .. Len(s) + 1 : Append(s, e)[i] = IF i = Len(s) + 1 THEN e ELSE s[i]
<1>1. Append(s, e) \in Seq(Moments) /\ Len(Append(s, e)) = Len(s) + 1 /\ Len(s) \in Nat
    OBVIOUS
<1>2. ASSUME NEW i \in 1 .. Len(s) + 1 PROVE Append(s, e)[i] = IF i = Len(s) + 1 THEN e ELSE s[i]
    <2>1. CASE i = Len(s) + 1
        BY <2>1
    <2>2. CASE i # Len(s) + 1
        <3>1. i \in 1 .. Len(s)
            BY <1>1, <2>2
        <3> QED BY <2>2, <3>1
    <2> QED BY <2>1, <2>2
<1> QED BY <1>1, <1>2

\* What window_allow leaves in the queue.
LEMMA AllowQueue ==
    ASSUME NEW q \in Seq(Moments), time \in Moments, NEW limit \in Nat, limit > 0,
           \A i \in DOMAIN q : q[i] <= time
    PROVE  /\ AfterAllow(q, limit) \in Seq(Moments)
           /\ \A i \in DOMAIN AfterAllow(q, limit) : AfterAllow(q, limit)[i] <= time
           /\ InOrder(q) => InOrder(AfterAllow(q, limit))
<1>0. time \in Nat
    BY RateNats DEF Moments
<1>1. PICK live \in Seq(Moments) : live = Live(q)
    BY <1>0, LiveIs
<1>2. PICK f \in 1 .. Len(q) + 1 : f = FirstLive(q)
    BY <1>0, FirstLiveIs
<1>a. /\ Len(q) \in Nat /\ Len(live) \in Nat /\ Len(live) = Len(q) - f + 1
      /\ \A i \in 1 .. Len(live) : live[i] = q[f + i - 1]
    BY <1>0, <1>1, <1>2, LiveIs
<1>b. AfterAllow(q, limit) \in {live, Append(live, time)}
    BY <1>1 DEF AfterAllow
<1>3. ASSUME NEW i \in 1 .. Len(live) PROVE f + i - 1 \in 1 .. Len(q) /\ live[i] = q[f + i - 1] /\ live[i] \in Nat /\ live[i] <= time
    <2>1. f + i - 1 \in 1 .. Len(q)
        BY <1>a
    <2>2. live[i] \in Moments /\ live[i] = q[f + i - 1]
        BY <1>a
    <2> QED BY <2>1, <2>2, RateNats DEF Moments
<1>4. InOrder(q) => InOrder(live)
    <2> SUFFICES ASSUME InOrder(q), NEW i \in 1 .. Len(live), NEW j \in 1 .. Len(live), i <= j PROVE live[i] <= live[j]
        BY DEF InOrder
    <2>1. f + i - 1 \in DOMAIN q /\ f + j - 1 \in DOMAIN q /\ f + i - 1 <= f + j - 1
        BY <1>a, <1>3
    <2> QED BY <1>3, <2>1 DEF InOrder
<1>5. CASE AfterAllow(q, limit) = live
    BY <1>3, <1>4, <1>5
<1>6. CASE AfterAllow(q, limit) = Append(live, time)
    <2>1. /\ Append(live, time) \in Seq(Moments) /\ Len(Append(live, time)) = Len(live) + 1 /\ Len(live) \in Nat
          /\ DOMAIN Append(live, time) = 1 .. Len(live) + 1
          /\ \A i \in 1 .. Len(live) + 1 : Append(live, time)[i] = IF i = Len(live) + 1 THEN time ELSE live[i]
        BY AppendIs
    <2>2. ASSUME NEW i \in 1 .. Len(live) + 1 PROVE Append(live, time)[i] <= time
        <3>1. CASE i = Len(live) + 1
            BY <1>0, <2>1, <3>1
        <3>2. CASE i # Len(live) + 1
            <4>1. i \in 1 .. Len(live)
                BY <2>1, <3>2
            <4>2. Append(live, time)[i] = live[i]
                BY <2>1, <3>2
            <4> QED BY <1>3, <4>1, <4>2
        <3> QED BY <3>1, <3>2
    <2>3. ASSUME InOrder(live), NEW i \in 1 .. Len(live) + 1, NEW j \in 1 .. Len(live) + 1, i <= j
          PROVE  Append(live, time)[i] <= Append(live, time)[j]
        <3>1. CASE j = Len(live) + 1
            BY <2>1, <2>2, <3>1
        <3>2. CASE j # Len(live) + 1
            <4>1. i \in DOMAIN live /\ j \in DOMAIN live /\ i # Len(live) + 1
                BY <2>1, <2>3, <3>2
            <4> QED BY <2>1, <2>3, <3>2, <4>1 DEF InOrder
        <3> QED BY <3>1, <3>2
    <2>4. InOrder(q) => InOrder(Append(live, time))
        BY <1>4, <2>1, <2>3 DEF InOrder
    <2>5. \A i \in DOMAIN Append(live, time) : Append(live, time)[i] <= time
        BY <2>1, <2>2
    <2> QED BY <1>6, <2>1, <2>4, <2>5
<1> QED BY <1>b, <1>5, <1>6

\* The end of an end.
LEMMA FewerEnds ==
    ASSUME NEW q \in Seq(Moments), NEW n \in Nat, NEW m \in Nat, m <= n, NEW T \in Int, EndsWith(q, n, T)
    PROVE  EndsWith(q, m, T)
<1>1. Len(q) \in Nat
    OBVIOUS
<1> QED BY <1>1 DEF EndsWith

\* The queue of a key or name holds moments that have passed.
LEMMA QueueType ==
    ASSUME RateInv, NEW who \in ApiKeys \cup LoginNames
    PROVE  QueueOf(who) \in Seq(Moments) /\ \A i \in DOMAIN QueueOf(who) : QueueOf(who)[i] <= time
<1>0. <<>> \in Seq(Moments) /\ DOMAIN <<>> = {}
    OBVIOUS
<1>t. time \in Nat
    BY RateNats DEF RateInv, RateTypeOK
<1>1. CASE who \in ApiKeys
    BY <1>0, <1>1 DEF RateInv, RateTypeOK, QueuesOrdered, QueueOf, Lookup, Moments
<1>2. CASE who \notin ApiKeys /\ who \in DOMAIN logins
    <2>1. QueueOf(who) = logins[who].events
        BY <1>2 DEF QueueOf
    <2>2. logins[who].events \in Seq(Moments) /\ logins[who].last_seen \in Nat /\ logins[who].last_seen <= time
        BY <1>2, RateNats DEF RateInv, RateTypeOK, QueuesOrdered, Moments
    <2>3. \A i \in DOMAIN logins[who].events : logins[who].events[i] <= logins[who].last_seen
        BY <1>2 DEF RateInv, QueuesOrdered
    <2>4. ASSUME NEW i \in DOMAIN logins[who].events PROVE logins[who].events[i] <= time
        <3>1. logins[who].events[i] \in Nat
            BY <2>2, RateNats DEF Moments
        <3> QED BY <1>t, <2>2, <2>3, <3>1
    <2> QED BY <2>1, <2>2, <2>4
<1>3. CASE who \notin ApiKeys /\ who \notin DOMAIN logins
    BY <1>0, <1>3 DEF QueueOf
<1> QED BY <1>1, <1>2, <1>3

\* The grants that a window may count are finitely many.
LEMMA CountedFinite ==
    ASSUME RateInv, NEW who, NEW T
    PROVE  IsFiniteSet(GrantsFrom(who, T)) /\ Cardinality(GrantsFrom(who, T)) \in Nat
<1>1. IsFiniteSet(grants) /\ GrantsFrom(who, T) \subseteq grants
    BY DEF RateInv, GrantsTyped, GrantsFrom
<1> QED BY <1>1, FS_Subset, FS_CardinalityType

\* A name that was last seen before the window has no grant that the window counts.
LEMMA IdleUncounted ==
    ASSUME RateInv, NEW n \in DOMAIN logins, logins[n].last_seen < time - Window, NEW T \in Int, T >= time - Window
    PROVE  GrantsFrom(n, T) = {}
<1>1. n \in LoginNames /\ n \notin ApiKeys /\ QueueOf(n) = logins[n].events
    BY RateAssumption DEF RateInv, RateTypeOK, QueueOf
<1>2. PICK q \in Seq(Moments) : q = logins[n].events
    BY <1>1, QueueType
<1>3. PICK c \in Nat : c = Cardinality(GrantsFrom(n, T))
    BY CountedFinite
<1>4. EndsWith(q, c, T)
    BY <1>1, <1>2, <1>3 DEF RateInv, QueuesKnow
<1>5. PICK seen \in Nat : seen = logins[n].last_seen
    BY RateNats DEF RateInv, RateTypeOK
<1>6. \A i \in DOMAIN q : q[i] <= seen
    BY <1>2, <1>5 DEF RateInv, QueuesOrdered
<1>7. c = 0
    <2> SUFFICES ASSUME c # 0 PROVE FALSE
        OBVIOUS
    <2>1. PICK last \in Nat : last = Len(q)
        OBVIOUS
    <2>2. last \in DOMAIN q /\ q[last] >= T
        BY <1>4, <2>1 DEF EndsWith
    <2>3. q[last] \in Nat
        BY <2>2, RateNats DEF Moments
    <2>4. time \in Nat
        BY RateNats DEF RateInv, RateTypeOK
    <2> QED BY <1>5, <1>6, <2>2, <2>3, <2>4, RateNats
<1> QED BY <1>3, <1>7, CountedFinite, FS_EmptySet

\* What becomes of the ghost when a check let somebody through.
LEMMA GrantCounts ==
    ASSUME RateInv, NEW who \in ApiKeys \cup LoginNames, NEW limit \in Nat, Granted(who, limit), time' = time,
           NEW T \in Int, T >= time - Window
    PROVE  /\ \A w : w # who => GrantsFrom(w, T)' = GrantsFrom(w, T)
           /\ T > time => GrantsFrom(who, T)' = {}
           /\ Cardinality(GrantsFrom(who, T)') \in Nat
           /\ Cardinality(GrantsFrom(who, T)') <= Cardinality(GrantsFrom(who, T)) + 1
<1> USE RateNats
<1>t. time \in Nat
    BY DEF RateInv, RateTypeOK
<1>1. PICK new : /\ new.who = who /\ new.at = time
                 /\ grants' = {g \in grants : time - g.at <= Window} \cup {new}
    <2> DEFINE r == [who |-> who, at |-> time, limit |-> limit,
                     after |-> Cardinality({g \in {g \in grants : time - g.at <= Window} : g.who = who})]
    <2>1. r.who = who /\ r.at = time
        OBVIOUS
    <2>2. grants' = {g \in grants : time - g.at <= Window} \cup {r}
        BY DEF Granted
    <2> HIDE DEF r
    <2> QED BY <2>1, <2>2
<1>2. \A g \in grants : g.at \in Nat /\ g.at <= time
    BY DEF RateInv, GrantsTyped
<1>3. \A g \in grants : g.at >= T => time - g.at <= Window
    BY <1>t, <1>2
<1>4. ASSUME NEW w, w # who PROVE GrantsFrom(w, T)' = GrantsFrom(w, T)
    BY <1>1, <1>3, <1>4 DEF GrantsFrom
<1>5. GrantsFrom(who, T)' \subseteq GrantsFrom(who, T) \cup {new}
    BY <1>1 DEF GrantsFrom
<1>6. T > time => GrantsFrom(who, T)' = {}
    BY <1>t, <1>1, <1>2 DEF GrantsFrom
<1>7. IsFiniteSet(GrantsFrom(who, T)) /\ Cardinality(GrantsFrom(who, T)) \in Nat
    BY CountedFinite
<1>8. /\ IsFiniteSet(GrantsFrom(who, T) \cup {new})
      /\ Cardinality(GrantsFrom(who, T) \cup {new}) <= Cardinality(GrantsFrom(who, T)) + 1
    <2>1. PICK S : S = GrantsFrom(who, T) /\ IsFiniteSet(S) /\ Cardinality(S) \in Nat
        BY <1>7
    <2>2. /\ IsFiniteSet(S \cup {new})
          /\ Cardinality(S \cup {new}) = IF new \in S THEN Cardinality(S) ELSE Cardinality(S) + 1
        BY <2>1, FS_AddElement
    <2>3. Cardinality(S \cup {new}) <= Cardinality(S) + 1
        BY <2>1, <2>2
    <2> QED BY <2>1, <2>2, <2>3
<1>9. /\ IsFiniteSet(GrantsFrom(who, T)')
      /\ Cardinality(GrantsFrom(who, T)') <= Cardinality(GrantsFrom(who, T) \cup {new})
    BY <1>5, <1>8, FS_Subset
<1>10. Cardinality(GrantsFrom(who, T)') \in Nat /\ Cardinality(GrantsFrom(who, T) \cup {new}) \in Nat
    BY <1>8, <1>9, FS_CardinalityType
<1> QED BY <1>4, <1>6, <1>7, <1>8, <1>9, <1>10

\* The grant itself is within its limit, and the ghost keeps its types.
LEMMA GrantBound ==
    ASSUME RateInv, NEW who \in ApiKeys \cup LoginNames, NEW limit \in Nat, limit > 0,
           NEW q \in Seq(Moments), q = QueueOf(who), window_allow(q, limit), Granted(who, limit), time' = time
    PROVE  GrantsTyped' /\ WindowBound'
<1> USE RateNats
<1>t. time \in Nat
    BY DEF RateInv, RateTypeOK
<1>1. PICK recent : recent = {g \in grants : time - g.at <= Window}
    OBVIOUS
<1>2. \A g \in grants : g.at \in Nat /\ g.at <= time /\ g.after \in Nat /\ g.limit \in Int /\ g.after < g.limit
    BY DEF RateInv, GrantsTyped, WindowBound
<1>3. {g \in recent : g.who = who} = GrantsFrom(who, time - Window)
    BY <1>t, <1>1, <1>2 DEF GrantsFrom
<1>4. PICK c \in Nat : c = Cardinality(GrantsFrom(who, time - Window))
    BY CountedFinite
<1>5. c < limit
    <2>1. time - Window \in Int /\ time - Window >= time - Window
        BY <1>t
    <2>2. EndsWith(q, c, time - Window)
        BY <1>4, <2>1 DEF RateInv, QueuesKnow
    <2>3. EndsWith(Live(q), c, time - Window)
        BY <1>t, <2>1, <2>2, LiveEnds
    <2>4. Len(Live(q)) \in Nat
        BY <1>t, LiveIs
    <2>5. c <= Len(Live(q)) /\ Len(Live(q)) < limit
        BY <2>3 DEF EndsWith, window_allow
    <2> QED BY <2>4, <2>5
<1>6. PICK new : /\ new.who = who /\ new.at = time /\ new.limit = limit /\ new.after = c
                 /\ grants' = recent \cup {new}
    <2> DEFINE r == [who |-> who, at |-> time, limit |-> limit, after |-> c]
    <2>1. r.who = who /\ r.at = time /\ r.limit = limit /\ r.after = c
        OBVIOUS
    <2>2. grants' = recent \cup {r}
        BY <1>1, <1>3, <1>4 DEF Granted
    <2> HIDE DEF r
    <2> QED BY <2>1, <2>2
<1>7. IsFiniteSet(grants')
    <2>1. IsFiniteSet(recent)
        BY <1>1, FS_Subset DEF RateInv, GrantsTyped
    <2> QED BY <1>6, <2>1, FS_AddElement
<1>8. \A g \in grants' : g.at \in Nat /\ g.at <= time' /\ g.after \in Nat /\ g.limit \in Int /\ g.after < g.limit
    BY <1>t, <1>1, <1>2, <1>5, <1>6
<1> QED BY <1>7, <1>8 DEF GrantsTyped, WindowBound

\* A check of one queue leaves all queues holding the grants that count.
LEMMA CheckKnows ==
    ASSUME RateInv, NEW who \in ApiKeys \cup LoginNames, NEW limit \in Nat, limit > 0,
           NEW q \in Seq(Moments), q = QueueOf(who), QueueOf(who)' = AfterAllow(q, limit), time' = time,
           IF window_allow(q, limit) THEN Granted(who, limit) ELSE UNCHANGED grants,
           \A w \in ApiKeys \cup LoginNames :
               w # who => \/ QueueOf(w)' = QueueOf(w)
                          \/ /\ QueueOf(w)' = <<>>
                             /\ \A T \in Int : T >= time - Window => GrantsFrom(w, T) = {}
    PROVE  GrantsTyped' /\ WindowBound' /\ QueuesKnow'
<1> USE RateNats
<1>t. time \in Nat /\ time \in Moments
    BY DEF RateInv, RateTypeOK, Moments
<1>1. GrantsTyped' /\ WindowBound'
    BY GrantBound DEF RateInv, GrantsTyped, WindowBound
<1>2. ASSUME NEW w \in ApiKeys \cup LoginNames, NEW T \in Int, T >= time - Window
      PROVE  EndsWith(QueueOf(w)', Cardinality(GrantsFrom(w, T)'), T)
    <2>0. PICK n \in Nat : n = Cardinality(GrantsFrom(w, T))
        BY CountedFinite
    <2>k. EndsWith(QueueOf(w), n, T)
        BY <1>2, <2>0 DEF RateInv, QueuesKnow
    <2>e. EndsWith(<<>>, 0, T)
        BY DEF EndsWith
    <2>1. CASE w # who
        <3>1. GrantsFrom(w, T)' = GrantsFrom(w, T)
            <4>1. CASE window_allow(q, limit)
                BY <1>2, <2>1, <4>1, GrantCounts
            <4>2. CASE ~window_allow(q, limit)
                BY <4>2 DEF GrantsFrom
            <4> QED BY <4>1, <4>2
        <3>2. CASE QueueOf(w)' = QueueOf(w)
            BY <2>0, <2>k, <3>1, <3>2
        <3>3. CASE QueueOf(w)' = <<>> /\ GrantsFrom(w, T) = {}
            BY <2>e, <3>1, <3>3, FS_EmptySet
        <3> QED BY <1>2, <2>1, <3>2, <3>3
    <2>2. CASE w = who
        <3>1. EndsWith(q, n, T) /\ EndsWith(Live(q), n, T)
            BY <1>t, <1>2, <2>2, <2>k, LiveEnds
        <3>2. PICK live \in Seq(Moments) : live = Live(q)
            BY <1>t, LiveIs
        <3>3. CASE window_allow(q, limit)
            <4>1. AfterAllow(q, limit) = Append(live, time)
                BY <3>2, <3>3 DEF AfterAllow
            <4>2. PICK m \in Nat : m = Cardinality(GrantsFrom(who, T)') /\ m <= n + 1
                BY <1>2, <2>0, <2>2, <3>3, GrantCounts
            <4>3. CASE T <= time
                BY <1>t, <2>2, <3>1, <3>2, <4>1, <4>2, <4>3, AppendEnds
            <4>4. CASE T > time
                <5>1. GrantsFrom(who, T)' = {}
                    BY <1>2, <3>3, <4>4, GrantCounts
                <5>2. Append(live, time) \in Seq(Moments)
                    BY <1>t
                <5>3. EndsWith(Append(live, time), 0, T)
                    <6>1. Len(Append(live, time)) \in Nat
                        BY <5>2
                    <6> QED BY <6>1 DEF EndsWith
                <5> QED BY <2>2, <4>1, <5>1, <5>3, FS_EmptySet
            <4> QED BY <1>t, <4>3, <4>4
        <3>4. CASE ~window_allow(q, limit)
            <4>1. AfterAllow(q, limit) = live /\ GrantsFrom(who, T)' = GrantsFrom(who, T)
                BY <3>2, <3>4 DEF AfterAllow, GrantsFrom
            <4> QED BY <2>0, <2>2, <3>1, <3>2, <4>1
        <3> QED BY <3>3, <3>4
    <2> QED BY <2>1, <2>2
<1> QED BY <1>1, <1>2 DEF QueuesKnow

\* Nobody was let through, and the queues are empty.
LEMMA RateStarts == RateInit => RateInv
<1> SUFFICES ASSUME RateInit PROVE RateInv
    OBVIOUS
<1> USE RateNats
<1>1. DOMAIN windows = {} /\ DOMAIN logins = {} /\ grants = {} /\ time = 0
    BY DEF RateInit
<1>2. IsFiniteSet({}) /\ Cardinality({}) = 0
    BY FS_EmptySet
<1>3. RateTypeOK /\ IsFiniteSet(DOMAIN logins)
    <2>1. windows \in [{} -> Seq(0 .. MaxTime)] /\ logins \in [{} -> [events : Seq(0 .. MaxTime), last_seen : 0 .. MaxTime]]
        BY DEF RateInit
    <2>2. rpm \in [ApiKeys -> Rpms \cup {NoRpm}] /\ time \in 0 .. MaxTime
        BY DEF RateInit
    <2> QED BY <1>1, <1>2, <2>1, <2>2 DEF RateTypeOK
<1>4. GrantsTyped /\ WindowBound /\ QueuesOrdered
    BY <1>1, <1>2 DEF GrantsTyped, WindowBound, QueuesOrdered
<1>5. QueuesKnow
    <2> SUFFICES ASSUME NEW who \in ApiKeys \cup LoginNames, NEW T \in Int
                 PROVE  EndsWith(QueueOf(who), Cardinality(GrantsFrom(who, T)), T)
        BY DEF QueuesKnow
    <2>1. QueueOf(who) = <<>> /\ GrantsFrom(who, T) = {}
        BY <1>1 DEF QueueOf, Lookup, GrantsFrom
    <2>2. EndsWith(<<>>, 0, T)
        BY DEF EndsWith
    <2> QED BY <1>2, <2>1, <2>2
<1> QED BY <1>3, <1>4, <1>5 DEF RateInv

\* A request of a key.
LEMMA RpmStep ==
    ASSUME RateInv, NEW k \in ApiKeys, check_rpm(k)
    PROVE  RateInv'
<1> USE RateNats
<1>t. time \in Nat /\ time \in Moments /\ k \in ApiKeys \cup LoginNames
    BY DEF RateInv, RateTypeOK, Moments
<1>1. PICK limit \in Nat : limit = EffectiveRpm(k) /\ limit > 0
    BY RateAssumption DEF check_rpm, EffectiveRpm, RateInv, RateTypeOK, NoRpm
<1>2. PICK q \in Seq(Moments) : q = QueueOf(k) /\ \A i \in DOMAIN q : q[i] <= time
    BY <1>t, QueueType
<1>3. q = Lookup(windows, k, <<>>)
    BY <1>2 DEF QueueOf
<1>4. PICK left \in Seq(Moments) : /\ left = AfterAllow(q, limit) /\ \A i \in DOMAIN left : left[i] <= time
                                   /\ InOrder(q) => InOrder(left)
    BY <1>t, <1>1, <1>2, AllowQueue
<1>5. /\ windows' = Entry(windows, k, left) /\ time' = time /\ rpm' = rpm /\ logins' = logins
      /\ IF window_allow(q, limit) THEN Granted(k, limit) ELSE UNCHANGED grants
    BY <1>1, <1>3, <1>4 DEF check_rpm
<1>6. /\ DOMAIN windows' = DOMAIN windows \cup {k} /\ windows'[k] = left
      /\ \A w \in DOMAIN windows : w # k => windows'[w] = windows[w]
    BY <1>5 DEF Entry
<1>7. InOrder(left)
    <2>1. InOrder(<<>>)
        BY DEF InOrder
    <2> QED BY <1>3, <1>4, <2>1 DEF Lookup, RateInv, QueuesOrdered
<1>8. GrantsTyped' /\ WindowBound' /\ QueuesKnow'
    <2>1. QueueOf(k)' = left
        BY <1>6 DEF QueueOf, Lookup
    <2>2. \A w \in ApiKeys \cup LoginNames : w # k => QueueOf(w)' = QueueOf(w)
        BY <1>5, <1>6 DEF QueueOf, Lookup
    <2> QED BY <1>t, <1>1, <1>2, <1>4, <1>5, <2>1, <2>2, CheckKnows
<1>9. RateTypeOK'
    <2>1. windows' \in [DOMAIN windows' -> Seq(0 .. MaxTime)] /\ DOMAIN windows' \subseteq ApiKeys
        BY <1>4, <1>5, <1>6 DEF RateInv, RateTypeOK, Moments, Entry
    <2> QED BY <1>5, <2>1 DEF RateInv, RateTypeOK
<1>10. QueuesOrdered'
    BY <1>4, <1>5, <1>6, <1>7 DEF RateInv, QueuesOrdered
<1> QED BY <1>5, <1>8, <1>9, <1>10 DEF RateInv

\* The administrator deletes a key: its window goes, and nothing that counts is left.
LEMMA RemoveStep ==
    ASSUME RateInv, NEW k \in ApiKeys, remove_key(k)
    PROVE  RateInv'
<1> USE RateNats
<1>1. /\ windows' = Without(windows, {k}) /\ time' = time /\ rpm' = rpm /\ logins' = logins
      /\ grants' = {g \in grants : g.who # k}
    BY DEF remove_key
<1>2. DOMAIN windows' = DOMAIN windows \ {k} /\ \A w \in DOMAIN windows' : windows'[w] = windows[w]
    BY <1>1 DEF Without
<1>3. RateTypeOK'
    <2>1. windows' \in [DOMAIN windows' -> Seq(0 .. MaxTime)] /\ DOMAIN windows' \subseteq ApiKeys
        BY <1>1, <1>2 DEF RateInv, RateTypeOK, Without
    <2> QED BY <1>1, <2>1 DEF RateInv, RateTypeOK
<1>4. GrantsTyped' /\ WindowBound'
    <2>1. IsFiniteSet(grants')
        BY <1>1, FS_Subset DEF RateInv, GrantsTyped
    <2> QED BY <1>1, <2>1 DEF RateInv, GrantsTyped, WindowBound
<1>5. QueuesOrdered'
    BY <1>1, <1>2 DEF RateInv, QueuesOrdered
<1>6. QueuesKnow'
    <2> SUFFICES ASSUME NEW w \in ApiKeys \cup LoginNames, NEW T \in Int, T >= time - Window
                 PROVE  EndsWith(QueueOf(w)', Cardinality(GrantsFrom(w, T)'), T)
        BY <1>1 DEF QueuesKnow
    <2>1. CASE w = k
        <3>1. QueueOf(w)' = <<>> /\ GrantsFrom(w, T)' = {}
            BY <1>1, <1>2, <2>1 DEF QueueOf, Lookup, GrantsFrom
        <3>2. EndsWith(<<>>, 0, T)
            BY DEF EndsWith
        <3> QED BY <3>1, <3>2, FS_EmptySet
    <2>2. CASE w # k
        <3>1. QueueOf(w)' = QueueOf(w) /\ GrantsFrom(w, T)' = GrantsFrom(w, T)
            BY <1>1, <1>2, <2>2 DEF QueueOf, Lookup, GrantsFrom
        <3> QED BY <3>1 DEF RateInv, QueuesKnow
    <2> QED BY <2>1, <2>2
<1> QED BY <1>1, <1>3, <1>4, <1>5, <1>6 DEF RateInv

\* The table in which a name is looked up: the names that are missing have been idle.
LEMMA LoginTableIs ==
    ASSUME RateInv, NEW n \in LoginNames
    PROVE  /\ DOMAIN LoginTable(n) \subseteq DOMAIN logins
           /\ \A x \in DOMAIN LoginTable(n) : LoginTable(n)[x] = logins[x]
           /\ LoginTable(n) \in [DOMAIN LoginTable(n) -> [events : Seq(Moments), last_seen : Moments]]
           /\ IsFiniteSet(DOMAIN LoginTable(n)) /\ Cardinality(DOMAIN LoginTable(n)) \in Nat
           /\ Cardinality(DOMAIN LoginTable(n)) <= MaxRateEntries
           /\ n \in DOMAIN LoginTable(n) <=> n \in DOMAIN logins
           /\ \A x \in DOMAIN logins \ DOMAIN LoginTable(n) : logins[x].last_seen < time - Window
<1> USE RateNats
<1>t. time \in Nat /\ logins \in [DOMAIN logins -> [events : Seq(Moments), last_seen : Moments]]
    BY DEF RateInv, RateTypeOK, Moments
<1>f. /\ IsFiniteSet(DOMAIN logins) /\ Cardinality(DOMAIN logins) \in Nat
      /\ Cardinality(DOMAIN logins) <= MaxRateEntries
    BY FS_CardinalityType DEF RateInv, RateTypeOK
<1>1. CASE LoginTable(n) = logins
    BY <1>1, <1>t, <1>f
<1>2. CASE LoginTable(n) = evict_idle_entries(logins) /\ n \notin DOMAIN logins
    <2>1. PICK idle : idle = {x \in DOMAIN logins : time - logins[x].last_seen > IdleEvict}
        OBVIOUS
    <2>2. LoginTable(n) = [x \in DOMAIN logins \ idle |-> logins[x]]
        BY <1>2, <2>1 DEF evict_idle_entries, Without
    <2>3. /\ DOMAIN LoginTable(n) = DOMAIN logins \ idle /\ \A x \in DOMAIN LoginTable(n) : LoginTable(n)[x] = logins[x]
          /\ LoginTable(n) \in [DOMAIN LoginTable(n) -> [events : Seq(Moments), last_seen : Moments]]
        BY <1>t, <2>2
    <2>4. /\ IsFiniteSet(DOMAIN LoginTable(n)) /\ Cardinality(DOMAIN LoginTable(n)) \in Nat
          /\ Cardinality(DOMAIN LoginTable(n)) <= MaxRateEntries
        <3>1. PICK kept : kept = DOMAIN LoginTable(n) /\ kept \subseteq DOMAIN logins
            BY <2>3
        <3>2. IsFiniteSet(kept) /\ Cardinality(kept) <= Cardinality(DOMAIN logins)
            BY <1>f, <3>1, FS_Subset
        <3>3. Cardinality(kept) \in Nat
            BY <3>2, FS_CardinalityType
        <3> QED BY <1>f, <3>1, <3>2, <3>3
    <2>5. ASSUME NEW x \in idle PROVE logins[x].last_seen < time - Window
        <3>1. logins[x].last_seen \in Nat /\ time - logins[x].last_seen > IdleEvict
            BY <1>t, <2>1 DEF Moments
        <3> QED BY <1>t, <3>1
    <2> QED BY <1>2, <2>3, <2>4, <2>5
<1> QED BY <1>1, <1>2 DEF LoginTable

\* An attempt of a login name.
LEMMA LoginStep ==
    ASSUME RateInv, NEW n \in LoginNames, check_login(n)
    PROVE  RateInv'
<1> USE RateNats
<1>t. time \in Nat /\ time \in Moments /\ n \in ApiKeys \cup LoginNames /\ n \notin ApiKeys
    BY RateAssumption DEF RateInv, RateTypeOK, Moments
<1>m. PICK map : map = LoginTable(n)
    OBVIOUS
<1>1. /\ DOMAIN map \subseteq DOMAIN logins /\ \A x \in DOMAIN map : map[x] = logins[x]
      /\ map \in [DOMAIN map -> [events : Seq(Moments), last_seen : Moments]]
    BY <1>m, LoginTableIs
<1>2. /\ IsFiniteSet(DOMAIN map) /\ Cardinality(DOMAIN map) \in Nat
      /\ Cardinality(DOMAIN map) <= MaxRateEntries
    BY <1>m, LoginTableIs
<1>3. /\ n \in DOMAIN map <=> n \in DOMAIN logins
      /\ \A x \in DOMAIN logins \ DOMAIN map : logins[x].last_seen < time - Window
    BY <1>m, LoginTableIs
<1>4. LoginLimit > 0 /\ time' = time /\ rpm' = rpm /\ windows' = windows
    BY DEF check_login
<1>5. PICK q \in Seq(Moments) : q = QueueOf(n) /\ \A i \in DOMAIN q : q[i] <= time
    BY <1>t, QueueType
<1>6. q = Lookup(map, n, [events |-> <<>>, last_seen |-> time]).events
    BY <1>t, <1>1, <1>3, <1>5 DEF QueueOf, Lookup
<1>7. ASSUME NEW w \in DOMAIN logins, w \notin DOMAIN map, w \notin ApiKeys, NEW T \in Int, T >= time - Window
      PROVE  GrantsFrom(w, T) = {}
    BY <1>3, <1>7, IdleUncounted
<1>8. CASE n \notin DOMAIN map /\ Cardinality(DOMAIN map) >= MaxRateEntries
    <2>1. logins' = map /\ grants' = grants
        BY <1>m, <1>8 DEF check_login
    <2>2. RateTypeOK' /\ IsFiniteSet(DOMAIN logins')
        BY <1>1, <1>2, <1>4, <2>1 DEF RateInv, RateTypeOK, Moments
    <2>3. GrantsTyped' /\ WindowBound' /\ QueuesOrdered'
        BY <1>1, <1>4, <2>1 DEF RateInv, GrantsTyped, WindowBound, QueuesOrdered
    <2>4. QueuesKnow'
        <3> SUFFICES ASSUME NEW w \in ApiKeys \cup LoginNames, NEW T \in Int, T >= time - Window
                     PROVE  EndsWith(QueueOf(w)', Cardinality(GrantsFrom(w, T)'), T)
            BY <1>4 DEF QueuesKnow
        <3>1. GrantsFrom(w, T)' = GrantsFrom(w, T)
            BY <2>1 DEF GrantsFrom
        <3>2. CASE w \in ApiKeys \/ w \in DOMAIN map \/ w \notin DOMAIN logins
            <4>1. QueueOf(w)' = QueueOf(w)
                BY <1>1, <1>4, <2>1, <3>2 DEF QueueOf, Lookup
            <4> QED BY <3>1, <4>1 DEF RateInv, QueuesKnow
        <3>3. CASE w \notin ApiKeys /\ w \notin DOMAIN map /\ w \in DOMAIN logins
            <4>1. QueueOf(w)' = <<>> /\ GrantsFrom(w, T) = {}
                BY <1>7, <2>1, <3>3 DEF QueueOf
            <4>2. EndsWith(<<>>, 0, T)
                BY DEF EndsWith
            <4> QED BY <3>1, <4>1, <4>2, FS_EmptySet
        <3> QED BY <3>2, <3>3
    <2> QED BY <2>2, <2>3, <2>4 DEF RateInv
<1>9. CASE n \in DOMAIN map \/ ~(Cardinality(DOMAIN map) >= MaxRateEntries)
    <2>1. PICK left \in Seq(Moments) : left = AfterAllow(q, LoginLimit) /\ \A i \in DOMAIN left : left[i] <= time
        BY <1>t, <1>4, <1>5, AllowQueue
    <2>2. PICK e \in [events : Seq(Moments), last_seen : Moments] : e = [events |-> left, last_seen |-> time]
        BY <1>t
    <2>3. /\ logins' = Entry(map, n, e)
          /\ IF window_allow(q, LoginLimit) THEN Granted(n, LoginLimit) ELSE UNCHANGED grants
        BY <1>m, <1>6, <1>9, <2>1, <2>2 DEF check_login
    <2>4. /\ DOMAIN logins' = DOMAIN map \cup {n} /\ logins'[n] = e
          /\ \A x \in DOMAIN map : x # n => logins'[x] = logins[x]
        BY <1>1, <2>3 DEF Entry
    <2>5. /\ IsFiniteSet(DOMAIN logins') /\ Cardinality(DOMAIN logins') <= MaxRateEntries
        <3>1. PICK D : D = DOMAIN map
            OBVIOUS
        <3>2. IsFiniteSet(D \cup {n}) /\ Cardinality(D \cup {n}) = IF n \in D THEN Cardinality(D) ELSE Cardinality(D) + 1
            BY <1>2, <3>1, FS_AddElement
        <3>3. Cardinality(D \cup {n}) <= MaxRateEntries
            BY <1>2, <1>9, <3>1, <3>2
        <3> QED BY <2>4, <3>1, <3>2, <3>3
    <2>6. RateTypeOK'
        <3>1. logins' \in [DOMAIN logins' -> [events : Seq(0 .. MaxTime), last_seen : 0 .. MaxTime]]
            BY <1>1, <2>2, <2>3 DEF Entry, Moments
        <3>2. DOMAIN logins' \subseteq LoginNames
            BY <1>1, <2>4 DEF RateInv, RateTypeOK
        <3> QED BY <1>4, <2>5, <3>1, <3>2 DEF RateInv, RateTypeOK
    <2>7. QueuesOrdered'
        <3>1. ASSUME NEW x \in DOMAIN logins'
              PROVE  logins'[x].last_seen <= time /\ \A i \in DOMAIN logins'[x].events : logins'[x].events[i] <= logins'[x].last_seen
            <4>1. CASE x = n
                BY <1>t, <2>1, <2>2, <2>4, <4>1
            <4>2. CASE x # n
                BY <1>1, <2>4, <4>2 DEF RateInv, QueuesOrdered
            <4> QED BY <4>1, <4>2
        <3> QED BY <1>4, <3>1 DEF RateInv, QueuesOrdered
    <2>8. GrantsTyped' /\ WindowBound' /\ QueuesKnow'
        <3>1. QueueOf(n)' = left
            BY <1>t, <2>2, <2>4 DEF QueueOf
        <3>2. ASSUME NEW w \in ApiKeys \cup LoginNames, w # n
              PROVE  \/ QueueOf(w)' = QueueOf(w)
                     \/ /\ QueueOf(w)' = <<>>
                        /\ \A T \in Int : T >= time - Window => GrantsFrom(w, T) = {}
            <4>1. CASE w \in ApiKeys \/ w \in DOMAIN map \/ w \notin DOMAIN logins
                BY <1>1, <1>4, <2>4, <3>2, <4>1 DEF QueueOf, Lookup
            <4>2. CASE w \notin ApiKeys /\ w \notin DOMAIN map /\ w \in DOMAIN logins
                <5>1. QueueOf(w)' = <<>>
                    BY <2>4, <3>2, <4>2 DEF QueueOf
                <5> QED BY <1>7, <4>2, <5>1
            <4> QED BY <4>1, <4>2
        <3> QED BY <1>t, <1>4, <1>5, <2>1, <2>3, <3>1, <3>2, CheckKnows
    <2> QED BY <2>5, <2>6, <2>7, <2>8 DEF RateInv
<1> QED BY <1>8, <1>9

\* Every step keeps the grants that count in the queues.
LEMMA RateStep == RateInv /\ [RateNext]_rateVars => RateInv'
<1> SUFFICES ASSUME RateInv, [RateNext]_rateVars PROVE RateInv'
    OBVIOUS
<1> USE RateNats
<1>t. time \in Nat
    BY DEF RateInv, RateTypeOK
<1>1. CASE RateTick
    <2>1. time' = time + 1 /\ time' \in 0 .. MaxTime /\ rpm' = rpm /\ windows' = windows /\ logins' = logins /\ grants' = grants
        BY <1>t, <1>1 DEF RateTick
    <2>2. RateTypeOK' /\ GrantsTyped' /\ WindowBound' /\ IsFiniteSet(DOMAIN logins')
        BY <1>t, <2>1 DEF RateInv, RateTypeOK, GrantsTyped, WindowBound
    <2>3. QueuesKnow'
        <3> SUFFICES ASSUME NEW w \in ApiKeys \cup LoginNames, NEW T \in Int, T >= time' - Window
                     PROVE  EndsWith(QueueOf(w)', Cardinality(GrantsFrom(w, T)'), T)
            BY DEF QueuesKnow
        <3>1. T >= time - Window /\ QueueOf(w)' = QueueOf(w) /\ GrantsFrom(w, T)' = GrantsFrom(w, T)
            BY <1>t, <2>1 DEF QueueOf, GrantsFrom
        <3> QED BY <3>1 DEF RateInv, QueuesKnow
    <2>4. QueuesOrdered'
        <3>1. ASSUME NEW k \in DOMAIN windows, NEW i \in DOMAIN windows[k] PROVE windows[k][i] <= time + 1
            <4>1. windows[k] \in Seq(Moments)
                BY DEF RateInv, RateTypeOK, Moments
            <4>2. windows[k][i] \in Nat /\ windows[k][i] <= time
                BY <4>1 DEF RateInv, QueuesOrdered, Moments
            <4> QED BY <1>t, <4>2
        <3>2. ASSUME NEW n \in DOMAIN logins PROVE logins[n].last_seen <= time + 1
            <4>1. logins[n].last_seen \in Nat /\ logins[n].last_seen <= time
                BY DEF RateInv, RateTypeOK, QueuesOrdered
            <4> QED BY <1>t, <4>1
        <3> QED BY <2>1, <3>1, <3>2 DEF RateInv, QueuesOrdered
    <2> QED BY <2>2, <2>3, <2>4 DEF RateInv
<1>2. ASSUME NEW k \in ApiKeys, SetRpm(k) PROVE RateInv'
    <2>1. time' = time /\ windows' = windows /\ logins' = logins /\ grants' = grants /\ rpm' \in [ApiKeys -> Rpms \cup {NoRpm}]
        BY <1>2 DEF SetRpm, RateInv, RateTypeOK
    <2> QED BY <2>1 DEF RateInv, RateTypeOK, GrantsTyped, WindowBound, QueuesKnow, QueuesOrdered, QueueOf, GrantsFrom
<1>3. CASE UNCHANGED rateVars
    <2>1. time' = time /\ windows' = windows /\ logins' = logins /\ grants' = grants /\ rpm' = rpm
        BY <1>3 DEF rateVars
    <2> QED BY <2>1 DEF RateInv, RateTypeOK, GrantsTyped, WindowBound, QueuesKnow, QueuesOrdered, QueueOf, GrantsFrom
<1> QED BY <1>1, <1>2, <1>3, RpmStep, RemoveStep, LoginStep DEF RateNext

\* The headers count every event that a check would count, but for one that is exactly Window old.
LEMMA HeadersAreHonest == RateInv => HeaderHonest
<1> SUFFICES ASSUME RateInv PROVE HeaderHonest
    OBVIOUS
<1> SUFFICES ASSUME NEW k \in ApiKeys, NEW q, q = Lookup(windows, k, <<>>), EffectiveRpm(k) > 0,
                    \A i \in DOMAIN q : time - q[i] # Window
             PROVE  \/ Len(Live(q)) + rpm_status(k) <= EffectiveRpm(k)
                    \/ Len(Live(q)) >= EffectiveRpm(k) /\ rpm_status(k) = 0
    <2>1. ASSUME NEW k \in ApiKeys PROVE EffectiveRpm(k) \in Int
        BY RateNats, RateAssumption DEF EffectiveRpm, RateInv, RateTypeOK, NoRpm
    <2> QED BY <2>1 DEF HeaderHonest
<1> USE RateNats
<1>t. time \in Nat
    BY DEF RateInv, RateTypeOK
<1>1. q \in Seq(Moments) /\ Len(q) \in Nat /\ InOrder(q) /\ \A i \in DOMAIN q : q[i] \in Nat
    <2>1. q \in Seq(Moments) /\ InOrder(q)
        <3>1. CASE k \in DOMAIN windows
            BY <3>1 DEF RateInv, RateTypeOK, QueuesOrdered, Lookup, Moments
        <3>2. CASE k \notin DOMAIN windows
            BY <3>2 DEF Lookup, InOrder
        <3> QED BY <3>1, <3>2
    <2> QED BY <2>1 DEF Moments
<1>2. PICK limit \in Nat : limit = EffectiveRpm(k)
    BY RateAssumption DEF EffectiveRpm, RateInv, RateTypeOK, NoRpm
<1>3. PICK f \in 1 .. Len(q) + 1 : f = FirstLive(q) /\ (f <= Len(q) => time - q[f] <= Window)
    BY <1>t, <1>1, FirstLiveIs
<1>4. Len(Live(q)) = Len(q) - f + 1
    BY <1>t, <1>1, <1>3, LiveIs
<1>5. PICK counted : counted = {i \in DOMAIN q : time - q[i] < Window}
    OBVIOUS
<1>6. f .. Len(q) \subseteq counted
    <2> SUFFICES ASSUME NEW i \in f .. Len(q) PROVE i \in counted
        OBVIOUS
    <2>1. i \in DOMAIN q /\ f \in DOMAIN q /\ f <= i /\ f <= Len(q)
        BY <1>1, <1>3
    <2>2. q[f] <= q[i] /\ q[f] \in Nat /\ q[i] \in Nat /\ time - q[i] # Window
        BY <1>1, <2>1 DEF InOrder
    <2>3. time - q[i] < Window
        BY <1>t, <1>3, <2>1, <2>2
    <2> QED BY <1>5, <2>1, <2>3
<1>7. PICK used \in Nat : used = Cardinality(counted) /\ Len(q) - f + 1 <= used
    <2>0. PICK len \in Int : len = Len(q)
        BY <1>1
    <2>f. f \in Int
        BY <1>1, <1>3
    <2>1. IsFiniteSet(1 .. Len(q)) /\ counted \subseteq 1 .. Len(q)
        <3>1. 1 \in Int
            OBVIOUS
        <3>2. IsFiniteSet(1 .. len)
            BY <3>1, FS_Interval
        <3>3. DOMAIN q = 1 .. Len(q)
            BY <1>1
        <3> QED BY <1>5, <2>0, <3>2, <3>3
    <2>2. IsFiniteSet(counted) /\ Cardinality(counted) \in Nat
        BY <2>1, FS_Subset, FS_CardinalityType
    <2>3. IsFiniteSet(f .. Len(q)) /\ Cardinality(f .. Len(q)) = IF f > Len(q) THEN 0 ELSE Len(q) - f + 1
        BY <2>0, <2>f, FS_Interval
    <2>4. Cardinality(f .. Len(q)) <= Cardinality(counted)
        BY <1>6, <2>2, FS_Subset
    <2> QED BY <1>1, <1>3, <2>2, <2>3, <2>4
<1>8. rpm_status(k) = IF limit > used THEN limit - used ELSE 0
    BY <1>2, <1>5, <1>7 DEF rpm_status
<1> QED BY <1>1, <1>2, <1>3, <1>4, <1>7, <1>8

\* In every window the grants of a key or a name are within the limit in force, whatever the
\* administrator edits, whichever idle names are evicted, in a table that never outgrows its
\* bound; and the headers promise no request that would be refused.
THEOREM LimitsAreExact == RateSpec => []LimitsExact
<1>1. RateInv => LimitsExact
    BY HeadersAreHonest DEF RateInv, LimitsExact
<1> QED BY <1>1, RateStarts, RateStep, PTL DEF RateSpec

-----------------------------------------------------------------------------
(* The meter of a stream.                                                    *)

IrUsages == [prompt : Nat, completion : Nat, cache_read : Nat, cache_write : Nat, reasoning : Nat]
Bills == [prompt : Nat, completion : Nat, read : Nat, write : Nat]
EventKinds ==
    {"message_start", "message_delta", "message_stop", "delta", "chunk", "done", "completed", "incomplete", "failed", "error"}
MeterEvents == [k : EventKinds, use : {<<>>} \cup {<<u>> : u \in UsageReports}]
Pieces == [e : MeterEvents, h : {1, 2}]

Below(a, b) == a.prompt <= b.prompt /\ a.completion <= b.completion /\ a.read <= b.read /\ a.write <= b.write

\* What the upstream has reported so far, and what has been sent and not been cut off.
ReportOf(s) == IF s.last = <<>> THEN Unbilled ELSE Due(s.last[1])
Reported == ReportOf(source)
Sent == text \o pipe

\* An event claims no more than due, and the first one has the input of the answer.
FairEvent(e, owed) == e \in MeterEvents /\ (e.use # <<>> => Below(extract_json_usage(LineClient, e.use[1]), owed))
TrueStart(e) ==
    LineClient = "anthropic" /\ e.k = "message_start" =>
        LET x == extract_json_usage("anthropic", e.use[1])
        IN  /\ e.use # <<>> /\ x.write = Due(total).write
            /\ LineUp \in {"chat", "responses"} \/ (x.prompt = Due(total).prompt /\ x.read = Due(total).read)

\* The events that the reader takes the figures of the whole answer from.
FinalKinds ==
    CASE LineClient = "anthropic" -> {"message_delta"} [] LineClient = "responses" -> {"completed"} [] OTHER -> {"chunk"}
Counts(e) == e.k \in FinalKinds /\ e.use # <<>>
FinalEvent(e) ==
    LET x == extract_json_usage(LineClient, e.use[1])
    IN  /\ Counts(e) /\ x.completion = Due(total).completion
        /\ LineClient # "anthropic" => x.prompt = Due(total).prompt /\ x.read = Due(total).read /\ x.write = 0

\* The figures are among the last events of what was sent.
DoneOf(s) == s.fin \in {"stop", "length"} /\ s.last # <<>>
Done == DoneOf(source)
CutAnswer == LineClient = "responses" /\ source.fin = "length"
FiguresLast(s, slack) ==
    \E i \in 1 .. Len(s) : /\ i >= Len(s) - slack /\ s[i].h = 1 /\ FinalEvent(s[i].e)
                           /\ \A j \in i + 1 .. Len(s) : s[j].h = 1 => ~Counts(s[j].e)

\* Pieces of fair events, and a text of them that ends with a whole one.
FairPieces(s, owed) == s \in Seq(Pieces) /\ \A i \in 1 .. Len(s) : FairEvent(s[i].e, owed) /\ TrueStart(s[i].e)
FairText(s, owed) == FairPieces(s, owed) /\ (s # <<>> => s[Len(s)].h = 2)

\* What was sent, with t in the text and q in the pipe, while the upstream is at s.
SentRight(t, q, s) ==
    /\ t \in Seq(Pieces) /\ q \in Seq(Pieces) /\ Len(t) <= TextMax
    /\ Len(q) \in IF Passthrough THEN {0, 1, 2} ELSE {0, 2, 4}
    /\ FairText(t \o q, ReportOf(s))
    /\ DoneOf(s) => \/ LineClient = "responses" /\ s.fin = "length"
                    \/ FiguresLast(t \o q, IF s.over = "no" THEN 1 ELSE 3)
SentOK == SentRight(text, pipe, source)

AnthropicSeen == [prompt |-> total.input, completion |-> 0, cache_read |-> total.cached, cache_write |-> total.write, reasoning |-> 0]
IrBill(u) == [prompt |-> u.prompt, completion |-> u.completion, read |-> u.cache_read, write |-> u.cache_write]

OptionalUsages == {<<>>} \cup {<<u>> : u \in IrUsages}
Meters ==
    [seen : IrUsages, started : BOOLEAN, pend : {"none", "stop", "length"}, use : OptionalUsages, ended : BOOLEAN]

\* An optional usage within due.
Within(use, owed) == use \in OptionalUsages /\ (use # <<>> => Below(IrBill(use[1]), owed))

Sources ==
    [deltas : -1 .. MaxDeltas, said : Nat, last : {<<>>} \cup {<<u>> : u \in UsageReports},
     fin : {"none", "stop", "length", "failed"}, over : {"no", "eof", "broken"}]

\* What an upstream has said at any time.
SourceRight(s) ==
    /\ s \in Sources
    /\ s.fin # "none" => s.deltas >= 0
    /\ s.said <= total.output
    /\ DoneOf(s) => s.last = <<total>>
    /\ s.fin = "failed" => LineUp \in {"anthropic", "responses"}
    /\ s.fin \in {"none", "failed"} =>
        s.last = IF s.deltas >= 0 /\ LineUp \in {"gemini", "anthropic"} THEN <<SoFar(s.said)>> ELSE <<>>
    /\ LineUp # "gemini" => s.said = 0
    /\ s.fin \in {"stop", "length"} /\ s.last = <<>> => LineUp = "chat"
SourceOK == SourceRight(source)

\* What a converter that sits between the two remembers.
MeterRight(m, s) ==
    /\ m \in Meters /\ Within(m.use, ReportOf(s)) /\ (s.last = <<>> => m.use = <<>>)
    /\ LineUp = "anthropic" /\ s.deltas >= 0 /\ s.fin = "none" => m.seen = AnthropicSeen
    /\ LineClient \in {"anthropic", "responses"} =>
        /\ m.started <=> s.deltas >= 0
        /\ s.fin = "none" => m.pend = "none" /\ ~m.ended
        /\ s.fin \in {"stop", "length"} /\ s.last = <<>> => m.pend = s.fin /\ ~m.ended
        /\ DoneOf(s) => m.ended
MeterOK == ~Passthrough => MeterRight(meter, source)

TotalOK ==
    /\ line \in MeterPairs /\ total \in MeterTotals
    /\ total.write > 0 => LineUp = "anthropic"
    /\ LineUp \in {"chat", "responses"} => total.thoughts <= total.output

BillOK == bill = <<>> \/ bill = <<extract_sse_usage(LineClient, text)>>

MeterInv == TotalOK /\ SourceOK /\ MeterOK /\ SentOK /\ BillOK

-----------------------------------------------------------------------------
(* Figures.                                                                  *)

\* The protocols and the figures are the known ones.
LEMMA Protocols ==
    ASSUME TotalOK
    PROVE  LineUp \in MeterProtocols /\ LineClient \in MeterProtocols /\ total \in UsageReports
BY MeterAssumption DEF TotalOK, LineUp, LineClient

\* An event in the protocol of the upstream is read as what is due for it.
LEMMA ReadAsDue ==
    ASSUME LineUp \in MeterProtocols, NEW u \in UsageReports
    PROVE  extract_json_usage(LineUp, u) = Due(u) /\ Due(u) \in Bills
BY DEF extract_json_usage, Due, Bill, SatSub, uncached_prompt, Bills, UsageReports, MeterProtocols

\* The common form has what is due.
LEMMA ParsedAsDue ==
    ASSUME LineUp \in MeterProtocols, NEW u \in UsageReports, LineUp \in {"chat", "responses"} => u.thoughts <= u.output
    PROVE  /\ parse_usage(LineUp, u) \in IrUsages /\ IrBill(parse_usage(LineUp, u)) = Due(u)
           /\ parse_usage(LineUp, u).reasoning <= parse_usage(LineUp, u).completion
<1> DEFINE w == parse_usage(LineUp, u)
<1>1. CASE LineUp \in {"chat", "responses"}
    <2>1. w = [prompt |-> SatSub(u.input, u.cached), completion |-> u.output, cache_read |-> u.cached, cache_write |-> 0, reasoning |-> u.thoughts]
        BY <1>1 DEF parse_usage, openai_parse_usage, responses_parse_usage
    <2> HIDE DEF w
    <2>2. w \in IrUsages /\ w.reasoning <= w.completion
        BY <1>1, <2>1 DEF IrUsages, SatSub, UsageReports
    <2>3. IrBill(w) = Due(u)
        BY <1>1, <2>1 DEF IrBill, Due, Bill
    <2> QED BY <2>2, <2>3 DEF w
<1>2. CASE LineUp = "anthropic"
    <2>1. w = [prompt |-> u.input, completion |-> u.output, cache_read |-> u.cached, cache_write |-> u.write, reasoning |-> 0]
        BY <1>2 DEF parse_usage, anthropic_parse_usage
    <2> HIDE DEF w
    <2>2. w \in IrUsages /\ w.reasoning <= w.completion
        BY <1>2, <2>1 DEF IrUsages, UsageReports
    <2>3. IrBill(w) = Due(u)
        BY <1>2, <2>1 DEF IrBill, Due, Bill
    <2> QED BY <2>2, <2>3 DEF w
<1>3. CASE LineUp = "gemini"
    <2>1. w = [prompt |-> SatSub(u.input, u.cached), completion |-> u.output + u.thoughts, cache_read |-> u.cached, cache_write |-> 0, reasoning |-> u.thoughts]
        BY <1>3 DEF parse_usage, gemini_parse_usage
    <2> HIDE DEF w
    <2>2. w \in IrUsages /\ w.reasoning <= w.completion
        BY <1>3, <2>1 DEF IrUsages, SatSub, UsageReports
    <2>3. IrBill(w) = Due(u)
        BY <1>3, <2>1 DEF IrBill, Due, Bill
    <2> QED BY <2>2, <2>3 DEF w
<1> QED BY <1>1, <1>2, <1>3 DEF MeterProtocols

\* What a client is told is read back as it was.
LEMMA ToldIsRead ==
    ASSUME LineClient \in MeterProtocols, NEW w \in IrUsages, LineClient = "gemini" => w.reasoning <= w.completion
    PROVE  /\ usage_from_ir(LineClient, w) \in UsageReports
           /\ extract_json_usage(LineClient, usage_from_ir(LineClient, w)) =
                [prompt |-> w.prompt, completion |-> w.completion, read |-> w.cache_read,
                 write |-> IF LineClient = "anthropic" THEN w.cache_write ELSE 0]
<1> DEFINE u == usage_from_ir(LineClient, w)
           x == extract_json_usage(LineClient, u)
<1>0. w.prompt \in Nat /\ w.completion \in Nat /\ w.cache_read \in Nat /\ w.cache_write \in Nat /\ w.reasoning \in Nat
    BY DEF IrUsages
<1>1. CASE LineClient \in {"chat", "responses"}
    <2>1. u = [input |-> w.prompt + w.cache_read, cached |-> w.cache_read, output |-> w.completion, thoughts |-> w.reasoning,
               write |-> 0, recorded |-> w.cache_write > 0]
        BY <1>1 DEF usage_from_ir, openai_usage, responses_usage, Usage
    <2> HIDE DEF u
    <2>2. u \in UsageReports
        BY <1>0, <2>1 DEF UsageReports
    <2>3. x = [prompt |-> SatSub(w.prompt + w.cache_read, w.cache_read), completion |-> w.completion, read |-> w.cache_read, write |-> 0]
        BY <1>1, <2>1 DEF extract_json_usage, uncached_prompt
    <2>4. SatSub(w.prompt + w.cache_read, w.cache_read) = w.prompt
        BY <1>0 DEF SatSub
    <2> QED BY <1>1, <2>2, <2>3, <2>4 DEF u
<1>2. CASE LineClient = "anthropic"
    <2>1. u = [input |-> w.prompt, cached |-> w.cache_read, output |-> w.completion, thoughts |-> 0,
               write |-> w.cache_write, recorded |-> FALSE]
        BY <1>2 DEF usage_from_ir, usage_to_anthropic, Usage
    <2> HIDE DEF u
    <2>2. u \in UsageReports
        BY <1>0, <2>1 DEF UsageReports
    <2>3. x = [prompt |-> w.prompt, completion |-> w.completion, read |-> w.cache_read, write |-> w.cache_write]
        BY <1>2, <2>1 DEF extract_json_usage
    <2> QED BY <1>2, <2>2, <2>3 DEF u
<1>3. CASE LineClient = "gemini"
    <2>1. u = [input |-> w.prompt + w.cache_read, cached |-> w.cache_read, output |-> SatSub(w.completion, w.reasoning),
               thoughts |-> w.reasoning, write |-> 0, recorded |-> w.cache_write > 0]
        BY <1>3 DEF usage_from_ir, usage_metadata_to_json, Usage
    <2> HIDE DEF u
    <2>2. u \in UsageReports
        BY <1>0, <2>1 DEF UsageReports, SatSub
    <2>3. x = [prompt |-> SatSub(w.prompt + w.cache_read, w.cache_read), completion |-> SatSub(w.completion, w.reasoning) + w.reasoning,
               read |-> w.cache_read, write |-> 0]
        BY <1>3, <2>1 DEF extract_json_usage, uncached_prompt
    <2>4. SatSub(w.prompt + w.cache_read, w.cache_read) = w.prompt /\ SatSub(w.completion, w.reasoning) + w.reasoning = w.completion
        BY <1>0, <1>3 DEF SatSub
    <2> QED BY <1>3, <2>2, <2>3, <2>4 DEF u
<1> QED BY <1>1, <1>2, <1>3 DEF MeterProtocols

\* What the upstream says on the way is below what it says in the end.
LEMMA SoFarIs ==
    ASSUME TotalOK, NEW n \in Nat, n <= total.output
    PROVE  /\ SoFar(n) \in UsageReports /\ Below(Due(SoFar(n)), Due(total))
           /\ Due(SoFar(n)).prompt = Due(total).prompt /\ Due(SoFar(n)).read = Due(total).read
           /\ Due(SoFar(n)).write = Due(total).write
           /\ LineUp \in {"chat", "responses"} => Due(SoFar(n)).write = 0
           /\ \A k \in Nat : n <= k /\ k <= total.output => Below(Due(SoFar(n)), Due(SoFar(k)))
<1>1. /\ total.input \in Nat /\ total.cached \in Nat /\ total.output \in Nat /\ total.thoughts \in Nat /\ total.write \in Nat
    BY Protocols DEF UsageReports
<1>2. ASSUME NEW k \in Nat
      PROVE  /\ SoFar(k) = [input |-> total.input, cached |-> total.cached, output |-> k,
                            thoughts |-> IF k = total.output THEN total.thoughts ELSE 0, write |-> total.write, recorded |-> FALSE]
             /\ SoFar(k) \in UsageReports
    BY <1>1 DEF SoFar, Usage, UsageReports
<1>3. ASSUME NEW k \in Nat
      PROVE  /\ Due(SoFar(k)).prompt = Due(total).prompt /\ Due(SoFar(k)).read = Due(total).read /\ Due(SoFar(k)).write = Due(total).write
             /\ Due(SoFar(k)).completion = IF LineUp = "gemini" THEN k + (IF k = total.output THEN total.thoughts ELSE 0) ELSE k
             /\ Due(SoFar(k)) \in Bills
    BY <1>1, <1>2, Protocols, ReadAsDue DEF Due, Bill
<1>4. /\ Due(total).completion = IF LineUp = "gemini" THEN total.output + total.thoughts ELSE total.output
      /\ Due(total) \in Bills /\ (LineUp # "anthropic" => Due(total).write = 0)
    BY Protocols, ReadAsDue DEF Due, Bill
<1>5. /\ Due(SoFar(n)).prompt \in Nat /\ Due(SoFar(n)).read \in Nat /\ Due(SoFar(n)).write \in Nat
    BY <1>3 DEF Bills
<1>6. Below(Due(SoFar(n)), Due(total))
    BY <1>1, <1>3, <1>4, <1>5 DEF Below
<1>7. ASSUME NEW k \in Nat, n <= k, k <= total.output PROVE Below(Due(SoFar(n)), Due(SoFar(k)))
    BY <1>1, <1>3, <1>5, <1>7 DEF Below
<1> QED BY <1>2, <1>3, <1>4, <1>6, <1>7

-----------------------------------------------------------------------------
(* What was sent.                                                            *)

\* One sequence after another.
LEMMA Joined ==
    ASSUME NEW R, NEW a \in Seq(R), NEW b \in Seq(R), NEW i \in Nat, NEW j \in Nat, i = Len(a), j = Len(b)
    PROVE  /\ a \o b \in Seq(R) /\ Len(a \o b) = i + j
           /\ \A k \in 1 .. i : (a \o b)[k] = a[k]
           /\ \A k \in 1 .. j : (a \o b)[i + k] = b[k]
<1> DEFINE s == a \o b
<1>1. s \in Seq(R) /\ Len(s) = i + j /\ \A k \in 1 .. i + j : s[k] = IF k <= i THEN a[k] ELSE b[k - i]
    OBVIOUS
<1> HIDE DEF s
<1>2. \A k \in 1 .. i : s[k] = a[k]
    BY <1>1
<1>3. ASSUME NEW k \in 1 .. j PROVE s[i + k] = b[k]
    <2>1. i + k \in 1 .. i + j /\ ~(i + k <= i) /\ (i + k) - i = k
        OBVIOUS
    <2> QED BY <1>1, <2>1
<1> QED BY <1>1, <1>2, <1>3 DEF s

\* Events cut in halves.
LEMMA HalvesAre ==
    ASSUME NEW ev \in Seq(MeterEvents)
    PROVE  /\ Halves(ev) \in Seq(Pieces) /\ Len(Halves(ev)) = 2 * Len(ev)
           /\ \A i \in 1 .. 2 * Len(ev) : \E j \in 1 .. Len(ev) : Halves(ev)[i].e = ev[j]
           /\ Len(ev) > 0 => /\ Halves(ev)[2 * Len(ev)].h = 2 /\ Halves(ev)[2 * Len(ev) - 1].h = 1
                             /\ Halves(ev)[2 * Len(ev) - 1].e = ev[Len(ev)]
<1>1. PICK n \in Nat : n = Len(ev)
    OBVIOUS
<1> DEFINE H == [i \in 1 .. 2 * n |-> [e |-> ev[(i + 1) \div 2], h |-> IF i % 2 = 1 THEN 1 ELSE 2]]
<1>2. Halves(ev) = H
    BY <1>1 DEF Halves
<1>3. ASSUME NEW i \in 1 .. 2 * n PROVE (i + 1) \div 2 \in 1 .. n
    OBVIOUS
<1>4. ASSUME NEW i \in 1 .. 2 * n PROVE /\ H[i].e = ev[(i + 1) \div 2] /\ H[i] \in Pieces
                                        /\ i % 2 = 1 => H[i].h = 1
                                        /\ i % 2 # 1 => H[i].h = 2
    <2>1. H[i] = [e |-> ev[(i + 1) \div 2], h |-> IF i % 2 = 1 THEN 1 ELSE 2]
        OBVIOUS
    <2>2. ev[(i + 1) \div 2] \in MeterEvents
        BY <1>1, <1>3
    <2> QED BY <2>1, <2>2 DEF Pieces
<1>5. H \in [1 .. 2 * n -> Pieces] /\ 2 * n \in Nat
    BY <1>4
<1>6. DOMAIN H = 1 .. 2 * n
    OBVIOUS
<1> HIDE DEF H
<1>7. H \in Seq(Pieces) /\ Len(H) = 2 * n
    BY <1>5, <1>6
<1>8. ASSUME NEW i \in 1 .. 2 * n PROVE \E j \in 1 .. n : H[i].e = ev[j]
    <2>1. PICK j \in 1 .. n : j = (i + 1) \div 2
        BY <1>3, Zenon
    <2>2. H[i].e = ev[j]
        BY <1>4, <2>1, Zenon
    <2> QED BY <2>2
<1>9. ASSUME n > 0 PROVE H[2 * n].h = 2 /\ H[2 * n - 1].h = 1 /\ H[2 * n - 1].e = ev[n]
    <2> DEFINE a == 2 * n
               b == 2 * n - 1
    <2>1. a \in 1 .. 2 * n /\ b \in 1 .. 2 * n
        BY <1>9
    <2>2. a % 2 # 1 /\ b % 2 = 1 /\ (b + 1) \div 2 = n
        BY <1>9
    <2> HIDE DEF a, b
    <2>3. H[a].h = 2
        BY <1>4, <2>1, <2>2, Zenon
    <2>4. H[b].h = 1 /\ H[b].e = ev[n]
        BY <1>4, <2>1, <2>2, Zenon
    <2> QED BY <2>3, <2>4 DEF a, b
<1> QED BY <1>1, <1>2, <1>7, <1>8, <1>9

\* What is sent next is fair, and ends with the figures if the answer is done.
EventsOK(ev, owed, done) ==
    /\ ev \in Seq(MeterEvents) /\ Len(ev) <= 2
    /\ \A i \in 1 .. Len(ev) : FairEvent(ev[i], owed) /\ TrueStart(ev[i])
    /\ done => Len(ev) > 0 /\ FinalEvent(ev[Len(ev)])

\* A report that grows leaves what was fair fair.
LEMMA FairGrows ==
    ASSUME NEW a \in Bills, NEW b \in Bills, Below(a, b), NEW s, FairText(s, a), LineClient \in MeterProtocols
    PROVE  FairText(s, b)
<1>1. ASSUME NEW e, FairEvent(e, a) PROVE FairEvent(e, b)
    <2>1. CASE e.use = <<>>
        BY <1>1, <2>1 DEF FairEvent
    <2>2. CASE e.use # <<>>
        <3>1. PICK u \in UsageReports : e.use = <<u>>
            BY <1>1, <2>2 DEF FairEvent, MeterEvents
        <3> DEFINE x == extract_json_usage(LineClient, u)
        <3>2. x \in Bills
            BY DEF extract_json_usage, SatSub, uncached_prompt, Bills, UsageReports, MeterProtocols
        <3>3. Below(x, a) /\ e \in MeterEvents /\ e.use[1] = u
            BY <1>1, <2>2, <3>1 DEF FairEvent
        <3> HIDE DEF x
        <3>4. Below(x, b)
            BY <3>2, <3>3 DEF Below, Bills
        <3> QED BY <3>3, <3>4 DEF FairEvent, x
    <2> QED BY <2>1, <2>2
<1> QED BY <1>1 DEF FairText, FairPieces

\* So is a text that grows by fair events.
LEMMA TextGrows ==
    ASSUME NEW s, NEW owed, FairText(s, owed), NEW ev, NEW done, EventsOK(ev, owed, done)
    PROVE  /\ FairText(s \o Halves(ev), owed)
           /\ done => FiguresLast(s \o Halves(ev), 1)
<1>1. PICK m \in Nat, n \in Nat : m = Len(s) /\ n = Len(ev)
    BY DEF FairText, FairPieces, EventsOK
<1> DEFINE H == Halves(ev)
           t == s \o H
<1>2. /\ H \in Seq(Pieces) /\ Len(H) = 2 * n /\ \A i \in 1 .. 2 * n : \E j \in 1 .. n : H[i].e = ev[j]
      /\ n > 0 => H[2 * n].h = 2 /\ H[2 * n - 1].h = 1 /\ H[2 * n - 1].e = ev[n]
    BY <1>1, HalvesAre DEF EventsOK
<1>3. s \in Seq(Pieces)
    BY DEF FairText, FairPieces
<1> HIDE DEF H
<1>4. /\ t \in Seq(Pieces) /\ Len(t) = m + 2 * n
      /\ \A i \in 1 .. m : t[i] = s[i]
      /\ \A i \in 1 .. 2 * n : t[m + i] = H[i]
    <2>1. PICK k \in Nat : k = 2 * n
        OBVIOUS
    <2>a. Len(H) = k /\ H \in Seq(Pieces)
        BY <1>2, <2>1
    <2>2. t \in Seq(Pieces) /\ Len(t) = m + k
        BY <1>1, <1>3, <2>a
    <2>3. \A i \in 1 .. m + k : t[i] = IF i <= m THEN s[i] ELSE H[i - m]
        BY <1>1, <1>3, <2>a
    <2> HIDE DEF t
    <2>4. \A i \in 1 .. m : t[i] = s[i]
        BY <2>3
    <2>5. ASSUME NEW i \in 1 .. k PROVE t[m + i] = H[i]
        BY <2>3, m + i \in 1 .. m + k, m + i > m, (m + i) - m = i
    <2> QED BY <2>1, <2>2, <2>4, <2>5
<1> HIDE DEF t
<1>5. t # <<>> => t[Len(t)].h = 2
    <2>1. CASE n > 0
        BY <1>2, <1>4, <2>1
    <2>2. CASE n = 0 /\ m > 0
        <3>1. s # <<>> /\ t[m] = s[m]
            BY <1>1, <1>4, <2>2
        <3> QED BY <1>1, <1>4, <2>2, <3>1 DEF FairText, FairPieces
    <2>3. CASE n = 0 /\ m = 0
        BY <1>4, <2>3
    <2> QED BY <1>1, <2>1, <2>2, <2>3
<1>6. ASSUME NEW i \in 1 .. Len(t) PROVE FairEvent(t[i].e, owed) /\ TrueStart(t[i].e)
    <2>1. CASE i <= m
        <3>1. i \in 1 .. m /\ t[i] = s[i]
            BY <1>4, <2>1
        <3>2. FairEvent(s[i].e, owed) /\ TrueStart(s[i].e)
            BY <1>1, <3>1 DEF FairText, FairPieces
        <3> QED BY <3>1, <3>2
    <2>2. CASE i > m
        <3>1. i - m \in 1 .. 2 * n /\ t[m + (i - m)] = H[i - m] /\ m + (i - m) = i
            BY <1>4, <2>2
        <3>2. PICK j \in 1 .. n : H[i - m].e = ev[j]
            BY <1>2, <3>1
        <3> QED BY <1>1, <3>1, <3>2 DEF EventsOK
    <2> QED BY <1>1, <1>4, <2>1, <2>2
<1>7. ASSUME done PROVE FiguresLast(t, 1)
    <2>1. n > 0 /\ FinalEvent(ev[n])
        BY <1>1, <1>7 DEF EventsOK
    <2> DEFINE i == m + (2 * n - 1)
    <2>a. PICK k \in Nat : k = 2 * n /\ k >= 2
        BY <2>1
    <2>b. Len(t) = m + k /\ i = m + (k - 1) /\ i \in Nat /\ t[m + k] = H[k] /\ t[i] = H[k - 1]
        BY <1>4, <2>a
    <2>c. H[k].h = 2 /\ H[k - 1].h = 1 /\ H[k - 1].e = ev[n]
        BY <1>2, <2>1, <2>a
    <2> HIDE DEF i
    <2>2. /\ i \in 1 .. Len(t) /\ i >= Len(t) - 1 /\ t[i].h = 1 /\ t[i].e = ev[n]
        BY <2>a, <2>b, <2>c
    <2>3. ASSUME NEW j \in i + 1 .. Len(t) PROVE t[j].h = 2
        <3>1. j = m + k
            BY <2>a, <2>b
        <3> QED BY <2>b, <2>c, <3>1
    <2> QED BY <2>1, <2>2, <2>3 DEF FiguresLast
<1> QED BY <1>4, <1>5, <1>6, <1>7 DEF FairText, FairPieces, t, H

\* S is T without its first d halves, of which TextMax are kept at least.
TailOf(S, T, d) ==
    /\ S \in Seq(Pieces) /\ Len(S) = Len(T) - d /\ (d = 0 \/ d + TextMax <= Len(T))
    /\ \A k \in 1 .. Len(S) : S[k] = T[k + d]

\* poll_next moves a piece from the pipe to the text, which may lose its front.
LEMMA PollMoves ==
    ASSUME NEW t \in Seq(Pieces), NEW q \in Seq(Pieces), NEW n \in Nat, n >= 1, n <= Len(q), Len(t) <= TextMax
    PROVE  LET a == append_chunk(t, SubSeq(q, 1, n))
               b == SubSeq(q, n + 1, Len(q))
           IN  /\ a \in Seq(Pieces) /\ b \in Seq(Pieces) /\ Len(a) <= TextMax /\ Len(b) = Len(q) - n
               /\ \E d \in Nat : TailOf(a \o b, t \o q, d)
<1>1. PICK m \in Nat, l \in Nat : m = Len(t) /\ l = Len(q)
    OBVIOUS
<1> DEFINE c == SubSeq(q, 1, n)
           b == SubSeq(q, n + 1, l)
           all == t \o c
<1>2. /\ c \in Seq(Pieces) /\ Len(c) = n /\ \A k \in 1 .. n : c[k] = q[k]
      /\ b \in Seq(Pieces) /\ Len(b) = l - n /\ \A k \in 1 .. l - n : b[k] = q[n + k]
    BY <1>1
<1> HIDE DEF c, b
<1>3. /\ all \in Seq(Pieces) /\ Len(all) = m + n
      /\ \A k \in 1 .. m : all[k] = t[k]
      /\ \A k \in 1 .. n : all[m + k] = c[k]
    <2>1. c \in Seq(Pieces) /\ n = Len(c) /\ m = Len(t)
        BY <1>1, <1>2
    <2> QED BY <2>1, Joined
<1>b. m + n \in Nat
    OBVIOUS
<1> HIDE DEF all
<1>4. PICK d \in Nat : d = IF m + n > TextMax THEN m + n - TextMax ELSE 0
    <2>1. TextMax \in Nat
        BY MeterAssumption
    <2>2. CASE m + n > TextMax
        BY <2>1, <2>2, m + n - TextMax \in Nat
    <2>3. CASE ~(m + n > TextMax)
        BY <2>3
    <2> QED BY <2>2, <2>3
<1> DEFINE a == SubSeq(all, d + 1, m + n)
<1>5. append_chunk(t, c) = a
    <2>1. append_chunk(t, c) = SubSeq(all, IF Len(all) > TextMax THEN Len(all) - TextMax + 1 ELSE 1, Len(all))
        BY DEF append_chunk, all
    <2>2. (IF Len(all) > TextMax THEN Len(all) - TextMax + 1 ELSE 1) = d + 1
        BY <1>3, <1>4, MeterAssumption
    <2> QED BY <1>3, <2>1, <2>2, Zenon
<1>6. d <= m + n /\ (d = 0 \/ d + TextMax = m + n) /\ m + n - d <= TextMax
    BY <1>4, MeterAssumption
<1>7. a \in Seq(Pieces) /\ Len(a) = m + n - d /\ \A k \in 1 .. m + n - d : a[k] = all[k + d]
    BY <1>3, <1>b, <1>6
<1> HIDE DEF a
<1> DEFINE S == a \o b
           T == t \o q
<1>8. PICK x \in Nat, y \in Nat : x + d = m + n /\ y + n = l
    <2>1. m + n - d \in Nat /\ l - n \in Nat
        BY <1>1, <1>6
    <2> QED BY <2>1
<1>a. Len(a) = x /\ Len(b) = y /\ (\A k \in 1 .. x : a[k] = all[k + d]) /\ (\A k \in 1 .. y : b[k] = q[n + k])
    BY <1>2, <1>7, <1>8
<1>9. S \in Seq(Pieces) /\ Len(S) = x + y /\ (\A k \in 1 .. x : S[k] = a[k]) /\ (\A k \in 1 .. y : S[x + k] = b[k])
    <2>1. a \in Seq(Pieces) /\ b \in Seq(Pieces) /\ x = Len(a) /\ y = Len(b)
        BY <1>2, <1>7, <1>a
    <2> QED BY <2>1, Joined
<1>10. T \in Seq(Pieces) /\ Len(T) = m + l /\ (\A k \in 1 .. m : T[k] = t[k]) /\ (\A k \in 1 .. l : T[m + k] = q[k])
    BY <1>1, Joined
<1> HIDE DEF S, T
<1>11. ASSUME NEW k \in 1 .. x + y PROVE S[k] = T[k + d]
    <2>1. CASE k <= x /\ k + d <= m
        <3>1. S[k] = all[k + d] /\ k + d \in 1 .. m
            BY <1>a, <1>9, <2>1
        <3> QED BY <1>3, <1>10, <3>1
    <2>2. CASE k <= x /\ k + d > m
        <3>1. PICK j \in 1 .. n : k + d = m + j
            <4>1. k + d - m \in 1 .. n
                BY <1>8, <2>2
            <4> QED BY <4>1
        <3>2. S[k] = all[m + j]
            <4>1. k \in 1 .. x
                BY <2>2
            <4>2. S[k] = all[k + d]
                BY <1>a, <1>9, <4>1, Zenon
            <4> QED BY <3>1, <4>2, Zenon
        <3>3. all[m + j] = q[j]
            BY <1>2, <1>3
        <3>4. j \in 1 .. l
            BY <1>1
        <3> QED BY <1>10, <3>1, <3>2, <3>3, <3>4
    <2>3. CASE k > x
        <3>1. PICK j \in 1 .. y : k = x + j
            <4>1. k - x \in 1 .. y
                BY <2>3
            <4> QED BY <4>1
        <3>2. S[k] = q[n + j]
            BY <1>a, <1>9, <3>1
        <3>3. n + j \in 1 .. l /\ k + d = m + (n + j)
            BY <1>8, <3>1
        <3> QED BY <1>10, <3>2, <3>3
    <2> QED BY <2>1, <2>2, <2>3
<1>12. TailOf(S, T, d)
    <2>1. x + y = (m + l) - d /\ (d = 0 \/ d + TextMax <= m + l)
        BY <1>1, <1>6, <1>8, MeterAssumption
    <2> QED BY <1>9, <1>10, <1>11, <2>1 DEF TailOf
<1>13. a \in Seq(Pieces) /\ b \in Seq(Pieces) /\ Len(a) <= TextMax /\ Len(b) = l - n
    BY <1>2, <1>6, <1>7
<1> QED BY <1>1, <1>5, <1>12, <1>13 DEF S, T, b, c

\* What follows the cut is as fair, and still ends with the figures.
LEMMA TailKeeps ==
    ASSUME NEW S, NEW T, NEW d \in Nat, NEW owed, TailOf(S, T, d), FairText(T, owed)
    PROVE  FairText(S, owed) /\ \A slack \in {1, 3} : FiguresLast(T, slack) => FiguresLast(S, slack)
<1>0. S \in Seq(Pieces) /\ T \in Seq(Pieces)
    BY DEF TailOf, FairText, FairPieces
<1>1. PICK x \in Nat, y \in Nat : x = Len(S) /\ y = Len(T)
    BY <1>0
<1>2. x = y - d /\ (d = 0 \/ d + TextMax <= y) /\ TextMax \in Nat /\ TextMax >= 4
    BY <1>1, MeterAssumption DEF TailOf
<1>3. \A k \in 1 .. x : S[k] = T[k + d] /\ k + d \in 1 .. y
    BY <1>1, <1>2 DEF TailOf
<1>4. S # <<>> => S[x].h = 2
    <2> SUFFICES ASSUME S # <<>> PROVE S[x].h = 2
        OBVIOUS
    <2>1. x > 0 /\ x + d = y
        BY <1>1, <1>2 DEF TailOf
    <2>2. T # <<>> /\ T[y].h = 2
        BY <1>1, <2>1 DEF FairText, FairPieces
    <2> QED BY <1>3, <2>1, <2>2
<1>5. FairText(S, owed)
    BY <1>1, <1>3, <1>4 DEF FairText, FairPieces, TailOf
<1>6. ASSUME NEW slack \in {1, 3}, FiguresLast(T, slack) PROVE FiguresLast(S, slack)
    <2>1. PICK i \in 1 .. y : /\ i >= y - slack /\ T[i].h = 1 /\ FinalEvent(T[i].e)
                              /\ \A j \in i + 1 .. y : T[j].h = 1 => ~Counts(T[j].e)
        BY <1>1, <1>6 DEF FiguresLast
    <2>2. PICK k \in 1 .. x : k + d = i
        <3>1. i - d \in 1 .. x
            BY <1>2, <2>1
        <3> QED BY <3>1
    <2>3. k >= x - slack /\ S[k].h = 1 /\ FinalEvent(S[k].e)
        BY <1>2, <1>3, <2>1, <2>2
    <2>4. ASSUME NEW j \in k + 1 .. x, S[j].h = 1 PROVE ~Counts(S[j].e)
        <3>1. j \in 1 .. x /\ j + d \in i + 1 .. y
            BY <1>2, <2>2
        <3> QED BY <1>3, <2>1, <2>4, <3>1
    <2> QED BY <1>1, <2>3, <2>4 DEF FiguresLast
<1> QED BY <1>5, <1>6

-----------------------------------------------------------------------------
(* What is read.                                                             *)

\* The figure that is read is that of the last whole event of the kinds ks, or none.
LEMMA LastRead ==
    ASSUME LineClient \in MeterProtocols, NEW t, NEW owed \in Bills, FairPieces(t, owed), NEW ks
    PROVE  LET With == {i \in parse_sse_data(t) : t[i].e.k \in ks /\ t[i].e.use # <<>>}
               x == IF With = {} THEN Unbilled ELSE extract_json_usage(LineClient, t[Max(With)].e.use[1])
           IN  /\ With # {} => Max(With) \in With /\ \A j \in With : j <= Max(With)
               /\ x \in Bills /\ Below(x, owed)
<1> DEFINE With == {i \in parse_sse_data(t) : t[i].e.k \in ks /\ t[i].e.use # <<>>}
           x == IF With = {} THEN Unbilled ELSE extract_json_usage(LineClient, t[Max(With)].e.use[1])
<1>1. PICK n \in Nat : n = Len(t)
    BY DEF FairPieces
<1>2. With \in SUBSET (1 .. n) /\ \A i \in With : t[i].h = 1 /\ t[i].e.k \in ks /\ t[i].e.use # <<>>
    BY <1>1 DEF parse_sse_data
<1>3. ASSUME With # {} PROVE Max(With) \in With /\ \A j \in With : j <= Max(With)
    <2> HIDE DEF With
    <2>1. PICK k \in With : \A j \in With : k >= j
        BY <1>2, <1>3, GreatestExists
    <2>2. \E i \in With : \A j \in With : i >= j
        BY <2>1
    <2>3. Max(With) \in With /\ \A j \in With : Max(With) >= j
        BY <2>2, Zenon DEF Max
    <2> QED BY <1>2, <2>3
<1>4. CASE With = {}
    <2>1. x = Unbilled
        BY <1>4
    <2>2. Unbilled \in Bills /\ Below(Unbilled, owed)
        BY DEF Unbilled, Bills, Below
    <2> QED BY <1>4, <2>1, <2>2
<1>5. CASE With # {}
    <2> DEFINE m == Max(With)
    <2>1. m \in With
        BY <1>3, <1>5
    <2> HIDE DEF m
    <2>2. m \in 1 .. n /\ t[m].e.use # <<>>
        BY <1>2, <2>1
    <2>3. FairEvent(t[m].e, owed)
        BY <1>1, <2>2 DEF FairPieces
    <2>4. PICK u \in UsageReports : t[m].e.use = <<u>>
        BY <2>2, <2>3 DEF FairEvent, MeterEvents
    <2>5. t[m].e.use[1] = u
        BY <2>4
    <2>6. extract_json_usage(LineClient, u) \in Bills
        BY DEF extract_json_usage, SatSub, uncached_prompt, Bills, UsageReports, MeterProtocols
    <2>7. Below(extract_json_usage(LineClient, u), owed)
        BY <2>2, <2>3, <2>5 DEF FairEvent
    <2>8. x = extract_json_usage(LineClient, u)
        BY <1>5, <2>5 DEF m
    <2> HIDE DEF x
    <2>9. x \in Bills /\ Below(x, owed)
        BY <2>6, <2>7, <2>8
    <2> QED BY <1>3, <1>5, <2>9 DEF x
<1> QED BY <1>4, <1>5

\* However the text was cut, what is read from it is within what was reported.
LEMMA ReadIsFair ==
    ASSUME LineClient \in MeterProtocols, NEW t, NEW owed \in Bills, FairPieces(t, owed)
    PROVE  extract_sse_usage(LineClient, t) \in Bills /\ Below(extract_sse_usage(LineClient, t), owed)
<1> DEFINE With(ks) == {i \in parse_sse_data(t) : t[i].e.k \in ks /\ t[i].e.use # <<>>}
           Final(ks) == IF With(ks) = {} THEN Unbilled ELSE extract_json_usage(LineClient, t[Max(With(ks))].e.use[1])
<1>1. ASSUME NEW ks PROVE Final(ks) \in Bills /\ Below(Final(ks), owed)
    BY LastRead
<1>2. extract_sse_usage(LineClient, t) =
        CASE LineClient = "anthropic" -> [Final({"message_start"}) EXCEPT !.completion = Final({"message_delta"}).completion]
          [] LineClient = "responses" -> Final({"completed"})
          [] OTHER                    -> Final({"chunk"})
    BY DEF extract_sse_usage
<1> HIDE DEF Final
<1>3. CASE LineClient = "anthropic"
    <2>1. PICK a \in Bills, b \in Bills : a = Final({"message_start"}) /\ b = Final({"message_delta"}) /\ Below(a, owed) /\ Below(b, owed)
        BY <1>1
    <2>2. extract_sse_usage(LineClient, t) = [a EXCEPT !.completion = b.completion]
        BY <1>2, <1>3, <2>1
    <2>3. [a EXCEPT !.completion = b.completion] \in Bills /\ Below([a EXCEPT !.completion = b.completion], owed)
        BY <2>1 DEF Bills, Below
    <2> QED BY <2>2, <2>3
<1>4. CASE LineClient = "responses"
    BY <1>1, <1>2, <1>4
<1>5. CASE LineClient \in {"chat", "gemini"}
    BY <1>1, <1>2, <1>5
<1> QED BY <1>3, <1>4, <1>5 DEF MeterProtocols

\* A text that ends with the figures is read as what is due, but for what an
\* Anthropic client was told before.
LEMMA ReadIsWhole ==
    ASSUME LineClient \in MeterProtocols, NEW t, NEW owed \in Bills, FairText(t, owed), NEW slack \in {1, 3}, FiguresLast(t, slack)
    PROVE  LET x == extract_sse_usage(LineClient, t)
           IN  /\ x.completion = Due(total).completion
               /\ LineClient # "anthropic" => x.prompt = Due(total).prompt /\ x.read = Due(total).read
               /\ LineClient = "anthropic" /\ (\E i \in DOMAIN t : t[i].h = 1 /\ t[i].e.k = "message_start") =>
                    /\ x.write = Due(total).write
                    /\ LineUp \in {"chat", "responses"} \/ (x.prompt = Due(total).prompt /\ x.read = Due(total).read)
<1> DEFINE With(ks) == {i \in parse_sse_data(t) : t[i].e.k \in ks /\ t[i].e.use # <<>>}
           Final(ks) == IF With(ks) = {} THEN Unbilled ELSE extract_json_usage(LineClient, t[Max(With(ks))].e.use[1])
           x == extract_sse_usage(LineClient, t)
<1>1. ASSUME NEW ks PROVE /\ Final(ks) \in Bills
                          /\ With(ks) # {} => Max(With(ks)) \in With(ks) /\ \A j \in With(ks) : j <= Max(With(ks))
    BY LastRead DEF FairText
<1>2. x = CASE LineClient = "anthropic" -> [Final({"message_start"}) EXCEPT !.completion = Final({"message_delta"}).completion]
            [] LineClient = "responses" -> Final({"completed"})
            [] OTHER                    -> Final({"chunk"})
    BY DEF extract_sse_usage
<1>3. PICK n \in Nat : n = Len(t) /\ t \in Seq(Pieces)
    BY DEF FairText, FairPieces
<1>4. ASSUME NEW i \in 1 .. n, t[i].h = 1 PROVE i \in 1 .. n - 1
    <2>1. t # <<>> /\ t[n].h = 2
        BY <1>3 DEF FairText, FairPieces
    <2> QED BY <1>4, <2>1
<1>5. ASSUME NEW ks PROVE \A i : i \in With(ks) <=> i \in 1 .. n /\ t[i].h = 1 /\ t[i].e.k \in ks /\ t[i].e.use # <<>>
    <2>1. parse_sse_data(t) = {i \in 1 .. n - 1 : t[i].h = 1}
        BY <1>3 DEF parse_sse_data
    <2> QED BY <1>4, <2>1
<1>6. PICK i \in 1 .. n : /\ t[i].h = 1 /\ FinalEvent(t[i].e)
                          /\ \A j \in i + 1 .. n : t[j].h = 1 => ~Counts(t[j].e)
    BY <1>3 DEF FiguresLast
<1>7. Max(With(FinalKinds)) = i /\ With(FinalKinds) # {}
    <2>1. i \in With(FinalKinds)
        BY <1>5, <1>6 DEF FinalEvent, Counts
    <2> DEFINE W == With(FinalKinds)
               m == Max(W)
    <2>2. m \in W /\ i <= m
        BY <1>1, <2>1
    <2> HIDE DEF m
    <2>3. m \in 1 .. n /\ t[m].h = 1 /\ Counts(t[m].e)
        BY <1>5, <2>2 DEF Counts
    <2>4. m = i
        <3> SUFFICES ASSUME m # i PROVE FALSE
            OBVIOUS
        <3>1. m \in i + 1 .. n
            BY <2>2, <2>3
        <3> QED BY <1>6, <2>3, <3>1
    <2> QED BY <2>1, <2>4 DEF m
<1>8. Final(FinalKinds) = extract_json_usage(LineClient, t[i].e.use[1])
    BY <1>7
<1>9. /\ Final(FinalKinds).completion = Due(total).completion
      /\ LineClient # "anthropic" => Final(FinalKinds).prompt = Due(total).prompt /\ Final(FinalKinds).read = Due(total).read
    BY <1>6, <1>8, Zenon DEF FinalEvent
<1>10. CASE LineClient = "anthropic"
    <2>1. FinalKinds = {"message_delta"}
        BY <1>10 DEF FinalKinds
    <2> DEFINE W == With({"message_start"})
               a == Final({"message_start"})
               b == Final({"message_delta"})
    <2>2. x = [a EXCEPT !.completion = b.completion]
        BY <1>2, <1>10
    <2>3. a \in Bills /\ b \in Bills /\ b.completion = Due(total).completion
        <3>1. a \in Bills /\ b \in Bills
            BY <1>1
        <3>2. b.completion = Due(total).completion
            BY <1>9, <2>1, Zenon
        <3> QED BY <3>1, <3>2
    <2>4. ASSUME NEW j \in DOMAIN t, t[j].h = 1, t[j].e.k = "message_start"
          PROVE  /\ a.write = Due(total).write
                 /\ LineUp \in {"chat", "responses"} \/ (a.prompt = Due(total).prompt /\ a.read = Due(total).read)
        <3>1. j \in 1 .. n
            BY <1>3
        <3>2. TrueStart(t[j].e)
            BY <1>3, <3>1 DEF FairText, FairPieces
        <3>3. t[j].e.use # <<>>
            BY <1>10, <2>4, <3>2 DEF TrueStart
        <3>4. j \in W
            BY <1>5, <2>4, <3>1, <3>3
        <3> DEFINE m == Max(W)
        <3>5. m \in W
            BY <1>1, <3>4
        <3>6. a = extract_json_usage(LineClient, t[m].e.use[1])
            BY <3>4
        <3> HIDE DEF m
        <3>7. m \in 1 .. n /\ t[m].e.k = "message_start"
            BY <1>5, <3>5
        <3>8. TrueStart(t[m].e)
            BY <1>3, <3>7 DEF FairText, FairPieces
        <3> HIDE DEF a
        <3> QED BY <1>10, <3>6, <3>7, <3>8 DEF TrueStart
    <2> HIDE DEF a, b
    <2>5. x.completion = b.completion /\ x.prompt = a.prompt /\ x.read = a.read /\ x.write = a.write
        BY <2>2, <2>3 DEF Bills
    <2> HIDE DEF x
    <2> QED BY <1>10, <2>3, <2>4, <2>5 DEF x
<1>11. CASE LineClient = "responses"
    <2>1. FinalKinds = {"completed"} /\ x = Final({"completed"})
        BY <1>2, <1>11 DEF FinalKinds
    <2> HIDE DEF x, Final
    <2> QED BY <1>9, <1>11, <2>1 DEF x
<1>12. CASE LineClient \in {"chat", "gemini"}
    <2>1. FinalKinds = {"chunk"} /\ x = Final({"chunk"})
        BY <1>2, <1>12 DEF FinalKinds
    <2> HIDE DEF x, Final
    <2> QED BY <1>9, <1>12, <2>1 DEF x
<1> QED BY <1>10, <1>11, <1>12 DEF MeterProtocols

\* What was reported is a bill.
LEMMA ReportedIs ==
    ASSUME TotalOK, SourceOK
    PROVE  Reported \in Bills /\ Due(total) \in Bills
<1>1. Unbilled \in Bills
    BY DEF Unbilled, Bills
<1>2. source.last = <<>> \/ \E u \in UsageReports : source.last = <<u>>
    BY DEF SourceOK, SourceRight, Sources
<1> QED BY <1>1, <1>2, Protocols, ReadAsDue DEF Reported, ReportOf

\* The invariant says that the bill is fair.
LEMMA InvIsFair ==
    ASSUME MeterInv, {"late_usage", "cut_answer", "cache_write", "long_stream"} \subseteq BillingGaps
    PROVE  BilledFairly
<1>1. LineUp \in MeterProtocols /\ LineClient \in MeterProtocols /\ Reported \in Bills /\ Due(total) \in Bills
    BY Protocols, ReportedIs DEF MeterInv
<1>2. /\ text \in Seq(Pieces) /\ pipe \in Seq(Pieces) /\ FairText(Sent, Reported) /\ Len(text) <= TextMax
      /\ Done => CutAnswer \/ FiguresLast(Sent, IF source.over = "no" THEN 1 ELSE 3)
    BY DEF MeterInv, SentOK, SentRight, Sent, Reported, Done, CutAnswer
<1>3. FairPieces(text, Reported)
    <2>1. PICK i \in Nat, j \in Nat : i = Len(text) /\ j = Len(pipe)
        BY <1>2
    <2>2. Len(Sent) = i + j /\ \A k \in 1 .. i : Sent[k] = text[k]
        BY <1>2, <2>1, Joined DEF Sent
    <2>3. \A k \in 1 .. i : k \in 1 .. i + j
        OBVIOUS
    <2> QED BY <1>2, <2>1, <2>2, <2>3 DEF FairText, FairPieces
<1> DEFINE x == extract_sse_usage(LineClient, text)
<1>4. x \in Bills /\ Below(x, Reported)
    BY <1>1, <1>3, ReadIsFair
<1>5. bill = <<>> \/ bill = <<x>>
    BY DEF MeterInv, BillOK
<1> HIDE DEF x
<1>6. MeterTypeOK
    <2>1. Len(bill) <= 1
        <3>1. Len(<<>>) = 0 /\ Len(<<x>>) = 1
            OBVIOUS
        <3>2. Len(bill) = 0 \/ Len(bill) = 1
            BY <1>5, <3>1, Zenon
        <3>3. 0 <= 1 /\ 1 <= 1
            OBVIOUS
        <3> QED BY <3>2, <3>3, Zenon
    <2>2. source.deltas \in -1 .. MaxDeltas /\ source.over \in {"no", "eof", "broken"}
        BY DEF MeterInv, SourceOK, SourceRight, Sources
    <2> QED BY <1>2, <2>1, <2>2 DEF MeterTypeOK, MeterInv, TotalOK
<1>7. NeverOverbilled
    <2>1. bill # <<>> => bill[1] = x
        BY <1>5
    <2>2. DOMAIN Reported = {"prompt", "completion", "read", "write"}
        BY <1>1 DEF Bills
    <2> QED BY <1>4, <2>1, <2>2 DEF NeverOverbilled, Reported, ReportOf, Below
<1>8. BilledAsWhole
    <2> SUFFICES ASSUME bill # <<>>, source.over = "eof", pipe = <<>>, source.fin \in {"stop", "length"}, source.last # <<>>,
                        NEW f \in DOMAIN bill[1]
                 PROVE  bill[1][f] = Due(total)[f] \/ KnownLoss(f)
        BY DEF BilledAsWhole
    <2>1. bill[1] = x
        BY <1>5
    <2>2. f \in {"prompt", "completion", "read", "write"}
        BY <1>4, <2>1 DEF Bills
    <2>3. CASE CutAnswer
        BY <2>3 DEF CutAnswer, KnownLoss
    <2>4. CASE ~CutAnswer
        <3>1. Sent = text
            BY <1>2 DEF Sent
        <3>2. FairText(text, Reported) /\ FiguresLast(text, 3)
            BY <1>2, <2>4, <3>1 DEF Done, DoneOf
        <3>3. /\ x.completion = Due(total).completion
              /\ LineClient # "anthropic" => x.prompt = Due(total).prompt /\ x.read = Due(total).read
              /\ LineClient = "anthropic" /\ (\E i \in DOMAIN text : text[i].h = 1 /\ text[i].e.k = "message_start") =>
                    /\ x.write = Due(total).write
                    /\ LineUp \in {"chat", "responses"} \/ (x.prompt = Due(total).prompt /\ x.read = Due(total).read)
            BY <1>1, <3>2, ReadIsWhole DEF x
        <3>4. CASE LineClient # "anthropic"
            BY <2>1, <2>2, <3>3, <3>4 DEF KnownLoss
        <3>5. CASE LineClient = "anthropic" /\ ~\E i \in DOMAIN text : text[i].h = 1 /\ text[i].e.k = "message_start"
            BY <2>1, <2>2, <3>3, <3>5 DEF KnownLoss
        <3>6. CASE LineClient = "anthropic" /\ \E i \in DOMAIN text : text[i].h = 1 /\ text[i].e.k = "message_start"
            BY <2>1, <2>2, <3>3, <3>6 DEF KnownLoss
        <3> QED BY <3>4, <3>5, <3>6
    <2> QED BY <2>3, <2>4
<1> QED BY <1>6, <1>7, <1>8 DEF BilledFairly

-----------------------------------------------------------------------------
(* What the client is told.                                                  *)

\* A chunk as the upstream's side hands it on.
ChunkOK(c, owed, done) ==
    /\ c.fin \in {"none", "stop", "length", "failed"} /\ Within(c.use, owed)
    /\ c.use # <<>> => c.use[1].reasoning <= c.use[1].completion /\ (LineUp # "anthropic" => c.use[1].cache_write = 0)
    /\ done => c.use # <<>> /\ IrBill(c.use[1]) = Due(total) /\ owed = Due(total)
    /\ LineUp = "gemini" => c.use # <<>> /\ c.use[1].prompt = Due(total).prompt /\ c.use[1].cache_read = Due(total).read
    /\ LineUp # "anthropic" => Due(total).write = 0

\* An event without usage is fair.
LEMMA BareEvent ==
    ASSUME NEW k \in EventKinds, k # "message_start", NEW owed
    PROVE  FairEvent(MeterEvent(k, <<>>), owed) /\ TrueStart(MeterEvent(k, <<>>)) /\ ~Counts(MeterEvent(k, <<>>))
<1> DEFINE e == MeterEvent(k, <<>>)
<1>1. e \in MeterEvents /\ e.k = k /\ e.use = <<>>
    BY DEF MeterEvent, MeterEvents
<1> HIDE DEF e
<1>2. FairEvent(e, owed) /\ TrueStart(e) /\ ~Counts(e)
    BY <1>1, Zenon DEF FairEvent, TrueStart, Counts
<1> QED BY <1>2 DEF e

\* The figures of an Anthropic event.
LEMMA AnthropicEvent ==
    ASSUME LineClient = "anthropic", NEW w \in IrUsages, NEW owed, Below(IrBill(w), owed), NEW k \in EventKinds
    PROVE  LET e == MeterEvent(k, <<usage_to_anthropic(w)>>)
           IN  /\ FairEvent(e, owed) /\ e.k = k /\ e.use # <<>>
               /\ extract_json_usage("anthropic", e.use[1]) = IrBill(w)
<1> DEFINE r == usage_to_anthropic(w)
           e == MeterEvent(k, <<r>>)
<1>1. r \in UsageReports /\ extract_json_usage("anthropic", r) = IrBill(w)
    <2>1. LineClient \in MeterProtocols /\ usage_from_ir(LineClient, w) = r
        BY DEF MeterProtocols, usage_from_ir
    <2>2. r \in UsageReports
        BY <2>1, ToldIsRead
    <2>3. extract_json_usage("anthropic", r) = [prompt |-> w.prompt, completion |-> w.completion, read |-> w.cache_read, write |-> w.cache_write]
        BY <2>1, ToldIsRead
    <2> QED BY <2>2, <2>3 DEF IrBill
<1> HIDE DEF r
<1>2. e \in MeterEvents /\ e.k = k /\ e.use # <<>> /\ e.use[1] = r
    BY <1>1 DEF MeterEvent, MeterEvents
<1> HIDE DEF e
<1>3. FairEvent(e, owed)
    BY <1>1, <1>2 DEF FairEvent
<1> QED BY <1>1, <1>2, <1>3 DEF e, r

\* The figures of an event in one of the other protocols.
LEMMA ToldEvent ==
    ASSUME LineClient \in MeterProtocols, LineClient # "anthropic", NEW owed \in Bills, NEW use, Within(use, owed),
           LineClient = "gemini" /\ use # <<>> => use[1].reasoning <= use[1].completion,
           NEW k \in EventKinds
    PROVE  LET e == MeterEvent(k, Told(use))
           IN  /\ FairEvent(e, owed) /\ TrueStart(e) /\ e.k = k
               /\ use # <<>> => /\ e.use # <<>>
                                /\ extract_json_usage(LineClient, e.use[1]) = [IrBill(use[1]) EXCEPT !.write = 0]
<1> DEFINE e == MeterEvent(k, Told(use))
<1>1. CASE use = <<>>
    <2>1. e = MeterEvent(k, <<>>)
        BY <1>1 DEF Told
    <2>2. e \in MeterEvents /\ e.k = k /\ e.use = <<>>
        BY <2>1 DEF MeterEvent, MeterEvents
    <2> HIDE DEF e
    <2>3. FairEvent(e, owed) /\ TrueStart(e)
        BY <2>2, Zenon DEF FairEvent, TrueStart
    <2> QED BY <1>1, <2>2, <2>3 DEF e
<1>2. CASE use # <<>>
    <2>1. PICK w \in IrUsages : use = <<w>>
        BY <1>2 DEF Within, OptionalUsages
    <2>2. use[1] = w
        BY <2>1
    <2> DEFINE r == usage_from_ir(LineClient, w)
    <2>3. /\ r \in UsageReports
          /\ extract_json_usage(LineClient, r) = [prompt |-> w.prompt, completion |-> w.completion, read |-> w.cache_read, write |-> 0]
        BY <1>2, <2>2, ToldIsRead
    <2>4. Told(use) = <<r>>
        BY <1>2, <2>2 DEF Told
    <2> HIDE DEF r
    <2>5. e \in MeterEvents /\ e.k = k /\ e.use # <<>> /\ e.use[1] = r
        BY <2>3, <2>4 DEF MeterEvent, MeterEvents
    <2> HIDE DEF e
    <2> DEFINE x == extract_json_usage(LineClient, r)
    <2>6. [IrBill(w) EXCEPT !.write = 0] = x
        BY <2>3 DEF IrBill
    <2>7. Below(x, owed)
        <3>1. Below(IrBill(w), owed) /\ owed.write \in Nat
            BY <1>2, <2>2 DEF Within, Bills
        <3> QED BY <2>3, <3>1 DEF Below, IrBill
    <2>8. FairEvent(e, owed) /\ TrueStart(e)
        BY <2>5, <2>7, Zenon DEF FairEvent, TrueStart
    <2> QED BY <2>2, <2>5, <2>6, <2>8 DEF e
<1> QED BY <1>1, <1>2

\* A second element.
LEMMA Appended ==
    ASSUME NEW R, NEW s \in Seq(R), Len(s) = 1, NEW a \in R
    PROVE  Append(s, a) \in Seq(R) /\ Len(Append(s, a)) = 2 /\ Append(s, a)[1] = s[1] /\ Append(s, a)[2] = a
<1>1. Append(s, a) = s \o <<a>>
    BY AppendIsConcat
<1>2. <<a>> \in Seq(R) /\ Len(<<a>>) = 1 /\ <<a>>[1] = a
    OBVIOUS
<1> DEFINE t == <<a>>
<1> HIDE DEF t
<1>3. s \o t \in Seq(R) /\ Len(s \o t) = 1 + 1 /\ (\A k \in 1 .. 1 : (s \o t)[k] = s[k]) /\ \A k \in 1 .. 1 : (s \o t)[1 + k] = t[k]
    BY <1>2, Joined DEF t
<1>4. (s \o t)[1] = s[1] /\ (s \o t)[1 + 1] = t[1]
    BY <1>3, 1 \in 1 .. 1
<1> QED BY <1>1, <1>2, <1>3, <1>4, 1 + 1 = 2, Zenon DEF t

\* message_start, deltas and the figures of an Anthropic client.
LEMMA AnthropicOut ==
    ASSUME LineClient = "anthropic", LineUp \in {"chat", "responses", "gemini"}, NEW owed \in Bills, NEW done \in BOOLEAN,
           NEW c, ChunkOK(c, owed, done), NEW m \in Meters, Within(m.use, owed), ~m.ended,
           done => c.fin \in {"stop", "length"} \/ (c.fin = "none" /\ m.pend # "none")
    PROVE  LET o == anthropic_out(c, m)
               ends == c.fin = "failed" \/ (c.use # <<>> /\ (c.fin # "none" \/ m.pend # "none"))
           IN  /\ EventsOK(o.events, owed, done)
               /\ o.m \in Meters /\ o.m.seen = m.seen /\ o.m.started /\ Within(o.m.use, owed)
               /\ c.use = <<>> => o.m.use = m.use
               /\ o.m.ended <=> ends
               /\ o.m.pend = IF ends THEN "none" ELSE IF c.fin = "none" THEN m.pend ELSE c.fin
<1> DEFINE known == IF c.use = <<>> THEN DefaultUsage ELSE c.use[1]
           start == IF m.started THEN <<>> ELSE <<message_start_event(known)>>
           most == IF m.use # <<>> /\ m.use[1].completion > known.completion THEN m.use[1].completion ELSE known.completion
           use2 == IF c.use = <<>> THEN m.use ELSE <<[known EXCEPT !.completion = most]>>
           u == [m EXCEPT !.started = TRUE, !.use = use2]
           ends == c.fin = "failed" \/ (c.use # <<>> /\ (c.fin # "none" \/ m.pend # "none"))
           o == anthropic_out(c, m)
           pend2 == IF c.fin = "none" THEN m.pend ELSE c.fin
           more == IF c.fin = "none" /\ m.started THEN <<MeterEvent("delta", <<>>)>> ELSE <<>>
<1>1. known \in IrUsages /\ Below(IrBill(known), owed)
    <2>1. CASE c.use = <<>>
        <3>1. known = DefaultUsage
            BY <2>1
        <3> HIDE DEF known
        <3>2. DefaultUsage \in IrUsages /\ Below(IrBill(DefaultUsage), owed)
            BY DEF DefaultUsage, IrUsages, IrBill, Below, Bills
        <3> QED BY <3>1, <3>2
    <2>2. CASE c.use # <<>>
        <3>1. PICK w \in IrUsages : c.use = <<w>>
            BY <2>2 DEF ChunkOK, Within, OptionalUsages
        <3>2. known = w /\ c.use[1] = w
            BY <2>2, <3>1
        <3> HIDE DEF known
        <3> QED BY <2>2, <3>2 DEF ChunkOK, Within
    <2> QED BY <2>1, <2>2
<1>2. /\ Within(use2, owed) /\ (c.use # <<>> => use2 # <<>>)
      /\ done => use2 # <<>> /\ use2[1].completion = Due(total).completion
    <2>1. CASE c.use = <<>>
        BY <2>1 DEF ChunkOK
    <2>2. CASE c.use # <<>>
        <3>1. use2 = <<[known EXCEPT !.completion = most]>> /\ known = c.use[1]
            BY <2>2
        <3> DEFINE v == [known EXCEPT !.completion = most]
        <3> HIDE DEF known
        <3>2. CASE m.use # <<>>
            <4>1. PICK a \in IrUsages : m.use = <<a>> /\ m.use[1] = a
                BY <3>2 DEF Meters, OptionalUsages
            <4>2. Below(IrBill(a), owed)
                BY <3>2, <4>1 DEF Within
            <4>3. most = IF a.completion > known.completion THEN a.completion ELSE known.completion
                BY <3>2, <4>1
            <4> HIDE DEF most
            <4>4. most \in Nat /\ most <= owed.completion /\ known.completion <= most
                BY <1>1, <4>2, <4>3 DEF IrUsages, Below, IrBill
            <4>5. v \in IrUsages /\ v.completion = most /\ Below(IrBill(v), owed)
                BY <1>1, <4>4 DEF IrUsages, Below, IrBill
            <4> HIDE DEF v
            <4>6. use2 = <<v>> /\ use2[1] = v /\ use2 # <<>>
                BY <3>1 DEF v
            <4> HIDE DEF use2
            <4>7. done => most = Due(total).completion
                <5> SUFFICES ASSUME done PROVE most = Due(total).completion
                    OBVIOUS
                <5>1. known.completion = owed.completion /\ owed = Due(total)
                    BY <3>1 DEF ChunkOK, IrBill
                <5> QED BY <1>1, <4>4, <5>1 DEF IrUsages, Bills
            <4> QED BY <4>5, <4>6, <4>7 DEF Within, OptionalUsages
        <3>3. CASE m.use = <<>>
            <4>1. most = known.completion
                BY <3>3
            <4> HIDE DEF most
            <4>2. v = known
                BY <1>1, <4>1 DEF IrUsages
            <4> HIDE DEF v
            <4>3. use2 = <<known>> /\ use2[1] = known /\ use2 # <<>>
                BY <3>1, <4>2 DEF v
            <4> HIDE DEF use2
            <4>4. done => known.completion = Due(total).completion
                BY <3>1 DEF ChunkOK, IrBill
            <4> QED BY <1>1, <4>3, <4>4 DEF Within, OptionalUsages
        <3> QED BY <3>2, <3>3
    <2> QED BY <2>1, <2>2
<1>3. /\ start = <<>> \/ start = <<message_start_event(known)>>
      /\ FairEvent(message_start_event(known), owed) /\ TrueStart(message_start_event(known))
    <2> DEFINE w == [known EXCEPT !.completion = 0]
               e == message_start_event(known)
    <2>1. start = <<>> \/ start = <<e>>
        OBVIOUS
    <2>2. e = MeterEvent("message_start", <<usage_to_anthropic(w)>>)
        BY DEF message_start_event
    <2> HIDE DEF known
    <2>3. w \in IrUsages /\ w.prompt = known.prompt /\ w.cache_read = known.cache_read /\ w.cache_write = known.cache_write
        BY <1>1 DEF IrUsages
    <2>4. w.completion = 0
        BY <1>1 DEF IrUsages
    <2> HIDE DEF w
    <2>5. Below(IrBill(w), owed)
        BY <1>1, <2>3, <2>4 DEF IrBill, Below, Bills
    <2>6. FairEvent(e, owed) /\ e.k = "message_start" /\ e.use # <<>> /\ extract_json_usage("anthropic", e.use[1]) = IrBill(w)
        BY <2>2, <2>3, <2>5, AnthropicEvent, "message_start" \in EventKinds DEF EventKinds
    <2> HIDE DEF e
    <2>7. w.cache_write = Due(total).write
        BY <2>3 DEF known, ChunkOK, DefaultUsage
    <2>8. LineUp \in {"chat", "responses"} \/ (w.prompt = Due(total).prompt /\ w.cache_read = Due(total).read)
        BY <2>3 DEF known, ChunkOK
    <2>9. TrueStart(e)
        BY <2>6, <2>7, <2>8 DEF TrueStart, IrBill
    <2> QED BY <2>1, <2>6, <2>9 DEF e
<1>a. c.use = <<>> => use2 = m.use
    OBVIOUS
<1> HIDE DEF known, start, most
<1>4. u \in Meters /\ u.started = TRUE /\ u.use = use2 /\ u.seen = m.seen /\ u.pend = m.pend /\ u.ended = FALSE
    <2>1. use2 \in OptionalUsages
        BY <1>2 DEF Within
    <2> HIDE DEF use2
    <2> QED BY <2>1 DEF Meters
<1> HIDE DEF use2
<1>5. FairEvent(AnthropicEnd(u), owed) /\ TrueStart(AnthropicEnd(u)) /\ (done => FinalEvent(AnthropicEnd(u)))
    <2> DEFINE v == IF u.use = <<>> THEN DefaultUsage ELSE u.use[1]
               e == AnthropicEnd(u)
    <2>1. v \in IrUsages /\ Below(IrBill(v), owed) /\ (done => v.completion = Due(total).completion)
        <3> HIDE DEF u
        <3>1. CASE use2 = <<>>
            <4>1. v = DefaultUsage /\ ~done
                BY <1>2, <1>4, <3>1
            <4> HIDE DEF v
            <4>2. DefaultUsage \in IrUsages /\ Below(IrBill(DefaultUsage), owed)
                BY DEF DefaultUsage, IrUsages, IrBill, Below, Bills
            <4> QED BY <4>1, <4>2
        <3>2. CASE use2 # <<>>
            <4>1. PICK w \in IrUsages : use2 = <<w>> /\ use2[1] = w
                BY <1>2, <3>2 DEF Within, OptionalUsages
            <4>2. v = w
                BY <1>4, <3>2, <4>1
            <4> HIDE DEF v
            <4> QED BY <1>2, <3>2, <4>1, <4>2 DEF Within
        <3> QED BY <3>1, <3>2
    <2>2. e = MeterEvent("message_delta", <<usage_to_anthropic(v)>>)
        BY DEF AnthropicEnd
    <2> HIDE DEF v
    <2>3. FairEvent(e, owed) /\ e.k = "message_delta" /\ e.use # <<>> /\ extract_json_usage("anthropic", e.use[1]) = IrBill(v)
        BY <2>1, <2>2, AnthropicEvent, "message_delta" \in EventKinds DEF EventKinds
    <2> HIDE DEF e
    <2>4. TrueStart(e)
        BY <2>3 DEF TrueStart
    <2>5. done => FinalEvent(e)
        <3>1. Counts(e)
            BY <2>3 DEF Counts, FinalKinds
        <3> QED BY <2>1, <2>3, <3>1 DEF FinalEvent, IrBill
    <2> QED BY <2>3, <2>4, <2>5 DEF e
<1>6. o = IF ends THEN [m |-> [u EXCEPT !.ended = TRUE, !.pend = "none"], events |-> Append(start, AnthropicEnd(u))]
                  ELSE [m |-> [u EXCEPT !.pend = pend2], events |-> start \o more]
    <2>1. m.ended = FALSE /\ c.fin \in {"none", "stop", "length", "failed"}
        BY DEF Meters, ChunkOK
    <2>2. ends <=> (~m.ended /\ (\/ c.fin = "failed"
                                 \/ c.fin # "none" /\ c.use # <<>>
                                 \/ c.fin = "none" /\ m.pend # "none" /\ c.use # <<>>))
        BY <2>1
    <2> HIDE DEF ends
    <2>3. [u EXCEPT !.pend = IF c.fin = "none" THEN @ ELSE c.fin] = [u EXCEPT !.pend = pend2]
        BY <1>4
    <2> QED BY <2>2, <2>3 DEF anthropic_out, known, start, most, use2
<1> HIDE DEF u
<1>7. CASE ends
    <2> DEFINE a == [u EXCEPT !.ended = TRUE]
               b == [a EXCEPT !.pend = "none"]
               ev == Append(start, AnthropicEnd(u))
    <2>1. o.m = b /\ o.events = ev
        BY <1>6, <1>7
    <2>2. a \in Meters /\ a.ended = TRUE /\ a.started = TRUE /\ a.use = use2 /\ a.seen = m.seen
        BY <1>4 DEF Meters
    <2> HIDE DEF a
    <2>3. b \in Meters /\ b.ended = TRUE /\ b.started = TRUE /\ b.use = use2 /\ b.seen = m.seen /\ b.pend = "none"
        BY <2>2 DEF Meters
    <2> HIDE DEF b
    <2>4. EventsOK(ev, owed, done)
        <3> DEFINE e == AnthropicEnd(u)
                   g == message_start_event(known)
        <3>1. e \in MeterEvents /\ g \in MeterEvents
            BY <1>3, <1>5 DEF FairEvent
        <3>2. start = <<>> \/ start = <<g>>
            BY <1>3
        <3> HIDE DEF e, g
        <3>3. CASE start = <<>>
            <4>1. ev \in Seq(MeterEvents) /\ Len(ev) = 1 /\ ev[1] = e
                <5>1. start \in Seq(MeterEvents) /\ Len(start) = 0
                    BY <3>3
                <5> QED BY <3>1, <5>1, AppendProperties DEF e
            <4> HIDE DEF ev
            <4> QED BY <1>5, <4>1 DEF EventsOK, e
        <3>4. CASE start = <<g>>
            <4>1. ev \in Seq(MeterEvents) /\ Len(ev) = 2 /\ ev[1] = g /\ ev[2] = e
                <5>1. start \in Seq(MeterEvents) /\ Len(start) = 1 /\ start[1] = g
                    BY <3>1, <3>4
                <5> QED BY <3>1, <5>1, Appended DEF e
            <4> HIDE DEF ev
            <4> QED BY <1>3, <1>5, <4>1 DEF EventsOK, e, g
        <3> QED BY <3>2, <3>3, <3>4
    <2> QED BY <1>2, <1>a, <1>7, <2>1, <2>3, <2>4
<1>8. CASE ~ends
    <2> DEFINE a == [u EXCEPT !.pend = pend2]
               ev == start \o more
    <2>1. o.m = a /\ o.events = ev
        BY <1>6, <1>8
    <2>2. pend2 \in {"none", "stop", "length"}
        BY <1>8 DEF ChunkOK, Meters
    <2> HIDE DEF pend2
    <2>3. a \in Meters /\ a.ended = FALSE /\ a.started = TRUE /\ a.use = use2 /\ a.seen = m.seen /\ a.pend = pend2
        BY <1>4, <2>2 DEF Meters
    <2> HIDE DEF a
    <2>4. ~done
        BY <1>8 DEF ChunkOK
    <2>5. EventsOK(ev, owed, done)
        <3> DEFINE e == MeterEvent("delta", <<>>)
                   g == message_start_event(known)
        <3>1. FairEvent(e, owed) /\ TrueStart(e) /\ FairEvent(g, owed) /\ TrueStart(g)
            BY <1>3, BareEvent, "delta" \in EventKinds DEF EventKinds
        <3>2. e \in MeterEvents /\ g \in MeterEvents
            BY <3>1 DEF FairEvent
        <3>3. ev = <<>> \/ ev = <<g>> \/ ev = <<e>>
            <4>1. m.started \in BOOLEAN
                BY DEF Meters
            <4>2. CASE m.started
                <5>1. start = <<>> /\ (more = <<>> \/ more = <<e>>)
                    BY <4>2 DEF start
                <5> HIDE DEF e, more
                <5>2. more \in Seq(MeterEvents)
                    <6>1. <<>> \in Seq(MeterEvents) /\ <<e>> \in Seq(MeterEvents)
                        BY <3>2
                    <6> QED BY <5>1, <6>1
                <5> QED BY <5>1, <5>2, ConcatEmptySeq
            <4>3. CASE ~m.started
                <5>1. start = <<g>> /\ more = <<>>
                    BY <4>3 DEF start
                <5> HIDE DEF e, g, more
                <5>2. start \in Seq(MeterEvents)
                    BY <3>2, <5>1
                <5> QED BY <5>1, <5>2, ConcatEmptySeq
            <4> QED BY <4>1, <4>2, <4>3
        <3> HIDE DEF e, g, ev
        <3>4. ev \in Seq(MeterEvents) /\ Len(ev) <= 1 /\ \A i \in 1 .. Len(ev) : ev[i] = e \/ ev[i] = g
            <4>1. CASE ev = <<>>
                BY <4>1
            <4>2. CASE ev = <<g>>
                BY <3>2, <4>2
            <4>3. CASE ev = <<e>>
                BY <3>2, <4>3
            <4> QED BY <3>3, <4>1, <4>2, <4>3
        <3> QED BY <2>4, <3>1, <3>4 DEF EventsOK
    <2> QED BY <1>2, <1>a, <1>8, <2>1, <2>3, <2>5 DEF pend2
<1> QED BY <1>7, <1>8

\* A single event.
LEMMA OneEvent ==
    ASSUME NEW e, NEW owed, FairEvent(e, owed), TrueStart(e), NEW done, done => FinalEvent(e)
    PROVE  EventsOK(<<e>>, owed, done)
<1> DEFINE ev == <<e>>
<1>1. e \in MeterEvents
    BY DEF FairEvent
<1>2. ev \in Seq(MeterEvents) /\ Len(ev) = 1 /\ ev[1] = e
    BY <1>1
<1> HIDE DEF ev
<1>3. EventsOK(ev, owed, done)
    BY <1>2 DEF EventsOK
<1> QED BY <1>3 DEF ev

\* No event.
LEMMA NoEvent == \A owed : EventsOK(<<>>, owed, FALSE)
BY DEF EventsOK

\* The figures of a whole answer, told to a client other than Anthropic's.
LEMMA ToldIsFinal ==
    ASSUME LineClient \in MeterProtocols, LineClient # "anthropic", NEW c, NEW owed \in Bills, ChunkOK(c, owed, TRUE),
           NEW k \in EventKinds, k \in FinalKinds, Due(total) \in Bills
    PROVE  FinalEvent(MeterEvent(k, Told(c.use)))
<1> DEFINE e == MeterEvent(k, Told(c.use))
<1>1. /\ Within(c.use, owed) /\ c.use # <<>> /\ c.use[1].reasoning <= c.use[1].completion /\ IrBill(c.use[1]) = Due(total)
    BY DEF ChunkOK
<1>2. e.k = k /\ e.use # <<>> /\ extract_json_usage(LineClient, e.use[1]) = [IrBill(c.use[1]) EXCEPT !.write = 0]
    BY <1>1, ToldEvent
<1> HIDE DEF e
<1> DEFINE x == extract_json_usage(LineClient, e.use[1])
<1>3. x = [Due(total) EXCEPT !.write = 0]
    BY <1>1, <1>2
<1> HIDE DEF x
<1>4. x.completion = Due(total).completion /\ x.prompt = Due(total).prompt /\ x.read = Due(total).read /\ x.write = 0
    BY <1>3 DEF Bills
<1> QED BY <1>2, <1>4 DEF FinalEvent, Counts, e, x

\* The one event with usage of a Responses client.
LEMMA ResponsesOut ==
    ASSUME LineClient = "responses", NEW owed \in Bills, Due(total) \in Bills, NEW done \in BOOLEAN,
           NEW c, ChunkOK(c, owed, done), NEW m \in Meters, Within(m.use, owed), ~m.ended,
           done => c.fin \in {"stop", "length"} \/ (c.fin = "none" /\ m.pend # "none")
    PROVE  LET o == responses_out(c, m)
               pend == IF c.fin = "none" THEN m.pend ELSE c.fin
               ends == pend # "none" /\ (pend = "failed" \/ c.use # <<>> \/ m.use # <<>>)
           IN  /\ EventsOK(o.events, owed, done /\ pend # "length")
               /\ o.m \in Meters /\ o.m.seen = m.seen /\ o.m.started /\ Within(o.m.use, owed)
               /\ c.use = <<>> => o.m.use = m.use
               /\ o.m.ended <=> ends
               /\ o.m.pend = IF ends THEN "none" ELSE pend
<1> DEFINE pend == IF c.fin = "none" THEN m.pend ELSE c.fin
           use2 == IF c.use = <<>> THEN m.use ELSE c.use
           ends == pend # "none" /\ (pend = "failed" \/ c.use # <<>> \/ m.use # <<>>)
           o == responses_out(c, m)
           whole == done /\ pend # "length"
           end == ResponsesEnd(pend, use2)
           more == IF c.fin = "none" THEN <<MeterEvent("delta", <<>>)>> ELSE <<>>
<1>1. c.fin \in {"none", "stop", "length", "failed"} /\ m.pend \in {"none", "stop", "length"} /\ m.ended = FALSE
    BY DEF ChunkOK, Meters
<1>2. Within(use2, owed)
    BY DEF ChunkOK
<1>3. use2 # <<>> <=> c.use # <<>> \/ m.use # <<>>
    OBVIOUS
<1>4. FairEvent(end, owed) /\ TrueStart(end) /\ (whole => FinalEvent(end))
    <2> DEFINE k == CASE pend = "failed" -> "failed" [] pend = "length" -> "incomplete" [] OTHER -> "completed"
    <2>1. end = MeterEvent(k, Told(use2))
        BY DEF ResponsesEnd
    <2>2. k \in EventKinds
        BY DEF EventKinds
    <2>3. LineClient \in MeterProtocols /\ LineClient # "anthropic" /\ LineClient # "gemini"
        BY DEF MeterProtocols
    <2>4. whole => k = "completed" /\ use2 = c.use /\ ChunkOK(c, owed, TRUE)
        BY <1>1 DEF ChunkOK
    <2> HIDE DEF k, use2, end, pend
    <2>5. FairEvent(end, owed) /\ TrueStart(end)
        BY <1>2, <2>1, <2>2, <2>3, ToldEvent
    <2>6. "completed" \in FinalKinds
        BY DEF FinalKinds
    <2>7. whole => FinalEvent(end)
        BY <2>1, <2>2, <2>3, <2>4, <2>6, ToldIsFinal
    <2> QED BY <2>5, <2>7
<1> DEFINE a == [m EXCEPT !.started = TRUE]
           b == [a EXCEPT !.use = use2]
           u == [b EXCEPT !.pend = pend]
<1>5. o = IF ends THEN [m |-> [u EXCEPT !.ended = TRUE, !.pend = "none"], events |-> <<end>>] ELSE [m |-> u, events |-> more]
    <2> DEFINE v == [m EXCEPT !.started = TRUE, !.use = IF c.use = <<>> THEN @ ELSE c.use, !.pend = IF c.fin = "none" THEN @ ELSE c.fin]
    <2>1. v = u
        BY DEF Meters
    <2>2. u.ended = FALSE /\ u.pend = pend /\ u.use = use2
        BY <1>1 DEF Meters
    <2>3. o = IF ~v.ended /\ v.pend # "none" /\ (v.pend = "failed" \/ v.use # <<>>)
              THEN [m |-> [v EXCEPT !.ended = TRUE, !.pend = "none"], events |-> <<ResponsesEnd(v.pend, v.use)>>]
              ELSE [m |-> v, events |-> more]
        BY DEF responses_out
    <2> HIDE DEF v, u, o, more, pend, use2
    <2>4. ends <=> ~v.ended /\ v.pend # "none" /\ (v.pend = "failed" \/ v.use # <<>>)
        BY <1>3, <2>1, <2>2
    <2> HIDE DEF ends
    <2> QED BY <2>1, <2>2, <2>3, <2>4
<1>6. use2 \in OptionalUsages
    BY <1>2 DEF Within
<1>b. c.use = <<>> => use2 = m.use
    OBVIOUS
<1> HIDE DEF use2
<1>7. a \in Meters /\ a.started = TRUE /\ a.seen = m.seen /\ a.ended = FALSE
    BY <1>1 DEF Meters
<1> HIDE DEF a
<1>8. b \in Meters /\ b.started = TRUE /\ b.seen = m.seen /\ b.ended = FALSE /\ b.use = use2
    BY <1>6, <1>7 DEF Meters
<1> HIDE DEF b
<1>9. CASE ends
    <2> DEFINE x == [u EXCEPT !.ended = TRUE, !.pend = "none"]
    <2>1. x = [b EXCEPT !.ended = TRUE, !.pend = "none"]
        BY <1>8 DEF Meters
    <2> DEFINE y == [b EXCEPT !.ended = TRUE]
    <2>2. y \in Meters /\ y.started = TRUE /\ y.seen = m.seen /\ y.ended = TRUE /\ y.use = use2
        BY <1>8 DEF Meters
    <2>3. x = [y EXCEPT !.pend = "none"]
        BY <2>1
    <2> HIDE DEF x, y
    <2>4. x \in Meters /\ x.started = TRUE /\ x.seen = m.seen /\ x.ended = TRUE /\ x.use = use2 /\ x.pend = "none"
        BY <2>2, <2>3 DEF Meters
    <2>5. o.m = x /\ o.events = <<end>>
        BY <1>5, <1>9 DEF x
    <2>6. EventsOK(<<end>>, owed, whole)
        BY <1>4, OneEvent
    <2> HIDE DEF o, end
    <2> QED BY <1>2, <1>b, <1>9, <2>4, <2>5, <2>6 DEF o
<1>10. CASE ~ends
    <2>1. pend \in {"none", "stop", "length"} /\ ~whole
        BY <1>1, <1>10 DEF ChunkOK
    <2> HIDE DEF pend
    <2>2. u \in Meters /\ u.started = TRUE /\ u.seen = m.seen /\ u.ended = FALSE /\ u.use = use2 /\ u.pend = pend
        BY <1>8, <2>1 DEF Meters
    <2> HIDE DEF u
    <2>3. o.m = u /\ o.events = more
        BY <1>5, <1>10
    <2>4. EventsOK(more, owed, whole)
        <3>1. FairEvent(MeterEvent("delta", <<>>), owed) /\ TrueStart(MeterEvent("delta", <<>>))
            BY BareEvent, "delta" \in EventKinds DEF EventKinds
        <3>2. EventsOK(<<MeterEvent("delta", <<>>)>>, owed, whole)
            BY <2>1, <3>1, OneEvent
        <3>3. EventsOK(<<>>, owed, whole)
            BY <2>1, NoEvent
        <3> QED BY <3>2, <3>3
    <2> HIDE DEF o, more
    <2> QED BY <1>2, <1>b, <1>10, <2>1, <2>2, <2>3, <2>4 DEF o, pend
<1> QED BY <1>9, <1>10

\* A chunk on its way to the client.
LEMMA ClientOut ==
    ASSUME LineUp \in MeterProtocols, LineClient \in MeterProtocols, ~Passthrough,
           NEW owed \in Bills, Due(total) \in Bills, NEW done \in BOOLEAN,
           NEW c, ChunkOK(c, owed, done), NEW m \in Meters, Within(m.use, owed),
           NEW pend, pend = IF c.fin = "none" THEN m.pend ELSE c.fin,
           LineClient \in {"anthropic", "responses"} => /\ ~m.ended /\ (done => pend \in {"stop", "length"})
                                                        /\ pend \in {"stop", "length"} /\ c.use = <<>> => m.use = <<>>
    PROVE  LET o == client_events(c, m)
               ends == pend # "none" /\ (pend = "failed" \/ c.use # <<>>)
           IN  /\ EventsOK(o.events, owed, done /\ ~(LineClient = "responses" /\ pend = "length"))
               /\ o.m \in Meters /\ o.m.seen = m.seen /\ Within(o.m.use, owed)
               /\ c.use = <<>> => o.m.use = m.use
               /\ LineClient \in {"anthropic", "responses"} =>
                    /\ o.m.started
                    /\ o.m.ended <=> ends
                    /\ o.m.pend = IF ends THEN "none" ELSE pend
<1> DEFINE o == client_events(c, m)
           ends == pend # "none" /\ (pend = "failed" \/ c.use # <<>>)
<1>1. c.fin \in {"none", "stop", "length", "failed"} /\ m.pend \in {"none", "stop", "length"}
    BY DEF ChunkOK, Meters
<1>2. CASE LineClient = "anthropic"
    <2>1. LineUp \in {"chat", "responses", "gemini"}
        BY <1>2 DEF Passthrough, MeterProtocols
    <2>2. o = anthropic_out(c, m)
        BY <1>2 DEF client_events
    <2>3. ~m.ended /\ (done => c.fin \in {"stop", "length"} \/ (c.fin = "none" /\ m.pend # "none"))
        BY <1>2
    <2> DEFINE ends2 == c.fin = "failed" \/ (c.use # <<>> /\ (c.fin # "none" \/ m.pend # "none"))
    <2>4. ends2 <=> ends
        BY <1>1
    <2> HIDE DEF o, ends
    <2>5. /\ EventsOK(o.events, owed, done)
          /\ o.m \in Meters /\ o.m.seen = m.seen /\ o.m.started /\ Within(o.m.use, owed)
          /\ c.use = <<>> => o.m.use = m.use
          /\ o.m.ended <=> ends2
          /\ o.m.pend = IF ends2 THEN "none" ELSE IF c.fin = "none" THEN m.pend ELSE c.fin
        BY <1>2, <2>1, <2>2, <2>3, AnthropicOut
    <2>6. (done /\ ~(LineClient = "responses" /\ pend = "length")) = done
        BY <1>2
    <2> QED BY <2>4, <2>5, <2>6 DEF o, ends
<1>3. CASE LineClient = "responses"
    <2>2. o = responses_out(c, m)
        BY <1>3 DEF client_events
    <2>3. ~m.ended /\ (done => c.fin \in {"stop", "length"} \/ (c.fin = "none" /\ m.pend # "none"))
        BY <1>3
    <2> DEFINE ends2 == pend # "none" /\ (pend = "failed" \/ c.use # <<>> \/ m.use # <<>>)
    <2>4. ends2 <=> ends
        BY <1>1, <1>3
    <2> HIDE DEF o, ends
    <2>5. /\ EventsOK(o.events, owed, done /\ pend # "length")
          /\ o.m \in Meters /\ o.m.seen = m.seen /\ o.m.started /\ Within(o.m.use, owed)
          /\ c.use = <<>> => o.m.use = m.use
          /\ o.m.ended <=> ends2
          /\ o.m.pend = IF ends2 THEN "none" ELSE pend
        BY <1>3, <2>2, <2>3, ResponsesOut
    <2>6. (done /\ ~(LineClient = "responses" /\ pend = "length")) = (done /\ pend # "length")
        BY <1>3
    <2> QED BY <2>4, <2>5, <2>6 DEF o, ends
<1>4. CASE LineClient \in {"chat", "gemini"}
    <2> DEFINE e == MeterEvent("chunk", Told(c.use))
    <2>1. o.m = m /\ o.events = <<e>>
        BY <1>4 DEF client_events
    <2>2. "chunk" \in EventKinds /\ "chunk" \in FinalKinds
        BY <1>4 DEF EventKinds, FinalKinds
    <2>3. Within(c.use, owed) /\ (c.use # <<>> => c.use[1].reasoning <= c.use[1].completion)
        BY DEF ChunkOK
    <2> HIDE DEF o
    <2>4. FairEvent(e, owed) /\ TrueStart(e)
        BY <1>4, <2>2, <2>3, ToldEvent
    <2>5. done => FinalEvent(e)
        <3> SUFFICES ASSUME done PROVE FinalEvent(e)
            OBVIOUS
        <3>1. ChunkOK(c, owed, TRUE)
            BY DEF ChunkOK
        <3> QED BY <1>4, <2>2, <3>1, ToldIsFinal
    <2> HIDE DEF e
    <2>6. EventsOK(<<e>>, owed, done)
        BY <2>4, <2>5, OneEvent
    <2>7. (done /\ ~(LineClient = "responses" /\ pend = "length")) = done
        BY <1>4
    <2> QED BY <1>4, <2>1, <2>6, <2>7 DEF o
<1> QED BY <1>2, <1>3, <1>4 DEF MeterProtocols

-----------------------------------------------------------------------------
(* What the upstream says.                                                   *)

\* The event e with the finish fin, after which the upstream is at s.
Said(e, fin, s) ==
    /\ e \in MeterEvents /\ fin \in {"none", "stop", "length", "failed"}
    /\ SourceRight(s) /\ source.over = "no" /\ s.over = "no" /\ s.deltas >= 0
    /\ s.fin = IF fin = "none" THEN source.fin ELSE fin
    /\ s.last = IF e.use = <<>> THEN source.last ELSE e.use
    /\ Below(Reported, ReportOf(s))
    /\ fin # "none" => source.fin = "none" /\ source.deltas >= 0
    /\ source.fin # "none" => /\ fin = "none" /\ source.fin \in {"stop", "length"} /\ LineUp = "chat"
                              /\ source.last = <<>> /\ e.use = <<total>>
    /\ source.fin = "none" /\ fin = "none" =>
        e.use = IF LineUp = "gemini" \/ (LineUp = "anthropic" /\ source.deltas = -1) THEN <<SoFar(s.said)>> ELSE <<>>
    /\ fin \in {"stop", "length"} => e.use = <<total>> \/ (e.use = <<>> /\ LineUp = "chat")
    /\ fin = "failed" => e.use = <<>>
    /\ LineUp = "anthropic" => e.k = IF fin = "none" THEN (IF source.deltas = -1 THEN "message_start" ELSE "delta")
                                     ELSE IF fin = "failed" THEN "error" ELSE "message_delta"
    /\ LineUp = "responses" /\ fin = "stop" => e.k = "completed"
    /\ LineUp \in {"chat", "gemini"} => e.k = "chunk"

\* The answer is done when its figures are out.
LEMMA DoneSays ==
    ASSUME SourceOK, NEW e, NEW fin, NEW s, Said(e, fin, s), DoneOf(s)
    PROVE  e.use = <<total>> /\ ReportOf(s) = Due(total)
<1>0. e.use = <<total>> => s.last = <<total>> /\ ReportOf(s) = Due(total)
    BY DEF Said, ReportOf
<1>1. CASE source.fin # "none"
    BY <1>0, <1>1 DEF Said
<1>2. CASE source.fin = "none"
    <2>1. fin \in {"stop", "length"}
        BY <1>2 DEF Said, DoneOf
    <2>2. e.use # <<>>
        <3> SUFFICES ASSUME e.use = <<>> PROVE FALSE
            OBVIOUS
        <3>1. LineUp = "chat" /\ s.last = source.last
            BY <2>1 DEF Said
        <3>2. source.last = <<>>
            BY <1>2, <3>1 DEF SourceOK, SourceRight
        <3> QED BY <3>1, <3>2 DEF DoneOf
    <2>3. e.use = <<total>>
        BY <2>1, <2>2 DEF Said
    <2> QED BY <1>0, <2>3
<1> QED BY <1>1, <1>2

\* The chunk that the event becomes.
LEMMA ChunkMade ==
    ASSUME TotalOK, SourceOK, MeterOK, ~Passthrough, NEW e, NEW fin, NEW s, Said(e, fin, s)
    PROVE  LET r == chunk_usage(e, fin)
           IN  /\ ChunkOK(r.chunk, ReportOf(s), DoneOf(s)) /\ r.chunk.fin = fin /\ r.seen \in IrUsages
               /\ s.last = <<>> => r.chunk.use = <<>>
               /\ fin = "stop" \/ fin = "length" => (r.chunk.use = <<>> <=> s.last = <<>>)
               /\ LineUp = "anthropic" /\ s.fin = "none" => r.seen = AnthropicSeen
<1> DEFINE r == chunk_usage(e, fin)
           owed == ReportOf(s)
<1>1. LineUp \in MeterProtocols /\ total \in UsageReports /\ Due(total) \in Bills
    BY Protocols, ReadAsDue
<1>2. meter \in Meters /\ meter.seen \in IrUsages
    BY DEF MeterOK, MeterRight, Reported, Done, Meters
<1>3. /\ total.input \in Nat /\ total.cached \in Nat /\ total.output \in Nat /\ total.thoughts \in Nat /\ total.write \in Nat
      /\ s.said \in Nat /\ s.said <= total.output
    BY <1>1 DEF UsageReports, Said, SourceRight, Sources
<1>4. SoFar(s.said) \in UsageReports /\ (LineUp \in {"chat", "responses"} => total.thoughts <= total.output)
    BY <1>3, SoFarIs DEF TotalOK
<1>5. e.use \in {<<>>, <<total>>, <<SoFar(s.said)>>} /\ (e.use = <<SoFar(s.said)>> => e.use = <<total>> \/ LineUp \in {"gemini", "anthropic"})
    BY DEF Said
<1>6. DoneOf(s) => e.use = <<total>> /\ owed = Due(total)
    BY DoneSays
<1>7. LineUp # "anthropic" => Due(total).write = 0
    BY DEF Due
<1>8. CASE LineUp # "anthropic"
    <2>1. r = [seen |-> meter.seen, chunk |-> [fin |-> fin, use |-> IF e.use = <<>> THEN <<>> ELSE <<parse_usage(LineUp, e.use[1])>>]]
        BY <1>8 DEF chunk_usage, IrChunkOf
    <2>2. CASE e.use = <<>>
        <3>1. r.chunk.use = <<>> /\ r.chunk.fin = fin /\ r.seen = meter.seen
            BY <2>1, <2>2
        <3>2. Within(<<>>, owed)
            BY DEF Within, OptionalUsages
        <3>3. LineUp # "gemini" /\ ~DoneOf(s)
            BY <1>6, <2>2 DEF Said, SourceOK, SourceRight
        <3>4. fin \in {"stop", "length"} => s.last = <<>>
            BY <2>2 DEF Said, SourceOK, SourceRight
        <3> HIDE DEF r, owed
        <3>5. ChunkOK(r.chunk, owed, DoneOf(s))
            BY <1>7, <3>1, <3>2, <3>3 DEF ChunkOK, Said
        <3> QED BY <1>2, <1>8, <3>1, <3>4, <3>5 DEF r, owed
    <2>3. CASE e.use # <<>>
        <3>1. PICK u \in UsageReports : e.use = <<u>> /\ e.use[1] = u /\ (u = total \/ (u = SoFar(s.said) /\ LineUp = "gemini"))
            <4>1. CASE e.use = <<total>>
                BY <1>1, <4>1
            <4>2. CASE e.use = <<SoFar(s.said)>> /\ LineUp = "gemini"
                BY <1>4, <4>2
            <4> QED BY <1>5, <1>8, <2>3, <4>1, <4>2
        <3> DEFINE w == parse_usage(LineUp, u)
        <3>2. w \in IrUsages /\ IrBill(w) = Due(u) /\ w.reasoning <= w.completion
            BY <1>1, <1>4, <3>1, ParsedAsDue
        <3> HIDE DEF w
        <3>3. r.chunk.use = <<w>> /\ r.chunk.fin = fin /\ r.seen = meter.seen
            BY <2>1, <2>3, <3>1 DEF w
        <3>4. r.chunk.use # <<>> /\ r.chunk.use[1] = w
            BY <3>3
        <3>5. owed = Due(u) /\ s.last # <<>>
            BY <2>3, <3>1 DEF ReportOf, Said
        <3>6. Due(u) \in Bills
            BY <1>1, ReadAsDue
        <3>7. Within(r.chunk.use, owed)
            <4>1. Below(Due(u), Due(u))
                BY <3>6 DEF Below, Bills
            <4> QED BY <3>2, <3>3, <3>4, <3>5, <4>1 DEF Within, OptionalUsages
        <3>8. w.cache_write = 0
            <4>1. w.cache_write = Due(u).write
                BY <3>2 DEF IrBill
            <4> QED BY <1>8, <4>1 DEF Due
        <3>9. LineUp = "gemini" => w.prompt = Due(total).prompt /\ w.cache_read = Due(total).read
            <4>1. w.prompt = Due(u).prompt /\ w.cache_read = Due(u).read
                BY <3>2 DEF IrBill
            <4>2. Due(SoFar(s.said)).prompt = Due(total).prompt /\ Due(SoFar(s.said)).read = Due(total).read
                BY <1>3, SoFarIs
            <4> QED BY <3>1, <4>1, <4>2
        <3>10. DoneOf(s) => u = total
            BY <1>6, <3>1
        <3> HIDE DEF r, owed
        <3>11. ChunkOK(r.chunk, owed, DoneOf(s))
            BY <1>7, <3>2, <3>3, <3>4, <3>5, <3>7, <3>8, <3>9, <3>10 DEF ChunkOK, Said
        <3> QED BY <1>2, <1>8, <3>3, <3>4, <3>5, <3>11 DEF r, owed
    <2> QED BY <2>2, <2>3
<1>9. CASE LineUp = "anthropic"
    <2>1. r = anthropic_in(e, fin)
        BY <1>9 DEF chunk_usage
    <2>2. CASE fin = "none" /\ source.deltas = -1
        <3>1. e.k = "message_start" /\ e.use = <<SoFar(s.said)>> /\ source.fin = "none"
            BY <1>9, <2>2 DEF Said, SourceOK, SourceRight
        <3>2. r = [seen |-> parse_usage("anthropic", SoFar(s.said)), chunk |-> [fin |-> "none", use |-> <<>>]]
            BY <2>1, <3>1 DEF anthropic_in, IrChunkOf
        <3>3. s.said = 0 /\ s.fin = "none" /\ s.last # <<>>
            BY <1>9, <2>2, <3>1 DEF Said, SourceRight
        <3>4. parse_usage("anthropic", SoFar(s.said)) = AnthropicSeen
            BY <3>3 DEF parse_usage, anthropic_parse_usage, SoFar, Usage, AnthropicSeen
        <3>5. AnthropicSeen \in IrUsages
            BY <1>3 DEF AnthropicSeen, IrUsages
        <3>6. ~DoneOf(s) /\ Within(<<>>, owed)
            BY <3>3 DEF DoneOf, Within, OptionalUsages
        <3>7. r.chunk.use = <<>> /\ r.chunk.fin = fin /\ r.seen = AnthropicSeen
            BY <2>2, <3>2, <3>4
        <3> HIDE DEF r, owed
        <3>8. ChunkOK(r.chunk, owed, DoneOf(s))
            BY <1>9, <3>6, <3>7 DEF ChunkOK, Said
        <3> QED BY <2>2, <3>5, <3>7, <3>8 DEF r, owed
    <2>3. CASE fin = "none" /\ source.deltas # -1
        <3>1. e.k = "delta" /\ e.use = <<>> /\ source.fin = "none" /\ s.fin = "none"
            BY <1>9, <2>3 DEF Said, SourceOK, SourceRight
        <3>2. r = [seen |-> meter.seen, chunk |-> [fin |-> "none", use |-> <<>>]]
            BY <2>1, <3>1 DEF anthropic_in, IrChunkOf
        <3>3. source.deltas >= 0
            BY <2>3, MeterAssumption DEF SourceOK, SourceRight, Sources
        <3>4. meter.seen = AnthropicSeen
            BY <1>9, <3>1, <3>3 DEF MeterOK, MeterRight, Reported, Done
        <3>6. ~DoneOf(s) /\ Within(<<>>, owed)
            BY <3>1 DEF DoneOf, Within, OptionalUsages
        <3>7. r.chunk.use = <<>> /\ r.chunk.fin = fin /\ r.seen = AnthropicSeen
            BY <2>3, <3>2, <3>4
        <3> HIDE DEF r, owed
        <3>8. ChunkOK(r.chunk, owed, DoneOf(s))
            BY <1>9, <3>6, <3>7 DEF ChunkOK, Said
        <3> QED BY <1>2, <2>3, <3>4, <3>7, <3>8 DEF r, owed
    <2>4. CASE fin # "none"
        <3>1. e.k \in {"message_delta", "error"} /\ source.fin = "none" /\ source.deltas >= 0 /\ s.fin = fin /\ s.fin # "none"
            BY <1>9, <2>4 DEF Said
        <3>2. meter.seen = AnthropicSeen
            BY <1>9, <3>1 DEF MeterOK, MeterRight, Reported, Done
        <3> DEFINE u == IF e.use = <<>> THEN AnthropicSeen ELSE parse_usage("anthropic", e.use[1])
                   v == [AnthropicSeen EXCEPT !.completion = IF u.completion > @ THEN u.completion ELSE @,
                                              !.cache_read = u.cache_read, !.cache_write = u.cache_write]
        <3>3. r = [seen |-> v, chunk |-> [fin |-> fin, use |-> <<v>>]]
            BY <2>1, <3>1, <3>2 DEF anthropic_in, IrChunkOf
        <3>4. CASE e.use = <<>>
            <4>1. u = AnthropicSeen
                BY <3>4
            <4>2. v = AnthropicSeen
                BY <4>1 DEF AnthropicSeen
            <4>3. fin = "failed" /\ s.last = source.last
                BY <1>9, <2>4, <3>4 DEF Said
            <4>4. source.last = <<SoFar(0)>>
                BY <1>9, <3>1 DEF SourceOK, SourceRight
            <4>5. owed = Due(SoFar(0)) /\ s.last # <<>>
                BY <4>3, <4>4 DEF ReportOf
            <4>6. IrBill(AnthropicSeen) = Due(SoFar(0))
                BY <1>9 DEF IrBill, AnthropicSeen, Due, Bill, SoFar, Usage
            <4>7. AnthropicSeen \in IrUsages /\ AnthropicSeen.reasoning <= AnthropicSeen.completion
                BY <1>3 DEF AnthropicSeen, IrUsages
            <4>8. Below(Due(SoFar(0)), Due(SoFar(0)))
                BY <1>3, <1>9 DEF Below, Due, Bill, SoFar, Usage
            <4>9. r.chunk.use = <<AnthropicSeen>> /\ r.chunk.fin = fin /\ r.seen = AnthropicSeen /\ ~DoneOf(s)
                BY <3>1, <3>3, <4>2, <4>3 DEF DoneOf
            <4>10. r.chunk.use # <<>> /\ r.chunk.use[1] = AnthropicSeen
                BY <4>9
            <4>11. Within(r.chunk.use, owed)
                BY <4>5, <4>6, <4>7, <4>8, <4>9, <4>10 DEF Within, OptionalUsages
            <4> HIDE DEF r, owed
            <4>12. ChunkOK(r.chunk, owed, DoneOf(s))
                BY <1>9, <4>7, <4>9, <4>10, <4>11 DEF ChunkOK, Said
            <4> QED BY <3>1, <4>5, <4>7, <4>9, <4>10, <4>12 DEF r, owed
        <3>5. CASE e.use # <<>>
            <4>1. e.use = <<total>> /\ e.use[1] = total /\ s.last = <<total>>
                BY <1>9, <2>4, <3>5 DEF Said
            <4>2. u = parse_usage("anthropic", total)
                BY <3>5, <4>1
            <4>3. u = [prompt |-> total.input, completion |-> total.output, cache_read |-> total.cached, cache_write |-> total.write, reasoning |-> 0]
                BY <4>2 DEF parse_usage, anthropic_parse_usage
            <4> HIDE DEF u
            <4>4. v = [prompt |-> total.input, completion |-> total.output, cache_read |-> total.cached, cache_write |-> total.write, reasoning |-> 0]
                <5>1. u.completion = total.output /\ u.cache_read = total.cached /\ u.cache_write = total.write
                    BY <4>3
                <5> DEFINE n == IF u.completion > AnthropicSeen.completion THEN u.completion ELSE AnthropicSeen.completion
                <5>2. n = total.output
                    <6>1. AnthropicSeen.completion = 0
                        BY DEF AnthropicSeen
                    <6> QED BY <1>3, <5>1, <6>1
                <5>3. v = [AnthropicSeen EXCEPT !.completion = n, !.cache_read = u.cache_read, !.cache_write = u.cache_write]
                    OBVIOUS
                <5> HIDE DEF n, v
                <5>4. v = [AnthropicSeen EXCEPT !.completion = total.output, !.cache_read = total.cached, !.cache_write = total.write]
                    BY <5>1, <5>2, <5>3
                <5> QED BY <5>4 DEF AnthropicSeen
            <4> HIDE DEF v
            <4>5. v \in IrUsages /\ v.reasoning <= v.completion
                BY <1>3, <4>4 DEF IrUsages
            <4>6. IrBill(v) = Due(total)
                BY <1>9, <4>4 DEF IrBill, Due, Bill
            <4>7. owed = Due(total) /\ s.last # <<>>
                BY <4>1 DEF ReportOf
            <4>8. Below(Due(total), Due(total))
                BY <1>1 DEF Below, Bills
            <4>9. r.chunk.use = <<v>> /\ r.chunk.fin = fin /\ r.seen = v
                BY <3>3
            <4>10. r.chunk.use # <<>> /\ r.chunk.use[1] = v
                BY <4>9
            <4>11. Within(r.chunk.use, owed)
                BY <4>5, <4>6, <4>7, <4>8, <4>9, <4>10 DEF Within, OptionalUsages
            <4> HIDE DEF r, owed
            <4>12. ChunkOK(r.chunk, owed, DoneOf(s))
                BY <1>9, <4>5, <4>6, <4>7, <4>9, <4>10, <4>11 DEF ChunkOK, Said
            <4> QED BY <3>1, <4>5, <4>7, <4>9, <4>10, <4>12 DEF r, owed
        <3> QED BY <3>4, <3>5
    <2> QED BY <2>2, <2>3, <2>4
<1> QED BY <1>8, <1>9

\* An event that is passed on as it came.
LEMMA PassedOn ==
    ASSUME TotalOK, SourceOK, Passthrough, NEW e, NEW fin, NEW s, Said(e, fin, s)
    PROVE  EventsOK(<<e>>, ReportOf(s), DoneOf(s) /\ ~(LineClient = "responses" /\ s.fin = "length"))
<1>1. LineClient = LineUp /\ LineUp \in MeterProtocols /\ total \in UsageReports /\ Due(total) \in Bills
    BY Protocols, ReadAsDue DEF Passthrough
<1>2. e \in MeterEvents
    BY DEF Said
<1>3. e.use # <<>> => /\ ReportOf(s) = Due(e.use[1]) /\ ReportOf(s) \in Bills
                      /\ extract_json_usage(LineClient, e.use[1]) = Due(e.use[1])
    <2> SUFFICES ASSUME e.use # <<>>
                 PROVE  /\ ReportOf(s) = Due(e.use[1]) /\ ReportOf(s) \in Bills
                        /\ extract_json_usage(LineClient, e.use[1]) = Due(e.use[1])
        OBVIOUS
    <2>1. PICK u \in UsageReports : e.use = <<u>> /\ e.use[1] = u
        BY <1>2 DEF MeterEvents
    <2>2. s.last = e.use /\ s.last # <<>>
        BY DEF Said
    <2> QED BY <1>1, <2>1, <2>2, ReadAsDue DEF ReportOf
<1>4. FairEvent(e, ReportOf(s))
    <2>1. ReportOf(s) \in Bills => Below(ReportOf(s), ReportOf(s))
        BY DEF Below, Bills
    <2> QED BY <1>2, <1>3, <2>1 DEF FairEvent
<1>5. TrueStart(e)
    <2> SUFFICES ASSUME LineClient = "anthropic", e.k = "message_start" PROVE TrueStart(e)
        BY DEF TrueStart
    <2>1. fin = "none" /\ source.deltas = -1
        BY <1>1 DEF Said
    <2>2. source.fin = "none"
        BY <2>1 DEF SourceOK, SourceRight
    <2>3. e.use = <<SoFar(s.said)>> /\ e.use # <<>> /\ e.use[1] = SoFar(s.said)
        <3>1. e.use = <<SoFar(s.said)>>
            BY <1>1, <2>1, <2>2 DEF Said
        <3> QED BY <3>1
    <2>4. s.said \in Nat /\ s.said <= total.output
        BY DEF Said, SourceRight, Sources
    <2>5. /\ Due(SoFar(s.said)).prompt = Due(total).prompt /\ Due(SoFar(s.said)).read = Due(total).read
          /\ Due(SoFar(s.said)).write = Due(total).write
        BY <2>4, SoFarIs
    <2> QED BY <1>3, <2>3, <2>5 DEF TrueStart
<1>6. ASSUME DoneOf(s), ~(LineClient = "responses" /\ s.fin = "length") PROVE FinalEvent(e)
    <2>1. e.use = <<total>> /\ e.use # <<>> /\ e.use[1] = total
        BY <1>6, DoneSays
    <2>2. extract_json_usage(LineClient, e.use[1]) = Due(total)
        BY <1>3, <2>1
    <2>3. e.k \in FinalKinds
        <3>1. s.fin \in {"stop", "length"}
            BY <1>6 DEF DoneOf
        <3>2. CASE LineUp = "anthropic"
            <4>1. fin = s.fin /\ fin # "none" /\ fin # "failed"
                BY <3>1, <3>2 DEF Said
            <4> QED BY <1>1, <3>2, <4>1 DEF Said, FinalKinds
        <3>3. CASE LineUp = "responses"
            <4>1. fin = "stop"
                BY <1>1, <1>6, <3>1, <3>3 DEF Said
            <4> QED BY <1>1, <3>3, <4>1 DEF Said, FinalKinds
        <3>4. CASE LineUp \in {"chat", "gemini"}
            BY <1>1, <3>4 DEF Said, FinalKinds
        <3> QED BY <1>1, <3>2, <3>3, <3>4 DEF MeterProtocols
    <2>4. LineUp # "anthropic" => Due(total).write = 0
        BY DEF Due
    <2> QED BY <1>1, <2>1, <2>2, <2>3, <2>4 DEF FinalEvent, Counts
<1> QED BY <1>4, <1>5, <1>6, OneEvent

\* Each step of the upstream says something: content first.
LEMMA ContentSays ==
    ASSUME TotalOK, SourceOK, UpContent
    PROVE  \E e, fin : UpSends(e, fin) /\ Said(e, fin, source')
<1>1. source.fin = "none" /\ source.deltas < MaxDeltas
    BY DEF UpContent
<1> DEFINE first == source.deltas = -1
           use(n) == IF LineUp = "gemini" \/ (LineUp = "anthropic" /\ first) THEN <<SoFar(n)>> ELSE <<>>
           kind == CASE LineUp = "anthropic" -> IF first THEN "message_start" ELSE "delta"
                     [] LineUp = "responses" -> "delta"
                     [] OTHER -> "chunk"
<1>2. PICK n \in IF LineUp = "gemini" THEN source.said .. total.output ELSE {0} :
        /\ UpSends(MeterEvent(kind, use(n)), "none")
        /\ source' = [source EXCEPT !.deltas = @ + 1, !.said = n, !.last = IF use(n) = <<>> THEN @ ELSE use(n)]
    BY DEF UpContent
<1> DEFINE e == MeterEvent(kind, use(n))
           d == source.deltas + 1
           l == IF use(n) = <<>> THEN source.last ELSE use(n)
<1>3. PICK s : s = source'
    OBVIOUS
<1>4. LineUp \in MeterProtocols /\ total.output \in Nat /\ source \in Sources /\ source.said \in Nat /\ source.said <= total.output
    BY Protocols DEF UsageReports, SourceOK, SourceRight, Sources
<1>5. n \in Nat /\ n <= total.output /\ source.said <= n /\ (LineUp # "gemini" => n = 0)
    <2>1. CASE LineUp = "gemini"
        BY <1>2, <1>4, <2>1
    <2>2. CASE LineUp # "gemini"
        <3>1. n = 0 /\ source.said = 0
            BY <1>2, <2>2 DEF SourceOK, SourceRight
        <3> QED BY <1>4, <2>2, <3>1
    <2> QED BY <2>1, <2>2
<1>6. SoFar(n) \in UsageReports
    BY <1>5, SoFarIs
<1>7. d \in -1 .. MaxDeltas /\ d >= 0
    BY <1>1, <1>4, MeterAssumption DEF Sources
<1>8. use(n) \in {<<>>} \cup {<<u>> : u \in UsageReports} /\ l \in {<<>>} \cup {<<u>> : u \in UsageReports}
    BY <1>4, <1>6 DEF Sources
<1>9. e.k = kind /\ e.use = use(n) /\ e \in MeterEvents
    <2>1. kind \in EventKinds
        BY DEF EventKinds
    <2> HIDE DEF kind, use
    <2> QED BY <1>8, <2>1 DEF MeterEvent, MeterEvents
<1>10. s.deltas = d /\ s.said = n /\ s.last = l /\ s.fin = source.fin /\ s.over = source.over /\ s \in Sources
    <2>1. s = [source EXCEPT !.deltas = d, !.said = n, !.last = l]
        BY <1>2, <1>3
    <2> HIDE DEF d, l
    <2> DEFINE a == [source EXCEPT !.deltas = d]
               b == [a EXCEPT !.said = n]
    <2>2. a \in Sources /\ a.deltas = d /\ a.fin = source.fin /\ a.over = source.over
        BY <1>4, <1>7 DEF Sources
    <2>3. s = [b EXCEPT !.last = l]
        BY <2>1
    <2> HIDE DEF a
    <2>4. b \in Sources /\ b.deltas = d /\ b.said = n /\ b.fin = source.fin /\ b.over = source.over
        BY <1>5, <2>2 DEF Sources
    <2> HIDE DEF b
    <2> QED BY <1>8, <2>3, <2>4 DEF Sources
<1>11. source.last = IF source.deltas >= 0 /\ LineUp \in {"gemini", "anthropic"} THEN <<SoFar(source.said)>> ELSE <<>>
    BY <1>1 DEF SourceOK, SourceRight
<1>12. l = IF LineUp \in {"gemini", "anthropic"} THEN <<SoFar(n)>> ELSE <<>>
    <2>1. source.deltas = -1 \/ source.deltas >= 0
        BY <1>4, MeterAssumption DEF Sources
    <2>2. LineUp = "anthropic" => source.said = n
        BY <1>4, <1>5
    <2> QED BY <1>11, <2>1, <2>2
<1>13. SourceRight(s)
    BY <1>1, <1>5, <1>7, <1>10, <1>12 DEF SourceRight, DoneOf
<1>14. Below(Reported, ReportOf(s))
    <2>1. ReportOf(s) = IF LineUp \in {"gemini", "anthropic"} THEN Due(SoFar(n)) ELSE Unbilled
        <3>1. s.last = IF LineUp \in {"gemini", "anthropic"} THEN <<SoFar(n)>> ELSE <<>>
            BY <1>10, <1>12
        <3>2. CASE LineUp \in {"gemini", "anthropic"}
            <4>1. s.last = <<SoFar(n)>>
                BY <3>1, <3>2
            <4> QED BY <3>2, <4>1 DEF ReportOf
        <3>3. CASE LineUp \notin {"gemini", "anthropic"}
            BY <3>1, <3>3 DEF ReportOf
        <3> QED BY <3>2, <3>3
    <2>2. Due(SoFar(n)) \in Bills
        BY <1>4, <1>6, ReadAsDue
    <2>3. Below(Due(SoFar(source.said)), Due(SoFar(n)))
        BY <1>4, <1>5, SoFarIs
    <2>4. Below(Unbilled, Due(SoFar(n))) /\ Below(Unbilled, Unbilled)
        BY <2>2 DEF Below, Unbilled, Bills
    <2>5. Reported = Unbilled \/ (Reported = Due(SoFar(source.said)) /\ LineUp \in {"gemini", "anthropic"})
        BY <1>11 DEF Reported, ReportOf
    <2> QED BY <2>1, <2>3, <2>4, <2>5
<1>15. Said(e, "none", s)
    <2>1. source.over = "no"
        BY <1>2 DEF UpSends
    <2>2. s.last = IF e.use = <<>> THEN source.last ELSE e.use
        BY <1>9, <1>10
    <2>3. e.use = IF LineUp = "gemini" \/ (LineUp = "anthropic" /\ source.deltas = -1) THEN <<SoFar(s.said)>> ELSE <<>>
        BY <1>9, <1>10
    <2>4. LineUp = "anthropic" => e.k = IF source.deltas = -1 THEN "message_start" ELSE "delta"
        BY <1>9
    <2>5. LineUp \in {"chat", "gemini"} => e.k = "chunk"
        BY <1>9
    <2> HIDE DEF d, l, e
    <2> QED BY <1>1, <1>7, <1>9, <1>10, <1>13, <1>14, <2>1, <2>2, <2>3, <2>4, <2>5 DEF Said
<1> QED BY <1>2, <1>3, <1>15

\* The finish, with or without the figures.
LEMMA FinishSays ==
    ASSUME TotalOK, SourceOK, UpFinish
    PROVE  \E e, fin : UpSends(e, fin) /\ Said(e, fin, source')
<1>1. source.fin = "none" /\ source.deltas >= 0
    BY DEF UpFinish
<1> DEFINE use(now) == IF now THEN <<total>> ELSE <<>>
           kind(fin) == CASE LineUp = "anthropic" -> "message_delta"
                          [] LineUp = "responses" -> IF fin = "length" THEN "incomplete" ELSE "completed"
                          [] OTHER -> "chunk"
<1>2. PICK fin \in {"stop", "length"}, now \in BOOLEAN :
        /\ now \/ LineUp = "chat"
        /\ UpSends(MeterEvent(kind(fin), use(now)), fin)
        /\ source' = [source EXCEPT !.fin = fin, !.last = IF now THEN use(now) ELSE @]
    BY DEF UpFinish
<1> DEFINE e == MeterEvent(kind(fin), use(now))
           l == IF now THEN <<total>> ELSE source.last
<1>3. PICK s : s = source'
    OBVIOUS
<1>4. LineUp \in MeterProtocols /\ total \in UsageReports /\ source \in Sources /\ Reported \in Bills /\ Due(total) \in Bills
    BY Protocols, ReportedIs DEF SourceOK, SourceRight
<1>5. use(now) \in {<<>>} \cup {<<u>> : u \in UsageReports} /\ l \in {<<>>} \cup {<<u>> : u \in UsageReports}
    BY <1>4 DEF Sources
<1>6. e.k = kind(fin) /\ e.use = use(now) /\ e \in MeterEvents
    <2>1. kind(fin) \in EventKinds
        BY DEF EventKinds
    <2> HIDE DEF kind, use
    <2> QED BY <1>5, <2>1 DEF MeterEvent, MeterEvents
<1>7. s.deltas = source.deltas /\ s.said = source.said /\ s.last = l /\ s.fin = fin /\ s.over = source.over /\ s \in Sources
    <2>1. s = [source EXCEPT !.fin = fin, !.last = l]
        BY <1>2, <1>3
    <2> HIDE DEF l
    <2> DEFINE a == [source EXCEPT !.fin = fin]
    <2>2. a \in Sources /\ a.deltas = source.deltas /\ a.said = source.said /\ a.fin = fin /\ a.over = source.over
        BY <1>4 DEF Sources
    <2>3. s = [a EXCEPT !.last = l]
        BY <2>1
    <2> HIDE DEF a
    <2> QED BY <1>5, <2>2, <2>3 DEF Sources
<1>8. /\ source.last = IF LineUp \in {"gemini", "anthropic"} THEN <<SoFar(source.said)>> ELSE <<>>
      /\ source.said <= total.output /\ source.said \in Nat /\ (LineUp # "gemini" => source.said = 0)
    BY <1>1 DEF SourceOK, SourceRight, Sources
<1>9. ~now => l = <<>> /\ LineUp = "chat"
    BY <1>2, <1>8
<1>10. SourceRight(s)
    BY <1>1, <1>7, <1>8, <1>9 DEF SourceRight, DoneOf
<1>11. Below(Reported, ReportOf(s))
    <2>1. ReportOf(s) = IF now THEN Due(total) ELSE Unbilled
        BY <1>7, <1>9 DEF ReportOf
    <2>2. Below(Due(SoFar(source.said)), Due(total))
        BY <1>8, SoFarIs
    <2>3. Below(Unbilled, Due(total)) /\ Below(Unbilled, Unbilled)
        BY <1>4 DEF Below, Unbilled, Bills
    <2>4. Reported = Unbilled \/ (Reported = Due(SoFar(source.said)) /\ LineUp \in {"gemini", "anthropic"})
        BY <1>8 DEF Reported, ReportOf
    <2> QED BY <1>9, <2>1, <2>2, <2>3, <2>4
<1>12. Said(e, fin, s)
    <2>1. source.over = "no"
        BY <1>2 DEF UpSends
    <2> HIDE DEF e
    <2> QED BY <1>1, <1>2, <1>6, <1>7, <1>9, <1>10, <1>11, <2>1 DEF Said
<1> QED BY <1>2, <1>3, <1>12

\* The figures that come late.
LEMMA TailSays ==
    ASSUME TotalOK, SourceOK, UpTail
    PROVE  \E e, fin : UpSends(e, fin) /\ Said(e, fin, source')
<1> DEFINE e == MeterEvent("chunk", <<total>>)
<1>1. /\ source.fin \in {"stop", "length"} /\ source.last = <<>> /\ UpSends(e, "none")
      /\ source' = [source EXCEPT !.last = <<total>>]
    BY DEF UpTail
<1>2. LineUp = "chat"
    BY <1>1 DEF SourceOK, SourceRight
<1>3. PICK s : s = source'
    OBVIOUS
<1>4. total \in UsageReports /\ source \in Sources /\ Due(total) \in Bills
    BY Protocols, ReportedIs DEF SourceOK, SourceRight
<1>5. e.k = "chunk" /\ e.use = <<total>> /\ e \in MeterEvents
    BY <1>4 DEF MeterEvent, MeterEvents, EventKinds
<1>6. s.deltas = source.deltas /\ s.said = source.said /\ s.last = <<total>> /\ s.fin = source.fin /\ s.over = source.over /\ s \in Sources
    BY <1>1, <1>3, <1>4 DEF Sources
<1>7. source.deltas >= 0 /\ source.said <= total.output /\ source.said = 0
    BY <1>1, <1>2 DEF SourceOK, SourceRight
<1>8. SourceRight(s)
    BY <1>1, <1>2, <1>6, <1>7 DEF SourceRight, DoneOf
<1>9. Below(Reported, ReportOf(s))
    <2>1. ReportOf(s) = Due(total) /\ Reported = Unbilled
        BY <1>1, <1>6 DEF ReportOf, Reported
    <2> QED BY <1>4, <2>1 DEF Below, Unbilled, Bills
<1>10. Said(e, "none", s)
    <2>1. source.over = "no"
        BY <1>1 DEF UpSends
    <2> HIDE DEF e
    <2>2. e.use # <<>>
        BY <1>5
    <2> QED BY <1>1, <1>2, <1>5, <1>6, <1>7, <1>8, <1>9, <2>1, <2>2 DEF Said
<1> QED BY <1>1, <1>3, <1>10

\* A failure.
LEMMA FailureSays ==
    ASSUME TotalOK, SourceOK, UpFailure
    PROVE  \E e, fin : UpSends(e, fin) /\ Said(e, fin, source')
<1> DEFINE kind == IF LineUp = "anthropic" THEN "error" ELSE "failed"
           e == MeterEvent(kind, <<>>)
<1>1. /\ LineUp \in {"anthropic", "responses"} /\ source.deltas >= 0 /\ source.fin = "none" /\ UpSends(e, "failed")
      /\ source' = [source EXCEPT !.fin = "failed"]
    BY DEF UpFailure
<1>2. PICK s : s = source'
    OBVIOUS
<1>3. source \in Sources /\ Reported \in Bills
    BY ReportedIs DEF SourceOK, SourceRight
<1>4. e.k = kind /\ e.use = <<>> /\ e \in MeterEvents
    BY DEF MeterEvent, MeterEvents, EventKinds
<1>5. s.deltas = source.deltas /\ s.said = source.said /\ s.last = source.last /\ s.fin = "failed" /\ s.over = source.over /\ s \in Sources
    BY <1>1, <1>2, <1>3 DEF Sources
<1>6. SourceRight(s)
    BY <1>1, <1>5 DEF SourceRight, DoneOf, SourceOK
<1>7. Below(Reported, ReportOf(s))
    <2>1. ReportOf(s) = Reported
        BY <1>5 DEF ReportOf, Reported
    <2> QED BY <1>3, <2>1 DEF Below, Bills
<1>8. Said(e, "failed", s)
    <2>1. source.over = "no"
        BY <1>1 DEF UpSends
    <2> HIDE DEF e
    <2> QED BY <1>1, <1>4, <1>5, <1>6, <1>7, <2>1 DEF Said
<1> QED BY <1>1, <1>2, <1>8

-----------------------------------------------------------------------------
(* The end of the stream.                                                    *)

\* The closing message_delta.
LEMMA EndIsFair ==
    ASSUME LineClient = "anthropic", NEW owed \in Bills, NEW m, Within(m.use, owed)
    PROVE  FairEvent(AnthropicEnd(m), owed) /\ TrueStart(AnthropicEnd(m))
<1> DEFINE v == IF m.use = <<>> THEN DefaultUsage ELSE m.use[1]
           e == AnthropicEnd(m)
<1>1. v \in IrUsages /\ Below(IrBill(v), owed)
    <2>1. CASE m.use = <<>>
        <3>1. v = DefaultUsage
            BY <2>1
        <3> HIDE DEF v
        <3>2. DefaultUsage \in IrUsages /\ Below(IrBill(DefaultUsage), owed)
            BY DEF DefaultUsage, IrUsages, IrBill, Below, Bills
        <3> QED BY <3>1, <3>2
    <2>2. CASE m.use # <<>>
        <3>1. PICK w \in IrUsages : m.use = <<w>> /\ m.use[1] = w
            BY <2>2 DEF Within, OptionalUsages
        <3>2. v = w
            BY <2>2, <3>1
        <3> HIDE DEF v
        <3> QED BY <2>2, <3>1, <3>2 DEF Within
    <2> QED BY <2>1, <2>2
<1>2. e = MeterEvent("message_delta", <<usage_to_anthropic(v)>>)
    BY DEF AnthropicEnd
<1> HIDE DEF v
<1>3. FairEvent(e, owed) /\ e.k = "message_delta"
    BY <1>1, <1>2, AnthropicEvent, "message_delta" \in EventKinds DEF EventKinds
<1> HIDE DEF e
<1>4. TrueStart(e)
    BY <1>3 DEF TrueStart
<1> QED BY <1>3, <1>4 DEF e

\* stream_end adds what is missing, and no figures to an answer that is done.
LEMMA LastEvents ==
    ASSUME TotalOK, SourceOK, MeterOK, ~Passthrough, NEW failed \in BOOLEAN
    PROVE  LET ev == last_events(failed)
           IN  /\ EventsOK(ev, Reported, FALSE)
               /\ Done => Len(ev) <= 1 /\ \A i \in 1 .. Len(ev) : ~Counts(ev[i])
<1> DEFINE ev == last_events(failed)
<1>1. LineClient \in MeterProtocols /\ Reported \in Bills
    BY Protocols, ReportedIs
<1>2. meter \in Meters /\ Within(meter.use, Reported) /\ meter.started \in BOOLEAN /\ meter.ended \in BOOLEAN
    BY DEF MeterOK, MeterRight, Reported, Done, Meters
<1>3. Done /\ LineClient \in {"anthropic", "responses"} => meter.ended
    BY DEF MeterOK, MeterRight, Reported, Done
<1>a. ASSUME NEW v, v = <<>> PROVE EventsOK(v, Reported, FALSE) /\ Len(v) <= 1 /\ \A i \in 1 .. Len(v) : ~Counts(v[i])
    <2>1. EventsOK(v, Reported, FALSE)
        BY <1>a, NoEvent
    <2>2. PICK n \in Nat : n = Len(v) /\ n = 0
        BY <1>a
    <2>3. Len(v) <= 1
        BY <2>2
    <2>4. 1 .. Len(v) = {}
        BY <2>2
    <2> QED BY <2>1, <2>3, <2>4, Zenon
<1>4. CASE LineClient = "anthropic"
    <2> DEFINE a == AnthropicEnd(meter)
               b == MeterEvent("message_stop", <<>>)
               x == IF meter.started /\ ~meter.ended THEN <<a>> ELSE <<>>
               y == IF meter.started THEN <<b>> ELSE <<>>
    <2>1. ev = x \o y
        BY <1>4 DEF last_events
    <2>2. FairEvent(a, Reported) /\ TrueStart(a)
        BY <1>1, <1>2, <1>4, EndIsFair
    <2>3. FairEvent(b, Reported) /\ TrueStart(b) /\ ~Counts(b)
        BY BareEvent, "message_stop" \in EventKinds DEF EventKinds
    <2>4. a \in MeterEvents /\ b \in MeterEvents
        BY <2>2, <2>3 DEF FairEvent
    <2> HIDE DEF a, b, ev
    <2>5. CASE ~meter.started
        <3>1. x = <<>> /\ y = <<>>
            BY <2>5
        <3>2. ev = <<>>
            BY <2>1, <3>1
        <3> QED BY <1>a, <3>2 DEF ev
    <2>6. CASE meter.started /\ meter.ended
        <3>1. x = <<>> /\ y = <<b>>
            BY <2>6
        <3>2. <<b>> \in Seq(MeterEvents) /\ Len(<<b>>) = 1 /\ <<b>>[1] = b
            BY <2>4
        <3>3. ev = <<b>>
            <4> HIDE DEF x, y
            <4>1. ev = <<>> \o <<b>>
                BY <2>1, <3>1
            <4>2. <<>> \o <<b>> = <<b>>
                BY <3>2, ConcatEmptySeq
            <4> QED BY <4>1, <4>2
        <3>4. EventsOK(ev, Reported, FALSE)
            BY <2>3, <3>3, OneEvent
        <3>5. Len(ev) <= 1 /\ \A i \in 1 .. Len(ev) : ~Counts(ev[i])
            BY <2>3, <3>2, <3>3
        <3> QED BY <3>4, <3>5 DEF ev
    <2>7. CASE meter.started /\ ~meter.ended
        <3>1. x = <<a>> /\ y = <<b>>
            BY <2>7
        <3>2. /\ <<a>> \in Seq(MeterEvents) /\ Len(<<a>>) = 1 /\ <<a>>[1] = a
              /\ <<b>> \in Seq(MeterEvents) /\ Len(<<b>>) = 1 /\ <<b>>[1] = b
            BY <2>4
        <3> DEFINE p == <<a>>
                   q == <<b>>
        <3>3. ev = p \o q
            BY <2>1, <3>1
        <3> HIDE DEF p, q, x, y
        <3>4. /\ ev \in Seq(MeterEvents) /\ Len(ev) = 1 + 1
              /\ \A k \in 1 .. 1 : ev[k] = p[k]
              /\ \A k \in 1 .. 1 : ev[1 + k] = q[k]
            BY <3>2, <3>3, Joined DEF p, q
        <3>5. ev[1] = a /\ ev[2] = b
            <4>1. ev[1] = p[1] /\ ev[1 + 1] = q[1]
                BY <3>4, 1 \in 1 .. 1
            <4> QED BY <3>2, <4>1, 1 + 1 = 2, Zenon DEF p, q
        <3>6. EventsOK(ev, Reported, FALSE)
            BY <2>2, <2>3, <3>4, <3>5 DEF EventsOK
        <3> QED BY <1>3, <1>4, <2>7, <3>6 DEF ev
    <2> QED BY <1>2, <2>5, <2>6, <2>7
<1>5. CASE LineClient = "responses"
    <2> DEFINE fin == IF failed THEN "failed" ELSE meter.pend
               k == CASE fin = "failed" -> "failed" [] fin = "length" -> "incomplete" [] OTHER -> "completed"
               e == MeterEvent(k, Told(meter.use))
    <2>1. ev = IF meter.ended THEN <<>> ELSE <<e>>
        BY <1>5 DEF last_events, ResponsesEnd
    <2>2. k \in EventKinds
        BY DEF EventKinds
    <2> HIDE DEF k, ev
    <2>3. FairEvent(e, Reported) /\ TrueStart(e)
        BY <1>1, <1>2, <1>5, <2>2, ToldEvent
    <2> HIDE DEF e
    <2>4. CASE meter.ended
        <3>1. ev = <<>>
            BY <2>1, <2>4
        <3> QED BY <1>a, <3>1 DEF ev
    <2>5. CASE ~meter.ended
        <3>1. ev = <<e>> /\ ~Done
            BY <1>3, <1>5, <2>1, <2>5
        <3> QED BY <2>3, <3>1, OneEvent DEF ev
    <2> QED BY <2>4, <2>5
<1>6. CASE LineClient = "chat"
    <2> DEFINE e == MeterEvent("done", <<>>)
    <2>1. ev = <<e>>
        BY <1>6 DEF last_events
    <2>2. FairEvent(e, Reported) /\ TrueStart(e) /\ ~Counts(e)
        BY BareEvent, "done" \in EventKinds DEF EventKinds
    <2> HIDE DEF e, ev
    <2>3. EventsOK(ev, Reported, FALSE)
        BY <2>1, <2>2, OneEvent
    <2>4. Len(<<e>>) = 1 /\ <<e>>[1] = e
        OBVIOUS
    <2>5. Len(ev) <= 1 /\ \A i \in 1 .. Len(ev) : ~Counts(ev[i])
        BY <2>1, <2>2, <2>4
    <2> QED BY <2>3, <2>5 DEF ev
<1>7. CASE LineClient = "gemini"
    <2>1. ev = <<>>
        BY <1>7 DEF last_events
    <2> HIDE DEF ev
    <2> QED BY <1>a, <2>1 DEF ev
<1> QED BY <1>1, <1>4, <1>5, <1>6, <1>7 DEF MeterProtocols

\* An event without figures behind the figures.
LEMMA EndsStays ==
    ASSUME NEW s \in Seq(Pieces), FiguresLast(s, 1), NEW ev \in Seq(MeterEvents), Len(ev) <= 1, \A i \in 1 .. Len(ev) : ~Counts(ev[i])
    PROVE  FiguresLast(s \o Halves(ev), 3)
<1>1. PICK m \in Nat, n \in Nat : m = Len(s) /\ n = Len(ev) /\ n <= 1
    OBVIOUS
<1> DEFINE H == Halves(ev)
           t == s \o H
<1>2. H \in Seq(Pieces) /\ Len(H) = 2 * n /\ \A i \in 1 .. 2 * n : \E j \in 1 .. n : H[i].e = ev[j]
    BY <1>1, HalvesAre
<1> HIDE DEF H
<1>3. PICK k \in Nat : k = 2 * n /\ k <= 2
    BY <1>1
<1>4. Len(H) = k
    BY <1>2, <1>3
<1>5. Len(t) = m + k /\ (\A i \in 1 .. m : t[i] = s[i]) /\ \A i \in 1 .. k : t[m + i] = H[i]
    <2>1. s \in Seq(Pieces) /\ H \in Seq(Pieces) /\ m = Len(s) /\ k = Len(H)
        BY <1>1, <1>2, <1>4
    <2> QED BY <2>1, Joined
<1> HIDE DEF t
<1>6. PICK i \in 1 .. m : /\ i >= m - 1 /\ s[i].h = 1 /\ FinalEvent(s[i].e)
                          /\ \A j \in i + 1 .. m : s[j].h = 1 => ~Counts(s[j].e)
    BY <1>1 DEF FiguresLast
<1>7. ASSUME NEW j \in i + 1 .. m + k, t[j].h = 1 PROVE ~Counts(t[j].e)
    <2>1. CASE j <= m
        <3>1. j \in 1 .. m /\ j \in i + 1 .. m
            BY <2>1
        <3> QED BY <1>5, <1>6, <1>7, <3>1
    <2>2. CASE j > m
        <3>1. PICK l \in 1 .. k : j = m + l
            <4>1. j - m \in 1 .. k
                BY <2>2
            <4> QED BY <4>1
        <3>2. PICK q \in 1 .. n : H[l].e = ev[q]
            BY <1>2, <1>3
        <3>3. t[j].e = ev[q]
            BY <1>5, <3>1, <3>2
        <3> QED BY <1>1, <3>3
    <2> QED BY <2>1, <2>2
<1>8. i \in 1 .. m + k /\ i >= (m + k) - 3 /\ t[i] = s[i]
    BY <1>3, <1>5, <1>6
<1>9. FiguresLast(t, 3)
    BY <1>5, <1>6, <1>7, <1>8 DEF FiguresLast
<1> QED BY <1>9 DEF t, H

-----------------------------------------------------------------------------
(* The steps.                                                                *)

\* The invariant after a step, part by part.
LEMMA InvAfter ==
    ASSUME TotalOK, UNCHANGED <<line, total>>, NEW s, s = source', NEW m, m = meter', NEW t, t = text', NEW q, q = pipe',
           SourceRight(s), ~Passthrough => MeterRight(m, s), SentRight(t, q, s), BillOK'
    PROVE  MeterInv'
<1>1. LineUp' = LineUp /\ LineClient' = LineClient /\ (Passthrough' <=> Passthrough)
    BY DEF LineUp, LineClient, Passthrough
<1>2. TotalOK'
    BY <1>1 DEF TotalOK
<1>3. \A n : SoFar(n)' = SoFar(n)
    BY DEF SoFar
<1>4. \A u : Due(u)' = Due(u)
    BY <1>1 DEF Due
<1>5. AnthropicSeen' = AnthropicSeen
    BY DEF AnthropicSeen
<1>6. SourceOK'
    BY <1>1, <1>3 DEF SourceOK, SourceRight, DoneOf
<1>7. MeterOK'
    BY <1>1, <1>4, <1>5 DEF MeterOK, MeterRight, ReportOf, DoneOf
<1>8. SentOK'
    <2>1. \A e, owed : FairEvent(e, owed)' <=> FairEvent(e, owed)
        BY <1>1 DEF FairEvent
    <2>2. \A e : TrueStart(e)' <=> TrueStart(e)
        BY <1>1, <1>4 DEF TrueStart
    <2>3. \A e : Counts(e)' <=> Counts(e)
        BY <1>1 DEF Counts, FinalKinds
    <2>4. \A e : FinalEvent(e)' <=> FinalEvent(e)
        BY <1>1, <1>4, <2>3 DEF FinalEvent
    <2> QED BY <1>1, <1>4, <2>1, <2>2, <2>3, <2>4 DEF SentOK, SentRight, FairText, FairPieces, FiguresLast, ReportOf, DoneOf
<1> QED BY <1>2, <1>6, <1>7, <1>8 DEF MeterInv

\* What was within a report is within the next.
LEMMA WithinGrows ==
    ASSUME NEW a \in Bills, NEW b \in Bills, Below(a, b), NEW use, Within(use, a)
    PROVE  Within(use, b)
<1>1. CASE use = <<>>
    BY <1>1 DEF Within
<1>2. CASE use # <<>>
    <2>1. PICK w \in IrUsages : use = <<w>> /\ use[1] = w
        BY <1>2 DEF Within, OptionalUsages
    <2>2. Below(IrBill(w), a)
        BY <1>2, <2>1 DEF Within
    <2>3. Below(IrBill(w), b)
        BY <2>2 DEF Below, IrBill, IrUsages, Bills
    <2> QED BY <2>1, <2>3 DEF Within
<1> QED BY <1>1, <1>2

\* The upstream says something, and the client is told.
LEMMA UpStep ==
    ASSUME MeterInv, NEW e, NEW fin, UpSends(e, fin), Said(e, fin, source')
    PROVE  MeterInv'
<1>1. PICK s : s = source'
    OBVIOUS
<1>2. Said(e, fin, s) /\ SourceRight(s)
    BY <1>1 DEF Said
<1>3. TotalOK /\ SourceOK /\ MeterOK /\ SentOK
    BY DEF MeterInv
<1>4. /\ pipe = <<>> /\ bill = <<>> /\ text' = text /\ bill' = bill /\ UNCHANGED <<line, total>>
    BY DEF UpSends
<1>5. BillOK'
    BY <1>4 DEF BillOK
<1> DEFINE owed == ReportOf(s)
<1>6. LineUp \in MeterProtocols /\ LineClient \in MeterProtocols /\ Reported \in Bills /\ Due(total) \in Bills
    BY <1>3, Protocols, ReportedIs
<1>7. owed \in Bills /\ Below(Reported, owed)
    <2>1. Unbilled \in Bills
        BY DEF Unbilled, Bills
    <2>2. s.last = <<>> \/ \E u \in UsageReports : s.last = <<u>>
        BY <1>2 DEF SourceRight, Sources
    <2>3. owed \in Bills
        BY <1>6, <2>1, <2>2, ReadAsDue DEF ReportOf
    <2> QED BY <1>2, <2>3 DEF Said
<1>8. text \in Seq(Pieces) /\ Len(text) <= TextMax /\ FairText(text, owed)
    <2>1. text \in Seq(Pieces) /\ Len(text) <= TextMax /\ FairText(text \o pipe, Reported)
        BY <1>3 DEF SentOK, SentRight, Reported
    <2>2. text \o pipe = text
        BY <1>4, <2>1, ConcatEmptySeq
    <2> HIDE DEF owed
    <2> QED BY <1>6, <1>7, <2>1, <2>2, FairGrows
<1>9. s.over = "no"
    BY <1>2 DEF Said
<1>10. ASSUME NEW ev, EventsOK(ev, owed, DoneOf(s) /\ ~(LineClient = "responses" /\ s.fin = "length")),
              Passthrough => Len(ev) = 1
       PROVE  SentRight(text, Halves(ev), s)
    <2>1. PICK n \in Nat : n = Len(ev) /\ n <= 2 /\ ev \in Seq(MeterEvents)
        BY <1>10 DEF EventsOK
    <2>2. Halves(ev) \in Seq(Pieces) /\ Len(Halves(ev)) = 2 * n
        BY <2>1, HalvesAre
    <2>3. 2 * n \in IF Passthrough THEN {0, 1, 2} ELSE {0, 2, 4}
        <3>1. n = 0 \/ n = 1 \/ n = 2
            BY <2>1
        <3>2. 2 * n = 0 \/ 2 * n = 2 \/ 2 * n = 4
            BY <3>1
        <3>3. Passthrough => 2 * n = 2
            BY <1>10, <2>1
        <3> QED BY <3>2, <3>3
    <2>4. FairText(text \o Halves(ev), owed)
        BY <1>8, <1>10, TextGrows
    <2>5. DoneOf(s) /\ ~(LineClient = "responses" /\ s.fin = "length") => FiguresLast(text \o Halves(ev), 1)
        BY <1>8, <1>10, TextGrows
    <2> QED BY <1>8, <1>9, <2>2, <2>3, <2>4, <2>5 DEF SentRight
<1>11. CASE Passthrough
    <2>1. pipe' = Halves(<<e>>)
        BY <1>11 DEF UpSends
    <2>2. EventsOK(<<e>>, owed, DoneOf(s) /\ ~(LineClient = "responses" /\ s.fin = "length"))
        BY <1>2, <1>3, <1>11, PassedOn
    <2>3. SentRight(text, Halves(<<e>>), s)
        BY <1>10, <2>2, Len(<<e>>) = 1
    <2> QED BY <1>1, <1>2, <1>3, <1>4, <1>5, <1>11, <2>1, <2>3, InvAfter
<1>12. CASE ~Passthrough
    <2> DEFINE r == chunk_usage(e, fin)
               c == r.chunk
               m == [meter EXCEPT !.seen = r.seen]
               o == client_events(c, m)
               done == DoneOf(s)
               pend == IF c.fin = "none" THEN m.pend ELSE c.fin
    <2>1. pipe' = Halves(o.events) /\ meter' = o.m
        BY <1>12 DEF UpSends
    <2>2. /\ ChunkOK(c, owed, done) /\ c.fin = fin /\ r.seen \in IrUsages
          /\ s.last = <<>> => c.use = <<>>
          /\ fin = "stop" \/ fin = "length" => (c.use = <<>> <=> s.last = <<>>)
          /\ LineUp = "anthropic" /\ s.fin = "none" => r.seen = AnthropicSeen
        BY <1>2, <1>3, <1>12, ChunkMade
    <2>3. MeterRight(meter, source)
        BY <1>3, <1>12 DEF MeterOK
    <2>4. done \in BOOLEAN
        BY DEF DoneOf
    <2>5. /\ m \in Meters /\ m.seen = r.seen /\ m.use = meter.use /\ m.pend = meter.pend /\ m.ended = meter.ended
        <3> HIDE DEF r
        <3> QED BY <2>2, <2>3 DEF MeterRight, Meters
    <2>6. Within(m.use, owed)
        <3>1. Within(meter.use, Reported)
            BY <2>3 DEF MeterRight, Reported
        <3> HIDE DEF m, owed
        <3> QED BY <1>6, <1>7, <2>5, <3>1, WithinGrows
    <2> HIDE DEF m, c, r, owed
    <2>7. pend = IF fin = "none" THEN meter.pend ELSE fin
        BY <2>2, <2>5
    <2>8. done => c.use # <<>>
        BY <2>2 DEF ChunkOK
    <2> HIDE DEF pend
    <2>9. LineClient \in {"anthropic", "responses"} =>
            /\ ~m.ended
            /\ s.fin \in {"stop", "length"} => pend = s.fin
            /\ s.fin = "none" => pend = "none"
            /\ s.fin = "failed" => pend = "failed"
            /\ pend \in {"stop", "length"} => pend = s.fin
            /\ pend \in {"stop", "length"} /\ c.use = <<>> => m.use = <<>>
        <3> SUFFICES ASSUME LineClient \in {"anthropic", "responses"}
                     PROVE  /\ ~m.ended
                            /\ s.fin \in {"stop", "length"} => pend = s.fin
                            /\ s.fin = "none" => pend = "none"
                            /\ s.fin = "failed" => pend = "failed"
                            /\ pend \in {"stop", "length"} => pend = s.fin
                            /\ pend \in {"stop", "length"} /\ c.use = <<>> => m.use = <<>>
            OBVIOUS
        <3>1. CASE source.fin = "none"
            <4>1. meter.pend = "none" /\ ~meter.ended
                BY <2>3, <3>1 DEF MeterRight
            <4>2. s.fin = fin /\ fin \in {"none", "stop", "length", "failed"}
                BY <1>2, <3>1 DEF Said
            <4>3. pend = fin
                BY <2>7, <4>1
            <4>4. ASSUME pend \in {"stop", "length"}, c.use = <<>> PROVE m.use = <<>>
                <5>1. s.last = <<>>
                    BY <2>2, <4>3, <4>4
                <5>2. source.last = <<>>
                    BY <1>2, <5>1 DEF Said
                <5> QED BY <2>3, <2>5, <5>2 DEF MeterRight
            <4> QED BY <2>5, <4>1, <4>2, <4>3, <4>4
        <3>2. CASE source.fin # "none"
            <4>1. fin = "none" /\ source.fin \in {"stop", "length"} /\ source.last = <<>> /\ e.use = <<total>> /\ s.fin = source.fin
                BY <1>2, <3>2 DEF Said
            <4>2. meter.pend = source.fin /\ ~meter.ended /\ meter.use = <<>>
                BY <2>3, <4>1 DEF MeterRight
            <4> QED BY <2>5, <2>7, <4>1, <4>2
        <3> QED BY <3>1, <3>2
    <2>10. LineClient \in {"anthropic", "responses"} =>
            /\ ~m.ended /\ (done => pend \in {"stop", "length"})
            /\ pend \in {"stop", "length"} /\ c.use = <<>> => m.use = <<>>
        BY <2>9 DEF DoneOf
    <2> DEFINE ends == pend # "none" /\ (pend = "failed" \/ c.use # <<>>)
               whole == done /\ ~(LineClient = "responses" /\ pend = "length")
    <2> HIDE DEF done
    <2>a. pend = IF c.fin = "none" THEN m.pend ELSE c.fin
        BY DEF pend
    <2>11. /\ EventsOK(o.events, owed, whole)
           /\ o.m \in Meters /\ o.m.seen = m.seen /\ Within(o.m.use, owed)
           /\ c.use = <<>> => o.m.use = m.use
           /\ LineClient \in {"anthropic", "responses"} =>
                /\ o.m.started
                /\ o.m.ended <=> ends
                /\ o.m.pend = IF ends THEN "none" ELSE pend
        BY <1>6, <1>7, <1>12, <2>2, <2>4, <2>5, <2>6, <2>10, <2>a, ClientOut
    <2> HIDE DEF o
    <2>12. whole <=> done /\ ~(LineClient = "responses" /\ s.fin = "length")
        BY <2>9 DEF done, DoneOf
    <2>13. SentRight(text, Halves(o.events), s)
        <3>1. EventsOK(o.events, owed, DoneOf(s) /\ ~(LineClient = "responses" /\ s.fin = "length"))
            BY <2>11, <2>12 DEF EventsOK, done
        <3> QED BY <1>10, <1>12, <3>1 DEF owed
    <2>14. MeterRight(o.m, s)
        <3>1. s.deltas >= 0
            BY <1>2 DEF Said
        <3>2. s.last = <<>> => o.m.use = <<>>
            <4> SUFFICES ASSUME s.last = <<>> PROVE o.m.use = <<>>
                OBVIOUS
            <4>1. source.last = <<>>
                BY <1>2 DEF Said
            <4> QED BY <2>2, <2>3, <2>5, <2>11, <4>1 DEF MeterRight
        <3>3. LineUp = "anthropic" /\ s.fin = "none" => o.m.seen = AnthropicSeen
            BY <2>2, <2>5, <2>11
        <3>4. LineClient \in {"anthropic", "responses"} =>
                /\ s.fin = "none" => o.m.pend = "none" /\ ~o.m.ended
                /\ s.fin \in {"stop", "length"} /\ s.last = <<>> => o.m.pend = s.fin /\ ~o.m.ended
                /\ done => o.m.ended
            BY <2>2, <2>8, <2>9, <2>11 DEF done, DoneOf
        <3> QED BY <2>11, <3>1, <3>2, <3>3, <3>4 DEF MeterRight, owed, done
    <2> QED BY <1>1, <1>2, <1>3, <1>4, <1>5, <2>1, <2>13, <2>14, InvAfter DEF m, c, r, o
<1> QED BY <1>11, <1>12

\* The upstream's stream ends.
LEMMA EndStep ==
    ASSUME MeterInv, SourceEnds
    PROVE  MeterInv'
<1>1. PICK over \in {"eof", "broken"} :
        /\ source' = [source EXCEPT !.over = over]
        /\ pipe' = IF Passthrough THEN <<>> ELSE Halves(last_events(over = "broken"))
    BY DEF SourceEnds
<1>2. TotalOK /\ SourceOK /\ MeterOK /\ SentOK
    BY DEF MeterInv
<1>3. /\ source.over = "no" /\ pipe = <<>> /\ bill = <<>>
      /\ text' = text /\ bill' = bill /\ meter' = meter /\ UNCHANGED <<line, total>>
    BY DEF SourceEnds
<1>4. BillOK'
    BY <1>3 DEF BillOK
<1>5. PICK s : s = source'
    OBVIOUS
<1>6. /\ s \in Sources /\ s.deltas = source.deltas /\ s.said = source.said /\ s.last = source.last /\ s.fin = source.fin
      /\ s.over = over /\ s.over # "no"
    <2>1. source \in Sources
        BY <1>2 DEF SourceOK, SourceRight
    <2> QED BY <1>1, <1>5, <2>1 DEF Sources
<1>7. ReportOf(s) = Reported /\ (DoneOf(s) <=> Done)
    BY <1>6 DEF ReportOf, Reported, DoneOf, Done
<1>8. SourceRight(s)
    BY <1>2, <1>6 DEF SourceOK, SourceRight, DoneOf
<1>9. ~Passthrough => MeterRight(meter, s)
    BY <1>2, <1>6 DEF MeterOK, MeterRight, ReportOf, DoneOf
<1>10. /\ text \in Seq(Pieces) /\ Len(text) <= TextMax /\ FairText(text, Reported)
       /\ Done => (LineClient = "responses" /\ s.fin = "length") \/ FiguresLast(text, 1)
    <2>1. text \o pipe = text
        BY <1>2, <1>3, ConcatEmptySeq DEF SentOK, SentRight
    <2> QED BY <1>2, <1>3, <1>6, <2>1 DEF SentOK, SentRight, Reported, Done
<1>11. SentRight(text, pipe', s)
    <2>1. CASE Passthrough
        <3>1. pipe' = <<>> /\ text \o <<>> = text
            BY <1>1, <1>10, <2>1, ConcatEmptySeq
        <3>2. FiguresLast(text, 1) => FiguresLast(text, 3)
            <4>1. PICK n \in Nat : n = Len(text)
                BY <1>10
            <4> QED BY <4>1 DEF FiguresLast
        <3>3. <<>> \in Seq(Pieces) /\ Len(<<>>) = 0
            OBVIOUS
        <3>4. SentRight(text, <<>>, s)
            BY <1>6, <1>7, <1>10, <2>1, <3>1, <3>2, <3>3 DEF SentRight
        <3> QED BY <3>1, <3>4
    <2>2. CASE ~Passthrough
        <3> DEFINE ev == last_events(over = "broken")
        <3>1. pipe' = Halves(ev)
            BY <1>1, <2>2
        <3>2. EventsOK(ev, Reported, FALSE) /\ (Done => Len(ev) <= 1 /\ \A i \in 1 .. Len(ev) : ~Counts(ev[i]))
            BY <1>2, <2>2, LastEvents
        <3> HIDE DEF ev
        <3>3. PICK n \in Nat : n = Len(ev) /\ n <= 2 /\ ev \in Seq(MeterEvents)
            BY <3>2 DEF EventsOK
        <3>4. Halves(ev) \in Seq(Pieces) /\ Len(Halves(ev)) = 2 * n
            BY <3>3, HalvesAre
        <3>5. 2 * n \in {0, 2, 4}
            <4>1. n = 0 \/ n = 1 \/ n = 2
                BY <3>3
            <4> QED BY <4>1
        <3>6. FairText(text \o Halves(ev), Reported)
            BY <1>10, <3>2, TextGrows
        <3>7. Done /\ FiguresLast(text, 1) => FiguresLast(text \o Halves(ev), 3)
            BY <1>10, <3>2, <3>3, EndsStays
        <3>8. SentRight(text, Halves(ev), s)
            BY <1>6, <1>7, <1>10, <2>2, <3>4, <3>5, <3>6, <3>7 DEF SentRight
        <3> QED BY <3>1, <3>8
    <2> QED BY <2>1, <2>2
<1> QED BY <1>2, <1>3, <1>4, <1>5, <1>8, <1>9, <1>11, InvAfter

\* A piece goes to the client and into the text.
LEMMA PollStep ==
    ASSUME MeterInv, Poll
    PROVE  MeterInv'
<1>1. TotalOK /\ SourceOK /\ MeterOK /\ SentOK
    BY DEF MeterInv
<1> DEFINE n == IF Passthrough THEN 1 ELSE 2
           t == append_chunk(text, SubSeq(pipe, 1, n))
           q == SubSeq(pipe, n + 1, Len(pipe))
<1>2. /\ pipe # <<>> /\ bill = <<>> /\ text' = t /\ pipe' = q
      /\ source' = source /\ meter' = meter /\ bill' = bill /\ UNCHANGED <<line, total>>
    BY DEF Poll
<1>3. BillOK'
    BY <1>2 DEF BillOK
<1>4. text \in Seq(Pieces) /\ pipe \in Seq(Pieces) /\ Len(text) <= TextMax
    BY <1>1 DEF SentOK, SentRight
<1>5. /\ n \in Nat /\ n >= 1 /\ n <= Len(pipe)
      /\ Len(pipe) - n \in IF Passthrough THEN {0, 1, 2} ELSE {0, 2, 4}
    <2>1. PICK l \in Nat : l = Len(pipe) /\ l > 0 /\ l \in IF Passthrough THEN {0, 1, 2} ELSE {0, 2, 4}
        <3>1. Len(pipe) \in IF Passthrough THEN {0, 1, 2} ELSE {0, 2, 4}
            BY <1>1 DEF SentOK, SentRight
        <3>2. Len(pipe) \in Nat /\ Len(pipe) # 0
            BY <1>2, <1>4, EmptySeq
        <3>3. PICK l \in Nat : l = Len(pipe) /\ l # 0
            BY <3>2
        <3>4. l > 0
            BY <3>3
        <3> QED BY <3>1, <3>3, <3>4, Zenon
    <2>2. CASE Passthrough
        BY <2>1, <2>2
    <2>3. CASE ~Passthrough
        BY <2>1, <2>3
    <2> QED BY <2>2, <2>3
<1> HIDE DEF n
<1>6. /\ t \in Seq(Pieces) /\ q \in Seq(Pieces) /\ Len(t) <= TextMax /\ Len(q) = Len(pipe) - n
      /\ \E d \in Nat : TailOf(t \o q, text \o pipe, d)
    BY <1>4, <1>5, PollMoves
<1> HIDE DEF t, q
<1>7. PICK d \in Nat : TailOf(t \o q, text \o pipe, d)
    BY <1>6
<1>8. FairText(text \o pipe, ReportOf(source))
    BY <1>1 DEF SentOK, SentRight
<1>9. FairText(t \o q, ReportOf(source)) /\ \A slack \in {1, 3} : FiguresLast(text \o pipe, slack) => FiguresLast(t \o q, slack)
    BY <1>7, <1>8, TailKeeps
<1>10. SentRight(t, q, source)
    <2>1. Len(q) \in IF Passthrough THEN {0, 1, 2} ELSE {0, 2, 4}
        BY <1>5, <1>6
    <2> QED BY <1>1, <1>6, <1>9, <2>1 DEF SentOK, SentRight
<1>11. SourceRight(source) /\ (~Passthrough => MeterRight(meter, source))
    BY <1>1 DEF SourceOK, MeterOK
<1> QED BY <1>1, <1>2, <1>3, <1>10, <1>11, InvAfter

\* The bill is read from the text.
LEMMA BillStep ==
    ASSUME MeterInv, finalize_stream \/ UNCHANGED meterVars
    PROVE  MeterInv'
<1>1. TotalOK /\ SourceOK /\ MeterOK /\ SentOK /\ BillOK
    BY DEF MeterInv
<1>2. source' = source /\ meter' = meter /\ text' = text /\ pipe' = pipe /\ UNCHANGED <<line, total>>
    BY DEF finalize_stream, meterVars
<1>3. LineClient' = LineClient
    BY <1>2 DEF LineClient
<1>4. extract_sse_usage(LineClient, text)' = extract_sse_usage(LineClient, text)
    BY <1>2, <1>3 DEF extract_sse_usage, parse_sse_data, extract_json_usage, uncached_prompt, Unbilled
<1>5. BillOK'
    BY <1>1, <1>4 DEF BillOK, finalize_stream, meterVars
<1>6. SourceRight(source) /\ (~Passthrough => MeterRight(meter, source)) /\ SentRight(text, pipe, source)
    BY <1>1 DEF SourceOK, MeterOK, SentOK
<1> QED BY <1>1, <1>2, <1>5, <1>6, InvAfter

\* Every step keeps the invariant.
LEMMA MeterStep == MeterInv /\ [MeterNext]_meterVars => MeterInv'
<1> SUFFICES ASSUME MeterInv, [MeterNext]_meterVars PROVE MeterInv'
    OBVIOUS
<1>1. TotalOK /\ SourceOK
    BY DEF MeterInv
<1>2. CASE UpContent \/ UpFinish \/ UpTail \/ UpFailure
    <2>1. \E e, fin : UpSends(e, fin) /\ Said(e, fin, source')
        BY <1>1, <1>2, ContentSays, FinishSays, TailSays, FailureSays
    <2> QED BY <2>1, UpStep
<1>3. CASE SourceEnds
    BY <1>3, EndStep
<1>4. CASE Poll
    BY <1>4, PollStep
<1>5. CASE finalize_stream \/ UNCHANGED meterVars
    BY <1>5, BillStep
<1> QED BY <1>2, <1>3, <1>4, <1>5 DEF MeterNext

\* Nothing was sent and nothing is due.
LEMMA MeterStarts == MeterInit => MeterInv
<1> SUFFICES ASSUME MeterInit PROVE MeterInv
    OBVIOUS
<1>1. TotalOK
    BY DEF MeterInit, TotalOK
<1>2. source = [deltas |-> -1, said |-> 0, last |-> <<>>, fin |-> "none", over |-> "no"] /\ text = <<>> /\ pipe = <<>> /\ bill = <<>>
    BY DEF MeterInit
<1>3. SourceOK
    <2>1. total.output \in Nat /\ MaxDeltas \in Nat
        BY <1>1, Protocols, MeterAssumption DEF UsageReports
    <2>2. source \in Sources
        BY <1>2, <2>1 DEF Sources
    <2> QED BY <1>2, <2>1, <2>2 DEF SourceOK, SourceRight, DoneOf
<1>4. MeterOK
    <2>1. meter = [seen |-> DefaultUsage, started |-> FALSE, pend |-> "none", use |-> <<>>, ended |-> FALSE]
        BY DEF MeterInit, MeterStart
    <2>2. DefaultUsage \in IrUsages
        BY DEF DefaultUsage, IrUsages
    <2>3. meter \in Meters /\ Within(meter.use, ReportOf(source))
        BY <2>1, <2>2 DEF Meters, Within, OptionalUsages
    <2> QED BY <1>2, <2>1, <2>3 DEF MeterOK, MeterRight, DoneOf
<1>5. SentOK
    <2>1. <<>> \in Seq(Pieces) /\ Len(<<>>) = 0 /\ <<>> \o <<>> = <<>>
        OBVIOUS
    <2>2. FairText(<<>>, ReportOf(source))
        BY <2>1 DEF FairText, FairPieces
    <2>3. 0 <= TextMax /\ ~DoneOf(source)
        BY <1>2, MeterAssumption DEF DoneOf
    <2> QED BY <1>2, <2>1, <2>2, <2>3 DEF SentOK, SentRight
<1>6. BillOK
    BY <1>2 DEF BillOK
<1> QED BY <1>1, <1>3, <1>4, <1>5, <1>6 DEF MeterInv

\* The bill of a stream, for any protocols on either side, any figures and any
\* number of events: what the answer costs in one piece if it ran to its end,
\* but for the losses named in BillingGaps, and never more than was reported.
THEOREM StreamIsBilledFairly ==
    {"late_usage", "cut_answer", "cache_write", "long_stream"} \subseteq BillingGaps => (MeterSpec => []BilledFairly)
<1> SUFFICES ASSUME {"late_usage", "cut_answer", "cache_write", "long_stream"} \subseteq BillingGaps
             PROVE  MeterSpec => []BilledFairly
    OBVIOUS
<1>1. MeterInv => BilledFairly
    BY InvIsFair
<1> QED BY <1>1, MeterStarts, MeterStep, PTL DEF MeterSpec
=============================================================================
