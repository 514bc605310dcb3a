------------------------------ MODULE Pricing ------------------------------
(***************************************************************************)
(* The price of a logged event: the rules of its channel and model, the     *)
(* table of exchange rates (manual rows, and rows fetched from a provider), *)
(* and the way of the event to its row.  insert_batch prices a copy of its  *)
(* events: the price is lost with an attempt that fails, the event goes to  *)
(* the WAL without it, and the next attempt prices it again.  A media task  *)
(* is priced once, by its poller.  Amounts are integers in units of         *)
(* 1 / (Million * Scale), rates fractions.                                  *)
(***************************************************************************)
EXTENDS Integers, Sequences, FiniteSets, FiniteSetsExt, SequencesExt

CONSTANTS
    RuleTables,     \* tables of price rules
    FxTables,       \* tables of exchange rates at the start
    LoggedEvents,   \* events the gateway logs
    FxProviders,    \* configured providers: "usd_base", "cny_base", "ecb"
    FxRates,        \* rates that are entered or fetched
    DefaultRate,    \* DEFAULT_USD_CNY
    Scale,          \* a multiple of all rates, so that division is exact
    Million,        \* tokens per price unit
    FxStaleMax,     \* fx_stale_max_minutes
    DayLength,      \* minutes of a day
    TzShift,        \* offset of billing_timezone
    MaxMinutes,     \* bound on the clock
    MaxFxWrites     \* bound on the writes of rates and rules

ASSUME PricingAssumption ==
    /\ {DefaultRate, Scale, Million, DayLength} \subseteq Nat \ {0}
    /\ {FxStaleMax, TzShift, MaxMinutes, MaxFxWrites} \subseteq Nat
    /\ FxProviders \subseteq {"usd_base", "cny_base", "ecb"}
    /\ \A r \in FxRates \cup {DefaultRate} : Scale % r = 0

VARIABLES
    rules,      \* price_rules of the channel and model
    fx,         \* fx_rates: rows by (from, to, source)
    minute,     \* the clock
    fetch,      \* rates of a fetch that are not stored yet
    fxWrites,   \* number of writes of rates and rules
    event,      \* the event, with its time, or NoEvent
    queued,     \* price fields of its copy in the queue or the writer's batch
    wal,        \* price fields of its line in the WAL
    attempt,    \* what each of Pricers is doing
    task_price, \* media_tasks: the price the poller stored with the task
    log_row,    \* usage_logs: price fields of its row
    spent       \* usage_hourly and quota_usage: the prices added so far

tableVars == <<rules, fx, minute, fetch, fxWrites>>
billVars == <<event, queued, wal, attempt, task_price, log_row, spent>>
pricingVars == <<tableVars, billVars>>

TokenUnits == {"token_in", "token_out", "token_cache_write", "token_cache_read"}
PriceUnits == TokenUnits \cup {"image", "video_second"}
Currencies == {"CNY", "USD"}
NoEvent == [kind |-> "none"]

\* Price fields.  priced: pricing_source is Some.
Unpriced == [priced |-> FALSE]
Nowhere == [priced |-> FALSE, copy |-> "none"]

\* insert_batch of the writer and of the replay, and the poller of media tasks
Inserters == {"writer", "replay"}
Pricers == Inserters \cup {"poller"}
AtRest == [pc |-> "rest"]

\* The table checks the currency; a window has two times of a day (HH:MM).
Times == 0 .. DayLength - 1
Segments == [price : Int, days : SUBSET Int, windows : SUBSET (Times \X Times), min : Int, max : Int]

\* fx_rates holds one row by pair and source.
FxSound(table) ==
    /\ \A r \in table : r.rate \in FxRates /\ r.source \in {"manual", "auto"}
    /\ \A a, b \in table : <<a.from, a.to, a.source>> = <<b.from, b.to, b.source>> => a = b

ASSUME RuleAssumption ==
    /\ \A table \in RuleTables : \A r \in table : r.currency \in Currencies /\ r.segments \in Seq(Segments)
    /\ \A table \in FxTables : FxSound(table)
    /\ \A e \in LoggedEvents : e.use \in [PriceUnits -> Int]

PricingInit ==
    /\ rules \in RuleTables /\ fx \in FxTables
    /\ minute = 0 /\ fetch = <<>> /\ fxWrites = 0
    /\ event = NoEvent /\ queued = Nowhere /\ wal = Nowhere
    /\ attempt = [a \in Pricers |-> AtRest]
    /\ task_price = Unpriced /\ log_row = Nowhere /\ spent = <<>>

-----------------------------------------------------------------------------
(* The rule that applies *)

\* Half seconds are rounded up, to one second at least.
ceil_seconds(h) == Max({1, (h + 1) \div 2})

\* use: tokens, images, half seconds of video (-1 if absent)
HasQuantity(u, e) == e.use[u] > 0 \/ (u = "video_second" /\ e.use[u] = 0)
unit_quantity(u, e) == IF u = "video_second" THEN ceil_seconds(e.use[u]) ELSE e.use[u]
input_dimension_key(u, e) == IF u \in TokenUnits THEN "" ELSE e.dim

in_effect(r, at) == r.from <= at /\ at <= r.to

\* Bug: a window over midnight is empty
window_hit_NoWrap(w, m) == w[1] <= m /\ m <= w[2]

\* Closed, or over midnight and open at its end.
window_hit(w, m) == IF w[1] <= w[2] THEN w[1] <= m /\ m <= w[2] ELSE m >= w[1] \/ m < w[2]

context_value(r, e) == e.use["token_in"] + IF r.basis = "total_tokens" THEN e.use["token_out"] ELSE 0

segment_matches(s, ctx, day, m) ==
    /\ s.days = {} \/ day \in s.days
    /\ s.windows = {} \/ \E w \in s.windows : window_hit(w, m)
    /\ s.min <= ctx /\ ctx <= s.max

\* The first segment that matches, else the base price.
match_segment(r, e) ==
    LET local == e.at + TzShift
        hits == {i \in DOMAIN r.segments :
                    segment_matches(r.segments[i], context_value(r, e), local \div DayLength, local % DayLength)}
    IN IF hits = {} THEN r.base ELSE r.segments[Min(hits)].price

\* Rules in effect with the dimension of the event, else without dimension.
\* The unique key of the table leaves one rule per currency.
Candidates(u, e) ==
    LET active == {r \in rules : r.unit = u /\ r.enabled /\ in_effect(r, e.at)}
        exact == {r \in active : r.dim = input_dimension_key(u, e)}
    IN IF exact # {} THEN exact ELSE {r \in active : r.dim = ""}

Cost(u, price, quantity) == price * quantity * Scale * IF u \in TokenUnits THEN 1 ELSE Million

UsageLines(e) ==
    UNION {{[unit |-> u, currency |-> r.currency, price |-> match_segment(r, e)] : r \in Candidates(u, e)} :
           u \in {x \in PriceUnits : HasQuantity(x, e)}}

LineCost(l, e) == Cost(l.unit, l.price, unit_quantity(l.unit, e))

-----------------------------------------------------------------------------
(* The rate that applies *)

Pair(row) == <<row.from, row.to>>
Rate(n, d, source) == [num |-> n, den |-> d, source |-> source]

UsableRow(row, now) == row.source = "manual" \/ now - row.at <= FxStaleMax

\* What a batch reads: the rows, and the time.
\* The direct rows of a pair: a manual one is preferred.
Direct(reading, pair) ==
    LET usable == {row \in reading.fx : Pair(row) = pair /\ UsableRow(row, reading.now)}
        manual == {row \in usable : row.source = "manual"}
    IN IF manual # {} THEN manual ELSE usable

\* A direction without a row is derived from the other one.
build_fx_set(reading, pair) ==
    IF Direct(reading, pair) # {} THEN {Rate(row.rate, 1, row.source) : row \in Direct(reading, pair)}
    ELSE {Rate(1, row.rate, row.source) : row \in Direct(reading, <<pair[2], pair[1]>>)}

Builtin(pair) ==
    IF pair = <<"USD", "CNY">> THEN Rate(DefaultRate, 1, "builtin") ELSE Rate(1, DefaultRate, "builtin")

convert(reading, from, to) ==
    LET known == build_fx_set(reading, <<from, to>>)
    IN IF known # {} THEN CHOOSE r \in known : TRUE ELSE Builtin(<<from, to>>)

Converted(amount, rate) == (amount * rate.num) \div rate.den
Other(c) == IF c = "CNY" THEN "USD" ELSE "CNY"

\* The conversions that were made, for the record.
FxUsed(reading, lines) ==
    {[from |-> l.currency, to |-> Other(l.currency), rate |-> convert(reading, l.currency, Other(l.currency))] : l \in lines}

\* Sum of the lines in one currency, and of the others converted to it.
TotalIn(reading, c, lines, e) ==
    SumFunction([l \in lines |-> IF l.currency = c THEN LineCost(l, e)
                                 ELSE Converted(LineCost(l, e), convert(reading, l.currency, c))])

price_with_rules(e, reading) ==
    LET lines == UsageLines(e)
    IN IF lines = {} THEN Unpriced
       ELSE [priced |-> TRUE,
             cost_cny |-> TotalIn(reading, "CNY", lines, e), cost_usd |-> TotalIn(reading, "USD", lines, e),
             price_used |-> lines, fx_snapshot |-> FxUsed(reading, lines)]

-----------------------------------------------------------------------------
(* The event on its way *)

has_usage(e) == \E u \in PriceUnits : HasQuantity(u, e)

\* Bug: the price fields are left out of the line
encode_line_SkipsPrice(p) == [f \in DOMAIN p \ {"priced"} |-> p[f]]

\* A line of the WAL has every field of the event under its name.
encode_line(p) == [f \in DOMAIN p |-> p[f]]

\* A field that is missing in a line has its default.
decode_line(line) == [f \in DOMAIN line \cup {"priced"} |-> IF f \in DOMAIN line THEN line[f] ELSE FALSE]

\* LogSink.log: the queue takes the event, or is full and the WAL takes it.
Handed(p) ==
    \/ queued' = p /\ UNCHANGED wal
    \/ wal' = encode_line(p) /\ UNCHANGED queued

Happened(e) == [kind |-> "event", at |-> minute, failed |-> e.failed, use |-> e.use, dim |-> e.dim]

Moves(a, state) == attempt' = [attempt EXCEPT ![a] = state]

\* The gateway logs an event without a price.
log_event(e) ==
    /\ event = NoEvent /\ event' = Happened(e)
    /\ Handed(Unpriced)
    /\ UNCHANGED <<tableVars, attempt, task_price, log_row, spent>>

\* Failures and events that have a price are skipped.
ToPrice(p) == ~event.failed /\ ~p.priced /\ has_usage(event)

Copy(a) == IF a = "writer" THEN queued ELSE IF wal = Nowhere THEN Nowhere ELSE decode_line(wal)

Reading == [pc |-> "rules", fx |-> fx, now |-> minute]

\* Ghosts: made from the reading and the rules (table), or found.
Priced(e, reading) ==
    [pc |-> "insert", price |-> price_with_rules(e, reading), made |-> TRUE, reading |-> reading, table |-> rules]
Found(p) == [pc |-> "insert", price |-> p, made |-> FALSE]

\* insert_batch clones its events; price_batch reads the rates first,
BeginInsert(a) ==
    /\ attempt[a] = AtRest /\ Copy(a) # Nowhere
    /\ Moves(a, IF ToPrice(Copy(a)) THEN Reading ELSE Found(Copy(a)))
    /\ UNCHANGED <<tableVars, event, queued, wal, task_price, log_row, spent>>

\* then the rules.
price_batch(a) ==
    /\ attempt[a].pc = "rules"
    /\ Moves(a, Priced(event, attempt[a]))
    /\ UNCHANGED <<tableVars, event, queued, wal, task_price, log_row, spent>>

\* ON CONFLICT (request_id, ts) DO NOTHING; the totals add what was inserted.
CommitRow(p) ==
    IF log_row = Nowhere THEN log_row' = p /\ spent' = Append(spent, p) ELSE UNCHANGED <<log_row, spent>>

\* The writer's batch is done with; a file that was replayed is archived, unless it is active.
insert_batch(a) ==
    /\ a \in Inserters /\ attempt[a].pc = "insert"
    /\ CommitRow(attempt[a].price)
    /\ Moves(a, AtRest)
    /\ \/ a = "writer" /\ queued' = Nowhere /\ UNCHANGED wal
       \/ a = "replay" /\ wal' \in {wal, Nowhere} /\ UNCHANGED queued
    /\ UNCHANGED <<tableVars, event, task_price>>

\* A statement fails, or the answer to COMMIT is lost.  The writer appends its batch, as it
\* is, to the WAL; it keeps it if nothing could be written (LogPipeline has the other faults).
InsertFails(a) ==
    /\ a \in Inserters /\ attempt[a] # AtRest
    /\ \/ attempt[a].pc = "insert" /\ CommitRow(attempt[a].price)
       \/ UNCHANGED <<log_row, spent>>
    /\ Moves(a, AtRest)
    /\ \/ a = "writer" /\ queued' = Nowhere /\ wal' = encode_line(queued)
       \/ UNCHANGED <<queued, wal>>
    /\ UNCHANGED <<tableVars, event, task_price>>

\* The provider has finished a media task: the poller prices it with price_one,
MediaEnds(e) ==
    /\ event = NoEvent /\ event' = Happened(e) /\ ~e.failed /\ HasQuantity("image", e)
    /\ Moves("poller", Reading)
    /\ UNCHANGED <<tableVars, queued, wal, task_price, log_row, spent>>

\* stores the price with the task, and logs the event with that price; without one if
\* no rule applies or price_one fails.
finalize_succeeded ==
    LET p == IF attempt["poller"].pc = "insert" THEN attempt["poller"].price ELSE Unpriced
    IN  /\ attempt["poller"] # AtRest
        /\ task_price' = p /\ Handed(p)
        /\ Moves("poller", AtRest)
        /\ UNCHANGED <<tableVars, event, log_row, spent>>

\* The UPDATE of the task fails, or another round was first: nothing is logged.
FinalizeFails ==
    /\ attempt["poller"] # AtRest
    /\ event' = NoEvent /\ Moves("poller", AtRest)
    /\ UNCHANGED <<tableVars, queued, wal, task_price, log_row, spent>>

\* The process dies and starts again.
PricerCrash ==
    /\ event' = IF attempt["poller"] = AtRest THEN event ELSE NoEvent
    /\ queued' = Nowhere /\ attempt' = [a \in Pricers |-> AtRest]
    /\ UNCHANGED <<tableVars, wal, task_price, log_row, spent>>

-----------------------------------------------------------------------------
(* The tables *)

\* A rule is added, changed or removed.
put_rules ==
    /\ fxWrites < MaxFxWrites /\ fxWrites' = fxWrites + 1
    /\ rules' \in RuleTables
    /\ UNCHANGED <<fx, minute, fetch, billVars>>

Upsert(row) == fx' = {r \in fx : <<r.from, r.to, r.source>> # <<row.from, row.to, row.source>>} \cup {row}

put_fx(from, to, rate) ==
    /\ fxWrites < MaxFxWrites /\ fxWrites' = fxWrites + 1
    /\ Upsert([from |-> from, to |-> to, source |-> "manual", rate |-> rate, at |-> 0])
    /\ UNCHANGED <<rules, minute, fetch, billVars>>

\* What a provider reports: pairs from its base.
Reported(provider, rate) ==
    CASE provider = "usd_base" -> <<[from |-> "USD", to |-> "CNY", rate |-> rate]>>
      [] provider = "cny_base" -> <<[from |-> "CNY", to |-> "USD", rate |-> rate]>>
      [] provider = "ecb" -> <<[from |-> "EUR", to |-> "USD", rate |-> rate], [from |-> "EUR", to |-> "CNY", rate |-> rate]>>

\* fetch_and_store: the whole answer is read and parsed first,
FetchAnswers(provider, rate) ==
    /\ fetch = <<>> /\ fxWrites < MaxFxWrites /\ fxWrites' = fxWrites + 1
    /\ fetch' = Reported(provider, rate)
    /\ UNCHANGED <<rules, fx, minute, billVars>>

\* then each rate is stored in a statement of its own;
FetchStores ==
    /\ fetch # <<>> /\ fetch' = Tail(fetch)
    /\ Upsert([from |-> Head(fetch).from, to |-> Head(fetch).to, source |-> "auto", rate |-> Head(fetch).rate, at |-> minute])
    /\ UNCHANGED <<rules, minute, fxWrites, billVars>>

\* an error leaves the rest as it was.
FetchStops ==
    /\ fetch # <<>> /\ fetch' = <<>>
    /\ UNCHANGED <<rules, fx, minute, fxWrites, billVars>>

MinutePasses ==
    /\ minute < MaxMinutes /\ minute' = minute + 1
    /\ UNCHANGED <<rules, fx, fetch, fxWrites, billVars>>

PricingNext ==
    \/ \E e \in LoggedEvents : log_event(e) \/ MediaEnds(e)
    \/ \E a \in Pricers : price_batch(a)
    \/ \E a \in Inserters : BeginInsert(a) \/ insert_batch(a) \/ InsertFails(a)
    \/ finalize_succeeded \/ FinalizeFails \/ PricerCrash \/ put_rules
    \/ \E from \in Currencies, rate \in FxRates : put_fx(from, Other(from), rate)
    \/ \E provider \in FxProviders, rate \in FxRates : FetchAnswers(provider, rate)
    \/ FetchStores \/ FetchStops \/ MinutePasses

PricingSpec == PricingInit /\ [][PricingNext]_pricingVars

-----------------------------------------------------------------------------
\* The attempts that have made a price, and the prices there are.
Makers == {a \in Pricers : attempt[a].pc = "insert" /\ attempt[a].made}
PricesKept == {Copy("writer"), Copy("replay"), task_price, log_row} \cup {attempt[a].price : a \in Makers}

PricingTypeOK ==
    /\ minute \in 0 .. MaxMinutes /\ fxWrites \in 0 .. MaxFxWrites /\ rules \in RuleTables
    /\ FxSound(fx)
    /\ DOMAIN attempt = Pricers /\ \A a \in Pricers : attempt[a].pc \in {"rest", "rules", "insert"}
    /\ \A p \in PricesKept : p.priced \in BOOLEAN

\* The totals of a priced event can be computed again from what it records:
\* its usage, the prices that were used and the rates that were used.
AuditTrail(p) ==
    p.priced =>
        LET rate(from, to) == (CHOOSE f \in p.fx_snapshot : f.from = from /\ f.to = to).rate
            total(c) == SumFunction([x \in p.price_used |->
                            IF x.currency = c THEN LineCost(x, event)
                            ELSE Converted(LineCost(x, event), rate(x.currency, c))])
        IN p.cost_cny = total("CNY") /\ p.cost_usd = total("USD")

\* A conversion uses a manual rate of its direction if there is one; it falls
\* back to the built-in rate only when neither direction has a manual rate or
\* a fetched one that is young enough; an old rate is never used.
RateFits(rate, from, to, known, now) ==
    LET rows(a, b, source) == {r \in known : r.from = a /\ r.to = b /\ r.source = source}
        young(a, b) == {r \in rows(a, b, "auto") : now - r.at <= FxStaleMax}
    IN  /\ rows(from, to, "manual") # {} => rate.source = "manual"
        /\ rate.source = "auto" => young(from, to) \cup young(to, from) # {}
        /\ rate.source = "builtin" <=>
               rows(from, to, "manual") \cup rows(to, from, "manual") \cup young(from, to) \cup young(to, from) = {}

\* m: an attempt that has made a price
RateJustified(m) ==
    m.price.priced => \A f \in m.price.fx_snapshot : RateFits(f.rate, f.from, f.to, m.reading.fx, m.reading.now)

LinesOf(m) == IF m.price.priced THEN m.price.price_used ELSE {}

\* A price is charged for a unit exactly when a rule that is enabled and in
\* effect covers it: one of the event's dimension, or a general one.
PricedIffCovered(m) ==
    \A u \in PriceUnits :
        (\E x \in LinesOf(m) : x.unit = u) <=>
            /\ HasQuantity(u, event)
            /\ \E r \in m.table : /\ r.unit = u /\ r.enabled /\ r.from <= event.at /\ event.at <= r.to
                                  /\ r.dim \in {"", input_dimension_key(u, event)}

\* The minutes met on the way from start to end around the clock; the end
\* counts unless midnight is passed.
OnTheWay(w, m) ==
    LET length == (w[2] - w[1]) % DayLength
    IN \E k \in 0 .. length : m = (w[1] + k) % DayLength /\ (w[1] > w[2] => k < length)

\* The price is that of an enabled rule of the unit and currency in effect, of the event's
\* dimension unless there is none: of its first segment that covers the local time and
\* the length of the context, else its base.
PriceByTheClock(m) ==
    \A x \in LinesOf(m) : \E r \in m.table :
        LET key == input_dimension_key(x.unit, event)
            active(q) == q.unit = x.unit /\ q.enabled /\ q.from <= event.at /\ event.at <= q.to
            local == event.at + TzShift
            covers(s) == /\ s.days # {} => local \div DayLength \in s.days
                         /\ s.windows # {} => \E w \in s.windows : OnTheWay(w, local % DayLength)
                         /\ context_value(r, event) \in s.min .. s.max
            covering == {i \in DOMAIN r.segments : covers(r.segments[i])}
        IN  /\ active(r) /\ r.currency = x.currency
            /\ r.dim = key \/ (r.dim = "" /\ ~\E q \in m.table : active(q) /\ q.dim = key)
            /\ \/ covering = {} /\ x.price = r.base
               \/ \E i \in covering : (\A j \in covering : i <= j) /\ x.price = r.segments[i].price

\* Every price an attempt makes can be justified from the rates it has read and the rules of
\* its time: which units, by which rule and segment, at which rate; and the totals of any
\* price, wherever it has been since, from what is recorded with it.
PriceJustified ==
    /\ PricingTypeOK
    /\ \A p \in PricesKept : AuditTrail(p)
    /\ \A a \in Makers : RateJustified(attempt[a]) /\ PricedIffCovered(attempt[a]) /\ PriceByTheClock(attempt[a])

\* Attempts that fail, whose answer is lost, or that replay an active file price the event
\* again, at other rates and by other rules.  All the same the totals of the hour and of
\* the quota hold one price, that of the row; and the row of a media task has the price
\* that was stored with the task, though it may have been through the WAL.
BillAgrees ==
    /\ spent = IF log_row = Nowhere THEN <<>> ELSE <<log_row>>
    /\ task_price.priced /\ log_row # Nowhere => log_row = task_price

\* "rates can be ... fetched from ECB / Frankfurter": once both currencies have
\* a fetched rate from one base that is young enough, the built-in rate is not
\* used.  (Refuted with "ecb": its rates are stored from EUR, and convert never
\* goes through a third currency.)
FreshlyFetched(reading, from, to) ==
    \E r \in reading.fx : r.source = "auto" /\ Pair(r) = <<from, to>> /\ reading.now - r.at <= FxStaleMax
FetchedRateUsed ==
    \A a \in Makers :
        LET m == attempt[a]
        IN m.price.priced /\ (\E base \in {"CNY", "USD", "EUR"} :
                                \A c \in {"CNY", "USD"} \ {base} : FreshlyFetched(m.reading, base, c)) =>
               \A f \in m.price.fx_snapshot : f.rate.source # "builtin"
=============================================================================
