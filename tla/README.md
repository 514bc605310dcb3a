# A TLA+ verification of NextAPI

NextAPI is a self-hosted gateway for LLM providers: an axum server that
authenticates a client by a gateway key, chooses an upstream account for the
requested model, converts between protocols, forwards the call, and bills it.
State lives in PostgreSQL, in in-memory maps of one process, and, when the
database is down, in write-ahead files. This directory models the parts of it
whose correctness depends on the order in which things happen, checks them with
TLC on small instances and proves the most important results with TLAPS.

Source paths below are relative to `src/src/` unless they begin with
`src/`. The definition-by-definition correspondence with the source is in
`PROJECT.json` under `map`.

## 1. Inventory

| Component | State | Operations | What makes it correct |
|---|---|---|---|
| Log pipeline (`logging/`, `main.rs`) | bounded channel, writer batch, spawned tasks, WAL files, `usage_logs`, `usage_hourly`, `quota_usage` | `LogSink::log`, `close`, `wait_pending`, `run_writer`, `flush`, `insert_batch`, `Wal::append`, `replay`, `archive`, stop sequence | what was acknowledged is durable; an event is counted once; rows and aggregates agree; a graceful stop loses nothing it could have kept; everything is counted in the end |
| Idempotency keys (`idempotency.rs`) | one row per (gateway key, Idempotency-Key) | `begin` (SELECT, takeover UPDATE, INSERT), `complete`, `fail`, `cleanup_expired` | a replay is the answer to the same body; a copy of a request is not paid for twice; a key is released |
| Circuit breaker (`routing/mod.rs`) | `states`, `halfopen_since`, three columns of `upstreams`, their copy in the entity snapshot | `allow`, `on_success`, `on_failure`, `reset`, write-backs, admin edits, the automatic switch | no failure lost; half-open always ends; manual disable wins; an upstream is not blocked for ever |
| Request path (`gateway.rs`) | one handler per request, `TeeStream` after it | admission, routing, attempts, failover, idempotency, logging, streaming | one event per answer, which tells the attempts truly; retry and failover rules; every request ends |
| Route selection (`routing/mod.rs`) | `StickyMap` | `pattern_matches`, `order_candidates`, `weighted_pick`, `reorder_pinned_first` | a worse priority only after every better one failed; routes drawn by weight |
| Credential guard, quota readings (`upstream/cred.rs`, `upstream/quota.rs`, `state.rs`) | map of failed credentials, throttles, copies in `upstreams.extra` | mark, clear, expire, store | a failing credential is put aside and comes back; the copies follow the memory |
| Rate limiter and quotas (`limit/`) | sliding windows, quota cache | `check_rpm`, `tpm_precheck`, `check_quota` | never more than the limit in a window; a quota is overrun by no more than its caching explains |
| Entity cache (`cache.rs`) | snapshot | `reload` | the snapshot converges to the database |
| Media tasks (`media/`) | task rows, poller | submit, poll, settle | a task is billed once |
| Upstream channels (`upstream/`) | Codex tokens, Devin frames, client pools | refresh, call, decode frames, read usage | no token is presented twice or lost; a cut connection is never a complete answer; the bill is what the upstream counted |
| Protocol conversion (`protocol/`) | state of the streaming converters | convert request, response, SSE events | every block opened is closed, nothing is lost without a record, failures stay failures |
| Pricing and exchange rates (`billing/`) | price rules, rates | match a segment, price, convert | usage is priced by the right rule, segment and rate, and billed once, whatever batches fail |
| Administrator authentication (`auth/`) | sessions, login windows, TOTP step | login, TOTP, password change | limits hold, codes are not replayed |
| Settings (`settings.rs`, `config.rs`) | YAML file, its copies, `system_settings`, the merged configuration | reload, save, replace the file | database over file, no lost update, a restart changes nothing |
| Admin API (`admin/`) | rows of every table | CRUD handlers, each followed by a reload | edits are not lost |
| Model synchronisation, partitions | routes, partition tables | periodic tasks | nothing in use is dropped |
| Start and stop (`main.rs`) | process phases | signals, draining, joining | bounded and complete |
| Statistics, metrics, network guard, assets | none of their own | read-only queries, pure checks, static files | not modelled |

How they interact: a handler of the request path asks the limiter, the route
table, the credential guard and the breaker, takes the idempotency key, calls
channels through the converters, reports to the breaker and the guard, settles
the key and hands one event to the log sink. The sink's writer, its fallback
files and the replay task share the database with the admin handlers, which
change rows and then reload the snapshot every handler reads. Nothing but the
database outlives the process, except the WAL directory.

What is hard here:

- a handler is dropped at any `await` when its client leaves, so everything
  after an `await` may never happen;
- in-memory state is updated under a lock, and the matching statement runs after
  the lock is gone, so statements arrive late and out of order, or fail;
- replay reads and archives WAL files that `append` is still writing;
- a commit may succeed while its answer is lost;
- the stop sequence waits for tasks, a channel and a writer, each with its own
  timeout;
- a row found by one statement has changed when the next statement uses it.

The hazards, line by line and with the properties that cover them, are under
`hazards` in `PROJECT.json`. Four that no property covers are worth knowing:

- a client that leaves between `complete` and `log` (`gateway.rs:1991`) gets its
  answer replayed later although no event was ever logged; the handler cannot log
  after it was dropped, and no document promises more;
- the failure event of a last candidate that fails in conversion
  (`gateway.rs:1679`) carries the protocol and mode of the one before: an event of
  `Gateway` has no protocol, and the label changes no decision and no amount;
- the ids of a Devin conversation are derived from its whole input
  (`upstream/devin/convert.rs:562`), which grows with each turn: `TrajectoryStable`
  is refuted, and the ids are opaque to the gateway;
- the event that begins a Devin response is lost when a later field of its frame
  does not decode (`upstream/devin/convert.rs:805`): `StartedMeansSent` is refuted.

## 2. Modules

| Module | Models |
|---|---|
| `LogPipeline` | the log pipeline from `LogSink::log` to the database, with crashes, restarts and the stop sequence |
| `Ledger` | what the pipeline promises: an event is recorded once and posted at most once, row and sums together |
| `WriterShutdown` | the timing of the writer's last flushes against the 10 s `main` waits for it |
| `LogPipelineProofs` | theorems about `LogPipeline`, the last one that it implements `Ledger` |
| `Idempotency` | the requests that share a key, statement by statement |
| `Breaker`, `BreakerProofs` | one upstream's breaker with its row, its snapshot, admin handlers and restarts; theorems |
| `Gateway`, `GatewayProofs` | the request path: three handlers, the stream that outlives them, and what requests share; theorems |
| `ClientIp` | the address taken for the client's, from headers its sender may have written |
| `RateLimit`, `Quota` | the sliding windows with eviction and capacity; the cached quota verdict over late usage |
| `Routing` | `pattern_matches` step by step, `weighted_pick`, `StickyMap` |
| `ChannelState` | the credential mark and the quota reading of a channel, stored by tasks in any order |
| `CodexToken` | the shared refresh of a rotating OAuth credential |
| `ConvertRequest`, `ConvertResponse`, `Usage` | conversion of requests, replies, errors and token counts between the four protocols |
| `ConvertStream` | conversion of event streams, frame by frame, with the state of both converters |
| `Sse` | the parser of event streams, cut anywhere, the pass-through and the encoder |
| `StreamBilling` | what `TeeStream` collects of a stream and what is billed from it |
| `DevinStream`, `DevinRequest` | the frames and events, and the dialogue, of the Devin channel |
| `MediaTasks` | asynchronous image tasks, their pollers and their bills |
| `AdminAuth` | sessions, change of password and the second factor |
| `Catalog` | keys, channels and proxies against the snapshot that requests read |
| `RouteTable` | routes, aliases and the synchronisation of models |
| `Settings` | the file, its copies, the saved settings and the configuration in effect |
| `Pricing`, `PriceTransfer` | price rules, rates and conversion, and an event on its way through `price_batch`, `insert_batch`, the WAL and replay; export and import of price files |
| `MCLogPipeline`, `MCIdempotency`, `MCBreaker`, `MCGateway`, `MCPricing` | instances of single modules |
| `TrafficProofs` | theorems about `RateLimit`, `Quota`, `ChannelState`, `StreamBilling` and `WriterShutdown` |
| `TasksProofs` | theorems about `Idempotency`, `MediaTasks` and `CodexToken` |
| `AlgorithmProofs` | theorems about `Routing`, `ClientIp`, `PriceTransfer` and `Sse` |
| `Recursion` | induction and recursion over numbers, in the form the other proofs cite |
| `ConsoleProofs` | theorems about `AdminAuth`, `Catalog`, `RouteTable`, `Settings`, `Pricing` and their composition in `MCConsole` |
| `MCTraffic`, `MCConsole`, `MCTasks` | suites: instances of several modules that share no state |

A suite has a variable `focus`, set at the start, that says which of its modules
moves; the others stay in one initial state. The state space is the sum of those
of its parts, not their product, and each part is explored completely: a
property of a part is checked exactly as if it were alone.

### LogPipeline

`phase` follows `main.rs` (startup, serving, draining, waiting, joining, down).
`queue`, `task`, `batch`, `wpc` are the channel, the spawned direct writes, the
writer's batch and its place in `run_writer`; `cur`, `curSize`, `seq`, `file`,
`fstate` the WAL; `rpc`, `rfile`, `rlen`, `rpos` a replay pass; `rows` and `agg`
the database. A file is a sequence of pieces (an event line or a fragment of
one, with or without its newline), so a partial write and the line that is
merged into it are really there. `insert_batch` is one transaction and one step;
its two failures are `db` (nothing committed) and `ambiguous` (committed, answer
lost). `Faults` selects what the environment does: `db`, `ambiguous`, `walerr`
(append refused), `torn` and `tornutf8` (cut write), `fsync` (written, not
acknowledged), `partition` (the event's partition is dropped), `timeout` (the
join times out), `crash`. `MaxIncidents` bounds how many of these a behaviour
contains, shutdowns included. `logged`, `late`, `acked`, `dropped`, `lost` are
history variables that no action reads.

### WriterShutdown

Keeps only what costs time: the backoff sleeps. Inserts and appends are instant,
so each duration is a lower bound; `MaxQueued` is the number of flushes the
events still in the channel trigger.

### Idempotency

One key, any number of requests. Each SQL statement is a step, so two requests
may both read a row before either changes it. `row.left` is the life the row has
left; `Vanish` is a dropped handler; `DbError` a failed statement.

### Breaker

One upstream. Time is counted in default cooldowns. A handler's `allow`,
`on_success` and `on_failure` are one step per critical section; a write-back is
a step of its own that may come late or fail. Admin handlers read, write,
reload and reset in separate steps, one handler at a time; `EntityCache::reload`
is one step. `lastCool`, `streak` and `ban` are history variables.

### Gateway

A handler runs without interruption between two awaits, each such piece is an
action, and `Disconnect` may drop it at any await. `hist` is the history of
attempts. The verdicts of the limiter and of the breaker are inputs
(nondeterministic), and the idempotency row is used at the level of what its
statements promise: takeover races and expiry belong to `Idempotency`. All
requests use one key and one model; an upstream's entry protocol mode
(`decide_mode`) is a constant. Bodies, URLs, headers and prices are left out.
`StreamEnds`, `StreamFails`, `PollAgain`, `DropBody`, `LogStream` are
`TeeStream`: its `poll_next`, its `Drop`, and the task they spawn.

### ClientIp, RateLimit, Quota

`ClientIp` sends a request through proxies that append to `X-Forwarded-For` what
they see, after a sender that wrote what it liked; nets are prefixes of
short addresses. In `RateLimit` each check is one step, as it runs under one
mutex; time moves between checks, limits are edited, and the table of login
names is at its capacity. `Quota` splits a check into the cache lookup, the
query and the store of the verdict, so that checks overtake each other, and
writes the usage later, by the log pipeline.

### Routing, ChannelState, CodexToken

`pattern_matches` is the code's loop with its two positions and the last star,
compared with the ways to lay the pattern along the name: a wildcard covers any
stretch, any other character one that equals it. `ChannelState` keeps the memory
and the row apart: a task carries its change until it runs, in any order, or
fails, and an edit of the channel writes back the `extra` it read. In
`CodexToken` the lock, the second look at the snapshot, the call, the UPDATE and
the reload are steps, and so are those of the administrator's `refresh_oauth`, which
takes no lock (`AdminReads`, `AdminPosts`, `AdminUpdates`, `AdminReloads`; `AdminFails`
before the provider has rotated, `AdminCut` after). `CredFaults` names what may go wrong
outside the lock.

### The converters

A text, a thought or a fragment is a number, so loss, repetition and reordering
show; an optional field is a sequence of length at most one. `ConvertRequest`
and `ConvertResponse` build a body turn by turn or block by block and evaluate
both conversions in every state. `ConvertStream` runs the state machines of the
inbound and the outbound converter and, outside the repository, an upstream and a
client that decodes what it gets by the rules of its protocol. `RequestShapes`,
`ReplyShapes`, `StreamFaults`, `ParamGaps` and `ReplyGaps` name shapes that the
code is known not to carry; they are left out of the passing run (see below).
`StreamBilling` has the converters once more, reduced to usage, and what comes
after them: the text `append_chunk` keeps, and `extract_sse_usage`. An event is
two halves of text, so that a cut falls inside one; a half alone does not parse.
A chat or Responses upstream counts its thoughts within its output.

### The Devin channel

A byte of the wire is a cell, and chunks end anywhere, headers included. One
stream serves both kinds of client: `frame_sse_stream` queues events, and
`execute_nonstream` reads the same frames and answers at the end.

### MediaTasks, AdminAuth, Catalog, RouteTable, Settings

Each handler or task is a sequence of steps, one per statement or await, and any
number of them that the bounds allow overlap. What went wrong is remembered in history variables
where a property excuses it: then the property says that nothing *else* makes
memory and database disagree. In `ChannelState` and `Settings` that is an overlap. In
`Catalog` an overlap alone excuses nothing: `excuse` is set when a SELECT of a reload
fails, or when a reload during which another one was installed (`overtaken`) puts
rows in place that are not those of the tables, and it is cleared by the next reload that
installs the tables as they are. In `AdminAuth` nothing limits which handlers overlap;
`raced` has the secrets that `totp_enable` turned on over a row that had changed since it
was read. `RouteTable` has the deletion of an upstream with the routes that go with it
(`delete_upstream_row`): a synchronisation or an editor that was under way then fails at
the foreign key (`MayInsert`).

### Pricing, PriceTransfer

Amounts are integers on a scale on which the rates used divide exactly. A day
has four minutes, so that a time window passes midnight within a behaviour.

One event is followed from `log` to its row. `insert_batch` of the writer and of the
replay clone it (`BeginInsert`), read the rates, then the rules and price the clone
(`price_batch`), and commit the row with the sums (`CommitRow`), or fail at any of these
places, after the COMMIT included (`InsertFails`); then the writer appends what it had,
without the price, and the next attempt prices it again from other tables. The event of
a media task gets its price from the poller (`MediaEnds`, `price_batch("poller")`,
`finalize_succeeded`), which stores it with the task: this price goes through the queue,
the line of the WAL (`encode_line`, `decode_line`: price fields are fields of the line,
and one that is missing reads as absent) and the guard `ToPrice`. Rules, manual rates and
fetched rates change meanwhile, and the process may die (`PricerCrash`).

A price file is a sequence of items, exported from the table or written by hand, with
duplicates, unknown channels, dimensions that are no object and segments that are no
array (`Scalar`); its rows are written one after the other, in one transaction.

## 3. Runs

| Run | Module, configuration | Shows |
|---|---|---|
| `log_safety` | `MCLogPipeline`, `LogPipeline_safety` | the pipeline implements `Ledger` (so an event is counted exactly once), acknowledged events are durable, archived files are counted, a joined shutdown loses only late events |
| `log_faults` | `MCLogPipeline`, `LogPipeline_faults` | with every fault, torn and unsynced writes included: a row exists exactly when the event was summed, and no event disappears silently (`AllAccounted`) |
| `log_liveness` | `MCLogPipeline`, `LogPipeline_live` | every logged event ends in a row, or was reported as dropped, or was lost with the process |
| `log_torn` | `MCLogPipeline`, `LogPipeline_torn` | **violated**: a cut write damages the next acknowledged event |
| `idem_takeover` | `MCIdempotency`, `Idempotency_takeover` | **violated**: two retries of a failed request run at once |
| `breaker` | `MCBreaker`, `Breaker` | failures are counted exactly and half-open has its timer (`BreakerExact`), a manual disable is not overwritten, an upstream is offered again and again |
| `gateway` | `MCGateway`, `Gateway_one` | one truthful event per answer (`EventsTruthful`), retry and failover rules, an end to every request |
| `gateway_pair` | `MCGateway`, `Gateway_pair` | two requests with a common pin, guard and key: priorities, settled keys and replays of successes (`KeyHonest`) |
| `traffic` | `MCTraffic` | what a request passes, see below |
| `console` | `MCConsole` | what concurrent administrators change, see below |
| `tasks` | `MCTasks` | what must end, see below |
| `fx_ecb` | `MCPricing`, `Pricing_ecb` | **violated**: rates fetched from ECB are never used |

A run checks one property for each thing that makes a component correct. Most of
these are conjunctions: the type invariant of the module and the parts named in
brackets below, each of which is defined and explained on its own in the module.
TLC names the conjunction when a part fails; replace it by its parts in the
configuration to see which. The mutant listed for a property breaks one of its
parts.

`traffic`:

- `AddressTrue` (`ClientIp`): a sender cannot choose its address
  (`SenderCannotChoose`).
- `LimitsExact` (`RateLimit`): no key or name gets a second window by an edit or an
  eviction (`WindowBound`); what the header promises is granted (`HeaderHonest`).
- `VerdictsCurrent` (`Quota`): a verdict is never older than its life and the query
  that made it, in both directions (`OverrunBounded`, `RefusalBounded`).
- `RoutingExact` (`Routing`): the matcher agrees with the reference
  (`MatcherExact`), draws are proportional to weights (`PickProportional`), the
  sticky table is bounded and names the last upstream (`StickyHonest`).
- `RowExplained` (`ChannelState`): a failure is stored once per period
  (`StoreOncePerPeriod`); at rest row and memory agree unless tasks overlapped or
  failed, the row was edited or the process restarted (`LabelExplained`,
  `QuotaExplained`).
- `RequestFaithful` (`ConvertRequest`): content is kept or recorded as lost
  (`NothingLostSilently`), turns keep their order and role (`DialogueKept`), results
  stay with their calls (`ResultsPaired`), parameters are kept or recorded
  (`ParamsKept`).
- `ReplyFaithful` (`ConvertResponse`, `Usage`): tokens are counted once
  (`UsageExact`), blocks are kept (`ReplyKept`), a truncated or failed reply does
  not look complete (`OutcomeShown`), the text of an error survives
  (`ErrorTextKept`).
- `StreamFaithful` (`ConvertStream`): the client sees a legal sequence with an end
  (`LegalSequence`, `EndIsSent`), all fragments and calls (`FragmentsKept`,
  `CallsKept`), failures as failures (`FailureShown`), and the usage (`UsageShown`).
- `EventsWhole` (`Sse`): where a stream is cut makes no difference
  (`CutsDoNotMatter`); what is encoded reads back (`EncodingReads`).
- `BilledFairly` (`StreamBilling`): a finished stream is billed like the same answer
  in one piece except for four named losses (`BilledAsWhole`), and nothing is ever
  billed above what the upstream reported (`NeverOverbilled`).
- `DevinKept` (`DevinStream`, `DevinRequest`): legal events (`DevinSequence`), all
  fragments and the last usage (`DevinAnswer`), a success only after a clean end
  frame (`DevinEndHonest`), a dialogue that keeps its turns (`TurnsKept`).
- `DrainBounded` (`WriterShutdown`): the last flushes take at most 7 s when nothing
  is pending (`QuietDrainFits`), and at most 30 s for each flush that remains
  otherwise (`DrainTimeBounded`).

`console`:

- `AccountSound` (`AdminAuth`): an accepted token belongs to the password and second
  factor in force (`SessionsFollowCredentials`); a code of the secret in force is taken
  once (`CodeOnce`) and the factor is on only with a proven secret
  (`EnabledSecretProven`), but for a secret in `raced`.
- `TablesSound` (`Catalog`, `RouteTable`): at rest the snapshot is what the tables hold,
  however many reloads overlapped, unless one failed or an overtaken one put old rows
  back (`StaleExplained`); aliases and managed routes are unique.
- `RotationHolds` (`Catalog`): a rotated key does not come back.
- `SyncSafe` (`RouteTable`): a synchronisation keeps manual routes (`ManualKept`) and
  is complete (`SyncComplete`).
- `SettingsFollow` (`Settings`): a restart changes nothing (`RestartChangesNothing`),
  a saved value wins over the file (`UiValueKept`), masks do not destroy secrets
  (`SecretSurvivesMask`).
- `PriceJustified` (`Pricing`): a total can be recomputed from what was recorded
  (`AuditTrail`), rates are justified and fresh (`RateJustified`), a unit is priced
  exactly when a rule covers it (`PricedIffCovered`), by its time segment
  (`PriceByTheClock`).
- `BillAgrees` (`Pricing`): the sums hold one price, that of the row, however often the
  event was priced; and a media task's row has the price stored with the task, though
  its event went through queue, WAL and replay.
- `TransferSound` (`PriceTransfer`): export followed by import is harmless
  (`RoundTrip`), and an import does what it reports (`ImportHonest`).

`tasks`:

- `ReplayFaithful`, `OneCallPerRecord` (`Idempotency`): replays are faithful, a
  record pays for one call unless it failed.
- `MediaSettled` (`MediaTasks`): one bill per job (`BilledOnce`).
- `CredentialSafe` (`CodexToken`): no rotated token is presented (`NeverRevoked`) and
  no valid one is lost (`CredentialKept`), except by the faults named.
- `EverythingEnds`: a key is released (`KeyReleased`), every media task ends and
  keeps its end (`TaskEnds`, `EndIsFinal`), every request for a token is answered
  (`EveryoneServed`).

### Bounds, and why they are enough

- *Log pipeline*: three events are the fewest with which a batch (`BatchMax` 2)
  is full, one event is in a one-place channel and one is written directly;
  files of two lines roll over inside a behaviour; four files let an archived, a
  replayed, a full and a current file exist together. Three incidents allow a
  failure, a crash, and a failure after it. `log_faults` uses two events to
  afford all nine faults: a damaged line and the line merged into it are two.
  Events are interchangeable, so symmetry is used for the safety properties and
  not for the liveness run.
- *Writer*: two more flushes than the one in progress; the backoff reaches its
  cap of 30 s with them.
- *Idempotency*: three requests, one with another body, and a life of two
  ticks: a holder, a copy and a mismatch, across an expiry. The takeover race
  needs the request that fails and two that retry. The proofs cover every number.
- *Breaker*: two requests (a probe and a straggler), a threshold of two, a
  cooldown that reaches its cap with the second opening, and one administrator
  operation or restart, at every place of a behaviour, of every kind.
  `LongWaits` lets cooldowns run out while a write-back is on its way.
- *Gateway*: four routes: two of equal priority and different weight, one of them
  locked, a fallback, and one that cannot serve the request; every class of
  error. For two requests two routes of different priority and two errors (one
  that is retried, one that blocks the credential) cover what they share.
- *Addresses*: nets of every prefix length over two bits (v4) and three (v6), an
  entry that does not parse, one forged entry, two proxies.
- *Windows and quotas*: four ticks for a window of two, limits of none, one
  and two, and a table of one name for two names; two requests whose checks overlap,
  a limit of one and two periods.
- *Matching*: all patterns and names of length four over two letters: two
  wildcards and a letter after each. Groups of three routes with weights -1, 1
  and 2. Three sticky keys for two places.
- *Channel, credential*: three tasks in flight and one restart; two requests and
  two rotations (the second is the first at which an old token exists).
- *Conversions*: all twelve pairs. Four turns hold a call, its result and what
  comes before and after; three blocks hold one of each kind next to another.
  A stream has five content frames: two calls with two fragments each, alternating, and
  one frame more. Six bytes make two events with both line ends; a line may be a
  bare `data`, which is an empty data line, but at the end of a stream only with its colon.
- *Metering*: all sixteen pairs, three content events, and a text that holds three
  and a half events, so that the head is lost and the cut is inside an event.
  Counts with thoughts, with more cached than read tokens, and with a cache write.
- *Devin*: three data frames and the end frame, payloads of one and two fields,
  two calls; limits that a frame and the buffer can exceed. A dialogue of four
  items.
- *Media*: two jobs, two pollers, rounds of one row, one fault at any place.
- *Administrators*: two handlers in every module, of any kind. Two writes, three saves, three
  operations on routes and four on prices let one handler finish between the
  steps of another and start again.
- *Accounts*: two secrets, two changes of the password and two TOTP steps: a secret set up
  between the check and the UPDATE of another handler, and a code presented again.
- *Prices*: three tables (two currencies; segments by hour, weekday and context;
  media with dimensions), four events, rates 2, 4 and the built-in 8, starting without
  rates or with a manual and two fetched ones. Two attempts and a poller are the actors
  there are; one change of rules or rates (`MaxFxWrites`) and two minutes, after which
  fetched rates are stale, make a second price differ from the first.

### Fairness, and why the code justifies it

- `LogPipeline`: weak fairness of the writer, of the replay task, of each spawned
  task and of a restart. They are tokio tasks that are ready to run; the replay
  is repeated periodically; a process that stops is started again by its
  supervisor. Failures are bounded by `MaxIncidents` and never forced.
- `Idempotency`: weak fairness of each request's next statement, of time, and of
  the periodic cleanup. Nothing forces a request to survive (`Vanish` is not fair).
- `Breaker`: weak fairness of statements under way and of the admin steps
  already begun. Time has strong fairness because `Tick` is guarded by a
  modelling device (it waits for the moment between the two locks of
  `on_success`, and without `LongWaits` for write-backs) and a real clock is not. No request is forced to arrive.
- `Gateway`: weak fairness of a handler and of a stream. A call and a stream end
  because of `timeout_ms` and `stream_timeout_secs`, which must not be 0, and the
  server drops a body that is over. The client is never forced to leave.
- `MediaTasks`: weak fairness of each poller's loop, which repeats on an interval
  and whose calls have timeouts, and of time. Faults are bounded and never forced.
- `CodexToken`: weak fairness of each request's next step; the call to the
  provider has a timeout, and the lock is fair.
- In `MCTasks` each of these is required only of the module that moves.

### Claims the code does not keep

Three runs show a disagreement between the code and its documentation; each is
described under `findings` in `PROJECT.json`. The modules state further claims
that comments make and that TLC refutes. They are refuted by naming the definition in a
configuration that exists, with the constants changed as said:

| Configuration, change | Definition | What happens |
|---|---|---|
| `LogPipeline_torn`, `BatchMax = 3`, `MaxIncidents = 4`, `Faults = {"db", "fsync"}` | `ExactlyOnce` | a write that reached the file but not the disk is written again, and the same event twice in one replayed chunk is counted twice |
| `LogPipeline_live`, `MaxFileLines = 2`, `MaxIncidents = 3`, `Faults = {"db", "partition"}` | `EventuallyCounted` | a chunk with one event of a dropped partition is refused for ever, and with it the others |
| `LogPipeline_torn`, `Faults = {"db", "tornutf8"}` | `AckedDurable` | a write cut inside a character makes the whole file unreadable for replay |
| `LogPipeline_safety` | `BatchBounded` | a kept batch grows by the next drained events before it is flushed, past `BATCH_MAX` |
| `LogPipeline_safety`, as a property | `GracefulStopLosesNothing` | an event logged after `wait_pending` took its handles is lost with the runtime |
| `Gateway_one` | `LockedStays` | a locked route is left after a conversion failure |
| `Gateway_one` | `AuthHidden` | the image handler passes an upstream's 401 on to the client |
| `MCTraffic` | `DrainFitsJoinWindow` | with a pending backoff or events in the channel the drain exceeds 10 s |
| `Idempotency_takeover`, `Faults = {"expire"}`, as a property | `RefusedOnlyWhileProcessing` | `begin` answers "being processed" after two lost races with nothing being processed |
| `Breaker` | `HalfOpenHasProbe` | a half-open breaker refuses although its probe is gone, until the timer |
| `Breaker`, three requests, `MaxEvents = 2`, `Events = {"reload", "restart"}`, `LongWaits = FALSE`, as a property of `Spec` | `CooldownSurvives` | a recovery that arrives late erases the cooldown from the row, and a restart forgets it |
| `Breaker`, `Threshold = 4`, `MaxCooldown = 8`, `MaxOpens = 4`, `Events = {"restart"}`, `LongWaits = FALSE`, as a property of `Spec` | `BackoffDoubles` | after a restart the count of failures is taken for the count of openings, and the cooldown grows faster than by doubling |
| `MCConsole` | `NoChains` | an alias may be created whose name is the model of another alias |
| `MCTraffic`, `BillingGaps` without `"late_usage"` | `BilledAsWhole` | a converted stream tells an Anthropic client its input in `message_delta`, and the meter reads the input only from `message_start`: the input of chat and Responses upstreams is billed as 0 (`protocol/anthropic.rs:1418` says the delay is there for billing) |
| `BillingGaps` without `"cut_answer"` | `BilledAsWhole` | an answer cut at the token limit ends with `response.incomplete`, and the meter reads only `response.completed`: nothing is billed |
| `BillingGaps` without `"long_stream"` | `BilledAsWhole` | a text over 256 KB has lost its `message_start`: an Anthropic client's input is not billed, although `gateway.rs:274` says that long streams are metered without distortion |
| `BillingGaps` without `"cache_write"` | `BilledAsWhole` | cache writes of an Anthropic upstream have no field in the other protocols and are not billed when streamed |
| `StreamFaults` with `"empty"` or `"error_continues"` | `LegalSequence` | a stream with no events, or content after an error event, gives a sequence the client's protocol does not allow |
| `StreamFaults` with `"chat_error"` | `FailureShown` | an error frame in a chat stream is ignored and the answer ends as a success |
| `StreamFaults` with `"two_thoughts"`, `"no_arguments"` | `FragmentsKept`, `CallsKept` | the first of two thoughts in one Gemini frame is lost; a call without argument deltas is lost for some clients |
| `RequestShapes` with `"two_thoughts"`, `"thought_to_responses"` or `"system_image"` | `NothingLostSilently` | the content is lost and not recorded as degraded (`src/docs/protocol-matrix.md:20`) |
| `RequestShapes` with `"result_with_text"`, `"media_first"` | `ResultsPaired`, `DialogueKept` | text beside a result, or media before text, changes its place |
| `ReplyShapes` with `"two_thoughts"`, `"image_to_responses"`, `"odd_error"` | `ReplyKept`, `ErrorTextKept` | the block, or the text of the error, is lost |
| `DevinFaults` with `"garbled_call"`, `"omits"` | `DevinSequence`, `DevinAnswer` | a frame that fails in its second half loses the event that begins the response; a call whose id is omitted goes to another |
| `MCConsole`, as a property | `OffByDisable` | a setup that read the account before it was enabled stores its new secret afterwards (`auth/mod.rs:430`) and switches the confirmed factor off without the code that disabling asks for, although `auth/mod.rs:396` says that the factor must be disabled before it can be set up again |
| `MCConsole` | `StaleOnlyMeanwhile` | a reload that was overtaken puts old rows back (`cache.rs:60`), and they stay in force until some later reload, although `cache.rs:4` says that an old value is read at most once |

The remaining ones are stated next to the properties that hold, with the reason
they fail: `KnownRolesAccepted`, `LabelClears`, `RevokedStaysRevoked`,
`NothingLeftBehind`, `NoAmbiguity`, `WrittenOnce`, `RoundTripExact`,
`SecretNeverReverts`, `StartedMeansSent`, `TrajectoryStable`. To see one, add it to the
`INVARIANTS` (for `RevokedStaysRevoked`, to the `PROPERTIES`) of its suite.

## 4. Proofs

Each theorem is for every value of the constants that the named assumptions of
its module allow; no bound of a run is used unless it is said here. An invariant
is proved with one lemma per action. `GatewayInv`, the largest, also holds in TLC
on the instances of `Gateway_one` and `Gateway_pair`.

`LogPipelineProofs`, for every set of events, every capacity and every bound:

- `TypeCorrect`: `Spec => []TypeOK`, under any faults.
- `AcknowledgedIsDurable`: `CleanWrites => (Spec => []AckedDurable)`.
- `ArchivedIsCounted`: `CleanWrites => (Spec => []ArchivedCounted)`.

`CleanWrites` says that a failing append leaves nothing in the file (no torn, no
unsynced write); `log_torn` shows that durability fails without it. Everything
else remains: refused appends, lost commit answers, crashes, dropped partitions,
a join that times out. The inductive invariant `DurInv` has five parts.
`AckedDurable` speaks about files the next replay can decode, so it needs that
files consist of whole lines (`WholeLines`) and that numbers of files not yet
created are above `seq` (`NamesInOrder`). That archiving is harmless needs
`ReplayTracks`: every line of the file in hand before `rpos` is stored, and the
length `rlen` taken before reading is a lower bound of the length at the time of
the archive, so `MayArchive`'s comparison means nothing was appended since.
`ArchivedStored` and `AckedHeld` are the two conclusions in the form that is
preserved.

In the same module, about the ledger:

- `EveryEventAccounted`: `Spec => []AllAccounted`, under any faults. The
  invariant is inductive with the types; what the proof has to show is that
  `Copies` counts the rows and the sums of a batch together.
- `GracefulStopIsSafe`: `Spec => GracefulStopKeeps`, under any faults. `StopInv`
  says what each phase of `main` already guarantees: once the writer has seen the
  channel closed nothing arrives any more, it exits with an empty batch, and after
  the handles were awaited only the tasks of late events are still at work.
- `PipelineIsALedger`: `CleanWrites => (Spec => ImplementsLedger)`, the refinement
  of `Ledger`. A step of the ledger that counts an event must find it uncounted,
  so the proof needs `PlaceInv`: what is stored, written or kept was logged
  (`HeldLogged`); an event in memory is in one of queue, task and batch, and in
  no file (`OnePlace`); and it stands on one line of one file (`OneLine`). A replayed chunk may repeat what is stored; it then
  maps to a stutter for those events. Without `CleanWrites` the refinement is false
  (the first of the refuted claims).

`BreakerProofs`, for every threshold, cooldown, cap and number of requests:

- `BreakerIsExact`: `Spec => []BreakerExact`.
- `ManualDisableStays`: `Spec => ManualStays`.

`BreakerInv` is the types with `CountInv` (each failure is counted, and a breaker
without an entry has counted nothing), `HalfOpenTimed`, and `TimerInv`: while a
request stands between the two locks of `on_success`, the breaker may have been
opened again but is not half open, so the timer it is about to remove is nobody's. The cooldown doubles by a shift, defined by recursion on
the exponent; that it is positive and within the cap is shown with induction
over a set of numbers (`NaturalInduction`), which the provers can apply where
an induction theorem with an operator parameter is out of reach.

`GatewayProofs`, for any number of requests, any table of routes with retries and
priorities, any upstreams, protocols and errors:

- `LogIsTruthful`: `Spec => []EventsTruthful`.
- `FailoverIsDisciplined`: `Spec => []FailoverDiscipline`.
- `PriorityIsKept`: `Spec => []PriorityOrder`.
- `KeyIsHonest`: `Spec => []KeyHonest`.

All follow from `GatewayInv` (`GatewayInvHolds`), which says of each request that
it is `Good` and adds what relates it to the key's row. The event's `retry_count`
and `failover_count` are two counters of the loop, while the properties speak of
the attempts that were made; `Trail` ties them: the last `k` attempts were at
the head of the candidate list, where `k` is the counter of the current route,
and the earlier ones at exactly `failed` other routes that are candidates no
longer. `WellOrdered` (candidates are distinct and sorted by priority), `Rising` and
`NoneWorse` (attempts went from better priorities to worse, and none was worse
than the head of the list) give the order; `MayTry` says that the attempt before
allows the next one. `EventsGood` says that there is no event while the handler
is at work, and that of a stream the events written, the writes that were spawned
and the context that is still held are one together; `KeyGood` where a request may
hold the key. The row adds four facts: it is settled on the ways out
(`KeySettled`), a request that holds the key and has not settled it owns the row
(`HoldersOwn`), a completed row has the answer of a request that succeeded
(`CompletedEarned`), and a replay is of that row (`ReplaysRow`).

`TasksProofs`, about `Idempotency`, for every number of requests, every assignment
of bodies, every life time and every fault:

- `IdempotencyTypes`: `Spec => []TypeOK`; in particular `begin`'s loop ends after
  two rounds.
- `ReplayIsFaithful`: `Spec => []ReplayFaithful`.
- `OneCall`: `Spec => []OneCallPerRecord`.

`IdemInv` adds: ids are never reused and no request knows an id that is not yet
given out; a request that holds an id has the fingerprint of the row with it
(`HoldersMatch`); a stored response belongs to a successful request with the
row's fingerprint (`StoredMatches`); only a request whose call succeeded is
about to complete (`CompletesOk`); a request in `begin` has called nothing; and
ids marked failed exist. `HoldersMatch` is what makes the update by id in
`complete` safe after the row has been replaced.

In the same module, for any number of jobs, pollers and requests:

- `MediaIsSettled`: `MediaSpec => []MediaSettled`; `MediaEndIsFinal`:
  `MediaSpec => EndIsFinal`. `SettledInv` ties the row to its bill: no two pollers
  are about to log the end of one job, because one UPDATE found it open; the end
  they are about to log is not billed yet; and every end is billed, about to be,
  or was left by a poller that died.
- `CredentialIsSafe`: `CredSpec => []CredentialSafe`. `LockInv`: a request past
  its second look at the token is the first in the line for the lock.
  `KeptInv`: unless one of the named failures happened (`slip`), a request presents
  the token of the snapshot, carries the new one after the answer, and outside a
  refresh row and snapshot have the token the provider accepts.

`TrafficProofs`:

- `QuotaVerdictsAreCurrent`: `QuotaSpec => []VerdictsCurrent`, for any number of
  overlapping checks. A check that began before a change may store its verdict
  after one that began later, so `QuotaInv` follows checks and not only the
  cache: `SinceTrue` and `Dated` fix the clock, `OverSeen` and `UnderSeen` say
  what a check that began after the last change must find, `VerdictFollows`
  what it then leaves in the cache.
- `ShutdownIsBounded`: `ShutdownSpec => []DrainBounded`. `ShutdownInv` gives the
  time that is used up at each stage of the last flush (`Stages`), the sum that
  remains (`Budget`), and the case with nothing pending (`QuietDrain`).
- `RowIsExplained`: `ChannelSpec => []RowExplained`. `ChannelInv`: a
  field of the row that is not excused has at most one task on its way, with what
  is known, and without one the row has it (`FieldFollows`); the throttle remembers
  the last reading or nothing (`ThrottleFollows`); the mark in memory is the last
  failure stored (`StoresOrdered`).
- `LimitsAreExact`: `RateSpec => []LimitsExact`, for every limit, window and
  capacity. `RateInv`: every grant that a window may still count is in the queue
  (`QueuesKnow`, stated for every start of a window), and queues are in order of
  time (`QueuesOrdered`); evictions keep this because an evicted queue is older
  than a window.
- `StreamIsBilledFairly`: if `BillingGaps` names the four losses of section 3,
  `MeterSpec => []BilledFairly`, for any pair of protocols, any figures, any number
  of events and any limit on the text that holds two events. `MeterInv` follows the
  figures from the upstream's last report to the bill: what the converters remember
  claims no more than that report (`MeterOK`), no event in the text or on its way
  does (`SentOK`, with `FairText`), a `message_start` has the input of the whole
  answer (`TrueStart`), and once the upstream is done the event with the final
  figures is among the last ones, with none after it that the meter would take
  instead (`FiguresLast`). So the cut at the head of the text cannot reach it.
  Whatever the cut leaves, the meter reads a subset of fair events.

`AlgorithmProofs`, for inputs of any length:

- `RoutingIsExact`: `MatchSpec /\ PickSpec /\ StickySpec => []RoutingExact`.
  `MatchInv` (`MatcherAnswers`) is the argument for a matcher with one point of
  backtracking: what the loop has matched can be laid along the name, with only plain
  characters since the last wildcard (`Sound`), and no way to lay the whole pattern
  ends that wildcard earlier than the loop tries it (`Complete`). The second part
  is why older wildcards need not be tried again. `weighted_pick` gives a route as
  many numbers as its weight because the weights up to a route rise with it
  (`WeightTo`). `StickyInv` (`StickyIsHonest`) adds that a pin is as old as the last
  success or hit.
- `AddressIsTrue`: `IpSpec => []AddressTrue`. `IpInv`: the entries at the end of
  `X-Forwarded-For` are what the proxies on the way saw, in their order, whatever
  stands in front of them. That shifting both addresses by the length of the host
  part compares the bits of the net one by one, as the reference does, is a lemma
  (`FirstBits`).
- `TransferIsSound`: `TransferSpec => []TransferSound`. `TransferInv`: the table has
  one rule for a key, the file holds the items of the table it was made of, and the
  last import was sound. The work is in the lemmas about one import and one export, of any table and
  any file: `Stored` leaves for each key the last row with that key and the flag of the
  rule that was there (`StoredFollows`), and what is written are the rows of the
  accepted items (`RowsHavePlaces`); every item of an exported file is accepted
  (`CarriedIsAccepted`), and has one row for a rule that the file can carry and no
  other of its key (`PortableIsCarried`).
- `EventsAreWhole`: `SseSpec => []EventsWhole`. `SseInv`: the parser stands where it
  would stand had it read all that was delivered at once. That a cut makes no
  difference is an induction over the bytes after it (`CutJoins`: what was left is cut
  with what follows) and one over the lines (`ParseConcat`, `ParseJoins`). The
  reference groups the lines of the whole text without a parser's state; that the
  parser gives the same is an induction over the number of lines (`ParsedIs`), with
  the data lines since the last end as what is open (`Pending`). Lines
  that were cut are clean (no line feed, no CR at the end: `TrimmedIsClean`), and a clean
  event is read as it was written (`EventReads`).

`Recursion` has what these proofs do over data: induction over the numbers up to a
bound, the first and the last element of a set of positions, and the existence of
recursive functions, all stated for sets and functions; `GrowthInduction` and
`FoldExists` are the same for sequences that grow at their end. The
induction theorems of the library take a predicate as a parameter, which the
provers cannot instantiate.

`ConsoleProofs`:

- `SessionsEnd`: `AuthSpec => []SessionsFollowCredentials`, for any number of
  overlapping handlers. `SessionInv`: what a handler has read is not newer than
  the row, and while the `session_version` is the same so is the password, and the
  second factor was not turned on.
- `AccountIsSound`: `AuthSpec => []AccountSound`, whatever handlers overlap, two that manage
  the second factor included. What that costs is in the property: `raced`, the secrets
  that `totp_enable` turned on although the row was no longer the one it had checked, are
  left out of `CodeOnce` and `EnabledSecretProven`, and nothing else is. `FactorInv`
  says that while the factor is off no code of the row's secret was taken and no login still
  has that secret with the factor on (`FactorFresh`), that secrets in use were made, and that the last
  step taken is the row's (`StepsTaken`).
- `CatalogIsSound`: `CatalogSpec => [](CatalogTypeOK /\ StaleExplained)`, and
  `RotationIsKept`: `CatalogSpec => RotationHolds`. `SnapshotFollows` is about one row
  and any number of overlapping reloads: without an excuse, if the snapshot has not the
  row of the table, or if a reload that no other has overtaken will put an older one in
  place, then a reload is under way that has yet to read the row or has read it as it is
  (`Brings`). A write begins such a reload; what an overtaken one undoes is the excuse.
- `RoutesAreSound`: `RouteSpec => []RouteTypeOK`, and `SyncIsSafe`:
  `RouteSpec => SyncSafe`. `RouteInv`: ids are handed out once (`IdsKnown`), what an
  undisturbed synchronisation has read is still so (`UntouchedKnows`), and every
  alias was made by an operation (`AliasesCounted`).
- `TablesAreSound`: `ConsoleSpec => []TablesSound`, from the two specifications
  above, which the composed one implies.
- `SettingsAreFollowed`: `SettingsSpec => []SettingsFollow`. `Undisturbed`:
  without overlaps and failures at most one handler is at work, and what it has
  read and is about to store is the file's; `TodoFits`: a row it has still to
  store has a value.
- `BillIsKept`: `PricingSpec => []BillAgrees`, for every table of rules and rates and every
  number of attempts. `BillInv`: the sums are the price of the row (`Totalled`); once a task
  has a price, every copy of its event has the same, in the queue, in the WAL, in an
  attempt to insert it and in the row, and no attempt is about to price it
  (`TaskFinal`). The second needs that a line of the WAL gives back what was encoded, that a
  priced copy passes `price_batch` unchanged, and that before the event was logged there
  was no copy (`Quiet`).
- `PriceIsJustified`: `PricingSpec => []PriceJustified`, for every table of rules,
  every event and every history of rates. `TablesTyped` has the types of the
  rules and of the rates, stored, fetched and read; `AttemptsOK` and `CopiesOK` carry what
  was established where a price was made. So the proof is about
  `price_with_rules`: what `Candidates` and `match_segment` choose, which
  conversions the totals need and that each of them is recorded (`AuditTrail` evaluates
  the record alone), and that a window compared as `window_hit` does is the way around
  the clock from its start to its end.

Assumptions on the constants are named `ASSUME`s of the modules, evaluated by TLC
on every run. They say that bounds are natural numbers, positive where zero has no
meaning (`Threshold`, `MaxCooldown`, `HalfOpenTimeout`, `Ttl`, `MaxTokens`,
`MaxStep`, `Periods`, `PollLimit`, the scales of prices); that the sets of jobs,
handlers, writers, editors, models and routes are finite; that marks are not
values (`Unset` and `Mask` are no settings, `"none"` and `"idle"` no codes or
readings), and names of different kinds differ; that a rate limiter's entry is
evicted only after it was idle for a window (`Window <= IdleEvict`: 60 s and
600 s in the code); that rates come from the three
providers the code knows and divide the scale (so that a reciprocal is exact); that
inputs have the shape the code's types and the table's checks give them: addresses
that fit their width (`IpAssumption`), weights that are integers
(`RoutingAssumption`), currencies the table allows and windows between two times of a
day (`RuleAssumption`; the admin API does not check the text of a window, and one such as
"24:00" is outside), items of a file with their fields (`TransferAssumption`), counts
that are natural numbers (`MeterAssumption`), bytes of the five kinds that `Sse` tells
apart (`SseAssumption`); that a stream's text holds two events
(`TextMax >= 4` halves; 256 KB in the code); and, for the gateway, that an image request
does not stream and a compact request carries no key, as in `gateway.rs`.

### Only model-checked

- Liveness (`EventuallyCounted`, `NotBlockedForever`, `Settles`, `EverythingEnds`):
  fairness and `ENABLED` are out of the prover's reach.
- `RequestFaithful`, `ReplyFaithful`, `StreamFaithful` and `DevinKept`. Each
  compares the result of one or two translations with its source, over all pairs of
  protocols: folds over turns, blocks or frames inside others. The inductions that `Recursion` supports would apply, but the
  statement to carry through them is a relation for each of the twelve pairs between
  two half-finished structures, as long as the converters themselves. TLC
  covers the pairs; what lies beyond its bounds is the length of a dialogue, of a
  reply, and of a stream.

## 5. Not modelled

- Byte formats: URLs, headers, JSON, protobuf, SQL text, encryption, hashing.
- The web socket of the Codex channel (`upstream/codex_ws.rs`) and its fall back
  to HTTP: a client of a protocol whose other side is not in the repository.
- Balance and usage queries of channels: read-only calls whose answers are shown.
- Media: request and reply formats, downloads and URL resolution.
- The web interface in `src/web/`, statistics, metrics, listings, presets, tests of a
  channel, logs and audit pages, embedded assets, the network guard: no state of
  their own whose order matters.
- Creation of partitions; start-up (sockets, migrations, seeds, start-up keys).
- Several processes on one database, except for the pollers of media tasks, which
  overlap during a restart: the in-memory maps assume one process.
- `insert_batch` is modelled by which events it counts; amounts are `Pricing`'s.

## 6. Plan

Done: the log pipeline with its abstract specification and its shutdown;
idempotency keys; the breaker; the request path; limits, quotas and routing; what
traffic leaves on channels; the credential of Codex and the Devin channel; the
conversions and the metering of streams; media tasks; administrators, catalogue,
routes, settings and prices; the theorems of section 4.

Theorems to come: `ReplyFaithful`, pair by pair.

Modelling to come: the Codex web socket with its fall back, and the creation of
partitions ahead of time.
