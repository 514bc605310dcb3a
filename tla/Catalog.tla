------------------------------ MODULE Catalog ------------------------------
(***************************************************************************)
(* The entities (API keys, upstreams, proxies) and the snapshot of them     *)
(* that requests read.  An administrator's handler validates, writes the    *)
(* database, then reloads: one SELECT per table, then the new snapshot is   *)
(* put in place.  Background tasks reload too.  A value is the number of    *)
(* the write that made it, so that a greater value is a newer one.          *)
(***************************************************************************)
EXTENDS Integers, Sequences, FiniteSets

CONSTANTS
    Keys, Channels, Proxies,    \* ids of rows, by table
    Writers,                    \* handlers and tasks
    MaxWriters,                 \* of them, in flight at once
    MaxWrites,                  \* bound on the writes
    RequestedIds,               \* bound on the ids whose use by requests is followed
    HasSecretKey                \* NEXTAPI_SECRET_KEY is set

ASSUME CatalogAssumption ==
    /\ MaxWriters \in Nat /\ MaxWrites \in Nat /\ HasSecretKey \in BOOLEAN /\ IsFiniteSet(Writers)
    /\ Keys \cap Channels = {} /\ Keys \cap Proxies = {} /\ Channels \cap Proxies = {}

VARIABLES
    db,         \* the tables
    cache,      \* EntityCache: the snapshot
    writer,     \* what each handler or task does
    writes,     \* number of writes so far
    memory,     \* ids with a window, verdict, breaker entry or lock in memory
    overtaken,  \* ghost: reloads under way while another put its copy in place
    excuse      \* ghost: why the snapshot may be older than the tables

catalogVars == <<db, cache, writer, writes, memory, overtaken, excuse>>

Ids == Keys \cup Channels \cup Proxies
NoRow == [exists |-> FALSE, secret |-> 0, enabled |-> FALSE]
Row(s, e) == [exists |-> TRUE, secret |-> s, enabled |-> e]
NothingRead == [i \in Ids |-> NoRow]
WriterIdle == [pc |-> "idle"]

\* The order of the SELECTs in reload
TableOrder == <<Keys, Channels, Proxies>>

CatalogInit ==
    /\ db = [i \in Ids |-> Row(0, TRUE)] /\ cache = db
    /\ writer = [w \in Writers |-> WriterIdle]
    /\ writes = 0 /\ memory = {} /\ overtaken = {} /\ excuse = {}

Busy(ws) == {w \in Writers : ws[w].pc # "idle"}
Loading(ws) == {w \in Writers : ws[w].pc = "load"}

Starts(w, ws) == ws[w].pc = "idle" /\ Cardinality(Busy(ws)) < MaxWriters

-----------------------------------------------------------------------------
(* reload.  Two of them in flight may finish in either order.                *)
Loads(w, clears) == [writer EXCEPT ![w] = [pc |-> "load", table |-> 1, copy |-> NothingRead, clears |-> clears]]

ReloadSelect(w) ==
    /\ writer[w].pc = "load" /\ writer[w].table <= Len(TableOrder)
    /\ writer' = [writer EXCEPT
           ![w].copy = [i \in Ids |-> IF i \in TableOrder[writer[w].table] THEN db[i] ELSE @[i]],
           ![w].table = @ + 1]
    /\ UNCHANGED <<db, cache, writes, memory, overtaken, excuse>>

\* What the handlers do in memory once the reload has succeeded:
\* update_upstream resets the breaker when it was told to enable or disable,
\* delete_upstream forgets the throttle and the lock.
AfterReload(w) == memory \ writer[w].clears

ReloadInstall(w) ==
    /\ writer[w].pc = "load" /\ writer[w].table > Len(TableOrder)
    /\ cache' = writer[w].copy
    /\ memory' = AfterReload(w)
    /\ writer' = [writer EXCEPT ![w] = WriterIdle]
    /\ overtaken' = Loading(writer')
    /\ excuse' = CASE Loading(writer') = {} /\ cache' = db -> {}
                   [] w \in overtaken /\ cache' # db -> excuse \cup {"overtaken"}
                   [] OTHER -> excuse
    /\ UNCHANGED <<db, writes>>

\* A SELECT fails: the handler answers 500; what it wrote stays.
ReloadFails(w) ==
    /\ writer[w].pc = "load"
    /\ writer' = [writer EXCEPT ![w] = WriterIdle]
    /\ overtaken' = overtaken \ {w}
    /\ excuse' = excuse \cup {"failed"}
    /\ UNCHANGED <<db, cache, writes, memory>>

\* A background task reloads: a refreshed token, a synchronisation, presets.
TaskReloads(w) ==
    /\ Starts(w, writer)
    /\ writer' = Loads(w, {})
    /\ UNCHANGED <<db, cache, writes, memory, overtaken, excuse>>

\* Bug: a handler leaves the reload to one that is under way
Written_JoinsReload(w, i, row, clears) ==
    /\ db' = [db EXCEPT ![i] = row]
    /\ writes' = writes + 1
    /\ writer' = IF Loading(writer) = {} THEN Loads(w, clears) ELSE [writer EXCEPT ![w] = WriterIdle]
    /\ UNCHANGED <<cache, overtaken, excuse>>

\* A write is committed, and the reload begins.
Written(w, i, row, clears) ==
    /\ db' = [db EXCEPT ![i] = row]
    /\ writes' = writes + 1
    /\ writer' = Loads(w, clears)
    /\ UNCHANGED <<cache, overtaken, excuse>>

-----------------------------------------------------------------------------
(* A secret in a request: not given or masked keeps it, empty clears it.     *)
SecretGiven == IF HasSecretKey THEN {"keep", "clear", "set"} ELSE {"keep", "clear"}

secret_semantics(given, old) == CASE given = "keep" -> old [] given = "clear" -> 0 [] given = "set" -> writes + 1

\* INSERT; the database gives the id.
MayCreate(w, i) == Starts(w, writer) /\ ~db[i].exists /\ writes < MaxWrites

\* The secret of a key is made here, and the key is enabled.
create_key(w, i) == i \in Keys /\ MayCreate(w, i) /\ Written(w, i, Row(writes + 1, TRUE), {}) /\ UNCHANGED memory

create_upstream(w, i) ==
    /\ i \in Channels /\ MayCreate(w, i)
    /\ \E given \in SecretGiven, on \in BOOLEAN : Written(w, i, Row(secret_semantics(given, 0), on), {})
    /\ UNCHANGED memory

create_proxy(w, i) ==
    /\ i \in Proxies /\ MayCreate(w, i)
    /\ \E given \in SecretGiven, on \in BOOLEAN : Written(w, i, Row(secret_semantics(given, 0), on), {})
    /\ UNCHANGED memory

\* update_*, rotate_key and devin_reauth read the row first; what the request
\* leaves out is written back as it was read.
fetch_row(w, i) ==
    /\ Starts(w, writer) /\ db[i].exists
    /\ writer' = [writer EXCEPT ![w] = [pc |-> "fetched", id |-> i, row |-> db[i]]]
    /\ UNCHANGED <<db, cache, writes, memory, overtaken, excuse>>

Fetched(w, table) == writer[w].pc = "fetched" /\ writer[w].id \in table /\ writes < MaxWrites

\* An UPDATE of a row that is gone changes nothing; the reload follows anyway.
Updated(w, row, clears) ==
    Written(w, writer[w].id, IF db[writer[w].id].exists THEN row ELSE NoRow, clears)

\* Bug: the UPDATE of a key writes all its columns back
update_key_AllColumns(w) ==
    /\ Fetched(w, Keys)
    /\ \E on \in BOOLEAN : Updated(w, Row(writer[w].row.secret, on), {})
    /\ UNCHANGED memory

\* The UPDATE of a key leaves its hash alone.
update_key(w) ==
    /\ Fetched(w, Keys)
    /\ \E on \in BOOLEAN : Updated(w, Row(db[writer[w].id].secret, on), {})
    /\ UNCHANGED memory

rotate_key(w) ==
    /\ Fetched(w, Keys)
    /\ Updated(w, Row(writes + 1, db[writer[w].id].enabled), {})
    /\ UNCHANGED memory

\* That of a proxy or an upstream writes every column, the secret included.
FullRow(w, given, told, on) ==
    Row(secret_semantics(given, writer[w].row.secret), IF told THEN on ELSE writer[w].row.enabled)

update_upstream(w) ==
    /\ Fetched(w, Channels)
    /\ \E given \in SecretGiven, told \in BOOLEAN, on \in BOOLEAN :
           Updated(w, FullRow(w, given, told, on), IF told THEN {writer[w].id} ELSE {})
    /\ UNCHANGED memory

\* A token is exchanged; one column is written, the breaker reset at once.
devin_reauth(w) ==
    /\ HasSecretKey /\ Fetched(w, Channels)
    /\ Updated(w, Row(writes + 1, db[writer[w].id].enabled), {})
    /\ memory' = memory \ {writer[w].id}

update_proxy(w) ==
    /\ Fetched(w, Proxies)
    /\ \E given \in SecretGiven, told \in BOOLEAN, on \in BOOLEAN : Updated(w, FullRow(w, given, told, on), {})
    /\ UNCHANGED memory

\* The request is not valid.
RequestInvalid(w, table) ==
    /\ writer[w].pc = "fetched" /\ writer[w].id \in table
    /\ writer' = [writer EXCEPT ![w] = WriterIdle]
    /\ UNCHANGED <<db, cache, writes, memory, overtaken, excuse>>

validate_key_limits(w) == RequestInvalid(w, Keys)
validate_upstream(w) == RequestInvalid(w, Channels)
validate_proxy(w) == RequestInvalid(w, Proxies)

\* delete_*: what is in memory of a key goes before the reload; of an upstream
\* the breaker's entry goes before it, the throttle and the lock after it.
MayDelete(w, i) == Starts(w, writer) /\ db[i].exists /\ writes < MaxWrites

delete_key(w, i) == i \in Keys /\ MayDelete(w, i) /\ memory' = memory \ {i} /\ Written(w, i, NoRow, {})

delete_upstream(w, i) == i \in Channels /\ MayDelete(w, i) /\ memory' = memory \ {i} /\ Written(w, i, NoRow, {i})

delete_proxy(w, i) == i \in Proxies /\ MayDelete(w, i) /\ Written(w, i, NoRow, {}) /\ UNCHANGED memory

-----------------------------------------------------------------------------
\* A request reads the snapshot: its key and its upstream are then known to
\* the limiter, the quota cache and the breaker.
RequestUses(i) ==
    /\ i \in RequestedIds /\ cache[i].exists /\ cache[i].enabled /\ i \notin Proxies
    /\ memory' = memory \cup {i}
    /\ UNCHANGED <<db, cache, writer, writes, overtaken, excuse>>

CatalogNext ==
    \/ \E w \in Writers :
        \/ TaskReloads(w) \/ ReloadSelect(w) \/ ReloadInstall(w) \/ ReloadFails(w)
        \/ update_key(w) \/ rotate_key(w) \/ update_upstream(w) \/ devin_reauth(w) \/ update_proxy(w)
        \/ validate_key_limits(w) \/ validate_upstream(w) \/ validate_proxy(w)
        \/ \E i \in Ids :
            \/ create_key(w, i) \/ create_upstream(w, i) \/ create_proxy(w, i) \/ fetch_row(w, i)
            \/ delete_key(w, i) \/ delete_upstream(w, i) \/ delete_proxy(w, i)
    \/ \E i \in Ids : RequestUses(i)

CatalogSpec == CatalogInit /\ [][CatalogNext]_catalogVars

-----------------------------------------------------------------------------
CatalogRows == [exists : BOOLEAN, secret : 0 .. MaxWrites, enabled : BOOLEAN]

CatalogTypeOK ==
    /\ db \in [Ids -> CatalogRows] /\ cache \in [Ids -> CatalogRows]
    /\ writer \in [Writers -> {WriterIdle}
           \cup [pc : {"fetched"}, id : Ids, row : CatalogRows]
           \cup [pc : {"load"}, table : 1 .. Len(TableOrder) + 1, copy : [Ids -> CatalogRows], clears : SUBSET Ids]]
    /\ writes \in 0 .. MaxWrites /\ memory \subseteq Ids
    /\ overtaken \subseteq Writers /\ excuse \subseteq {"overtaken", "failed"}

\* At rest the snapshot is what the tables hold, however many reloads overlap, unless one failed
\* or one that another had overtaken put an older copy back and no reload has come since.
StaleExplained == Busy(writer) = {} /\ excuse = {} => cache = db

\* "In an extreme race an old value is read at most once": once the handlers have ended and no
\* reload has failed, the snapshot is what the tables hold.  (Refuted: a reload that read before
\* a write and is installed after that write's reload leaves the old rows until the next one.)
StaleOnlyMeanwhile == Busy(writer) = {} /\ "failed" \notin excuse => cache = db

\* The hash of an API key only moves forward: no update of its other columns,
\* in flight while the key is rotated, brings an old key back.
RotationHolds ==
    [][\A i \in Keys : db[i].exists /\ db'[i].exists => db'[i].secret >= db[i].secret]_catalogVars

\* A revoked key stays revoked: once the snapshot has a newer hash no later
\* step puts an older one back.  (Refuted when reloads overlap.)
RevokedStaysRevoked ==
    [][\A i \in Keys : cache[i].exists /\ cache'[i].exists => cache'[i].secret >= cache[i].secret]_catalogVars

\* A deleted row leaves nothing behind in memory.  (Refuted: a request may
\* use the old snapshot after the cleanup and before the reload.)
NothingLeftBehind ==
    \A i \in Ids : Busy(writer) = {} /\ ~db[i].exists /\ ~cache[i].exists => i \notin memory
=============================================================================
