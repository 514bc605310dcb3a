----------------------------- MODULE LogPipeline -----------------------------
(***************************************************************************)
(* The billing log pipeline of the gateway: LogSink.log (logging/mod.rs),  *)
(* the background writer (logging/writer.rs), the write-ahead fallback     *)
(* files and their replay (logging/wal.rs), the database transaction of    *)
(* insert_batch, and the start and stop sequence of main.rs.               *)
(*                                                                         *)
(* An event is one request's log record; its (request_id, ts) never        *)
(* changes, so it is a model value.  A WAL file is a sequence of pieces of *)
(* text as they reached the disk: a whole encoded event or a fragment of   *)
(* one, with or without the newline that ends its line.                    *)
(***************************************************************************)
EXTENDS Integers, Sequences, FiniteSets

CONSTANTS
    Event,         \* log events, each produced once by a finished request
    Torn,          \* the readable beginning of an event line that was cut
    TornUtf8,      \* the same, cut in the middle of a UTF-8 character
    LogAsync,      \* the kinds of LogSink the process is started with: "open" with a
                   \* queue (gateway.log_async = true), "none" without
    QueueCap,      \* gateway.log_queue_capacity
    BatchMax,      \* BATCH_MAX
    MaxFileLines,  \* gateway.log_wal_file_max_mb, counted in lines
    MaxFiles,      \* bound: WAL files ever created
    MaxIncidents,  \* bound: failures, crashes and shutdowns in a behaviour
    Faults         \* which failures the environment produces

FaultKinds == {"db", "ambiguous", "partition", "walerr", "torn", "tornutf8", "fsync",
               "timeout", "crash"}

ASSUME EventAssumption == Torn \notin Event /\ TornUtf8 \notin Event
ASSUME BoundAssumption ==
    /\ LogAsync \subseteq {"open", "none"} /\ LogAsync # {}
    /\ QueueCap \in Nat \ {0}
    /\ BatchMax \in Nat \ {0}
    /\ MaxFileLines \in Nat
    /\ MaxFiles \in Nat
    /\ MaxIncidents \in Nat
ASSUME FaultAssumption == Faults \subseteq FaultKinds

VARIABLES
    phase,      \* main.rs: startup, serving, draining, waiting, joining, down
    sender,     \* LogSink.queue: "open" for Some(Sender), "none" for None
    queue,      \* the bounded mpsc channel
    task,       \* the spawned write task of an event
    waited,     \* tasks whose handles wait_pending took
    wpc,        \* control point of run_writer
    batch,      \* run_writer's batch
    drains,     \* drain_attempts; NotDraining inside the main loop
    cur,        \* WalInner.cur_path, NoFile for None
    curSize,    \* WalInner.cur_size
    seq,        \* WAL files created so far (names never repeat)
    file,       \* contents of the WAL files
    fstate,     \* whether a file is live (.jsonl), .archived or deleted
    rpc,        \* control point of replay_and_archive
    rtodo,      \* files of the listing still to be replayed
    rfile,      \* file being replayed
    rlen,       \* len_before of that file
    rn,         \* pieces of it that decode_file read
    rpos,       \* last piece whose chunk was inserted
    rows,       \* usage_logs: events that have, or had, a row
    agg,        \* how often usage_hourly / quota_usage counted an event
    gone,       \* events whose partition of usage_logs was dropped
    logged,     \* history: events passed to LogSink.log
    late,       \* history: the ones logged after wait_pending took the handles
    acked,      \* history: events of appends that returned Ok
    dropped,    \* history: events given up with an error message
    lost,       \* history: events that were only in memory when the process ended
    incidents   \* failures still allowed

sinkVars   == <<sender, queue, task>>
writerVars == <<wpc, batch, drains>>
walVars    == <<cur, curSize, seq, file, fstate>>
replayVars == <<rpc, rtodo, rfile, rlen, rn, rpos>>
tables     == <<rows, agg>>
dbVars     == <<rows, agg, gone>>
vars == <<phase, sinkVars, waited, writerVars, walVars, replayVars, dbVars,
          logged, late, acked, dropped, lost, incidents>>

NoFile == 0
NotDraining == -1
DrainAttempts == 3
FileId == 1..MaxFiles

Phases  == {"startup", "serving", "draining", "waiting", "joining", "down"}
Running == Phases \ {"startup", "down"}
Pending == {"insert", "append"}

Elems(s) == {s[i] : i \in DOMAIN s}

-----------------------------------------------------------------------------
(* Text of the WAL files. *)

Piece == [ev : Event \cup {Torn, TornUtf8}, nl : BOOLEAN]

Lines(evs) == [i \in DOMAIN evs |-> [ev |-> evs[i], nl |-> TRUE]]

\* decode_line succeeds on piece i of the first n pieces of p: the piece is a whole
\* event and shares its line with no other piece.
Decodable(p, n) ==
    {i \in 1..n : /\ p[i].ev \in Event
                  /\ i > 1 => p[i - 1].nl
                  /\ i < n => p[i].nl}

\* read_to_string refuses a file that is not valid UTF-8.
Readable(p, n) == \A i \in 1..n : p[i].ev # TornUtf8

OnDisk == {e \in Event : \E f \in FileId :
              /\ fstate[f] = "live"
              /\ Readable(file[f], Len(file[f]))
              /\ \E i \in Decodable(file[f], Len(file[f])) : file[f][i].ev = e}

TaskEvents == {e \in Event : task[e] \in Pending}
Volatile   == Elems(queue) \cup Elems(batch) \cup TaskEvents

-----------------------------------------------------------------------------
Init ==
    /\ phase = "startup"
    /\ sender = "none" /\ queue = <<>> /\ task = [e \in Event |-> "none"]
    /\ waited = {}
    /\ wpc = "off" /\ batch = <<>> /\ drains = NotDraining
    /\ cur = NoFile /\ curSize = 0 /\ seq = 0
    /\ file = [f \in FileId |-> <<>>]
    /\ fstate = [f \in FileId |-> "absent"]
    /\ rpc = "idle" /\ rtodo = {} /\ rfile = NoFile /\ rlen = 0 /\ rn = 0 /\ rpos = 0
    /\ rows = {} /\ agg = [e \in Event |-> 0] /\ gone = {}
    /\ logged = {} /\ late = {} /\ acked = {} /\ dropped = {} /\ lost = {}
    /\ incidents = MaxIncidents

Incident(kind) ==
    /\ kind \in Faults
    /\ incidents > 0
    /\ incidents' = incidents - 1

-----------------------------------------------------------------------------
(* insert_batch: one transaction.  The argument maps positions to events.   *)

Copies(evs, e) == Cardinality({i \in DOMAIN evs : evs[i] = e})

\* Bug: the aggregates run over the whole batch (the code before RETURNING was used).
Commit_WholeBatch(evs) ==
    /\ rows' = rows \cup Elems(evs)
    /\ agg' = [e \in Event |-> agg[e] + Copies(evs, e)]

\* ON CONFLICT DO NOTHING keeps one row per event; the aggregates then run over
\* every member of the batch whose request_id was newly inserted.
Commit(evs) ==
    /\ rows' = rows \cup Elems(evs)
    /\ agg' = [e \in Event |-> IF e \in rows THEN agg[e] ELSE agg[e] + Copies(evs, e)]

\* An INSERT of a row that no partition accepts fails, and with it the transaction.
Insertable(evs) == Elems(evs) \cap gone = {}

InsertOk(evs) ==
    /\ Insertable(evs)
    /\ Commit(evs)
    /\ UNCHANGED <<gone, incidents>>

\* An error leaves nothing behind, unless the answer to COMMIT is what got lost.
InsertErr(evs) ==
    \/ Incident("db") /\ UNCHANGED dbVars
    \/ Incident("ambiguous") /\ Insertable(evs) /\ Commit(evs) /\ UNCHANGED gone
    \/ ~Insertable(evs) /\ UNCHANGED <<dbVars, incidents>>

\* partition::drop_covered: an administrator drops the partition that holds e.
DropPartition(e) ==
    /\ phase \in Running
    /\ e \in logged \ gone
    /\ Incident("partition")
    /\ gone' = gone \cup {e}
    /\ UNCHANGED <<phase, sinkVars, waited, writerVars, walVars, replayVars, tables,
                   logged, late, acked, dropped, lost>>

-----------------------------------------------------------------------------
(* WalWriter.append: the whole call runs under the writer's mutex.          *)

should_roll(n) == MaxFileLines > 0 /\ curSize + n > MaxFileLines

NeedNew(evs) == cur = NoFile \/ should_roll(Len(evs))

AppendOk(evs) ==
    LET f == IF NeedNew(evs) THEN seq + 1 ELSE cur
    IN  /\ f \in FileId
        /\ file' = [file EXCEPT ![f] = @ \o Lines(evs)]
        /\ fstate' = [fstate EXCEPT ![f] = "live"]
        /\ curSize' = IF NeedNew(evs) THEN Len(evs) ELSE curSize + Len(evs)
        /\ seq' = IF NeedNew(evs) THEN seq + 1 ELSE seq
        /\ cur' = f
        /\ acked' = acked \cup Elems(evs)
        /\ UNCHANGED incidents

\* What may have reached the file when write_all stops inside the data: some whole
\* lines, then nothing, a fragment, or a whole event without its newline.
CutWrites(evs, fragment) ==
    LET whole(k) == SubSeq(Lines(evs), 1, k)
    IN  {whole(k) : k \in 0..(Len(evs) - 1)}
        \cup {Append(whole(k), [ev |-> fragment, nl |-> FALSE]) : k \in 0..(Len(evs) - 1)}
        \cup {Append(whole(k - 1), [ev |-> evs[k], nl |-> FALSE]) : k \in 1..Len(evs)}

\* write_all failed after leaving w in the file: cur_path and cur_size keep their values.
AppendLeaves(evs, w) ==
    LET f == IF NeedNew(evs) THEN seq + 1 ELSE cur
    IN  /\ f \in FileId
        /\ file' = [file EXCEPT ![f] = @ \o w]
        /\ fstate' = [fstate EXCEPT ![f] = "live"]
        /\ seq' = IF NeedNew(evs) THEN seq + 1 ELSE seq
        /\ UNCHANGED <<cur, curSize, acked>>

\* create_dir_all or open failed; or write_all failed part-way; or only sync_all failed.
AppendErr(evs) ==
    \/ Incident("walerr") /\ UNCHANGED <<walVars, acked>>
    \/ Incident("torn") /\ \E w \in CutWrites(evs, Torn) : AppendLeaves(evs, w)
    \/ Incident("tornutf8") /\ \E w \in CutWrites(evs, TornUtf8) : AppendLeaves(evs, w)
    \/ Incident("fsync") /\ AppendLeaves(evs, Lines(evs))

-----------------------------------------------------------------------------
(* LogSink.log and the tasks it spawns.                                     *)

\* Bug: the channel is unbounded.
Log_Unbounded(e) ==
    /\ phase \in Running
    /\ e \notin logged
    /\ logged' = logged \cup {e}
    /\ queue' = Append(queue, e)
    /\ UNCHANGED <<phase, sender, task, waited, late, writerVars, walVars, replayVars,
                   dbVars, acked, dropped, lost, incidents>>

\* log(): try_send to the writer; a full queue spills to the WAL; without a sender
\* (log_async = false, or after close) the task writes the database itself.  Request
\* handlers and the media poller run in every phase in which the server is up.
Log(e) ==
    /\ phase \in Running
    /\ e \notin logged
    /\ logged' = logged \cup {e}
    /\ late' = IF phase \in {"waiting", "joining"} THEN late \cup {e} ELSE late
    /\ \/ /\ sender = "open" /\ Len(queue) < QueueCap
          /\ queue' = Append(queue, e)
          /\ UNCHANGED task
       \/ /\ sender = "open" /\ Len(queue) >= QueueCap
          /\ task' = [task EXCEPT ![e] = "append"]
          /\ UNCHANGED queue
       \/ /\ sender = "none"
          /\ task' = [task EXCEPT ![e] = "insert"]
          /\ UNCHANGED queue
    /\ UNCHANGED <<phase, sender, waited, writerVars, walVars, replayVars, dbVars,
                   acked, dropped, lost, incidents>>

\* The direct-write task: insert_batch of one event, the WAL on failure.
TaskInsert(e) ==
    /\ task[e] = "insert"
    /\ \/ InsertOk(<<e>>) /\ task' = [task EXCEPT ![e] = "done"]
       \/ InsertErr(<<e>>) /\ task' = [task EXCEPT ![e] = "append"]
    /\ UNCHANGED <<phase, sender, queue, waited, writerVars, walVars, replayVars,
                   logged, late, acked, dropped, lost>>

\* The spill task, or the direct-write task's fallback.
TaskAppend(e) ==
    /\ task[e] = "append"
    /\ task' = [task EXCEPT ![e] = "done"]
    /\ \/ AppendOk(<<e>>) /\ UNCHANGED dropped
       \/ AppendErr(<<e>>) /\ dropped' = dropped \cup {e}
    /\ UNCHANGED <<phase, sender, queue, waited, writerVars, replayVars, dbVars,
                   logged, late, lost>>

-----------------------------------------------------------------------------
(* run_writer.                                                              *)

WriterRecv ==
    /\ wpc = "recv"
    /\ queue # <<>>
    /\ batch' = Append(batch, Head(queue))
    /\ queue' = Tail(queue)
    /\ wpc' = IF Len(batch') >= BatchMax THEN "insert" ELSE "recv"
    /\ UNCHANGED <<phase, sender, task, waited, drains, walVars, replayVars, dbVars,
                   logged, late, acked, dropped, lost, incidents>>

\* The batch interval elapsed.
WriterTimer ==
    /\ wpc = "recv"
    /\ batch # <<>>
    /\ wpc' = "insert"
    /\ UNCHANGED <<phase, sinkVars, waited, batch, drains, walVars, replayVars, dbVars,
                   logged, late, acked, dropped, lost, incidents>>

\* recv() returns None: every sender is gone and the channel is empty.
WriterClosed ==
    /\ wpc = "recv"
    /\ queue = <<>>
    /\ sender = "none"
    /\ wpc' = "drain"
    /\ drains' = 0
    /\ UNCHANGED <<phase, sinkVars, waited, batch, walVars, replayVars, dbVars,
                   logged, late, acked, dropped, lost, incidents>>

AfterFlush == IF drains = NotDraining THEN "recv" ELSE "drain"

\* flush: insert_batch, then on failure the WAL, then the backoff sleep.
FlushInsert ==
    /\ wpc = "insert"
    /\ \/ InsertOk(batch) /\ batch' = <<>> /\ wpc' = AfterFlush
       \/ InsertErr(batch) /\ UNCHANGED batch /\ wpc' = "append"
    /\ UNCHANGED <<phase, sinkVars, waited, drains, walVars, replayVars,
                   logged, late, acked, dropped, lost>>

\* Bug: the batch is cleared although neither store took it.
FlushAppend_Clears ==
    /\ wpc = "append"
    /\ AppendOk(batch) \/ AppendErr(batch)
    /\ batch' = <<>>
    /\ wpc' = "sleep"
    /\ UNCHANGED <<phase, sinkVars, waited, drains, replayVars, dbVars,
                   logged, late, dropped, lost>>

FlushAppend ==
    /\ wpc = "append"
    /\ \/ AppendOk(batch) /\ batch' = <<>>
       \/ AppendErr(batch) /\ UNCHANGED batch
    /\ wpc' = "sleep"
    /\ UNCHANGED <<phase, sinkVars, waited, drains, replayVars, dbVars,
                   logged, late, dropped, lost>>

FlushWake ==
    /\ wpc = "sleep"
    /\ wpc' = AfterFlush
    /\ UNCHANGED <<phase, sinkVars, waited, batch, drains, walVars, replayVars, dbVars,
                   logged, late, acked, dropped, lost, incidents>>

\* The shutdown loop: three more flushes, then the batch is discarded.
WriterDrain ==
    /\ wpc = "drain"
    /\ \/ /\ batch # <<>> /\ drains < DrainAttempts
          /\ drains' = drains + 1
          /\ wpc' = "insert"
          /\ UNCHANGED <<batch, dropped>>
       \/ /\ batch = <<>> \/ drains >= DrainAttempts
          /\ dropped' = dropped \cup Elems(batch)
          /\ batch' = <<>>
          /\ wpc' = "exited"
          /\ UNCHANGED drains
    /\ UNCHANGED <<phase, sinkVars, waited, walVars, replayVars, dbVars,
                   logged, late, acked, lost, incidents>>

-----------------------------------------------------------------------------
(* replay_and_archive: once at startup, then every 60 seconds.              *)

\* Bug: the files are replayed at startup only.
ReplayList_StartupOnly ==
    /\ phase = "startup"
    /\ rpc = "idle"
    /\ rpc' = "scan"
    /\ rtodo' = {f \in FileId : fstate[f] = "live"}
    /\ UNCHANGED <<phase, sinkVars, waited, writerVars, walVars, rfile, rlen, rn, rpos,
                   dbVars, logged, late, acked, dropped, lost, incidents>>

ReplayList ==
    /\ phase # "down"
    /\ rpc = "idle"
    /\ rpc' = "scan"
    /\ rtodo' = {f \in FileId : fstate[f] = "live"}
    /\ UNCHANGED <<phase, sinkVars, waited, writerVars, walVars, rfile, rlen, rn, rpos,
                   dbVars, logged, late, acked, dropped, lost, incidents>>

\* len_before, taken before the file is read.  The files are visited in the order of
\* their modification times; any order is allowed here.
ReplayStat(f) ==
    /\ rpc = "scan"
    /\ f \in rtodo
    /\ rtodo' = rtodo \ {f}
    /\ rfile' = f
    /\ rlen' = Len(file[f])
    /\ rpc' = "read"
    /\ UNCHANGED <<phase, sinkVars, waited, writerVars, walVars, rn, rpos, dbVars,
                   logged, late, acked, dropped, lost, incidents>>

\* decode_file reads without the writer's mutex; an unreadable file is kept.
ReplayRead ==
    /\ rpc = "read"
    /\ rn' = Len(file[rfile])
    /\ rpos' = 0
    /\ rpc' = IF Readable(file[rfile], rn') THEN "insert" ELSE "scan"
    /\ UNCHANGED <<phase, sinkVars, waited, writerVars, walVars, rtodo, rfile, rlen,
                   dbVars, logged, late, acked, dropped, lost, incidents>>

Left == {i \in Decodable(file[rfile], rn) : i > rpos}

\* The next BatchMax events of the file (chunks(BATCH_MAX)).
Chunk == {i \in Left : Cardinality({j \in Left : j < i}) < BatchMax}

\* Bug: a failed chunk does not keep the file from being archived.
ReplayInsert_SkipsFailed ==
    LET evs == [i \in Chunk |-> file[rfile][i].ev]
    IN  /\ rpc = "insert"
        /\ Left # {}
        /\ InsertOk(evs) \/ InsertErr(evs)
        /\ \E i \in Chunk : (\A j \in Chunk : j <= i) /\ rpos' = i
        /\ UNCHANGED <<phase, sinkVars, waited, writerVars, walVars, rpc, rtodo, rfile, rlen,
                       rn, logged, late, acked, dropped, lost>>

ReplayInsert ==
    LET evs == [i \in Chunk |-> file[rfile][i].ev]
    IN  /\ rpc = "insert"
        /\ Left # {}
        /\ \/ /\ InsertOk(evs)
              /\ \E i \in Chunk : (\A j \in Chunk : j <= i) /\ rpos' = i
              /\ UNCHANGED rpc
           \/ /\ InsertErr(evs)
              /\ rpc' = "scan"
              /\ UNCHANGED rpos
        /\ UNCHANGED <<phase, sinkVars, waited, writerVars, walVars, rtodo, rfile, rlen, rn,
                       logged, late, acked, dropped, lost>>

\* Bug: archiving does not check the length again.
MayArchive_NoLength(f) == f # cur

MayArchive(f) == f # cur /\ Len(file[f]) = rlen

\* archive_if_inactive, under the writer's mutex.
ReplayArchive ==
    /\ rpc = "insert"
    /\ Left = {}
    /\ fstate' = IF MayArchive(rfile) THEN [fstate EXCEPT ![rfile] = "archived"] ELSE fstate
    /\ rpc' = "scan"
    /\ UNCHANGED <<phase, sinkVars, waited, writerVars, cur, curSize, seq, file,
                   rtodo, rfile, rlen, rn, rpos, dbVars,
                   logged, late, acked, dropped, lost, incidents>>

\* cleanup_archived deletes the archived files older than a day.  At startup the
\* server begins to accept requests when the first pass is over.
ReplayDone ==
    /\ rpc = "scan"
    /\ rtodo = {}
    /\ rpc' = "idle"
    /\ \E D \in SUBSET {f \in FileId : fstate[f] = "archived"} :
          fstate' = [f \in FileId |-> IF f \in D THEN "deleted" ELSE fstate[f]]
    /\ IF phase = "startup"
       THEN /\ phase' = "serving"
            /\ sender' \in LogAsync
            /\ wpc' = IF sender' = "open" THEN "recv" ELSE "exited"
       ELSE UNCHANGED <<phase, sender, wpc>>
    /\ UNCHANGED <<queue, task, waited, batch, drains, cur, curSize, seq, file,
                   rtodo, rfile, rlen, rn, rpos, dbVars,
                   logged, late, acked, dropped, lost, incidents>>

-----------------------------------------------------------------------------
(* Start and stop of the process (main.rs).                                 *)

\* SIGTERM: close() drops the sender, then the connections drain for up to 25 s.
Signal ==
    /\ phase = "serving"
    /\ incidents > 0
    /\ incidents' = incidents - 1
    /\ phase' = "draining"
    /\ sender' = "none"
    /\ UNCHANGED <<queue, task, waited, writerVars, walVars, replayVars, dbVars,
                   logged, late, acked, dropped, lost>>

\* The drain ends or times out; wait_pending takes the handles registered so far.
DrainEnd ==
    /\ phase = "draining"
    /\ phase' = "waiting"
    /\ waited' = TaskEvents
    /\ UNCHANGED <<sinkVars, writerVars, walVars, replayVars, dbVars,
                   logged, late, acked, dropped, lost, incidents>>

\* Bug: wait_pending is not awaited.
WaitEnd_NotAwaited ==
    /\ phase = "waiting"
    /\ phase' = "joining"
    /\ UNCHANGED <<sinkVars, waited, writerVars, walVars, replayVars, dbVars,
                   logged, late, acked, dropped, lost, incidents>>

WaitEnd ==
    /\ phase = "waiting"
    /\ waited \cap TaskEvents = {}
    /\ phase' = "joining"
    /\ UNCHANGED <<sinkVars, waited, writerVars, walVars, replayVars, dbVars,
                   logged, late, acked, dropped, lost, incidents>>

\* The process ends: memory is gone, the files and the database stay.
ProcessEnds ==
    /\ phase' = "down"
    /\ lost' = lost \cup (Volatile \ rows)
    /\ sender' = "none" /\ queue' = <<>> /\ task' = [e \in Event |-> "none"]
    /\ waited' = {}
    /\ wpc' = "off" /\ batch' = <<>> /\ drains' = NotDraining
    /\ cur' = NoFile /\ curSize' = 0
    /\ rpc' = "idle" /\ rtodo' = {} /\ rfile' = NoFile /\ rlen' = 0 /\ rn' = 0 /\ rpos' = 0
    /\ UNCHANGED <<seq, file, fstate, dbVars, logged, late, acked, dropped>>

\* main returns once the writer has been joined.
JoinEnd ==
    /\ phase = "joining"
    /\ wpc = "exited"
    /\ ProcessEnds
    /\ UNCHANGED incidents

\* main returns because the writer did not finish within 10 s.
JoinTimeout ==
    /\ phase = "joining"
    /\ wpc # "exited"
    /\ Incident("timeout")
    /\ ProcessEnds

Crash ==
    /\ phase # "down"
    /\ Incident("crash")
    /\ ProcessEnds

Start ==
    /\ phase = "down"
    /\ phase' = "startup"
    /\ UNCHANGED <<sinkVars, waited, writerVars, walVars, replayVars, dbVars,
                   logged, late, acked, dropped, lost, incidents>>

-----------------------------------------------------------------------------
Task(e) == TaskInsert(e) \/ TaskAppend(e)

Writer == \/ WriterRecv \/ WriterTimer \/ WriterClosed
          \/ FlushInsert \/ FlushAppend \/ FlushWake \/ WriterDrain

Replay == \/ ReplayList \/ ReplayRead \/ ReplayInsert \/ ReplayArchive \/ ReplayDone
          \/ \E f \in FileId : ReplayStat(f)

Process == \/ Signal \/ DrainEnd \/ WaitEnd \/ JoinEnd \/ JoinTimeout \/ Crash \/ Start

Next == \/ \E e \in Event : Log(e) \/ Task(e) \/ DropPartition(e)
        \/ Writer \/ Replay \/ Process

\* The tokio runtime polls every ready task; a stopped service is started again.
Fairness == /\ WF_vars(Writer)
            /\ WF_vars(Replay)
            /\ WF_vars(Start)
            /\ \A e \in Event : WF_vars(Task(e))

Spec == Init /\ [][Next]_vars
FairSpec == Spec /\ Fairness

-----------------------------------------------------------------------------
(* Properties. *)

\* The variables have the types the code gives them.
TypeOK ==
    /\ phase \in Phases
    /\ sender \in {"open", "none"}
    /\ queue \in Seq(Event) /\ Len(queue) <= QueueCap
    /\ task \in [Event -> {"none", "insert", "append", "done"}]
    /\ waited \subseteq Event
    /\ wpc \in {"off", "recv", "insert", "append", "sleep", "drain", "exited"}
    /\ batch \in Seq(Event)
    /\ drains \in NotDraining..DrainAttempts
    /\ cur \in 0..MaxFiles /\ curSize \in Nat /\ seq \in 0..MaxFiles
    /\ file \in [FileId -> Seq(Piece)]
    /\ fstate \in [FileId -> {"absent", "live", "archived", "deleted"}]
    /\ rpc \in {"idle", "scan", "read", "insert"}
    /\ rtodo \subseteq FileId
    /\ rfile \in 0..MaxFiles /\ (rpc \in {"read", "insert"} => rfile \in FileId)
    /\ rlen \in Nat /\ rn \in Nat /\ rpos \in Nat
    /\ rows \subseteq Event
    /\ agg \in [Event -> Nat]
    /\ gone \subseteq Event
    /\ logged \subseteq Event /\ late \subseteq Event /\ acked \subseteq Event
    /\ dropped \subseteq Event /\ lost \subseteq Event
    /\ incidents \in Nat

\* An event is counted in usage_hourly and in the quotas exactly when it has a row, and
\* exactly once, however often it is written, retried, replayed or committed unseen.
ExactlyOnce == \A e \in Event : agg[e] = IF e \in rows THEN 1 ELSE 0

\* Whatever fails, an event has a row exactly when it was added to the aggregates: the
\* detail rows, usage_hourly and quota_usage of insert_batch never come apart.
RowIffCounted == \A e \in Event : e \in rows <=> agg[e] > 0

\* What append acknowledged is never lost: the event has a row, or a live file from
\* which the next replay decodes it.
AckedDurable == acked \subseteq rows \cup OnDisk

\* A file leaves the set of replayed files only when every event in it has a row.
ArchivedCounted ==
    \A f \in FileId : fstate[f] \in {"archived", "deleted"} =>
        \A i \in Decodable(file[f], Len(file[f])) : file[f][i].ev \in rows

\* Every logged event can be accounted for: it has a row, an append acknowledged it, it
\* is in memory, was given up with an error message after both stores refused it, or was
\* in memory when the process ended.
NoSilentLoss == logged \subseteq rows \cup acked \cup Volatile \cup dropped \cup lost

\* Whatever fails, and however many faults meet: the three places where an event is
\* counted agree, and no event disappears without a trace.
AllAccounted == RowIffCounted /\ NoSilentLoss

\* A shutdown in which the writer is joined in time loses no event but those logged
\* after wait_pending took its handles.
GracefulStopKeeps == [][JoinEnd => lost' \ lost \subseteq late]_vars

\* flush's comment: the batch kept in memory is bounded by BATCH_MAX.
BatchBounded == Len(batch) <= BatchMax

\* The comment on LogSink.pending: the handles are joined so that a task does not
\* disappear with the runtime after close.
GracefulStopLosesNothing == [][JoinEnd => lost' = lost]_vars

\* Once failures stop, every logged event is counted, or was explicitly given up or
\* lost with the process, or its own partition was dropped.
EventuallyCounted == \A e \in Event :
    e \in logged ~> e \in rows \cup dropped \cup lost \cup gone

\* The pipeline implements the ledger: an event is posted only after it was recorded,
\* once, and rows and aggregates are posted together.
Books == INSTANCE Ledger WITH recorded <- logged, posted <- rows, tally <- agg
ImplementsLedger == Books!LedgerSpec

=============================================================================
