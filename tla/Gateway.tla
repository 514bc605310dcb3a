------------------------------- MODULE Gateway -------------------------------
(***************************************************************************)
(* The request path of gateway.rs: run_gateway ("chat"), the responses     *)
(* compaction handler ("compact") and images_generations ("images"), from  *)
(* the gateway key to the usage event, with the stream that outlives the   *)
(* handler (TeeStream).                                                    *)
(*                                                                         *)
(* A handler runs without interruption between two awaits; at an await the *)
(* client may be gone, and the handler is dropped where it stands.         *)
(* What a request shares with the others: the credential guard, the sticky *)
(* pin of its (key, model) and the row of its Idempotency-Key.  The verdict*)
(* of the breaker and of the limiter is an input: modules Breaker and      *)
(* Idempotency model the first and the row's statements in full.           *)
(***************************************************************************)
EXTENDS Naturals, Sequences, FiniteSets

CONSTANTS
    Request,     \* requests of one key for one model
    Input,       \* what a request can be: records [kind, stream, idem]
    Upstream,    \* upstreams
    Table,       \* the model's routes: a function from 1..n to route records
    Capable,     \* for each kind, the upstreams that can serve it
    ModeOf,      \* decide_mode for each upstream: "passthrough", "convert" or "none"
    Error,       \* the upstream errors that occur
    Sticky,      \* gateway.sticky_routing
    None         \* no upstream

Route == DOMAIN Table

Kind == {"chat", "compact", "images"}

\* UpstreamError: Connect or Timeout, statuses ("k400" is a 400 whose text names the
\* credential), a failure the channel itself recognised as credential failure, BodyRead.
UpstreamError == {"connect", "s429", "s400", "s404", "s401", "k400", "auth", "bodyread"}

\* ConvertError: Parse is the client's fault, the others are the candidate's.
ConvertError == {"parse", "unsupported"}

ASSUME TableAssumption ==
    /\ Route \subseteq Nat /\ IsFiniteSet(Route)
    /\ \A x \in Route : Table[x] \in [up : Upstream, priority : Nat, weight : Nat, retries : Nat,
                                      lock : BOOLEAN,
                                      codes : SUBSET {"s429", "s400", "s404", "s401"}]
ASSUME InputAssumption ==
    /\ Input \subseteq [kind : Kind, stream : BOOLEAN, idem : BOOLEAN]
    /\ \A in \in Input : /\ in.kind = "images" => ~in.stream
                         /\ in.kind = "compact" => ~in.idem
ASSUME UpstreamAssumption ==
    /\ Capable \in [Kind -> SUBSET Upstream]
    /\ ModeOf \in [Upstream -> {"passthrough", "convert", "none"}]
    /\ Error \subseteq UpstreamError
    /\ Sticky \in BOOLEAN
    /\ None \notin Upstream

VARIABLES
    q,         \* each request's handler, stream, events and answer
    blocked,   \* upstreams in the cooldown of the credential guard
    pin,       \* sticky upstream of (key, model)
    store      \* the row of the requests' Idempotency-Key

vars == <<q, blocked, pin, store>>
shared == <<blocked, pin, store>>

Up(x) == Table[x].up
Last(s) == s[Len(s)]

NoTee == [done |-> FALSE, finalized |-> FALSE, ctx |-> FALSE, spawned |-> 0]

Free == [status |-> "free", by |-> None, code |-> 0]

Fresh ==
    [pc |-> "start", in |-> None, att |-> <<>>, idx |-> 0, failed |-> 0, last_idx |-> 0,
     held |-> FALSE, dberr |-> FALSE, out |-> 0, answer |-> 0,
     hist |-> <<>>, events |-> <<>>, tee |-> NoTee]

Init ==
    /\ q = [r \in Request |-> Fresh]
    /\ blocked = {}
    /\ pin = None
    /\ store = Free

Put(r, c) == q' = [q EXCEPT ![r] = c]

-----------------------------------------------------------------------------
(* The event a request leaves in the log, and how a handler ends *)

Event(status, up, retry) == [status |-> status, up |-> up, retry |-> retry]

Logged(c, ev) == [c EXCEPT !.events = Append(@, ev)]

Answered(c, status) == [c EXCEPT !.pc = "answered", !.answer = status]

\* log_fail before any candidate was tried, then the error response.
Refuse(c, status) == Answered(Logged(c, Event(status, None, 0)), status)

-----------------------------------------------------------------------------
(* Admission: key, body, whitelist and limits, then the route *)

Arrive(r) ==
    /\ q[r].pc = "start"
    /\ \E in \in Input :
         LET c == [q[r] EXCEPT !.in = in] IN
         \/ Put(r, [c EXCEPT !.pc = "unauthorized", !.answer = 401])
         \/ \E status \in {400, 403, 429} : Put(r, Refuse(c, status))
         \/ Put(r, [c EXCEPT !.pc = "quota"])
    /\ UNCHANGED shared

CheckQuota(r) ==
    /\ q[r].pc = "quota"
    /\ \/ \E status \in {429, 503} : Put(r, Refuse(q[r], status))
       \/ Put(r, [q[r] EXCEPT !.pc = "route"])
    /\ UNCHANGED shared

\* Candidates of one priority: the drawn one, then the others by weight and sort order.
Before(primary, x, y) ==
    LET X == Table[x]  Y == Table[y] IN
    \/ X.priority < Y.priority
    \/ /\ X.priority = Y.priority
       /\ y # primary[Y.priority]
       /\ \/ x = primary[X.priority]
          \/ X.weight > Y.weight
          \/ X.weight = Y.weight /\ x < y

\* Every order of the candidates that a draw of weighted_pick in each group can give.
order_candidates(cands) ==
    LET Prio == {Table[x].priority : x \in cands}
        Draw == {d \in [Prio -> cands] : \A p \in Prio : Table[d[p]].priority = p}
    IN  {s \in [1..Cardinality(cands) -> cands] :
            \E d \in Draw : \A i, j \in DOMAIN s : i < j => Before(d, s[i], s[j])}

\* The candidate at pos is taken out and put before the others.
MovedFirst(att, pos) ==
    [i \in DOMAIN att |-> IF i = 1 THEN att[pos] ELSE IF i <= pos THEN att[i - 1] ELSE att[i]]

\* Bug: the pinned upstream goes first whatever its priority.
reorder_pinned_first_AnyGroup(att, up) ==
    LET At == {i \in DOMAIN att : Up(att[i]) = up}
    IN  IF At = {} THEN att ELSE MovedFirst(att, CHOOSE i \in At : \A j \in At : i <= j)

\* The pinned upstream goes first if it is in the best priority group.
reorder_pinned_first(att, up) ==
    LET At == {i \in DOMAIN att : /\ Up(att[i]) = up
                                  /\ Table[att[i]].priority = Table[att[1]].priority}
    IN  IF At = {} THEN att ELSE MovedFirst(att, CHOOSE i \in At : \A j \in At : i <= j)

\* decide_mode drops upstreams that no protocol can serve, the others keep their order (there
\* is one way to number them); images use no pin.
Attempts(kind, order) ==
    LET At == {i \in DOMAIN order : kind # "chat" \/ ModeOf[Up(order[i])] # "none"}
        InOrder == {f \in [1..Cardinality(At) -> At] : \A i, j \in DOMAIN f : i < j => f[i] < f[j]}
        served == {[i \in 1..Cardinality(At) |-> order[f[i]]] : f \in InOrder}
    IN  IF Sticky /\ kind # "images" /\ pin # None
        THEN {reorder_pinned_first(att, pin) : att \in served} ELSE served

Eligible(kind) == {x \in Route : Up(x) \in Capable[kind] \ blocked}

\* Routes, capabilities, guard, breaker (the subset it admits), order; then the header.
ChooseRoutes(r) ==
    LET c == q[r]  in == c.in IN
    /\ c.pc = "route"
    /\ \/ Put(r, Refuse(c, 404))
       \/ \E cands \in SUBSET Eligible(in.kind) : \E order \in order_candidates(cands) :
          \E att \in Attempts(in.kind, order) :
            \/ att = <<>> /\ Put(r, Refuse(c, 503))
            \/ att # <<>> /\ in.idem /\ Put(r, Refuse(c, 400))
            \/ /\ att # <<>> /\ ~(in.idem /\ in.stream)
               /\ Put(r, [c EXCEPT !.att = att, !.pc = IF in.idem THEN "begin" ELSE "build"])
    /\ UNCHANGED shared

\* idempotency::begin: take the key, be refused (in use, other body), replay, or fail
\* on a database error, the row perhaps inserted.
Begin(r) ==
    /\ q[r].pc = "begin"
    /\ \/ /\ store.status = "free"
          /\ store' = [status |-> "processing", by |-> r, code |-> 0]
          /\ Put(r, [q[r] EXCEPT !.held = TRUE, !.pc = "build"])
       \/ store.status # "free" /\ Put(r, Refuse(q[r], 409)) /\ UNCHANGED store
       \/ /\ store.status = "completed"
          /\ Put(r, [q[r] EXCEPT !.pc = "replayed", !.answer = store.code])
          /\ UNCHANGED store
       \/ /\ Put(r, [Refuse(q[r], 500) EXCEPT !.dberr = TRUE])
          /\ \/ UNCHANGED store
             \/ store.status = "free" /\ store' = [status |-> "processing", by |-> r, code |-> 0]
    /\ UNCHANGED <<blocked, pin>>

-----------------------------------------------------------------------------
(* The attempts *)

\* retry_status_codes holds statuses, whatever the text of the body.
retryable(x, e) == e = "connect" \/ (IF e = "k400" THEN "s400" ELSE e) \in Table[x].codes

client_causal(e) == e \in {"s400", "s404", "k400"}

\* compact: a 404 says that this candidate lacks the endpoint.
no_failover(kind, e) == client_causal(e) /\ ~(kind = "compact" /\ e = "s404")

auth_failure(e) == e \in {"s401", "k400", "auth"}

Code == [e \in UpstreamError \cup ConvertError |->
           CASE e = "s429" -> 429 [] e \in {"s400", "k400", "parse"} -> 400
             [] e = "s404" -> 404 [] e = "s401" -> 401 [] OTHER -> 502]

\* entry_error hides a credential failure; images_generations answers with the status it got.
FailStatus(kind, e) == IF kind # "images" /\ auth_failure(e) THEN 502 ELSE Code[e]

\* The failure event of the candidate loop; images_generations names no upstream in it.
FailEvent(c, status) ==
    Event(status, IF c.in.kind = "images" THEN None ELSE Up(Last(c.hist).route),
          c.last_idx + c.failed - 1)

\* All candidates failed: log_fail, then release the key if one is held.
AllFailed(c, e) ==
    LET status == FailStatus(c.in.kind, e)
        d == Logged(c, FailEvent(c, status))
    IN  IF c.held THEN [d EXCEPT !.pc = "release", !.out = status] ELSE Answered(d, status)

\* A candidate failed for good after idx retries.
FailCandidate(c, idx, e, stop) ==
    LET d == [c EXCEPT !.failed = @ + 1, !.last_idx = idx] IN
    IF stop \/ Len(c.att) = 1 THEN AllFailed(d, e)
    ELSE [d EXCEPT !.att = Tail(@), !.pc = "build"]

Tried(c, res) == [c EXCEPT !.hist = Append(@, [route |-> Head(c.att), res |-> res])]

\* Bug: a failed conversion counts the retries of the candidate before.
Build_KeepsIdx(r) ==
    LET c == q[r] IN
    /\ c.pc = "build"
    /\ \/ Put(r, [c EXCEPT !.pc = "call", !.idx = 0])
       \/ /\ c.in.kind = "chat" /\ ModeOf[Up(Head(c.att))] = "convert"
          /\ \E e \in ConvertError :
               Put(r, FailCandidate(Tried(c, e), c.last_idx, e, e = "parse"))
    /\ UNCHANGED shared

\* build_outbound_any: passthrough cannot fail, conversion can; lock_upstream is not asked.
Build(r) ==
    LET c == q[r] IN
    /\ c.pc = "build"
    /\ \/ Put(r, [c EXCEPT !.pc = "call", !.idx = 0])
       \/ /\ c.in.kind = "chat" /\ ModeOf[Up(Head(c.att))] = "convert"
          /\ \E e \in ConvertError : Put(r, FailCandidate(Tried(c, e), 0, e, e = "parse"))
    /\ UNCHANGED shared

\* Bug: one retry too many.
AfterError_OneMore(c, x, e) ==
    IF retryable(x, e) /\ ~Table[x].lock /\ c.idx <= Table[x].retries
    THEN [c EXCEPT !.idx = @ + 1, !.pc = "call"]
    ELSE FailCandidate(c, c.idx, e, Table[x].lock \/ no_failover(c.in.kind, e))

\* Retry here after a pause, go on to the next candidate, or give up.
AfterError(c, x, e) ==
    IF retryable(x, e) /\ ~Table[x].lock /\ c.idx < Table[x].retries
    THEN [c EXCEPT !.idx = @ + 1, !.pc = "call"]
    ELSE FailCandidate(c, c.idx, e, Table[x].lock \/ no_failover(c.in.kind, e))

\* The call fails: mark the credential, and tell the breaker (an await) if it is retryable.
CallFails(r) ==
    /\ q[r].pc = "call"
    /\ \E e \in Error :
         LET c == Tried(q[r], e)  x == Head(c.att) IN
         /\ blocked' = IF auth_failure(e) THEN blocked \cup {Up(x)} ELSE blocked
         /\ Put(r, IF retryable(x, e) THEN [c EXCEPT !.pc = "onFailure"] ELSE AfterError(c, x, e))
    /\ UNCHANGED <<pin, store>>

OnFailure(r) ==
    /\ q[r].pc = "onFailure"
    /\ Put(r, AfterError(q[r], Head(q[r].att), Last(q[r].hist).res))
    /\ UNCHANGED shared

CallSucceeds(r) ==
    /\ q[r].pc = "call"
    /\ Put(r, [Tried(q[r], "ok") EXCEPT !.pc = "onSuccess"])
    /\ UNCHANGED shared

\* A result for the client: with a key its row is settled first, then it is logged and sent.
Respond(c, status) ==
    LET ok == Event(status, Up(Head(c.att)), c.idx + c.failed) IN
    IF c.held
    THEN [c EXCEPT !.out = status, !.pc = IF status = 502 THEN "discard" ELSE "complete"]
    ELSE Answered(Logged(c, ok), status)

\* breaker.on_success returned: the mark goes, the pin is set, the response is made.
OnSuccess(r) ==
    LET c == q[r]  kind == c.in.kind  x == Head(c.att) IN
    /\ c.pc = "onSuccess"
    /\ blocked' = blocked \ {Up(x)}
    /\ pin' = IF Sticky /\ kind # "images" THEN Up(x) ELSE pin
    /\ \/ /\ c.in.stream
          /\ Put(r, [c EXCEPT !.pc = "stream", !.answer = 200, !.tee.ctx = TRUE])
       \/ ~c.in.stream /\ kind # "images" /\ Put(r, Respond(c, 200))
       \/ /\ ~c.in.stream /\ kind = "chat" /\ ModeOf[Up(x)] = "convert"
          /\ Put(r, Respond(c, 502))
       \/ kind = "images" /\ Put(r, [c EXCEPT !.pc = "image"])
       \/ /\ kind = "images"
          /\ Put(r, FailCandidate([c EXCEPT !.hist[Len(c.hist)].res = "bodyread"], c.idx,
                                  "bodyread", Table[x].lock))
    /\ UNCHANGED store

\* Images: the finished images (200), the row of an asynchronous task (202), or no row (500).
Image(r) ==
    LET c == q[r]  d == Logged(c, Event(500, None, c.idx + c.failed)) IN
    /\ c.pc = "image"
    /\ \/ \E status \in {200, 202} : Put(r, Respond(c, status))
       \/ Put(r, IF c.held THEN [d EXCEPT !.pc = "release", !.out = 500] ELSE Answered(d, 500))
    /\ UNCHANGED shared

-----------------------------------------------------------------------------
(* The row of the Idempotency-Key is settled *)

\* A statement that leaves the row as given, or fails; its error is logged or ignored.
Settled(r, c, row) ==
    /\ \/ store' = row /\ Put(r, c)
       \/ store' = store /\ Put(r, [c EXCEPT !.dberr = TRUE])
    /\ UNCHANGED <<blocked, pin>>

\* idempotency::complete; an error is only logged.
Complete(r) ==
    /\ q[r].pc = "complete"
    /\ Settled(r, [q[r] EXCEPT !.pc = "respond"],
               [status |-> "completed", by |-> r, code |-> q[r].out])

\* idempotency::fail, its error ignored, before the 502 of a response that does not convert.
Discard(r) ==
    /\ q[r].pc = "discard"
    /\ Settled(r, [q[r] EXCEPT !.pc = "respond"], Free)

\* The row is settled: log the result and send it.
Finish(r) ==
    LET c == q[r]  ev == Event(c.out, Up(Head(c.att)), c.idx + c.failed) IN
    /\ c.pc = "respond"
    /\ Put(r, Answered(Logged(c, ev), c.out))
    /\ UNCHANGED shared

\* Bug: the key of a failed request is kept.
Release_Keeps(r) ==
    /\ q[r].pc = "release"
    /\ Put(r, Answered(q[r], q[r].out))
    /\ UNCHANGED shared

\* Bug: an error of the statement is not ignored, and the client waits for ever.
Release_Unwraps(r) ==
    /\ q[r].pc = "release" /\ ~q[r].dberr
    /\ \/ store' = Free /\ Put(r, Answered(q[r], q[r].out))
       \/ store' = store /\ Put(r, [q[r] EXCEPT !.dberr = TRUE])
    /\ UNCHANGED <<blocked, pin>>

\* idempotency::fail after the failure was logged, then the error response.
Release(r) ==
    /\ q[r].pc = "release"
    /\ Settled(r, Answered(q[r], q[r].out), Free)

-----------------------------------------------------------------------------
(* TeeStream: the response body of a stream, polled and dropped by the server *)

\* Taking ctx makes the second call a no-op; the event is written by a spawned task.
finalize_stream(t) ==
    IF t.ctx THEN [t EXCEPT !.ctx = FALSE, !.spawned = @ + 1, !.finalized = TRUE]
    ELSE [t EXCEPT !.finalized = TRUE]

InStream(r) == q[r].pc = "stream" /\ ~q[r].tee.done

\* The upstream's stream ends: the same poll finalizes.
StreamEnds(r) ==
    /\ InStream(r)
    /\ Put(r, [q[r] EXCEPT !.tee = [finalize_stream(@) EXCEPT !.done = TRUE]])
    /\ UNCHANGED shared

\* The upstream's stream fails, perhaps for its credential: the next poll finalizes.
StreamFails(r) ==
    /\ InStream(r)
    /\ Put(r, [q[r] EXCEPT !.tee.done = TRUE])
    /\ blocked' \in {blocked, blocked \cup {Up(Head(q[r].att))}}
    /\ UNCHANGED <<pin, store>>

PollAgain(r) ==
    /\ q[r].pc = "stream" /\ q[r].tee.done /\ ~q[r].tee.finalized
    /\ Put(r, [q[r] EXCEPT !.tee = finalize_stream(@)])
    /\ UNCHANGED shared

\* The server drops the body, at the end of the stream or because the client is gone.
DropBody(r) ==
    /\ q[r].pc = "stream"
    /\ Put(r, [q[r] EXCEPT !.pc = "closed",
                           !.tee = IF @.finalized \/ ~@.ctx THEN @ ELSE finalize_stream(@)])
    /\ UNCHANGED shared

\* The task that finalize_stream spawned.
LogStream(r) ==
    LET c == q[r] IN
    /\ c.tee.spawned > 0
    /\ Put(r, Logged([c EXCEPT !.tee.spawned = @ - 1],
                     Event(200, Up(Head(c.att)), c.idx + c.failed)))
    /\ UNCHANGED shared

-----------------------------------------------------------------------------
(* The rest of the world *)

Awaiting == {"quota", "begin", "build", "call", "onFailure", "onSuccess", "image", "complete",
             "discard", "respond", "release"}

\* The connection is closed: the handler is dropped at the await where it is.
Disconnect(r) ==
    /\ q[r].pc \in Awaiting
    /\ Put(r, [q[r] EXCEPT !.pc = "gone"])
    /\ UNCHANGED shared

\* The cooldown is over, or the credential was replaced.
Unblock(u) ==
    /\ u \in blocked
    /\ blocked' = blocked \ {u}
    /\ UNCHANGED <<q, pin, store>>

Over(r) == /\ q[r].pc \in {"unauthorized", "answered", "replayed", "closed", "gone"}
           /\ q[r].tee.spawned = 0

Idle == (\A r \in Request : Over(r)) /\ UNCHANGED vars

Handler(r) ==
    \/ Arrive(r) \/ CheckQuota(r) \/ ChooseRoutes(r) \/ Begin(r) \/ Build(r)
    \/ CallFails(r) \/ OnFailure(r) \/ CallSucceeds(r) \/ OnSuccess(r) \/ Image(r)
    \/ Complete(r) \/ Discard(r) \/ Finish(r) \/ Release(r)

Stream(r) == StreamEnds(r) \/ StreamFails(r) \/ PollAgain(r) \/ DropBody(r) \/ LogStream(r)

Next ==
    \/ \E r \in Request : Handler(r) \/ Stream(r) \/ Disconnect(r)
    \/ \E u \in Upstream : Unblock(u)
    \/ Idle

Spec == Init /\ [][Next]_vars

\* Calls and streams have timeouts, statements and spawned tasks end.
FairSpec == Spec /\ \A r \in Request : WF_vars(Handler(r)) /\ WF_vars(Stream(r))

-----------------------------------------------------------------------------
(* Properties *)

Status == {0, 200, 202, 400, 401, 403, 404, 409, 429, 500, 502, 503}
Place  == Awaiting \cup {"start", "route", "stream", "unauthorized", "answered", "replayed",
                         "closed", "gone"}

Attempt   == [route : Route, res : UpstreamError \cup ConvertError \cup {"ok"}]
LogEvent  == [status : Status, up : Upstream \cup {None}, retry : Nat]
TeeStream == [done : BOOLEAN, finalized : BOOLEAN, ctx : BOOLEAN, spawned : Nat]

Handling ==
    [pc : Place, in : Input \cup {None}, att : Seq(Route), idx : Nat, failed : Nat,
     last_idx : Nat, held : BOOLEAN, dberr : BOOLEAN, out : Status, answer : Status,
     hist : Seq(Attempt), events : Seq(LogEvent), tee : TeeStream]

\* The variables have the types the code gives them.
TypeOK ==
    /\ q \in [Request -> Handling]
    /\ blocked \subseteq Upstream
    /\ pin \in Upstream \cup {None}
    /\ store \in [status : {"free", "processing", "completed"}, by : Request \cup {None},
                  code : Status]

\* gateway.rs logs every answer once: a request that was answered by its handler has one
\* event with the status that was sent, a stream has one event once it is over, however it
\* ended, and a request that was dropped, refused for its key or replayed has at most one.
LoggedOnce(c) ==
    /\ c.pc = "answered" \/ (c.pc = "closed" /\ c.tee.spawned = 0) =>
         Len(c.events) = 1 /\ c.events[1].status = c.answer
    /\ c.pc = "gone" => Len(c.events) <= 1
    /\ c.pc \in {"unauthorized", "replayed"} => c.events = <<>>

\* retry_count and upstream_id of the event agree with what was really tried: the retries
\* on the last candidate plus the candidates given up before it, and that candidate's
\* upstream, unless nothing was tried or images_generations failed.
TellsAttempts(kind, h, events) ==
    \A i \in DOMAIN events :
      LET ev == events[i]  tried == {h[k].route : k \in DOMAIN h}
          here == {k \in DOMAIN h : h[k].route = Last(h).route}
      IN  IF h = <<>> THEN ev.retry = 0 /\ ev.up = None
          ELSE /\ ev.retry = Cardinality(here) - 1 + Cardinality(tried) - 1
               /\ \/ ev.up = Up(Last(h).route)
                  \/ kind = "images" /\ ev.up = None /\ ev.status \notin {200, 202}

\* The log tells the truth about every request: one event for each answer, with the status
\* that was sent, the upstream that was asked and the number of attempts.
EventsTruthful ==
    /\ TypeOK
    /\ \A r \in Request : /\ LoggedOnce(q[r])
                          /\ TellsAttempts(q[r].in.kind, q[r].hist, q[r].events)

\* A route may be left after the attempt a: its error is not the client's, and a locked
\* route is left only if its request could not be converted.
MayLeave(kind, a) ==
    /\ a.res \notin {"ok", "parse"} /\ ~no_failover(kind, a.res)
    /\ Table[a.route].lock => a.res = "unsupported"

\* A route may be tried again after the attempt a.
MayRetry(a) == retryable(a.route, a.res) /\ ~Table[a.route].lock

\* What may follow an attempt: the same route again only after a retryable error, another
\* route only after an error that is not the client's, and never after a locked route's
\* call; no route is tried more often than its retries allow, none is come back to.
Disciplined(kind, h) ==
    /\ \A i \in 1..(Len(h) - 1) :
         IF h[i + 1].route = h[i].route THEN MayRetry(h[i]) ELSE MayLeave(kind, h[i])
    /\ \A i, j \in DOMAIN h : i < j /\ h[i].route = h[j].route =>
         /\ j - i <= Table[h[i].route].retries
         /\ \A k \in i..j : h[k].route = h[i].route

\* The attempts of every request follow the rules for retries and failover.
FailoverDiscipline == \A r \in Request : Disciplined(q[r].in.kind, q[r].hist)

Priority(x) == Table[x].priority

\* A worse priority is tried only after every better candidate of the request has failed,
\* whatever the draws and the sticky pin.
PriorityOrder ==
    \A r \in Request :
      LET c == q[r]
          left == IF c.pc \in {"build", "call", "onFailure", "onSuccess"} THEN c.att ELSE <<>>
      IN  /\ \A i, j \in DOMAIN c.hist :
               i < j => Priority(c.hist[i].route) <= Priority(c.hist[j].route)
          /\ \A i \in DOMAIN c.hist : \A j \in DOMAIN left :
               Priority(c.hist[i].route) <= Priority(left[j])

\* An idempotency key stays taken only for a request that is still being handled, whose
\* client left before the row was settled, or whose statement on the row failed: these are
\* the rows that only expiry frees.
KeySettled ==
    store.status = "processing" =>
      LET c == q[store.by] IN
      \/ c.dberr
      \/ c.held /\ c.pc \in {"build", "call", "onFailure", "onSuccess", "image", "complete",
                              "discard", "release", "gone"}

\* A replay gives the answer of a request whose upstream call succeeded, and the answer
\* that request's own client got, if it got one.
ReplayedSuccess ==
    \A r \in Request : q[r].pc = "replayed" =>
      /\ store.status = "completed" /\ q[r].answer \in {200, 202}
      /\ Last(q[store.by].hist).res = "ok" /\ q[store.by].answer \in {0, q[r].answer}

\* The idempotency key of a request is settled on every way out of the gateway, and gives
\* another request only an answer that its own request earned.
KeyHonest == KeySettled /\ ReplayedSuccess

\* Every request is answered or dropped, and a stream is accounted for.
Settles == \A r \in Request : q[r].pc = "quota" ~> Over(r)

-----------------------------------------------------------------------------
(* Claims of the documentation that the code does not keep *)

\* migrations/0002_gateway.sql: a locked route never fails over.
LockedStays ==
    \A r \in Request : \A i \in 1..(Len(q[r].hist) - 1) :
      Table[q[r].hist[i].route].lock => q[r].hist[i + 1].route = q[r].hist[i].route

\* upstream/cred.rs: the gateway never passes an upstream's 401 through.
AuthHidden == \A r \in Request : q[r].answer = 401 => q[r].pc = "unauthorized"

=============================================================================
