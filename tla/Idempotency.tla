----------------------------- MODULE Idempotency -----------------------------
(***************************************************************************)
(* Idempotency keys (idempotency.rs) as run_gateway and images_generations *)
(* use them: concurrent requests that carry one Idempotency-Key, the row   *)
(* of idempotency_keys they share, its expiry and the cleanup task.        *)
(*                                                                         *)
(* Each SQL statement of begin, complete and fail is a step.  Time is the  *)
(* life the row has left, and a response is named after the request whose  *)
(* upstream call produced it.                                              *)
(***************************************************************************)
EXTENDS Naturals, FiniteSets

CONSTANTS
    Request,       \* requests of one gateway key with the same Idempotency-Key
    Fingerprint,   \* fingerprints of request bodies
    FpOf,          \* the fingerprint of each request's body
    None,          \* no response yet
    Ttl,           \* TTL_HOURS
    Faults         \* which failures happen: "upstream", "db", "vanish", "expire"

ASSUME FpAssumption == FpOf \in [Request -> Fingerprint]
ASSUME NoneAssumption == None \notin Request
ASSUME TtlAssumption == Ttl \in Nat \ {0}
ASSUME FaultAssumption == Faults \subseteq {"upstream", "db", "vanish", "expire"}

VARIABLES
    row,      \* the row for the key, NoRow if there is none
    lastId,   \* id of the latest row
    pc,       \* control point of each request
    tries,    \* rounds of begin's loop a request has used up
    rid,      \* record id a request found or inserted
    answer,   \* the response a request was given
    called,   \* history: requests that went on to the upstream
    ok,       \* history: requests whose upstream call succeeded
    failed    \* history: ids of rows that were marked failed

vars == <<row, lastId, pc, tries, rid, answer, called, ok, failed>>

NoRow == [id |-> 0]
Statuses == {"processing", "completed", "failed"}
Row == [id : Nat \ {0}, fp : Fingerprint, status : Statuses, resp : Request \cup {None},
        left : 0..Ttl]

InBegin  == {"select", "takeover", "insert"}
InFlight == {"upstream", "complete", "fail"}
Final    == {"replayed", "conflict", "served", "refused", "error", "gone"}

Live == row # NoRow /\ row.left > 0

Init ==
    /\ row = NoRow
    /\ lastId = 0
    /\ pc = [r \in Request |-> "select"]
    /\ tries = [r \in Request |-> 0]
    /\ rid = [r \in Request |-> 0]
    /\ answer = [r \in Request |-> None]
    /\ called = {} /\ ok = {} /\ failed = {}

Goto(r, place) == pc' = [pc EXCEPT ![r] = place]

-----------------------------------------------------------------------------
(* begin *)

\* What begin does with the row it read.
Verdict(r) ==
    IF row.fp # FpOf[r] THEN "conflict"
    ELSE CASE row.status = "completed"  -> "replayed"
           [] row.status = "processing" -> "conflict"
           [] row.status = "failed"     -> "takeover"

\* The SELECT sees the row only while it has not expired.
Select(r) ==
    /\ pc[r] = "select"
    /\ \/ /\ ~Live
          /\ Goto(r, "insert")
          /\ UNCHANGED <<rid, answer>>
       \/ /\ Live
          /\ Goto(r, Verdict(r))
          /\ rid' = [rid EXCEPT ![r] = row.id]
          /\ answer' = IF Verdict(r) = "replayed" THEN [answer EXCEPT ![r] = row.resp]
                       ELSE answer
    /\ UNCHANGED <<row, lastId, tries, called, ok, failed>>

\* After a statement that the database executed the request goes on, unless its answer
\* is what got lost: then begin returns the error.
Proceed(r) ==
    \/ Goto(r, "upstream") /\ called' = called \cup {r}
    \/ "db" \in Faults /\ Goto(r, "error") /\ UNCHANGED called

\* UPDATE ... WHERE id = rid: the failed row is processing again, with a new life.
Takeover(r) ==
    /\ pc[r] = "takeover"
    /\ row' = IF row.id = rid[r]
              THEN [row EXCEPT !.status = "processing", !.resp = None, !.left = Ttl]
              ELSE row
    /\ Proceed(r)
    /\ UNCHANGED <<lastId, tries, rid, answer, ok, failed>>

\* Bug: the INSERT replaces a row that is there.
Insert_Overwrites(r) ==
    /\ pc[r] = "insert"
    /\ lastId' = lastId + 1
    /\ row' = [id |-> IF row = NoRow THEN lastId' ELSE row.id, fp |-> FpOf[r],
               status |-> "processing", resp |-> None, left |-> Ttl]
    /\ rid' = [rid EXCEPT ![r] = row'.id]
    /\ Proceed(r)
    /\ UNCHANGED <<tries, answer, ok, failed>>

\* INSERT ... ON CONFLICT DO NOTHING: any row of the key is in the way, an expired one too.
Insert(r) ==
    /\ pc[r] = "insert"
    /\ \/ /\ row = NoRow
          /\ lastId' = lastId + 1
          /\ row' = [id |-> lastId + 1, fp |-> FpOf[r], status |-> "processing",
                     resp |-> None, left |-> Ttl]
          /\ rid' = [rid EXCEPT ![r] = lastId + 1]
          /\ Proceed(r)
          /\ UNCHANGED tries
       \/ /\ row # NoRow
          /\ tries' = [tries EXCEPT ![r] = @ + 1]
          /\ Goto(r, IF tries[r] = 0 THEN "select" ELSE "conflict")
          /\ UNCHANGED <<row, lastId, rid, called>>
    /\ UNCHANGED <<answer, ok, failed>>

-----------------------------------------------------------------------------
(* The request after begin: the attempts, then complete or fail. *)

\* The attempts loop ends with a response, or with every candidate failed.
Upstream(r) ==
    /\ pc[r] = "upstream"
    /\ \/ Goto(r, "complete") /\ ok' = ok \cup {r}
       \/ "upstream" \in Faults /\ Goto(r, "fail") /\ UNCHANGED ok
    /\ UNCHANGED <<row, lastId, tries, rid, answer, called, failed>>

\* Bug: the row is found by its key, not by its id.
Complete_ByKey(r) ==
    /\ pc[r] = "complete"
    /\ row' = IF row # NoRow THEN [row EXCEPT !.status = "completed", !.resp = r] ELSE row
    /\ answer' = [answer EXCEPT ![r] = r]
    /\ Goto(r, "served")
    /\ UNCHANGED <<lastId, tries, rid, called, ok, failed>>

\* complete: an UPDATE by id, whatever the row's status is by now.
Complete(r) ==
    /\ pc[r] = "complete"
    /\ row' = IF row.id = rid[r] THEN [row EXCEPT !.status = "completed", !.resp = r]
              ELSE row
    /\ answer' = [answer EXCEPT ![r] = r]
    /\ Goto(r, "served")
    /\ UNCHANGED <<lastId, tries, rid, called, ok, failed>>

Fail(r) ==
    /\ pc[r] = "fail"
    /\ row' = IF row.id = rid[r] THEN [row EXCEPT !.status = "failed"] ELSE row
    /\ failed' = IF row.id = rid[r] THEN failed \cup {row.id} ELSE failed
    /\ Goto(r, "refused")
    /\ UNCHANGED <<lastId, tries, rid, answer, called, ok>>

\* A statement fails without effect: begin returns the error (500); an error of complete
\* or fail is ignored and the response goes out.
DbError(r) ==
    /\ "db" \in Faults
    /\ pc[r] \in InBegin \cup {"complete", "fail"}
    /\ Goto(r, CASE pc[r] = "complete" -> "served"
                 [] pc[r] = "fail"     -> "refused"
                 [] OTHER              -> "error")
    /\ answer' = IF pc[r] = "complete" THEN [answer EXCEPT ![r] = r] ELSE answer
    /\ UNCHANGED <<row, lastId, tries, rid, called, ok, failed>>

\* The client disconnects and the handler's future is dropped, or the process stops.
Vanish(r) ==
    /\ "vanish" \in Faults
    /\ pc[r] \in InBegin \cup InFlight
    /\ Goto(r, "gone")
    /\ UNCHANGED <<row, lastId, tries, rid, answer, called, ok, failed>>

-----------------------------------------------------------------------------

\* An hour passes.
Tick ==
    /\ "expire" \in Faults
    /\ Live
    /\ row' = [row EXCEPT !.left = @ - 1]
    /\ UNCHANGED <<lastId, pc, tries, rid, answer, called, ok, failed>>

\* cleanup_expired, every ten minutes.
CleanupExpired ==
    /\ row # NoRow /\ row.left = 0
    /\ row' = NoRow
    /\ UNCHANGED <<lastId, pc, tries, rid, answer, called, ok, failed>>

\* Every request has been answered and the table is empty or the clock stands still.
Done == (\A r \in Request : pc[r] \in Final) /\ UNCHANGED vars

Step(r) == Select(r) \/ Takeover(r) \/ Insert(r) \/ Upstream(r) \/ Complete(r) \/ Fail(r)

Next == \/ \E r \in Request : Step(r) \/ DbError(r) \/ Vanish(r)
        \/ Tick \/ CleanupExpired \/ Done

\* Requests that are not dropped go on; time passes and the cleanup task keeps running.
Fairness == /\ \A r \in Request : WF_vars(Step(r))
            /\ WF_vars(Tick) /\ WF_vars(CleanupExpired)

Spec == Init /\ [][Next]_vars
FairSpec == Spec /\ Fairness

-----------------------------------------------------------------------------
(* Properties. *)

\* The variables have the types the code gives them.
TypeOK ==
    /\ row \in Row \cup {NoRow}
    /\ lastId \in Nat
    /\ pc \in [Request -> InBegin \cup InFlight \cup Final]
    /\ tries \in [Request -> 0..2]
    /\ rid \in [Request -> Nat]
    /\ answer \in [Request -> Request \cup {None}]
    /\ called \subseteq Request /\ ok \subseteq Request /\ failed \subseteq Nat

\* A replayed response came from a successful upstream call made for the same request
\* body, even when the request that made it outlives its row and a new row takes its place.
ReplayFaithful == \A r \in Request : pc[r] = "replayed" =>
    /\ answer[r] \in ok
    /\ FpOf[answer[r]] = FpOf[r]

\* As long as no attempt was recorded as failed, one record lets one request through to
\* the upstream: the client is charged once, however many copies of it arrive.
OneCallPerRecord == \A r, s \in called : r # s /\ rid[r] = rid[s] => rid[r] \in failed

\* A key is not held for ever by a request that is gone.
KeyReleased == (row # NoRow /\ row.status = "processing") ~>
               (row = NoRow \/ row.status # "processing")

\* The module comment: while a request with the key is being processed, another one is
\* answered 409.
OneInFlight == Cardinality({r \in Request : pc[r] \in InFlight}) <= 1

\* begin's comment: when the INSERT conflicts the other row is visible, so a request is
\* refused as "being processed" only if one is.
RefusedOnlyWhileProcessing ==
    [][\A r \in Request : Insert(r) /\ pc'[r] = "conflict" =>
           Live /\ row.status = "processing"]_vars

=============================================================================
