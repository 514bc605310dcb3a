----------------------------- MODULE TasksProofs -----------------------------
(***************************************************************************)
(* Proofs about work that must be settled once: media tasks with any       *)
(* number of jobs and pollers, the refresh of an OAuth credential by any   *)
(* number of requests, and the requests that share an idempotency key.     *)
(***************************************************************************)
EXTENDS MediaTasks, CodexToken, Idempotency, SequenceTheorems, FiniteSetTheorems, TLAPS

-----------------------------------------------------------------------------
(* Media tasks. *)

Ended == {"succeeded", "failed"}

\* A poller at work has a first row, and moving on leaves it idle or at the next one.
LEMMA RowsMove ==
    ASSUME MediaTypeOK, NEW p \in Pollers, poller[p].pc # "idle"
    PROVE  /\ Row1(p) \in MediaJobs /\ poller[p].rows \in Seq(MediaJobs) \ {<<>>}
           /\ NextRow(p) \in PollerState /\ NextRow(p).pc \in {"idle", "row"}
           /\ poller[p].pc = "answer" => poller[p].status \in Answers
<1>1. poller[p] \in PollerState
  BY DEF MediaTypeOK
<1>2. /\ poller[p].rows \in Seq(MediaJobs) \ {<<>>}
      /\ poller[p].pc = "answer" => poller[p].status \in Answers
  BY <1>1 DEF PollerState, PollerIdle
<1> DEFINE r == poller[p].rows
<1>3. Len(r) \in Nat \ {0} /\ Head(r) \in MediaJobs /\ Tail(r) \in Seq(MediaJobs)
      /\ Len(Tail(r)) = Len(r) - 1
  BY <1>2, EmptySeq, LenProperties, HeadTailProperties
<1>4. Len(r) # 1 => Tail(r) # <<>>
  <2>1. Len(<<>>) = 0
    BY EmptySeq
  <2> HIDE DEF r
  <2>2. Len(r) # 1 => Len(Tail(r)) # 0
    BY <1>3
  <2> QED BY <2>1, <2>2, Zenon
<1>5. NextRow(p) \in PollerState /\ NextRow(p).pc \in {"idle", "row"}
  BY <1>3, <1>4 DEF NextRow, PollerState, PollerIdle
<1> QED BY <1>2, <1>3, <1>5 DEF Row1

\* What a round selects is a non-empty sequence of open tasks.
LEMMA PollSelects ==
    ASSUME MediaTypeOK, NEW p \in Pollers, poll_once(p)
    PROVE  \E s \in Seq(MediaJobs) \ {<<>>} : poller' = [poller EXCEPT ![p] = [pc |-> "row", rows |-> s]]
<1> DEFINE open == {j \in MediaJobs : IsOpen(j)}
           n == IF Cardinality(open) < PollLimit THEN Cardinality(open) ELSE PollLimit
<1>1. Cardinality(open) \in Nat
  BY MediaAssumption, FS_Subset, FS_CardinalityType
<1>2. n \in Nat
  BY <1>1, MediaAssumption
<1>3. n > 0 /\ \E s \in [1 .. n -> open] :
          poller' = [poller EXCEPT ![p] = [pc |-> "row", rows |-> s]]
  BY DEF poll_once
<1> HIDE DEF n
<1>4. PICK s \in [1 .. n -> open] : poller' = [poller EXCEPT ![p] = [pc |-> "row", rows |-> s]]
  BY <1>3
<1>5. s \in [1 .. n -> MediaJobs]
  BY <1>4
<1>6. s \in Seq(MediaJobs) /\ Len(s) = n
  BY <1>2, <1>5
<1>7. s # <<>>
  <2>1. Len(<<>>) = 0
    BY EmptySeq
  <2> QED BY <1>2, <1>3, <1>6, <2>1
<1> QED BY <1>4, <1>6, <1>7

\* The types are kept by every step.
LEMMA MediaTypeStep == MediaTypeOK /\ [MediaNext]_mediaVars => MediaTypeOK'
<1> SUFFICES ASSUME MediaTypeOK, [MediaNext]_mediaVars PROVE MediaTypeOK'
  OBVIOUS
<1>0. MaxNow \in Nat /\ MaxMediaFaults \in Nat /\ MaxAge \in Nat
  BY MediaAssumption
<1>1. ASSUME NEW j \in MediaJobs, SubmitTask(j) \/ ProviderMoves(j) PROVE MediaTypeOK'
  <2>1. CASE SubmitTask(j)
    <3>1. [status |-> "pending", created |-> now]
             \in [status : {"none", "timeout", "succeeded", "failed"} \cup OpenStates, created : 0 .. MaxNow]
      BY DEF MediaTypeOK, OpenStates
    <3> QED BY <1>0, <2>1, <3>1 DEF SubmitTask, Fault, MediaTypeOK
  <2>2. CASE ProviderMoves(j)
    BY <1>0, <2>2 DEF ProviderMoves, MediaTypeOK
  <2> QED BY <1>1, <2>1, <2>2
<1>2. CASE SwitchChannel \/ MediaTick
  <2>1. channel_on' \in BOOLEAN
    BY <1>2 DEF SwitchChannel, MediaTick, MediaTypeOK
  <2> QED BY <1>0, <1>2, <2>1 DEF SwitchChannel, MediaTick, Fault, MediaTypeOK
<1>3. ASSUME NEW p \in Pollers, poll_once(p) PROVE MediaTypeOK'
  <2>1. PICK s \in Seq(MediaJobs) \ {<<>>} : poller' = [poller EXCEPT ![p] = [pc |-> "row", rows |-> s]]
    BY <1>3, PollSelects
  <2>2. [pc |-> "row", rows |-> s] \in PollerState
    BY DEF PollerState
  <2>3. poller' \in [Pollers -> PollerState]
    BY <2>1, <2>2 DEF MediaTypeOK
  <2> QED BY <1>3, <2>3 DEF poll_once, MediaTypeOK
<1>4. ASSUME NEW p \in Pollers, poller[p].pc # "idle", NEW s \in PollerState, PollerAt(p, s)
      PROVE  poller' \in [Pollers -> PollerState]
  BY <1>4 DEF PollerAt, MediaTypeOK
<1>5. ASSUME NEW j \in MediaJobs, NEW st \in {"timeout"} \cup Answers,
             task' = [task EXCEPT ![j].status = st]
      PROVE  task' \in [MediaJobs -> [status : {"none", "timeout", "succeeded", "failed"} \cup OpenStates,
                                      created : 0 .. MaxNow]]
  BY <1>5 DEF MediaTypeOK, Answers
<1>6. ASSUME NEW p \in Pollers, ExpireTask(p) PROVE MediaTypeOK'
  <2>1. poller[p].pc # "idle"
    BY <1>6 DEF ExpireTask
  <2>2. poller' \in [Pollers -> PollerState]
    BY <1>4, <1>6, <2>1, RowsMove DEF ExpireTask
  <2>3. task' = task \/ task' = [task EXCEPT ![Row1(p)].status = "timeout"]
    BY <1>6 DEF ExpireTask
  <2> QED BY <1>5, <1>6, <2>1, <2>2, <2>3, RowsMove DEF ExpireTask, MediaTypeOK
<1>7. ASSUME NEW p \in Pollers, SkipTask(p) \/ UpdateFails(p) PROVE MediaTypeOK'
  <2>1. poller[p].pc # "idle" /\ PollerAt(p, NextRow(p))
    BY <1>7 DEF SkipTask, UpdateFails
  <2>2. poller' \in [Pollers -> PollerState]
    BY <1>4, <2>1, RowsMove
  <2> QED BY <1>0, <1>7, <2>2 DEF SkipTask, UpdateFails, Fault, MediaTypeOK
<1>8. ASSUME NEW p \in Pollers, fetch_task_status(p) PROVE MediaTypeOK'
  <2> DEFINE a == normalize_task_status(job[Row1(p)])
  <2>1. poller[p].pc # "idle" /\ PollerAt(p, [pc |-> "answer", rows |-> poller[p].rows, status |-> a])
    BY <1>8 DEF fetch_task_status
  <2>2. a \in Answers
    BY DEF normalize_task_status, Answers, OpenStates
  <2> HIDE DEF a
  <2>3. [pc |-> "answer", rows |-> poller[p].rows, status |-> a] \in PollerState
    BY <2>1, <2>2, RowsMove DEF PollerState
  <2>4. poller' \in [Pollers -> PollerState]
    BY <1>4, <2>1, <2>3
  <2> QED BY <1>8, <2>4 DEF fetch_task_status, MediaTypeOK
<1>9. ASSUME NEW p \in Pollers, NEW st \in Ended, FinalizeTask(p, st) PROVE MediaTypeOK'
  <2>1. poller[p].pc # "idle" /\ poller[p].status = st
    BY <1>9 DEF FinalizeTask
  <2>2. [pc |-> "log", rows |-> poller[p].rows] \in PollerState
    BY <2>1, RowsMove DEF PollerState
  <2>3. poller' \in [Pollers -> PollerState]
    BY <1>4, <1>9, <2>1, <2>2, RowsMove DEF FinalizeTask
  <2>4. task' = task \/ task' = [task EXCEPT ![Row1(p)].status = st]
    BY <1>9, <2>1 DEF FinalizeTask
  <2> QED BY <1>5, <1>9, <2>1, <2>3, <2>4, RowsMove DEF FinalizeTask, MediaTypeOK, Ended, Answers
<1>10. ASSUME NEW p \in Pollers, LogDone(p) PROVE MediaTypeOK'
  <2>1. poller[p].pc # "idle"
    BY <1>10 DEF LogDone
  <2>2. poller' \in [Pollers -> PollerState]
    BY <1>4, <1>10, <2>1, RowsMove DEF LogDone
  <2> QED BY <1>10, <2>1, <2>2, RowsMove DEF LogDone, MediaTypeOK
<1>11. ASSUME NEW p \in Pollers, sync_status(p) PROVE MediaTypeOK'
  <2>1. poller[p].pc = "answer" /\ poller[p].pc # "idle"
    BY <1>11 DEF sync_status
  <2>2. poller' \in [Pollers -> PollerState]
    BY <1>4, <1>11, <2>1, RowsMove DEF sync_status
  <2>3. task' = task \/ task' = [task EXCEPT ![Row1(p)].status = poller[p].status]
    BY <1>11 DEF sync_status
  <2> QED BY <1>5, <1>11, <2>1, <2>2, <2>3, RowsMove DEF sync_status, MediaTypeOK
<1>12. ASSUME NEW p \in Pollers, PollerCrash(p) PROVE MediaTypeOK'
  <2>1. poller[p].pc # "idle" /\ PollerIdle \in PollerState
    BY <1>12 DEF PollerCrash, PollerState
  <2>2. poller' \in [Pollers -> PollerState]
    BY <1>4, <1>12, <2>1 DEF PollerCrash
  <2> QED BY <1>0, <1>12, <2>1, <2>2, RowsMove DEF PollerCrash, Fault, MediaTypeOK
<1>13. CASE UNCHANGED mediaVars
  BY <1>13 DEF mediaVars, MediaTypeOK
<1> QED BY <1>1, <1>2, <1>3, <1>6, <1>7, <1>8, <1>9, <1>10, <1>11, <1>12, <1>13
        DEF MediaNext, PollerStep, finalize_succeeded, finalize_failed, Ended

\* A poller is about to log the end of j.
Logs(p, j) == poller[p].pc = "log" /\ Row1(p) = j

\* A job the provider does not know has no row; only an ended task is billed, and once; the
\* end that a poller is about to log is not billed yet, and no other poller is about to log
\* it; every end is billed, about to be, or was left by a poller that died.
SettledInv == \A j \in MediaJobs :
    /\ job[j] = "none" => task[j].status = "none"
    /\ billed[j] # 0 => billed[j] = 1 /\ task[j].status \in Ended
    /\ \A p \in Pollers : Logs(p, j) => task[j].status \in Ended /\ billed[j] = 0
    /\ \A p, q \in Pollers : Logs(p, j) /\ Logs(q, j) => p = q
    /\ task[j].status \in Ended => billed[j] = 1 \/ j \in unbilled \/ \E p \in Pollers : Logs(p, j)

\* An ended task keeps its end in this step.
EndsKept == \A j \in MediaJobs :
    task[j].status \notin OpenStates \cup {"none"} => task'[j].status = task[j].status

\* A step in which pollers neither begin nor finish to log, and which leaves the books and
\* every ended task alone, settles nothing.
LEMMA SettledKeep ==
    ASSUME MediaTypeOK, SettledInv, UNCHANGED <<billed, unbilled>>,
           \A p \in Pollers, j \in MediaJobs : Logs(p, j)' <=> Logs(p, j),
           \A j \in MediaJobs : /\ \/ task'[j].status = task[j].status
                                   \/ /\ task[j].status \notin Ended /\ task'[j].status \notin Ended
                                      /\ job'[j] # "none"
                                /\ job[j] # "none" => job'[j] # "none"
    PROVE  SettledInv'
<1> SUFFICES ASSUME NEW j \in MediaJobs
             PROVE  /\ job'[j] = "none" => task'[j].status = "none"
                    /\ billed'[j] # 0 => billed'[j] = 1 /\ task'[j].status \in Ended
                    /\ \A p \in Pollers : Logs(p, j)' => task'[j].status \in Ended /\ billed'[j] = 0
                    /\ \A p, q \in Pollers : Logs(p, j)' /\ Logs(q, j)' => p = q
                    /\ task'[j].status \in Ended =>
                          billed'[j] = 1 \/ j \in unbilled' \/ \E p \in Pollers : Logs(p, j)'
  BY DEF SettledInv
<1>1. /\ job[j] = "none" => task[j].status = "none"
      /\ billed[j] # 0 => billed[j] = 1 /\ task[j].status \in Ended
      /\ \A p \in Pollers : Logs(p, j) => task[j].status \in Ended /\ billed[j] = 0
      /\ \A p, q \in Pollers : Logs(p, j) /\ Logs(q, j) => p = q
      /\ task[j].status \in Ended => billed[j] = 1 \/ j \in unbilled \/ \E p \in Pollers : Logs(p, j)
  BY DEF SettledInv
<1>2. \A p \in Pollers : Logs(p, j)' <=> Logs(p, j)
  OBVIOUS
<1>3. billed'[j] = billed[j] /\ unbilled' = unbilled
  OBVIOUS
<1>4. \/ task'[j].status = task[j].status /\ (job[j] # "none" => job'[j] # "none")
      \/ task[j].status \notin Ended /\ task'[j].status \notin Ended /\ job'[j] # "none"
  OBVIOUS
<1> HIDE DEF Logs
<1> QED BY <1>1, <1>2, <1>3, <1>4, Zenon

\* A poller that moves away from a row it does not log changes nothing about logging.
LEMMA LogsSame ==
    ASSUME MediaTypeOK, NEW p \in Pollers, NEW s \in PollerState, s.pc # "log",
           poller[p].pc # "log", poller' = [poller EXCEPT ![p] = s]
    PROVE  \A q \in Pollers, j \in MediaJobs : Logs(q, j)' <=> Logs(q, j)
<1> SUFFICES ASSUME NEW q \in Pollers, NEW j \in MediaJobs PROVE Logs(q, j)' <=> Logs(q, j)
  OBVIOUS
<1>1. poller'[q] = IF q = p THEN s ELSE poller[q]
  BY DEF MediaTypeOK
<1> QED BY <1>1 DEF Logs, Row1

\* What an UPDATE of one row does to all of them.
LEMMA TaskUpdate ==
    ASSUME MediaTypeOK, NEW j \in MediaJobs, NEW st, task' = [task EXCEPT ![j].status = st]
    PROVE  \A k \in MediaJobs : task'[k].status = IF k = j THEN st ELSE task[k].status
BY DEF MediaTypeOK

\* Every step keeps the settlement and the ends.
LEMMA SettledStep ==
    MediaTypeOK /\ SettledInv /\ [MediaNext]_mediaVars => SettledInv' /\ EndsKept
<1> SUFFICES ASSUME MediaTypeOK, SettledInv, [MediaNext]_mediaVars PROVE SettledInv' /\ EndsKept
  OBVIOUS
<1>1. ASSUME UNCHANGED <<billed, unbilled, poller>>,
             \A j \in MediaJobs : /\ \/ task'[j].status = task[j].status
                                     \/ task[j].status = "none" /\ task'[j].status = "pending" /\ job'[j] # "none"
                                  /\ job[j] # "none" => job'[j] # "none"
      PROVE  SettledInv' /\ EndsKept
  <2>1. \A p \in Pollers, j \in MediaJobs : Logs(p, j)' <=> Logs(p, j)
    BY <1>1 DEF Logs, Row1
  <2>2. EndsKept
    BY <1>1 DEF EndsKept
  <2>3. \A j \in MediaJobs : /\ \/ task'[j].status = task[j].status
                                \/ /\ task[j].status \notin Ended /\ task'[j].status \notin Ended
                                   /\ job'[j] # "none"
                             /\ job[j] # "none" => job'[j] # "none"
    BY <1>1 DEF Ended
  <2> QED BY <1>1, <2>1, <2>2, <2>3, SettledKeep
<1>2. ASSUME NEW j \in MediaJobs, SubmitTask(j) PROVE SettledInv' /\ EndsKept
  <2>1. task[j].status = "none"
    BY <1>2 DEF SubmitTask, SettledInv
  <2>2. \A k \in MediaJobs : /\ \/ task'[k].status = task[k].status
                                \/ task[k].status = "none" /\ task'[k].status = "pending" /\ job'[k] # "none"
                             /\ job[k] # "none" => job'[k] # "none"
    <3> TAKE k \in MediaJobs
    <3>1. job'[k] = IF k = j THEN "PENDING" ELSE job[k]
      BY <1>2 DEF SubmitTask, MediaTypeOK
    <3>2. task'[k] = task[k] \/ (k = j /\ task'[k] = [status |-> "pending", created |-> now])
      BY <1>2 DEF SubmitTask, MediaTypeOK
    <3> QED BY <2>1, <3>1, <3>2
  <2> QED BY <1>1, <1>2, <2>2 DEF SubmitTask
<1>3. ASSUME NEW j \in MediaJobs, ProviderMoves(j) PROVE SettledInv' /\ EndsKept
  <2>1. \A k \in MediaJobs : job[k] # "none" => job'[k] # "none"
    BY <1>3 DEF ProviderMoves, MediaTypeOK
  <2> QED BY <1>1, <1>3, <2>1 DEF ProviderMoves
<1>4. CASE SwitchChannel \/ MediaTick
  BY <1>1, <1>4 DEF SwitchChannel, MediaTick
<1>5. ASSUME NEW p \in Pollers, NEW s \in PollerState, s.pc # "log", poller[p].pc # "log",
             poller' = [poller EXCEPT ![p] = s], UNCHANGED <<billed, unbilled, job>>,
             \/ UNCHANGED task
             \/ \E j \in MediaJobs, st \in {"timeout"} \cup OpenStates :
                   IsOpen(j) /\ task' = [task EXCEPT ![j].status = st]
      PROVE  SettledInv' /\ EndsKept
  <2>1. \A q \in Pollers, j \in MediaJobs : Logs(q, j)' <=> Logs(q, j)
    BY <1>5, LogsSame
  <2>2. ASSUME NEW k \in MediaJobs
        PROVE  /\ \/ task'[k].status = task[k].status
                  \/ task[k].status \in OpenStates /\ task'[k].status \in {"timeout"} \cup OpenStates
               /\ job'[k] = job[k]
    <3>1. CASE UNCHANGED task
      BY <1>5, <3>1
    <3>2. CASE \E j \in MediaJobs, st \in {"timeout"} \cup OpenStates :
                  IsOpen(j) /\ task' = [task EXCEPT ![j].status = st]
      <4>1. PICK j \in MediaJobs : \E st \in {"timeout"} \cup OpenStates :
                  IsOpen(j) /\ task' = [task EXCEPT ![j].status = st]
        BY <3>2
      <4>2. PICK st \in {"timeout"} \cup OpenStates :
                  IsOpen(j) /\ task' = [task EXCEPT ![j].status = st]
        BY <4>1
      <4>3. task'[k].status = IF k = j THEN st ELSE task[k].status
        BY <4>2 DEF MediaTypeOK
      <4> QED BY <1>5, <4>2, <4>3 DEF IsOpen
    <3> QED BY <1>5, <3>1, <3>2
  <2>3. \A k \in MediaJobs : task[k].status \in OpenStates => job[k] # "none"
    BY DEF SettledInv, OpenStates
  <2>4. EndsKept
    BY <2>2 DEF EndsKept
  <2>5. \A j \in MediaJobs : /\ \/ task'[j].status = task[j].status
                                \/ /\ task[j].status \notin Ended /\ task'[j].status \notin Ended
                                   /\ job'[j] # "none"
                             /\ job[j] # "none" => job'[j] # "none"
    BY <2>2, <2>3 DEF Ended, OpenStates
  <2> QED BY <1>5, <2>1, <2>4, <2>5, SettledKeep
<1>6. ASSUME NEW p \in Pollers, poll_once(p) PROVE SettledInv' /\ EndsKept
  <2>1. PICK s \in Seq(MediaJobs) \ {<<>>} : poller' = [poller EXCEPT ![p] = [pc |-> "row", rows |-> s]]
    BY <1>6, PollSelects
  <2>2. [pc |-> "row", rows |-> s] \in PollerState
    BY DEF PollerState
  <2> QED BY <1>5, <1>6, <2>1, <2>2 DEF poll_once
<1>7. ASSUME NEW p \in Pollers, ExpireTask(p) PROVE SettledInv' /\ EndsKept
  <2>1. poller[p].pc = "row" /\ poller' = [poller EXCEPT ![p] = NextRow(p)]
        /\ UNCHANGED <<billed, unbilled, job>>
    BY <1>7 DEF ExpireTask, PollerAt
  <2>2. NextRow(p) \in PollerState /\ NextRow(p).pc # "log" /\ Row1(p) \in MediaJobs
    BY <2>1, RowsMove
  <2>3. \/ UNCHANGED task
        \/ \E j \in MediaJobs, st \in {"timeout"} \cup OpenStates :
              IsOpen(j) /\ task' = [task EXCEPT ![j].status = st]
    BY <1>7, <2>2 DEF ExpireTask
  <2> QED BY <1>5, <2>1, <2>2, <2>3
<1>8. ASSUME NEW p \in Pollers, SkipTask(p) \/ UpdateFails(p) PROVE SettledInv' /\ EndsKept
  <2>1. poller[p].pc \in {"row", "answer"} /\ poller' = [poller EXCEPT ![p] = NextRow(p)]
        /\ UNCHANGED <<billed, unbilled, job, task>>
    BY <1>8 DEF SkipTask, UpdateFails, PollerAt
  <2>2. NextRow(p) \in PollerState /\ NextRow(p).pc # "log"
    BY <2>1, RowsMove
  <2> QED BY <1>5, <2>1, <2>2
<1>9. ASSUME NEW p \in Pollers, fetch_task_status(p) PROVE SettledInv' /\ EndsKept
  <2> DEFINE a == normalize_task_status(job[Row1(p)])
             s == [pc |-> "answer", rows |-> poller[p].rows, status |-> a]
  <2>1. poller[p].pc = "row" /\ poller' = [poller EXCEPT ![p] = s]
        /\ UNCHANGED <<billed, unbilled, job, task>>
    BY <1>9 DEF fetch_task_status, PollerAt
  <2>2. a \in Answers
    BY DEF normalize_task_status, Answers, OpenStates
  <2> HIDE DEF a
  <2>3. s \in PollerState /\ s.pc # "log"
    BY <2>1, <2>2, RowsMove DEF PollerState
  <2> HIDE DEF s
  <2> QED BY <1>5, <2>1, <2>3
<1>10. ASSUME NEW p \in Pollers, sync_status(p) PROVE SettledInv' /\ EndsKept
  <2>1. poller[p].pc = "answer" /\ poller' = [poller EXCEPT ![p] = NextRow(p)]
        /\ UNCHANGED <<billed, unbilled, job>> /\ poller[p].status \in OpenStates
    BY <1>10 DEF sync_status, PollerAt
  <2>2. NextRow(p) \in PollerState /\ NextRow(p).pc # "log" /\ Row1(p) \in MediaJobs
    BY <2>1, RowsMove
  <2>3. \/ UNCHANGED task
        \/ \E j \in MediaJobs, st \in {"timeout"} \cup OpenStates :
              IsOpen(j) /\ task' = [task EXCEPT ![j].status = st]
    BY <1>10, <2>1, <2>2 DEF sync_status, Guarded
  <2> QED BY <1>5, <2>1, <2>2, <2>3
<1>11. ASSUME NEW p \in Pollers, NEW st \in Ended, FinalizeTask(p, st) PROVE SettledInv' /\ EndsKept
  <2>0. poller[p].pc = "answer" /\ poller[p].status = st /\ UNCHANGED <<billed, unbilled, job>>
        /\ Row1(p) \in MediaJobs
    BY <1>11, RowsMove DEF FinalizeTask
  <2>1. CASE ~Guarded(Row1(p))
    <3>1. poller' = [poller EXCEPT ![p] = NextRow(p)] /\ UNCHANGED task
      BY <1>11, <2>1 DEF FinalizeTask, PollerAt
    <3>2. NextRow(p) \in PollerState /\ NextRow(p).pc # "log"
      BY <2>0, RowsMove
    <3> QED BY <1>5, <2>0, <3>1, <3>2
  <2>2. CASE Guarded(Row1(p))
    <3>0. PICK i \in MediaJobs : i = Row1(p)
      BY <2>0
    <3>1. /\ poller' = [poller EXCEPT ![p] = [pc |-> "log", rows |-> poller[p].rows]]
          /\ task' = [task EXCEPT ![i].status = st]
      BY <1>11, <2>0, <2>2, <3>0 DEF FinalizeTask, PollerAt
    <3>2. \A k \in MediaJobs : task'[k].status = IF k = i THEN st ELSE task[k].status
      BY <3>1, TaskUpdate
    <3>3. task[i].status \in OpenStates
      BY <3>0, <2>2 DEF Guarded, IsOpen
    <3>4. ASSUME NEW q \in Pollers, NEW j \in MediaJobs
          PROVE  Logs(q, j)' <=> (Logs(q, j) \/ (q = p /\ j = i))
      <4>1. poller'[q] = IF q = p THEN [pc |-> "log", rows |-> poller[p].rows] ELSE poller[q]
        BY <3>1 DEF MediaTypeOK
      <4> QED BY <2>0, <3>0, <4>1 DEF Logs, Row1
    <3>5. EndsKept
      BY <3>2, <3>3 DEF EndsKept
    <3>6. billed[i] = 0 /\ job[i] # "none" /\ \A q \in Pollers : ~Logs(q, i)
      BY <3>3 DEF SettledInv, Ended, OpenStates
    <3>7. ASSUME NEW j \in MediaJobs
          PROVE  /\ job'[j] = "none" => task'[j].status = "none"
                 /\ billed'[j] # 0 => billed'[j] = 1 /\ task'[j].status \in Ended
                 /\ \A q \in Pollers : Logs(q, j)' => task'[j].status \in Ended /\ billed'[j] = 0
                 /\ \A q, r \in Pollers : Logs(q, j)' /\ Logs(r, j)' => q = r
                 /\ task'[j].status \in Ended =>
                       billed'[j] = 1 \/ j \in unbilled' \/ \E q \in Pollers : Logs(q, j)'
      <4>1. CASE j = i
        BY <2>0, <3>2, <3>3, <3>4, <3>6, <4>1
      <4>2. CASE j # i
        <5>1. task'[j].status = task[j].status /\ \A q \in Pollers : Logs(q, j)' <=> Logs(q, j)
          BY <3>2, <3>4, <4>2
        <5> QED BY <2>0, <5>1 DEF SettledInv
      <4> QED BY <4>1, <4>2
    <3> QED BY <3>5, <3>7 DEF SettledInv
  <2> QED BY <2>1, <2>2
<1>12. ASSUME NEW p \in Pollers, poller[p].pc = "log", NEW s \in PollerState, s.pc \in {"idle", "row"},
              poller' = [poller EXCEPT ![p] = s], UNCHANGED <<job, task>>,
              \/ billed' = [billed EXCEPT ![Row1(p)] = @ + 1] /\ UNCHANGED unbilled
              \/ unbilled' = unbilled \cup {Row1(p)} /\ UNCHANGED billed
       PROVE  SettledInv' /\ EndsKept
  <2>0. PICK i \in MediaJobs : i = Row1(p)
    BY <1>12, RowsMove
  <2>1. Logs(p, i)
    BY <1>12, <2>0 DEF Logs
  <2>2. task[i].status \in Ended /\ billed[i] = 0 /\ job[i] # "none"
        /\ \A q \in Pollers : Logs(q, i) => q = p
    BY <2>1 DEF SettledInv, Ended
  <2>3. ASSUME NEW q \in Pollers, NEW j \in MediaJobs
        PROVE  Logs(q, j)' <=> (Logs(q, j) /\ q # p)
    <3>1. poller'[q] = IF q = p THEN s ELSE poller[q]
      BY <1>12 DEF MediaTypeOK
    <3> QED BY <1>12, <3>1 DEF Logs, Row1
  <2>4. EndsKept
    BY <1>12 DEF EndsKept
  <2>5. \A j \in MediaJobs : j # i => billed'[j] = billed[j]
    BY <1>12, <2>0 DEF MediaTypeOK
  <2>6. (billed'[i] = 1 /\ unbilled' = unbilled) \/ (billed'[i] = 0 /\ unbilled' = unbilled \cup {i})
    BY <1>12, <2>0, <2>2 DEF MediaTypeOK
  <2>7. \A j \in MediaJobs : ~(Logs(p, j) /\ j # i)
    BY <2>0 DEF Logs
  <2>8. ASSUME NEW j \in MediaJobs
        PROVE  /\ job'[j] = "none" => task'[j].status = "none"
               /\ billed'[j] # 0 => billed'[j] = 1 /\ task'[j].status \in Ended
               /\ \A q \in Pollers : Logs(q, j)' => task'[j].status \in Ended /\ billed'[j] = 0
               /\ \A q, r \in Pollers : Logs(q, j)' /\ Logs(r, j)' => q = r
               /\ task'[j].status \in Ended =>
                     billed'[j] = 1 \/ j \in unbilled' \/ \E q \in Pollers : Logs(q, j)'
    <3>1. CASE j = i
      <4>1. \A q \in Pollers : ~Logs(q, i)'
        BY <2>1, <2>2, <2>3
      <4> QED BY <1>12, <2>2, <2>6, <3>1, <4>1
    <3>2. CASE j # i
      <4>1. \A q \in Pollers : Logs(q, j)' <=> Logs(q, j)
        BY <2>3, <2>7, <3>2
      <4>2. billed'[j] = billed[j] /\ (j \in unbilled' <=> j \in unbilled)
        BY <2>5, <2>6, <3>2
      <4> QED BY <1>12, <4>1, <4>2 DEF SettledInv
    <3> QED BY <3>1, <3>2
  <2> QED BY <2>4, <2>8 DEF SettledInv
<1>13. ASSUME NEW p \in Pollers, LogDone(p) PROVE SettledInv' /\ EndsKept
  BY <1>12, <1>13, RowsMove DEF LogDone, PollerAt
<1>14. ASSUME NEW p \in Pollers, PollerCrash(p) PROVE SettledInv' /\ EndsKept
  <2>1. PollerIdle \in PollerState /\ PollerIdle.pc = "idle"
    BY DEF PollerState, PollerIdle
  <2>2. poller' = [poller EXCEPT ![p] = PollerIdle] /\ UNCHANGED <<job, task, billed>>
        /\ unbilled' = IF poller[p].pc = "log" THEN unbilled \cup {Row1(p)} ELSE unbilled
    BY <1>14 DEF PollerCrash, PollerAt
  <2>3. CASE poller[p].pc = "log"
    BY <1>12, <2>1, <2>2, <2>3
  <2>4. CASE poller[p].pc # "log"
    BY <1>5, <2>1, <2>2, <2>4
  <2> QED BY <2>3, <2>4
<1>15. CASE UNCHANGED mediaVars
  BY <1>1, <1>15 DEF mediaVars
<1> QED BY <1>2, <1>3, <1>4, <1>6, <1>7, <1>8, <1>9, <1>10, <1>11, <1>13, <1>14, <1>15
        DEF MediaNext, PollerStep, finalize_succeeded, finalize_failed, Ended

\* The settlement holds at first, and is what MediaSettled promises.
LEMMA MediaStart == MediaInit => MediaTypeOK /\ SettledInv
<1> SUFFICES ASSUME MediaInit PROVE MediaTypeOK /\ SettledInv
  OBVIOUS
<1>1. MediaTypeOK
  BY MediaAssumption DEF MediaInit, MediaTypeOK, PollerState, NoTask, OpenStates
<1>2. SettledInv
  BY DEF MediaInit, SettledInv, Logs, PollerIdle, NoTask, Ended
<1> QED BY <1>1, <1>2

\* The inductive invariant says what the property says.
LEMMA SettledImplies == MediaTypeOK /\ SettledInv => MediaSettled
<1> SUFFICES ASSUME MediaTypeOK, SettledInv PROVE BilledOnce
  BY DEF MediaSettled
<1>1. \A j \in MediaJobs : billed[j] \in Nat
  BY DEF MediaTypeOK
<1> QED BY <1>1 DEF SettledInv, BilledOnce, Logs, Ended

\* However many pollers ask for however many jobs, and whatever they or the provider fail at:
\* no job is billed twice, and one that ended with an answer is billed, is about to be, or
\* was left by a poller that died between the UPDATE and the event.
THEOREM MediaIsSettled == MediaSpec => []MediaSettled
<1>1. MediaTypeOK /\ SettledInv /\ [MediaNext]_mediaVars => (MediaTypeOK /\ SettledInv)'
  BY MediaTypeStep, SettledStep
<1> QED BY <1>1, MediaStart, SettledImplies, PTL DEF MediaSpec

\* The guarded UPDATE makes an end final: no late answer, expiry or second poller changes it.
THEOREM MediaEndIsFinal == MediaSpec => EndIsFinal
<1>1. MediaTypeOK /\ SettledInv /\ [MediaNext]_mediaVars
        => (MediaTypeOK /\ SettledInv)' /\ [EndsKept]_mediaVars
  BY MediaTypeStep, SettledStep
<1>2. [EndsKept]_mediaVars <=>
      [\A j \in MediaJobs :
          task[j].status \notin OpenStates \cup {"none"} => task'[j].status = task[j].status]_mediaVars
  BY DEF EndsKept
<1> QED BY <1>1, <1>2, MediaStart, PTL DEF MediaSpec, EndIsFinal

-----------------------------------------------------------------------------
(* The refresh of a credential. *)

InLine(s, c) == \E i \in 1 .. Len(s) : s[i] = c
NoRepeat(s) == \A i, j \in 1 .. Len(s) : s[i] = s[j] => i = j

\* What RemoveAt leaves.
LEMMA RemoveAtLeaves ==
    ASSUME NEW S, NEW s \in Seq(S), NEW k \in 1 .. Len(s)
    PROVE  /\ RemoveAt(s, k) \in Seq(S) /\ Len(RemoveAt(s, k)) = Len(s) - 1
           /\ \A i \in 1 .. Len(s) - 1 : RemoveAt(s, k)[i] = IF i < k THEN s[i] ELSE s[i + 1]
<1> DEFINE a == SubSeq(s, 1, k - 1)
           b == SubSeq(s, k + 1, Len(s))
<1>1. Len(s) \in Nat /\ k \in Nat /\ 1 <= k /\ k <= Len(s)
  BY LenProperties
<1>2. a \in Seq(S) /\ Len(a) = k - 1 /\ \A i \in 1 .. k - 1 : a[i] = s[i]
  BY <1>1
<1>3. b \in Seq(S) /\ Len(b) = Len(s) - k /\ \A i \in 1 .. Len(s) - k : b[i] = s[k + i]
  BY <1>1
<1>4. RemoveAt(s, k) = a \o b
  BY DEF RemoveAt
<1> HIDE DEF a, b
<1>5. a \o b \in Seq(S) /\ Len(a \o b) = Len(s) - 1
  <2>1. a \o b \in Seq(S) /\ Len(a \o b) = Len(a) + Len(b)
    BY <1>2, <1>3, ConcatProperties
  <2>2. Len(a) + Len(b) = Len(s) - 1
    BY <1>1, <1>2, <1>3
  <2> QED BY <2>1, <2>2
<1>6. ASSUME NEW i \in 1 .. Len(s) - 1 PROVE (a \o b)[i] = IF i < k THEN s[i] ELSE s[i + 1]
  <2>1. (a \o b)[i] = IF i <= Len(a) THEN a[i] ELSE b[i - Len(a)]
    BY <1>1, <1>2, <1>3
  <2>2. CASE i < k
    BY <1>1, <1>2, <2>1, <2>2
  <2>3. CASE ~(i < k)
    <3>1. i - (k - 1) \in 1 .. Len(s) - k /\ k + (i - (k - 1)) = i + 1 /\ ~(i <= k - 1)
      BY <1>1, <2>3
    <3> QED BY <1>2, <1>3, <2>1, <2>3, <3>1
  <2> QED BY <2>2, <2>3
<1> QED BY <1>4, <1>5, <1>6

\* Leaving the line: the others stay, in their order, and the first one stays first.
LEMMA LeaveLine ==
    ASSUME NEW S, NEW s \in Seq(S), NEW c, NoRepeat(s)
    PROVE  /\ RemoveFirst(s, c) \in Seq(S) /\ NoRepeat(RemoveFirst(s, c))
           /\ \A d : InLine(RemoveFirst(s, c), d) <=> InLine(s, d) /\ d # c
           /\ \A d : d # c /\ Len(s) > 0 /\ s[1] = d =>
                 Len(RemoveFirst(s, c)) > 0 /\ RemoveFirst(s, c)[1] = d
<1>0. Len(s) \in Nat
  BY LenProperties
<1>1. CASE ~InLine(s, c)
  <2>1. RemoveFirst(s, c) = s
    BY <1>1 DEF RemoveFirst, InLine
  <2> QED BY <1>1, <2>1 DEF InLine
<1>2. CASE InLine(s, c)
  <2>1. PICK k \in 1 .. Len(s) : s[k] = c
    BY <1>2 DEF InLine
  <2>2. {i \in 1 .. Len(s) : s[i] = c} = {k}
    BY <2>1 DEF NoRepeat
  <2>3. Min({k}) = k
    BY <2>1 DEF Min
  <2>4. SelectInSeq(s, LAMBDA v : v = c) = k
    BY <2>2, <2>3 DEF SelectInSeq
  <2>5. RemoveFirst(s, c) = RemoveAt(s, k)
    BY <2>1, <2>4 DEF RemoveFirst
  <2> DEFINE r == RemoveAt(s, k)
  <2>6. /\ r \in Seq(S) /\ Len(r) = Len(s) - 1
        /\ \A i \in 1 .. Len(s) - 1 : r[i] = IF i < k THEN s[i] ELSE s[i + 1]
    BY RemoveAtLeaves
  <2> HIDE DEF r
  <2>7. NoRepeat(r)
    <3> SUFFICES ASSUME NEW i \in 1 .. Len(r), NEW j \in 1 .. Len(r), r[i] = r[j] PROVE i = j
      BY DEF NoRepeat
    <3>1. i \in 1 .. Len(s) /\ i + 1 \in 1 .. Len(s) /\ j \in 1 .. Len(s) /\ j + 1 \in 1 .. Len(s)
      BY <1>0, <2>6
    <3>2. r[i] = (IF i < k THEN s[i] ELSE s[i + 1]) /\ r[j] = (IF j < k THEN s[j] ELSE s[j + 1])
      BY <2>6
    <3>3. (IF i < k THEN i ELSE i + 1) = (IF j < k THEN j ELSE j + 1)
      BY <3>1, <3>2 DEF NoRepeat
    <3> QED BY <1>0, <3>1, <3>3
  <2>8. ASSUME NEW d PROVE InLine(r, d) <=> InLine(s, d) /\ d # c
    <3>1. ASSUME InLine(r, d) PROVE InLine(s, d) /\ d # c
      <4>1. PICK i \in 1 .. Len(r) : r[i] = d
        BY <3>1 DEF InLine
      <4>2. i \in 1 .. Len(s) /\ i + 1 \in 1 .. Len(s) /\ r[i] = (IF i < k THEN s[i] ELSE s[i + 1])
        BY <1>0, <2>6
      <4>3. PICK m \in 1 .. Len(s) : m # k /\ s[m] = d
        <5>1. CASE i < k
          BY <4>1, <4>2, <5>1
        <5>2. CASE ~(i < k)
          <6>1. i + 1 # k
            BY <4>2, <5>2, <1>0, <2>1
          <6> QED BY <4>1, <4>2, <5>2, <6>1
        <5> QED BY <5>1, <5>2
      <4> QED BY <2>1, <4>3 DEF InLine, NoRepeat
    <3>2. ASSUME InLine(s, d), d # c PROVE InLine(r, d)
      <4>1. PICK m \in 1 .. Len(s) : s[m] = d /\ m # k
        BY <2>1, <3>2 DEF InLine
      <4>2. CASE m < k
        <5>1. m \in 1 .. Len(r) /\ r[m] = s[m]
          BY <1>0, <2>6, <4>1, <4>2
        <5> QED BY <4>1, <5>1 DEF InLine
      <4>3. CASE m > k
        <5>1. m - 1 \in 1 .. Len(s) - 1 /\ ~(m - 1 < k) /\ (m - 1) + 1 = m
          BY <1>0, <4>1, <4>3
        <5>2. m - 1 \in 1 .. Len(r) /\ r[m - 1] = s[m]
          BY <2>6, <5>1
        <5> QED BY <4>1, <5>2 DEF InLine
      <4> QED BY <1>0, <4>1, <4>2, <4>3
    <3> QED BY <3>1, <3>2
  <2>9. ASSUME NEW d, d # c, Len(s) > 0, s[1] = d PROVE Len(r) > 0 /\ r[1] = d
    <3>1. k > 1
      BY <1>0, <2>1, <2>9
    <3>2. 1 \in 1 .. Len(s) - 1
      BY <1>0, <3>1
    <3> QED BY <1>0, <2>6, <2>9, <3>1, <3>2
  <2> QED BY <2>5, <2>6, <2>7, <2>8, <2>9 DEF r
<1> QED BY <1>1, <1>2

Waits == {"locking", "post", "update", "reload"}
Holds == {"post", "update", "reload"}
CallerAt == {"idle", "ensure", "locking", "post", "update", "reload", "answered", "failed"}

OtherAt == {"none", "old_reload", "edit", "admin", "admin_update", "admin_reload"}

\* The types, those of the line and of the other writer included.
CredTypes ==
    /\ CredTypeOK /\ line \in Seq(Callers)
    /\ other \in [at : OtherAt, has : Cred]

\* The line holds every request that waits for the lock or has it, once, and the one that
\* has it stands first.
LockInv ==
    /\ NoRepeat(line)
    /\ \A c \in Callers : InLine(line, c) <=> caller[c].at \in Waits
    /\ \A c \in Callers : caller[c].at \in Holds => Len(line) > 0 /\ line[1] = c

\* Unless something slipped: nothing was revoked; a request presents the token of the
\* snapshot; outside a refresh row and snapshot hold the token the provider accepts; after
\* the provider's answer the request carries it, and after the UPDATE the row holds it;
\* the same for the administrator's refresh, beside which no request has one under way.
KeptInv == slip = "none" =>
    /\ ~revoked
    /\ \A c \in Callers :
          /\ caller[c].at = "post" => caller[c].has = snap
          /\ caller[c].at = "update" => caller[c].has.refresh = valid
          /\ caller[c].at = "reload" => oauth_enc.refresh = valid
          /\ Rotating => caller[c].at \notin Holds
    /\ other.at = "admin_update" => other.has.refresh = valid
    /\ other.at = "admin_reload" => oauth_enc.refresh = valid
    /\ ~Rotating /\ (\A c \in Callers : caller[c].at \notin {"update", "reload"}) =>
          oauth_enc.refresh = valid /\ snap = oauth_enc

\* What a step of request c does to where the others are.
LEMMA EnterType ==
    ASSUME CredTypes, NEW c \in Callers, NEW place \in CallerAt, Enter(c, place)
    PROVE  /\ caller' \in [Callers -> [at : CallerAt, has : Cred]]
           /\ \A d \in Callers : /\ caller'[d].at = IF d = c THEN place ELSE caller[d].at
                                 /\ caller'[d].has = caller[d].has
BY DEF CredTypes, CredTypeOK, CallerAt, Enter

\* A request that moves with a token: where everyone is, and what they carry.
LEMMA CarryType ==
    ASSUME CredTypes, NEW c \in Callers, NEW place \in CallerAt, NEW o \in Cred,
           caller' = [caller EXCEPT ![c] = [at |-> place, has |-> o]]
    PROVE  /\ caller' \in [Callers -> [at : CallerAt, has : Cred]]
           /\ \A d \in Callers : /\ caller'[d].at = IF d = c THEN place ELSE caller[d].at
                                 /\ caller'[d].has = IF d = c THEN o ELSE caller[d].has
BY DEF CredTypes, CredTypeOK, CallerAt

\* Where the requests are after request c has moved to place.
Moved(c, place) == \A d \in Callers : caller'[d].at = IF d = c THEN place ELSE caller[d].at

\* A request that leaves the line, one that keeps its place in it, and one that joins it.
LEMMA LockRelease ==
    ASSUME CredTypes, LockInv, NEW c \in Callers, NEW place \in CallerAt \ Waits,
           Moved(c, place), Release(c)
    PROVE  LockInv' /\ line' \in Seq(Callers)
<1>0. line \in Seq(Callers) /\ NoRepeat(line) /\ line' = RemoveFirst(line, c)
  BY DEF CredTypes, LockInv, Release
<1>1. line' \in Seq(Callers) /\ NoRepeat(line')
  BY <1>0, LeaveLine
<1>2. \A d \in Callers : InLine(line', d) <=> InLine(line, d) /\ d # c
  BY <1>0, LeaveLine
<1>3. \A d \in Callers : d # c /\ Len(line) > 0 /\ line[1] = d => Len(line') > 0 /\ line'[1] = d
  BY <1>0, LeaveLine
<1>4. \A d \in Callers : InLine(line', d) <=> caller'[d].at \in Waits
  BY <1>2 DEF LockInv, Moved
<1>5. \A d \in Callers : caller'[d].at \in Holds => Len(line') > 0 /\ line'[1] = d
  BY <1>3 DEF LockInv, Moved, Holds, Waits
<1> QED BY <1>1, <1>4, <1>5 DEF LockInv

\* A request that neither joins nor leaves the line.
LEMMA LockStay ==
    ASSUME CredTypes, LockInv, NEW c \in Callers, NEW place \in CallerAt, Moved(c, place),
           UNCHANGED line, place \in Waits <=> caller[c].at \in Waits,
           place \in Holds => Len(line) > 0 /\ line[1] = c
    PROVE  LockInv' /\ line' \in Seq(Callers)
<1>1. \A d \in Callers : InLine(line', d) <=> caller'[d].at \in Waits
  BY DEF LockInv, Moved
<1>2. \A d \in Callers : caller'[d].at \in Holds => Len(line') > 0 /\ line'[1] = d
  BY DEF LockInv, Moved
<1> QED BY <1>1, <1>2 DEF LockInv, CredTypes

\* A request that joins the line stands last.
LEMMA LockJoin ==
    ASSUME CredTypes, LockInv, NEW c \in Callers, caller[c].at \notin Waits,
           Moved(c, "locking"), line' = Append(line, c)
    PROVE  LockInv' /\ line' \in Seq(Callers)
<1>1. line \in Seq(Callers) /\ Len(line) \in Nat
  BY LenProperties DEF CredTypes
<1>2. line' \in Seq(Callers) /\ Len(line') = Len(line) + 1 /\ line'[Len(line) + 1] = c
      /\ \A i \in 1 .. Len(line) : line'[i] = line[i]
  BY <1>1
<1>3. \A i \in 1 .. Len(line') : i \in 1 .. Len(line) \/ i = Len(line) + 1
  BY <1>1, <1>2
<1>4. \A i \in 1 .. Len(line) : i \in 1 .. Len(line') /\ line[i] # c
  <2>1. ~InLine(line, c)
    BY DEF LockInv
  <2> QED BY <1>1, <1>2, <2>1 DEF InLine
<1>5. NoRepeat(line')
  BY <1>2, <1>3, <1>4 DEF NoRepeat, LockInv
<1>6. Len(line) + 1 \in 1 .. Len(line')
  BY <1>1, <1>2
<1>7. \A d \in Callers : InLine(line', d) <=> InLine(line, d) \/ d = c
  BY <1>2, <1>3, <1>4, <1>6 DEF InLine
<1>8. \A d \in Callers : InLine(line', d) <=> caller'[d].at \in Waits
  BY <1>7 DEF LockInv, Moved, Waits
<1>9. ASSUME NEW d \in Callers, caller'[d].at \in Holds PROVE Len(line') > 0 /\ line'[1] = d
  <2>1. d # c /\ caller[d].at \in Holds
    BY <1>9 DEF Moved, Holds
  <2>2. Len(line) > 0 /\ line[1] = d
    BY <2>1 DEF LockInv
  <2>3. 1 \in 1 .. Len(line)
    BY <1>1, <2>2
  <2> QED BY <1>1, <1>2, <2>2, <2>3
<1> QED BY <1>2, <1>5, <1>8, <1>9 DEF LockInv

\* Only one request has the lock.
LEMMA OneHolder ==
    ASSUME LockInv, NEW c \in Callers, NEW d \in Callers,
           caller[c].at \in Holds, caller[d].at \in Holds
    PROVE  c = d
BY DEF LockInv

\* The elements of the line are requests.
LEMMA LineType == line \in Seq(Callers) => ToSet(line) \subseteq Callers
BY DEF ToSet

\* What the provider's answer does to the tokens.
LEMMA AnswerType ==
    ASSUME CredTypes, NEW o \in Cred, NEW rotates \in BOOLEAN, ProviderAnswers(o, rotates)
    PROVE  /\ issued' \in 1 .. MaxTokens /\ valid' \in 1 .. MaxTokens /\ UNCHANGED revoked
           /\ NextCred(o) \in Cred /\ NextCred(o).refresh = valid'
<1>1. issued \in Nat /\ MaxTokens \in Nat /\ issued < MaxTokens /\ issued >= 1
      /\ valid \in 1 .. MaxTokens /\ o.refresh = valid
  BY CredAssumption DEF CredTypes, CredTypeOK, ProviderAnswers
<1>2. issued' = issued + 1 /\ (valid' = issued + 1 \/ valid' = valid) /\ UNCHANGED revoked
  BY DEF ProviderAnswers
<1>3. NextCred(o) = [access |-> issued', refresh |-> valid']
  BY <1>1, <1>2 DEF NextCred
<1> QED BY <1>1, <1>2, <1>3 DEF Cred

\* Every step keeps the types, the line and the credential.
LEMMA CredStep ==
    CredTypes /\ LockInv /\ KeptInv /\ [CredNext]_credVars => (CredTypes /\ LockInv /\ KeptInv)'
<1> DEFINE Goal == CredTypes' /\ LockInv' /\ KeptInv'
<1> SUFFICES ASSUME CredTypes, LockInv, KeptInv, [CredNext]_credVars PROVE Goal
  OBVIOUS
<1>0. /\ issued \in 1 .. MaxTokens /\ valid \in 1 .. MaxTokens /\ revoked \in BOOLEAN
      /\ oauth_enc \in Cred /\ snap \in Cred /\ line \in Seq(Callers)
      /\ other \in [at : OtherAt, has : Cred]
      /\ caller \in [Callers -> [at : CallerAt, has : Cred]]
  BY DEF CredTypes, CredTypeOK, CallerAt
<1>1. ASSUME issued' \in 1 .. MaxTokens, valid' \in 1 .. MaxTokens, revoked' \in BOOLEAN,
             oauth_enc' \in Cred, snap' \in Cred, line' \in Seq(Callers),
             other' \in [at : OtherAt, has : Cred],
             caller' \in [Callers -> [at : CallerAt, has : Cred]]
      PROVE  CredTypes'
  BY <1>1, LineType DEF CredTypes, CredTypeOK, CallerAt, ToSet
\* A step in which no refresh begins or ends and which leaves provider, row and snapshot alone.
<1>2. ASSUME UNCHANGED <<valid, revoked, oauth_enc, snap, other, slip>>, NEW c \in Callers,
             NEW place \in CallerAt, Moved(c, place),
             \A d \in Callers : d # c => caller'[d].has = caller[d].has,
             place = "post" => ~Rotating /\ caller'[c].has = snap,
             place \notin {"update", "reload"}, caller[c].at \notin {"update", "reload"}
      PROVE  KeptInv'
  <2>1. \A d \in Callers : caller'[d].at \in {"update", "reload"} <=> caller[d].at \in {"update", "reload"}
    BY <1>2 DEF Moved
  <2>2. ASSUME NEW d \in Callers, slip = "none"
        PROVE  /\ caller'[d].at = "post" => caller'[d].has = snap
               /\ caller'[d].at = "update" => caller'[d].has.refresh = valid
               /\ caller'[d].at = "reload" => oauth_enc.refresh = valid
               /\ Rotating => caller'[d].at \notin Holds
    BY <1>2, <2>2 DEF Moved, KeptInv, Holds
  <2>3. Rotating' <=> Rotating
    BY <1>2 DEF Rotating
  <2> QED BY <1>2, <2>1, <2>2, <2>3 DEF KeptInv
<1>3. ASSUME NEW c \in Callers, BeginRequest(c) PROVE Goal
  <2>1. caller[c].at = "idle" /\ caller' = [caller EXCEPT ![c] = [at |-> "ensure", has |-> snap]]
        /\ UNCHANGED <<issued, valid, revoked, oauth_enc, snap, line, other, slip>>
    BY <1>3 DEF BeginRequest, Carry
  <2>2. /\ caller' \in [Callers -> [at : CallerAt, has : Cred]] /\ Moved(c, "ensure")
        /\ \A d \in Callers : d # c => caller'[d].has = caller[d].has
    BY <1>0, <2>1, CarryType DEF Moved, CallerAt
  <2>3. LockInv'
    BY <2>1, <2>2, LockStay DEF CallerAt, Waits, Holds
  <2>4. KeptInv'
    BY <1>2, <2>1, <2>2 DEF CallerAt
  <2> QED BY <1>0, <1>1, <2>1, <2>2, <2>3, <2>4
<1>4. ASSUME NEW c \in Callers, ensure_token(c) PROVE Goal
  <2>1. caller[c].at = "ensure" /\ UNCHANGED <<issued, valid, revoked, oauth_enc, snap, other, slip>>
    BY <1>4 DEF ensure_token, ProviderSame
  <2>2. CASE Carry(c, "answered", caller[c].has) /\ UNCHANGED line
    <3>1. /\ caller' \in [Callers -> [at : CallerAt, has : Cred]] /\ Moved(c, "answered")
          /\ \A d \in Callers : d # c => caller'[d].has = caller[d].has
      <4>1. caller[c].has \in Cred /\ "answered" \in CallerAt
        BY <1>0 DEF CallerAt
      <4> QED BY <2>2, <4>1, CarryType DEF Moved, Carry
    <3>2. LockInv'
      BY <2>1, <2>2, <3>1, LockStay DEF CallerAt, Waits, Holds
    <3>3. KeptInv'
      BY <1>2, <2>1, <3>1 DEF CallerAt
    <3> QED BY <1>0, <1>1, <2>1, <2>2, <3>1, <3>2, <3>3
  <2>3. CASE Enter(c, "locking") /\ line' = Append(line, c)
    <3>1. /\ caller' \in [Callers -> [at : CallerAt, has : Cred]] /\ Moved(c, "locking")
          /\ \A d \in Callers : d # c => caller'[d].has = caller[d].has
      BY <2>3, EnterType DEF Moved, CallerAt
    <3>2. LockInv' /\ line' \in Seq(Callers)
      BY <2>1, <2>3, <3>1, LockJoin DEF Waits
    <3>3. KeptInv'
      BY <1>2, <2>1, <3>1 DEF CallerAt
    <3> QED BY <1>0, <1>1, <2>1, <3>1, <3>2, <3>3
  <2> QED BY <1>4, <2>2, <2>3 DEF ensure_token
<1>5. ASSUME NEW c \in Callers, DoubleCheck(c) PROVE Goal
  <2>1. caller[c].at = "locking" /\ UNCHANGED <<issued, valid, revoked, oauth_enc, snap, other>>
        /\ Head(line) = c
    BY <1>5 DEF DoubleCheck, ProviderSame
  <2>2. Len(line) > 0 /\ line[1] = c
    <3>1. PICK i \in 1 .. Len(line) : line[i] = c
      BY <2>1 DEF LockInv, InLine, Waits
    <3>2. Len(line) \in Nat /\ Head(line) = line[1]
      BY <1>0, LenProperties
    <3> QED BY <2>1, <3>1, <3>2
  <2>3. CASE Carry(c, "answered", snap) /\ Release(c) /\ UNCHANGED slip
    <3>1. /\ caller' \in [Callers -> [at : CallerAt, has : Cred]] /\ Moved(c, "answered")
          /\ \A d \in Callers : d # c => caller'[d].has = caller[d].has
      BY <1>0, <2>3, CarryType DEF Moved, Carry, CallerAt
    <3>2. LockInv' /\ line' \in Seq(Callers)
      BY <2>3, <3>1, LockRelease DEF CallerAt, Waits
    <3>3. KeptInv'
      BY <1>2, <2>1, <2>3, <3>1 DEF CallerAt
    <3> QED BY <1>0, <1>1, <2>1, <3>1, <3>2, <3>3
  <2>4. CASE /\ Carry(c, "post", snap) /\ UNCHANGED line
             /\ slip' = IF Rotating THEN "admin_refresh" ELSE slip
    <3>1. /\ caller' \in [Callers -> [at : CallerAt, has : Cred]] /\ Moved(c, "post")
          /\ \A d \in Callers : d # c => caller'[d].has = caller[d].has
          /\ caller'[c].has = snap
      BY <1>0, <2>4, CarryType DEF Moved, Carry, CallerAt
    <3>2. LockInv' /\ line' \in Seq(Callers)
      BY <2>1, <2>2, <2>4, <3>1, LockStay DEF CallerAt, Waits
    <3>3. ASSUME Rotating PROVE KeptInv'
      BY <2>4, <3>3 DEF KeptInv
    <3>4. ASSUME ~Rotating PROVE KeptInv'
      BY <1>2, <2>1, <2>4, <3>1, <3>4 DEF CallerAt
    <3> QED BY <1>0, <1>1, <2>1, <3>1, <3>2, <3>3, <3>4
  <2> QED BY <1>5, <2>3, <2>4 DEF DoubleCheck
<1>6. ASSUME NEW c \in Callers, PostFails(c) PROVE Goal
  <2>1. caller[c].at = "post" /\ UNCHANGED <<issued, valid, revoked, oauth_enc, snap, other, slip>>
        /\ Enter(c, "failed") /\ Release(c)
    BY <1>6 DEF PostFails, ProviderSame
  <2>2. /\ caller' \in [Callers -> [at : CallerAt, has : Cred]] /\ Moved(c, "failed")
        /\ \A d \in Callers : d # c => caller'[d].has = caller[d].has
    BY <2>1, EnterType DEF Moved, CallerAt
  <2>3. LockInv' /\ line' \in Seq(Callers)
    BY <2>1, <2>2, LockRelease DEF CallerAt, Waits
  <2>4. KeptInv'
    BY <1>2, <2>1, <2>2 DEF CallerAt
  <2> QED BY <1>0, <1>1, <2>1, <2>2, <2>3, <2>4
<1>7. ASSUME NEW c \in Callers, Leaves(c) PROVE Goal
  <2>1. caller[c].at \in {"ensure", "locking", "post"} /\ Release(c)
        /\ UNCHANGED <<issued, valid, revoked, oauth_enc, snap, other, slip>>
        /\ caller' = [caller EXCEPT ![c] = [at |-> "idle", has |-> First]]
    BY <1>7 DEF Leaves, ProviderSame, Idle
  <2>2. First \in Cred
    BY CredAssumption DEF First, Cred
  <2>3. /\ caller' \in [Callers -> [at : CallerAt, has : Cred]] /\ Moved(c, "idle")
        /\ \A d \in Callers : d # c => caller'[d].has = caller[d].has
    BY <2>1, <2>2, CarryType DEF Moved, CallerAt
  <2>4. LockInv' /\ line' \in Seq(Callers)
    BY <2>1, <2>3, LockRelease DEF CallerAt, Waits
  <2>5. KeptInv'
    BY <1>2, <2>1, <2>3 DEF CallerAt
  <2> QED BY <1>0, <1>1, <2>1, <2>3, <2>4, <2>5
<1>8. ASSUME NEW c \in Callers, EndRequest(c) PROVE Goal
  <2>1. caller[c].at \in {"answered", "failed"}
        /\ UNCHANGED <<issued, valid, revoked, oauth_enc, snap, line, other, slip>>
        /\ caller' = [caller EXCEPT ![c] = [at |-> "idle", has |-> First]]
    BY <1>8 DEF EndRequest, ProviderSame, Idle
  <2>2. First \in Cred
    BY CredAssumption DEF First, Cred
  <2>3. /\ caller' \in [Callers -> [at : CallerAt, has : Cred]] /\ Moved(c, "idle")
        /\ \A d \in Callers : d # c => caller'[d].has = caller[d].has
    BY <2>1, <2>2, CarryType DEF Moved, CallerAt
  <2>4. LockInv' /\ line' \in Seq(Callers)
    BY <2>1, <2>3, LockStay DEF CallerAt, Waits, Holds
  <2>5. KeptInv'
    BY <1>2, <2>1, <2>3 DEF CallerAt
  <2> QED BY <1>0, <1>1, <2>1, <2>3, <2>4, <2>5
<1>9. ASSUME NEW c \in Callers, NEW rotates \in BOOLEAN, PostRefresh(c, rotates) PROVE Goal
  <2> DEFINE o == caller[c].has
  <2>1. caller[c].at = "post" /\ ProviderAnswers(o, rotates)
        /\ UNCHANGED <<oauth_enc, snap, line, other, slip>>
        /\ caller' = [caller EXCEPT ![c] = [at |-> "update", has |-> NextCred(o)]]
    BY <1>9 DEF PostRefresh, Carry
  <2>2. /\ issued' \in 1 .. MaxTokens /\ valid' \in 1 .. MaxTokens /\ UNCHANGED revoked
        /\ NextCred(o) \in Cred /\ NextCred(o).refresh = valid'
    <3>1. o \in Cred
      BY <1>0
    <3> HIDE DEF o
    <3> QED BY <2>1, <3>1, AnswerType
  <2>3. PICK n \in Cred : /\ n.refresh = valid'
                          /\ caller' = [caller EXCEPT ![c] = [at |-> "update", has |-> n]]
    BY <2>1, <2>2
  <2>4. /\ caller' \in [Callers -> [at : CallerAt, has : Cred]] /\ Moved(c, "update")
        /\ caller'[c].has.refresh = valid'
    BY <2>3, CarryType DEF Moved, CallerAt
  <2>5. Len(line) > 0 /\ line[1] = c
    BY <2>1 DEF LockInv, Holds
  <2>6. LockInv' /\ line' \in Seq(Callers)
    BY <2>1, <2>4, <2>5, LockStay DEF CallerAt, Waits
  <2>7. \A d \in Callers : d # c => caller'[d].at \notin Holds
    BY <2>1, <2>4, OneHolder DEF Moved, Holds
  <2>8. caller'[c].at = "update"
    BY <2>4 DEF Moved
  <2>9. KeptInv'
    <3>1. slip = "none" => ~Rotating
      BY <2>1 DEF KeptInv, Holds
    <3> QED BY <2>1, <2>2, <2>4, <2>7, <2>8, <3>1 DEF KeptInv, Holds, Rotating
  <2> QED BY <1>0, <1>1, <2>1, <2>2, <2>4, <2>6, <2>9
<1>10. ASSUME NEW c \in Callers, PostRevoked(c) PROVE Goal
  <2>1. caller[c].at = "post" /\ caller[c].has.refresh # valid /\ revoked' = TRUE
        /\ Enter(c, "failed") /\ Release(c)
        /\ UNCHANGED <<issued, valid, oauth_enc, snap, other, slip>>
    BY <1>10 DEF PostRevoked
  <2>2. /\ caller' \in [Callers -> [at : CallerAt, has : Cred]] /\ Moved(c, "failed")
    BY <2>1, EnterType DEF Moved, CallerAt
  <2>3. LockInv' /\ line' \in Seq(Callers)
    BY <2>1, <2>2, LockRelease DEF CallerAt, Waits
  <2>4. \A d \in Callers : caller[d].at \notin {"update", "reload"}
    BY <2>1, OneHolder DEF Holds
  <2>5. slip # "none"
    BY <2>1, <2>4 DEF KeptInv, Holds
  <2>6. KeptInv'
    BY <2>1, <2>5 DEF KeptInv
  <2> QED BY <1>0, <1>1, <2>1, <2>2, <2>3, <2>6
<1>11. ASSUME NEW c \in Callers, UpdateRow(c) PROVE Goal
  <2>1. caller[c].at = "update" /\ oauth_enc' = caller[c].has /\ Enter(c, "reload")
        /\ UNCHANGED <<issued, valid, revoked, snap, line, other, slip>>
    BY <1>11 DEF UpdateRow, ProviderSame
  <2>2. /\ caller' \in [Callers -> [at : CallerAt, has : Cred]] /\ Moved(c, "reload")
    BY <2>1, EnterType DEF Moved, CallerAt
  <2>3. Len(line) > 0 /\ line[1] = c
    BY <2>1 DEF LockInv, Holds
  <2>4. LockInv' /\ line' \in Seq(Callers)
    BY <2>1, <2>2, <2>3, LockStay DEF CallerAt, Waits
  <2>5. \A d \in Callers : d # c => caller'[d].at \notin Holds
    BY <2>1, <2>2, OneHolder DEF Moved, Holds
  <2>6. caller'[c].at = "reload" /\ oauth_enc' \in Cred
    BY <1>0, <2>1, <2>2 DEF Moved
  <2>7. KeptInv'
    <3>1. slip = "none" => ~Rotating
      BY <2>1 DEF KeptInv, Holds
    <3> QED BY <2>1, <2>5, <2>6, <3>1 DEF KeptInv, Holds, Rotating
  <2> QED BY <1>0, <1>1, <2>1, <2>2, <2>4, <2>6, <2>7
<1>12. ASSUME NEW c \in Callers, ReloadSnapshot(c) PROVE Goal
  <2>1. caller[c].at = "reload" /\ snap' = oauth_enc /\ Enter(c, "answered") /\ Release(c)
        /\ UNCHANGED <<issued, valid, revoked, oauth_enc, other, slip>>
    BY <1>12 DEF ReloadSnapshot, ProviderSame
  <2>2. /\ caller' \in [Callers -> [at : CallerAt, has : Cred]] /\ Moved(c, "answered")
    BY <2>1, EnterType DEF Moved, CallerAt
  <2>3. LockInv' /\ line' \in Seq(Callers)
    BY <2>1, <2>2, LockRelease DEF CallerAt, Waits
  <2>4. \A d \in Callers : caller'[d].at \notin Holds
    BY <2>1, <2>2, OneHolder DEF Moved, Holds
  <2>5. KeptInv'
    <3>1. slip = "none" => ~Rotating
      BY <2>1 DEF KeptInv, Holds
    <3> QED BY <2>1, <2>4, <3>1 DEF KeptInv, Holds, Rotating
  <2> QED BY <1>0, <1>1, <2>1, <2>2, <2>3, <2>5
<1>13. ASSUME slip' # "none" PROVE KeptInv'
  BY <1>13 DEF KeptInv
<1>14. ASSUME NEW c \in Callers, AnswerLost(c) \/ LeavesLate(c) PROVE Goal
  <2>1. slip' # "none" /\ Enter(c, "failed") /\ Release(c) /\ UNCHANGED <<oauth_enc, snap, other>>
    BY <1>14 DEF AnswerLost, LeavesLate, Slips
  <2>2. issued' \in 1 .. MaxTokens /\ valid' \in 1 .. MaxTokens /\ UNCHANGED revoked
    <3>1. CASE LeavesLate(c)
      BY <1>0, <3>1 DEF LeavesLate, ProviderSame
    <3>2. CASE AnswerLost(c)
      <4>1. caller[c].has \in Cred /\ ProviderAnswers(caller[c].has, TRUE)
        BY <1>0, <3>2 DEF AnswerLost
      <4> QED BY <4>1, AnswerType
    <3> QED BY <1>14, <3>1, <3>2
  <2>3. /\ caller' \in [Callers -> [at : CallerAt, has : Cred]] /\ Moved(c, "failed")
    BY <2>1, EnterType DEF Moved, CallerAt
  <2>4. LockInv' /\ line' \in Seq(Callers)
    BY <2>1, <2>3, LockRelease DEF CallerAt, Waits
  <2> QED BY <1>0, <1>1, <1>13, <2>1, <2>2, <2>3, <2>4
<1>15. ASSUME UNCHANGED <<line, caller>> PROVE LockInv'
  BY <1>15 DEF LockInv
<1>16. CASE TokenExpires
  <2>1. UNCHANGED <<issued, valid, revoked, oauth_enc, snap, line, caller, other, slip>>
    BY <1>16 DEF TokenExpires
  <2> QED BY <1>0, <1>1, <1>15, <2>1 DEF KeptInv, Rotating
<1>17. ASSUME NEW kind \in {"old_reload", "edit"}, OtherReads(kind) PROVE Goal
  <2>1. UNCHANGED <<issued, valid, revoked, oauth_enc, snap, line, caller, slip>>
        /\ other = Nobody /\ other' = [at |-> kind, has |-> oauth_enc]
    BY <1>17 DEF OtherReads, ProviderSame
  <2> QED BY <1>0, <1>1, <1>15, <2>1 DEF KeptInv, Rotating, Nobody, OtherAt
<1>18. First \in Cred /\ Nobody \in [at : OtherAt, has : Cred] /\ Nobody.at = "none"
  BY CredAssumption DEF First, Cred, Nobody, OtherAt
<1>19. CASE OtherWrites
  <2>1. /\ other.at \in {"old_reload", "edit"} /\ other' = Nobody
        /\ UNCHANGED <<issued, valid, revoked, line, caller>>
        /\ snap' = other.has /\ (oauth_enc' = oauth_enc \/ oauth_enc' = other.has)
        /\ slip' = IF other.has # oauth_enc \/ Refreshing THEN other.at ELSE slip
    BY <1>19 DEF OtherWrites, ProviderSame
  <2>2. CASE slip' = "none"
    <3>1. other.has = oauth_enc /\ slip = "none" /\ ~Rotating /\ ~Rotating' /\ other'.at = "none"
          /\ \A c \in Callers : caller[c].at \notin {"post", "update", "reload"}
      BY <1>18, <2>1, <2>2 DEF Refreshing, Rotating
    <3> QED BY <1>0, <1>1, <1>15, <1>18, <2>1, <3>1 DEF KeptInv
  <2>3. CASE slip' # "none"
    BY <1>0, <1>1, <1>13, <1>15, <1>18, <2>1, <2>3
  <2> QED BY <2>2, <2>3
<1>20. CASE AdminReads
  <2>1. /\ other = Nobody /\ other' = [at |-> "admin", has |-> snap]
        /\ UNCHANGED <<issued, valid, revoked, oauth_enc, snap, line, caller, slip>>
    BY <1>20 DEF AdminReads, ProviderSame
  <2>2. other' \in [at : OtherAt, has : Cred] /\ ~Rotating /\ ~Rotating' /\ other'.at = "admin"
    BY <1>0, <1>18, <2>1 DEF OtherAt, Rotating
  <2>3. KeptInv'
    BY <2>1, <2>2 DEF KeptInv
  <2> QED BY <1>0, <1>1, <1>15, <2>1, <2>2, <2>3
<1>23. CASE AdminPosts
  <2>0. /\ UNCHANGED <<oauth_enc, snap, line, caller>> /\ other.at = "admin"
        /\ slip' = IF other.has # snap \/ Refreshing THEN "admin_refresh" ELSE slip
    BY <1>23 DEF AdminPosts
  <2>1. ASSUME NEW rotates \in BOOLEAN, ProviderAnswers(other.has, rotates),
               other' = [at |-> "admin_update", has |-> NextCred(other.has)]
        PROVE  Goal
    <3>1. PICK o \in Cred : o = other.has
      BY <1>0
    <3>2. /\ issued' \in 1 .. MaxTokens /\ valid' \in 1 .. MaxTokens /\ UNCHANGED revoked
          /\ NextCred(other.has) \in Cred /\ NextCred(other.has).refresh = valid'
      BY <2>1, <3>1, AnswerType
    <3>3. PICK n \in Cred : n.refresh = valid' /\ other' = [at |-> "admin_update", has |-> n]
      BY <2>1, <3>2
    <3>4. other' \in [at : OtherAt, has : Cred] /\ Rotating' /\ other'.at = "admin_update"
          /\ other'.has.refresh = valid'
      BY <3>3 DEF OtherAt, Rotating
    <3>5. slip' = "none" => slip = "none" /\ \A c \in Callers : caller[c].at \notin Holds
      BY <2>0 DEF Refreshing, Holds
    <3>6. KeptInv'
      BY <2>0, <3>2, <3>4, <3>5 DEF KeptInv, Holds
    <3> QED BY <1>0, <1>1, <1>15, <2>0, <3>2, <3>4, <3>6
  <2>2. CASE /\ other.has.refresh # valid /\ revoked' = TRUE /\ other' = Nobody
             /\ UNCHANGED <<issued, valid, expiring>>
    <3>1. slip' # "none"
      <4>1. CASE other.has # snap \/ Refreshing
        BY <2>0, <4>1
      <4>2. CASE other.has = snap /\ ~Refreshing
        BY <2>0, <2>2, <4>2 DEF KeptInv, Refreshing, Rotating
      <4> QED BY <4>1, <4>2
    <3> QED BY <1>0, <1>1, <1>13, <1>15, <1>18, <2>0, <2>2, <3>1
  <2> QED BY <1>23, <2>1, <2>2 DEF AdminPosts
<1>24. CASE AdminUpdates
  <2>1. /\ other.at = "admin_update" /\ oauth_enc' = other.has
        /\ other' = [other EXCEPT !.at = "admin_reload"]
        /\ UNCHANGED <<issued, valid, revoked, snap, line, caller, slip>>
    BY <1>24 DEF AdminUpdates, ProviderSame
  <2>2. other' \in [at : OtherAt, has : Cred] /\ other'.at = "admin_reload" /\ Rotating /\ Rotating'
        /\ oauth_enc' \in Cred
    BY <1>0, <2>1 DEF OtherAt, Rotating
  <2>3. KeptInv'
    BY <2>1, <2>2 DEF KeptInv, Holds
  <2> QED BY <1>0, <1>1, <1>15, <2>1, <2>2, <2>3
<1>25. CASE AdminReloads
  <2>1. /\ other.at = "admin_reload" /\ snap' = oauth_enc /\ other' = Nobody
        /\ UNCHANGED <<issued, valid, revoked, oauth_enc, line, caller, slip>>
    BY <1>25 DEF AdminReloads, ProviderSame
  <2>2. Rotating /\ ~Rotating' /\ other'.at = "none"
    BY <1>18, <2>1 DEF Rotating
  <2>3. KeptInv'
    BY <2>1, <2>2 DEF KeptInv, Holds
  <2> QED BY <1>0, <1>1, <1>15, <1>18, <2>1, <2>3
<1>26. CASE AdminFails
  <2>1. /\ other.at = "admin" /\ other' = Nobody
        /\ UNCHANGED <<issued, valid, revoked, oauth_enc, snap, line, caller, slip>>
    BY <1>26 DEF AdminFails, ProviderSame
  <2>2. ~Rotating /\ ~Rotating' /\ other'.at = "none"
    BY <1>18, <2>1 DEF Rotating
  <2>3. KeptInv'
    BY <2>1, <2>2 DEF KeptInv
  <2> QED BY <1>0, <1>1, <1>15, <1>18, <2>1, <2>3
<1>27. CASE AdminCut
  <2>1. slip' # "none" /\ other' = Nobody /\ UNCHANGED <<oauth_enc, snap, line, caller>>
    BY <1>27 DEF AdminCut, Slips
  <2>2. issued' \in 1 .. MaxTokens /\ valid' \in 1 .. MaxTokens /\ UNCHANGED revoked
    <3>1. CASE ProviderSame
      BY <1>0, <3>1 DEF ProviderSame
    <3>2. CASE ProviderAnswers(other.has, TRUE)
      <4>1. other.has \in Cred
        BY <1>0
      <4> QED BY <3>2, <4>1, AnswerType
    <3> QED BY <1>27, <3>1, <3>2 DEF AdminCut
  <2> QED BY <1>0, <1>1, <1>13, <1>15, <1>18, <2>1, <2>2
<1>21. CASE UNCHANGED credVars
  BY <1>0, <1>1, <1>15, <1>21 DEF credVars, KeptInv, Rotating
<1> HIDE DEF Goal
<1>22. Goal
  BY <1>3, <1>4, <1>5, <1>6, <1>7, <1>8, <1>9, <1>10, <1>11, <1>12, <1>14, <1>16, <1>17, <1>19,
     <1>20, <1>21, <1>23, <1>24, <1>25, <1>26, <1>27
  DEF CredNext, CallerStep, refresh_oauth
<1> QED BY <1>22 DEF Goal

\* Before the first request row and snapshot hold the provider's first token.
LEMMA CredStart == CredInit => CredTypes /\ LockInv /\ KeptInv
<1> SUFFICES ASSUME CredInit PROVE CredTypes /\ LockInv /\ KeptInv
  OBVIOUS
<1>1. First \in Cred /\ 1 \in 1 .. MaxTokens /\ First.refresh = 1
  BY CredAssumption DEF First, Cred
<1>2. line \in Seq(Callers) /\ Len(line) = 0
  BY EmptySeq DEF CredInit
<1>3. CredTypes
  BY <1>1, <1>2, LineType DEF CredInit, CredTypes, CredTypeOK, Idle, Nobody, OtherAt
<1>4. LockInv
  BY <1>2 DEF CredInit, LockInv, NoRepeat, InLine, Idle, Waits, Holds
<1>5. KeptInv
  BY <1>1 DEF CredInit, KeptInv, Idle, Nobody, Rotating
<1> QED BY <1>3, <1>4, <1>5

\* With an empty line nobody refreshes.
LEMMA KeptImplies == CredTypes /\ LockInv /\ KeptInv => CredentialSafe
<1> SUFFICES ASSUME CredTypes, LockInv, KeptInv PROVE CredentialSafe
  OBVIOUS
<1>1. line = <<>> => \A c \in Callers : caller[c].at \notin Holds
  <2>1. line = <<>> => Len(line) = 0
    BY EmptySeq
  <2> QED BY <2>1 DEF LockInv
<1>2. CredentialKept
  BY <1>1 DEF CredentialKept, KeptInv, Holds
<1>3. NeverRevoked
  BY DEF NeverRevoked, KeptInv
<1> QED BY <1>2, <1>3 DEF CredentialSafe, CredTypes

\* However many requests of a channel overlap, fail, leave or find the token refreshed by
\* another: no rotated refresh token is presented, and outside a refresh the row and the
\* snapshot hold the one the provider accepts, unless the answer is lost after the rotation,
\* what follows it fails, or a writer without the lock overlaps with a refresh.
THEOREM CredentialIsSafe == CredSpec => []CredentialSafe
BY CredStart, CredStep, KeptImplies, PTL DEF CredSpec

-----------------------------------------------------------------------------
(* Idempotency keys. *)

\* Ids grow: neither the row nor a request has an id that was not handed out.
IdsKnown ==
    /\ row # NoRow => row.id \in 1..lastId
    /\ \A r \in Request : rid[r] <= lastId

\* A request that holds the row has the row's body.
HoldersMatch == \A r \in Request :
    pc[r] \in InFlight \cup {"takeover"} =>
        /\ rid[r] # 0
        /\ row # NoRow /\ row.id = rid[r] => FpOf[r] = row.fp

\* A stored response is a successful one, for the body of the row.
StoredMatches ==
    row # NoRow /\ row.status = "completed" => row.resp \in ok /\ FpOf[row.resp] = row.fp

\* Only requests that had a response reach complete.
CompletesOk == \A r \in Request : pc[r] = "complete" => r \in ok

\* A request inside begin has called nothing; a takeover is of a record marked failed.
BeginCallsNothing == \A r \in Request :
    /\ pc[r] \in InBegin => r \notin called
    /\ pc[r] = "takeover" => rid[r] \in failed
FailedKnown == row # NoRow /\ row.status = "failed" => row.id \in failed

\* begin goes round its loop at most twice.
TwoRounds == \A r \in Request : pc[r] \in InBegin => tries[r] < 2

IdemInv == /\ TwoRounds /\ IdsKnown /\ HoldersMatch /\ StoredMatches /\ CompletesOk
           /\ BeginCallsNothing /\ FailedKnown
           /\ ReplayFaithful /\ OneCallPerRecord

-----------------------------------------------------------------------------
\* NoRow is told apart from a row by its id.
LEMMA RowId == ASSUME NEW x \in Row PROVE x.id # 0 /\ x # NoRow /\ x.id \in Nat
BY DEF Row, NoRow

\* The initial state.
LEMMA IdemInit == Init => TypeOK /\ IdemInv
BY TtlAssumption DEF Init, TypeOK, IdemInv, IdsKnown, HoldersMatch, StoredMatches, CompletesOk,
    BeginCallsNothing, FailedKnown, TwoRounds, ReplayFaithful, OneCallPerRecord, InBegin, InFlight,
    Final, NoRow, Row

\* A row keeps its shape when its status, response or life changes.
LEMMA RowExcept ==
    ASSUME NEW x \in Row, NEW st \in Statuses, NEW rs \in Request \cup {None}, NEW l \in 0..Ttl
    PROVE  /\ [x EXCEPT !.status = st, !.resp = rs, !.left = l] \in Row
           /\ [x EXCEPT !.status = st, !.resp = rs] \in Row
           /\ [x EXCEPT !.status = st] \in Row
           /\ [x EXCEPT !.left = l] \in Row
BY DEF Row

\* Every step keeps the types.
LEMMA IdemTypeStep == TypeOK /\ HoldersMatch /\ TwoRounds /\ [Next]_vars => TypeOK'
<1> SUFFICES ASSUME TypeOK, HoldersMatch, TwoRounds, [Next]_vars PROVE TypeOK'
  OBVIOUS
<1> USE DEF TypeOK, InBegin, InFlight, Final, Goto
<1>0. ASSUME NEW r \in Request, pc[r] \in InFlight \cup {"takeover"}, row.id = rid[r]
      PROVE  row \in Row
  BY <1>0 DEF HoldersMatch, NoRow
<1>1. ASSUME NEW r \in Request, Select(r) PROVE TypeOK'
  <2>1. Live => /\ row \in Row /\ row.id \in Nat /\ row.resp \in Request \cup {None}
               /\ row.status \in Statuses
    BY DEF Live, Row
  <2>2. Live => Verdict(r) \in {"conflict", "replayed", "takeover"}
    BY <2>1 DEF Verdict, Statuses
  <2> QED BY <1>1, <2>1, <2>2 DEF Select
<1>2. ASSUME NEW r \in Request, Takeover(r) PROVE TypeOK'
  <2>1. row' \in Row \cup {NoRow}
    <3>1. CASE row.id = rid[r]
      <4>1. row \in Row
        BY <1>0, <1>2, <3>1 DEF Takeover
      <4>2. /\ "processing" \in Statuses /\ "completed" \in Statuses /\ "failed" \in Statuses
            /\ None \in Request \cup {None} /\ r \in Request \cup {None} /\ Ttl \in 0..Ttl
        BY TtlAssumption DEF Statuses
      <4>3. row' \in Row
        BY <1>2, <3>1, <4>1, <4>2, RowExcept DEF Takeover
      <4> QED BY <4>3
    <3>2. CASE row.id # rid[r]
      BY <1>2, <3>2 DEF Takeover
    <3> QED BY <3>1, <3>2
  <2> QED BY <1>2, <2>1 DEF Takeover, Proceed
<1>3. ASSUME NEW r \in Request, Insert(r) PROVE TypeOK'
  <2>1. FpOf[r] \in Fingerprint /\ Ttl \in 0..Ttl
    BY FpAssumption, TtlAssumption
  <2>2. CASE row = NoRow
    <3>1. row' \in Row
      BY <1>3, <2>1, <2>2 DEF Insert, Row, Statuses
    <3> QED BY <1>3, <2>2, <3>1 DEF Insert, Proceed
  <2>3. CASE row # NoRow
    BY <1>3, <2>3 DEF Insert, TwoRounds
  <2> QED BY <2>2, <2>3
<1>4. ASSUME NEW r \in Request, Upstream(r) PROVE TypeOK'
  BY <1>4 DEF Upstream
<1>5. ASSUME NEW r \in Request, Complete(r) PROVE TypeOK'
  <2>1. row' \in Row \cup {NoRow}
    <3>1. CASE row.id = rid[r]
      <4>1. row \in Row
        BY <1>0, <1>5, <3>1 DEF Complete
      <4>2. /\ "processing" \in Statuses /\ "completed" \in Statuses /\ "failed" \in Statuses
            /\ None \in Request \cup {None} /\ r \in Request \cup {None} /\ Ttl \in 0..Ttl
        BY TtlAssumption DEF Statuses
      <4>3. row' \in Row
        BY <1>5, <3>1, <4>1, <4>2, RowExcept DEF Complete
      <4> QED BY <4>3
    <3>2. CASE row.id # rid[r]
      BY <1>5, <3>2 DEF Complete
    <3> QED BY <3>1, <3>2
  <2> QED BY <1>5, <2>1 DEF Complete
<1>6. ASSUME NEW r \in Request, Fail(r) PROVE TypeOK'
  <2>1. row' \in Row \cup {NoRow}
    <3>1. CASE row.id = rid[r]
      <4>1. row \in Row
        BY <1>0, <1>6, <3>1 DEF Fail
      <4>2. /\ "processing" \in Statuses /\ "completed" \in Statuses /\ "failed" \in Statuses
            /\ None \in Request \cup {None} /\ r \in Request \cup {None} /\ Ttl \in 0..Ttl
        BY TtlAssumption DEF Statuses
      <4>3. row' \in Row
        BY <1>6, <3>1, <4>1, <4>2, RowExcept DEF Fail
      <4> QED BY <4>3
    <3>2. CASE row.id # rid[r]
      BY <1>6, <3>2 DEF Fail
    <3> QED BY <3>1, <3>2
  <2>2. row.id = rid[r] => row.id \in Nat
    BY <1>6
  <2> QED BY <1>6, <2>1, <2>2 DEF Fail
<1>7. ASSUME NEW r \in Request, DbError(r) PROVE TypeOK'
  BY <1>7 DEF DbError
<1>8. ASSUME NEW r \in Request, Vanish(r) PROVE TypeOK'
  BY <1>8 DEF Vanish
<1>9. CASE Tick
  <2>1. row \in Row /\ row.left - 1 \in 0..Ttl
    BY <1>9, TtlAssumption DEF Tick, Live, Row
  <2>2. row' \in Row
    BY <1>9, <2>1, RowExcept DEF Tick, Row
  <2> QED BY <1>9, <2>2 DEF Tick
<1>10. CASE CleanupExpired
  BY <1>10 DEF CleanupExpired
<1>11. CASE UNCHANGED vars
  BY <1>11 DEF vars
<1> QED
  BY <1>1, <1>2, <1>3, <1>4, <1>5, <1>6, <1>7, <1>8, <1>9, <1>10, <1>11
  DEF Next, Step, Done

\* Every step keeps the invariant.
LEMMA IdemStep == TypeOK /\ IdemInv /\ [Next]_vars => IdemInv'
<1> SUFFICES ASSUME TypeOK, IdemInv, [Next]_vars PROVE IdemInv'
  OBVIOUS
<1> USE DEF InBegin, InFlight, Final, Goto
<1>0. row = NoRow \/ (row # NoRow /\ row \in Row /\ row.id # 0 /\ row.id \in Nat)
  BY RowId DEF TypeOK
<1>1. ASSUME NEW r \in Request, Select(r) PROVE IdemInv'
  <2>1. CASE ~Live
    <3>1. /\ pc[r] = "select" /\ pc' = [pc EXCEPT ![r] = "insert"]
          /\ UNCHANGED <<row, lastId, tries, rid, answer, called, ok, failed>>
      BY <1>1, <2>1 DEF Select
    <3> QED BY <3>1 DEF TypeOK, IdemInv, TwoRounds, IdsKnown, HoldersMatch, StoredMatches,
              CompletesOk, BeginCallsNothing, FailedKnown, ReplayFaithful, OneCallPerRecord
  <2>2. CASE Live
    <3>1. /\ pc[r] = "select" /\ pc' = [pc EXCEPT ![r] = Verdict(r)]
          /\ rid' = [rid EXCEPT ![r] = row.id] /\ row # NoRow
          /\ UNCHANGED <<row, lastId, tries, called, ok, failed>>
          /\ answer' = IF Verdict(r) = "replayed" THEN [answer EXCEPT ![r] = row.resp]
                       ELSE answer
      BY <1>1, <2>2 DEF Select, Live
    <3>2. /\ row.id \in 1..lastId /\ row.status \in Statuses
      BY <1>0, <3>1 DEF IdemInv, IdsKnown, Row
    <3>3. /\ Verdict(r) \in {"conflict", "replayed", "takeover"}
          /\ Verdict(r) = "takeover" => FpOf[r] = row.fp /\ row.status = "failed"
          /\ Verdict(r) = "replayed" => FpOf[r] = row.fp /\ row.status = "completed"
      <4>1. CASE row.fp # FpOf[r]
        BY <4>1 DEF Verdict
      <4>2. CASE row.fp = FpOf[r] /\ row.status = "completed"
        BY <4>2 DEF Verdict
      <4>3. CASE row.fp = FpOf[r] /\ row.status = "processing"
        BY <4>3 DEF Verdict
      <4>4. CASE row.fp = FpOf[r] /\ row.status = "failed"
        BY <4>4 DEF Verdict
      <4> QED BY <3>2, <4>1, <4>2, <4>3, <4>4 DEF Statuses
    <3>4. TwoRounds' /\ IdsKnown' /\ StoredMatches' /\ CompletesOk' /\ FailedKnown'
      BY <3>1, <3>2, <3>3 DEF TypeOK, IdemInv, TwoRounds, IdsKnown, StoredMatches, CompletesOk,
                              FailedKnown
    <3>5. HoldersMatch' /\ BeginCallsNothing'
      BY <3>1, <3>2, <3>3 DEF TypeOK, IdemInv, HoldersMatch, BeginCallsNothing, FailedKnown
    <3>6. ReplayFaithful'
      BY <3>1, <3>3 DEF TypeOK, IdemInv, ReplayFaithful, StoredMatches
    <3>7. r \notin called
      BY <3>1 DEF IdemInv, BeginCallsNothing
    <3>8. OneCallPerRecord'
      BY <3>1, <3>7 DEF TypeOK, IdemInv, OneCallPerRecord
    <3> QED BY <3>4, <3>5, <3>6, <3>8 DEF IdemInv
  <2> QED BY <2>1, <2>2
<1>2. ASSUME NEW r \in Request, Takeover(r) PROVE IdemInv'
  <2>1. /\ pc[r] = "takeover" /\ rid[r] # 0 /\ rid[r] \in failed /\ rid[r] \in Nat
        /\ UNCHANGED <<lastId, tries, rid, answer, ok, failed>>
        /\ \/ pc' = [pc EXCEPT ![r] = "upstream"] /\ called' = called \cup {r}
           \/ pc' = [pc EXCEPT ![r] = "error"] /\ called' = called
    BY <1>2 DEF Takeover, Proceed, TypeOK, IdemInv, HoldersMatch, BeginCallsNothing
  <2>2. \/ row' = row
        \/ /\ row # NoRow /\ row \in Row /\ row' \in Row /\ row'.id = row.id
           /\ row'.fp = row.fp /\ row'.status = "processing"
    <3>1. CASE row.id = rid[r]
      <4>1. row # NoRow /\ row \in Row
        BY <1>0, <2>1, <3>1 DEF NoRow
      <4>2. row' = [row EXCEPT !.status = "processing", !.resp = None, !.left = Ttl]
        BY <1>2, <3>1 DEF Takeover
      <4>3. /\ row'.id = row.id /\ row'.fp = row.fp /\ row'.status = "processing"
        BY <4>1, <4>2 DEF Row
      <4>4. "processing" \in Statuses /\ None \in Request \cup {None} /\ Ttl \in 0..Ttl
        BY TtlAssumption DEF Statuses
      <4>5. row' \in Row
        BY <4>1, <4>2, <4>4, RowExcept
      <4> QED BY <4>1, <4>3, <4>5
    <3> QED BY <1>2, <3>1 DEF Takeover
  <2>3. (row' # NoRow) = (row # NoRow)
    BY <2>2, RowId
  <2>4. TwoRounds' /\ IdsKnown' /\ StoredMatches' /\ CompletesOk' /\ FailedKnown'
    BY <2>1, <2>2, <2>3 DEF TypeOK, IdemInv, TwoRounds, IdsKnown, StoredMatches, CompletesOk,
                            FailedKnown
  <2>5. HoldersMatch' /\ BeginCallsNothing'
    BY <2>1, <2>2, <2>3 DEF TypeOK, IdemInv, HoldersMatch, BeginCallsNothing
  <2>6. ReplayFaithful' /\ OneCallPerRecord'
    BY <2>1 DEF TypeOK, IdemInv, ReplayFaithful, OneCallPerRecord
  <2> QED BY <2>4, <2>5, <2>6 DEF IdemInv
<1>3. ASSUME NEW r \in Request, Insert(r) PROVE IdemInv'
  <2>1. CASE row = NoRow
    <3>1. /\ pc[r] = "insert" /\ lastId' = lastId + 1 /\ rid' = [rid EXCEPT ![r] = lastId + 1]
          /\ row' = [id |-> lastId + 1, fp |-> FpOf[r], status |-> "processing",
                     resp |-> None, left |-> Ttl]
          /\ UNCHANGED <<tries, answer, ok, failed>>
          /\ \/ pc' = [pc EXCEPT ![r] = "upstream"] /\ called' = called \cup {r}
             \/ pc' = [pc EXCEPT ![r] = "error"] /\ called' = called
      BY <1>3, <2>1 DEF Insert, Proceed
    <3>2. /\ row'.id = lastId + 1 /\ row'.fp = FpOf[r] /\ row'.status = "processing"
          /\ lastId \in Nat /\ \A q \in Request : rid[q] \in Nat /\ rid[q] <= lastId
      BY <3>1 DEF TypeOK, IdemInv, IdsKnown
    <3>3. TwoRounds' /\ IdsKnown' /\ StoredMatches' /\ CompletesOk' /\ FailedKnown'
      BY <3>1, <3>2 DEF TypeOK, IdemInv, TwoRounds, IdsKnown, StoredMatches, CompletesOk,
                        FailedKnown
    <3>4. HoldersMatch' /\ BeginCallsNothing'
      BY <3>1, <3>2 DEF TypeOK, IdemInv, HoldersMatch, BeginCallsNothing
    <3>5. ReplayFaithful'
      BY <3>1 DEF TypeOK, IdemInv, ReplayFaithful
    <3>6. OneCallPerRecord'
      <4>1. r \notin called
        BY <3>1 DEF IdemInv, BeginCallsNothing
      <4> QED BY <3>1, <3>2, <4>1 DEF TypeOK, IdemInv, OneCallPerRecord
    <3> QED BY <3>3, <3>4, <3>5, <3>6 DEF IdemInv
  <2>2. CASE row # NoRow
    <3>1. /\ pc[r] = "insert" /\ tries' = [tries EXCEPT ![r] = @ + 1]
          /\ pc' = [pc EXCEPT ![r] = IF tries[r] = 0 THEN "select" ELSE "conflict"]
          /\ UNCHANGED <<row, lastId, rid, answer, called, ok, failed>>
      BY <1>3, <2>2 DEF Insert
    <3> QED BY <3>1 DEF TypeOK, IdemInv, TwoRounds, IdsKnown, HoldersMatch, StoredMatches,
              CompletesOk, BeginCallsNothing, FailedKnown, ReplayFaithful, OneCallPerRecord
  <2> QED BY <2>1, <2>2
<1>4. ASSUME NEW r \in Request, Upstream(r) PROVE IdemInv'
  BY <1>4 DEF Upstream, TypeOK, IdemInv, TwoRounds, IdsKnown, HoldersMatch, StoredMatches,
       CompletesOk, BeginCallsNothing, FailedKnown, ReplayFaithful, OneCallPerRecord
<1>5. ASSUME NEW r \in Request, Complete(r) PROVE IdemInv'
  <2>1. /\ pc[r] = "complete" /\ rid[r] # 0 /\ r \in ok
        /\ pc' = [pc EXCEPT ![r] = "served"] /\ answer' = [answer EXCEPT ![r] = r]
        /\ UNCHANGED <<lastId, tries, rid, called, ok, failed>>
        /\ row # NoRow /\ row.id = rid[r] => FpOf[r] = row.fp
    BY <1>5 DEF Complete, IdemInv, HoldersMatch, CompletesOk
  <2>2. \/ row' = row
        \/ /\ row # NoRow /\ row' \in Row /\ row'.id = row.id /\ row'.fp = row.fp
           /\ row'.status = "completed" /\ row'.resp = r /\ FpOf[r] = row.fp
    <3>1. CASE row.id = rid[r]
      <4>1. row # NoRow /\ row \in Row
        BY <1>0, <2>1, <3>1 DEF NoRow
      <4>2. row' = [row EXCEPT !.status = "completed", !.resp = r]
        BY <1>5, <3>1 DEF Complete
      <4> QED BY <2>1, <3>1, <4>1, <4>2 DEF Row, Statuses
    <3> QED BY <1>5, <3>1 DEF Complete
  <2>3. (row' # NoRow) = (row # NoRow)
    BY <2>2, RowId
  <2>4. TwoRounds' /\ IdsKnown' /\ StoredMatches' /\ CompletesOk' /\ FailedKnown'
    BY <2>1, <2>2, <2>3 DEF TypeOK, IdemInv, TwoRounds, IdsKnown, StoredMatches, CompletesOk,
                            FailedKnown
  <2>5. HoldersMatch' /\ BeginCallsNothing'
    BY <2>1, <2>2, <2>3 DEF TypeOK, IdemInv, HoldersMatch, BeginCallsNothing
  <2>6. ReplayFaithful' /\ OneCallPerRecord'
    BY <2>1 DEF TypeOK, IdemInv, ReplayFaithful, OneCallPerRecord
  <2> QED BY <2>4, <2>5, <2>6 DEF IdemInv
<1>6. ASSUME NEW r \in Request, Fail(r) PROVE IdemInv'
  <2>1. /\ pc[r] = "fail" /\ rid[r] # 0 /\ pc' = [pc EXCEPT ![r] = "refused"]
        /\ UNCHANGED <<lastId, tries, rid, answer, called, ok>> /\ failed \subseteq failed'
    BY <1>6 DEF Fail, IdemInv, HoldersMatch
  <2>2. \/ row' = row
        \/ /\ row # NoRow /\ row' \in Row /\ row'.id = row.id /\ row'.fp = row.fp
           /\ row'.status = "failed" /\ row.id \in failed'
    <3>1. CASE row.id = rid[r]
      <4>1. row # NoRow /\ row \in Row
        BY <1>0, <2>1, <3>1 DEF NoRow
      <4>2. row' = [row EXCEPT !.status = "failed"] /\ row.id \in failed'
        BY <1>6, <3>1 DEF Fail
      <4> QED BY <4>1, <4>2 DEF Row, Statuses
    <3> QED BY <1>6, <3>1 DEF Fail
  <2>3. (row' # NoRow) = (row # NoRow)
    BY <2>2, RowId
  <2>4. TwoRounds' /\ IdsKnown' /\ StoredMatches' /\ CompletesOk' /\ FailedKnown'
    BY <2>1, <2>2, <2>3 DEF TypeOK, IdemInv, TwoRounds, IdsKnown, StoredMatches, CompletesOk,
                            FailedKnown
  <2>5. HoldersMatch' /\ BeginCallsNothing'
    BY <2>1, <2>2, <2>3 DEF TypeOK, IdemInv, HoldersMatch, BeginCallsNothing
  <2>6. ReplayFaithful' /\ OneCallPerRecord'
    BY <2>1 DEF TypeOK, IdemInv, ReplayFaithful, OneCallPerRecord
  <2> QED BY <2>4, <2>5, <2>6 DEF IdemInv
<1>7. ASSUME NEW r \in Request, DbError(r) \/ Vanish(r) PROVE IdemInv'
  <2>1. /\ pc[r] \in InBegin \cup InFlight
        /\ \E place \in {"served", "refused", "error", "gone"} : pc' = [pc EXCEPT ![r] = place]
        /\ \A q \in Request : q # r => answer'[q] = answer[q]
        /\ UNCHANGED <<row, lastId, tries, rid, called, ok, failed>>
    BY <1>7 DEF DbError, Vanish, TypeOK
  <2>2. \A q \in Request : /\ q # r => pc'[q] = pc[q]
                          /\ pc'[r] \in {"served", "refused", "error", "gone"}
    BY <2>1 DEF TypeOK
  <2> QED BY <2>1, <2>2 DEF IdemInv, TwoRounds, IdsKnown, HoldersMatch, StoredMatches,
       CompletesOk, BeginCallsNothing, FailedKnown, ReplayFaithful, OneCallPerRecord
<1>8. CASE Tick
  <2>1. /\ UNCHANGED <<lastId, pc, tries, rid, answer, called, ok, failed>> /\ row # NoRow
        /\ row' = [row EXCEPT !.left = @ - 1]
    BY <1>8 DEF Tick, Live
  <2>2. row'.id = row.id /\ row'.fp = row.fp /\ row'.status = row.status /\ row'.resp = row.resp
    BY <1>0, <2>1 DEF Row
  <2> QED BY <2>1, <2>2 DEF IdemInv, TwoRounds, IdsKnown, HoldersMatch, StoredMatches,
       CompletesOk, BeginCallsNothing, FailedKnown, ReplayFaithful, OneCallPerRecord
<1>9. CASE CleanupExpired
  BY <1>9 DEF CleanupExpired, IdemInv, TwoRounds, IdsKnown, HoldersMatch, StoredMatches,
       CompletesOk, BeginCallsNothing, FailedKnown, ReplayFaithful, OneCallPerRecord
<1>10. CASE UNCHANGED vars
  BY <1>10 DEF vars, IdemInv, TwoRounds, IdsKnown, HoldersMatch, StoredMatches,
       CompletesOk, BeginCallsNothing, FailedKnown, ReplayFaithful, OneCallPerRecord
<1> QED
  BY <1>1, <1>2, <1>3, <1>4, <1>5, <1>6, <1>7, <1>8, <1>9, <1>10 DEF Next, Step, Done

\* The types and the invariant together are kept by every step.
LEMMA IdemInductive == TypeOK /\ IdemInv /\ [Next]_vars => (TypeOK /\ IdemInv)'
BY IdemTypeStep, IdemStep DEF IdemInv

\* The state of requests and row keeps its types; begin never goes round a third time.
THEOREM IdempotencyTypes == Spec => []TypeOK
BY IdemInit, IdemInductive, PTL DEF Spec

\* However many requests share a key, whatever fails and whenever rows expire, a replay
\* returns the response of a successful call for the same body.
THEOREM ReplayIsFaithful == Spec => []ReplayFaithful
<1>1. IdemInv => ReplayFaithful
  BY DEF IdemInv
<1> QED BY <1>1, IdemInit, IdemInductive, PTL DEF Spec

\* A record that was never marked failed lets one request through to the upstream.
THEOREM OneCall == Spec => []OneCallPerRecord
<1>1. IdemInv => OneCallPerRecord
  BY DEF IdemInv
<1> QED BY <1>1, IdemInit, IdemInductive, PTL DEF Spec

=============================================================================
