-------------------------- MODULE LogPipelineProofs --------------------------
(***************************************************************************)
(* Proofs about LogPipeline, for every set of events, every queue, batch   *)
(* and file bound and any number of incidents: its types, what the disk    *)
(* keeps, that every event is accounted for and a graceful stop loses      *)
(* nothing that was logged in time, and that it implements the ledger.     *)
(***************************************************************************)
EXTENDS LogPipeline, SequenceTheorems, FiniteSetTheorems, TLAPS

USE DEF NoFile, NotDraining, DrainAttempts

-----------------------------------------------------------------------------
(* Helpers. *)

\* The elements of a sequence, and of a function on positions, are in its range.
LEMMA ElemsType == \A S : \A s \in Seq(S) : Elems(s) \subseteq S
BY DEF Elems

\* The positions of a batch are a finite set, as insert_batch's argument needs.
LEMMA BatchPositions ==
    ASSUME NEW s \in Seq(Event)
    PROVE  IsFiniteSet(DOMAIN s) /\ Elems(s) \subseteq Event
<1>1. DOMAIN s = 1..Len(s) /\ Len(s) \in Nat
  BY LenProperties
<1>2. IsFiniteSet(1..Len(s))
  BY <1>1, FS_Interval
<1> QED BY <1>1, <1>2, ElemsType

\* The batch of one event that a spawned task writes.
LEMMA SingleBatch ==
    ASSUME NEW e \in Event
    PROVE  /\ <<e>> \in Seq(Event) /\ Len(<<e>>) = 1
           /\ IsFiniteSet(DOMAIN <<e>>) /\ Elems(<<e>>) = {e}
<1>1. <<e>> \in Seq(Event) /\ Len(<<e>>) = 1
  OBVIOUS
<1>2. IsFiniteSet(DOMAIN <<e>>)
  BY <1>1, BatchPositions
<1>3. Elems(<<e>>) = {e}
  BY DEF Elems
<1> QED BY <1>1, <1>2, <1>3

\* Lines of a batch are well-formed pieces, one for each event.
LEMMA LinesType ==
    ASSUME NEW evs \in Seq(Event)
    PROVE  /\ Lines(evs) \in Seq(Piece)
           /\ Len(Lines(evs)) = Len(evs)
           /\ \A i \in 1..Len(evs) : Lines(evs)[i] = [ev |-> evs[i], nl |-> TRUE]
<1> DEFINE n == Len(evs)
<1>1. n \in Nat /\ evs \in [1..n -> Event]
  BY LenProperties
<1>2. Lines(evs) = [i \in 1..n |-> [ev |-> evs[i], nl |-> TRUE]]
  BY <1>1 DEF Lines
<1>3. \A i \in 1..n : [ev |-> evs[i], nl |-> TRUE] \in Piece
  BY <1>1 DEF Piece
<1>4. Lines(evs) \in [1..n -> Piece]
  BY <1>2, <1>3
<1>5. Lines(evs) \in Seq(Piece) /\ Len(Lines(evs)) = n
  BY <1>1, <1>4, SeqDef, LenProperties
<1> QED BY <1>2, <1>5

\* A committed batch keeps the types of the tables.
LEMMA CommitType ==
    ASSUME NEW evs, Elems(evs) \subseteq Event, IsFiniteSet(DOMAIN evs),
           rows \subseteq Event, agg \in [Event -> Nat], Commit(evs)
    PROVE  rows' \subseteq Event /\ agg' \in [Event -> Nat]
<1>1. \A e \in Event : Copies(evs, e) \in Nat
  BY FS_Subset, FS_CardinalityType DEF Copies
<1> QED BY <1>1 DEF Commit

\* What a partial write leaves in a file is a sequence of pieces.
LEMMA CutType ==
    ASSUME NEW evs \in Seq(Event), NEW fragment \in {Torn, TornUtf8},
           NEW w \in CutWrites(evs, fragment)
    PROVE  w \in Seq(Piece)
<1> DEFINE whole(k) == SubSeq(Lines(evs), 1, k)
<1>1. Lines(evs) \in Seq(Piece) /\ Len(Lines(evs)) = Len(evs) /\ Len(evs) \in Nat
  BY LinesType, LenProperties
<1>2. ASSUME NEW k \in 0..Len(evs)
      PROVE  whole(k) \in Seq(Piece)
  <2>1. \A i \in 1..k : Lines(evs)[i] \in Piece
    BY <1>1, ElementOfSeq
  <2> QED BY <2>1, SubSeqProperties
<1>3. [ev |-> fragment, nl |-> FALSE] \in Piece
  BY DEF Piece
<1>4. ASSUME NEW k \in 1..Len(evs)
      PROVE  [ev |-> evs[k], nl |-> FALSE] \in Piece
  BY ElementOfSeq DEF Piece
<1>5. CASE w \in {whole(k) : k \in 0..(Len(evs) - 1)}
  BY <1>1, <1>2, <1>5
<1>6. CASE w \in {Append(whole(k), [ev |-> fragment, nl |-> FALSE]) : k \in 0..(Len(evs) - 1)}
  <2>1. PICK k \in 0..(Len(evs) - 1) : w = Append(whole(k), [ev |-> fragment, nl |-> FALSE])
    BY <1>6
  <2>2. whole(k) \in Seq(Piece)
    BY <1>1, <1>2
  <2> HIDE DEF whole
  <2> QED BY <2>1, <2>2, <1>3
<1>7. CASE w \in {Append(whole(k - 1), [ev |-> evs[k], nl |-> FALSE]) : k \in 1..Len(evs)}
  <2>1. PICK k \in 1..Len(evs) : w = Append(whole(k - 1), [ev |-> evs[k], nl |-> FALSE])
    BY <1>7
  <2>2. whole(k - 1) \in Seq(Piece)
    BY <1>1, <1>2
  <2> HIDE DEF whole
  <2> QED BY <2>1, <2>2, <1>4
<1> QED BY <1>5, <1>6, <1>7 DEF CutWrites

-----------------------------------------------------------------------------
(* Type correctness. *)

\* An incident uses up one of finitely many.
LEMMA IncidentType == \A k : TypeOK /\ Incident(k) => incidents' \in Nat
BY DEF Incident, TypeOK

\* The part of TypeOK that append can disturb.
WalType ==
    /\ cur \in 0..MaxFiles /\ curSize \in Nat /\ seq \in 0..MaxFiles
    /\ file \in [FileId -> Seq(Piece)]
    /\ fstate \in [FileId -> {"absent", "live", "archived", "deleted"}]
    /\ acked \subseteq Event
    /\ incidents \in Nat

\* A successful append keeps the types of the WAL.
LEMMA AppendOkType ==
    ASSUME NEW evs \in Seq(Event), WalType, AppendOk(evs)
    PROVE  WalType'
<1> DEFINE f == IF NeedNew(evs) THEN seq + 1 ELSE cur
<1>1. f \in FileId /\ file' = [file EXCEPT ![f] = @ \o Lines(evs)]
      /\ fstate' = [fstate EXCEPT ![f] = "live"] /\ cur' = f
      /\ curSize' = (IF NeedNew(evs) THEN Len(evs) ELSE curSize + Len(evs))
      /\ seq' = (IF NeedNew(evs) THEN seq + 1 ELSE seq)
      /\ acked' = acked \cup Elems(evs) /\ incidents' = incidents
  BY DEF AppendOk
<1>2. file[f] \o Lines(evs) \in Seq(Piece)
  BY <1>1, LinesType, ConcatProperties DEF WalType
<1>3. Len(evs) \in Nat /\ Elems(evs) \subseteq Event
  BY LenProperties, ElemsType
<1>4. seq' \in 0..MaxFiles
  BY <1>1, BoundAssumption DEF WalType, FileId
<1> HIDE DEF f
<1> QED BY <1>1, <1>2, <1>3, <1>4, BoundAssumption DEF WalType, FileId

\* A failed append keeps the types of the WAL.
LEMMA AppendErrType ==
    ASSUME NEW evs \in Seq(Event), WalType, AppendErr(evs)
    PROVE  WalType'
<1>1. ASSUME NEW w \in Seq(Piece), AppendLeaves(evs, w), incidents' \in Nat
      PROVE  WalType'
  <2> DEFINE f == IF NeedNew(evs) THEN seq + 1 ELSE cur
  <2>1. f \in FileId /\ file' = [file EXCEPT ![f] = @ \o w]
        /\ fstate' = [fstate EXCEPT ![f] = "live"]
        /\ seq' = (IF NeedNew(evs) THEN seq + 1 ELSE seq)
        /\ cur' = cur /\ curSize' = curSize /\ acked' = acked
    BY <1>1 DEF AppendLeaves
  <2>2. file[f] \o w \in Seq(Piece)
    BY <2>1, ConcatProperties DEF WalType
  <2>3. seq' \in 0..MaxFiles
    BY <2>1, BoundAssumption DEF WalType, FileId
  <2> HIDE DEF f
  <2> QED BY <1>1, <2>1, <2>2, <2>3 DEF WalType
<1>2. \A k : Incident(k) => incidents' \in Nat
  BY DEF Incident, WalType
<1>3. Lines(evs) \in Seq(Piece)
  BY LinesType
<1> QED BY <1>1, <1>2, <1>3, CutType DEF AppendErr, walVars, WalType

\* A transaction keeps the types of the tables, whatever its outcome.
LEMMA InsertType ==
    ASSUME NEW evs, Elems(evs) \subseteq Event, IsFiniteSet(DOMAIN evs), TypeOK,
           InsertOk(evs) \/ InsertErr(evs)
    PROVE  /\ rows' \subseteq Event /\ agg' \in [Event -> Nat] /\ gone' \subseteq Event
           /\ incidents' \in Nat
<1>1. rows \subseteq Event /\ agg \in [Event -> Nat] /\ gone \subseteq Event /\ incidents \in Nat
  BY DEF TypeOK
<1>2. /\ Commit(evs) \/ (rows' = rows /\ agg' = agg)
      /\ gone' = gone
      /\ incidents' = incidents \/ (incidents > 0 /\ incidents' = incidents - 1)
  BY DEF InsertOk, InsertErr, Incident, dbVars
<1> QED BY <1>1, <1>2, CommitType

USE DEF FileId, sinkVars, writerVars, walVars, replayVars, tables, dbVars

\* Every step of the pipeline keeps TypeOK.
LEMMA TypeStep == TypeOK /\ [Next]_vars => TypeOK'
<1> SUFFICES ASSUME TypeOK, [Next]_vars PROVE TypeOK'
  OBVIOUS
<1>0. /\ IsFiniteSet(DOMAIN batch) /\ Elems(batch) \subseteq Event
      /\ Elems(queue) \subseteq Event
      /\ <<>> \in Seq(Event) /\ Len(<<>>) = 0 /\ QueueCap \in Nat
  BY BatchPositions, EmptySeq, BoundAssumption DEF TypeOK
<1>1. ASSUME NEW e \in Event, Log(e) PROVE TypeOK'
  <2>1. Append(queue, e) \in Seq(Event) /\ Len(Append(queue, e)) = Len(queue) + 1
        /\ Len(queue) \in Nat
    BY DEF TypeOK
  <2>2. queue' \in Seq(Event) /\ Len(queue') <= QueueCap
    <3>1. queue' = queue \/ (queue' = Append(queue, e) /\ Len(queue) < QueueCap)
      BY <1>1 DEF Log
    <3>2. queue \in Seq(Event) /\ Len(queue) <= QueueCap
      BY DEF TypeOK
    <3> QED BY <1>0, <2>1, <3>1, <3>2
  <2>3. task' \in [Event -> {"none", "insert", "append", "done"}]
    BY <1>1 DEF Log, TypeOK
  <2>4. logged' \subseteq Event /\ late' \subseteq Event
    BY <1>1 DEF Log, TypeOK
  <2> QED BY <1>1, <2>2, <2>3, <2>4 DEF Log, TypeOK
<1>2. ASSUME NEW e \in Event, TaskInsert(e) PROVE TypeOK'
  <2>1. <<e>> \in Seq(Event) /\ IsFiniteSet(DOMAIN <<e>>) /\ Elems(<<e>>) \subseteq Event
    BY SingleBatch
  <2>2. InsertOk(<<e>>) \/ InsertErr(<<e>>)
    BY <1>2 DEF TaskInsert
  <2> HIDE DEF tables, dbVars
  <2> QED BY <1>2, <2>1, <2>2, InsertType DEF TaskInsert, TypeOK
<1>3. ASSUME NEW e \in Event, TaskAppend(e) PROVE TypeOK'
  <2>1. <<e>> \in Seq(Event) /\ WalType
    BY DEF TypeOK, WalType
  <2>2. WalType'
    BY <1>3, <2>1, AppendOkType, AppendErrType DEF TaskAppend
  <2> QED BY <1>3, <2>2 DEF TaskAppend, TypeOK, WalType
<1>4. ASSUME NEW e \in Event, DropPartition(e) PROVE TypeOK'
  BY <1>4 DEF DropPartition, Incident, TypeOK
<1>5. CASE WriterRecv
  <2>1. Head(queue) \in Event /\ Tail(queue) \in Seq(Event) /\ Len(Tail(queue)) = Len(queue) - 1
    BY <1>5, HeadTailProperties DEF WriterRecv, TypeOK
  <2>2. Len(queue) \in Nat
    BY LenProperties DEF TypeOK
  <2> QED BY <1>5, <2>1, <2>2, BoundAssumption DEF WriterRecv, TypeOK
<1>6. CASE WriterTimer
  BY <1>6 DEF WriterTimer, TypeOK
<1>7. CASE WriterClosed
  BY <1>7 DEF WriterClosed, TypeOK
<1>8. CASE FlushInsert
  <2>1. InsertOk(batch) \/ InsertErr(batch)
    BY <1>8 DEF FlushInsert
  <2>2. batch' \in Seq(Event) /\ wpc' \in {"recv", "drain", "append"}
    BY <1>0, <1>8 DEF FlushInsert, AfterFlush, TypeOK
  <2> HIDE DEF tables, dbVars
  <2> QED BY <1>0, <1>8, <2>1, <2>2, InsertType DEF FlushInsert, TypeOK
<1>9. CASE FlushAppend
  <2>1. WalType /\ batch \in Seq(Event)
    BY DEF TypeOK, WalType
  <2>2. WalType'
    BY <1>9, <2>1, AppendOkType, AppendErrType DEF FlushAppend
  <2>3. batch' \in Seq(Event)
    BY <1>0, <1>9 DEF FlushAppend, TypeOK
  <2> QED BY <1>9, <2>2, <2>3 DEF FlushAppend, TypeOK, WalType
<1>10. CASE FlushWake
  BY <1>10 DEF FlushWake, AfterFlush, TypeOK
<1>11. CASE WriterDrain
  <2>1. batch' \in Seq(Event) /\ dropped' \subseteq Event
    BY <1>0, <1>11 DEF WriterDrain, TypeOK
  <2>3. drains' \in NotDraining..DrainAttempts
    BY <1>11 DEF WriterDrain, TypeOK
  <2>2. wpc' \in {"insert", "exited"}
    BY <1>11 DEF WriterDrain
  <2> QED BY <1>11, <2>1, <2>2, <2>3 DEF WriterDrain, TypeOK
<1>12. CASE ReplayList
  BY <1>12 DEF ReplayList, TypeOK
<1>13. ASSUME NEW f \in FileId, ReplayStat(f) PROVE TypeOK'
  <2>1. Len(file[f]) \in Nat
    BY LenProperties DEF TypeOK
  <2> QED BY <1>13, <2>1, BoundAssumption DEF ReplayStat, TypeOK
<1>14. CASE ReplayRead
  <2>1. rfile \in FileId /\ Len(file[rfile]) \in Nat
    BY <1>14, LenProperties DEF ReplayRead, TypeOK
  <2> QED BY <1>14, <2>1 DEF ReplayRead, TypeOK
<1>15. CASE ReplayInsert
  <2> DEFINE evs == [i \in Chunk |-> file[rfile][i].ev]
  <2>1. rfile \in FileId /\ Chunk \subseteq 1..rn /\ rn \in Nat
    BY <1>15 DEF ReplayInsert, TypeOK, Chunk, Left, Decodable
  <2>2. IsFiniteSet(Chunk)
    <3>1. IsFiniteSet(1..rn)
      BY <2>1, FS_Interval
    <3> QED BY <2>1, <3>1, FS_Subset
  <2>3. \A i \in Chunk : file[rfile][i].ev \in Event
    BY DEF Chunk, Left, Decodable
  <2>4. IsFiniteSet(DOMAIN evs) /\ Elems(evs) \subseteq Event
    BY <2>2, <2>3 DEF Elems
  <2>5. (InsertOk(evs) \/ InsertErr(evs)) /\ rpc' \in {"scan", "insert"}
        /\ (rpos' = rpos \/ rpos' \in Chunk)
    BY <1>15 DEF ReplayInsert
  <2>6. rpos' \in Nat
    <3>1. rpos' \in 1..rn \/ rpos' = rpos
      BY <2>1, <2>5
    <3> QED BY <2>1, <3>1 DEF TypeOK
  <2>7. /\ rows' \subseteq Event /\ agg' \in [Event -> Nat] /\ gone' \subseteq Event
        /\ incidents' \in Nat
    <3> HIDE DEF evs
    <3> QED BY <2>4, <2>5, InsertType
  <2>8. UNCHANGED <<phase, sinkVars, waited, writerVars, walVars, rtodo, rfile, rlen, rn,
                    logged, late, acked, dropped, lost>>
    BY <1>15 DEF ReplayInsert
  <2> QED BY <2>1, <2>5, <2>6, <2>7, <2>8 DEF TypeOK
<1>16. CASE ReplayArchive
  BY <1>16 DEF ReplayArchive, TypeOK
<1>17. CASE ReplayDone
  <2>1. fstate' \in [FileId -> {"absent", "live", "archived", "deleted"}]
    BY <1>17 DEF ReplayDone, TypeOK
  <2>2. phase' \in Phases /\ sender' \in {"open", "none"} /\ wpc' \in {"recv", "exited", wpc}
    BY <1>17, BoundAssumption DEF ReplayDone, TypeOK, Phases
  <2> QED BY <1>17, <2>1, <2>2 DEF ReplayDone, TypeOK
<1>18. CASE Signal
  BY <1>18 DEF Signal, TypeOK, Phases
<1>19. CASE DrainEnd
  BY <1>19 DEF DrainEnd, TaskEvents, TypeOK, Phases
<1>20. CASE WaitEnd
  BY <1>20 DEF WaitEnd, TypeOK, Phases
<1>21. ASSUME ProcessEnds, incidents' \in Nat PROVE TypeOK'
  <2>1. lost' \subseteq Event /\ queue' \in Seq(Event) /\ batch' \in Seq(Event)
        /\ Len(queue') <= QueueCap
    BY <1>0, <1>21 DEF ProcessEnds, Volatile, TaskEvents, TypeOK
  <2> QED BY <1>21, <2>1, BoundAssumption DEF ProcessEnds, TypeOK, Phases
<1>22. CASE JoinEnd
  BY <1>21, <1>22 DEF JoinEnd, TypeOK
<1>23. CASE JoinTimeout
  BY <1>21, <1>23, IncidentType DEF JoinTimeout
<1>24. CASE Crash
  BY <1>21, <1>24, IncidentType DEF Crash
<1>25. CASE Start
  BY <1>25 DEF Start, TypeOK, Phases
<1>26. CASE UNCHANGED vars
  BY <1>26 DEF vars, TypeOK
<1> QED
  BY <1>1, <1>2, <1>3, <1>4, <1>5, <1>6, <1>7, <1>8, <1>9, <1>10, <1>11, <1>12, <1>13,
     <1>14, <1>15, <1>16, <1>17, <1>18, <1>19, <1>20, <1>22, <1>23, <1>24, <1>25, <1>26
  DEF Next, Task, Writer, Replay, Process

\* The initial state is well typed.
LEMMA TypeInit == Init => TypeOK
BY EmptySeq, BoundAssumption DEF Init, TypeOK, Phases, FileId

\* The state of the pipeline keeps its types: in particular the channel never holds more
\* than its capacity and the replay only ever works on a file that exists.
THEOREM TypeCorrect == Spec => []TypeOK
BY TypeInit, TypeStep, PTL DEF Spec

-----------------------------------------------------------------------------
(* Acknowledged events stay recoverable when a failing write leaves nothing behind. *)

HIDE DEF FileId

\* write_all either writes and syncs everything or fails before the first byte.
CleanWrites == Faults \cap {"torn", "tornutf8", "fsync"} = {}

\* The first n events of file f have rows.
Stored(f, n) == \A i \in 1..n : file[f][i].ev \in rows

\* Every piece of every file is a whole line.
WholeLines == \A f \in FileId : \A i \in 1..Len(file[f]) :
    file[f][i].ev \in Event /\ file[f][i].nl = TRUE

\* File names are used in order, and the active file is a live one.
NamesInOrder ==
    /\ cur <= seq
    /\ \A f \in FileId : f > seq => fstate[f] = "absent"
    /\ \A f \in FileId : fstate[f] = "absent" => file[f] = <<>>
    /\ cur # NoFile => fstate[cur] = "live"

\* What leaves the set of replayed files is in the database.
ArchivedStored == \A f \in FileId :
    fstate[f] \in {"archived", "deleted"} => Stored(f, Len(file[f]))

\* The replay works on live files, its length was taken before its read, and what it has
\* passed is in the database.
ReplayTracks ==
    /\ \A f \in rtodo : fstate[f] = "live"
    /\ rpc \in {"read", "insert"} => /\ fstate[rfile] = "live" /\ rfile \notin rtodo
                                     /\ rlen <= Len(file[rfile])
    /\ rpc = "insert" => /\ rlen <= rn /\ rn <= Len(file[rfile])
                         /\ rpos <= rn /\ Stored(rfile, rpos)

\* An acknowledged event has a row or stands in a live file.
AckedHeld == \A e \in acked :
    \/ e \in rows
    \/ \E f \in FileId : fstate[f] = "live" /\ \E i \in 1..Len(file[f]) : file[f][i].ev = e

DurInv == WholeLines /\ NamesInOrder /\ ArchivedStored /\ ReplayTracks /\ AckedHeld

\* Without partial writes a failing append changes nothing.
LEMMA CleanAppendErr ==
    ASSUME CleanWrites, NEW evs, AppendErr(evs)
    PROVE  UNCHANGED <<walVars, acked>>
BY DEF CleanWrites, AppendErr, Incident

\* More rows never hurt: a commit that leaves WAL and replay alone keeps the invariant.
LEMMA DurMoreRows ==
    ASSUME DurInv, rows \subseteq rows', UNCHANGED <<walVars, replayVars, acked>>
    PROVE  DurInv'
BY DEF DurInv, WholeLines, NamesInOrder, ArchivedStored, ReplayTracks, AckedHeld, Stored

\* What a concatenation holds, and where.
LEMMA ConcatPieces ==
    ASSUME NEW a \in Seq(Piece), NEW b \in Seq(Piece)
    PROVE  /\ Len(a) \in Nat /\ Len(b) \in Nat
           /\ Len(a \o b) = Len(a) + Len(b)
           /\ \A i \in 1..Len(a) : (a \o b)[i] = a[i]
           /\ \A j \in 1..Len(b) : (a \o b)[Len(a) + j] = b[j]
           /\ \A i \in 1..Len(a \o b) :
                  i \in 1..Len(a) \/ \E j \in 1..Len(b) : i = Len(a) + j
<1>1. Len(a) \in Nat /\ Len(b) \in Nat
  BY LenProperties
<1>2. Len(a \o b) = Len(a) + Len(b)
  BY ConcatProperties
<1>3. \A i \in 1..(Len(a) + Len(b)) : (a \o b)[i] = IF i <= Len(a) THEN a[i] ELSE b[i - Len(a)]
  BY ConcatProperties
<1>4. \A i \in 1..Len(a) : (a \o b)[i] = a[i]
  BY <1>1, <1>3
<1>5. ASSUME NEW j \in 1..Len(b) PROVE (a \o b)[Len(a) + j] = b[j]
  <2>1. Len(a) + j \in 1..(Len(a) + Len(b)) /\ ~(Len(a) + j <= Len(a))
        /\ (Len(a) + j) - Len(a) = j
    BY <1>1
  <2> QED BY <1>3, <2>1
<1>6. ASSUME NEW i \in 1..(Len(a) + Len(b)), i \notin 1..Len(a)
      PROVE  \E j \in 1..Len(b) : i = Len(a) + j
  <2>1. i - Len(a) \in 1..Len(b) /\ i = Len(a) + (i - Len(a))
    BY <1>1, <1>6
  <2> QED BY <2>1
<1> QED BY <1>1, <1>2, <1>4, <1>5, <1>6

\* How an append changes the files: f grows by the lines of evs, the others stay.
Grown(f, evs) ==
    /\ \A g \in FileId : /\ Len(file[g]) \in Nat /\ Len(file'[g]) \in Nat
                         /\ Len(file[g]) <= Len(file'[g])
                         /\ \A i \in 1..Len(file[g]) : file'[g][i] = file[g][i]
                         /\ g # f => file'[g] = file[g] /\ fstate'[g] = fstate[g]
    /\ \A j \in 1..Len(evs) :
          /\ Len(file[f]) + j \in 1..Len(file'[f])
          /\ file'[f][Len(file[f]) + j] = [ev |-> evs[j], nl |-> TRUE]
          /\ evs[j] \in Event
    /\ \A i \in 1..Len(file'[f]) :
          i \in 1..Len(file[f]) \/ \E j \in 1..Len(evs) : i = Len(file[f]) + j
    /\ fstate[f] \in {"live", "absent"} /\ fstate'[f] = "live"

\* A successful append grows the active file, or a new one when it rolls.
LEMMA AppendGrows ==
    ASSUME TypeOK, NamesInOrder, NEW evs \in Seq(Event), AppendOk(evs)
    PROVE  \E f \in FileId :
              /\ Grown(f, evs)
              /\ cur' = f /\ seq <= seq' /\ f <= seq' /\ seq' \in Nat
              /\ acked' = acked \cup Elems(evs)
<1>1. PICK f \in FileId :
      /\ f = (IF NeedNew(evs) THEN seq + 1 ELSE cur)
      /\ file' = [file EXCEPT ![f] = @ \o Lines(evs)]
      /\ fstate' = [fstate EXCEPT ![f] = "live"] /\ cur' = f
      /\ seq' = (IF NeedNew(evs) THEN seq + 1 ELSE seq)
      /\ acked' = acked \cup Elems(evs)
  BY DEF AppendOk
<1>2. seq \in Nat /\ cur \in Nat /\ cur <= seq
  BY BoundAssumption DEF TypeOK, NamesInOrder
<1>3. seq <= seq' /\ f <= seq' /\ seq' \in Nat
  BY <1>1, <1>2
<1>4. fstate[f] \in {"live", "absent"}
  <2>1. CASE NeedNew(evs)
    <3>1. f = seq + 1
      BY <1>1, <2>1
    <3>2. f > seq
      BY <1>2, <3>1
    <3> QED BY <3>2 DEF NamesInOrder
  <2>2. CASE ~NeedNew(evs)
    <3>1. cur # NoFile /\ f = cur
      BY <1>1, <2>2 DEF NeedNew
    <3> QED BY <3>1 DEF NamesInOrder
  <2> QED BY <2>1, <2>2
<1>5. file \in [FileId -> Seq(Piece)] /\ fstate \in [FileId -> {"absent", "live", "archived", "deleted"}]
  BY DEF TypeOK
<1>6. /\ Lines(evs) \in Seq(Piece) /\ Len(Lines(evs)) = Len(evs) /\ Len(evs) \in Nat
      /\ \A j \in 1..Len(evs) : Lines(evs)[j] = [ev |-> evs[j], nl |-> TRUE] /\ evs[j] \in Event
  BY LinesType, LenProperties, ElementOfSeq
<1>7. file'[f] = file[f] \o Lines(evs) /\ fstate'[f] = "live" /\ file[f] \in Seq(Piece)
  BY <1>1, <1>5
<1>8. \A g \in FileId : g # f => file'[g] = file[g] /\ fstate'[g] = fstate[g]
  BY <1>1, <1>5
<1>9. /\ Len(file[f]) \in Nat /\ Len(file'[f]) = Len(file[f]) + Len(evs)
      /\ \A i \in 1..Len(file[f]) : file'[f][i] = file[f][i]
      /\ \A j \in 1..Len(evs) : file'[f][Len(file[f]) + j] = Lines(evs)[j]
      /\ \A i \in 1..Len(file'[f]) :
            i \in 1..Len(file[f]) \/ \E j \in 1..Len(evs) : i = Len(file[f]) + j
  <2> DEFINE a == file[f]
             b == Lines(evs)
  <2>1. a \in Seq(Piece) /\ b \in Seq(Piece) /\ file'[f] = a \o b
    BY <1>6, <1>7
  <2>2. Len(b) = Len(evs)
    BY <1>6
  <2> HIDE DEF a, b
  <2>3. /\ Len(a) \in Nat /\ Len(b) \in Nat
        /\ Len(a \o b) = Len(a) + Len(b)
        /\ \A i \in 1..Len(a) : (a \o b)[i] = a[i]
        /\ \A j \in 1..Len(b) : (a \o b)[Len(a) + j] = b[j]
        /\ \A i \in 1..Len(a \o b) :
              i \in 1..Len(a) \/ \E j \in 1..Len(b) : i = Len(a) + j
    BY <2>1, ConcatPieces
  <2>4. /\ Len(a) \in Nat /\ Len(file'[f]) = Len(a) + Len(evs)
        /\ \A i \in 1..Len(a) : file'[f][i] = a[i]
        /\ \A j \in 1..Len(evs) : file'[f][Len(a) + j] = b[j]
        /\ \A i \in 1..Len(file'[f]) :
              i \in 1..Len(a) \/ \E j \in 1..Len(evs) : i = Len(a) + j
    BY <2>1, <2>2, <2>3
  <2> QED BY <2>4 DEF a, b
<1>10. \A g \in FileId : Len(file[g]) \in Nat
  BY <1>5, LenProperties
<1>11. Len(file'[f]) \in Nat /\ Len(file[f]) <= Len(file'[f])
       /\ \A j \in 1..Len(evs) : Len(file[f]) + j \in 1..Len(file'[f])
  BY <1>6, <1>9
<1>12. Grown(f, evs)
  <2>1. ASSUME NEW g \in FileId
        PROVE  /\ Len(file[g]) \in Nat /\ Len(file'[g]) \in Nat
               /\ Len(file[g]) <= Len(file'[g])
               /\ \A i \in 1..Len(file[g]) : file'[g][i] = file[g][i]
    <3>1. CASE g = f
      BY <1>9, <1>11, <3>1
    <3>2. CASE g # f
      <4>1. file'[g] = file[g] /\ Len(file[g]) \in Nat
        BY <1>8, <1>10, <3>2
      <4> QED BY <4>1
    <3> QED BY <3>1, <3>2
  <2> QED BY <1>4, <1>6, <1>7, <1>8, <1>9, <1>11, <2>1 DEF Grown
<1> QED BY <1>1, <1>3, <1>12

\* A successful append keeps the invariant.
LEMMA DurAppend ==
    ASSUME TypeOK, DurInv, NEW evs \in Seq(Event), AppendOk(evs),
           UNCHANGED <<replayVars, rows>>
    PROVE  DurInv'
<1>1. PICK f \in FileId :
         /\ Grown(f, evs)
         /\ cur' = f /\ seq <= seq' /\ f <= seq' /\ seq' \in Nat
         /\ acked' = acked \cup Elems(evs)
  BY AppendGrows DEF DurInv
<1>6. \A g \in FileId : fstate[g] = "live" => fstate'[g] = "live"
  BY <1>1 DEF Grown
<1>7. WholeLines'
  <2> SUFFICES ASSUME NEW g \in FileId, NEW i \in 1..Len(file'[g])
               PROVE  file'[g][i].ev \in Event /\ file'[g][i].nl = TRUE
    BY DEF WholeLines
  <2>1. CASE g # f
    BY <1>1, <2>1 DEF DurInv, WholeLines, Grown
  <2>2. CASE g = f /\ i \in 1..Len(file[f])
    BY <1>1, <2>2 DEF DurInv, WholeLines, Grown
  <2>3. CASE g = f /\ \E j \in 1..Len(evs) : i = Len(file[f]) + j
    <3>1. PICK j \in 1..Len(evs) : i = Len(file[f]) + j
      BY <2>3
    <3>2. file'[f][Len(file[f]) + j] = [ev |-> evs[j], nl |-> TRUE] /\ evs[j] \in Event
      BY <1>1 DEF Grown
    <3> QED BY <2>3, <3>1, <3>2
  <2> QED BY <1>1, <2>1, <2>2, <2>3 DEF Grown
<1>8. NamesInOrder'
  <2>1. \A g \in FileId : g > seq' => g # f /\ g > seq
    BY <1>1, BoundAssumption DEF TypeOK, FileId
  <2>2. \A g \in FileId : g > seq' => fstate'[g] = "absent"
    BY <1>1, <2>1 DEF Grown, DurInv, NamesInOrder
  <2>3. \A g \in FileId : fstate'[g] = "absent" => file'[g] = <<>>
    BY <1>1 DEF Grown, DurInv, NamesInOrder
  <2>4. fstate'[cur'] = "live" /\ cur' <= seq'
    BY <1>1 DEF Grown
  <2> QED BY <2>2, <2>3, <2>4 DEF NamesInOrder
<1>9. ArchivedStored'
  BY <1>1 DEF Grown, DurInv, ArchivedStored, Stored
<1>10. ReplayTracks'
  <2>1. \A g \in rtodo' : fstate'[g] = "live"
    <3>1. rtodo' = rtodo /\ rtodo \subseteq FileId
      BY DEF TypeOK
    <3> QED BY <1>6, <3>1 DEF DurInv, ReplayTracks
  <2>2. rpc' = rpc /\ rfile' = rfile /\ rlen' = rlen /\ rn' = rn /\ rpos' = rpos /\ rows' = rows
    OBVIOUS
  <2>3. ASSUME rpc \in {"read", "insert"}
        PROVE  fstate'[rfile] = "live" /\ rlen <= Len(file'[rfile])
    <3>1. rfile \in FileId /\ rlen \in Nat
      BY <2>3 DEF TypeOK
    <3>2. fstate[rfile] = "live" /\ rlen <= Len(file[rfile])
      BY <2>3 DEF DurInv, ReplayTracks
    <3>3. Len(file[rfile]) <= Len(file'[rfile]) /\ Len(file[rfile]) \in Nat
          /\ Len(file'[rfile]) \in Nat
      BY <1>1, <3>1 DEF Grown
    <3> QED BY <1>6, <3>1, <3>2, <3>3
  <2>5. rpc \in {"read", "insert"} => rfile' \notin rtodo'
    BY DEF DurInv, ReplayTracks
  <2>4. ASSUME rpc = "insert"
        PROVE  rlen <= rn /\ rn <= Len(file'[rfile]) /\ rpos <= rn /\ Stored(rfile, rpos)'
    <3>1. rfile \in FileId /\ rn \in Nat /\ rpos \in Nat
      BY <2>4 DEF TypeOK
    <3>2. rn <= Len(file[rfile]) /\ rpos <= rn /\ Stored(rfile, rpos) /\ rlen <= rn
      BY <2>4 DEF DurInv, ReplayTracks
    <3>3. /\ Len(file[rfile]) <= Len(file'[rfile]) /\ Len(file[rfile]) \in Nat
          /\ Len(file'[rfile]) \in Nat
          /\ \A i \in 1..Len(file[rfile]) : file'[rfile][i] = file[rfile][i]
      BY <1>1, <3>1 DEF Grown
    <3>4. rn <= Len(file'[rfile]) /\ \A i \in 1..rpos : i \in 1..Len(file[rfile])
      BY <3>1, <3>2, <3>3
    <3>5. \A i \in 1..rpos : file'[rfile][i].ev \in rows
      BY <3>2, <3>3, <3>4 DEF Stored
    <3> QED BY <2>2, <3>2, <3>4, <3>5 DEF Stored
  <2> QED BY <2>1, <2>2, <2>3, <2>4, <2>5 DEF ReplayTracks
<1>11. AckedHeld'
  <2> SUFFICES ASSUME NEW e \in acked'
               PROVE  \/ e \in rows'
                      \/ \E g \in FileId : fstate'[g] = "live" /\
                            \E i \in 1..Len(file'[g]) : file'[g][i].ev = e
    BY DEF AckedHeld
  <2>1. CASE e \in acked /\ e \notin rows
    <3>1. PICK g \in FileId : fstate[g] = "live" /\
                \E i \in 1..Len(file[g]) : file[g][i].ev = e
      BY <2>1 DEF DurInv, AckedHeld
    <3>2. PICK i \in 1..Len(file[g]) : file[g][i].ev = e
      BY <3>1
    <3>3. /\ Len(file'[g]) \in Nat /\ Len(file[g]) \in Nat /\ Len(file[g]) <= Len(file'[g])
          /\ file'[g][i] = file[g][i] /\ fstate'[g] = "live"
      BY <1>1, <1>6, <3>1 DEF Grown
    <3>4. i \in 1..Len(file'[g])
      BY <3>3
    <3> QED BY <3>2, <3>3, <3>4
  <2>2. CASE e \in Elems(evs)
    <3>1. PICK k \in 1..Len(evs) : e = evs[k]
      BY <2>2, LenProperties DEF Elems
    <3>2. /\ file'[f][Len(file[f]) + k] = [ev |-> evs[k], nl |-> TRUE]
          /\ fstate'[f] = "live"
          /\ Len(file[f]) + k \in 1..Len(file'[f])
      BY <1>1 DEF Grown
    <3>3. file'[f][Len(file[f]) + k].ev = e
      BY <3>1, <3>2
    <3> QED BY <3>2, <3>3
  <2> QED BY <1>1, <2>1, <2>2
<1> QED BY <1>7, <1>8, <1>9, <1>10, <1>11 DEF DurInv

\* Where every piece is a whole line, decoding finds all of them.
LEMMA AllDecodable ==
    ASSUME TypeOK, WholeLines, NEW f \in FileId, NEW n \in 0..Len(file[f])
    PROVE  Decodable(file[f], n) = 1..n /\ Readable(file[f], n)
<1>1. Len(file[f]) \in Nat
  BY LenProperties DEF TypeOK
<1>2. \A i \in 1..n : i \in 1..Len(file[f]) /\ (i > 1 => i - 1 \in 1..Len(file[f]))
  BY <1>1
<1>3. \A i \in 1..n : /\ file[f][i].ev \in Event /\ file[f][i].nl = TRUE
                      /\ i > 1 => file[f][i - 1].nl = TRUE
  BY <1>2 DEF WholeLines
<1>4. ASSUME NEW i \in 1..n
      PROVE  /\ file[f][i].ev \in Event
             /\ i > 1 => file[f][i - 1].nl
             /\ i < n => file[f][i].nl
             /\ file[f][i].ev # TornUtf8
  <2>1. file[f][i].ev \in Event /\ file[f][i].nl = TRUE /\ (i > 1 => file[f][i - 1].nl = TRUE)
    BY <1>3
  <2>2. file[f][i].nl
    BY <2>1
  <2>3. ASSUME i > 1 PROVE file[f][i - 1].nl
    <3>1. file[f][i - 1].nl = TRUE
      BY <2>1, <2>3
    <3> QED BY <3>1
  <2>4. file[f][i].ev # TornUtf8
    BY <2>1, EventAssumption
  <2> QED BY <2>1, <2>2, <2>3, <2>4, Zenon
<1>5. Decodable(file[f], n) = 1..n
  BY <1>4, Zenon DEF Decodable
<1>6. Readable(file[f], n)
  BY <1>4, Zenon DEF Readable
<1> QED BY <1>5, <1>6

\* A chunk is the beginning of what is left: everything before a member is a member.
LEMMA ChunkIsPrefix ==
    ASSUME IsFiniteSet(Left), Left \subseteq Nat, NEW m \in Chunk, NEW i \in Left, i <= m
    PROVE  i \in Chunk
<1> DEFINE below(k) == {j \in Left : j < k}
<1>1. m \in Left /\ Cardinality(below(m)) < BatchMax
  BY DEF Chunk
<1>2. below(i) \subseteq below(m)
  <2>1. i \in Nat /\ m \in Nat
    BY <1>1
  <2>2. ASSUME NEW j \in Left, j < i PROVE j < m
    <3>1. j \in Nat
      OBVIOUS
    <3> QED BY <2>1, <2>2, <3>1
  <2> QED BY <2>2
<1>3. IsFiniteSet(below(m)) /\ IsFiniteSet(below(i))
  BY FS_Subset
<1>4. Cardinality(below(i)) <= Cardinality(below(m))
  BY <1>2, <1>3, FS_Subset
<1>5. Cardinality(below(i)) \in Nat /\ Cardinality(below(m)) \in Nat
  BY <1>3, FS_CardinalityType
<1>6. Cardinality(below(i)) < BatchMax
  BY <1>1, <1>4, <1>5, BoundAssumption
<1> QED BY <1>6 DEF Chunk

\* Inserting a chunk moves the replay position over stored events only.
LEMMA DurReplayInsert ==
    ASSUME TypeOK, DurInv, ReplayInsert
    PROVE  DurInv'
<1> DEFINE evs == [i \in Chunk |-> file[rfile][i].ev]
<1>1. rpc = "insert" /\ rfile \in FileId /\ rn \in Nat /\ rpos \in Nat /\ rlen <= rn
      /\ rn <= Len(file[rfile]) /\ rpos <= rn /\ Stored(rfile, rpos)
      /\ UNCHANGED <<walVars, rtodo, rfile, rlen, rn, acked>>
      /\ (InsertOk(evs) \/ InsertErr(evs))
  BY DEF ReplayInsert, TypeOK, DurInv, ReplayTracks
<1>2. rows \subseteq rows'
  <2> HIDE DEF evs
  <2> QED BY <1>1 DEF InsertOk, InsertErr, Commit
<1>3. WholeLines' /\ NamesInOrder' /\ ArchivedStored' /\ AckedHeld'
  BY <1>1, <1>2 DEF DurInv, WholeLines, NamesInOrder, ArchivedStored, AckedHeld, Stored
<1>4. \A f \in rtodo' : fstate'[f] = "live"
  BY <1>1 DEF DurInv, ReplayTracks
<1>5. fstate'[rfile] = "live" /\ rfile \notin rtodo /\ rlen <= Len(file'[rfile])
  BY <1>1 DEF DurInv, ReplayTracks
<1>6. CASE rpc' = "scan"
  BY <1>3, <1>4, <1>6 DEF DurInv, ReplayTracks
<1>7. CASE InsertOk(evs) /\ rpc' = rpc /\ \E m \in Chunk : (\A j \in Chunk : j <= m) /\ rpos' = m
  <2>1. PICK m \in Chunk : rpos' = m
    BY <1>7
  <2>2. Len(file[rfile]) \in Nat
    BY <1>1, LenProperties DEF TypeOK
  <2>3. Left = {i \in 1..rn : i > rpos}
    <3>1. rn \in 0..Len(file[rfile])
      BY <1>1, <2>2
    <3>2. Decodable(file[rfile], rn) = 1..rn
      BY <1>1, <3>1, AllDecodable DEF DurInv
    <3> QED BY <3>2 DEF Left
  <2>4. IsFiniteSet(1..rn)
    BY <1>1, FS_Interval
  <2>5. IsFiniteSet(Left) /\ Left \subseteq Nat
    BY <1>1, <2>3, <2>4, FS_Subset
  <2>6. m \in Left /\ m \in 1..rn
    BY <2>3 DEF Chunk
  <2>7. \A i \in Chunk : file[rfile][i].ev \in rows'
    BY <1>7 DEF InsertOk, Commit, Elems
  <2>8. ASSUME NEW i \in 1..m PROVE file[rfile][i].ev \in rows'
    <3>1. CASE i <= rpos
      <4>1. i \in 1..rpos
        BY <1>1, <2>6, <3>1
      <4> QED BY <1>1, <1>2, <4>1 DEF Stored
    <3>2. CASE i > rpos
      <4>1. i \in Left /\ i <= m
        BY <1>1, <2>3, <2>6, <3>2
      <4>2. i \in Chunk
        BY <2>5, <4>1, ChunkIsPrefix
      <4> QED BY <2>7, <4>2
    <3>3. i \in Int /\ rpos \in Int
      BY <1>1, <2>6
    <3> QED BY <3>1, <3>2, <3>3
  <2>9. Stored(rfile, rpos)' /\ rpos' <= rn
    BY <1>1, <2>1, <2>6, <2>8 DEF Stored
  <2> QED BY <1>1, <1>3, <1>4, <1>5, <2>9 DEF DurInv, ReplayTracks
<1> QED BY <1>6, <1>7 DEF ReplayInsert

\* A file is archived only when everything in it was read and stored.
LEMMA DurReplayArchive ==
    ASSUME TypeOK, DurInv, ReplayArchive
    PROVE  DurInv'
<1>1. /\ rpc = "insert" /\ rfile \in FileId /\ rn \in Nat /\ rpos \in Nat /\ rlen <= rn
      /\ rlen \in Nat /\ rn <= Len(file[rfile]) /\ rpos <= rn /\ Stored(rfile, rpos)
      /\ UNCHANGED <<cur, curSize, seq, file, rtodo, rfile, rlen, rn, rpos, rows, acked>>
      /\ Left = {} /\ rpc' = "scan" /\ rfile \notin rtodo /\ fstate[rfile] = "live"
  BY DEF ReplayArchive, TypeOK, DurInv, ReplayTracks
<1>2. CASE fstate' = fstate
  BY <1>1, <1>2 DEF DurInv, WholeLines, NamesInOrder, ArchivedStored, ReplayTracks,
                    AckedHeld, Stored
<1>3. CASE MayArchive(rfile) /\ fstate' = [fstate EXCEPT ![rfile] = "archived"]
  <2>1. Len(file[rfile]) \in Nat /\ rn \in 0..Len(file[rfile])
    BY <1>1, LenProperties DEF TypeOK
  <2>2. Left = {i \in 1..rn : i > rpos}
    BY <1>1, <2>1, AllDecodable DEF DurInv, Left
  <2>3. rn <= rpos
    <3> SUFFICES ASSUME ~(rn <= rpos) PROVE FALSE
      OBVIOUS
    <3>1. rn \in 1..rn /\ rn > rpos
      BY <1>1
    <3>2. rn \in Left
      BY <2>2, <3>1
    <3> QED BY <1>1, <3>2
  <2>4. Len(file[rfile]) = rpos
    BY <1>1, <1>3, <2>1, <2>3 DEF MayArchive
  <2>5. Stored(rfile, Len(file[rfile]))
    BY <1>1, <2>4
  <2>6. /\ fstate'[rfile] = "archived"
        /\ \A g \in FileId : g # rfile => fstate'[g] = fstate[g]
    BY <1>1, <1>3 DEF TypeOK
  <2>7. WholeLines'
    BY <1>1 DEF DurInv, WholeLines
  <2>8. NamesInOrder'
    <3>1. cur # rfile /\ (cur # NoFile => cur \in FileId)
      BY <1>3, BoundAssumption DEF MayArchive, TypeOK, FileId
    <3> QED BY <1>1, <2>6, <3>1 DEF DurInv, NamesInOrder
  <2>9. ArchivedStored'
    BY <1>1, <2>5, <2>6 DEF DurInv, ArchivedStored, Stored
  <2>10. ReplayTracks'
    <3>1. rtodo \subseteq FileId
      BY DEF TypeOK
    <3> QED BY <1>1, <2>6, <3>1 DEF DurInv, ReplayTracks
  <2>11. AckedHeld'
    <3> SUFFICES ASSUME NEW e \in acked, e \notin rows
                 PROVE  \E g \in FileId : fstate'[g] = "live" /\
                           \E i \in 1..Len(file[g]) : file[g][i].ev = e
      BY <1>1 DEF AckedHeld
    <3>1. PICK g \in FileId : fstate[g] = "live" /\
                \E i \in 1..Len(file[g]) : file[g][i].ev = e
      BY DEF DurInv, AckedHeld
    <3>2. g # rfile
      BY <2>5, <3>1 DEF Stored
    <3> QED BY <2>6, <3>1, <3>2
  <2> QED BY <2>7, <2>8, <2>9, <2>10, <2>11 DEF DurInv
<1> QED BY <1>2, <1>3 DEF ReplayArchive

\* Every step keeps the invariant, as long as failing writes leave nothing behind.
LEMMA DurStep == CleanWrites /\ TypeOK /\ DurInv /\ [Next]_vars => DurInv'
<1> SUFFICES ASSUME CleanWrites, TypeOK, DurInv, [Next]_vars PROVE DurInv'
  OBVIOUS
<1>1. ASSUME UNCHANGED <<walVars, replayVars, acked, rows>> PROVE DurInv'
  BY <1>1, DurMoreRows
<1>2. ASSUME NEW e \in Event, TaskInsert(e) PROVE DurInv'
  <2>1. rows \subseteq rows' /\ UNCHANGED <<walVars, replayVars, acked>>
    BY <1>2 DEF TaskInsert, InsertOk, InsertErr, Commit
  <2> QED BY <2>1, DurMoreRows
<1>3. ASSUME NEW e \in Event, TaskAppend(e) PROVE DurInv'
  <2>1. UNCHANGED <<replayVars, rows>> /\ (AppendOk(<<e>>) \/ AppendErr(<<e>>))
    BY <1>3 DEF TaskAppend
  <2>2. CASE AppendOk(<<e>>)
    BY <2>1, <2>2, SingleBatch, DurAppend
  <2>3. CASE AppendErr(<<e>>)
    BY <1>1, <2>1, <2>3, CleanAppendErr
  <2> QED BY <2>1, <2>2, <2>3
<1>4. CASE FlushInsert
  <2>1. rows \subseteq rows' /\ UNCHANGED <<walVars, replayVars, acked>>
    BY <1>4 DEF FlushInsert, InsertOk, InsertErr, Commit
  <2> QED BY <2>1, DurMoreRows
<1>5. CASE FlushAppend
  <2>1. UNCHANGED <<replayVars, rows>> /\ (AppendOk(batch) \/ AppendErr(batch))
    BY <1>5 DEF FlushAppend
  <2>2. CASE AppendOk(batch)
    BY <2>1, <2>2, DurAppend DEF TypeOK
  <2>3. CASE AppendErr(batch)
    BY <1>1, <2>1, <2>3, CleanAppendErr
  <2> QED BY <2>1, <2>2, <2>3
<1>6. CASE ReplayList
  BY <1>6 DEF ReplayList, DurInv, WholeLines, NamesInOrder, ArchivedStored, ReplayTracks,
              AckedHeld, Stored
<1>7. ASSUME NEW f \in FileId, ReplayStat(f) PROVE DurInv'
  <2>1. /\ UNCHANGED <<walVars, rows, acked>> /\ rtodo' = rtodo \ {f} /\ rfile' = f
        /\ rlen' = Len(file[f]) /\ rpc' = "read" /\ f \in rtodo
    BY <1>7 DEF ReplayStat
  <2>2. fstate[f] = "live" /\ Len(file[f]) \in Nat
    BY <2>1, LenProperties DEF DurInv, ReplayTracks, TypeOK
  <2>3. ReplayTracks'
    BY <2>1, <2>2 DEF DurInv, ReplayTracks
  <2> QED BY <2>1, <2>3 DEF DurInv, WholeLines, NamesInOrder, ArchivedStored, AckedHeld, Stored
<1>8. CASE ReplayRead
  <2>1. /\ UNCHANGED <<walVars, rows, acked, rtodo, rfile, rlen>> /\ rpc' \in {"insert", "scan"}
        /\ rn' = Len(file[rfile]) /\ rpos' = 0 /\ rpc = "read"
    BY <1>8 DEF ReplayRead
  <2>2. rfile \in FileId /\ Len(file[rfile]) \in Nat
    BY <2>1, LenProperties DEF TypeOK
  <2>3. ReplayTracks'
    BY <2>1, <2>2 DEF DurInv, ReplayTracks, Stored
  <2> QED BY <2>1, <2>3 DEF DurInv, WholeLines, NamesInOrder, ArchivedStored, AckedHeld, Stored
<1>9. CASE ReplayInsert
  BY <1>9, DurReplayInsert
<1>10. CASE ReplayArchive
  BY <1>10, DurReplayArchive
<1>11. CASE ReplayDone
  <2>1. PICK D \in SUBSET {f \in FileId : fstate[f] = "archived"} :
           fstate' = [f \in FileId |-> IF f \in D THEN "deleted" ELSE fstate[f]]
    BY <1>11 DEF ReplayDone
  <2>2. \A f \in FileId : \/ fstate'[f] = fstate[f]
                          \/ fstate'[f] = "deleted" /\ fstate[f] = "archived"
    <3> TAKE f \in FileId
    <3>1. fstate'[f] = IF f \in D THEN "deleted" ELSE fstate[f]
      BY <2>1
    <3>2. f \in D => fstate[f] = "archived"
      BY <2>1
    <3> QED BY <3>1, <3>2
  <2>3. rpc' = "idle" /\ rtodo' = {} /\ UNCHANGED <<cur, seq, file, rows, acked>>
    BY <1>11 DEF ReplayDone
  <2>4. cur = NoFile \/ cur \in FileId
    BY BoundAssumption DEF TypeOK, FileId, NoFile
  <2>5. WholeLines' /\ ReplayTracks'
    BY <2>3 DEF DurInv, WholeLines, ReplayTracks
  <2>6. NamesInOrder'
    BY <2>2, <2>3, <2>4 DEF DurInv, NamesInOrder
  <2>7. ArchivedStored'
    BY <2>2, <2>3 DEF DurInv, ArchivedStored, Stored
  <2>8. AckedHeld'
    BY <2>2, <2>3 DEF DurInv, AckedHeld
  <2> QED BY <2>5, <2>6, <2>7, <2>8 DEF DurInv
<1>12. ASSUME ProcessEnds PROVE DurInv'
  <2>1. cur <= seq /\ seq \in Nat
    BY BoundAssumption DEF TypeOK, DurInv, NamesInOrder
  <2> QED BY <1>12, <2>1 DEF ProcessEnds, DurInv, WholeLines, NamesInOrder, ArchivedStored,
             ReplayTracks, AckedHeld, Stored
<1>13. CASE JoinEnd \/ JoinTimeout \/ Crash
  BY <1>12, <1>13 DEF JoinEnd, JoinTimeout, Crash
<1>14. ASSUME NEW e \in Event, Log(e) \/ DropPartition(e) PROVE DurInv'
  BY <1>1, <1>14 DEF Log, DropPartition
<1>15. CASE WriterRecv \/ WriterTimer \/ WriterClosed \/ FlushWake \/ WriterDrain
  BY <1>1, <1>15 DEF WriterRecv, WriterTimer, WriterClosed, FlushWake, WriterDrain
<1>16. CASE Signal \/ DrainEnd \/ WaitEnd \/ Start
  BY <1>1, <1>16 DEF Signal, DrainEnd, WaitEnd, Start
<1>17. CASE UNCHANGED vars
  BY <1>1, <1>17 DEF vars
<1> QED
  BY <1>2, <1>3, <1>4, <1>5, <1>6, <1>7, <1>8, <1>9, <1>10, <1>11, <1>13, <1>14, <1>15,
     <1>16, <1>17
  DEF Next, Task, Writer, Replay, Process

\* The invariant gives the two properties the runs check.
LEMMA DurImplies == TypeOK /\ DurInv => AckedDurable /\ ArchivedCounted
<1> SUFFICES ASSUME TypeOK, DurInv PROVE AckedDurable /\ ArchivedCounted
  OBVIOUS
<1>1. \A f \in FileId : Len(file[f]) \in 0..Len(file[f])
  BY LenProperties DEF TypeOK
<1>2. \A f \in FileId : /\ Decodable(file[f], Len(file[f])) = 1..Len(file[f])
                        /\ Readable(file[f], Len(file[f]))
  BY <1>1, AllDecodable DEF DurInv
<1>3. ASSUME NEW e \in acked, e \notin rows PROVE e \in OnDisk
  <2>1. PICK f \in FileId : fstate[f] = "live" /\
              \E i \in 1..Len(file[f]) : file[f][i].ev = e
    BY <1>3 DEF DurInv, AckedHeld
  <2>2. e \in Event
    BY DEF TypeOK
  <2> QED BY <1>2, <2>1, <2>2 DEF OnDisk
<1>4. ArchivedCounted
  BY <1>2 DEF ArchivedCounted, DurInv, ArchivedStored, Stored
<1> QED BY <1>3, <1>4 DEF AckedDurable

\* Initially there are no files and no acknowledgements.
LEMMA DurInit == Init => DurInv
BY DEF Init, DurInv, WholeLines, NamesInOrder, ArchivedStored, ReplayTracks, AckedHeld, Stored

\* As long as failing WAL writes leave nothing behind, no interleaving of appends, rolls,
\* replays, archiving, crashes and restarts loses an event that append acknowledged: it
\* has a row, or stands in a file that the next replay decodes.
THEOREM AcknowledgedIsDurable ==
    ASSUME CleanWrites PROVE Spec => []AckedDurable
<1>1. TypeOK /\ DurInv /\ [Next]_vars => (TypeOK /\ DurInv)'
  BY TypeStep, DurStep
<1>2. Init => TypeOK /\ DurInv
  BY TypeInit, DurInit
<1>3. TypeOK /\ DurInv => AckedDurable
  BY DurImplies
<1> QED BY <1>1, <1>2, <1>3, PTL DEF Spec

\* Under the same condition a file stops being replayed only when all it holds is counted.
THEOREM ArchivedIsCounted ==
    ASSUME CleanWrites PROVE Spec => []ArchivedCounted
<1>1. TypeOK /\ DurInv /\ [Next]_vars => (TypeOK /\ DurInv)'
  BY TypeStep, DurStep
<1>2. Init => TypeOK /\ DurInv
  BY TypeInit, DurInit
<1>3. TypeOK /\ DurInv => ArchivedCounted
  BY DurImplies
<1> QED BY <1>1, <1>2, <1>3, PTL DEF Spec

USE DEF NoFile, NotDraining, DrainAttempts, sinkVars, writerVars, walVars, replayVars,
        tables, dbVars
HIDE DEF FileId

-----------------------------------------------------------------------------
(* Every event is accounted for, whatever fails. *)

\* The aggregates count an event of a batch at least once, and no other event.
LEMMA CopiesCount ==
    ASSUME NEW evs, IsFiniteSet(DOMAIN evs), NEW e
    PROVE  Copies(evs, e) \in Nat /\ (Copies(evs, e) > 0 <=> e \in Elems(evs))
<1> DEFINE P == {i \in DOMAIN evs : evs[i] = e}
<1>1. IsFiniteSet(P) /\ Cardinality(P) \in Nat
  BY FS_Subset, FS_CardinalityType
<1>2. Cardinality(P) = 0 <=> P = {}
  BY <1>1, FS_EmptySet
<1>3. P = {} <=> e \notin Elems(evs)
  BY DEF Elems
<1> QED BY <1>1, <1>2, <1>3 DEF Copies

\* A committed batch keeps rows and aggregates together.
LEMMA CommitCounts ==
    ASSUME TypeOK, RowIffCounted, NEW evs, IsFiniteSet(DOMAIN evs), Commit(evs)
    PROVE  RowIffCounted' /\ rows' = rows \cup Elems(evs)
<1>1. ASSUME NEW e \in Event PROVE e \in rows' <=> agg'[e] > 0
  <2>1. agg[e] \in Nat /\ (e \in rows <=> agg[e] > 0)
    BY DEF TypeOK, RowIffCounted
  <2>2. Copies(evs, e) \in Nat /\ (Copies(evs, e) > 0 <=> e \in Elems(evs))
    BY CopiesCount
  <2>3. agg'[e] = IF e \in rows THEN agg[e] ELSE agg[e] + Copies(evs, e)
    BY DEF Commit
  <2>4. rows' = rows \cup Elems(evs)
    BY DEF Commit
  <2> QED BY <2>1, <2>2, <2>3, <2>4
<1> QED BY <1>1 DEF Commit, RowIffCounted

\* A transaction keeps rows and aggregates together; when it reports success every event
\* of the batch has a row.
LEMMA InsertCounts ==
    ASSUME TypeOK, RowIffCounted, NEW evs, IsFiniteSet(DOMAIN evs),
           InsertOk(evs) \/ InsertErr(evs)
    PROVE  RowIffCounted' /\ rows \subseteq rows' /\ (InsertOk(evs) => Elems(evs) \subseteq rows')
<1>1. CASE Commit(evs)
  BY <1>1, CommitCounts
<1>2. CASE ~Commit(evs)
  <2>1. UNCHANGED <<rows, agg>> /\ ~InsertOk(evs)
    BY <1>2 DEF InsertOk, InsertErr
  <2> QED BY <2>1 DEF RowIffCounted
<1> QED BY <1>1, <1>2

\* The positions of a replayed chunk are finite.
LEMMA ChunkFinite == TypeOK /\ rpc = "insert" => IsFiniteSet(Chunk) /\ Chunk \subseteq 1..rn
<1> SUFFICES ASSUME TypeOK, rpc = "insert" PROVE IsFiniteSet(Chunk) /\ Chunk \subseteq 1..rn
  OBVIOUS
<1>1. rn \in Nat
  BY DEF TypeOK
<1>2. IsFiniteSet(1..rn)
  BY <1>1, FS_Interval
<1>3. Chunk \subseteq 1..rn
  BY DEF Chunk, Left, Decodable
<1> QED BY <1>2, <1>3, FS_Subset

\* Only transactions touch the tables, and each keeps rows and aggregates together.
LEMMA CountedStep == TypeOK /\ RowIffCounted /\ [Next]_vars => RowIffCounted' /\ rows \subseteq rows'
<1> SUFFICES ASSUME TypeOK, RowIffCounted, [Next]_vars
             PROVE  RowIffCounted' /\ rows \subseteq rows'
  OBVIOUS
<1>1. ASSUME UNCHANGED <<rows, agg>> PROVE RowIffCounted' /\ rows \subseteq rows'
  BY <1>1 DEF RowIffCounted
<1>2. ASSUME NEW e \in Event, TaskInsert(e) PROVE RowIffCounted' /\ rows \subseteq rows'
  BY <1>2, SingleBatch, InsertCounts DEF TaskInsert
<1>3. CASE FlushInsert
  BY <1>3, BatchPositions, InsertCounts DEF FlushInsert, TypeOK
<1>4. CASE ReplayInsert
  <2> DEFINE evs == [i \in Chunk |-> file[rfile][i].ev]
  <2>1. rpc = "insert" /\ (InsertOk(evs) \/ InsertErr(evs)) /\ DOMAIN evs = Chunk
    BY <1>4 DEF ReplayInsert
  <2>2. IsFiniteSet(DOMAIN evs)
    BY <2>1, ChunkFinite
  <2> HIDE DEF evs
  <2> QED BY <2>1, <2>2, InsertCounts
<1>5. ASSUME NEW e \in Event, Log(e) \/ TaskAppend(e) \/ DropPartition(e)
      PROVE  RowIffCounted' /\ rows \subseteq rows'
  BY <1>1, <1>5 DEF Log, TaskAppend, DropPartition
<1>6. CASE WriterRecv \/ WriterTimer \/ WriterClosed \/ FlushAppend \/ FlushWake \/ WriterDrain
  BY <1>1, <1>6 DEF WriterRecv, WriterTimer, WriterClosed, FlushAppend, FlushWake, WriterDrain
<1>7. CASE ReplayList \/ ReplayRead \/ ReplayArchive \/ ReplayDone
  BY <1>1, <1>7 DEF ReplayList, ReplayRead, ReplayArchive, ReplayDone
<1>8. ASSUME NEW f \in FileId, ReplayStat(f) PROVE RowIffCounted' /\ rows \subseteq rows'
  BY <1>1, <1>8 DEF ReplayStat
<1>9. CASE Signal \/ DrainEnd \/ WaitEnd \/ Start
  BY <1>1, <1>9 DEF Signal, DrainEnd, WaitEnd, Start
<1>10. CASE JoinEnd \/ JoinTimeout \/ Crash
  BY <1>1, <1>10 DEF JoinEnd, JoinTimeout, Crash, ProcessEnds
<1>11. CASE UNCHANGED vars
  BY <1>1, <1>11 DEF vars
<1> QED BY <1>2, <1>3, <1>4, <1>5, <1>6, <1>7, <1>8, <1>9, <1>10, <1>11
        DEF Next, Task, Writer, Replay, Process

\* Receiving moves the oldest event of the queue to the end of the batch.
LEMMA ElemsMove ==
    ASSUME NEW b \in Seq(Event), NEW q \in Seq(Event), q # <<>>
    PROVE  Elems(Append(b, Head(q))) \cup Elems(Tail(q)) = Elems(b) \cup Elems(q)
<1>1. Len(q) \in Nat \ {0} /\ Len(b) \in Nat
  BY LenProperties, EmptySeq
<1>2. Head(q) = q[1] /\ DOMAIN Tail(q) = 1..(Len(q) - 1) /\ DOMAIN q = 1..Len(q)
      /\ \A i \in 1..(Len(q) - 1) : Tail(q)[i] = q[i + 1]
  BY <1>1
<1>3. Elems(q) = {q[1]} \cup Elems(Tail(q))
  <2>1. ASSUME NEW i \in DOMAIN q PROVE q[i] \in {q[1]} \cup Elems(Tail(q))
    <3>1. CASE i = 1
      BY <3>1
    <3>2. CASE i # 1
      <4>1. i - 1 \in 1..(Len(q) - 1) /\ (i - 1) + 1 = i
        BY <1>1, <1>2, <3>2
      <4>2. Tail(q)[i - 1] = q[i]
        BY <1>2, <4>1
      <4> QED BY <1>2, <4>1, <4>2 DEF Elems
    <3> QED BY <3>1, <3>2
  <2>2. ASSUME NEW i \in DOMAIN Tail(q) PROVE Tail(q)[i] \in Elems(q)
    <3>1. i + 1 \in DOMAIN q
      BY <1>1, <1>2
    <3> QED BY <1>2, <3>1 DEF Elems
  <2>3. q[1] \in Elems(q)
    BY <1>1, <1>2 DEF Elems
  <2> QED BY <2>1, <2>2, <2>3 DEF Elems
<1>4. DOMAIN b = 1..Len(b) /\ DOMAIN Append(b, q[1]) = 1..(Len(b) + 1)
      /\ Append(b, q[1])[Len(b) + 1] = q[1]
      /\ \A i \in 1..Len(b) : Append(b, q[1])[i] = b[i]
  BY <1>1
<1>5. Elems(Append(b, q[1])) = Elems(b) \cup {q[1]}
  <2>1. \A i \in 1..(Len(b) + 1) : i \in 1..Len(b) \/ i = Len(b) + 1
    BY <1>1
  <2>2. \A i \in 1..Len(b) : i \in 1..(Len(b) + 1)
    BY <1>1
  <2>3. Len(b) + 1 \in 1..(Len(b) + 1)
    BY <1>1
  <2> QED BY <1>4, <2>1, <2>2, <2>3 DEF Elems
<1> QED BY <1>2, <1>3, <1>5

\* Sending adds the event to the end of the queue.
LEMMA ElemsAppend ==
    ASSUME NEW b \in Seq(Event), NEW e
    PROVE  Elems(Append(b, e)) = Elems(b) \cup {e}
<1>1. Len(b) \in Nat /\ DOMAIN b = 1..Len(b) /\ DOMAIN Append(b, e) = 1..(Len(b) + 1)
      /\ Append(b, e)[Len(b) + 1] = e
      /\ \A i \in 1..Len(b) : Append(b, e)[i] = b[i]
  BY LenProperties
<1>2. \A i \in 1..(Len(b) + 1) : i \in 1..Len(b) \/ i = Len(b) + 1
  BY <1>1
<1>3. \A i \in 1..Len(b) : i \in 1..(Len(b) + 1)
  BY <1>1
<1>4. Len(b) + 1 \in 1..(Len(b) + 1)
  BY <1>1
<1> QED BY <1>1, <1>2, <1>3, <1>4 DEF Elems

\* No step loses track of an event.
LEMMA AccountedStep == TypeOK /\ AllAccounted /\ [Next]_vars => AllAccounted'
<1> SUFFICES ASSUME TypeOK, AllAccounted, [Next]_vars PROVE NoSilentLoss'
  BY CountedStep DEF AllAccounted
<1>0. RowIffCounted /\ rows \subseteq rows' /\ queue \in Seq(Event) /\ batch \in Seq(Event)
      /\ task \in [Event -> {"none", "insert", "append", "done"}]
      /\ logged \subseteq rows \cup acked \cup Volatile \cup dropped \cup lost
  BY CountedStep DEF AllAccounted, NoSilentLoss, TypeOK
<1>1. ASSUME UNCHANGED <<queue, batch, task, logged, acked, dropped, lost>> PROVE NoSilentLoss'
  BY <1>0, <1>1 DEF NoSilentLoss, Volatile, TaskEvents
<1>2. ASSUME NEW e \in Event, Log(e) PROVE NoSilentLoss'
  <2>1. logged' = logged \cup {e} /\ UNCHANGED <<batch, acked, dropped, lost>>
    BY <1>2 DEF Log
  <2>2. CASE queue' = Append(queue, e) /\ UNCHANGED task
    <3>1. Elems(queue') = Elems(queue) \cup {e}
      BY <1>0, <2>2, ElemsAppend
    <3> QED BY <1>0, <2>1, <2>2, <3>1 DEF NoSilentLoss, Volatile, TaskEvents
  <2>3. CASE (\E s \in Pending : task' = [task EXCEPT ![e] = s]) /\ UNCHANGED queue
    <3>1. TaskEvents' = TaskEvents \cup {e}
      BY <1>0, <2>3 DEF TaskEvents
    <3> QED BY <1>0, <2>1, <2>3, <3>1 DEF NoSilentLoss, Volatile
  <2> QED BY <1>2, <2>2, <2>3 DEF Log, Pending
<1>3. ASSUME NEW e \in Event, TaskInsert(e) PROVE NoSilentLoss'
  <2>1. UNCHANGED <<queue, batch, logged, acked, dropped, lost>>
    BY <1>3 DEF TaskInsert
  <2>2. CASE InsertOk(<<e>>) /\ task' = [task EXCEPT ![e] = "done"]
    <3>1. e \in rows'
      BY <1>0, <2>2, SingleBatch, InsertCounts
    <3>2. TaskEvents \subseteq TaskEvents' \cup {e}
      BY <1>0, <2>2 DEF TaskEvents
    <3> QED BY <1>0, <2>1, <3>1, <3>2 DEF NoSilentLoss, Volatile
  <2>3. CASE task' = [task EXCEPT ![e] = "append"]
    <3>1. TaskEvents \subseteq TaskEvents'
      BY <1>0, <2>3 DEF TaskEvents, Pending
    <3> QED BY <1>0, <2>1, <3>1 DEF NoSilentLoss, Volatile
  <2> QED BY <1>3, <2>2, <2>3 DEF TaskInsert
<1>4. ASSUME NEW e \in Event, TaskAppend(e) PROVE NoSilentLoss'
  <2>1. UNCHANGED <<queue, batch, logged, lost>> /\ task' = [task EXCEPT ![e] = "done"]
    BY <1>4 DEF TaskAppend
  <2>2. acked \subseteq acked' /\ dropped \subseteq dropped' /\ e \in acked' \cup dropped'
    <3>1. CASE AppendOk(<<e>>) /\ UNCHANGED dropped
      BY <3>1, SingleBatch DEF AppendOk
    <3>2. CASE AppendErr(<<e>>) /\ dropped' = dropped \cup {e}
      BY <3>2 DEF AppendErr, AppendLeaves
    <3> QED BY <1>4, <3>1, <3>2 DEF TaskAppend
  <2>3. TaskEvents \subseteq TaskEvents' \cup {e}
    BY <1>0, <2>1 DEF TaskEvents
  <2> QED BY <1>0, <2>1, <2>2, <2>3 DEF NoSilentLoss, Volatile
<1>5. CASE WriterRecv
  <2>1. /\ queue # <<>> /\ batch' = Append(batch, Head(queue)) /\ queue' = Tail(queue)
        /\ UNCHANGED <<task, logged, acked, dropped, lost>>
    BY <1>5 DEF WriterRecv
  <2>2. Elems(batch') \cup Elems(queue') = Elems(batch) \cup Elems(queue)
    BY <1>0, <2>1, ElemsMove
  <2> QED BY <1>0, <2>1, <2>2 DEF NoSilentLoss, Volatile, TaskEvents
<1>6. CASE FlushInsert
  <2>1. UNCHANGED <<queue, task, logged, acked, dropped, lost>>
    BY <1>6 DEF FlushInsert
  <2>2. batch' = batch \/ Elems(batch) \subseteq rows'
    BY <1>0, <1>6, BatchPositions, InsertCounts DEF FlushInsert
  <2> QED BY <1>0, <2>1, <2>2 DEF NoSilentLoss, Volatile, TaskEvents
<1>7. CASE FlushAppend
  <2>1. UNCHANGED <<queue, task, logged, dropped, lost>>
    BY <1>7 DEF FlushAppend
  <2>2. acked \subseteq acked' /\ (batch' = batch \/ Elems(batch) \subseteq acked')
    <3>1. CASE AppendOk(batch)
      BY <3>1 DEF AppendOk
    <3>2. CASE AppendErr(batch) /\ UNCHANGED batch
      BY <3>2 DEF AppendErr, AppendLeaves
    <3> QED BY <1>7, <3>1, <3>2 DEF FlushAppend
  <2> QED BY <1>0, <2>1, <2>2 DEF NoSilentLoss, Volatile, TaskEvents
<1>8. CASE WriterDrain
  <2>1. UNCHANGED <<queue, task, logged, acked, lost>> /\ dropped \subseteq dropped'
        /\ (batch' = batch \/ Elems(batch) \subseteq dropped')
    BY <1>8 DEF WriterDrain
  <2> QED BY <1>0, <2>1 DEF NoSilentLoss, Volatile, TaskEvents
<1>9. CASE JoinEnd \/ JoinTimeout \/ Crash
  <2>1. UNCHANGED <<rows, logged, acked, dropped>> /\ lost' = lost \cup (Volatile \ rows)
    BY <1>9 DEF JoinEnd, JoinTimeout, Crash, ProcessEnds
  <2> QED BY <1>0, <2>1 DEF NoSilentLoss
<1>10. CASE WriterTimer \/ WriterClosed \/ FlushWake
  BY <1>1, <1>10 DEF WriterTimer, WriterClosed, FlushWake
<1>11. CASE ReplayList \/ ReplayRead \/ ReplayInsert \/ ReplayArchive \/ ReplayDone
  BY <1>1, <1>11 DEF ReplayList, ReplayRead, ReplayInsert, ReplayArchive, ReplayDone
<1>12. ASSUME NEW f \in FileId, ReplayStat(f) PROVE NoSilentLoss'
  BY <1>1, <1>12 DEF ReplayStat
<1>13. ASSUME NEW e \in Event, DropPartition(e) PROVE NoSilentLoss'
  BY <1>1, <1>13 DEF DropPartition
<1>14. CASE Signal \/ DrainEnd \/ WaitEnd \/ Start
  BY <1>1, <1>14 DEF Signal, DrainEnd, WaitEnd, Start
<1>15. CASE UNCHANGED vars
  BY <1>1, <1>15 DEF vars
<1> QED BY <1>2, <1>3, <1>4, <1>5, <1>6, <1>7, <1>8, <1>9, <1>10, <1>11, <1>12, <1>13, <1>14,
           <1>15
        DEF Next, Task, Writer, Replay, Process

\* Whatever fails (failed and unseen commits, torn and unsynced writes, dropped partitions,
\* timeouts, crashes), however often and in whatever order: the detail rows of insert_batch
\* and its aggregates never come apart, and every event that was logged has a row, was
\* acknowledged by append, is in memory, was given up with an error message or was in memory
\* when the process ended.
THEOREM EveryEventAccounted == Spec => []AllAccounted
<1>1. Init => TypeOK /\ AllAccounted
  <2>1. Init => AllAccounted
    BY DEF Init, AllAccounted, RowIffCounted, NoSilentLoss
  <2> QED BY <2>1, TypeInit
<1>2. TypeOK /\ AllAccounted /\ [Next]_vars => (TypeOK /\ AllAccounted)'
  BY TypeStep, AccountedStep
<1> QED BY <1>1, <1>2, PTL DEF Spec

-----------------------------------------------------------------------------
(* A graceful stop. *)

\* Nothing of the previous process is in memory while the process is down or replays the
\* files before it serves; once the writer has seen the channel closed nothing arrives any
\* more; it exits with an empty batch; and once the handles were awaited only the tasks of
\* late events are still at work.
StopInv ==
    /\ phase \in {"startup", "down"} =>
          /\ sender = "none" /\ queue = <<>> /\ batch = <<>> /\ TaskEvents = {}
          /\ wpc = "off" /\ drains = NotDraining
    /\ wpc \in {"drain", "exited"} \/ drains # NotDraining => sender = "none" /\ queue = <<>>
    /\ wpc = "exited" => batch = <<>>
    /\ phase = "waiting" => TaskEvents \subseteq waited \cup late
    /\ phase = "joining" => TaskEvents \subseteq late

\* Every step keeps the stop invariant.
LEMMA StopStep == TypeOK /\ StopInv /\ [Next]_vars => StopInv'
<1> SUFFICES ASSUME TypeOK, StopInv, [Next]_vars PROVE StopInv'
  OBVIOUS
<1>0. task \in [Event -> {"none", "insert", "append", "done"}]
      /\ (phase \in Running => phase \notin {"startup", "down"})
      /\ (wpc # "off" => phase \notin {"startup", "down"})
  BY DEF TypeOK, Running, StopInv
<1>1. ASSUME UNCHANGED <<phase, sender, queue, task, waited, wpc, batch, drains, late>>
      PROVE  StopInv'
  BY <1>1 DEF StopInv, TaskEvents
<1>2. ASSUME NEW e \in Event, Log(e) PROVE StopInv'
  <2>1. /\ phase' = phase /\ phase \in Running /\ UNCHANGED <<sender, waited, wpc, batch, drains>>
        /\ late \subseteq late' /\ (phase \in {"waiting", "joining"} => e \in late')
        /\ (sender = "none" => queue' = queue)
    BY <1>2 DEF Log
  <2>2. TaskEvents' \subseteq TaskEvents \cup {e}
    BY <1>0, <1>2 DEF Log, TaskEvents, Pending
  <2> QED BY <1>0, <2>1, <2>2 DEF StopInv
<1>3. ASSUME NEW e \in Event, TaskInsert(e) \/ TaskAppend(e) PROVE StopInv'
  <2>1. UNCHANGED <<phase, sender, queue, waited, wpc, batch, drains, late>> /\ e \in TaskEvents
    BY <1>3 DEF TaskInsert, TaskAppend, TaskEvents, Pending
  <2>2. TaskEvents' \subseteq TaskEvents
    BY <1>0, <1>3 DEF TaskInsert, TaskAppend, TaskEvents, Pending
  <2> QED BY <2>1, <2>2 DEF StopInv
<1>4. ASSUME NEW e \in Event, DropPartition(e) PROVE StopInv'
  BY <1>1, <1>4 DEF DropPartition
<1>5. CASE WriterRecv
  <2>1. wpc = "recv" /\ queue # <<>> /\ wpc' \in {"insert", "recv"}
        /\ UNCHANGED <<phase, sender, task, waited, drains, late>>
    BY <1>5 DEF WriterRecv
  <2> QED BY <2>1 DEF StopInv, TaskEvents
<1>6. CASE WriterTimer \/ FlushWake
  BY <1>0, <1>6 DEF WriterTimer, FlushWake, AfterFlush, StopInv, TaskEvents
<1>7. CASE WriterClosed
  BY <1>0, <1>7 DEF WriterClosed, StopInv, TaskEvents
<1>8. CASE FlushInsert \/ FlushAppend
  <2>1. /\ UNCHANGED <<phase, sender, queue, task, waited, drains, late>>
        /\ wpc \in {"insert", "append"} /\ wpc' \in {"append", "sleep", AfterFlush}
    BY <1>8 DEF FlushInsert, FlushAppend
  <2> QED BY <1>0, <2>1 DEF AfterFlush, StopInv, TaskEvents
<1>9. CASE WriterDrain
  BY <1>0, <1>9 DEF WriterDrain, StopInv, TaskEvents
<1>10. CASE ReplayList \/ ReplayRead \/ ReplayInsert \/ ReplayArchive
  BY <1>1, <1>10 DEF ReplayList, ReplayRead, ReplayInsert, ReplayArchive
<1>11. ASSUME NEW f \in FileId, ReplayStat(f) PROVE StopInv'
  BY <1>1, <1>11 DEF ReplayStat
<1>12. CASE ReplayDone
  <2>1. UNCHANGED <<queue, task, waited, batch, drains, late>>
    BY <1>12 DEF ReplayDone
  <2>2. CASE phase = "startup"
    <3>1. /\ phase' = "serving" /\ sender' \in {"open", "none"}
          /\ wpc' = IF sender' = "open" THEN "recv" ELSE "exited"
      BY <1>12, <2>2, BoundAssumption DEF ReplayDone
    <3>2. sender = "none" /\ queue = <<>> /\ batch = <<>> /\ TaskEvents = {} /\ wpc = "off"
      BY <2>2 DEF StopInv
    <3>3. drains = NotDraining
      BY <2>2 DEF StopInv
    <3> QED BY <2>1, <3>1, <3>2, <3>3 DEF StopInv
  <2>3. CASE phase # "startup"
    BY <1>1, <1>12, <2>1, <2>3 DEF ReplayDone
  <2> QED BY <2>2, <2>3
<1>13. CASE Signal
  BY <1>0, <1>13 DEF Signal, StopInv, TaskEvents
<1>14. CASE DrainEnd
  BY <1>0, <1>14 DEF DrainEnd, StopInv, TaskEvents
<1>15. CASE WaitEnd
  BY <1>0, <1>15 DEF WaitEnd, StopInv, TaskEvents
<1>16. CASE JoinEnd \/ JoinTimeout \/ Crash
  <2>1. /\ phase' = "down" /\ sender' = "none" /\ queue' = <<>> /\ batch' = <<>>
        /\ task' = [e \in Event |-> "none"] /\ wpc' = "off" /\ drains' = NotDraining
    BY <1>16 DEF JoinEnd, JoinTimeout, Crash, ProcessEnds
  <2>2. TaskEvents' = {}
    BY <2>1 DEF TaskEvents, Pending
  <2> QED BY <2>1, <2>2 DEF StopInv
<1>17. CASE Start
  BY <1>0, <1>17 DEF Start, StopInv, TaskEvents
<1>18. CASE UNCHANGED vars
  BY <1>1, <1>18 DEF vars
<1> QED BY <1>2, <1>3, <1>4, <1>5, <1>6, <1>7, <1>8, <1>9, <1>10, <1>11, <1>12, <1>13, <1>14,
           <1>15, <1>16, <1>17, <1>18
        DEF Next, Task, Writer, Replay, Process

\* When the process is joined in time, only late events are still in memory.
LEMMA StopKeeps == StopInv /\ JoinEnd => lost' \ lost \subseteq late
<1> SUFFICES ASSUME StopInv, JoinEnd PROVE lost' \ lost \subseteq late
  OBVIOUS
<1>1. queue = <<>> /\ batch = <<>> /\ TaskEvents \subseteq late
  BY DEF StopInv, JoinEnd
<1>2. Volatile = TaskEvents
  BY <1>1 DEF Volatile, Elems
<1> QED BY <1>1, <1>2 DEF JoinEnd, ProcessEnds

\* Any graceful stop (wait_pending awaited, the writer joined in time) loses no event but
\* those logged after wait_pending took its handles, whatever failed before or meanwhile.
THEOREM GracefulStopIsSafe == Spec => GracefulStopKeeps
<1>1. Init => TypeOK /\ StopInv
  <2>1. Init => StopInv
    BY DEF Init, StopInv, TaskEvents, Pending
  <2> QED BY <2>1, TypeInit
<1>2. TypeOK /\ StopInv /\ [Next]_vars => (TypeOK /\ StopInv)'
  BY TypeStep, StopStep
<1>3. StopInv /\ [Next]_vars => [JoinEnd => lost' \ lost \subseteq late]_vars
  BY StopKeeps
<1> QED BY <1>1, <1>2, <1>3, PTL DEF Spec, GracefulStopKeeps

-----------------------------------------------------------------------------
(* The pipeline implements the ledger. *)

\* No position of a batch repeats an event.
Distinct(s) == \A i, j \in DOMAIN s : s[i] = s[j] => i = j

\* An event stands in a WAL file.
InFile(e) == \E f \in FileId : \E i \in 1..Len(file[f]) : file[f][i].ev = e

\* What is stored, written or kept in memory was logged before.
HeldLogged ==
    /\ rows \subseteq logged /\ Volatile \subseteq logged
    /\ \A e \in Event : InFile(e) => e \in logged

\* An event in memory is in one place only, and not yet in a file.
OnePlace ==
    /\ Distinct(queue) /\ Distinct(batch)
    /\ Elems(queue) \cap Elems(batch) = {}
    /\ TaskEvents \cap (Elems(queue) \cup Elems(batch)) = {}
    /\ \A e \in Volatile : ~InFile(e)

\* An event stands on one line of one file.
OneLine == \A f, g \in FileId : \A i \in 1..Len(file[f]), j \in 1..Len(file[g]) :
    file[f][i].ev = file[g][j].ev => f = g /\ i = j

PlaceInv == HeldLogged /\ OnePlace /\ OneLine

\* A batch without repetitions is counted once for each of its events.
LEMMA CopiesOnce ==
    ASSUME NEW evs, Distinct(evs), NEW e
    PROVE  Copies(evs, e) = IF e \in Elems(evs) THEN 1 ELSE 0
<1> DEFINE P == {i \in DOMAIN evs : evs[i] = e}
<1>1. CASE e \in Elems(evs)
  <2>1. PICK i \in DOMAIN evs : evs[i] = e
    BY <1>1 DEF Elems
  <2>2. P = {i}
    BY <2>1 DEF Distinct
  <2>3. Cardinality({i}) = 1
    BY FS_Singleton
  <2> QED BY <1>1, <2>2, <2>3 DEF Copies
<1>2. CASE e \notin Elems(evs)
  <2>1. P = {}
    BY <1>2 DEF Elems
  <2>2. Cardinality({}) = 0
    BY FS_EmptySet
  <2> QED BY <1>2, <2>1, <2>2 DEF Copies
<1> QED BY <1>1, <1>2

\* A committed batch of distinct, logged events posts the ones that had no row.
LEMMA CommitPosts ==
    ASSUME TypeOK, NEW evs, Distinct(evs), Elems(evs) \subseteq logged, Commit(evs),
           UNCHANGED logged
    PROVE  \E S \in SUBSET Event : Books!Post(S)
<1> DEFINE S == Elems(evs) \ rows
<1>1. S \in SUBSET Event /\ S \subseteq logged \ rows
  BY DEF TypeOK
<1>2. rows' = rows \cup S
  BY DEF Commit
<1>3. agg' = [e \in Event |-> IF e \in S THEN agg[e] + 1 ELSE agg[e]]
  <2>1. ASSUME NEW e \in Event
        PROVE  (IF e \in rows THEN agg[e] ELSE agg[e] + Copies(evs, e))
               = (IF e \in S THEN agg[e] + 1 ELSE agg[e])
    <3>1. Copies(evs, e) = IF e \in Elems(evs) THEN 1 ELSE 0
      BY CopiesOnce
    <3>2. agg[e] \in Nat
      BY DEF TypeOK
    <3> QED BY <3>1, <3>2
  <2>2. agg' = [e \in Event |-> IF e \in rows THEN agg[e] ELSE agg[e] + Copies(evs, e)]
    BY DEF Commit
  <2> HIDE DEF S
  <2> QED BY <2>1, <2>2
<1> HIDE DEF S
<1> QED BY <1>1, <1>2, <1>3 DEF Books!Post

\* A transaction on distinct, logged events is a step of the ledger or leaves it alone.
LEMMA InsertPosts ==
    ASSUME TypeOK, NEW evs, Distinct(evs), Elems(evs) \subseteq logged,
           InsertOk(evs) \/ InsertErr(evs), UNCHANGED logged
    PROVE  /\ [Books!LedgerNext]_(Books!ledgerVars)
           /\ rows' \subseteq rows \cup Elems(evs)
<1>1. CASE Commit(evs)
  BY <1>1, CommitPosts DEF Books!LedgerNext, Commit
<1>2. CASE ~Commit(evs)
  BY <1>2 DEF InsertOk, InsertErr, Books!ledgerVars
<1> QED BY <1>1, <1>2

\* The events of a replayed chunk are distinct, and they were logged.
LEMMA ChunkDistinct ==
    ASSUME TypeOK, DurInv, PlaceInv, rpc = "insert", NEW evs,
           evs = [i \in Chunk |-> file[rfile][i].ev]
    PROVE  Distinct(evs) /\ Elems(evs) \subseteq logged
<1>1. rfile \in FileId /\ rn \in Nat /\ rn <= Len(file[rfile]) /\ Len(file[rfile]) \in Nat
  BY LenProperties DEF TypeOK, DurInv, ReplayTracks
<1>2. Chunk \subseteq 1..Len(file[rfile])
  BY <1>1, ChunkFinite
<1>3. \A i, j \in Chunk : file[rfile][i].ev = file[rfile][j].ev => i = j
  BY <1>1, <1>2 DEF PlaceInv, OneLine
<1>4. \A i \in Chunk : file[rfile][i].ev \in logged
  BY <1>1, <1>2 DEF DurInv, WholeLines, PlaceInv, HeldLogged, InFile
<1> QED BY <1>3, <1>4 DEF Distinct, Elems

\* A successful append puts new events on lines of their own.
LEMMA AppendPlaces ==
    ASSUME TypeOK, DurInv, OneLine, NEW evs \in Seq(Event), Distinct(evs),
           \A e \in Elems(evs) : ~InFile(e), AppendOk(evs)
    PROVE  OneLine' /\ \A e : InFile(e)' => InFile(e) \/ e \in Elems(evs)
<1>1. PICK f \in FileId : Grown(f, evs)
  BY AppendGrows DEF DurInv
<1>2. /\ DOMAIN evs = 1..Len(evs) /\ Len(evs) \in Nat
      /\ \A j \in 1..Len(evs) : evs[j] \in Elems(evs)
  BY LenProperties DEF Elems
<1>3. ASSUME NEW g \in FileId, NEW i \in 1..Len(file'[g])
      PROVE  \/ i \in 1..Len(file[g]) /\ file'[g][i] = file[g][i]
             \/ /\ g = f /\ i \notin 1..Len(file[f])
                /\ \E j \in 1..Len(evs) : i = Len(file[f]) + j /\ file'[g][i].ev = evs[j]
  <2>1. CASE i \in 1..Len(file[g])
    BY <1>1, <2>1 DEF Grown
  <2>2. CASE i \notin 1..Len(file[g])
    <3>1. g = f
      BY <1>1, <2>2 DEF Grown
    <3>2. PICK j \in 1..Len(evs) : i = Len(file[f]) + j
      BY <1>1, <2>2, <3>1 DEF Grown
    <3>3. file'[f][Len(file[f]) + j] = [ev |-> evs[j], nl |-> TRUE]
      BY <1>1 DEF Grown
    <3> QED BY <2>2, <3>1, <3>2, <3>3
  <2> QED BY <2>1, <2>2
<1>4. ASSUME NEW g \in FileId, NEW h \in FileId, NEW i \in 1..Len(file'[g]),
             NEW j \in 1..Len(file'[h]), file'[g][i].ev = file'[h][j].ev
      PROVE  g = h /\ i = j
  <2>1. CASE /\ i \in 1..Len(file[g]) /\ file'[g][i] = file[g][i]
             /\ j \in 1..Len(file[h]) /\ file'[h][j] = file[h][j]
    BY <1>4, <2>1 DEF OneLine
  <2>2. CASE /\ i \in 1..Len(file[g]) /\ file'[g][i] = file[g][i]
             /\ \E k \in 1..Len(evs) : file'[h][j].ev = evs[k]
    <3>1. InFile(file'[g][i].ev) /\ file'[g][i].ev \in Elems(evs)
      BY <1>2, <1>4, <2>2 DEF InFile
    <3> QED BY <3>1
  <2>3. CASE /\ j \in 1..Len(file[h]) /\ file'[h][j] = file[h][j]
             /\ \E k \in 1..Len(evs) : file'[g][i].ev = evs[k]
    <3>1. InFile(file'[h][j].ev) /\ file'[h][j].ev \in Elems(evs)
      BY <1>2, <1>4, <2>3 DEF InFile
    <3> QED BY <3>1
  <2>4. CASE /\ g = f /\ h = f
             /\ \E k \in 1..Len(evs) : i = Len(file[f]) + k /\ file'[g][i].ev = evs[k]
             /\ \E k \in 1..Len(evs) : j = Len(file[f]) + k /\ file'[h][j].ev = evs[k]
    <3>1. PICK k \in 1..Len(evs) : i = Len(file[f]) + k /\ file'[g][i].ev = evs[k]
      BY <2>4
    <3>2. PICK m \in 1..Len(evs) : j = Len(file[f]) + m /\ file'[h][j].ev = evs[m]
      BY <2>4
    <3>3. evs[k] = evs[m]
      BY <1>4, <3>1, <3>2
    <3>4. k = m
      BY <1>2, <3>3 DEF Distinct
    <3> QED BY <2>4, <3>1, <3>2, <3>4
  <2>5. \/ i \in 1..Len(file[g]) /\ file'[g][i] = file[g][i]
        \/ /\ g = f
           /\ \E k \in 1..Len(evs) : i = Len(file[f]) + k /\ file'[g][i].ev = evs[k]
    BY <1>3
  <2>6. \/ j \in 1..Len(file[h]) /\ file'[h][j] = file[h][j]
        \/ /\ h = f
           /\ \E k \in 1..Len(evs) : j = Len(file[f]) + k /\ file'[h][j].ev = evs[k]
    BY <1>3
  <2> QED BY <2>1, <2>2, <2>3, <2>4, <2>5, <2>6, Zenon
<1>5. OneLine'
  BY <1>4 DEF OneLine
<1>6. ASSUME NEW e, InFile(e)' PROVE InFile(e) \/ e \in Elems(evs)
  <2>0. PICK g \in FileId : \E i \in 1..Len(file'[g]) : file'[g][i].ev = e
    BY <1>6 DEF InFile
  <2>1. PICK i \in 1..Len(file'[g]) : file'[g][i].ev = e
    BY <2>0
  <2>2. \/ i \in 1..Len(file[g]) /\ file'[g][i] = file[g][i]
        \/ \E k \in 1..Len(evs) : file'[g][i].ev = evs[k]
    BY <1>3
  <2>3. CASE i \in 1..Len(file[g]) /\ file'[g][i] = file[g][i]
    BY <2>1, <2>3 DEF InFile
  <2>4. CASE \E k \in 1..Len(evs) : file'[g][i].ev = evs[k]
    BY <1>2, <2>1, <2>4
  <2> QED BY <2>2, <2>3, <2>4
<1> QED BY <1>5, <1>6

\* Sending and receiving repeat no event.
LEMMA DistinctAppend ==
    ASSUME NEW b \in Seq(Event), NEW e, Distinct(b), e \notin Elems(b)
    PROVE  Distinct(Append(b, e))
<1>1. Len(b) \in Nat /\ DOMAIN b = 1..Len(b) /\ DOMAIN Append(b, e) = 1..(Len(b) + 1)
      /\ Append(b, e)[Len(b) + 1] = e
      /\ \A i \in 1..Len(b) : Append(b, e)[i] = b[i] /\ b[i] # e
  BY LenProperties DEF Elems
<1>2. \A i \in 1..(Len(b) + 1) : i \in 1..Len(b) \/ i = Len(b) + 1
  BY <1>1
<1> QED BY <1>1, <1>2 DEF Distinct

\* The rest of a queue without repetitions, and its first event.
LEMMA DistinctTail ==
    ASSUME NEW q \in Seq(Event), q # <<>>, Distinct(q)
    PROVE  /\ Distinct(Tail(q)) /\ Elems(Tail(q)) \subseteq Elems(q)
           /\ Head(q) \notin Elems(Tail(q)) /\ Head(q) \in Elems(q)
<1>1. Len(q) \in Nat \ {0}
  BY LenProperties, EmptySeq
<1>2. Head(q) = q[1] /\ DOMAIN Tail(q) = 1..(Len(q) - 1) /\ DOMAIN q = 1..Len(q)
      /\ \A i \in 1..(Len(q) - 1) : Tail(q)[i] = q[i + 1] /\ i + 1 \in 1..Len(q)
  BY <1>1
<1>3. ASSUME NEW i \in DOMAIN Tail(q), NEW j \in DOMAIN Tail(q), Tail(q)[i] = Tail(q)[j]
      PROVE  i = j
  <2>1. q[i + 1] = q[j + 1] /\ i + 1 \in DOMAIN q /\ j + 1 \in DOMAIN q
    BY <1>2, <1>3
  <2>2. i + 1 = j + 1
    BY <2>1 DEF Distinct
  <2> QED BY <1>1, <1>2, <2>2
<1>4. ASSUME NEW i \in DOMAIN Tail(q) PROVE Tail(q)[i] # Head(q)
  <2>1. i + 1 # 1 /\ i + 1 \in DOMAIN q /\ 1 \in DOMAIN q
    BY <1>1, <1>2
  <2> QED BY <1>2, <2>1 DEF Distinct
<1>5. Head(q) \in Elems(q) /\ Elems(Tail(q)) \subseteq Elems(q)
  BY <1>1, <1>2 DEF Elems
<1> QED BY <1>3, <1>4, <1>5 DEF Distinct, Elems

\* A successful append moves events from memory to lines of their own.
LEMMA PlaceAppend ==
    ASSUME TypeOK, DurInv, PlaceInv, NEW evs \in Seq(Event), Distinct(evs),
           Elems(evs) \subseteq Volatile, AppendOk(evs),
           Volatile' \subseteq Volatile \ Elems(evs),
           Distinct(queue'), Distinct(batch'), Elems(queue') \cap Elems(batch') = {},
           TaskEvents' \cap (Elems(queue') \cup Elems(batch')) = {}, UNCHANGED <<rows, logged>>
    PROVE  PlaceInv'
<1>1. \A e \in Elems(evs) : ~InFile(e)
  BY DEF PlaceInv, OnePlace
<1>2. OneLine' /\ \A e : InFile(e)' => InFile(e) \/ e \in Elems(evs)
  BY <1>1, AppendPlaces DEF PlaceInv
<1>3. HeldLogged'
  <2>1. \A e \in Event : InFile(e)' => e \in logged'
    BY <1>2 DEF PlaceInv, HeldLogged
  <2>2. rows' \subseteq logged' /\ Volatile' \subseteq logged'
    BY DEF PlaceInv, HeldLogged
  <2> QED BY <2>1, <2>2 DEF HeldLogged
<1>4. OnePlace'
  <2>1. \A e \in Volatile' : ~InFile(e)'
    BY <1>2 DEF PlaceInv, OnePlace
  <2> QED BY <2>1 DEF OnePlace
<1> QED BY <1>2, <1>3, <1>4 DEF PlaceInv

\* A step that leaves the files and adds nothing to memory keeps the places.
LEMMA PlaceKeep ==
    ASSUME PlaceInv, UNCHANGED <<file, logged>>, rows' \subseteq logged, Volatile' \subseteq Volatile,
           Distinct(queue'), Distinct(batch'), Elems(queue') \cap Elems(batch') = {},
           TaskEvents' \cap (Elems(queue') \cup Elems(batch')) = {}
    PROVE  PlaceInv'
<1>1. \A e : InFile(e)' <=> InFile(e)
  BY DEF InFile
<1>2. OneLine'
  BY DEF PlaceInv, OneLine
<1>3. HeldLogged'
  BY <1>1 DEF PlaceInv, HeldLogged
<1>4. OnePlace'
  BY <1>1 DEF PlaceInv, OnePlace
<1> QED BY <1>2, <1>3, <1>4 DEF PlaceInv

\* An empty batch repeats nothing; a task's batch of one event neither.
LEMMA SmallDistinct == Distinct(<<>>) /\ Elems(<<>>) = {} /\ \A e \in Event : Distinct(<<e>>)
<1>1. \A e \in Event : DOMAIN <<e>> = {1}
  OBVIOUS
<1> QED BY <1>1 DEF Distinct, Elems

\* Without partial writes every step of the pipeline is a step of the ledger or leaves it
\* alone, and no step brings an event to two places.
LEMMA PlaceStep ==
    CleanWrites /\ TypeOK /\ DurInv /\ PlaceInv /\ [Next]_vars
        => PlaceInv' /\ [Books!LedgerNext]_(Books!ledgerVars)
<1> DEFINE Goal == PlaceInv' /\ [Books!LedgerNext]_(Books!ledgerVars)
<1> SUFFICES ASSUME CleanWrites, TypeOK, DurInv, PlaceInv, [Next]_vars PROVE Goal
  OBVIOUS
<1>0. /\ queue \in Seq(Event) /\ batch \in Seq(Event) /\ logged \subseteq Event
      /\ task \in [Event -> {"none", "insert", "append", "done"}]
      /\ HeldLogged /\ OnePlace /\ OneLine
  BY DEF TypeOK, PlaceInv
<1>1. ASSUME UNCHANGED <<queue, batch, task, file, logged, rows, agg>> PROVE Goal
  <2>1. PlaceInv'
    BY <1>0, <1>1 DEF PlaceInv, HeldLogged, OnePlace, OneLine, Volatile, TaskEvents, InFile
  <2> QED BY <1>1, <2>1 DEF Books!ledgerVars
<1>2. ASSUME NEW e \in Event, Log(e) PROVE Goal
  <2>1. /\ e \notin logged /\ logged' = logged \cup {e}
        /\ UNCHANGED <<batch, file, rows, agg>>
    BY <1>2 DEF Log
  <2>2. Books!Record(e)
    BY <2>1 DEF Books!Record
  <2>3. e \notin Volatile /\ ~InFile(e)
    BY <1>0, <2>1 DEF HeldLogged
  <2>4. \A x : InFile(x)' <=> InFile(x)
    BY <2>1 DEF InFile
  <2>5. /\ Volatile' = Volatile \cup {e} /\ Distinct(queue')
        /\ Elems(queue') \cap Elems(batch') = {}
        /\ TaskEvents' \cap (Elems(queue') \cup Elems(batch')) = {}
    <3>1. CASE queue' = Append(queue, e) /\ UNCHANGED task
      <4>1. Elems(queue') = Elems(queue) \cup {e} /\ Distinct(queue')
        BY <1>0, <2>3, <3>1, ElemsAppend, DistinctAppend DEF OnePlace, Volatile
      <4>2. TaskEvents' = TaskEvents
        BY <3>1 DEF TaskEvents
      <4> QED BY <1>0, <2>1, <2>3, <4>1, <4>2 DEF OnePlace, Volatile
    <3>2. CASE (\E s \in Pending : task' = [task EXCEPT ![e] = s]) /\ UNCHANGED queue
      <4>1. TaskEvents' = TaskEvents \cup {e}
        BY <1>0, <3>2 DEF TaskEvents
      <4> QED BY <1>0, <2>1, <2>3, <3>2, <4>1 DEF OnePlace, Volatile
    <3> QED BY <1>2, <3>1, <3>2 DEF Log, Pending
  <2>6. HeldLogged'
    BY <1>0, <2>1, <2>4, <2>5 DEF HeldLogged
  <2>7. OnePlace' /\ OneLine'
    BY <1>0, <2>1, <2>3, <2>4, <2>5 DEF OnePlace, OneLine
  <2> QED BY <2>2, <2>6, <2>7 DEF PlaceInv, Books!LedgerNext
<1>3. ASSUME NEW e \in Event, TaskInsert(e) PROVE Goal
  <2>1. /\ task[e] = "insert" /\ UNCHANGED <<queue, batch, file, logged>>
        /\ InsertOk(<<e>>) \/ InsertErr(<<e>>)
        /\ \E s \in {"done", "append"} : task' = [task EXCEPT ![e] = s]
    BY <1>3 DEF TaskInsert
  <2>2. e \in TaskEvents /\ TaskEvents' \subseteq TaskEvents
    BY <1>0, <2>1 DEF TaskEvents, Pending
  <2>3. e \in logged /\ Elems(<<e>>) = {e} /\ Distinct(<<e>>)
    BY <1>0, <2>2, SingleBatch, SmallDistinct DEF HeldLogged, Volatile
  <2>4. [Books!LedgerNext]_(Books!ledgerVars) /\ rows' \subseteq rows \cup {e}
    <3>1. Elems(<<e>>) \subseteq logged
      BY <2>3
    <3> QED BY <2>1, <2>3, <3>1, InsertPosts
  <2>5. PlaceInv'
    BY <1>0, <2>1, <2>2, <2>3, <2>4, PlaceKeep DEF OnePlace, HeldLogged, Volatile
  <2> QED BY <2>4, <2>5
<1>4. ASSUME NEW e \in Event, TaskAppend(e) PROVE Goal
  <2>1. /\ task[e] = "append" /\ task' = [task EXCEPT ![e] = "done"]
        /\ UNCHANGED <<queue, batch, logged, rows, agg>> /\ (AppendOk(<<e>>) \/ AppendErr(<<e>>))
    BY <1>4 DEF TaskAppend
  <2>2. e \in TaskEvents /\ TaskEvents' = TaskEvents \ {e}
    BY <1>0, <2>1 DEF TaskEvents, Pending
  <2>3. <<e>> \in Seq(Event) /\ Elems(<<e>>) = {e} /\ Distinct(<<e>>)
    BY SingleBatch, SmallDistinct
  <2>4. Volatile' = Volatile \ {e} /\ e \in Volatile
    BY <1>0, <2>1, <2>2 DEF OnePlace, Volatile
  <2>5. /\ Distinct(queue') /\ Distinct(batch') /\ Elems(queue') \cap Elems(batch') = {}
        /\ TaskEvents' \cap (Elems(queue') \cup Elems(batch')) = {}
    BY <1>0, <2>1, <2>2 DEF OnePlace
  <2>6. CASE AppendOk(<<e>>)
    BY <2>1, <2>3, <2>4, <2>5, <2>6, PlaceAppend DEF Books!ledgerVars
  <2>7. CASE AppendErr(<<e>>)
    <3>1. UNCHANGED file /\ rows' \subseteq logged
      BY <1>0, <2>1, <2>7, CleanAppendErr DEF HeldLogged
    <3> QED BY <2>1, <2>4, <2>5, <3>1, PlaceKeep DEF Books!ledgerVars
  <2> QED BY <2>1, <2>6, <2>7
<1>5. CASE WriterRecv
  <2>1. /\ queue # <<>> /\ batch' = Append(batch, Head(queue)) /\ queue' = Tail(queue)
        /\ UNCHANGED <<task, logged, file, rows, agg>>
    BY <1>5 DEF WriterRecv
  <2>2. /\ Distinct(queue') /\ Elems(queue') \subseteq Elems(queue)
        /\ Head(queue) \notin Elems(queue') /\ Head(queue) \in Elems(queue)
    BY <1>0, <2>1, DistinctTail DEF OnePlace
  <2>3. Elems(batch') \cup Elems(queue') = Elems(batch) \cup Elems(queue)
    BY <1>0, <2>1, ElemsMove
  <2>4. Elems(batch') = Elems(batch) \cup {Head(queue)} /\ Distinct(batch')
    BY <1>0, <2>1, <2>2, ElemsAppend, DistinctAppend DEF OnePlace
  <2>5. TaskEvents' = TaskEvents /\ Volatile' = Volatile
    BY <2>1, <2>3 DEF TaskEvents, Volatile
  <2>6. Elems(queue') \cap Elems(batch') = {}
    BY <1>0, <2>2, <2>3, <2>4 DEF OnePlace
  <2>7. TaskEvents' \cap (Elems(queue') \cup Elems(batch')) = {}
    BY <1>0, <2>3, <2>5 DEF OnePlace
  <2>8. PlaceInv'
    BY <1>0, <2>1, <2>2, <2>4, <2>5, <2>6, <2>7, PlaceKeep DEF HeldLogged
  <2> QED BY <2>1, <2>8 DEF Books!ledgerVars
<1>6. CASE FlushInsert
  <2>1. /\ UNCHANGED <<queue, task, file, logged>> /\ (InsertOk(batch) \/ InsertErr(batch))
        /\ batch' = batch \/ batch' = <<>>
    BY <1>6 DEF FlushInsert
  <2>2. Elems(batch) \subseteq logged /\ Distinct(batch)
    BY <1>0 DEF HeldLogged, Volatile, OnePlace
  <2>3. [Books!LedgerNext]_(Books!ledgerVars) /\ rows' \subseteq rows \cup Elems(batch)
    BY <2>1, <2>2, InsertPosts
  <2>4. Elems(batch') \subseteq Elems(batch) /\ Distinct(batch') /\ TaskEvents' = TaskEvents
    BY <2>1, <2>2, SmallDistinct DEF TaskEvents
  <2>5. PlaceInv'
    BY <1>0, <2>1, <2>2, <2>3, <2>4, PlaceKeep DEF OnePlace, HeldLogged, Volatile
  <2> QED BY <2>3, <2>5
<1>7. CASE FlushAppend
  <2>1. /\ UNCHANGED <<queue, task, logged, rows, agg>>
        /\ (AppendOk(batch) /\ batch' = <<>>) \/ (AppendErr(batch) /\ UNCHANGED batch)
    BY <1>7 DEF FlushAppend
  <2>2. Elems(batch) \subseteq Volatile /\ Distinct(batch) /\ TaskEvents' = TaskEvents
    BY <1>0, <2>1 DEF Volatile, OnePlace, TaskEvents
  <2>3. CASE AppendOk(batch) /\ batch' = <<>>
    <3>1. Elems(batch') = {} /\ Distinct(batch')
      BY <2>3, SmallDistinct
    <3>2. Volatile' \subseteq Volatile \ Elems(batch)
      BY <1>0, <2>1, <2>2, <3>1 DEF Volatile, OnePlace
    <3> QED BY <1>0, <2>1, <2>2, <2>3, <3>1, <3>2, PlaceAppend DEF OnePlace, Books!ledgerVars
  <2>4. CASE AppendErr(batch) /\ UNCHANGED batch
    <3>1. UNCHANGED file
      BY <2>4, CleanAppendErr
    <3> QED BY <1>1, <2>1, <2>4, <3>1
  <2> QED BY <2>1, <2>3, <2>4
<1>8. CASE WriterDrain
  <2>1. /\ UNCHANGED <<queue, task, file, logged, rows, agg>>
        /\ batch' = batch \/ batch' = <<>>
    BY <1>8 DEF WriterDrain
  <2>2. Elems(batch') \subseteq Elems(batch) /\ Distinct(batch') /\ TaskEvents' = TaskEvents
    BY <1>0, <2>1, SmallDistinct DEF TaskEvents, OnePlace
  <2>3. PlaceInv'
    BY <1>0, <2>1, <2>2, PlaceKeep DEF OnePlace, HeldLogged, Volatile
  <2> QED BY <2>1, <2>3 DEF Books!ledgerVars
<1>9. CASE ReplayInsert
  <2> DEFINE evs == [i \in Chunk |-> file[rfile][i].ev]
  <2>1. /\ rpc = "insert" /\ (InsertOk(evs) \/ InsertErr(evs))
        /\ UNCHANGED <<queue, batch, task, file, logged>>
    BY <1>9 DEF ReplayInsert
  <2>2. Distinct(evs) /\ Elems(evs) \subseteq logged
    BY <2>1, ChunkDistinct
  <2> HIDE DEF evs
  <2>3. [Books!LedgerNext]_(Books!ledgerVars) /\ rows' \subseteq rows \cup Elems(evs)
    BY <2>1, <2>2, InsertPosts
  <2>4. PlaceInv'
    BY <1>0, <2>1, <2>2, <2>3, PlaceKeep DEF OnePlace, HeldLogged, Volatile, TaskEvents
  <2> QED BY <2>3, <2>4
<1>10. CASE JoinEnd \/ JoinTimeout \/ Crash
  <2>1. /\ UNCHANGED <<file, logged, rows, agg>> /\ queue' = <<>> /\ batch' = <<>>
        /\ task' = [e \in Event |-> "none"]
    BY <1>10 DEF JoinEnd, JoinTimeout, Crash, ProcessEnds
  <2>2. TaskEvents' = {} /\ Elems(queue') = {} /\ Elems(batch') = {} /\ Volatile' = {}
        /\ Distinct(queue') /\ Distinct(batch')
    BY <2>1, SmallDistinct DEF TaskEvents, Pending, Volatile
  <2>3. PlaceInv'
    BY <1>0, <2>1, <2>2, PlaceKeep DEF HeldLogged
  <2> QED BY <2>1, <2>3 DEF Books!ledgerVars
<1>11. CASE WriterTimer \/ WriterClosed \/ FlushWake
  BY <1>1, <1>11 DEF WriterTimer, WriterClosed, FlushWake
<1>12. CASE ReplayList \/ ReplayRead \/ ReplayArchive \/ ReplayDone
  BY <1>1, <1>12 DEF ReplayList, ReplayRead, ReplayArchive, ReplayDone
<1>13. ASSUME NEW f \in FileId, ReplayStat(f) PROVE Goal
  BY <1>1, <1>13 DEF ReplayStat
<1>14. ASSUME NEW e \in Event, DropPartition(e) PROVE Goal
  BY <1>1, <1>14 DEF DropPartition
<1>15. CASE Signal \/ DrainEnd \/ WaitEnd \/ Start
  BY <1>1, <1>15 DEF Signal, DrainEnd, WaitEnd, Start
<1>16. CASE UNCHANGED vars
  BY <1>1, <1>16 DEF vars
<1> HIDE DEF Goal
<1> QED BY <1>2, <1>3, <1>4, <1>5, <1>6, <1>7, <1>8, <1>9, <1>10, <1>11, <1>12, <1>13, <1>14,
           <1>15, <1>16
        DEF Next, Task, Writer, Replay, Process

\* As long as failing WAL writes leave nothing behind, the pipeline implements the ledger:
\* whatever is retried, replayed, committed unseen, interrupted or restarted, an event is
\* posted only after it was logged and once, its row together with its aggregates.
THEOREM PipelineIsALedger ==
    ASSUME CleanWrites PROVE Spec => ImplementsLedger
<1>1. Init => TypeOK /\ DurInv /\ PlaceInv /\ Books!LedgerInit
  <2>1. Init => PlaceInv
    BY SmallDistinct DEF Init, PlaceInv, HeldLogged, OnePlace, OneLine, InFile, Volatile,
                         TaskEvents, Pending
  <2>2. Init => Books!LedgerInit
    BY DEF Init, Books!LedgerInit
  <2> QED BY <2>1, <2>2, TypeInit, DurInit
<1>2. TypeOK /\ DurInv /\ PlaceInv /\ [Next]_vars
        => (TypeOK /\ DurInv /\ PlaceInv)' /\ [Books!LedgerNext]_(Books!ledgerVars)
  BY TypeStep, DurStep, PlaceStep
<1> QED BY <1>1, <1>2, PTL DEF Spec, ImplementsLedger, Books!LedgerSpec

=============================================================================
