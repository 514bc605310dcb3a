-------------------------------- MODULE Sse --------------------------------
(***************************************************************************)
(* SseParser and the pass-through of a stream.  The upstream's bytes come  *)
(* in chunks that end anywhere; every complete event is rewritten and      *)
(* queued for the client.  A byte here is one of                           *)
(*   "d"       the field name "data:" at the start of a line               *)
(*   "b"       the field name without its colon, "data"                    *)
(*   "x"       content of a field, or the start of another line            *)
(*   "r", "n"  CR and LF                                                   *)
(* The stream is sent byte by byte; a chunk ends after any byte.           *)
(***************************************************************************)
EXTENDS Integers, Sequences, SequencesExt

CONSTANTS MaxBytes,     \* bound on the bytes of a stream
          StreamBytes   \* bytes used

Bytes == {"d", "b", "x", "r", "n"}

ASSUME SseAssumption == MaxBytes \in Nat /\ StreamBytes \subseteq Bytes

VARIABLES
    sent,       \* bytes the upstream has sent
    chunk,      \* the ones that have not been delivered
    buf,        \* SseParser.buf
    data_lines, \* SseParser.data_lines
    queue,      \* events of the client's stream
    sse_end     \* PassthroughState.done: "open", "ended", or "broken" when the
                \* last item of the queue is an error

sseVars == <<sent, chunk, buf, data_lines, queue, sse_end>>

-----------------------------------------------------------------------------
\* The content of a line without its CR, LF
TrimEnd(line) ==
    LET keep == {i \in DOMAIN line : line[i] \notin {"r", "n"}}
    IN  IF keep = {} THEN <<>> ELSE SubSeq(line, 1, CHOOSE i \in keep : \A j \in keep : j <= i)

\* A field name without colon and content is an empty data line.
IsData(line) == line # <<>> /\ (line[1] = "d" \/ line = <<"b">>)

\* One complete line: an empty one ends the event, a data line joins it, any
\* other is ignored.
ParseLine(p, raw) ==
    LET line == TrimEnd(raw)
    IN  CASE line = <<>> /\ p.lines # <<>> -> [lines |-> <<>>, out |-> Append(p.out, p.lines)]
          [] IsData(line) -> [p EXCEPT !.lines = Append(@, Tail(line))]
          [] OTHER -> p

\* The bytes up to each line feed make a line; what follows the last one is left.
Cut[bytes \in Seq(Bytes)] ==
    IF bytes = <<>> THEN [lines |-> <<>>, rest |-> <<>>]
    ELSE LET before == Cut[Front(bytes)]
             line   == Append(before.rest, Last(bytes))
         IN  IF Last(bytes) = "n" THEN [lines |-> Append(before.lines, line), rest |-> <<>>]
             ELSE [lines |-> before.lines, rest |-> line]

\* The complete lines of the buffer, and what is left of it
Lines(bytes) == Cut[bytes].lines

\* Bug: the whole buffer is dropped once a line was read.
Rest_DropsTail(bytes) == IF Cut[bytes].lines = <<>> THEN bytes ELSE <<>>

Rest(bytes) == Cut[bytes].rest

\* The lines one after the other
ParseLines(start, lines) ==
    LET after[ls \in Seq(Seq(Bytes))] == IF ls = <<>> THEN start ELSE ParseLine(after[Front(ls)], Last(ls))
    IN  after[lines]

feed(p, b) == ParseLines([lines |-> p.lines, out |-> <<>>], Lines(p.buf \o b))

\* In an unfinished line the field name counts only with its colon.
Unfinished(rest) == IF TrimEnd(rest) = <<"b">> THEN <<>> ELSE rest

\* What is left when the stream ends: an unfinished data line and the event
finish(p) ==
    LET line  == TrimEnd(Unfinished(p.buf))
        lines == IF IsData(line) THEN Append(p.lines, Tail(line)) ELSE p.lines
    IN  IF lines = <<>> THEN <<>> ELSE <<lines>>

Parser == [buf |-> buf, lines |-> data_lines]

\* encode_event: one data line for each line of the event
encode_event(ev) ==
    FlattenSeq([i \in DOMAIN ev |-> <<"d">> \o ev[i] \o <<"n">>]) \o <<"n">>

-----------------------------------------------------------------------------
SseInit ==
    /\ sent = <<>> /\ chunk = <<>> /\ buf = <<>> /\ data_lines = <<>> /\ queue = <<>>
    /\ sse_end = "open"

\* The upstream writes a byte.
WriteByte ==
    /\ sse_end = "open" /\ Len(sent) < MaxBytes
    /\ \E b \in StreamBytes :
        /\ sent' = Append(sent, b)
        /\ chunk' = Append(chunk, b)
    /\ UNCHANGED <<buf, data_lines, queue, sse_end>>

\* Some(Ok(bytes)): feed, rewrite and queue
DeliverChunk ==
    /\ sse_end = "open" /\ chunk # <<>>
    /\ data_lines' = feed(Parser, chunk).lines
    /\ queue' = queue \o feed(Parser, chunk).out
    /\ buf' = Rest(buf \o chunk)
    /\ chunk' = <<>>
    /\ UNCHANGED <<sent, sse_end>>

\* None, or Some(Err): flush, and in the second case report the error last
EndStream ==
    /\ sse_end = "open" /\ chunk = <<>>
    /\ sse_end' \in {"ended", "broken"}
    /\ queue' = queue \o finish(Parser)
    /\ buf' = <<>> /\ data_lines' = <<>>
    /\ UNCHANGED <<sent, chunk>>

SseNext == WriteByte \/ DeliverChunk \/ EndStream

SseSpec == SseInit /\ [][SseNext]_sseVars

-----------------------------------------------------------------------------
SseTypeOK ==
    /\ sse_end \in {"open", "ended", "broken"}
    /\ \A i \in DOMAIN buf : buf[i] # "n"

Delivered == SubSeq(sent, 1, Len(sent) - Len(chunk))

\* The numbers of a set up to n, in ascending order
Ascending(S, n) ==
    LET upto[i \in Nat] == IF i = 0 THEN <<>> ELSE IF i \in S THEN Append(upto[i - 1], i) ELSE upto[i - 1]
    IN  upto[n]

\* The events of lines ls of which those in ends complete one: the data lines between two
\* ends are an event.
Grouped(ls, ends) ==
    LET data(e) == {i \in 1 .. e : IsData(TrimEnd(ls[i])) /\ \A f \in ends : f < i \/ e <= f}
        body(e) == LET at == Ascending(data(e), e) IN [i \in DOMAIN at |-> Tail(TrimEnd(ls[at[i]]))]
        order   == Ascending({e \in ends : data(e) # {}}, Len(ls))
    IN  [i \in DOMAIN order |-> body(order[i])]

\* Reference: cut the whole text into lines and group the data lines; an
\* event is complete at an empty line, or at the end of the text.
RefEvents(bytes, ended) ==
    LET ls == Append(Lines(bytes), Unfinished(Rest(bytes)))
        n  == Len(ls)
    IN  Grouped(ls, {i \in 1 .. n - 1 : TrimEnd(ls[i]) = <<>>} \cup (IF ended THEN {n} ELSE {}))

\* However the bytes are cut into chunks, the client has exactly the events
\* of the text delivered so far, and after the end the unfinished one too.
CutsDoNotMatter ==
    queue = RefEvents(Delivered, sse_end # "open")

\* An event that is written out again reads as the same event, also when it
\* has several lines.
EncodingReads ==
    \A i \in DOMAIN queue : RefEvents(encode_event(queue[i]), FALSE) = <<queue[i]>>

\* Events survive the transport: neither the cuts between chunks nor writing them out
\* again changes one.
EventsWhole == SseTypeOK /\ CutsDoNotMatter /\ EncodingReads
=============================================================================
