--------------------------- MODULE StreamBilling ---------------------------
(***************************************************************************)
(* How a streamed answer is metered.  TeeStream keeps the last             *)
(* STREAM_TEXT_MAX bytes of what it forwards to the client (append_chunk), *)
(* and finalize_stream reads the usage from that text in the client's      *)
(* protocol (extract_sse_usage).  An answer that is not streamed is        *)
(* metered from the upstream's own body, so that is what the bill of a     *)
(* stream ought to be.                                                     *)
(*                                                                         *)
(* Only events and their usage are kept.  An event is two halves, so that  *)
(* the text may begin or end inside of one; a converted stream is          *)
(* forwarded event by event and any other in pieces of any size.  An       *)
(* optional usage is a sequence of length at most one.                     *)
(***************************************************************************)
EXTENDS Integers, Sequences, FiniteSetsExt, Usage

CONSTANTS
    MeterPairs,     \* <<protocol of the upstream, protocol of the client>>
    MeterTotals,    \* what an upstream may count, in its own terms
    MaxDeltas,      \* bound on the content events of the upstream
    TextMax,        \* STREAM_TEXT_MAX, in halves
    BillingGaps     \* losses that are not held against the code: "late_usage"
                    \* (a converted stream tells an Anthropic client its input
                    \* at the end), "cut_answer" (response.incomplete),
                    \* "cache_write" (no such field), "long_stream" (the text
                    \* has lost its message_start)

MeterProtocols == {"chat", "responses", "anthropic", "gemini"}
UsageReports ==
    [input : Nat, cached : Nat, output : Nat, thoughts : Nat, write : Nat, recorded : BOOLEAN]

\* The text holds the last two events at least.
ASSUME MeterAssumption ==
    /\ MeterPairs \subseteq MeterProtocols \X MeterProtocols
    /\ MeterTotals \subseteq UsageReports
    /\ MaxDeltas \in Nat /\ TextMax \in Nat /\ TextMax >= 4

VARIABLES
    line,       \* <<upstream, client>>
    total,      \* what the upstream counts in the end
    source,     \* the upstream: its events, its last report, how it ended
    meter,      \* the converters: what they remember of usage
    pipe,       \* halves the TeeStream has not polled yet
    text,       \* StreamCollect.text
    bill        \* the usage in the log event, if there is one

meterVars == <<line, total, source, meter, pipe, text, bill>>

LineUp == line[1]
LineClient == line[2]
Passthrough == LineUp = LineClient

MeterEvent(k, use) == [k |-> k, use |-> use]

-----------------------------------------------------------------------------
(* The converters, as far as usage goes.  A chunk is its finish and usage.   *)

MeterStart == [seen |-> DefaultUsage, started |-> FALSE, pend |-> "none", use |-> <<>>, ended |-> FALSE]

IrChunkOf(fin, use) == [fin |-> fin, use |-> use]

\* What an Anthropic stream said so far: input and cache from message_start,
\* the largest output of any message_delta; only the end hands it on
anthropic_in(e, fin) ==
    LET u == IF e.use = <<>> THEN meter.seen ELSE parse_usage("anthropic", e.use[1])
    IN  CASE e.k = "message_start" -> [seen |-> u, chunk |-> IrChunkOf("none", <<>>)]
          [] e.k \in {"message_delta", "error"} ->
                LET m == [meter.seen EXCEPT !.completion = IF u.completion > @ THEN u.completion ELSE @,
                                            !.cache_read = u.cache_read, !.cache_write = u.cache_write]
                IN  [seen |-> m, chunk |-> IrChunkOf(fin, <<m>>)]
          [] OTHER -> [seen |-> meter.seen, chunk |-> IrChunkOf("none", <<>>)]

chunk_usage(e, fin) ==
    IF LineUp = "anthropic"
    THEN anthropic_in(e, fin)
    ELSE [seen |-> meter.seen,
          chunk |-> IrChunkOf(fin, IF e.use = <<>> THEN <<>> ELSE <<parse_usage(LineUp, e.use[1])>>)]

Told(use) == IF use = <<>> THEN <<>> ELSE <<usage_from_ir(LineClient, use[1])>>

AnthropicEnd(m) == MeterEvent("message_delta", <<usage_to_anthropic(IF m.use = <<>> THEN DefaultUsage ELSE m.use[1])>>)

message_start_event(known) ==
    MeterEvent("message_start", <<usage_to_anthropic([known EXCEPT !.completion = 0])>>)

\* message_start goes out with the first chunk, the figures with the finish,
\* or with the usage that follows it
anthropic_out(c, m) ==
    LET known == IF c.use = <<>> THEN DefaultUsage ELSE c.use[1]
        start == IF m.started THEN <<>>
                 ELSE <<message_start_event(known)>>
        most  == IF m.use # <<>> /\ m.use[1].completion > known.completion THEN m.use[1].completion ELSE known.completion
        u     == [m EXCEPT !.started = TRUE,
                           !.use = IF c.use = <<>> THEN @ ELSE <<[known EXCEPT !.completion = most]>>]
        ends  == ~m.ended /\ \/ c.fin = "failed"
                             \/ c.fin # "none" /\ c.use # <<>>
                             \/ c.fin = "none" /\ m.pend # "none" /\ c.use # <<>>
    IN  IF ends
        THEN [m |-> [u EXCEPT !.ended = TRUE, !.pend = "none"], events |-> Append(start, AnthropicEnd(u))]
        ELSE [m |-> [u EXCEPT !.pend = IF c.fin = "none" THEN @ ELSE c.fin],
              events |-> start \o (IF c.fin = "none" /\ m.started THEN <<MeterEvent("delta", <<>>)>> ELSE <<>>)]

ResponsesEnd(fin, use) ==
    MeterEvent(CASE fin = "failed" -> "failed" [] fin = "length" -> "incomplete" [] OTHER -> "completed", Told(use))

\* The one event with usage is the last, sent once finish and usage are known
responses_out(c, m) ==
    LET u == [m EXCEPT !.started = TRUE, !.use = IF c.use = <<>> THEN @ ELSE c.use,
                       !.pend = IF c.fin = "none" THEN @ ELSE c.fin]
    IN  IF ~u.ended /\ u.pend # "none" /\ (u.pend = "failed" \/ u.use # <<>>)
        THEN [m |-> [u EXCEPT !.ended = TRUE, !.pend = "none"], events |-> <<ResponsesEnd(u.pend, u.use)>>]
        ELSE [m |-> u, events |-> IF c.fin = "none" THEN <<MeterEvent("delta", <<>>)>> ELSE <<>>]

\* Chat and Gemini: usage goes out with the chunk it came in
client_events(c, m) ==
    CASE LineClient = "anthropic" -> anthropic_out(c, m)
      [] LineClient = "responses" -> responses_out(c, m)
      [] OTHER -> [m |-> m, events |-> <<MeterEvent("chunk", Told(c.use))>>]

\* stream_end and stream_fail_end
last_events(failed) ==
    LET fin == IF failed THEN "failed" ELSE meter.pend
    IN  CASE LineClient = "anthropic" ->
                (IF meter.started /\ ~meter.ended THEN <<AnthropicEnd(meter)>> ELSE <<>>)
                    \o (IF meter.started THEN <<MeterEvent("message_stop", <<>>)>> ELSE <<>>)
          [] LineClient = "responses" -> IF meter.ended THEN <<>> ELSE <<ResponsesEnd(fin, meter.use)>>
          [] LineClient = "chat" -> <<MeterEvent("done", <<>>)>>
          [] LineClient = "gemini" -> <<>>

-----------------------------------------------------------------------------
(* Collecting and metering.                                                  *)

Halves(events) ==
    [i \in 1 .. 2 * Len(events) |-> [e |-> events[(i + 1) \div 2], h |-> IF i % 2 = 1 THEN 1 ELSE 2]]

\* Bug: the text is cut at its end
append_chunk_KeepsHead(t, bytes) ==
    LET all == t \o bytes IN SubSeq(all, 1, IF Len(all) > TextMax THEN TextMax ELSE Len(all))

append_chunk(t, bytes) ==
    LET all == t \o bytes
    IN  SubSeq(all, IF Len(all) > TextMax THEN Len(all) - TextMax + 1 ELSE 1, Len(all))

\* Lines that parse, by the place of their first half: an event of which a half
\* is missing is skipped.
parse_sse_data(t) == {i \in 1 .. Len(t) - 1 : t[i].h = 1}

uncached_prompt(prompt, cached) == SatSub(prompt, cached)

extract_json_usage(p, u) ==
    [prompt     |-> IF p = "anthropic" THEN u.input ELSE uncached_prompt(u.input, u.cached),
     completion |-> IF p = "gemini" THEN u.output + u.thoughts ELSE u.output,
     read       |-> u.cached,
     write      |-> IF p = "anthropic" THEN u.write ELSE 0]

Unbilled == [prompt |-> 0, completion |-> 0, read |-> 0, write |-> 0]

\* The last event that carries usage, for an Anthropic client the last
\* message_start and the last message_delta
extract_sse_usage(p, t) ==
    LET With(ks) == {i \in parse_sse_data(t) : t[i].e.k \in ks /\ t[i].e.use # <<>>}
        Final(ks) == IF With(ks) = {} THEN Unbilled ELSE extract_json_usage(p, t[Max(With(ks))].e.use[1])
    IN  CASE p = "anthropic" -> [Final({"message_start"}) EXCEPT !.completion = Final({"message_delta"}).completion]
          [] p = "responses" -> Final({"completed"})
          [] OTHER           -> Final({"chunk"})

-----------------------------------------------------------------------------
(* Steps.                                                                    *)

MeterInit ==
    /\ line \in MeterPairs
    /\ total \in MeterTotals
    /\ total.write > 0 => LineUp = "anthropic"
    /\ total.thoughts > 0 => LineUp # "anthropic"
    /\ LineUp \in {"chat", "responses"} => total.thoughts <= total.output
    /\ source = [deltas |-> -1, said |-> 0, last |-> <<>>, fin |-> "none", over |-> "no"]
    /\ meter = MeterStart
    /\ pipe = <<>> /\ text = <<>> /\ bill = <<>>

\* The upstream sends e, which finishes the answer by fin or not ("none")
UpSends(e, fin) ==
    LET r == chunk_usage(e, fin)
        o == client_events(r.chunk, [meter EXCEPT !.seen = r.seen])
    IN  /\ source.over = "no" /\ pipe = <<>> /\ bill = <<>>
        /\ IF Passthrough
           THEN pipe' = Halves(<<e>>) /\ UNCHANGED meter
           ELSE pipe' = Halves(o.events) /\ meter' = o.m
        /\ UNCHANGED <<line, total, text, bill>>

SoFar(n) == Usage(total.input, total.cached, n, IF n = total.output THEN total.thoughts ELSE 0, total.write, FALSE)

\* The first event, and content; Gemini says in each event what it counted
\* up to then, Anthropic what it read in its first event
UpContent ==
    /\ source.fin = "none" /\ source.deltas < MaxDeltas
    /\ \E n \in IF LineUp = "gemini" THEN source.said .. total.output ELSE {0} :
        LET first == source.deltas = -1
            use == IF LineUp = "gemini" \/ (LineUp = "anthropic" /\ first) THEN <<SoFar(n)>> ELSE <<>>
            e == MeterEvent(CASE LineUp = "anthropic" -> IF first THEN "message_start" ELSE "delta"
                         [] LineUp = "responses" -> "delta"
                         [] OTHER -> "chunk", use)
        IN  /\ UpSends(e, "none")
            /\ source' = [source EXCEPT !.deltas = @ + 1, !.said = n, !.last = IF use = <<>> THEN @ ELSE use]

\* The finish, with the figures; chat may send them afterwards
UpFinish ==
    /\ source.deltas >= 0 /\ source.fin = "none"
    /\ \E fin \in {"stop", "length"}, now \in BOOLEAN :
        LET use == IF now THEN <<total>> ELSE <<>>
        IN  /\ now \/ LineUp = "chat"
            /\ UpSends(MeterEvent(CASE LineUp = "anthropic" -> "message_delta"
                            [] LineUp = "responses" -> IF fin = "length" THEN "incomplete" ELSE "completed"
                            [] OTHER -> "chunk", use), fin)
            /\ source' = [source EXCEPT !.fin = fin, !.last = IF now THEN use ELSE @]

UpTail ==
    /\ source.fin \in {"stop", "length"} /\ source.last = <<>>
    /\ UpSends(MeterEvent("chunk", <<total>>), "none")
    /\ source' = [source EXCEPT !.last = <<total>>]

\* An error event of Anthropic, response.failed of Responses
UpFailure ==
    /\ LineUp \in {"anthropic", "responses"}
    /\ source.deltas >= 0 /\ source.fin = "none"
    /\ UpSends(MeterEvent(IF LineUp = "anthropic" THEN "error" ELSE "failed", <<>>), "failed")
    /\ source' = [source EXCEPT !.fin = "failed"]

\* The upstream's stream ends or breaks; a converter then sends what is missing
SourceEnds ==
    /\ source.over = "no" /\ pipe = <<>> /\ bill = <<>>
    /\ \E over \in {"eof", "broken"} :
        /\ source' = [source EXCEPT !.over = over]
        /\ pipe' = IF Passthrough THEN <<>> ELSE Halves(last_events(over = "broken"))
    /\ UNCHANGED <<line, total, meter, text, bill>>

\* poll_next hands on the next piece and keeps a copy
Poll ==
    /\ pipe # <<>> /\ bill = <<>>
    /\ LET n == IF Passthrough THEN 1 ELSE 2
       IN  /\ text' = append_chunk(text, SubSeq(pipe, 1, n))
           /\ pipe' = SubSeq(pipe, n + 1, Len(pipe))
    /\ UNCHANGED <<line, total, source, meter, bill>>

\* The end was polled, or the client left and the body is dropped
finalize_stream ==
    /\ bill = <<>>
    /\ bill' = <<extract_sse_usage(LineClient, text)>>
    /\ UNCHANGED <<line, total, source, meter, pipe, text>>

MeterNext == UpContent \/ UpFinish \/ UpTail \/ UpFailure \/ SourceEnds \/ Poll \/ finalize_stream

MeterSpec == MeterInit /\ [][MeterNext]_meterVars

-----------------------------------------------------------------------------
MeterTypeOK ==
    /\ line \in MeterPairs /\ total \in MeterTotals
    /\ source.deltas \in -1 .. MaxDeltas /\ source.over \in {"no", "eof", "broken"}
    /\ Len(text) <= TextMax
    /\ Len(bill) <= 1

\* What is due for a report of the upstream, by the meaning of its protocol
Due(u) ==
    LET b == Bill(LineUp, u)
    IN  [prompt |-> b.fresh, completion |-> b.output, read |-> b.cached,
         write |-> IF LineUp = "anthropic" THEN u.write ELSE 0]

\* A loss of field f that BillingGaps names
KnownLoss(f) ==
    \/ /\ "late_usage" \in BillingGaps /\ f \in {"prompt", "read"}
       /\ LineClient = "anthropic" /\ LineUp \in {"chat", "responses"}
    \/ "cut_answer" \in BillingGaps /\ LineClient = "responses" /\ source.fin = "length"
    \/ "cache_write" \in BillingGaps /\ f = "write" /\ LineClient # "anthropic"
    \/ /\ "long_stream" \in BillingGaps /\ f # "completion"
       /\ LineClient = "anthropic" /\ ~\E i \in DOMAIN text : text[i].h = 1 /\ text[i].e.k = "message_start"

\* An answer that was streamed to its end is billed what the same answer would
\* have cost in one piece: the usage survives the conversion, the limit on the
\* collected text and the reading of it, field by field, except for the losses
\* that BillingGaps names.  (gateway.rs append_chunk: long streams are metered
\* without distortion; usage.rs extract_sse_usage.)
BilledAsWhole ==
    bill # <<>> /\ source.over = "eof" /\ pipe = <<>> /\ source.fin \in {"stop", "length"} /\ source.last # <<>> =>
        \A f \in DOMAIN bill[1] : bill[1][f] = Due(total)[f] \/ KnownLoss(f)

\* Whenever a stream is cut off, by the client or by the upstream, no field of
\* the bill exceeds what the upstream had reported: a figure repeated in
\* several events is not added up, and cached input is not billed as fresh.
NeverOverbilled ==
    bill # <<>> =>
        LET due == IF source.last = <<>> THEN Unbilled ELSE Due(source.last[1])
        IN  \A f \in DOMAIN due : bill[1][f] <= due[f]

\* A stream is billed what the same answer costs in one piece if it ran to its end, and
\* never more than the upstream reported if it did not.
BilledFairly == MeterTypeOK /\ BilledAsWhole /\ NeverOverbilled
=============================================================================
