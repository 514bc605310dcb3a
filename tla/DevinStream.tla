---------------------------- MODULE DevinStream ----------------------------
(***************************************************************************)
(* The replies of the Devin channel: enveloped frames that arrive in       *)
(* chunks cut anywhere, and StreamConv, which turns them into the events   *)
(* of the Responses protocol.  frame_sse_stream serves a streaming client; *)
(* execute_nonstream reads the same frames and answers at the end.         *)
(*                                                                         *)
(* A byte of the wire is a cell: the flags and the length of a frame's     *)
(* header, and one cell for each field of its payload.  The text of the    *)
(* n-th frame is the token n.                                              *)
(***************************************************************************)
EXTENDS Integers, Sequences, SequencesExt, FiniteSets, TLC

CONSTANTS
    DevinPayloads,  \* payloads: sequences of fields
    MaxDevinFrames, \* bound on the data frames of a reply
    MaxFrameBytes,  \* MAX_FRAME_BYTES
    MaxBufferBytes, \* MAX_BUFFER_BYTES
    WireMax,        \* bound on the cells under way
    DevinFaults     \* what the provider and the network do besides

VARIABLES
    devin,      \* the provider: frames sent, cells under way, closed or not
    st,         \* frame_sse_stream: buf, conv, end_seen, done
    devin_out,  \* the items of the client's stream
    whole       \* execute_nonstream: "open", "error", or "ok" with the answer

devinVars == <<devin, st, devin_out, whole>>

Header == 2
NoFragment == -1
Cell(b, v) == [b |-> b, v |-> v]
Field(k, id, n) == [k |-> k, id |-> id, n |-> n]
Usage0 == [input_uncached |-> 0, cache_read |-> 0, output |-> 0]
NoUsage == [input_uncached |-> -1, cache_read |-> -1, output |-> -1]
Failed == [is |-> "error"]
Item(kind, id, index, text) == [kind |-> kind, id |-> id, index |-> index, text |-> text]

-----------------------------------------------------------------------------
(* FrameParser: the complete frames of the buffer and the rest of it, or     *)
(* nothing but an error when a header announces too much.                    *)
Frames(b) ==
    LET parse[i \in Nat] ==
            IF Len(b) - i < Header THEN [frames |-> <<>>, rest |-> i, bad |-> FALSE]
            ELSE LET n == b[i + 2].v
                 IN  CASE n > MaxFrameBytes -> [frames |-> <<>>, rest |-> i, bad |-> TRUE]
                       [] n <= MaxFrameBytes /\ Len(b) - i < Header + n ->
                            [frames |-> <<>>, rest |-> i, bad |-> FALSE]
                       [] OTHER ->
                            LET frame == [flags |-> b[i + 1].v,
                                          payload |-> [j \in 1 .. n |-> b[i + Header + j].v]]
                                tail == parse[i + Header + n]
                            IN  [tail EXCEPT !.frames = <<frame>> \o @]
    IN  parse[0]

-----------------------------------------------------------------------------
(* StreamConv                                                                *)
ConvNew == [created |-> FALSE, finished |-> FALSE, reasoning |-> -1, message |-> -1, next_index |-> 0,
            reasoning_text |-> <<>>, msg_text |-> <<>>, calls |-> <<>>, usage |-> NoUsage]

Event(e, index, what) == [e |-> e, index |-> index, what |-> what]

\* An accumulator: the converter, the events of this frame, and an error
Acc(conv, out, err) == [conv |-> conv, out |-> out, err |-> err]

feed_text(a, n) ==
    LET c == a.conv
        new == c.message = -1
        at == IF new THEN c.next_index ELSE c.message
    IN  [a EXCEPT !.conv = [c EXCEPT !.message = at, !.msg_text = Append(@, n),
                                     !.next_index = IF new THEN @ + 1 ELSE @],
                  !.out = @ \o (IF new THEN <<Event("added", at, "message")>> ELSE <<>>)
                            \o <<Event("delta", at, n)>>]

feed_thinking(a, n) ==
    LET c == a.conv
        new == c.reasoning = -1
        at == IF new THEN c.next_index ELSE c.reasoning
    IN  [a EXCEPT !.conv = [c EXCEPT !.reasoning = at, !.reasoning_text = Append(@, n),
                                     !.next_index = IF new THEN @ + 1 ELSE @],
                  !.out = @ \o (IF new THEN <<Event("added", at, "reasoning")>> ELSE <<>>)
                            \o <<Event("delta", at, n)>>]

\* Bug: every fragment belongs to the call that was opened last
feed_tool_delta_ToLast(a, id, n) ==
    LET c == a.conv
        opens == id # "" /\ \A i \in DOMAIN c.calls : c.calls[i].id # id
        calls == IF opens THEN Append(c.calls, Item("function_call", id, c.next_index, <<>>)) ELSE c.calls
        frag == IF n = NoFragment THEN <<>> ELSE <<n>>
    IN  IF calls = <<>> THEN a
        ELSE [a EXCEPT !.conv = [c EXCEPT !.calls = [calls EXCEPT ![Len(calls)].text = @ \o frag],
                                          !.next_index = IF opens THEN @ + 1 ELSE @],
                       !.out = @ \o (IF opens THEN <<Event("added", c.next_index, id)>> ELSE <<>>)
                                 \o (IF frag = <<>> THEN <<>> ELSE <<Event("delta", Last(calls).index, n)>>)]

\* A fragment belongs to the call it names; one without a name to the call
\* that was opened last, and to none if there is none.
feed_tool_delta(a, id, n) ==
    LET c == a.conv
        known == {i \in DOMAIN c.calls : c.calls[i].id = id}
        opens == id # "" /\ known = {}
        calls == IF opens THEN Append(c.calls, Item("function_call", id, c.next_index, <<>>)) ELSE c.calls
        i == IF known # {} THEN CHOOSE j \in known : TRUE ELSE Len(calls)
        frag == IF n = NoFragment THEN <<>> ELSE <<n>>
    IN  IF calls = <<>> THEN a
        ELSE [a EXCEPT !.conv = [c EXCEPT !.calls = [calls EXCEPT ![i].text = @ \o frag],
                                          !.next_index = IF opens THEN @ + 1 ELSE @],
                       !.out = @ \o (IF opens THEN <<Event("added", c.next_index, id)>> ELSE <<>>)
                                 \o (IF frag = <<>> THEN <<>> ELSE <<Event("delta", calls[i].index, n)>>)]

\* The figures roll: each frame gives some of them, and the last ones count.
feed_usage(a, id, n) ==
    LET u == IF a.conv.usage = NoUsage THEN Usage0 ELSE a.conv.usage
    IN  [a EXCEPT !.conv.usage = CASE id = "prompt" -> [u EXCEPT !.input_uncached = n, !.cache_read = n]
                                   [] id = "output" -> [u EXCEPT !.output = n]]

FeedField(a, f) ==
    IF a.err THEN a
    ELSE CASE f.k = "text" -> feed_text(a, f.n)
           [] f.k = "think" -> feed_thinking(a, f.n)
           [] f.k = "call" -> feed_tool_delta(a, f.id, f.n)
           [] f.k = "usage" -> feed_usage(a, f.id, f.n)
           [] f.k = "stop" -> a
           [] f.k = "garbled_call" -> [a EXCEPT !.err = TRUE]

items(c) ==
    (IF c.reasoning = -1 THEN {} ELSE {Item("reasoning", "", c.reasoning, c.reasoning_text)})
    \cup (IF c.message = -1 THEN {} ELSE {Item("message", "", c.message, c.msg_text)})
    \cup Range(c.calls)

\* The usage counts what came from the cache as input.
usage_json(u) ==
    IF u = NoUsage THEN u ELSE [u EXCEPT !.input_uncached = u.input_uncached + u.cache_read]

build_final(c) == [output |-> items(c), usage |-> usage_json(c.usage)]

\* The items are closed in the order in which they were opened.
finish_events(c) ==
    LET inOrder == SortSeq(SetToSeq(items(c)), LAMBDA x, y : x.index < y.index)
    IN  [i \in DOMAIN inOrder |-> Event("done", inOrder[i].index, inOrder[i].text)]
          \o <<Event("completed", -1, build_final(c))>>

Created(c) == IF c.created THEN <<>> ELSE <<Event("created", -1, "")>>

conv_finish(c) ==
    IF c.finished THEN Acc(c, <<>>, FALSE)
    ELSE Acc([c EXCEPT !.created = TRUE, !.finished = TRUE], Created(c) \o finish_events(c), FALSE)

conv_fail(c) ==
    Acc([c EXCEPT !.finished = TRUE],
        IF c.finished \/ ~c.created THEN <<>> ELSE <<Event("failed", -1, build_final(c))>>, FALSE)

\* A data frame.  A payload that cannot be decoded changes nothing; a call
\* that cannot be decoded loses the events of its frame.
conv_feed(c, payload) ==
    IF \E i \in DOMAIN payload : payload[i].k = "garbled" THEN Acc(c, <<>>, TRUE)
    ELSE FoldLeft(FeedField, Acc([c EXCEPT !.created = TRUE], Created(c), FALSE), payload)

\* An end frame is an error only if it can be read as one.
end_frame_error(payload) == \E i \in DOMAIN payload : payload[i].k = "error"

frame_events(c, frame) ==
    CASE frame.flags = "end" -> IF end_frame_error(frame.payload) THEN Acc(c, <<>>, TRUE) ELSE conv_finish(c)
      [] frame.flags = "compressed" -> Acc(c, <<>>, TRUE)
      [] frame.flags = "data" -> conv_feed(c, frame.payload)

-----------------------------------------------------------------------------
(* The provider and the network                                              *)

DevinInit ==
    /\ devin = [sent |-> <<>>, wire |-> <<>>, closed |-> FALSE]
    /\ st = [buf |-> <<>>, conv |-> ConvNew, end_seen |-> FALSE, done |-> FALSE]
    /\ devin_out = <<>> /\ whole = [is |-> "open"]

Ended == \E i \in DOMAIN devin.sent : devin.sent[i].flags = "end"
Fault(f) == f \in DevinFaults

PutFrame(flags, payload, length) ==
    /\ ~st.done /\ ~devin.closed /\ ~Ended /\ Len(devin.wire) < WireMax
    /\ devin' = [devin EXCEPT !.sent = Append(@, [flags |-> flags, payload |-> payload]),
                              !.wire = @ \o <<Cell("flags", flags), Cell("length", length)>>
                                         \o [i \in DOMAIN payload |-> Cell("field", payload[i])]]
    /\ UNCHANGED <<st, devin_out, whole>>

\* The calls named so far, in the order of the fragments
Named(frames) ==
    LET fields == FlattenSeq([i \in DOMAIN frames |-> frames[i].payload])
        calls == SelectSeq(fields, LAMBDA f : f.k = "call" /\ f.id # "")
    IN  [i \in DOMAIN calls |-> calls[i].id]

\* The provider leaves out the name of a call only when it goes on with the
\* one it opened last (before the first call the fragment belongs to none).
MayOmit ==
    LET ids == Named(devin.sent)
        first == {i \in DOMAIN ids : \A j \in 1 .. i - 1 : ids[j] # ids[i]}
        newest == CHOOSE i \in first : \A j \in first : j <= i
    IN  IF ids = <<>> THEN TRUE ELSE ids[newest] = Last(ids) \/ Fault("omits")

\* A data frame; its texts, fragments and figures carry its number.
SendFrame(p) ==
    /\ Len(devin.sent) < MaxDevinFrames
    /\ \A i \in DOMAIN p : p[i].k = "call" /\ p[i].id = "" => MayOmit
    /\ \A i \in DOMAIN p : p[i].k \in {"garbled", "garbled_call"} => Fault(p[i].k)
    /\ PutFrame("data", [i \in DOMAIN p |-> [p[i] EXCEPT !.n = IF @ = NoFragment THEN @ ELSE Len(devin.sent) + 1]], Len(p))

\* A frame that the parser or frame_events refuses
SendOther ==
    /\ Len(devin.sent) < MaxDevinFrames
    /\ \/ Fault("compressed") /\ PutFrame("compressed", <<>>, 0)
       \/ Fault("oversize") /\ PutFrame("data", <<>>, MaxFrameBytes + 1)

\* The end frame: empty, an object without an error, or an error
SendEnd ==
    \/ PutFrame("end", <<>>, 0)
    \/ PutFrame("end", <<Field("no_error", "", 0)>>, 1)
    \/ Fault("error") /\ PutFrame("end", <<Field("error", "", 0)>>, 1)

-----------------------------------------------------------------------------
(* frame_sse_stream and execute_nonstream                                    *)

\* The answer that is not streamed: read by the same parser and converter, an
\* error at the first failure, and at the end of the connection the answer
\* if the end frame was seen.
execute_nonstream(s, over) ==
    CASE s.broke \/ (over /\ ~s.end_seen) -> Failed
      [] ~s.broke /\ over /\ s.end_seen -> [is |-> "ok", json |-> build_final(conv_finish(s.conv).conv)]
      [] ~s.broke /\ ~over -> whole

\* The stream fails: within the protocol once something was sent, and before
\* that as an error with which the request can go elsewhere.
Broke(s) ==
    LET f == conv_fail(s.conv)
    IN  [s EXCEPT !.done = TRUE, !.broke = TRUE, !.conv = f.conv,
                  !.out = IF s.conv.created THEN @ \o f.out ELSE Append(@, Event("error", -1, ""))]

TakeFrame(s, frame) ==
    IF s.done THEN s
    ELSE LET r == frame_events(s.conv, frame)
             t == [s EXCEPT !.conv = r.conv, !.end_seen = @ \/ frame.flags = "end"]
         IN  IF r.err THEN Broke(t) ELSE [t EXCEPT !.out = @ \o r.out]

WithOut(s) == [buf |-> s.buf, conv |-> s.conv, end_seen |-> s.end_seen, done |-> s.done, broke |-> FALSE,
               out |-> devin_out]

Resume(s) ==
    /\ st' = [buf |-> s.buf, conv |-> s.conv, end_seen |-> s.end_seen, done |-> s.done]
    /\ devin_out' = s.out

\* A chunk of n cells
ReceiveChunk(n) ==
    LET b == st.buf \o SubSeq(devin.wire, 1, n)
        p == Frames(b)
        s == [WithOut(st) EXCEPT !.buf = SubSeq(b, p.rest + 1, Len(b))]
        t == IF p.bad \/ Len(b) > MaxBufferBytes THEN Broke(s) ELSE FoldLeft(TakeFrame, s, p.frames)
    IN  /\ ~st.done
        /\ Resume(t) /\ whole' = execute_nonstream(t, FALSE)
        /\ devin' = [devin EXCEPT !.wire = SubSeq(@, n + 1, Len(@))]

\* The connection ends.  Without an end frame it was cut off.
Eof ==
    /\ ~st.done
    /\ \/ Ended /\ devin.wire = <<>>
       \/ Fault("cut")
    /\ LET f == conv_finish(st.conv)
           s == WithOut(st)
       IN  Resume(IF st.end_seen THEN [s EXCEPT !.done = TRUE, !.conv = f.conv, !.out = @ \o f.out] ELSE Broke(s))
    /\ whole' = execute_nonstream(WithOut(st), TRUE)
    /\ devin' = [devin EXCEPT !.closed = TRUE, !.wire = <<>>]

\* Reading fails.
ReadFails ==
    /\ ~st.done /\ Fault("reset")
    /\ Resume(Broke(WithOut(st))) /\ whole' = execute_nonstream(Broke(WithOut(st)), TRUE)
    /\ devin' = [devin EXCEPT !.closed = TRUE, !.wire = <<>>]

DevinNext ==
    \/ \E p \in DevinPayloads : SendFrame(p)
    \/ SendOther
    \/ SendEnd
    \/ \E n \in 1 .. Len(devin.wire) : ReceiveChunk(n)
    \/ Eof
    \/ ReadFails

DevinSpec == DevinInit /\ [][DevinNext]_devinVars

-----------------------------------------------------------------------------
DevinTypeOK ==
    /\ Len(devin.sent) <= MaxDevinFrames + 1
    /\ st.conv.next_index \in Nat /\ {st.end_seen, st.done, devin.closed} \subseteq BOOLEAN
    /\ \A i \in DOMAIN devin_out : devin_out[i].e \in {"created", "added", "delta", "done", "completed", "failed", "error"}

Kinds(e) == {i \in DOMAIN devin_out : devin_out[i].e = e}

\* The client sees a legal stream: it is announced once and first; an item is
\* announced under the next index, written to only afterwards, and closed once
\* and in order; there is one last event and nothing follows it.  An error
\* that lets the request go elsewhere is only given when nothing was sent.
DevinSequence ==
    /\ Kinds("error") # {} => Len(devin_out) = 1
    /\ Kinds("error") = {} /\ devin_out # <<>> => Kinds("created") = {1}
    /\ \A i \in Kinds("added") : devin_out[i].index = Cardinality({j \in Kinds("added") : j < i})
    /\ \A i \in Kinds("delta") : \E j \in Kinds("added") : j < i /\ devin_out[j].index = devin_out[i].index
    /\ \A i \in Kinds("done") :
          devin_out[i].index = Cardinality({j \in Kinds("done") : j < i})
    /\ \A i \in Kinds("completed") : i = Len(devin_out) /\ Cardinality(Kinds("done")) = Cardinality(Kinds("added"))
    /\ \A i \in Kinds("failed") : i = Len(devin_out)

\* The fields of the frames, in order
Sent == FlattenSeq([i \in DOMAIN devin.sent |-> devin.sent[i].payload])
NumbersOf(fields) == [i \in DOMAIN fields |-> fields[i].n]

\* The call to which the i-th field belongs: the one it names, or the one
\* named last before it
CallOf(i) ==
    LET named == {j \in 1 .. i : Sent[j].k = "call" /\ Sent[j].id # ""}
    IN  IF named = {} THEN "" ELSE Sent[CHOOSE j \in named : \A k \in named : k <= j].id

TextOf(item) ==
    IF item.kind = "function_call"
    THEN LET mine == SetToSortSeq({i \in DOMAIN Sent : Sent[i].k = "call" /\ CallOf(i) = item.id}, <)
         IN  SelectSeq([i \in DOMAIN mine |-> Sent[mine[i]].n], LAMBDA n : n # NoFragment)
    ELSE NumbersOf(SelectSeq(Sent, LAMBDA f : f.k = IF item.kind = "message" THEN "text" ELSE "think"))

LastFigure(id) ==
    LET these == SelectSeq(Sent, LAMBDA f : f.k = "usage" /\ f.id = id)
    IN  IF these = <<>> THEN 0 ELSE Last(these).n

\* What the streaming client has put together from the pieces
Pieces(index) == LET d == SelectSeq(devin_out, LAMBDA o : o.e = "delta" /\ o.index = index)
                 IN  [i \in DOMAIN d |-> d[i].what]

\* A completed answer is what the provider sent, wherever the chunks were cut:
\* every item has all its pieces, in order and under the right call, the
\* pieces that were streamed are the text of the last event, the figures are
\* the last ones the provider gave, those after the stop included, and the
\* answer that is not streamed is the same.
DevinAnswer ==
    \A i \in Kinds("completed") :
        LET final == devin_out[i].what
        IN  /\ \A item \in final.output : item.text = TextOf(item) /\ item.text = Pieces(item.index)
            /\ {item.id : item \in final.output} \cup {""} = Range(Named(devin.sent)) \cup {""}
            /\ \A k \in {"text", "think"} :
                  (\E f \in Range(Sent) : f.k = k)
                    <=> \E item \in final.output : item.kind = IF k = "text" THEN "message" ELSE "reasoning"
            /\ final.usage = IF \E f \in Range(Sent) : f.k = "usage"
                             THEN [input_uncached |-> 2 * LastFigure("prompt"), cache_read |-> LastFigure("prompt"),
                                   output |-> LastFigure("output")]
                             ELSE NoUsage
            /\ (whole.is = "ok" => whole.json = final)

\* An answer is complete only if the provider said so: a connection that is
\* cut off, a frame that cannot be read and an error in the end frame are
\* failures for both kinds of client, and a stream that is over has said
\* which of the two it is.
DevinEndHonest ==
    /\ Kinds("completed") # {} \/ whole.is = "ok" =>
          devin.sent # <<>> /\ Last(devin.sent).flags = "end" /\ ~end_frame_error(Last(devin.sent).payload)
    /\ st.done => /\ devin_out # <<>> /\ Last(devin_out).e \in {"completed", "failed", "error"}
                  /\ whole.is # "open"

\* The Devin channel gives its client a legal stream that is what the provider sent, and
\* is complete only if the provider said so.
DevinFaithful == DevinTypeOK /\ DevinSequence /\ DevinAnswer /\ DevinEndHonest

\* The comment of started: it says whether an event has been sent.
StartedMeansSent == st.conv.created => devin_out # <<>> /\ devin_out[1].e = "created"
=============================================================================
