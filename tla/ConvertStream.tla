--------------------------- MODULE ConvertStream ---------------------------
(***************************************************************************)
(* Streaming conversion: the frames of an upstream that speaks protocol    *)
(* `from` become IR chunks (chunk_to_ir), and the chunks become the events *)
(* of the protocol `to` that the client speaks (chunk_from_ir, stream_end, *)
(* stream_fail_end), driven by sse_convert_stream.                         *)
(*                                                                         *)
(* Text, reasoning and tool arguments are numbered fragments: the k-th     *)
(* fragment of its kind is the number k and an empty string is 0, so a     *)
(* lost, repeated or reordered fragment shows.  The arguments of a tool    *)
(* call are two fragments and parse as JSON when both are there.  An       *)
(* optional field is a sequence of length at most one.                     *)
(*                                                                         *)
(* The upstream (what a provider of each protocol may send) and the client *)
(* (how a reader of each protocol decodes what it gets, and what it calls  *)
(* a legal sequence) are outside the repository.                           *)
(***************************************************************************)
EXTENDS Integers, FiniteSets, Sequences, SequencesExt

CONSTANTS
    Pairs,        \* the pairs <<from, to>> of protocols to convert between
    MaxFrames,    \* bound on the content frames of the upstream
    StreamFaults  \* what the upstream may do: "broken" (the connection
                  \* fails), "error" (an error event), "early_eof" (the end
                  \* comes before the finish), "empty" (nothing is
                  \* sent at all), "error_continues" (content follows an
                  \* error event), "chat_error" (an error frame of a chat
                  \* upstream), "two_thoughts" (in one Gemini frame),
                  \* "no_arguments" (a call with no argument delta)

Tools == 0 .. 1
NoTool == -1

VARIABLES
    from, to,   \* ConvertState.from, ConvertState.to
    up,         \* the upstream: what it has sent
    inb,        \* from_state: the StreamState of the inbound converter
    outb,       \* to_state: the StreamState of the outbound converter
    client      \* the client: what it has decoded

streamVars == <<from, to, up, inb, outb, client>>

-----------------------------------------------------------------------------
(* The IR chunk (IrChunk with its first IrChunkChoice).                      *)

IrChunk(text, think, tools, fin, use) ==
    [text |-> text, think |-> think, tools |-> tools, fin |-> fin, use |-> use]

EmptyChunk == IrChunk(<<>>, <<>>, <<>>, "none", <<>>)

ToolDelta(i, id, args) == [i |-> i, id |-> id, args |-> args]

\* normalize_finish_reason on the words the four protocols use
normalize_finish_reason(raw) ==
    CASE raw \in {"stop", "end_turn", "completed", "STOP"} -> "stop"
      [] raw \in {"length", "max_tokens", "incomplete", "MAX_TOKENS"} -> "length"
      [] raw \in {"tool_calls", "tool_use"} -> "tool_calls"
      [] OTHER -> raw

-----------------------------------------------------------------------------
(* Inbound converters.  Each takes a frame of its protocol and the state,    *)
(* and gives the new state with the chunk, if there is one.                  *)

In(st, chunk) == [st |-> st, chunk |-> chunk]

InStart == [map |-> [b \in 0 .. MaxFrames |-> NoTool], next |-> 0, use |-> 0, role |-> FALSE]

\* A chat frame has everything; an error frame has no choices and no usage.
chat_chunk_to_ir(f, st) ==
    CASE f.k = "done"  -> In(st, <<>>)
      [] f.k = "error" -> In(st, <<EmptyChunk>>)
      [] f.k = "delta" ->
            In(st, <<IrChunk(f.text, f.think, f.tools,
                             normalize_finish_reason(f.fin), f.use)>>)

anthropic_block_start(f, st) ==
    IF f.block # "tool_use"
    THEN In(st, <<>>)
    ELSE In([st EXCEPT !.map[f.i] = st.next, !.next = @ + 1],
            <<[EmptyChunk EXCEPT !.tools = <<ToolDelta(st.next, <<f.id>>, <<>>)>>]>>)

anthropic_block_delta(f, st) ==
    CASE f.block = "text" -> In(st, <<[EmptyChunk EXCEPT !.text = <<f.n>>]>>)
      [] f.block = "thinking" -> In(st, <<[EmptyChunk EXCEPT !.think = <<f.n>>]>>)
      [] f.block = "tool_use" ->
            IF st.map[f.i] = NoTool
            THEN In(st, <<>>)
            ELSE In(st, <<[EmptyChunk EXCEPT !.tools =
                              <<ToolDelta(st.map[f.i], <<>>, <<<<f.n>>>>)>>]>>)

anthropic_message_delta(f, st) ==
    LET used == [st EXCEPT !.use = IF f.use = <<>> \/ f.use[1] <= @ THEN @ ELSE f.use[1]]
    IN  In(used, <<[EmptyChunk EXCEPT !.fin = normalize_finish_reason(f.fin),
                                      !.use = <<used.use>>]>>)

anthropic_chunk_to_ir(f, st) ==
    CASE f.k = "message_start" -> In([st EXCEPT !.use = f.use[1]], <<EmptyChunk>>)
      [] f.k = "block_start"   -> anthropic_block_start(f, st)
      [] f.k = "block_delta"   -> anthropic_block_delta(f, st)
      [] f.k = "block_stop"    -> In([st EXCEPT !.map[f.i] = NoTool], <<>>)
      [] f.k = "message_delta" -> anthropic_message_delta(f, st)
      [] f.k = "error" -> In(st, <<[EmptyChunk EXCEPT !.fin = "failed", !.use = <<st.use>>]>>)
      [] f.k \in {"message_stop", "ping"} -> In(st, <<>>)

\* output_item.added registers a function call, and gives no chunk
responses_item_added(f, st) ==
    In([st EXCEPT !.map[f.i] = st.next, !.next = @ + 1], <<>>)

responses_arguments_delta(f, st) ==
    IF f.n = 0 \/ st.map[f.i] = NoTool
    THEN In(st, <<>>)
    ELSE In(st, <<[EmptyChunk EXCEPT !.tools =
                      <<ToolDelta(st.map[f.i], <<f.i>>, <<<<f.n>>>>)>>]>>)

responses_terminal(f, st) ==
    In(st, <<[EmptyChunk EXCEPT !.fin = normalize_finish_reason(f.k), !.use = f.use]>>)

responses_chunk_to_ir(f, st) ==
    CASE f.k = "created"    -> In(st, <<>>)
      [] f.k = "item_added" -> responses_item_added(f, st)
      [] f.k = "arguments"  -> responses_arguments_delta(f, st)
      [] f.k = "text" -> In(st, IF f.n = 0 THEN <<>> ELSE <<[EmptyChunk EXCEPT !.text = <<f.n>>]>>)
      [] f.k = "reasoning" -> In(st, <<[EmptyChunk EXCEPT !.think = <<f.n>>]>>)
      [] f.k \in {"completed", "incomplete", "failed"} -> responses_terminal(f, st)
      [] f.k = "error" -> In(st, <<[EmptyChunk EXCEPT !.fin = "failed"]>>)
      [] f.k \in {"in_progress", "item_done"} -> In(st, <<>>)

\* Every functionCall part is complete and gets the next index; the last
\* thought part of a frame replaces the ones before it.
gemini_chunk_to_ir(f, st) ==
    LET after == [st EXCEPT !.next = @ + Len(f.calls), !.role = TRUE]
        tools == [k \in 1 .. Len(f.calls) |->
                     ToolDelta(st.next + k - 1, <<f.calls[k]>>, <<<<1, 2>>>>)]
        think == IF f.think = <<>> THEN <<>> ELSE <<Last(f.think)>>
    IN  IF f.text = <<>> /\ f.think = <<>> /\ f.calls = <<>> /\ f.fin = "none"
           /\ f.use = <<>> /\ st.role
        THEN In(st, <<>>)
        ELSE In(after, <<IrChunk(f.text, think, tools, normalize_finish_reason(f.fin), f.use)>>)

chunk_to_ir(f) ==
    CASE from = "chat"      -> chat_chunk_to_ir(f, inb)
      [] from = "anthropic" -> anthropic_chunk_to_ir(f, inb)
      [] from = "responses" -> responses_chunk_to_ir(f, inb)
      [] from = "gemini"    -> gemini_chunk_to_ir(f, inb)

-----------------------------------------------------------------------------
(* Outbound converters.  Each takes a chunk and the state, and gives the new *)
(* state with the events for the client.                                     *)

Out(st, events) == [st |-> st, events |-> events]

Emit(o, e) == [o EXCEPT !.events = Append(@, e)]

NoBlock == [k |-> "none", ix |-> -1]

OutStart ==
    [started |-> FALSE,                    \* message_start_emitted, created
     ended   |-> FALSE,                    \* message_delta_emitted, completed
     stop    |-> FALSE,                    \* message_stop_emitted
     next    |-> 0,                        \* next_block_index, next_output_index
     open    |-> NoBlock,                  \* open_block
     item    |-> [k \in {"text", "thinking"} |-> -1],
     tool    |-> [i \in Tools |-> -1],     \* tool_block_of, tool_items
     id      |-> [i \in Tools |-> <<>>],   \* tool_meta, tool_names
     args    |-> [i \in Tools |-> <<>>],   \* tool_args: <<>> or <<fragments>>
     done    |-> {},                       \* emitted_tools
     pend    |-> "none",                   \* pending_finish
     use     |-> <<>>]                     \* usage, last_usage

\* Chat needs no state.
chat_chunk_from_ir(c, st) == Out(st, <<[e |-> "chunk", c |-> c]>>)

chat_stream_end(st) == Out(st, <<[e |-> "done"]>>)

close_open_block(o) ==
    IF o.st.open = NoBlock
    THEN o
    ELSE [Emit(o, [e |-> "block_stop", ix |-> o.st.open.ix]) EXCEPT !.st.open = NoBlock]

open_block(o, kind, id) ==
    LET c == close_open_block(o)
    IN  [Emit(c, [e |-> "block_start", k |-> kind, ix |-> c.st.next, id |-> id])
            EXCEPT !.st.open = [k |-> kind, ix |-> c.st.next], !.st.next = @ + 1]

\* A text or thinking delta: opens a block of its kind unless one is open
anthropic_fragment(o, kind, field) ==
    IF field = <<>>
    THEN o
    ELSE LET p == IF o.st.open.k = kind THEN o ELSE open_block(o, kind, <<>>)
         IN  Emit(p, [e |-> "block_delta", ix |-> p.st.open.ix, n |-> field])

\* Bug: a tool delta continues whichever tool block is open
anthropic_tool_AnyOpen(o, t) ==
    LET m == [o EXCEPT !.st.id[t.i] = IF t.id = <<>> THEN @ ELSE t.id]
        p == IF m.st.open.k = "tool_use" THEN m ELSE open_block(m, "tool_use", m.st.id[t.i])
    IN  Emit(p, [e |-> "block_delta", ix |-> p.st.open.ix,
                 n |-> IF t.args = <<>> THEN <<>> ELSE t.args[1]])

\* A tool delta: continues the block of its call if that block is open, else
\* opens a new one with the identifier kept from the first delta
anthropic_tool(o, t) ==
    LET m == [o EXCEPT !.st.id[t.i] = IF t.id = <<>> THEN @ ELSE t.id]
        p == IF m.st.tool[t.i] >= 0 /\ m.st.open = [k |-> "tool_use", ix |-> m.st.tool[t.i]]
             THEN m
             ELSE LET b == open_block(m, "tool_use", m.st.id[t.i])
                  IN  [b EXCEPT !.st.tool[t.i] = b.st.open.ix]
    IN  Emit(p, [e |-> "block_delta", ix |-> p.st.tool[t.i],
                 n |-> IF t.args = <<>> THEN <<>> ELSE t.args[1]])

anthropic_usage(o, use) ==
    IF use = <<>> THEN o
    ELSE [o EXCEPT !.st.use = IF @ = <<>> \/ use[1] > @[1] THEN use ELSE @]

message_delta(o, fin) ==
    [Emit(o, [e |-> "message_delta", fin |-> fin, use |-> o.st.use]) EXCEPT !.st.ended = TRUE]

anthropic_finish(o, c) ==
    CASE c.fin = "none" /\ o.st.pend # "none" /\ c.use # <<>> /\ ~o.st.ended ->
            [message_delta(o, o.st.pend) EXCEPT !.st.pend = "none"]
      [] c.fin = "failed" -> message_delta(close_open_block(o), "null")
      [] c.fin \notin {"none", "failed"} /\ c.use # <<>> ->
            message_delta(close_open_block(o), c.fin)
      [] c.fin \notin {"none", "failed"} /\ c.use = <<>> ->
            [close_open_block(o) EXCEPT !.st.pend = c.fin]
      [] OTHER -> o

anthropic_chunk_from_ir(c, st) ==
    LET start == IF st.started THEN Out(st, <<>>)
                 ELSE Out([st EXCEPT !.started = TRUE], <<[e |-> "message_start"]>>)
        text  == anthropic_fragment(start, "text", c.text)
        think == anthropic_fragment(text, "thinking", c.think)
        tools == FoldLeft(anthropic_tool, think, c.tools)
    IN  anthropic_finish(anthropic_usage(tools, c.use), c)

anthropic_mark_failed(st) == IF st.ended THEN st ELSE [st EXCEPT !.pend = "failed"]

\* An upstream that ended before anything was sent gets no event at all.
anthropic_stream_end(st) ==
    LET closed == close_open_block(Out(st, <<>>))
        fin    == IF st.pend \in {"none", "failed"} THEN "null" ELSE st.pend
        delta  == IF st.started /\ ~st.ended THEN message_delta(closed, fin) ELSE closed
    IN  IF st.started /\ ~st.stop
        THEN [Emit(delta, [e |-> "message_stop"]) EXCEPT !.st.stop = TRUE]
        ELSE delta

-----------------------------------------------------------------------------

\* The message or reasoning item is added at its first non-empty delta.
responses_fragment(o, kind, field) ==
    IF field = <<>> \/ field = <<0>>
    THEN o
    ELSE LET p == IF o.st.item[kind] >= 0 THEN o
                  ELSE [Emit(o, [e |-> "item_added", k |-> kind, ix |-> o.st.next, id |-> <<>>])
                          EXCEPT !.st.item[kind] = o.st.next, !.st.next = @ + 1]
         IN  Emit(p, [e |-> "item_delta", ix |-> p.st.item[kind], n |-> field])

responses_tool(o, t) ==
    LET p == IF o.st.tool[t.i] >= 0 THEN o
             ELSE [Emit(o, [e |-> "item_added", k |-> "function_call", ix |-> o.st.next, id |-> t.id])
                     EXCEPT !.st.tool[t.i] = o.st.next, !.st.next = @ + 1]
    IN  IF t.args = <<>> THEN p
        ELSE Emit(p, [e |-> "item_delta", ix |-> p.st.tool[t.i], n |-> t.args[1]])

\* encode_response_finished: the event that ends the response
response_finished(st, fin) ==
    [e      |-> "finished",
     status |-> CASE fin = "failed" -> "failed"
                  [] fin = "length" -> "incomplete"
                  [] OTHER          -> "completed",
     use    |-> st.use,
     items  |-> {i \in 0 .. st.next - 1 : \/ \E k \in {"text", "thinking"} : st.item[k] = i
                                          \/ \E t \in Tools : st.tool[t] = i}]

responses_finish(o, c) ==
    LET s    == [o.st EXCEPT !.use = IF c.use = <<>> THEN @ ELSE c.use,
                             !.pend = IF c.fin = "none" THEN @ ELSE c.fin]
        ends == /\ ~s.ended
                /\ s.pend # "none"
                /\ s.pend = "failed" \/ s.use # <<>>
    IN  IF ends
        THEN [Emit(o, response_finished(s, s.pend)) EXCEPT
                 !.st = [s EXCEPT !.ended = TRUE, !.pend = "none"]]
        ELSE [o EXCEPT !.st = s]

responses_chunk_from_ir(c, st) ==
    LET start == IF st.started THEN Out(st, <<>>)
                 ELSE Out([st EXCEPT !.started = TRUE], <<[e |-> "created"]>>)
        text  == responses_fragment(start, "text", c.text)
        think == responses_fragment(text, "thinking", c.think)
        tools == FoldLeft(responses_tool, think, c.tools)
    IN  responses_finish(tools, c)

responses_mark_failed(st) == IF st.ended THEN st ELSE [st EXCEPT !.pend = "failed"]

responses_stream_end(st) ==
    IF st.ended THEN Out(st, <<>>)
    ELSE Out([st EXCEPT !.ended = TRUE, !.pend = "none"], <<response_finished(st, st.pend)>>)

-----------------------------------------------------------------------------

Call(id, args) == [id |-> id, args |-> args]

IsJson(args) == args = <<1, 2>>

\* A call is emitted as soon as its accumulated arguments parse as JSON.
gemini_tool(a, t) ==
    LET s == [a.st EXCEPT !.id[t.i] = IF t.id = <<>> THEN @ ELSE t.id,
                          !.args[t.i] = IF t.args = <<>> THEN @
                                        ELSE IF @ = <<>> THEN t.args ELSE <<@[1] \o t.args[1]>>]
    IN  IF t.i \notin s.done /\ s.id[t.i] # <<>> /\ s.args[t.i] # <<>> /\ IsJson(s.args[t.i][1])
        THEN [st |-> [s EXCEPT !.done = @ \cup {t.i}],
              calls |-> Append(a.calls, Call(s.id[t.i], s.args[t.i][1]))]
        ELSE [st |-> s, calls |-> a.calls]

\* Tools whose arguments began and were not emitted; arguments that do not
\* parse become an empty object.  The map is walked in any order.
flush_unfinished_tools(st) ==
    LET left == {i \in Tools : st.args[i] # <<>> /\ i \notin st.done /\ st.id[i] # <<>>}
    IN  [st    |-> [st EXCEPT !.done = @ \cup left],
         calls |-> {[k \in 1 .. Cardinality(left) |->
                       Call(st.id[p[k]], IF IsJson(st.args[p[k]][1]) THEN <<1, 2>> ELSE <<>>)]
                      : p \in {q \in [1 .. Cardinality(left) -> left] :
                                 \A i, j \in DOMAIN q : q[i] = q[j] => i = j}}]

Frame(text, think, calls, fin, use) ==
    [e |-> "frame", text |-> text, think |-> think, calls |-> calls, fin |-> fin, use |-> use]

\* reverse_finish_reason: Gemini has no word for tool_calls
gemini_finish(fin) == IF fin = "tool_calls" THEN "stop" ELSE fin

gemini_chunk_from_ir(c, st) ==
    LET a == FoldLeft(gemini_tool, [st |-> st, calls |-> <<>>], c.tools)
        f == flush_unfinished_tools(a.st)
    IN  IF c.fin = "none"
        THEN {Out(a.st, <<Frame(c.text, c.think, a.calls, "none", c.use)>>)}
        ELSE {Out(f.st, <<Frame(c.text, c.think, a.calls \o q, gemini_finish(c.fin), c.use)>>)
                : q \in f.calls}

gemini_stream_end(st) ==
    LET f == flush_unfinished_tools(st)
    IN  {Out(f.st, IF q = <<>> THEN <<>> ELSE <<Frame(<<>>, <<>>, q, "none", <<>>)>>) : q \in f.calls}

-----------------------------------------------------------------------------
(* Dispatch on the client's protocol (protocol/mod.rs).                      *)

chunk_from_ir(c) ==
    CASE to = "chat"      -> {chat_chunk_from_ir(c, outb)}
      [] to = "anthropic" -> {anthropic_chunk_from_ir(c, outb)}
      [] to = "responses" -> {responses_chunk_from_ir(c, outb)}
      [] to = "gemini"    -> gemini_chunk_from_ir(c, outb)

stream_end(st) ==
    CASE to = "chat"      -> {chat_stream_end(st)}
      [] to = "anthropic" -> {anthropic_stream_end(st)}
      [] to = "responses" -> {responses_stream_end(st)}
      [] to = "gemini"    -> gemini_stream_end(st)

stream_fail_end(st) ==
    CASE to = "anthropic" -> stream_end(anthropic_mark_failed(st))
      [] to = "responses" -> stream_end(responses_mark_failed(st))
      [] OTHER            -> stream_end(st)

-----------------------------------------------------------------------------
(* The client.  `ok` is FALSE once it met a sequence its protocol forbids.   *)

ClientStart ==
    [ok |-> TRUE, on |-> FALSE, text |-> <<>>, think |-> <<>>, calls |-> <<>>,
     kinds |-> <<>>, open |-> -1, fin |-> "none", use |-> <<>>, over |-> FALSE]

Need(c, cond) == IF cond THEN c ELSE [c EXCEPT !.ok = FALSE]

Fragments(n) == SelectSeq(n, LAMBDA x : x > 0)

AddText(c, n)  == [c EXCEPT !.text = @ \o Fragments(n)]
AddThink(c, n) == [c EXCEPT !.think = @ \o Fragments(n)]

\* A block (Anthropic) or output item (Responses) begins, or grows by n.
AddBlock(c, k, id) ==
    [c EXCEPT !.kinds = Append(@, [k |-> k, at |-> Len(c.calls) + 1]),
              !.calls = IF k \in {"text", "thinking"} THEN @ ELSE Append(@, Call(id, <<>>))]

AddDelta(c, ix, n) ==
    LET b == c.kinds[ix + 1]
    IN  CASE b.k = "text"     -> AddText(c, n)
          [] b.k = "thinking" -> AddThink(c, n)
          [] OTHER            -> [c EXCEPT !.calls[b.at].args = @ \o Fragments(n)]

AnthropicClient(c, e) ==
    CASE e.e = "message_start" -> [Need(c, ~c.on) EXCEPT !.on = TRUE]
      [] e.e = "block_start" ->
            [AddBlock(Need(c, c.on /\ c.open = -1 /\ e.ix = Len(c.kinds) /\ c.fin = "none"),
                      e.k, e.id) EXCEPT !.open = e.ix]
      [] e.e = "block_delta" -> AddDelta(Need(c, c.open = e.ix), e.ix, e.n)
      [] e.e = "block_stop" -> [Need(c, c.open = e.ix) EXCEPT !.open = -1]
      [] e.e = "message_delta" ->
            [Need(c, c.on /\ c.open = -1 /\ c.fin = "none") EXCEPT !.fin = e.fin, !.use = e.use]
      [] e.e = "message_stop" -> [Need(c, c.fin # "none" /\ ~c.over) EXCEPT !.over = TRUE]

ResponsesClient(c, e) ==
    CASE e.e = "created" -> [Need(c, ~c.on) EXCEPT !.on = TRUE]
      [] e.e = "item_added" ->
            AddBlock(Need(c, c.on /\ e.ix = Len(c.kinds) /\ ~c.over), e.k, e.id)
      [] e.e = "item_delta" -> AddDelta(Need(c, e.ix < Len(c.kinds) /\ ~c.over), e.ix, e.n)
      [] e.e = "finished" ->
            [Need(c, c.on /\ ~c.over /\ e.items = 0 .. Len(c.kinds) - 1) EXCEPT
                !.over = TRUE, !.use = e.use,
                !.fin = CASE e.status = "completed" -> "stop" [] e.status = "incomplete" -> "length"
                          [] OTHER -> "failed"]

\* A chat call is known by its index; its first delta must identify it.
AddChatTool(c, t) ==
    LET args == IF t.args = <<>> THEN <<>> ELSE t.args[1]
        at   == {p \in DOMAIN c.kinds : c.kinds[p].at = t.i}
    IN  IF at = {}
        THEN [Need(c, t.id # <<>>) EXCEPT
                 !.kinds = Append(@, [k |-> "function", at |-> t.i]),
                 !.calls = Append(@, Call(t.id, args))]
        ELSE [c EXCEPT !.calls = [p \in DOMAIN @ |->
                 IF p \in at THEN Call(@[p].id, @[p].args \o args) ELSE @[p]]]

ChatClient(c, e) ==
    IF e.e = "done" THEN [Need(c, ~c.over) EXCEPT !.over = TRUE]
    ELSE LET d == AddThink(AddText(Need(c, ~c.over), e.c.text), e.c.think)
         IN  [FoldLeft(AddChatTool, d, e.c.tools) EXCEPT
                 !.on = TRUE,
                 !.ok = @ /\ (e.c.fin = "none" \/ c.fin = "none"),
                 !.fin = IF e.c.fin = "none" THEN @ ELSE e.c.fin,
                 !.use = IF e.c.use = <<>> THEN @ ELSE e.c.use]

GeminiClient(c, e) ==
    [AddThink(AddText(c, e.text), e.think) EXCEPT
        !.on = TRUE,
        !.calls = @ \o e.calls,
        !.fin = IF e.fin = "none" THEN @ ELSE e.fin,
        !.use = IF e.use = <<>> THEN @ ELSE e.use]

ClientReads(c, e) ==
    CASE to = "chat"      -> ChatClient(c, e)
      [] to = "anthropic" -> AnthropicClient(c, e)
      [] to = "responses" -> ResponsesClient(c, e)
      [] to = "gemini"    -> GeminiClient(c, e)

-----------------------------------------------------------------------------
(* The driver.                                                               *)

\* process_convert_frame: one upstream frame through both converters
process_convert_frame(f) ==
    LET r == chunk_to_ir(f)
    IN  /\ inb' = r.st
        /\ \E o \in IF r.chunk = <<>> THEN {Out(outb, <<>>)} ELSE chunk_from_ir(r.chunk[1]) :
              /\ outb' = o.st
              /\ client' = FoldLeft(ClientReads, client, o.events)
        /\ UNCHANGED <<from, to>>

UpStart ==
    [on |-> FALSE, frames |-> 0, text |-> 0, think |-> 0, begun |-> 0,
     args |-> [i \in Tools |-> 0], open |-> "none", blk |-> 0,
     use |-> <<>>, fin |-> "none", tail |-> FALSE, over |-> "no"]

StreamInit ==
    /\ \E p \in Pairs : from = p[1] /\ to = p[2]
    /\ up = UpStart
    /\ inb = InStart
    /\ outb = OutStart
    /\ client = ClientStart

\* The upstream may still send content
Sending ==
    /\ up.on
    /\ up.over = "no"
    /\ up.frames < MaxFrames
    /\ up.fin = "none" \/ (up.fin = "failed" /\ "error_continues" \in StreamFaults)

ChatFrame(text, think, tools, fin, use) ==
    [k |-> "delta", text |-> text, think |-> think, tools |-> tools, fin |-> fin, use |-> use]

GeminiFrame(text, think, calls, fin, use) ==
    [k |-> "frame", text |-> text, think |-> think, calls |-> calls, fin |-> fin, use |-> use]

UpstreamStarts ==
    /\ ~up.on /\ up.over = "no"
    /\ up' = [up EXCEPT !.on = TRUE]
    /\ process_convert_frame(
          CASE from = "chat"      -> ChatFrame(<<0>>, <<>>, <<>>, "none", <<>>)
            [] from = "anthropic" -> [k |-> "message_start", use |-> <<0>>]
            [] from = "responses" -> [k |-> "created"]
            [] from = "gemini"    -> GeminiFrame(<<>>, <<>>, <<>>, "none", <<>>))

\* Anthropic opens and closes a block around each run of deltas; tool blocks
\* and Responses function_call items carry the call's identifier.
BeginBlock(kind) ==
    /\ Sending
    /\ up.open = "none"
    /\ kind = "tool_use" => up.begun \in Tools
    /\ \/ from = "anthropic"
       \/ from = "responses" /\ kind = "tool_use"
    /\ up' = [up EXCEPT !.frames = @ + 1,
                        !.open = IF from = "anthropic" THEN kind ELSE @,
                        !.begun = IF kind = "tool_use" THEN @ + 1 ELSE @]
    /\ process_convert_frame(
          IF from = "anthropic"
          THEN [k |-> "block_start", block |-> kind, i |-> up.blk, id |-> up.begun]
          ELSE [k |-> "item_added", i |-> up.begun])

EndBlock ==
    /\ up.open # "none" /\ up.over = "no"
    /\ up.open = "tool_use" => \/ up.args[up.begun - 1] = 2
                               \/ up.args[up.begun - 1] = 0 /\ "no_arguments" \in StreamFaults
    /\ up' = [up EXCEPT !.open = "none", !.blk = @ + 1]
    /\ process_convert_frame([k |-> "block_stop", i |-> up.blk])

SendText ==
    /\ Sending
    /\ from = "anthropic" => up.open = "text"
    /\ up' = [up EXCEPT !.frames = @ + 1, !.text = @ + 1]
    /\ LET n == up.text + 1
       IN  process_convert_frame(
             CASE from = "chat"      -> ChatFrame(<<n>>, <<>>, <<>>, "none", <<>>)
               [] from = "anthropic" -> [k |-> "block_delta", block |-> "text", i |-> up.blk, n |-> n]
               [] from = "responses" -> [k |-> "text", n |-> n]
               [] from = "gemini"    -> GeminiFrame(<<n>>, <<>>, <<>>, "none", <<up.text + 1>>))

SendThought ==
    /\ Sending
    /\ from = "anthropic" => up.open = "thinking"
    /\ \E more \in IF from = "gemini" /\ "two_thoughts" \in StreamFaults THEN {1, 2} ELSE {1} :
          LET n == up.think + 1
          IN  /\ up' = [up EXCEPT !.frames = @ + 1, !.think = @ + more]
              /\ process_convert_frame(
                   CASE from = "chat"      -> ChatFrame(<<>>, <<n>>, <<>>, "none", <<>>)
                     [] from = "anthropic" -> [k |-> "block_delta", block |-> "thinking", i |-> up.blk, n |-> n]
                     [] from = "responses" -> [k |-> "reasoning", n |-> n]
                     [] from = "gemini"    -> GeminiFrame(<<>>, IF more = 1 THEN <<n>> ELSE <<n, n + 1>>,
                                                          <<>>, "none", <<>>))

\* A chat delta that begins a call, with text, empty arguments or the first
\* fragment; a Gemini frame with one or two complete calls
BeginCall ==
    /\ Sending
    /\ up.begun \in Tools
    /\ \/ /\ from = "chat"
          /\ \E a \in 0 .. 1, t \in 0 .. 1 :
                /\ up' = [up EXCEPT !.frames = @ + 1, !.begun = @ + 1, !.args[up.begun] = a,
                                    !.text = @ + t]
                /\ process_convert_frame(
                      ChatFrame(IF t = 1 THEN <<up.text + 1>> ELSE <<>>, <<>>,
                                <<ToolDelta(up.begun, <<up.begun>>, <<IF a = 1 THEN <<1>> ELSE <<>>>>)>>,
                                "none", <<>>))
       \/ /\ from = "gemini"
          /\ \E more \in 1 .. 2 :
                /\ up.begun + more <= 2
                /\ up' = [up EXCEPT !.frames = @ + 1, !.begun = @ + more,
                                    !.args = [i \in Tools |-> IF i < up.begun + more THEN 2 ELSE 0]]
                /\ process_convert_frame(
                      GeminiFrame(<<>>, <<>>, [k \in 1 .. more |-> up.begun + k - 1], "none", <<>>))

\* The next fragment of the arguments of some call that has begun
SendArguments ==
    /\ Sending
    /\ from # "gemini"
    /\ \E i \in Tools :
          /\ i < up.begun /\ up.args[i] < 2
          /\ from = "anthropic" => up.open = "tool_use" /\ i = up.begun - 1
          /\ up' = [up EXCEPT !.frames = @ + 1, !.args[i] = @ + 1]
          /\ LET n == up.args[i] + 1
             IN  process_convert_frame(
                   CASE from = "chat" -> ChatFrame(<<>>, <<>>, <<ToolDelta(i, <<>>, <<<<n>>>>)>>, "none", <<>>)
                     [] from = "anthropic" -> [k |-> "block_delta", block |-> "tool_use", i |-> up.blk, n |-> n]
                     [] from = "responses" -> [k |-> "arguments", i |-> i, n |-> n])

\* Each call begun is complete, or the answer was cut at the token limit
MayFinish(fin) ==
    /\ up.on /\ up.over = "no" /\ up.fin = "none" /\ up.open = "none"
    /\ fin = IF up.begun > 0 THEN "tool_calls" ELSE "stop"
    /\ \A i \in Tools : i < up.begun => \/ up.args[i] = 2
                                        \/ up.args[i] = 0 /\ "no_arguments" \in StreamFaults

\* The finish comes with the usage, except that chat may send it in a last
\* frame of its own; the counter is one token per content frame
SendFinish ==
    \E fin \in {"stop", "length", "tool_calls"}, now \in BOOLEAN :
       LET use == IF now THEN <<up.frames>> ELSE <<>>
       IN  /\ \/ MayFinish(fin)
              \/ fin = "length" /\ MayFinish(IF up.begun > 0 THEN "tool_calls" ELSE "stop")
           /\ now \/ from = "chat"
           /\ up' = [up EXCEPT !.fin = fin, !.use = use, !.tail = ~now]
           /\ process_convert_frame(
                CASE from = "chat" -> ChatFrame(<<>>, <<>>, <<>>, fin, use)
                  [] from = "anthropic" ->
                        [k |-> "message_delta", use |-> use,
                         fin |-> CASE fin = "stop" -> "end_turn" [] fin = "length" -> "max_tokens"
                                   [] OTHER -> "tool_use"]
                  [] from = "responses" ->
                        [k |-> IF fin = "length" THEN "incomplete" ELSE "completed", use |-> use]
                  [] from = "gemini" ->
                        GeminiFrame(<<>>, <<>>, <<>>, IF fin = "length" THEN "MAX_TOKENS" ELSE "STOP", use))

SendUsage ==
    /\ up.tail /\ up.over = "no"
    /\ up' = [up EXCEPT !.tail = FALSE, !.use = <<up.frames>>]
    /\ process_convert_frame(ChatFrame(<<>>, <<>>, <<>>, "none", <<up.frames>>))

\* An error event inside the stream
SendError ==
    /\ up.on /\ up.over = "no" /\ up.fin = "none"
    /\ "error" \in StreamFaults
    /\ from = "chat" => "chat_error" \in StreamFaults
    /\ from # "gemini"
    /\ up' = [up EXCEPT !.fin = "failed"]
    /\ \E k \in IF from = "responses" THEN {"error", "failed"} ELSE {"error"} :
          process_convert_frame([k |-> k, use |-> <<>>])

\* A frame that carries nothing: ping, message_stop, in_progress, [DONE]
SendIdle ==
    /\ up.on /\ up.over = "no"
    /\ UNCHANGED up
    /\ \E k \in CASE from = "chat"      -> IF up.fin # "none" /\ ~up.tail THEN {"done"} ELSE {}
                  [] from = "anthropic" -> {"ping"} \cup (IF up.fin # "none" THEN {"message_stop"} ELSE {})
                  [] from = "responses" -> {"in_progress", "item_done"}
                  [] from = "gemini"    -> {} :
          process_convert_frame([k |-> k])

\* The byte stream ends, or fails: the driver asks for the last events
StreamEnds ==
    /\ up.over = "no"
    /\ up.fin = "none" => "early_eof" \in StreamFaults
    /\ up.on \/ "empty" \in StreamFaults
    /\ up' = [up EXCEPT !.over = "eof"]
    /\ \E o \in stream_end(outb) :
          /\ outb' = o.st
          /\ client' = FoldLeft(ClientReads, client, o.events)
    /\ UNCHANGED <<from, to, inb>>

StreamBreaks ==
    /\ up.over = "no"
    /\ "broken" \in StreamFaults
    /\ up.on \/ "empty" \in StreamFaults
    /\ up' = [up EXCEPT !.over = "broken"]
    /\ \E o \in stream_fail_end(outb) :
          /\ outb' = o.st
          /\ client' = FoldLeft(ClientReads, client, o.events)
    /\ UNCHANGED <<from, to, inb>>

StreamNext ==
    \/ UpstreamStarts
    \/ \E kind \in {"text", "thinking", "tool_use"} : BeginBlock(kind)
    \/ EndBlock
    \/ SendText
    \/ SendThought
    \/ BeginCall
    \/ SendArguments
    \/ SendFinish
    \/ SendUsage
    \/ SendError
    \/ SendIdle
    \/ StreamEnds
    \/ StreamBreaks

StreamSpec == StreamInit /\ [][StreamNext]_streamVars

-----------------------------------------------------------------------------
(* Properties.                                                               *)

UpTo(n) == [k \in 1 .. n |-> k]

StreamTypeOK ==
    /\ <<from, to>> \in Pairs
    /\ up.frames \in 0 .. MaxFrames
    /\ up.over \in {"no", "eof", "broken"}
    /\ inb.next \in 0 .. 2
    /\ outb.pend \in {"none", "stop", "length", "tool_calls", "failed"}
    /\ outb.done \subseteq Tools
    /\ client.ok \in BOOLEAN

\* Whatever the upstream interleaves, the client only meets sequences its
\* protocol allows: one start, one block open at a time, deltas inside their
\* block, items numbered in the order they are added, one end.
\* (anthropic.rs and responses.rs chunk_from_ir, stream_end.)
LegalSequence == client.ok

\* A stream that ended, in order or not, is ended for the client too, unless
\* nothing was ever sent to it.  (stream_end, stream_fail_end.)
EndIsSent ==
    up.over # "no" /\ client.on /\ to # "gemini"
       => client.over /\ client.open = -1

\* Text and reasoning reach the client at once, complete and in order, by
\* whichever block or item the converter had open.
FragmentsKept ==
    /\ client.text = UpTo(up.text)
    /\ client.think = UpTo(up.think)

ArgumentsSeen(i) ==
    FoldLeft(LAMBDA a, c : IF c.id = <<i>> THEN a \o c.args ELSE a, <<>>, client.calls)

\* After a finish every call the upstream made is there with all of its
\* arguments, also when deltas of parallel calls were interleaved.
CallsKept ==
    up.over = "eof" /\ up.fin \in {"stop", "tool_calls"} =>
       /\ \A i \in Tools : ArgumentsSeen(i) = UpTo(up.args[i])
       /\ {c.id : c \in ToSet(client.calls)} = {<<i>> : i \in 0 .. up.begun - 1}

\* An upstream that failed before its finish, by an error event or by its
\* connection, is never shown to the client as a completed answer.
FailureShown ==
    up.over # "no" /\ (up.fin = "failed" \/ (up.fin = "none" /\ up.over = "broken"))
       => client.fin \notin {"stop", "length", "tool_calls"}

\* The usage of the upstream, in whichever frame it came, is the one the
\* client is given, with the reason the answer ended.
UsageShown ==
    up.over = "eof" /\ up.fin \in {"stop", "length", "tool_calls"} =>
       /\ up.use # <<>> => client.use = up.use
       /\ client.fin = "length" <=> up.fin = "length"

\* A converted stream is legal in the client's protocol at every moment and says what the
\* upstream said: fragments, interleaved calls, usage, and whether it failed.
StreamFaithful ==
    /\ StreamTypeOK /\ LegalSequence /\ EndIsSent
    /\ FragmentsKept /\ CallsKept /\ FailureShown
    /\ UsageShown
=============================================================================
