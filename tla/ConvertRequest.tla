-------------------------- MODULE ConvertRequest --------------------------
(***************************************************************************)
(* Request conversion: the body of a request in the client's protocol      *)
(* becomes an IrRequest (request_to_ir) and then a body in the upstream's  *)
(* protocol (request_from_ir).                                             *)
(*                                                                         *)
(* In every protocol a request is a sequence of turns here, a role and     *)
(* blocks; a block is its kind, the token that stands for its content, and *)
(* for calls and results the identifier that pairs them.  A chat message   *)
(* lists reasoning_content, content and tool_calls as blocks; a Responses  *)
(* item is a turn; the system prompt of Anthropic, `instructions` and      *)
(* systemInstruction are a turn of role "system".  The request is built    *)
(* turn by turn.  `deg` is the content ConvCtx.degraded records as lost,   *)
(* `notes` the other things it records.                                    *)
(***************************************************************************)
EXTENDS Integers, Sequences, FiniteSets, SequencesExt

CONSTANTS
    EntryProtocols,   \* protocols of the client
    MaxTurns,         \* bound on the turns of a request
    RequestShapes,    \* shapes the converters are known to mishandle that the
                      \* request may have: "two_thoughts", "thought_to_responses",
                      \* "system_image", "result_with_text", "media_first"
    ParamGaps         \* <<entry, upstream, parameter>> lost without a record

VARIABLES
    entry,     \* the client's protocol
    param,     \* the parameter of the request, or "none"
    wire,      \* the turns of the client's request
    asked,     \* calls made and not answered yet
    answers    \* <<token of a result, token of its call>>

requestVars == <<entry, param, wire, asked, answers>>

RequestProtocols == {"chat", "anthropic", "responses", "gemini"}

-----------------------------------------------------------------------------
Block(k, t, id) == [k |-> k, t |-> t, id |-> id]

Turn(role, blocks) == [role |-> role, blocks |-> blocks]

OfKind(blocks, ks) == SelectSeq(blocks, LAMBDA b : b.k \in ks)

TokensOf(blocks) == {blocks[i].t : i \in DOMAIN blocks}

Images == {"image_url", "image_inline"}

(* IrMessage: role, content parts, tool_calls, tool_call_id with name (for   *)
(* Tool messages only), reasoning_content.                                   *)
IrMessage(role, parts, calls, think) ==
    [role |-> role, parts |-> parts, calls |-> calls, think |-> think, id |-> 0, name |-> FALSE]

IrTool(b, name) ==
    [role |-> "tool", parts |-> <<Block("text", b.t, 0)>>, calls |-> <<>>, think |-> <<>>,
     id |-> b.id, name |-> name]

(* A conversion in progress: what is made so far and what ConvCtx records.   *)
NoneYet == [msgs |-> <<>>, deg |-> {}, notes |-> {}, queue |-> <<>>]

Push(a, m) == [a EXCEPT !.msgs = Append(@, m)]

Degrade(a, blocks) == [a EXCEPT !.deg = @ \cup TokensOf(blocks)]

Note(a, notes) == [a EXCEPT !.notes = @ \cup notes]

\* An Option<String> that each new block overwrites
Newest(blocks) == IF blocks = <<>> THEN <<>> ELSE <<Last(blocks)>>

-----------------------------------------------------------------------------
(* Chat.                                                                     *)

chat_parse_role(r) ==
    CASE r \in {"system", "developer"} -> "system"
      [] r \in {"assistant", "tool"} -> r
      [] OTHER -> "user"

\* Some("user") falls into the arm of unknown roles, which records it.
chat_role_notes(r) ==
    IF r \in {"system", "developer", "assistant", "tool", "absent"} THEN {} ELSE {"role"}

chat_parse_content(blocks) == OfKind(blocks, {"text", "audio", "file"} \cup Images)

chat_parse_message(a, m) ==
    LET main == IrMessage(chat_parse_role(m.role), chat_parse_content(m.blocks),
                          OfKind(m.blocks, {"call"}), OfKind(m.blocks, {"think"}))
        ir   == IF m.role = "tool" THEN IrTool(m.blocks[1], FALSE) ELSE main
    IN  Note(Degrade(Push(a, ir), OfKind(m.blocks, {"odd"})), chat_role_notes(m.role))

chat_to_ir(w) == FoldLeft(chat_parse_message, NoneYet, w)

\* Every part of the IR has a place in a chat message.
message_to_json(m) ==
    IF m.role = "tool" THEN Turn("tool", <<Block("result", m.parts[1].t, m.id)>>)
    ELSE Turn(m.role, m.think \o m.parts \o m.calls)

chat_from_ir(r) == [r EXCEPT !.msgs = [i \in DOMAIN r.msgs |-> message_to_json(r.msgs[i])]]

-----------------------------------------------------------------------------
(* Anthropic.                                                                *)

parse_system(a, m) ==
    LET texts == OfKind(m.blocks, {"text"})
    IN  Degrade(IF texts = <<>> THEN a ELSE Push(a, IrMessage("system", texts, <<>>, <<>>)),
                SelectSeq(m.blocks, LAMBDA b : b.k # "text"))

\* Text, images, calls and thinking make one message; each tool_result
\* becomes a Tool message after it.
parse_anth_message(a, m) ==
    LET parts  == OfKind(m.blocks, {"text"} \cup Images)
        calls  == OfKind(m.blocks, {"call"})
        think  == Newest(OfKind(m.blocks, {"think"}))
        main   == IrMessage(m.role, parts, calls, think)
        opened == IF parts # <<>> \/ calls # <<>> \/ think # <<>> THEN Push(a, main) ELSE a
        tools  == OfKind(m.blocks, {"result"})
    IN  Degrade(FoldLeft(LAMBDA x, b : Push(x, IrTool(b, FALSE)), opened, tools),
                OfKind(m.blocks, {"odd"}))

anthropic_to_ir(w) ==
    FoldLeft(LAMBDA a, m : IF m.role = "system" THEN parse_system(a, m) ELSE parse_anth_message(a, m),
             NoneYet, w)

part_to_anth_block(parts) == OfKind(parts, {"text"} \cup Images)

tool_result_block(m) == Block("result", m.parts[1].t, m.id)

SystemTexts(msgs) ==
    FlattenSeq([i \in DOMAIN msgs |->
        IF msgs[i].role = "system" THEN OfKind(msgs[i].parts, {"text"}) ELSE <<>>])

SystemTurn(msgs) ==
    IF SystemTexts(msgs) = <<>> THEN <<>> ELSE <<Turn("system", SystemTexts(msgs))>>

message_to_anthropic(m) == Turn("assistant", m.think \o part_to_anth_block(m.parts) \o m.calls)

FlushResults(a) ==
    IF a.pend = <<>> THEN a ELSE [out |-> Append(a.out, Turn("user", a.pend)), pend |-> <<>>]

\* Tool results wait for the next user message, or make one of their own
\* before the next assistant message or at the end.
AddToAnthropic(a, m) ==
    CASE m.role = "system" -> a
      [] m.role = "user" ->
            [out |-> Append(a.out, Turn("user", a.pend \o part_to_anth_block(m.parts))), pend |-> <<>>]
      [] m.role = "assistant" ->
            [FlushResults(a) EXCEPT !.out = Append(@, message_to_anthropic(m))]
      [] m.role = "tool" -> [a EXCEPT !.pend = Append(@, tool_result_block(m))]

\* Bug: results at the end of the conversation are never written.
messages_to_anthropic_NoLastFlush(msgs) ==
    FoldLeft(AddToAnthropic, [out |-> <<>>, pend |-> <<>>], msgs).out

messages_to_anthropic(msgs) ==
    FlushResults(FoldLeft(AddToAnthropic, [out |-> <<>>, pend |-> <<>>], msgs)).out

\* A part with no Anthropic block is recorded, except in a system message.
Unwritten(msgs, ks) ==
    FlattenSeq([i \in DOMAIN msgs |-> IF msgs[i].role = "system" THEN <<>> ELSE OfKind(msgs[i].parts, ks)])

anthropic_from_ir(r) ==
    Degrade([r EXCEPT !.msgs = SystemTurn(@) \o messages_to_anthropic(@)],
            Unwritten(r.msgs, {"audio", "file"}))

-----------------------------------------------------------------------------
(* Responses.                                                                *)

\* A function_call joins the assistant message before it.
push_message(a, m) ==
    IF m.role = "assistant" /\ m.calls # <<>> /\ a.msgs # <<>> /\ Last(a.msgs).role = "assistant"
    THEN [a EXCEPT !.msgs[Len(a.msgs)].calls = @ \o m.calls]
    ELSE Push(a, m)

\* What an input part becomes; unknown ones are recorded.
parse_input_content_part(blocks) == OfKind(blocks, {"text", "file"} \cup Images)

parse_message_item(m) ==
    IrMessage(IF m.role \in {"system", "developer"} THEN "system" ELSE m.role,
              parse_input_content_part(m.blocks), <<>>, <<>>)

parse_input_item(a, m) ==
    CASE m.role = "function_call" -> push_message(a, IrMessage("assistant", <<>>, m.blocks, <<>>))
      [] m.role = "function_call_output" -> push_message(a, IrTool(m.blocks[1], FALSE))
      [] m.role = "reasoning" -> Degrade(a, m.blocks)
      [] OTHER -> Degrade(push_message(a, parse_message_item(m)), OfKind(m.blocks, {"odd"}))

responses_to_ir(w) == FoldLeft(parse_input_item, NoneYet, w)

\* Audio becomes an empty text part and is recorded; reasoning_content has no
\* item in a request.
request_items(m) ==
    CASE m.role = "system" -> <<>>
      [] m.role = "tool" -> <<Turn("function_call_output", <<Block("result", m.parts[1].t, m.id)>>)>>
      [] OTHER ->
            (IF m.parts = <<>> THEN <<>>
             ELSE <<Turn(m.role, SelectSeq(m.parts, LAMBDA p : p.k # "audio"))>>)
              \o [j \in DOMAIN m.calls |-> Turn("function_call", <<m.calls[j]>>)]

responses_from_ir(r) ==
    Degrade([r EXCEPT !.msgs = SystemTurn(@) \o FlattenSeq([i \in DOMAIN @ |-> request_items(@[i])])],
            Unwritten(r.msgs, {"audio"}))

-----------------------------------------------------------------------------
(* Gemini.  A call has no identifier of its own and a functionResponse names *)
(* its function only.  All calls here are of one function, the hard case:    *)
(* the identifier made for a call is then its position in its content.       *)

\* The Tool message of a functionResponse takes the oldest identifier left,
\* or the name of the function when there is none.
add_function_response(a, b) ==
    IF a.queue = <<>> THEN Note(Push(a, IrTool([b EXCEPT !.id = 0], TRUE)), {"unpaired"})
    ELSE [Push(a, IrTool([b EXCEPT !.id = Head(a.queue)], TRUE)) EXCEPT !.queue = Tail(@)]

\* The texts come before the media whatever their order was.
gemini_parse_content(a, m) ==
    LET parts  == OfKind(m.blocks, {"text"}) \o OfKind(m.blocks, {"image_inline", "file"})
        calls0 == OfKind(m.blocks, {"call"})
        calls  == [i \in DOMAIN calls0 |-> [calls0[i] EXCEPT !.id = i]]
        think  == Newest(OfKind(m.blocks, {"think"}))
        main   == IrMessage(IF m.role = "model" THEN "assistant" ELSE "user", parts, calls, think)
        opened == IF parts # <<>> \/ calls # <<>> \/ think # <<>> THEN Push(a, main) ELSE a
        queued == [opened EXCEPT !.queue = @ \o [i \in DOMAIN calls |-> calls[i].id]]
    IN  Degrade(FoldLeft(add_function_response, queued, OfKind(m.blocks, {"result"})),
                OfKind(m.blocks, {"odd", "audio"}))

gemini_to_ir(w) ==
    FoldLeft(LAMBDA a, m : IF m.role = "system" THEN parse_system(a, m) ELSE gemini_parse_content(a, m),
             NoneYet, w)

\* A functionResponse is named after the identifier when the IR has no name.
message_to_content(m) ==
    LET blocks == IF m.role = "tool" THEN <<Block("result", m.parts[1].t, m.id)>>
                  ELSE SelectSeq(m.parts, LAMBDA p : p.k # "audio") \o m.think \o m.calls
    IN  IF m.role = "system" \/ blocks = <<>> THEN <<>>
        ELSE <<Turn(IF m.role = "assistant" THEN "model" ELSE "user", blocks)>>

gemini_from_ir(r) ==
    LET msgs   == r.msgs
        system == FlattenSeq([i \in DOMAIN msgs |-> IF msgs[i].role = "system" THEN msgs[i].parts ELSE <<>>])
        noName == \E i \in DOMAIN msgs : msgs[i].role = "tool" /\ ~msgs[i].name
    IN  Note(Degrade([r EXCEPT !.msgs = SystemTurn(@) \o FlattenSeq([i \in DOMAIN @ |-> message_to_content(@[i])])],
                     Unwritten(msgs, {"audio"}) \o SelectSeq(system, LAMBDA b : b.k # "text")),
             IF noName THEN {"tool_response_name"} ELSE {})

-----------------------------------------------------------------------------
request_to_ir(p, w) ==
    CASE p = "chat" -> chat_to_ir(w)
      [] p = "anthropic" -> anthropic_to_ir(w)
      [] p = "responses" -> responses_to_ir(w)
      [] p = "gemini" -> gemini_to_ir(w)

request_from_ir(q, r) ==
    CASE q = "chat" -> chat_from_ir(r)
      [] q = "anthropic" -> anthropic_from_ir(r)
      [] q = "responses" -> responses_from_ir(r)
      [] q = "gemini" -> gemini_from_ir(r)

convert_request(q) == request_from_ir(q, request_to_ir(entry, wire))

-----------------------------------------------------------------------------
(* Parameters.  A parameter goes to a field of IrRequest, or is recorded, or *)
(* both; from there it goes to a field of the upstream's body, or is         *)
(* recorded.  "state" stands for previous_response_id, store, include and    *)
(* background, "odd_tool" for a tool that is no function, "choice_..." for   *)
(* the forms of tool_choice.                                                 *)

ChoiceForms == {"choice_auto", "choice_required", "choice_none", "choice_named"}

\* The fields that every protocol has
CommonParams == {"max_tokens", "temperature", "tools", "extra"}

chat_entry_params ==
    CommonParams \cup ChoiceForms \cup
    {"stop", "stream", "include_usage", "odd_tool", "response_format", "seed", "user", "n"}

anthropic_entry_params ==
    CommonParams \cup ChoiceForms \cup {"stop", "stream", "top_k", "user", "thinking", "cache_control"}

responses_entry_params ==
    CommonParams \cup ChoiceForms \cup {"stream", "odd_tool", "response_format", "state"}

gemini_entry_params ==
    CommonParams \cup {"stop", "odd_tool", "response_format", "top_k", "seed", "n"}

entry_params(p) ==
    CASE p = "chat" -> chat_entry_params
      [] p = "anthropic" -> anthropic_entry_params
      [] p = "responses" -> responses_entry_params
      [] p = "gemini" -> gemini_entry_params

parse_params(p, x) ==
    [slot     |-> CASE x = "odd_tool" -> "none"
                    [] x = "state" -> "extra"
                    [] x = "choice_named" -> IF p = "responses" THEN "named_flat" ELSE "named_nested"
                    [] OTHER -> x,
     recorded |-> x \in {"odd_tool", "state"}]

chat_params(slot) ==
    CASE slot \in {"thinking", "cache_control", "top_k"} -> "recorded"
      [] slot \in {"named_flat", "named_nested"} -> "choice_named"
      [] OTHER -> slot

tool_choice_to_anthropic(slot) ==
    CASE slot \in {"choice_auto", "choice_required"} -> slot
      [] slot = "named_nested" -> "choice_named"
      [] slot = "named_flat" -> "choice_of_no_name"
      [] OTHER -> "choice_auto"

anthropic_params(slot) ==
    CASE slot \in {"response_format", "seed", "n"} -> "recorded"
      [] slot \in {"stop", "stream", "top_k", "user", "thinking", "cache_control"} \cup CommonParams -> slot
      [] slot \in ChoiceForms \cup {"named_flat", "named_nested"} -> tool_choice_to_anthropic(slot)
      [] OTHER -> "lost"

responses_params(slot) ==
    CASE slot \in {"seed", "stop", "n", "thinking", "cache_control", "top_k"} -> "recorded"
      [] slot \in {"stream", "response_format", "user"} \cup CommonParams \cup ChoiceForms -> slot
      [] slot \in {"named_flat", "named_nested"} -> "choice_named"
      [] OTHER -> "lost"

gemini_params(slot) ==
    CASE slot \in {"seed", "n", "user", "stream", "named_flat", "named_nested"} \cup ChoiceForms -> "recorded"
      [] slot \in {"top_k", "stop", "response_format"} \cup CommonParams -> slot
      [] OTHER -> "lost"

write_params(q, slot) ==
    CASE q = "chat" -> chat_params(slot)
      [] q = "anthropic" -> anthropic_params(slot)
      [] q = "responses" -> responses_params(slot)
      [] q = "gemini" -> gemini_params(slot)

-----------------------------------------------------------------------------
(* The client: builds a request turn by turn, as its protocol allows.        *)

RequestInit ==
    /\ entry \in EntryProtocols
    /\ param \in entry_params(entry) \cup {"none"}
    /\ wire = <<>> /\ asked = {} /\ answers = {}

\* Blocks of the given kinds with the next free tokens
Numbered(kinds) ==
    LET used == Len(FlattenSeq([i \in DOMAIN wire |-> wire[i].blocks]))
    IN  [i \in DOMAIN kinds |-> Block(kinds[i], used + i, IF kinds[i] = "call" THEN used + i ELSE 0)]

MayAdd == param = "none" /\ Len(wire) < MaxTurns /\ asked = {}

Shape(name, kinds) == IF name \in RequestShapes THEN {kinds} ELSE {}

AddSystem ==
    /\ MayAdd
    /\ entry \in {"anthropic", "gemini"} => wire = <<>>
    /\ \E kinds \in {<<"text">>, <<"text", "odd">>} \cup Shape("system_image", <<"text", "image_inline">>) :
        wire' = Append(wire, Turn("system", Numbered(kinds)))
    /\ UNCHANGED <<entry, param, asked, answers>>

UserMedia ==
    CASE entry = "chat" -> Images \cup {"audio", "file"}
      [] entry = "anthropic" -> Images
      [] entry = "responses" -> Images \cup {"file"}
      [] entry = "gemini" -> {"image_inline", "file", "audio"}

\* The user's words may follow tool results in the same turn.
JoinsResults ==
    /\ "result_with_text" \in RequestShapes /\ entry \in {"anthropic", "gemini"}
    /\ wire # <<>> /\ Last(wire).role = "user" /\ Last(Last(wire).blocks).k = "result"

AddUser ==
    /\ MayAdd
    /\ \E kinds \in {<<"text">>, <<"odd", "text">>} \cup {<<"text", m>> : m \in UserMedia}
                      \cup UNION {Shape("media_first", <<m, "text">>) : m \in UserMedia} :
        wire' = IF JoinsResults THEN [wire EXCEPT ![Len(wire)].blocks = @ \o Numbered(kinds)]
                ELSE Append(wire, Turn("user", Numbered(kinds)))
    /\ UNCHANGED <<entry, param, asked, answers>>

\* In a Responses request each block of an assistant turn is an item.
AssistantTurns(blocks) ==
    CASE entry = "responses" ->
            [i \in DOMAIN blocks |-> Turn(CASE blocks[i].k = "think" -> "reasoning"
                                            [] blocks[i].k = "call" -> "function_call"
                                            [] OTHER -> "assistant", <<blocks[i]>>)]
      [] entry = "gemini" -> <<Turn("model", blocks)>>
      [] OTHER -> <<Turn("assistant", blocks)>>

AddAssistant ==
    /\ MayAdd
    /\ \E kinds \in {<<"text">>, <<"text", "call">>, <<"call", "call">>, <<"think", "call">>,
                     <<"think", "text">>} \cup Shape("two_thoughts", <<"think", "think", "text">>) :
        /\ wire' = wire \o AssistantTurns(Numbered(kinds))
        /\ asked' = TokensOf(OfKind(Numbered(kinds), {"call"}))
    /\ UNCHANGED <<entry, param, answers>>

\* Anthropic and Gemini clients put all the results in one user turn; Gemini
\* ones in the order of the calls.
AddResult ==
    \E c \in asked :
        LET b    == [Numbered(<<"result">>)[1] EXCEPT !.id = c]
            join == wire # <<>> /\ Last(wire).role = "user" /\ OfKind(Last(wire).blocks, {"result"}) # <<>>
        IN  /\ entry = "gemini" => \A d \in asked : c <= d
            /\ wire' = CASE entry = "chat" -> Append(wire, Turn("tool", <<b>>))
                         [] entry = "responses" -> Append(wire, Turn("function_call_output", <<b>>))
                         [] OTHER -> IF join THEN [wire EXCEPT ![Len(wire)].blocks = Append(@, b)]
                                     ELSE Append(wire, Turn("user", <<b>>))
            /\ asked' = asked \ {c}
            /\ answers' = answers \cup {<<b.t, c>>}
            /\ UNCHANGED <<entry, param>>

RequestNext == AddSystem \/ AddUser \/ AddAssistant \/ AddResult

RequestSpec == RequestInit /\ [][RequestNext]_requestVars

-----------------------------------------------------------------------------
RequestTypeOK ==
    /\ entry \in RequestProtocols
    /\ param \in entry_params(entry) \cup {"none"}
    /\ \A i \in DOMAIN wire : wire[i].blocks # <<>>
    /\ Cardinality(asked) <= 2

AllBlocks(turns) == FlattenSeq([i \in DOMAIN turns |-> turns[i].blocks])

Upstreams == RequestProtocols \ {entry}

\* reasoning_content has no item in a Responses request.
Excused(q) ==
    IF q = "responses" /\ "thought_to_responses" \notin RequestShapes
    THEN TokensOf(OfKind(AllBlocks(wire), {"think"})) ELSE {}

\* Whatever the client put into its request (text, media, reasoning, calls,
\* results) reaches the upstream exactly once, or is recorded as degraded.
NothingLostSilently ==
    \A q \in Upstreams :
        LET c == convert_request(q)
            sent == AllBlocks(c.msgs)
        IN  /\ TokensOf(AllBlocks(wire)) \ Excused(q) \subseteq TokensOf(sent) \cup c.deg
            /\ Cardinality(TokensOf(sent)) = Len(sent)

IsModel(turn) == turn.role \in {"assistant", "model"}

\* The turns after the system prompt, as pairs of side and token, without
\* what was recorded as lost
Dialogue(turns, lost) ==
    FlattenSeq([i \in DOMAIN turns |->
        IF turns[i].role = "system" THEN <<>>
        ELSE LET said == SelectSeq(turns[i].blocks,
                                   LAMBDA b : b.k \in {"text", "file", "audio"} \cup Images /\ b.t \notin lost)
             IN  [j \in DOMAIN said |-> <<IsModel(turns[i]), said[j].t>>]])

\* What the user and the model said reaches the upstream in the order and on
\* the side the client gave it, although system messages are moved to the
\* front, results are moved between turns and calls are merged into them.
DialogueKept ==
    \A q \in Upstreams :
        LET c == convert_request(q) IN Dialogue(c.msgs, c.deg) = Dialogue(wire, c.deg)

\* The latest turn before turn i with a call of identifier id
CallTurn(turns, i, id) ==
    LET ts == {j \in 1 .. i - 1 : \E b \in ToSet(turns[j].blocks) : b.k = "call" /\ b.id = id}
    IN  IF ts = {} THEN 0 ELSE CHOOSE j \in ts : \A k \in ts : k <= j

\* Every tool result stands where the upstream's protocol looks for it (right
\* behind the assistant message of its call in chat and Anthropic requests)
\* and carries an identifier under which the upstream finds the call that the
\* client answered, also when the client's protocol has no identifiers.
ResultsPaired ==
    \A q \in Upstreams \ {"gemini"} :
        LET turns == convert_request(q).msgs
        IN  \A i \in DOMAIN turns : \A b \in ToSet(OfKind(turns[i].blocks, {"result"})) :
                LET j == CallTurn(turns, i, b.id)
                IN  /\ j > 0
                    /\ \E c \in ToSet(turns[j].blocks) : c.id = b.id /\ <<b.t, c.t>> \in answers
                    /\ q = "chat" => \A k \in j + 1 .. i - 1 : turns[k].role = "tool"
                    /\ q = "anthropic" => i = j + 1

\* A parameter of the request reaches the upstream with its meaning, or is
\* recorded as degraded.
ParamsKept ==
    param # "none" =>
        \A q \in Upstreams :
            LET p == parse_params(entry, param)
            IN  \/ p.recorded
                \/ write_params(q, p.slot) \in {param, "recorded"}
                \/ <<entry, q, param>> \in ParamGaps

\* A converted request is the client's request: its content, the order and sides of the
\* dialogue, the pairing of calls with results, and its parameters.
RequestFaithful ==
    /\ RequestTypeOK /\ NothingLostSilently /\ DialogueKept
    /\ ResultsPaired /\ ParamsKept

\* A request whose roles are all known has none of them recorded as unknown.
KnownRolesAccepted == "role" \notin request_to_ir(entry, wire).notes
=============================================================================
