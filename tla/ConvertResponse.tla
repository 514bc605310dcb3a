-------------------------- MODULE ConvertResponse -------------------------
(***************************************************************************)
(* Conversion of complete responses and of errors: the upstream's body     *)
(* becomes an IrResponse (response_to_ir) or an IrError (error_to_ir), and *)
(* then a body in the client's protocol (response_from_ir, error_from_ir). *)
(*                                                                         *)
(* The upstream answers block by block.  `report` is what it counted, in   *)
(* the terms of its protocol (module Usage).                               *)
(***************************************************************************)
EXTENDS Integers, Sequences, FiniteSets, SequencesExt, Usage

CONSTANTS
    ReplyPairs,     \* <<protocol of the upstream, protocol of the client>>
    MaxReply,       \* bound on the blocks of a reply
    MaxCount,       \* bound on a token count
    ReplyGaps,      \* <<upstream, client, outcome>> shown as another outcome
    ReplyShapes     \* shapes known to lose content: "two_thoughts",
                    \* "image_to_responses", "odd_error"

VARIABLES
    pair,       \* <<upstream, client>>
    reply,      \* blocks of the upstream's reply
    report,     \* its usage, in its own protocol's terms
    outcome     \* "open", how the reply ended, or the shape of an error body

replyVars == <<pair, reply, report, outcome>>

ReplyUp == pair[1]
ReplyClient == pair[2]

-----------------------------------------------------------------------------
(* Content.                                                                  *)

RBlock(k, t) == [k |-> k, t |-> t]

ROfKind(blocks, ks) == SelectSeq(blocks, LAMBDA b : b.k \in ks)

RNewest(blocks) == IF blocks = <<>> THEN <<>> ELSE <<Last(blocks)>>

IrReply(parts, calls, think, deg) == [parts |-> parts, calls |-> calls, think |-> think, deg |-> deg]

\* chat: the message has one reasoning_content, a content and tool_calls
chat_parse_choice(blocks) ==
    IrReply(ROfKind(blocks, {"text"}), ROfKind(blocks, {"call"}), ROfKind(blocks, {"think"}),
            ROfKind(blocks, {"odd"}))

\* anthropic: the last thinking block wins
anthropic_parse_response(blocks) ==
    IrReply(ROfKind(blocks, {"text"}), ROfKind(blocks, {"call"}), RNewest(ROfKind(blocks, {"think"})),
            ROfKind(blocks, {"odd"}))

\* Bug: each reasoning item overwrites the one before.
responses_parse_output_LastThought(blocks) ==
    IrReply(ROfKind(blocks, {"text"}), ROfKind(blocks, {"call"}), RNewest(ROfKind(blocks, {"think"})),
            ROfKind(blocks, {"odd"}))

\* responses: the summaries of all reasoning items are joined
responses_parse_output(blocks) ==
    IrReply(ROfKind(blocks, {"text"}), ROfKind(blocks, {"call"}), ROfKind(blocks, {"think"}),
            ROfKind(blocks, {"odd"}))

\* gemini: texts before images; the last thought wins
gemini_parse_response(blocks) ==
    IrReply(ROfKind(blocks, {"text"}) \o ROfKind(blocks, {"image"}), ROfKind(blocks, {"call"}),
            RNewest(ROfKind(blocks, {"think"})), ROfKind(blocks, {"odd"}))

reply_to_ir(p, blocks) ==
    CASE p = "chat" -> chat_parse_choice(blocks)
      [] p = "anthropic" -> anthropic_parse_response(blocks)
      [] p = "responses" -> responses_parse_output(blocks)
      [] p = "gemini" -> gemini_parse_response(blocks)

choice_to_json(r) == r.think \o r.parts \o r.calls

response_blocks(r) == r.think \o r.parts \o r.calls

\* The text only: an output message has no image part.
response_output(r) == ROfKind(r.parts, {"text"}) \o r.calls \o r.think

message_to_response_parts(r) == r.think \o r.parts \o r.calls

reply_from_ir(q, r) ==
    CASE q = "chat" -> choice_to_json(r)
      [] q = "anthropic" -> response_blocks(r)
      [] q = "responses" -> response_output(r)
      [] q = "gemini" -> message_to_response_parts(r)

-----------------------------------------------------------------------------
(* Outcome.  The upstream's word for it, the IR's finish_reason and the      *)
(* client's word.  A Responses or Gemini body has no word for a call.        *)

UpWord(p, o) ==
    CASE p = "chat" -> o
      [] p = "anthropic" -> CASE o = "stop" -> "end_turn" [] o = "length" -> "max_tokens"
                              [] o = "tool_calls" -> "tool_use" [] OTHER -> "refusal"
      [] p = "responses" -> CASE o = "failed" -> "failed"
                              [] o \in {"length", "content_filter"} -> "incomplete"
                              [] OTHER -> "completed"
      [] p = "gemini" -> CASE o = "length" -> "MAX_TOKENS" [] o = "content_filter" -> "SAFETY" [] OTHER -> "STOP"

normalize_reply_finish(w) ==
    CASE w \in {"stop", "end_turn", "completed", "STOP"} -> "stop"
      [] w \in {"length", "max_tokens", "incomplete", "MAX_TOKENS"} -> "length"
      [] w \in {"tool_calls", "tool_use"} -> "tool_calls"
      [] w \in {"content_filter", "SAFETY"} -> "content_filter"
      [] OTHER -> w

anthropic_stop_reason(f) ==
    CASE f = "stop" -> "end_turn" [] f = "length" -> "max_tokens" [] f = "tool_calls" -> "tool_use"
      [] OTHER -> f

\* incomplete_details is kept from a Responses body only, where the status is
\* "incomplete" and the IR says "length".
responses_status(f) ==
    CASE f = "length" -> "incomplete" [] f = "failed" -> "failed" [] OTHER -> "completed"

gemini_finish_reason(f) ==
    CASE f \in {"stop", "tool_calls"} -> "STOP" [] f = "length" -> "MAX_TOKENS"
      [] f = "content_filter" -> "SAFETY" [] OTHER -> f

finish_from_ir(q, f) ==
    CASE q = "chat" -> f
      [] q = "anthropic" -> anthropic_stop_reason(f)
      [] q = "responses" -> responses_status(f)
      [] q = "gemini" -> gemini_finish_reason(f)

\* What a client of protocol q makes of the word and of the calls it got
ClientView(q, w, called) ==
    CASE q \in {"responses", "gemini"} /\ w \in {"completed", "STOP"} -> IF called THEN "tool_calls" ELSE "stop"
      [] w = "refusal" -> IF q = "anthropic" THEN "content_filter" ELSE "unknown"
      [] w = "incomplete" -> "length"
      [] w = "content_filter" -> IF q = "chat" THEN w ELSE "unknown"
      [] OTHER -> normalize_reply_finish(w)

-----------------------------------------------------------------------------
(* Errors.  The body is proper (in the shape of the protocol), a plain text, *)
(* or other JSON; token 1 stands for its text and 0 for no text.             *)

error_to_ir(p, body) ==
    IF p \in {"chat", "responses"} /\ body = "other_json" THEN 0 ELSE 1

error_from_ir(q, message) == message

-----------------------------------------------------------------------------
Counts == 0 .. MaxCount

\* Thoughts are part of the output except for Gemini; caches exceed the input
\* in reports of some services.
Reports(p) ==
    {u \in [input : Counts, cached : Counts, output : Counts, thoughts : Counts, write : Counts] :
        /\ p \notin {"gemini"} => u.thoughts <= u.output
        /\ p = "anthropic" => u.thoughts = 0
        /\ p # "anthropic" => u.write = 0}

NoReport == [input |-> 0, cached |-> 0, output |-> 0, thoughts |-> 0, write |-> 0]

ReplyInit ==
    /\ pair \in ReplyPairs
    /\ reply = <<>>
    /\ report = NoReport
    /\ outcome = "open"

AddReplyBlock ==
    /\ outcome = "open" /\ Len(reply) < MaxReply
    /\ \E k \in {"think", "text", "call", "odd"} \cup (IF ReplyUp = "gemini" THEN {"image"} ELSE {}) :
        /\ k = "think" => \/ "two_thoughts" \in ReplyShapes \/ ReplyUp = "responses"
                          \/ ROfKind(reply, {"think"}) = <<>>
        /\ k = "image" => "image_to_responses" \in ReplyShapes \/ ReplyClient # "responses"
        /\ reply' = Append(reply, RBlock(k, Len(reply) + 1))
    /\ UNCHANGED <<pair, report, outcome>>

Outcomes ==
    {"length", "content_filter"} \cup (IF ReplyUp = "responses" THEN {"failed"} ELSE {})
      \cup (IF ROfKind(reply, {"call"}) = <<>> THEN {"stop"} ELSE {"tool_calls"})

FinishReply ==
    /\ outcome = "open"
    /\ outcome' \in Outcomes
    /\ report' \in IF Len(reply) <= 1 THEN Reports(ReplyUp) ELSE {NoReport}
    /\ UNCHANGED <<pair, reply>>

ReplyFails ==
    /\ outcome = "open" /\ reply = <<>>
    /\ outcome' \in {"proper", "plain_text"} \cup
                    (IF "odd_error" \in ReplyShapes \/ ReplyUp \in {"anthropic", "gemini"}
                     THEN {"other_json"} ELSE {})
    /\ UNCHANGED <<pair, reply, report>>

ReplyNext == AddReplyBlock \/ FinishReply \/ ReplyFails

ReplySpec == ReplyInit /\ [][ReplyNext]_replyVars

-----------------------------------------------------------------------------
ReplyErrors == {"proper", "plain_text", "other_json"}

ReplyTypeOK ==
    /\ pair \in ReplyPairs
    /\ outcome \in {"open", "stop", "length", "tool_calls", "content_filter", "failed"} \cup ReplyErrors
    /\ Len(reply) <= MaxReply

\* The usage that is priced and logged (the IR's) and the usage the client
\* reads in its own protocol both say how many fresh, cached and output tokens
\* the upstream counted: nothing is counted twice or dropped on the way, also
\* where a service reports more cached than input tokens.
UsageExact ==
    outcome \notin {"open"} \cup ReplyErrors =>
        LET bill == Bill(ReplyUp, report)
            ir   == parse_usage(ReplyUp, report)
            out  == usage_from_ir(ReplyClient, ir)
        IN  /\ [fresh |-> ir.prompt, cached |-> ir.cache_read, output |-> ir.completion] = bill
            /\ Bill(ReplyClient, out) = bill
            /\ report.write = out.write \/ out.recorded

\* Every block of the reply reaches the client exactly once, in the upstream's
\* order as far as text is concerned, or is recorded as degraded.
ReplyKept ==
    LET ir  == reply_to_ir(ReplyUp, reply)
        out == reply_from_ir(ReplyClient, ir)
        deg == {ir.deg[i].t : i \in DOMAIN ir.deg}
    IN  /\ {out[i].t : i \in DOMAIN out} = {reply[i].t : i \in DOMAIN reply} \ deg
        /\ Len(out) + Cardinality(deg) = Len(reply)
        /\ ROfKind(out, {"text"}) = ROfKind(reply, {"text"})

\* The client learns how the reply ended: a truncated, filtered or failed
\* reply is never shown as a complete one, and a call is shown as a call.
OutcomeShown ==
    outcome \notin {"open"} \cup ReplyErrors =>
        LET f == normalize_reply_finish(UpWord(ReplyUp, outcome))
            w == finish_from_ir(ReplyClient, f)
        IN  \/ ClientView(ReplyClient, w, ROfKind(reply, {"call"}) # <<>>) = outcome
            \/ <<ReplyUp, ReplyClient, outcome>> \in ReplyGaps

\* The text of an upstream's error reaches the client, whatever body it came in.
ErrorTextKept ==
    outcome \in ReplyErrors => error_from_ir(ReplyClient, error_to_ir(ReplyUp, outcome)) = 1

\* A converted reply is the upstream's reply: its content, its outcome, its usage to the
\* token, and its error text.
ReplyFaithful == ReplyTypeOK /\ UsageExact /\ ReplyKept /\ OutcomeShown /\ ErrorTextKept
=============================================================================
