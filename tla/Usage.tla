------------------------------- MODULE Usage -------------------------------
(***************************************************************************)
(* Token counts.  Each protocol counts in its own way: chat, Responses and *)
(* Gemini include the cached tokens in the input and Anthropic does not;   *)
(* Gemini alone leaves the thoughts out of the output.  IrUsage is the     *)
(* common form: prompt is the input that no cache served, completion the   *)
(* whole output with the thoughts.                                         *)
(***************************************************************************)
EXTENDS Integers

SatSub(a, b) == IF a > b THEN a - b ELSE 0

\* chat, responses: cached is part of the input, thoughts of the output
openai_parse_usage(u) ==
    [prompt |-> SatSub(u.input, u.cached), completion |-> u.output, cache_read |-> u.cached,
     cache_write |-> 0, reasoning |-> u.thoughts]

responses_parse_usage(u) == openai_parse_usage(u)

anthropic_parse_usage(u) ==
    [prompt |-> u.input, completion |-> u.output, cache_read |-> u.cached, cache_write |-> u.write,
     reasoning |-> 0]

gemini_parse_usage(u) ==
    [prompt |-> SatSub(u.input, u.cached), completion |-> u.output + u.thoughts, cache_read |-> u.cached,
     cache_write |-> 0, reasoning |-> u.thoughts]

parse_usage(p, u) ==
    CASE p = "chat" -> openai_parse_usage(u)
      [] p = "responses" -> responses_parse_usage(u)
      [] p = "anthropic" -> anthropic_parse_usage(u)
      [] p = "gemini" -> gemini_parse_usage(u)

\* IrUsage::default
DefaultUsage == [prompt |-> 0, completion |-> 0, cache_read |-> 0, cache_write |-> 0, reasoning |-> 0]

\* A usage report: cache_write has a field in Anthropic only and is recorded
\* by the others.
Usage(input, cached, output, thoughts, write, recorded) ==
    [input |-> input, cached |-> cached, output |-> output, thoughts |-> thoughts, write |-> write,
     recorded |-> recorded]

openai_usage(u) ==
    Usage(u.prompt + u.cache_read, u.cache_read, u.completion, u.reasoning, 0, u.cache_write > 0)

responses_usage(u) == openai_usage(u)

usage_to_anthropic(u) ==
    Usage(u.prompt, u.cache_read, u.completion, 0, u.cache_write, FALSE)

usage_metadata_to_json(u) ==
    Usage(u.prompt + u.cache_read, u.cache_read, SatSub(u.completion, u.reasoning), u.reasoning, 0,
          u.cache_write > 0)

usage_from_ir(q, u) ==
    CASE q = "chat" -> openai_usage(u)
      [] q = "responses" -> responses_usage(u)
      [] q = "anthropic" -> usage_to_anthropic(u)
      [] q = "gemini" -> usage_metadata_to_json(u)

-----------------------------------------------------------------------------
\* Tokens per kind of price, read from a report in the terms of protocol p
Bill(p, u) ==
    [fresh  |-> IF p = "anthropic" THEN u.input ELSE SatSub(u.input, u.cached),
     cached |-> u.cached,
     output |-> IF p = "gemini" THEN u.output + u.thoughts ELSE u.output]
=============================================================================
