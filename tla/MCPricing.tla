------------------------------ MODULE MCPricing ------------------------------
(* Events and price tables for Pricing.  A day has four minutes and a token  *)
(* price is for two tokens.                                                  *)
EXTENDS Pricing

Use(in, out, images, seconds) ==
    [u \in PriceUnits |-> CASE u = "token_in" -> in [] u = "token_out" -> out [] u = "image" -> images
                            [] u = "video_second" -> seconds [] OTHER -> 0]
Logged(failed, use, dim) == [failed |-> failed, use |-> use, dim |-> dim]
Events == {Logged(FALSE, Use(1, 2, 0, -1), ""), Logged(FALSE, Use(3, 1, 0, -1), ""),
           Logged(FALSE, Use(0, 0, 2, 0), "big"), Logged(TRUE, Use(1, 0, 0, -1), "")}

Rule(unit, currency, dim, base, start, end) ==
    [unit |-> unit, currency |-> currency, dim |-> dim, base |-> base, segments |-> <<>>,
     basis |-> "prompt_tokens", from |-> start, to |-> end, enabled |-> TRUE]
Segment(price, days, windows, min, max) ==
    [price |-> price, days |-> days, windows |-> windows, min |-> min, max |-> max]

TwoCurrencies == {Rule("token_in", "CNY", "", 3, 0, 9), Rule("token_in", "USD", "", 1, 0, 9)}
ByTheHour == {[Rule("token_in", "USD", "", 3, 0, 9) EXCEPT !.basis = "total_tokens",
                !.segments = <<Segment(1, {}, {<<3, 1>>}, 0, 9), Segment(2, {1}, {}, 0, 9), Segment(5, {}, {}, 3, 9)>>]}
Media == {Rule("image", "CNY", "", 3, 0, 9), Rule("image", "CNY", "big", 5, 0, 1),
          Rule("video_second", "USD", "big", 3, 1, 9), [Rule("token_out", "CNY", "", 2, 0, 9) EXCEPT !.enabled = FALSE]}
NoRules == {}
Tables == {NoRules, TwoCurrencies, ByTheHour, Media}

FxRow(from, to, source, rate) == [from |-> from, to |-> to, source |-> source, rate |-> rate, at |-> 0]
RateTables == {{}, {FxRow("USD", "CNY", "manual", 4), FxRow("USD", "CNY", "auto", 2), FxRow("CNY", "USD", "auto", 4)}}
=============================================================================
