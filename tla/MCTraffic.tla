------------------------------ MODULE MCTraffic ------------------------------
(***************************************************************************)
(* Instances of the parts that a request passes: the client's address, the *)
(* limits, the choice of a route, the marks kept on a channel, the         *)
(* conversions, the event streams and their metering, the Devin channel,   *)
(* and the log writer when it is stopped.                                  *)
(* The parts share no state, so a behaviour follows one of them while the  *)
(* others stay at one of their initial states.                             *)
(***************************************************************************)
EXTENDS ClientIp, RateLimit, Quota, Routing, ChannelState, ConvertRequest, ConvertResponse, ConvertStream, Sse,
        StreamBilling, DevinStream, DevinRequest, WriterShutdown, TLC

VARIABLE focus

Protocols == {"chat", "anthropic", "gemini", "responses"}
Foreign == {q \in Protocols \X Protocols : q[1] # q[2]}

-----------------------------------------------------------------------------
\* Client addresses: two bits of IPv4 and three of IPv6.
V4(b) == [v |-> 4, bits |-> b]
V6(b) == [v |-> 6, bits |-> b]
Network(ip, bits) == [parses |-> TRUE, ip |-> ip, prefix |-> bits]
Nonsense == [parses |-> FALSE, ip |-> V4(3), prefix |-> 0]

Hosts == {V4(0), V4(1), V4(3), V6(1), V6(4)}
TrustedLists == {<<>>, <<Network(V4(0), 1)>>, <<Network(V4(1), 2), Network(V6(4), 1)>>,
                 <<Network(V4(1), 3), Nonsense>>, <<Network(V6(1), 0)>>}

\* Route weights; the database does not exclude a negative one.
RouteWeights == {-1, 1, 2}

\* Parameters and outcomes that a conversion is known to drop.
DroppedParams ==
    {<<"chat", q, "include_usage">> : q \in Protocols}
    \cup {<<"anthropic", "gemini", "thinking">>, <<"anthropic", "gemini", "cache_control">>,
          <<"chat", "anthropic", "choice_none">>, <<"responses", "anthropic", "choice_none">>,
          <<"responses", "anthropic", "choice_named">>}
DroppedOutcomes ==
    {<<q[1], q[2], "content_filter">> : q \in Foreign \ {<<"chat", "gemini">>}}
    \cup {<<u, c, "tool_calls">> : u \in {"gemini", "responses"}, c \in {"chat", "anthropic"}}

\* Figures of a stream: with thoughts, more cached than read, with a cache write.
Totals == {Usage(3, 1, 2, 1, 0, FALSE), Usage(1, 2, 1, 0, 0, FALSE), Usage(2, 1, 2, 0, 1, FALSE)}
AllPairs == Protocols \X Protocols

\* Frames of the Devin channel: pieces, figures, some in one frame, some bad.
OneField(k, id) == <<Field(k, id, 0)>>
ReplyFrames ==
    {OneField("text", ""), OneField("think", ""), OneField("call", "c"), OneField("call", "d"), OneField("call", ""),
     <<Field("call", "d", NoFragment)>>,
     OneField("usage", "prompt"), OneField("stop", "") \o OneField("usage", "output"),
     OneField("text", "") \o OneField("garbled", ""), OneField("text", "") \o OneField("garbled_call", "")}
EmulationSettings ==
    {[cli |-> TRUE, info |-> TRUE, instructions |-> TRUE], [cli |-> TRUE, info |-> FALSE, instructions |-> FALSE],
     [cli |-> FALSE, info |-> TRUE, instructions |-> FALSE], [cli |-> FALSE, info |-> TRUE, instructions |-> TRUE]}

-----------------------------------------------------------------------------
CONSTANTS r1, r2
SameRequests == Permutations({r1, r2})

TrafficInit ==
    /\ focus \in {"ip", "rate", "quota", "match", "pick", "sticky", "channel", "request", "response", "stream", "sse",
                "meter", "devin", "devin_request", "shutdown"}
    /\ IpInit /\ (focus = "ip" \/ <<trusted_proxies, path, xff, real_ip>> = <<<<>>, <<V4(0)>>, <<>>, NoHeader>>)
    /\ RateInit /\ (focus = "rate" \/ \A k \in ApiKeys : rpm[k] = NoRpm)
    /\ QuotaInit /\ (focus = "quota" \/ action = "block")
    /\ RequestInit /\ (focus = "request" \/ <<entry, param>> = <<"chat", "none">>)
    /\ ReplyInit /\ (focus = "response" \/ pair = <<"chat", "gemini">>)
    /\ StreamInit /\ (focus = "stream" \/ <<from, to>> = <<"chat", "gemini">>)
    /\ MeterInit /\ (focus = "meter" \/ <<line, total.input>> = <<<<"chat", "chat">>, 3>>)
    /\ MatchInit /\ (focus = "match" \/ <<pat, txt>> = <<<<>>, <<>>>>)
    /\ PickInit /\ (focus = "pick" \/ group = <<>>)
    /\ DevinReqInit /\ (focus = "devin_request" \/ emulation = [cli |-> TRUE, info |-> TRUE, instructions |-> TRUE])
    /\ DevinInit /\ StickyInit /\ ChannelInit /\ SseInit /\ ShutdownInit

\* The parts other than x stay as they are.
Others(x) ==
    /\ focus = x /\ UNCHANGED <<focus, group>>
    /\ x # "ip" => UNCHANGED ipVars
    /\ x # "rate" => UNCHANGED rateVars
    /\ x # "quota" => UNCHANGED quotaVars
    /\ x # "match" => UNCHANGED matchVars
    /\ x # "sticky" => UNCHANGED stickyVars
    /\ x # "channel" => UNCHANGED channelVars
    /\ x # "request" => UNCHANGED requestVars
    /\ x # "response" => UNCHANGED replyVars
    /\ x # "stream" => UNCHANGED streamVars
    /\ x # "sse" => UNCHANGED sseVars
    /\ x # "meter" => UNCHANGED meterVars
    /\ x # "devin" => UNCHANGED devinVars
    /\ x # "devin_request" => UNCHANGED devinReqVars
    /\ x # "shutdown" => UNCHANGED shutdownVars

TrafficNext ==
    \/ Others("ip") /\ IpNext
    \/ Others("rate") /\ RateNext
    \/ Others("quota") /\ QuotaNext
    \/ Others("match") /\ pattern_matches
    \/ Others("sticky") /\ StickyNext
    \/ Others("channel") /\ ChannelNext
    \/ Others("request") /\ RequestNext
    \/ Others("response") /\ ReplyNext
    \/ Others("stream") /\ StreamNext
    \/ Others("sse") /\ SseNext
    \/ Others("meter") /\ MeterNext
    \/ Others("devin") /\ DevinNext
    \/ Others("devin_request") /\ DevinReqNext
    \/ Others("shutdown") /\ ShutdownNext

TrafficSpec == TrafficInit /\ [][TrafficNext]_<<focus, group, ipVars, rateVars, quotaVars, matchVars, stickyVars, channelVars,
                                               requestVars, replyVars, streamVars, sseVars, meterVars, devinVars,
                                               devinReqVars, shutdownVars>>

\* The Devin channel keeps the dialogue on its way out and the answer on its way back.
DevinKept == DevinFaithful /\ DevinReqTypeOK /\ TurnsKept
=============================================================================
