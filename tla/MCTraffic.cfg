SPECIFICATION TrafficSpec
CONSTANTS
    r1 = r1 r2 = r2
    \* ClientIp
    Width4 = 2
    Width6 = 3
    ProxyConfigs <- TrustedLists
    Wanderers <- Hosts
    MaxForged = 1
    MaxHops = 2
    \* RateLimit
    ApiKeys = {"k"}
    LoginNames = {"admin", "root"}
    Rpms = {0, 1}
    DefaultRpm = 2
    LoginLimit = 1
    Window = 2
    IdleEvict = 2
    MaxRateEntries = 1
    MaxTime = 4
    \* Quota
    Requests = {r1, r2}
    QuotaLimit = 1
    QuotaTtl = 1
    QueryTime = 1
    QuotaActions = {"block", "warn"}
    Periods = 2
    MaxClock = 3
    \* Routing
    Letters = {"a", "b"}
    MaxPattern = 4
    MaxName = 4
    Weights <- RouteWeights
    MaxGroup = 3
    StickyKeys = {"k", "l", "m"}
    Homes = {"u", "v"}
    StickyTtl = 1
    StickyCap = 2
    MaxTicks = 3
    \* ChannelState
    AuthCodes = {"unauthenticated", "expired"}
    QuotaReadings = {"low", "high"}
    AuthFailTtl = 2
    ThrottleTime = 1
    MaxMoment = 2
    MaxTasks = 3
    MaxRestarts = 1
    \* ConvertRequest
    EntryProtocols <- Protocols
    MaxTurns = 4
    RequestShapes = {}
    ParamGaps <- DroppedParams
    \* ConvertResponse
    ReplyPairs <- Foreign
    MaxReply = 3
    MaxCount = 2
    ReplyGaps <- DroppedOutcomes
    ReplyShapes = {}
    \* ConvertStream
    Pairs <- Foreign
    MaxFrames = 5
    StreamFaults = {"broken", "error", "early_eof"}
    \* Sse
    MaxBytes = 6
    StreamBytes = {"d", "b", "x", "n", "r"}
    \* StreamBilling
    MeterPairs <- AllPairs
    MeterTotals <- Totals
    MaxDeltas = 2
    TextMax = 7
    BillingGaps = {"late_usage", "cut_answer", "cache_write", "long_stream"}
    \* DevinStream
    DevinPayloads <- ReplyFrames
    MaxDevinFrames = 3
    MaxFrameBytes = 2
    MaxBufferBytes = 7
    WireMax = 4
    DevinFaults = {"compressed", "oversize", "garbled", "error", "cut", "reset"}
    \* DevinRequest
    MaxItems = 4
    Emulations <- EmulationSettings
    \* WriterShutdown
    MaxQueued = 2
SYMMETRY SameRequests
INVARIANTS
    AddressTrue LimitsExact VerdictsCurrent RoutingExact RowExplained
    RequestFaithful ReplyFaithful StreamFaithful EventsWhole BilledFairly
    DevinKept DrainBounded
CHECK_DEADLOCK FALSE
