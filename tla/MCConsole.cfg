SPECIFICATION ConsoleSpec
CONSTANTS
    \* AdminAuth
    Handlers = {"a1", "a2"}
    MaxStep = 2
    MaxVersion = 2
    MaxSecret = 2
    MaxTokenKinds = 2
    \* Catalog
    Keys = {"key"}
    Channels = {"channel"}
    Proxies = {"proxy"}
    Writers = {"w1", "w2"}
    MaxWriters = 2
    MaxWrites = 2
    RequestedIds = {"channel"}
    HasSecretKey = TRUE
    \* RouteTable
    ModelNames = {"a", "b"}
    SyncUpstreams = {"u1", "u2"}
    Editors = {"e1", "e2"}
    MaxRouteIds = 3
    MaxOperations = 3
    \* Settings
    HotKeys = {"k"}
    SettingValues = {"a", "b"}
    SettingHandlers = {"g", "h"}
    MaxSaves = 3
    \* Pricing
    RuleTables <- Tables
    FxTables <- RateTables
    LoggedEvents <- Events
    FxProviders = {"usd_base", "cny_base", "ecb"}
    FxRates = {2, 4}
    DefaultRate = 8
    Scale = 8
    Million = 2
    FxStaleMax = 1
    DayLength = 4
    TzShift = 2
    MaxMinutes = 2
    MaxFxWrites = 1
    \* PriceTransfer
    RuleChoices <- Prices
    HandFiles <- WrittenByHand
    PriceChannels = {"c", "d"}
    MaxPriceSteps = 4
INVARIANTS AccountSound TablesSound SettingsFollow PriceJustified BillAgrees TransferSound
PROPERTIES RotationHolds SyncSafe
CHECK_DEADLOCK FALSE
