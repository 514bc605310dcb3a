SPECIFICATION PricingSpec
CONSTANTS
    RuleTables <- Tables
    FxTables <- RateTables
    LoggedEvents <- Events
    FxProviders = {"usd_base", "cny_base", "ecb"}
    FxRates = {2, 4}
    DefaultRate = 8
    Scale = 8
    Million = 2
    FxStaleMax = 1
    DayLength = 4
    TzShift = 2
    MaxMinutes = 2
    MaxFxWrites = 1
INVARIANTS FetchedRateUsed
CHECK_DEADLOCK FALSE
