SPECIFICATION FairSpec
CONSTANTS
    r1 = r1 r2 = r2 r3 = r3
    Request = {r1, r2}
    Threshold = 2
    MaxCooldown = 2
    HalfOpenTimeout = 2
    MaxOpens = 2
    MaxEvents = 1
    Events = {"disable", "enable", "edit", "reload", "switch", "restart"}
    LongWaits = TRUE
INVARIANTS BreakerExact
PROPERTIES ManualStays NotBlockedForever
