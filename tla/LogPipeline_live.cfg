SPECIFICATION FairSpec
CONSTANTS
    Event = {e1, e2}
    Torn = Torn
    TornUtf8 = TornUtf8
    LogAsync = {"open"}
    QueueCap = 1
    BatchMax = 2
    MaxFileLines = 1
    MaxFiles = 4
    MaxIncidents = 2
    Faults = {"db", "ambiguous", "walerr", "crash"}
PROPERTIES EventuallyCounted
