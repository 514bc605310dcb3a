SPECIFICATION Spec
CONSTANTS
    Event = {e1, e2}
    Torn = Torn
    TornUtf8 = TornUtf8
    LogAsync = {"open"}
    QueueCap = 1
    BatchMax = 2
    MaxFileLines = 2
    MaxFiles = 4
    MaxIncidents = 3
    Faults = {"db", "ambiguous", "walerr", "torn", "tornutf8", "fsync", "partition", "timeout", "crash"}
SYMMETRY EventSymmetry
INVARIANTS AllAccounted
