SPECIFICATION Spec
CONSTANTS
    Event = {e1, e2}
    Torn = Torn
    TornUtf8 = TornUtf8
    LogAsync = {"open"}
    QueueCap = 1
    BatchMax = 2
    MaxFileLines = 4
    MaxFiles = 3
    MaxIncidents = 3
    Faults = {"db", "torn"}
INVARIANTS AckedDurable
