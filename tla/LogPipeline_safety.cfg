SPECIFICATION Spec
CONSTANTS
    Event = {e1, e2, e3}
    Torn = Torn
    TornUtf8 = TornUtf8
    LogAsync = {"open", "none"}
    QueueCap = 1
    BatchMax = 2
    MaxFileLines = 2
    MaxFiles = 4
    MaxIncidents = 3
    Faults = {"db", "ambiguous", "walerr", "crash"}
SYMMETRY EventSymmetry
INVARIANTS TypeOK AckedDurable ArchivedCounted
PROPERTIES ImplementsLedger GracefulStopKeeps
