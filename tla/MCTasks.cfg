SPECIFICATION TasksSpec
CONSTANTS
    \* Idempotency
    r1 = r1 r2 = r2 r3 = r3
    Request = {r1, r2, r3}
    None = None
    Fingerprint = {"a", "b"}
    FpOf <- TwoSameBody
    Ttl = 2
    Faults = {"upstream", "db", "vanish", "expire"}
    \* MediaTasks
    MediaJobs = {"i", "j"}
    Pollers = {"p", "q"}
    MaxAge = 1
    PollLimit = 1
    MaxNow = 1
    MaxMediaFaults = 1
    \* CodexToken
    Callers = {"c1", "c2"}
    MaxTokens = 2
    CredFaults = {"answer_lost", "leaves_late", "update_fails", "reload_fails", "old_reload", "edit", "admin_refresh"}
INVARIANTS ReplayFaithful OneCallPerRecord MediaSettled CredentialSafe
PROPERTIES EverythingEnds
CHECK_DEADLOCK FALSE
