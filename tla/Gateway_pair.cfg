SPECIFICATION Spec
CONSTANTS
    r1 = r1 r2 = r2
    Request = {r1, r2}
    Input <- NoCompact
    Upstream = {"u1", "u2"}
    Table <- TwoRoutes
    Capable <- AllCapable
    ModeOf <- Modes
    Error = {"connect", "s401"}
    Sticky = TRUE
    None = None
SYMMETRY Twins
INVARIANTS PriorityOrder KeyHonest
