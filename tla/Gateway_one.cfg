SPECIFICATION FairSpec
CONSTANTS
    r1 = r1 r2 = r2
    Request = {r1}
    Input <- AllInputs
    Upstream = {"u1", "u2", "u3", "u4"}
    Table <- FourRoutes
    Capable <- AllCapable
    ModeOf <- Modes
    Error = {"connect", "s429", "s400", "s404", "s401", "k400", "auth", "bodyread"}
    Sticky = TRUE
    None = None
INVARIANTS EventsTruthful FailoverDiscipline
PROPERTIES Settles
