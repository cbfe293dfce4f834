SPECIFICATION FairSpec
CONSTANTS
    c1 = c1
    Candidates = {c1}
    None = None
    Budget = 2
    Sites = 2
    Crystals = 2
    MaxTools = 1
    MaxRecovery = 0
    MaxSkips = 1
    MaxPauses = 1
CHECK_DEADLOCK FALSE
INVARIANTS
    BudgetKept
    AcceptedIsPhysical
    CompleteIsAccepted
PROPERTIES
    PausedIsQuiet
    RolloutEnds
