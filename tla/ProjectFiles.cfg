SPECIFICATION FairSpec
CONSTANTS
    f1 = f1
    f2 = f2
    Files = {f1, f2}
    Blocks = 2
    MaxEdits = 3
    MaxTicks = 2
    Guard = 1
    MaxHashes = 2
    Nothing = Nothing
    Stages = {s1, s2}
    Sorted <- MCSorted
    MaxLaunches = 3
INVARIANTS
    DigestWasContent
    CacheIsCurrent
    SnapshotIsSource
PROPERTIES
    UndisturbedStageStarts
CHECK_DEADLOCK FALSE
