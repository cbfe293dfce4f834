SPECIFICATION FairSpec
CONSTANTS
    j1 = j1
    j2 = j2
    j3 = j3
    s1 = s1
    s2 = s2
    w1 = w1
    w2 = w2
    Workers = {w1, w2}
    First = s1
    CoreOrder <- MCCoreOrder
    ShardOrder <- MCShardOrder
    Nobody = Nobody
    Nothing = Nothing
    MaxFaults = 2
    MaxReruns = 1
CHECK_DEADLOCK FALSE
INVARIANTS
    ReceiptsPinTheLedger
    ResultsAreNotWrittenOff
PROPERTIES
    KeepsPromise
    StudyEnds
