SPECIFICATION StudyFairSpec
CONSTANTS
    j1 = j1
    j2 = j2
    Jobs = {j1, j2}
    Batches <- MCBatches
    NoJob = NoJob
    MaxFaults = 2
    MaxTampers = 1
INVARIANTS
    AuthorizedCalls
    StoppedBeforeRetry
    SuccessHasEvidence
PROPERTIES
    CompletedWorkKept
    StudyRecovers
