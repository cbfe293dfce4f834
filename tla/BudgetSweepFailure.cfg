SPECIFICATION Spec
CONSTANTS
    a1 = a1
    a2 = a2
    j1 = j1
    j2 = j2
    j3 = j3
    baseline = baseline
    graph_risk = graph_risk
    g1 = g1
    g2 = g2
    Actors = {a1, a2}
    Jobs = {j1, j2, j3}
    JobBudget <- MCJobBudget
    JobMethod <- MCJobMethod
    InitialMethod <- MCInitialMethod
    GpuOf <- MCOwnGpu
    NoClaim = NoClaim
    Unfinished = Unfinished
    NoJob = NoJob
    Aggregator = Aggregator
    MaxFaults = 1
PROPERTIES
    FailureNamesHeldJob
