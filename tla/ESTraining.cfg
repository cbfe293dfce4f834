SPECIFICATION FairSpec
CONSTANTS
    Generations = 2
    Population = 2
    DevCases = 1
    DevEvery = 1
    Fitness <- MCFitness
    Arithmetics = {exact, drift}
    MaxFaults = 3
    NoFile = NoFile
    Partial = Partial
INVARIANTS
    ResumeAccepted
    HistoryIsMeasured
    SelectionStays
PROPERTIES
    KeepsPromise
    TrainingCompletes
