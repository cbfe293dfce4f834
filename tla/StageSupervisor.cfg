SPECIFICATION FairSpec
CONSTANTS
    s1 = s1
    s2 = s2
    Supervisors = {s1}
    Collections <- MCCollections
    MadeRest <- MCMadeRest
    Crystal <- MCCrystal
    Closing <- MCClosing
    BuildPlans <- AnyPlan
    MaxFailures = 1
    MaxCrashes = 2
    NoOne = NoOne
    NoQueue = NoQueue
    NoStage = NoStage
INVARIANTS
    FailuresHalt
    RecordsAreTrue
    CompletionIsSound
PROPERTIES
    StudyCompletes
