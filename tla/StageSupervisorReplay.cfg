SPECIFICATION Spec
CONSTANTS
    s1 = s1
    s2 = s2
    Supervisors = {s1, s2}
    Collections <- MCCollections
    MadeRest <- MCMadeRest
    Crystal <- MCCrystal
    Closing <- MCClosing
    BuildPlans <- OnePlan
    MaxFailures = 0
    MaxCrashes = 1
    NoOne = NoOne
    NoQueue = NoQueue
    NoStage = NoStage
INVARIANTS
    NeverReplayed
