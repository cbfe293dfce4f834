SPECIFICATION FairSpec
CONSTANTS
    external = external
    core = core
    publisher = publisher
    stage = stage
    External = external
    Core = core
    Publisher = publisher
    Stage = stage
    NoFile = NoFile
    NumLayers = 2
    MaxDeaths = 1
INVARIANTS
    ReadyIsSound
PROPERTIES
    KeepsPromise
    BanksRecover
CHECK_DEADLOCK FALSE
