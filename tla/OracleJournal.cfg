SPECIFICATION Spec
CONSTANTS
    mace = mace
    orb = orb
    Roles = {mace, orb}
    Workers <- MCWorkers
    Work <- MCWork
    MaxFaults = 1
    Nobody = Nobody
INVARIANTS
    AuditIsTruthful
    HonestJournalAccepted
    ForwardsArePrivate
