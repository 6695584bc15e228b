SPECIFICATION FairSpec
CONSTANTS
    e1 = e1
    e2 = e2
    Pages <- OnePerPage
    Overlap = FALSE
    MaxFaults = 3
    MaxChanges = 1
INVARIANTS
    TypeOK
    PendingIsResumable
    CheckpointSound
PROPERTIES
    ListedStaysActive
    ManualRefreshHappens
    GoneIsRetired
