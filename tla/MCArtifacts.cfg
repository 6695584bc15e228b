SPECIFICATION FairSpec
CONSTANTS
    Rows <- TheRows
    Kind <- TheKind
    Retired <- TheRetired
    Uses <- TheUses
    Semantics <- TheSemantics
    Topic <- TheTopic
    Recorded <- TheRecorded
    Producers <- TheProducers
    Evidence <- TheEvidence
    Later = {"again"}
    Copies = {c1, c2}
    None = None
    MaxKills = 2
INVARIANTS
    TypeOK
    EvidencePresent
PROPERTIES
    NothingLostUnsaved
    PurgeIsExact
    CleanupEnds
\* A dataset whose migration has no destination left stays as it is.
CHECK_DEADLOCK FALSE
