SPECIFICATION FairSpec
CONSTANTS
    Captures = {c}
    Compiles = {i}
    Explains = {e}
    Configured = {i}
    None = None
    MaxCrashes = 1
    MaxQueue = 2
INVARIANTS
    TypeOK
    PendingIsClaimable
    RunningIsHeld
    AttemptsAccounted
PROPERTIES
    FinalStays
    AcceptedIsAttempted
    LaneJobsEnd
\* A system whose jobs are all finished may stop.
CHECK_DEADLOCK FALSE
