SPECIFICATION FairSpec
CONSTANTS
    Size = 3
    Answers = {expected, other}
    Expected = expected
    Abstain = abstain
    Questions = {q1, q2}
    None = None
    MaxCrashes = 3
INVARIANTS
    TypeOK
    LabelRests
PROPERTIES
    ImplementsVerdict
    VerdictReached
\* When every question was replaced, nothing is left to do.
CHECK_DEADLOCK FALSE
