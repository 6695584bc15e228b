SPECIFICATION Spec
CONSTANTS
    a = a
    b = b
    g = g
    Contracts = {a}
    Canonical = {g, h}
    Readings = {1}
    Modes = {"manual-candidate", "stored-response-replay"}
    Panels = {}
    Opinions = {}
    Allow = {}
    Workers = {w1}
    Limit <- LimitFresh
INVARIANTS
    TypeOK
    ManualCandidateAdmitted
CHECK_DEADLOCK FALSE
