SPECIFICATION SeededSpec
CONSTANTS
    a = a
    b = b
    g = g
    Contracts = {a, b}
    Canonical = {g}
    Readings = {1, 2}
    Modes = {}
    Panels = {p1}
    Opinions = {TRUE, FALSE}
    Allow = {TRUE, FALSE}
    Workers = {w1, w2}
    Limit <- LimitReviews
SYMMETRY WorkerSymmetry
INVARIANTS
    AcceptedJustified
    BasisHonest
    LabelsNeverOverstate
PROPERTIES
    WithdrawalIsPrecise
CHECK_DEADLOCK FALSE
