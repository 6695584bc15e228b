SPECIFICATION SeededSpec
CONSTANTS
    a = a
    b = b
    g = g
    Contracts = {a, b}
    Canonical = {g}
    Readings = {1, 2}
    Modes = {"manual-candidate"}
    Panels = {}
    Opinions = {TRUE}
    Allow = {FALSE}
    Workers = {w1, w2}
    Limit <- LimitSources
SYMMETRY WorkerSymmetry
INVARIANTS
    CurrentClosed
    AcceptedSound
CHECK_DEADLOCK FALSE
