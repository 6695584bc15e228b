SPECIFICATION SeededSpec
CONSTANTS
    a = a
    b = b
    g = g
    Contracts = {a, b}
    Canonical = {g}
    Readings = {1, 2}
    Modes = {}
    Panels = {}
    Opinions = {TRUE}
    Allow = {FALSE}
    Workers = {w1, w2}
    Limit <- LimitRace
INVARIANTS
    PublishableNow
CHECK_DEADLOCK FALSE
