SPECIFICATION FairSpec
CONSTANTS
    Unbounded = unbounded
    Groups = {1, 2}
    Contracts = {1, 2, 3}
    Bodies <- SomeBodies
    Initial <- SomeInitial
    Values <- SomeValues
    Panel = {}
    MaxPairs = 2
    None = None
    MaxChanges = 2
    MaxFaults = 1
INVARIANTS
    TypeOK
    ShownIsTrue
    CompleteLacksNothing
PROPERTIES
    EventuallyComplete
\* When the cache is complete and nothing changes any more, nothing happens.
CHECK_DEADLOCK FALSE
