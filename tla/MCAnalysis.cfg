SPECIFICATION Spec
CONSTANTS
    k = k
    p = p
    None = None
    Events <- TwoEvents
    Venue <- TwoVenues
    Texts <- TwoTexts
    Threshold <- OnlySecond
    MaxChanges = 1
    MaxFaults = 3
INVARIANTS
    TypeOK
    SuggestionsRest
PROPERTIES
    EventuallySettled
CHECK_DEADLOCK FALSE
