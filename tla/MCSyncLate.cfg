SPECIFICATION FairSpec
CONSTANTS
    e1 = e1
    e2 = e2
    Pages <- OnePerPage
    Overlap = TRUE
    MaxFaults = 3
    MaxChanges = 0
PROPERTIES
    ListedStaysActive
