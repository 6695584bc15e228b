SPECIFICATION Spec
CONSTANTS
    Candidates <- MCCandidates
    Kinds <- MCKinds
    Rank <- MCRank
INVARIANTS
    Integrity
PROPERTIES
    NoResurrection
    LossHasOneCause
