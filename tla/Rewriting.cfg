SPECIFICATION Spec
CONSTANTS
    Generators <- MCGenerators
    names <- MCNames
    Limit = 2
    MaxLeaves = 3
    MaxCells = 9
    MaxSteps = 2
CHECK_DEADLOCK FALSE
INVARIANTS
    BoundariesAreCanonical
    HistoryIsHonest
    Reconstructs
    ProofRunsToCurrent
    ResumedIsTheProof
    MatchesAreAll
    AutoIsMaximal
