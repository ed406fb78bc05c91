SPECIFICATION Spec
CONSTANTS
    Generators <- MCGenerators
    Complexes <- MCComplexes
    FirstMaps <- MCFirstMaps
    ScopeOf <- MCScopeOf
    Clauses <- MCClauses
    Names <- MCNames
    Target = "T"
    MaxClauses = 3
CHECK_DEADLOCK FALSE
INVARIANTS
    PendingIsCurrent
    MapIsFunctorial
    OrderDoesNotMatter
    CompositeIsPointwise
PROPERTIES
    ImagesAreKept
