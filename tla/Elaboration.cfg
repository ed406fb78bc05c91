SPECIFICATION Spec
CONSTANTS
    Alphabet <- MCAlphabet
    Programs <- MCPrograms
    diagram_as_term <- MCTerm
    pmap_as_term <- MCMap
    map_applied <- MCApply
CHECK_DEADLOCK FALSE
INVARIANTS
    IndicesAgree
    MapsPreserveBoundaries
    DottedNamesAgree
PROPERTIES
    GluedInFull
    FailureChangesNothing
