\* A session on the diamond: histories of up to three steps, drives of up to
\* two, one free name and one taken.
CONSTANTS
    Diagram <- MCDiagram
    Step <- MCStep
    Input <- MCInput
    Output <- MCOutput
    Matches <- MCMatches
    Families <- MCFamilies
    Greedy <- MCGreedy
    None = None
    Name = {"pf", "lhs"}
    TakenNames = {"lhs"}
    MaxSteps = 3
    MaxAuto = 2
SPECIFICATION Spec
INVARIANTS AtTheActiveStep HistoryReplays CacheIsAPrefix
PROPERTIES StoreBindsTheActiveProof ImplementsSteps
