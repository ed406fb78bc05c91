\* One file, two texts that interpret and one that does not, one name, and six
\* commands that count: enough to load, turn, begin, rewrite and finish a fill.
CONSTANTS
    Path = {"a.ali"}
    Text = {"early", "late", "bad"}
    Broken = {"bad"}
    Hole <- MCHole
    HoleOrder <- MCHoleOrder
    Leaves <- MCLeaves
    Needs <- MCNeeds
    Pinned = {"k"}
    Cell = {"x"}
    ZeroHole = {"z", "k"}
    Diagram = {"p", "m", "q"}
    Boundary <- MCBoundary
    Rewrites <- MCRewrites
    Together <- MCTogether
    Name = {"pf"}
    None = None
    Memory = Memory
    MaxSteps = 2
    MaxRevision = 6
SPECIFICATION Spec
INVARIANTS StoreIsWhatTheSourceSays FillIsOfAnOpenHole FillersHaveTheBoundary
PROPERTIES EditsSurvive RefusedIsUndone ImplementsClock
CHECK_DEADLOCK FALSE
