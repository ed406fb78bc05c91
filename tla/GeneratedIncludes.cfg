\* As in Interpretation.cfg.
CONSTANTS
    Dir = {"top", "a/", "r/"}
    Name = {"r", "a", "x"}
    Subdir <- MCSubdir
    Canonical <- MCCanonical
    Root <- MCRoot
    Base <- MCBase
    Program <- MCProgram
    Missing = Missing
    Unreadable = Unreadable
    Broken = Broken
    None = None
    MaxEdits = 0
SPECIFICATION MCSpec
CHECK_DEADLOCK FALSE
INVARIANT GeneratedIncludesAreReady
