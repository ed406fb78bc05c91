\* Five files, of nine texts each; a disk of three of them may be edited once.
CONSTANTS
    Dir = {"top", "a/", "lib"}
    Name = {"r", "a", "x"}
    Subdir <- MCSubdir
    Canonical <- MCCanonical
    Root <- MCRoot
    Base <- MCBase
    Program <- MCProgram
    Missing = Missing
    Unreadable = Unreadable
    Broken = Broken
    None = None
    MaxEdits = 1
SPECIFICATION MCSpec
CHECK_DEADLOCK FALSE
INVARIANTS DependenciesFirst CyclesAreReal OwnFirst
PROPERTY LoadEnds
