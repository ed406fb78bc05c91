\* One page and `do`, two server processes: loads from the tab and from disk, an
\* edit, two parts a line.
CONSTANTS
    Page = {p1}
    Image = {s1, s2}
    Unloaded = Unloaded
    Torn = Torn
    Text = {t1, t2}
    OnDisk = d
    View = {current}
    Current = current
    Absent = Absent
    None = None
    MaxRevision = 2
    MaxInstance = 2
    MaxEdits = 1
    MaxParts = 2
    MaxQueue = 1
    MaxOrphans = 0
SPECIFICATION Spec
SYMMETRY Symmetry
CHECK_DEADLOCK FALSE
INVARIANTS OneCut ShownIsCurrent TornIsNotShown
PROPERTIES OnlyEditsAreWritten RunsOnWhatWasShown
