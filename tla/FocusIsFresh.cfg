\* One page and `do`, one server process.
CONSTANTS
    Page = {p1}
    Image = {s1, s2}
    Unloaded = Unloaded
    Torn = Torn
    Text = {t}
    OnDisk = d
    View = {current}
    Current = current
    Absent = Absent
    None = None
    MaxRevision = 2
    MaxInstance = 1
    MaxEdits = 0
    MaxParts = 1
    MaxQueue = 1
    MaxOrphans = 1
SPECIFICATION Spec
SYMMETRY Symmetry
CHECK_DEADLOCK FALSE
PROPERTY FocusIsFresh
