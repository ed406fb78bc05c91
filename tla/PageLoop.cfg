\* One page with two views, and `do`; every call may fail, and one request outlives
\* its call.
CONSTANTS
    Page = {p1}
    Image = {s1}
    Unloaded = Unloaded
    Torn = Torn
    Text = {t1}
    OnDisk = d
    View = {current, preview}
    Current = current
    Absent = Absent
    None = None
    MaxRevision = 2
    MaxInstance = 1
    MaxEdits = 1
    MaxParts = 2
    MaxQueue = 1
    MaxOrphans = 1
SPECIFICATION FairSpec
CHECK_DEADLOCK FALSE
PROPERTY PagesRest
