\* One API process; two clients join, switch, leave, watch and drop out while
\* their handlers interleave and inserts fail.
SPECIFICATION Spec
CONSTANTS
    None = None
    i1 = i1
    i2 = i2
    s1 = s1
    s2 = s2
    e1 = e1
    e2 = e2
    Sockets = {s1, s2}
    Exhibitions = {e1, e2}
    Instances = {i1}
    Handlers = {h1, h2}
    InstanceOf <- OneInstanceOf
    Linked = {}
    Visits <- MeetAndSwitch
    Watches <- WatchMeeting
SYMMETRY SlotSymmetry
CHECK_DEADLOCK FALSE
INVARIANTS
    TypeOK
    CountTrue
PROPERTY
    OneRoom
