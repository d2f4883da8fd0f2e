\* Two API processes with one client each.
SPECIFICATION Spec
CONSTANTS
    None = None
    i1 = i1
    i2 = i2
    s1 = s1
    s2 = s2
    e1 = e1
    e2 = e2
    Sockets = {s1, s2}
    Exhibitions = {e1}
    Instances = {i1, i2}
    Handlers = {h1}
    InstanceOf <- TwoInstancesOf
    Linked = {i1, i2}
    Visits <- AllPairs
    Watches <- AllPairs
CHECK_DEADLOCK FALSE
INVARIANT
    CountShared
