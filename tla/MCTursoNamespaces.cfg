SPECIFICATION FairSpec
CONSTANTS
    n1 = n1
    n2 = n2
    a = a
    r1 = r1
    Namespaces = {n1}
    Descendants <- MCDescendants
    PathOf <- MCPathOf
    Names = {}
    Locations = {}
    Keys = {}
    Requests = {r1}
    Policies = {p}
    ViewNames = {v}
    NoLocation = NoLocation
    NoKey = NoKey
    Unscoped = Unscoped
    Absent = Absent
    Clients = {c1, c2}
    Workloads <- MCNamespaceWorkloads
    MaxVersion = 1
INVARIANTS PropertiesFollowNamespace
PROPERTIES EveryCallReturns
CHECK_DEADLOCK FALSE
