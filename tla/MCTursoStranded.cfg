SPECIFICATION Spec
CONSTANTS
    n1 = n1
    n2 = n2
    a = a
    r1 = r1
    Namespaces = {n1}
    Descendants <- MCDescendants
    PathOf <- MCPathOf
    Names = {a}
    Locations = {}
    Keys = {}
    Requests = {r1}
    Policies = {}
    ViewNames = {}
    NoLocation = NoLocation
    NoKey = NoKey
    Unscoped = Unscoped
    Absent = Absent
    Clients = {c1, c2}
    Workloads <- MCDroppingWorkloads
    MaxVersion = 1
INVARIANTS TablesInNamespaces
SYMMETRY CallerSymmetry
CHECK_DEADLOCK FALSE
