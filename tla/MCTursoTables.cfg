SPECIFICATION Spec
CONSTANTS
    n1 = n1
    n2 = n2
    a = a
    r1 = r1
    Namespaces = {n1}
    Descendants <- MCDescendants
    PathOf <- MCPathOf
    Names = {a, b}
    Locations = {l1}
    Keys = {k1}
    Requests = {r1, r2}
    Policies = {}
    ViewNames = {}
    NoLocation = NoLocation
    NoKey = NoKey
    Unscoped = Unscoped
    Absent = Absent
    Clients = {c1, c2}
    Workloads <- MCTableWorkloads
    MaxVersion = 2
INVARIANTS ReplayIsHistory
PROPERTIES NoLostUpdate AnswersAreStable ImplementsTablePointer
SYMMETRY CallerSymmetry
CHECK_DEADLOCK FALSE
