SPECIFICATION Spec
CONSTANTS
    n1 = n1
    n2 = n2
    Namespaces = {n1, n2}
    Descendants <- MCDescendants
    PathOf <- MCPathOf
    Names = {a}
    Locations = {l1}
    Keys = {k1}
    Requests = {r1}
    Policies = {p1}
    ViewNames = {v}
    NoLocation = NoLocation
    NoKey = NoKey
    Unscoped = Unscoped
    Absent = Absent
    MaxVersion = 2
    MaxEvents = 3
INVARIANTS KeyCommitsOnce ReplayIsHistory LifecycleEvidenced SoftDeleteAgrees TablesInNamespaces
PROPERTIES ImplementsTablePointer
CHECK_DEADLOCK FALSE
