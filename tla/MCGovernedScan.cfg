SPECIFICATION Spec
CONSTANTS
    Callers = {c1, c2}
    PolicyIds = {p1}
    Metas <- MCMetas
    Policies <- MCPolicies
    Asks <- MCAsks
    MaxVersion = 1
    MaxLives = 2
    MaxTime = 1
    MaxCalls = 2
    MaxChanges = 3
    None = None
    a = a
    b = b
    ops = ops
    rows = rows
INVARIANTS
    FetchesStayInRestriction
    ProofsAreDurable
PROPERTIES
    RevalidatedIsCurrent
SYMMETRY MCSymmetry
CHECK_DEADLOCK FALSE
