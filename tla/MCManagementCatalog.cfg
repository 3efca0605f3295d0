SPECIFICATION Spec
CONSTANTS
    a = a
    b = b
    Servers = {s1}
    Projects = {p1}
    Warehouses = {w1}
    Policies = {q1}
    Models = {m1}
    ProfileCount = 3
    Prefixes <- MCPrefixes
    Locations <- MCLocations
    Bodies = {b1, b2}
    Callers = {c1, c2}
    MaxVersion = 2
    MaxAttempts = 2
    MaxCalls = 3
    None = None
    Absent = Absent
    Ambiguous = Ambiguous
    Inferred = Inferred
INVARIANTS HierarchyComplete PublicationsAreAChain ProfileIsTheLongestMatch RowsAreEvidenced
PROPERTIES PublicationsAreFinal
SYMMETRY CallerSymmetry
CHECK_DEADLOCK FALSE
