SPECIFICATION Spec
CONSTANTS
    Null = Null
    Policies <- MCPolicies
    Namespaces <- MCNamespaces
    Requests <- MCRequests
    MaxEvents = 1
    MaxPolicies = 1
    BatchLimit = 1
INVARIANTS
    RecordedEventsAreReplayable
CHECK_DEADLOCK FALSE
