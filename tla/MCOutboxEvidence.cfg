SPECIFICATION FairSpec
CONSTANTS
    Null = Null
    Policies <- MCPolicies
    Namespaces <- MCNamespaces
    Requests <- MCRequests
    MaxEvents = 2
    MaxPolicies = 2
    BatchLimit = 2
INVARIANTS
    RefusalsAreKnown
    EmittedIsAcknowledgeable
    DeliveredIsProjected
PROPERTIES
    OnlyRefusalsBlock
CHECK_DEADLOCK FALSE
