SPECIFICATION FairSpec
CONSTANTS
    N = 4
    RowOf <- MCRowOf
    Drains = {d1, d2}
    Limit = 2
    Refused = {3}
    MaxOutages = 2
INVARIANTS DeliveredWasProjected FirstSeenInCommitOrder ReportedAtMostOnce
CHECK_DEADLOCK FALSE
PROPERTIES EveryEventDelivered
