SPECIFICATION Spec
CONSTANTS
    Views = {v1}
    StableIdOf <- MCStableIdOf
    Clients = {c1, c2}
    NoVersion = NoVersion
    NoReceipt = NoReceipt
    MaxReceipts = 4
    MaxTime = 2
INVARIANTS ReceiptChainsValid ReceiptsTellViews
PROPERTIES GuardedCallsSeeNoChange
SYMMETRY ClientSymmetry
CHECK_DEADLOCK FALSE
