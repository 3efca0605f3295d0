SPECIFICATION Spec
CONSTANTS
    l1 = l1
    l2 = l2
    l3 = l3
    Handlers = {h1, h2}
    Tables = {t1}
    Locations = {l1, l2, l3}
    ClientLocations = {l1}
    Keys = {}
    Contents <- MCContents
    NoLocation = NoLocation
    NoKey = NoKey
    Absent = Absent
    Deployments <- MCLocationOnly
    DeleteAttempts = 2
    MaxVersion = 2
INVARIANTS PointerObjectExists
SYMMETRY MCSymmetry
CHECK_DEADLOCK FALSE
