SPECIFICATION FairSpec
CONSTANTS
    a = a
    b = b
    q1 = q1
    q2 = q2
    x1 = x1
    x2 = x2
    x3 = x3
    x4 = x4
    y1 = y1
    y3 = y3
    z1 = z1
    old = old
    new = new
    NULL = NULL
    Provider = {a, b}
    Query = {q1, q2}
    Listing = {x1, x2, x3, x4, y1, y3, z1}
    Key <- MCKey
    Version = {old, new}
    Pages <- MCPages
    Identity <- MCIdentity
    Fingerprint <- MCFingerprint
    Unsupported <- MCUnsupported
    PageSize = 1
    MaxAdvances = 2
    MaxPages = 3
    Slot = {1, 2}
    MaxOpens = 2
    MaxFaults = 2
CHECK_DEADLOCK FALSE
INVARIANTS
    TypeOK
    ShowsItsQuery
    ShownOnce
    NothingSkipped
PROPERTIES
    SearchEnds
