SPECIFICATION Spec
CONSTANTS
    x = x
    y = y
    p = p
    ann = ann
    bob = bob
    s1 = s1
    s2 = s2
    Ids = {1, 2}
    Names = {ann, bob}
    Addresses = {x, y}
    NoAddress = NoAddress
    Passwords = {p}
    Databases <- MCDatabases
    Slots = {s1, s2}
    FailureLimit = 1
    MaxCalls = 4
    MaxLapses = 1
    Nobody = Nobody
SYMMETRY MCSymmetry
INVARIANTS
    TablesInv
    AddressesProven
    FewOutliveReset
    FailuresNearLimit
CHECK_DEADLOCK FALSE
