SPECIFICATION ReviewSpec
CONSTANTS
    None = None
    Near <- MCNear
    NameLength <- MCNameLength
    Trips <- MCTrips
    MaxRepairs = 2
INVARIANTS
    ClockJudged
    LockedDaysExact
    CostsSettled
PROPERTIES
    SwapsHonest
CHECK_DEADLOCK FALSE
