SPECIFICATION Spec
CONSTANTS
    near = near
    far = far
    farther = farther
    day = day
    late = late
    Trips = {near, far, farther}
    Bodies = {b1, b2}
    Dates = {day, late}
    BeyondHorizon <- MCBeyond
    Confirmed = {day}
    Oversized = TRUE
    Rounds = 0
    MaxToolCalls = 3
    MaxEmitAttempts = 2
    MaxConstraintRepairs = 2
    RepairFormats = 1
    MaxBatch = 2
INVARIANTS
    ShippedIsJudged
    ShippedWeatherHonest
    CallsBalanced
    LimitSuffices
PROPERTIES
    RepairKeepsPlan
    Termination
