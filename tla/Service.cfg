SPECIFICATION Spec
CONSTANTS
    None = None
    ann = ann
    bob = bob
    Accounts = {ann, bob}
    Address = address
    Shapes <- MCShapes
    PLAN <- MCPLAN
    plan_daily_global <- MCDaily
    RETENTION_SECONDS = 1
    MAX_RUNS_PER_USER = 1
    MaxClock = 2
    MaxRuns = 3
    MaxReports = 1
SYMMETRY Symmetry
INVARIANTS
    CeilingsHold
    ReportsOwned
    RefusedForRuns
PROPERTIES
    ReportsKept
CHECK_DEADLOCK FALSE
