SPECIFICATION LibrarySpec
CONSTANTS
    Shared = {p}
    MaxTaps = 3
    MaxFlight = 2
    MaxLoads = 2
    MaxUndone = 2
    MaxStarts = 1
    Nothing = Nothing
INVARIANTS
    HeartTrue
    LibraryInv
CHECK_DEADLOCK FALSE
