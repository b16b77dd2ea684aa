SPECIFICATION Spec
CONSTANTS
    r1 = r1
    r2 = r2
    forecast = forecast
    venue = venue
    hop1 = hop1
    hop2 = hop2
    gate = gate
    weather = weather
    places = places
    routes = routes
    Runs = {r1, r2}
    Keys = {forecast, venue}
    Hops = {}
    Gate = gate
    Tools = {weather, places, routes}
    ToolOf <- MCToolOf
    Limit <- MCLimit
    Ttl <- MCTtl
    MaxParallelTools = 2
    MaxToolAttempts = 1
    MaxParallelTransferChecks = 1
    MaxEntries = 1
    Turns = 2
    MaxBatch = 2
    Horizon = 1
SYMMETRY MCSymmetry
INVARIANTS
    RuntimeInv
    PaidOnce
PROPERTIES
    ServedWithinTtl
