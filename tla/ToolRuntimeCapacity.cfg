SPECIFICATION Spec
CONSTANTS
    r1 = r1
    r2 = r2
    forecast = forecast
    venue = venue
    hop1 = hop1
    hop2 = hop2
    gate = gate
    weather = weather
    places = places
    routes = routes
    Runs = {r1, r2}
    Keys = {forecast}
    Hops = {hop1, hop2}
    Gate = gate
    Tools = {weather, places, routes}
    ToolOf <- MCToolOf
    Limit <- MCLimit
    Ttl <- MCTtl
    MaxParallelTools = 2
    MaxToolAttempts = 2
    MaxParallelTransferChecks = 1
    MaxEntries = 1
    Turns = 1
    MaxBatch = 2
    Horizon = 0
INVARIANTS
    PermitsHeld
PROPERTIES
    PoolSpec
    Progress
