CONSTANTS
    a = a
    d1 = d1
    d2 = d2
    d3 = d3
    d4 = d4
    d5 = d5
    Ips <- MCIps
    Ids <- MCIds
    IP_BLOCK_DUR = 1
    DAY_SECONDS = 3
    MaxReqs = 2
    MaxIds = 2
    NoEntry = NoEntry
SPECIFICATION Spec
INVARIANTS BurstBounded DistinctIdsBounded
PROPERTIES LimitsLift
