SPECIFICATION TrafficSpec
CONSTANTS
    e1 = e1
    w1 = w1
    Edges = {e1}
    Writers = {w1}
    Shard <- OneShard
    Aggregators = {a1, a2}
    MinSamples = 2
    TTL = 1
    FetchTTL = 1
    MaxLag = 1
    MaxErrors = 1
    MaxWipes = 1
    Cells <- TwoCells
    Schedulers = {s1, s2}
    CellWorkers = {v1}
    Interval = 1
    LastWindow = 0
    MaxNow = 3
    MaxFaults = 1
    Requests = {r1, r2}
    MaxCalls = 2
    DailyBudget = 2
    MaxLegs = 2
    MaxWindows = 2
    LastDay = 1
    MaxRedisErrors = 1
INVARIANTS SpeedsInv CellsInv FetchInv
PROPERTIES WonOnce TrafficSettles
CHECK_DEADLOCK FALSE
