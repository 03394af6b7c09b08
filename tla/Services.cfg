SPECIFICATION ServicesSpec
CONSTANTS
    x = x
    y = y
    w1 = w1
    w2 = w2
    Messages = 3
    ElementOf <- MCElementOf
    Tables <- MCTables
    RowsIn <- MCRowsIn
    Bulks = {1}
    Workers = {w1, w2}
    NoRow = NoRow
    BatchSize = 2
    QueueSize = 1
    MaxAttempts = 2
    MaxFailures = 2
    MaxLate = 1
    g = g
    e = e
    p = p
    Services = {g, e, p}
    Plan <- MCPlan
    ConfigOf <- MCConfig
    IndexTries <- MCIndexTries
    PoolTries <- MCPoolTries
    ConnectTries = 2
    StreamTries = 2
    NoStream = 0
    MaxOutages = 1
    MaxDeletes = 1
INVARIANTS StartInv InserterInv StaleOnlyByRace
PROPERTIES ServicesSettle
CHECK_DEADLOCK FALSE
