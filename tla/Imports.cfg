SPECIFICATION ImportsSpec
CONSTANTS
    a = a
    b = b
    f1 = f1
    f2 = f2
    Replicas = {a, b}
    Files = {f1, f2}
    NoFile = NoFile
    LedgerMode = "pg"
    ClaimTTL = 1
    MaxFailures = 2
    MaxMessages = 7
    BatchSize = 3
    MaxRetries = 2
    MaxConsecutiveFailures = 3
    Elements = 5
    SENTINEL = SENTINEL
    QueueMaxsize = 2
    PublishSize = 2
    MaxTries = 4
    MaxStreak = 2
    MaxBreaks = 2
    c1 = c1
    c2 = c2
    district = district
    city = city
    cafe = cafe
    Clients = {c1, c2}
    Polygons = {district, city}
    AreaOf <- MCAreaOf
    AdminLevelOf <- MCAdminLevelOf
    Finds <- MCFinds
    Custom <- MCCustom
    Trace = Trace
    MaxRequests = 2
    MaxFaults = 1
INVARIANTS ImportInv BatchInv WatcherInv RequestsInv
PROPERTIES DoneNeverReclaimed EveryFileRecorded LossNeedsOutage EverythingEnds
CHECK_DEADLOCK FALSE
