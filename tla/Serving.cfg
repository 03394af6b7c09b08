SPECIFICATION ServingSpec
CONSTANTS
    p1 = p1
    p2 = p2
    p3 = p3
    Places = {p1, p2, p3}
    Versions = 1
    Revised = {p1}
    Rank <- MCRank
    MaxDocs = 2
    BatchDocs = 1
    TopK = 1
    PopularityCap = 1
    Boosts = {2}
    Clicks = {c1}
    Warmers = {w1, w2}
    LeaseTTL = 1
    Rewarm = 1
    MaxWarm = 1
    MaxClicks = 1
    MaxTroubles = 1
    o1 = o1
    o2 = o2
    self = self
    Around = {o1, o2, self}
    AreaOf <- MCAreaOf
    Self = self
    Street = st
    Areas = {0, 2}
    StreetMax = 1
    Misses = {d1}
    Processes = {r1, r2}
    PopularityMax = 1
    MaxIngests = 2
    MaxClashes = 1
    TagSets <- MCTagSets
    Points <- MCPoints
    CellOf <- MCCellOf
    Sites <- MCSites
    Limit = 1
    BySort = {"best"}
    Clients = {n1, n2}
    MaxChanges = 1
    MaxScrolls = 2
INVARIANTS SuggestInv PlaceInv NearbyInv
PROPERTIES OthersKept ServingSettles
CHECK_DEADLOCK FALSE
