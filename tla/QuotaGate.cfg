SPECIFICATION FairSpec
CONSTANTS
    r1 = r1
    r2 = r2
    r3 = r3
    k1 = k1
    k2 = k2
    k3 = k3
    h = h
    s = s
    Requests = {r1, r2, r3}
    Keys = {k1, k2, k3}
    Tenants = {h, s}
    KeyOf <- MCKeyOf
    TenantOf <- MCTenantOf
    CapMilli <- MCCapMilli
    Rps <- MCRps
    Weights = {2}
    LastTick = 1
    TicksPerPeriod = 1
    MaxEvictions = 1
INVARIANTS HardCapInv CountersInv
PROPERTIES EveryRequestAnswered
CHECK_DEADLOCK FALSE
