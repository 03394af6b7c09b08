SPECIFICATION AccessSpec
CONSTANTS
    k1 = k1
    ta = ta
    h1 = h1
    h2 = h2
    g1 = g1
    Keys = {k1}
    Tenants = {ta}
    TenantOf <- OneKey
    NoKey = NoKey
    NoTenant = NoTenant
    NoEntry = NoEntry
    Handlers = {h1}
    Gateways = {g1}
    MaxFailures = 0
    MaxWipes = 0
INVARIANTS
    DeletedTenantTornDown
CHECK_DEADLOCK FALSE
