SPECIFICATION AdminSpec
CONSTANTS
    Emails = {ann, bob}
    Bootstrap = ann
    Requests = {q1, q2}
    MaxMishaps = 2
    Subscribers = {t1, t2}
    Quotas = {0, 4}
    Weights = {1, 2}
    SeedWeight = 2
    Editors = {h1}
    WeightsTTL = 2
    MaxLoad = 0
    LastMonth = 1
    MaxEdits = 2
    MaxOutages = 1
    e1 = e1
    e2 = e2
    k1 = k1
    k2 = k2
    ta = ta
    tb = tb
    agg = agg
    b1 = b1
    b2 = b2
    Events = {e1, e2}
    Tenants = {ta, tb}
    Keys = {k1, k2}
    Periods = {1}
    KeyOf <- MCKeyOf
    TenantOf <- MCTenantOf
    PeriodOf <- MCPeriodOf
    MilliOf <- MCMilliOf
    Flushers = {agg, b1, b2}
    Aggregators = {agg}
    Billers = {b1, b2}
    NoTenant = NoTenant
    Batch = 1
    MaxFailures = 1
    MaxResets = 0
INVARIANTS RosterInv ProjInv BillingInv
PROPERTIES MonthRollsOver InvoiceHistory
CHECK_DEADLOCK FALSE
