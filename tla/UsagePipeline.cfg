SPECIFICATION FairPipelineSpec
CONSTANTS
    e1 = e1
    e2 = e2
    e3 = e3
    k1 = k1
    k2 = k2
    ta = ta
    tb = tb
    agg = agg
    cp = cp
    Events = {e1, e2, e3}
    Tenants = {ta, tb}
    Keys = {k1, k2}
    Periods = {1, 2}
    KeyOf <- MCKeyOf
    TenantOf <- MCTenantOf
    PeriodOf <- MCPeriodOf
    MilliOf <- MCMilliOf
    Flushers = {agg, cp}
    Aggregators = {agg}
    Batch = 2
    MaxFailures = 1
    MaxResets = 1
INVARIANTS PipelineInv CountersLeadRollups
PROPERTIES ImplementsLedger EveryEventSettles
