--------------------------- MODULE MCUsagePipeline ---------------------------
(* Two tenants, two keys,   events of weight one and two in two periods,   *)
(* drained two at a time by the aggregator and by one control-plane call.  *)
EXTENDS UsagePipeline, TLC

CONSTANTS e1, e2, e3, k1, k2, ta, tb, agg, cp

MCKeyOf    == (e1 :> k1) @@ (e2 :> k1) @@ (e3 :> k2)
MCTenantOf == (k1 :> ta) @@ (k2 :> tb)
MCPeriodOf == (e1 :> 1) @@ (e2 :> 1) @@ (e3 :> 2)
MCMilliOf  == (e1 :> 1) @@ (e2 :> 2) @@ (e3 :> 2)
=============================================================================
