----------------------------- MODULE MCQuotaGate -----------------------------
(* Two requests of a tenant on a hard-capped plan with an rps cap, each    *)
(* with a key of its own, and one of a tenant on a soft plan.  One request *)
(* fits exactly under the cap, and two do not, which makes refusals,       *)
(* conflicts and retries reachable; a second is a period, so a request may *)
(* be admitted in one period and priced, served or refunded in the next.   *)
EXTENDS QuotaGate, TLC

CONSTANTS r1, r2, r3, k1, k2, k3, h, s

MCKeyOf    == (r1 :> k1) @@ (r2 :> k2) @@ (r3 :> k3)
MCTenantOf == (k1 :> h) @@ (k2 :> h) @@ (k3 :> s)
MCCapMilli == (h :> 2) @@ (s :> 0)
MCRps      == (h :> 1) @@ (s :> 0)
============================================================================
