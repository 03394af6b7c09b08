--------------------------- MODULE MCAdministration ---------------------------
(***************************************************************************)
(* What the control plane does on an admin's behalf: the roster of admins, *)
(* plans, tenants and weights, and billing runs.  They share no table that *)
(* both of two write, so a behaviour is one of the three, and the others   *)
(* stay where they start.                                                  *)
(*                                                                         *)
(* Billing: one period; a tenant with an event in the rollups and one that *)
(* is about to be pushed, and a tenant with none yet; the aggregator and   *)
(* two billing runs drain the list.                                        *)
(***************************************************************************)
EXTENDS QuotaProjection, AdminRoster, Billing, TLC

CONSTANTS e1, e2, k1, k2, ta, tb, agg, b1, b2

MCKeyOf    == (e1 :> k1) @@ (e2 :> k1)
MCTenantOf == (k1 :> ta) @@ (k2 :> tb)
MCPeriodOf == (e1 :> 1) @@ (e2 :> 1)
MCMilliOf  == (e1 :> 1) @@ (e2 :> 2)

\* A state the pipeline reaches: e1 is billed, e2 is counted.
MeteredInit ==
    /\ BillingVarsInit
    /\ stage = (e1 :> "pushed") @@ (e2 :> "key")
    /\ live = [a \in (Tenants \cup Keys) \X Periods |-> IF a[1] \in {ta, k1} THEN 3 ELSE 0]
    /\ buffer = <<>>
    /\ flush = [f \in Flushers |-> "idle"]
    /\ held = [f \in Flushers |-> {}]
    /\ rolled = (e1 :> 1) @@ (e2 :> 0)
    /\ lost = {} /\ failures = 0 /\ resets = 0

VARIABLE part

adminVars == <<part, projVars, rosterVars, allVars>>

\* One of the quotas and one of the weights to begin with; edits reach the others.
AdminInit ==
    /\ RosterInit /\ ProjInit /\ MeteredInit
    /\ part \in {"roster", "projection", "billing"}
    /\ quota = 4 /\ weight = 1

AdminNext ==
    /\ UNCHANGED part
    /\ \/ part = "roster"     /\ RosterNext  /\ UNCHANGED <<projVars, allVars>>
       \/ part = "projection" /\ ProjNext    /\ UNCHANGED <<rosterVars, allVars>>
       \/ part = "billing"    /\ BillingNext /\ UNCHANGED <<rosterVars, projVars>>

AdminSpec ==
    /\ AdminInit /\ [][AdminNext]_adminVars
    /\ WF_projVars(part = "projection" /\ RollStep)
    /\ \A p \in Processes : WF_projVars(part = "projection" /\ (LoadWeights(p) \/ StoreWeights(p)))
    /\ \A h \in Editors : WF_projVars(part = "projection" /\ EditorStep(h))
===============================================================================
