--------------------------- MODULE QuotaProjection ---------------------------
(***************************************************************************)
(* How a plan's quota reaches APISIX.  The control plane projects it into  *)
(* the tenant's consumer group (_sync_tenant, after edits of tenants and   *)
(* plans and at its start), the aggregator re-projects every tenant when   *)
(* the month changes, because the counter's key names the month.  Both     *)
(* turn credits into requests with the endpoint weights, which each        *)
(* process caches (weights.py).                                            *)
(*                                                                         *)
(* One plan, which all tenants are on; a quota of 0 is a plan without a    *)
(* hard cap.  Keys and consumers are KeyAccess's.                          *)
(***************************************************************************)
EXTENDS Integers, FiniteSets

CONSTANTS
    Subscribers,   \* tenants
    Quotas,        \* monthly_quota of the plan, in the credits of a request
    Weights,       \* weight of the cheapest endpoint
    SeedWeight,    \* the one of DEFAULT_WEIGHTS
    Editors,       \* control-plane requests in progress at once
    WeightsTTL,    \* _TTL, in ticks
    MaxLoad,       \* bound: ticks a SELECT of the weights takes
    LastMonth,     \* bound: months
    MaxEdits,      \* bound: edits by the admin
    MaxOutages     \* bound: failing calls, restarts

ASSUME QuotaProjectionAssumption ==
    /\ Quotas \subseteq Nat /\ Weights \subseteq Nat \ {0} /\ SeedWeight \in Weights
    /\ {WeightsTTL, MaxLoad, LastMonth, MaxEdits, MaxOutages} \subseteq Nat

VARIABLES
    month,
    quota,      \* plans.monthly_quota, 0 without hard_cap
    status,     \* tenants.status
    weight,     \* min_weight of endpoint_weights
    sinceEdit,  \* age of the last edit of the weights
    weights,    \* _cache of each process
    editor,     \* control-plane handlers
    roll,       \* the aggregator's pass
    lastPeriod, \* _last_quota_period
    group,      \* the consumer groups: the limit-count of each
    overlapped, \* history: since the last resync calls overlapped or one failed,
                \* the month changed, the weights were edited or old ones used
    late,       \* history: a PUT arrived with the period of an earlier month
    edits,
    outages

projVars == <<month, quota, status, weight, sinceEdit, weights, editor, roll, lastPeriod,
              group, overlapped, late, edits, outages>>
database == <<quota, status, weight>>
history  == <<overlapped, late, edits, outages>>

Control == "control_plane"
Roller  == "aggregator"
Processes == {Control, Roller}

Months   == 0 .. LastMonth
Never    == -1
NoGroup  == [count |-> 0, period |-> Never]
NoWeights == [w |-> 0, age |-> 0, loading |-> 0, lag |-> 0, kept |-> FALSE]
Resting  == [at |-> "idle", left |-> {}, tenant |-> {}, quota |-> 0, cap |-> 0, period |-> Never]
Booted   == [Resting EXCEPT !.at = "next"]
Longest  == WeightsTTL + MaxLoad + 1

\* `projected_request_cap`.
RequestCap(w, credits) == credits \div w

ProjInit ==
    /\ month = 0
    /\ quota \in Quotas /\ weight \in Weights
    /\ status = [t \in Subscribers |-> "active"]
    /\ sinceEdit = Longest
    /\ weights = [p \in Processes |-> NoWeights]
    /\ editor = [h \in Editors |-> Resting]
    /\ roll = Resting
    /\ lastPeriod = Never
    /\ group = [t \in Subscribers |-> NoGroup]
    /\ overlapped = TRUE /\ late = FALSE
    /\ edits = 0 /\ outages = 0

----------------------------------------------------------------------------
(* `get_weights`: w is 0 where _cache is None; kept tells that the last    *)
(* SELECT failed.                                                          *)

FreshWeights(p) == weights[p].w # 0 /\ weights[p].age < WeightsTTL

\* Under the lock the rows are selected, and stored when they arrive.
LoadWeights(p) ==
    /\ ~ FreshWeights(p) /\ weights[p].loading = 0
    /\ \/ p = Control /\ \E h \in Editors : editor[h].at = "weights"
       \/ p = Roller /\ roll.at = "weights"
    /\ weights' = [weights EXCEPT ![p].loading = weight, ![p].lag = 0]
    /\ UNCHANGED <<month, database, sinceEdit, editor, roll, lastPeriod, group, history>>

StoreWeights(p) ==
    /\ weights[p].loading # 0
    /\ weights' = [weights EXCEPT ![p] = [NoWeights EXCEPT !.w = weights[p].loading]]
    /\ UNCHANGED <<month, database, sinceEdit, editor, roll, lastPeriod, group, history>>

\* The SELECT raises: the old weights, or the seeds where there are none, are
\* kept for as long as if they had just been read.
LoadFails(p) ==
    /\ weights[p].loading # 0 /\ outages < MaxOutages
    /\ outages' = outages + 1
    /\ weights' = [weights EXCEPT ![p] =
                     [NoWeights EXCEPT !.w = IF weights[p].w # 0 THEN weights[p].w ELSE SeedWeight,
                                       !.kept = TRUE]]
    /\ UNCHANGED <<month, database, sinceEdit, editor, roll, lastPeriod, group, overlapped, late, edits>>

\* Mutant of Invalidated: an edit leaves the process's own copy alone.
InvalidatedNot == weights

\* `invalidate`, whatever is being loaded.
Invalidated == [weights EXCEPT ![Control] = [@ EXCEPT !.w = 0, !.age = 0, !.kept = FALSE]]

----------------------------------------------------------------------------
(* The control plane.                                                      *)

Quiet == roll.at = "idle" /\ \A h \in Editors : editor[h].at = "idle"

Begin(h, tenants) ==
    editor' = [editor EXCEPT ![h] = [Resting EXCEPT !.at = "next", !.left = tenants]]
Edited == /\ edits < MaxEdits /\ edits' = edits + 1

\* Mutant of OnPlan: only one tenant is synced.
OnPlanFirst == {CHOOSE t \in Subscribers : TRUE}

\* tenant_ids_on_plan.
OnPlan == Subscribers

UpdatePlan(h) ==
    /\ editor[h].at = "idle" /\ Edited
    /\ quota' \in Quotas \ {quota}
    /\ Begin(h, OnPlan)
    /\ overlapped' = (overlapped \/ ~ Quiet)
    /\ UNCHANGED <<month, status, weight, sinceEdit, weights, roll, lastPeriod, group, late, outages>>

UpdateTenant(h, t) ==
    /\ editor[h].at = "idle" /\ Edited
    /\ status' = [status EXCEPT ![t] = IF @ = "active" THEN "suspended" ELSE "active"]
    /\ Begin(h, {t})
    /\ overlapped' = (overlapped \/ ~ Quiet)
    /\ UNCHANGED <<month, quota, weight, sinceEdit, weights, roll, lastPeriod, group, late, outages>>

\* upsert_weight, delete_weight: no quota is projected anew.
UpdateWeight ==
    /\ Edited
    /\ weight' \in Weights \ {weight}
    /\ weights' = Invalidated
    /\ sinceEdit' = 0
    /\ overlapped' = TRUE
    /\ UNCHANGED <<month, quota, status, editor, roll, lastPeriod, group, late, outages>>

\* `_sync_tenant` of the next tenant: its status ...
SyncNext(h) ==
    /\ editor[h].at = "next"
    /\ \/ /\ editor[h].left = {}
          /\ editor' = [editor EXCEPT ![h] = Resting]
       \/ \E t \in editor[h].left :
            editor' = [editor EXCEPT
                ![h].at = IF status[t] = "active" THEN "plan" ELSE "delete",
                ![h].left = @ \ {t}, ![h].tenant = {t}]
    /\ UNCHANGED <<month, database, sinceEdit, weights, roll, lastPeriod, group, history>>

\* ... its plan ...
ReadPlan(h) ==
    /\ editor[h].at = "plan"
    /\ editor' = [editor EXCEPT ![h].at = "weights", ![h].quota = quota]
    /\ UNCHANGED <<month, database, sinceEdit, weights, roll, lastPeriod, group, history>>

\* ... the weights; the period is the one of this moment ...
Project(h) ==
    /\ editor[h].at = "weights" /\ FreshWeights(Control)
    /\ editor' = [editor EXCEPT ![h].at = "put", ![h].period = month,
                                ![h].cap = RequestCap(weights[Control].w, editor[h].quota)]
    /\ overlapped' = (overlapped \/ weights[Control].w # weight)
    /\ UNCHANGED <<month, database, sinceEdit, weights, roll, lastPeriod, group, late, edits, outages>>

\* A plan without a cap has no group of its own.
Limit(job) == IF job.quota > 0 /\ job.cap > 0 THEN [count |-> job.cap, period |-> job.period]
              ELSE NoGroup

PutGroup(t, limit) ==
    /\ group' = [group EXCEPT ![t] = limit]
    /\ late' = (late \/ limit.period \in 0 .. month - 1)

\* ... and the PUT, or the DELETE of an inactive tenant's group.
Push(h) ==
    \E t \in editor[h].tenant :
        /\ \/ editor[h].at = "put" /\ PutGroup(t, Limit(editor[h]))
           \/ editor[h].at = "delete" /\ PutGroup(t, NoGroup)
        /\ editor' = [editor EXCEPT ![h] = [Resting EXCEPT !.at = "next", !.left = editor[h].left]]
        /\ UNCHANGED <<month, database, sinceEdit, weights, roll, lastPeriod, overlapped, edits, outages>>

\* The call raises, or APISIX refuses and nobody looks at the answer.
PushFails(h) ==
    /\ editor[h].at \in {"put", "delete"} /\ outages < MaxOutages
    /\ outages' = outages + 1 /\ overlapped' = TRUE
    /\ editor' = [editor EXCEPT ![h] = [Resting EXCEPT !.at = "next", !.left = editor[h].left]]
    /\ UNCHANGED <<month, database, sinceEdit, weights, roll, lastPeriod, group, late, edits>>

\* The start-up syncs every active tenant before it serves a request.
ControlRestarts(h) ==
    /\ outages < MaxOutages
    /\ outages' = outages + 1
    /\ overlapped' = (roll.at # "idle")
    /\ editor' = [g \in Editors |-> IF g = h
                    THEN [Booted EXCEPT !.left = {t \in Subscribers : status[t] = "active"}]
                    ELSE Resting]
    /\ weights' = [weights EXCEPT ![Control] = NoWeights]
    /\ UNCHANGED <<month, database, sinceEdit, roll, lastPeriod, group, late, edits>>

----------------------------------------------------------------------------
(* The aggregator: `reproject_quotas_for_new_period` on every round.       *)

Roll(stage) == roll' = [roll EXCEPT !.at = stage]

StartRoll ==
    /\ roll.at = "idle" /\ month # lastPeriod
    /\ roll' = [Resting EXCEPT !.at = "weights", !.period = month]
    /\ overlapped' = (overlapped \/ ~ Quiet)
    /\ UNCHANGED <<month, database, sinceEdit, weights, editor, lastPeriod, group, late, edits, outages>>

\* All specs are selected at once, after the weights.
ListSpecs ==
    /\ roll.at = "weights" /\ FreshWeights(Roller)
    /\ roll' = [roll EXCEPT !.at = "put", !.left = {t \in Subscribers : status[t] = "active"},
                            !.quota = quota, !.cap = RequestCap(weights[Roller].w, quota)]
    /\ overlapped' = (overlapped \/ weights[Roller].w # weight)
    /\ UNCHANGED <<month, database, sinceEdit, weights, editor, lastPeriod, group, late, edits, outages>>

\* The weights cannot fail (stale or default ones are served), the specs can:
\* the period stays unrecorded and the next round tries again.
ListFails ==
    /\ roll.at = "weights" /\ outages < MaxOutages
    /\ outages' = outages + 1
    /\ roll' = Resting
    /\ UNCHANGED <<month, database, sinceEdit, weights, editor, lastPeriod, group, overlapped, late, edits>>

RollPut(t) ==
    /\ roll.at = "put" /\ t \in roll.left
    /\ PutGroup(t, Limit(roll))
    /\ roll' = [roll EXCEPT !.left = @ \ {t}]
    /\ UNCHANGED <<month, database, sinceEdit, weights, editor, lastPeriod, overlapped, edits, outages>>

\* Logged, and left behind.
RollPutFails(t) ==
    /\ roll.at = "put" /\ t \in roll.left /\ outages < MaxOutages
    /\ outages' = outages + 1 /\ overlapped' = TRUE
    /\ roll' = [roll EXCEPT !.left = @ \ {t}]
    /\ UNCHANGED <<month, database, sinceEdit, weights, editor, lastPeriod, group, late, edits>>

\* Mutant of EndRoll: the period is the one of the end of the pass.
EndRollNow ==
    /\ roll.at = "put" /\ roll.left = {}
    /\ lastPeriod' = month
    /\ roll' = Resting
    /\ UNCHANGED <<month, database, sinceEdit, weights, editor, group, history>>

EndRoll ==
    /\ roll.at = "put" /\ roll.left = {}
    /\ lastPeriod' = roll.period
    /\ roll' = Resting
    /\ UNCHANGED <<month, database, sinceEdit, weights, editor, group, history>>

----------------------------------------------------------------------------
NewMonth ==
    /\ month < LastMonth
    /\ month' = month + 1
    /\ overlapped' = TRUE
    /\ UNCHANGED <<database, sinceEdit, weights, editor, roll, lastPeriod, group, late, edits, outages>>

\* Whoever waited for the weights goes on as soon as they are there.
Supplied == \/ FreshWeights(Roller) /\ roll.at = "weights"
            \/ FreshWeights(Control) /\ \E h \in Editors : editor[h].at = "weights"

ProjTick ==
    /\ ~ Supplied
    /\ \A p \in Processes : weights[p].loading # 0 => weights[p].lag < MaxLoad
    /\ sinceEdit' = IF sinceEdit = Longest THEN Longest ELSE sinceEdit + 1
    /\ weights' = [p \in Processes |->
                     [weights[p] EXCEPT !.age = IF weights[p].w # 0 /\ @ < WeightsTTL THEN @ + 1 ELSE @,
                                        !.lag = IF weights[p].loading # 0 THEN @ + 1 ELSE 0]]
    /\ UNCHANGED <<month, database, editor, roll, lastPeriod, group, history>>

EditorStep(h) == SyncNext(h) \/ ReadPlan(h) \/ Project(h) \/ Push(h)
RollStep == StartRoll \/ ListSpecs \/ EndRoll \/ \E t \in Subscribers : RollPut(t)

ProjNext ==
    \/ \E h \in Editors : \/ UpdatePlan(h) \/ EditorStep(h) \/ PushFails(h) \/ ControlRestarts(h)
                          \/ \E t \in Subscribers : UpdateTenant(h, t)
    \/ UpdateWeight
    \/ \E p \in Processes : LoadWeights(p) \/ StoreWeights(p) \/ LoadFails(p)
    \/ RollStep \/ ListFails \/ \E t \in Subscribers : RollPutFails(t)
    \/ NewMonth \/ ProjTick

ProjSpec == ProjInit /\ [][ProjNext]_projVars

(* The aggregator's loop and the handlers run on.                          *)
ProjFairness ==
    /\ WF_projVars(RollStep)
    /\ \A p \in Processes : WF_projVars(LoadWeights(p) \/ StoreWeights(p))
    /\ \A h \in Editors : WF_projVars(EditorStep(h))

FairProjSpec == ProjSpec /\ ProjFairness

----------------------------------------------------------------------------
ProjTypeOK ==
    /\ month \in Months /\ quota \in Quotas /\ weight \in Weights
    /\ status \in [Subscribers -> {"active", "suspended"}]
    /\ sinceEdit \in 0 .. Longest
    /\ weights \in [Processes -> [w : {0} \cup Weights, age : 0 .. WeightsTTL,
                                  loading : {0} \cup Weights, lag : 0 .. MaxLoad,
                                  kept : BOOLEAN]]
    /\ \A job \in {roll} \cup {editor[h] : h \in Editors} :
         /\ job.at \in {"idle", "next", "plan", "weights", "put", "delete"}
         /\ job.left \subseteq Subscribers /\ job.tenant \subseteq Subscribers
    /\ group \in [Subscribers -> [count : Nat, period : Months \cup {Never}]]

(* Weights in use that no SELECT has confirmed: the answer to a failure.   *)
Kept(p) == weights[p].kept /\ outages > 0

(* "Other processes converge within the cache TTL" after an edit of the    *)
(* weights, the duration of a SELECT that was under way apart; in the      *)
(* process that edited them only that SELECT can bring old ones back.      *)
(* Neither holds of weights that a failed SELECT left in place: those are  *)
(* served, however old, until one succeeds.                                *)
WeightsConverge ==
    /\ \A p \in Processes :
         FreshWeights(p) /\ sinceEdit > WeightsTTL + MaxLoad => weights[p].w = weight \/ Kept(p)
    /\ FreshWeights(Control) /\ weights[Control].w # weight =>
         \/ Kept(Control)
         \/ sinceEdit \in weights[Control].age .. weights[Control].age + MaxLoad

\* What the group of an active tenant should be.
Due == Limit([quota |-> quota, cap |-> RequestCap(weight, quota), period |-> month])

(* After a resync, and edits of tenants and plans one by one, the group of *)
(* each active tenant is what the plan says: every tenant of an edited     *)
(* plan is reached, and nothing old is put back.                           *)
GroupsFollowPlans ==
    Quiet /\ ~ overlapped => \A t \in Subscribers : status[t] = "active" => group[t] = Due

(* The weights that are used and the groups that are put follow the edits. *)
ProjInv == ProjTypeOK /\ WeightsConverge /\ GroupsFollowPlans

(* "The period-scoped quota key rolls over": in the end every active       *)
(* tenant's group counts in the month there is, as long as no call fails   *)
(* and no PUT of the old month arrives in the new one.                     *)
InMonth == \A t \in Subscribers : status[t] = "active" => group[t].period \in {month, Never}
MonthRollsOver == [](outages = 0 /\ ~ late) => <>[]InMonth
===============================================================================
