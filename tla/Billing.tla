------------------------------- MODULE Billing -------------------------------
(***************************************************************************)
(* Invoices over the metering pipeline: POST /admin/billing/run            *)
(* (control_plane.run_billing, billing_engine.run_billing), marking an     *)
(* invoice paid, and deleting a tenant, interleaved with the flushes of    *)
(* UsagePipeline.  A billing run is a caller of flush_events that goes on  *)
(* to read the rollups and write one invoice per tenant, each a statement  *)
(* of its own with no transaction around them.                             *)
(*                                                                         *)
(* Abstracted: an invoice is its status and the milli-credits it is for;   *)
(* the amount is compute_charge of them (CreditPricing).                   *)
(***************************************************************************)
EXTENDS UsagePipeline

CONSTANTS
    Billers,   \* concurrent POST /admin/billing/run requests
    NoTenant

ASSUME BillingAssumption ==
    /\ Billers \subseteq Flushers \ Aggregators
    /\ NoTenant \notin Tenants
    /\ Periods # {}

VARIABLES
    deleted,   \* soft-deleted tenants
    invoice,   \* the invoices table, per tenant and period
    bill,      \* the billing run of each biller
    doubtful   \* history: invoices last written by a run that was overtaken

billingVars == <<deleted, invoice, bill, doubtful>>
allVars == <<pipelineVars, billingVars>>

NoInvoice == [status |-> "none", milli |-> 0]
NoRun(p)  == [at |-> "off", period |-> p, todo |-> {}, tenant |-> NoTenant, milli |-> 0,
              overtaken |-> FALSE, listed |-> [t \in {} |-> 0]]

\* The invoice a run has in hand.
InHand(b) == <<bill[b].tenant, bill[b].period>>

BillingVarsInit ==
    /\ deleted = {}
    /\ invoice = [a \in Tenants \X Periods |-> NoInvoice]
    /\ bill = [b \in Billers |-> NoRun(CHOOSE p \in Periods : TRUE)]
    /\ doubtful = {}

BillingInit == PipelineInit /\ BillingVarsInit

\* The request comes in: flush_events first.
StartBilling(b) ==
    /\ bill[b].at = "off"
    /\ StartFlush(b)
    /\ \E p \in Periods :
         bill' = [bill EXCEPT ![b] = [NoRun(p) EXCEPT !.at = "flush"]]
    /\ UNCHANGED <<deleted, invoice, doubtful>>

\* The flush is over: active_tenants_with_plan.  `listed` remembers what the
\* rollups held for each of them.
ListTenants(b) ==
    LET ts == Tenants \ deleted IN
    /\ bill[b].at = "flush" /\ flush[b] = "idle"
    /\ bill' = [bill EXCEPT ![b].at = "bill", ![b].todo = ts,
                            ![b].listed = [t \in ts |-> Total(t, bill[b].period)]]
    /\ UNCHANGED <<pipelineVars, deleted, invoice, doubtful>>

\* Mutant of ReadTotals: the invoice is made of the live counters.
ReadTotalsLive(b, t) ==
    /\ bill[b].at = "bill" /\ bill[b].tenant = NoTenant /\ t \in bill[b].todo
    /\ bill' = [bill EXCEPT ![b].tenant = t, ![b].todo = @ \ {t},
                            ![b].milli = live[<<t, bill[b].period>>]]
    /\ UNCHANGED <<pipelineVars, deleted, invoice, doubtful>>

\* Mutant of ReadTotals: the totals of all tenants are read with the list.
ReadTotalsListed(b, t) ==
    /\ bill[b].at = "bill" /\ bill[b].tenant = NoTenant /\ t \in bill[b].todo
    /\ bill' = [bill EXCEPT ![b].tenant = t, ![b].todo = @ \ {t},
                            ![b].milli = bill[b].listed[t]]
    /\ UNCHANGED <<pipelineVars, deleted, invoice, doubtful>>

\* usage_totals_for_period of the next tenant.
ReadTotals(b, t) ==
    /\ bill[b].at = "bill" /\ bill[b].tenant = NoTenant /\ t \in bill[b].todo
    /\ bill' = [bill EXCEPT ![b].tenant = t, ![b].todo = @ \ {t},
                            ![b].milli = Total(t, bill[b].period)]
    /\ UNCHANGED <<pipelineVars, deleted, invoice, doubtful>>

\* Mutant of Upserted: ON CONFLICT DO UPDATE without its WHERE.
UpsertedAlways(old, milli) == [status |-> "pending", milli |-> milli]

\* Mutant of Upserted: ON CONFLICT DO NOTHING.
UpsertedOnce(old, milli) ==
    IF old.status = "none" THEN [status |-> "pending", milli |-> milli] ELSE old

\* The row upsert_invoice leaves: a paid one stays as it is.
Upserted(old, milli) ==
    IF old.status = "paid" THEN old ELSE [status |-> "pending", milli |-> milli]

\* The runs that hold the same invoice are overtaken: they have read totals,
\* and write them after this one.
UpsertInvoice(b) ==
    /\ bill[b].tenant # NoTenant
    /\ invoice' = [invoice EXCEPT ![InHand(b)] = Upserted(@, bill[b].milli)]
    /\ bill' = [c \in Billers |->
                  IF c = b THEN [bill[b] EXCEPT !.tenant = NoTenant, !.milli = 0, !.overtaken = FALSE]
                  ELSE [bill[c] EXCEPT !.overtaken = @ \/ InHand(c) = InHand(b)]]
    /\ doubtful' = IF bill[b].overtaken THEN doubtful \cup {InHand(b)} ELSE doubtful \ {InHand(b)}
    /\ UNCHANGED <<pipelineVars, deleted>>

\* The response is sent.
Answer(b) ==
    /\ bill[b].at = "bill" /\ bill[b].todo = {} /\ bill[b].tenant = NoTenant
    /\ bill' = [bill EXCEPT ![b].at = "answered"]
    /\ UNCHANGED <<pipelineVars, deleted, invoice, doubtful>>

Reset(b) ==
    /\ bill[b].at = "answered"
    /\ bill' = [bill EXCEPT ![b] = NoRun(bill[b].period)]
    /\ UNCHANGED <<pipelineVars, deleted, invoice, doubtful>>

\* A statement raises or the process dies: 500, the rest is not billed.
BillingFails(b) ==
    /\ bill[b].at = "bill" /\ failures < MaxFailures
    /\ bill' = [bill EXCEPT ![b] = NoRun(bill[b].period)]
    /\ failures' = failures + 1
    /\ UNCHANGED <<stage, live, buffer, flush, held, rolled, lost, resets, deleted, invoice, doubtful>>

\* mark_invoice_paid: UPDATE .. WHERE status = 'pending'.
MarkPaid(t, p) ==
    /\ invoice[<<t, p>>].status = "pending"
    /\ invoice' = [invoice EXCEPT ![<<t, p>>].status = "paid"]
    /\ UNCHANGED <<pipelineVars, deleted, bill, doubtful>>

\* soft_delete_tenant.
DeleteTenant(t) ==
    /\ t \notin deleted
    /\ deleted' = deleted \cup {t}
    /\ UNCHANGED <<pipelineVars, invoice, bill, doubtful>>

\* The pipeline underneath; a flush that raises ends the billing run it is in.
MeterStep ==
    /\ \/ \E e \in Events : Record(e) \/ RecordFails(e)
       \/ \E f \in Flushers : FlushStep(f)
       \/ \E f \in Flushers \ Billers : StartFlush(f) \/ Abort(f)
       \/ RedisLoss
    /\ UNCHANGED billingVars

FlushFails(b) ==
    /\ Abort(b)
    /\ bill' = [bill EXCEPT ![b] = NoRun(bill[b].period)]
    /\ UNCHANGED <<deleted, invoice, doubtful>>

BillingStep(b) ==
    \/ StartBilling(b) \/ ListTenants(b) \/ UpsertInvoice(b) \/ Answer(b) \/ Reset(b)
    \/ BillingFails(b) \/ FlushFails(b)
    \/ \E t \in Tenants : ReadTotals(b, t)

BillingNext ==
    \/ MeterStep
    \/ \E b \in Billers : BillingStep(b)
    \/ \E t \in Tenants, p \in Periods : MarkPaid(t, p)
    \/ \E t \in Tenants : DeleteTenant(t)

BillingSpec == BillingInit /\ [][BillingNext]_allVars

----------------------------------------------------------------------------
BillingTypeOK ==
    /\ deleted \subseteq Tenants
    /\ invoice \in [Tenants \X Periods ->
                       [status : {"none", "pending", "paid"}, milli : Nat]]
    /\ \A b \in Billers :
         /\ bill[b].at \in {"off", "flush", "bill", "answered"}
         /\ bill[b].period \in Periods
         /\ bill[b].todo \subseteq Tenants
         /\ bill[b].tenant \in Tenants \cup {NoTenant}
         /\ bill[b].milli \in Nat
         /\ bill[b].overtaken \in BOOLEAN
    /\ doubtful \subseteq Tenants \X Periods

(* No invoice, nor one about to be written, is for more than the rollups   *)
(* hold: whatever is added later is the next run's.                        *)
InvoiceWithinRollups ==
    /\ \A t \in Tenants, p \in Periods : invoice[<<t, p>>].milli <= Total(t, p)
    /\ \A b \in Billers :
         bill[b].tenant # NoTenant => bill[b].milli <= Total(bill[b].tenant, bill[b].period)

(* When a billing run answers, every tenant it listed has an invoice that  *)
(* covers what the rollups held at its start, unless paid before, or last  *)
(* written by a run that another one overtook between its two statements.  *)
RunCoversRollups ==
    \A b \in Billers : bill[b].at = "answered" =>
        \A t \in DOMAIN bill[b].listed :
            LET a == <<t, bill[b].period>> IN
            \/ invoice[a].status = "paid"
            \/ invoice[a].status = "pending" /\ invoice[a].milli >= bill[b].listed[t]
            \/ a \in doubtful

(* Invoices and rollups agree as far as a run can know them.               *)
BillingInv == BillingTypeOK /\ InvoiceWithinRollups /\ RunCoversRollups

(* "leaves a paid one untouched", "re-running updates a still pending      *)
(* invoice": nothing changes an invoice that has been paid, not even a run *)
(* that read the totals before it was; and the only run that can put one   *)
(* back to older totals is one that was overtaken, because another wrote   *)
(* the invoice between the two statements this one reads and writes with.  *)
InvoiceHistory ==
    [][\A a \in DOMAIN invoice :
          /\ invoice[a].status = "paid" => invoice'[a] = invoice[a]
          /\ invoice'[a].milli < invoice[a].milli =>
               \E b \in Billers : bill[b].overtaken /\ InHand(b) = a]_allVars
=============================================================================
