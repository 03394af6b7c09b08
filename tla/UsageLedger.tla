----------------------------- MODULE UsageLedger -----------------------------
(***************************************************************************)
(* What the metering pipeline promises: a usage event enters the pipeline  *)
(* once, and leaves it once, either billed (added to the Postgres rollups) *)
(* or lost.  Nothing is billed twice, and nothing that was lost is billed  *)
(* later.  UsagePipeline implements this specification.                    *)
(***************************************************************************)
EXTENDS Naturals

CONSTANT Events

VARIABLES
    entered,   \* events that were put on the usage list
    pending,   \* entered, neither billed nor lost yet
    billed,    \* how many times each event was added to the rollups
    lost       \* events that will never be billed

ledgerVars == <<entered, pending, billed, lost>>

LedgerInit ==
    /\ entered = {}
    /\ pending = {}
    /\ billed = [e \in Events |-> 0]
    /\ lost = {}

Enter(e) ==
    /\ e \notin entered
    /\ entered' = entered \cup {e}
    /\ pending' = pending \cup {e}
    /\ UNCHANGED <<billed, lost>>

Bill(es) ==
    /\ es \subseteq pending
    /\ billed' = [e \in Events |-> IF e \in es THEN billed[e] + 1 ELSE billed[e]]
    /\ pending' = pending \ es
    /\ UNCHANGED <<entered, lost>>

Lose(es) ==
    /\ es \subseteq pending
    /\ lost' = lost \cup es
    /\ pending' = pending \ es
    /\ UNCHANGED <<entered, billed>>

LedgerNext ==
    \/ \E e \in Events : Enter(e)
    \/ \E es \in SUBSET Events : Bill(es) \/ Lose(es)

LedgerSpec == LedgerInit /\ [][LedgerNext]_ledgerVars

(* The accounts balance: every entered event is pending, lost, or billed   *)
(* exactly once, and only one of the three.                                *)
LedgerBalanced ==
    /\ pending \subseteq entered /\ lost \subseteq entered
    /\ \A e \in Events :
        /\ billed[e] \in {0, 1}
        /\ billed[e] = 1 <=> e \in entered /\ e \notin pending /\ e \notin lost
        /\ ~(e \in pending /\ e \in lost)
=============================================================================
