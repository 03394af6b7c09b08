---------------------------- MODULE ImportLedger ----------------------------
(***************************************************************************)
(* Which replica imports which source file: the oa, gn and places watchers *)
(* (`_scan_and_process` is the same loop in the three) over the ledger of  *)
(* shared/processed.py, in Postgres mode for any number of replicas and in *)
(* file mode for one.                                                      *)
(*                                                                         *)
(* Abstracted: a file's content (see BatchPublish for what publishing does *)
(* with it); a claim's timestamp is its age, in ticks, saturating just     *)
(* past CLAIM_TTL, since the code only compares the age with the TTL.      *)
(***************************************************************************)
EXTENDS Integers

CONSTANTS
    Replicas,     \* watcher processes
    Files,        \* files that appear in the data directory
    NoFile,       \* what a replica imports between two files
    LedgerMode,   \* "pg" or "file" (PROCESSED_LEDGER)
    ClaimTTL,     \* PROCESSED_CLAIM_TTL, in ticks
    MaxFailures   \* bound: crashes, aborted imports, ledger errors

ASSUME ImportLedgerAssumption ==
    /\ NoFile \notin Files
    /\ LedgerMode \in {"pg", "file"}
    /\ LedgerMode = "file" => \A r, s \in Replicas : r = s
    /\ ClaimTTL \in Nat
    /\ MaxFailures \in Nat

VARIABLES
    present,    \* files in the directory
    row,        \* a file's ledger row: "absent", "claimed" (processed_at NULL), "done"
    age,        \* age of the row's claim
    pending,    \* files left in a replica's pass, chosen by what it loaded
    importing,  \* the file a replica is publishing, or NoFile
    busy,       \* for how long it has been publishing it
    failures

importVars == <<present, row, age, pending, importing, busy, failures>>

Ages   == 0 .. ClaimTTL + 1
Older(n) == IF n > ClaimTTL THEN n ELSE n + 1

ImportInit ==
    /\ present = {}
    /\ row = [f \in Files |-> "absent"]
    /\ age = [f \in Files |-> 0]
    /\ pending = [r \in Replicas |-> {}]
    /\ importing = [r \in Replicas |-> NoFile]
    /\ busy = [r \in Replicas |-> 0]
    /\ failures = 0

Arrive(f) ==
    /\ f \notin present
    /\ present' = present \cup {f}
    /\ UNCHANGED <<row, age, pending, importing, busy, failures>>

\* The start of a pass: load_processed and the files not in it.
Scan(r) ==
    /\ importing[r] = NoFile /\ pending[r] = {}
    /\ pending' = [pending EXCEPT ![r] = {f \in present : row[f] # "done"}]
    /\ UNCHANGED <<present, row, age, importing, busy, failures>>

\* Mutant of Claimable: a completed file may be claimed again.
ClaimableDone(f) ==
    \/ row[f] = "absent"
    \/ age[f] > ClaimTTL
    \/ LedgerMode = "file"

\* Mutant of Claimable: any unfinished claim is taken over.
ClaimableAnyAge(f) ==
    \/ row[f] = "absent"
    \/ row[f] = "claimed"
    \/ LedgerMode = "file"

\* Mutant of Claimable: an unfinished claim is never taken over.
ClaimableFresh(f) ==
    \/ row[f] = "absent"
    \/ LedgerMode = "file"

\* The INSERT .. ON CONFLICT DO UPDATE .. WHERE of _pg_claim; in file mode
\* every pending file can be claimed.
Claimable(f) ==
    \/ row[f] = "absent"
    \/ row[f] = "claimed" /\ age[f] > ClaimTTL
    \/ LedgerMode = "file"

\* claim() is True: the replica starts to publish the file.
Claim(r, f) ==
    /\ importing[r] = NoFile /\ f \in pending[r]
    /\ Claimable(f)
    /\ pending' = [pending EXCEPT ![r] = @ \ {f}]
    /\ importing' = [importing EXCEPT ![r] = f]
    /\ busy' = [busy EXCEPT ![r] = 0]
    /\ IF LedgerMode = "pg"
         THEN /\ row' = [row EXCEPT ![f] = "claimed"]
              /\ age' = [age EXCEPT ![f] = 0]
         ELSE UNCHANGED <<row, age>>
    /\ UNCHANGED <<present, failures>>

\* claim() is False: `continue  # another replica owns this file`.
Skip(r, f) ==
    /\ importing[r] = NoFile /\ f \in pending[r]
    /\ ~Claimable(f)
    /\ pending' = [pending EXCEPT ![r] = @ \ {f}]
    /\ UNCHANGED <<present, row, age, importing, busy, failures>>

\* publish_* returns a count and record_processed marks the row, whoever
\* holds the claim by now.
Finish(r) ==
    LET f == importing[r] IN
    /\ f # NoFile
    /\ row' = [row EXCEPT ![f] = "done"]
    /\ importing' = [importing EXCEPT ![r] = NoFile]
    /\ UNCHANGED <<present, age, pending, busy, failures>>

\* publish_* returns -1 or raises, or the file is published in full and
\* record_processed fails: the pass goes on with the next file.
AbortImport(r) ==
    /\ importing[r] # NoFile /\ failures < MaxFailures
    /\ importing' = [importing EXCEPT ![r] = NoFile]
    /\ failures' = failures + 1
    /\ UNCHANGED <<present, row, age, pending, busy>>

\* The process dies (a ledger call outside the `try` raises, or it is killed)
\* and its container starts again with nothing in memory.
Crash(r) ==
    /\ importing[r] # NoFile \/ pending[r] # {}
    /\ failures < MaxFailures
    /\ importing' = [importing EXCEPT ![r] = NoFile]
    /\ pending' = [pending EXCEPT ![r] = {}]
    /\ failures' = failures + 1
    /\ UNCHANGED <<present, row, age, busy>>

Tick ==
    /\ age' = [f \in Files |-> IF row[f] = "claimed" THEN Older(age[f]) ELSE age[f]]
    /\ busy' = [r \in Replicas |-> IF importing[r] # NoFile THEN Older(busy[r]) ELSE busy[r]]
    /\ UNCHANGED <<present, row, pending, importing, failures>>

Pass(r) ==
    \/ Scan(r) \/ Finish(r)
    \/ \E f \in Files : Claim(r, f) \/ Skip(r, f)

ImportNext ==
    \/ \E f \in Files : Arrive(f)
    \/ \E r \in Replicas : Pass(r) \/ AbortImport(r) \/ Crash(r)
    \/ Tick

ImportSpec == ImportInit /\ [][ImportNext]_importVars

(* `while True: _scan_and_process; sleep`: passes repeat, an import that   *)
(* does not fail ends, and time goes by.  Failures are not forced.         *)
FairImportSpec ==
    /\ ImportSpec
    /\ WF_importVars(Tick)
    /\ \A r \in Replicas : WF_importVars(Pass(r))

----------------------------------------------------------------------------
ImportTypeOK ==
    /\ present \subseteq Files
    /\ row \in [Files -> {"absent", "claimed", "done"}]
    /\ age \in [Files -> Ages]
    /\ pending \in [Replicas -> SUBSET Files]
    /\ importing \in [Replicas -> Files \cup {NoFile}]
    /\ busy \in [Replicas -> Ages]
    /\ failures \in 0 .. MaxFailures

Importers(f) == {r \in Replicas : importing[r] = f}

(* Two replicas publish the same file only when one of them has been at it *)
(* for longer than CLAIM_TTL (_pg_claim).                                  *)
SharedOnlyAfterTTL ==
    \A r, s \in Replicas :
        r # s /\ importing[r] # NoFile /\ importing[r] = importing[s]
            => busy[r] > ClaimTTL \/ busy[s] > ClaimTTL

(* What makes it inductive: a claim is as old as the youngest import of    *)
(* its file, so it cannot be taken over while that import is young.        *)
ClaimCoversImport ==
    LedgerMode = "pg" =>
    \A r \in Replicas :
        LET f == importing[r] IN
        f # NoFile =>
            /\ row[f] # "absent"
            /\ row[f] = "claimed" /\ busy[r] <= ClaimTTL => age[f] = busy[r]

ImportInv == ImportTypeOK /\ SharedOnlyAfterTTL /\ ClaimCoversImport

(* "Completed files are never reclaimed": a file recorded as processed is  *)
(* not imported anew, although the set a pass works from may be old.       *)
DoneNeverReclaimed ==
    [][\A f \in Files : row[f] = "done" =>
            row'[f] = "done" /\ Importers(f)' \subseteq Importers(f)]_importVars

(* Every file that arrives is recorded in the end: a crashed, aborted or   *)
(* unrecorded import is taken up again once its claim has expired.         *)
EveryFileRecorded == \A f \in Files : f \in present ~> row[f] = "done"
=============================================================================
