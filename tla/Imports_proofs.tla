---------------------------- MODULE Imports_proofs ----------------------------
(***************************************************************************)
(* The imports, for any replicas and files (ImportLedger), any file, batch *)
(* size and limits (BatchPublish), and any queue and limits                *)
(* (WatcherPublish); and the requests that publish to the same streams and *)
(* read what comes of it (Requests), for any clients and any polygons.     *)
(***************************************************************************)
EXTENDS ImportLedger, BatchPublish, WatcherPublish, Requests, SequenceTheorems,
        FiniteSetTheorems, TLAPS

----------------------------------------------------------------------------
(* Which replica imports which file.                                       *)

LEMMA InitImportInv == ImportInit => ImportInv
BY ImportLedgerAssumption
   DEF ImportInit, ImportInv, ImportTypeOK, SharedOnlyAfterTTL, ClaimCoversImport, Ages

(* A tick keeps the order of two ages and never goes back.                 *)
LEMMA OlderFacts ==
    ASSUME NEW n \in Ages
    PROVE  /\ Older(n) \in Ages
           /\ Older(n) <= ClaimTTL => Older(n) = n + 1
           /\ n > ClaimTTL => Older(n) > ClaimTTL
BY ImportLedgerAssumption DEF Ages, Older

LEMMA NextImportTypeOK == ImportInv /\ [ImportNext]_importVars => ImportTypeOK'
<1> SUFFICES ASSUME ImportInv, [ImportNext]_importVars PROVE ImportTypeOK'
  OBVIOUS
<1> USE ImportLedgerAssumption DEF ImportTypeOK
<1>0. ImportTypeOK
  BY DEF ImportInv
<1>1. ASSUME NEW f \in Files, Arrive(f) PROVE ImportTypeOK'
  BY <1>0, <1>1 DEF Arrive
<1>2. ASSUME NEW r \in Replicas, Scan(r) PROVE ImportTypeOK'
  BY <1>0, <1>2 DEF Scan
<1>3. ASSUME NEW r \in Replicas, NEW f \in Files, Claim(r, f) PROVE ImportTypeOK'
  BY <1>0, <1>3 DEF Claim, Ages
<1>4. ASSUME NEW r \in Replicas, NEW f \in Files, Skip(r, f) PROVE ImportTypeOK'
  BY <1>0, <1>4 DEF Skip
<1>5. ASSUME NEW r \in Replicas, Finish(r) PROVE ImportTypeOK'
  <2>1. importing[r] \in Files
    BY <1>0, <1>5 DEF Finish
  <2>. QED
    BY <1>0, <1>5, <2>1 DEF Finish
<1>6. ASSUME NEW r \in Replicas, AbortImport(r) PROVE ImportTypeOK'
  BY <1>0, <1>6 DEF AbortImport
<1>7. ASSUME NEW r \in Replicas, Crash(r) PROVE ImportTypeOK'
  BY <1>0, <1>7 DEF Crash
<1>8. CASE Tick
  BY <1>0, <1>8, OlderFacts DEF Tick
<1>9. CASE UNCHANGED importVars
  BY <1>0, <1>9 DEF importVars
<1>. QED
  BY <1>1, <1>2, <1>3, <1>4, <1>5, <1>6, <1>7, <1>8, <1>9 DEF ImportNext, Pass

(* A claim that is granted in Postgres mode is granted to a replica that   *)
(* can share the file only with imports older than the TTL.                *)
LEMMA ClaimAlone ==
    ASSUME ImportInv, NEW r \in Replicas, NEW f \in Files, Claim(r, f)
    PROVE  \A s \in Replicas \ {r} : importing[s] = f => busy[s] > ClaimTTL
<1> SUFFICES ASSUME NEW s \in Replicas \ {r}, importing[s] = f
             PROVE  busy[s] > ClaimTTL
  OBVIOUS
<1>1. LedgerMode = "pg"
  BY ImportLedgerAssumption
<1>2. row[f] = "claimed" /\ age[f] > ClaimTTL
  BY <1>1, ImportLedgerAssumption DEF Claim, Claimable, ImportInv, ClaimCoversImport
<1>3. busy[s] \in Ages /\ age[f] \in Ages
  BY DEF ImportInv, ImportTypeOK
<1>. QED
  BY <1>1, <1>2, <1>3, ImportLedgerAssumption DEF ImportInv, ClaimCoversImport, Ages

LEMMA NextImportInv == ImportInv /\ [ImportNext]_importVars => ImportInv'
<1> SUFFICES ASSUME ImportInv, [ImportNext]_importVars PROVE ImportInv'
  OBVIOUS
<1> USE ImportLedgerAssumption
<1>0. ImportTypeOK /\ ImportTypeOK' /\ SharedOnlyAfterTTL /\ ClaimCoversImport
  BY NextImportTypeOK DEF ImportInv
<1>1. ASSUME UNCHANGED <<row, age, importing, busy>>
      PROVE  SharedOnlyAfterTTL' /\ ClaimCoversImport'
  BY <1>0, <1>1 DEF SharedOnlyAfterTTL, ClaimCoversImport
<1>2. ASSUME NEW r \in Replicas, NEW f \in Files, Claim(r, f)
      PROVE  SharedOnlyAfterTTL' /\ ClaimCoversImport'
  <2>1. \A s \in Replicas \ {r} : importing[s] = f => busy[s] > ClaimTTL
    BY <1>2, ClaimAlone
  <2>2. /\ importing' = [importing EXCEPT ![r] = f]
        /\ busy' = [busy EXCEPT ![r] = 0]
        /\ LedgerMode = "pg" => /\ row' = [row EXCEPT ![f] = "claimed"]
                                /\ age' = [age EXCEPT ![f] = 0]
    BY <1>2 DEF Claim
  <2>3. SharedOnlyAfterTTL'
    BY <1>0, <2>1, <2>2 DEF SharedOnlyAfterTTL, ImportTypeOK
  <2>4. ClaimCoversImport'
    BY <1>0, <2>1, <2>2 DEF ClaimCoversImport, ImportTypeOK, Ages
  <2>. QED
    BY <2>3, <2>4
<1>3. ASSUME NEW r \in Replicas, Finish(r)
      PROVE  SharedOnlyAfterTTL' /\ ClaimCoversImport'
  <2>1. /\ importing' = [importing EXCEPT ![r] = NoFile]
        /\ row' = [row EXCEPT ![importing[r]] = "done"]
        /\ UNCHANGED <<age, busy>>
    BY <1>3 DEF Finish
  <2>2. SharedOnlyAfterTTL'
    BY <1>0, <2>1 DEF SharedOnlyAfterTTL, ImportTypeOK
  <2>3. ClaimCoversImport'
    BY <1>0, <2>1 DEF ClaimCoversImport, ImportTypeOK
  <2>. QED
    BY <2>2, <2>3
<1>4. ASSUME NEW r \in Replicas, AbortImport(r) \/ Crash(r)
      PROVE  SharedOnlyAfterTTL' /\ ClaimCoversImport'
  <2>1. /\ importing' = [importing EXCEPT ![r] = NoFile]
        /\ UNCHANGED <<row, age, busy>>
    BY <1>4 DEF AbortImport, Crash
  <2>. QED
    BY <1>0, <2>1 DEF SharedOnlyAfterTTL, ClaimCoversImport, ImportTypeOK
<1>5. ASSUME Tick PROVE SharedOnlyAfterTTL' /\ ClaimCoversImport'
  <2>1. /\ age' = [f \in Files |-> IF row[f] = "claimed" THEN Older(age[f]) ELSE age[f]]
        /\ busy' = [r \in Replicas |-> IF importing[r] # NoFile THEN Older(busy[r]) ELSE busy[r]]
        /\ UNCHANGED <<row, importing>>
    BY <1>5 DEF Tick
  <2>2. \A r \in Replicas : busy[r] \in Ages /\ (busy[r] > ClaimTTL => busy'[r] > ClaimTTL)
    BY <1>0, <2>1, OlderFacts DEF ImportTypeOK
  <2>3. SharedOnlyAfterTTL'
    BY <1>0, <2>1, <2>2 DEF SharedOnlyAfterTTL
  <2>4. ASSUME NEW r \in Replicas, LedgerMode = "pg", importing[r] # NoFile
        PROVE  /\ row'[importing[r]] # "absent"
               /\ row'[importing[r]] = "claimed" /\ busy'[r] <= ClaimTTL
                     => age'[importing[r]] = busy'[r]
    <3>1. importing[r] \in Files /\ busy[r] \in Ages /\ age[importing[r]] \in Ages
      BY <1>0, <2>4 DEF ImportTypeOK
    <3>2. row[importing[r]] # "absent"
      BY <1>0, <2>4 DEF ClaimCoversImport
    <3>3. ASSUME row[importing[r]] = "claimed", busy'[r] <= ClaimTTL
          PROVE  age'[importing[r]] = busy'[r]
      <4>1. busy'[r] = Older(busy[r]) /\ age'[importing[r]] = Older(age[importing[r]])
        BY <2>1, <2>4, <3>1, <3>3
      <4>2. busy[r] <= ClaimTTL
        BY <1>0, <2>2, <3>1, <3>3 DEF Ages, ImportTypeOK
      <4>. QED
        BY <1>0, <2>4, <3>3, <4>1, <4>2 DEF ClaimCoversImport
    <3>. QED
      BY <2>1, <3>2, <3>3
  <2>5. ClaimCoversImport'
    BY <2>1, <2>4 DEF ClaimCoversImport
  <2>. QED
    BY <2>3, <2>5
<1>6. SharedOnlyAfterTTL' /\ ClaimCoversImport'
  <2>1. CASE \E f \in Files : Arrive(f)
    BY <1>1, <2>1 DEF Arrive
  <2>2. CASE \E r \in Replicas : Scan(r) \/ \E f \in Files : Skip(r, f)
    BY <1>1, <2>2 DEF Scan, Skip
  <2>3. CASE UNCHANGED importVars
    BY <1>1, <2>3 DEF importVars
  <2>. QED
    BY <1>2, <1>3, <1>4, <1>5, <2>1, <2>2, <2>3 DEF ImportNext, Pass
<1>. QED
  BY <1>0, <1>6 DEF ImportInv

(* With the file ledger the only writer's pass is never out of date.       *)
FilePassFresh ==
    LedgerMode = "file" =>
    \A r \in Replicas :
        /\ importing[r] \notin pending[r]
        /\ \A f \in Files : f \in pending[r] \cup {importing[r]} => row[f] # "done"

DoneInv == ImportInv /\ FilePassFresh

LEMMA NextDoneInv == DoneInv /\ [ImportNext]_importVars => DoneInv'
<1> SUFFICES ASSUME DoneInv, [ImportNext]_importVars PROVE FilePassFresh'
  BY NextImportInv DEF DoneInv
<1> USE ImportLedgerAssumption DEF FilePassFresh
<1>0. ImportTypeOK /\ FilePassFresh
  BY DEF DoneInv, ImportInv
<1>1. ASSUME NEW f \in Files, Arrive(f) PROVE FilePassFresh'
  BY <1>0, <1>1 DEF Arrive
<1>2. ASSUME NEW r \in Replicas, Scan(r) PROVE FilePassFresh'
  BY <1>0, <1>2 DEF Scan, ImportTypeOK
<1>3. ASSUME NEW r \in Replicas, NEW f \in Files, Claim(r, f) PROVE FilePassFresh'
  BY <1>0, <1>3 DEF Claim, ImportTypeOK
<1>4. ASSUME NEW r \in Replicas, NEW f \in Files, Skip(r, f) PROVE FilePassFresh'
  BY <1>0, <1>4 DEF Skip, ImportTypeOK
<1>5. ASSUME NEW r \in Replicas, Finish(r) PROVE FilePassFresh'
  BY <1>0, <1>5 DEF Finish, ImportTypeOK
<1>6. ASSUME NEW r \in Replicas, AbortImport(r) PROVE FilePassFresh'
  BY <1>0, <1>6 DEF AbortImport, ImportTypeOK
<1>7. ASSUME NEW r \in Replicas, Crash(r) PROVE FilePassFresh'
  BY <1>0, <1>7 DEF Crash, ImportTypeOK
<1>8. CASE Tick
  BY <1>0, <1>8 DEF Tick
<1>9. CASE UNCHANGED importVars
  BY <1>0, <1>9 DEF importVars
<1>. QED
  BY <1>1, <1>2, <1>3, <1>4, <1>5, <1>6, <1>7, <1>8, <1>9 DEF ImportNext, Pass

LEMMA DoneStep ==
    DoneInv /\ [ImportNext]_importVars =>
        [\A f \in Files : row[f] = "done" =>
            row'[f] = "done" /\ Importers(f)' \subseteq Importers(f)]_importVars
<1> SUFFICES ASSUME DoneInv, ImportNext, NEW f \in Files, row[f] = "done"
             PROVE  row'[f] = "done" /\ Importers(f)' \subseteq Importers(f)
  OBVIOUS
<1> USE DEF Importers
<1>0. ImportTypeOK /\ FilePassFresh
  BY DEF DoneInv, ImportInv
<1>1. ASSUME NEW r \in Replicas, NEW g \in Files, Claim(r, g) PROVE g # f
  BY <1>0, <1>1, ImportLedgerAssumption DEF Claim, Claimable, FilePassFresh
<1>2. ASSUME NEW r \in Replicas, NEW g \in Files, Claim(r, g)
      PROVE  row'[f] = "done" /\ Importers(f)' \subseteq Importers(f)
  BY <1>0, <1>1, <1>2 DEF Claim, ImportTypeOK
<1>3. ASSUME NEW r \in Replicas, Finish(r)
      PROVE  row'[f] = "done" /\ Importers(f)' \subseteq Importers(f)
  BY <1>0, <1>3, ImportLedgerAssumption DEF Finish, ImportTypeOK
<1>4. ASSUME NEW r \in Replicas, AbortImport(r) \/ Crash(r)
      PROVE  row'[f] = "done" /\ Importers(f)' \subseteq Importers(f)
  BY <1>0, <1>4, ImportLedgerAssumption DEF AbortImport, Crash, ImportTypeOK
<1>5. ASSUME UNCHANGED <<row, importing>>
      PROVE  row'[f] = "done" /\ Importers(f)' \subseteq Importers(f)
  BY <1>5
<1>. QED
  BY <1>2, <1>3, <1>4, <1>5 DEF ImportNext, Pass, Arrive, Scan, Skip, Tick

(* processed.py `_pg_claim`: no interleaving of passes, crashes, aborts    *)
(* and slow imports lets two replicas publish a file within a claim's TTL. *)
THEOREM ImportInvariant == ImportSpec => []ImportInv
BY InitImportInv, NextImportInv, PTL DEF ImportSpec

(* "Completed files are never reclaimed", by either ledger, however old    *)
(* the set of processed files a pass works from.                           *)
THEOREM DoneStaysDone == ImportSpec => DoneNeverReclaimed
<1>1. ImportInit => DoneInv
  BY InitImportInv, ImportLedgerAssumption DEF ImportInit, DoneInv, FilePassFresh
<1>. QED
  BY <1>1, NextDoneInv, DoneStep, PTL DEF ImportSpec, DoneNeverReclaimed

----------------------------------------------------------------------------
(* A flat file's import.                                                   *)

\* Records of the batches before this one.
Base == read - Len(batch)

\* The batch is the run of records after them.
BatchIsRun ==
    /\ \A i \in 1 .. Len(batch) : batch[i] = Base + i
    /\ phase \in {"reading", "publishing"} => \E k \in Nat : Base = BatchSize * k
    /\ phase = "publishing" => Len(batch) = BatchSize \/ read = messages
    /\ phase = "publishing" => at <= Len(batch) + 1

\* How far the messages have been tried, and how far the stream reaches.
TriedSoFar ==
    /\ phase = "reading" =>
         /\ 1 .. Base \subseteq attempted
         /\ \A i \in 1 .. Len(stream) : stream[i] <= Base
    /\ phase = "publishing" =>
         /\ 1 .. Base + at - 1 \subseteq attempted
         /\ \A i \in 1 .. Len(stream) : stream[i] <= Base + at

\* Failures in a row, between and within the attempts at one message.
StreakBounded ==
    /\ consecutive < MaxConsecutiveFailures + MaxRetries
    /\ attempt # 0 => consecutive < MaxConsecutiveFailures + attempt

BatchIInv ==
    /\ BatchTypeOK /\ StreamInFileOrder /\ OnlyRemainderUntried
    /\ BatchIsRun /\ TriedSoFar /\ StreakBounded

(* Appending to a sequence of numbers what is not less than any of them.   *)
LEMMA AppendInOrder ==
    ASSUME NEW n \in Nat, NEW s \in Seq(1 .. n), NEW x \in 1 .. n,
           \A i, j \in 1 .. Len(s) : i < j => s[i] <= s[j],
           \A i \in 1 .. Len(s) : s[i] <= x
    PROVE  LET t == Append(s, x) IN
           /\ t \in Seq(1 .. n)
           /\ \A i, j \in 1 .. Len(t) : i < j => t[i] <= t[j]
           /\ \A i \in 1 .. Len(t) : t[i] <= x
<1> DEFINE t == Append(s, x)
<1>1. /\ t \in Seq(1 .. n) /\ Len(t) = Len(s) + 1 /\ Len(s) \in Nat
      /\ t[Len(s) + 1] = x
      /\ \A i \in 1 .. Len(s) : t[i] = s[i] /\ s[i] \in 1 .. n
  OBVIOUS
<1> HIDE DEF t
<1>2. ASSUME NEW i \in 1 .. Len(t) PROVE t[i] <= x
  <2>1. i \in 1 .. Len(s) \/ i = Len(s) + 1
    BY <1>1
  <2>. QED
    BY <1>1, <2>1
<1>3. ASSUME NEW i \in 1 .. Len(t), NEW j \in 1 .. Len(t), i < j PROVE t[i] <= t[j]
  <2>1. i \in 1 .. Len(s) /\ j \in Nat /\ 1 <= j /\ j <= Len(s) + 1
    BY <1>1, <1>3
  <2>2. CASE j = Len(s) + 1
    BY <1>1, <1>2, <2>1, <2>2
  <2>3. CASE j # Len(s) + 1
    <3>1. j \in 1 .. Len(s)
      <4>1. Len(s) \in Nat /\ j \in Nat /\ 1 <= j /\ j <= Len(s) + 1
        BY <1>1, <2>1
      <4>. QED
        BY <2>3, <4>1
    <3>. QED
      BY <1>1, <1>3, <2>1, <3>1
  <2>. QED
    BY <2>2, <2>3
<1>. QED
  BY <1>1, <1>2, <1>3 DEF t

(* Numbers up to a bound are numbers up to a larger one.                   *)
LEMMA SeqUpTo ==
    ASSUME NEW n \in Nat, NEW s \in Seq(1 .. n)
    PROVE  s \in Seq(1 .. n + 1)
<1>1. \A i \in 1 .. Len(s) : s[i] \in 1 .. n + 1
  OBVIOUS
<1>. QED
  BY <1>1

(* The full batches of a file, when k of them and a remainder make it up.  *)
LEMMA Multiples ==
    ASSUME NEW b \in Nat \ {0}, NEW k \in Int, NEW m \in Int, k < m
    PROVE  b * k + b <= b * m
<1> DEFINE d == m - k - 1
<1>1. d \in Nat /\ m = k + 1 + d
  OBVIOUS
<1> HIDE DEF d
<1>2. b * m = b * k + b + b * d /\ b * d \in Nat
  BY <1>1
<1>3. b * k \in Int /\ b * m \in Int
  OBVIOUS
<1>. QED
  BY <1>2, <1>3

LEMMA FullBatchesFacts ==
    ASSUME NEW k \in Nat, NEW rest \in Nat, rest < BatchSize, messages \in Nat,
           messages = BatchSize * k + rest
    PROVE  FullBatches = BatchSize * k
<1> DEFINE m == messages \div BatchSize
<1>0. BatchSize \in Nat \ {0}
  BY BatchPublishAssumption
<1>1. m \in Nat /\ BatchSize * m <= messages /\ messages < BatchSize * m + BatchSize
  BY <1>0, SMT
<1>2. FullBatches = BatchSize * m
  <2>1. FullBatches = m * BatchSize
    BY DEF FullBatches
  <2> HIDE DEF m
  <2>. QED
    BY <1>0, <1>1, <2>1
<1> HIDE DEF m
<1>3. CASE k < m
  BY <1>0, <1>1, <1>3, Multiples
<1>4. CASE m < k
  BY <1>0, <1>1, <1>4, Multiples
<1>5. CASE m = k
  BY <1>2, <1>5
<1>. QED
  BY <1>1, <1>3, <1>4, <1>5

LEMMA InitBatch == BatchInit => BatchIInv
<1> SUFFICES ASSUME BatchInit PROVE BatchIInv
  OBVIOUS
<1>1. <<>> \in Seq(1 .. 0) /\ Len(<<>>) = 0 /\ 0 = BatchSize * 0
  BY BatchPublishAssumption
<1>2. BatchTypeOK
  BY <1>1, BatchPublishAssumption DEF BatchInit, BatchTypeOK
<1>3. BatchIsRun /\ TriedSoFar /\ StreakBounded
  BY <1>1, BatchPublishAssumption DEF BatchInit, BatchIsRun, TriedSoFar, StreakBounded, Base
<1>4. StreamInFileOrder /\ OnlyRemainderUntried
  BY <1>1 DEF BatchInit, StreamInFileOrder, OnlyRemainderUntried
<1>. QED
  BY <1>2, <1>3, <1>4 DEF BatchIInv

LEMMA NextBatchIInv == BatchIInv /\ [BatchNext]_batchVars => BatchIInv'
<1> SUFFICES ASSUME BatchIInv, [BatchNext]_batchVars PROVE BatchIInv'
  OBVIOUS
<1>0. /\ BatchTypeOK /\ StreamInFileOrder /\ OnlyRemainderUntried
      /\ BatchIsRun /\ TriedSoFar /\ StreakBounded
      /\ BatchSize \in Nat \ {0} /\ MaxRetries \in Nat \ {0} /\ MaxConsecutiveFailures \in Nat \ {0}
  BY BatchPublishAssumption DEF BatchIInv
<1>t. /\ messages \in Nat /\ messages \in 0 .. MaxMessages
      /\ read \in Nat /\ read \in 0 .. messages
      /\ batch \in Seq(1 .. read) /\ Len(batch) \in Nat /\ Len(batch) <= BatchSize
      /\ at \in Nat /\ at \in 1 .. BatchSize + 1
      /\ attempt \in Nat /\ attempt \in 0 .. MaxRetries - 1
      /\ consecutive \in Nat
      /\ attempted \subseteq 1 .. read
      /\ stream \in Seq(1 .. read) /\ Len(stream) \in Nat
      /\ phase \in {"reading", "publishing"} \cup Ended
      /\ Base \in Int
  BY <1>0, BatchPublishAssumption DEF BatchTypeOK, Base
<1>1. CASE ReadRecord
  <2>1. /\ phase = "reading" /\ phase' = "reading" /\ read < messages /\ Len(batch) < BatchSize
        /\ read' = read + 1 /\ batch' = Append(batch, read + 1)
        /\ UNCHANGED <<messages, at, attempt, consecutive, attempted, stream>>
    BY <1>1 DEF ReadRecord
  <2>2. batch \in Seq(1 .. read + 1) /\ stream' \in Seq(1 .. read')
    BY <1>t, <2>1, SeqUpTo
  <2>3. /\ batch' \in Seq(1 .. read') /\ Len(batch') = Len(batch) + 1
        /\ batch'[Len(batch) + 1] = read + 1
        /\ \A i \in 1 .. Len(batch) : batch'[i] = batch[i]
    BY <1>t, <2>1, <2>2
  <2>4. Base' = Base
    BY <1>t, <2>1, <2>3 DEF Base
  <2>5. BatchTypeOK'
    BY <1>0, <1>t, <2>1, <2>2, <2>3 DEF BatchTypeOK
  <2>6. BatchIsRun'
    <3>1. ASSUME NEW i \in 1 .. Len(batch') PROVE batch'[i] = Base + i
      <4>1. CASE i = Len(batch) + 1
        BY <1>t, <2>3, <4>1 DEF Base
      <4>2. CASE i # Len(batch) + 1
        <5>1. i \in 1 .. Len(batch)
          BY <1>t, <2>3, <4>2
        <5>. QED
          BY <1>0, <2>3, <5>1 DEF BatchIsRun
      <4>. QED
        BY <4>1, <4>2
    <3>. QED
      BY <1>0, <2>1, <2>4, <3>1 DEF BatchIsRun
  <2>7. TriedSoFar' /\ StreakBounded' /\ StreamInFileOrder' /\ OnlyRemainderUntried'
    BY <1>0, <2>1, <2>4 DEF TriedSoFar, StreakBounded, StreamInFileOrder, OnlyRemainderUntried
  <2>. QED
    BY <2>5, <2>6, <2>7 DEF BatchIInv
<1>2. CASE StartBatch
  <2>1. /\ phase = "reading" /\ phase' = "publishing" /\ batch # <<>>
        /\ Len(batch) = BatchSize \/ read = messages
        /\ at' = 1 /\ attempt' = 0
        /\ UNCHANGED <<messages, read, batch, consecutive, attempted, stream>>
    BY <1>2 DEF StartBatch
  <2>2. Base' = Base
    BY <2>1 DEF Base
  <2>3. BatchTypeOK'
    BY <1>0, <1>t, <2>1 DEF BatchTypeOK
  <2>4. StreakBounded' /\ StreamInFileOrder' /\ OnlyRemainderUntried'
    BY <1>0, <1>t, <2>1, <2>2 DEF StreakBounded, StreamInFileOrder, OnlyRemainderUntried
  <2>6. BatchIsRun'
    BY <1>0, <1>t, <2>1, <2>2 DEF BatchIsRun
  <2>5. TriedSoFar'
    <3>1. ASSUME NEW i \in 1 .. Len(stream) PROVE stream[i] <= Base + 1
      <4>1. stream[i] <= Base /\ stream[i] \in 1 .. read
        BY <1>0, <1>t, <2>1 DEF TriedSoFar
      <4>. QED
        BY <1>t, <4>1
    <3>2. Base + 1 - 1 = Base
      BY <1>t
    <3>. QED
      BY <1>0, <2>1, <2>2, <3>1, <3>2 DEF TriedSoFar
  <2>. QED
    BY <2>3, <2>4, <2>5, <2>6 DEF BatchIInv
<1>3. CASE ReadRaises \/ EndOfFile
  <2>1. /\ phase = "reading" /\ phase' \in {"raised", "completed"}
        /\ phase' = "completed" => read = messages /\ batch = <<>>
        /\ UNCHANGED <<messages, read, batch, at, attempt, consecutive, attempted, stream>>
    BY <1>3 DEF ReadRaises, EndOfFile
  <2>2. BatchTypeOK' /\ BatchIsRun' /\ StreakBounded' /\ StreamInFileOrder' /\ TriedSoFar'
    BY <1>0, <2>1 DEF BatchTypeOK, Ended, BatchIsRun, Base, StreakBounded, StreamInFileOrder, TriedSoFar
  <2>3. OnlyRemainderUntried'
    <3> SUFFICES ASSUME phase' = "completed" PROVE 1 .. FullBatches \subseteq attempted
      BY <2>1 DEF OnlyRemainderUntried, FullBatches
    <3>1. Base = messages
      BY <1>t, <2>1 DEF Base
    <3>2. PICK k \in Nat : messages = BatchSize * k
      BY <1>0, <2>1, <3>1 DEF BatchIsRun
    <3>3. /\ messages = BatchSize * k + 0
          /\ messages \in Nat /\ 0 \in Nat /\ 0 < BatchSize
      <4>1. messages \in Nat /\ 0 \in Nat /\ 0 < BatchSize
        BY <1>0, BatchPublishAssumption DEF BatchTypeOK, BatchIInv
      <4>. QED
        BY <3>2, <4>1
    <3>4. FullBatches = messages
      <4>1. FullBatches = BatchSize * k
        BY <3>3, FullBatchesFacts
      <4>. QED
        BY <3>2, <4>1
    <3>. QED
      BY <1>0, <2>1, <3>1, <3>4 DEF TriedSoFar
  <2>. QED
    BY <2>2, <2>3 DEF BatchIInv
<1>4. CASE BatchDone
  <2>1. /\ phase = "publishing" /\ (at > Len(batch) \/ Stopped)
        /\ batch' = <<>> /\ Len(<<>>) = 0
        /\ UNCHANGED <<messages, read, at, attempt, consecutive, attempted, stream>>
        /\ phase' \in {"reading", "aborted", "completed"}
        /\ phase' = "reading" => Len(batch) = BatchSize /\ ~ Stopped
        /\ phase' \in {"reading", "aborted"} => Len(batch) = BatchSize
        /\ phase' = "completed" => Len(batch) < BatchSize
    BY <1>4 DEF BatchDone, FullBatchDone, RemainderDone
  <2>2. Base' = read
    BY <1>t, <2>1 DEF Base
  <2>3. BatchTypeOK'
    BY <1>0, <1>t, <2>1 DEF BatchTypeOK, Ended
  <2>4. StreakBounded' /\ StreamInFileOrder'
    BY <1>0, <2>1 DEF StreakBounded, StreamInFileOrder
  <2>5. CASE phase' # "completed"
    <3>1. BatchIsRun'
      <4>1. PICK k \in Nat : Base = BatchSize * k
        BY <1>0, <2>1 DEF BatchIsRun
      <4>4. read = Base + BatchSize
        BY <1>0, <1>t, <2>1, <2>5 DEF Base
      <4>2. read = BatchSize * k + BatchSize
        BY <4>1, <4>4
      <4>3. read = BatchSize * (k + 1) /\ k + 1 \in Nat
        BY <1>0, <4>2
      <4>. QED
        BY <2>1, <2>2, <2>5, <4>3 DEF BatchIsRun
    <3>2. TriedSoFar'
      <4> SUFFICES ASSUME phase' = "reading"
                   PROVE  1 .. read \subseteq attempted /\ \A i \in 1 .. Len(stream) : stream[i] <= read
        BY <2>1, <2>2 DEF TriedSoFar
      <4>1. at = Len(batch) + 1
        BY <1>0, <1>t, <2>1 DEF BatchIsRun
      <4>2. Base + at - 1 = read
        BY <1>t, <4>1 DEF Base
      <4>. QED
        BY <1>0, <1>t, <2>1, <4>2 DEF TriedSoFar
    <3>3. OnlyRemainderUntried'
      BY <2>5 DEF OnlyRemainderUntried
    <3>. QED
      BY <2>3, <2>4, <3>1, <3>2, <3>3 DEF BatchIInv
  <2>6. CASE phase' = "completed"
    <3>1. PICK k \in Nat : Base = BatchSize * k
      BY <1>0, <2>1 DEF BatchIsRun
    <3>6. read = messages
      BY <1>0, <1>t, <2>1, <2>6 DEF BatchIsRun
    <3>2. messages = Base + Len(batch)
      BY <1>t, <3>6 DEF Base
    <3>3. FullBatches = Base
      BY <1>0, <1>t, <2>1, <2>6, <3>1, <3>2, FullBatchesFacts
    <3>4. 1 .. FullBatches \subseteq attempted
      <4>1. \A i \in 1 .. Base : i \in 1 .. Base + at - 1
        BY <1>t
      <4>2. 1 .. Base + at - 1 \subseteq attempted
        BY <1>0, <2>1 DEF TriedSoFar
      <4>. QED
        BY <3>3, <4>1, <4>2
    <3>5. OnlyRemainderUntried'
      BY <2>1, <3>4 DEF OnlyRemainderUntried, FullBatches
    <3>7. BatchIsRun' /\ TriedSoFar'
      BY <2>1, <2>6 DEF BatchIsRun, TriedSoFar
    <3>. QED
      BY <2>3, <2>4, <3>5, <3>7 DEF BatchIInv
  <2>. QED
    BY <2>5, <2>6
<1>5. CASE Accept \/ SkipPermanent \/ Fail
  <2>1. /\ phase = "publishing" /\ at \in 1 .. Len(batch)
        /\ attempt = 0 => consecutive < MaxConsecutiveFailures
        /\ Current = Base + at /\ Current \in 1 .. read
    <3>1. phase = "publishing" /\ at \in 1 .. Len(batch) /\ ~ Stopped
      BY <1>t, <1>5 DEF InLoop, Accept, SkipPermanent, Fail
    <3>2. attempt = 0 => consecutive < MaxConsecutiveFailures
      BY <1>0, <1>t, <3>1 DEF Stopped
    <3>3. batch[at] = Base + at /\ batch[at] \in 1 .. read
      BY <1>0, <1>t, <3>1 DEF BatchIsRun
    <3>. QED
      BY <3>1, <3>2, <3>3 DEF Current
  <2>2. /\ \A i \in 1 .. Len(stream) : stream[i] <= Current
        /\ 1 .. Base + at - 1 \subseteq attempted
    BY <1>0, <2>1 DEF TriedSoFar
  <2>3. ASSUME UNCHANGED <<messages, read, batch, phase>>, stream' \in {stream, Append(stream, Current)}
        PROVE  /\ stream' \in Seq(1 .. read') /\ StreamInFileOrder' /\ OnlyRemainderUntried' /\ Base' = Base
               /\ \A i \in 1 .. Len(stream') : stream'[i] <= Base + at
    <3>1. CASE stream' = stream
      BY <1>0, <1>t, <2>1, <2>2, <2>3, <3>1 DEF StreamInFileOrder, OnlyRemainderUntried, Base
    <3>2. CASE stream' = Append(stream, Current)
      <4> DEFINE x == Current
      <4>1. x \in 1 .. read /\ (\A i \in 1 .. Len(stream) : stream[i] <= x) /\ x = Base + at
            /\ stream' = Append(stream, x)
        BY <2>1, <2>2, <3>2
      <4> HIDE DEF x
      <4>2. /\ stream' \in Seq(1 .. read)
            /\ \A i, j \in 1 .. Len(stream') : i < j => stream'[i] <= stream'[j]
            /\ \A i \in 1 .. Len(stream') : stream'[i] <= x
        BY <1>0, <1>t, <4>1, AppendInOrder DEF StreamInFileOrder
      <4>3. OnlyRemainderUntried' /\ Base' = Base
        BY <2>1, <2>3 DEF OnlyRemainderUntried, Base
      <4>. QED
        BY <2>3, <4>1, <4>2, <4>3 DEF StreamInFileOrder
    <3>. QED
      BY <2>3, <3>1, <3>2
  <2>4. 1 .. Base + (at + 1) - 1 \subseteq attempted \cup {Current}
    <3>1. \A i \in 1 .. Base + (at + 1) - 1 : i \in 1 .. Base + at - 1 \/ i = Base + at
      BY <1>t
    <3>. QED
      BY <2>1, <2>2, <3>1
  <2>5. CASE Accept \/ SkipPermanent
    <3>1. /\ UNCHANGED <<messages, read, batch, phase>> /\ stream' \in {stream, Append(stream, Current)}
          /\ attempted' = attempted \cup {Current} /\ at' = at + 1 /\ attempt' = 0
          /\ consecutive' \in {0, consecutive}
      BY <2>5 DEF Accept, SkipPermanent
    <3>2. /\ stream' \in Seq(1 .. read') /\ StreamInFileOrder' /\ OnlyRemainderUntried' /\ Base' = Base
          /\ \A i \in 1 .. Len(stream') : stream'[i] <= Base + at
      BY <2>3, <3>1
    <3>3. BatchTypeOK'
      BY <1>0, <1>t, <2>1, <3>1, <3>2 DEF BatchTypeOK
    <3>4. BatchIsRun'
      <4>1. at' <= Len(batch) + 1
        BY <1>t, <2>1, <3>1
      <4>2. /\ \A i \in 1 .. Len(batch') : batch'[i] = Base' + i
            /\ phase' = "publishing" => Len(batch') = BatchSize \/ read' = messages'
            /\ \E k \in Nat : Base' = BatchSize * k
        BY <1>0, <2>1, <3>1, <3>2 DEF BatchIsRun
      <4>. QED
        BY <3>1, <4>1, <4>2 DEF BatchIsRun
    <3>5. TriedSoFar'
      <4>1. \A i \in 1 .. Len(stream') : stream'[i] <= Base + (at + 1)
        BY <1>t, <3>1, <3>2
      <4>. QED
        BY <2>1, <2>4, <3>1, <3>2, <4>1 DEF TriedSoFar
    <3>6. StreakBounded'
      BY <1>0, <1>t, <3>1 DEF StreakBounded
    <3>. QED
      BY <3>2, <3>3, <3>4, <3>5, <3>6 DEF BatchIInv
  <2>6. CASE Fail
    <3>1. /\ UNCHANGED <<messages, read, batch, phase>> /\ stream' \in {stream, Append(stream, Current)}
          /\ attempted' = attempted \cup {Current}
          /\ consecutive' = consecutive + 1
          /\ \/ attempt + 1 < MaxRetries /\ attempt' = attempt + 1 /\ at' = at
             \/ attempt + 1 >= MaxRetries /\ attempt' = 0 /\ at' = at + 1
      BY <1>0, <1>t, <2>6 DEF Fail, NextAttempt
    <3>2. /\ stream' \in Seq(1 .. read') /\ StreamInFileOrder' /\ OnlyRemainderUntried' /\ Base' = Base
          /\ \A i \in 1 .. Len(stream') : stream'[i] <= Base + at
      BY <2>3, <3>1
    <3>3. BatchTypeOK'
      BY <1>0, <1>t, <2>1, <3>1, <3>2 DEF BatchTypeOK
    <3>4. BatchIsRun'
      <4>1. at' <= Len(batch) + 1
        BY <1>t, <2>1, <3>1
      <4>2. /\ \A i \in 1 .. Len(batch') : batch'[i] = Base' + i
            /\ phase' = "publishing" => Len(batch') = BatchSize \/ read' = messages'
            /\ \E k \in Nat : Base' = BatchSize * k
        BY <1>0, <2>1, <3>1, <3>2 DEF BatchIsRun
      <4>. QED
        BY <3>1, <4>1, <4>2 DEF BatchIsRun
    <3>5. TriedSoFar'
      <4>1. CASE at' = at
        BY <1>0, <1>t, <2>1, <2>2, <3>1, <3>2, <4>1 DEF TriedSoFar
      <4>2. CASE at' = at + 1
        <5>1. \A i \in 1 .. Len(stream') : stream'[i] <= Base + (at + 1)
          BY <1>t, <3>1, <3>2
        <5>. QED
          BY <2>1, <2>4, <3>1, <3>2, <4>2, <5>1 DEF TriedSoFar
      <4>. QED
        BY <3>1, <4>1, <4>2
    <3>6. StreakBounded'
      BY <1>0, <1>t, <2>1, <3>1 DEF StreakBounded
    <3>. QED
      BY <3>2, <3>3, <3>4, <3>5, <3>6 DEF BatchIInv
  <2>. QED
    BY <1>5, <2>5, <2>6
<1>6. CASE UNCHANGED batchVars
  BY <1>0, <1>6 DEF batchVars, BatchIInv, BatchTypeOK, StreamInFileOrder, OnlyRemainderUntried,
                    BatchIsRun, Base, TriedSoFar, StreakBounded, FullBatches
<1>. QED
  BY <1>1, <1>2, <1>3, <1>4, <1>5, <1>6 DEF BatchNext, Progress

(* However often NATS fails, is slow or loses an acknowledgement: the      *)
(* stream holds a file's records in order, an import gives up within its   *)
(* limits, and one that is taken as complete has tried every message of    *)
(* every full batch (publish_csv, _publish_batch).                         *)
THEOREM BatchInvariant == BatchSpec => []BatchInv
<1>1. BatchIInv => BatchInv
  BY DEF BatchIInv, BatchInv, StreakBounded, OutageBounded
<1>. QED
  BY <1>1, InitBatch, NextBatchIInv, PTL DEF BatchSpec

----------------------------------------------------------------------------
(* A PBF file's import.                                                    *)

\* The sentinel is on the queue from its put until the loop is left.
SentinelIn == parser = "ended" /\ publisher # "join"

Waiting == IF SentinelIn THEN Len(q) - 1 ELSE Len(q)   \* elements on the queue
Taken   == parsed - Waiting                            \* elements taken from it
Settled == Taken - Len(chunk)                          \* elements done with

\* Which stages of the two threads go together.
Stages ==
    /\ parser = "off" <=> publisher = "off"
    /\ publisher = "join" => q = <<>> /\ parser = "ended"
    /\ publisher \in {"off", "take", "join"} => chunk = <<>>
    /\ publisher = "off" => q = <<>>
    /\ SentinelIn => Len(q) >= 1 /\ q[Len(q)] = SENTINEL

\* The queue and the batch are runs of the file's elements.
RunsOfFile ==
    /\ Settled >= 0
    /\ \A i \in 1 .. Waiting : q[i] = Taken + i
    /\ \A i \in 1 .. Len(chunk) : chunk[i] = Settled + i

\* What became of the elements before them.
Accounted ==
    /\ 1 .. Settled \subseteq InStream \cup skipped \cup lost
    /\ skipped \cup lost \subseteq 1 .. Taken
    /\ \A i \in 1 .. Len(sent) : sent[i] <= Settled + 1 /\ sent[i] <= Taken

\* The counts of failures.
Streaks == tries <= streak /\ tries < MaxStreak /\ streak = silent

WatcherIInv ==
    /\ WatcherTypeOK /\ ParseOrder
    /\ Stages /\ RunsOfFile /\ Accounted /\ Streaks

LEMMA WatcherFacts ==
    ASSUME WatcherIInv
    PROVE  /\ Elements \in Nat /\ QueueMaxsize \in Nat \ {0} /\ PublishSize \in Nat \ {0}
           /\ MaxStreak \in Nat \ {0} /\ MaxTries \in Nat /\ MaxStreak <= MaxTries
           /\ parsed \in Nat /\ parsed <= Elements
           /\ q \in Seq(File \cup {SENTINEL}) /\ Len(q) \in Nat /\ Len(q) <= QueueMaxsize
           /\ chunk \in Seq(File) /\ Len(chunk) \in Nat /\ Len(chunk) <= PublishSize
           /\ sent \in Seq(File) /\ Len(sent) \in Nat
           /\ tries \in Nat /\ streak \in Nat /\ silent \in Nat /\ streak <= MaxStreak
           /\ Waiting \in Nat /\ Taken \in Int /\ Settled \in Int
           /\ Taken <= parsed /\ Settled <= Taken
<1>1. /\ Elements \in Nat /\ QueueMaxsize \in Nat \ {0} /\ PublishSize \in Nat \ {0}
      /\ MaxStreak \in Nat \ {0} /\ MaxTries \in Nat /\ MaxStreak <= MaxTries
  BY WatcherAssumption
<1>2. /\ parsed \in Nat /\ parsed <= Elements
      /\ q \in Seq(File \cup {SENTINEL}) /\ Len(q) \in Nat /\ Len(q) <= QueueMaxsize
      /\ chunk \in Seq(File) /\ Len(chunk) \in Nat /\ Len(chunk) <= PublishSize
      /\ sent \in Seq(File) /\ Len(sent) \in Nat
      /\ tries \in Nat /\ streak \in Nat /\ silent \in Nat /\ streak <= MaxStreak
  BY <1>1 DEF WatcherIInv, WatcherTypeOK
<1>3. SentinelIn => Len(q) >= 1
  BY DEF WatcherIInv, Stages
<1>4. Waiting \in Nat
  BY <1>2, <1>3 DEF Waiting
<1>5. Taken \in Int /\ Taken <= parsed
  BY <1>2, <1>4 DEF Taken
<1>6. Settled \in Int /\ Settled <= Taken
  BY <1>2, <1>5 DEF Settled
<1>. QED
  BY <1>1, <1>2, <1>4, <1>5, <1>6

(* A step that touches neither the elements nor the counts.                *)
LEMMA QuietWatcherStep ==
    ASSUME WatcherIInv, UNCHANGED <<parsed, q, chunk, sent, skipped, lost, tries, streak, silent>>,
           SentinelIn' = SentinelIn, WatcherTypeOK', Stages'
    PROVE  WatcherIInv'
<1>1. Waiting' = Waiting /\ Taken' = Taken /\ Settled' = Settled
  BY DEF Waiting, Taken, Settled
<1>. QED
  BY <1>1 DEF WatcherIInv, ParseOrder, RunsOfFile, Accounted, Streaks, InStream

LEMMA InitWatcher == WatcherInit => WatcherIInv
<1> SUFFICES ASSUME WatcherInit PROVE WatcherIInv
  OBVIOUS
<1>1. /\ q \in Seq(File \cup {SENTINEL}) /\ chunk \in Seq(File) /\ sent \in Seq(File)
      /\ Len(q) = 0 /\ Len(chunk) = 0 /\ Len(sent) = 0 /\ parsed = 0
      /\ ~ SentinelIn
  BY DEF WatcherInit, SentinelIn
<1>2. Waiting = 0 /\ Taken = 0 /\ Settled = 0
  <2>1. Waiting = 0
    BY <1>1 DEF Waiting
  <2>2. Taken = 0
    BY <1>1, <2>1 DEF Taken
  <2>. QED
    BY <1>1, <2>1, <2>2 DEF Settled
<1>3. WatcherTypeOK
  <2>1. Elements \in Nat /\ QueueMaxsize \in Nat /\ PublishSize \in Nat /\ MaxTries \in Nat
        /\ MaxStreak \in Nat /\ MaxBreaks \in Nat
    BY WatcherAssumption
  <2>2. /\ parser \in {"off", "parsing", "ended"}
        /\ publisher \in {"off", "take", "drain", "publish", "join"}
        /\ parseError \in BOOLEAN /\ recorded \in BOOLEAN
        /\ skipped \subseteq File /\ lost \subseteq File
    BY DEF WatcherInit
  <2>3. /\ parsed \in 0 .. Elements /\ tries \in 0 .. MaxTries /\ breaks \in 0 .. MaxBreaks
        /\ streak \in 0 .. MaxStreak /\ silent \in 0 .. MaxStreak
    BY <2>1 DEF WatcherInit
  <2>. QED
    BY <1>1, <2>1, <2>2, <2>3 DEF WatcherTypeOK
<1>4. ParseOrder /\ Stages
  BY <1>1 DEF WatcherInit, ParseOrder, Stages
<1>5. RunsOfFile /\ Accounted /\ Streaks
  BY <1>1, <1>2, WatcherAssumption DEF WatcherInit, RunsOfFile, Accounted, Streaks
<1>. QED
  BY <1>3, <1>4, <1>5 DEF WatcherIInv

(* What the invariant says of the system's promises.                       *)
LEMMA WatcherImplies == WatcherIInv => WatcherInv
<1> SUFFICES ASSUME WatcherIInv PROVE WatcherInv
  OBVIOUS
<1>0. /\ WatcherTypeOK /\ ParseOrder /\ Stages /\ RunsOfFile /\ Accounted /\ Streaks
      /\ parsed \in Nat /\ Len(q) \in Nat /\ Len(chunk) \in Nat /\ Waiting \in Nat
      /\ Taken \in Int /\ Settled \in Int /\ Taken <= parsed /\ Settled <= Taken
      /\ Len(sent) \in Nat /\ sent \in Seq(File) /\ skipped \subseteq File /\ lost \subseteq File
      /\ q \in Seq(File \cup {SENTINEL})
  BY WatcherFacts DEF WatcherIInv, WatcherTypeOK
<1>1. NothingBehindSentinel /\ RetriesNeverExhausted
  BY <1>0 DEF Stages, Streaks, NothingBehindSentinel, RetriesNeverExhausted
<1>2. Settled >= 0 /\ parsed <= Elements /\ Elements \in Nat
  BY <1>0, WatcherAssumption DEF RunsOfFile, WatcherTypeOK
<1>3. ASSUME NEW x \in Taken + 1 .. parsed PROVE x \in InQueue
  <2> DEFINE i == x - Taken
  <2>1. i \in 1 .. Waiting /\ Taken + i = x /\ Waiting <= Len(q)
    <3>1. Waiting <= Len(q)
      BY <1>0 DEF Waiting
    <3>2. Taken + Waiting = parsed
      BY <1>0 DEF Taken
    <3>. QED
      BY <1>0, <3>1, <3>2
  <2>2. x \in File
    BY <1>0, <1>2 DEF File
  <2>3. i \in 1 .. Len(q)
    BY <1>0, <2>1
  <2> HIDE DEF i
  <2>4. q[i] = x
    BY <1>0, <2>1 DEF RunsOfFile
  <2>. QED
    BY <2>2, <2>3, <2>4, WatcherAssumption DEF InQueue, File
<1>4. ASSUME NEW x \in InQueue PROVE x \in 1 .. parsed
  <2>1. PICK i \in 1 .. Len(q) : x = q[i]
    BY DEF InQueue
  <2>2. x # SENTINEL
    BY DEF InQueue
  <2>3. i \in 1 .. Waiting
    <3>1. CASE SentinelIn
      <4>1. i # Len(q) /\ Waiting = Len(q) - 1
        BY <1>0, <2>1, <2>2, <3>1 DEF Stages, Waiting
      <4>. QED
        BY <1>0, <2>1, <4>1
    <3>2. CASE ~ SentinelIn
      BY <2>1, <3>2 DEF Waiting
    <3>. QED
      BY <3>1, <3>2
  <2>4. x = Taken + i /\ Taken + Waiting = parsed
    BY <1>0, <2>1, <2>3 DEF RunsOfFile, Taken
  <2>. QED
    BY <1>0, <1>2, <2>3, <2>4
<1>5. ASSUME NEW x \in Settled + 1 .. Taken PROVE x \in InBatch
  <2> DEFINE i == x - Settled
  <2>1. i \in 1 .. Len(chunk) /\ Settled + i = x
    BY <1>0 DEF Settled
  <2> HIDE DEF i
  <2>2. chunk[i] = x
    BY <1>0, <2>1 DEF RunsOfFile
  <2>. QED
    BY <2>1, <2>2 DEF InBatch
<1>6. ASSUME NEW x \in InBatch PROVE x \in 1 .. parsed
  <2>1. PICK i \in 1 .. Len(chunk) : x = chunk[i]
    BY DEF InBatch
  <2>2. x = Settled + i /\ Settled + Len(chunk) = Taken
    BY <1>0, <2>1 DEF RunsOfFile, Settled
  <2>. QED
    BY <1>0, <1>2, <2>1, <2>2
<1>7. ASSUME NEW x \in InStream PROVE x \in 1 .. parsed
  <2>1. PICK i \in 1 .. Len(sent) : x = sent[i]
    BY DEF InStream
  <2>2. x <= Taken /\ x \in File
    BY <1>0, <2>1 DEF Accounted
  <2>. QED
    BY <1>0, <2>2 DEF File
<1>8. ASSUME NEW x \in 1 .. parsed
      PROVE  x \in 1 .. Settled \/ x \in Settled + 1 .. Taken \/ x \in Taken + 1 .. parsed
  BY <1>0, <1>2
<1>9. ASSUME NEW x \in skipped \cup lost PROVE x \in 1 .. parsed
  <2>1. x \in 1 .. Taken
    BY <1>0 DEF Accounted
  <2>. QED
    BY <1>0, <2>1
<1>10. NothingVanishes
  <2>1. 1 .. parsed \subseteq InQueue \cup InBatch \cup InStream \cup skipped \cup lost
    BY <1>0, <1>3, <1>5, <1>8 DEF Accounted
  <2>2. InQueue \cup InBatch \cup InStream \cup skipped \cup lost \subseteq 1 .. parsed
    BY <1>4, <1>6, <1>7, <1>9
  <2>. QED
    BY <2>1, <2>2 DEF NothingVanishes
<1>. QED
  BY <1>0, <1>1, <1>10 DEF WatcherInv

LEMMA TailOfOne == \A S : \A s \in Seq(S) : Len(s) = 1 => Tail(s) = <<>>
<1> SUFFICES ASSUME NEW S, NEW s \in Seq(S), Len(s) = 1 PROVE Tail(s) = <<>>
  OBVIOUS
<1>1. Tail(s) \in Seq(S) /\ Len(Tail(s)) = 0
  BY HeadTailProperties
<1>. QED
  BY <1>1, EmptySeq

(* What is at the head of the queue: the next element of the file, or the  *)
(* sentinel and nothing behind it.                                         *)
LEMMA QueueHead ==
    ASSUME WatcherIInv, q # <<>>
    PROVE  /\ Head(q) # SENTINEL =>
                /\ Waiting >= 1 /\ Head(q) = Taken + 1 /\ Taken + 1 \in File
                /\ \A i \in 1 .. Len(q) - 1 : Tail(q)[i] = q[i + 1]
                /\ Tail(q) \in Seq(File \cup {SENTINEL}) /\ Len(Tail(q)) = Len(q) - 1
           /\ Head(q) = SENTINEL => SentinelIn /\ Len(q) = 1 /\ Waiting = 0 /\ Tail(q) = <<>>
<1>0. /\ Stages /\ RunsOfFile
      /\ parsed \in Nat /\ parsed <= Elements /\ Elements \in Nat
      /\ q \in Seq(File \cup {SENTINEL}) /\ Len(q) \in Nat /\ Waiting \in Nat
      /\ Taken \in Int /\ Settled \in Int /\ Settled <= Taken
  BY WatcherFacts DEF WatcherIInv
<1>1. Len(q) >= 1 /\ Head(q) = q[1]
  BY <1>0
<1>2. /\ \A i \in 1 .. Len(q) - 1 : Tail(q)[i] = q[i + 1]
      /\ Tail(q) \in Seq(File \cup {SENTINEL}) /\ Len(Tail(q)) = Len(q) - 1
  BY <1>0, <1>1
<1>3. Taken >= 0 /\ Taken + Waiting = parsed
  BY <1>0 DEF RunsOfFile, Taken
<1>4. Waiting >= 1 => Head(q) = Taken + 1 /\ Taken + 1 \in File
  BY <1>0, <1>1, <1>3 DEF RunsOfFile, File
<1>5. Waiting >= 1 => Head(q) # SENTINEL
  BY <1>4, WatcherAssumption DEF File
<1>6. Waiting = 0 => SentinelIn /\ Len(q) = 1 /\ Head(q) = SENTINEL
  BY <1>0, <1>1 DEF Waiting, Stages
<1>7. Waiting = 0 => Tail(q) = <<>>
  BY <1>0, <1>6, TailOfOne
<1>. QED
  BY <1>0, <1>2, <1>4, <1>5, <1>6, <1>7

(* What is at the head of the batch: the element after the settled ones.   *)
LEMMA ChunkHead ==
    ASSUME WatcherIInv, chunk # <<>>
    PROVE  /\ Head(chunk) = Settled + 1 /\ Settled + 1 <= Taken /\ Settled + 1 \in File
           /\ Len(Tail(chunk)) = Len(chunk) - 1 /\ Tail(chunk) \in Seq(File)
           /\ \A i \in 1 .. Len(chunk) - 1 : Tail(chunk)[i] = Settled + 1 + i
<1>0. /\ RunsOfFile
      /\ parsed \in Nat /\ parsed <= Elements /\ Elements \in Nat
      /\ chunk \in Seq(File) /\ Len(chunk) \in Nat
      /\ Taken \in Int /\ Settled \in Int /\ Settled >= 0 /\ Taken <= parsed
  BY WatcherFacts DEF WatcherIInv, RunsOfFile
<1>1. Len(chunk) >= 1 /\ Head(chunk) = chunk[1]
  BY <1>0
<1>2. /\ \A i \in 1 .. Len(chunk) - 1 : Tail(chunk)[i] = chunk[i + 1]
      /\ Tail(chunk) \in Seq(File) /\ Len(Tail(chunk)) = Len(chunk) - 1
  BY <1>0, <1>1
<1>3. Settled + Len(chunk) = Taken
  BY <1>0 DEF Settled
<1>4. \A i \in 1 .. Len(chunk) - 1 : i + 1 \in 1 .. Len(chunk) /\ Settled + (i + 1) = Settled + 1 + i
  BY <1>0, <1>1
<1>5. Head(chunk) = Settled + 1
  BY <1>0, <1>1 DEF RunsOfFile
<1>6. \A i \in 1 .. Len(chunk) - 1 : Tail(chunk)[i] = Settled + 1 + i
  BY <1>0, <1>2, <1>4 DEF RunsOfFile
<1>7. Settled + 1 <= Taken /\ Settled + 1 \in File
  BY <1>0, <1>1, <1>3 DEF File
<1>. QED
  BY <1>2, <1>5, <1>6, <1>7

(* The parser's steps.                                                     *)
LEMMA ParserStep == WatcherIInv /\ (Parser \/ ParseFails) => WatcherIInv'
<1> SUFFICES ASSUME WatcherIInv, Parser \/ ParseFails PROVE WatcherIInv'
  OBVIOUS
<1>0. /\ WatcherTypeOK /\ ParseOrder /\ Stages /\ RunsOfFile /\ Accounted /\ Streaks
      /\ Elements \in Nat /\ QueueMaxsize \in Nat /\ MaxBreaks \in Nat
      /\ parsed \in Nat /\ parsed <= Elements
      /\ q \in Seq(File \cup {SENTINEL}) /\ Len(q) \in Nat /\ Waiting \in Nat
      /\ Taken \in Int /\ Settled \in Int
  BY WatcherFacts, WatcherAssumption DEF WatcherIInv
<1>1. CASE PutElement
  <2>1. /\ q' = Append(q, parsed + 1) /\ parsed' = parsed + 1 /\ parsed + 1 \in File
        /\ UNCHANGED <<parser, parseError, publisher, chunk, sendVars, fileVars>>
        /\ ~ SentinelIn /\ ~ SentinelIn' /\ Len(q) < QueueMaxsize
    BY <1>0, <1>1 DEF PutElement, SentinelIn, File
  <2>2. /\ q' \in Seq(File \cup {SENTINEL}) /\ Len(q') = Len(q) + 1
        /\ \A i \in 1 .. Len(q) : q'[i] = q[i]
        /\ q'[Len(q) + 1] = parsed + 1
    BY <1>0, <2>1
  <2>3. Waiting = Len(q) /\ Waiting' = Waiting + 1
    BY <1>0, <2>1, <2>2 DEF Waiting
  <2>4. Taken' = Taken /\ Settled' = Settled /\ parsed + 1 = Taken + (Waiting + 1)
    <3>1. Taken = parsed - Waiting /\ Taken' = (parsed + 1) - (Waiting + 1)
      BY <2>1, <2>3 DEF Taken
    <3>2. Taken' = Taken /\ parsed + 1 = Taken + (Waiting + 1)
      BY <1>0, <3>1
    <3>. QED
      BY <2>1, <3>2 DEF Settled, sendVars
  <2>5. WatcherTypeOK'
    <3>1. parsed' \in 0 .. Elements /\ Len(q') <= QueueMaxsize
      BY <1>0, <2>1, <2>2 DEF File
    <3>. QED
      BY <1>0, <2>1, <2>2, <3>1 DEF WatcherTypeOK, sendVars, fileVars
  <2>6. Stages'
    BY <1>0, <1>1, <2>1 DEF Stages, PutElement
  <2>7. \A i \in 1 .. Waiting' : q'[i] = Taken' + i
    <3>1. \A i \in 1 .. Waiting' : i \in 1 .. Waiting \/ i = Waiting + 1
      BY <1>0, <2>3
    <3>2. \A i \in 1 .. Waiting : q'[i] = Taken + i
      BY <1>0, <2>2, <2>3 DEF RunsOfFile
    <3>. QED
      BY <2>2, <2>3, <2>4, <3>1, <3>2
  <2>8. RunsOfFile'
    BY <1>0, <2>1, <2>4, <2>7 DEF RunsOfFile, sendVars
  <2>9. ParseOrder' /\ Accounted' /\ Streaks'
    BY <1>0, <2>1, <2>4 DEF ParseOrder, Accounted, Streaks, InStream, sendVars
  <2>. QED
    BY <2>5, <2>6, <2>8, <2>9 DEF WatcherIInv
<1>2. CASE PutSentinel
  <2>1. /\ q' = Append(q, SENTINEL) /\ parser' = "ended"
        /\ UNCHANGED <<parsed, parseError, publisher, chunk, sendVars, fileVars>>
        /\ ~ SentinelIn /\ SentinelIn' /\ Len(q) < QueueMaxsize
        /\ publisher # "off" /\ publisher # "join"
    BY <1>0, <1>2 DEF PutSentinel, SentinelIn, Stages
  <2>2. /\ q' \in Seq(File \cup {SENTINEL}) /\ Len(q') = Len(q) + 1
        /\ \A i \in 1 .. Len(q) : q'[i] = q[i]
        /\ q'[Len(q) + 1] = SENTINEL
    BY <1>0, <2>1
  <2>3. Waiting = Len(q) /\ Waiting' = Waiting
    BY <1>0, <2>1, <2>2 DEF Waiting
  <2>4. Taken' = Taken /\ Settled' = Settled
    BY <2>1, <2>3 DEF Taken, Settled, sendVars
  <2>5. WatcherTypeOK'
    BY <1>0, <2>1, <2>2 DEF WatcherTypeOK, sendVars, fileVars
  <2>6. Stages'
    BY <1>0, <2>1, <2>2 DEF Stages
  <2>7. RunsOfFile'
    BY <1>0, <2>1, <2>2, <2>3, <2>4 DEF RunsOfFile, sendVars
  <2>8. ParseOrder' /\ Accounted' /\ Streaks'
    BY <1>0, <2>1, <2>4 DEF ParseOrder, Accounted, Streaks, InStream, sendVars
  <2>. QED
    BY <2>5, <2>6, <2>7, <2>8 DEF WatcherIInv
<1>3. CASE ParseFails
  <2>1. /\ breaks < MaxBreaks /\ parseError' = TRUE /\ breaks' = breaks + 1
        /\ UNCHANGED <<parser, parsed, q, publisher, chunk, sendVars, recorded>>
    BY <1>3 DEF ParseFails
  <2>2. WatcherTypeOK' /\ Stages' /\ SentinelIn' = SentinelIn
    BY <1>0, <2>1 DEF WatcherTypeOK, Stages, SentinelIn, sendVars
  <2>. QED
    BY <2>1, <2>2, QuietWatcherStep DEF sendVars
<1>. QED
  BY <1>1, <1>2, <1>3 DEF Parser

(* The publisher's steps on the queue.                                     *)
LEMMA QueueStep ==
    WatcherIInv /\ (Take \/ DrainElement \/ Leave \/ DrainSentinel \/ Drained \/ NextBatch) => WatcherIInv'
<1> SUFFICES ASSUME WatcherIInv, Take \/ DrainElement \/ Leave \/ DrainSentinel \/ Drained \/ NextBatch
             PROVE  WatcherIInv'
  OBVIOUS
<1>0. /\ WatcherTypeOK /\ ParseOrder /\ Stages /\ RunsOfFile /\ Accounted /\ Streaks
      /\ Elements \in Nat /\ QueueMaxsize \in Nat \ {0} /\ PublishSize \in Nat \ {0}
      /\ parsed \in Nat /\ parsed <= Elements
      /\ q \in Seq(File \cup {SENTINEL}) /\ Len(q) \in Nat /\ Len(q) <= QueueMaxsize
      /\ chunk \in Seq(File) /\ Len(chunk) \in Nat /\ Len(chunk) <= PublishSize
      /\ Waiting \in Nat /\ Taken \in Int /\ Settled \in Int /\ sent \in Seq(File) /\ Len(sent) \in Nat
  BY WatcherFacts, WatcherAssumption DEF WatcherIInv
<1>1. CASE Take \/ DrainElement
  <2>1. /\ q # <<>> /\ Head(q) # SENTINEL /\ q' = Tail(q)
        /\ chunk' = Append(chunk, Head(q)) /\ Len(chunk) < PublishSize
        /\ publisher \in {"take", "drain"} /\ publisher' = "drain"
        /\ UNCHANGED <<parserVars, sendVars, fileVars>>
    <3>1. CASE Take
      <4>1. chunk = <<>> /\ <<Head(q)>> = Append(chunk, Head(q))
        BY <1>0, <3>1 DEF Take, Stages
      <4>. QED
        BY <1>0, <3>1, <4>1 DEF Take
    <3>2. CASE DrainElement
      BY <3>2 DEF DrainElement
    <3>. QED
      BY <1>1, <3>1, <3>2
  <2>2. /\ Waiting >= 1 /\ Head(q) = Taken + 1 /\ Taken + 1 \in File
        /\ \A i \in 1 .. Len(q) - 1 : q'[i] = q[i + 1]
        /\ q' \in Seq(File \cup {SENTINEL}) /\ Len(q') = Len(q) - 1
    BY <2>1, QueueHead
  <2>3. /\ chunk' \in Seq(File) /\ Len(chunk') = Len(chunk) + 1
        /\ \A i \in 1 .. Len(chunk) : chunk'[i] = chunk[i]
        /\ chunk'[Len(chunk) + 1] = Taken + 1
    <3>1. chunk' = Append(chunk, Taken + 1)
      BY <2>1, <2>2
    <3>. QED
      BY <1>0, <2>2, <3>1
  <2>4. SentinelIn' = SentinelIn
    BY <2>1 DEF SentinelIn, parserVars
  <2>5. Waiting' = Waiting - 1
    BY <1>0, <2>2, <2>4 DEF Waiting
  <2>6. Taken' = Taken + 1
    <3>1. Taken = parsed - Waiting /\ Taken' = parsed - (Waiting - 1)
      BY <2>1, <2>5 DEF Taken, parserVars
    <3>. QED
      BY <1>0, <3>1
  <2>7. Settled' = Settled /\ Taken + 1 = Settled + (Len(chunk) + 1)
    <3>1. Settled = Taken - Len(chunk) /\ Settled' = (Taken + 1) - (Len(chunk) + 1)
      BY <2>3, <2>6 DEF Settled
    <3>. QED
      BY <1>0, <3>1
  <2>8. WatcherTypeOK'
    <3>1. Len(q') <= QueueMaxsize /\ Len(chunk') <= PublishSize
      BY <1>0, <2>1, <2>2, <2>3
    <3>. QED
      BY <1>0, <2>1, <2>2, <2>3, <3>1 DEF WatcherTypeOK, parserVars, sendVars, fileVars
  <2>9. Stages'
    <3>1. SentinelIn => Len(q') >= 1 /\ q'[Len(q')] = SENTINEL
      <4>1. SentinelIn => Len(q) - 1 \in 1 .. Len(q) - 1 /\ (Len(q) - 1) + 1 = Len(q) /\ Waiting = Len(q) - 1
        BY <1>0, <2>2 DEF Waiting
      <4>. QED
        BY <1>0, <2>2, <4>1 DEF Stages
    <3>. QED
      BY <1>0, <2>1, <2>4, <3>1 DEF Stages, parserVars
  <2>10. RunsOfFile'
    <3>1. \A i \in 1 .. Waiting - 1 : q'[i] = (Taken + 1) + i
      <4>1. \A i \in 1 .. Waiting - 1 : i + 1 \in 1 .. Waiting /\ i \in 1 .. Len(q) - 1
                                       /\ Taken + (i + 1) = (Taken + 1) + i
        <5>1. Waiting <= Len(q)
          BY <1>0 DEF Waiting
        <5>. QED
          BY <1>0, <5>1
      <4>. QED
        BY <1>0, <2>2, <4>1 DEF RunsOfFile
    <3>2. \A i \in 1 .. Len(chunk) + 1 : i \in 1 .. Len(chunk) \/ i = Len(chunk) + 1
      BY <1>0
    <3>3. \A i \in 1 .. Len(chunk) + 1 : chunk'[i] = Settled + i
      BY <1>0, <2>3, <2>7, <3>2 DEF RunsOfFile
    <3>. QED
      BY <1>0, <2>3, <2>5, <2>6, <2>7, <3>1, <3>3 DEF RunsOfFile
  <2>11. Accounted'
    <3>1. skipped \cup lost \subseteq 1 .. Taken + 1
      BY <1>0 DEF Accounted
    <3>2. \A i \in 1 .. Len(sent) : sent[i] <= Settled + 1 /\ sent[i] <= Taken + 1
      <4>1. ASSUME NEW i \in 1 .. Len(sent)
            PROVE  sent[i] <= Settled + 1 /\ sent[i] <= Taken + 1
        <5>1. sent[i] \in File /\ sent[i] <= Settled + 1 /\ sent[i] <= Taken
          BY <1>0 DEF Accounted
        <5>2. sent[i] \in Int /\ Settled \in Int /\ Taken \in Int
          BY <1>0, <5>1 DEF File
        <5>. QED
          BY <5>1, <5>2
      <4>. QED
        BY <4>1
    <3>. QED
      BY <1>0, <2>1, <2>6, <2>7, <3>1, <3>2 DEF Accounted, InStream, sendVars
  <2>12. ParseOrder' /\ Streaks'
    BY <1>0, <2>1 DEF ParseOrder, Streaks, sendVars
  <2>. QED
    BY <2>8, <2>9, <2>10, <2>11, <2>12 DEF WatcherIInv
<1>2. CASE Leave
  <2>1. /\ q # <<>> /\ Head(q) = SENTINEL /\ q' = Tail(q) /\ publisher = "take" /\ publisher' = "join"
        /\ UNCHANGED <<parserVars, chunk, sendVars, fileVars>>
    BY <1>2 DEF Leave
  <2>2. SentinelIn /\ Waiting = 0 /\ q' = <<>> /\ ~ SentinelIn' /\ parser = "ended"
    BY <2>1, QueueHead DEF SentinelIn
  <2>3. q' \in Seq(File \cup {SENTINEL}) /\ Len(q') = 0
    BY <2>2
  <2>4. Waiting' = Waiting
    BY <2>2, <2>3 DEF Waiting
  <2>5. Taken' = Taken /\ Settled' = Settled
    BY <2>1, <2>4 DEF Taken, Settled, parserVars
  <2>6. WatcherTypeOK'
    BY <1>0, <2>1, <2>3 DEF WatcherTypeOK, parserVars, sendVars, fileVars
  <2>7. Stages'
    BY <1>0, <2>1, <2>2 DEF Stages, parserVars
  <2>8. RunsOfFile'
    BY <1>0, <2>1, <2>2, <2>4, <2>5 DEF RunsOfFile
  <2>9. ParseOrder' /\ Accounted' /\ Streaks'
    BY <1>0, <2>1, <2>5 DEF ParseOrder, Accounted, Streaks, InStream, sendVars
  <2>. QED
    BY <2>6, <2>7, <2>8, <2>9 DEF WatcherIInv
<1>3. CASE DrainSentinel \/ Drained \/ NextBatch
  <2>1. /\ q' = q /\ UNCHANGED <<parserVars, chunk, sendVars, fileVars>>
        /\ publisher \in {"drain", "publish"} /\ publisher' \in {"take", "publish"}
        /\ publisher' = "take" => chunk = <<>>
    <3>1. CASE DrainSentinel
      <4>1. Len(q) = 1 /\ q[1] = SENTINEL /\ q' = Append(<<>>, SENTINEL)
        BY <1>0, <3>1, QueueHead DEF DrainSentinel, Signalled, Stages
      <4>2. q' = q
        BY <1>0, <4>1
      <4>. QED
        BY <3>1, <4>2 DEF DrainSentinel
    <3>2. CASE Drained \/ NextBatch
      BY <3>2 DEF Drained, NextBatch
    <3>. QED
      BY <1>3, <3>1, <3>2
  <2>2. SentinelIn' = SentinelIn
    BY <2>1 DEF SentinelIn, parserVars
  <2>3. WatcherTypeOK' /\ Stages'
    BY <1>0, <2>1, <2>2 DEF WatcherTypeOK, Stages, parserVars, sendVars, fileVars
  <2>. QED
    BY <2>1, <2>2, <2>3, QuietWatcherStep DEF parserVars, sendVars
<1>. QED
  BY <1>1, <1>2, <1>3

(* What NATS stores of an attempt stays in the file's order.               *)
LEMMA StoredInOrder ==
    ASSUME WatcherIInv, Sending, sent' \in {sent, Append(sent, Head(chunk))}
    PROVE  /\ ParseOrder' /\ sent' \in Seq(File) /\ InStream \subseteq InStream'
           /\ \A i \in 1 .. Len(sent') : sent'[i] <= Settled + 1 /\ sent'[i] <= Taken
           /\ sent' = Append(sent, Head(chunk)) => Settled + 1 \in InStream'
<1>0. /\ ParseOrder /\ Accounted /\ sent \in Seq(File) /\ Len(sent) \in Nat
      /\ Taken \in Int /\ Settled \in Int /\ Elements \in Nat
  BY WatcherFacts DEF WatcherIInv
<1>1. Head(chunk) = Settled + 1 /\ Settled + 1 <= Taken /\ Settled + 1 \in File
  BY ChunkHead DEF Sending
<1>2. CASE sent' = sent
  <2>1. sent # Append(sent, Head(chunk))
    BY <1>0, <1>1
  <2>. QED
    BY <1>0, <1>2, <2>1 DEF ParseOrder, Accounted, InStream
<1>3. CASE sent' = Append(sent, Head(chunk))
  <2>1. /\ sent' \in Seq(File) /\ Len(sent') = Len(sent) + 1
        /\ \A i \in 1 .. Len(sent) : sent'[i] = sent[i]
        /\ sent'[Len(sent) + 1] = Settled + 1
    <3>1. sent' = Append(sent, Settled + 1)
      BY <1>1, <1>3
    <3>. QED
      BY <1>0, <1>1, <3>1
  <2>2. \A i \in 1 .. Len(sent') : i \in 1 .. Len(sent) \/ i = Len(sent) + 1
    BY <1>0, <2>1
  <2>3. \A i \in 1 .. Len(sent) : sent'[i] <= Settled + 1 /\ sent'[i] <= Taken
    BY <1>0, <2>1 DEF Accounted
  <2>4. \A i \in 1 .. Len(sent') : sent'[i] <= Settled + 1 /\ sent'[i] <= Taken
    BY <1>0, <1>1, <2>1, <2>2, <2>3
  <2>5. \A i, j \in 1 .. Len(sent') : i < j => sent'[i] <= sent'[j]
    <3> SUFFICES ASSUME NEW i \in 1 .. Len(sent'), NEW j \in 1 .. Len(sent'), i < j
                 PROVE  sent'[i] <= sent'[j]
      OBVIOUS
    <3>1. i \in 1 .. Len(sent)
      BY <1>0, <2>1
    <3>2. CASE j \in 1 .. Len(sent)
      BY <1>0, <2>1, <3>1, <3>2 DEF ParseOrder
    <3>3. CASE j = Len(sent) + 1
      BY <2>1, <2>3, <3>1, <3>3
    <3>. QED
      BY <2>2, <3>2, <3>3
  <2>6. InStream \subseteq InStream'
    <3>1. \A i \in 1 .. Len(sent) : i \in 1 .. Len(sent')
      BY <1>0, <2>1
    <3>. QED
      BY <2>1, <3>1 DEF InStream
  <2>7. Settled + 1 \in InStream'
    <3>1. Len(sent) + 1 \in 1 .. Len(sent')
      BY <1>0, <2>1
    <3>. QED
      BY <2>1, <3>1 DEF InStream
  <2>. QED
    BY <2>1, <2>4, <2>5, <2>6, <2>7 DEF ParseOrder
<1>. QED
  BY <1>2, <1>3

(* The first message of the batch is done with: stored, or dropped.        *)
LEMMA FirstSettled ==
    ASSUME WatcherIInv, Sending, WatcherTypeOK', Streaks',
           UNCHANGED <<parserVars, q, publisher>>, chunk' = Tail(chunk),
           sent' \in {sent, Append(sent, Head(chunk))},
           skipped \subseteq skipped', lost \subseteq lost',
           skipped' \cup lost' \subseteq skipped \cup lost \cup {Head(chunk)},
           Head(chunk) \in skipped' \/ sent' = Append(sent, Head(chunk))
    PROVE  WatcherIInv'
<1>0. /\ Stages /\ RunsOfFile /\ Accounted
      /\ chunk \in Seq(File) /\ Len(chunk) \in Nat
      /\ Taken \in Int /\ Settled \in Int
  BY WatcherFacts DEF WatcherIInv
<1>1. /\ Head(chunk) = Settled + 1 /\ Settled + 1 <= Taken
      /\ Len(chunk') = Len(chunk) - 1
      /\ \A i \in 1 .. Len(chunk) - 1 : chunk'[i] = Settled + 1 + i
  BY ChunkHead DEF Sending
<1>2. /\ ParseOrder' /\ InStream \subseteq InStream' /\ sent' \in Seq(File)
      /\ \A i \in 1 .. Len(sent') : sent'[i] <= Settled + 1 /\ sent'[i] <= Taken
      /\ sent' = Append(sent, Head(chunk)) => Settled + 1 \in InStream'
  BY StoredInOrder
<1>3. SentinelIn' = SentinelIn /\ Waiting' = Waiting /\ Taken' = Taken
  BY DEF SentinelIn, Waiting, Taken, parserVars
<1>4. Settled' = Settled + 1
  <2>1. Settled = Taken - Len(chunk) /\ Settled' = Taken - (Len(chunk) - 1)
    BY <1>1, <1>3 DEF Settled
  <2>. QED
    BY <1>0, <2>1
<1>5. Stages'
  BY <1>0, <1>3 DEF Stages, Sending, parserVars
<1>6. RunsOfFile'
  <2>1. Settled + 1 >= 0
    BY <1>0 DEF RunsOfFile
  <2>2. \A i \in 1 .. Waiting : q[i] = Taken + i
    BY <1>0 DEF RunsOfFile
  <2>. QED
    BY <1>1, <1>3, <1>4, <2>1, <2>2 DEF RunsOfFile
<1>7. Accounted'
  <2>1. ASSUME NEW x \in 1 .. Settled + 1 PROVE x \in InStream' \cup skipped' \cup lost'
    <3>1. x \in 1 .. Settled \/ x = Settled + 1
      BY <1>0
    <3>. QED
      BY <1>0, <1>1, <1>2, <3>1 DEF Accounted
  <2>2. skipped' \cup lost' \subseteq 1 .. Taken
    <3>1. Settled + 1 \in 1 .. Taken
      BY <1>0, <1>1 DEF RunsOfFile
    <3>. QED
      BY <1>0, <1>1, <3>1 DEF Accounted
  <2>3. \A i \in 1 .. Len(sent') : sent'[i] <= Settled' + 1 /\ sent'[i] <= Taken'
    <3>1. ASSUME NEW i \in 1 .. Len(sent') PROVE sent'[i] <= Settled' + 1 /\ sent'[i] <= Taken'
      <4>1. sent'[i] \in Int
        <5>1. sent'[i] \in File
          BY <1>2
        <5>. QED
          BY <5>1 DEF File
      <4>. QED
        BY <1>0, <1>2, <1>3, <1>4, <4>1
    <3>. QED
      BY <3>1
  <2>. QED
    BY <1>3, <1>4, <2>1, <2>2, <2>3 DEF Accounted
<1>. QED
  BY <1>2, <1>5, <1>6, <1>7 DEF WatcherIInv

(* A failure gives the message another attempt, or the limit is reached    *)
(* and the batch is given up; the retries never run out.                   *)
LEMMA FailureCounts ==
    ASSUME WatcherIInv, PublishFails
    PROVE  /\ silent' = streak' /\ tries \in Nat /\ streak \in Nat /\ tries <= streak
           /\ MaxStreak \in Nat \ {0} /\ MaxTries \in Nat /\ MaxStreak <= MaxTries
           /\ \/ /\ streak' = MaxStreak
                 /\ chunk' = <<>> /\ tries' = 0 /\ lost' = lost \cup InBatch
              \/ /\ streak' = streak + 1 /\ streak + 1 < MaxStreak
                 /\ chunk' = chunk /\ tries' = tries + 1 /\ lost' = lost
<1>0. /\ tries \in Nat /\ streak \in Nat /\ silent \in Nat /\ streak <= MaxStreak
      /\ MaxStreak \in Nat \ {0} /\ MaxTries \in Nat /\ MaxStreak <= MaxTries
      /\ tries <= streak /\ streak = silent
      /\ streak' = AtMost(MaxStreak, streak + 1) /\ silent' = AtMost(MaxStreak, silent + 1)
      /\ AfterFailure
  BY WatcherFacts DEF WatcherIInv, PublishFails, Streaks
<1>1. CASE streak + 1 >= MaxStreak
  <2>1. streak' = MaxStreak /\ silent' = MaxStreak
    BY <1>0, <1>1 DEF AtMost
  <2>2. GivesUp
    BY <1>0, <2>1 DEF GivesUp
  <2>. QED
    BY <1>0, <2>1, <2>2 DEF AfterFailure
<1>2. CASE streak + 1 < MaxStreak
  <2>1. streak' = streak + 1 /\ silent' = streak + 1
    BY <1>0, <1>2 DEF AtMost
  <2>2. ~ GivesUp /\ tries + 1 < MaxTries
    BY <1>0, <1>2, <2>1 DEF GivesUp
  <2>. QED
    BY <1>0, <1>2, <2>1, <2>2 DEF AfterFailure, Again
<1>. QED
  BY <1>0, <1>1, <1>2

(* NATS acknowledges, refuses, or does not answer.                         *)
LEMMA SendStep == WatcherIInv /\ (Acked \/ SkipTooLarge \/ PublishFails) => WatcherIInv'
<1> SUFFICES ASSUME WatcherIInv, Acked \/ SkipTooLarge \/ PublishFails PROVE WatcherIInv'
  OBVIOUS
<1>0. /\ WatcherTypeOK /\ ParseOrder /\ Stages /\ RunsOfFile /\ Accounted /\ Streaks
      /\ MaxStreak \in Nat \ {0} /\ MaxTries \in Nat /\ PublishSize \in Nat
      /\ chunk \in Seq(File) /\ Len(chunk) \in Nat /\ Len(chunk) <= PublishSize
      /\ tries \in Nat /\ streak \in Nat /\ silent \in Nat /\ streak <= MaxStreak
      /\ Waiting \in Nat /\ Taken \in Int /\ Settled \in Int /\ sent \in Seq(File) /\ Len(sent) \in Nat
  BY WatcherFacts, WatcherAssumption DEF WatcherIInv
<1>1. Sending /\ UNCHANGED <<parserVars, q, publisher, fileVars>>
      /\ sent' \in {sent, Append(sent, Head(chunk))}
  BY DEF Acked, SkipTooLarge, PublishFails
<1>2. /\ Head(chunk) = Settled + 1 /\ Settled + 1 <= Taken /\ Head(chunk) \in File
      /\ Len(Tail(chunk)) = Len(chunk) - 1 /\ Tail(chunk) \in Seq(File)
  BY <1>1, ChunkHead DEF Sending
<1>3. ParseOrder' /\ sent' \in Seq(File)
  BY <1>1, StoredInOrder
<1>4. CASE Acked \/ SkipTooLarge
  <2>1. /\ chunk' = Tail(chunk) /\ tries' = 0
        /\ streak' \in {0, streak} /\ silent' \in {0, silent} /\ streak' = silent'
        /\ skipped' \subseteq skipped \cup {Head(chunk)} /\ skipped \subseteq skipped' /\ lost' = lost
        /\ Head(chunk) \in skipped' \/ sent' = Append(sent, Head(chunk))
    BY <1>0, <1>4 DEF Acked, SkipTooLarge, ResetFailures, Streaks
  <2>2. Streaks'
    BY <1>0, <2>1 DEF Streaks
  <2>3. WatcherTypeOK'
    <3>1. skipped' \subseteq File /\ lost' \subseteq File
      BY <1>0, <1>2, <2>1 DEF WatcherTypeOK
    <3>2. Len(chunk') <= PublishSize
      BY <1>0, <1>2, <2>1
    <3>3. tries' \in 0 .. MaxTries /\ streak' \in 0 .. MaxStreak /\ silent' \in 0 .. MaxStreak
      BY <1>0, <2>1 DEF WatcherTypeOK
    <3>. QED
      BY <1>0, <1>1, <1>2, <1>3, <2>1, <3>1, <3>2, <3>3 DEF WatcherTypeOK, parserVars, fileVars
  <2>. QED
    BY <1>1, <2>1, <2>2, <2>3, FirstSettled
<1>5. CASE PublishFails
  <2>0. /\ silent' = streak' /\ tries <= streak /\ skipped' = skipped
        /\ MaxStreak <= MaxTries
        /\ \/ /\ streak' = MaxStreak
              /\ chunk' = <<>> /\ tries' = 0 /\ lost' = lost \cup InBatch
           \/ /\ streak' = streak + 1 /\ streak + 1 < MaxStreak
              /\ chunk' = chunk /\ tries' = tries + 1 /\ lost' = lost
    BY <1>5, FailureCounts DEF PublishFails
  <2>1. SentinelIn' = SentinelIn /\ Waiting' = Waiting /\ Taken' = Taken
    BY <1>1 DEF SentinelIn, Waiting, Taken, parserVars
  <2>2. /\ InStream \subseteq InStream'
        /\ \A i \in 1 .. Len(sent') : sent'[i] <= Settled + 1 /\ sent'[i] <= Taken
    BY <1>1, StoredInOrder
  <2>3. Stages'
    BY <1>0, <1>1, <2>1 DEF Stages, Sending, parserVars
  <2>4. Streaks'
    BY <1>0, <2>0 DEF Streaks
  <2>5. CASE chunk' = chunk /\ lost' = lost /\ streak' = streak + 1 /\ streak + 1 < MaxStreak /\ tries' = tries + 1
    <3>1. Settled' = Settled
      BY <2>1, <2>5 DEF Settled
    <3>2. WatcherTypeOK'
      <4>1. tries' \in 0 .. MaxTries /\ streak' \in 0 .. MaxStreak /\ silent' \in 0 .. MaxStreak
        BY <1>0, <2>0, <2>5
      <4>. QED
        BY <1>0, <1>1, <1>3, <2>0, <2>5, <4>1 DEF WatcherTypeOK, parserVars, fileVars
    <3>3. RunsOfFile'
      BY <1>0, <1>1, <2>1, <2>5, <3>1 DEF RunsOfFile
    <3>4. Accounted'
      BY <1>0, <2>0, <2>1, <2>2, <2>5, <3>1 DEF Accounted
    <3>. QED
      BY <1>3, <2>3, <2>4, <3>2, <3>3, <3>4 DEF WatcherIInv
  <2>6. CASE chunk' = <<>> /\ lost' = lost \cup InBatch /\ streak' = MaxStreak /\ tries' = 0
    <3>1. chunk' \in Seq(File) /\ Len(chunk') = 0
      BY <2>6
    <3>2. Settled' = Taken
      BY <1>0, <2>1, <3>1 DEF Settled
    <3>3. InBatch \subseteq 1 .. Taken
      <4>1. ASSUME NEW i \in 1 .. Len(chunk) PROVE chunk[i] \in 1 .. Taken
        <5>1. chunk[i] = Settled + i /\ Settled >= 0 /\ Settled + Len(chunk) = Taken
          BY <1>0 DEF RunsOfFile, Settled
        <5>. QED
          BY <1>0, <5>1
      <4>. QED
        BY <4>1 DEF InBatch
    <3>4. \A x \in 1 .. Taken : x \in 1 .. Settled \/ x \in InBatch
      <4>1. ASSUME NEW x \in 1 .. Taken, x \notin 1 .. Settled PROVE x \in InBatch
        <5> DEFINE i == x - Settled
        <5>1. i \in 1 .. Len(chunk) /\ Settled + i = x
          <6>1. Settled >= 0 /\ Settled + Len(chunk) = Taken
            BY <1>0 DEF RunsOfFile, Settled
          <6>. QED
            BY <1>0, <4>1, <6>1
        <5> HIDE DEF i
        <5>2. chunk[i] = x
          BY <1>0, <5>1 DEF RunsOfFile
        <5>. QED
          BY <5>1, <5>2 DEF InBatch
      <4>. QED
        BY <4>1
    <3>5. WatcherTypeOK'
      <4>1. tries' \in 0 .. MaxTries /\ streak' \in 0 .. MaxStreak /\ silent' \in 0 .. MaxStreak
        BY <1>0, <2>0, <2>6
      <4>2. InBatch \subseteq File
        BY <1>0 DEF InBatch
      <4>3. lost' \subseteq File
        BY <1>0, <2>6, <4>2 DEF WatcherTypeOK
      <4>. QED
        BY <1>0, <1>1, <1>3, <2>0, <3>1, <4>1, <4>3 DEF WatcherTypeOK, parserVars, fileVars
    <3>6. RunsOfFile'
      <4>1. Taken >= 0 /\ \A i \in 1 .. Waiting : q[i] = Taken + i
        BY <1>0, <1>2 DEF RunsOfFile
      <4>. QED
        BY <1>1, <2>1, <3>1, <3>2, <4>1 DEF RunsOfFile
    <3>7. Accounted'
      <4>1. 1 .. Taken \subseteq InStream' \cup skipped' \cup lost'
        BY <1>0, <2>0, <2>2, <2>6, <3>4 DEF Accounted
      <4>2. skipped' \cup lost' \subseteq 1 .. Taken
        BY <1>0, <2>0, <2>6, <3>3 DEF Accounted
      <4>3. ASSUME NEW i \in 1 .. Len(sent') PROVE sent'[i] <= Taken + 1 /\ sent'[i] <= Taken
        <5>1. sent'[i] \in File /\ sent'[i] <= Taken /\ Taken \in Int
          BY <1>0, <1>3, <2>2
        <5>2. sent'[i] \in Int
          BY <5>1 DEF File
        <5>. QED
          BY <5>1, <5>2
      <4>. QED
        BY <2>1, <3>2, <4>1, <4>2, <4>3 DEF Accounted
    <3>. QED
      BY <1>3, <2>3, <2>4, <3>5, <3>6, <3>7 DEF WatcherIInv
  <2>. QED
    BY <2>0, <2>5, <2>6
<1>. QED
  BY <1>4, <1>5

(* A run starts, ends, or dies.                                            *)
LEMMA RunStep == WatcherIInv /\ (Start \/ Join \/ Break) => WatcherIInv'
<1> SUFFICES ASSUME WatcherIInv, Start \/ Join \/ Break PROVE WatcherIInv'
  OBVIOUS
<1>0. /\ WatcherTypeOK /\ Stages
      /\ Elements \in Nat /\ QueueMaxsize \in Nat /\ PublishSize \in Nat /\ MaxTries \in Nat
      /\ MaxStreak \in Nat \ {0} /\ MaxBreaks \in Nat
  BY WatcherAssumption DEF WatcherIInv
<1>1. CASE Join
  <2>1. /\ publisher = "join" /\ publisher' = "off" /\ parser' = "off" /\ recorded' \in BOOLEAN
        /\ UNCHANGED <<parsed, parseError, q, chunk, sendVars, breaks>>
    BY <1>0, <1>1 DEF Join, WatcherTypeOK
  <2>2. SentinelIn' = SentinelIn
    BY <2>1 DEF SentinelIn
  <2>3. WatcherTypeOK' /\ Stages'
    BY <1>0, <2>1, <2>2 DEF WatcherTypeOK, Stages, sendVars, SentinelIn
  <2>. QED
    BY <2>1, <2>2, <2>3, QuietWatcherStep DEF sendVars
<1>2. CASE Start \/ Break
  <2>1. /\ Fresh /\ recorded' = recorded /\ breaks' \in 0 .. MaxBreaks
        /\ \/ publisher' = "take" /\ parser' = "parsing"
           \/ publisher' = "off" /\ parser' = "off"
    BY <1>0, <1>2 DEF Start, Break, WatcherTypeOK, fileVars
  <2>2. /\ q' = <<>> /\ chunk' = <<>> /\ sent' = <<>> /\ parsed' = 0 /\ parseError' = FALSE
        /\ q' \in Seq(File \cup {SENTINEL}) /\ chunk' \in Seq(File) /\ sent' \in Seq(File)
        /\ Len(q') = 0 /\ Len(chunk') = 0 /\ Len(sent') = 0
        /\ tries' = 0 /\ streak' = 0 /\ silent' = 0 /\ skipped' = {} /\ lost' = {}
    BY <2>1 DEF Fresh
  <2>3. ~ SentinelIn'
    BY <2>1 DEF SentinelIn
  <2>4. Waiting' = 0 /\ Taken' = 0 /\ Settled' = 0
    <3>1. Waiting' = 0
      BY <2>2, <2>3 DEF Waiting
    <3>2. Taken' = 0
      BY <2>2, <3>1 DEF Taken
    <3>3. Len(chunk') = 0
      BY <2>2
    <3>. QED
      BY <3>1, <3>2, <3>3 DEF Settled
  <2>5. WatcherTypeOK'
    <3>1. /\ parsed' \in 0 .. Elements /\ tries' \in 0 .. MaxTries
          /\ streak' \in 0 .. MaxStreak /\ silent' \in 0 .. MaxStreak
      BY <1>0, <2>2
    <3>2. /\ parser' \in {"off", "parsing", "ended"}
          /\ publisher' \in {"off", "take", "drain", "publish", "join"}
          /\ recorded' \in BOOLEAN /\ parseError' \in BOOLEAN
          /\ skipped' \subseteq File /\ lost' \subseteq File
      BY <1>0, <2>1, <2>2 DEF WatcherTypeOK
    <3>3. /\ Len(q') <= QueueMaxsize /\ Len(chunk') <= PublishSize
          /\ q' \in Seq(File \cup {SENTINEL}) /\ chunk' \in Seq(File) /\ sent' \in Seq(File)
          /\ breaks' \in 0 .. MaxBreaks
      BY <1>0, <2>1, <2>2
    <3>. QED
      BY <3>1, <3>2, <3>3 DEF WatcherTypeOK
  <2>6. Stages' /\ ParseOrder'
    BY <2>1, <2>2, <2>3 DEF Stages, ParseOrder
  <2>7. RunsOfFile' /\ Accounted' /\ Streaks'
    BY <1>0, <2>2, <2>4 DEF RunsOfFile, Accounted, Streaks
  <2>. QED
    BY <2>5, <2>6, <2>7 DEF WatcherIInv
<1>. QED
  BY <1>1, <1>2

LEMMA NextWatcherIInv == WatcherIInv /\ [WatcherNext]_watcherVars => WatcherIInv'
<1>1. WatcherIInv /\ WatcherNext => WatcherIInv'
  BY ParserStep, QueueStep, SendStep, RunStep DEF WatcherNext, Parser, Publisher
<1>2. WatcherIInv /\ UNCHANGED watcherVars => WatcherIInv'
  <2> SUFFICES ASSUME WatcherIInv, UNCHANGED watcherVars PROVE WatcherIInv'
    OBVIOUS
  <2>1. SentinelIn' = SentinelIn /\ WatcherTypeOK' /\ Stages'
    BY DEF watcherVars, WatcherIInv, SentinelIn, WatcherTypeOK, Stages
  <2>. QED
    BY <2>1, QuietWatcherStep DEF watcherVars
<1>. QED
  BY <1>1, <1>2

(* Between the parser and NATS nothing vanishes and nothing overtakes,     *)
(* whatever fails and whenever the process dies; the flush after the loop  *)
(* finds the queue empty, and no message uses up its retries               *)
(* (publish_file, _publish_batch).                                         *)
THEOREM WatcherInvariant == WatcherSpec => []WatcherInv
<1>. QED
  BY InitWatcher, NextWatcherIInv, WatcherImplies, PTL DEF WatcherSpec

(* An element is given up only after as many attempts in a row without an  *)
(* acknowledgement as the limit says, in one batch or over several         *)
(* ("Too many consecutive failures").                                      *)
THEOREM LossOnlyInOutage == WatcherSpec => LossNeedsOutage
<1>1. WatcherIInv /\ [WatcherNext]_watcherVars => [lost' # lost => lost' = {} \/ silent' = MaxStreak]_watcherVars
  <2> SUFFICES ASSUME WatcherIInv, [WatcherNext]_watcherVars, lost' # lost, lost' # {}
               PROVE  silent' = MaxStreak
    OBVIOUS
  <2>1. PublishFails
    BY DEF WatcherNext, Parser, Publisher, watcherVars, PutElement, ParseFails, PutSentinel, Take, Leave,
           DrainElement, DrainSentinel, Drained, Acked, SkipTooLarge, NextBatch, Start, Join, Break,
           Fresh, sendVars
  <2>. QED
    BY <2>1, FailureCounts
<1>. QED
  BY <1>1, InitWatcher, NextWatcherIInv, PTL DEF WatcherSpec, LossNeedsOutage

----------------------------------------------------------------------------
(* The requests of the geocoder: what holds of a request at each of its    *)
(* calls, whatever the stream and the stores hold by then.                 *)

\* Whatever can be in a stream.
Ids == Polygons \cup {Custom(n) : n \in Nat} \cup {Trace}
         \cup UNION {{f[i] : i \in 1 .. Len(f)} : f \in Finds}

Orders == UNION {[1 .. Cardinality(S) -> S] : S \in SUBSET Polygons}

Servers == {"es", "postgis", "nats", "redis", "google", "valhalla"}

Places == {"idle", "answered", "publish", "show", "google", "enrich", "rows", "docs", "locate",
           "speed", "health"}

IdSeqs      == Seq(Ids)
IdSets      == SUBSET Ids
PolygonSets == SUBSET Polygons
ServerSets  == SUBSET Servers
Codes       == {0, 200, 500, 502, 503}

Reqs == [kind : Kinds, at : Places, ids : IdSeqs, todo : IdSeqs, acked : IdSets,
         rows : PolygonSets, docs : IdSets, polygons : Orders, code : Codes,
         faulted : ServerSets, before : PolygonSets]

\* Where a handler can be.
StagesFor(kind) ==
    CASE kind \in {"insert", "probe"} -> {"publish"}   [] kind = "place" -> {"publish", "show"}
      [] kind = "forward" -> {"google", "publish", "enrich"}
      [] kind = "deep_reverse" -> {"google", "publish", "rows", "docs"}
      [] kind = "reverse" -> {"rows", "docs"}          [] kind = "edge" -> {"locate", "speed"}
      [] kind = "health" -> {"health"}

\* A server without which a request cannot be answered has raised.
HasCause(r) ==
    (CASE r.kind \in Direct -> {"nats"}   [] r.kind \in Deep -> {"google"}
       [] r.kind = "reverse" -> {"postgis"} [] r.kind = "edge" -> {"valhalla", "redis"}
       [] r.kind = "health" -> Stores) \intersect r.faulted # {}

\* The answer of /reverse: what was in both stores, the named ones by area.
ShowsAll(r) ==
    /\ r.before \subseteq Elems(r.polygons)
    /\ \A i, j \in DOMAIN r.polygons :
          i < j /\ {r.polygons[i], r.polygons[j]} \subseteq r.docs
            => AreaOf[r.polygons[i]] <= AreaOf[r.polygons[j]]

\* A direct request has one message, acknowledged or still to be published.
OneMessage(r) ==
    /\ Len(r.ids) = 1
    /\ \/ r.at = "publish" /\ r.todo = r.ids /\ r.acked = {}
       \/ r.at \in {"publish", "show"} /\ r.todo = <<>> /\ r.acked = Elems(r.ids)
       \/ r.at = "answered" /\ (r.code = 200 <=> r.acked = Elems(r.ids))

RequestFits(r) ==
    /\ r.at \in StagesFor(r.kind) \cup {"idle", "answered"}
    /\ r.code # 0 <=> r.at = "answered"
    /\ r.at # "answered" => r.docs = {}
    /\ r.at = "docs" => r.before \subseteq r.rows
    /\ r.at # "idle" /\ r.kind \in Direct => OneMessage(r)
    /\ r.at = "answered" /\ r.code # 200 => HasCause(r)
    /\ r.at = "answered" /\ r.kind \in {"reverse", "deep_reverse"} /\ r.code = 200
         /\ "postgis" \notin r.faulted => ShowsAll(r)

StoresOK ==
    /\ published \in [osm : Seq(Ids), traffic : Seq(Ids)]
    /\ applied \in [Stores -> Nat]
    /\ \A s \in Stores : applied[s] <= Len(published.osm)
    /\ shown \subseteq Elems(published.osm)

\* What a request has been told is stored, and what it was to see is applied.
Known(r) ==
    /\ r.acked \subseteq Elems(published[Subject(r.kind)])
    /\ r.before \subseteq StoredIn("postgis")

RequestsIInv ==
    /\ StoresOK
    /\ req \in [Clients -> Reqs]
    /\ \A c \in Clients : RequestFits(req[c]) /\ Known(req[c])
    /\ asked \in 0 .. MaxRequests /\ faults \in 0 .. MaxFaults

----------------------------------------------------------------------------
LEMMA ElemsIn ==
    ASSUME NEW S, NEW s \in Seq(S)
    PROVE  /\ Elems(s) \subseteq S /\ Len(s) \in Nat
           /\ \A e \in S : Append(s, e) \in Seq(S) /\ Elems(Append(s, e)) = Elems(s) \cup {e}
                            /\ Len(Append(s, e)) = Len(s) + 1
                            /\ \A i \in 1 .. Len(s) : Append(s, e)[i] = s[i]
           /\ s # <<>> => Head(s) \in S /\ Tail(s) \in Seq(S) /\ Head(s) \in Elems(s)
           /\ s = <<>> => Elems(s) = {}
<1>1. Elems(s) \subseteq S /\ Len(s) \in Nat
  BY DEF Elems
<1>2. ASSUME NEW e \in S
      PROVE  /\ Append(s, e) \in Seq(S) /\ Elems(Append(s, e)) = Elems(s) \cup {e}
             /\ Len(Append(s, e)) = Len(s) + 1
             /\ \A i \in 1 .. Len(s) : Append(s, e)[i] = s[i]
  <2>1. PICK t \in Seq(S) : t = Append(s, e)
    BY AppendProperties
  <2>2. /\ Len(t) = Len(s) + 1 /\ t[Len(s) + 1] = e
        /\ \A i \in 1 .. Len(s) : t[i] = s[i]
    BY <2>1
  <2>3. Elems(t) = Elems(s) \cup {e}
    BY <1>1, <2>2 DEF Elems
  <2>. QED
    BY <2>1, <2>2, <2>3
<1>3. s # <<>> => Head(s) \in S /\ Tail(s) \in Seq(S) /\ Head(s) \in Elems(s)
  BY DEF Elems
<1>4. s = <<>> => Elems(s) = {}
  BY DEF Elems
<1>. QED
  BY <1>1, <1>2, <1>3, <1>4

LEMMA NoRequestFits == NoRequest \in Reqs /\ RequestFits(NoRequest)
<1>1. <<>> \in Orders
  <2>1. <<>> \in [1 .. 0 -> {}]
    OBVIOUS
  <2>2. Cardinality({}) = 0 /\ {} \in SUBSET Polygons
    BY FS_EmptySet
  <2>3. <<>> \in [1 .. Cardinality({}) -> {}]
    BY <2>1, <2>2
  <2>. QED
    BY <2>2, <2>3 DEF Orders
<1>2. NoRequest \in Reqs
  BY <1>1 DEF NoRequest, Reqs, Kinds, Places, IdSeqs, IdSets, PolygonSets, ServerSets, Codes
<1>3. RequestFits(NoRequest)
  BY DEF NoRequest, RequestFits
<1>. QED
  BY <1>2, <1>3

LEMMA InitRequests == RequestsInit => RequestsIInv
<1>. SUFFICES ASSUME RequestsInit PROVE RequestsIInv
  OBVIOUS
<1>1. StoresOK
  BY DEF RequestsInit, StoresOK, Stores, Elems
<1>2. ASSUME NEW c \in Clients PROVE req[c] \in Reqs /\ RequestFits(req[c]) /\ Known(req[c])
  BY <1>2, NoRequestFits DEF RequestsInit, Known, NoRequest
<1>3. req \in [Clients -> Reqs]
  BY NoRequestFits DEF RequestsInit
<1>4. asked \in 0 .. MaxRequests /\ faults \in 0 .. MaxFaults
  BY RequestsAssumption DEF RequestsInit
<1>. QED
  BY <1>1, <1>2, <1>3, <1>4 DEF RequestsIInv

\* A request goes on as r while the streams and the stores only grow.
LEMMA GoesOn ==
    ASSUME RequestsIInv, NEW c \in Clients, NEW r \in Reqs, RequestFits(r), Go(c, r),
           StoresOK', Known(r)',
           \A k \in {"osm", "traffic"} : Elems(published[k]) \subseteq Elems(published'[k]),
           StoredIn("postgis") \subseteq StoredIn("postgis")',
           asked' \in 0 .. MaxRequests, faults' \in 0 .. MaxFaults
    PROVE  RequestsIInv'
<1>1. /\ req' \in [Clients -> Reqs] /\ req'[c] = r
      /\ \A d \in Clients \ {c} : req'[d] = req[d]
  BY DEF RequestsIInv, Go
<1>2. ASSUME NEW d \in Clients, d # c PROVE RequestFits(req'[d]) /\ Known(req[d])'
  <2>1. PICK was : was = req[d]
    OBVIOUS
  <2>2. RequestFits(was) /\ Known(was)
    BY <2>1 DEF RequestsIInv
  <2>3. Subject(was.kind) \in {"osm", "traffic"}
    BY DEF Subject
  <2>4. Known(was)'
    BY <2>2, <2>3 DEF Known
  <2>. QED
    BY <1>1, <1>2, <2>1, <2>2, <2>4 DEF Known
<1>3. Known(req[c])' /\ RequestFits(req'[c])
  BY <1>1 DEF Known
<1>4. \A d \in Clients : RequestFits(req[d])' /\ Known(req[d])'
  BY <1>1, <1>2, <1>3 DEF RequestFits
<1>. QED
  BY <1>1, <1>4 DEF RequestsIInv

LEMMA GoesOnAlone ==
    ASSUME RequestsIInv, NEW c \in Clients, NEW r \in Reqs, RequestFits(r), Go(c, r), Known(r),
           UNCHANGED <<published, applied>>, shown' \subseteq Elems(published.osm),
           asked' \in 0 .. MaxRequests, faults' \in 0 .. MaxFaults
    PROVE  RequestsIInv'
<1>1. StoresOK'
  BY DEF RequestsIInv, StoresOK
<1>2. Known(r)' /\ StoredIn("postgis")' = StoredIn("postgis")
  BY DEF Known, StoredIn
<1>. QED
  BY <1>1, <1>2, GoesOn

\* What an answer leaves as it was.
LEMMA AnsweredFields ==
    ASSUME NEW was \in Reqs, NEW code \in Codes
    PROVE  LET r == Answered(was, code)
           IN  /\ r \in Reqs /\ r.at = "answered" /\ r.code = code /\ r.kind = was.kind
               /\ r.ids = was.ids /\ r.todo = was.todo /\ r.acked = was.acked /\ r.rows = was.rows
               /\ r.docs = was.docs /\ r.polygons = was.polygons /\ r.faulted = was.faulted
               /\ r.before = was.before
<1>1. PICK r : r = Answered(was, code)
  OBVIOUS
<1>2. "answered" \in Places
  BY DEF Places
<1>3. r = [kind |-> was.kind, at |-> "answered", ids |-> was.ids, todo |-> was.todo, acked |-> was.acked,
           rows |-> was.rows, docs |-> was.docs, polygons |-> was.polygons, code |-> code,
           faulted |-> was.faulted, before |-> was.before]
  BY <1>1 DEF Answered, Reqs
<1>4. r \in Reqs
  BY <1>2, <1>3 DEF Reqs
<1>. QED
  BY <1>1, <1>3, <1>4

\* What a call that raises leaves.
LEMMA RaisedOn ==
    ASSUME RequestsIInv, NEW c \in Clients, NEW server \in Servers, NEW was \in Reqs,
           Raises(c, server, was)
    PROVE  /\ faults' \in 0 .. MaxFaults
           /\ \E r \in Reqs : Go(c, r) /\ r = [was EXCEPT !.faulted = was.faulted \cup {server}]
<1>1. faults' \in 0 .. MaxFaults
  BY RequestsAssumption DEF RequestsIInv, Raises
<1>2. was.faulted \cup {server} \in ServerSets
  BY DEF Reqs, ServerSets
<1>4. [was EXCEPT !.faulted = was.faulted \cup {server}] \in Reqs
  BY <1>2 DEF Reqs
<1>3. Go(c, [was EXCEPT !.faulted = was.faulted \cup {server}])
  BY DEF Raises
<1>. QED
  BY <1>1, <1>3, <1>4

----------------------------------------------------------------------------
(* The requests.                                                           *)

LEMMA ReceiveStep ==
    ASSUME RequestsIInv, NEW c \in Clients, NEW kind \in Kinds, Receive(c, kind)
    PROVE  RequestsIInv'
<1>1. PICK n : n = asked'
  OBVIOUS
<1>2. n \in 0 .. MaxRequests /\ n \in Nat
  BY <1>1, RequestsAssumption DEF Receive, RequestsIInv
<1>3. PICK ids :
        /\ ids \in CASE kind = "insert" -> {<<p>> : p \in Polygons}
                    [] kind = "place" -> {<<Custom(n)>>}
                    [] kind = "probe" -> {<<Trace>>}
                    [] OTHER -> {<<>>}
        /\ Go(c, [NoRequest EXCEPT !.kind = kind, !.at = FirstCallOf(kind), !.ids = ids,
                    !.todo = ids,
                    !.before = Polygons \intersect StoredIn("es") \intersect StoredIn("postgis")])
  BY <1>1 DEF Receive
<1>4. ids \in Seq(Ids) /\ (kind \in Direct => Len(ids) = 1)
  <2>1. ASSUME NEW e \in Ids PROVE <<e>> \in Seq(Ids) /\ Len(<<e>>) = 1
    OBVIOUS
  <2>2. CASE kind = "insert"
    <3>1. PICK p \in Polygons : ids = <<p>>
      BY <1>3, <2>2
    <3>. QED
      BY <2>1, <3>1 DEF Ids
  <2>3. CASE kind = "place"
    <3>1. ids = <<Custom(n)>>
      BY <1>3, <2>3
    <3>. QED
      BY <1>2, <2>1, <3>1 DEF Ids
  <2>4. CASE kind = "probe"
    <3>1. ids = <<Trace>>
      BY <1>3, <2>4
    <3>. QED
      BY <2>1, <3>1 DEF Ids
  <2>5. CASE kind \notin Direct
    <3>1. ids = <<>>
      BY <1>3, <2>5 DEF Direct
    <3>. QED
      BY <2>5, <3>1
  <2>. QED
    BY <2>2, <2>3, <2>4, <2>5 DEF Direct
<1>5. PICK b : b = Polygons \intersect StoredIn("es") \intersect StoredIn("postgis")
  OBVIOUS
<1>6. PICK r : r = [NoRequest EXCEPT !.kind = kind, !.at = FirstCallOf(kind), !.ids = ids,
                                     !.todo = ids, !.before = b]
  OBVIOUS
<1>7. FirstCallOf(kind) \in StagesFor(kind) /\ FirstCallOf(kind) \in Places \ {"idle", "answered", "docs"}
      /\ (kind \in Direct => FirstCallOf(kind) = "publish")
  BY DEF FirstCallOf, StagesFor, Places, Kinds, Direct, Deep
<1>8. /\ r \in Reqs /\ r.kind = kind /\ r.at = FirstCallOf(kind) /\ r.ids = ids /\ r.todo = ids
      /\ r.before = b /\ r.acked = {} /\ r.docs = {} /\ r.code = 0
  <2>1. ids \in IdSeqs /\ b \in PolygonSets /\ FirstCallOf(kind) \in Places
    BY <1>4, <1>5, <1>7 DEF IdSeqs, PolygonSets
  <2>2. r \in Reqs
    BY <1>6, <2>1, NoRequestFits DEF Reqs
  <2>. QED
    BY <1>6, <2>2 DEF NoRequest
<1>9. RequestFits(r)
  BY <1>4, <1>7, <1>8 DEF RequestFits, OneMessage
<1>10. Known(r)
  BY <1>5, <1>8 DEF Known
<1>11. Go(c, r)
  BY <1>3, <1>5, <1>6
<1>. QED
  BY <1>1, <1>2, <1>8, <1>9, <1>10, <1>11, GoesOnAlone DEF Receive, RequestsIInv, storeVars, StoresOK

LEMMA AskGoogleStep ==
    ASSUME RequestsIInv, NEW c \in Clients, AskGoogle(c)
    PROVE  RequestsIInv'
<1>1. PICK was \in Reqs : was = req[c] /\ RequestFits(was) /\ Known(was)
  BY DEF RequestsIInv
<1>2. was.at = "google" /\ was.kind \in Deep
  BY <1>1 DEF AskGoogle, At, RequestFits, StagesFor, Reqs, Kinds, Deep, Direct
<1>3. PICK found \in Finds : Go(c, [was EXCEPT !.at = "publish", !.ids = found, !.todo = found])
  BY <1>1 DEF AskGoogle
<1>4. found \in Seq(Ids)
  <2>1. Len(found) \in Nat /\ found = [i \in 1 .. Len(found) |-> found[i]]
    BY RequestsAssumption
  <2>2. \A i \in 1 .. Len(found) : found[i] \in Ids
    BY DEF Ids
  <2>3. PICK n \in Nat : n = Len(found)
    BY <2>1
  <2>4. found \in [1 .. n -> Ids]
    BY <2>1, <2>2, <2>3
  <2>. QED
    BY <2>4
<1>5. PICK r : r = [was EXCEPT !.at = "publish", !.ids = found, !.todo = found]
  OBVIOUS
<1>6. /\ r \in Reqs /\ r.kind = was.kind /\ r.at = "publish" /\ r.acked = was.acked
      /\ r.before = was.before /\ r.docs = was.docs /\ r.code = was.code
  <2>1. found \in IdSeqs /\ "publish" \in Places
    BY <1>4 DEF IdSeqs, Places
  <2>2. r \in Reqs
    BY <1>5, <2>1 DEF Reqs
  <2>. QED
    BY <1>5, <2>2
<1>7. RequestFits(r) /\ Known(r)
  BY <1>1, <1>2, <1>6 DEF RequestFits, Known, StagesFor, Direct, Deep
<1>. QED
  BY <1>3, <1>5, <1>6, <1>7, GoesOnAlone DEF AskGoogle, RequestsIInv, storeVars, StoresOK

LEMMA GoogleFailsStep ==
    ASSUME RequestsIInv, NEW c \in Clients, GoogleFails(c)
    PROVE  RequestsIInv'
<1>1. PICK was \in Reqs : was = req[c] /\ RequestFits(was) /\ Known(was)
  BY DEF RequestsIInv
<1>2. was.at = "google" /\ was.kind \in Deep /\ Raises(c, "google", Answered(was, 502))
  BY <1>1 DEF GoogleFails, At, RequestFits, StagesFor, Reqs, Kinds, Deep, Direct
<1>3. PICK a : a = Answered(was, 502)
  OBVIOUS
<1>4. a \in Reqs
  BY <1>3, AnsweredFields DEF Codes
<1>5. faults' \in 0 .. MaxFaults
      /\ \E r \in Reqs : Go(c, r) /\ r = [a EXCEPT !.faulted = a.faulted \cup {"google"}]
  BY <1>2, <1>3, <1>4, RaisedOn DEF Servers
<1>6. PICK r \in Reqs : Go(c, r) /\ r = [a EXCEPT !.faulted = a.faulted \cup {"google"}]
  BY <1>5
<1>7. /\ r.kind = was.kind /\ r.at = "answered" /\ r.acked = was.acked /\ r.before = was.before
      /\ r.code = 502 /\ "google" \in r.faulted
  BY <1>3, <1>4, <1>6, AnsweredFields DEF Codes
<1>8. RequestFits(r) /\ Known(r)
  BY <1>1, <1>2, <1>7 DEF RequestFits, Known, StagesFor, Direct, Deep, HasCause
<1>. QED
  BY <1>5, <1>6, <1>8, GoesOnAlone DEF GoogleFails, RequestsIInv, storeVars, StoresOK

----------------------------------------------------------------------------
(* What a stream stores.                                                   *)

LEMMA StreamsOf ==
    ASSUME NEW o \in IdSeqs, NEW t \in IdSeqs
    PROVE  [osm |-> o, traffic |-> t] \in [osm : IdSeqs, traffic : IdSeqs]
OBVIOUS

LEMMA StreamGrows ==
    ASSUME RequestsIInv, NEW k \in {"osm", "traffic"}, NEW m \in Ids,
           published' = [published EXCEPT ![k] = Append(@, m)], UNCHANGED <<applied, shown>>
    PROVE  /\ StoresOK'
           /\ \A j \in {"osm", "traffic"} : Elems(published[j]) \subseteq Elems(published'[j])
           /\ m \in Elems(published'[k])
           /\ StoredIn("postgis") \subseteq StoredIn("postgis")'
<1>1. PICK o \in Seq(Ids), t \in Seq(Ids) : published = [osm |-> o, traffic |-> t]
  BY DEF RequestsIInv, StoresOK
<1>2. ASSUME NEW x \in Seq(Ids)
      PROVE  /\ Append(x, m) \in Seq(Ids) /\ Elems(x) \subseteq Elems(Append(x, m))
             /\ m \in Elems(Append(x, m))
             /\ Len(x) \in Nat /\ Len(Append(x, m)) = Len(x) + 1
             /\ \A i \in 1 .. Len(x) : Append(x, m)[i] = x[i]
  BY <1>2, ElemsIn
<1>3. PICK p \in Seq(Ids), u \in Seq(Ids) :
        /\ published' = [osm |-> p, traffic |-> u]
        /\ Elems(o) \subseteq Elems(p) /\ Elems(t) \subseteq Elems(u)
        /\ (k = "osm" => m \in Elems(p))
        /\ (k = "traffic" => m \in Elems(u))
        /\ Len(o) \in Nat /\ Len(p) \in Nat /\ Len(o) <= Len(p)
        /\ \A i \in 1 .. Len(o) : p[i] = o[i]
  <2>1. CASE k = "osm"
    <3>1. published' = [osm |-> Append(o, m), traffic |-> t]
      BY <1>1, <2>1
    <3>2. PICK p \in Seq(Ids) : p = Append(o, m)
      BY <1>2
    <3>3. /\ Elems(o) \subseteq Elems(p) /\ m \in Elems(p) /\ Len(o) \in Nat
          /\ Len(p) = Len(o) + 1 /\ \A i \in 1 .. Len(o) : p[i] = o[i]
      BY <1>2, <3>2
    <3>4. /\ published' = [osm |-> p, traffic |-> t]
          /\ Elems(o) \subseteq Elems(p) /\ Elems(t) \subseteq Elems(t)
          /\ (k = "osm" => m \in Elems(p))
          /\ (k = "traffic" => m \in Elems(t))
          /\ Len(o) \in Nat /\ Len(p) \in Nat /\ Len(o) <= Len(p)
          /\ \A i \in 1 .. Len(o) : p[i] = o[i]
      <4>1. published' = [osm |-> p, traffic |-> t]
        BY <3>1, <3>2
      <4>2. Len(p) \in Nat /\ Len(o) <= Len(p)
        BY <3>3
      <4>. QED
        BY <2>1, <3>3, <4>1, <4>2, Zenon
    <3>. QED
      BY <3>4, Zenon
  <2>2. CASE k = "traffic"
    <3>1. published' = [osm |-> o, traffic |-> Append(t, m)]
      BY <1>1, <2>2
    <3>2. PICK u \in Seq(Ids) : u = Append(t, m)
      BY <1>2
    <3>3. Elems(t) \subseteq Elems(u) /\ m \in Elems(u) /\ Len(o) \in Nat
      BY <1>2, <3>2
    <3>4. /\ published' = [osm |-> o, traffic |-> u]
          /\ Elems(o) \subseteq Elems(o) /\ Elems(t) \subseteq Elems(u)
          /\ (k = "osm" => m \in Elems(o))
          /\ (k = "traffic" => m \in Elems(u))
          /\ Len(o) \in Nat /\ Len(o) \in Nat /\ Len(o) <= Len(o)
          /\ \A i \in 1 .. Len(o) : o[i] = o[i]
      <4>1. published' = [osm |-> o, traffic |-> u]
        BY <3>1, <3>2
      <4>2. Len(o) <= Len(o)
        BY <3>3
      <4>. QED
        BY <2>2, <3>3, <4>1, <4>2, Zenon
    <3>. QED
      BY <3>4, Zenon
  <2>. QED
    BY <2>1, <2>2
<1>4. applied \in [Stores -> Nat] /\ \A x \in Stores : applied[x] <= Len(o)
  BY <1>1 DEF RequestsIInv, StoresOK
<1>5. StoresOK'
  <2>1. shown' \subseteq Elems(p)
    BY <1>1, <1>3 DEF RequestsIInv, StoresOK
  <2>2. applied' \in [Stores -> Nat] /\ \A x \in Stores : applied'[x] <= Len(p)
    BY <1>3, <1>4
  <2>. QED
    <3>1. published' \in [osm : Seq(Ids), traffic : Seq(Ids)] /\ published'.osm = p
      <4>1. p \in IdSeqs /\ u \in IdSeqs
        BY DEF IdSeqs
      <4>3. published' = [osm |-> p, traffic |-> u]
        BY <1>3
      <4>4. published'.osm = p
        BY <4>3
      <4>5. published' \in [osm : IdSeqs, traffic : IdSeqs]
        BY <4>1, <4>3, StreamsOf
      <4>. QED
        BY <4>4, <4>5 DEF IdSeqs
    <3>. QED
      BY <2>1, <2>2, <3>1 DEF StoresOK
<1>9. /\ published["osm"] = o /\ published["traffic"] = t
      /\ published'["osm"] = p /\ published'["traffic"] = u
  BY <1>1, <1>3
<1>6. \A j \in {"osm", "traffic"} : Elems(published[j]) \subseteq Elems(published'[j])
  BY <1>3, <1>9
<1>7. m \in Elems(published'[k])
  BY <1>3, <1>9
<1>8. StoredIn("postgis") \subseteq StoredIn("postgis")'
  <2>1. applied["postgis"] \in Nat /\ applied["postgis"] <= Len(o) /\ applied' = applied
    BY <1>4 DEF Stores
  <2>2. \A i \in 1 .. applied["postgis"] : published'.osm[i] = published.osm[i]
    BY <1>1, <1>3, <2>1
  <2>. QED
    BY <2>1, <2>2 DEF StoredIn
<1>. QED
  BY <1>5, <1>6, <1>7, <1>8

\* Without a message stored, all of that is trivially so.
LEMMA StreamStays ==
    ASSUME RequestsIInv, UNCHANGED <<published, applied, shown>>
    PROVE  /\ StoresOK'
           /\ \A j \in {"osm", "traffic"} : Elems(published[j]) \subseteq Elems(published'[j])
           /\ StoredIn("postgis") \subseteq StoredIn("postgis")'
BY DEF RequestsIInv, StoresOK, StoredIn

\* The messages of a direct request.
LEMMA OneOf ==
    ASSUME NEW ids \in IdSeqs, Len(ids) = 1
    PROVE  /\ Tail(ids) = <<>> /\ Elems(ids) = {Head(ids)} /\ ids # <<>>
<1>4. ids \in Seq(Ids)
  BY DEF IdSeqs
<1>1. ids # <<>> /\ Head(ids) = ids[1] /\ Tail(ids) \in Seq(Ids) /\ Len(Tail(ids)) = 0
  BY <1>4
<1>2. Tail(ids) = <<>>
  BY <1>1, EmptySeq
<1>3. Elems(ids) = {ids[1]}
  BY DEF Elems
<1>. QED
  BY <1>1, <1>2, <1>3

\* The next message, and what is left.
LEMMA NextMessage ==
    ASSUME NEW was \in Reqs, was.todo # <<>>
    PROVE  /\ Head(was.todo) \in Ids /\ Tail(was.todo) \in IdSeqs
           /\ was.acked \cup {Head(was.todo)} \in IdSets
<1>1. was.todo \in Seq(Ids) /\ was.acked \in SUBSET Ids
  BY DEF Reqs, IdSeqs, IdSets
<1>. QED
  BY <1>1, ElemsIn DEF IdSeqs, IdSets

LEMMA SubjectIn == ASSUME NEW kind PROVE Subject(kind) \in {"osm", "traffic"}
BY DEF Subject

LEMMA PublishAckedStep ==
    ASSUME RequestsIInv, NEW c \in Clients, PublishAcked(c)
    PROVE  RequestsIInv'
<1>1. PICK was \in Reqs : was = req[c] /\ RequestFits(was) /\ Known(was)
  BY DEF RequestsIInv
<1>2. /\ was.at = "publish" /\ was.todo # <<>>
      /\ published' = [published EXCEPT ![Subject(was.kind)] = Append(@, Head(was.todo))]
      /\ Go(c, [was EXCEPT !.acked = was.acked \cup {Head(was.todo)}, !.todo = Tail(was.todo)])
      /\ UNCHANGED <<applied, shown, asked, faults>>
  BY <1>1 DEF PublishAcked, At, Store
<1>3. PICK m \in Ids, rest \in IdSeqs, acked \in IdSets :
        /\ m = Head(was.todo) /\ rest = Tail(was.todo) /\ acked = was.acked \cup {m}
  BY <1>2, NextMessage
<1>4. PICK k \in {"osm", "traffic"} : k = Subject(was.kind)
  BY SubjectIn
<1>5. /\ StoresOK'
      /\ \A j \in {"osm", "traffic"} : Elems(published[j]) \subseteq Elems(published'[j])
      /\ m \in Elems(published'[k])
      /\ StoredIn("postgis") \subseteq StoredIn("postgis")'
  BY <1>2, <1>3, <1>4, StreamGrows
<1>6. PICK r : r = [was EXCEPT !.acked = acked, !.todo = rest]
  OBVIOUS
<1>7. /\ r \in Reqs /\ r.kind = was.kind /\ r.at = was.at /\ r.ids = was.ids /\ r.todo = rest
      /\ r.acked = acked /\ r.docs = was.docs /\ r.code = was.code /\ r.before = was.before
  <2>1. r \in Reqs
    BY <1>6 DEF Reqs
  <2>. QED
    BY <1>6, <2>1 DEF Reqs
<1>8. RequestFits(r)
  <2>1. was.kind \in Direct => OneMessage(r)
    <3>1. SUFFICES ASSUME was.kind \in Direct PROVE OneMessage(r)
      OBVIOUS
    <3>2. Len(was.ids) = 1 /\ was.todo = was.ids /\ was.acked = {}
      BY <1>1, <1>2, <3>1 DEF RequestFits, OneMessage
    <3>3. was.ids \in IdSeqs
      BY DEF Reqs
    <3>4. rest = <<>> /\ acked = Elems(was.ids)
      BY <1>3, <3>2, <3>3, OneOf
    <3>. QED
      BY <1>2, <1>7, <3>2, <3>4 DEF OneMessage
  <2>. QED
    BY <1>1, <1>2, <1>7, <2>1 DEF RequestFits
<1>9. Known(r)'
  <2>1. was.acked \subseteq Elems(published'[k])
    BY <1>1, <1>4, <1>5 DEF Known
  <2>2. r.acked \subseteq Elems(published'[Subject(r.kind)])
    BY <1>3, <1>4, <1>5, <1>7, <2>1
  <2>3. r.before \subseteq StoredIn("postgis")'
    BY <1>1, <1>5, <1>7 DEF Known
  <2>. QED
    BY <2>2, <2>3 DEF Known
<1>10. Go(c, r)
  BY <1>2, <1>3, <1>6
<1>11. asked' \in 0 .. MaxRequests /\ faults' \in 0 .. MaxFaults
  BY <1>2 DEF RequestsIInv
<1>. QED
  BY <1>5, <1>7, <1>8, <1>9, <1>10, <1>11, GoesOn

LEMMA PublishRaisesStep ==
    ASSUME RequestsIInv, NEW c \in Clients, PublishRaises(c)
    PROVE  RequestsIInv'
<1>1. PICK was \in Reqs : was = req[c] /\ RequestFits(was) /\ Known(was)
  BY DEF RequestsIInv
<1>2. /\ was.at = "publish" /\ was.todo # <<>>
      /\ \/ published' = [published EXCEPT ![Subject(was.kind)] = Append(@, Head(was.todo))]
         \/ UNCHANGED published
      /\ Raises(c, "nats", IF was.kind \in Direct THEN Answered(was, 500)
                           ELSE [was EXCEPT !.todo = Tail(was.todo)])
      /\ UNCHANGED <<applied, shown, asked>>
  BY <1>1 DEF PublishRaises, At, Store
<1>3. PICK m \in Ids, rest \in IdSeqs : m = Head(was.todo) /\ rest = Tail(was.todo)
  BY <1>2, NextMessage
<1>4. PICK k \in {"osm", "traffic"} : k = Subject(was.kind)
  BY SubjectIn
<1>5. /\ StoresOK'
      /\ \A j \in {"osm", "traffic"} : Elems(published[j]) \subseteq Elems(published'[j])
      /\ StoredIn("postgis") \subseteq StoredIn("postgis")'
  BY <1>2, <1>3, <1>4, StreamGrows, StreamStays
<1>6. ASSUME NEW r \in Reqs, Go(c, r), RequestFits(r), r.kind = was.kind, r.acked = was.acked,
             r.before = was.before, faults' \in 0 .. MaxFaults
      PROVE  RequestsIInv'
  <2>1. Known(r)'
    <3>1. r.acked \subseteq Elems(published'[Subject(r.kind)])
      BY <1>1, <1>4, <1>5, <1>6 DEF Known
    <3>2. r.before \subseteq StoredIn("postgis")'
      BY <1>1, <1>5, <1>6 DEF Known
    <3>. QED
      BY <3>1, <3>2 DEF Known
  <2>2. asked' \in 0 .. MaxRequests
    BY <1>2 DEF RequestsIInv
  <2>. QED
    BY <1>5, <1>6, <2>1, <2>2, GoesOn
<1>7. CASE was.kind \in Direct
  <2>1. PICK a : a = Answered(was, 500)
    OBVIOUS
  <2>2. a \in Reqs /\ a.at = "answered" /\ a.code = 500 /\ a.kind = was.kind /\ a.ids = was.ids
        /\ a.acked = was.acked /\ a.docs = was.docs /\ a.before = was.before
    BY <2>1, AnsweredFields DEF Codes
  <2>8. Raises(c, "nats", a) /\ "nats" \in Servers
    BY <1>2, <1>7, <2>1 DEF Servers
  <2>3. PICK r \in Reqs : Go(c, r) /\ r = [a EXCEPT !.faulted = a.faulted \cup {"nats"}]
    BY <2>2, <2>8, RaisedOn
  <2>4. /\ r.kind = was.kind /\ r.at = "answered" /\ r.acked = was.acked /\ r.before = was.before
        /\ r.ids = was.ids /\ r.code = 500 /\ "nats" \in r.faulted
    BY <2>2, <2>3 DEF Reqs
  <2>5. OneMessage(r)
    <3>1. Len(was.ids) = 1 /\ was.acked = {} /\ was.ids \in IdSeqs
      BY <1>1, <1>2, <1>7 DEF RequestFits, OneMessage, Reqs
    <3>2. Elems(was.ids) # {}
      BY <3>1, OneOf
    <3>. QED
      BY <2>4, <3>1, <3>2 DEF OneMessage
  <2>6. RequestFits(r)
    BY <1>7, <2>4, <2>5 DEF RequestFits, HasCause, Direct, Deep
  <2>7. faults' \in 0 .. MaxFaults
    BY <2>2, <2>8, RaisedOn
  <2>. QED
    BY <1>6, <2>3, <2>4, <2>6, <2>7
<1>8. CASE was.kind \notin Direct
  <2>1. PICK a : a = [was EXCEPT !.todo = rest]
    OBVIOUS
  <2>2. a \in Reqs
    BY <2>1 DEF Reqs
  <2>7. Raises(c, "nats", a) /\ "nats" \in Servers
    BY <1>2, <1>3, <1>8, <2>1 DEF Servers
  <2>3. PICK r \in Reqs : Go(c, r) /\ r = [a EXCEPT !.faulted = a.faulted \cup {"nats"}]
    BY <2>2, <2>7, RaisedOn
  <2>4. /\ r.kind = was.kind /\ r.at = was.at /\ r.acked = was.acked /\ r.before = was.before
        /\ r.docs = was.docs /\ r.code = was.code
    BY <2>1, <2>2, <2>3 DEF Reqs
  <2>5. RequestFits(r)
    BY <1>1, <1>2, <1>8, <2>4 DEF RequestFits
  <2>6. faults' \in 0 .. MaxFaults
    BY <2>2, <2>7, RaisedOn
  <2>. QED
    BY <1>6, <2>3, <2>4, <2>5, <2>6
<1>. QED
  BY <1>7, <1>8

\* The request of c goes on as r, and nothing else changes but faults.
LEMMA OnlyTheRequest ==
    ASSUME RequestsIInv, NEW c \in Clients, NEW r \in Reqs, RequestFits(r), Go(c, r),
           r.kind = req[c].kind, r.acked = req[c].acked, r.before = req[c].before,
           UNCHANGED <<storeVars, asked>>, faults' \in 0 .. MaxFaults
    PROVE  RequestsIInv'
<1>1. Known(r)
  BY DEF RequestsIInv, Known
<1>2. UNCHANGED <<published, applied>> /\ shown' \subseteq Elems(published.osm)
      /\ asked' \in 0 .. MaxRequests
  BY DEF RequestsIInv, StoresOK, storeVars
<1>. QED
  BY <1>1, <1>2, GoesOnAlone

\* It is answered.
LEMMA Responds ==
    ASSUME RequestsIInv, NEW c \in Clients, NEW code \in Codes,
           RequestFits(Answered(req[c], code)), Respond(c, code),
           UNCHANGED <<storeVars, asked, faults>>
    PROVE  RequestsIInv'
<1>1. req[c] \in Reqs /\ faults' \in 0 .. MaxFaults
  BY DEF RequestsIInv
<1>2. PICK was \in Reqs : was = req[c]
  BY <1>1
<1>3. PICK r : r = Answered(was, code)
  OBVIOUS
<1>4. r \in Reqs /\ r.kind = was.kind /\ r.acked = was.acked /\ r.before = was.before
  BY <1>3, AnsweredFields
<1>5. RequestFits(r) /\ Go(c, r)
  BY <1>2, <1>3 DEF Respond
<1>. QED
  BY <1>1, <1>2, <1>4, <1>5, OnlyTheRequest

\* A call raises, and it is answered.
LEMMA RaisesAnswered ==
    ASSUME RequestsIInv, NEW c \in Clients, NEW server \in Servers, NEW code \in Codes,
           Raises(c, server, Answered(req[c], code)), UNCHANGED <<storeVars, asked>>,
           \A r \in Reqs :
              /\ r.at = "answered" /\ r.code = code /\ server \in r.faulted
              /\ r.kind = req[c].kind /\ r.ids = req[c].ids /\ r.acked = req[c].acked
              /\ r.docs = req[c].docs /\ r.polygons = req[c].polygons
              /\ r.before = req[c].before
              => RequestFits(r)
    PROVE  RequestsIInv'
<1>1. PICK was \in Reqs : was = req[c]
  BY DEF RequestsIInv
<1>2. PICK a : a = Answered(was, code)
  OBVIOUS
<1>3. /\ a \in Reqs /\ a.at = "answered" /\ a.code = code /\ a.kind = was.kind /\ a.ids = was.ids
      /\ a.acked = was.acked /\ a.docs = was.docs /\ a.polygons = was.polygons
      /\ a.before = was.before
  BY <1>2, AnsweredFields
<1>4. Raises(c, server, a)
  BY <1>1, <1>2
<1>5. /\ faults' \in 0 .. MaxFaults
      /\ \E r \in Reqs : Go(c, r) /\ r = [a EXCEPT !.faulted = a.faulted \cup {server}]
  BY <1>3, <1>4, RaisedOn
<1>6. PICK r \in Reqs : Go(c, r) /\ r = [a EXCEPT !.faulted = a.faulted \cup {server}]
  BY <1>5
<1>7. /\ r.at = "answered" /\ r.code = code /\ server \in r.faulted
      /\ r.kind = was.kind /\ r.ids = was.ids /\ r.acked = was.acked
      /\ r.docs = was.docs /\ r.polygons = was.polygons /\ r.before = was.before
  BY <1>3, <1>6 DEF Reqs
<1>8. RequestFits(r)
  BY <1>1, <1>7
<1>. QED
  BY <1>1, <1>5, <1>6, <1>7, <1>8, OnlyTheRequest

----------------------------------------------------------------------------
(* The rest of a request that writes.                                      *)

LEMMA PublishedStep ==
    ASSUME RequestsIInv, NEW c \in Clients, Published(c)
    PROVE  RequestsIInv'
<1>1. PICK was \in Reqs : was = req[c] /\ RequestFits(was) /\ Known(was)
  BY DEF RequestsIInv
<1>2. /\ was.at = "publish" /\ was.todo = <<>> /\ was.code = 0 /\ was.docs = {}
      /\ was.kind \in {"insert", "probe", "place", "forward", "deep_reverse"}
  BY <1>1 DEF Published, At, RequestFits, StagesFor, Kinds, Direct, Deep, Reqs
<1>3. was.kind \in Direct => Len(was.ids) = 1 /\ was.acked = Elems(was.ids)
  <2>1. was.kind \in Direct => was.ids \in IdSeqs /\ OneMessage(was)
    BY <1>1, <1>2 DEF RequestFits, Reqs
  <2>. QED
    BY <1>2, <2>1, OneOf DEF OneMessage
<1>4. UNCHANGED <<storeVars, asked, faults>> /\ faults' \in 0 .. MaxFaults
  BY DEF Published, RequestsIInv
<1>5. CASE was.kind \in {"insert", "probe"}
  <2>1. PICK r : r = Answered(was, 200)
    OBVIOUS
  <2>2. r.at = "answered" /\ r.code = 200 /\ r.kind = was.kind /\ r.ids = was.ids /\ r.acked = was.acked
    BY <2>1, AnsweredFields DEF Codes
  <2>3. RequestFits(r)
    BY <1>3, <1>5, <2>2 DEF RequestFits, OneMessage, Direct
  <2>4. Respond(c, 200)
    BY <1>1, <1>5 DEF Published
  <2>. QED
    BY <1>1, <1>4, <2>1, <2>3, <2>4, Responds DEF Codes
<1>6. ASSUME NEW place \in {"show", "enrich", "rows"}, place \in StagesFor(was.kind),
             place = "show" <=> was.kind \in Direct,
             Go(c, [was EXCEPT !.at = place])
      PROVE  RequestsIInv'
  <2>1. PICK r : r = [was EXCEPT !.at = place]
    OBVIOUS
  <2>2. place \in Places
    BY DEF Places
  <2>3. r \in Reqs
    BY <2>1, <2>2 DEF Reqs
  <2>4. /\ r.at = place /\ r.kind = was.kind /\ r.ids = was.ids /\ r.todo = was.todo /\ r.acked = was.acked
        /\ r.docs = was.docs /\ r.code = was.code /\ r.before = was.before
    BY <2>1, <2>3 DEF Reqs
  <2>5. RequestFits(r)
    <3>1. was.kind \in Direct => OneMessage(r)
      BY <1>2, <1>3, <1>6, <2>4 DEF OneMessage
    <3>. QED
      BY <1>2, <1>6, <2>4, <3>1 DEF RequestFits
  <2>. QED
    BY <1>1, <1>4, <1>6, <2>1, <2>3, <2>4, <2>5, OnlyTheRequest
<1>7. CASE was.kind = "place"
  <2>1. Go(c, [was EXCEPT !.at = "show"])
    BY <1>1, <1>7 DEF Published
  <2>. QED
    BY <1>6, <1>7, <2>1 DEF StagesFor, Direct
<1>8. CASE was.kind = "forward"
  <2>1. Go(c, [was EXCEPT !.at = "enrich"])
    BY <1>1, <1>8 DEF Published
  <2>. QED
    BY <1>6, <1>8, <2>1 DEF StagesFor, Direct
<1>9. CASE was.kind = "deep_reverse"
  <2>1. Go(c, [was EXCEPT !.at = "rows"])
    BY <1>1, <1>9 DEF Published
  <2>. QED
    BY <1>6, <1>9, <2>1 DEF StagesFor, Direct
<1>. QED
  BY <1>2, <1>5, <1>7, <1>8, <1>9

LEMMA ShowStep ==
    ASSUME RequestsIInv, NEW c \in Clients, Show(c)
    PROVE  RequestsIInv'
<1>1. PICK was \in Reqs : was = req[c] /\ RequestFits(was) /\ Known(was)
  BY DEF RequestsIInv
<1>2. /\ was.at = "show" /\ was.kind = "place" /\ was.code = 0 /\ was.docs = {}
      /\ OneMessage(was)
  BY <1>1 DEF Show, At, RequestFits, StagesFor, Kinds, Direct, Deep, Reqs
<1>3. Len(was.ids) = 1 /\ was.acked = Elems(was.ids)
  BY <1>2 DEF OneMessage
<1>4. PICK r : r = Answered(was, 200)
  OBVIOUS
<1>5. /\ r \in Reqs /\ r.at = "answered" /\ r.code = 200 /\ r.kind = was.kind /\ r.ids = was.ids
      /\ r.acked = was.acked /\ r.before = was.before
  BY <1>4, AnsweredFields DEF Codes
<1>6. RequestFits(r)
  BY <1>2, <1>3, <1>5 DEF RequestFits, OneMessage, StagesFor, Direct
<1>7. Known(r) /\ Elems(was.ids) \subseteq Elems(published.osm)
  <2>1. Subject(was.kind) = "osm"
    BY <1>2 DEF Subject
  <2>. QED
    BY <1>1, <1>3, <1>5, <2>1 DEF Known
<1>8. shown' \subseteq Elems(published.osm) /\ Go(c, r) /\ UNCHANGED <<published, applied, asked, faults>>
  BY <1>1, <1>4, <1>7 DEF Show, RequestsIInv, StoresOK, Respond
<1>9. asked' \in 0 .. MaxRequests /\ faults' \in 0 .. MaxFaults
  BY <1>8 DEF RequestsIInv
<1>. QED
  BY <1>5, <1>6, <1>7, <1>8, <1>9, GoesOnAlone

LEMMA ShowRaisesStep ==
    ASSUME RequestsIInv, NEW c \in Clients, ShowRaises(c)
    PROVE  RequestsIInv'
<1>1. PICK was \in Reqs : was = req[c] /\ RequestFits(was) /\ Known(was)
  BY DEF RequestsIInv
<1>2. was.kind = "place" /\ OneMessage(was) /\ was.at = "show"
  BY <1>1 DEF ShowRaises, At, RequestFits, StagesFor, Kinds, Direct, Deep, Reqs
<1>3. Len(was.ids) = 1 /\ was.acked = Elems(was.ids)
  BY <1>2 DEF OneMessage
<1>4. ASSUME NEW r \in Reqs, r.at = "answered", r.code = 200, r.kind = was.kind, r.ids = was.ids,
             r.acked = was.acked
      PROVE  RequestFits(r)
  BY <1>2, <1>3, <1>4 DEF RequestFits, OneMessage, StagesFor, Direct
<1>5. /\ Raises(c, "redis", Answered(was, 200)) /\ UNCHANGED <<storeVars, asked>>
      /\ "redis" \in Servers /\ 200 \in Codes
  BY <1>1 DEF ShowRaises, Servers, Codes
<1>. QED
  BY <1>1, <1>4, <1>5, RaisesAnswered

LEMMA EnrichStep ==
    ASSUME RequestsIInv, NEW c \in Clients, Enrich(c)
    PROVE  RequestsIInv'
<1>1. PICK was \in Reqs : was = req[c] /\ RequestFits(was) /\ Known(was)
  BY DEF RequestsIInv
<1>2. was.kind = "forward" /\ was.at = "enrich"
  BY <1>1 DEF Enrich, At, RequestFits, StagesFor, Kinds, Direct, Deep, Reqs
<1>3. ASSUME NEW r, r.at = "answered", r.code = 200, r.kind = was.kind
      PROVE  RequestFits(r)
  BY <1>2, <1>3 DEF RequestFits, StagesFor, Direct
<1>4. "postgis" \in Servers /\ 200 \in Codes /\ UNCHANGED <<storeVars, asked>>
  BY DEF Enrich, Servers, Codes
<1>5. CASE Respond(c, 200) /\ UNCHANGED faults
  <2>1. RequestFits(Answered(was, 200))
    BY <1>3, <1>4, AnsweredFields
  <2>. QED
    BY <1>1, <1>4, <1>5, <2>1, Responds
<1>6. CASE Raises(c, "postgis", Answered(was, 200))
  BY <1>1, <1>3, <1>4, <1>6, RaisesAnswered
<1>. QED
  BY <1>1, <1>5, <1>6 DEF Enrich

----------------------------------------------------------------------------
(* Requests that read.                                                     *)

LEMMA ReadsTyped ==
    ASSUME RequestsIInv
    PROVE  StoredIn("es") \in IdSets /\ StoredIn("postgis") \in IdSets
<1>1. PICK o \in Seq(Ids) : published.osm = o
  BY DEF RequestsIInv, StoresOK
<1>2. Len(o) \in Nat
  OBVIOUS
<1>3. ASSUME NEW x \in Stores PROVE StoredIn(x) \subseteq Ids
  <2>1. applied[x] \in Nat /\ applied[x] <= Len(o)
    BY <1>1, <1>3 DEF RequestsIInv, StoresOK
  <2>2. \A i \in 1 .. applied[x] : o[i] \in Ids
    BY <1>2, <2>1
  <2>. QED
    BY <1>1, <2>2 DEF StoredIn
<1>. QED
  BY <1>3 DEF Stores, IdSets

LEMMA ReadRowsStep ==
    ASSUME RequestsIInv, NEW c \in Clients, ReadRows(c)
    PROVE  RequestsIInv'
<1>1. PICK was \in Reqs : was = req[c] /\ RequestFits(was) /\ Known(was)
  BY DEF RequestsIInv
<1>2. /\ was.at = "rows" /\ was.kind \in {"reverse", "deep_reverse"} /\ was.code = 0 /\ was.docs = {}
  BY <1>1 DEF ReadRows, At, RequestFits, StagesFor, Kinds, Direct, Deep, Reqs
<1>3. PICK rows \in PolygonSets : rows = Polygons \intersect StoredIn("postgis")
  BY DEF PolygonSets
<1>4. PICK r : r = [was EXCEPT !.at = "docs", !.rows = rows]
  OBVIOUS
<1>5. r \in Reqs
  <2>1. "docs" \in Places
    BY DEF Places
  <2>. QED
    BY <1>4, <2>1 DEF Reqs
<1>6. /\ r.at = "docs" /\ r.rows = rows /\ r.kind = was.kind /\ r.acked = was.acked
      /\ r.before = was.before /\ r.docs = was.docs /\ r.code = was.code
  BY <1>4, <1>5 DEF Reqs
<1>7. was.before \subseteq rows
  BY <1>1, <1>3 DEF Known, Reqs, PolygonSets
<1>8. RequestFits(r)
  BY <1>2, <1>6, <1>7 DEF RequestFits, StagesFor, Direct
<1>9. Go(c, r) /\ UNCHANGED <<storeVars, asked>> /\ faults' \in 0 .. MaxFaults
  BY <1>1, <1>3, <1>4 DEF ReadRows, RequestsIInv
<1>. QED
  BY <1>1, <1>5, <1>6, <1>8, <1>9, OnlyTheRequest

LEMMA RowsRaiseStep ==
    ASSUME RequestsIInv, NEW c \in Clients, RowsRaise(c)
    PROVE  RequestsIInv'
<1>1. PICK was \in Reqs : was = req[c] /\ RequestFits(was) /\ Known(was)
  BY DEF RequestsIInv
<1>2. was.at = "rows" /\ was.kind \in {"reverse", "deep_reverse"}
  BY <1>1 DEF RowsRaise, At, RequestFits, StagesFor, Kinds, Direct, Deep, Reqs
<1>3. PICK code \in Codes : code = IF was.kind = "reverse" THEN 500 ELSE 200
  BY DEF Codes
<1>4. Raises(c, "postgis", Answered(was, code)) /\ UNCHANGED <<storeVars, asked>>
  BY <1>1, <1>3 DEF RowsRaise
<1>5. ASSUME NEW r, r.at = "answered", r.code = code, "postgis" \in r.faulted,
             r.kind = was.kind
      PROVE  RequestFits(r)
  <2>1. r.code # 200 => r.kind = "reverse"
    BY <1>2, <1>3, <1>5
  <2>2. r.code # 200 => HasCause(r)
    BY <1>5, <2>1 DEF HasCause, Direct, Deep
  <2>3. code # 0
    BY <1>3
  <2>. QED
    BY <1>2, <1>5, <2>2, <2>3 DEF RequestFits, Direct
<1>6. "postgis" \in Servers
  BY DEF Servers
<1>. QED
  BY <1>1, <1>4, <1>5, <1>6, RaisesAnswered

LEMMA SortedShown ==
    ASSUME NEW ps \in PolygonSets, NEW docs, NEW s \in Sorted(ps, docs)
    PROVE  /\ s \in Orders /\ Elems(s) = ps
           /\ \A i, j \in DOMAIN s :
                 i < j /\ {s[i], s[j]} \subseteq docs => AreaOf[s[i]] <= AreaOf[s[j]]
<1>1. s \in [1 .. Cardinality(ps) -> ps] /\ Elems(s) = ps
      /\ \A i, j \in DOMAIN s : i < j => Before(s[i], s[j], docs)
  BY DEF Sorted
<1>2. s \in Orders
  BY <1>1 DEF Orders, PolygonSets
<1>3. ASSUME NEW i \in DOMAIN s, NEW j \in DOMAIN s, i < j, {s[i], s[j]} \subseteq docs
      PROVE  AreaOf[s[i]] <= AreaOf[s[j]]
  <2>1. Before(s[i], s[j], docs)
    BY <1>1, <1>3
  <2>2. s[i] \in Polygons /\ s[j] \in Polygons
    BY <1>1 DEF PolygonSets
  <2>3. AreaOf[s[i]] \in Nat /\ AreaOf[s[j]] \in Nat
    BY <2>2, RequestsAssumption
  <2>4. PICK a \in Nat, b \in Nat : a = AreaOf[s[i]] /\ b = AreaOf[s[j]]
    BY <2>3
  <2>5. a < b \/ a = b
    BY <1>3, <2>1, <2>4 DEF Before
  <2>. QED
    BY <2>4, <2>5
<1>. QED
  BY <1>1, <1>2, <1>3

LEMMA ReadDocsStep ==
    ASSUME RequestsIInv, NEW c \in Clients, ReadDocs(c)
    PROVE  RequestsIInv'
<1>1. PICK was \in Reqs : was = req[c] /\ RequestFits(was) /\ Known(was)
  BY DEF RequestsIInv
<1>2. /\ was.at = "docs" /\ was.kind \in {"reverse", "deep_reverse"} /\ was.before \subseteq was.rows
  BY <1>1 DEF ReadDocs, At, RequestFits, StagesFor, Kinds, Direct, Deep, Reqs
<1>3. PICK docs \in IdSets : docs = StoredIn("es")
  BY ReadsTyped
<1>4. PICK d : d = [was EXCEPT !.docs = docs]
  OBVIOUS
<1>5. d \in Reqs /\ d.rows = was.rows /\ d.kind = was.kind /\ d.acked = was.acked
      /\ d.before = was.before /\ d.docs = docs
  <2>1. d \in Reqs
    BY <1>4 DEF Reqs
  <2>. QED
    BY <1>4, <2>1 DEF Reqs
<1>6. PICK r \in Joined(d, docs) : Go(c, Answered(r, 200))
  BY <1>1, <1>3, <1>4 DEF ReadDocs
<1>7. PICK s \in Sorted(was.rows, docs) : r = [d EXCEPT !.polygons = s]
  BY <1>5, <1>6 DEF Joined
<1>8. was.rows \in PolygonSets
  BY DEF Reqs
<1>9. /\ s \in Orders /\ Elems(s) = was.rows
      /\ \A i, j \in DOMAIN s :
            i < j /\ {s[i], s[j]} \subseteq docs => AreaOf[s[i]] <= AreaOf[s[j]]
  BY <1>7, <1>8, SortedShown
<1>10. r \in Reqs /\ r.polygons = s /\ r.kind = was.kind /\ r.acked = was.acked
       /\ r.before = was.before /\ r.docs = docs
  <2>1. r \in Reqs
    BY <1>5, <1>7, <1>9 DEF Reqs
  <2>. QED
    BY <1>5, <1>7, <2>1 DEF Reqs
<1>11. PICK a : a = Answered(r, 200)
  OBVIOUS
<1>12. /\ a \in Reqs /\ a.at = "answered" /\ a.code = 200 /\ a.polygons = s /\ a.kind = was.kind
       /\ a.acked = was.acked /\ a.before = was.before /\ a.docs = docs
  BY <1>10, <1>11, AnsweredFields DEF Codes
<1>13. ShowsAll(a)
  BY <1>2, <1>9, <1>12 DEF ShowsAll
<1>14. RequestFits(a)
  BY <1>2, <1>12, <1>13 DEF RequestFits, Direct
<1>15. Go(c, a) /\ UNCHANGED <<storeVars, asked>> /\ faults' \in 0 .. MaxFaults
  BY <1>6, <1>11 DEF ReadDocs, RequestsIInv
<1>. QED
  BY <1>1, <1>12, <1>14, <1>15, OnlyTheRequest

LEMMA DocsRaiseStep ==
    ASSUME RequestsIInv, NEW c \in Clients, DocsRaise(c)
    PROVE  RequestsIInv'
<1>1. PICK was \in Reqs : was = req[c] /\ RequestFits(was) /\ Known(was)
  BY DEF RequestsIInv
<1>2. /\ was.at = "docs" /\ was.kind \in {"reverse", "deep_reverse"} /\ was.before \subseteq was.rows
      /\ was.docs = {}
  BY <1>1 DEF DocsRaise, At, RequestFits, StagesFor, Kinds, Direct, Deep, Reqs
<1>3. PICK j \in Joined(was, {}) : Raises(c, "es", Answered(j, 200))
  BY <1>1 DEF DocsRaise
<1>4. PICK s \in Sorted(was.rows, {}) : j = [was EXCEPT !.polygons = s]
  BY <1>3 DEF Joined
<1>5. was.rows \in PolygonSets
  BY DEF Reqs
<1>6. s \in Orders /\ Elems(s) = was.rows
  BY <1>4, <1>5, SortedShown
<1>7. j \in Reqs /\ j.polygons = s /\ j.kind = was.kind /\ j.acked = was.acked
      /\ j.before = was.before /\ j.docs = {}
  <2>1. j \in Reqs
    BY <1>4, <1>6 DEF Reqs
  <2>. QED
    BY <1>2, <1>4, <2>1 DEF Reqs
<1>8. PICK a : a = Answered(j, 200)
  OBVIOUS
<1>9. /\ a \in Reqs /\ a.at = "answered" /\ a.code = 200 /\ a.polygons = s /\ a.kind = was.kind
      /\ a.acked = was.acked /\ a.before = was.before /\ a.docs = {}
  BY <1>7, <1>8, AnsweredFields DEF Codes
<1>10. /\ faults' \in 0 .. MaxFaults
       /\ \E r \in Reqs : Go(c, r) /\ r = [a EXCEPT !.faulted = a.faulted \cup {"es"}]
  BY <1>3, <1>8, <1>9, RaisedOn DEF Servers
<1>11. PICK r \in Reqs : Go(c, r) /\ r = [a EXCEPT !.faulted = a.faulted \cup {"es"}]
  BY <1>10
<1>12. /\ r.at = "answered" /\ r.code = 200 /\ r.polygons = s /\ r.kind = was.kind
       /\ r.acked = was.acked /\ r.before = was.before /\ r.docs = {}
  BY <1>9, <1>11 DEF Reqs
<1>13. ShowsAll(r)
  BY <1>2, <1>6, <1>12 DEF ShowsAll
<1>14. RequestFits(r)
  BY <1>2, <1>12, <1>13 DEF RequestFits, Direct
<1>15. UNCHANGED <<storeVars, asked>>
  BY DEF DocsRaise
<1>16. faults' \in 0 .. MaxFaults /\ Go(c, r)
  BY <1>10, <1>11
<1>. QED
  BY <1>1, <1>12, <1>14, <1>15, <1>16, OnlyTheRequest

LEMMA LocateStep ==
    ASSUME RequestsIInv, NEW c \in Clients, Locate(c)
    PROVE  RequestsIInv'
<1>1. PICK was \in Reqs : was = req[c] /\ RequestFits(was) /\ Known(was)
  BY DEF RequestsIInv
<1>2. was.at = "locate" /\ was.kind = "edge" /\ was.code = 0 /\ was.docs = {}
  BY <1>1 DEF Locate, At, RequestFits, StagesFor, Kinds, Direct, Deep, Reqs
<1>3. UNCHANGED <<storeVars, asked>> /\ "valhalla" \in Servers /\ 502 \in Codes
  BY DEF Locate, Servers, Codes
<1>4. CASE Go(c, [was EXCEPT !.at = "speed"]) /\ UNCHANGED faults
  <2>1. PICK r : r = [was EXCEPT !.at = "speed"]
    OBVIOUS
  <2>2. r \in Reqs
    <3>1. "speed" \in Places
      BY DEF Places
    <3>. QED
      BY <2>1, <3>1 DEF Reqs
  <2>3. /\ r.at = "speed" /\ r.kind = was.kind /\ r.acked = was.acked /\ r.before = was.before
        /\ r.docs = was.docs /\ r.code = was.code
    BY <2>1, <2>2 DEF Reqs
  <2>4. RequestFits(r)
    BY <1>2, <2>3 DEF RequestFits, StagesFor, Direct
  <2>5. faults' \in 0 .. MaxFaults
    BY <1>4 DEF RequestsIInv
  <2>. QED
    BY <1>1, <1>3, <1>4, <2>1, <2>2, <2>3, <2>4, <2>5, OnlyTheRequest
<1>5. CASE Raises(c, "valhalla", Answered(was, 502))
  <2>1. ASSUME NEW r, r.at = "answered", r.code = 502, r.kind = "edge", "valhalla" \in r.faulted
        PROVE  RequestFits(r)
    BY <2>1 DEF RequestFits, HasCause, Direct, Deep
  <2>. QED
    BY <1>1, <1>2, <1>3, <1>5, <2>1, RaisesAnswered
<1>. QED
  BY <1>1, <1>4, <1>5 DEF Locate

LEMMA ReadSpeedStep ==
    ASSUME RequestsIInv, NEW c \in Clients, ReadSpeed(c)
    PROVE  RequestsIInv'
<1>1. PICK was \in Reqs : was = req[c] /\ RequestFits(was) /\ Known(was)
  BY DEF RequestsIInv
<1>2. was.at = "speed" /\ was.kind = "edge"
  BY <1>1 DEF ReadSpeed, At, RequestFits, StagesFor, Kinds, Direct, Deep, Reqs
<1>3. UNCHANGED <<storeVars, asked>> /\ "redis" \in Servers /\ {200, 500} \subseteq Codes
  BY DEF ReadSpeed, Servers, Codes
<1>4. CASE Respond(c, 200) /\ UNCHANGED faults
  <2>1. ASSUME NEW r, r.at = "answered", r.code = 200, r.kind = "edge"
        PROVE  RequestFits(r)
    BY <2>1 DEF RequestFits, Direct
  <2>2. RequestFits(Answered(was, 200))
    BY <1>2, <1>3, <2>1, AnsweredFields
  <2>. QED
    BY <1>1, <1>3, <1>4, <2>2, Responds
<1>5. CASE Raises(c, "redis", Answered(was, 500))
  <2>1. ASSUME NEW r, r.at = "answered", r.code = 500, r.kind = "edge", "redis" \in r.faulted
        PROVE  RequestFits(r)
    BY <2>1 DEF RequestFits, HasCause, Direct, Deep
  <2>. QED
    BY <1>1, <1>2, <1>3, <1>5, <2>1, RaisesAnswered
<1>. QED
  BY <1>1, <1>4, <1>5 DEF ReadSpeed

LEMMA HealthStep ==
    ASSUME RequestsIInv, NEW c \in Clients, Health(c)
    PROVE  RequestsIInv'
<1>1. PICK was \in Reqs : was = req[c] /\ RequestFits(was) /\ Known(was)
  BY DEF RequestsIInv
<1>2. was.at = "health" /\ was.kind = "health"
  BY <1>1 DEF Health, At, RequestFits, StagesFor, Kinds, Direct, Deep, Reqs
<1>3. PICK down \in SUBSET {"es", "postgis", "nats", "redis"} :
        /\ faults + Cardinality(down) <= MaxFaults /\ faults' = faults + Cardinality(down)
        /\ Go(c, [Answered(was, IF down \intersect Stores = {} THEN 200 ELSE 503)
                    EXCEPT !.faulted = down])
  BY <1>1 DEF Health
<1>4. faults' \in 0 .. MaxFaults
  <2>1. IsFiniteSet({"es", "postgis", "nats", "redis"})
    <3>1. IsFiniteSet({"es"}) /\ IsFiniteSet({"postgis"}) /\ IsFiniteSet({"nats"}) /\ IsFiniteSet({"redis"})
      BY FS_Singleton
    <3>2. IsFiniteSet({"es"} \cup {"postgis"}) /\ IsFiniteSet({"nats"} \cup {"redis"})
      BY <3>1, FS_Union
    <3>3. IsFiniteSet(({"es"} \cup {"postgis"}) \cup ({"nats"} \cup {"redis"}))
      BY <3>2, FS_Union
    <3>4. ({"es"} \cup {"postgis"}) \cup ({"nats"} \cup {"redis"}) = {"es", "postgis", "nats", "redis"}
      OBVIOUS
    <3>. QED
      BY <3>3, <3>4
  <2>2. Cardinality(down) \in Nat
    BY <2>1, FS_Subset, FS_CardinalityType
  <2>. QED
    BY <1>3, <2>2, RequestsAssumption DEF RequestsIInv
<1>5. PICK code \in Codes : code = IF down \intersect Stores = {} THEN 200 ELSE 503
  BY DEF Codes
<1>6. PICK a : a = Answered(was, code)
  OBVIOUS
<1>7. a \in Reqs /\ a.at = "answered" /\ a.code = code /\ a.kind = was.kind /\ a.acked = was.acked
      /\ a.before = was.before
  BY <1>6, AnsweredFields
<1>8. PICK r : r = [a EXCEPT !.faulted = down]
  OBVIOUS
<1>9. r \in Reqs
  <2>1. down \in ServerSets
    BY DEF ServerSets, Servers
  <2>. QED
    BY <1>7, <1>8, <2>1 DEF Reqs
<1>10. /\ r.at = "answered" /\ r.code = code /\ r.kind = was.kind /\ r.acked = was.acked
       /\ r.before = was.before /\ r.faulted = down
  BY <1>7, <1>8, <1>9 DEF Reqs
<1>11. RequestFits(r)
  BY <1>2, <1>5, <1>10 DEF RequestFits, HasCause, Direct, Deep
<1>12. Go(c, r) /\ UNCHANGED <<storeVars, asked>>
  BY <1>3, <1>5, <1>6, <1>8 DEF Health
<1>. QED
  BY <1>1, <1>4, <1>9, <1>10, <1>11, <1>12, OnlyTheRequest

LEMMA ApplyStep ==
    ASSUME RequestsIInv, NEW x \in Stores, Apply(x)
    PROVE  RequestsIInv'
<1>1. /\ published \in [osm : Seq(Ids), traffic : Seq(Ids)]
      /\ applied \in [Stores -> Nat] /\ \A y \in Stores : applied[y] <= Len(published.osm)
  BY DEF RequestsIInv, StoresOK
<1>2. /\ applied[x] < Len(published.osm) /\ applied' = [applied EXCEPT ![x] = applied[x] + 1]
      /\ UNCHANGED <<published, shown, req, asked, faults>>
  BY DEF Apply
<1>3. PICK n \in Nat : n = Len(published.osm)
  BY <1>1
<1>4. applied' \in [Stores -> Nat] /\ \A y \in Stores : applied'[y] <= n /\ applied[y] <= applied'[y]
  BY <1>1, <1>2, <1>3
<1>5. StoresOK'
  BY <1>1, <1>2, <1>3, <1>4 DEF StoresOK, RequestsIInv
<1>6. StoredIn("postgis") \subseteq StoredIn("postgis")'
  <2>1. "postgis" \in Stores
    BY DEF Stores
  <2>2. PICK m1 \in Nat, m2 \in Nat :
          m1 = applied["postgis"] /\ m2 = applied'["postgis"] /\ m1 <= m2
    BY <1>1, <1>4, <2>1
  <2>. QED
    BY <1>2, <2>2 DEF StoredIn
<1>7. ASSUME NEW c \in Clients PROVE RequestFits(req[c])' /\ Known(req[c])'
  BY <1>2, <1>6, <1>7 DEF RequestsIInv, Known
<1>. QED
  BY <1>2, <1>5, <1>7 DEF RequestsIInv

----------------------------------------------------------------------------
LEMMA NextRequests == RequestsIInv /\ [RequestsNext]_requestVars => RequestsIInv'
<1>. SUFFICES ASSUME RequestsIInv, [RequestsNext]_requestVars PROVE RequestsIInv'
  OBVIOUS
<1>1. ASSUME NEW c \in Clients, Serve(c) PROVE RequestsIInv'
  BY <1>1, AskGoogleStep, GoogleFailsStep, PublishAckedStep, PublishRaisesStep, PublishedStep,
     ShowStep, ShowRaisesStep, EnrichStep, ReadRowsStep, RowsRaiseStep, ReadDocsStep,
     DocsRaiseStep, LocateStep, ReadSpeedStep, HealthStep DEF Serve
<1>2. CASE UNCHANGED requestVars
  BY <1>2 DEF requestVars, RequestsIInv, StoresOK, StoredIn, Known
<1>. QED
  BY <1>1, <1>2, ReceiveStep, ApplyStep DEF RequestsNext

LEMMA RequestsInvFollows == RequestsIInv => RequestsInv
<1>. SUFFICES ASSUME RequestsIInv PROVE RequestsInv
  OBVIOUS
<1>1. RequestsTypeOK
  <2>1. ASSUME NEW x \in Stores PROVE applied[x] \in 0 .. Len(published.osm)
    <3>1. Len(published.osm) \in Nat /\ applied[x] \in Nat /\ applied[x] <= Len(published.osm)
      BY <2>1 DEF RequestsIInv, StoresOK
    <3>. QED
      BY <3>1
  <2>2. ASSUME NEW c \in Clients
        PROVE  /\ req[c].kind \in Kinds /\ req[c].code \in {0, 200, 500, 502, 503}
               /\ req[c].code # 0 <=> At(c, "answered")
    <3>1. req[c] \in Reqs /\ RequestFits(req[c])
      BY <2>2 DEF RequestsIInv
    <3>2. req[c].kind \in Kinds /\ req[c].code \in {0, 200, 500, 502, 503}
      BY <3>1 DEF Reqs, Codes
    <3>. QED
      BY <3>1, <3>2 DEF RequestFits, At
  <2>. QED
    BY <2>1, <2>2 DEF RequestsTypeOK, RequestsIInv
<1>2. TellsTheTruth
  <2>1. ASSUME NEW c \in Clients
        PROVE  /\ req[c].acked \subseteq Elems(published[Subject(req[c].kind)])
               /\ At(c, "answered") /\ req[c].kind \in Direct =>
                     (req[c].code = 200 <=> req[c].acked = Elems(req[c].ids))
    BY <2>1 DEF RequestsIInv, Known, RequestFits, OneMessage, At
  <2>. QED
    BY <2>1 DEF TellsTheTruth
<1>3. FailsForCause
  BY DEF RequestsIInv, RequestFits, FailsForCause, HasCause, At
<1>4. IndexedIsShown
  BY DEF RequestsIInv, RequestFits, IndexedIsShown, ShowsAll, At
<1>. QED
  BY <1>1, <1>2, <1>3, <1>4 DEF RequestsInv, RequestsIInv, StoresOK

(* A request that writes tells the truth about what the stream stored, no  *)
(* request fails by a server it can do without, autocomplete shows nothing *)
(* that is not in the stream, and /reverse shows every polygon that both   *)
(* inserters had applied, the named ones by area: for any clients, any     *)
(* polygons and answers of Google, and any calls that raise.               *)
THEOREM RequestsInvariant == RequestsSpec => []RequestsInv
<1>1. RequestsSpec => []RequestsIInv
  BY InitRequests, NextRequests, PTL DEF RequestsSpec
<1>. QED
  BY <1>1, RequestsInvFollows, PTL
================================================================================
