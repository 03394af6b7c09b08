------------------------ MODULE Administration_proofs ------------------------
(***************************************************************************)
(* What is metered and invoiced, and who may see to it.  For any events,   *)
(* flushers and batch size: an event of UsagePipeline is in one place and  *)
(* never billed twice, the rollups never run ahead of the live counters,   *)
(* and the pipeline implements UsageLedger.  For any tenants besides:      *)
(* billing runs over the pipeline, the roster of admins, and the quotas    *)
(* projected to the gateways.                                              *)
(***************************************************************************)
EXTENDS Billing, AdminRoster, QuotaProjection, Sums_proofs

----------------------------------------------------------------------------
(* Metering.                                                               *)

Elements(s) == {s[i] : i \in 1 .. Len(s)}
Distinct(s) == \A i, j \in 1 .. Len(s) : s[i] = s[j] => i = j

(* Appending an element that is not in a sequence.                         *)
LEMMA AppendFacts ==
    ASSUME NEW S, NEW s \in Seq(S), NEW e \in S
    PROVE  /\ Append(s, e) \in Seq(S)
           /\ Elements(Append(s, e)) = Elements(s) \cup {e}
           /\ Distinct(s) /\ e \notin Elements(s) => Distinct(Append(s, e))
<1> DEFINE t == Append(s, e)
<1>1. /\ t \in Seq(S) /\ Len(t) = Len(s) + 1 /\ Len(s) \in Nat
      /\ t[Len(s) + 1] = e
      /\ \A i \in 1 .. Len(s) : t[i] = s[i]
  OBVIOUS
<1>2. 1 .. Len(t) = (1 .. Len(s)) \cup {Len(s) + 1}
  BY <1>1
<1> HIDE DEF t
<1>3. Elements(t) = Elements(s) \cup {e}
  <2>1. ASSUME NEW x \in Elements(t) PROVE x \in Elements(s) \cup {e}
    BY <1>1, <1>2 DEF Elements
  <2>2. ASSUME NEW x \in Elements(s) PROVE x \in Elements(t)
    <3>1. PICK i \in 1 .. Len(s) : x = s[i]
      BY DEF Elements
    <3>2. i \in 1 .. Len(t) /\ t[i] = x
      BY <1>1, <1>2, <3>1
    <3>. QED
      BY <3>2 DEF Elements
  <2>3. e \in Elements(t)
    BY <1>1, <1>2 DEF Elements
  <2>. QED
    BY <2>1, <2>2, <2>3
<1>4. Distinct(s) /\ e \notin Elements(s) => Distinct(t)
  BY <1>1, <1>2 DEF Distinct, Elements
<1>. QED
  BY <1>1, <1>3, <1>4 DEF t

(* Removing the head of a sequence without repetitions.                    *)
LEMMA TailFacts ==
    ASSUME NEW S, NEW s \in Seq(S), s # <<>>, Distinct(s)
    PROVE  /\ Head(s) \in Elements(s)
           /\ Head(s) \in S
           /\ Tail(s) \in Seq(S)
           /\ Elements(Tail(s)) = Elements(s) \ {Head(s)}
           /\ Distinct(Tail(s))
<1> DEFINE t == Tail(s)
<1>1. /\ t \in Seq(S) /\ Len(s) \in Nat \ {0} /\ Len(t) = Len(s) - 1
      /\ Head(s) = s[1] /\ s[1] \in S
      /\ \A i \in 1 .. Len(t) : t[i] = s[i + 1]
  OBVIOUS
<1> HIDE DEF t
<1>2. Head(s) \in Elements(s)
  BY <1>1 DEF Elements
<1>3. ASSUME NEW x \in Elements(t) PROVE x \in Elements(s) \ {Head(s)}
  <2>1. PICK i \in 1 .. Len(t) : x = t[i]
    BY DEF Elements
  <2>2. i + 1 \in 1 .. Len(s) /\ 1 \in 1 .. Len(s) /\ x = s[i + 1] /\ i + 1 # 1
    BY <1>1, <2>1
  <2>. QED
    BY <1>1, <2>2 DEF Elements, Distinct
<1>4. ASSUME NEW x \in Elements(s) \ {Head(s)} PROVE x \in Elements(t)
  <2>1. PICK i \in 1 .. Len(s) : x = s[i]
    BY DEF Elements
  <2>2. i # 1
    BY <1>1, <2>1
  <2>3. i - 1 \in 1 .. Len(t) /\ t[i - 1] = x
    BY <1>1, <2>1, <2>2
  <2>. QED
    BY <2>3 DEF Elements
<1>5. Distinct(t)
  <2> SUFFICES ASSUME NEW i \in 1 .. Len(t), NEW j \in 1 .. Len(t), t[i] = t[j]
               PROVE  i = j
    BY DEF Distinct
  <2>1. i + 1 \in 1 .. Len(s) /\ j + 1 \in 1 .. Len(s) /\ s[i + 1] = s[j + 1]
    BY <1>1
  <2>. QED
    BY <2>1 DEF Distinct
<1>6. Elements(t) = Elements(s) \ {Head(s)}
  BY <1>3, <1>4
<1>. QED
  BY <1>1, <1>2, <1>5, <1>6 DEF t

(* The queue's part of OnePlace in terms of the two operators above.       *)
LEMMA BufferFacts ==
    /\ Buffered = Elements(buffer)
    /\ OnePlace => Distinct(buffer)
BY DEF Buffered, Elements, Distinct, OnePlace

(* What a push and a pop do to the set of queued events.                   *)
LEMMA PushFacts ==
    ASSUME PipelineTypeOK, OnePlace, NEW e \in Events, PushEvent(e), e \notin Buffered
    PROVE  Buffered' = Buffered \cup {e} /\ Distinct(buffer')
<1>1. buffer \in Seq(Events) /\ buffer' = Append(buffer, e)
  BY DEF PushEvent, PipelineTypeOK
<1>2. Buffered = Elements(buffer) /\ Buffered' = Elements(buffer')
  BY DEF Buffered, Elements
<1>3. Distinct(buffer) /\ e \notin Elements(buffer)
  BY <1>2, BufferFacts
<1>. QED
  BY <1>1, <1>2, <1>3, AppendFacts

LEMMA PopFacts ==
    ASSUME PipelineTypeOK, OnePlace, NEW f \in Flushers, Pop(f)
    PROVE  /\ Head(buffer) \in Buffered /\ Head(buffer) \in Events
           /\ Buffered' = Buffered \ {Head(buffer)}
           /\ Distinct(buffer')
<1>1. buffer \in Seq(Events) /\ buffer # <<>> /\ buffer' = Tail(buffer)
  BY DEF Pop, PipelineTypeOK
<1>2. Buffered = Elements(buffer) /\ Buffered' = Elements(buffer')
  BY DEF Buffered, Elements
<1>3. Distinct(buffer)
  BY BufferFacts
<1>. QED
  BY <1>1, <1>2, <1>3, TailFacts

LEMMA InitPipelineInv == PipelineInit => PipelineInv
<1> SUFFICES ASSUME PipelineInit PROVE PipelineInv
  OBVIOUS
<1> USE UsagePipelineAssumption DEF PipelineInit
<1>1. PipelineTypeOK
  BY DEF PipelineTypeOK, Stages
<1>2. Buffered = {}
  BY DEF Buffered
<1>3. OnePlace
  BY <1>2 DEF OnePlace, InFlight
<1>4. Conserved
  BY <1>2 DEF Conserved, InFlight
<1>. QED
  BY <1>1, <1>3, <1>4 DEF PipelineInv

LEMMA NextPipelineTypeOK == PipelineInv /\ [PipelineNext]_pipelineVars => PipelineTypeOK'
<1> SUFFICES ASSUME PipelineInv, [PipelineNext]_pipelineVars PROVE PipelineTypeOK'
  OBVIOUS
<1> USE UsagePipelineAssumption
<1>0. PipelineTypeOK /\ OnePlace
  BY DEF PipelineInv
<1>1. ASSUME NEW e \in Events, Record(e) PROVE PipelineTypeOK'
  <2>0. /\ <<TenantOfEvent(e), PeriodOf[e]>> \in (Tenants \cup Keys) \X Periods
        /\ <<KeyOf[e], PeriodOf[e]>> \in (Tenants \cup Keys) \X Periods
        /\ MilliOf[e] \in Nat
    BY DEF TenantOfEvent
  <2>1. CASE IncrTenant(e)
    BY <1>0, <2>0, <2>1 DEF IncrTenant, Count, PipelineTypeOK, Stages
  <2>2. CASE IncrKey(e)
    BY <1>0, <2>0, <2>2 DEF IncrKey, Count, PipelineTypeOK, Stages
  <2>3. CASE PushEvent(e)
    <3>1. buffer' \in Seq(Events)
      BY <1>0, <2>3, AppendFacts DEF PushEvent, PipelineTypeOK
    <3>. QED
      BY <1>0, <2>3, <3>1 DEF PushEvent, PipelineTypeOK, Stages
  <2>. QED
    BY <1>1, <2>1, <2>2, <2>3 DEF Record
<1>2. ASSUME NEW e \in Events, RecordFails(e) PROVE PipelineTypeOK'
  BY <1>0, <1>2 DEF RecordFails, PipelineTypeOK, Stages
<1>3. ASSUME NEW f \in Flushers, StartFlush(f) PROVE PipelineTypeOK'
  BY <1>0, <1>3 DEF StartFlush, PipelineTypeOK
<1>4. ASSUME NEW f \in Flushers, Pop(f) PROVE PipelineTypeOK'
  <2>1. Head(buffer) \in Events /\ Tail(buffer) \in Seq(Events)
    BY <1>0, <1>4, TailFacts, BufferFacts DEF Pop, PipelineTypeOK
  <2>. QED
    BY <1>0, <1>4, <2>1 DEF Pop, PipelineTypeOK
<1>5. ASSUME NEW f \in Flushers, Drained(f) PROVE PipelineTypeOK'
  BY <1>0, <1>5 DEF Drained, PipelineTypeOK
<1>6. ASSUME NEW f \in Flushers, Commit(f) PROVE PipelineTypeOK'
  BY <1>0, <1>6 DEF Commit, PipelineTypeOK
<1>7. ASSUME NEW f \in Flushers, Abort(f) PROVE PipelineTypeOK'
  BY <1>0, <1>7 DEF Abort, PipelineTypeOK
<1>8. CASE RedisLoss
  <2>1. Buffered \subseteq Events
    BY <1>0 DEF Buffered, PipelineTypeOK
  <2>. QED
    BY <1>0, <1>8, <2>1 DEF RedisLoss, PipelineTypeOK
<1>9. CASE UNCHANGED pipelineVars
  BY <1>0, <1>9 DEF pipelineVars, PipelineTypeOK
<1>. QED
  BY <1>1, <1>2, <1>3, <1>4, <1>5, <1>6, <1>7, <1>8, <1>9 DEF PipelineNext, FlushStep

(* Steps that move no event, and push none.                                *)
LEMMA StillEvents ==
    ASSUME PipelineInv, PipelineTypeOK',
           UNCHANGED <<buffer, held, rolled, lost>>,
           \A e \in Events : stage'[e] = "pushed" <=> stage[e] = "pushed",
           \A f \in Flushers : flush'[f] = "idle" => held[f] = {}
    PROVE  PipelineInv'
<1>1. \A e : InFlight(e)' = InFlight(e)
  BY DEF InFlight, Buffered
<1>2. Buffered' = Buffered
  BY DEF Buffered
<1>3. OnePlace'
  BY <1>1, <1>2 DEF PipelineInv, OnePlace
<1>4. Conserved'
  BY <1>1 DEF PipelineInv, Conserved
<1>. QED
  BY <1>3, <1>4 DEF PipelineInv

LEMMA NextPipelineInv == PipelineInv /\ [PipelineNext]_pipelineVars => PipelineInv'
<1> SUFFICES ASSUME PipelineInv, [PipelineNext]_pipelineVars PROVE PipelineInv'
  OBVIOUS
<1> USE UsagePipelineAssumption
<1>0. PipelineTypeOK /\ PipelineTypeOK' /\ OnePlace /\ Conserved
  BY NextPipelineTypeOK DEF PipelineInv
<1>1. ASSUME NEW e \in Events, IncrTenant(e) \/ IncrKey(e) PROVE PipelineInv'
  <2>1. /\ UNCHANGED <<buffer, flush, held, rolled, lost>>
        /\ \A d \in Events : stage'[d] = "pushed" <=> stage[d] = "pushed"
    BY <1>0, <1>1 DEF IncrTenant, IncrKey, Count, PipelineTypeOK
  <2>2. \A f \in Flushers : flush'[f] = "idle" => held[f] = {}
    BY <1>0, <2>1 DEF OnePlace
  <2>. QED
    BY <1>0, <2>1, <2>2, StillEvents
<1>2. ASSUME NEW e \in Events, PushEvent(e) PROVE PipelineInv'
  <2>1. ~InFlight(e) /\ e \notin lost /\ rolled[e] = 0
    BY <1>0, <1>2 DEF PushEvent, Conserved, OnePlace
  <2>2. /\ Buffered' = Buffered \cup {e}
        /\ Distinct(buffer')
    BY <1>0, <1>2, <2>1, PushFacts DEF InFlight
  <2>3. \A d \in Events : InFlight(d)' <=> InFlight(d) \/ d = e
    BY <1>2, <2>2 DEF PushEvent, InFlight
  <2>4. OnePlace'
    BY <1>0, <1>2, <2>1, <2>2, <2>3 DEF PushEvent, OnePlace, InFlight, Distinct, PipelineTypeOK
  <2>5. Conserved'
    BY <1>0, <1>2, <2>3 DEF PushEvent, Conserved, PipelineTypeOK
  <2>. QED
    BY <1>0, <2>4, <2>5 DEF PipelineInv
<1>3. ASSUME NEW e \in Events, RecordFails(e) PROVE PipelineInv'
  <2>1. /\ UNCHANGED <<buffer, flush, held, rolled, lost>>
        /\ \A d \in Events : stage'[d] = "pushed" <=> stage[d] = "pushed"
    BY <1>0, <1>3 DEF RecordFails, PipelineTypeOK
  <2>2. \A f \in Flushers : flush'[f] = "idle" => held[f] = {}
    BY <1>0, <2>1 DEF OnePlace
  <2>. QED
    BY <1>0, <2>1, <2>2, StillEvents
<1>4. ASSUME NEW f \in Flushers, StartFlush(f) \/ Drained(f) PROVE PipelineInv'
  <2>1. UNCHANGED <<stage, buffer, held, rolled, lost>>
    BY <1>4 DEF StartFlush, Drained
  <2>2. ASSUME NEW g \in Flushers, flush'[g] = "idle" PROVE held[g] = {}
    <3>1. flush \in [Flushers -> {"idle", "draining", "writing"}] /\ (flush[g] = "idle" => held[g] = {})
      BY <1>0 DEF OnePlace, PipelineTypeOK
    <3>2. CASE StartFlush(f)
      BY <2>2, <3>1, <3>2 DEF StartFlush
    <3>3. CASE Drained(f)
      BY <2>2, <3>1, <3>3 DEF Drained
    <3>. QED
      BY <1>4, <3>2, <3>3
  <2>. QED
    BY <1>0, <2>1, <2>2, StillEvents
<1>5. ASSUME NEW f \in Flushers, Pop(f) PROVE PipelineInv'
  <2> DEFINE h == Head(buffer)
  <2>1. /\ h \in Buffered /\ h \in Events
        /\ Buffered' = Buffered \ {h}
        /\ Distinct(buffer')
    BY <1>0, <1>5, PopFacts
  <2>2. /\ flush[f] = "draining" /\ flush' = flush
        /\ held' = [held EXCEPT ![f] = held[f] \cup {h}]
        /\ UNCHANGED <<stage, rolled, lost>>
    BY <1>5 DEF Pop
  <2> HIDE DEF h
  <2>3. \A d \in Events : InFlight(d)' <=> InFlight(d)
    BY <1>0, <2>1, <2>2 DEF InFlight, PipelineTypeOK
  <2>4. \A g \in Flushers : h \notin held[g]
    BY <1>0, <2>1 DEF OnePlace
  <2>5. OnePlace'
    <3>1. \A i, j \in 1 .. Len(buffer') : buffer'[i] = buffer'[j] => i = j
      BY <2>1 DEF Distinct
    <3>2. ASSUME NEW g \in Flushers, NEW k \in Flushers, NEW d \in held'[g]
          PROVE  d \notin Buffered' /\ (d \in held'[k] => g = k)
      BY <1>0, <2>1, <2>2, <2>4 DEF OnePlace, PipelineTypeOK
    <3>3. \A d \in Events : InFlight(d)' => d \notin lost' /\ rolled'[d] = 0
      BY <1>0, <2>2, <2>3 DEF OnePlace
    <3>4. \A d \in Events : rolled'[d] \in {0, 1} /\ (rolled'[d] = 1 => d \notin lost')
      BY <1>0, <2>2 DEF OnePlace
    <3>5. \A g \in Flushers : flush'[g] = "idle" => held'[g] = {}
      BY <1>0, <2>2 DEF OnePlace, PipelineTypeOK
    <3>. QED
      BY <3>1, <3>2, <3>3, <3>4, <3>5 DEF OnePlace
  <2>6. Conserved'
    BY <1>0, <2>2, <2>3 DEF Conserved
  <2>. QED
    BY <1>0, <2>5, <2>6 DEF PipelineInv
<1>6. ASSUME NEW f \in Flushers, Commit(f) PROVE PipelineInv'
  <2>1. /\ buffer' = buffer /\ Buffered' = Buffered
        /\ held' = [held EXCEPT ![f] = {}]
        /\ rolled' = [e \in Events |-> IF e \in held[f] THEN rolled[e] + 1 ELSE rolled[e]]
        /\ UNCHANGED <<stage, lost>>
    BY <1>6 DEF Commit, Buffered
  <2>2. \A d \in held[f] : /\ d \in Events /\ InFlight(d) /\ d \notin Buffered
                           /\ \A g \in Flushers : d \in held[g] => g = f
    BY <1>0 DEF OnePlace, InFlight, PipelineTypeOK
  <2>3. \A d \in Events : InFlight(d)' <=> InFlight(d) /\ d \notin held[f]
    BY <1>0, <2>1, <2>2 DEF InFlight, PipelineTypeOK
  <2>4. \A d \in Events : /\ rolled'[d] \in {0, 1}
                          /\ rolled'[d] = 1 <=> rolled[d] = 1 \/ d \in held[f]
    BY <1>0, <2>1, <2>2 DEF OnePlace, PipelineTypeOK
  <2>5. OnePlace'
    <3>1. \A g, k \in Flushers : \A d \in held'[g] :
            d \notin Buffered' /\ (d \in held'[k] => g = k)
      BY <1>0, <2>1 DEF OnePlace, PipelineTypeOK
    <3>2. \A d \in Events : InFlight(d)' => d \notin lost' /\ rolled'[d] = 0
      BY <1>0, <2>1, <2>3 DEF OnePlace
    <3>3. \A d \in Events : rolled'[d] \in {0, 1} /\ (rolled'[d] = 1 => d \notin lost')
      BY <1>0, <2>1, <2>2, <2>4 DEF OnePlace
    <3>4. \A g \in Flushers : flush'[g] = "idle" => held'[g] = {}
      BY <1>0, <1>6 DEF Commit, OnePlace, PipelineTypeOK
    <3>5. \A i, j \in 1 .. Len(buffer') : buffer'[i] = buffer'[j] => i = j
      BY <1>0, <2>1 DEF OnePlace
    <3>. QED
      BY <3>1, <3>2, <3>3, <3>4, <3>5 DEF OnePlace
  <2>6. Conserved'
    BY <1>0, <2>1, <2>2, <2>3, <2>4 DEF Conserved
  <2>. QED
    BY <1>0, <2>5, <2>6 DEF PipelineInv
<1>7. ASSUME NEW f \in Flushers, Abort(f) PROVE PipelineInv'
  <2>1. /\ buffer' = buffer /\ Buffered' = Buffered
        /\ held' = [held EXCEPT ![f] = {}]
        /\ lost' = lost \cup held[f]
        /\ UNCHANGED <<stage, rolled>>
    BY <1>7 DEF Abort, Buffered
  <2>2. \A d \in held[f] : /\ d \in Events /\ InFlight(d) /\ d \notin Buffered
                           /\ \A g \in Flushers : d \in held[g] => g = f
    BY <1>0 DEF OnePlace, InFlight, PipelineTypeOK
  <2>3. \A d \in Events : InFlight(d)' <=> InFlight(d) /\ d \notin held[f]
    BY <1>0, <2>1, <2>2 DEF InFlight, PipelineTypeOK
  <2>4. \A g \in Flushers : flush'[g] = "idle" => held'[g] = {}
    BY <1>0, <1>7 DEF Abort, OnePlace, PipelineTypeOK
  <2>5. OnePlace'
    BY <1>0, <2>1, <2>2, <2>3, <2>4 DEF OnePlace, PipelineTypeOK
  <2>6. Conserved'
    BY <1>0, <2>1, <2>2, <2>3 DEF Conserved
  <2>. QED
    BY <1>0, <2>5, <2>6 DEF PipelineInv
<1>8. CASE RedisLoss
  <2>1. /\ buffer' = <<>> /\ Buffered' = {}
        /\ lost' = lost \cup Buffered
        /\ UNCHANGED <<stage, flush, held, rolled>>
    BY <1>8 DEF RedisLoss, Buffered
  <2>2. \A d \in Events : InFlight(d)' <=> InFlight(d) /\ d \notin Buffered
    BY <1>0, <2>1 DEF InFlight, OnePlace
  <2>3. OnePlace'
    BY <1>0, <2>1, <2>2 DEF OnePlace, InFlight
  <2>4. Conserved'
    BY <1>0, <2>1, <2>2 DEF Conserved, InFlight
  <2>. QED
    BY <1>0, <2>3, <2>4 DEF PipelineInv
<1>9. CASE UNCHANGED pipelineVars
  <2>1. \A f \in Flushers : flush'[f] = "idle" => held[f] = {}
    BY <1>0, <1>9 DEF pipelineVars, OnePlace
  <2>. QED
    BY <1>0, <1>9, <2>1, StillEvents DEF pipelineVars
<1>. QED
  BY <1>1, <1>2, <1>3, <1>4, <1>5, <1>6, <1>7, <1>8, <1>9
     DEF PipelineNext, FlushStep, Record

(* No interleaving of flushers, failures and Redis losses bills an event   *)
(* twice or lets one slip out of the accounts.                             *)
THEOREM PipelineInvariant == PipelineSpec => []PipelineInv
BY InitPipelineInv, NextPipelineInv, PTL DEF PipelineSpec

----------------------------------------------------------------------------
(* The live counters and the rollups are two sums over the same events:    *)
(* of those `record` has counted, and of those that are in the rollups.    *)

Of(t, p)   == {e \in Events : TenantOfEvent(e) = t /\ PeriodOf[e] = p}
Billed     == [e \in Events |-> rolled[e] * MilliOf[e]]
Counted    == [e \in Events |-> IF stage[e] \in {"tenant", "key", "pushed"}
                                THEN MilliOf[e] ELSE 0]

(* What the tenants' counters have at least seen, as long as Redis lives.  *)
CountersSeen ==
    resets = 0 =>
    \A t \in Tenants, p \in Periods :
        SumFunctionOnSet(Counted, Of(t, p)) <= live[<<t, p>>]

CountersSeenInv == PipelineInv /\ CountersSeen

LEMMA OfFacts ==
    ASSUME NEW t, NEW p
    PROVE  Of(t, p) \subseteq Events /\ IsFiniteSet(Of(t, p))
BY UsagePipelineAssumption, FS_Subset DEF Of

LEMMA CountedTypes == \A e \in Events : Counted[e] \in Nat /\ Counted'[e] \in Nat
BY UsagePipelineAssumption DEF Counted

LEMMA BilledTypes == PipelineTypeOK => \A e \in Events : Billed[e] \in Nat
<1> SUFFICES ASSUME PipelineTypeOK, NEW e \in Events PROVE Billed[e] \in Nat
  OBVIOUS
<1>1. rolled[e] \in Nat /\ MilliOf[e] \in Nat
  BY UsagePipelineAssumption DEF PipelineTypeOK
<1>. QED
  BY <1>1 DEF Billed

(* An event is billed after it was counted, and once.                      *)
LEMMA BilledWereCounted ==
    ASSUME PipelineInv
    PROVE  \A e \in Events : Billed[e] <= Counted[e]
<1> SUFFICES ASSUME NEW e \in Events PROVE Billed[e] <= Counted[e]
  OBVIOUS
<1>1. MilliOf[e] \in Nat /\ rolled[e] \in {0, 1}
  BY UsagePipelineAssumption DEF PipelineInv, OnePlace
<1>2. CASE rolled[e] = 1
  <2>1. stage[e] = "pushed"
    BY <1>2 DEF PipelineInv, Conserved
  <2>. QED
    BY <1>1, <1>2, <2>1 DEF Billed, Counted
<1>3. CASE rolled[e] = 0
  BY <1>1, <1>3 DEF Billed, Counted
<1>. QED
  BY <1>1, <1>2, <1>3

LEMMA InitCountersSeen == PipelineInit => CountersSeen
<1> SUFFICES ASSUME PipelineInit, NEW t \in Tenants, NEW p \in Periods
             PROVE  SumFunctionOnSet(Counted, Of(t, p)) <= live[<<t, p>>]
  BY DEF CountersSeen
<1> DEFINE none == [e \in Events |-> 0]
<1>1. Counted = none /\ live[<<t, p>>] = 0
  BY DEF PipelineInit, Counted
<1>2. SumFunctionOnSet(none, Of(t, p)) <= 0
  BY OfFacts, SumOfZeros
<1>. QED
  BY <1>1, <1>2

(* Steps that count nothing, or stop counting an event.                    *)
LEMMA UncountedStep ==
    ASSUME CountersSeen, PipelineTypeOK, PipelineTypeOK', UNCHANGED <<live, resets>>,
           \A e \in Events : Counted'[e] <= Counted[e]
    PROVE  CountersSeen'
<1> SUFFICES ASSUME resets = 0, NEW t \in Tenants, NEW p \in Periods
             PROVE  SumFunctionOnSet(Counted', Of(t, p)) <= live[<<t, p>>]
  BY DEF CountersSeen, Of, TenantOfEvent
<1> DEFINE S == Of(t, p)
<1>1. S \subseteq Events /\ IsFiniteSet(S)
  BY OfFacts
<1>2. \A e \in S : Counted[e] \in Int /\ Counted'[e] \in Int /\ Counted'[e] <= Counted[e]
  BY <1>1, CountedTypes
<1>3. /\ SumFunctionOnSet(Counted, S) \in Int /\ SumFunctionOnSet(Counted', S) \in Int
      /\ SumFunctionOnSet(Counted', S) <= SumFunctionOnSet(Counted, S)
  BY <1>1, <1>2, SumMonotone, SumIsInt
<1>4. live[<<t, p>>] \in Int /\ SumFunctionOnSet(Counted, S) <= live[<<t, p>>]
  BY DEF CountersSeen, PipelineTypeOK
<1>. QED
  BY <1>3, <1>4

(* An INCRBY changes one counter, and upwards.                             *)
LEMMA IncrByFacts ==
    ASSUME PipelineTypeOK, NEW d \in Events, NEW a \in (Tenants \cup Keys) \X Periods,
           live' = [live EXCEPT ![a] = @ + MilliOf[d]]
    PROVE  /\ live'[a] = live[a] + MilliOf[d]
           /\ \A b \in (Tenants \cup Keys) \X Periods : live'[b] >= live[b]
<1>1. MilliOf[d] \in Nat /\ live \in [(Tenants \cup Keys) \X Periods -> Nat]
  BY UsagePipelineAssumption DEF PipelineTypeOK
<1>2. live'[a] = live[a] + MilliOf[d]
  BY <1>1
<1>3. ASSUME NEW b \in (Tenants \cup Keys) \X Periods PROVE live'[b] >= live[b]
  <2>1. live[b] \in Nat /\ live'[b] \in {live[b], live[b] + MilliOf[d]}
    BY <1>1
  <2>. QED
    BY <1>1, <2>1
<1>. QED
  BY <1>2, <1>3

(* The tenant's counter takes what the event weighs.                       *)
LEMMA TenantStep ==
    ASSUME CountersSeen, PipelineTypeOK, PipelineTypeOK', NEW d \in Events, IncrTenant(d)
    PROVE  CountersSeen'
<1> SUFFICES ASSUME resets = 0, NEW t \in Tenants, NEW p \in Periods
             PROVE  SumFunctionOnSet(Counted', Of(t, p)) <= live'[<<t, p>>]
  BY DEF CountersSeen, Of, TenantOfEvent, IncrTenant, Count
<1> DEFINE S == Of(t, p)
           before == SumFunctionOnSet(Counted, S)
           after == SumFunctionOnSet(Counted', S)
<1>1. S \subseteq Events /\ IsFiniteSet(S)
  BY OfFacts
<1>2. \A e \in S : Counted[e] \in Int /\ Counted'[e] \in Int
  BY <1>1, CountedTypes
<1>3. /\ before \in Int /\ after \in Int
      /\ live[<<t, p>>] \in Int /\ before <= live[<<t, p>>]
  BY <1>1, <1>2, SumIsInt DEF CountersSeen, PipelineTypeOK
<1>4. /\ Counted[d] = 0 /\ Counted'[d] = MilliOf[d] /\ MilliOf[d] \in Nat
      /\ \A e \in Events \ {d} : Counted'[e] = Counted[e]
  BY UsagePipelineAssumption DEF IncrTenant, Count, Counted, PipelineTypeOK
<1>5. /\ \A a \in (Tenants \cup Keys) \X Periods : live'[a] >= live[a]
      /\ live'[<<TenantOfEvent(d), PeriodOf[d]>>]
           = live[<<TenantOfEvent(d), PeriodOf[d]>>] + MilliOf[d]
      /\ live'[<<t, p>>] \in Int
  <2>1. <<TenantOfEvent(d), PeriodOf[d]>> \in (Tenants \cup Keys) \X Periods
    BY UsagePipelineAssumption DEF TenantOfEvent
  <2>2. live' = [live EXCEPT ![<<TenantOfEvent(d), PeriodOf[d]>>] = @ + MilliOf[d]]
    BY DEF IncrTenant, Count
  <2>3. live'[<<t, p>>] \in Int
    BY DEF PipelineTypeOK
  <2>. QED
    BY <2>1, <2>2, <2>3, IncrByFacts
<1>6. CASE d \in S
  <2>1. after = before - Counted[d] + Counted'[d]
    BY <1>1, <1>2, <1>4, <1>6, SumChange
  <2>2. live'[<<t, p>>] = live[<<t, p>>] + MilliOf[d]
    BY <1>5, <1>6 DEF Of
  <2> HIDE DEF before, after
  <2>. QED
    BY <1>3, <1>4, <2>1, <2>2 DEF after
<1>7. CASE d \notin S
  <2>1. after = before
    BY <1>1, <1>2, <1>4, <1>7, SumsEqual
  <2> HIDE DEF before, after
  <2>. QED
    BY <1>3, <1>5, <2>1 DEF after
<1>. QED
  BY <1>6, <1>7

LEMMA NextCountersSeen ==
    CountersSeenInv /\ [PipelineNext]_pipelineVars => CountersSeenInv'
<1> SUFFICES ASSUME CountersSeenInv, [PipelineNext]_pipelineVars PROVE CountersSeen'
  BY NextPipelineInv DEF CountersSeenInv
<1>0. CountersSeen /\ PipelineTypeOK /\ PipelineTypeOK'
  BY NextPipelineInv DEF CountersSeenInv, PipelineInv
<1>1. ASSUME NEW d \in Events, IncrTenant(d) PROVE CountersSeen'
  BY <1>0, <1>1, TenantStep
<1>2. ASSUME NEW d \in Events, IncrKey(d) PROVE CountersSeen'
  <2>1. Counted' = Counted
    BY <1>0, <1>2 DEF IncrKey, Count, Counted, PipelineTypeOK
  <2>2. \A a \in (Tenants \cup Keys) \X Periods : live'[a] >= live[a]
    <3>1. <<KeyOf[d], PeriodOf[d]>> \in (Tenants \cup Keys) \X Periods
      BY UsagePipelineAssumption
    <3>2. live' = [live EXCEPT ![<<KeyOf[d], PeriodOf[d]>>] = @ + MilliOf[d]]
      BY <1>2 DEF IncrKey, Count
    <3>. QED
      BY <1>0, <3>1, <3>2, IncrByFacts
  <2>3. SUFFICES ASSUME resets = 0, NEW t \in Tenants, NEW p \in Periods
                 PROVE  SumFunctionOnSet(Counted, Of(t, p)) <= live'[<<t, p>>]
    BY <1>2, <2>1 DEF CountersSeen, Of, TenantOfEvent, IncrKey, Count
  <2>4. SumFunctionOnSet(Counted, Of(t, p)) \in Int
    BY <1>0, CountedTypes, OfFacts, SumIsInt
  <2>5. /\ SumFunctionOnSet(Counted, Of(t, p)) <= live[<<t, p>>]
        /\ live[<<t, p>>] \in Int /\ live'[<<t, p>>] \in Int
    BY <1>0, <2>3 DEF CountersSeen, PipelineTypeOK
  <2>. QED
    BY <2>2, <2>4, <2>5
<1>3. ASSUME NEW d \in Events, PushEvent(d) PROVE CountersSeen'
  <2>1. Counted' = Counted /\ UNCHANGED <<live, resets>>
    BY <1>0, <1>3 DEF PushEvent, Counted, PipelineTypeOK
  <2>. QED
    BY <1>0, <2>1, CountedTypes, UncountedStep
<1>4. ASSUME NEW d \in Events, RecordFails(d) PROVE CountersSeen'
  <2>1. \A e \in Events : Counted'[e] = IF e = d THEN 0 ELSE Counted[e]
    BY <1>0, <1>4 DEF RecordFails, Counted, PipelineTypeOK
  <2>2. \A e \in Events : Counted'[e] <= Counted[e]
    BY <2>1, CountedTypes
  <2>. QED
    BY <1>0, <1>4, <2>2, UncountedStep DEF RecordFails
<1>5. ASSUME UNCHANGED <<stage, live, resets>> PROVE CountersSeen'
  <2>1. Counted' = Counted
    BY <1>5 DEF Counted
  <2>. QED
    BY <1>0, <1>5, <2>1, CountedTypes, UncountedStep
<1>6. ASSUME NEW f \in Flushers, StartFlush(f) \/ FlushStep(f) \/ Abort(f)
      PROVE  CountersSeen'
  BY <1>5, <1>6 DEF StartFlush, FlushStep, Pop, Drained, Commit, Abort
<1>7. CASE RedisLoss
  <2>1. resets' # 0
    BY <1>0, <1>7, UsagePipelineAssumption DEF RedisLoss, PipelineTypeOK
  <2>. QED
    BY <2>1 DEF CountersSeen
<1>8. CASE UNCHANGED pipelineVars
  BY <1>5, <1>8 DEF pipelineVars
<1>. QED
  BY <1>1, <1>2, <1>3, <1>4, <1>6, <1>7, <1>8 DEF PipelineNext, Record

(* The sum over what is billed is no more than over what is counted.       *)
LEMMA SeenLeads == CountersSeenInv => CountersLeadRollups
<1> SUFFICES ASSUME CountersSeenInv, resets = 0, NEW t \in Tenants, NEW p \in Periods
             PROVE  Total(t, p) <= live[<<t, p>>]
  BY DEF CountersLeadRollups
<1> DEFINE S == Of(t, p)
<1>1. PipelineTypeOK /\ S \subseteq Events /\ IsFiniteSet(S)
  BY OfFacts DEF CountersSeenInv, PipelineInv
<1>2. Total(t, p) = SumFunctionOnSet(Billed, S)
  BY DEF Total, Billed, Of
<1>3. \A e \in S : Billed[e] \in Int /\ Counted[e] \in Int /\ Billed[e] <= Counted[e]
  BY <1>1, CountedTypes, BilledTypes, BilledWereCounted DEF CountersSeenInv
<1>4. /\ SumFunctionOnSet(Billed, S) <= SumFunctionOnSet(Counted, S)
      /\ SumFunctionOnSet(Billed, S) \in Int /\ SumFunctionOnSet(Counted, S) \in Int
  BY <1>1, <1>3, SumMonotone, SumIsInt
<1>5. SumFunctionOnSet(Counted, S) <= live[<<t, p>>] /\ live[<<t, p>>] \in Int
  BY <1>1 DEF CountersSeenInv, CountersSeen, PipelineTypeOK
<1> HIDE DEF S
<1>. QED
  BY <1>2, <1>4, <1>5

(* As long as Redis keeps its keys, no rollup is ahead of the counter the  *)
(* quota is read from: `record` counts first, and a flush adds only what   *)
(* was counted, once (usage.py record, flush_events).                      *)
THEOREM CountersLead == PipelineSpec => []CountersLeadRollups
<1>1. PipelineInit => CountersSeenInv
  BY InitPipelineInv, InitCountersSeen DEF CountersSeenInv
<1>. QED
  BY <1>1, NextCountersSeen, SeenLeads, PTL DEF PipelineSpec

----------------------------------------------------------------------------
(* The refinement of UsageLedger: PushEvent enters an event, Commit bills  *)
(* the batch, Abort and RedisLoss lose theirs, and the rest stutters.      *)

LEMMA InitRefines == PipelineInit => Ledger!LedgerInit
<1> SUFFICES ASSUME PipelineInit PROVE Ledger!LedgerInit
  OBVIOUS
<1> USE DEF PipelineInit
<1>1. {e \in Events : stage[e] = "pushed"} = {}
  OBVIOUS
<1>2. {e \in Events : InFlight(e)} = {}
  BY DEF InFlight, Buffered
<1>. QED
  BY <1>1, <1>2 DEF Ledger!LedgerInit

(* A step that leaves every event where it is leaves the ledger alone.     *)
LEMMA StillRefines ==
    ASSUME UNCHANGED <<rolled, lost>>,
           \A e \in Events : stage'[e] = "pushed" <=> stage[e] = "pushed",
           \A e \in Events : InFlight(e)' <=> InFlight(e)
    PROVE  UNCHANGED Ledger!ledgerVars
<1>1. {e \in Events : stage[e] = "pushed"}' = {e \in Events : stage[e] = "pushed"}
  OBVIOUS
<1>2. {e \in Events : InFlight(e)}' = {e \in Events : InFlight(e)}
  OBVIOUS
<1>. QED
  BY <1>1, <1>2 DEF Ledger!ledgerVars

LEMMA NextRefines ==
    PipelineInv /\ [PipelineNext]_pipelineVars => [Ledger!LedgerNext]_Ledger!ledgerVars
<1> SUFFICES ASSUME PipelineInv, [PipelineNext]_pipelineVars
             PROVE  [Ledger!LedgerNext]_Ledger!ledgerVars
  OBVIOUS
<1> DEFINE Entered == {e \in Events : stage[e] = "pushed"}
           Pending == {e \in Events : InFlight(e)}
<1>0. PipelineTypeOK /\ OnePlace /\ Conserved
  BY DEF PipelineInv
<1>1. ASSUME NEW e \in Events, IncrTenant(e) \/ IncrKey(e) \/ RecordFails(e)
      PROVE  UNCHANGED Ledger!ledgerVars
  <2>1. /\ UNCHANGED <<buffer, held, rolled, lost>>
        /\ \A d \in Events : stage'[d] = "pushed" <=> stage[d] = "pushed"
    BY <1>0, <1>1 DEF IncrTenant, IncrKey, Count, RecordFails, PipelineTypeOK
  <2>2. \A d \in Events : InFlight(d)' <=> InFlight(d)
    BY <2>1 DEF InFlight, Buffered
  <2>. QED
    BY <2>1, <2>2, StillRefines
<1>2. ASSUME NEW e \in Events, PushEvent(e) PROVE Ledger!Enter(e)
  <2>2. Buffered' = Buffered \cup {e}
    BY <1>0, <1>2, PushFacts DEF PushEvent, Conserved, InFlight
  <2>3. Pending' = Pending \cup {e}
    BY <1>2, <2>2 DEF PushEvent, InFlight
  <2>4. e \notin Entered /\ Entered' = Entered \cup {e}
    BY <1>0, <1>2 DEF PushEvent, PipelineTypeOK
  <2>5. UNCHANGED <<rolled, lost>>
    BY <1>2 DEF PushEvent
  <2>. QED
    BY <2>3, <2>4, <2>5 DEF Ledger!Enter
<1>3. ASSUME NEW f \in Flushers, StartFlush(f) \/ Drained(f)
      PROVE  UNCHANGED Ledger!ledgerVars
  <2>1. UNCHANGED <<stage, buffer, held, rolled, lost>>
    BY <1>3 DEF StartFlush, Drained
  <2>2. \A d \in Events : InFlight(d)' <=> InFlight(d)
    BY <2>1 DEF InFlight, Buffered
  <2>. QED
    BY <2>1, <2>2, StillRefines
<1>4. ASSUME NEW f \in Flushers, Pop(f) PROVE UNCHANGED Ledger!ledgerVars
  <2> DEFINE h == Head(buffer)
  <2>3. h \in Buffered /\ Buffered' = Buffered \ {h}
    BY <1>0, <1>4, PopFacts
  <2>4. /\ held' = [held EXCEPT ![f] = held[f] \cup {h}]
        /\ UNCHANGED <<stage, rolled, lost>>
    BY <1>4 DEF Pop
  <2> HIDE DEF h
  <2>5. \A d \in Events : InFlight(d)' <=> InFlight(d)
    BY <1>0, <2>3, <2>4 DEF InFlight, PipelineTypeOK
  <2>. QED
    BY <2>4, <2>5, StillRefines
<1>5. ASSUME NEW f \in Flushers, Commit(f) \/ Abort(f)
      PROVE  /\ held[f] \subseteq Pending
             /\ Pending' = Pending \ held[f]
             /\ Entered' = Entered
  <2>1. /\ buffer' = buffer /\ stage' = stage
        /\ held' = [held EXCEPT ![f] = {}]
    BY <1>5 DEF Commit, Abort
  <2>2. \A d \in held[f] : /\ d \in Events /\ InFlight(d) /\ d \notin Buffered
                           /\ \A g \in Flushers : d \in held[g] => g = f
    BY <1>0 DEF OnePlace, InFlight, PipelineTypeOK
  <2>3. \A d \in Events : InFlight(d)' <=> InFlight(d) /\ d \notin held[f]
    BY <1>0, <2>1, <2>2 DEF InFlight, Buffered, PipelineTypeOK
  <2>. QED
    BY <2>1, <2>2, <2>3
<1>6. ASSUME NEW f \in Flushers, Commit(f) PROVE Ledger!Bill(held[f])
  BY <1>5, <1>6 DEF Commit, Ledger!Bill
<1>7. ASSUME NEW f \in Flushers, Abort(f) PROVE Ledger!Lose(held[f])
  BY <1>5, <1>7 DEF Abort, Ledger!Lose
<1>8. CASE RedisLoss
  <2>1. /\ buffer' = <<>> /\ Buffered' = {}
        /\ lost' = lost \cup Buffered
        /\ UNCHANGED <<stage, held, rolled>>
    BY <1>8 DEF RedisLoss, Buffered
  <2>2. Buffered \subseteq Pending
    BY <1>0 DEF InFlight, Buffered, PipelineTypeOK
  <2>3. \A d \in Events : InFlight(d)' <=> InFlight(d) /\ d \notin Buffered
    BY <1>0, <2>1 DEF InFlight, OnePlace
  <2>4. Pending' = Pending \ Buffered /\ Entered' = Entered
    BY <2>1, <2>3
  <2>5. Ledger!Lose(Buffered)
    BY <2>1, <2>2, <2>4 DEF Ledger!Lose
  <2>. QED
    BY <2>2, <2>5 DEF Ledger!LedgerNext
<1>9. CASE UNCHANGED pipelineVars
  <2>1. UNCHANGED <<stage, buffer, held, rolled, lost>>
    BY <1>9 DEF pipelineVars
  <2>2. \A d \in Events : InFlight(d)' <=> InFlight(d)
    BY <2>1 DEF InFlight, Buffered
  <2>. QED
    BY <2>1, <2>2, StillRefines
<1>10. \A f \in Flushers : held[f] \in SUBSET Events
  BY <1>0 DEF PipelineTypeOK
<1>. QED
  BY <1>1, <1>2, <1>3, <1>4, <1>6, <1>7, <1>8, <1>9, <1>10
     DEF PipelineNext, FlushStep, Record, Ledger!LedgerNext

(* The metering pipeline implements the ledger for any number of events,   *)
(* flushers, failures and Redis losses (usage.py record and flush_events). *)
THEOREM PipelineRefinesLedger == PipelineSpec => ImplementsLedger
BY InitPipelineInv, NextPipelineInv, InitRefines, NextRefines, PTL
   DEF PipelineSpec, ImplementsLedger, Ledger!LedgerSpec

----------------------------------------------------------------------------
(* Billing.                                                                *)

Runs == [at : {"off", "flush", "bill", "answered"}, period : Periods,
         todo : SUBSET Tenants, tenant : Tenants \cup {NoTenant}, milli : Nat,
         overtaken : BOOLEAN, listed : UNION {[ts -> Nat] : ts \in SUBSET Tenants}]

BillingTypes ==
    /\ PipelineInv
    /\ deleted \subseteq Tenants
    /\ invoice \in [Tenants \X Periods -> [status : {"none", "pending", "paid"}, milli : Nat]]
    /\ bill \in [Billers -> Runs]
    /\ doubtful \subseteq Tenants \X Periods

\* Only a run that is billing holds a tenant's total.
TenantInHand == \A b \in Billers : bill[b].tenant # NoTenant => bill[b].at = "bill"

(* What keeps the invoices within the rollups.                             *)
AnyRunsInv == BillingTypes /\ TenantInHand /\ InvoiceWithinRollups

\* The run has listed tenants, and t is one of them.
Listed(b, t) == bill[b].at \in {"bill", "answered"} /\ t \in DOMAIN bill[b].listed

\* The run has left t behind: it is neither to be read nor in hand.
Past(b, t) == Listed(b, t) /\ t \notin bill[b].todo /\ t # bill[b].tenant

\* The run holds a total for the invoice that nobody has written since.
Holds(c, t, p) == bill[c].tenant = t /\ t # NoTenant /\ bill[c].period = p /\ ~ bill[c].overtaken

\* What was listed, the rollups still hold.
ListedWithin ==
    \A b \in Billers, t \in Tenants : Listed(b, t) => bill[b].listed[t] <= Total(t, bill[b].period)

\* A total was read after the list it is of.
HandAfterList ==
    \A b \in Billers : bill[b].tenant # NoTenant /\ Listed(b, bill[b].tenant) =>
        bill[b].listed[bill[b].tenant] <= bill[b].milli

\* A total in hand is no older than the invoice it is written to ...
HandIsNewer ==
    \A c \in Billers, t \in Tenants, p \in Periods :
        Holds(c, t, p) => invoice[<<t, p>>].milli <= bill[c].milli

\* ... nor than the list of a run that has left the tenant behind.
HandAfterOthers ==
    \A b, c \in Billers, t \in Tenants :
        Past(b, t) /\ Holds(c, t, bill[b].period) => bill[b].listed[t] <= bill[c].milli

\* The invoice of a tenant that was left behind.
Settled(b, t) ==
    LET a == <<t, bill[b].period>> IN
    \/ invoice[a].status = "paid"
    \/ invoice[a].status = "pending" /\ invoice[a].milli >= bill[b].listed[t]
    \/ a \in doubtful

PastSettled == \A b \in Billers, t \in Tenants : Past(b, t) => Settled(b, t)

\* An answered run has nothing left to do.
AnsweredDone == \A b \in Billers : bill[b].at = "answered" => bill[b].todo = {}

(* What any number of billing runs keep.                                   *)
RunsInv ==
    /\ AnyRunsInv /\ ListedWithin /\ HandAfterList /\ HandIsNewer /\ HandAfterOthers
    /\ PastSettled /\ AnsweredDone

(* The rows of a tenant add up to a natural, and never to less than they   *)
(* did when rollups only grow.                                             *)
LEMMA BilledNext == PipelineTypeOK' => \A e \in Events : Billed'[e] \in Nat
<1> SUFFICES ASSUME PipelineTypeOK', NEW e \in Events PROVE Billed'[e] \in Nat
  OBVIOUS
<1>1. rolled'[e] \in Nat /\ MilliOf[e] \in Nat
  BY UsagePipelineAssumption DEF PipelineTypeOK
<1>. QED
  BY <1>1 DEF Billed

LEMMA TotalType ==
    ASSUME PipelineTypeOK, NEW t, NEW p
    PROVE  Total(t, p) \in Nat
<1>1. \A e \in Of(t, p) : Billed[e] \in Nat
  BY OfFacts, BilledTypes
<1>. QED
  BY <1>1, OfFacts, SumIsNat DEF Total, Billed, Of

LEMMA TotalTypeNext ==
    ASSUME PipelineTypeOK', NEW t, NEW p
    PROVE  Total(t, p)' \in Nat
<1>1. \A e \in Of(t, p) : Billed'[e] \in Nat
  BY OfFacts, BilledNext
<1>2. SumFunctionOnSet(Billed', Of(t, p)) \in Nat
  BY <1>1, OfFacts, SumIsNat
<1>. QED
  BY <1>2 DEF Total, Billed, Of, TenantOfEvent

LEMMA TotalGrows ==
    ASSUME PipelineTypeOK, PipelineTypeOK', \A e \in Events : rolled'[e] >= rolled[e],
           NEW t, NEW p
    PROVE  Total(t, p) <= Total(t, p)'
<1>1. ASSUME NEW e \in Of(t, p)
      PROVE  Billed[e] \in Int /\ Billed'[e] \in Int /\ Billed[e] <= Billed'[e]
  <2>1. /\ e \in Events /\ rolled[e] \in Nat /\ rolled'[e] \in Nat /\ MilliOf[e] \in Nat
        /\ rolled'[e] >= rolled[e]
    BY OfFacts, UsagePipelineAssumption DEF PipelineTypeOK
  <2>2. rolled[e] * MilliOf[e] <= rolled'[e] * MilliOf[e]
    BY <2>1
  <2>. QED
    BY <2>1, <2>2 DEF Billed
<1>2. SumFunctionOnSet(Billed, Of(t, p)) <= SumFunctionOnSet(Billed', Of(t, p))
  BY <1>1, OfFacts, SumMonotone
<1>. QED
  BY <1>2 DEF Total, Billed, Of, TenantOfEvent

(* Every step is one of the pipeline, or leaves the rollups alone.         *)
LEMMA PipelineUnderneath ==
    ASSUME BillingTypes, [BillingNext]_allVars
    PROVE  /\ PipelineInv'
           /\ \A e \in Events : rolled'[e] >= rolled[e]
<1>0. PipelineInv /\ PipelineTypeOK
  BY DEF BillingTypes, PipelineInv
<1>1. [PipelineNext]_pipelineVars \/ \E b \in Billers : BillingFails(b)
  BY BillingAssumption
     DEF BillingNext, MeterStep, BillingStep, StartBilling, ListTenants, UpsertInvoice, Answer,
         Reset, FlushFails, ReadTotals, MarkPaid, DeleteTenant, PipelineNext, allVars
<1>2. CASE [PipelineNext]_pipelineVars
  <2>1. PipelineInv'
    BY <1>0, <1>2, NextPipelineInv
  <2>2. ASSUME NEW f \in Flushers, Commit(f) PROVE \A e \in Events : rolled'[e] >= rolled[e]
    BY <1>0, <2>2 DEF Commit, PipelineTypeOK
  <2>3. rolled' = rolled \/ \E f \in Flushers : Commit(f)
    BY <1>2 DEF PipelineNext, Record, IncrTenant, IncrKey, Count, PushEvent, RecordFails,
                StartFlush, FlushStep, Pop, Drained, Abort, RedisLoss, pipelineVars
  <2>. QED
    BY <1>0, <2>1, <2>2, <2>3 DEF PipelineTypeOK
<1>3. ASSUME NEW b \in Billers, BillingFails(b)
      PROVE  PipelineInv' /\ rolled' = rolled
  <2>1. PipelineTypeOK'
    BY <1>0, <1>3, UsagePipelineAssumption DEF BillingFails, PipelineTypeOK
  <2>2. UNCHANGED <<stage, flush, buffer, held, rolled, lost>>
    BY <1>3 DEF BillingFails
  <2>. QED
    BY <1>0, <2>1, <2>2, StillEvents DEF PipelineInv, OnePlace
<1>. QED
  BY <1>0, <1>1, <1>2, <1>3 DEF PipelineTypeOK

(* A run's record after each of its steps.                                 *)
LEMMA RunTypes ==
    ASSUME BillingTypes, NEW b \in Billers
    PROVE  /\ bill[b] \in Runs
           /\ \A p \in Periods : NoRun(p) \in Runs
<1>1. ASSUME NEW p \in Periods PROVE NoRun(p) \in Runs
  <2>1. [t \in {} |-> 0] \in [{} -> Nat]
    OBVIOUS
  <2>. QED
    BY <2>1 DEF NoRun, Runs
<1>. QED
  BY <1>1 DEF BillingTypes

LEMMA NextBillingTypes == BillingTypes /\ [BillingNext]_allVars => BillingTypes'
<1> SUFFICES ASSUME BillingTypes, [BillingNext]_allVars PROVE BillingTypes'
  OBVIOUS
<1>0. PipelineInv' /\ PipelineTypeOK
  BY PipelineUnderneath DEF BillingTypes, PipelineInv
<1>1. ASSUME NEW b \in Billers, NEW run \in Runs, bill' = [bill EXCEPT ![b] = run],
             UNCHANGED <<deleted, invoice, doubtful>>
      PROVE  BillingTypes'
  BY <1>0, <1>1 DEF BillingTypes
<1>2. ASSUME NEW b \in Billers, BillingStep(b) PROVE BillingTypes'
  <2>0. bill[b] \in Runs /\ (\A p \in Periods : NoRun(p) \in Runs) /\ bill[b].period \in Periods
    BY RunTypes DEF Runs
  <2>1. CASE StartBilling(b)
    <3>1. PICK p \in Periods : bill' = [bill EXCEPT ![b] = [NoRun(p) EXCEPT !.at = "flush"]]
      BY <2>1 DEF StartBilling
    <3>2. [NoRun(p) EXCEPT !.at = "flush"] \in Runs
      BY <2>0 DEF Runs
    <3>. QED
      BY <1>1, <2>1, <3>1, <3>2 DEF StartBilling
  <2>2. CASE ListTenants(b)
    <3> DEFINE ts == Tenants \ deleted
               totals == [t \in ts |-> Total(t, bill[b].period)]
               run == [bill[b] EXCEPT !.at = "bill", !.todo = ts, !.listed = totals]
    <3>1. totals \in [ts -> Nat] /\ ts \in SUBSET Tenants
      BY <1>0, TotalType
    <3>4. totals \in UNION {[us -> Nat] : us \in SUBSET Tenants}
      BY <3>1
    <3>2. bill' = [bill EXCEPT ![b] = run] /\ UNCHANGED <<deleted, invoice, doubtful>>
      BY <2>2 DEF ListTenants, BillingTypes
    <3> HIDE DEF totals, ts
    <3>3. run \in Runs
      BY <2>0, <3>1, <3>4 DEF Runs
    <3>. QED
      BY <1>1, <3>2, <3>3
  <2>3. ASSUME NEW t \in Tenants, ReadTotals(b, t) PROVE BillingTypes'
    <3> DEFINE n == Total(t, bill[b].period)
               run == [bill[b] EXCEPT !.tenant = t, !.todo = @ \ {t}, !.milli = n]
    <3>1. n \in Nat
      BY <1>0, TotalType
    <3>2. bill' = [bill EXCEPT ![b] = run] /\ UNCHANGED <<deleted, invoice, doubtful>>
      BY <2>3 DEF ReadTotals, BillingTypes
    <3> HIDE DEF n
    <3>3. run \in Runs
      BY <2>0, <3>1 DEF Runs
    <3>. QED
      BY <1>1, <3>2, <3>3
  <2>4. CASE UpsertInvoice(b)
    <3> DEFINE a == InHand(b)
    <3>1. /\ invoice' = [invoice EXCEPT ![a] = Upserted(@, bill[b].milli)]
          /\ deleted' = deleted
          /\ doubtful' = doubtful \cup {a} \/ doubtful' = doubtful \ {a}
          /\ a \in Tenants \X Periods /\ bill[b].milli \in Nat
      BY <2>0, <2>4 DEF UpsertInvoice, BillingTypes, Runs, InHand
    <3>2. [bill[b] EXCEPT !.tenant = NoTenant, !.milli = 0, !.overtaken = FALSE] \in Runs
      BY <2>0 DEF Runs
    <3>3. ASSUME NEW c \in Billers, c # b PROVE bill'[c] \in Runs
      <4>1. PICK o \in BOOLEAN : bill'[c] = [bill[c] EXCEPT !.overtaken = o]
        <5>1. bill[c].overtaken \in BOOLEAN
          BY DEF BillingTypes, Runs
        <5>2. bill'[c] = [bill[c] EXCEPT !.overtaken = bill[c].overtaken \/ InHand(c) = InHand(b)]
          BY <2>4, <3>3 DEF UpsertInvoice
        <5>3. (bill[c].overtaken \/ InHand(c) = InHand(b)) \in BOOLEAN
          BY <5>1, Zenon
        <5>. QED
          BY <5>2, <5>3
      <4>2. bill[c] \in Runs
        BY DEF BillingTypes
      <4>. QED
        BY <4>1, <4>2 DEF Runs
    <3>4. bill' \in [Billers -> Runs]
      <4>1. bill' = [c \in Billers |-> bill'[c]]
        BY <2>4 DEF UpsertInvoice
      <4>2. bill'[b] \in Runs
        BY <2>4, <3>2 DEF UpsertInvoice
      <4>3. \A c \in Billers : bill'[c] \in Runs
        BY <3>3, <4>2
      <4>. QED
        BY <4>1, <4>3
    <3>5. invoice' \in [Tenants \X Periods -> [status : {"none", "pending", "paid"}, milli : Nat]]
      BY <3>1 DEF BillingTypes, Upserted
    <3>6. doubtful' \subseteq Tenants \X Periods
      BY <3>1 DEF BillingTypes
    <3>. QED
      BY <1>0, <3>1, <3>4, <3>5, <3>6 DEF BillingTypes
  <2>5. CASE Answer(b)
    <3>1. [bill[b] EXCEPT !.at = "answered"] \in Runs
      BY <2>0 DEF Runs
    <3>. QED
      BY <1>1, <2>5, <3>1 DEF Answer
  <2>6. CASE Reset(b) \/ BillingFails(b) \/ FlushFails(b)
    <3>1. bill' = [bill EXCEPT ![b] = NoRun(bill[b].period)] /\ UNCHANGED <<deleted, invoice, doubtful>>
      BY <2>6 DEF Reset, BillingFails, FlushFails
    <3>. QED
      BY <1>1, <2>0, <3>1
  <2>. QED
    BY <1>2, <2>1, <2>2, <2>3, <2>4, <2>5, <2>6 DEF BillingStep
<1>3. ASSUME NEW t \in Tenants, NEW p \in Periods, MarkPaid(t, p) PROVE BillingTypes'
  BY <1>0, <1>3 DEF MarkPaid, BillingTypes
<1>4. ASSUME NEW t \in Tenants, DeleteTenant(t) PROVE BillingTypes'
  BY <1>0, <1>4 DEF DeleteTenant, BillingTypes
<1>5. CASE MeterStep \/ UNCHANGED allVars
  BY <1>0, <1>5 DEF MeterStep, allVars, billingVars, BillingTypes
<1>. QED
  BY <1>2, <1>3, <1>4, <1>5 DEF BillingNext

(* A step of one run changes no other, but for telling those that hold the *)
(* invoice it writes that they are overtaken.                              *)
SameRun(r, s) ==
    /\ r.at = s.at /\ r.period = s.period /\ r.todo = s.todo /\ r.tenant = s.tenant
    /\ r.milli = s.milli /\ r.listed = s.listed

LEMMA RunSteps ==
    ASSUME BillingTypes, NEW b \in Billers, BillingStep(b)
    PROVE  /\ \A c \in Billers \ {b} : SameRun(bill'[c], bill[c])
           /\ UpsertInvoice(b) \/ (/\ \A c \in Billers \ {b} : bill'[c] = bill[c]
                                   /\ invoice' = invoice /\ doubtful' = doubtful)
<1>1. CASE UpsertInvoice(b)
  <2>1. ASSUME NEW c \in Billers \ {b} PROVE SameRun(bill'[c], bill[c])
    <3>1. \E o : bill'[c] = [bill[c] EXCEPT !.overtaken = o]
      BY <1>1, <2>1 DEF UpsertInvoice
    <3>2. bill[c] \in Runs
      BY DEF BillingTypes
    <3>. QED
      BY <3>1, <3>2 DEF SameRun, Runs
  <2>. QED
    BY <1>1, <2>1
<1>2. CASE ~ UpsertInvoice(b)
  <2>1. /\ \E run : bill' = [bill EXCEPT ![b] = run]
        /\ invoice' = invoice /\ doubtful' = doubtful
    <3>1. ASSUME StartBilling(b) PROVE \E run : bill' = [bill EXCEPT ![b] = run]
      BY <3>1 DEF StartBilling
    <3>2. ASSUME ListTenants(b) PROVE \E run : bill' = [bill EXCEPT ![b] = run]
      BY <3>2 DEF ListTenants
    <3>3. ASSUME Answer(b) PROVE \E run : bill' = [bill EXCEPT ![b] = run]
      BY <3>3 DEF Answer
    <3>4. ASSUME Reset(b) \/ BillingFails(b) \/ FlushFails(b)
          PROVE  \E run : bill' = [bill EXCEPT ![b] = run]
      BY <3>4 DEF Reset, BillingFails, FlushFails
    <3>5. ASSUME NEW t \in Tenants, ReadTotals(b, t) PROVE \E run : bill' = [bill EXCEPT ![b] = run]
      BY <3>5 DEF ReadTotals
    <3>6. invoice' = invoice /\ doubtful' = doubtful
      BY <1>2 DEF BillingStep, StartBilling, ListTenants, Answer, Reset, BillingFails, FlushFails, ReadTotals
    <3>. QED
      BY <1>2, <3>1, <3>2, <3>3, <3>4, <3>5, <3>6 DEF BillingStep
  <2>. QED
    BY <2>1 DEF BillingTypes, SameRun
<1>. QED
  BY <1>1, <1>2

LEMMA OtherSteps ==
    ASSUME BillingTypes, [BillingNext]_allVars, \A b \in Billers : ~BillingStep(b)
    PROVE  /\ bill' = bill /\ doubtful' = doubtful
           /\ invoice' = invoice \/ \E t \in Tenants, p \in Periods : MarkPaid(t, p)
BY DEF BillingNext, MeterStep, MarkPaid, DeleteTenant, allVars, billingVars

(* What each step makes of the run that takes it.                          *)
Restarted(b) ==
    bill'[b].tenant = NoTenant /\ bill'[b].at \in {"off", "flush"}

Lists(b) ==
    /\ bill[b].at = "flush" /\ bill'[b].at = "bill" /\ bill'[b].period = bill[b].period
    /\ bill'[b].tenant = bill[b].tenant
    /\ bill'[b].todo = Tenants \ deleted
    /\ bill'[b].listed = [t \in Tenants \ deleted |-> Total(t, bill[b].period)]

Reads(b) ==
    /\ bill[b].at = "bill" /\ bill'[b].at = "bill" /\ bill[b].tenant = NoTenant
    /\ bill'[b].period = bill[b].period /\ bill'[b].listed = bill[b].listed
    /\ bill'[b].tenant \in Tenants
    /\ bill'[b].todo = bill[b].todo \ {bill'[b].tenant}
    /\ bill'[b].milli = Total(bill'[b].tenant, bill[b].period)

Writes(b) ==
    /\ bill[b].tenant # NoTenant /\ bill'[b].tenant = NoTenant
    /\ bill'[b].at = bill[b].at /\ bill'[b].period = bill[b].period
    /\ bill'[b].todo = bill[b].todo /\ bill'[b].listed = bill[b].listed
    /\ invoice' = [invoice EXCEPT ![InHand(b)] = Upserted(@, bill[b].milli)]
    /\ doubtful' = IF bill[b].overtaken THEN doubtful \cup {InHand(b)} ELSE doubtful \ {InHand(b)}
    /\ \A c \in Billers \ {b} : bill'[c].overtaken = (bill[c].overtaken \/ InHand(c) = InHand(b))

Answers(b) ==
    /\ bill[b].at = "bill" /\ bill'[b].at = "answered"
    /\ bill[b].tenant = NoTenant /\ bill'[b].tenant = NoTenant
    /\ bill[b].todo = {} /\ bill'[b].todo = {}
    /\ bill'[b].period = bill[b].period /\ bill'[b].listed = bill[b].listed

Keeps(b) ==
    /\ invoice' = invoice /\ doubtful' = doubtful
    /\ \A c \in Billers \ {b} : bill'[c] = bill[c]

LEMMA OwnRun ==
    ASSUME BillingTypes, NEW b \in Billers, BillingStep(b)
    PROVE  \/ Keeps(b) /\ (Restarted(b) \/ Lists(b) \/ Reads(b) \/ Answers(b))
           \/ Writes(b)
<1>0. bill \in [Billers -> Runs] /\ bill[b] \in Runs
  BY DEF BillingTypes
<1> USE DEF Runs
<1>k. UpsertInvoice(b) \/ Keeps(b)
  BY RunSteps DEF Keeps
<1>1. CASE StartBilling(b)
  <2>1. PICK p \in Periods : bill' = [bill EXCEPT ![b] = [NoRun(p) EXCEPT !.at = "flush"]]
    BY <1>1 DEF StartBilling
  <2>2. Restarted(b)
    BY <1>0, <2>1 DEF NoRun, Restarted
  <2>3. invoice' = invoice /\ doubtful' = doubtful
    BY <1>1 DEF StartBilling
  <2>4. \A c \in Billers \ {b} : bill'[c] = bill[c]
    BY <1>0, <2>1
  <2>. QED
    BY <2>2, <2>3, <2>4 DEF Keeps
<1>2. CASE ListTenants(b)
  <2> DEFINE totals == [t \in Tenants \ deleted |-> Total(t, bill[b].period)]
  <2>1. /\ bill' = [bill EXCEPT ![b].at = "bill", ![b].todo = Tenants \ deleted,
                                ![b].listed = totals]
        /\ invoice' = invoice /\ doubtful' = doubtful /\ bill[b].at = "flush"
    BY <1>2 DEF ListTenants
  <2> HIDE DEF totals
  <2>2. /\ bill'[b].at = "bill" /\ bill'[b].period = bill[b].period
        /\ bill'[b].tenant = bill[b].tenant
        /\ bill'[b].todo = Tenants \ deleted /\ bill'[b].listed = totals
        /\ \A c \in Billers \ {b} : bill'[c] = bill[c]
    BY <1>0, <2>1
  <2>. QED
    BY <2>1, <2>2 DEF totals, Lists, Keeps
<1>3. ASSUME NEW t \in Tenants, ReadTotals(b, t)
      PROVE  Keeps(b) /\ Reads(b)
  <2> DEFINE n == Total(t, bill[b].period)
  <2>1. /\ bill[b].at = "bill" /\ bill[b].tenant = NoTenant
        /\ bill' = [bill EXCEPT ![b].tenant = t, ![b].todo = @ \ {t}, ![b].milli = n]
        /\ invoice' = invoice /\ doubtful' = doubtful
    BY <1>3 DEF ReadTotals
  <2> HIDE DEF n
  <2>2. /\ bill'[b].at = "bill" /\ bill'[b].period = bill[b].period
        /\ bill'[b].listed = bill[b].listed /\ bill'[b].tenant = t
        /\ bill'[b].todo = bill[b].todo \ {t} /\ bill'[b].milli = n
        /\ \A c \in Billers \ {b} : bill'[c] = bill[c]
    BY <1>0, <2>1
  <2>. QED
    BY <2>1, <2>2 DEF n, Reads, Keeps
<1>4. CASE UpsertInvoice(b)
  <2>1. bill'[b] = [bill[b] EXCEPT !.tenant = NoTenant, !.milli = 0, !.overtaken = FALSE]
    BY <1>4 DEF UpsertInvoice
  <2>2. /\ bill'[b].tenant = NoTenant
        /\ bill'[b].at = bill[b].at /\ bill'[b].period = bill[b].period
        /\ bill'[b].todo = bill[b].todo /\ bill'[b].listed = bill[b].listed
    BY <1>0, <2>1
  <2>3. ASSUME NEW c \in Billers \ {b}
        PROVE  bill'[c].overtaken = (bill[c].overtaken \/ InHand(c) = InHand(b))
    <3>1. bill'[c] = [bill[c] EXCEPT !.overtaken = @ \/ InHand(c) = InHand(b)]
      BY <1>4, <2>3 DEF UpsertInvoice
    <3>2. bill[c] \in Runs
      BY <1>0
    <3>. QED
      BY <3>1, <3>2
  <2>. QED
    BY <1>4, <2>2, <2>3 DEF UpsertInvoice, Writes
<1>5. CASE Answer(b)
  <2>1. /\ bill' = [bill EXCEPT ![b].at = "answered"] /\ invoice' = invoice /\ doubtful' = doubtful
        /\ bill[b].at = "bill" /\ bill[b].todo = {} /\ bill[b].tenant = NoTenant
    BY <1>5 DEF Answer
  <2>. QED
    BY <1>0, <2>1 DEF Answers, Keeps
<1>6. CASE Reset(b) \/ BillingFails(b) \/ FlushFails(b)
  <2>1. /\ bill' = [bill EXCEPT ![b] = NoRun(bill[b].period)]
        /\ invoice' = invoice /\ doubtful' = doubtful
    BY <1>6 DEF Reset, BillingFails, FlushFails
  <2>. QED
    BY <1>0, <2>1 DEF NoRun, Restarted, Keeps
<1>. QED
  BY <1>1, <1>2, <1>3, <1>4, <1>5, <1>6 DEF BillingStep

LEMMA MarkPaidFacts ==
    ASSUME BillingTypes, NEW t \in Tenants, NEW p \in Periods, MarkPaid(t, p)
    PROVE  \A a \in Tenants \X Periods :
              /\ invoice'[a].milli = invoice[a].milli
              /\ invoice[a].status = "paid" => invoice'[a] = invoice[a]
              /\ invoice'[a].status \in {invoice[a].status, "paid"}
BY DEF MarkPaid, BillingTypes

LEMMA UpsertFacts ==
    ASSUME BillingTypes, NEW a \in Tenants \X Periods, NEW n,
           invoice' = [invoice EXCEPT ![a] = Upserted(@, n)]
    PROVE  /\ \A c \in Tenants \X Periods : c # a => invoice'[c] = invoice[c]
           /\ invoice[a].status = "paid" => invoice'[a] = invoice[a]
           /\ invoice[a].status # "paid" => invoice'[a] = [status |-> "pending", milli |-> n]
BY DEF BillingTypes, Upserted

LEMMA InitAnyRuns == BillingInit => AnyRunsInv
<1> SUFFICES ASSUME BillingInit PROVE AnyRunsInv
  OBVIOUS
<1>1. PipelineInv /\ PipelineTypeOK
  BY InitPipelineInv DEF BillingInit, PipelineInv
<1> DEFINE p0 == CHOOSE p \in Periods : TRUE
<1>2. p0 \in Periods
  BY BillingAssumption
<1> HIDE DEF p0
<1>3. NoRun(p0) \in Runs
  <2>1. [t \in {} |-> 0] \in [{} -> Nat]
    OBVIOUS
  <2>. QED
    BY <1>2, <2>1 DEF NoRun, Runs
<1>4. bill = [b \in Billers |-> NoRun(p0)]
  BY DEF BillingInit, BillingVarsInit, p0
<1>5. BillingTypes
  BY <1>1, <1>3, <1>4 DEF BillingInit, BillingVarsInit, BillingTypes, NoInvoice
<1>6. \A b \in Billers : bill[b].tenant = NoTenant
  BY <1>4 DEF NoRun
<1>7. \A t \in Tenants, p \in Periods : invoice[<<t, p>>].milli <= Total(t, p)
  <2> TAKE t \in Tenants, p \in Periods
  <2>1. invoice[<<t, p>>].milli = 0
    BY DEF BillingInit, BillingVarsInit, NoInvoice
  <2>2. Total(t, p) \in Nat
    BY <1>1, TotalType
  <2>. QED
    BY <2>1, <2>2
<1>. QED
  BY <1>5, <1>6, <1>7 DEF AnyRunsInv, TenantInHand, InvoiceWithinRollups

(* What writing a total in hand does to the invoices.                      *)
LEMMA WriteFacts ==
    ASSUME BillingTypes, NEW b \in Billers, Writes(b)
    PROVE  /\ InHand(b) \in Tenants \X Periods
           /\ \A a \in Tenants \X Periods : a # InHand(b) => invoice'[a] = invoice[a]
           /\ LET a == InHand(b) IN
              /\ invoice[a].status = "paid" => invoice'[a] = invoice[a]
              /\ invoice[a].status # "paid" =>
                   invoice'[a].status = "pending" /\ invoice'[a].milli = bill[b].milli
<1> DEFINE a == InHand(b)
           n == bill[b].milli
<1>1. a \in Tenants \X Periods /\ invoice' = [invoice EXCEPT ![a] = Upserted(@, n)]
  BY DEF Writes, InHand, BillingTypes, Runs
<1> HIDE DEF a, n
<1>2. /\ \A c \in Tenants \X Periods : c # a => invoice'[c] = invoice[c]
      /\ invoice[a].status = "paid" => invoice'[a] = invoice[a]
      /\ invoice[a].status # "paid" => invoice'[a] = [status |-> "pending", milli |-> n]
  BY <1>1, UpsertFacts
<1>. QED
  BY <1>1, <1>2 DEF a, n

LEMMA NextAnyRuns == AnyRunsInv /\ [BillingNext]_allVars => AnyRunsInv'
<1> SUFFICES ASSUME AnyRunsInv, [BillingNext]_allVars PROVE AnyRunsInv'
  OBVIOUS
<1>0. /\ BillingTypes /\ BillingTypes' /\ TenantInHand /\ InvoiceWithinRollups
      /\ PipelineTypeOK /\ PipelineTypeOK'
  BY NextBillingTypes DEF AnyRunsInv, BillingTypes, PipelineInv
<1>1. /\ \A t, p : Total(t, p) \in Nat /\ Total(t, p)' \in Nat /\ Total(t, p) <= Total(t, p)'
  BY <1>0, PipelineUnderneath, TotalType, TotalTypeNext, TotalGrows
<1>2. ASSUME NEW b \in Billers PROVE bill[b] \in Runs /\ bill'[b] \in Runs
  BY <1>0 DEF BillingTypes
<1>c. \/ \E b \in Billers : BillingStep(b)
      \/ \A b \in Billers : ~ BillingStep(b)
  OBVIOUS
<1>3. ASSUME NEW b \in Billers, bill'[b].tenant # NoTenant
      PROVE  /\ bill'[b].at = "bill"
             /\ \/ SameRun(bill'[b], bill[b])
                \/ Reads(b)
  <2>1. CASE BillingStep(b)
    BY <1>0, <1>3, <2>1, OwnRun DEF TenantInHand, Restarted, Lists, Reads, Writes, Answers
  <2>2. CASE ~BillingStep(b)
    <3>1. SameRun(bill'[b], bill[b])
      BY <1>0, <1>c, <2>2, RunSteps, OtherSteps DEF SameRun
    <3>. QED
      BY <1>0, <1>3, <3>1 DEF TenantInHand, SameRun
  <2>. QED
    BY <2>1, <2>2
<1>4. ASSUME NEW t \in Tenants, NEW p \in Periods
      PROVE  invoice'[<<t, p>>].milli <= Total(t, p)'
  <2>1. /\ invoice[<<t, p>>].milli <= Total(t, p) /\ invoice[<<t, p>>].milli \in Nat
        /\ invoice'[<<t, p>>].milli \in Nat
        /\ Total(t, p) \in Nat /\ Total(t, p)' \in Nat /\ Total(t, p) <= Total(t, p)'
    BY <1>0, <1>1 DEF InvoiceWithinRollups, BillingTypes
  <2>2. ASSUME NEW b \in Billers, Writes(b)
        PROVE  \/ invoice'[<<t, p>>].milli = invoice[<<t, p>>].milli
               \/ invoice'[<<t, p>>].milli <= Total(t, p)
    <3>1. <<t, p>> = InHand(b) => bill[b].milli <= Total(t, p)
      BY <1>0, <2>2 DEF InvoiceWithinRollups, Writes, InHand
    <3>. QED
      BY <1>0, <2>2, <3>1, WriteFacts
  <2>3. invoice'[<<t, p>>].milli = invoice[<<t, p>>].milli \/ \E b \in Billers : Writes(b)
    BY <1>0, <1>c, OwnRun, OtherSteps, MarkPaidFacts DEF Keeps
  <2>. QED
    BY <2>1, <2>2, <2>3
<1>5. ASSUME NEW b \in Billers, NEW t, NEW p, t = bill'[b].tenant, p = bill'[b].period,
             t # NoTenant
      PROVE  bill'[b].milli <= Total(t, p)'
  <2>1. /\ Total(t, p) \in Nat /\ Total(t, p)' \in Nat /\ Total(t, p) <= Total(t, p)'
        /\ bill'[b].milli \in Nat
    BY <1>1, <1>2 DEF Runs
  <2>2. CASE SameRun(bill'[b], bill[b])
    <3>1. bill[b].milli <= Total(t, p) /\ bill'[b].milli = bill[b].milli
      BY <1>0, <1>5, <2>2 DEF InvoiceWithinRollups, SameRun
    <3>. QED
      BY <2>1, <3>1
  <2>3. CASE Reads(b)
    <3>1. bill'[b].milli = Total(bill'[b].tenant, bill[b].period) /\ bill'[b].period = bill[b].period
      BY <2>3 DEF Reads
    <3>. QED
      BY <1>5, <2>1, <3>1
  <2>. QED
    BY <1>3, <1>5, <2>2, <2>3
<1>6. InvoiceWithinRollups'
  BY <1>4, <1>5 DEF InvoiceWithinRollups, Total, TenantOfEvent
<1>7. TenantInHand'
  BY <1>3 DEF TenantInHand
<1>. QED
  BY <1>0, <1>6, <1>7 DEF AnyRunsInv

(* However many billing runs overlap with each other and with the flushes, *)
(* no invoice, and no total a run is about to write, is more than the      *)
(* rollups hold (control_plane.run_billing, billing_engine.run_billing).   *)
THEOREM InvoicesWithin == BillingSpec => [](BillingTypeOK /\ InvoiceWithinRollups)
<1>1. AnyRunsInv => BillingTypeOK /\ InvoiceWithinRollups
  BY DEF AnyRunsInv, BillingTypes, BillingTypeOK, Runs
<1>. QED
  BY <1>1, InitAnyRuns, NextAnyRuns, PTL DEF BillingSpec

LEMMA InitRuns == BillingInit => RunsInv
<1> SUFFICES ASSUME BillingInit PROVE RunsInv
  OBVIOUS
<1>1. \A b \in Billers : bill[b].tenant = NoTenant /\ bill[b].at = "off" /\ bill[b].todo = {}
  BY DEF BillingInit, BillingVarsInit, NoRun
<1>. QED
  BY <1>1, InitAnyRuns
     DEF RunsInv, ListedWithin, HandAfterList, HandIsNewer, HandAfterOthers, PastSettled,
         AnsweredDone, Past, Listed, Holds

(* What the steps do to the parts of the invariant: how a tenant comes to  *)
(* be listed or left behind, and a total to be held.                       *)
LEMMA ListedStep ==
    ASSUME AnyRunsInv, [BillingNext]_allVars, NEW b \in Billers, NEW t \in Tenants, Listed(b, t)'
    PROVE  /\ bill'[b].period = bill[b].period
           /\ \/ /\ Listed(b, t) /\ bill'[b].listed = bill[b].listed
                 /\ \/ SameRun(bill'[b], bill[b]) \/ Reads(b) \/ Writes(b) \/ Answers(b)
              \/ Lists(b) /\ bill'[b].listed[t] = Total(t, bill[b].period)
<1>0. BillingTypes
  BY DEF AnyRunsInv
<1>1. CASE BillingStep(b)
  <2>1. ~ Restarted(b)
    BY DEF Restarted, Listed
  <2>2. CASE Lists(b)
    BY <2>2 DEF Lists, Listed
  <2>3. CASE Writes(b)
    BY <2>3 DEF Writes, Listed
  <2>4. CASE Reads(b) \/ Answers(b)
    BY <2>4 DEF Reads, Answers, Listed
  <2>. QED
    BY <1>0, <1>1, <2>1, <2>2, <2>3, <2>4, OwnRun
<1>2. CASE ~ BillingStep(b)
  <2>1. SameRun(bill'[b], bill[b])
    BY <1>0, <1>2, RunSteps, OtherSteps DEF SameRun
  <2>. QED
    BY <2>1 DEF SameRun, Listed
<1>. QED
  BY <1>1, <1>2

LEMMA PastStep ==
    ASSUME AnyRunsInv, [BillingNext]_allVars, NEW b \in Billers, NEW t \in Tenants, Past(b, t)'
    PROVE  /\ bill'[b].period = bill[b].period /\ bill'[b].listed = bill[b].listed /\ Listed(b, t)
           /\ Past(b, t) \/ (Writes(b) /\ t = bill[b].tenant)
<1>0. BillingTypes /\ TenantInHand
  BY DEF AnyRunsInv
<1>1. Listed(b, t)' /\ t \notin bill'[b].todo /\ t # bill'[b].tenant
  BY DEF Past
<1>2. ~ Lists(b)
  BY <1>1 DEF Lists, Listed
<1>3. /\ Listed(b, t) /\ bill'[b].listed = bill[b].listed /\ bill'[b].period = bill[b].period
      /\ SameRun(bill'[b], bill[b]) \/ Reads(b) \/ Writes(b) \/ Answers(b)
  BY <1>1, <1>2, ListedStep
<1>4. t # NoTenant
  BY BillingAssumption
<1>5. CASE SameRun(bill'[b], bill[b])
  BY <1>1, <1>3, <1>5 DEF SameRun, Past
<1>6. CASE Reads(b)
  BY <1>1, <1>3, <1>4, <1>6 DEF Reads, Past
<1>7. CASE Writes(b)
  BY <1>1, <1>3, <1>7 DEF Writes, Past
<1>8. CASE Answers(b)
  BY <1>1, <1>3, <1>4, <1>8 DEF Answers, Past
<1>. QED
  BY <1>3, <1>5, <1>6, <1>7, <1>8

(* What one step does to an invoice, however many runs there are.          *)
LEMMA InvoiceStep ==
    ASSUME BillingTypes, [BillingNext]_allVars, NEW a \in Tenants \X Periods
    PROVE  \/ /\ invoice'[a].milli = invoice[a].milli
              /\ invoice'[a].status \in {invoice[a].status, "paid"}
              /\ invoice[a].status = "paid" => invoice'[a] = invoice[a]
              /\ a \in doubtful <=> a \in doubtful'
           \/ \E b \in Billers :
                 /\ Writes(b) /\ a = InHand(b)
                 /\ \A c \in Billers \ {b} : SameRun(bill'[c], bill[c])
                 /\ invoice[a].status = "paid" => invoice'[a] = invoice[a]
                 /\ invoice[a].status # "paid" =>
                      invoice'[a].status = "pending" /\ invoice'[a].milli = bill[b].milli
<1>1. CASE \E b \in Billers : BillingStep(b)
  <2>1. PICK b \in Billers : BillingStep(b)
    BY <1>1
  <2>2. CASE Keeps(b)
    BY <2>2 DEF Keeps
  <2>3. CASE Writes(b)
    <3>1. /\ a # InHand(b) => invoice'[a] = invoice[a]
          /\ a = InHand(b) =>
               /\ invoice[a].status = "paid" => invoice'[a] = invoice[a]
               /\ invoice[a].status # "paid" =>
                    invoice'[a].status = "pending" /\ invoice'[a].milli = bill[b].milli
      BY <2>3, WriteFacts
    <3>2. a # InHand(b) => (a \in doubtful <=> a \in doubtful')
      BY <2>3 DEF Writes
    <3>3. \A c \in Billers \ {b} : SameRun(bill'[c], bill[c])
      BY <2>1, RunSteps
    <3>. QED
      BY <2>3, <3>1, <3>2, <3>3
  <2>. QED
    BY <2>1, <2>2, <2>3, OwnRun
<1>2. CASE \A b \in Billers : ~ BillingStep(b)
  <2>1. doubtful' = doubtful /\ (invoice' = invoice \/ \E t \in Tenants, p \in Periods : MarkPaid(t, p))
    BY <1>2, OtherSteps
  <2>. QED
    BY <2>1, MarkPaidFacts
<1>. QED
  BY <1>1, <1>2

LEMMA HoldsStep ==
    ASSUME AnyRunsInv, [BillingNext]_allVars, NEW c \in Billers, NEW t \in Tenants, NEW p \in Periods,
           Holds(c, t, p)'
    PROVE  \/ /\ Holds(c, t, p) /\ bill'[c].milli = bill[c].milli
              /\ invoice'[<<t, p>>].milli = invoice[<<t, p>>].milli
           \/ invoice' = invoice /\ bill'[c].milli = Total(t, p)
<1>0. BillingTypes /\ TenantInHand
  BY DEF AnyRunsInv
<1>1. bill'[c].tenant = t /\ t # NoTenant /\ bill'[c].period = p /\ ~ bill'[c].overtaken
  BY DEF Holds
<1>2. CASE BillingStep(c)
  <2>1. ~ Restarted(c) /\ ~ Writes(c) /\ ~ Answers(c)
    BY <1>1 DEF Restarted, Writes, Answers
  <2>2. ~ Lists(c)
    BY <1>0, <1>1 DEF Lists, TenantInHand
  <2>3. Keeps(c) /\ Reads(c)
    BY <1>0, <1>2, <2>1, <2>2, OwnRun
  <2>4. bill'[c].milli = Total(t, p)
    BY <1>1, <2>3 DEF Reads
  <2>. QED
    BY <2>3, <2>4 DEF Keeps
<1>3. CASE ~ BillingStep(c)
  <2>1. SameRun(bill'[c], bill[c])
    BY <1>0, <1>3, RunSteps, OtherSteps DEF SameRun
  <2>2. /\ bill[c].tenant = t /\ bill[c].period = p /\ bill'[c].milli = bill[c].milli
        /\ InHand(c) = <<t, p>> /\ <<t, p>> \in Tenants \X Periods
    BY <1>1, <2>1 DEF SameRun, InHand
  <2>3. ASSUME NEW b \in Billers, BillingStep(b), Writes(b)
        PROVE  InHand(b) # <<t, p>> /\ ~ bill[c].overtaken
    <3>1. bill'[c].overtaken = (bill[c].overtaken \/ InHand(c) = InHand(b))
      BY <1>3, <2>3 DEF Writes
    <3>. QED
      BY <1>1, <2>2, <3>1
  <2>4. ASSUME NEW b \in Billers, BillingStep(b), Keeps(b)
        PROVE  invoice' = invoice /\ ~ bill[c].overtaken
    BY <1>1, <1>3, <2>4 DEF Keeps
  <2>5. ASSUME NEW b \in Billers, BillingStep(b)
        PROVE  invoice'[<<t, p>>].milli = invoice[<<t, p>>].milli /\ ~ bill[c].overtaken
    BY <1>0, <2>2, <2>3, <2>4, <2>5, OwnRun, WriteFacts
  <2>6. ASSUME \A b \in Billers : ~ BillingStep(b)
        PROVE  invoice'[<<t, p>>].milli = invoice[<<t, p>>].milli /\ ~ bill[c].overtaken
    BY <1>0, <1>1, <2>2, <2>6, OtherSteps, MarkPaidFacts
  <2>. QED
    BY <1>1, <2>2, <2>5, <2>6 DEF Holds
<1>. QED
  BY <1>2, <1>3

LEMMA NextRuns == RunsInv /\ [BillingNext]_allVars => RunsInv'
<1> SUFFICES ASSUME RunsInv, [BillingNext]_allVars PROVE RunsInv'
  OBVIOUS
<1>0. /\ AnyRunsInv /\ AnyRunsInv' /\ BillingTypes /\ BillingTypes' /\ TenantInHand
      /\ InvoiceWithinRollups /\ ListedWithin /\ HandAfterList /\ HandIsNewer /\ HandAfterOthers
      /\ PastSettled /\ AnsweredDone /\ PipelineTypeOK /\ PipelineTypeOK'
  BY NextAnyRuns DEF RunsInv, AnyRunsInv, BillingTypes, PipelineInv
<1>1. /\ \A t, p : Total(t, p) \in Nat /\ Total(t, p)' \in Nat /\ Total(t, p) <= Total(t, p)'
  BY <1>0, PipelineUnderneath, TotalType, TotalTypeNext, TotalGrows
<1>2. ASSUME NEW b \in Billers
      PROVE  /\ bill[b].period \in Periods /\ bill'[b].period \in Periods
             /\ bill[b].milli \in Nat /\ bill'[b].milli \in Nat
             /\ bill[b].tenant \in Tenants \cup {NoTenant} /\ bill'[b].tenant \in Tenants \cup {NoTenant}
             /\ bill[b].overtaken \in BOOLEAN
             /\ \A t \in DOMAIN bill[b].listed : bill[b].listed[t] \in Nat
             /\ \A t \in DOMAIN bill'[b].listed : bill'[b].listed[t] \in Nat
  <2>1. bill[b] \in Runs /\ bill'[b] \in Runs
    BY <1>0 DEF BillingTypes
  <2>. QED
    BY <2>1 DEF Runs
<1>3. ASSUME NEW b \in Billers, NEW t \in Tenants, Listed(b, t)', NEW p \in Periods, p = bill'[b].period
      PROVE  bill'[b].listed[t] <= Total(t, p) /\ bill'[b].listed[t] \in Nat
  <2>1. bill'[b].listed[t] \in Nat
    BY <1>2, <1>3 DEF Listed
  <2>2. CASE Listed(b, t) /\ bill'[b].listed = bill[b].listed /\ bill'[b].period = bill[b].period
    BY <1>0, <1>3, <2>1, <2>2 DEF ListedWithin
  <2>3. CASE Lists(b) /\ bill'[b].listed[t] = Total(t, bill[b].period) /\ bill'[b].period = bill[b].period
    BY <1>1, <1>3, <2>3
  <2>. QED
    BY <1>0, <1>3, <2>1, <2>2, <2>3, ListedStep
<1>4. ListedWithin'
  <2> SUFFICES ASSUME NEW b \in Billers, NEW t \in Tenants, Listed(b, t)', NEW p \in Periods,
                      p = bill'[b].period
               PROVE  bill'[b].listed[t] <= Total(t, p)'
    BY <1>2 DEF ListedWithin, Total, TenantOfEvent
  <2>1. bill'[b].listed[t] <= Total(t, p) /\ bill'[b].listed[t] \in Nat
    BY <1>3
  <2> DEFINE m == Total(t, p)
             n == Total(t, p)'
  <2>2. m \in Nat /\ n \in Nat /\ m <= n
    BY <1>1
  <2>3. bill'[b].listed[t] <= m
    BY <2>1
  <2> HIDE DEF m, n
  <2>4. bill'[b].listed[t] <= n
    BY <2>1, <2>2, <2>3
  <2>. QED
    BY <2>4 DEF n
<1>5. HandAfterList'
  <2> SUFFICES ASSUME NEW b \in Billers, NEW t \in Tenants, bill'[b].tenant = t, Listed(b, t)'
               PROVE  bill'[b].listed[t] <= bill'[b].milli
    BY <1>2 DEF HandAfterList, Listed
  <2>0. t # NoTenant
    BY BillingAssumption
  <2>1. CASE SameRun(bill'[b], bill[b])
    <3>1. Listed(b, t) /\ bill[b].tenant = t
      BY <2>1 DEF SameRun, Listed
    <3>. QED
      BY <1>0, <2>0, <2>1, <3>1 DEF SameRun, HandAfterList
  <2>2. CASE Reads(b)
    <3>1. bill'[b].milli = Total(t, bill[b].period) /\ bill'[b].period = bill[b].period
      BY <2>2 DEF Reads
    <3>. QED
      BY <1>2, <1>3, <3>1
  <2>3. ~ Writes(b) /\ ~ Answers(b)
    BY <2>0 DEF Writes, Answers
  <2>4. ~ Lists(b)
    BY <1>0, <2>0 DEF Lists, TenantInHand
  <2>. QED
    BY <1>0, <2>1, <2>2, <2>3, <2>4, ListedStep
<1>6. HandIsNewer'
  <2> SUFFICES ASSUME NEW c \in Billers, NEW t \in Tenants, NEW p \in Periods, Holds(c, t, p)'
               PROVE  invoice'[<<t, p>>].milli <= bill'[c].milli
    BY DEF HandIsNewer
  <2>1. CASE /\ Holds(c, t, p) /\ bill'[c].milli = bill[c].milli
             /\ invoice'[<<t, p>>].milli = invoice[<<t, p>>].milli
    BY <1>0, <2>1 DEF HandIsNewer
  <2>2. CASE invoice' = invoice /\ bill'[c].milli = Total(t, p)
    BY <1>0, <2>2 DEF InvoiceWithinRollups
  <2>. QED
    BY <1>0, <2>1, <2>2, HoldsStep
<1>7. HandAfterOthers'
  <2> SUFFICES ASSUME NEW b \in Billers, NEW c \in Billers, NEW t \in Tenants, NEW p \in Periods,
                      p = bill'[b].period, Past(b, t)', Holds(c, t, p)'
               PROVE  bill'[b].listed[t] <= bill'[c].milli
    BY <1>2 DEF HandAfterOthers, Holds
  <2>1. /\ p = bill[b].period /\ bill'[b].listed = bill[b].listed /\ Listed(b, t)
        /\ Past(b, t) \/ (Writes(b) /\ t = bill[b].tenant)
    BY <1>0, PastStep
  <2>2. CASE invoice' = invoice /\ bill'[c].milli = Total(t, p)
    BY <1>0, <2>1, <2>2 DEF ListedWithin
  <2>3. CASE Holds(c, t, p) /\ bill'[c].milli = bill[c].milli
    <3>1. CASE Past(b, t)
      BY <1>0, <2>1, <2>3, <3>1 DEF HandAfterOthers
    <3>2. CASE Writes(b) /\ t = bill[b].tenant
      <4>1. c # b
        BY <3>2 DEF Writes, Holds
      <4>2. bill'[c].overtaken = (bill[c].overtaken \/ InHand(c) = InHand(b))
        BY <3>2, <4>1 DEF Writes
      <4>3. InHand(c) = InHand(b)
        BY <2>1, <2>3, <3>2 DEF InHand, Holds
      <4>4. bill'[c].overtaken
        BY <4>2, <4>3
      <4>. QED
        BY <4>4 DEF Holds
    <3>. QED
      BY <2>1, <3>1, <3>2
  <2>. QED
    BY <1>0, <2>2, <2>3, HoldsStep
<1>8. PastSettled'
  <2> SUFFICES ASSUME NEW b \in Billers, NEW t \in Tenants, Past(b, t)' PROVE Settled(b, t)'
    BY DEF PastSettled
  <2>p. PICK p \in Periods : p = bill[b].period
    BY <1>2
  <2>a. PICK a \in Tenants \X Periods : a = <<t, p>>
    OBVIOUS
  <2>n. PICK n \in Nat : n = bill[b].listed[t]
    <3>1. Listed(b, t)
      BY <1>0, PastStep
    <3>. QED
      BY <1>2, <3>1 DEF Listed
  <2>1. /\ bill'[b].period = p /\ bill'[b].listed = bill[b].listed /\ Listed(b, t)
        /\ Past(b, t) \/ (Writes(b) /\ t = bill[b].tenant)
    BY <1>0, <2>p, PastStep
  <2>2. SUFFICES \/ invoice'[a].status = "paid"
                 \/ invoice'[a].status = "pending" /\ invoice'[a].milli >= n
                 \/ a \in doubtful'
    BY <2>p, <2>a, <2>n, <2>1 DEF Settled
  <2>3. ASSUME NEW c \in Billers, Writes(c), a = InHand(c), bill[c].overtaken \/ n <= bill[c].milli
        PROVE  \/ invoice'[a].status = "paid"
               \/ invoice'[a].status = "pending" /\ invoice'[a].milli >= n
               \/ a \in doubtful'
    <3>1. CASE bill[c].overtaken
      BY <2>3, <3>1 DEF Writes
    <3>2. CASE n <= bill[c].milli
      <4>1. /\ invoice[a].status = "paid" => invoice'[a] = invoice[a]
            /\ invoice[a].status # "paid" =>
                 invoice'[a].status = "pending" /\ invoice'[a].milli = bill[c].milli
        BY <1>0, <2>3, WriteFacts
      <4>2. bill[c].milli \in Nat
        BY <1>2
      <4>. QED
        BY <3>2, <4>1, <4>2
    <3>. QED
      BY <2>3, <3>1, <3>2
  <2>4. CASE Writes(b) /\ t = bill[b].tenant
    <3>1. a = InHand(b) /\ n <= bill[b].milli
      BY <1>0, <2>p, <2>a, <2>n, <2>1, <2>4 DEF InHand, HandAfterList, Writes
    <3>. QED
      BY <2>3, <2>4, <3>1
  <2>5. CASE Past(b, t)
    <3>1. \/ invoice[a].status = "paid"
          \/ invoice[a].status = "pending" /\ invoice[a].milli >= n
          \/ a \in doubtful
      BY <1>0, <2>p, <2>a, <2>n, <2>5 DEF PastSettled, Settled
    <3>2. ASSUME NEW c \in Billers, Writes(c), a = InHand(c)
          PROVE  bill[c].overtaken \/ n <= bill[c].milli
      <4>1. ~ bill[c].overtaken => Holds(c, t, bill[b].period)
        BY <2>p, <2>a, <3>2 DEF Holds, InHand, Writes
      <4>. QED
        BY <1>0, <2>n, <2>5, <4>1 DEF HandAfterOthers
    <3>3. ASSUME invoice'[a].milli = invoice[a].milli,
                 invoice'[a].status \in {invoice[a].status, "paid"},
                 a \in doubtful <=> a \in doubtful'
          PROVE  \/ invoice'[a].status = "paid"
                 \/ invoice'[a].status = "pending" /\ invoice'[a].milli >= n
                 \/ a \in doubtful'
      BY <3>1, <3>3
    <3>. QED
      BY <1>0, <2>3, <3>2, <3>3, InvoiceStep
  <2>. QED
    BY <2>1, <2>4, <2>5
<1>9. AnsweredDone'
  <2> SUFFICES ASSUME NEW b \in Billers, bill'[b].at = "answered" PROVE bill'[b].todo = {}
    BY DEF AnsweredDone
  <2>1. CASE BillingStep(b)
    BY <1>0, <2>1, OwnRun DEF Restarted, Lists, Reads, Writes, Answers, TenantInHand
  <2>2. CASE ~ BillingStep(b)
    <3>1. SameRun(bill'[b], bill[b])
      BY <1>0, <2>2, RunSteps, OtherSteps DEF SameRun
    <3>. QED
      BY <1>0, <3>1 DEF SameRun, AnsweredDone
  <2>. QED
    BY <2>1, <2>2
<1>. QED
  BY <1>0, <1>4, <1>5, <1>6, <1>7, <1>8, <1>9 DEF RunsInv

LEMMA RunsEnough == RunsInv => BillingInv
<1> SUFFICES ASSUME RunsInv PROVE BillingInv
  OBVIOUS
<1>1. BillingTypes /\ TenantInHand /\ InvoiceWithinRollups /\ PastSettled /\ AnsweredDone
  BY DEF RunsInv, AnyRunsInv
<1>2. BillingTypeOK
  BY <1>1 DEF BillingTypes, BillingTypeOK, Runs
<1>3. ASSUME NEW b \in Billers, bill[b].at = "answered", NEW t \in DOMAIN bill[b].listed
      PROVE  Settled(b, t)
  <2>1. t \in Tenants /\ t # NoTenant
    BY <1>1, BillingAssumption DEF BillingTypes, Runs
  <2>2. bill[b].tenant = NoTenant /\ bill[b].todo = {}
    BY <1>1, <1>3 DEF TenantInHand, AnsweredDone
  <2>3. Past(b, t)
    BY <1>3, <2>1, <2>2 DEF Past, Listed
  <2>. QED
    BY <1>1, <2>1, <2>3 DEF PastSettled
<1>4. RunCoversRollups
  BY <1>3 DEF RunCoversRollups, Settled
<1>. QED
  BY <1>1, <1>2, <1>4 DEF BillingInv

(* However many runs there are, an answered one has left every tenant it   *)
(* listed with an invoice for at least what the rollups then held, unless  *)
(* the invoice was paid, or written last by a run that another overtook    *)
(* (billing_engine.run_billing, repo.upsert_invoice).                      *)
THEOREM BillingInvariant == BillingSpec => []BillingInv
BY InitRuns, NextRuns, RunsEnough, PTL DEF BillingSpec

(* No run, and no number of them, changes an invoice that has been paid.   *)
THEOREM PaidStays ==
    BillingSpec => [][\A a \in Tenants \X Periods :
                        invoice[a].status = "paid" => invoice'[a] = invoice[a]]_allVars
<1>1. ASSUME AnyRunsInv, [BillingNext]_allVars
      PROVE  [\A a \in Tenants \X Periods :
                 invoice[a].status = "paid" => invoice'[a] = invoice[a]]_allVars
  BY <1>1, InvoiceStep DEF AnyRunsInv
<1>. QED
  BY <1>1, InitAnyRuns, NextAnyRuns, PTL DEF BillingSpec

(* Nor does any put an invoice back to older totals, but a run that was    *)
(* overtaken between reading the totals and writing them ("re-running      *)
(* updates a still pending invoice").                                      *)
THEOREM OnlyOvertakenShrink == BillingSpec => InvoiceHistory
<1>1. ASSUME RunsInv, [BillingNext]_allVars
      PROVE  [\A a \in DOMAIN invoice :
                 /\ invoice[a].status = "paid" => invoice'[a] = invoice[a]
                 /\ invoice'[a].milli < invoice[a].milli =>
                      \E b \in Billers : bill[b].overtaken /\ InHand(b) = a]_allVars
  <2>0. BillingTypes /\ BillingTypes' /\ HandIsNewer
    BY <1>1, NextBillingTypes DEF RunsInv, AnyRunsInv
  <2> SUFFICES ASSUME NEW a \in Tenants \X Periods
               PROVE  /\ invoice[a].status = "paid" => invoice'[a] = invoice[a]
                      /\ invoice'[a].milli < invoice[a].milli =>
                           \E b \in Billers : bill[b].overtaken /\ InHand(b) = a
    BY <2>0 DEF BillingTypes
  <2>1. invoice[a].milli \in Nat /\ invoice'[a].milli \in Nat
    BY <2>0 DEF BillingTypes
  <2>2. ASSUME NEW b \in Billers, Writes(b), a = InHand(b), ~ bill[b].overtaken
        PROVE  invoice[a].milli <= bill[b].milli
    <3>1. /\ bill[b].tenant \in Tenants /\ bill[b].period \in Periods /\ bill[b].milli \in Nat
          /\ Holds(b, bill[b].tenant, bill[b].period)
      BY <2>0, <2>2 DEF Writes, Holds, BillingTypes, Runs
    <3>. QED
      BY <2>0, <2>2, <3>1 DEF HandIsNewer, InHand
  <2>3. \A b \in Billers : bill[b].milli \in Nat
    BY <2>0 DEF BillingTypes, Runs
  <2>. QED
    BY <1>1, <2>0, <2>1, <2>2, <2>3, InvoiceStep
<1>. QED
  BY <1>1, InitRuns, NextRuns, PTL DEF BillingSpec, InvoiceHistory

----------------------------------------------------------------------------
(* The roster of admins.                                                   *)

\* Admins being taken away are one, unless requests have crossed.
OneTaken ==
    ~ crossed => \A q, r \in Requests, e, f \in Emails : Taking(q, e) /\ Taking(r, f) => e = f

\* An admin whose requests came one by one: where the one under way stands
\* tells how the identity differs from the row.
Orderly(e) ==
    /\ \/ idp[e] = users[e]
       \/ \E q \in Requests : request[q].at \in {"provision", "mirror"} /\ request[q].email = e
    /\ \A q, r \in About(e) : q = r
    /\ \A q \in Requests : request[q].email = e =>
         /\ request[q].at = "write" => idp[e] = users[e]
         /\ request[q].at = "provision" => users[e] = "active" /\ idp[e] = "absent"
         /\ request[q].at = "mirror" => users[e] = request[q].to /\ idp[e] # "absent"

IdpFollows == \A e \in Emails \ apart : Orderly(e)

RosterIInv == RosterTypeOK /\ AdminLeft /\ CheckHolds /\ OneTaken /\ IdpFollows

LEMMA InitRoster == RosterInit => RosterIInv
<1> SUFFICES ASSUME RosterInit PROVE RosterIInv
  OBVIOUS
<1>1. RosterTypeOK
  <2>1. users \in [Emails -> Status] /\ idp \in [Emails -> Status]
    BY DEF RosterInit, Status
  <2>2. Idle \in [at : {"idle", "write", "provision", "mirror"}, to : Status, email : Emails]
    BY AdminRosterAssumption DEF Status, Idle
  <2>3. crossed \in BOOLEAN
    BY Zenon DEF RosterInit
  <2>. QED
    BY <2>1, <2>2, <2>3, AdminRosterAssumption DEF RosterInit, RosterTypeOK
<1>2. AdminLeft /\ CheckHolds /\ OneTaken
  BY AdminRosterAssumption DEF RosterInit, AdminLeft, CheckHolds, OneTaken, Taking, Idle
<1>3. IdpFollows
  <2>1. idp = users /\ \A q \in Requests : request[q].at = "idle"
    BY DEF RosterInit, Idle
  <2>. QED
    BY <2>1 DEF IdpFollows, Orderly, About
<1>. QED
  BY <1>1, <1>2, <1>3 DEF RosterIInv

(* A step of a request about one admin leaves the others as they are.      *)
LEMMA OthersOrderly ==
    ASSUME RosterTypeOK, IdpFollows, NEW q \in Requests, NEW e \in Emails, NEW entry,
           entry.at = "idle" \/ entry.email = e,
           request[q].at = "idle" \/ request[q].email = e,
           request' = [request EXCEPT ![q] = entry],
           \A f \in Emails \ {e} : users'[f] = users[f] /\ idp'[f] = idp[f],
           apart \subseteq apart',
           e \in apart' \/ Orderly(e)'
    PROVE  IdpFollows'
<1>1. SUFFICES ASSUME NEW f \in Emails \ apart', f # e PROVE Orderly(f)'
  BY DEF IdpFollows
<1>2. Orderly(f) /\ users'[f] = users[f] /\ idp'[f] = idp[f]
  BY <1>1 DEF IdpFollows
<1>3. /\ \A r \in Requests : r # q => request'[r] = request[r]
      /\ request'[q] = entry
  BY DEF RosterTypeOK
<1>. QED
  BY <1>1, <1>2, <1>3 DEF Orderly, About

LEMMA NextRoster == RosterIInv /\ [RosterNext]_rosterVars => RosterIInv'
<1> SUFFICES ASSUME RosterIInv, [RosterNext]_rosterVars PROVE RosterIInv'
  OBVIOUS
<1>0. /\ RosterTypeOK /\ AdminLeft /\ CheckHolds /\ OneTaken /\ IdpFollows
      /\ users \in [Emails -> Status] /\ idp \in [Emails -> Status] /\ mishaps \in Nat
      /\ request \in [Requests -> [at : {"idle", "write", "provision", "mirror"},
                                    to : Status, email : Emails]]
      /\ crossed \in BOOLEAN /\ apart \subseteq Emails
  BY AdminRosterAssumption DEF RosterIInv, RosterTypeOK
<1> USE DEF Goto, Finish
<1>1. ASSUME NEW q \in Requests, NEW e \in Emails, AddAdmin(q, e) PROVE RosterIInv'
  <2> DEFINE entry == [at |-> "provision", to |-> "active", email |-> e]
  <2>0. /\ request[q].at = "idle" /\ users[e] = "absent" /\ idp' = idp /\ mishaps' = mishaps
        /\ users' = [users EXCEPT ![e] = "active"]
        /\ request' = [request EXCEPT ![q] = entry]
        /\ apart' = IF About(e) = {} THEN apart ELSE apart \cup {e}
        /\ crossed' = (crossed /\ \E r \in Requests, f \in Emails : Taking(r, f))
    BY <1>1 DEF AddAdmin, Revive, Overlap
  <2>1. RosterTypeOK'
    BY <1>0, <2>0 DEF RosterTypeOK, Status
  <2>2. AdminLeft'
    BY <1>0, <2>0 DEF AdminLeft
  <2>3. ASSUME NEW r \in Requests, NEW f \in Emails PROVE Taking(r, f)' => Taking(r, f)
    BY <1>0, <2>0 DEF Taking
  <2>4. OneTaken'
    BY <1>0, <2>0, <2>3 DEF OneTaken
  <2>5. CheckHolds'
    <3> SUFFICES ASSUME ~ crossed', NEW r \in Requests, request'[r].at = "write"
                 PROVE  LeavesAdmin(request[r].email, request[r].to)' /\ request'[r] = request[r]
      BY DEF CheckHolds
    <3>1. request'[r] = request[r] /\ r # q
      BY <1>0, <2>0
    <3>2. LeavesAdmin(request[r].email, request[r].to)
      <4>1. CASE ~ crossed
        BY <1>0, <3>1, <4>1 DEF CheckHolds
      <4>2. CASE crossed
        <5>1. ~ Taking(r, request[r].email) /\ request[r] \in [at : {"idle", "write", "provision", "mirror"},
                                    to : Status, email : Emails]
          BY <1>0, <2>0, <4>2
        <5>. QED
          BY <3>1, <5>1 DEF Taking, LeavesAdmin
      <4>. QED
        BY <4>1, <4>2
    <3>3. OtherActive(request[r].email) \subseteq OtherActive(request[r].email)'
      BY <1>0, <2>0, <3>1 DEF OtherActive
    <3>. QED
      BY <3>1, <3>2, <3>3 DEF LeavesAdmin
  <2>6. IdpFollows'
    <3>1. e \in apart' \/ Orderly(e)'
      <4> SUFFICES ASSUME e \notin apart' PROVE Orderly(e)'
        OBVIOUS
      <4>1. e \notin apart /\ About(e) = {}
        BY <2>0
      <4>2. Orderly(e) /\ \A r \in Requests : request[r].at = "idle" \/ request[r].email # e
        BY <1>0, <4>1 DEF IdpFollows, About
      <4>3. idp[e] = users[e]
        BY <4>2 DEF Orderly, About
      <4>4. /\ request'[q].at = "provision" /\ request'[q].email = e
            /\ \A r \in Requests : r # q => request'[r] = request[r]
            /\ users'[e] = "active" /\ idp'[e] = "absent"
        BY <1>0, <2>0, <4>3
      <4>. QED
        BY <4>2, <4>4 DEF Orderly, About
    <3>2. /\ entry.email = e /\ apart \subseteq apart'
          /\ \A f \in Emails \ {e} : users'[f] = users[f] /\ idp'[f] = idp[f]
      BY <1>0, <2>0
    <3>. QED
      BY <1>0, <2>0, <3>1, <3>2, OthersOrderly
  <2>. QED
    BY <2>1, <2>2, <2>4, <2>5, <2>6 DEF RosterIInv
<1>2. ASSUME NEW q \in Requests, NEW e \in Emails, NEW to \in Status, CheckAdmin(q, e, to)
      PROVE  RosterIInv'
  <2> DEFINE entry == [at |-> "write", to |-> to, email |-> e]
  <2>0. /\ request[q].at = "idle" /\ users' = users /\ idp' = idp /\ mishaps' = mishaps
        /\ LeavesAdmin(e, to)
        /\ request' = [request EXCEPT ![q] = entry]
        /\ apart' = IF About(e) = {} THEN apart ELSE apart \cup {e}
        /\ crossed' = (crossed \/ (to # "active" /\ \E r \in Requests, f \in Emails \ {e} : Taking(r, f)))
    BY <1>2 DEF CheckAdmin, Overlap
  <2>1. RosterTypeOK'
    BY <1>0, <2>0 DEF RosterTypeOK
  <2>2. AdminLeft'
    BY <1>0, <2>0 DEF AdminLeft
  <2>3. CheckHolds'
    BY <1>0, <2>0 DEF CheckHolds, LeavesAdmin, OtherActive
  <2>4. OneTaken'
    <3> SUFFICES ASSUME ~ crossed', NEW r \in Requests, NEW s \in Requests, NEW f \in Emails,
                        NEW g \in Emails, Taking(r, f)', Taking(s, g)'
                 PROVE  f = g
      BY DEF OneTaken
    <3>1. ~ crossed /\ (to # "active" => \A t \in Requests, h \in Emails \ {e} : ~ Taking(t, h))
      BY <2>0
    <3>2. /\ r # q => Taking(r, f)
          /\ s # q => Taking(s, g)
          /\ r = q => f = e /\ to # "active"
          /\ s = q => g = e /\ to # "active"
      BY <1>0, <2>0 DEF Taking
    <3>. QED
      BY <1>0, <3>1, <3>2 DEF OneTaken
  <2>5. IdpFollows'
    <3>1. e \in apart' \/ Orderly(e)'
      <4> SUFFICES ASSUME e \notin apart' PROVE Orderly(e)'
        OBVIOUS
      <4>1. e \notin apart /\ About(e) = {}
        BY <2>0
      <4>2. Orderly(e) /\ \A r \in Requests : request[r].at = "idle" \/ request[r].email # e
        BY <1>0, <4>1 DEF IdpFollows, About
      <4>3. idp[e] = users[e]
        BY <4>2 DEF Orderly, About
      <4>4. /\ request'[q].at = "write" /\ request'[q].email = e
            /\ \A r \in Requests : r # q => request'[r] = request[r]
        BY <1>0, <2>0
      <4>. QED
        BY <2>0, <4>2, <4>3, <4>4 DEF Orderly, About
    <3>2. /\ entry.email = e /\ apart \subseteq apart'
          /\ \A f \in Emails \ {e} : users'[f] = users[f] /\ idp'[f] = idp[f]
      BY <1>0, <2>0
    <3>. QED
      BY <1>0, <2>0, <3>1, <3>2, OthersOrderly
  <2>. QED
    BY <2>1, <2>2, <2>3, <2>4, <2>5 DEF RosterIInv
<1>3. ASSUME NEW q \in Requests, WriteAdmin(q), users[request[q].email] # "absent" PROVE RosterIInv'
  <2>e. PICK e \in Emails, to \in Status : e = request[q].email /\ to = request[q].to
    <3>1. request[q] \in [at : {"idle", "write", "provision", "mirror"}, to : Status, email : Emails]
      BY <1>0
    <3>. QED
      BY <3>1
  <2>f. PICK entry : entry = [request[q] EXCEPT !.at = "mirror"]
    OBVIOUS
  <2>0. /\ request[q].at = "write" /\ idp' = idp /\ mishaps' = mishaps /\ apart' = apart
        /\ users' = [users EXCEPT ![e] = to]
        /\ request' = [request EXCEPT ![q] = entry]
        /\ to # "active" => crossed' = crossed
        /\ to = "active" => crossed' = (crossed /\ \E r \in Requests, f \in Emails : Taking(r, f))
        /\ e \in Emails /\ to \in Status
        /\ entry \in [at : {"idle", "write", "provision", "mirror"}, to : Status, email : Emails]
    <3>1. request[q] \in [at : {"idle", "write", "provision", "mirror"}, to : Status, email : Emails]
      BY <1>0
    <3>2. /\ request[q].at = "write" /\ idp' = idp /\ mishaps' = mishaps /\ apart' = apart
          /\ users' = [users EXCEPT ![e] = to]
          /\ request' = [request EXCEPT ![q].at = "mirror"]
          /\ to # "active" => crossed' = crossed
          /\ to = "active" => crossed' = (crossed /\ \E r \in Requests, f \in Emails : Taking(r, f))
      BY <1>3, <2>e DEF WriteAdmin, Revive
    <3>. QED
      BY <2>e, <2>f, <3>1, <3>2
  <2>1. /\ request'[q].at = "mirror" /\ request'[q].email = e /\ request'[q].to = to
        /\ \A r \in Requests : r # q => request'[r] = request[r]
        /\ users'[e] = to /\ \A f \in Emails : f # e => users'[f] = users[f]
        /\ request[q].email = e /\ request[q].to = to /\ request[q].at = "write" /\ entry.email = e
    <3>1. request[q] \in [at : {"idle", "write", "provision", "mirror"}, to : Status, email : Emails]
      BY <1>0
    <3>2. entry.at = "mirror" /\ entry.email = e /\ entry.to = to
      BY <2>e, <2>f, <3>1
    <3>. QED
      BY <1>0, <2>e, <2>0, <3>2
  <2>2. RosterTypeOK'
    BY <1>0, <2>0 DEF RosterTypeOK
  <2>3. ASSUME NEW r \in Requests, NEW f \in Emails PROVE Taking(r, f)' => Taking(r, f) /\ r # q
    BY <1>0, <2>0, <2>1 DEF Taking
  <2>4. OneTaken'
    BY <1>0, <2>0, <2>3 DEF OneTaken
  <2>5. ASSUME to # "active", ~ crossed PROVE OtherActive(e) # {} /\ \A r \in Requests : Taking(r, e) \/
                                                \A f \in Emails : ~ Taking(r, f)
    <3>1. LeavesAdmin(e, to) /\ Taking(q, e)
      BY <1>0, <2>0, <2>1, <2>5 DEF CheckHolds, Taking
    <3>. QED
      BY <1>0, <2>0, <2>5, <3>1 DEF LeavesAdmin, OneTaken
  <2>6. AdminLeft'
    <3> SUFFICES ASSUME ~ crossed' PROVE \E f \in Emails : users'[f] = "active"
      BY DEF AdminLeft
    <3>1. CASE to = "active"
      BY <2>0, <2>1, <3>1
    <3>2. CASE to # "active"
      BY <2>0, <2>1, <2>5, <3>2 DEF OtherActive
    <3>. QED
      BY <3>1, <3>2
  <2>7. CheckHolds'
    <3> SUFFICES ASSUME ~ crossed', NEW r \in Requests, request'[r].at = "write"
                 PROVE  LeavesAdmin(request[r].email, request[r].to)' /\ request'[r] = request[r]
      BY DEF CheckHolds
    <3>1. request'[r] = request[r] /\ r # q /\ request[r].at = "write" /\ request[r].email \in Emails
      BY <1>0, <2>1
    <3>2. SUFFICES ASSUME request[r].to # "active" PROVE OtherActive(request[r].email)' # {}
      BY <3>1 DEF LeavesAdmin
    <3>3. Taking(r, request[r].email)
      BY <3>1, <3>2 DEF Taking
    <3>4. CASE to = "active"
      <4>1. ~ crossed
        BY <2>0, <3>1, <3>3, <3>4
      <4>2. OtherActive(request[r].email) # {}
        BY <1>0, <3>1, <3>2, <4>1 DEF CheckHolds, LeavesAdmin
      <4>3. OtherActive(request[r].email) \subseteq OtherActive(request[r].email)'
        BY <2>1, <3>1, <3>4 DEF OtherActive
      <4>. QED
        BY <4>2, <4>3
    <3>5. CASE to # "active"
      <4>1. Taking(r, e) /\ OtherActive(e) # {}
        BY <2>0, <2>5, <3>1, <3>3, <3>5
      <4>2. request[r].email = e /\ request'[r].email = e
        BY <3>1, <4>1 DEF Taking
      <4>3. OtherActive(e) \subseteq {f \in Emails \ {e} : users'[f] = "active"}
        BY <2>1 DEF OtherActive
      <4>. QED
        BY <4>1, <4>2, <4>3 DEF OtherActive
    <3>. QED
      BY <3>4, <3>5
  <2>8. IdpFollows'
    <3>1. e \in apart' \/ Orderly(e)'
      <4> SUFFICES ASSUME e \notin apart' PROVE Orderly(e)'
        OBVIOUS
      <4>1. Orderly(e)
        BY <1>0, <2>0 DEF IdpFollows
      <4>2. idp'[e] # "absent"
        BY <1>3, <2>0, <2>1, <4>1 DEF Orderly, About
      <4>3. About(e)' \subseteq About(e)
        BY <2>1 DEF About
      <4>4. \A r, s \in About(e)' : r = s
        BY <4>1, <4>3 DEF Orderly
      <4>5. \A r \in Requests : r # q => r \notin About(e)'
        BY <2>1, <4>4 DEF About
      <4>6. \A r \in Requests : request'[r].email = e /\ r # q => request'[r].at = "idle"
        BY <4>5 DEF About
      <4>. QED
        BY <2>0, <2>1, <4>2, <4>4, <4>6 DEF Orderly
    <3>2. /\ apart \subseteq apart'
          /\ \A f \in Emails \ {e} : users'[f] = users[f] /\ idp'[f] = idp[f]
      BY <1>0, <2>0, <2>1
    <3>. QED
      BY <1>0, <2>0, <2>1, <3>1, <3>2, OthersOrderly
  <2>. QED
    BY <2>2, <2>4, <2>6, <2>7, <2>8 DEF RosterIInv
<1>4. ASSUME NEW q \in Requests, request[q].at # "idle", request' = [request EXCEPT ![q] = Idle], UNCHANGED <<users, crossed>>,
             idp' \in [Emails -> Status],
             mishaps' \in 0 .. MaxMishaps, apart \subseteq apart', apart' \subseteq Emails,
             \A f \in Emails \ {request[q].email} : idp'[f] = idp[f],
             \/ request[q].email \in apart'
             \/ idp'[request[q].email] = users[request[q].email]
      PROVE  RosterIInv'
  <2>e. PICK e \in Emails : e = request[q].email
    BY <1>0
  <2>0. /\ Idle.at = "idle" /\ request'[q].at = "idle"
        /\ Idle \in [at : {"idle", "write", "provision", "mirror"}, to : Status, email : Emails]
        /\ \A r \in Requests : r # q => request'[r] = request[r]
    BY <1>0, <1>4, AdminRosterAssumption DEF Idle, Status
  <2>1. RosterTypeOK'
    BY <1>0, <1>4, <2>0 DEF RosterTypeOK
  <2>2. AdminLeft' /\ CheckHolds' /\ OneTaken'
    BY <1>0, <1>4, <2>0 DEF AdminLeft, CheckHolds, OneTaken, Taking, LeavesAdmin, OtherActive
  <2>3. e \in apart' \/ Orderly(e)'
    <3> SUFFICES ASSUME e \notin apart' PROVE Orderly(e)'
      OBVIOUS
    <3>1. Orderly(e) /\ idp'[e] = users'[e]
      BY <1>0, <1>4, <2>e DEF IdpFollows
    <3>2. About(e)' \subseteq About(e) \ {q} /\ q \in About(e)
      BY <1>4, <2>e, <2>0 DEF About
    <3>3. \A r \in Requests : request'[r].email = e => request'[r].at = "idle"
      BY <3>1, <3>2 DEF Orderly, About
    <3>. QED
      BY <3>1, <3>3 DEF Orderly, About
  <2>4. IdpFollows'
    <3>1. \A f \in Emails \ {e} : users'[f] = users[f] /\ idp'[f] = idp[f]
      BY <1>4, <2>e
    <3>. QED
      BY <1>0, <1>4, <2>e, <2>0, <2>3, <3>1, OthersOrderly
  <2>. QED
    BY <2>1, <2>2, <2>4 DEF RosterIInv
<1>5. ASSUME NEW q \in Requests, WriteAdmin(q), users[request[q].email] = "absent" PROVE RosterIInv'
  <2>1. /\ request' = [request EXCEPT ![q] = Idle] /\ UNCHANGED <<users, crossed, idp, mishaps, apart>>
        /\ request[q].at = "write"
    BY <1>5 DEF WriteAdmin
  <2>2. request[q].email \in apart \/ idp[request[q].email] = users[request[q].email]
    BY <1>0, <2>1 DEF IdpFollows, Orderly
  <2>3. request[q].at # "idle"
    BY <2>1
  <2>. QED
    BY <1>0, <1>4, <2>1, <2>2, <2>3 DEF RosterTypeOK
<1>6. ASSUME NEW q \in Requests, ProvisionIdp(q) \/ ProvisionRefused(q) \/ MirrorIdp(q) PROVE RosterIInv'
  <2> DEFINE e == request[q].email
  <2>1. /\ request' = [request EXCEPT ![q] = Idle] /\ UNCHANGED <<users, crossed, mishaps, apart>>
        /\ request[q].at \in {"provision", "mirror"}
        /\ e \in Emails /\ request[q].to \in Status
    <3>1. /\ request' = [request EXCEPT ![q] = Idle] /\ UNCHANGED <<users, crossed, mishaps, apart>>
          /\ request[q].at \in {"provision", "mirror"}
      BY <1>6 DEF ProvisionIdp, ProvisionRefused, MirrorIdp, traces
    <3>2. request[q] \in [at : {"idle", "write", "provision", "mirror"}, to : Status, email : Emails]
      BY <1>0
    <3>. QED
      BY <3>1, <3>2
  <2>2. PICK s \in Status : idp' = [idp EXCEPT ![e] = s] /\ (e \in apart \/ s = users[e])
    <3>1. e \in apart \/ Orderly(e)
      BY <1>0, <2>1 DEF IdpFollows
    <3>2. CASE ProvisionIdp(q)
      BY <3>1, <3>2 DEF ProvisionIdp, Orderly, Status
    <3>3. CASE ProvisionRefused(q)
      <4>1. /\ idp[e] \in Status /\ idp' = [idp EXCEPT ![e] = idp[e]] /\ e \in apart
        BY <1>0, <2>1, <3>1, <3>3 DEF ProvisionRefused, Orderly
      <4>. QED
        BY <4>1
    <3>4. CASE MirrorIdp(q)
      <4>1. idp' = [idp EXCEPT ![e] = Mirrored(e, request[q].to)] /\ request[q].at = "mirror"
        BY <3>4 DEF MirrorIdp
      <4>2. Mirrored(e, request[q].to) \in Status
        BY <2>1 DEF Mirrored, Status
      <4>3. e \in apart \/ Mirrored(e, request[q].to) = users[e]
        BY <3>1, <4>1 DEF Mirrored, Orderly
      <4>. QED
        BY <4>1, <4>2, <4>3
    <3>. QED
      BY <1>6, <3>2, <3>3, <3>4
  <2>3. /\ idp' \in [Emails -> Status] /\ idp'[e] = s
        /\ \A f \in Emails \ {e} : idp'[f] = idp[f]
    BY <1>0, <2>1, <2>2
  <2>. QED
    BY <1>0, <1>4, <2>1, <2>2, <2>3 DEF RosterTypeOK
<1>7. ASSUME NEW q \in Requests, IdpFails(q) PROVE RosterIInv'
  <2>1. /\ request' = [request EXCEPT ![q] = Idle] /\ UNCHANGED <<users, crossed, idp>>
        /\ apart' = apart \cup {request[q].email} /\ mishaps' \in 0 .. MaxMishaps
        /\ request[q].email \in Emails /\ request[q].at # "idle"
    BY <1>0, <1>7, AdminRosterAssumption DEF IdpFails
  <2>2. apart \subseteq apart' /\ apart' \subseteq Emails /\ request[q].email \in apart'
    BY <1>0, <2>1
  <2>. QED
    BY <1>0, <1>4, <2>1, <2>2
<1>8. CASE Restart
  <2>0. /\ idp' = idp /\ crossed' = crossed /\ mishaps' \in 0 .. MaxMishaps
        /\ request' = [q \in Requests |-> Idle]
        /\ apart \subseteq apart' /\ CutOff \subseteq apart' /\ apart' \subseteq Emails
        /\ users' \in [Emails -> Status]
        /\ \A e \in Emails \ apart' : users'[e] = users[e]
        /\ users' = users \/ \A e \in Emails : users[e] = "absent"
    <3>1. /\ idp' = idp /\ crossed' = crossed /\ mishaps' = mishaps + 1 /\ mishaps < MaxMishaps
          /\ request' = [q \in Requests |-> Idle]
          /\ \/ users' = users /\ apart' = apart \cup CutOff
             \/ /\ \A e \in Emails : users[e] = "absent"
                /\ users' = [users EXCEPT ![Bootstrap] = "active"]
                /\ apart' = apart \cup CutOff \cup {Bootstrap}
      BY <1>8 DEF Restart
    <3>2. CutOff \subseteq Emails
      BY DEF CutOff
    <3>. QED
      BY <1>0, <3>1, <3>2, AdminRosterAssumption DEF Status
  <2>1. RosterTypeOK'
    BY <1>0, <2>0, AdminRosterAssumption DEF RosterTypeOK, Idle, Status
  <2>2. AdminLeft' /\ CheckHolds' /\ OneTaken'
    BY <1>0, <2>0 DEF AdminLeft, CheckHolds, OneTaken, Taking, Idle
  <2>3. ASSUME NEW e \in Emails \ apart' PROVE Orderly(e)'
    <3>1. Orderly(e) /\ e \notin CutOff
      BY <1>0, <2>0 DEF IdpFollows
    <3>2. \A q \in Requests : ~ (request[q].at \in {"provision", "mirror"} /\ request[q].email = e)
      BY <3>1 DEF CutOff, About
    <3>3. idp[e] = users[e]
      BY <3>1, <3>2 DEF Orderly, About
    <3>. QED
      BY <2>0, <3>3 DEF Orderly, About, Idle
  <2>. QED
    BY <2>1, <2>2, <2>3 DEF RosterIInv, IdpFollows
<1>9. CASE UNCHANGED rosterVars
  BY <1>0, <1>9 DEF rosterVars, RosterIInv, RosterTypeOK, AdminLeft, CheckHolds, LeavesAdmin,
                    OtherActive, OneTaken, Taking, IdpFollows, Orderly, About
<1>. QED
  BY <1>1, <1>2, <1>3, <1>5, <1>6, <1>7, <1>8, <1>9 DEF RosterNext, RequestStep

(* However requests, restarts and failing calls interleave, an active      *)
(* admin is left unless two removals crossed, and the identity provider    *)
(* agrees with the table on every admin whose requests came one by one and *)
(* were answered (control_plane.add_admin, modify_admin, remove_admin).    *)
THEOREM RosterInvariant == RosterSpec => []RosterInv
<1>1. ASSUME RosterIInv PROVE RosterInv
  <2>1. ASSUME NEW e \in Emails \ apart, About(e) = {} PROVE idp[e] = users[e]
    BY <1>1, <2>1 DEF RosterIInv, IdpFollows, Orderly, About
  <2>. QED
    BY <1>1, <2>1 DEF RosterIInv, RosterInv, IdpAgrees
<1>2. RosterIInv /\ [RosterNext]_rosterVars => RosterIInv'
  BY NextRoster
<1>. QED
  BY <1>1, <1>2, InitRoster, PTL DEF RosterSpec

----------------------------------------------------------------------------
(* Quotas and weights on their way to the gateway.                         *)

Jobs == [at : {"idle", "next", "plan", "weights", "put", "delete"}, left : SUBSET Subscribers,
         tenant : SUBSET Subscribers, quota : Nat, cap : Nat, period : Months \cup {Never}]
Limits == [count : Nat, period : Months \cup {Never}]
Caches == [w : {0} \cup Weights, age : 0 .. WeightsTTL, loading : {0} \cup Weights,
           lag : 0 .. MaxLoad, kept : BOOLEAN]

ProjTypes ==
    /\ month \in Months /\ quota \in Quotas /\ weight \in Weights
    /\ status \in [Subscribers -> {"active", "suspended"}]
    /\ sinceEdit \in 0 .. Longest
    /\ weights \in [Processes -> Caches]
    /\ editor \in [Editors -> Jobs] /\ roll \in Jobs
    /\ group \in [Subscribers -> Limits]
    /\ overlapped \in BOOLEAN /\ lastPeriod \in Months \cup {Never} /\ outages \in Nat

\* How old the weights a process uses, or is loading, may be, unless a failed
\* SELECT has kept them.
CacheAges ==
    /\ \A p \in Processes :
         /\ weights[p].loading \notin {0, weight} => sinceEdit <= weights[p].lag
         /\ FreshWeights(p) /\ weights[p].w # weight /\ ~ weights[p].kept =>
              sinceEdit <= weights[p].age + MaxLoad
         /\ weights[p].kept => outages > 0
    /\ FreshWeights(Control) /\ weights[Control].w # weight /\ ~ weights[Control].kept =>
         weights[Control].age <= sinceEdit

\* Jobs that do not overlap: one at most is under way.
Alone ==
    /\ roll.at # "idle" => \A h \in Editors : editor[h].at = "idle"
    /\ \A h, g \in Editors : editor[h].at # "idle" /\ editor[g].at # "idle" => h = g

\* What a job has read is still so.
JobsUpToDate ==
    /\ roll.at = "weights" => roll.period = month
    /\ roll.at = "put" => Limit(roll) = Due
    /\ \A h \in Editors :
         /\ editor[h].at = "plan" => \A t \in editor[h].tenant : status[t] = "active"
         /\ editor[h].at = "weights" => editor[h].quota = quota
         /\ editor[h].at = "put" => Limit(editor[h]) = Due
         /\ editor[h].at = "delete" => \A t \in editor[h].tenant : status[t] # "active"
         /\ \A t, u \in editor[h].tenant : t = u

\* A group that is not what the plan says is still to be put.
GroupsPending ==
    \A t \in Subscribers : status[t] = "active" =>
        \/ group[t] = Due
        \/ \E h \in Editors :
             /\ editor[h].at # "idle"
             /\ t \in editor[h].left \/ (editor[h].at # "next" /\ t \in editor[h].tenant)

ProjIInv ==
    /\ ProjTypes /\ CacheAges
    /\ ~ overlapped => Alone /\ JobsUpToDate /\ GroupsPending

LEMMA CapIsNat == \A c \in Nat, w \in Nat \ {0} : RequestCap(w, c) \in Nat
BY DEF RequestCap

LEMMA LimitType == \A job \in Jobs : Limit(job) \in Limits
BY DEF Jobs, Limits, Limit, NoGroup, Never

LEMMA InitProj == ProjInit => ProjIInv
<1> SUFFICES ASSUME ProjInit PROVE ProjIInv
  OBVIOUS
<1>1. Resting \in Jobs /\ NoWeights \in Caches /\ NoGroup \in Limits
  BY QuotaProjectionAssumption DEF Resting, Jobs, NoWeights, Caches, NoGroup, Limits, Never
<1>2. ProjTypes
  BY <1>1, QuotaProjectionAssumption DEF ProjInit, ProjTypes, Months, Longest
<1>3. CacheAges
  BY DEF ProjInit, CacheAges, FreshWeights, NoWeights, Processes, Control
<1>. QED
  BY <1>2, <1>3 DEF ProjInit, ProjIInv

LEMMA NextProjTypes == ProjTypes /\ [ProjNext]_projVars => ProjTypes'
<1> SUFFICES ASSUME ProjTypes, [ProjNext]_projVars PROVE ProjTypes'
  OBVIOUS
<1> USE DEF ProjTypes
<1>0. /\ Resting \in Jobs /\ NoWeights \in Caches /\ NoGroup \in Limits
      /\ Processes = {Control, Roller}
      /\ weight \in Nat \ {0} /\ quota \in Nat
      /\ WeightsTTL \in Nat /\ MaxLoad \in Nat
  BY QuotaProjectionAssumption
     DEF Resting, Jobs, NoWeights, Caches, NoGroup, Limits, Never, Processes
<1>1. ASSUME NEW h \in Editors, EditorStep(h) PROVE ProjTypes'
  <2>1. CASE SyncNext(h)
    <3>1. ASSUME NEW t \in editor[h].left, NEW at \in {"plan", "delete"}
          PROVE  [editor[h] EXCEPT !.at = at, !.left = @ \ {t}, !.tenant = {t}] \in Jobs
      <4>1. editor[h] \in Jobs /\ t \in Subscribers
        BY DEF Jobs
      <4>. QED
        BY <4>1 DEF Jobs
    <3>2. \E job \in Jobs : editor' = [editor EXCEPT ![h] = job]
      <4>1. CASE editor' = [editor EXCEPT ![h] = Resting]
        BY <1>0, <4>1
      <4>2. ASSUME NEW t \in editor[h].left,
                   editor' = [editor EXCEPT
                     ![h].at = IF status[t] = "active" THEN "plan" ELSE "delete",
                     ![h].left = @ \ {t}, ![h].tenant = {t}]
            PROVE  \E job \in Jobs : editor' = [editor EXCEPT ![h] = job]
        <5>1. CASE status[t] = "active"
          <6>1. editor' = [editor EXCEPT ![h] =
                             [editor[h] EXCEPT !.at = "plan", !.left = @ \ {t}, !.tenant = {t}]]
            BY <4>2, <5>1
          <6>. QED
            BY <3>1, <6>1
        <5>2. CASE status[t] # "active"
          <6>1. editor' = [editor EXCEPT ![h] =
                             [editor[h] EXCEPT !.at = "delete", !.left = @ \ {t}, !.tenant = {t}]]
            BY <4>2, <5>2
          <6>. QED
            BY <3>1, <6>1
        <5>. QED
          BY <5>1, <5>2
      <4>. QED
        BY <2>1, <4>1, <4>2 DEF SyncNext
    <3>3. editor' \in [Editors -> Jobs]
      BY <3>2
    <3>4. UNCHANGED <<month, quota, weight, status, sinceEdit, weights, roll, lastPeriod, group,
                      overlapped, outages>>
      BY <2>1 DEF SyncNext, database, history
    <3>. QED
      BY <3>3, <3>4
  <2>2. CASE ReadPlan(h)
    BY <1>0, <2>2 DEF ReadPlan, Jobs, database, history
  <2>3. CASE Project(h)
    <3>1. RequestCap(weights[Control].w, editor[h].quota) \in Nat
      <4>1. editor[h] \in Jobs /\ weights[Control] \in Caches /\ weights[Control].w # 0
        BY <1>0, <2>3 DEF Project, FreshWeights
      <4>2. editor[h].quota \in Nat /\ weights[Control].w \in Nat \ {0}
        BY <4>1, QuotaProjectionAssumption DEF Jobs, Caches
      <4>. QED
        BY <4>2, CapIsNat
    <3>2. PICK cap \in Nat : cap = RequestCap(weights[Control].w, editor[h].quota)
      BY <3>1
    <3>3. editor[h] \in Jobs /\ month \in Months /\ overlapped \in BOOLEAN
      OBVIOUS
    <3>4. [editor[h] EXCEPT !.at = "put", !.period = month, !.cap = cap] \in Jobs
      BY <3>3 DEF Jobs
    <3>5. editor' = [editor EXCEPT ![h] = [editor[h] EXCEPT !.at = "put", !.period = month, !.cap = cap]]
      BY <2>3, <3>2 DEF Project
    <3>6. editor' \in [Editors -> Jobs]
      BY <3>4, <3>5
    <3>7. overlapped' \in BOOLEAN
      BY <2>3, <3>3 DEF Project
    <3>8. UNCHANGED <<month, quota, weight, status, sinceEdit, weights, roll, lastPeriod, group,
                      outages>>
      BY <2>3 DEF Project, database
    <3>. QED
      BY <3>6, <3>7, <3>8
  <2>4. CASE Push(h)
    <3>1. Limit(editor[h]) \in Limits
      BY LimitType
    <3>2. [Resting EXCEPT !.at = "next", !.left = editor[h].left] \in Jobs
      BY <1>0 DEF Jobs
    <3>. QED
      BY <1>0, <2>4, <3>1, <3>2 DEF Push, PutGroup, database
  <2>. QED
    BY <1>1, <2>1, <2>2, <2>3, <2>4 DEF EditorStep
<1>2. ASSUME NEW h \in Editors, UpdatePlan(h) PROVE ProjTypes'
  BY <1>0, <1>2 DEF UpdatePlan, Begin, Edited, Jobs, Resting, OnPlan
<1>3. ASSUME NEW h \in Editors, NEW t \in Subscribers, UpdateTenant(h, t) PROVE ProjTypes'
  BY <1>0, <1>3 DEF UpdateTenant, Begin, Edited, Jobs, Resting
<1>4. ASSUME NEW h \in Editors, PushFails(h) PROVE ProjTypes'
  <2>1. [Resting EXCEPT !.at = "next", !.left = editor[h].left] \in Jobs
    <3>1. editor[h].left \subseteq Subscribers
      BY DEF Jobs
    <3>. QED
      BY <1>0, <3>1 DEF Jobs
  <2>2. editor' \in [Editors -> Jobs]
    BY <1>4, <2>1 DEF PushFails
  <2>3. overlapped' = TRUE /\ outages' = outages + 1
        /\ UNCHANGED <<month, quota, weight, status, sinceEdit, weights, roll, lastPeriod, group>>
    BY <1>4 DEF PushFails, database
  <2>. QED
    BY <2>2, <2>3
<1>5. ASSUME NEW h \in Editors, ControlRestarts(h) PROVE ProjTypes'
  <2> DEFINE job == [Booted EXCEPT !.left = {t \in Subscribers : status[t] = "active"}]
  <2>1. job \in Jobs
    BY <1>0 DEF Jobs, Booted
  <2>2. editor' = [g \in Editors |-> IF g = h THEN job ELSE Resting]
    BY <1>5 DEF ControlRestarts
  <2> HIDE DEF job
  <2>3. editor' \in [Editors -> Jobs]
    BY <1>0, <2>1, <2>2
  <2>4. /\ weights' = [weights EXCEPT ![Control] = NoWeights] /\ outages' = outages + 1
        /\ overlapped' = (roll.at # "idle")
        /\ UNCHANGED <<month, quota, weight, status, sinceEdit, roll, lastPeriod, group>>
    BY <1>5 DEF ControlRestarts, database
  <2>. QED
    BY <1>0, <2>3, <2>4
<1>6. CASE UpdateWeight
  <2>1. Invalidated \in [Processes -> Caches]
    <3>1. [weights[Control] EXCEPT !.w = 0, !.age = 0, !.kept = FALSE] \in Caches
      <4>1. weights[Control] \in Caches /\ 0 \in 0 .. WeightsTTL
        BY <1>0
      <4>. QED
        BY <4>1 DEF Caches
    <3>. QED
      BY <3>1 DEF Invalidated
  <2>2. 0 \in 0 .. Longest
    BY <1>0 DEF Longest
  <2>. QED
    BY <1>6, <2>1, <2>2, QuotaProjectionAssumption DEF UpdateWeight, Edited
<1>7. ASSUME NEW p \in Processes, LoadWeights(p) \/ StoreWeights(p) \/ LoadFails(p)
      PROVE  ProjTypes'
  <2>1. CASE LoadWeights(p)
    BY <1>0, <2>1 DEF LoadWeights, Caches, database, history
  <2>2. CASE StoreWeights(p)
    <3>1. [NoWeights EXCEPT !.w = weights[p].loading] \in Caches
      BY <1>0 DEF Caches
    <3>. QED
      BY <1>0, <2>2, <3>1 DEF StoreWeights, database, history
  <2>3. CASE LoadFails(p)
    <3>1. PICK w \in Weights :
             w = IF weights[p].w # 0 THEN weights[p].w ELSE SeedWeight
      BY <1>0, QuotaProjectionAssumption DEF Caches
    <3>2. weights' = [weights EXCEPT ![p] = [NoWeights EXCEPT !.w = w, !.kept = TRUE]]
      BY <2>3, <3>1 DEF LoadFails
    <3>3. [NoWeights EXCEPT !.w = w, !.kept = TRUE] \in Caches
      BY <1>0 DEF Caches
    <3>. QED
      BY <1>0, <2>3, <3>2, <3>3 DEF LoadFails, database
  <2>. QED
    BY <1>7, <2>1, <2>2, <2>3
<1>8. CASE RollStep \/ ListFails \/ \E t \in Subscribers : RollPutFails(t)
  <2>1. CASE StartRoll
    BY <1>0, <2>1 DEF StartRoll, Jobs, Resting, database
  <2>2. CASE ListSpecs
    <3>1. RequestCap(weights[Roller].w, quota) \in Nat
      BY <1>0, <2>2, CapIsNat, QuotaProjectionAssumption DEF ListSpecs, FreshWeights, Caches
    <3>. QED
      BY <1>0, <2>2, <3>1 DEF ListSpecs, Jobs, database
  <2>3. CASE EndRoll
    BY <1>0, <2>3 DEF EndRoll, Jobs, database, history
  <2>4. ASSUME NEW t \in Subscribers, RollPut(t) PROVE ProjTypes'
    <3>1. Limit(roll) \in Limits
      BY LimitType
    <3>. QED
      BY <1>0, <2>4, <3>1 DEF RollPut, PutGroup, Jobs, database
  <2>5. CASE ListFails
    BY <1>0, <2>5 DEF ListFails, database
  <2>6. ASSUME NEW t \in Subscribers, RollPutFails(t) PROVE ProjTypes'
    BY <1>0, <2>6 DEF RollPutFails, Jobs, database
  <2>. QED
    BY <1>8, <2>1, <2>2, <2>3, <2>4, <2>5, <2>6 DEF RollStep
<1>9. CASE NewMonth
  BY <1>0, <1>9, QuotaProjectionAssumption DEF NewMonth, Months, database
<1>10. CASE ProjTick
  <2>1. ASSUME NEW p \in Processes
        PROVE  [weights[p] EXCEPT !.age = IF weights[p].w # 0 /\ @ < WeightsTTL THEN @ + 1 ELSE @,
                                  !.lag = IF weights[p].loading # 0 THEN @ + 1 ELSE 0] \in Caches
    <3>1. /\ weights[p] \in Caches
          /\ weights[p].loading # 0 => weights[p].lag < MaxLoad
          /\ weights[p].age \in 0 .. WeightsTTL /\ weights[p].lag \in 0 .. MaxLoad
      BY <1>10 DEF ProjTick, Caches
    <3>2. (IF weights[p].w # 0 /\ weights[p].age < WeightsTTL THEN weights[p].age + 1
             ELSE weights[p].age) \in 0 .. WeightsTTL
      BY <1>0, <3>1
    <3>3. (IF weights[p].loading # 0 THEN weights[p].lag + 1 ELSE 0) \in 0 .. MaxLoad
      BY <1>0, <3>1
    <3>. QED
      BY <3>1, <3>2, <3>3 DEF Caches
  <2>2. sinceEdit' \in 0 .. Longest
    BY <1>0, <1>10 DEF ProjTick, Longest
  <2>. QED
    BY <1>0, <1>10, <2>1, <2>2 DEF ProjTick, database, history
<1>11. CASE UNCHANGED projVars
  BY <1>11 DEF projVars
<1>. QED
  BY <1>1, <1>2, <1>3, <1>4, <1>5, <1>6, <1>7, <1>8, <1>9, <1>10, <1>11 DEF ProjNext

(* Cached weights age with the last edit.                                  *)
LEMMA NextCacheAges ==
    ASSUME ProjTypes, ProjTypes', CacheAges, [ProjNext]_projVars
    PROVE  CacheAges'
<1>0. /\ Processes = {Control, Roller} /\ Control # Roller
      /\ WeightsTTL \in Nat /\ MaxLoad \in Nat /\ Longest = WeightsTTL + MaxLoad + 1
      /\ weight \in Nat \ {0} /\ weight' \in Nat \ {0} /\ sinceEdit \in Nat /\ outages \in Nat
      /\ \A p \in Processes :
           /\ weights[p] \in Caches
           /\ weights[p].w \in Nat /\ weights[p].age \in 0 .. WeightsTTL
           /\ weights[p].loading \in Nat /\ weights[p].lag \in 0 .. MaxLoad
  <2>1. /\ Weights \subseteq Nat \ {0} /\ WeightsTTL \in Nat /\ MaxLoad \in Nat
    BY QuotaProjectionAssumption
  <2>2. Processes = {Control, Roller} /\ Control # Roller
    BY DEF Processes, Control, Roller
  <2>3. \A p \in Processes : weights[p] \in Caches
    BY DEF ProjTypes
  <2>4. weight \in Weights /\ weight' \in Weights /\ sinceEdit \in 0 .. Longest
    BY DEF ProjTypes
  <2>5. weight \in Nat \ {0} /\ weight' \in Nat \ {0} /\ sinceEdit \in Nat /\ outages \in Nat
        /\ Longest = WeightsTTL + MaxLoad + 1
    BY <2>1, <2>4 DEF Longest, ProjTypes
  <2>6. ASSUME NEW p \in Processes
        PROVE  /\ weights[p].w \in Nat /\ weights[p].age \in 0 .. WeightsTTL
               /\ weights[p].loading \in Nat /\ weights[p].lag \in 0 .. MaxLoad
    <3>1. /\ weights[p].w \in {0} \cup Weights /\ weights[p].age \in 0 .. WeightsTTL
          /\ weights[p].loading \in {0} \cup Weights /\ weights[p].lag \in 0 .. MaxLoad
      BY <2>3 DEF Caches
    <3>2. \A x \in {0} \cup Weights : x \in Nat
      BY <2>1
    <3>. QED
      BY <3>1, <3>2
  <2>. QED
    BY <2>1, <2>2, <2>3, <2>5, <2>6
<1>1. CASE UNCHANGED <<weight, sinceEdit, weights>> /\ outages' \in {outages, outages + 1}
  BY <1>0, <1>1 DEF CacheAges, FreshWeights
<1>2. ASSUME NEW h \in Editors, ControlRestarts(h) PROVE CacheAges'
  BY <1>0, <1>2 DEF ControlRestarts, NoWeights, CacheAges, FreshWeights, database, ProjTypes
<1>3. CASE UpdateWeight
  <2>1. sinceEdit' = 0 /\ outages' = outages
        /\ weights' = [weights EXCEPT ![Control] = [weights[Control] EXCEPT
                                                      !.w = 0, !.age = 0, !.kept = FALSE]]
    BY <1>3 DEF UpdateWeight, Invalidated
  <2>. QED
    BY <1>0, <2>1 DEF CacheAges, FreshWeights, ProjTypes
<1>4. ASSUME NEW p \in Processes, LoadWeights(p) PROVE CacheAges'
  <2>1. /\ weights' = [weights EXCEPT ![p].loading = weight, ![p].lag = 0]
        /\ weight' = weight /\ sinceEdit' = sinceEdit /\ outages' = outages
    BY <1>4 DEF LoadWeights, database, history
  <2>. QED
    BY <1>0, <2>1 DEF CacheAges, FreshWeights, ProjTypes
<1>5. ASSUME NEW p \in Processes, StoreWeights(p) PROVE CacheAges'
  <2>1. /\ weights' = [weights EXCEPT ![p] = [NoWeights EXCEPT !.w = weights[p].loading]]
        /\ weight' = weight /\ sinceEdit' = sinceEdit /\ outages' = outages
    BY <1>5 DEF StoreWeights, database, history
  <2>2. /\ weights'[p].w = weights[p].loading /\ weights'[p].age = 0 /\ weights'[p].loading = 0
        /\ weights'[p].kept = FALSE
        /\ \A o \in Processes : o # p => weights'[o] = weights[o]
    BY <2>1 DEF ProjTypes, NoWeights
  <2>. QED
    BY <1>0, <2>1, <2>2 DEF CacheAges, FreshWeights
<1>8. ASSUME NEW p \in Processes, LoadFails(p) PROVE CacheAges'
  <2>1. PICK w : weights' = [weights EXCEPT ![p] = [NoWeights EXCEPT !.w = w, !.kept = TRUE]]
    BY <1>8 DEF LoadFails
  <2>2. weight' = weight /\ sinceEdit' = sinceEdit /\ outages' = outages + 1
    BY <1>8 DEF LoadFails, database
  <2>3. /\ weights'[p].loading = 0 /\ weights'[p].kept
        /\ \A o \in Processes : o # p => weights'[o] = weights[o]
    BY <2>1 DEF ProjTypes, NoWeights
  <2>. QED
    BY <1>0, <2>2, <2>3 DEF CacheAges, FreshWeights
<1>6. CASE ProjTick
  <2>1. /\ weight' = weight /\ outages' = outages
        /\ sinceEdit' = IF sinceEdit = Longest THEN Longest ELSE sinceEdit + 1
        /\ \A p \in Processes : weights[p].loading # 0 => weights[p].lag < MaxLoad
    BY <1>6 DEF ProjTick, database, history
  <2>2. ASSUME NEW p \in Processes
        PROVE  /\ weights'[p].w = weights[p].w /\ weights'[p].loading = weights[p].loading
               /\ weights'[p].kept = weights[p].kept
               /\ weights'[p].age = IF weights[p].w # 0 /\ weights[p].age < WeightsTTL
                                       THEN weights[p].age + 1 ELSE weights[p].age
               /\ weights'[p].lag = IF weights[p].loading # 0 THEN weights[p].lag + 1 ELSE 0
    <3>1. weights'[p] = [weights[p] EXCEPT
                           !.age = IF weights[p].w # 0 /\ @ < WeightsTTL THEN @ + 1 ELSE @,
                           !.lag = IF weights[p].loading # 0 THEN @ + 1 ELSE 0]
      BY <1>6 DEF ProjTick
    <3>. QED
      BY <1>0, <3>1 DEF Caches
  <2>3. sinceEdit' <= sinceEdit + 1 /\ sinceEdit' >= sinceEdit /\ sinceEdit' \in Nat
        /\ (sinceEdit' = sinceEdit + 1 \/ sinceEdit' = Longest)
    BY <1>0, <2>1 DEF ProjTypes
  <2>4. ASSUME NEW p \in Processes, weights'[p].loading \notin {0, weight}
        PROVE  sinceEdit' <= weights'[p].lag
    BY <1>0, <2>2, <2>3, <2>4 DEF CacheAges
  <2>5. ASSUME NEW p \in Processes, FreshWeights(p)', weights'[p].w # weight, ~ weights'[p].kept
        PROVE  sinceEdit' <= weights'[p].age + MaxLoad
    <3>1. /\ weights[p].w # 0 /\ weights[p].age < WeightsTTL
          /\ weights'[p].age = weights[p].age + 1 /\ weights[p].w # weight /\ ~ weights[p].kept
      BY <1>0, <2>2, <2>5 DEF FreshWeights
    <3>. QED
      BY <1>0, <2>3, <3>1 DEF CacheAges, FreshWeights
  <2>6. ASSUME FreshWeights(Control)', weights'[Control].w # weight, ~ weights'[Control].kept
        PROVE  weights'[Control].age <= sinceEdit'
    <3>1. /\ weights[Control].w # 0 /\ weights[Control].age < WeightsTTL
          /\ weights'[Control].age = weights[Control].age + 1 /\ weights[Control].w # weight
          /\ ~ weights[Control].kept
      BY <1>0, <2>2, <2>6 DEF FreshWeights
    <3>2. weights[Control].age <= sinceEdit
      BY <1>0, <3>1, SMTT(30) DEF CacheAges, FreshWeights
    <3>. QED
      BY <1>0, <2>3, <3>1, <3>2
  <2>7. ASSUME NEW p \in Processes, weights'[p].kept PROVE outages' > 0
    BY <2>1, <2>2, <2>7 DEF CacheAges
  <2>. QED
    BY <2>1, <2>4, <2>5, <2>6, <2>7 DEF CacheAges
<1>7. \/ UNCHANGED <<weight, sinceEdit, weights>> /\ outages' \in {outages, outages + 1}
      \/ UpdateWeight \/ ProjTick \/ (\E h \in Editors : ControlRestarts(h))
      \/ \E p \in Processes : LoadWeights(p) \/ StoreWeights(p) \/ LoadFails(p)
  BY Zenon DEF ProjNext, UpdatePlan, EditorStep, SyncNext, ReadPlan, Project, Push, PushFails,
         UpdateTenant, RollStep, StartRoll, ListSpecs, EndRoll, RollPut, ListFails, RollPutFails,
         NewMonth, projVars, database, history
<1>. QED
  BY <1>1, <1>2, <1>3, <1>4, <1>5, <1>6, <1>7, <1>8

(* Jobs one by one leave every group as the plan says, or on the way.      *)
LEMMA NextPending ==
    ASSUME ProjTypes, ~ overlapped => Alone /\ JobsUpToDate /\ GroupsPending,
           [ProjNext]_projVars, ~ overlapped'
    PROVE  Alone' /\ JobsUpToDate' /\ GroupsPending'
<1>0. /\ overlapped \in BOOLEAN /\ editor \in [Editors -> Jobs] /\ roll \in Jobs
      /\ status \in [Subscribers -> {"active", "suspended"}]
      /\ group \in [Subscribers -> Limits]
      /\ \A h \in Editors : editor[h] \in Jobs /\ editor[h].left \subseteq Subscribers
  BY DEF ProjTypes, Jobs
<1>1. (\E h \in Editors : ControlRestarts(h)) \/ (~ overlapped /\ Alone /\ JobsUpToDate /\ GroupsPending)
  <2>1. overlapped' = overlapped \/ overlapped' = TRUE
        \/ (\E b \in BOOLEAN : overlapped' = (overlapped \/ b)) \/ \E h \in Editors : ControlRestarts(h)
    BY Zenon DEF ProjNext, UpdatePlan, EditorStep, SyncNext, ReadPlan, Project, Push, PushFails, UpdateWeight,
           UpdateTenant, LoadWeights, StoreWeights, LoadFails, RollStep, StartRoll, ListSpecs, EndRoll, RollPut,
           ListFails, RollPutFails, NewMonth, ProjTick, projVars, history
  <2>. QED
    BY <2>1, Zenon
<1>2. ASSUME NEW h \in Editors, ControlRestarts(h) PROVE Alone' /\ JobsUpToDate' /\ GroupsPending'
  <2> DEFINE active == {t \in Subscribers : status[t] = "active"}
  <2>1. /\ roll.at = "idle" /\ roll' = roll /\ status' = status
        /\ editor' = [g \in Editors |-> IF g = h THEN [Booted EXCEPT !.left = active] ELSE Resting]
    BY <1>2 DEF ControlRestarts, database
  <2> HIDE DEF active
  <2>2. /\ editor'[h].at = "next" /\ editor'[h].left = active
        /\ editor'[h].tenant = {}
        /\ \A g \in Editors : g # h => editor'[g].at = "idle" /\ editor'[g].tenant = {}
    BY <2>1 DEF Booted, Resting
  <2>3. Alone' /\ JobsUpToDate'
    BY <2>1, <2>2 DEF Alone, JobsUpToDate
  <2>4. GroupsPending'
    BY <2>1, <2>2 DEF GroupsPending, active
  <2>. QED
    BY <2>3, <2>4
<1>3. SUFFICES ASSUME ~ overlapped, Alone, JobsUpToDate, GroupsPending
               PROVE  Alone' /\ JobsUpToDate' /\ GroupsPending'
  BY <1>1, <1>2
<1>4. ASSUME NEW h \in Editors, editor[h].at = "idle", Quiet, NEW ts \in SUBSET Subscribers,
             editor' = [editor EXCEPT ![h] = [Resting EXCEPT !.at = "next", !.left = ts]],
             roll' = roll, UNCHANGED <<month, weight, group>>,
             \A t \in Subscribers \ ts : status'[t] = status[t] /\ quota' = quota
      PROVE  Alone' /\ JobsUpToDate' /\ GroupsPending'
  <2>1. /\ roll.at = "idle" /\ \A g \in Editors : editor[g].at = "idle"
    BY <1>4 DEF Quiet
  <2>2. /\ editor'[h].at = "next" /\ editor'[h].left = ts /\ editor'[h].tenant = {}
        /\ \A g \in Editors : g # h => editor'[g] = editor[g]
    BY <1>0, <1>4 DEF Resting
  <2>3. Alone' /\ JobsUpToDate'
    BY <1>3, <1>4, <2>1, <2>2 DEF Alone, JobsUpToDate
  <2>4. \A t \in Subscribers : status[t] = "active" => group[t] = Due
    BY <1>3, <2>1 DEF GroupsPending
  <2>5. ASSUME NEW t \in Subscribers \ ts, status'[t] = "active" PROVE group'[t] = Due'
    BY <1>4, <2>4, <2>5 DEF Due, Limit, RequestCap
  <2>6. GroupsPending'
    BY <2>2, <2>5 DEF GroupsPending
  <2>. QED
    BY <2>3, <2>6
<1>5. ASSUME NEW h \in Editors, UpdatePlan(h) PROVE Alone' /\ JobsUpToDate' /\ GroupsPending'
  BY <1>4, <1>5 DEF UpdatePlan, Begin, OnPlan
<1>6. ASSUME NEW h \in Editors, NEW t \in Subscribers, UpdateTenant(h, t)
      PROVE  Alone' /\ JobsUpToDate' /\ GroupsPending'
  <2>1. /\ editor[h].at = "idle" /\ Quiet /\ {t} \in SUBSET Subscribers
        /\ editor' = [editor EXCEPT ![h] = [Resting EXCEPT !.at = "next", !.left = {t}]]
        /\ roll' = roll /\ UNCHANGED <<month, weight, group>> /\ quota' = quota
    BY <1>3, <1>6 DEF UpdateTenant, Begin
  <2>2. \A u \in Subscribers \ {t} : status'[u] = status[u]
    BY <1>0, <1>6 DEF UpdateTenant
  <2>. QED
    BY <1>4, <2>1, <2>2
<1>7. ASSUME NEW h \in Editors, EditorStep(h) PROVE Alone' /\ JobsUpToDate' /\ GroupsPending'
  <2>0. /\ roll' = roll /\ UNCHANGED <<month, weight, quota, status>> /\ editor[h].at # "idle"
        /\ \A g \in Editors : g # h => editor'[g] = editor[g]
        /\ roll.at = "idle" /\ \A g \in Editors : g # h => editor[g].at = "idle"
        /\ Due' = Due
    <3>1. /\ roll' = roll /\ UNCHANGED <<month, weight, quota, status>> /\ editor[h].at # "idle"
          /\ \A g \in Editors : g # h => editor'[g] = editor[g]
      BY <1>0, <1>7 DEF EditorStep, SyncNext, ReadPlan, Project, Push, database
    <3>. QED
      BY <1>3, <3>1 DEF Alone, Due, Limit, RequestCap
  <2>1. Alone'
    BY <2>0 DEF Alone
  <2>2. ASSUME NEW t \in Subscribers, status[t] = "active"
        PROVE  \/ group[t] = Due
               \/ t \in editor[h].left \/ (editor[h].at # "next" /\ t \in editor[h].tenant)
    BY <1>3, <2>0, <2>2 DEF GroupsPending
  <2>3. \A t, u \in editor[h].tenant : t = u
    BY <1>3 DEF JobsUpToDate
  <2> DEFINE After ==
          /\ editor'[h].at = "plan" => \A t \in editor'[h].tenant : status[t] = "active"
          /\ editor'[h].at = "weights" => editor'[h].quota = quota
          /\ editor'[h].at = "put" => Limit(editor'[h]) = Due
          /\ editor'[h].at = "delete" => \A t \in editor'[h].tenant : status[t] # "active"
          /\ \A t, u \in editor'[h].tenant : t = u
          /\ \A t \in Subscribers : status[t] = "active" =>
                \/ group'[t] = Due
                \/ /\ editor'[h].at # "idle"
                   /\ t \in editor'[h].left \/ (editor'[h].at # "next" /\ t \in editor'[h].tenant)
  <2>4. SUFFICES After
    <3>1. ASSUME NEW g \in Editors, g # h
          PROVE  editor'[g].at = "idle" /\ editor'[g] = editor[g] /\ \A t, u \in editor[g].tenant : t = u
      BY <1>3, <2>0, <3>1 DEF JobsUpToDate
    <3>2. JobsUpToDate'
      BY <2>0, <2>4, <3>1 DEF JobsUpToDate, Limit
    <3>3. GroupsPending'
      BY <2>0, <2>4, SMTT(30) DEF GroupsPending
    <3>. QED
      BY <2>1, <3>2, <3>3
  <2>5. CASE SyncNext(h)
    <3>1. CASE editor[h].left = {} /\ editor' = [editor EXCEPT ![h] = Resting]
      <4>1. editor'[h].at = "idle" /\ editor'[h].tenant = {} /\ group' = group
        BY <1>0, <2>5, <3>1 DEF SyncNext, Resting
      <4>. QED
        BY <2>2, <2>5, <3>1, <4>1 DEF SyncNext
    <3>2. ASSUME NEW t \in editor[h].left,
                 editor' = [editor EXCEPT
                   ![h].at = IF status[t] = "active" THEN "plan" ELSE "delete",
                   ![h].left = @ \ {t}, ![h].tenant = {t}]
          PROVE  /\ editor'[h].at = IF status[t] = "active" THEN "plan" ELSE "delete"
                 /\ editor'[h].left = editor[h].left \ {t} /\ editor'[h].tenant = {t}
      <4> DEFINE at == IF status[t] = "active" THEN "plan" ELSE "delete"
      <4>1. editor' = [editor EXCEPT ![h].at = at, ![h].left = @ \ {t}, ![h].tenant = {t}]
        BY <3>2
      <4> HIDE DEF at
      <4>2. editor'[h].at = at /\ editor'[h].left = editor[h].left \ {t} /\ editor'[h].tenant = {t}
        BY <1>0, <4>1 DEF Jobs
      <4>. QED
        BY <4>2 DEF at
    <3>3. group' = group /\ editor[h].at = "next"
      BY <2>5 DEF SyncNext
    <3>4. ASSUME NEW t \in editor[h].left,
                 editor' = [editor EXCEPT
                   ![h].at = IF status[t] = "active" THEN "plan" ELSE "delete",
                   ![h].left = @ \ {t}, ![h].tenant = {t}]
          PROVE  After
      <4>1. /\ editor'[h].at = IF status[t] = "active" THEN "plan" ELSE "delete"
            /\ editor'[h].left = editor[h].left \ {t} /\ editor'[h].tenant = {t}
        BY <3>2, <3>4
      <4>2. editor'[h].at = "plan" => \A u \in editor'[h].tenant : status[u] = "active"
        BY <4>1
      <4>3. editor'[h].at = "delete" => \A u \in editor'[h].tenant : status[u] # "active"
        BY <4>1
      <4>4. editor'[h].at \in {"plan", "delete"}
        BY <4>1
      <4>5. ASSUME NEW u \in Subscribers, status[u] = "active"
            PROVE  group'[u] = Due \/ u \in editor'[h].left \/ u \in editor'[h].tenant
        BY <2>2, <3>3, <4>1, <4>5
      <4>. QED
        BY <4>1, <4>2, <4>3, <4>4, <4>5
    <3> HIDE DEF After
    <3>. QED
      BY <2>5, <3>1, <3>4 DEF SyncNext
  <2>6. CASE ReadPlan(h)
    <3>1. /\ editor[h].at = "plan" /\ editor'[h].at = "weights" /\ editor'[h].quota = quota
          /\ editor'[h].left = editor[h].left /\ editor'[h].tenant = editor[h].tenant
          /\ group' = group
      BY <1>0, <2>6 DEF ReadPlan, Jobs
    <3>. QED
      BY <2>2, <2>3, <3>1
  <2>7. CASE Project(h)
    <3>1. weights[Control].w = weight
      BY <1>3, <2>7 DEF Project
    <3>2. /\ editor[h].at = "weights" /\ editor'[h].at = "put" /\ editor'[h].period = month
          /\ editor'[h].cap = RequestCap(weight, editor[h].quota) /\ editor'[h].quota = editor[h].quota
          /\ editor'[h].left = editor[h].left /\ editor'[h].tenant = editor[h].tenant
          /\ group' = group
      BY <1>0, <2>7, <3>1 DEF Project, Jobs
    <3>3. editor[h].quota = quota
      BY <1>3, <3>2 DEF JobsUpToDate
    <3>4. Limit(editor'[h]) = Due
      BY <3>2, <3>3 DEF Limit, Due
    <3>. QED
      BY <2>2, <2>3, <3>2, <3>4
  <2>8. CASE Push(h)
    <3>1. PICK t \in editor[h].tenant :
             \/ editor[h].at = "put" /\ PutGroup(t, Limit(editor[h]))
             \/ editor[h].at = "delete" /\ PutGroup(t, NoGroup)
      BY <2>8 DEF Push
    <3>2. /\ editor'[h].at = "next" /\ editor'[h].left = editor[h].left /\ editor'[h].tenant = {}
      BY <1>0, <2>8 DEF Push, Resting
    <3>3. t \in Subscribers /\ \A u \in editor[h].tenant : u = t
      BY <1>0, <2>3 DEF Jobs
    <3>4. \A u \in Subscribers : u # t => group'[u] = group[u]
      BY <1>0, <3>1, <3>3 DEF PutGroup
    <3>5. status[t] = "active" => group'[t] = Due
      BY <1>0, <1>3, <3>1, <3>3 DEF PutGroup, JobsUpToDate
    <3>. QED
      BY <2>2, <3>2, <3>3, <3>4, <3>5
  <2> HIDE DEF After
  <2>. QED
    BY <1>7, <2>5, <2>6, <2>7, <2>8 DEF EditorStep
<1>8. CASE \/ RollStep \/ ListFails
           \/ (\E p \in Processes : LoadWeights(p) \/ StoreWeights(p) \/ LoadFails(p))
           \/ ProjTick \/ UNCHANGED projVars
  <2>1. /\ editor' = editor /\ UNCHANGED <<month, weight, quota, status>> /\ Due' = Due
    BY <1>8 DEF RollStep, StartRoll, ListSpecs, EndRoll, RollPut, ListFails, LoadWeights, StoreWeights,
                LoadFails, ProjTick, projVars, database, Due, Limit, RequestCap
  <2>2. /\ group' = group \/ (roll.at = "put" /\ \E t \in Subscribers : group' = [group EXCEPT ![t] = Due])
    BY <1>3, <1>8 DEF RollStep, StartRoll, ListSpecs, EndRoll, RollPut, ListFails, LoadWeights,
                StoreWeights, LoadFails, ProjTick, projVars, history, PutGroup, JobsUpToDate
  <2>3. \/ roll' = roll
        \/ roll'.at = "idle"
        \/ Quiet /\ roll'.at = "weights" /\ roll'.period = month
        \/ roll.at = "weights" /\ roll'.at = "put" /\ Limit(roll') = Due
        \/ roll.at = "put" /\ roll'.at = "put" /\ Limit(roll') = Limit(roll)
    <3>1. CASE StartRoll
      BY <1>3, <3>1 DEF StartRoll, Resting
    <3>2. CASE ListSpecs
      <4>1. /\ weights[Roller].w = weight /\ roll.at = "weights"
            /\ roll' = [roll EXCEPT !.at = "put", !.left = {t \in Subscribers : status[t] = "active"},
                            !.quota = quota, !.cap = RequestCap(weight, quota)]
        BY <1>3, <3>2 DEF ListSpecs
      <4>2. /\ roll'.at = "put" /\ roll'.quota = quota /\ roll'.cap = RequestCap(weight, quota)
            /\ roll'.period = month
        BY <1>0, <1>3, <4>1 DEF Jobs, JobsUpToDate
      <4>. QED
        BY <4>1, <4>2 DEF Limit, Due
    <3>3. CASE EndRoll \/ ListFails
      BY <3>3 DEF EndRoll, ListFails, Resting
    <3>4. ASSUME NEW t \in Subscribers, RollPut(t)
          PROVE  roll.at = "put" /\ roll'.at = "put" /\ Limit(roll') = Limit(roll)
      BY <1>0, <3>4 DEF RollPut, Jobs, Limit
    <3>5. CASE \/ \E p \in Processes : LoadWeights(p) \/ StoreWeights(p) \/ LoadFails(p)
               \/ ProjTick \/ UNCHANGED projVars
      BY <3>5 DEF LoadWeights, StoreWeights, LoadFails, ProjTick, projVars
    <3>. QED
      BY <1>8, <3>1, <3>2, <3>3, <3>4, <3>5 DEF RollStep
  <2>4. Alone'
    BY <1>3, <2>1, <2>3 DEF Alone, Quiet
  <2>5. JobsUpToDate'
    <3>1. \A h \in Editors : Limit(editor'[h]) = Limit(editor[h])
      BY <2>1
    <3>. QED
      BY <1>3, <2>1, <2>3, <3>1 DEF JobsUpToDate, Limit
  <2>6. GroupsPending'
    BY <1>0, <1>3, <2>1, <2>2 DEF GroupsPending
  <2>. QED
    BY <2>4, <2>5, <2>6
<1>9. ~ UpdateWeight /\ ~ NewMonth /\ (\A h \in Editors : ~ PushFails(h)) /\ (\A t \in Subscribers : ~ RollPutFails(t))
  BY <1>3 DEF UpdateWeight, NewMonth, PushFails, RollPutFails
<1>. QED
  BY <1>2, <1>5, <1>6, <1>7, <1>8, <1>9 DEF ProjNext

(* The weights in use follow an edit within the time a cache and a SELECT  *)
(* last, unless a failed SELECT kept the old ones, and after a resync      *)
(* every active tenant's group is what its plan says                       *)
(* (weights.get_weights, control_plane._sync_tenant,                       *)
(* aggregator.reproject_quotas_for_new_period).                            *)
THEOREM ProjectionInvariant == ProjSpec => []ProjInv
<1>1. ProjIInv /\ [ProjNext]_projVars => ProjIInv'
  <2> SUFFICES ASSUME ProjIInv, [ProjNext]_projVars PROVE ProjIInv'
    OBVIOUS
  <2>1. ProjTypes /\ ProjTypes' /\ CacheAges /\ (~ overlapped => Alone /\ JobsUpToDate /\ GroupsPending)
    BY NextProjTypes DEF ProjIInv
  <2>2. CacheAges'
    BY <2>1, NextCacheAges
  <2>3. ~ overlapped' => Alone' /\ JobsUpToDate' /\ GroupsPending'
    BY <2>1, NextPending
  <2>. QED
    BY <2>1, <2>2, <2>3 DEF ProjIInv
<1>2. ProjIInv => ProjInv
  <2> SUFFICES ASSUME ProjIInv PROVE ProjInv
    OBVIOUS
  <2>1. ProjTypes /\ CacheAges
    BY DEF ProjIInv
  <2>2. ProjTypeOK
    BY <2>1 DEF ProjTypes, ProjTypeOK, Caches, Jobs, Limits
  <2>3. WeightsConverge
    <3>1. WeightsTTL \in Nat /\ MaxLoad \in Nat /\ sinceEdit \in Nat /\ Control \in Processes
      BY <2>1, QuotaProjectionAssumption DEF ProjTypes, Longest, Processes
    <3>2. \A p \in Processes : weights[p].age \in Nat
      BY <2>1, QuotaProjectionAssumption DEF ProjTypes, Caches
    <3>3. ASSUME NEW p \in Processes, FreshWeights(p), sinceEdit > WeightsTTL + MaxLoad
          PROVE  weights[p].w = weight \/ Kept(p)
      BY <2>1, <3>1, <3>2, <3>3 DEF CacheAges, FreshWeights, Kept
    <3>4. ASSUME FreshWeights(Control), weights[Control].w # weight, ~ Kept(Control)
          PROVE  sinceEdit \in weights[Control].age .. weights[Control].age + MaxLoad
      BY <2>1, <3>1, <3>2, <3>4 DEF CacheAges, Kept
    <3>. QED
      BY <3>3, <3>4 DEF WeightsConverge
  <2>4. GroupsFollowPlans
    BY DEF ProjIInv, GroupsFollowPlans, GroupsPending, Quiet
  <2>. QED
    BY <2>2, <2>3, <2>4 DEF ProjInv
<1>. QED
  BY <1>1, <1>2, InitProj, PTL DEF ProjSpec
=============================================================================
