---------------------------- MODULE Services_proofs ----------------------------
(***************************************************************************)
(* The services around the stream: their start, for any services, plans    *)
(* and versions (ServiceStart), and the consumers of the stream, for any   *)
(* messages, tables, workers and batch sizes (Inserter).                   *)
(***************************************************************************)
EXTENDS ServiceStart, Inserter, Sums_proofs

----------------------------------------------------------------------------
(* The start.                                                              *)

\* The calls of each phase.
CallsOf == [ping |-> {"ping"}, pool |-> {"open"}, index |-> {"exists", "create", "fallback"},
            connect |-> {"dial"}, stream |-> {"find", "add", "update"},
            attach |-> {"subscribe", "verify"}, serving |-> {"none"}]

Calls == {"ping", "open", "exists", "create", "fallback", "dial", "find", "add", "update",
          "subscribe", "verify", "none"}

\* What phase i of service s leaves behind.
SetUp(s, i) ==
    /\ Plan[s][i] = "index"  => index
    /\ Plan[s][i] = "stream" => stream # NoStream
    /\ Plan[s][i] = "attach" => s \in consumers \cup cut

\* A start that saw no outage: what it calls is up, and it lost at most one
\* race for the stream.
Unspoilt(s) ==
    /\ step[s] # 0
    /\ step[s] < Len(Plan[s]) => storeUp /\ brokerUp
    /\ doing[s] = "verify" => s \in consumers
    /\ doing[s] = "add" => tries[s] = 0
    /\ Plan[s][step[s]] = "stream" /\ tries[s] # 0 => stream # NoStream

ServiceOK(s) ==
    /\ step[s] \in 0 .. Len(Plan[s])
    /\ step[s] = 0 => doing[s] = "none" /\ tries[s] = 0
    /\ step[s] # 0 => doing[s] \in CallsOf[Plan[s][step[s]]]
    /\ \A i \in 1 .. Len(Plan[s]) : i < step[s] => SetUp(s, i)
    /\ doing[s] = "update" => stream # NoStream
    /\ s \notin spoilt => Unspoilt(s)

StartIInv ==
    /\ storeUp \in BOOLEAN /\ brokerUp \in BOOLEAN /\ index \in BOOLEAN
    /\ step \in [Services -> Nat] /\ tries \in [Services -> Nat] /\ doing \in [Services -> Calls]
    /\ \A s \in Services : ServiceOK(s)

LEMMA PlanFacts ==
    ASSUME NEW s \in Services
    PROVE  /\ Plan[s] \in Seq(Phases) /\ Len(Plan[s]) \in Nat /\ Len(Plan[s]) >= 1
           /\ \A i \in 1 .. Len(Plan[s]) :
                /\ Plan[s][i] \in Phases
                /\ Plan[s][i] = "serving" <=> i = Len(Plan[s])
                /\ Plan[s][i] = "attach" => \E j \in 1 .. i - 1 : Plan[s][j] = "stream"
                /\ Plan[s][i] = "attach" => i = Len(Plan[s]) - 1
<1>1. Plan[s] \in Seq(Phases) /\ Len(Plan[s]) \in Nat /\ Len(Plan[s]) >= 1
  BY ServiceStartAssumption
<1>2. \A i \in 1 .. Len(Plan[s]) : Plan[s][i] \in Phases
  BY <1>1
<1>. QED
  BY <1>1, <1>2, ServiceStartAssumption

LEMMA FirstCallFits ==
    ASSUME NEW p \in Phases
    PROVE  /\ FirstCall[p] \in Calls /\ FirstCall[p] \in CallsOf[p]
           /\ FirstCall[p] \notin {"verify", "add", "update"}
<1>0. CASE p = "ping"
  BY <1>0 DEF FirstCall, CallsOf, Calls
<1>1. CASE p = "pool"
  BY <1>1 DEF FirstCall, CallsOf, Calls
<1>2. CASE p = "index"
  BY <1>2 DEF FirstCall, CallsOf, Calls
<1>3. CASE p = "connect"
  BY <1>3 DEF FirstCall, CallsOf, Calls
<1>4. CASE p = "stream"
  BY <1>4 DEF FirstCall, CallsOf, Calls
<1>5. CASE p = "attach"
  BY <1>5 DEF FirstCall, CallsOf, Calls
<1>6. CASE p = "serving"
  BY <1>6 DEF FirstCall, CallsOf, Calls
<1>. QED
  BY <1>0, <1>1, <1>2, <1>3, <1>4, <1>5, <1>6 DEF Phases

(* The phase is the one of the call.                                       *)
LEMMA PhaseOfCall ==
    ASSUME StartIInv, NEW s \in Services, doing[s] # "none"
    PROVE  /\ step[s] \in 1 .. Len(Plan[s]) - 1 /\ Phase(s) = Plan[s][step[s]]
           /\ Plan[s][step[s]] \in Phases \ {"serving"}
           /\ doing[s] \in CallsOf[Plan[s][step[s]]]
<1>0. ServiceOK(s) /\ Len(Plan[s]) \in Nat
  BY PlanFacts DEF StartIInv
<1>1. ServiceOK(s) /\ step[s] # 0 /\ step[s] \in 1 .. Len(Plan[s]) /\ Len(Plan[s]) \in Nat
  BY <1>0 DEF ServiceOK
<1>2. Plan[s][step[s]] # "serving"
  BY <1>1 DEF ServiceOK, CallsOf
<1>3. step[s] # Len(Plan[s]) /\ Plan[s][step[s]] \in Phases
  BY <1>1, <1>2, PlanFacts
<1>. QED
  BY <1>1, <1>2, <1>3 DEF ServiceOK, Phase

(* What no step of a service undoes.                                       *)
Kept ==
    /\ index' \in BOOLEAN
    /\ index => index'
    /\ stream # NoStream => stream' # NoStream
    /\ consumers \subseteq consumers'
    /\ UNCHANGED shared

(* The step of a service that leaves the others in place.                  *)
LEMMA OthersGoOn ==
    ASSUME StartIInv, NEW s \in Services, Kept, ServiceOK(s)',
           step' \in [Services -> Nat], tries' \in [Services -> Nat], doing' \in [Services -> Calls],
           \A t \in Services \ {s} : step'[t] = step[t] /\ tries'[t] = tries[t] /\ doing'[t] = doing[t]
    PROVE  StartIInv'
<1>1. ASSUME NEW t \in Services, t # s PROVE ServiceOK(t)'
  <2>1. ServiceOK(t) /\ step'[t] = step[t] /\ tries'[t] = tries[t] /\ doing'[t] = doing[t]
    BY <1>1 DEF StartIInv
  <2>2. ASSUME NEW i \in 1 .. Len(Plan[t]), SetUp(t, i) PROVE SetUp(t, i)'
    BY <2>2 DEF SetUp, Kept, shared
  <2>3. t \notin spoilt' => Unspoilt(t)'
    BY <2>1 DEF ServiceOK, Unspoilt, Kept, shared
  <2>. QED
    BY <2>1, <2>2, <2>3 DEF ServiceOK, Kept, shared
<1>. QED
  BY <1>1 DEF StartIInv, Kept, shared

(* A call leads to another one of its phase.                               *)
LEMMA ThenOK ==
    ASSUME StartIInv, NEW s \in Services, Kept, doing[s] # "none",
           NEW call \in Calls, call \in CallsOf[Plan[s][step[s]]], Then(s, call),
           call = "update" => stream' # NoStream,
           call = "verify" => s \in consumers',
           call = "add" /\ s \notin spoilt => tries[s] = 0
    PROVE  StartIInv'
<1>1. /\ step' = step /\ tries' = tries /\ doing' = [doing EXCEPT ![s] = call]
      /\ step \in [Services -> Nat] /\ tries \in [Services -> Nat] /\ doing \in [Services -> Calls]
  BY DEF StartIInv, Then
<1>2. doing' \in [Services -> Calls] /\ doing'[s] = call
      /\ \A t \in Services \ {s} : doing'[t] = doing[t]
  BY <1>1
<1>3. ServiceOK(s) /\ step[s] # 0
  BY PhaseOfCall DEF StartIInv
<1>4. ServiceOK(s)'
  <2>1. ASSUME NEW i \in 1 .. Len(Plan[s]), SetUp(s, i) PROVE SetUp(s, i)'
    BY <2>1 DEF SetUp, Kept, shared
  <2>2. s \notin spoilt' => Unspoilt(s)'
    BY <1>1, <1>2, <1>3 DEF ServiceOK, Unspoilt, Kept, shared
  <2>. QED
    BY <1>1, <1>2, <1>3, <2>1, <2>2 DEF ServiceOK, Kept, shared
<1>. QED
  BY <1>1, <1>2, <1>4, OthersGoOn

(* A phase is done, and has left behind what it is for.                    *)
LEMMA DoneOK ==
    ASSUME StartIInv, NEW s \in Services, Kept, doing[s] # "none", Done(s),
           NEW k, k = step[s], SetUp(s, k)'
    PROVE  StartIInv'
<1>1. /\ k \in 1 .. Len(Plan[s]) - 1 /\ Len(Plan[s]) \in Nat /\ ServiceOK(s)
      /\ k + 1 \in 1 .. Len(Plan[s]) /\ k \in Nat
  BY PhaseOfCall, PlanFacts DEF StartIInv
<1>2. Plan[s][k + 1] \in Phases
  BY <1>1, PlanFacts
<1>3. FirstCall[Plan[s][k + 1]] \in Calls /\ FirstCall[Plan[s][k + 1]] \in CallsOf[Plan[s][k + 1]]
      /\ FirstCall[Plan[s][k + 1]] \notin {"verify", "add", "update"}
  BY <1>2, FirstCallFits
<1>4. /\ step' = [step EXCEPT ![s] = k + 1] /\ tries' = [tries EXCEPT ![s] = 0]
      /\ doing' = [doing EXCEPT ![s] = FirstCall[Plan[s][k + 1]]]
      /\ step \in [Services -> Nat] /\ tries \in [Services -> Nat] /\ doing \in [Services -> Calls]
  BY DEF StartIInv, Done
<1>5. /\ step' \in [Services -> Nat] /\ tries' \in [Services -> Nat] /\ doing' \in [Services -> Calls]
      /\ step'[s] = k + 1 /\ tries'[s] = 0 /\ doing'[s] = FirstCall[Plan[s][k + 1]]
      /\ \A t \in Services \ {s} : step'[t] = step[t] /\ tries'[t] = tries[t] /\ doing'[t] = doing[t]
  BY <1>1, <1>3, <1>4
<1>6. ServiceOK(s)'
  <2>1. ASSUME NEW i \in 1 .. Len(Plan[s]), i < k + 1 PROVE SetUp(s, i)'
    <3>1. CASE i < k
      <4>1. SetUp(s, i)
        BY <1>1, <3>1 DEF ServiceOK
      <4>. QED
        BY <4>1 DEF SetUp, Kept, shared
    <3>2. CASE i = k
      BY <3>2
    <3>. QED
      BY <1>1, <2>1, <3>1, <3>2
  <2>2. ASSUME s \notin spoilt' PROVE Unspoilt(s)'
    <3>1. storeUp' /\ brokerUp'
      BY <1>1, <2>2 DEF ServiceOK, Unspoilt, Kept, shared
    <3>2. k + 1 # 0
      BY <1>1
    <3>. QED
      BY <1>3, <1>5, <3>1, <3>2 DEF Unspoilt
  <2>3. k + 1 # 0 /\ k + 1 \in 0 .. Len(Plan[s])
    BY <1>1
  <2>. QED
    BY <1>3, <1>5, <2>1, <2>2, <2>3 DEF ServiceOK
<1>. QED
  BY <1>5, <1>6, OthersGoOn

(* A call fails and its phase begins again, or the service exits, which it *)
(* only does if its start is spoilt.                                       *)
LEMMA AgainOK ==
    ASSUME StartIInv, NEW s \in Services, Kept, doing[s] # "none",
           step' = step, tries' = [tries EXCEPT ![s] = @ + 1],
           doing' = [doing EXCEPT ![s] = FirstCall[Phase(s)]],
           s \notin spoilt /\ Phase(s) = "stream" => stream' # NoStream
    PROVE  StartIInv'
<1>1. /\ Phase(s) = Plan[s][step[s]] /\ Phase(s) \in Phases /\ ServiceOK(s) /\ step[s] # 0
  BY PhaseOfCall DEF StartIInv
<1>2. PICK call : call = FirstCall[Phase(s)]
  OBVIOUS
<1>3. call \in Calls /\ call \in CallsOf[Phase(s)] /\ call \notin {"verify", "add", "update"}
  BY <1>1, <1>2, FirstCallFits
<1>4. step \in [Services -> Nat] /\ tries \in [Services -> Nat] /\ doing \in [Services -> Calls]
  BY DEF StartIInv
<1>5. /\ step' \in [Services -> Nat] /\ tries' \in [Services -> Nat] /\ doing' \in [Services -> Calls]
      /\ step'[s] = step[s] /\ doing'[s] = call
      /\ \A t \in Services \ {s} : step'[t] = step[t] /\ tries'[t] = tries[t] /\ doing'[t] = doing[t]
  BY <1>2, <1>3, <1>4
<1>6. ServiceOK(s)'
  <2>1. ASSUME NEW i \in 1 .. Len(Plan[s]), SetUp(s, i) PROVE SetUp(s, i)'
    BY <2>1 DEF SetUp, Kept, shared
  <2>2. s \notin spoilt' => Unspoilt(s)'
    BY <1>1, <1>3, <1>5 DEF ServiceOK, Unspoilt, Kept, shared
  <2>. QED
    BY <1>1, <1>3, <1>5, <2>1, <2>2 DEF ServiceOK
<1>. QED
  BY <1>5, <1>6, OthersGoOn

LEMMA ExitOK ==
    ASSUME StartIInv, NEW s \in Services, Kept, s \in spoilt, Exit(s)
    PROVE  StartIInv'
<1>1. /\ step \in [Services -> Nat] /\ tries \in [Services -> Nat] /\ doing \in [Services -> Calls]
      /\ step' = [step EXCEPT ![s] = 0] /\ doing' = [doing EXCEPT ![s] = "none"]
      /\ tries' = [tries EXCEPT ![s] = 0]
  BY DEF StartIInv, Exit
<1>2. /\ step' \in [Services -> Nat] /\ tries' \in [Services -> Nat] /\ doing' \in [Services -> Calls]
      /\ step'[s] = 0 /\ tries'[s] = 0 /\ doing'[s] = "none"
      /\ \A t \in Services \ {s} : step'[t] = step[t] /\ tries'[t] = tries[t] /\ doing'[t] = doing[t]
  <2>1. "none" \in Calls /\ 0 \in Nat
    BY DEF Calls
  <2>. QED
    BY <1>1, <2>1
<1>3. ServiceOK(s)'
  <2>1. \A i \in 1 .. Len(Plan[s]) : ~ (i < 0)
    BY PlanFacts
  <2>2. 0 \in 0 .. Len(Plan[s]) /\ s \in spoilt'
    BY PlanFacts DEF Kept, shared
  <2>. QED
    BY <1>2, <2>1, <2>2 DEF ServiceOK
<1>. QED
  BY <1>2, <1>3, OthersGoOn

(* Which phase a call is of.                                               *)
LEMMA CallPhase ==
    ASSUME StartIInv, NEW s \in Services, doing[s] # "none"
    PROVE  /\ doing[s] = "ping" => Plan[s][step[s]] = "ping"
           /\ doing[s] = "open" => Plan[s][step[s]] = "pool"
           /\ doing[s] \in {"exists", "create", "fallback"} => Plan[s][step[s]] = "index"
           /\ doing[s] = "dial" => Plan[s][step[s]] = "connect"
           /\ doing[s] \in {"find", "add", "update"} => Plan[s][step[s]] = "stream"
           /\ doing[s] \in {"subscribe", "verify"} => Plan[s][step[s]] = "attach"
BY PhaseOfCall DEF CallsOf, Phases

(* A start that saw no outage finds everything up, and the stream there    *)
(* once it attaches its consumer.                                          *)
LEMMA UnspoiltFacts ==
    ASSUME StartIInv, NEW s \in Services, doing[s] # "none"
    PROVE  /\ s \notin spoilt => storeUp /\ brokerUp /\ Unspoilt(s)
           /\ Plan[s][step[s]] = "attach" => stream # NoStream
           /\ doing[s] = "update" => stream # NoStream
<1>0. ServiceOK(s) /\ step[s] \in 1 .. Len(Plan[s]) - 1 /\ Len(Plan[s]) \in Nat
  BY PhaseOfCall, PlanFacts DEF StartIInv
<1>1. ASSUME s \notin spoilt PROVE storeUp /\ brokerUp /\ Unspoilt(s)
  BY <1>0, <1>1 DEF ServiceOK, Unspoilt
<1>2. ASSUME Plan[s][step[s]] = "attach" PROVE stream # NoStream
  <2>1. PICK j \in 1 .. step[s] - 1 : Plan[s][j] = "stream"
    BY <1>0, <1>2, PlanFacts
  <2>2. j \in 1 .. Len(Plan[s]) /\ j < step[s]
    BY <1>0, <2>1
  <2>. QED
    BY <1>0, <2>1, <2>2 DEF ServiceOK, SetUp
<1>. QED
  BY <1>0, <1>1, <1>2 DEF ServiceOK

(* The connections and the index.                                          *)
LEMMA ConnectStep ==
    ASSUME StartIInv, NEW s \in Services,
           Ping(s) \/ OpenPool(s) \/ Dial(s) \/ IndexExists(s) \/ CreateIndex(s) \/ Fallback(s)
    PROVE  StartIInv'
<1>1. /\ doing[s] \in {"ping", "open", "dial", "exists", "create", "fallback"} /\ doing[s] # "none"
      /\ Kept
  <2>0. storeUp \in BOOLEAN /\ index \in BOOLEAN
    BY DEF StartIInv
  <2>1. CASE CreateIndex(s) \/ Fallback(s)
    BY <2>0, <2>1 DEF CreateIndex, Fallback, Kept, shared
  <2>2. CASE Ping(s) \/ OpenPool(s) \/ Dial(s) \/ IndexExists(s)
    BY <2>0, <2>2 DEF Ping, OpenPool, Dial, IndexExists, Kept, shared, created
  <2>. QED
    BY <2>1, <2>2
<1>2. PICK k : k = step[s]
  OBVIOUS
<1>3. /\ s \notin spoilt => storeUp /\ brokerUp
      /\ doing[s] = "ping" => Plan[s][k] = "ping"
      /\ doing[s] = "open" => Plan[s][k] = "pool"
      /\ doing[s] = "dial" => Plan[s][k] = "connect"
      /\ doing[s] \in {"exists", "create", "fallback"} => Plan[s][k] = "index"
      /\ Phase(s) = Plan[s][k] /\ Plan[s][k] # "stream"
  BY <1>1, <1>2, UnspoiltFacts, CallPhase, PhaseOfCall DEF CallsOf, Phases
<1>4. CASE Done(s) /\ (doing[s] \in {"exists", "create", "fallback"} => index')
  <2>1. SetUp(s, k)'
    BY <1>1, <1>3, <1>4 DEF SetUp
  <2>. QED
    BY <1>1, <1>2, <1>4, <2>1, DoneOK
<1>5. CASE Exit(s) /\ s \in spoilt
  BY <1>1, <1>5, ExitOK
<1>6. CASE /\ tries' = [tries EXCEPT ![s] = @ + 1] /\ UNCHANGED step
           /\ doing' = [doing EXCEPT ![s] = FirstCall[Phase(s)]]
  BY <1>1, <1>3, <1>6, AgainOK
<1>7. CASE doing[s] \in {"exists", "create"} /\ (Then(s, "create") \/ Then(s, "fallback"))
  <2>1. "create" \in CallsOf[Plan[s][step[s]]] /\ "fallback" \in CallsOf[Plan[s][step[s]]]
    BY <1>2, <1>3, <1>7 DEF CallsOf
  <2>2. "create" \in Calls /\ "fallback" \in Calls
    BY DEF Calls
  <2>. QED
    BY <1>1, <1>7, <2>1, <2>2, ThenOK
<1>8. Ping(s) \/ OpenPool(s) \/ Dial(s) => (Done(s) /\ doing[s] \notin {"exists", "create", "fallback"})
        \/ (Exit(s) /\ s \in spoilt)
        \/ (/\ tries' = [tries EXCEPT ![s] = @ + 1] /\ UNCHANGED step
            /\ doing' = [doing EXCEPT ![s] = FirstCall[Phase(s)]])
  BY <1>3 DEF Ping, OpenPool, Dial, Again
<1>9. IndexExists(s) \/ CreateIndex(s) \/ Fallback(s) =>
        (Done(s) /\ index') \/ (Exit(s) /\ s \in spoilt)
        \/ (doing[s] \in {"exists", "create"} /\ (Then(s, "create") \/ Then(s, "fallback")))
        \/ (/\ tries' = [tries EXCEPT ![s] = @ + 1] /\ UNCHANGED step
            /\ doing' = [doing EXCEPT ![s] = FirstCall[Phase(s)]])
  <2>1. CASE IndexExists(s)
    BY <1>3, <2>1 DEF IndexExists, Again, created
  <2>2. CASE CreateIndex(s)
    BY <1>3, <2>2 DEF CreateIndex, Again, StartIInv
  <2>3. CASE Fallback(s)
    BY <1>3, <2>3 DEF Fallback, StartIInv
  <2>. QED
    BY <2>1, <2>2, <2>3
<1>. QED
  BY <1>4, <1>5, <1>6, <1>7, <1>8, <1>9

(* The stream.                                                             *)
LEMMA StreamStep ==
    ASSUME StartIInv, NEW s \in Services, FindStream(s) \/ UpdateStream(s) \/ AddStream(s)
    PROVE  StartIInv'
<1>1. doing[s] \in {"find", "update", "add"} /\ doing[s] # "none"
  BY DEF FindStream, UpdateStream, AddStream
<1>2. PICK k : k = step[s]
  OBVIOUS
<1>3. /\ s \notin spoilt => brokerUp /\ Unspoilt(s)
      /\ doing[s] = "update" => stream # NoStream
      /\ Plan[s][k] = "stream" /\ Phase(s) = Plan[s][k]
      /\ ConfigOf[s] # NoStream /\ {StreamTries} \subseteq Nat \ {0, 1}
      /\ tries \in [Services -> Nat] /\ tries[s] \in Nat
  BY <1>1, <1>2, UnspoiltFacts, CallPhase, PhaseOfCall, ServiceStartAssumption DEF StartIInv
<1>4. Kept
  BY <1>3 DEF StartIInv, FindStream, UpdateStream, AddStream, Kept, shared, created
<1>5. ASSUME Done(s), stream' # NoStream PROVE StartIInv'
  <2>1. SetUp(s, k)'
    BY <1>3, <1>5 DEF SetUp
  <2>. QED
    BY <1>1, <1>2, <1>4, <1>5, <2>1, DoneOK
<1>6. ASSUME Exit(s), s \in spoilt PROVE StartIInv'
  BY <1>1, <1>4, <1>6, ExitOK
<1>7. ASSUME tries' = [tries EXCEPT ![s] = @ + 1], UNCHANGED step,
             doing' = [doing EXCEPT ![s] = FirstCall[Phase(s)]],
             s \notin spoilt => stream' # NoStream
      PROVE  StartIInv'
  BY <1>1, <1>4, <1>7, AgainOK
<1>8. ASSUME NEW call \in {"add", "update"}, Then(s, call),
             call = "update" => stream' # NoStream,
             call = "add" /\ s \notin spoilt => tries[s] = 0
      PROVE  StartIInv'
  <2>1. call \in Calls /\ call \in CallsOf[Plan[s][step[s]]] /\ call # "verify"
    BY <1>2, <1>3 DEF CallsOf, Calls
  <2>. QED
    BY <1>1, <1>4, <1>8, <2>1, ThenOK
<1>9. CASE FindStream(s)
  <2>1. stream' = stream /\ (s \notin spoilt /\ stream = NoStream => tries[s] = 0)
    BY <1>2, <1>3, <1>9 DEF FindStream, created, Unspoilt
  <2>2. CASE ~ brokerUp
    <3>1. s \in spoilt
      BY <1>3, <2>2
    <3>2. Again(s, StreamTries, Then(s, "add"))
      BY <1>9, <2>2 DEF FindStream
    <3>3. CASE tries[s] + 1 < StreamTries
      BY <1>7, <3>1, <3>2, <3>3 DEF Again
    <3>4. CASE ~ (tries[s] + 1 < StreamTries)
      BY <1>8, <3>1, <3>2, <3>4 DEF Again
    <3>. QED
      BY <3>3, <3>4
  <2>3. CASE brokerUp /\ stream = NoStream
    <3>1. Then(s, "add")
      BY <1>9, <2>3 DEF FindStream
    <3>. QED
      BY <1>8, <2>1, <2>3, <3>1
  <2>4. CASE brokerUp /\ stream # NoStream
    <3>1. Then(s, "update")
      BY <1>9, <2>4 DEF FindStream
    <3>. QED
      BY <1>8, <2>1, <2>4, <3>1
  <2>. QED
    BY <2>2, <2>3, <2>4
<1>10. CASE UpdateStream(s)
  <2>1. Done(s) /\ stream' # NoStream
    BY <1>3, <1>10 DEF UpdateStream
  <2>. QED
    BY <1>5, <2>1
<1>11. CASE AddStream(s)
  <2>1. stream' = IF brokerUp /\ stream = NoStream THEN ConfigOf[s] ELSE stream
    BY <1>11 DEF AddStream
  <2>2. CASE brokerUp /\ stream \in {NoStream, ConfigOf[s]}
    <3>1. Done(s) /\ stream' # NoStream
      BY <1>3, <1>11, <2>1, <2>2 DEF AddStream
    <3>. QED
      BY <1>5, <3>1
  <2>3. CASE ~ (brokerUp /\ stream \in {NoStream, ConfigOf[s]})
    <3>1. Again(s, StreamTries, Exit(s))
      BY <1>11, <2>3 DEF AddStream
    <3>2. s \notin spoilt => stream' # NoStream /\ tries[s] = 0
      BY <1>3, <1>11, <2>1, <2>3 DEF AddStream, Unspoilt
    <3>3. CASE tries[s] + 1 < StreamTries
      BY <1>7, <3>1, <3>2, <3>3 DEF Again
    <3>4. CASE ~ (tries[s] + 1 < StreamTries)
      <4>1. s \in spoilt
        BY <1>3, <3>2, <3>4
      <4>. QED
        BY <1>6, <3>1, <3>4, <4>1 DEF Again
    <3>. QED
      BY <3>3, <3>4
  <2>. QED
    BY <2>2, <2>3
<1>. QED
  BY <1>9, <1>10, <1>11

(* The consumer.                                                           *)
LEMMA AttachStep ==
    ASSUME StartIInv, NEW s \in Services, Subscribe(s) \/ Verify(s)
    PROVE  StartIInv'
<1>1. doing[s] \in {"subscribe", "verify"} /\ doing[s] # "none"
  BY DEF Subscribe, Verify
<1>2. PICK k : k = step[s]
  OBVIOUS
<1>3. /\ s \notin spoilt => brokerUp /\ Unspoilt(s)
      /\ Plan[s][k] = "attach" /\ Phase(s) = "attach" /\ stream # NoStream
  BY <1>1, <1>2, UnspoiltFacts, CallPhase, PhaseOfCall
<1>4. Kept
  BY DEF StartIInv, Subscribe, Verify, Kept, shared, created
<1>5. ASSUME Again(s, StreamTries, Exit(s)), s \in spoilt PROVE StartIInv'
  <2>1. CASE tries[s] + 1 < StreamTries
    BY <1>1, <1>3, <1>4, <1>5, <2>1, AgainOK DEF Again
  <2>2. CASE ~ (tries[s] + 1 < StreamTries)
    BY <1>1, <1>4, <1>5, <2>2, ExitOK DEF Again
  <2>. QED
    BY <2>1, <2>2
<1>6. CASE Subscribe(s)
  <2>1. CASE brokerUp
    <3>1. consumers' = consumers \cup {s} /\ Then(s, "verify")
      BY <1>3, <1>6, <2>1 DEF Subscribe
    <3>2. "verify" \in Calls /\ "verify" \in CallsOf[Plan[s][step[s]]]
      BY <1>2, <1>3 DEF CallsOf, Calls
    <3>. QED
      BY <1>1, <1>4, <3>1, <3>2, ThenOK
  <2>2. CASE ~ brokerUp
    BY <1>3, <1>5, <1>6, <2>2 DEF Subscribe
  <2>. QED
    BY <2>1, <2>2
<1>7. CASE Verify(s)
  <2>1. CASE brokerUp /\ s \in consumers
    <3>1. Done(s) /\ UNCHANGED created
      BY <1>7, <2>1 DEF Verify
    <3>2. SetUp(s, k)'
      BY <1>3, <2>1, <3>1 DEF SetUp, created
    <3>. QED
      BY <1>1, <1>2, <1>4, <3>1, <3>2, DoneOK
  <2>2. CASE ~ (brokerUp /\ s \in consumers)
    <3>1. s \in spoilt
      BY <1>3, <1>7, <2>2 DEF Verify, Unspoilt
    <3>. QED
      BY <1>5, <1>7, <2>2, <3>1 DEF Verify
  <2>. QED
    BY <2>1, <2>2
<1>. QED
  BY <1>6, <1>7

(* A consumer that was deleted is subscribed to again.                     *)
LEMMA ResubscribeStep ==
    ASSUME StartIInv, NEW s \in Services, Resubscribe(s)
    PROVE  StartIInv'
<1>1. Kept /\ UNCHANGED <<step, doing, tries>>
  BY DEF StartIInv, Resubscribe, Kept, shared
<1>2. ServiceOK(s)'
  <2>1. ASSUME NEW i \in 1 .. Len(Plan[s]), SetUp(s, i) PROVE SetUp(s, i)'
    BY <1>1, <2>1 DEF SetUp, Kept, shared
  <2>2. ServiceOK(s)
    BY DEF StartIInv
  <2>. QED
    BY <1>1, <2>1, <2>2 DEF ServiceOK, Unspoilt, Kept, shared
<1>. QED
  BY <1>1, <1>2, OthersGoOn DEF StartIInv

(* The container starts the service again.                                 *)
LEMMA RestartStep ==
    ASSUME StartIInv, NEW s \in Services, Restart(s)
    PROVE  StartIInv'
<1>0. /\ step[s] = 0 /\ step' = [step EXCEPT ![s] = 1] /\ tries' = tries
      /\ doing' = [doing EXCEPT ![s] = FirstCall[Plan[s][1]]]
      /\ UNCHANGED <<storeUp, brokerUp, index, stream, consumers, cut>>
      /\ spoilt' = IF storeUp /\ brokerUp THEN spoilt \ {s} ELSE spoilt \cup {s}
      /\ step \in [Services -> Nat] /\ tries \in [Services -> Nat] /\ doing \in [Services -> Calls]
      /\ storeUp \in BOOLEAN /\ brokerUp \in BOOLEAN /\ index \in BOOLEAN
  BY DEF StartIInv, Restart, created
<1>1. /\ 1 \in 1 .. Len(Plan[s]) /\ Plan[s][1] \in Phases /\ Len(Plan[s]) \in Nat
      /\ tries[s] = 0
  BY <1>0, PlanFacts DEF StartIInv, ServiceOK
<1>2. PICK call : call = FirstCall[Plan[s][1]]
  OBVIOUS
<1>3. call \in Calls /\ call \in CallsOf[Plan[s][1]] /\ call \notin {"verify", "add", "update"}
  BY <1>1, <1>2, FirstCallFits
<1>4. /\ step' \in [Services -> Nat] /\ doing' \in [Services -> Calls]
      /\ step'[s] = 1 /\ doing'[s] = call /\ tries'[s] = 0
      /\ \A t \in Services \ {s} : step'[t] = step[t] /\ doing'[t] = doing[t]
  BY <1>0, <1>1, <1>2, <1>3
<1>5. ServiceOK(s)'
  <2>1. \A i \in 1 .. Len(Plan[s]) : ~ (i < 1)
    BY <1>1
  <2>2. s \notin spoilt' => Unspoilt(s)'
    BY <1>0, <1>3, <1>4 DEF Unspoilt
  <2>. QED
    BY <1>1, <1>3, <1>4, <2>1, <2>2 DEF ServiceOK
<1>6. ASSUME NEW t \in Services, t # s PROVE ServiceOK(t)'
  <2>1. ServiceOK(t) /\ step'[t] = step[t] /\ tries'[t] = tries[t] /\ doing'[t] = doing[t]
        /\ (t \in spoilt' <=> t \in spoilt)
    BY <1>0, <1>4, <1>6 DEF StartIInv
  <2>. QED
    BY <1>0, <2>1 DEF ServiceOK, Unspoilt, SetUp
<1>. QED
  BY <1>0, <1>4, <1>5, <1>6 DEF StartIInv

(* The store or the broker goes away or comes back: no start under way is  *)
(* unspoilt any more.                                                      *)
LEMMA ToggleStep == ASSUME StartIInv, Toggle PROVE StartIInv'
<1>0. /\ UNCHANGED <<step, doing, tries, index, stream, consumers, cut>>
      /\ spoilt' = spoilt \cup {s \in Services : ~ Serving(s)}
      /\ storeUp' \in BOOLEAN /\ brokerUp' \in BOOLEAN
  BY DEF StartIInv, Toggle, created
<1>1. ASSUME NEW s \in Services PROVE ServiceOK(s)'
  <2>1. ServiceOK(s) /\ Len(Plan[s]) \in Nat
    BY PlanFacts DEF StartIInv
  <2>2. s \notin spoilt' => Unspoilt(s)'
    <3>1. ASSUME s \notin spoilt' PROVE Unspoilt(s)'
      <4>1. Serving(s) /\ s \notin spoilt
        BY <1>0, <3>1
      <4>2. step[s] = Len(Plan[s])
        BY <2>1, <4>1, PlanFacts DEF Serving, Phase, ServiceOK
      <4>3. ~ (step[s] < Len(Plan[s]))
        BY <2>1, <4>2
      <4>. QED
        BY <1>0, <2>1, <4>1, <4>3 DEF ServiceOK, Unspoilt
    <3>. QED
      BY <3>1
  <2>. QED
    BY <1>0, <2>1, <2>2 DEF ServiceOK, SetUp
<1>. QED
  BY <1>0, <1>1 DEF StartIInv

(* An operator deletes a consumer: of a service that serves, or one whose  *)
(* start is spoilt by it.                                                  *)
LEMMA DeleteStep ==
    ASSUME StartIInv, NEW s \in Services, DeleteConsumer(s)
    PROVE  StartIInv'
<1>0. /\ UNCHANGED <<storeUp, brokerUp, index, stream, step, doing, tries>>
      /\ consumers' = consumers \ {s}
      /\ IF Serving(s) THEN cut' = cut \cup {s} /\ spoilt' = spoilt
                       ELSE spoilt' = spoilt \cup {s} /\ cut' = cut
  BY DEF DeleteConsumer
<1>1. ASSUME NEW t \in Services PROVE ServiceOK(t)'
  <2>0. ServiceOK(t) /\ Len(Plan[t]) \in Nat
    BY PlanFacts DEF StartIInv
  <2>1. ASSUME NEW i \in 1 .. Len(Plan[t]), i < step[t] PROVE SetUp(t, i)'
    <3>1. SetUp(t, i)
      BY <2>0, <2>1 DEF ServiceOK
    <3>2. CASE t # s \/ Serving(s) \/ Plan[t][i] # "attach"
      BY <1>0, <3>1, <3>2 DEF SetUp
    <3>3. CASE t = s /\ ~ Serving(s) /\ Plan[t][i] = "attach"
      <4>1. i = Len(Plan[t]) - 1 /\ step[t] \in 0 .. Len(Plan[t]) /\ step[t] # 0 /\ i \in Nat
        BY <2>0, <2>1, <3>3, PlanFacts DEF ServiceOK
      <4>2. step[t] = Len(Plan[t])
        BY <2>0, <2>1, <4>1
      <4>3. Serving(t)
        BY <2>0, <4>1, <4>2, PlanFacts DEF Serving, Phase
      <4>. QED
        BY <3>3, <4>3
    <3>. QED
      BY <3>2, <3>3
  <2>2. s \notin spoilt' => doing[s] # "verify"
    <3>1. ASSUME s \notin spoilt', doing[s] = "verify" PROVE FALSE
      <4>1. step[s] \in 1 .. Len(Plan[s]) - 1 /\ Phase(s) # "serving"
        BY <3>1, PhaseOfCall
      <4>. QED
        BY <1>0, <3>1, <4>1 DEF Serving
    <3>. QED
      BY <3>1
  <2>3. t \notin spoilt' => Unspoilt(t)'
    BY <1>0, <2>0, <2>2 DEF ServiceOK, Unspoilt
  <2>. QED
    BY <1>0, <2>0, <2>1, <2>3 DEF ServiceOK
<1>. QED
  BY <1>0, <1>1 DEF StartIInv

LEMMA InitStart == StartInit => StartIInv
<1> SUFFICES ASSUME StartInit PROVE StartIInv
  OBVIOUS
<1>1. ASSUME NEW s \in Services
      PROVE  FirstCall[Plan[s][1]] \in Calls /\ ServiceOK(s)
  <2>1. 1 \in 1 .. Len(Plan[s]) /\ Plan[s][1] \in Phases /\ Len(Plan[s]) \in Nat
    BY PlanFacts
  <2>2. /\ FirstCall[Plan[s][1]] \in Calls /\ FirstCall[Plan[s][1]] \in CallsOf[Plan[s][1]]
        /\ FirstCall[Plan[s][1]] \notin {"verify", "add", "update"}
    BY <2>1, FirstCallFits
  <2>3. step[s] = 1 /\ tries[s] = 0 /\ doing[s] = FirstCall[Plan[s][1]] /\ storeUp /\ brokerUp
    BY DEF StartInit
  <2>4. \A i \in 1 .. Len(Plan[s]) : ~ (i < 1)
    BY <2>1
  <2>. QED
    BY <2>1, <2>2, <2>3, <2>4 DEF ServiceOK, Unspoilt
<1>2. step \in [Services -> Nat] /\ tries \in [Services -> Nat] /\ doing \in [Services -> Calls]
  BY <1>1 DEF StartInit
<1>. QED
  BY <1>1, <1>2 DEF StartInit, StartIInv

LEMMA NextStart == StartIInv /\ [StartNext]_startVars => StartIInv'
<1> SUFFICES ASSUME StartIInv, [StartNext]_startVars PROVE StartIInv'
  OBVIOUS
<1>1. ASSUME NEW s \in Services, Starting(s) PROVE StartIInv'
  BY <1>1, ConnectStep, StreamStep, AttachStep, ResubscribeStep, RestartStep DEF Starting
<1>2. CASE UNCHANGED startVars
  <2>1. ASSUME NEW s \in Services PROVE ServiceOK(s)'
    BY <1>2 DEF startVars, StartIInv, ServiceOK, Unspoilt, SetUp
  <2>. QED
    BY <1>2, <2>1 DEF startVars, StartIInv
<1>. QED
  BY <1>1, <1>2, ToggleStep, DeleteStep DEF StartNext

(* A service that serves has found or made the index, the stream and its   *)
(* consumer; and however the services race to make them, no start fails    *)
(* unless something went away during it (nats_client.py, run, lifespan).   *)
THEOREM StartInvariant == StartSpec => []StartInv
<1>1. StartIInv => StartInv
  <2> SUFFICES ASSUME StartIInv, NEW s \in Services
               PROVE  /\ Serving(s) => \A i \in DOMAIN Plan[s] : SetUp(s, i)
                      /\ Phase(s) = "exited" => s \in spoilt
    BY DEF StartInv, ServingIsSetUp, RacesAreHarmless, SetUp
  <2>0. ServiceOK(s) /\ Len(Plan[s]) \in Nat /\ DOMAIN Plan[s] = 1 .. Len(Plan[s])
    BY PlanFacts DEF StartIInv
  <2>1. ASSUME Serving(s), NEW i \in 1 .. Len(Plan[s]) PROVE SetUp(s, i)
    <3>1. step[s] = Len(Plan[s])
      BY <2>0, <2>1, PlanFacts DEF Serving, Phase, ServiceOK
    <3>2. CASE i < step[s]
      BY <2>0, <3>2 DEF ServiceOK
    <3>3. CASE i = step[s]
      <4>1. Plan[s][i] = "serving"
        BY <2>0, <3>1, <3>3, PlanFacts
      <4>. QED
        BY <4>1 DEF SetUp
    <3>. QED
      BY <2>0, <3>1, <3>2, <3>3
  <2>2. ASSUME Phase(s) = "exited" PROVE s \in spoilt
    <3>1. CASE step[s] = 0
      BY <2>0, <3>1 DEF ServiceOK, Unspoilt
    <3>2. CASE step[s] # 0
      <4>1. Plan[s][step[s]] \in Phases
        BY <2>0, <3>2, PlanFacts DEF ServiceOK
      <4>. QED
        BY <2>2, <3>2, <4>1 DEF Phase, Phases
    <3>. QED
      BY <3>1, <3>2
  <2>. QED
    BY <2>0, <2>1, <2>2
<1>. QED
  BY <1>1, InitStart, NextStart, PTL DEF StartSpec

----------------------------------------------------------------------------
(* The consumers of the stream.                                            *)

Increasing(b) == \A i, j \in 1 .. Len(b) : i < j => b[i] < b[j]

(* A batch in the process: in the stream's order, and, of an element whose *)
(* messages did not race, with every newer message delivered so far.       *)
BatchOK(b) ==
    /\ b \in Seq(Stream) /\ Of(b) \subseteq 1 .. delivered /\ Increasing(b)
    /\ \A l \in Of(b), n \in 1 .. delivered :
         ElementOf[n] = ElementOf[l] /\ ElementOf[l] \notin raced /\ n > l => n \in Of(b)

InProcess == {fetched} \cup {queue[i] : i \in 1 .. Len(queue)} \cup {job[w].msgs : w \in Workers}

\* Table t has a row of message m, or a newer one of its element, or refused it.
Covered(t, m) ==
    m \in RowsIn[t] => \/ \E n \in written[t] : n >= m /\ ElementOf[n] = ElementOf[m]
                       \/ t \in Bulks /\ m \in rejected[t]

\* What a worker acknowledges it was given, and the tables it is past cover it.
JobOK(w) ==
    /\ job[w].table <= Len(Tables) + 1 /\ job[w].table >= 1
    /\ job[w].attempt <= MaxAttempts - 1
    /\ Of(job[w].acks) \subseteq Of(job[w].msgs)
    /\ \A t \in TableNos : t < job[w].table => \A m \in Of(job[w].msgs) : Covered(t, m)

JobType == [msgs : Seq(Stream), table : Nat, attempt : Nat, acks : Seq(Stream)]

InserterType ==
    /\ delivered \in 0 .. Messages
    /\ unacked \subseteq 1 .. delivered /\ due \subseteq 1 .. delivered
    /\ unacked \cap due = {}
    /\ queue \in Seq(Seq(Stream)) /\ Len(queue) <= QueueSize
    /\ fetched \in Seq(Stream)
    /\ job \in [Workers -> JobType]
    /\ rows \in [TableNos -> [Elements -> Stream \cup {NoRow}]]
    /\ written \in [TableNos -> SUBSET Stream]
    /\ rejected \in [TableNos -> SUBSET Stream]

WrittenOK == \A t \in TableNos : written[t] \subseteq RowsIn[t] \cap (1 .. delivered)

InserterIInv ==
    /\ InserterType /\ WrittenOK
    /\ \A b \in InProcess : BatchOK(b)
    /\ \A w \in Workers : JobOK(w)
    /\ AckedIsWritten /\ StaleOnlyByRace

LEMMA InserterConstants ==
    /\ Messages \in Nat /\ Len(Tables) \in Nat /\ RowsIn \in [TableNos -> SUBSET Stream]
    /\ NoRow \notin Stream /\ BatchSize \in Nat \ {0} /\ QueueSize \in Nat \ {0}
    /\ MaxAttempts \in Nat \ {0}
BY InserterAssumption

LEMMA StreamIsNat == \A m \in Stream : m \in Nat
BY DEF Stream

(* A batch that the consumer delivers: in order, and with the messages that *)
(* are new up to its last one.                                             *)
LEMMA DeliveredBatch ==
    ASSUME InserterType, NEW b \in Batches
    PROVE  /\ b \in Seq(Stream) /\ Len(b) \in Nat /\ Len(b) >= 1 /\ Increasing(b)
           /\ \A i \in 1 .. Len(b) : b[i] <= b[Len(b)]
           /\ \A m \in Of(b) : m \in due \/ m > delivered
           /\ \A m \in Stream : m > delivered /\ m <= b[Len(b)] => m \in Of(b)
<1>0. delivered \in Nat /\ delivered <= Messages /\ Messages \in Nat /\ due \subseteq 1 .. delivered
      /\ BatchSize \in Nat
  BY InserterConstants DEF InserterType
<1>1. PICK n \in 1 .. BatchSize : b \in [1 .. n -> due \cup (delivered + 1 .. Messages)]
  BY DEF Batches, Redeliverable
<1>2. /\ n \in Nat /\ n >= 1 /\ b \in Seq(Stream) /\ Len(b) = n
      /\ \A i \in 1 .. n : b[i] \in due \/ (b[i] \in Stream /\ b[i] > delivered)
  <2>1. due \cup (delivered + 1 .. Messages) \subseteq Stream
    BY <1>0 DEF Stream
  <2>2. n \in Nat /\ n >= 1 /\ b \in [1 .. n -> Stream]
    <3>1. n \in Nat /\ n >= 1
      BY <1>0
    <3>2. \A i \in 1 .. n : b[i] \in Stream
      BY <1>1, <2>1
    <3>. QED
      BY <1>1, <3>1, <3>2
  <2>3. b \in Seq(Stream) /\ Len(b) = n
    BY <2>2
  <2>4. \A x \in delivered + 1 .. Messages : x \in Stream /\ x > delivered
    BY <1>0 DEF Stream
  <2>. QED
    BY <1>1, <2>2, <2>3, <2>4
<1>3. \A i \in 1 .. n : b[i] \in Nat
  <2>1. \A i \in 1 .. n : b[i] \in Stream
    BY <1>2
  <2>2. Stream \subseteq Nat
    BY DEF Stream
  <2>. QED
    BY <2>1, <2>2
<1>4. \A i \in 1 .. n : /\ i > 1 => b[i - 1] < b[i]
                        /\ b[i] > delivered + 1 => i > 1 /\ b[i - 1] = b[i] - 1
  BY <1>2 DEF Batches
<1>5. Increasing(b)
  <2> SUFFICES ASSUME NEW i \in 1 .. n, NEW j \in 1 .. n, i < j, ~ (b[i] < b[j])
               PROVE  FALSE
    BY <1>2 DEF Increasing
  <2> DEFINE T == {k \in 1 .. n : i < k /\ ~ (b[i] < b[k])}
  <2>1. T \subseteq Nat /\ T # {}
    BY <1>2
  <2>2. PICK k \in T : \A l \in T : k <= l
    <3> HIDE DEF T
    <3>. QED
      BY <2>1, LeastOf
  <2>3. k \in 1 .. n /\ i < k /\ ~ (b[i] < b[k]) /\ k - 1 \in 1 .. n /\ b[k - 1] < b[k]
    BY <1>2, <1>4
  <2>4. CASE i = k - 1
    BY <2>3, <2>4
  <2>5. CASE i < k - 1
    <3>1. k - 1 \notin T
      BY <2>2, <2>3
    <3>2. b[i] < b[k - 1]
      BY <2>3, <2>5, <3>1
    <3>3. b[i] \in Nat /\ b[k] \in Nat /\ b[k - 1] \in Nat
      BY <1>3, <2>3
    <3>. QED
      BY <2>3, <3>2, <3>3
  <2>. QED
    BY <1>2, <2>3, <2>4, <2>5
<1>6. \A i \in 1 .. n : b[i] <= b[n]
  <2> SUFFICES ASSUME NEW i \in 1 .. n PROVE b[i] <= b[n]
    OBVIOUS
  <2>1. n \in 1 .. n /\ b[i] \in Nat /\ b[n] \in Nat /\ (i = n \/ i < n)
    BY <1>2, <1>3
  <2>2. i < n => b[i] < b[n]
    BY <1>2, <1>5, <2>1 DEF Increasing
  <2>. QED
    BY <2>1, <2>2
<1>7. ASSUME NEW m \in Stream, m > delivered, m <= b[n], m \notin Of(b) PROVE FALSE
  <2> DEFINE T == {k \in 1 .. n : b[k] > m}
  <2>1. T \subseteq Nat /\ T # {}
    <3>1. n \in 1 .. n /\ b[n] \in Nat /\ m \in Nat
      BY <1>2, <1>3, <1>7 DEF Stream
    <3>2. b[n] # m
      BY <1>2, <1>7, <3>1 DEF Of
    <3>. QED
      BY <1>7, <3>1, <3>2
  <2>2. PICK k \in T : \A l \in T : k <= l
    <3> HIDE DEF T
    <3>. QED
      BY <2>1, LeastOf
  <2>3. k \in 1 .. n /\ b[k] > m /\ b[k] \in Nat /\ m \in Nat
    BY <1>3 DEF Stream
  <2>4. k > 1 /\ b[k - 1] = b[k] - 1
    <3>1. b[k] > delivered + 1
      BY <1>0, <1>7, <2>3
    <3>. QED
      BY <1>4, <2>3, <3>1
  <2>5. k - 1 \in 1 .. n
    BY <1>2, <2>3, <2>4
  <2>6. b[k - 1] # m
    BY <1>2, <1>7, <2>5 DEF Of
  <2>7. b[k - 1] > m
    BY <2>3, <2>4, <2>6
  <2>8. k - 1 \in T
    BY <2>5, <2>7
  <2> HIDE DEF T
  <2>9. k <= k - 1 /\ k \in Nat
    BY <2>1, <2>2, <2>8
  <2>. QED
    BY <2>9
<1>8. \A m \in Of(b) : m \in due \/ m > delivered
  BY <1>2 DEF Of
<1>. QED
  BY <1>2, <1>5, <1>6, <1>7, <1>8

LEMMA FreeFacts ==
    /\ Free \in JobType /\ Free.msgs = <<>> /\ Free.acks = <<>> /\ Free.table = 1 /\ Free.attempt = 0
    /\ Of(<<>>) = {} /\ BatchOK(<<>>)
<1>1. Of(<<>>) = {} /\ Increasing(<<>>)
  BY DEF Of, Increasing
<1>2. <<>> \in Seq(Stream)
  OBVIOUS
<1>. QED
  BY <1>1, <1>2 DEF Free, JobType, BatchOK

(* A step that takes no new batch into the process.                        *)
LEMMA SameBatches ==
    ASSUME InserterIInv, InserterType', WrittenOK', UNCHANGED delivered, raced \subseteq raced',
           \A b \in InProcess' : b \in InProcess \/ b = <<>>,
           \A w \in Workers : JobOK(w)',
           AckedIsWritten', StaleOnlyByRace'
    PROVE  InserterIInv'
<1>1. ASSUME NEW b \in InProcess' PROVE BatchOK(b)'
  <2>1. BatchOK(b)
    BY <1>1, FreeFacts DEF InserterIInv
  <2>. QED
    BY <2>1 DEF BatchOK
<1>. QED
  BY <1>1 DEF InserterIInv

(* ... and writes nothing.                                                 *)
LEMMA SameRows ==
    ASSUME InserterIInv, InserterType', UNCHANGED <<delivered, raced, rows, written, rejected>>,
           \A b \in InProcess' : b \in InProcess \/ b = <<>>,
           \A w \in Workers : JobOK(w)',
           \A m \in Acked' : m \in Acked \/ \A t \in TableNos : Covered(t, m)
    PROVE  InserterIInv'
<1>1. WrittenOK' /\ StaleOnlyByRace'
  BY DEF InserterIInv, WrittenOK, StaleOnlyByRace
<1>2. AckedIsWritten'
  BY DEF InserterIInv, AckedIsWritten, Covered
<1>. QED
  BY <1>1, <1>2, SameBatches

(* The jobs stay, or one of them is freed.                                 *)
LEMMA SameJobs ==
    ASSUME InserterIInv, NEW w \in Workers, UNCHANGED <<written, rejected>>,
           job' = [job EXCEPT ![w] = Free]
    PROVE  /\ job' \in [Workers -> JobType] /\ job'[w] = Free
           /\ \A v \in Workers : JobOK(v)'
           /\ \A v \in Workers : v # w => job'[v] = job[v]
<1>1. /\ job' \in [Workers -> JobType] /\ job'[w] = Free
      /\ \A v \in Workers : v # w => job'[v] = job[v]
  BY FreeFacts DEF InserterIInv, InserterType
<1>2. JobOK(w)'
  <2>1. \A t \in TableNos : ~ (t < 1)
    BY InserterConstants DEF TableNos
  <2>2. 1 <= Len(Tables) + 1 /\ 0 <= MaxAttempts - 1
    BY InserterConstants
  <2>. QED
    BY <1>1, <2>1, <2>2, FreeFacts DEF JobOK
<1>3. ASSUME NEW v \in Workers, v # w PROVE JobOK(v)'
  BY <1>1, <1>3 DEF InserterIInv, JobOK, Covered
<1>. QED
  BY <1>1, <1>2, <1>3

LEMMA QueueMoves ==
    ASSUME InserterIInv, Enqueue \/ \E w \in Workers : Get(w)
    PROVE  InserterIInv'
<1>0. /\ InserterType /\ queue \in Seq(Seq(Stream)) /\ Len(queue) \in Nat /\ Len(queue) <= QueueSize
      /\ QueueSize \in Nat /\ job \in [Workers -> JobType] /\ fetched \in Seq(Stream)
  BY InserterConstants DEF InserterIInv, InserterType
<1>1. UNCHANGED <<delivered, unacked, due, raced, rows, written, rejected>>
  BY DEF Enqueue, Get, consumerVars, sinkVars
<1>2. Acked' = Acked
  BY <1>1 DEF Acked
<1>3. CASE Enqueue
  <2>1. /\ Len(queue) < QueueSize /\ queue' = Append(queue, fetched) /\ fetched' = <<>> /\ job' = job
    BY <1>3 DEF Enqueue
  <2>2. /\ queue' \in Seq(Seq(Stream)) /\ Len(queue') = Len(queue) + 1 /\ Len(queue') <= QueueSize
        /\ fetched' \in Seq(Stream)
        /\ \A i \in 1 .. Len(queue) : queue'[i] = queue[i]
        /\ queue'[Len(queue) + 1] = fetched
    BY <1>0, <2>1
  <2>3. InserterType'
    BY <1>0, <1>1, <2>1, <2>2 DEF InserterType
  <2>4. ASSUME NEW b \in InProcess' PROVE b \in InProcess \/ b = <<>>
    <3>1. \A i \in 1 .. Len(queue') : i \in 1 .. Len(queue) \/ i = Len(queue) + 1
      BY <1>0, <2>2
    <3>. QED
      BY <2>1, <2>2, <3>1 DEF InProcess
  <2>5. \A w \in Workers : JobOK(w)'
    BY <1>1, <2>1 DEF InserterIInv, JobOK, Covered
  <2>. QED
    BY <1>1, <1>2, <2>3, <2>4, <2>5, SameRows
<1>4. ASSUME NEW w \in Workers, Get(w) PROVE InserterIInv'
  <2>1. /\ job[w] = Free /\ queue # <<>> /\ queue' = Tail(queue) /\ fetched' = fetched
        /\ job' = [job EXCEPT ![w] = [Free EXCEPT !.msgs = Head(queue), !.acks = Head(queue)]]
    BY <1>4 DEF Get
  <2>2. /\ Len(queue) >= 1 /\ Head(queue) = queue[1] /\ Head(queue) \in Seq(Stream)
        /\ queue' \in Seq(Seq(Stream)) /\ Len(queue') = Len(queue) - 1
        /\ \A i \in 1 .. Len(queue') : queue'[i] = queue[i + 1]
    BY <1>0, <2>1
  <2>3. PICK j : j = [Free EXCEPT !.msgs = Head(queue), !.acks = Head(queue)]
    OBVIOUS
  <2>4. /\ j \in JobType /\ j.msgs = Head(queue) /\ j.acks = Head(queue) /\ j.table = 1 /\ j.attempt = 0
    BY <2>2, <2>3 DEF Free, JobType
  <2>5. /\ job' \in [Workers -> JobType] /\ job'[w] = j
        /\ \A v \in Workers : v # w => job'[v] = job[v]
    BY <1>0, <2>1, <2>3, <2>4
  <2>6. InserterType'
    <3>1. Len(queue') <= QueueSize
      BY <1>0, <2>2
    <3>. QED
      BY <1>0, <1>1, <2>1, <2>2, <2>5, <3>1 DEF InserterType
  <2>7. ASSUME NEW b \in InProcess' PROVE b \in InProcess \/ b = <<>>
    <3>1. \A i \in 1 .. Len(queue') : i + 1 \in 1 .. Len(queue)
      BY <1>0, <2>2
    <3>2. 1 \in 1 .. Len(queue)
      BY <1>0, <2>2
    <3>. QED
      BY <2>1, <2>2, <2>4, <2>5, <3>1, <3>2 DEF InProcess
  <2>8. ASSUME NEW v \in Workers PROVE JobOK(v)'
    <3>1. CASE v # w
      BY <1>1, <2>5, <3>1 DEF InserterIInv, JobOK, Covered
    <3>2. CASE v = w
      <4>1. \A t \in TableNos : ~ (t < 1)
        BY InserterConstants DEF TableNos
      <4>2. 1 <= Len(Tables) + 1 /\ 0 <= MaxAttempts - 1
        BY InserterConstants
      <4>. QED
        BY <2>4, <2>5, <3>2, <4>1, <4>2 DEF JobOK
    <3>. QED
      BY <3>1, <3>2
  <2>. QED
    BY <1>1, <1>2, <2>6, <2>7, <2>8, SameRows
<1>. QED
  BY <1>3, <1>4

LEMMA ExpireStep ==
    ASSUME InserterIInv, NEW m \in Stream, Expire(m)
    PROVE  InserterIInv'
<1>1. /\ unacked' = unacked \ {m} /\ due' = due \cup {m} /\ m \in unacked
      /\ UNCHANGED <<delivered, fetched, queue, job, rows, written, rejected, raced>>
  BY DEF Expire, sinkVars
<1>2. InserterType'
  BY <1>1 DEF InserterIInv, InserterType
<1>3. Acked' = Acked
  BY <1>1 DEF Acked
<1>4. InProcess' = InProcess
  BY <1>1 DEF InProcess
<1>5. \A w \in Workers : JobOK(w)'
  BY <1>1 DEF InserterIInv, JobOK, Covered
<1>. QED
  BY <1>1, <1>2, <1>3, <1>4, <1>5, SameRows

(* One of a worker's acknowledgements is sent, and arrives or is lost.     *)
LEMMA AckStep ==
    ASSUME InserterIInv, NEW w \in Workers, Ack(w) \/ AckLost(w)
    PROVE  InserterIInv'
<1>1. /\ job[w].table > Len(Tables) /\ job[w].acks # <<>>
      /\ job' = [job EXCEPT ![w].acks = Tail(@)]
      /\ UNCHANGED <<delivered, fetched, queue, rows, written, rejected, raced>>
      /\ \/ unacked' = unacked \ {Head(job[w].acks)} /\ due' = due \ {Head(job[w].acks)}
         \/ unacked' = unacked /\ due' = due
  BY DEF Ack, AckLost, Acking, sinkVars, consumerVars
<1>2. PICK j : j = job[w]
  OBVIOUS
<1>3. /\ j \in JobType /\ JobOK(w) /\ j.acks \in Seq(Stream) /\ Len(j.acks) \in Nat
      /\ job \in [Workers -> JobType]
  BY <1>2 DEF InserterIInv, InserterType, JobType
<1>4. /\ Head(j.acks) \in Of(j.acks) /\ Tail(j.acks) \in Seq(Stream)
      /\ Of(Tail(j.acks)) \subseteq Of(j.acks)
  <2>1. /\ Len(j.acks) >= 1 /\ Head(j.acks) = j.acks[1] /\ Tail(j.acks) \in Seq(Stream)
        /\ Len(Tail(j.acks)) = Len(j.acks) - 1
        /\ \A i \in 1 .. Len(j.acks) - 1 : Tail(j.acks)[i] = j.acks[i + 1]
    BY <1>1, <1>2, <1>3
  <2>2. 1 \in 1 .. Len(j.acks) /\ \A i \in 1 .. Len(j.acks) - 1 : i + 1 \in 1 .. Len(j.acks)
    BY <1>3, <2>1
  <2>. QED
    BY <2>1, <2>2 DEF Of
<1>5. /\ job' \in [Workers -> JobType]
      /\ job'[w].msgs = j.msgs /\ job'[w].table = j.table /\ job'[w].attempt = j.attempt
      /\ job'[w].acks = Tail(j.acks)
      /\ \A v \in Workers : v # w => job'[v] = job[v]
  BY <1>1, <1>2, <1>3, <1>4 DEF JobType
<1>6. InserterType'
  BY <1>1, <1>5 DEF InserterIInv, InserterType
<1>7. \A b \in InProcess' : b \in InProcess
  BY <1>1, <1>2, <1>5 DEF InProcess
<1>8. ASSUME NEW v \in Workers PROVE JobOK(v)'
  <2>0. \A t \in TableNos : \A m : Covered(t, m) => Covered(t, m)'
    BY <1>1 DEF Covered
  <2>1. CASE v # w
    <3>1. job'[v] = job[v] /\ JobOK(v)
      BY <1>5, <2>1 DEF InserterIInv
    <3>. QED
      BY <2>0, <3>1 DEF JobOK
  <2>2. CASE v = w
    <3>1. /\ j.table <= Len(Tables) + 1 /\ j.table >= 1 /\ j.attempt <= MaxAttempts - 1
          /\ Of(j.acks) \subseteq Of(j.msgs)
          /\ \A t \in TableNos : t < j.table => \A m \in Of(j.msgs) : Covered(t, m)
      BY <1>2, <1>3 DEF JobOK
    <3>2. Of(job'[w].acks) \subseteq Of(job'[w].msgs)
      BY <1>4, <1>5, <3>1
    <3>3. \A t \in TableNos : t < job'[w].table => \A m \in Of(job'[w].msgs) : Covered(t, m)'
      BY <1>5, <2>0, <3>1
    <3>. QED
      BY <1>5, <2>2, <3>1, <3>2, <3>3 DEF JobOK
  <2>. QED
    BY <2>1, <2>2
<1>9. ASSUME NEW m \in Acked' PROVE m \in Acked \/ \A t \in TableNos : Covered(t, m)
  <2>1. m \in Acked \/ m = Head(j.acks)
    BY <1>1, <1>2 DEF Acked
  <2>2. \A t \in TableNos : t < j.table
    BY <1>1, <1>2, <1>3, InserterConstants DEF TableNos, JobType
  <2>3. Head(j.acks) \in Of(j.msgs)
    BY <1>2, <1>3, <1>4 DEF JobOK
  <2>. QED
    BY <1>2, <1>3, <2>1, <2>2, <2>3 DEF JobOK
<1>. QED
  BY <1>1, <1>6, <1>7, <1>8, <1>9, SameRows

LEMMA TaskDoneStep ==
    ASSUME InserterIInv, NEW w \in Workers, TaskDone(w)
    PROVE  InserterIInv'
<1>1. /\ job' = [job EXCEPT ![w] = Free]
      /\ UNCHANGED <<delivered, unacked, due, fetched, queue, rows, written, rejected, raced>>
  BY DEF TaskDone, sinkVars, consumerVars
<1>2. /\ job' \in [Workers -> JobType] /\ job'[w] = Free
      /\ \A v \in Workers : JobOK(v)'
      /\ \A v \in Workers : v # w => job'[v] = job[v]
  BY <1>1, SameJobs
<1>3. InserterType'
  BY <1>1, <1>2 DEF InserterIInv, InserterType
<1>4. \A b \in InProcess' : b \in InProcess \/ b = <<>>
  BY <1>1, <1>2, FreeFacts DEF InProcess
<1>5. Acked' = Acked
  BY <1>1 DEF Acked
<1>. QED
  BY <1>1, <1>2, <1>3, <1>4, <1>5, SameRows

(* The process ends.                                                       *)
LEMMA DieFacts ==
    ASSUME InserterIInv, Die
    PROVE  /\ fetched' \in Seq(Stream) /\ queue' \in Seq(Seq(Stream)) /\ Len(queue') <= QueueSize
           /\ job' \in [Workers -> JobType]
           /\ \A b \in InProcess' : b = <<>>
           /\ \A v \in Workers : JobOK(v)'
<1>1. /\ fetched' = <<>> /\ queue' = <<>> /\ job' = [w \in Workers |-> Free]
      /\ fetched' \in Seq(Stream) /\ queue' \in Seq(Seq(Stream)) /\ Len(queue') = 0
  BY DEF Die
<1>2. job' \in [Workers -> JobType] /\ \A w \in Workers : job'[w] = Free
  BY <1>1, FreeFacts
<1>3. 1 <= Len(Tables) + 1 /\ 0 <= MaxAttempts - 1 /\ 0 <= QueueSize
  BY InserterConstants
<1>4. ASSUME NEW v \in Workers PROVE JobOK(v)'
  <2>1. \A t \in TableNos : ~ (t < 1)
    BY InserterConstants DEF TableNos
  <2>. QED
    BY <1>2, <1>3, <2>1, FreeFacts DEF JobOK
<1>5. \A b \in InProcess' : b = <<>>
  <2>1. \A i \in 1 .. Len(queue') : FALSE
    BY <1>1
  <2>. QED
    BY <1>1, <1>2, <2>1, FreeFacts DEF InProcess
<1>. QED
  BY <1>1, <1>2, <1>3, <1>4, <1>5

LEMMA CrashStep == ASSUME InserterIInv, Crash PROVE InserterIInv'
<1>1. Die /\ UNCHANGED <<delivered, unacked, due, rows, written, rejected, raced>>
  BY DEF Crash, sinkVars, consumerVars
<1>2. InserterType'
  BY <1>1, DieFacts DEF InserterIInv, InserterType
<1>3. Acked' = Acked
  BY <1>1 DEF Acked
<1>. QED
  BY <1>1, <1>2, <1>3, DieFacts, SameRows

\* Of the refusals only those of rows that are written now are taken back.
TakesBack(w, t, R) ==
    /\ rejected' \in [TableNos -> SUBSET Stream]
    /\ \A u \in TableNos : \A m \in rejected[u] \ rejected'[u] : u = t /\ m \in Offered(w) \ R

(* A write, with or without some of the rows: those it leaves are of the   *)
(* newest messages of their elements that it did not leave out, and a row  *)
(* left out that was in place before puts its element among the raced.     *)
LEMMA UpsertFacts ==
    ASSUME InserterIInv, NEW w \in Workers, Writing(w), NEW t, t = job[w].table,
           NEW R, WriteBut(w, R), UNCHANGED delivered, raced \cup Behind(t, R) \subseteq raced',
           TakesBack(w, t, R)
    PROVE  /\ t \in TableNos
           /\ rows' \in [TableNos -> [Elements -> Stream \cup {NoRow}]]
           /\ written' \in [TableNos -> SUBSET Stream]
           /\ WrittenOK' /\ StaleOnlyByRace'
           /\ \A u \in TableNos, m \in Stream : Covered(u, m) => Covered(u, m)'
           /\ R \subseteq rejected'[t] /\ (R = {} \/ t \in Bulks) =>
                \A m \in Of(job[w].msgs) : Covered(t, m)'
<1> DEFINE B == job[w].msgs
           O == Offered(w) \ R
           ms == Winners(B, O)
<1>0. /\ BatchOK(B) /\ JobOK(w) /\ B \in Seq(Stream) /\ Len(B) \in Nat
      /\ job[w] \in JobType /\ t \in Nat /\ t >= 1 /\ t <= Len(Tables) /\ t \in TableNos
      /\ delivered \in Nat /\ delivered <= Messages
      /\ rows \in [TableNos -> [Elements -> Stream \cup {NoRow}]]
      /\ written \in [TableNos -> SUBSET Stream] /\ WrittenOK /\ StaleOnlyByRace
      /\ \A m : m \in O <=> m \in Of(B) /\ m \in RowsIn[t] /\ m \notin R
      /\ Upsert(t, ms)
  <2>1. job[w] \in JobType /\ JobOK(w) /\ BatchOK(B)
    BY DEF InserterIInv, InserterType, InProcess
  <2>2. t \in Nat /\ t >= 1 /\ t <= Len(Tables)
    BY <2>1, InserterConstants DEF Writing, JobOK, JobType
  <2>3. B \in Seq(Stream) /\ Len(B) \in Nat
    BY <2>1 DEF BatchOK
  <2>4. Upsert(t, ms) /\ \A m : m \in O <=> m \in Of(B) /\ m \in RowsIn[t] /\ m \notin R
    BY DEF WriteBut, Offered
  <2>. QED
    BY <2>1, <2>2, <2>3, <2>4, InserterConstants DEF InserterIInv, InserterType, TableNos
<1>01. \A m : m \in ms <=> m \in O /\ \E i \in 1 .. Len(B) :
                /\ B[i] = m
                /\ \A j \in i + 1 .. Len(B) : B[j] \in O => ElementOf[B[j]] # ElementOf[m]
  BY DEF Winners
<1>02. Offered(w) \ R = O
  OBVIOUS
<1> HIDE DEF B, O, ms
<1>1. /\ \A e \in Elements : rows'[t][e] = IF \E m \in ms : ElementOf[m] = e
                                             THEN CHOOSE m \in ms : ElementOf[m] = e ELSE rows[t][e]
      /\ \A u \in TableNos : u # t => rows'[u] = rows[u] /\ written'[u] = written[u]
      /\ written'[t] = written[t] \cup ms
      /\ DOMAIN rows' = TableNos /\ DOMAIN written' = TableNos /\ DOMAIN rows'[t] = Elements
      /\ rows' = [u \in TableNos |-> rows'[u]] /\ written' = [u \in TableNos |-> written'[u]]
      /\ rows'[t] = [e \in Elements |-> rows'[t][e]]
  BY <1>0 DEF Upsert, Upserted
\* A winner is the newest message of its element that the table takes.
<1>2. ASSUME NEW m \in ms
      PROVE  /\ m \in Of(B) /\ m \in RowsIn[t] /\ m \in Stream /\ m \in 1 .. delivered
             /\ \A n \in O : ElementOf[n] = ElementOf[m] => n <= m
  <2>1. m \in Of(B) /\ m \in RowsIn[t]
    BY <1>0, <1>01
  <2>2. PICK i \in 1 .. Len(B) :
           /\ B[i] = m
           /\ \A j \in i + 1 .. Len(B) : B[j] \in O => ElementOf[B[j]] # ElementOf[m]
    BY <1>01
  <2>3. ASSUME NEW n \in O, ElementOf[n] = ElementOf[m] PROVE n <= m
    <3>1. PICK k \in 1 .. Len(B) : n = B[k]
      BY <1>0 DEF Of
    <3>2. ~ (k \in i + 1 .. Len(B))
      BY <2>2, <2>3, <3>1
    <3>3. k = i \/ k < i
      BY <1>0, <3>2
    <3>4. k < i => B[k] < B[i]
      BY <1>0 DEF BatchOK, Increasing
    <3>5. n \in Nat /\ m \in Nat
      <4>1. B[k] \in Stream /\ B[i] \in Stream
        BY <1>0
      <4>. QED
        BY <2>2, <3>1, <4>1, StreamIsNat
    <3>. QED
      BY <2>2, <3>1, <3>3, <3>4, <3>5
  <2>4. m \in Stream /\ m \in 1 .. delivered
    BY <1>0, <2>1, <2>2 DEF BatchOK
  <2>. QED
    BY <2>1, <2>2, <2>3, <2>4
<1>3. rows' \in [TableNos -> [Elements -> Stream \cup {NoRow}]]
  <2>1. ASSUME NEW e \in Elements PROVE rows'[t][e] \in Stream \cup {NoRow}
    <3>1. CASE \E m \in ms : ElementOf[m] = e
      <4>1. (CHOOSE m \in ms : ElementOf[m] = e) \in ms
        BY <3>1
      <4>. QED
        BY <1>1, <1>2, <3>1, <4>1
    <3>2. CASE ~ \E m \in ms : ElementOf[m] = e
      <4>1. rows'[t][e] = rows[t][e] /\ rows[t] \in [Elements -> Stream \cup {NoRow}]
        BY <1>0, <1>1, <3>2
      <4>. QED
        BY <4>1
    <3>. QED
      BY <3>1, <3>2
  <2>2. rows'[t] \in [Elements -> Stream \cup {NoRow}]
    BY <1>1, <2>1
  <2>3. \A u \in TableNos : rows'[u] \in [Elements -> Stream \cup {NoRow}]
    BY <1>0, <1>1, <2>2
  <2>. QED
    BY <1>1, <2>3
<1>4. written' \in [TableNos -> SUBSET Stream]
  <2>1. \A u \in TableNos : written'[u] \in SUBSET Stream
    BY <1>0, <1>1, <1>2
  <2>. QED
    BY <1>1, <2>1
<1>5. WrittenOK'
  BY <1>0, <1>1, <1>2 DEF WrittenOK
<1>6. StaleOnlyByRace'
  <2> SUFFICES ASSUME NEW u \in TableNos, NEW e \in Elements \ raced',
                      NEW n \in written'[u], ElementOf[n] = e
               PROVE  rows'[u][e] >= n
    BY DEF StaleOnlyByRace
  <2>1. CASE u # t
    BY <1>0, <1>1, <2>1 DEF StaleOnlyByRace
  <2>2. CASE u = t /\ ~ \E m \in ms : ElementOf[m] = e
    <3>1. n \in written[t] /\ rows'[t][e] = rows[t][e] /\ e \notin raced
      BY <1>1, <2>2
    <3>. QED
      BY <1>0, <2>2, <3>1 DEF StaleOnlyByRace
  <2>3. CASE u = t /\ \E m \in ms : ElementOf[m] = e
    <3>1. PICK m \in ms : ElementOf[m] = e /\ rows'[t][e] = m
      <4>1. (CHOOSE m \in ms : ElementOf[m] = e) \in ms
            /\ ElementOf[CHOOSE m \in ms : ElementOf[m] = e] = e
        BY <2>3
      <4>. QED
        BY <1>1, <2>3, <4>1
    <3>2. n \in RowsIn[t] /\ n \in 1 .. delivered /\ n \in Nat /\ m \in Nat
      <4>1. n \in RowsIn[t] /\ n \in 1 .. delivered /\ m \in 1 .. delivered
        BY <1>0, <1>1, <1>2, <2>3 DEF WrittenOK
      <4>. QED
        BY <1>0, <4>1
    <3>3. CASE n \in O
      BY <1>2, <2>3, <3>1, <3>2, <3>3
    <3>5. CASE n \in Of(B) /\ n \notin O
      <4>1. n \in R /\ n \in written[t]
        BY <1>0, <1>01, <1>1, <2>2, <2>3, <3>2, <3>5
      <4>2. e \in Behind(t, R)
        BY <4>1 DEF Behind
      <4>. QED
        BY <4>2
    <3>4. CASE n \notin Of(B)
      <4>1. ~ (n > m)
        <5>1. m \in Of(B) /\ ElementOf[n] = ElementOf[m] /\ ElementOf[m] \notin raced
          BY <1>2, <3>1
        <5>. QED
          BY <1>0, <3>2, <3>4, <5>1 DEF BatchOK
      <4>. QED
        BY <2>3, <3>1, <3>2, <4>1
    <3>. QED
      BY <3>3, <3>4, <3>5
  <2>. QED
    BY <2>1, <2>2, <2>3
<1>7. ASSUME NEW m \in O PROVE \E n \in written'[t] : n >= m /\ ElementOf[n] = ElementOf[m]
  <2> SUFFICES \E n \in ms : n >= m /\ ElementOf[n] = ElementOf[m]
    BY <1>1
  <2>1. PICK i \in 1 .. Len(B) : m = B[i]
    BY <1>0 DEF Of
  <2> DEFINE T == {k \in 1 .. Len(B) : B[k] \in O /\ ElementOf[B[k]] = ElementOf[m]}
  <2>2. T \subseteq 0 .. Len(B) /\ T # {}
    BY <1>0, <2>1
  <2>3. PICK k \in T : \A l \in T : l <= k
    <3> HIDE DEF T
    <3>. QED
      BY <1>0, <2>2, GreatestOf
  <2>4. k \in 1 .. Len(B) /\ B[k] \in O /\ ElementOf[B[k]] = ElementOf[m] /\ i <= k
    BY <2>1, <2>3
  <2>5. \A j \in k + 1 .. Len(B) : j \in 1 .. Len(B) /\ ~ (j <= k)
    BY <1>0, <2>4
  <2>7. B[k] \in ms
    BY <1>01, <2>3, <2>4, <2>5
  <2>8. B[k] >= m
    <3>1. i = k \/ i < k
      BY <1>0, <2>4
    <3>2. i < k => B[i] < B[k]
      BY <1>0, <2>4 DEF BatchOK, Increasing
    <3>3. B[i] \in Nat /\ B[k] \in Nat
      <4>1. B[k] \in Stream /\ B[i] \in Stream
        BY <1>0, <2>4
      <4>. QED
        BY <4>1, StreamIsNat
    <3>. QED
      BY <2>1, <3>1, <3>2, <3>3
  <2>. QED
    BY <2>4, <2>7, <2>8
<1>8. \A u \in TableNos, m \in Stream : Covered(u, m) => Covered(u, m)'
  <2> SUFFICES ASSUME NEW u \in TableNos, NEW m \in Stream, Covered(u, m), m \in RowsIn[u]
               PROVE  \/ \E n \in written'[u] : n >= m /\ ElementOf[n] = ElementOf[m]
                      \/ u \in Bulks /\ m \in rejected'[u]
    BY DEF Covered
  <2>1. written[u] \subseteq written'[u]
    BY <1>1
  <2>2. CASE m \in rejected[u] \ rejected'[u]
    BY <1>02, <1>7, <2>2 DEF TakesBack
  <2>. QED
    BY <2>1, <2>2 DEF Covered
<1>9. ASSUME R \subseteq rejected'[t], R = {} \/ t \in Bulks, NEW m \in Of(B)
      PROVE  Covered(t, m)'
  <2>1. CASE m \in O
    BY <1>7, <2>1 DEF Covered
  <2>2. CASE m \notin O
    BY <1>0, <1>9, <2>2 DEF Covered
  <2>. QED
    BY <2>1, <2>2
<1>. QED
  BY <1>0, <1>3, <1>4, <1>5, <1>6, <1>8, <1>9 DEF B

LEMMA AckedInStream == InserterIInv => \A m \in Acked : m \in Stream
<1> SUFFICES ASSUME InserterIInv, NEW m \in Acked PROVE m \in Stream
  OBVIOUS
<1>1. delivered \in Nat /\ delivered <= Messages /\ Messages \in Nat /\ m \in 1 .. delivered
  BY InserterConstants DEF InserterIInv, InserterType, Acked
<1>. QED
  BY <1>1 DEF Stream

(* A write that the worker takes for done.                                 *)
LEMMA WrittenStep ==
    ASSUME InserterIInv, NEW w \in Workers, Writing(w), NEW t, t = job[w].table,
           NEW R, WriteBut(w, R), R = {} \/ t \in Bulks, R \subseteq rejected'[t],
           TakesBack(w, t, R),
           raced \cup Behind(t, R) \subseteq raced', NextTable(w),
           UNCHANGED <<delivered, unacked, due, fetched, queue>>
    PROVE  InserterIInv'
<1>1. job' = [job EXCEPT ![w].table = @ + 1, ![w].attempt = 0]
  BY DEF NextTable
<1>3. /\ t \in TableNos
      /\ rows' \in [TableNos -> [Elements -> Stream \cup {NoRow}]]
      /\ written' \in [TableNos -> SUBSET Stream]
      /\ WrittenOK' /\ StaleOnlyByRace'
      /\ \A u \in TableNos, m \in Stream : Covered(u, m) => Covered(u, m)'
      /\ \A m \in Of(job[w].msgs) : Covered(t, m)'
  <2>1. UNCHANGED delivered
    OBVIOUS
  <2>2. /\ t \in TableNos
        /\ rows' \in [TableNos -> [Elements -> Stream \cup {NoRow}]]
        /\ written' \in [TableNos -> SUBSET Stream]
        /\ WrittenOK' /\ StaleOnlyByRace'
        /\ \A u \in TableNos, m \in Stream : Covered(u, m) => Covered(u, m)'
        /\ R \subseteq rejected'[t] /\ (R = {} \/ t \in Bulks) =>
             \A m \in Of(job[w].msgs) : Covered(t, m)'
    BY <2>1, UpsertFacts
  <2>. QED
    BY <2>2
<1>4. /\ job' \in [Workers -> JobType]
      /\ job'[w].msgs = job[w].msgs /\ job'[w].acks = job[w].acks
      /\ job'[w].table = t + 1 /\ job'[w].attempt = 0
      /\ \A v \in Workers : v # w => job'[v] = job[v]
  <2>1. job \in [Workers -> JobType] /\ job[w] \in JobType /\ 0 \in Nat /\ t + 1 \in Nat
    BY DEF InserterIInv, InserterType, JobType
  <2>2. PICK j : j = [job[w] EXCEPT !.table = t + 1, !.attempt = 0]
    OBVIOUS
  <2>3. /\ j \in JobType /\ j.msgs = job[w].msgs /\ j.acks = job[w].acks
        /\ j.table = t + 1 /\ j.attempt = 0
    BY <2>1, <2>2 DEF JobType
  <2>4. job' = [job EXCEPT ![w] = j]
    BY <1>1, <2>1, <2>2
  <2>. QED
    BY <2>1, <2>3, <2>4
<1>5. InserterType'
  BY <1>3, <1>4 DEF InserterIInv, InserterType, TakesBack
<1>6. \A b \in InProcess' : b \in InProcess
  BY <1>1, <1>4 DEF InProcess
<1>7. ASSUME NEW v \in Workers PROVE JobOK(v)'
  <2>0. JobOK(v) /\ \A m \in Of(job[v].msgs) : m \in Stream
    BY DEF InserterIInv, InserterType, JobType, Of
  <2>1. CASE v # w
    BY <1>3, <1>4, <2>0, <2>1 DEF JobOK
  <2>2. CASE v = w
    <3>1. t \in Nat /\ t + 1 <= Len(Tables) + 1 /\ t + 1 >= 1 /\ 0 <= MaxAttempts - 1
      BY <1>3, InserterConstants DEF TableNos
    <3>2. ASSUME NEW u \in TableNos, u < t + 1, NEW m \in Of(job[w].msgs) PROVE Covered(u, m)'
      <4>1. u < t \/ u = t
        BY <3>1, <3>2, InserterConstants DEF TableNos
      <4>2. u < t => Covered(u, m)
        BY <2>0, <2>2 DEF JobOK
      <4>. QED
        BY <1>3, <2>0, <2>2, <4>1, <4>2
    <3>. QED
      BY <1>4, <2>0, <2>2, <3>1, <3>2 DEF JobOK
  <2>. QED
    BY <2>1, <2>2
<1>8. AckedIsWritten'
  <2>1. Acked' = Acked /\ \A m \in Acked : m \in Stream
    BY <1>1, AckedInStream DEF Acked
  <2>2. \A m \in Acked, u \in TableNos : Covered(u, m)
    BY DEF InserterIInv, AckedIsWritten, Covered
  <2>3. \A m \in Acked, u \in TableNos : Covered(u, m)'
    BY <1>3, <2>1, <2>2
  <2>. QED
    BY <2>1, <2>3 DEF AckedIsWritten, Covered
<1>. QED
  BY <1>1, <1>3, <1>5, <1>6, <1>7, <1>8, SameBatches

LEMMA WriteStep ==
    ASSUME InserterIInv, NEW w \in Workers, Write(w) \/ WriteRejecting(w)
    PROVE  InserterIInv'
<1>1. PICK t : t = job[w].table
  OBVIOUS
<1>2. Writing(w) /\ NextTable(w) /\ UNCHANGED <<delivered, unacked, due, fetched, queue>>
  BY DEF Write, WriteRejecting, consumerVars
<1>5. ASSUME NEW R, R \subseteq Offered(w), WriteBut(w, R), R = {} \/ t \in Bulks,
             rejected' = [rejected EXCEPT ![t] = (@ \ Offered(w)) \cup R],
             raced' = raced \cup Behind(t, R)
      PROVE  InserterIInv'
  <2>1. TakesBack(w, t, R) /\ R \subseteq rejected'[t]
    <3>1. rejected \in [TableNos -> SUBSET Stream] /\ job[w].msgs \in Seq(Stream)
      BY DEF InserterIInv, InserterType, JobType
    <3>2. Offered(w) \subseteq Stream
      BY <3>1 DEF Offered, Of
    <3>3. t \in TableNos
      <4>1. t \in Nat /\ t >= 1 /\ t <= Len(Tables) /\ Len(Tables) \in Nat
        BY <1>1, <1>2, InserterConstants DEF InserterIInv, InserterType, JobType, JobOK, Writing
      <4>. QED
        BY <4>1 DEF TableNos
    <3>. QED
      BY <1>5, <3>1, <3>2, <3>3 DEF TakesBack
  <2>2. /\ UNCHANGED <<delivered, unacked, due, fetched, queue>> /\ NextTable(w) /\ Writing(w)
        /\ WriteBut(w, R) /\ (R = {} \/ t \in Bulks) /\ raced \cup Behind(t, R) \subseteq raced'
        /\ t = job[w].table
    BY <1>1, <1>2, <1>5
  <2>. QED
    BY <2>1, <2>2, WrittenStep
<1>3. CASE Write(w)
  <2>1. /\ WriteBut(w, {}) /\ rejected' = [rejected EXCEPT ![t] = @ \ Offered(w)] /\ raced' = raced
    BY <1>1, <1>3 DEF Write
  <2>2. /\ rejected' = [rejected EXCEPT ![t] = (@ \ Offered(w)) \cup {}]
        /\ raced' = raced \cup Behind(t, {})
    BY <2>1 DEF Behind
  <2>3. PICK R : R = {}
    OBVIOUS
  <2>. QED
    BY <1>1, <1>2, <1>5, <2>1, <2>2, <2>3
<1>4. CASE WriteRejecting(w)
  <2>1. PICK R \in SUBSET Offered(w) :
           /\ WriteBut(w, R) /\ rejected' = [rejected EXCEPT ![t] = (@ \ Offered(w)) \cup R]
           /\ raced' = raced \cup Behind(t, R)
    BY <1>1, <1>4 DEF WriteRejecting
  <2>2. t \in Bulks
    BY <1>1, <1>4 DEF WriteRejecting
  <2>. QED
    BY <1>5, <2>1, <2>2
<1>. QED
  BY <1>3, <1>4

LEMMA WriteFailsStep ==
    ASSUME InserterIInv, NEW w \in Workers, WriteFails(w)
    PROVE  InserterIInv'
<1>3. PICK t : t = job[w].table
  OBVIOUS
<1>1. PICK R : WriteBut(w, R) /\ raced \cup Behind(t, R) \subseteq raced'
  BY <1>3 DEF WriteFails
<1>2. Writing(w) /\ UNCHANGED <<delivered, unacked, due, rejected>> /\ raced \subseteq raced'
  BY <1>1 DEF WriteFails, consumerVars
<1>31. rejected \in [TableNos -> SUBSET Stream] /\ TakesBack(w, t, R)
  BY <1>2 DEF InserterIInv, InserterType, TakesBack
<1>4. /\ rows' \in [TableNos -> [Elements -> Stream \cup {NoRow}]]
      /\ written' \in [TableNos -> SUBSET Stream]
      /\ WrittenOK' /\ StaleOnlyByRace'
      /\ \A u \in TableNos, m \in Stream : Covered(u, m) => Covered(u, m)'
  BY <1>1, <1>2, <1>3, <1>31, UpsertFacts
<1>5. AckedIsWritten'
  <2>1. Acked' = Acked /\ \A m \in Acked : m \in Stream
    BY <1>2, AckedInStream DEF Acked
  <2>2. \A m \in Acked, u \in TableNos : Covered(u, m)
    BY DEF InserterIInv, AckedIsWritten, Covered
  <2>3. \A m \in Acked, u \in TableNos : Covered(u, m)'
    BY <1>4, <2>1, <2>2
  <2>. QED
    BY <2>1, <2>3 DEF AckedIsWritten, Covered
<1>6. CASE Die
  <2>1. InserterType'
    BY <1>2, <1>4, <1>6, DieFacts DEF InserterIInv, InserterType
  <2>. QED
    BY <1>2, <1>4, <1>5, <1>6, <2>1, DieFacts, SameBatches
<1>7. CASE /\ job[w].attempt + 1 < MaxAttempts /\ job' = [job EXCEPT ![w].attempt = @ + 1]
           /\ UNCHANGED <<fetched, queue>>
  <2>1. PICK n : n = job[w].attempt
    OBVIOUS
  <2>2. /\ job' \in [Workers -> JobType]
        /\ job'[w].msgs = job[w].msgs /\ job'[w].acks = job[w].acks
        /\ job'[w].table = job[w].table /\ job'[w].attempt = n + 1
        /\ \A v \in Workers : v # w => job'[v] = job[v]
    <3>1. job \in [Workers -> JobType] /\ job[w] \in JobType /\ n + 1 \in Nat
      BY <2>1 DEF InserterIInv, InserterType, JobType
    <3>2. PICK j : j = [job[w] EXCEPT !.attempt = n + 1]
      OBVIOUS
    <3>3. /\ j \in JobType /\ j.msgs = job[w].msgs /\ j.acks = job[w].acks
          /\ j.table = job[w].table /\ j.attempt = n + 1
      BY <2>1, <3>1, <3>2 DEF JobType
    <3>4. job' = [job EXCEPT ![w] = j]
      BY <1>7, <2>1, <3>1, <3>2
    <3>. QED
      BY <3>1, <3>3, <3>4
  <2>3. InserterType'
    BY <1>2, <1>4, <1>7, <2>2 DEF InserterIInv, InserterType
  <2>4. \A b \in InProcess' : b \in InProcess
    BY <1>7, <2>2 DEF InProcess
  <2>5. ASSUME NEW v \in Workers PROVE JobOK(v)'
    <3>0. JobOK(v) /\ \A m \in Of(job[v].msgs) : m \in Stream
      BY DEF InserterIInv, InserterType, JobType, Of
    <3>1. CASE v # w
      BY <1>4, <2>2, <3>0, <3>1 DEF JobOK
    <3>2. CASE v = w
      <4>1. n + 1 <= MaxAttempts - 1
        <5>1. n \in Nat /\ n + 1 < MaxAttempts
          BY <1>7, <2>1 DEF InserterIInv, InserterType, JobType
        <5>. QED
          BY <5>1, InserterConstants
      <4>. QED
        BY <1>4, <2>2, <3>0, <3>2, <4>1 DEF JobOK
    <3>. QED
      BY <3>1, <3>2
  <2>. QED
    BY <1>2, <1>4, <1>5, <2>3, <2>4, <2>5, SameBatches
<1>. QED
  BY <1>6, <1>7 DEF WriteFails, GiveUp

(* The consumer delivers a batch.                                          *)
LEMMA FetchStep ==
    ASSUME InserterIInv, NEW b \in Batches, Fetch(b)
    PROVE  InserterIInv'
<1>1. /\ fetched = <<>> /\ fetched' = b
      /\ delivered' = IF b[Len(b)] > delivered THEN b[Len(b)] ELSE delivered
      /\ unacked' = unacked \cup Of(b) /\ due' = due \ Of(b) /\ raced' = raced \cup Races(b)
      /\ UNCHANGED <<queue, job, rows, written, rejected>>
  BY DEF Fetch, sinkVars
<1>2. /\ b \in Seq(Stream) /\ Len(b) \in Nat /\ Len(b) >= 1 /\ Increasing(b)
      /\ \A i \in 1 .. Len(b) : b[i] <= b[Len(b)]
      /\ \A m \in Of(b) : m \in due \/ m > delivered
      /\ \A m \in Stream : m > delivered /\ m <= b[Len(b)] => m \in Of(b)
  BY DeliveredBatch DEF InserterIInv
<1>3. /\ InserterType /\ delivered \in Nat /\ delivered <= Messages /\ Messages \in Nat
      /\ unacked \subseteq 1 .. delivered /\ due \subseteq 1 .. delivered
  BY InserterConstants DEF InserterIInv, InserterType
<1>4. /\ delivered' \in Nat /\ delivered <= delivered' /\ delivered' <= Messages
      /\ \A m \in Of(b) : m \in 1 .. delivered'
      /\ \A m \in delivered + 1 .. delivered' : m \in Of(b)
  <2>1. b[Len(b)] \in Nat /\ b[Len(b)] <= Messages
    <3>1. b[Len(b)] \in Stream
      BY <1>2
    <3>. QED
      BY <1>3, <3>1 DEF Stream
  <2>2. delivered' \in Nat /\ delivered <= delivered' /\ delivered' <= Messages /\ b[Len(b)] <= delivered'
    BY <1>1, <1>3, <2>1
  <2>3. ASSUME NEW m \in Of(b) PROVE m \in 1 .. delivered'
    <3>1. PICK i \in 1 .. Len(b) : m = b[i]
      BY DEF Of
    <3>2. m \in Stream /\ m <= b[Len(b)]
      BY <1>2, <3>1
    <3>. QED
      BY <1>3, <2>1, <2>2, <3>2 DEF Stream
  <2>4. ASSUME NEW m \in delivered + 1 .. delivered' PROVE m \in Of(b)
    <3>1. m \in Stream /\ m > delivered
      BY <1>3, <2>2 DEF Stream
    <3>2. m <= b[Len(b)]
      BY <1>1, <1>3, <2>1, <2>4
    <3>. QED
      BY <1>2, <3>1, <3>2
  <2>. QED
    BY <2>2, <2>3, <2>4
<1>5. 1 .. delivered \subseteq 1 .. delivered'
  BY <1>3, <1>4
<1>6. InserterType'
  <2>1. delivered' \in 0 .. Messages
    BY <1>3, <1>4
  <2>2. unacked' \subseteq 1 .. delivered' /\ due' \subseteq 1 .. delivered' /\ unacked' \cap due' = {}
    BY <1>1, <1>3, <1>4, <1>5 DEF InserterType
  <2>. QED
    BY <1>1, <1>2, <1>3, <2>1, <2>2 DEF InserterType
<1>7. WrittenOK'
  BY <1>1, <1>5 DEF InserterIInv, WrittenOK
<1>8. \A v \in Workers : JobOK(v)'
  BY <1>1 DEF InserterIInv, JobOK, Covered
<1>9. AckedIsWritten'
  <2>1. ASSUME NEW m \in Acked' PROVE m \in Acked
    <3>1. m \in 1 .. delivered' /\ m \notin Of(b) /\ m \notin unacked /\ m \notin due
      BY <1>1 DEF Acked
    <3>2. m \in 1 .. delivered
      BY <1>3, <1>4, <3>1
    <3>. QED
      BY <3>1, <3>2 DEF Acked
  <2>. QED
    BY <1>1, <2>1 DEF InserterIInv, AckedIsWritten
<1>10. StaleOnlyByRace'
  BY <1>1 DEF InserterIInv, StaleOnlyByRace
<1>11. \A c \in InProcess' : c \in InProcess \/ c = b
  BY <1>1 DEF InProcess
<1>12. \A c \in InProcess : Of(c) \subseteq Held
  <2>1. Of(fetched) \subseteq Held /\ \A w \in Workers : Of(job[w].msgs) \subseteq Held
    <3>1. Of(fetched) \subseteq Held
      BY DEF Held
    <3>2. ASSUME NEW w \in Workers PROVE Of(job[w].msgs) \subseteq UNION {Of(job[v].msgs) : v \in Workers}
      OBVIOUS
    <3>3. UNION {Of(job[v].msgs) : v \in Workers} \subseteq Held
      BY DEF Held
    <3>. QED
      BY <3>1, <3>2, <3>3
  <2>2. \A i \in 1 .. Len(queue) : Of(queue[i]) \subseteq Held
    BY DEF Held
  <2>. QED
    BY <2>1, <2>2 DEF InProcess
\* What is new of an element in an old batch makes a race.
<1>13. ASSUME NEW c \in InProcess PROVE BatchOK(c)'
  <2>0. BatchOK(c)
    BY DEF InserterIInv
  <2>1. ASSUME NEW l \in Of(c), NEW n \in 1 .. delivered',
               ElementOf[n] = ElementOf[l], ElementOf[l] \notin raced', n > l
        PROVE  n \in Of(c)
    <3>1. CASE n \in 1 .. delivered
      BY <1>1, <2>0, <2>1, <3>1 DEF BatchOK
    <3>2. CASE n \notin 1 .. delivered
      <4>1. n \in Of(b) /\ n > delivered
        BY <1>3, <1>4, <3>2
      <4>2. l \in 1 .. delivered /\ l \in Held /\ l # n
        BY <1>3, <1>12, <2>0, <4>1 DEF BatchOK
      <4>3. ElementOf[n] \in Races(b)
        BY <2>1, <4>1, <4>2 DEF Races
      <4>. QED
        BY <1>1, <2>1, <4>3
    <3>. QED
      BY <3>1, <3>2
  <2>. QED
    BY <1>5, <2>0, <2>1 DEF BatchOK
\* The new batch has what is new, and what is older makes a race.
<1>14. BatchOK(b)'
  <2>1. ASSUME NEW l \in Of(b), NEW n \in 1 .. delivered',
               ElementOf[n] = ElementOf[l], ElementOf[l] \notin raced', n > l
        PROVE  n \in Of(b)
    <3>1. CASE n \in 1 .. delivered
      <4>1. ASSUME n \notin Of(b) PROVE ElementOf[l] \in Races(b)
        BY <1>3, <2>1, <3>1, <4>1 DEF Races
      <4>. QED
        BY <1>1, <2>1, <4>1
    <3>2. CASE n \notin 1 .. delivered
      BY <1>3, <1>4, <3>2
    <3>. QED
      BY <3>1, <3>2
  <2>. QED
    BY <1>2, <1>4, <2>1 DEF BatchOK
<1>. QED
  BY <1>6, <1>7, <1>8, <1>9, <1>10, <1>11, <1>13, <1>14 DEF InserterIInv

LEMMA InitInserter == InserterInit => InserterIInv
<1> SUFFICES ASSUME InserterInit PROVE InserterIInv
  OBVIOUS
<1>1. /\ fetched \in Seq(Stream) /\ queue \in Seq(Seq(Stream)) /\ Len(queue) = 0
      /\ 0 \in 0 .. Messages /\ 1 .. 0 = {} /\ delivered = 0
  BY InserterConstants DEF InserterInit
<1>2. job \in [Workers -> JobType] /\ \A w \in Workers : job[w] = Free
  BY FreeFacts DEF InserterInit
<1>3. /\ rows \in [TableNos -> [Elements -> Stream \cup {NoRow}]]
      /\ written \in [TableNos -> SUBSET Stream] /\ \A t \in TableNos : written[t] = {}
      /\ rejected \in [TableNos -> SUBSET Stream]
  BY DEF InserterInit
<1>4. InserterType /\ WrittenOK
  BY <1>1, <1>2, <1>3, InserterConstants DEF InserterInit, InserterType, WrittenOK
<1>5. ASSUME NEW w \in Workers PROVE JobOK(w)
  <2>1. \A t \in TableNos : ~ (t < 1)
    BY InserterConstants DEF TableNos
  <2>2. 1 <= Len(Tables) + 1 /\ 0 <= MaxAttempts - 1
    BY InserterConstants
  <2>. QED
    BY <1>2, <2>1, <2>2, FreeFacts DEF JobOK
<1>6. \A b \in InProcess : BatchOK(b)
  <2>1. \A i \in 1 .. Len(queue) : FALSE
    BY <1>1
  <2>2. \A b \in InProcess : b = <<>>
    BY <1>2, <2>1, FreeFacts DEF InProcess, InserterInit
  <2>. QED
    BY <2>2, FreeFacts
<1>7. AckedIsWritten
  BY <1>1 DEF AckedIsWritten, Acked
<1>8. StaleOnlyByRace
  BY <1>3 DEF StaleOnlyByRace
<1>. QED
  BY <1>4, <1>5, <1>6, <1>7, <1>8 DEF InserterIInv

LEMMA NextInserter == InserterIInv /\ [InserterNext]_inserterVars => InserterIInv'
<1> SUFFICES ASSUME InserterIInv, [InserterNext]_inserterVars PROVE InserterIInv'
  OBVIOUS
<1>1. CASE Fetcher
  BY <1>1, FetchStep, QueueMoves DEF Fetcher
<1>2. ASSUME NEW w \in Workers, Work(w) \/ WriteRejecting(w) \/ WriteFails(w) \/ AckLost(w) PROVE InserterIInv'
  BY <1>2, QueueMoves, WriteStep, WriteFailsStep, AckStep, TaskDoneStep DEF Work
<1>3. CASE UNCHANGED inserterVars
  <2>1. UNCHANGED <<delivered, unacked, due, fetched, queue, job, rows, written, rejected, raced>>
    BY <1>3 DEF inserterVars
  <2>2. InserterType' /\ Acked' = Acked /\ InProcess' = InProcess
    BY <2>1 DEF InserterIInv, InserterType, Acked, InProcess
  <2>3. \A w \in Workers : JobOK(w)'
    BY <2>1 DEF InserterIInv, JobOK, Covered
  <2>. QED
    BY <2>1, <2>2, <2>3, SameRows
<1>. QED
  BY <1>1, <1>2, <1>3, ExpireStep, CrashStep DEF InserterNext

LEMMA InserterImplies == InserterIInv => InserterInv
<1> SUFFICES ASSUME InserterIInv PROVE InserterInv
  OBVIOUS
<1>1. ASSUME NEW w \in Workers
      PROVE  job[w].table \in 1 .. Len(Tables) + 1 /\ job[w].attempt \in 0 .. MaxAttempts - 1
  <2>1. job[w].table \in Nat /\ job[w].attempt \in Nat /\ JobOK(w)
    BY DEF InserterIInv, InserterType, JobType
  <2>. QED
    BY <2>1, InserterConstants DEF JobOK
<1>. QED
  BY <1>1 DEF InserterIInv, InserterType, InserterInv, InserterTypeOK

(* A message is only acknowledged once every table has its row or a newer  *)
(* one, or, where the rows of a batch are taken one by one, has refused it *)
(* when it was last offered, whatever fails, is delivered again or dies in *)
(* between (process_batch, "Ack messages only after successful indexing"). *)
THEOREM InserterInvariant == InserterSpec => []InserterInv
<1>. QED
  BY InitInserter, NextInserter, InserterImplies, PTL DEF InserterSpec

(* A row is older than one written before only if the messages of its      *)
(* element raced: two batches at once, a redelivery after a newer one, or  *)
(* a row that a later attempt of a bulk left out.                          *)
THEOREM StaleOnlyIfRaced == InserterSpec => []StaleOnlyByRace
<1>1. InserterIInv => StaleOnlyByRace
  BY DEF InserterIInv
<1>. QED
  BY <1>1, InitInserter, NextInserter, PTL DEF InserterSpec
==============================================================================
