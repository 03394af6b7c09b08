------------------------------- MODULE MCTraffic -------------------------------
(***************************************************************************)
(* The three protocols of live traffic share Redis but no key (what the    *)
(* provider's speeds do to the edges is part of TrafficSpeeds), so one run *)
(* takes them one at a time: a behaviour is a behaviour of one of them,    *)
(* the others stay where they start.                                       *)
(***************************************************************************)
EXTENDS TrafficSpeeds, CellSchedule, FetchBudget

CONSTANTS e1, w1

OneShard == [e \in {e1} |-> w1]
TwoCells == 0 .. 1

VARIABLE part

allVars == <<part, speedVars, cellVars, fetchVars>>

TrafficInit == SpeedsInit /\ CellsInit /\ FetchInit /\ part \in {"speeds", "cells", "fetch"}

TrafficNext ==
    /\ UNCHANGED part
    /\ \/ part = "speeds" /\ SpeedsNext /\ UNCHANGED <<cellVars, fetchVars>>
       \/ part = "cells"  /\ CellsNext  /\ UNCHANGED <<speedVars, fetchVars>>
       \/ part = "fetch"  /\ FetchNext  /\ UNCHANGED <<speedVars, cellVars>>

TrafficSpec ==
    /\ TrafficInit /\ [][TrafficNext]_allVars
    /\ \A a \in Aggregators : WF_speedVars(part = "speeds" /\ FoldStep(a))
    /\ \A w \in Writers : WF_speedVars(part = "speeds" /\ WriterStep(w))
    /\ WF_speedVars(part = "speeds" /\ Tick)
    /\ \A s \in Schedulers : WF_cellVars(part = "cells" /\ ScanStep(s))
    /\ \A w \in CellWorkers : WF_cellVars(part = "cells" /\ WorkStep(w))

(* A tile shows no stale speed for ever, and every job is done.            *)
TrafficSettles == StaleReverts /\ JobsServed
===============================================================================
