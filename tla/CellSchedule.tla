------------------------------ MODULE CellSchedule ------------------------------
(***************************************************************************)
(* Who polls which cell of the traffic provider (traffic_aggregator.py).   *)
(* Every replica schedules every window: it claims a cell with SET NX and  *)
(* publishes a job for it; workers of all replicas take the jobs from a    *)
(* work queue.  There is no leader, only the keys and their expiry.        *)
(***************************************************************************)
EXTENDS Integers, FiniteSets

CONSTANTS
    Cells,       \* range(len(provider.points)), in the order of the loop
    Schedulers,
    CellWorkers,
    Interval,    \* TRAFFIC_PROVIDER_INTERVAL, in ticks
    LastWindow,  \* bound: no scan starts after this window
    MaxNow,      \* bound: the clock stops here
    MaxFaults    \* bound: publishes and acknowledgements that fail, crashes

ASSUME CellScheduleAssumption ==
    /\ IsFiniteSet(Cells) /\ Cells = 0 .. Cardinality(Cells) - 1 /\ Cells # {}
    /\ Interval \in Nat \ {0}
    /\ {LastWindow, MaxNow, MaxFaults} \subseteq Nat

VARIABLES
    now,
    claims,     \* tfc:sched:{cell}:{window}: when the key expires, or 0
    scan,       \* the loop of each scheduler
    queued,     \* TRAFFIC_CELLS: how many jobs of each slot wait
    work,       \* the job each worker is at
    enqueued,   \* how many jobs of each slot were ever published
    polled,     \* slots the provider was asked for
    dropped,    \* slots with a job that came too late
    missed,     \* slots claimed by a replica that did not publish them
    scanned,    \* windows for which a loop ran to its end
    tried,      \* the window each scheduler looked at last
    faults

cellVars == <<now, claims, scan, queued, work, enqueued, polled, dropped, missed,
              scanned, tried, faults>>
queueVars == <<queued, work, enqueued, polled, dropped>>

Windows == 0 .. LastWindow
Slots   == Cells \X Windows
Asleep  == [at |-> "asleep", window |-> 0, cell |-> 0]
NoJob   == [at |-> "waiting", slot |-> <<0, 0>>]

CellsInit ==
    /\ now = 0
    /\ claims = [s \in Slots |-> 0]
    /\ scan = [s \in Schedulers |-> Asleep]
    /\ queued = [s \in Slots |-> 0]
    /\ work = [w \in CellWorkers |-> NoJob]
    /\ enqueued = [s \in Slots |-> 0]
    /\ polled = {} /\ dropped = {} /\ missed = {} /\ scanned = {}
    /\ tried = [s \in Schedulers |-> -1]
    /\ faults = 0

----------------------------------------------------------------------------
(* `_schedule_window`, one call of Redis or of the stream per step.        *)

Window == now \div Interval
SlotOf(s) == <<scan[s].cell, scan[s].window>>

\* Each scheduler looks at a window once: it sleeps to the next boundary.
StartScan(s) ==
    /\ scan[s].at = "asleep" /\ tried[s] # Window /\ Window \in Windows
    /\ scan' = [scan EXCEPT ![s] = [at |-> "claiming", window |-> Window, cell |-> 0]]
    /\ tried' = [tried EXCEPT ![s] = Window]
    /\ UNCHANGED <<now, claims, queueVars, missed, scanned, faults>>

NextCell(s) ==
    IF scan[s].cell + 1 \in Cells
      THEN /\ scan' = [scan EXCEPT ![s].at = "claiming", ![s].cell = @ + 1]
           /\ UNCHANGED scanned
      ELSE /\ scan' = [scan EXCEPT ![s] = Asleep]
           /\ scanned' = scanned \cup {scan[s].window}

\* Mutant of Free: SET without NX.
FreeAlways(slot) == TRUE

Free(slot) == claims[slot] <= now

\* Mutant of Lose: the loop ends at the first cell another replica has.
LoseEnds(s) ==
    /\ scan[s].at = "claiming" /\ ~ Free(SlotOf(s))
    /\ scan' = [scan EXCEPT ![s] = Asleep]
    /\ scanned' = scanned \cup {scan[s].window}
    /\ UNCHANGED <<now, claims, queueVars, missed, tried, faults>>

\* Another replica has the cell: continue.
Lose(s) ==
    /\ scan[s].at = "claiming" /\ ~ Free(SlotOf(s))
    /\ NextCell(s)
    /\ UNCHANGED <<now, claims, queueVars, missed, tried, faults>>

\* SET NX EX interval.
Win(s) ==
    /\ scan[s].at = "claiming" /\ Free(SlotOf(s))
    /\ claims' = [claims EXCEPT ![SlotOf(s)] = now + Interval]
    /\ scan' = [scan EXCEPT ![s].at = "publishing"]
    /\ UNCHANGED <<now, queueVars, missed, scanned, tried, faults>>

PublishJob(s) ==
    /\ scan[s].at = "publishing"
    /\ queued' = [queued EXCEPT ![SlotOf(s)] = @ + 1]
    /\ enqueued' = [enqueued EXCEPT ![SlotOf(s)] = @ + 1]
    /\ NextCell(s)
    /\ UNCHANGED <<now, claims, work, polled, dropped, missed, tried, faults>>

\* The publish raises, or the replica dies: the key stays, the rest of the
\* loop is left to the other replicas.
ScanFails(s) ==
    /\ scan[s].at # "asleep" /\ faults < MaxFaults
    /\ faults' = faults + 1
    /\ missed' = IF scan[s].at = "publishing" THEN missed \cup {SlotOf(s)} ELSE missed
    /\ scan' = [scan EXCEPT ![s] = Asleep]
    /\ UNCHANGED <<now, claims, queueVars, scanned, tried>>

----------------------------------------------------------------------------
(* `_cell_worker`.                                                         *)

TakeJob(w) ==
    \E slot \in Slots :
        /\ work[w].at = "waiting" /\ queued[slot] > 0
        /\ queued' = [queued EXCEPT ![slot] = @ - 1]
        /\ work' = [work EXCEPT ![w] = [at |-> "taken", slot |-> slot]]
        /\ UNCHANGED <<now, claims, scan, enqueued, polled, dropped, missed, scanned, tried, faults>>

TooOld(slot) == now - slot[2] * Interval > 2 * Interval

\* The window is long over: continue, which acknowledges the job.
DropJob(w) ==
    /\ work[w].at = "taken" /\ TooOld(work[w].slot)
    /\ dropped' = dropped \cup {work[w].slot}
    /\ work' = [work EXCEPT ![w].at = "acking"]
    /\ UNCHANGED <<now, claims, scan, queued, enqueued, polled, missed, scanned, tried, faults>>

\* fetch_cell; an error of the provider is logged and acknowledged as well.
Poll(w) ==
    /\ work[w].at = "taken" /\ ~ TooOld(work[w].slot)
    /\ polled' = polled \cup {work[w].slot}
    /\ work' = [work EXCEPT ![w].at = "acking"]
    /\ UNCHANGED <<now, claims, scan, queued, enqueued, dropped, missed, scanned, tried, faults>>

AckJob(w) ==
    /\ work[w].at = "acking"
    /\ work' = [work EXCEPT ![w] = NoJob]
    /\ UNCHANGED <<now, claims, scan, queued, enqueued, polled, dropped, missed, scanned, tried, faults>>

\* Mutant of WorkerDies: the job was gone once it was delivered.
WorkerDiesWithJob(w) ==
    /\ work[w].at # "waiting" /\ faults < MaxFaults
    /\ faults' = faults + 1
    /\ work' = [work EXCEPT ![w] = NoJob]
    /\ UNCHANGED <<now, claims, scan, queued, enqueued, polled, dropped, missed, scanned, tried>>

\* The worker dies or its acknowledgement is lost: the job is delivered again.
WorkerDies(w) ==
    /\ work[w].at # "waiting" /\ faults < MaxFaults
    /\ faults' = faults + 1
    /\ queued' = [queued EXCEPT ![work[w].slot] = @ + 1]
    /\ work' = [work EXCEPT ![w] = NoJob]
    /\ UNCHANGED <<now, claims, scan, enqueued, polled, dropped, missed, scanned, tried>>

CellTick ==
    /\ now < MaxNow
    /\ now' = now + 1
    /\ UNCHANGED <<claims, scan, queueVars, missed, scanned, tried, faults>>

ScanStep(s) == StartScan(s) \/ Lose(s) \/ Win(s) \/ PublishJob(s)
WorkStep(w) == TakeJob(w) \/ DropJob(w) \/ Poll(w) \/ AckJob(w)

CellsNext ==
    \/ \E s \in Schedulers : ScanStep(s) \/ ScanFails(s)
    \/ \E w \in CellWorkers : WorkStep(w) \/ WorkerDies(w)
    \/ CellTick

CellsSpec == CellsInit /\ [][CellsNext]_cellVars

(* Schedulers and workers loop forever; a job that is queued is fetched.   *)
CellsFairness ==
    /\ \A s \in Schedulers : WF_cellVars(ScanStep(s))
    /\ \A w \in CellWorkers : WF_cellVars(WorkStep(w))

FairCellsSpec == CellsSpec /\ CellsFairness

----------------------------------------------------------------------------
CellsTypeOK ==
    /\ now \in 0 .. MaxNow
    /\ claims \in [Slots -> 0 .. MaxNow + Interval]
    /\ scan \in [Schedulers -> [at : {"asleep", "claiming", "publishing"}, window : Windows,
                                cell : Cells]]
    /\ queued \in [Slots -> Nat] /\ enqueued \in [Slots -> Nat]
    /\ work \in [CellWorkers -> [at : {"waiting", "taken", "acking"}, slot : Slots]]
    /\ (polled \cup dropped \cup missed) \subseteq Slots
    /\ scanned \subseteq Windows
    /\ tried \in [Schedulers -> {-1} \cup Windows]

(* A scan that reached the end of the loop leaves no cell of its window    *)
(* out: each was enqueued, or belongs to a replica that is publishing it,  *)
(* or that failed to.                                                      *)
ScanCovers ==
    \A slot \in Cells \X scanned :
        \/ enqueued[slot] > 0
        \/ slot \in missed
        \/ \E s \in Schedulers : scan[s].at = "publishing" /\ SlotOf(s) = slot

CellsInv == CellsTypeOK /\ ScanCovers

(* "Exactly one replica wins each cell and enqueues it, so there is no     *)
(* leader and no duplicate polling": a key that a replica finds taken is   *)
(* never won again, unless a scan lasts longer than its window.            *)
Overrun == \E s \in Schedulers : scan[s].at # "asleep" /\ now >= (scan[s].window + 1) * Interval
WonOnce == [][\A slot \in Slots :
                 (enqueued[slot] > 0 /\ enqueued'[slot] > enqueued[slot]) => Overrun]_cellVars

(* Every job that was published is polled in the end, or came too late:    *)
(* no death of a worker and no lost acknowledgement loses it.              *)
JobsServed ==
    \A slot \in Slots : enqueued[slot] > 0 ~> slot \in polled \cup dropped
===============================================================================
