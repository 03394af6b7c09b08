----------------------------- MODULE RouteTraffic -----------------------------
(***************************************************************************)
(* Painting live traffic on a route (services/routing.py): the polyline    *)
(* decoder, the congestion bands, how uncovered edges are grouped into     *)
(* windows with one provider call each, and how edges are merged into runs.*)
(*                                                                         *)
(* An edge is [from, to, live, free, length]: its shape indices (-1 is no  *)
(* index), live and free-flow speed (0 is none) and its length.            *)
(***************************************************************************)
EXTENDS Integers, Sequences, SequencesExt, FiniteSetsExt

CONSTANTS ChunkBits,   \* 5: bits of a number in one character
          WindowKm     \* TRAFFIC_FETCH_WINDOW_KM

ASSUME RouteTrafficAssumption == ChunkBits \in Nat \ {0} /\ WindowKm \in Nat

----------------------------------------------------------------------------
(* `_decode_polyline6`.  A character is its code less 63: the low bits,    *)
(* and a bit above them when more follow.                                  *)

Chunk == 2^ChunkBits

\* The signed number of the characters of one value.
Delta(chars) ==
    LET raw == FoldLeft(LAMBDA acc, i : acc + (chars[i] % Chunk) * Chunk^(i - 1), 0,
                        [i \in DOMAIN chars |-> i])
    IN IF raw % 2 = 1 THEN 0 - (raw \div 2) - 1 ELSE raw \div 2

\* The values: a character without the continuation bit ends one.
Values(chars) ==
    LET step(acc, c) == IF c < Chunk THEN [done |-> Append(acc.done, Delta(Append(acc.open, c))), open |-> <<>>]
                        ELSE [acc EXCEPT !.open = Append(@, c)]
    IN FoldLeft(step, [done |-> <<>>, open |-> <<>>], chars).done

\* Mutant of DecodePolyline: the differences are taken for positions.
DecodePolylineDeltas(chars) ==
    LET values == Values(chars) IN
    [p \in 1 .. Len(values) \div 2 |-> <<values[2 * p], values[2 * p - 1]>>]

\* Positions [lon, lat], summed up from the differences, latitude first.
DecodePolyline(chars) ==
    LET values == Values(chars)
        upTo(p, side) == FoldLeft(LAMBDA acc, i : acc + values[2 * i - side], 0, [i \in 1 .. p |-> i])
    IN [p \in 1 .. Len(values) \div 2 |-> <<upTo(p, 0), upTo(p, 1)>>]

----------------------------------------------------------------------------
(* Levels and runs (`_classify`, `_annotate_traffic`).                     *)

Classify(live, free) ==
    IF live = 0 \/ free <= 0 THEN "unknown"
    ELSE IF 4 * live >= 3 * free THEN "green"
    ELSE IF 2 * live >= free THEN "yellow"
    ELSE IF 4 * live >= free THEN "orange" ELSE "red"

Drawn(e) == e.from # -1 /\ e.to # -1 /\ e.to > e.from

\* Mutant of Merged: the run keeps its first edge's speed.
MergedFirst(run, e) == [run EXCEPT !.to = e.to]

\* A run extended by an edge: its speed is the slowest edge's.
Merged(run, e) ==
    IF e.live # 0 /\ (run.live = 0 \/ e.live < run.live)
      THEN [run EXCEPT !.to = e.to, !.live = e.live, !.free = e.free]
      ELSE [run EXCEPT !.to = e.to]

Runs(edges) ==
    LET level(e) == Classify(e.live, e.free)
        paint(runs, e) ==
            IF ~ Drawn(e) THEN runs
            ELSE IF runs # <<>> /\ Last(runs).level = level(e)
                   THEN Append(Front(runs), Merged(Last(runs), e))
            ELSE Append(runs, [from |-> e.from, to |-> e.to, level |-> level(e),
                               live |-> e.live, free |-> e.free])
    IN FoldLeft(paint, <<>>, edges)

----------------------------------------------------------------------------
(* Windows (`_fill_missing_from_provider`).                                *)

\* Mutant of Windows: a covered edge does not end the window.
WindowsAcross(edges, fetchable) ==
    LET take(acc, i) ==
            IF i \notin fetchable THEN acc
            ELSE IF acc.cur # <<>> /\ acc.km + edges[i].length > WindowKm
                   THEN [done |-> Append(acc.done, acc.cur), cur |-> <<i>>, km |-> edges[i].length]
            ELSE [acc EXCEPT !.cur = Append(@, i), !.km = @ + edges[i].length]
        all == FoldLeft(take, [done |-> <<>>, cur |-> <<>>, km |-> 0], [i \in DOMAIN edges |-> i])
    IN IF all.cur = <<>> THEN all.done ELSE Append(all.done, all.cur)

Windows(edges, fetchable) ==
    LET take(acc, i) ==
            IF i \notin fetchable
              THEN IF acc.cur = <<>> THEN acc
                   ELSE [done |-> Append(acc.done, acc.cur), cur |-> <<>>, km |-> 0]
            ELSE IF acc.cur # <<>> /\ acc.km + edges[i].length > WindowKm
                   THEN [done |-> Append(acc.done, acc.cur), cur |-> <<i>>, km |-> edges[i].length]
            ELSE [acc EXCEPT !.cur = Append(@, i), !.km = @ + edges[i].length]
        all == FoldLeft(take, [done |-> <<>>, cur |-> <<>>, km |-> 0], [i \in DOMAIN edges |-> i])
    IN IF all.cur = <<>> THEN all.done ELSE Append(all.done, all.cur)

\* Where a window is sampled: the middle of its stretch of the shape.
Sample(edges, window, shape) ==
    LET from == edges[Head(window)].from
        to   == edges[Last(window)].to
        mid  == (from + to) \div 2
    IN IF from = -1 \/ to = -1 \/ mid >= shape THEN {} ELSE {mid}
===============================================================================
