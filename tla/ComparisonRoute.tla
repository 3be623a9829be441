--------------------------- MODULE ComparisonRoute ---------------------------
(***************************************************************************)
(* build_route of scripts/carla_global_planner.py: has CARLA's own planner  *)
(* trace a route, and drops points that repeat the one before              *)
(* (drop_repeat_points).  It is a process of the demo run (DemoRun).        *)
(***************************************************************************)
EXTENDS Naturals, Sequences

CONSTANTS Points,        \* the places a waypoint may have
          Near(_, _),    \* not further apart than tolerance
          MaxTrace       \* bound on the length of a trace

ASSUME RouteAssumption ==
  /\ MaxTrace \in Nat
  /\ \A p, q \in Points : Near(p, q) \in BOOLEAN
  /\ \A p \in Points : Near(p, p)

VARIABLES stage, routeError,
          fromFile,   \* whether there is an xodr_path
          trace,      \* the points of route_trace
          next,       \* the point that is looked at next
          kept        \* cleaned_points, as places in the trace

comparison == <<stage, routeError, fromFile, trace, next, kept>>

Traces == UNION { [1 .. n -> Points] : n \in 0 .. MaxTrace }

-----------------------------------------------------------------------------
ComparisonInit ==
  /\ stage = "load"
  /\ routeError = "none"
  /\ fromFile \in BOOLEAN
  /\ trace = << >>
  /\ next = 1
  /\ kept = << >>

StopWith(why) ==
  /\ stage' = "failed"
  /\ routeError' = why

\* load_route_map, from the file or from the simulator.
LoadRouteMap ==
  /\ stage = "load"
  /\ \/ stage' = "trace" /\ UNCHANGED routeError
     \/ StopWith(IF fromFile THEN "no map file" ELSE "no map from CARLA")
  /\ UNCHANGED <<fromFile, trace, next, kept>>

Trace ==
  /\ stage = "trace"
  /\ trace' \in Traces
  /\ IF trace' = << >> THEN StopWith("no route") ELSE stage' = "drop" /\ UNCHANGED routeError
  /\ UNCHANGED <<fromFile, next, kept>>

Last == trace[kept[Len(kept)]]

\* Mutant: compared with the point before, dropped or not.
IsRepeatOfNeighbour == kept # << >> /\ Near(trace[next - 1], trace[next])

IsRepeat == kept # << >> /\ Near(Last, trace[next])

Drop ==
  /\ stage = "drop"
  /\ next <= Len(trace)
  /\ IsRepeat
  /\ next' = next + 1
  /\ UNCHANGED <<stage, routeError, fromFile, trace, kept>>

Keep ==
  /\ stage = "drop"
  /\ next <= Len(trace)
  /\ ~ IsRepeat
  /\ kept' = Append(kept, next)
  /\ next' = next + 1
  /\ UNCHANGED <<stage, routeError, fromFile, trace>>

Finish ==
  /\ stage = "drop"
  /\ next > Len(trace)
  /\ IF kept = << >> THEN StopWith("only duplicates") ELSE stage' = "built" /\ UNCHANGED routeError
  /\ UNCHANGED <<fromFile, trace, next, kept>>

ComparisonNext == LoadRouteMap \/ Trace \/ Drop \/ Keep \/ Finish

ComparisonSpec == ComparisonInit /\ [][ComparisonNext]_comparison

-----------------------------------------------------------------------------
\* The points that are kept are points of the trace that were looked at.
ComparisonTypeOK ==
  /\ stage \in {"load", "trace", "drop", "built", "failed"}
  /\ routeError \in {"none", "no map file", "no map from CARLA", "no route", "only duplicates"}
  /\ fromFile \in BOOLEAN
  /\ trace \in Traces
  /\ next \in 1 .. Len(trace) + 1
  /\ kept \in Seq(Nat)
  /\ \A k \in 1 .. Len(kept) : kept[k] \in 1 .. next - 1

\* No two points of the comparison route that follow each other are near each
\* other: none of them makes a line of no length when it is drawn.
NoRepeats == \A k \in 1 .. Len(kept) - 1 : ~ Near(trace[kept[k]], trace[kept[k + 1]])

\* The kept point that stands for a point of the trace: the last one that is
\* not after it.
StandsFor(places, k, i) ==
  /\ places[k] <= i
  /\ k < Len(places) => i < places[k + 1]

\* Nothing of the trace is lost: the kept point that stands for a point is near
\* it, also when the points creep along and each is near the one before.
NothingLost ==
  \A i \in 1 .. next - 1 :
    \E k \in 1 .. Len(kept) : StandsFor(kept, k, i) /\ Near(trace[kept[k]], trace[i])
=============================================================================
