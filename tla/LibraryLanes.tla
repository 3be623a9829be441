---------------------------- MODULE LibraryLanes ----------------------------
(***************************************************************************)
(* The questions the map library itself asks about lanes, in               *)
(* ad_map_access: lane/LaneOperation and route/LaneIntervalOperation.  A   *)
(* map is the record of LaneMap with three more fields:                    *)
(*   at     for each lane and offset the centre point, two integers,       *)
(*   pace   for each lane the time one unit of distance takes on it,       *)
(*   shift  for each lane how far ahead of its neighbours it starts, the   *)
(*          whole of what the curvature of a road does to offsets.         *)
(* Here BIDIRECTIONAL counts as both directions, other than in the         *)
(* planner scripts.                                                        *)
(***************************************************************************)
EXTENDS LaneMap, Integers, FiniteSets, SequencesExt

RoutingDirections == {"POSITIVE", "NEGATIVE", "DONT_CARE"}

IsLaneDirectionPositive(m, l) == m.direction[l] \in {"POSITIVE", "BIDIRECTIONAL"}
IsLaneDirectionNegative(m, l) == m.direction[l] \in {"NEGATIVE", "BIDIRECTIONAL"}

ContactLanes(m, l, location) ==
  SelectSeq(m.contacts[l], LAMBDA c : c.location = location)

\* The first contact that leads to the lane decides.
GetContactLocation(m, l, to) ==
  LET led == SelectSeq(m.contacts[l], LAMBDA c : c.to = to)
  IN  IF led = <<>> THEN "INVALID" ELSE Head(led).location

Leads(m, l, location, to) ==
  \E i \in DOMAIN m.contacts[l] :
     m.contacts[l][i] = [to |-> to, location |-> location]

\* A side is looked for before an end, whatever the order of the contacts.
DirectNeighborhoodRelation(m, l, to) ==
  LET order == <<"LEFT", "RIGHT", "SUCCESSOR", "PREDECESSOR">>
      found == SelectSeq(order, LAMBDA place : Leads(m, l, place, to))
  IN  IF l = to THEN "OVERLAP"
      ELSE IF found = <<>> THEN "INVALID" ELSE Head(found)

IsSameOrDirectNeighbor(m, l, to) ==
  DirectNeighborhoodRelation(m, l, to) \in {"OVERLAP", "LEFT", "RIGHT"}

\* No relevant lanes means that all are.
IsLaneRelevantForExpansion(l, relevant) == relevant = {} \/ l \in relevant

-----------------------------------------------------------------------------
(* Distances.                                                              *)

Gap(a, b) == IF a <= b THEN b - a ELSE a - b

\* Between the centre points of two lanes, as a grid measures it.
CentreDistance(m, l, a, k, b) ==
  Gap(m.at[l][a][1], m.at[k][b][1]) + Gap(m.at[l][a][2], m.at[k][b][2])

-----------------------------------------------------------------------------
(* Intervals of a lane: [lane, start, end, wrongWay].                      *)

IsDegenerated(v) == v.start = v.end

IsRouteDirectionPositive(m, v) ==
  IF IsDegenerated(v)
  THEN IsLaneDirectionPositive(m, v.lane) # v.wrongWay
  ELSE v.start < v.end

\* lane.length * |start - end|, counted in Scale-ths of a unit of length.
IntervalLength(m, v) == m.length[v.lane] * Gap(v.start, v.end)

IsWithinInterval(m, v, o) ==
  IF IsRouteDirectionPositive(m, v) THEN v.start <= o /\ o <= v.end
                                    ELSE v.end <= o /\ o <= v.start

IsBeforeInterval(m, v, o) ==
  IF IsRouteDirectionPositive(m, v) THEN o < v.start ELSE o > v.start

IsAfterInterval(m, v, o) ==
  IF IsRouteDirectionPositive(m, v) THEN o > v.end ELSE o < v.end

\* Where a point of one lane lies on a lane beside it: the offset moved by
\* what the lanes' starts differ in, and held on the lane.
Aligned(m, l, o, k) ==
  LET moved == o + m.shift[k] - m.shift[l]
  IN  IF moved < 0 THEN 0 ELSE IF moved > Scale THEN Scale ELSE moved
=============================================================================
