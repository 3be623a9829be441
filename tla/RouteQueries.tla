---------------------------- MODULE RouteQueries ----------------------------
(***************************************************************************)
(* What is asked of a route without changing it: the first lane change and *)
(* a section of the route, from route/RouteOperation.cpp.                  *)
(***************************************************************************)
EXTENDS Waypoints

\* The lanes a lane of the route leads to, or those that lead to it, and the
\* one beside it.
Ways(segments, w, way) ==
  IF way = "back" THEN PredecessorLanes(segments, w) ELSE SuccessorLanes(segments, w)

Beside(segments, w, side) ==
  IF side = "left" THEN LeftLane(segments, w) ELSE RightLane(segments, w)

-----------------------------------------------------------------------------
(* findFirstLaneChange.                                                    *)

\* As far as there is one way only.
Follow(segments, w, way) ==
  LET walk[n \in Nat] ==
        IF n = 0 THEN w
        ELSE LET ways == Ways(segments, walk[n - 1], way)
             IN  IF Len(ways) = 1 THEN ways[1] ELSE walk[n - 1]
  IN  walk[Len(segments)]

\* The nearest lane on one side that leads on.
LeadingNeighbor(segments, w, side) ==
  LET walk[n \in Nat] ==
        IF n = 0 THEN w
        ELSE IF walk[n - 1] = NoWaypoint THEN NoWaypoint
             ELSE Beside(segments, walk[n - 1], side)
      steps == {n \in 1 .. Len(segments[w.segment].lanes) :
                  walk[n] # NoWaypoint /\ SuccessorLanes(segments, walk[n]) # <<>>}
  IN  IF steps = {} THEN [w |-> NoWaypoint, steps |-> 0]
      ELSE [w |-> walk[Min(steps)], steps |-> Min(steps)]

NoLaneChange == [direction |-> "Invalid", start |-> NoWaypoint, end |-> NoWaypoint, count |-> 0]

\* isValid of a FindLaneChangeResult.
IsValidChange(c) == c.start # NoWaypoint /\ c.end # NoWaypoint /\ c.direction # "Invalid"

\* Back from the lane the change leads to, change by change, until the lane
\* is met the vehicle is on.
ChangesBack(segments, vehicle, target, direction) ==
  LET side == IF direction = "LeftToRight" THEN "left" ELSE "right"
      Back(s) ==
        LET start == Beside(segments, Follow(segments, s.target, "back"), side) IN
        IF s.done \/ start = NoWaypoint THEN [s EXCEPT !.done = TRUE]
        ELSE IF WaypointLane(segments, start) = vehicle
        THEN [s EXCEPT !.done = TRUE, !.change.start = start, !.change.count = @ + 1]
        ELSE [s EXCEPT !.target = start,
                       !.change.start = start, !.change.end = start, !.change.count = @ + 1]
      walk[n \in Nat] ==
        IF n = 0 THEN [target |-> target, done |-> FALSE,
                       change |-> [NoLaneChange EXCEPT !.direction = direction, !.end = target]]
        ELSE Back(walk[n - 1])
  IN  walk[Cardinality(Places(segments)) + 1].change

FindFirstLaneChange(m, segments, p) ==
  LET here == FindWaypoint(m, segments, p)
      last == Follow(segments, here, "ahead")
      right == LeadingNeighbor(segments, last, "right")
      left == LeadingNeighbor(segments, last, "left")
      useLeft == left.w # NoWaypoint /\ (right.w = NoWaypoint \/ left.steps < right.steps)
  IN  IF here = NoWaypoint \/ (left.w = NoWaypoint /\ right.w = NoWaypoint) THEN NoLaneChange
      ELSE ChangesBack(segments, p.lane, IF useLeft THEN left.w ELSE right.w,
                       IF useLeft THEN "RightToLeft" ELSE "LeftToRight")

-----------------------------------------------------------------------------
(* getRouteSection.  The lanes ahead, and those behind, are gathered       *)
(* segment by segment until the distance is covered.                       *)

SegmentOf(segments, here) ==
  [lanes |-> [k \in DOMAIN here |-> LaneSegment(segments, here[k])],
   fromDest |-> segments[here[1].segment].fromDest]

\* The segment that reaches past the distance is cut on its far side.
CutBeyond(m, segment, distance, way) ==
  IF way = "back" THEN ShortenSegmentFromBegin(m, segment, distance)
                  ELSE ShortenSegmentFromEnd(m, segment, distance)

Gather(m, segments, here, covered, distance, way) ==
  LET Step(s) ==
        IF s.covered >= distance \/ s.here = <<>> THEN s
        ELSE LET new == SegmentOf(segments, s.here)
                 reached == s.covered + SegmentLength(m, new)
             IN  [here |-> FoldLeft(LAMBDA all, w : all \o Ways(segments, w, way), <<>>, s.here),
                  covered |-> Min({reached, distance}),
                  gathered |-> Append(s.gathered,
                                 IF reached > distance
                                 THEN CutBeyond(m, new, reached - distance, way)
                                 ELSE new)]
      walk[n \in Nat] ==
        IF n = 0 THEN [here |-> here, covered |-> covered, gathered |-> <<>>]
        ELSE Step(walk[n - 1])
  IN  walk[Len(segments)].gathered

\* updateLaneConnections.  The lanes are taken to lie from left to right.
UpdateLaneConnections(segments) ==
  LET IdAt(i, j) == IF i \in DOMAIN segments /\ j \in DOMAIN segments[i].lanes
                    THEN LaneOf(segments[i].lanes[j]) ELSE NoLane
      Ids(i) == IF i \in DOMAIN segments THEN LanesOf(segments[i]) ELSE {}
  IN  [i \in DOMAIN segments |-> [segments[i] EXCEPT !.lanes = [j \in DOMAIN @ |->
         [@[j] EXCEPT !.preds = @ \cap Ids(i - 1), !.succs = @ \cap Ids(i + 1),
                      !.left = IdAt(i, j - 1), !.right = IdAt(i, j + 1)]]]]

\* The section about a waypoint, front behind it and end ahead of it.
RouteSection(m, segments, w, front, end) ==
  LET own == LaneSegment(segments, w)
      v == own.interval
      behind == m.length[v.lane] * Gap(v.start, w.at)
      ahead == m.length[v.lane] * Gap(w.at, v.end)
      cut == IF behind >= front THEN ShortenIntervalFromBegin(m, v, behind - front) ELSE v
      kept == IF ahead >= end THEN ShortenIntervalFromEnd(m, cut, ahead - end) ELSE cut
      before == IF behind >= front THEN <<>>
                ELSE Gather(m, segments, Ways(segments, w, "back"), behind, front, "back")
      after == IF ahead >= end THEN <<>>
               ELSE Gather(m, segments, Ways(segments, w, "ahead"), ahead, end, "ahead")
      middle == [lanes |-> <<[own EXCEPT !.interval = kept]>>,
                 fromDest |-> segments[w.segment].fromDest]
  IN  UpdateLaneConnections(Reverse(before) \o <<middle>> \o after)
=============================================================================
