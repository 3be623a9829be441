----------------------------- MODULE Waypoints -----------------------------
(***************************************************************************)
(* Where one is on a route of the map library and how a route is cut       *)
(* there: the pure part of route/RouteOperation.cpp, with the operations   *)
(* of route/LaneIntervalOperation.cpp it uses.                             *)
(*                                                                         *)
(* A distance is counted in Scale-ths of a unit of length.  On a lane of   *)
(* several units one that falls between two offsets is rounded down.       *)
(***************************************************************************)
EXTENDS FullRoute

CONSTANT Tolerance     \* the half metre a position may lie off a route

-----------------------------------------------------------------------------
(* Intervals.                                                              *)

\* The offset o of the interval's lane, moved a distance along the route.
Onward(m, v, o, distance) ==
  LET delta == distance \div m.length[v.lane]
  IN  IF IsRouteDirectionPositive(m, v) THEN o + delta ELSE o - delta

Backward(m, v, o, distance) ==
  LET delta == distance \div m.length[v.lane]
  IN  IF IsRouteDirectionPositive(m, v) THEN o - delta ELSE o + delta

OnLane(o) == Min({Scale, Max({0, o})})

ShortenIntervalFromBegin(m, v, distance) ==
  LET o == Onward(m, v, v.start, distance)
  IN  [v EXCEPT !.start = IF IsAfterInterval(m, v, o) THEN v.end ELSE o]

\* Mutant: the distance is what is kept.
KeepIntervalFromBegin(m, v, distance) ==
  [v EXCEPT !.end = Onward(m, v, v.start, distance)]

ShortenIntervalFromEnd(m, v, distance) ==
  LET o == Backward(m, v, v.end, distance)
  IN  [v EXCEPT !.end = IF IsBeforeInterval(m, v, o) THEN v.start ELSE o]

\* Not past the end of the lane, whatever the end of the interval was.
RestrictIntervalFromBegin(m, v, distance) ==
  [v EXCEPT !.end = OnLane(Onward(m, v, v.start, distance))]

\* extendIntervalFromStart and extendIntervalFromEnd.
ExtendInterval(m, v, distance) ==
  IF IsDegenerated(v) THEN v
  ELSE [v EXCEPT !.start = OnLane(Backward(m, v, v.start, distance)),
                 !.end = OnLane(Onward(m, v, v.end, distance))]

FrontInterval(segment) == Head(segment.lanes).interval

\* All lanes get the bound that is worked out for the first.
ShortenSegmentFromBegin(m, segment, distance) ==
  LET start == ShortenIntervalFromBegin(m, FrontInterval(segment), distance).start
  IN  [segment EXCEPT !.lanes = [j \in DOMAIN @ |-> [@[j] EXCEPT !.interval.start = start]]]

ShortenSegmentFromEnd(m, segment, distance) ==
  LET end == ShortenIntervalFromEnd(m, FrontInterval(segment), distance).end
  IN  [segment EXCEPT !.lanes = [j \in DOMAIN @ |-> [@[j] EXCEPT !.interval.end = end]]]

-----------------------------------------------------------------------------
(* Waypoints: [segment, lane, at], two indices and the offset asked for.   *)

NoWaypoint == [segment |-> 0, lane |-> 0, at |-> 0]

LaneSegment(segments, w) == segments[w.segment].lanes[w.lane]
WaypointLane(segments, w) == LaneOf(LaneSegment(segments, w))

Places(segments) ==
  UNION {{[segment |-> i, lane |-> j, at |-> 0] : j \in DOMAIN segments[i].lanes}
         : i \in DOMAIN segments}

\* The first of some places along the route, and from right to left.
FirstPlace(places, at) ==
  LET first == Min({w.segment : w \in places})
  IN  IF places = {} THEN NoWaypoint
      ELSE [segment |-> first, at |-> at,
            lane |-> Min({w.lane : w \in {x \in places : x.segment = first}})]

\* The first lane of the route the position lies on or nearly on.
FindWaypoint(m, segments, p) ==
  LET holds(w) ==
        LET v == LaneSegment(segments, w).interval
        IN  v.lane = p.lane /\ IsWithinInterval(m, ExtendInterval(m, v, Tolerance), p.offset)
  IN  FirstPlace({w \in Places(segments) : holds(w)}, p.offset)

\* The place a distance along the first lanes of the segments.
FindWaypointAtLength(m, segments, distance) ==
  LET before[i \in 0 .. Len(segments)] ==
        IF i = 0 THEN 0 ELSE before[i - 1] + SegmentLength(m, segments[i])
      far == {i \in DOMAIN segments : before[i] >= distance}
  IN  IF far = {} THEN NoWaypoint
      ELSE LET i == Min(far)
           IN  [segment |-> i, lane |-> 1,
                at |-> ShortenIntervalFromBegin(m, FrontInterval(segments[i]),
                                                distance - before[i - 1]).start]

\* Of several positions the one found first on the route; on one segment the
\* offsets decide, in the direction of the lane kept so far.
FindNearestWaypoint(m, segments, positions) ==
  LET IsBefore(kept, o) ==
        IF IsRouteDirectionPositive(m, LaneSegment(segments, kept).interval)
        THEN o < kept.at ELSE o > kept.at
      Nearer(kept, p) ==
        LET w == FindWaypoint(m, segments, p) IN
        CASE w = NoWaypoint -> kept
          [] w # NoWaypoint /\ kept = NoWaypoint -> w
          [] w # NoWaypoint /\ kept # NoWaypoint ->
               IF \/ w.segment < kept.segment
                  \/ w.segment = kept.segment /\ IsBefore(kept, w.at)
               THEN w ELSE kept
      nearest[n \in 0 .. Len(positions)] ==
        IF n = 0 THEN NoWaypoint ELSE Nearer(nearest[n - 1], positions[n])
  IN  nearest[Len(positions)]

\* From a waypoint to the lanes beside it and to those before and after it.
\* A neighbour or a link that is not where the list has it is an error.
LeftLane(segments, w) ==
  IF LaneSegment(segments, w).left = NoLane THEN NoWaypoint ELSE [w EXCEPT !.lane = @ + 1]

RightLane(segments, w) ==
  IF LaneSegment(segments, w).right = NoLane THEN NoWaypoint ELSE [w EXCEPT !.lane = @ - 1]

LanesOfSegment(segments, w, i, expected) ==
  LET lanes == IF i \in DOMAIN segments THEN segments[i].lanes ELSE <<>>
      found == SelectSeq([j \in DOMAIN lanes |-> j], LAMBDA j : LaneOf(lanes[j]) \in expected)
  IN  [k \in DOMAIN found |-> [w EXCEPT !.segment = i, !.lane = found[k]]]

SuccessorLanes(segments, w) ==
  LanesOfSegment(segments, w, w.segment + 1, LaneSegment(segments, w).succs)

PredecessorLanes(segments, w) ==
  LanesOfSegment(segments, w, w.segment - 1, LaneSegment(segments, w).preds)

-----------------------------------------------------------------------------
(* Intersections.                                                          *)

IsIntersectionLane(m, l) == m.type[l] = "INTERSECTION"
FrontLane(segment) == FrontInterval(segment).lane

\* Only the first lane of a segment is looked at.
EntersIntersection(m, segments, i) ==
  /\ i > 1
  /\ ~ IsIntersectionLane(m, FrontLane(segments[i - 1]))
  /\ IsIntersectionLane(m, FrontLane(segments[i]))

ClearPredecessors(segments) ==
  [segments EXCEPT ![1].lanes = [j \in DOMAIN @ |-> [@[j] EXCEPT !.preds = {}]]]

\* Mutant: the lanes before a cut still name those behind it.
SuccessorsKept(segments) == segments

ClearSuccessors(segments) ==
  [segments EXCEPT ![Len(segments)].lanes = [j \in DOMAIN @ |-> [@[j] EXCEPT !.succs = {}]]]

-----------------------------------------------------------------------------
(* Cutting a route at its begin: shortenRouteImpl.  The result is          *)
(* [segments, result].                                                     *)

ShortenModes == {"Normal", "PrependIfSucceededBeforeRoute",
                 "DontCutIntersectionAndPrependIfSucceededBeforeRoute"}

KeepsIntersections(mode) == mode = "DontCutIntersectionAndPrependIfSucceededBeforeRoute"

\* Mutant: only lanes the waypoint has passed are cut.
OnlyPassedLane(m, ls, o) ==
  IF ~ IsDegenerated(ls.interval) /\ IsAfterInterval(m, ls.interval, o)
  THEN [ls EXCEPT !.interval.start = ls.interval.end] ELSE ls

ShorterLane(m, ls, o) ==
  LET v == ls.interval IN
  IF IsWithinInterval(m, v, o) THEN [ls EXCEPT !.interval.start = o]
  ELSE IF ~ IsDegenerated(v) /\ IsAfterInterval(m, v, o)
       THEN [ls EXCEPT !.interval.start = v.end]
  ELSE ls

\* The intersection the waypoint lies in is kept, and of the segment before
\* it a point.
KeptIntersection(segments, i) ==
  LET kept == SubSeq(segments, i - 1, Len(segments))
  IN  [kept EXCEPT ![1].lanes = [j \in DOMAIN @ |->
         LET ls == @[j] IN [ls EXCEPT !.interval.start = ls.interval.end]]]

\* The segments from the waypoint on, the first cut at it.
CutAt(m, segments, w) ==
  LET kept == SubSeq(segments, w.segment, Len(segments))
  IN  [kept EXCEPT ![1].lanes = [j \in DOMAIN @ |-> ShorterLane(m, @[j], w.at)]]

ShortenAtWaypoint(m, segments, w, mode) ==
  LET entries == {i \in 1 .. w.segment : EntersIntersection(m, segments, i)}
      inIntersection == KeepsIntersections(mode)
                        /\ IsIntersectionLane(m, WaypointLane(segments, w)) /\ entries # {}
      cut == CutAt(m, segments, w)
      used == IsDegenerated(FrontInterval(cut[1]))
      entersNext == KeepsIntersections(mode) /\ Len(cut) > 1 /\ EntersIntersection(m, cut, 2)
      query == [lane |-> WaypointLane(segments, w), offset |-> w.at]
      kept == IF inIntersection THEN KeptIntersection(segments, Max(entries))
              ELSE IF ~ used THEN AlignRouteStartingPoints(m, cut, query)
              ELSE IF entersNext THEN cut ELSE Tail(cut)
  IN  IF kept = <<>> THEN [segments |-> kept, result |-> "SucceededRouteEmpty"]
      ELSE [segments |-> ClearPredecessors(kept),
            result |-> IF inIntersection \/ (used /\ entersNext)
                       THEN "SucceededIntersectionNotCut" ELSE "Succeeded"]

\* The positions are not on the route: the first lane with a position before
\* it is begun there, or the route has been left.
ShortenOffRoute(m, segments, positions, mode) ==
  LET first == segments[1].lanes
      LiesBefore(p, ls) == p.lane = LaneOf(ls) /\ IsBeforeInterval(m, ls.interval, p.offset)
      begins == {j \in DOMAIN first : \E p \in ToSet(positions) : LiesBefore(p, first[j])}
      begun == LET j == Min(begins)
                   p == positions[Min({k \in DOMAIN positions : LiesBefore(positions[k], first[j])})]
               IN  AlignRouteStartingPoints(m,
                     [segments EXCEPT ![1].lanes[j].interval.start = p.offset], p)
      passed == \E ls \in ToSet(Last(segments).lanes), p \in ToSet(positions) :
                   /\ p.lane = LaneOf(ls) /\ ~ IsDegenerated(ls.interval)
                   /\ IsAfterInterval(m, ls.interval, p.offset)
  IN  IF begins # {}
      THEN IF mode = "Normal"
           THEN [segments |-> segments, result |-> "SucceededBeforeRoute"]
           ELSE [segments |-> begun, result |-> "Succeeded"]
      ELSE [segments |-> <<>>,
            result |-> IF passed THEN "SucceededRouteEmpty" ELSE "FailedRouteEmpty"]

Shorten(m, segments, w, positions, mode) ==
  IF segments = <<>> THEN [segments |-> <<>>, result |-> "FailedRouteEmpty"]
  ELSE IF w # NoWaypoint THEN ShortenAtWaypoint(m, segments, w, mode)
  ELSE ShortenOffRoute(m, segments, positions, mode)

-----------------------------------------------------------------------------
(* Cutting a route at its end: shortenRouteToDistance.                     *)

CutModes == {"DontCutIntersection", "AllowCutIntersection"}

CutToDistance(m, segments, distance, mode) ==
  LET upTo[i \in 0 .. Len(segments)] ==
        IF i = 0 THEN 0 ELSE upTo[i - 1] + SegmentLength(m, segments[i])
      reached == {i \in 0 .. Len(segments) : upTo[i] = distance}
      n == IF reached # {} THEN Min(reached)
           ELSE Max({i \in 0 .. Len(segments) : upTo[i] <= distance})
      rest == distance - upTo[n]
      inside == mode = "DontCutIntersection" /\ IsIntersectionLane(m, FrontLane(segments[n + 1]))
      behind == {i \in n + 2 .. Len(segments) : ~ IsIntersectionLane(m, FrontLane(segments[i]))}
      kept == IF rest = 0 \/ n = Len(segments) THEN SubSeq(segments, 1, n)
              ELSE IF inside
              THEN SubSeq(segments, 1, Min({i - 1 : i \in behind} \cup {Len(segments)}))
              ELSE Append(SubSeq(segments, 1, n),
                          ShortenSegmentFromEnd(m, segments[n + 1],
                                                SegmentLength(m, segments[n + 1]) - rest))
  IN  IF kept = <<>> THEN kept ELSE ClearSuccessors(kept)

\* Mutant: the last segment is not dropped.
LastSegmentKept(segments) == segments

WithoutLastSegment(segments) ==
  LET kept == SubSeq(segments, 1, Len(segments) - 1)
  IN  IF kept = <<>> THEN kept ELSE ClearSuccessors(kept)

WithoutDegeneratedEnd(segments) ==
  IF segments # <<>> /\ IsDegenerated(FrontInterval(Last(segments)))
  THEN WithoutLastSegment(segments) ELSE segments
=============================================================================
