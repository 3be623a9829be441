----------------------------- MODULE FullRoute -----------------------------
(***************************************************************************)
(* The routes of the map library and how route/Planning.cpp makes one out  *)
(* of the points a search found (createFullRoute) with                     *)
(* appendRoadSegmentToRoute of route/RouteOperation.cpp.                   *)
(*                                                                         *)
(* A route is [mode, segments, count, destOffset, minOffset, maxOffset], a *)
(* road segment [lanes, fromDest], its lanes in a sequence from right to   *)
(* left, and a lane segment                                                *)
(*   [interval, left, right, preds, succs, offset]                         *)
(* with NoLane for a neighbour there is none of.                           *)
(***************************************************************************)
EXTENDS LibraryLanes

NoLane == 0

Modes == {"Undefined", "SameDrivingDirection", "AllRoutableLanes", "AllNeighborLanes"}

EmptyRoute(mode) ==
  [mode |-> mode, segments |-> <<>>, count |-> 0,
   destOffset |-> 0, minOffset |-> 0, maxOffset |-> 0]

LaneOf(ls) == ls.interval.lane
LanesOf(segment) == {LaneOf(segment.lanes[i]) : i \in DOMAIN segment.lanes}
SegmentOfLane(segment, l) ==
  segment.lanes[CHOOSE i \in DOMAIN segment.lanes : LaneOf(segment.lanes[i]) = l]

\* A road is as long as the shortest of its lanes.
SegmentLength(m, segment) ==
  Min({IntervalLength(m, segment.lanes[i].interval) : i \in DOMAIN segment.lanes})

RouteLength(m, route) ==
  FoldLeft(LAMBDA sum, s : sum + SegmentLength(m, s), 0, route.segments)

-----------------------------------------------------------------------------
(* The lane offset counts the lane changes since the start of the route:   *)
(* one less for each to the right.                                         *)

WithOffset(route, offset) ==
  [route EXCEPT !.minOffset = Min({@, offset}), !.maxOffset = Max({@, offset})]

\* Mutant: a move to the left is taken for one to the right.
MovedRight(rightwards, offset, lanes) == offset - lanes

MovedOffset(rightwards, offset, lanes) ==
  IF rightwards THEN offset - lanes ELSE offset + lanes

-----------------------------------------------------------------------------
(* appendRoadSegmentToRoute.                                               *)

IsRightNeighbor(side, positive) == (side = "RIGHT") = positive

IsTaken(m, mode, l, other) ==
  \/ mode = "SameDrivingDirection" /\ Routeable(m, other)
       /\ m.direction[other] = m.direction[l]
  \/ mode = "AllRoutableLanes" /\ Routeable(m, other)
  \/ mode = "AllNeighborLanes"

\* The lanes beside lane l on one side, l first: on from each to its only
\* neighbour there, up to one that is not taken or was met before.
SideLanes(m, mode, l, side, relevant) ==
  LET walk[n \in 0 .. Cardinality(m.lanes)] ==
        IF n = 0 THEN <<l>>
        ELSE LET met == walk[n - 1]
                 beside == ContactLanes(m, Last(met), side)
             IN  IF /\ Len(beside) = 1
                    /\ IsLaneRelevantForExpansion(beside[1].to, relevant)
                    /\ ~ Contains(met, beside[1].to)
                    /\ IsTaken(m, mode, l, beside[1].to)
                 THEN Append(met, beside[1].to) ELSE met
  IN  walk[Cardinality(m.lanes)]

\* A lane with two neighbours on one side is an error.
AppendThrows(m, mode, l, relevant) ==
  \E side \in {"LEFT", "RIGHT"} :
     Len(ContactLanes(m, Last(SideLanes(m, mode, l, side, relevant)), side)) > 1

\* Mutant: links are looked for at the begin of a lane driven backwards, too.
LinksAtBegin(m, l, positive, segment) ==
  {i \in DOMAIN m.contacts[l] : /\ m.contacts[l][i].location = "PREDECESSOR"
                                /\ m.contacts[l][i].to \in LanesOf(segment)}

\* The contacts of lane l, by their places in the list, that lead back into
\* the segment.
LinksBack(m, l, positive, segment) ==
  {i \in DOMAIN m.contacts[l] :
     /\ m.contacts[l][i].location = IF positive THEN "PREDECESSOR" ELSE "SUCCESSOR"
     /\ m.contacts[l][i].to \in LanesOf(segment)}

\* addRoutePredecessorRelationToNewSegment: the lane takes over the offset
\* of the last lane that leads to it.
JoinedLane(m, ls, links, before) ==
  LET contacts == m.contacts[LaneOf(ls)]
  IN  IF links = {} THEN ls
      ELSE [ls EXCEPT !.preds = {contacts[i].to : i \in links},
                      !.offset = SegmentOfLane(before, contacts[Max(links)].to).offset]

JoinedLanes(m, lanes, positive, segments) ==
  IF segments = <<>> THEN lanes
  ELSE [i \in DOMAIN lanes |->
          JoinedLane(m, lanes[i], LinksBack(m, LaneOf(lanes[i]), positive, Last(segments)),
                     Last(segments))]

\* A lane learns which of the joined lanes go on from it.
Knowing(ls, joined) ==
  [ls EXCEPT !.succs = @ \cup {LaneOf(k) : k \in {n \in joined : LaneOf(ls) \in n.preds}}]

WithSuccessors(segments, joined) ==
  [i \in DOMAIN segments |->
     IF i < Len(segments) THEN segments[i]
     ELSE [segments[i] EXCEPT !.lanes = [j \in DOMAIN @ |-> Knowing(@[j], joined)]]]

\* The lanes of a row of lanes, offset being that of the lane at the place own.
NewLanes(m, v, row, own, offset) ==
  LET Neighbor(i) == IF i \in DOMAIN row THEN row[i] ELSE NoLane
      Wrong(l) == IF m.direction[l] = m.direction[v.lane] THEN v.wrongWay ELSE ~ v.wrongWay
  IN  [i \in DOMAIN row |->
         [interval |-> [v EXCEPT !.lane = row[i], !.wrongWay = Wrong(row[i])],
          right |-> Neighbor(i - 1), left |-> Neighbor(i + 1), preds |-> {}, succs |-> {},
          offset |-> MovedOffset(i < own, offset, Gap(i, own))]]

AppendLanes(segments, lanes) ==
  Append(WithSuccessors(segments, ToSet(lanes)), [lanes |-> lanes, fromDest |-> 0])

AppendRoadSegment(m, route, v, offset, relevant) ==
  LET positive == IsRouteDirectionPositive(m, v)
      Walk(side) == Tail(SideLanes(m, route.mode, v.lane, side, relevant))
      right == Walk(IF positive THEN "RIGHT" ELSE "LEFT")
      left == Walk(IF positive THEN "LEFT" ELSE "RIGHT")
      lanes == NewLanes(m, v, Reverse(right) \o <<v.lane>> \o left, Len(right) + 1, offset)
  IN  [WithOffset(WithOffset(WithOffset(route, offset),
                             MovedOffset(TRUE, offset, Len(right))),
                  MovedOffset(FALSE, offset, Len(left)))
       EXCEPT !.segments = AppendLanes(@, JoinedLanes(m, lanes, positive, @))]

-----------------------------------------------------------------------------
(* The starting and ending points of the segments are brought in line with *)
(* the ends of the search, but never past the other end of an interval.    *)

\* Mutant: the start may be moved past the end.
AlignedAnyway(m, ls, p, atStart) ==
  LET o == Aligned(m, p.lane, p.offset, LaneOf(ls))
  IN  IF LaneOf(ls) = p.lane \/ IsDegenerated(ls.interval) THEN ls
      ELSE IF atStart THEN [ls EXCEPT !.interval.start = o]
                      ELSE [ls EXCEPT !.interval.end = o]

AlignedLane(m, ls, p, atStart) ==
  LET v == ls.interval
      o == Aligned(m, p.lane, p.offset, v.lane)
  IN  IF v.lane = p.lane \/ IsDegenerated(v) THEN ls
      ELSE IF atStart /\ ~ IsAfterInterval(m, v, o)
           THEN [ls EXCEPT !.interval.start = o]
      ELSE IF ~ atStart /\ ~ IsBeforeInterval(m, v, o)
           THEN [ls EXCEPT !.interval.end = o]
      ELSE ls

AlignSegment(m, segments, n, p, atStart) ==
  [segments EXCEPT ![n].lanes =
     [i \in DOMAIN @ |-> AlignedLane(m, @[i], p, atStart)]]

AlignRouteStartingPoints(m, segments, p) ==
  IF segments = <<>> THEN segments ELSE AlignSegment(m, segments, 1, p, TRUE)

AlignRouteEndingPoints(m, segments, p) ==
  IF segments = <<>> THEN segments ELSE AlignSegment(m, segments, Len(segments), p, FALSE)

-----------------------------------------------------------------------------
(* createFullRoute.                                                        *)

\* Points that follow each other sideways, or on one lane, make one
\* segment: the points at which a new one starts.
SegmentStarts(m, points) ==
  {i \in DOMAIN points :
     i > 1 => ~ IsSameOrDirectNeighbor(m, points[i - 1].lane, points[i].lane)}

\* The physical direction of a segment that is a single offset is told by
\* how it is left, or else by where it was entered.
PhysicalDirection(v, nextContact, isFirst) ==
  CASE v.start < v.end -> "POSITIVE"
    [] v.start > v.end -> "NEGATIVE"
    [] v.start = v.end /\ nextContact = "SUCCESSOR" -> "POSITIVE"
    [] v.start = v.end /\ nextContact = "PREDECESSOR" -> "NEGATIVE"
    [] OTHER -> IF isFirst THEN "NONE"
                ELSE IF v.start = 0 THEN "POSITIVE"
                ELSE IF v.start = Scale THEN "NEGATIVE" ELSE "NONE"

IsWrongWay(m, v, firstLane, nextContact, isFirst) ==
  LET physical == PhysicalDirection(v, nextContact, isFirst)
  IN  /\ m.direction[v.lane] \in {"POSITIVE", "NEGATIVE"}
      /\ IF physical = "NONE" THEN m.direction[firstLane] # m.direction[v.lane]
                              ELSE physical # m.direction[v.lane]

\* Mutant: the interval begins where its lane was entered.
StretchOfLastLane(m, points, i, j) ==
  LET entered == Min({k \in i .. j : points[k].lane = points[j].lane})
  IN  [lane |-> points[j].lane, start |-> points[entered].offset,
       end |-> points[j].offset, wrongWay |-> FALSE]

\* The interval of the points i to j, on the lane of the last of them.
StretchInterval(m, points, i, j) ==
  LET v == [lane |-> points[j].lane, start |-> points[i].offset,
            end |-> points[j].offset, wrongWay |-> FALSE]
      nextContact == IF j = Len(points) THEN "NONE"
                     ELSE DirectNeighborhoodRelation(m, points[j].lane, points[j + 1].lane)
  IN  [v EXCEPT !.wrongWay = IsWrongWay(m, v, points[i].lane, nextContact, i = 1)]

\* How many more moves were made to lanes at the right than at the left.
MovesRight(m, points, i, j) ==
  LET Moves(side) == {k \in i + 1 .. j :
        DirectNeighborhoodRelation(m, points[k - 1].lane, points[k].lane) = side}
  IN  Cardinality(Moves("RIGHT")) - Cardinality(Moves("LEFT"))

StretchOffset(m, points, i, j, offset) ==
  LET moves == MovesRight(m, points, i, j)
      positive == IsRouteDirectionPositive(m, StretchInterval(m, points, i, j))
  IN  IF moves = 0 THEN offset
      ELSE MovedOffset(positive # (moves < 0), offset, Gap(0, moves))

\* updateRoutePlanningCounters, without the number of the route itself.
WithCounters(route) ==
  LET n == Len(route.segments)
  IN  [route EXCEPT !.count = n,
         !.segments = [i \in 1 .. n |-> [@[i] EXCEPT !.fromDest = n + 1 - i]]]

\* The points that come before the next start of a segment.
LastOfStretch(m, points, i) ==
  Min({k - 1 : k \in {s \in SegmentStarts(m, points) : s > i}} \cup {Len(points)})

\* One stretch further; the offset reached so far is that of the destination.
AppendStretch(m, points, relevant, route, i, j) ==
  LET offset == StretchOffset(m, points, i, j, route.destOffset)
      Moved(r, o) == AppendRoadSegment(m, [WithOffset(r, o) EXCEPT !.destOffset = o],
                                       StretchInterval(m, points, i, j), o, relevant)
  IN  Moved(route, offset)

PlainRoute(m, points, mode, relevant) ==
  LET upTo[i \in 0 .. Len(points)] ==
        IF i = 0 THEN EmptyRoute(mode)
        ELSE IF i \in SegmentStarts(m, points)
        THEN AppendStretch(m, points, relevant, upTo[i - 1], i, LastOfStretch(m, points, i))
        ELSE upTo[i - 1]
  IN  upTo[Len(points)]

AlignEnds(m, segments, points) ==
  IF points = <<>> THEN segments
  ELSE AlignRouteEndingPoints(m, AlignRouteStartingPoints(m, segments, Head(points)),
                              Last(points))

CreateFullRoute(m, points, mode, relevant) ==
  [WithCounters(PlainRoute(m, points, mode, relevant))
     EXCEPT !.segments = AlignEnds(m, @, points)]

\* Some segment of the route cannot be made.
CreateThrows(m, points, mode, relevant) ==
  \E j \in DOMAIN points :
     /\ j = Len(points) \/ j + 1 \in SegmentStarts(m, points)
     /\ AppendThrows(m, mode, points[j].lane, relevant)
=============================================================================
