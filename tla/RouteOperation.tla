--------------------------- MODULE RouteOperation ---------------------------
(***************************************************************************)
(* A route in use: the operations of route/RouteOperation.cpp that change  *)
(* it, in any order, while a vehicle drives along.  The route is one that  *)
(* RoutePlanning has planned, and every extension of it is planned by one  *)
(* more search.  Maps have a field leftHanded here.                        *)
(***************************************************************************)
EXTENDS RoutePlanning, RouteQueries

CONSTANTS Positions(_),   \* where the vehicle may be: sequences of [lane, offset]
          OpposingPoints(_), \* where overtaking may begin: [lane, offset]
          Distances(_),   \* the distances that routes are cut to
          Destinations(_),\* where a route may be extended to
          MaxCalls        \* bound: calls on one route

ASSUME DriveAssumption ==
  \A m \in Maps :
    /\ \A s \in Positions(m) : s \in Seq([lane : m.lanes, offset : Int])
    /\ Distances(m) \subseteq Nat

VARIABLES route, task, result, calls

driveVars == <<route, task, result, calls>>
allVars == <<vars, driveVars>>

ExtensionQuery(start, dest) ==
  [start |-> start, dest |-> dest, maxDistance |-> 1000000, maxDuration |-> 1000000,
   ignoreDirection |-> FALSE, relevant |-> {}]

-----------------------------------------------------------------------------
(* Making routes out of routes.                                            *)

\* Segments are appended by the intervals of their first lanes.
AppendThrowsOn(m, mode, segments) ==
  \E s \in ToSet(segments) : AppendThrows(m, mode, FrontLane(s), {})

AppendSegments(m, base, segments, offset) ==
  LET upTo[i \in 0 .. Len(segments)] ==
        IF i = 0 THEN base
        ELSE AppendRoadSegment(m, upTo[i - 1], FrontInterval(segments[i]),
                               offset + Head(segments[i].lanes).offset, {})
  IN  upTo[Len(segments)]

\* The extension begins with the segment that was the last of the route.
MergeRouteExtension(m, r, extension) ==
  LET reference == Head(Last(r.segments).lanes).offset
      kept == [r EXCEPT !.segments = WithoutLastSegment(@)]
  IN  WithCounters(AppendSegments(m, kept, extension.segments, reference))

GetRouteExpandedTo(m, r, mode) ==
  LET all == WithCounters(AppendSegments(m, EmptyRoute(mode), r.segments, 0))
      from == FrontInterval(Head(r.segments))
      to == FrontInterval(Last(r.segments))
  IN  IF r.segments = <<>> THEN all
      ELSE [all EXCEPT !.segments =
              AlignRouteEndingPoints(m,
                AlignRouteStartingPoints(m, @, [lane |-> from.lane, offset |-> from.start]),
                [lane |-> to.lane, offset |-> to.end])]

-----------------------------------------------------------------------------
(* addOpposingLaneToRoute.                                                 *)

OutermostIndex(m, segment) == IF m.leftHanded THEN 1 ELSE Len(segment.lanes)

IsBesideOutermost(m, segment, l) ==
  DirectNeighborhoodRelation(m, l, LaneOf(segment.lanes[OutermostIndex(m, segment)]))
    \in {"LEFT", "RIGHT"}

OpposingInterval(m, segment, p, distance) ==
  LET v == segment.lanes[OutermostIndex(m, segment)].interval
      sameWay == IsLaneDirectionPositive(m, v.lane) = IsLaneDirectionPositive(m, p.lane)
  IN  RestrictIntervalFromBegin(m,
        [lane |-> p.lane, start |-> p.offset, end |-> v.end,
         wrongWay |-> IF sameWay THEN v.wrongWay ELSE ~ v.wrongWay], distance)

\* The lane gets no links, and the lane beside it learns of it.
WiderRow(m, row, v, offset) ==
  LET New(right, left) == [interval |-> v, right |-> right, left |-> left,
                           preds |-> {}, succs |-> {}, offset |-> offset]
  IN  IF m.leftHanded
      THEN <<New(NoLane, LaneOf(row[1]))>> \o [row EXCEPT ![1].right = v.lane]
      ELSE Append([row EXCEPT ![Len(row)].left = v.lane], New(LaneOf(Last(row)), NoLane))

WithOpposingLane(m, r, i, v) ==
  LET outer == r.segments[i].lanes[OutermostIndex(m, r.segments[i])]
      offset == MovedOffset(m.leftHanded, outer.offset, 1)
  IN  [WithOffset(r, offset) EXCEPT !.segments[i].lanes = WiderRow(m, @, v, offset)]

\* One round of the loop: the lane of p is added to segment i, and the lane
\* it leads to is next.
OpposingStep(m, s, distance) ==
  LET segment == s.route.segments[s.i]
      v == OpposingInterval(m, segment, s.p, distance)
      covered == s.covered + IntervalLength(m, v)
      added == [s EXCEPT !.route = WithOpposingLane(m, @, s.i, v), !.covered = covered]
      onward == IF IsRouteDirectionPositive(m, FrontInterval(added.route.segments[s.i]))
                THEN "SUCCESSOR" ELSE "PREDECESSOR"
      ahead == ContactLanes(m, s.p.lane, onward)
      ends == \/ covered >= distance
              \/ Len(ahead) # 1
              \/ s.i = Len(s.route.segments)
              \/ IsIntersectionLane(m, ahead[1].to)
  IN  IF ~ IsBesideOutermost(m, segment, s.p.lane)
      THEN [s EXCEPT !.state = "false"]
      ELSE IF ends THEN [added EXCEPT !.state = "true"]
      ELSE [added EXCEPT !.i = @ + 1,
              !.p = [lane |-> ahead[1].to,
                     offset |-> FrontInterval(s.route.segments[s.i + 1]).start]]

\* [route, covered, state]: also a failure leaves what was added before it.
AddOpposingLane(m, r, p, distance) ==
  LET start == [route |-> r, covered |-> 0, i |-> 1, p |-> p,
                state |-> IF distance > 0 THEN "going" ELSE "true"]
      run[n \in 0 .. Len(r.segments)] ==
        IF n = 0 THEN start
        ELSE IF run[n - 1].state # "going" THEN run[n - 1]
        ELSE OpposingStep(m, run[n - 1], distance)
      present == /\ FindWaypoint(m, r.segments, p) # NoWaypoint
                 /\ p.lane \in LanesOf(Head(r.segments))
  IN  IF r.segments = <<>> \/ present THEN [start EXCEPT !.state = "false"]
      ELSE run[Len(r.segments)]

-----------------------------------------------------------------------------
(* The state machine.                                                      *)

DriveInit ==
  /\ Init
  /\ route = EmptyRoute(request.mode)
  /\ task = "plan" /\ result = "none" /\ calls = 0

Plan == task = "plan" /\ Next /\ UNCHANGED driveVars

\* The route the operations work on.
TakePlan ==
  /\ task = "plan" /\ plan # None
  /\ route' = plan
  /\ task' = "drive"
  /\ UNCHANGED <<vars, result, calls>>

Extend == task = "extend" /\ SearchNext /\ UNCHANGED <<planVars, driveVars>>

Extension == CreateFullRoute(map, rawRoute.points, route.mode, {})
HasSearched == task = "extend" /\ outcome \in {"found", "notFound"}
Throws == \/ CreateThrows(map, rawRoute.points, route.mode, {})
          \/ AppendThrowsOn(map, route.mode, Extension.segments)

Call ==
  /\ task = "drive" /\ calls < MaxCalls
  /\ calls' = calls + 1

\* An operation that returns at once.
Answer(segments, answer) ==
  /\ route' = [route EXCEPT !.segments = segments]
  /\ result' = answer
  /\ UNCHANGED <<vars, task>>

ShortenRoute ==
  /\ Call
  /\ \E positions \in Positions(map), mode \in ShortenModes :
       LET w == FindNearestWaypoint(map, route.segments, positions)
           done == Shorten(map, route.segments, w, positions, mode)
       IN  Answer(done.segments, done.result)

\* shortenRoute by a length: the waypoint is looked for along the route.
ShortenRouteByLength ==
  /\ Call
  /\ \E distance \in Distances(map), mode \in ShortenModes :
       LET w == FindWaypointAtLength(map, route.segments, distance)
           done == Shorten(map, route.segments, w, <<>>, mode)
       IN  Answer(done.segments, done.result)

ShortenRouteToDistance ==
  /\ Call
  /\ \E distance \in Distances(map), mode \in CutModes :
       Answer(CutToDistance(map, route.segments, distance, mode), "none")

\* route = getRouteExpandedTo(route, mode), as callers do; an error leaves
\* the route alone.
ExpandRoute ==
  /\ Call
  /\ \E mode \in Modes \ {"Undefined"} :
       /\ ~ AppendThrowsOn(map, mode, route.segments)
       /\ route' = GetRouteExpandedTo(map, route, mode)
  /\ result' = "none"
  /\ UNCHANGED <<vars, task>>

AddOpposingLaneToRoute ==
  /\ Call
  /\ \E p \in OpposingPoints(map), distance \in Distances(map) :
       LET done == AddOpposingLane(map, route, p, distance)
       IN  /\ route' = done.route
           /\ result' = done.state
  /\ UNCHANGED <<vars, task>>

ExtendRouteToDestinations ==
  /\ Call
  /\ LET kept == WithoutDegeneratedEnd(route.segments) IN
     /\ route' = [route EXCEPT !.segments = kept]
     /\ IF kept = <<>>
        THEN result' = "false" /\ UNCHANGED <<vars, task>>
        ELSE LET v == FrontInterval(Last(kept))
                 start == [lane |-> v.lane, offset |-> v.start,
                           dir |-> IF IsRouteDirectionPositive(map, v)
                                   THEN "POSITIVE" ELSE "NEGATIVE"]
             IN  /\ \E dest \in Destinations(map) : NewSearch(ExtensionQuery(start, dest))
                 /\ task' = "extend" /\ UNCHANGED <<planVars, result>>

TakeExtension ==
  /\ HasSearched /\ ~ Throws
  /\ route' = MergeRouteExtension(map, route, Extension)
  /\ result' = "true"
  /\ task' = "drive"
  /\ UNCHANGED <<vars, calls>>

\* An error leaves the route as the operation found or prepared it.
FailSearch ==
  /\ task # "drive"
  /\ outcome = "threw" \/ (HasSearched /\ Throws)
  /\ result' = "threw"
  /\ task' = "drive"
  /\ UNCHANGED <<vars, route, calls>>

Done == task = "drive" /\ calls = MaxCalls /\ UNCHANGED allVars

DriveNext ==
  \/ Plan \/ TakePlan \/ Extend \/ FailSearch
  \/ ShortenRoute \/ ShortenRouteByLength \/ ShortenRouteToDistance
  \/ ExpandRoute \/ AddOpposingLaneToRoute
  \/ ExtendRouteToDestinations \/ TakeExtension
  \/ Done

DriveSpec == DriveInit /\ [][DriveNext]_allVars
-----------------------------------------------------------------------------
(* What stays true of a route in use.                                      *)

\* "Route inconsistent" is never thrown: the neighbours a lane names are the
\* lanes beside it in the list, which runs from right to left, and of two
\* segments the lanes of the one name those of the other both ways; the first
\* segment names none before it and the last none after it.
RouteIsConsistent ==
  LET segments == route.segments
      Ids(i) == IF i \in DOMAIN segments THEN LanesOf(segments[i]) ELSE {}
  IN  \A i \in DOMAIN segments :
        LET row == segments[i].lanes
            IdAt(j) == IF j \in DOMAIN row THEN LaneOf(row[j]) ELSE NoLane
        IN  \A j \in DOMAIN row :
              /\ row[j].right = IdAt(j - 1) /\ row[j].left = IdAt(j + 1)
              /\ row[j].preds \subseteq Ids(i - 1) /\ row[j].succs \subseteq Ids(i + 1)
              /\ \A k \in row[j].succs :
                   LaneOf(row[j]) \in SegmentOfLane(segments[i + 1], k).preds
              /\ \A k \in row[j].preds :
                   LaneOf(row[j]) \in SegmentOfLane(segments[i - 1], k).succs

\* What that takes for all maps: a lane that addOpposingLaneToRoute adds is
\* not on its segment yet.  The operation only looks whether the position
\* lies on the route.
OpposingLanesAreNew ==
  \A p \in OpposingPoints(map), distance \in Distances(map) :
    LET added == AddOpposingLane(map, route, p, distance).route.segments
    IN  \A i \in DOMAIN route.segments :
          added[i] # route.segments[i] =>
            LaneOf(added[i].lanes[OutermostIndex(map, added[i])])
              \notin LanesOf(route.segments[i])

\* No call turns a lane around (alignRouteStartingPoints: "ensure not to
\* revert the interval direction").
IntervalsOf(segments) ==
  UNION {{ls.interval : ls \in ToSet(segments[i].lanes)} : i \in DOMAIN segments}

Turned(v, u) ==
  /\ v.lane = u.lane /\ ~ IsDegenerated(v) /\ ~ IsDegenerated(u)
  /\ (v.start < v.end) # (u.start < u.end)

NoIntervalIsReversed ==
  [][\A v \in IntervalsOf(route.segments), u \in IntervalsOf(route'.segments) :
       ~ Turned(v, u)]_allVars

\* A route cut where the vehicle is begins there, as long as all lanes beside
\* the vehicle go on: the segment is dropped when its first lane ends.
Vehicles == {Head(s) : s \in Positions(map)}

ShortenedRouteBeginsAtVehicle ==
  task = "drive" =>
    \A p \in Vehicles :
      LET w == FindWaypoint(map, route.segments, p)
          done == Shorten(map, route.segments, w, <<p>>, "Normal")
          row == IntervalsOf(<<route.segments[w.segment]>>)
      IN  /\ w # NoWaypoint
          /\ IsWithinInterval(map, LaneSegment(route.segments, w).interval, p.offset)
          /\ \A v \in row : /\ ~ IsDegenerated(v) /\ p.offset # v.end
                            /\ ~ IsAfterInterval(map, v, p.offset)
          => /\ done.segments # <<>>
             /\ LET ls == done.segments[1].lanes[w.lane]
                IN  LaneOf(ls) = p.lane /\ ls.interval.start = p.offset

\* Lanes that are bounded alike, where a bound of one is one of all, and no
\* distance falls between two offsets.
IsEven(segments) ==
  \A i \in DOMAIN segments :
    \A v, u \in IntervalsOf(<<segments[i]>>) :
      v.start = u.start /\ v.end = u.end /\ map.length[v.lane] = 1

\* There a cut leaves what was asked for, or all there is.
CutRouteHasItsLength ==
  task = "drive" /\ IsEven(route.segments) =>
    \A distance \in Distances(map) :
      LET cut == CutToDistance(map, route.segments, distance, "AllowCutIntersection")
      IN  RouteLength(map, [route EXCEPT !.segments = cut])
            = Min({distance, RouteLength(map, route)})

\* There, too, a section of a route is no longer than asked for and never
\* leaves the route.
SectionStaysOnRoute ==
  task = "drive" /\ IsEven(route.segments) =>
    \A p \in Vehicles, front, end \in Distances(map) :
      LET w == FindWaypoint(map, route.segments, p)
          section == RouteSection(map, route.segments, w, front, end)
      IN  w # NoWaypoint =>
            /\ RouteLength(map, [route EXCEPT !.segments = section]) <= front + end
            /\ \A u \in IntervalsOf(section) : \E v \in IntervalsOf(route.segments) :
                 /\ v.lane = u.lane
                 /\ IsWithinInterval(map, v, u.start) /\ IsWithinInterval(map, v, u.end)

\* An extension leaves the way to the last segment as it was: its lanes and
\* the stretches of them that are driven (mergeRouteExtension writes to the
\* segment before the one it takes off).
IsExtended == task = "extend" /\ result' = "true" /\ task' = "drive"

WayIsKept(old, new) ==
  \A i \in 1 .. Len(old) - 1 :
    /\ i \in DOMAIN new
    /\ \A j \in DOMAIN old[i].lanes : new[i].lanes[j].interval = old[i].lanes[j].interval

ExtensionKeepsTheWay ==
  [][IsExtended => WayIsKept(route.segments, route'.segments)]_allVars

\* An extension leaves the way to its begin as it was and linked to what
\* comes after it, ends at its destination, and numbers the segments anew.
ExtendedRouteGoesOn ==
  [][IsExtended =>
       LET n == Len(route.segments) - 1
           old == route.segments
           new == route'.segments
       IN  /\ WayIsKept(old, new)
           /\ \A i \in DOMAIN new : new[i].fromDest = Len(new) + 1 - i
           /\ outcome = "found" =>
                /\ Last(rawRoute.points).lane \in LanesOf(Last(new))
                /\ \A i \in Max({1, n}) .. Len(new) - 1 :
                     \/ \E ls \in ToSet(new[i].lanes) : ls.succs # {}
                     \/ i = n /\ \A ls \in ToSet(old[n].lanes) : ls.succs = {}
                     \/ IsDegenerated(FrontInterval(new[i + 1]))]_allVars

\* A lane change leads to another lane, and starts and ends on the route
\* (findFirstLaneChange: "returning an invalid result (as if no lane change
\* was found)").
LaneChangeLeadsToAnotherLane ==
  task = "drive" =>
    \A p \in Vehicles :
      LET c == FindFirstLaneChange(map, route.segments, p)
      IN  IsValidChange(c) =>
            WaypointLane(route.segments, c.start) # WaypointLane(route.segments, c.end)

=============================================================================
