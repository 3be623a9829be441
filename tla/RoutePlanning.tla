--------------------------- MODULE RoutePlanning ---------------------------
(***************************************************************************)
(* The planRoute calls of route/Planning.cpp: what they do with the        *)
(* searches of RouteAstar and how the found points become a FullRoute.     *)
(*                                                                         *)
(* A request is [kind, start, dests, mode, ...].  A "list" request visits  *)
(* the destinations in turn, each from where the one before was reached;   *)
(* with one destination it is planRoute(start, dest).  A "points" request  *)
(* makes its list of destinations of the places its points were matched    *)
(* to.  A "candidates" request plans to each of the positions one          *)
(* destination was matched to and keeps the shortest route.                *)
(***************************************************************************)
EXTENDS RouteAstar, FullRoute

CONSTANTS Maps,          \* the maps planned on
          Requests(_)    \* the requests made of a map

VARIABLES request, leg, legs, best, plan

planVars == <<request, leg, legs, best, plan>>
vars == <<searchVars, planVars>>

\* No plan yet, and no candidate kept yet.
None == [none |-> TRUE]

-----------------------------------------------------------------------------
(* planRouteVector: from points to destinations.                           *)

\* On one lane, only in the direction of the lane.
GoesOn(m, from, to) ==
  \/ from.lane # to.lane
  \/ m.direction[to.lane] = "POSITIVE" /\ from.offset < to.offset
  \/ m.direction[to.lane] = "NEGATIVE" /\ from.offset > to.offset

\* addParaPointToRouteDestList: a point that does not go on from the last
\* one takes its place.
AddDestination(m, dests, p) ==
  IF dests = <<>> \/ GoesOn(m, Last(dests), p) THEN Append(dests, p)
  ELSE [dests EXCEPT ![Len(dests)] = p]

\* A point on the way counts when it was matched to one place, the last
\* point whenever it was matched at all.
DestinationsOf(m, matches) ==
  LET clear == SelectSeq(Front(matches), LAMBDA places : Len(places) = 1)
      all == Append(clear, Last(matches))
  IN  IF Last(matches) = <<>> THEN <<>>
      ELSE FoldLeft(LAMBDA dests, places : AddDestination(m, dests, Head(places)), <<>>, all)

\* The request as the last of the overloads takes it.
Resolved(m, r) ==
  IF r.kind = "points" THEN [r EXCEPT !.dests = DestinationsOf(m, r.matches)] ELSE r

\* Requests are made between points of the map, which has finitely many lanes
\* with centre points on a grid, and limit the distance by a number.
ASSUME RequestAssumption ==
  \A m \in Maps :
    /\ IsFiniteSet(m.lanes)
    /\ m.at \in [m.lanes -> [Offsets -> Int \X Int]]
    /\ \A a \in Requests(m) :
         LET r == Resolved(m, a) IN
         /\ r.start \in RoutingPoints(m) /\ r.maxDistance \in Nat
         /\ r.dests \in Seq(RoutingPoints(m))

-----------------------------------------------------------------------------
QueryOf(r, start, n) ==
  [start |-> start, dest |-> IF n \in DOMAIN r.dests THEN r.dests[n] ELSE start,
   maxDistance |-> r.maxDistance, maxDuration |-> r.maxDuration,
   ignoreDirection |-> r.ignoreDirection, relevant |-> {}]

\* The points, distances and durations of the legs, one after the other;
\* the point two legs meet in stands in the list twice.
MergedPoints(done) ==
  LET upTo[i \in 0 .. Len(done)] == IF i = 0 THEN <<>> ELSE upTo[i - 1] \o done[i].points
  IN  upTo[Len(done)]

PlannedRoute(m, r, points) == CreateFullRoute(m, points, r.mode, {})

IsBetter(m, route, kept) ==
  kept = None \/ RouteLength(m, route) < RouteLength(m, kept)

-----------------------------------------------------------------------------
Init ==
  \E m \in Maps : \E r \in {Resolved(m, a) : a \in Requests(m)} :
    /\ SearchInit(m, QueryOf(r, r.start, 1))
    /\ request = r
    /\ leg = 1 /\ legs = <<>> /\ best = None
    \* A destination that is not on the map: no search is made.
    /\ plan = IF r.dests = <<>> THEN EmptyRoute("Undefined") ELSE None

Search == plan = None /\ SearchNext /\ UNCHANGED planVars

Stop(route) == plan' = route /\ UNCHANGED searchVars

\* Mutant: a destination that was not reached is started from all the same.
StartUnreached == query.dest

StartOfNextLeg == IF outcome = "found" THEN query.dest ELSE query.start

\* The end of one search of a list: a destination that was not reached is
\* left out, and the next leg starts where the last one ended.
NextDestination ==
  /\ plan = None /\ request.kind \in {"list", "points"}
  /\ outcome \in {"found", "notFound"}
  /\ legs' = IF outcome = "found" THEN Append(legs, rawRoute) ELSE legs
  /\ leg' = leg + 1
  /\ IF leg < Len(request.dests)
     THEN /\ NewSearch(QueryOf(request, StartOfNextLeg, leg + 1))
          /\ plan' = plan
     ELSE /\ ~ CreateThrows(map, MergedPoints(legs'), request.mode, {})
          /\ Stop(PlannedRoute(map, request, MergedPoints(legs')))
  /\ UNCHANGED <<request, best>>

\* The end of the search for one candidate: its route, which is empty when
\* none was found, is kept if it is shorter than the one kept so far.
NextCandidate ==
  /\ plan = None /\ request.kind = "candidates"
  /\ outcome \in {"found", "notFound"}
  /\ ~ CreateThrows(map, rawRoute.points, request.mode, {})
  /\ LET route == PlannedRoute(map, request, rawRoute.points)
     IN  best' = IF IsBetter(map, route, best) THEN route ELSE best
  /\ legs' = Append(legs, rawRoute)
  /\ leg' = leg + 1
  /\ IF leg < Len(request.dests)
     THEN NewSearch(QueryOf(request, request.start, leg + 1)) /\ plan' = plan
     ELSE Stop(best')
  /\ UNCHANGED request

\* The points make no route: a lane has two neighbours on one side.
BreakOff ==
  /\ plan = None
  /\ outcome \in {"found", "notFound"}
  /\ CreateThrows(map,
       IF request.kind = "candidates" THEN rawRoute.points
       ELSE MergedPoints(IF outcome = "found" THEN Append(legs, rawRoute) ELSE legs),
       request.mode, {})
  /\ request.kind \in {"list", "points"} => leg = Len(request.dests)
  /\ outcome' = "threw"
  /\ UNCHANGED <<map, query, open, closed, cameFrom, rawRoute, planVars>>

Answered == plan # None \/ outcome = "threw"

\* The call has returned.
Return == Answered /\ UNCHANGED vars

Next == Search \/ NextDestination \/ NextCandidate \/ BreakOff \/ Return

Spec == Init /\ [][Next]_vars
-----------------------------------------------------------------------------
(* What a plan promises.                                                   *)

\* All points a search deals with are points of the map.
TypeOK ==
  /\ IsFiniteSet(map.lanes)
  /\ request.start \in RoutingPoints(map)
  /\ \A i \in DOMAIN request.dests : request.dests[i] \in RoutingPoints(map)
  /\ {"start", "dest", "ignoreDirection", "relevant"} \subseteq DOMAIN query
  /\ {query.start, query.dest} \subseteq RoutingPoints(map)
  /\ closed \cup DOMAIN open \subseteq RoutingPoints(map)
  /\ outcome \in Outcomes
  /\ leg \in Nat

\* A search knows a way to every point it has closed or keeps open: each is
\* a start, or was entered from a closed point it is a neighbour of
\* (reconstructPath follows mCameFrom without looking whether it is there).
IsNeighbor(m, q, p, o) ==
  \E n \in SameLaneNeighbors(m, q, p) \cup LongitudinalNeighbors(m, q, p)
            \cup LateralNeighbors(m, q, p) : n.to = o

EveryPointWasEntered ==
  /\ \A o \in closed \cup DOMAIN open : o \in StartPoints(query) \cup DOMAIN cameFrom
  /\ \A o \in DOMAIN cameFrom :
       cameFrom[o] \in closed /\ IsNeighbor(map, query, cameFrom[o], o)

\* No point is opened again that was closed, and no search closes more
\* points than the map has.
ClosedForGood ==
  /\ closed \cap DOMAIN open = {}
  /\ Cardinality(closed) <= Cardinality(RoutingPoints(map))

Searched == outcome \in {"found", "notFound"} /\ plan = None

\* The least distance from the start of the search to its destination, in
\* the set of the numbers that are one.
LeastDistances ==
  LET reached == LeastDistancesTo(map, query)
  IN  {reached[p] : p \in {o \in DOMAIN reached : IsDest(query, o)}}

\* A search finds a shortest way to the destination, and says that there is
\* none only if there is none within the limit of distance: the points it
\* has closed are never needed again (RouteAstar::calculate).
ShortestRouteIsFound ==
  Searched =>
    IF outcome = "found" THEN LeastDistances # {} /\ rawRoute.distance = Min(LeastDistances)
                         ELSE LeastDistances = {}

\* What that takes for all maps and requests: lanes begin where those before
\* them end, so that no step is shorter than the estimate says, and no way to
\* a point takes longer than is asked for, as the search renews distances and
\* not durations.
LanesMeet(m, q) ==
  \A p \in RoutingPoints(m) : \A n \in LongitudinalNeighbors(m, q, p) :
     CentreDistance(m, p.lane, p.offset, n.to.lane, n.to.offset) <= MinDistance
EndsMeet == LanesMeet(map, query)
DurationsInLimit ==
  0 < query.maxDuration /\ \A o \in DOMAIN open : open[o].duration < query.maxDuration

\* The steps from a point to another, and the distance along some points.
StepsTo(m, q, p, o) ==
  {n \in SameLaneNeighbors(m, q, p) \cup LongitudinalNeighbors(m, q, p)
           \cup LateralNeighbors(m, q, p) : n.to = o}

DistanceAlong(m, q, points) ==
  LET upTo[i \in 0 .. Len(points) - 1] ==
        IF i = 0 THEN 0
        ELSE upTo[i-1] + (CHOOSE n \in StepsTo(m, q, points[i], points[i+1]) : TRUE).distance
  IN  upTo[Len(points) - 1]

\* The points of a search that was found are one way: each is a neighbour
\* of the one before and their distances add up to the distance of the
\* route (reconstructPath, mCameFrom).
RawRouteIsOneWay ==
  Searched /\ outcome = "found" =>
    LET points == rawRoute.points IN
    /\ points[1] \in StartPoints(query)
    /\ \A i \in 1 .. Len(points) - 1 : StepsTo(map, query, points[i], points[i+1]) # {}
    /\ rawRoute.distance = DistanceAlong(map, query, points)

\* The legs of a list are one way as well, whichever destinations were left
\* out: the first starts at the start and each other one where the one before
\* it ended, in a direction that fits, and they end at destinations of the
\* list, in its order (planRoute renews routingStart only when one is reached).
LegsGoOn ==
  request.kind # "candidates" =>
    /\ \A i \in 1 .. Len(legs) :
         legs[i].points[1] \in StartPoints(
           [start |-> IF i = 1 THEN request.start ELSE Last(legs[i - 1].points)])
    /\ \E visited \in [1 .. Len(legs) -> 1 .. leg - 1] :
         /\ \A i, j \in 1 .. Len(legs) : i < j => visited[i] < visited[j]
         /\ \A i \in 1 .. Len(legs) :
              IsDest([dest |-> request.dests[visited[i]]], Last(legs[i].points))

RouteIsOneWay == RawRouteIsOneWay /\ LegsGoOn

\* "We expect that per map model only one contact lane is possible in one
\* direction" (RouteOperation.cpp).
OneNeighborEachSide(m) ==
  \A l \in m.lanes, side \in {"LEFT", "RIGHT"} : Len(ContactLanes(m, l, side)) <= 1

\* Of two segments that follow each other, a lane of the first names one of
\* the second as its successor just when that names it as its predecessor
\* (appendRoadSegmentToRoute writes the two lists in separate loops).
LinksGoBothWays ==
  plan # None =>
    \A i \in 1 .. Len(plan.segments) - 1 :
      \A a \in ToSet(plan.segments[i].lanes), b \in ToSet(plan.segments[i + 1].lanes) :
        LaneOf(b) \in a.succs <=> LaneOf(a) \in b.preds

\* The segments of a route to one destination hang together: of every two
\* that follow each other, a lane of the first leads to a lane of the second
\* and knows it (appendRoadSegmentToRoute finds the lanes that lead to a
\* segment from the direction the segment is driven in, createFullRoute).
\* The direction of a single offset on a lane driven both ways is a guess,
\* and the link to such a segment may be lost.
IsGuessed(m, segment) ==
  \E ls \in ToSet(segment.lanes) :
     IsDegenerated(ls.interval) /\ m.direction[LaneOf(ls)] = "BIDIRECTIONAL"

IsForOneDestination == Len(request.dests) = 1 \/ request.kind = "candidates"

SegmentsAreLinked ==
  /\ LinksGoBothWays
  /\ plan # None /\ OneNeighborEachSide(map) /\ IsForOneDestination =>
       \A i \in 1 .. Len(plan.segments) - 1 :
         ~ IsGuessed(map, plan.segments[i + 1]) =>
           \E a \in ToSet(plan.segments[i].lanes), b \in ToSet(plan.segments[i + 1].lanes) :
             LaneOf(b) \in a.succs

\* A route begins where its start lies and ends where the destination lies,
\* also when the lanes were changed on the way through the first or the last
\* segment (createFullRoute gives the interval to the lane it left last).
Bounds(segment, l) == SegmentOfLane(segment, l).interval

PlanKeepsItsEnds ==
  plan # None /\ request.kind # "candidates" /\ legs # <<>> /\ OneNeighborEachSide(map) =>
    LET points == MergedPoints(legs)
        from == Head(points)
        to == Last(points)
        first == Head(plan.segments)
        final == Last(plan.segments)
    IN  /\ from.lane \in LanesOf(first) /\ Bounds(first, from.lane).start = from.offset
        /\ to.lane \in LanesOf(final) /\ Bounds(final, to.lane).end = to.offset

\* Where no lanes merge or split, the offsets count the lanes: one less for
\* each lane to the right, the same all along a lane, and that of the route
\* is the one of the lane it ends on (updateRouteLaneOffset).
OneNeighborEachEnd(m) ==
  \A l \in m.lanes, place \in {"PREDECESSOR", "SUCCESSOR"} :
     Len(ContactLanes(m, l, place)) <= 1

OffsetsCountLanes ==
  plan # None /\ legs # <<>> /\ OneNeighborEachEnd(map) /\ OneNeighborEachSide(map) =>
    /\ \A i \in DOMAIN plan.segments :
         LET row == plan.segments[i].lanes IN
         /\ \A j \in 1 .. Len(row) - 1 : row[j + 1].offset = row[j].offset + 1
         /\ \A j \in DOMAIN row :
              /\ plan.minOffset <= row[j].offset /\ row[j].offset <= plan.maxOffset
              /\ i < Len(plan.segments) => \A k \in row[j].succs :
                   SegmentOfLane(plan.segments[i + 1], k).offset = row[j].offset
    /\ request.kind # "candidates" =>
         SegmentOfLane(Last(plan.segments), Last(Last(legs).points).lane).offset = plan.destOffset

\* No step of a search is in vain: it closes a point that was not closed
\* before, or is the last of the search.  There being finitely many points
\* and destinations, and no other state to be stuck in than an answer or an
\* error, every request ends.
SearchesAdvance ==
  [][\/ Cardinality(closed') > Cardinality(closed)
     \/ outcome = "searching" /\ outcome' # "searching"
     \/ leg' > leg
     \/ outcome' = "threw"]_vars

=============================================================================
