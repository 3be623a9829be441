--------------------------- MODULE RouteExpander ---------------------------
(***************************************************************************)
(* route/RouteExpander.hpp: the points a search over the lanes of the map  *)
(* library goes to next.                                                   *)
(*                                                                         *)
(* A routing point is [lane, offset, dir], with dir POSITIVE or NEGATIVE;  *)
(* only the two ends of a query may be DONT_CARE.  A query is a record     *)
(*   [start, dest, maxDistance, maxDuration, ignoreDirection, relevant],   *)
(* and a neighbour of a point is [to, distance, duration], the cost of the *)
(* step.  The order in which the neighbours are handed on is left out: no  *)
(* two have the same target at different costs.                            *)
(***************************************************************************)
EXTENDS LibraryLanes

CONSTANTS MinDistance,    \* cMinimumNeighborDistance
          MinDuration     \* cMinimumNeighborDuration

ASSUME MinimumAssumption == MinDistance \in Nat \ {0} /\ MinDuration \in Nat \ {0}

\* The points of the lanes of a map.
RoutingPoints(m) == [lane : m.lanes, offset : Offsets, dir : RoutingDirections]

Larger(a, b) == IF a < b THEN b ELSE a

ParaPoint(p) == [lane |-> p.lane, offset |-> p.offset]

At(p, o) == [p EXCEPT !.offset = o]

-----------------------------------------------------------------------------
(* Which way a point moves.                                                *)

IsPositiveMovement(m, q, p) ==
  /\ q.ignoreDirection \/ IsLaneDirectionPositive(m, p.lane)
  /\ p.dir = "POSITIVE"

IsNegativeMovement(m, q, p) ==
  /\ q.ignoreDirection \/ IsLaneDirectionNegative(m, p.lane)
  /\ p.dir = "NEGATIVE"

\* The limits do not stop a search inside an intersection.
MayExpand(m, q, p, cost) ==
  /\ Routeable(m, p.lane)
  /\ \/ cost.distance < q.maxDistance /\ cost.duration < q.maxDuration
     \/ LaneIsIntersection(m, p.lane)

-----------------------------------------------------------------------------
(* What a step costs.                                                      *)

\* The straight line between the centre points, at the speed of the lane
\* that is left, and never less than the minimum of both.
Neighbor(m, p, to) ==
  LET distance == CentreDistance(m, p.lane, p.offset, to.lane, to.offset)
  IN  [to |-> to,
       distance |-> Larger(distance, MinDistance),
       duration |-> Larger(distance * m.pace[p.lane], MinDuration)]

\* The end of a lane and the begin of the next are taken for one place.
LongitudinalNeighbor(to) ==
  [to |-> to, distance |-> MinDistance, duration |-> MinDuration]

-----------------------------------------------------------------------------
(* The three expansions of a point.                                        *)

\* The destination is approached from its valid side.
ReachesDest(m, q, p) ==
  /\ p.lane = q.dest.lane
  /\ \/ IsPositiveMovement(m, q, p) /\ p.offset <= q.dest.offset
     \/ IsNegativeMovement(m, q, p) /\ p.offset >= q.dest.offset

LaneEndsAhead(m, q, p) ==
  {e \in {0, Scale} :
     /\ p.offset # e
     /\ \/ IsPositiveMovement(m, q, p) /\ e = Scale
        \/ IsNegativeMovement(m, q, p) /\ e = 0}

\* The destination is entered with its own direction, whichever way it is
\* approached.
SameLaneNeighbors(m, q, p) ==
  {Neighbor(m, p, At(p, e)) : e \in LaneEndsAhead(m, q, p)}
    \cup (IF ReachesDest(m, q, p) THEN {Neighbor(m, p, q.dest)} ELSE {})

\* The lanes at the end the point has reached.
LongitudinalContacts(m, q, p) ==
  {k \in m.lanes :
     /\ \/ p.offset = Scale /\ IsPositiveMovement(m, q, p) /\ Leads(m, p.lane, "SUCCESSOR", k)
        \/ p.offset = 0 /\ IsNegativeMovement(m, q, p) /\ Leads(m, p.lane, "PREDECESSOR", k)
     /\ IsLaneRelevantForExpansion(k, q.relevant)
     /\ Routeable(m, k)}

\* The way the next lane points back tells at which end of it the search
\* goes on, and in which direction.
LongitudinalNeighbors(m, q, p) ==
  {LongitudinalNeighbor(
     IF GetContactLocation(m, k, p.lane) = "SUCCESSOR"
     THEN [lane |-> k, offset |-> Scale, dir |-> "NEGATIVE"]
     ELSE [lane |-> k, offset |-> 0, dir |-> "POSITIVE"])
   : k \in LongitudinalContacts(m, q, p)}

\* A lane that is led to and does not lead back by an end is an error.
ContactIsBroken(m, q, p) ==
  \E k \in LongitudinalContacts(m, q, p) :
     GetContactLocation(m, k, p.lane) \notin {"SUCCESSOR", "PREDECESSOR"}

LateralNeighbors(m, q, p) ==
  {Neighbor(m, p, [p EXCEPT !.lane = k]) : k \in
     {l \in m.lanes :
        /\ Leads(m, p.lane, "LEFT", l) \/ Leads(m, p.lane, "RIGHT", l)
        /\ IsLaneRelevantForExpansion(l, q.relevant)
        /\ Routeable(m, l)
        /\ q.ignoreDirection \/ m.direction[l] = m.direction[p.lane]}}

ExpandNeighbors(m, q, p, cost) ==
  IF MayExpand(m, q, p, cost)
  THEN SameLaneNeighbors(m, q, p) \cup LongitudinalNeighbors(m, q, p)
         \cup LateralNeighbors(m, q, p)
  ELSE {}

ExpansionThrows(m, q, p, cost) == MayExpand(m, q, p, cost) /\ ContactIsBroken(m, q, p)
=============================================================================
