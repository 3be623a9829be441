------------------------------ MODULE LaneMap ------------------------------
(***************************************************************************)
(* The lane graph the planner reads from the map library, and the pure     *)
(* questions scripts/admap_route.py asks about it.                         *)
(*                                                                         *)
(* A map is a record                                                       *)
(*   [lanes |-> a finite set of lane ids (naturals),                       *)
(*    type, direction, length |-> functions on lanes,                      *)
(*    contacts |-> for each lane the sequence lane.contact_lanes,          *)
(*                 of records [to |-> lane, location |-> ContactLocation]] *)
(* Every contact leads to a lane of the map: the OpenDRIVE importer only   *)
(* makes contacts between lanes of its lane map, and refuses a map one of  *)
(* whose lanes it could not add to the store (AdMapFactory.cpp).           *)
(*                                                                         *)
(* A parametric offset 0.0 .. 1.0 is a natural number 0 .. Scale.  The     *)
(* tolerance 1e-6 of the offset comparisons is finer than one unit, so the *)
(* comparisons here are exact.                                             *)
(***************************************************************************)
EXTENDS Naturals, Sequences

CONSTANT Scale       \* the offset 1.0, in units

ASSUME ScaleAssumption == Scale \in Nat \ {0}

LaneTypes == {"NORMAL", "INTERSECTION", "MULTI", "TURN", "SHOULDER", "UNKNOWN"}
LaneDirections == {"POSITIVE", "NEGATIVE", "BIDIRECTIONAL", "NONE", "UNKNOWN"}
ContactLocations == {"LEFT", "RIGHT", "SUCCESSOR", "PREDECESSOR", "OVERLAP"}
Offsets == 0 .. Scale

IsLaneMap(m) ==
  /\ m.lanes \subseteq Nat
  /\ m.type \in [m.lanes -> LaneTypes]
  /\ m.direction \in [m.lanes -> LaneDirections]
  /\ m.length \in [m.lanes -> Nat]
  /\ m.contacts \in
       [m.lanes -> Seq([to : m.lanes, location : ContactLocations])]

-----------------------------------------------------------------------------
(* One lane.                                                               *)

\* lane::isRouteable
Routeable(m, l) == m.type[l] \in {"INTERSECTION", "MULTI", "NORMAL", "TURN"}

\* Every direction other than POSITIVE, BIDIRECTIONAL included, counts as
\* negative.
LaneIsPositive(m, l) == m.direction[l] = "POSITIVE"

LanesHaveSameDirection(m, k, l) == LaneIsPositive(m, k) = LaneIsPositive(m, l)

LaneIsIntersection(m, l) == m.type[l] = "INTERSECTION"

TravelStartOffset(m, l) == IF LaneIsPositive(m, l) THEN 0 ELSE Scale

TravelEndOffset(m, l) == IF LaneIsPositive(m, l) THEN Scale ELSE 0

OffsetsMoveForward(m, l, from, to) ==
  IF LaneIsPositive(m, l) THEN from <= to ELSE to <= from

ForwardContactLocation(m, l) ==
  IF LaneIsPositive(m, l) THEN "SUCCESSOR" ELSE "PREDECESSOR"

-----------------------------------------------------------------------------
(* The legal moves from a lane.                                            *)

\* The test order of get_allowed_lane_transitions: a lane that cannot be
\* driven is never entered, a contact at the travel end is a forward move,
\* and a side contact is a lane change outside intersections and between
\* lanes of one direction.
IsForward(m, l, c) ==
  /\ Routeable(m, c.to)
  /\ c.location = ForwardContactLocation(m, l)

IsLaneChange(m, l, c) ==
  /\ Routeable(m, c.to)
  /\ c.location # ForwardContactLocation(m, l)
  /\ c.location \in {"LEFT", "RIGHT"}
  /\ ~ LaneIsIntersection(m, l)
  /\ ~ LaneIsIntersection(m, c.to)
  /\ LanesHaveSameDirection(m, l, c.to)

IsTransition(m, l, c) == IsForward(m, l, c) \/ IsLaneChange(m, l, c)

TransitionType(m, l, c) == IF IsForward(m, l, c) THEN "forward" ELSE "lane_change"

\* Moving forward costs the length of the lane that is entered; a lane
\* change costs the fixed penalty.
TransitionCost(m, l, c, penalty) ==
  IF IsForward(m, l, c) THEN m.length[c.to] ELSE penalty

\* Lane l has a contact that allows a move of type t to lane k.
MayMove(m, l, k, t) ==
  \E i \in 1 .. Len(m.contacts[l]) :
     LET c == m.contacts[l][i] IN
     c.to = k /\ IsTransition(m, l, c) /\ TransitionType(m, l, c) = t
=============================================================================
