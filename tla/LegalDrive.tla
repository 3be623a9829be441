----------------------------- MODULE LegalDrive -----------------------------
(***************************************************************************)
(* What a route promises, without the builder that makes it: a vehicle     *)
(* that follows the route only drives forward.  From its place on a lane   *)
(* it crosses the travel end into a lane that follows, or rolls forward    *)
(* and changes to a neighbour lane without falling back, and it has        *)
(* arrived when it has rolled forward to the goal.  A route may be given   *)
(* up on the way.                                                          *)
(***************************************************************************)
EXTENDS LaneMap

CONSTANT Maps        \* the maps a trip may be made on

VARIABLES map,       \* the loaded map
          trip,      \* start and goal lane, with their offsets
          lane,      \* the lane the vehicle is on
          offset,    \* its place on the lane
          status     \* "driving", "arrived" or "given up"

vars == <<map, trip, lane, offset, status>>

Init ==
  /\ map \in Maps
  /\ trip \in [start : map.lanes, goal : map.lanes,
               startOffset : Offsets, goalOffset : Offsets]
  /\ lane = trip.start
  /\ offset = trip.startOffset
  /\ status = "driving"

Cross ==
  /\ status = "driving"
  /\ \E l \in map.lanes :
       /\ MayMove(map, lane, l, "forward")
       /\ lane' = l
       /\ offset' = TravelStartOffset(map, l)
  /\ UNCHANGED <<map, trip, status>>

Change ==
  /\ status = "driving"
  /\ \E l \in map.lanes :
       /\ MayMove(map, lane, l, "lane_change")
       /\ lane' = l
       /\ \E to \in Offsets :
            /\ OffsetsMoveForward(map, l, offset, to)
            /\ offset' = to
  /\ UNCHANGED <<map, trip, status>>

Arrive ==
  /\ status = "driving"
  /\ lane = trip.goal
  /\ OffsetsMoveForward(map, lane, offset, trip.goalOffset)
  /\ offset' = trip.goalOffset
  /\ status' = "arrived"
  /\ UNCHANGED <<map, trip, lane>>

GiveUp ==
  /\ status = "driving"
  /\ status' = "given up"
  /\ UNCHANGED <<map, trip, lane, offset>>

Next == Cross \/ Change \/ Arrive \/ GiveUp

SafetySpec == Init /\ [][Next]_vars

Spec == SafetySpec /\ WF_vars(Next)
=============================================================================
