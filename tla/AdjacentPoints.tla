--------------------------- MODULE AdjacentPoints ---------------------------
(***************************************************************************)
(* find_adjacent_points of scripts/admap_route.py: the points on the lanes *)
(* beside one sample of a route.  The route is sampled as RouteSampler     *)
(* models it; then a sample is selected, the lane of its record is looked  *)
(* up, and get_parallel_lane_ids walks to both sides of this lane as       *)
(* ParallelLanes models it.                                                *)
(***************************************************************************)
EXTENDS RouteSampler, FiniteSets

VARIABLES selected,                                   \* selected_route_index + 1
          side, current, visited, leftIds, rightIds,  \* of the walk
          adjacent                                    \* adjacent_points

walkVars == <<side, current, visited, leftIds, rightIds>>
adjacentVars == <<selected, walkVars, adjacent>>
allVars == <<routeVars, adjacentVars>>

SelectedLane == IF selected = 0 THEN 0 ELSE info[selected].lane

Lanes(m) == m.lanes
Walk == INSTANCE ParallelLanes WITH center <- SelectedLane, Centers <- Lanes

-----------------------------------------------------------------------------
\* The sample that an index, of whatever size, stands for.
Clamped(n) == IF n < 0 THEN 1 ELSE IF n >= Len(points) THEN Len(points) ELSE n + 1

AdjacentInit ==
  /\ SamplerInit
  /\ selected = 0
  /\ side = "done"
  /\ current = 0
  /\ visited = {}
  /\ leftIds = << >>
  /\ rightIds = << >>
  /\ adjacent = << >>

SampleRoute == SamplerNext /\ UNCHANGED adjacentVars

\* Any sample is asked about, and any index before the first or behind the
\* last one.
SelectSample ==
  /\ pc = "sampled"
  /\ points # << >>
  /\ Len(info) = Len(points)
  /\ \E n \in -1 .. Len(points) : selected' = Clamped(n)
  /\ side' = "LEFT"
  /\ current' = info[selected'].lane
  /\ visited' = { current' }
  /\ pc' = "ask"
  /\ UNCHANGED <<vars, ends, step, todo, points, info, leftIds, rightIds, adjacent>>

WalkAside ==
  /\ pc = "ask"
  /\ UNCHANGED <<routeVars, selected, adjacent>>
  /\ Walk!Next

\* Mutant: only the lanes to the left are answered.
AnswerLeft ==
  /\ pc = "ask"
  /\ side = "done"
  /\ adjacent' = [i \in 1 .. Len(leftIds) |->
                    Sample(Centre(map, leftIds[i], info[selected].offset),
                           leftIds[i], info[selected].offset)]
  /\ pc' = "answered"
  /\ UNCHANGED <<vars, ends, step, todo, points, info, selected, walkVars>>

\* The neighbours are sampled at the offset of the selected sample.
AnswerAdjacent ==
  /\ pc = "ask"
  /\ side = "done"
  /\ adjacent' = [i \in 1 .. Len(Walk!ParallelIds) |->
                    LET l == Walk!ParallelIds[i] IN
                    Sample(Centre(map, l, info[selected].offset), l, info[selected].offset)]
  /\ pc' = "answered"
  /\ UNCHANGED <<vars, ends, step, todo, points, info, selected, walkVars>>

AdjacentNext == SampleRoute \/ SelectSample \/ WalkAside \/ AnswerAdjacent

AdjacentSpec == AdjacentInit /\ [][AdjacentNext]_allVars

-----------------------------------------------------------------------------
(* What the answer says.                                                   *)

\* Whichever sample is asked about, the adjacent points are those beside the
\* place the sample stands for: one on each other lane of the road there, and
\* none of them is the sample itself, unless it lies on a lane change or is a
\* snap point.
AdjacentPointsAreBeside ==
  pc = "answered" =>
    LET record == info[selected]
        p == points[selected]
        road == { adjacent[i].lane : i \in 1 .. Len(adjacent) } \cup { record.lane }
    IN  /\ Cardinality(road) = Len(adjacent) + 1
        /\ \A l \in road, k \in map.lanes, s \in Walk!Sides :
             Walk!IsAdjacent(map, l, s, k) => k \in road
        /\ p = Centre(map, record.lane, record.offset) =>
             \A i \in 1 .. Len(adjacent) : adjacent[i].position # p
=============================================================================
