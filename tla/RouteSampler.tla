---------------------------- MODULE RouteSampler ----------------------------
(***************************************************************************)
(* sample_route_centerline of scripts/admap_route.py: turns a route into   *)
(* points on lane centres, and records with every point the lane and the   *)
(* offset it stands for, which find_adjacent_points looks up later.        *)
(*                                                                         *)
(* The route is the one build_custom_route makes, step by step as          *)
(* RouteBuilder models it.  One step here is one call of                   *)
(* append_sampled_point, or the choice of the samples of one route step.   *)
(*                                                                         *)
(* Positions are pairs of integers in 1 / Scale metres, the third          *)
(* coordinate is left out.  What the code divides is rounded down.         *)
(***************************************************************************)
EXTENDS RouteBuilder

CONSTANTS Ends(_, _),       \* the snap points that go with a task
          Centre(_, _, _),  \* the position of a lane's centre at an offset
          Spacing,          \* spacing, in metres
          Tolerance,        \* of points_are_close, in 1 / Scale metres
          Threshold         \* goal_append_distance_threshold_m, in 1 / Scale m

\* No lane is longer than Spacing * Scale metres: the offsets it is sampled at
\* are at least one unit apart.
ASSUME SamplerAssumption ==
  /\ Spacing \in Nat \ {0}
  /\ Tolerance \in Nat
  /\ Threshold \in Nat
  /\ \A m \in Maps : \A l \in m.lanes :
       /\ m.length[l] <= Spacing * Scale
       /\ \A offset \in Offsets : Centre(m, l, offset) \in Int \X Int
  /\ \A m \in Maps : \A t \in Tasks(m) :
       \A e \in Ends(m, t) : e.start \in Int \X Int /\ e.goal \in Int \X Int

VARIABLES ends,      \* start_point and goal_point
          pc,        \* what the sampler does
          step,      \* the route step that is sampled next
          todo,      \* the samples of the step before that are not appended yet
          points,    \* sampled_points
          info       \* sampled_point_info

samplerVars == <<ends, pc, step, todo, points, info>>
routeVars == <<vars, samplerVars>>

-----------------------------------------------------------------------------
(* Positions.                                                              *)

Absolute(n) == IF n >= 0 THEN n ELSE 0 - n

PointsAreClose(p, q) ==
  /\ Absolute(p[1] - q[1]) <= Tolerance
  /\ Absolute(p[2] - q[2]) <= Tolerance

SquareDistance(p, q) ==
  (p[1] - q[1]) * (p[1] - q[1]) + (p[2] - q[2]) * (p[2] - q[2])

\* How many whole spacings lie between two points.
WholeSpacings(p, q) ==
  LET gap == Spacing * Scale IN
  CHOOSE k \in 0 .. (Absolute(p[1] - q[1]) + Absolute(p[2] - q[2])) \div gap :
     /\ k * k * gap * gap <= SquareDistance(p, q)
     /\ (k + 1) * (k + 1) * gap * gap > SquareDistance(p, q)

-----------------------------------------------------------------------------
(* The samples of a route step.                                            *)

OffsetStep(l) ==
  (Spacing * Scale) \div
    (IF map.length[l] >= Spacing THEN map.length[l] ELSE Spacing)

Along(l, offset, d) == IF LaneIsPositive(map, l) THEN offset + d ELSE offset - d

\* Mutant: the end offset is left out.
OffsetsWithoutEnd(l, from, to) ==
  LET inner == (Absolute(to - from) - 1) \div OffsetStep(l) IN
  IF from = to THEN << from >>
  ELSE [i \in 1 .. inner + 1 |-> Along(l, from, (i - 1) * OffsetStep(l))]

\* From one offset to another one ahead of it: an offset every spacing, as
\* long as the end is not reached, and the end.
SampleLaneOffsets(l, from, to) ==
  LET inner == (Absolute(to - from) - 1) \div OffsetStep(l) IN
  IF from = to THEN << from >>
  ELSE [i \in 1 .. inner + 2 |->
          IF i = inner + 2 THEN to ELSE Along(l, from, (i - 1) * OffsetStep(l))]

Sample(p, l, offset) == [position |-> p, lane |-> l, offset |-> offset]

SegmentSamples(s) ==
  LET offsets == SampleLaneOffsets(s.toLane, s.fromOffset, s.toOffset) IN
  [i \in 1 .. Len(offsets) |->
     Sample(Centre(map, s.toLane, offsets[i]), s.toLane, offsets[i])]

\* Mutant: one piece for every whole spacing, and at least one.
ConnectorOfWholeSpacings(s) ==
  LET p == Centre(map, s.fromLane, s.fromOffset)
      q == Centre(map, s.toLane, s.toOffset)
      count == IF WholeSpacings(p, q) >= 1 THEN WholeSpacings(p, q) ELSE 1
  IN  [i \in 1 .. count |->
         Sample(<< p[1] + ((q[1] - p[1]) * i) \div count,
                   p[2] + ((q[2] - p[2]) * i) \div count >>, s.toLane, s.toOffset)]

\* A lane change is sampled along a straight line.  All its points stand for
\* the place where it lands.
ConnectorSamples(s) ==
  LET p == Centre(map, s.fromLane, s.fromOffset)
      q == Centre(map, s.toLane, s.toOffset)
      count == IF WholeSpacings(p, q) >= 1 THEN WholeSpacings(p, q) + 1 ELSE 2
  IN  [i \in 1 .. count |->
         Sample(<< p[1] + ((q[1] - p[1]) * i) \div count,
                   p[2] + ((q[2] - p[2]) * i) \div count >>, s.toLane, s.toOffset)]

-----------------------------------------------------------------------------
SamplerInit ==
  /\ Init
  /\ ends \in Ends(map, task)
  /\ pc = "build"
  /\ step = 1
  /\ todo = << >>
  /\ points = << >>
  /\ info = << >>

Build ==
  /\ pc = "build"
  /\ Next
  /\ UNCHANGED samplerVars

\* A route that was given up is not sampled.
RouteBuilt ==
  /\ pc = "build"
  /\ result = "built"
  /\ pc' = "sample"
  /\ UNCHANGED <<vars, ends, step, todo, points, info>>

SampleStep ==
  /\ pc = "sample"
  /\ todo = << >>
  /\ step <= Len(steps)
  /\ todo' = IF steps[step].type = "lane_segment" THEN SegmentSamples(steps[step])
             ELSE ConnectorSamples(steps[step])
  /\ step' = step + 1
  /\ UNCHANGED <<vars, ends, pc, points, info>>

IsRepeat == points # << >> /\ PointsAreClose(points[Len(points)], todo[1].position)

SkipPoint ==
  /\ pc = "sample"
  /\ todo # << >>
  /\ IsRepeat
  /\ todo' = Tail(todo)
  /\ UNCHANGED <<vars, ends, pc, step, points, info>>

AppendPoint ==
  /\ pc = "sample"
  /\ todo # << >>
  /\ ~ IsRepeat
  /\ points' = Append(points, todo[1].position)
  /\ info' = Append(info, todo[1])
  /\ todo' = Tail(todo)
  /\ UNCHANGED <<vars, ends, pc, step>>

AllSampled == pc = "sample" /\ todo = << >> /\ step > Len(steps)

StartIsSampled == points # << >> /\ PointsAreClose(points[1], ends.start)

KeepStart ==
  /\ AllSampled
  /\ StartIsSampled
  /\ pc' = "goal"
  /\ UNCHANGED <<vars, ends, step, todo, points, info>>

\* Mutant: the record of the start point goes to the end.
InsertStartRecordLast ==
  /\ AllSampled
  /\ ~ StartIsSampled
  /\ points' = << ends.start >> \o points
  /\ info' = Append(info, Sample(ends.start, task.path[1], task.startOffset))
  /\ pc' = "goal"
  /\ UNCHANGED <<vars, ends, step, todo>>

InsertStart ==
  /\ AllSampled
  /\ ~ StartIsSampled
  /\ points' = << ends.start >> \o points
  /\ info' = << Sample(ends.start, task.path[1], task.startOffset) >> \o info
  /\ pc' = "goal"
  /\ UNCHANGED <<vars, ends, step, todo>>

GoalIsSampled ==
  /\ points # << >>
  /\ SquareDistance(points[Len(points)], ends.goal) <= Threshold * Threshold

KeepGoal ==
  /\ pc = "goal"
  /\ GoalIsSampled
  /\ pc' = "sampled"
  /\ UNCHANGED <<vars, ends, step, todo, points, info>>

AppendGoal ==
  /\ pc = "goal"
  /\ ~ GoalIsSampled
  /\ points' = Append(points, ends.goal)
  /\ info' = Append(info, Sample(ends.goal, task.path[Len(task.path)], task.goalOffset))
  /\ pc' = "sampled"
  /\ UNCHANGED <<vars, ends, step, todo>>

SamplerNext ==
  \/ Build
  \/ RouteBuilt
  \/ SampleStep
  \/ SkipPoint
  \/ AppendPoint
  \/ KeepStart
  \/ InsertStart
  \/ KeepGoal
  \/ AppendGoal

SamplerSpec == SamplerInit /\ [][SamplerNext]_routeVars

-----------------------------------------------------------------------------
(* What the samples are.                                                   *)

\* Points of the route itself, without the snap points at its ends.
FirstOfRoute == IF points[1] = ends.start THEN 2 ELSE 1
LastOfRoute == IF points[Len(points)] = ends.goal THEN Len(points) - 1 ELSE Len(points)

\* No two neighbouring points of a route are further apart than the spacing
\* and what dropping a repeated point adds, over lane ends and lane changes.
NoGaps ==
  LET most == Spacing * Scale + 2 * Tolerance IN
  pc = "sampled" =>
    \A i \in FirstOfRoute .. LastOfRoute - 1 :
       SquareDistance(points[i], points[i + 1]) <= most * most

Between(a, x, b) == (a <= x /\ x <= b) \/ (b <= x /\ x <= a)

\* The record of a sample names the place where it lies; on a lane change the
\* place where the lane change lands; and for a snap point, which may lie on
\* a lane beside the route, the end of the route.
StandsFor(record, p) ==
  \/ p = Centre(map, record.lane, record.offset)
  \/ \E i \in 1 .. Len(steps) :
       LET from == Centre(map, steps[i].fromLane, steps[i].fromOffset)
           to == Centre(map, steps[i].toLane, steps[i].toOffset)
       IN  /\ steps[i].type # "lane_segment"
           /\ record.lane = steps[i].toLane /\ record.offset = steps[i].toOffset
           /\ \A d \in 1 .. 2 : Between(from[d], p[d], to[d])
  \/ /\ p = ends.start
     /\ record.lane = task.path[1] /\ record.offset = task.startOffset
  \/ /\ p = ends.goal
     /\ record.lane = task.path[Len(task.path)] /\ record.offset = task.goalOffset

\* The lists of points and records stay in step, and the records follow the
\* route: of any two of them the later one is not behind the other on one lane,
\* or it is on a lane that the lane path enters later.  A path that leads around
\* a circle enters a lane twice.
RecordsFollowRoute ==
  /\ Len(info) = Len(points)
  /\ \A i \in 1 .. Len(info) : StandsFor(info[i], points[i])
  /\ \A i, k \in 1 .. Len(info) :
       i < k =>
         \/ /\ info[i].lane = info[k].lane
            /\ OffsetsMoveForward(map, info[i].lane, info[i].offset, info[k].offset)
         \/ \E m, n \in 1 .. Len(task.path) :
              m < n /\ task.path[m] = info[i].lane /\ task.path[n] = info[k].lane

Sampled(p) == \E i \in 1 .. Len(points) : PointsAreClose(points[i], p)

\* Dropping repeated points loses no part of the route: where any of its steps
\* ends, and where the start point is, there is a point.
EveryStepSampled ==
  pc = "sampled" =>
    /\ Sampled(ends.start)
    /\ \A i \in 1 .. Len(steps) : Sampled(Centre(map, steps[i].toLane, steps[i].toOffset))
=============================================================================
