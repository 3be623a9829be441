---------------------------- MODULE RouteBuilder ----------------------------
(***************************************************************************)
(* build_custom_route of scripts/admap_route.py: turns a lane path into    *)
(* the steps of a route, lane segments and lane changes.                   *)
(*                                                                         *)
(* One step is one iteration of the for loop over the lane path.  A raise  *)
(* ends the call with its reason in result.                                *)
(*                                                                         *)
(* A route step is a record with the lane and the offset where it begins   *)
(* and where it ends; on a lane segment both lanes are the same.  Offsets  *)
(* that the code computes by a division are rounded down to a unit.        *)
(***************************************************************************)
EXTENDS LaneMap, Integers

CONSTANTS Maps,            \* the maps a route may be built on
          Tasks(_),        \* what the builder is called with on a map
          ChangeDistance   \* lane_change_distance_m

\* find_lane_path returns a path of legal moves, with one transition type per
\* move, that has a move unless the goal lies ahead on the start lane.  The
\* last lane of the path is the goal lane.
IsTask(m, t) ==
  /\ t.path \in Seq(m.lanes)
  /\ t.types \in Seq({"forward", "lane_change"})
  /\ t.startOffset \in Offsets
  /\ t.goalOffset \in Offsets
  /\ Len(t.path) = Len(t.types) + 1
  /\ \A i \in 1 .. Len(t.types) :
       MayMove(m, t.path[i], t.path[i + 1], t.types[i])
  /\ Len(t.path) = 1 =>
       OffsetsMoveForward(m, t.path[1], t.startOffset, t.goalOffset)

ASSUME BuilderAssumption ==
  /\ \A m \in Maps : IsLaneMap(m)
  /\ \A m \in Maps : \A t \in Tasks(m) : IsTask(m, t)
  /\ ChangeDistance \in Nat \ {0}

VARIABLES map,            \* the loaded map
          task,           \* the lane path with its types, start and goal offset
          index,          \* the position in the lane path
          currentOffset,  \* current_offset
          steps,          \* route_steps
          result          \* "building", "built" or why the route was given up

vars == <<map, task, index, currentOffset, steps, result>>

-----------------------------------------------------------------------------
(* Where a lane change begins and where it lands.                          *)

Lower(a, b) == IF a <= b THEN a ELSE b
Higher(a, b) == IF a <= b THEN b ELSE a

Percent(p) == (p * Scale) \div 100

\* The share of lane l that a way of ways / 100 metres takes, at most all.
Share(m, l, way) ==
  IF m.length[l] = 0 THEN Scale
  ELSE Lower(Scale, (way * Scale) \div (100 * m.length[l]))

\* Mutant: the landing point is moved up the offsets whatever the direction.
AdvanceUp(m, l, offset, way) == Lower(Scale, offset + Share(m, l, way))

AdvanceForward(m, l, offset, way) ==
  IF LaneIsPositive(m, l) THEN Lower(Scale, offset + Share(m, l, way))
  ELSE Higher(0, offset - Share(m, l, way))

\* The way driven on the lane before the change: the change distance or 35
\* percent of what is left of the lane.
DeltaBeforeChange(m, l, left) ==
  Higher((ChangeDistance * Scale) \div Higher(m.length[l], ChangeDistance),
         (35 * left) \div 100)

\* The place on lane l where the change begins, never past 95 percent.
ChangeFromOffset(m, l, offset) ==
  IF LaneIsPositive(m, l)
  THEN Lower(Percent(95), offset + DeltaBeforeChange(m, l, Scale - offset))
  ELSE Higher(Percent(5), offset - DeltaBeforeChange(m, l, offset))

\* Mutant: the goal does not hold the last lane change back.
NotBeforeGoal(m, l, offset, from, goal) == from

\* The last lane change of a route begins before the goal, where there is
\* room for it.
BeforeGoal(m, l, offset, from, goal) ==
  IF LaneIsPositive(m, l)
  THEN Lower(from, Higher(offset + Percent(2), goal - Percent(2)))
  ELSE Higher(from, Lower(offset - Percent(2), goal + Percent(2)))

\* The landing distance of a lane change, in 1 / 100 metres.
LandingWay == 45 * ChangeDistance

NotPastGoal(m, next, to, goal) ==
  IF LaneIsPositive(m, next) THEN Lower(to, goal) ELSE Higher(to, goal)

\* i is in lane_change_indices[-2:].
IsFinalLateral(types, i) ==
  /\ types[i] = "lane_change"
  /\ \A j, k \in i + 1 .. Len(types) :
       types[j] = "lane_change" /\ types[k] = "lane_change" => j = k

-----------------------------------------------------------------------------
(* The loop.                                                               *)

Lane == task.path[index]
NextLane == task.path[index + 1]

LaneSegment(from, to) ==
  [type |-> "lane_segment", fromLane |-> Lane, fromOffset |-> from,
   toLane |-> Lane, toOffset |-> to]

LaneChange(from, to) ==
  [type |-> "lane_change", fromLane |-> Lane, fromOffset |-> from,
   toLane |-> NextLane, toOffset |-> to]

Init ==
  /\ map \in Maps
  /\ task \in Tasks(map)
  /\ index = 1
  /\ currentOffset = task.startOffset
  /\ steps = << >>
  /\ result = "building"

OnGoalLane == index = Len(task.path)

\* Mutant: the check of the goal on the goal lane is dropped.
GoalTakenAsAhead == TRUE

GoalIsAhead == OffsetsMoveForward(map, Lane, currentOffset, task.goalOffset)

Raise(reason) ==
  /\ result' = reason
  /\ UNCHANGED <<map, task, index, currentOffset, steps>>

FinishOnGoalLane ==
  /\ result = "building"
  /\ OnGoalLane
  /\ GoalIsAhead
  /\ steps' = Append(steps, LaneSegment(currentOffset, task.goalOffset))
  /\ result' = "built"
  /\ UNCHANGED <<map, task, index, currentOffset>>

GoalBehind ==
  /\ result = "building"
  /\ OnGoalLane
  /\ ~ GoalIsAhead
  /\ Raise("goal behind")

\* The code also raises when the travel end is not ahead, but the travel end
\* is the last offset of the lane and no offset lies past it.
DriveForward ==
  /\ result = "building"
  /\ ~ OnGoalLane
  /\ task.types[index] = "forward"
  /\ steps' = Append(steps, LaneSegment(currentOffset, TravelEndOffset(map, Lane)))
  /\ currentOffset' = TravelStartOffset(map, NextLane)
  /\ index' = index + 1
  /\ UNCHANGED <<map, task, result>>

IsGoalLane == index + 1 = Len(task.path)

ChangeFrom ==
  LET from == ChangeFromOffset(map, Lane, currentOffset) IN
  IF IsGoalLane THEN BeforeGoal(map, Lane, currentOffset, from, task.goalOffset)
  ELSE from

\* A change onto the goal lane is always among the last two, so the goal
\* never bounds a landing point that lies ahead of the change.
ChangeTo ==
  LET ahead == AdvanceForward(map, NextLane, ChangeFrom, LandingWay) IN
  IF IsFinalLateral(task.types, index) THEN ChangeFrom
  ELSE IF IsGoalLane THEN NotPastGoal(map, NextLane, ahead, task.goalOffset)
  ELSE ahead

ChangeLane ==
  /\ result = "building"
  /\ ~ OnGoalLane
  /\ task.types[index] = "lane_change"
  /\ OffsetsMoveForward(map, Lane, currentOffset, ChangeFrom)
  /\ steps' = steps \o << LaneSegment(currentOffset, ChangeFrom),
                          LaneChange(ChangeFrom, ChangeTo) >>
  /\ currentOffset' = ChangeTo
  /\ index' = index + 1
  /\ UNCHANGED <<map, task, result>>

ChangeBehind ==
  /\ result = "building"
  /\ ~ OnGoalLane
  /\ task.types[index] = "lane_change"
  /\ ~ OffsetsMoveForward(map, Lane, currentOffset, ChangeFrom)
  /\ Raise("change behind")

Next ==
  \/ FinishOnGoalLane
  \/ GoalBehind
  \/ DriveForward
  \/ ChangeLane
  \/ ChangeBehind

SafetySpec == Init /\ [][Next]_vars

\* The builder is one sequential call: it keeps running until it returns or
\* raises.
Spec == SafetySpec /\ WF_vars(Next)

-----------------------------------------------------------------------------
(* What the builder makes.                                                 *)

RouteSteps == [type : {"lane_segment", "lane_change"},
               fromLane : map.lanes, fromOffset : Offsets,
               toLane : map.lanes, toOffset : Offsets]

\* Every offset the route names, those computed for lane changes included,
\* lies on a lane of the map.
TypeOK ==
  /\ map \in Maps
  /\ IsTask(map, task)
  /\ index \in 1 .. Len(task.path)
  /\ currentOffset \in Offsets
  /\ steps \in Seq(RouteSteps)
  /\ result \in {"building", "built", "goal behind", "change behind"}

\* The route goes on at lane l and offset o after step s.
GoesOnAt(m, s, l, o) ==
  \/ s.toLane = l /\ s.toOffset = o
  \/ /\ MayMove(m, s.toLane, l, "forward")
     /\ s.toOffset = TravelEndOffset(m, s.toLane)
     /\ o = TravelStartOffset(m, l)

Joined(m, s) ==
  \A i \in 1 .. Len(s) - 1 : GoesOnAt(m, s[i], s[i + 1].fromLane, s[i + 1].fromOffset)

\* The steps make one unbroken route: it starts at the start offset, each
\* step begins where the one before ended or crosses from a travel end to a
\* travel start, and a route that is built ends at the goal.
RouteIsUnbroken ==
  /\ IF steps = << >>
     THEN index = 1 /\ currentOffset = task.startOffset
     ELSE /\ steps[1].fromLane = task.path[1]
          /\ steps[1].fromOffset = task.startOffset
  /\ Joined(map, steps)
  /\ steps # << >> /\ result # "built" =>
       GoesOnAt(map, steps[Len(steps)], Lane, currentOffset)
  /\ result = "built" =>
       /\ steps # << >>
       /\ steps[Len(steps)].toLane = task.path[Len(task.path)]
       /\ steps[Len(steps)].toOffset = task.goalOffset

DrivesForward(m, s) ==
  /\ OffsetsMoveForward(m, s.toLane, s.fromOffset, s.toOffset)
  /\ IF s.type = "lane_segment" THEN s.fromLane = s.toLane
     ELSE MayMove(m, s.fromLane, s.toLane, "lane_change")

\* No step of a route drives back: a segment runs in the travel direction of
\* its lane, and a lane change goes to a neighbour lane of that direction and
\* lands level with its beginning or ahead of it.
NeverDrivesBack == \A i \in 1 .. Len(steps) : DrivesForward(map, steps[i])

\* Near the end of the route the last two lane changes stay lateral.
LastChangesAreLateral ==
  \A i \in 1 .. Len(steps) :
     /\ result = "built"
     /\ steps[i].type = "lane_change"
     /\ \A j, k \in i + 1 .. Len(steps) :
          steps[j].type = "lane_change" /\ steps[k].type = "lane_change" => j = k
     => steps[i].toOffset = steps[i].fromOffset

PastMark(offset) ==
  IF LaneIsPositive(map, Lane) THEN offset > Percent(95) ELSE offset < Percent(5)

RoomForChange(offset) ==
  IF LaneIsPositive(map, Lane) THEN offset + Percent(2) <= task.goalOffset
  ELSE task.goalOffset <= offset - Percent(2)

\* A legal lane path is given up for two reasons only.  A lane change finds
\* the vehicle in the last 5 percent of its lane, because it starts there or
\* an earlier diagonal change landed there, so at least two more changes
\* follow that one.  Or the last move is a lane change that began with less
\* than 2 percent of the lane left to the goal.
FailuresExplained ==
  /\ result = "change behind" =>
       /\ PastMark(currentOffset)
       /\ index > 1 =>
            /\ task.types[index - 1] = "lane_change"
            /\ \E j \in index + 1 .. Len(task.types) : task.types[j] = "lane_change"
  /\ result = "goal behind" =>
       /\ index > 1
       /\ task.types[index - 1] = "lane_change"
       /\ ~ RoomForChange(steps[Len(steps) - 1].fromOffset)

-----------------------------------------------------------------------------
(* A vehicle that follows the route makes a legal drive.                   *)

LD == INSTANCE LegalDrive WITH
  trip <- [start |-> task.path[1], goal |-> task.path[Len(task.path)],
           startOffset |-> task.startOffset, goalOffset |-> task.goalOffset],
  lane <- task.path[index],
  offset <- IF result = "built" THEN task.goalOffset ELSE currentOffset,
  status <- IF result = "building" THEN "driving"
            ELSE IF result = "built" THEN "arrived" ELSE "given up"

\* Every iteration of the builder takes the vehicle one legal move further,
\* and the builder ends with a vehicle at the goal or with the route given up.
ImplementsLegalDrive == LD!Spec
=============================================================================
