------------------------- MODULE RouteSamplerProofs -------------------------
(***************************************************************************)
(* What holds of the route builder and of the sampler that goes on from    *)
(* the route it builds, for every map, every lane path, every lane-change  *)
(* distance and spacing, and lane centres anywhere.                        *)
(***************************************************************************)
EXTENDS AdjacentPoints, SequenceTheorems, WellFoundedInduction, TLAPS

-----------------------------------------------------------------------------
(* Offsets.                                                                *)

LEMMA DivisionIsNatural ==
  ASSUME NEW a \in Nat, NEW b \in Nat, b # 0
  PROVE  a \div b \in Nat
OBVIOUS

LEMMA PercentIsOffset ==
  /\ Percent(2) \in Offsets
  /\ Percent(5) \in Offsets
  /\ Percent(95) \in Offsets
BY ScaleAssumption DEF Percent, Offsets

(* Rounding down only shortens the share of a lane.                        *)
LEMMA ShareIsOffset ==
  ASSUME NEW m \in Maps, NEW l \in m.lanes, NEW way \in Nat
  PROVE  Share(m, l, way) \in Offsets
<1>1. m.length[l] \in Nat
  BY BuilderAssumption DEF IsLaneMap
<1>2. CASE m.length[l] = 0
  BY <1>2, ScaleAssumption DEF Share, Offsets
<1>3. CASE m.length[l] # 0
  <2>1. way * Scale \in Nat /\ 100 * m.length[l] \in Nat /\ 100 * m.length[l] # 0
    BY <1>1, <1>3, ScaleAssumption
  <2>2. (way * Scale) \div (100 * m.length[l]) \in Nat
    BY <2>1, DivisionIsNatural
  <2> QED
    BY <2>2, <1>3, ScaleAssumption DEF Share, Lower, Offsets
<1> QED
  BY <1>2, <1>3

(* advance_offset_forward stays on the lane and does not move back.        *)
LEMMA AdvanceIsForward ==
  ASSUME NEW m \in Maps, NEW l \in m.lanes, NEW o \in Offsets, NEW way \in Nat
  PROVE  /\ AdvanceForward(m, l, o, way) \in Offsets
         /\ OffsetsMoveForward(m, l, o, AdvanceForward(m, l, o, way))
<1>1. Share(m, l, way) \in Offsets
  BY ShareIsOffset
<1> HIDE DEF Share
<1> QED
  BY <1>1, ScaleAssumption
  DEF AdvanceForward, OffsetsMoveForward, Lower, Higher, Offsets

LEMMA DeltaIsNatural ==
  ASSUME NEW m \in Maps, NEW l \in m.lanes, NEW left \in Offsets
  PROVE  DeltaBeforeChange(m, l, left) \in Nat
<1>1. m.length[l] \in Nat /\ ChangeDistance \in Nat \ {0}
  BY BuilderAssumption DEF IsLaneMap
<1>2. Higher(m.length[l], ChangeDistance) \in Nat \ {0}
  BY <1>1 DEF Higher
<1>3. ChangeDistance * Scale \in Nat
  BY <1>1, ScaleAssumption
<1>4. (ChangeDistance * Scale) \div Higher(m.length[l], ChangeDistance) \in Nat
  BY <1>2, <1>3, DivisionIsNatural
<1>5. (35 * left) \div 100 \in Nat
  BY DEF Offsets
<1> QED
  BY <1>4, <1>5 DEF DeltaBeforeChange, Higher

(* Where a lane change begins: on the lane, not past the 95 percent mark.  *)
LEMMA ChangeFromIsOffset ==
  ASSUME NEW m \in Maps, NEW l \in m.lanes, NEW o \in Offsets
  PROVE  /\ ChangeFromOffset(m, l, o) \in Offsets
         /\ IF LaneIsPositive(m, l)
            THEN ChangeFromOffset(m, l, o) <= Percent(95)
            ELSE Percent(5) <= ChangeFromOffset(m, l, o)
<1>1. Scale - o \in Offsets
  BY ScaleAssumption DEF Offsets
<1>2. DeltaBeforeChange(m, l, Scale - o) \in Nat
  BY <1>1, DeltaIsNatural
<1>3. DeltaBeforeChange(m, l, o) \in Nat
  BY DeltaIsNatural
<1>4. CASE LaneIsPositive(m, l)
  BY <1>2, <1>4, PercentIsOffset, ScaleAssumption
  DEF ChangeFromOffset, Lower, Offsets
<1>5. CASE ~ LaneIsPositive(m, l)
  BY <1>3, <1>5, PercentIsOffset, ScaleAssumption
  DEF ChangeFromOffset, Higher, Offsets
<1> QED
  BY <1>4, <1>5

(* The goal only moves the beginning of the change back, never to a place  *)
(* behind the vehicle where it was not behind before, and leaves room.     *)
LEMMA BeforeGoalIsOffset ==
  ASSUME NEW m, NEW l, NEW o \in Offsets, NEW from \in Offsets,
         NEW goal \in Offsets
  PROVE  LET b == BeforeGoal(m, l, o, from, goal) IN
         /\ b \in Offsets
         /\ OffsetsMoveForward(m, l, b, from)
         /\ OffsetsMoveForward(m, l, o, from) => OffsetsMoveForward(m, l, o, b)
         /\ IF LaneIsPositive(m, l)
            THEN o + Percent(2) <= goal => b <= goal
            ELSE goal <= o - Percent(2) => goal <= b
<1>1. CASE LaneIsPositive(m, l)
  BY <1>1, PercentIsOffset, ScaleAssumption
  DEF BeforeGoal, OffsetsMoveForward, Lower, Higher, Offsets
<1>2. CASE ~ LaneIsPositive(m, l)
  BY <1>2, PercentIsOffset, ScaleAssumption
  DEF BeforeGoal, OffsetsMoveForward, Lower, Higher, Offsets
<1> QED
  BY <1>1, <1>2

-----------------------------------------------------------------------------
(* The lane path.                                                          *)

(* Lane changes keep the travel direction.                                 *)
LEMMA ChangeKeepsDirection ==
  ASSUME NEW m, NEW k, NEW l, MayMove(m, k, l, "lane_change")
  PROVE  LaneIsPositive(m, k) <=> LaneIsPositive(m, l)
<1>1. PICK i \in 1 .. Len(m.contacts[k]) :
        /\ m.contacts[k][i].to = l
        /\ IsTransition(m, k, m.contacts[k][i])
        /\ TransitionType(m, k, m.contacts[k][i]) = "lane_change"
  BY DEF MayMove
<1>2. ~ IsForward(m, k, m.contacts[k][i])
  BY <1>1 DEF TransitionType
<1>3. LanesHaveSameDirection(m, k, l)
  BY <1>1, <1>2 DEF IsTransition, IsLaneChange
<1> QED
  BY <1>3 DEF LanesHaveSameDirection

LEMMA TaskFacts ==
  ASSUME TypeOK
  PROVE  /\ map \in Maps
         /\ IsLaneMap(map)
         /\ task.path \in Seq(map.lanes)
         /\ task.types \in Seq({"forward", "lane_change"})
         /\ Len(task.path) \in Nat
         /\ Len(task.types) \in Nat
         /\ Len(task.path) = Len(task.types) + 1
         /\ index \in Nat
         /\ 1 <= index
         /\ index <= Len(task.path)
         /\ Lane \in map.lanes
         /\ index < Len(task.path) =>
              /\ NextLane \in map.lanes
              /\ index \in 1 .. Len(task.types)
              /\ task.types[index] \in {"forward", "lane_change"}
              /\ MayMove(map, Lane, NextLane, task.types[index])
<1>1. map \in Maps /\ IsLaneMap(map) /\ IsTask(map, task)
  BY BuilderAssumption DEF TypeOK
<1>2. /\ task.path \in Seq(map.lanes)
      /\ task.types \in Seq({"forward", "lane_change"})
      /\ Len(task.path) = Len(task.types) + 1
  BY <1>1 DEF IsTask
<1>3. Len(task.path) \in Nat /\ Len(task.types) \in Nat
  BY <1>2, LenProperties
<1>4. index \in 1 .. Len(task.path)
  BY DEF TypeOK
<1>5. Lane \in map.lanes
  BY <1>2, <1>4, ElementOfSeq DEF Lane
<1>6. ASSUME index < Len(task.path)
      PROVE  /\ NextLane \in map.lanes
             /\ index \in 1 .. Len(task.types)
             /\ task.types[index] \in {"forward", "lane_change"}
             /\ MayMove(map, Lane, NextLane, task.types[index])
  <2>1. index + 1 \in 1 .. Len(task.path) /\ index \in 1 .. Len(task.types)
    BY <1>2, <1>3, <1>4, <1>6
  <2>2. NextLane \in map.lanes
    BY <1>2, <2>1, ElementOfSeq DEF NextLane
  <2>3. task.types[index] \in {"forward", "lane_change"}
    BY <1>2, <2>1, ElementOfSeq
  <2>4. MayMove(map, Lane, NextLane, task.types[index])
    BY <1>1, <2>1 DEF IsTask, Lane, NextLane
  <2> QED
    BY <2>1, <2>2, <2>3, <2>4
<1> QED
  BY <1>1, <1>2, <1>3, <1>4, <1>5, <1>6

(* Where a change begins and lands, for the place the builder is at.       *)
LEMMA ChangeFacts ==
  ASSUME TypeOK, ~ OnGoalLane, task.types[index] = "lane_change"
  PROVE  /\ ChangeFrom \in Offsets
         /\ ChangeTo \in Offsets
         /\ LaneIsPositive(map, Lane) <=> LaneIsPositive(map, NextLane)
         /\ OffsetsMoveForward(map, NextLane, ChangeFrom, ChangeTo)
         /\ ~ PastMark(ChangeFrom)
         /\ ~ PastMark(currentOffset) =>
              OffsetsMoveForward(map, Lane, currentOffset, ChangeFrom)
         /\ IsGoalLane => IsFinalLateral(task.types, index)
         /\ IsFinalLateral(task.types, index) => ChangeTo = ChangeFrom
         /\ IsGoalLane /\ RoomForChange(currentOffset) =>
              OffsetsMoveForward(map, Lane, ChangeFrom, task.goalOffset)
<1> DEFINE from == ChangeFromOffset(map, Lane, currentOffset)
           before == BeforeGoal(map, Lane, currentOffset, from, task.goalOffset)
           ahead == AdvanceForward(map, NextLane, ChangeFrom, LandingWay)
<1>0. /\ currentOffset \in Offsets /\ task.goalOffset \in Offsets
      /\ map \in Maps /\ Lane \in map.lanes /\ NextLane \in map.lanes
      /\ index < Len(task.path)
      /\ MayMove(map, Lane, NextLane, "lane_change")
  <2>1. index < Len(task.path)
    BY TaskFacts DEF OnGoalLane
  <2>2. task.goalOffset \in Offsets /\ currentOffset \in Offsets
    BY DEF TypeOK, IsTask
  <2> QED
    BY <2>1, <2>2, TaskFacts
<1>1. LaneIsPositive(map, Lane) <=> LaneIsPositive(map, NextLane)
  BY <1>0, ChangeKeepsDirection
<1>2. /\ from \in Offsets
      /\ IF LaneIsPositive(map, Lane) THEN from <= Percent(95)
         ELSE Percent(5) <= from
  BY <1>0, ChangeFromIsOffset
<1>3. ~ PastMark(currentOffset) =>
        OffsetsMoveForward(map, Lane, currentOffset, from)
  <2>1. Scale - currentOffset \in Offsets
    BY <1>0, ScaleAssumption DEF Offsets
  <2>2. /\ DeltaBeforeChange(map, Lane, Scale - currentOffset) \in Nat
        /\ DeltaBeforeChange(map, Lane, currentOffset) \in Nat
    BY <1>0, <2>1, DeltaIsNatural
  <2> QED
    BY <1>0, <2>2, PercentIsOffset, ScaleAssumption
    DEF PastMark, ChangeFromOffset, OffsetsMoveForward, Lower, Higher, Offsets
<1> HIDE DEF from
<1>4. /\ before \in Offsets
      /\ OffsetsMoveForward(map, Lane, before, from)
      /\ OffsetsMoveForward(map, Lane, currentOffset, from) =>
           OffsetsMoveForward(map, Lane, currentOffset, before)
      /\ IF LaneIsPositive(map, Lane)
         THEN currentOffset + Percent(2) <= task.goalOffset => before <= task.goalOffset
         ELSE task.goalOffset <= currentOffset - Percent(2) => task.goalOffset <= before
  BY <1>0, <1>2, BeforeGoalIsOffset
<1> HIDE DEF before
<1>5. ChangeFrom = IF IsGoalLane THEN before ELSE from
  BY DEF ChangeFrom, from, before
<1>6. ChangeFrom \in Offsets
  BY <1>2, <1>4, <1>5
<1>7. ~ PastMark(ChangeFrom)
  BY <1>2, <1>4, <1>5, PercentIsOffset, ScaleAssumption
  DEF PastMark, OffsetsMoveForward, Offsets
<1>8. ~ PastMark(currentOffset) =>
        OffsetsMoveForward(map, Lane, currentOffset, ChangeFrom)
  BY <1>3, <1>4, <1>5
<1>9. IsGoalLane => IsFinalLateral(task.types, index)
  <2>1. IsGoalLane => index + 1 .. Len(task.types) = {}
    BY TaskFacts DEF IsGoalLane
  <2> QED
    BY <2>1 DEF IsFinalLateral
<1>10. IsFinalLateral(task.types, index) => ChangeTo = ChangeFrom
  BY DEF ChangeTo
<1>11. ahead \in Offsets /\ OffsetsMoveForward(map, NextLane, ChangeFrom, ahead)
  <2>1. LandingWay \in Nat
    BY BuilderAssumption DEF LandingWay
  <2> QED
    BY <1>0, <1>6, <2>1, AdvanceIsForward
<1> HIDE DEF ahead
<1>12. ~ IsFinalLateral(task.types, index) => ChangeTo = ahead
  BY <1>9 DEF ChangeTo, ahead
<1>13. OffsetsMoveForward(map, NextLane, ChangeFrom, ChangeFrom)
  BY <1>6 DEF OffsetsMoveForward, Offsets
<1>14. /\ ChangeTo \in Offsets
       /\ OffsetsMoveForward(map, NextLane, ChangeFrom, ChangeTo)
  BY <1>6, <1>10, <1>11, <1>12, <1>13
<1>15. IsGoalLane /\ RoomForChange(currentOffset) =>
         OffsetsMoveForward(map, Lane, ChangeFrom, task.goalOffset)
  BY <1>4, <1>5 DEF RoomForChange, OffsetsMoveForward
<1> QED
  BY <1>1, <1>6, <1>7, <1>8, <1>9, <1>10, <1>14, <1>15

-----------------------------------------------------------------------------
(* The list of steps.                                                      *)

LEMMA OneStepAdded ==
  ASSUME NEW S, NEW s \in Seq(S), NEW a \in S
  PROVE  /\ Append(s, a) \in Seq(S)
         /\ Append(s, a) # << >>
         /\ Len(s) \in Nat
         /\ Len(Append(s, a)) = Len(s) + 1
         /\ \A i \in 1 .. Len(s) : Append(s, a)[i] = s[i]
         /\ Append(s, a)[Len(s) + 1] = a
<1>1. /\ Append(s, a) \in Seq(S)
      /\ Len(s) \in Nat
      /\ Len(Append(s, a)) = Len(s) + 1
      /\ \A i \in 1 .. Len(s) : Append(s, a)[i] = s[i]
      /\ Append(s, a)[Len(s) + 1] = a
  BY AppendProperties, LenProperties
<1>2. Append(s, a) # << >>
  BY <1>1, EmptySeq
<1> QED
  BY <1>1, <1>2

LEMMA TwoStepsAdded ==
  ASSUME NEW S, NEW s \in Seq(S), NEW a \in S, NEW b \in S
  PROVE  s \o <<a, b>> = Append(Append(s, a), b)
OBVIOUS

LEMMA JoinedGrows ==
  ASSUME NEW m, NEW S, NEW s \in Seq(S), NEW a \in S,
         Joined(m, s),
         s # << >> => GoesOnAt(m, s[Len(s)], a.fromLane, a.fromOffset)
  PROVE  Joined(m, Append(s, a))
<1> DEFINE t == Append(s, a)
<1>1. /\ Len(s) \in Nat
      /\ Len(t) = Len(s) + 1
      /\ \A i \in 1 .. Len(s) : t[i] = s[i]
      /\ t[Len(s) + 1] = a
  BY OneStepAdded
<1> SUFFICES ASSUME NEW i \in 1 .. Len(t) - 1
             PROVE  GoesOnAt(m, t[i], t[i + 1].fromLane, t[i + 1].fromOffset)
  BY DEF Joined
<1> HIDE DEF t
<1>2. CASE i < Len(s)
  <2>1. i \in 1 .. Len(s) - 1 /\ i \in 1 .. Len(s) /\ i + 1 \in 1 .. Len(s)
    BY <1>1, <1>2
  <2>2. t[i] = s[i] /\ t[i + 1] = s[i + 1]
    BY <1>1, <2>1
  <2> QED
    BY <2>1, <2>2 DEF Joined
<1>3. CASE i = Len(s)
  <2>1. s # << >>
    BY <1>1, <1>3, EmptySeq
  <2>2. t[i] = s[Len(s)] /\ t[i + 1] = a
    BY <1>1, <1>3
  <2> QED
    BY <2>1, <2>2
<1> QED
  BY <1>1, <1>2, <1>3

LEMMA ForwardStepsGrow ==
  ASSUME NEW m, NEW S, NEW s \in Seq(S), NEW a \in S,
         \A i \in 1 .. Len(s) : DrivesForward(m, s[i]),
         DrivesForward(m, a)
  PROVE  \A i \in 1 .. Len(Append(s, a)) : DrivesForward(m, Append(s, a)[i])
<1>1. /\ Len(s) \in Nat
      /\ Len(Append(s, a)) = Len(s) + 1
      /\ \A i \in 1 .. Len(s) : Append(s, a)[i] = s[i]
      /\ Append(s, a)[Len(s) + 1] = a
  BY OneStepAdded
<1>2. ASSUME NEW i \in 1 .. Len(s) + 1
      PROVE  i \in 1 .. Len(s) \/ i = Len(s) + 1
  BY <1>1
<1> QED
  BY <1>1, <1>2

(* The steps an iteration adds are route steps that drive forward.         *)
LEMMA SegmentFacts ==
  ASSUME TypeOK, NEW to \in Offsets,
         OffsetsMoveForward(map, Lane, currentOffset, to)
  PROVE  /\ LaneSegment(currentOffset, to) \in RouteSteps
         /\ DrivesForward(map, LaneSegment(currentOffset, to))
<1>1. currentOffset \in Offsets /\ Lane \in map.lanes
  BY TaskFacts DEF TypeOK
<1> QED
  BY <1>1 DEF LaneSegment, RouteSteps, DrivesForward

LEMMA ChangeStepFacts ==
  ASSUME TypeOK, ~ OnGoalLane, task.types[index] = "lane_change"
  PROVE  /\ LaneChange(ChangeFrom, ChangeTo) \in RouteSteps
         /\ DrivesForward(map, LaneChange(ChangeFrom, ChangeTo))
<1>1. index < Len(task.path)
  BY TaskFacts DEF OnGoalLane
<1>2. /\ Lane \in map.lanes /\ NextLane \in map.lanes
      /\ MayMove(map, Lane, NextLane, "lane_change")
  BY <1>1, TaskFacts
<1>3. /\ ChangeFrom \in Offsets /\ ChangeTo \in Offsets
      /\ OffsetsMoveForward(map, NextLane, ChangeFrom, ChangeTo)
  BY ChangeFacts
<1> QED
  BY <1>2, <1>3 DEF LaneChange, RouteSteps, DrivesForward

LEMMA EndIsAhead ==
  ASSUME TypeOK
  PROVE  /\ TravelEndOffset(map, Lane) \in Offsets
         /\ OffsetsMoveForward(map, Lane, currentOffset, TravelEndOffset(map, Lane))
         /\ TravelStartOffset(map, NextLane) \in Offsets
<1>1. currentOffset \in Offsets
  BY DEF TypeOK
<1> QED
  BY <1>1, ScaleAssumption
  DEF TravelEndOffset, TravelStartOffset, OffsetsMoveForward, Offsets

-----------------------------------------------------------------------------
(* The invariant.                                                          *)

(* How the vehicle came to its place: on the first lane it is at the start *)
(* offset, after a forward move at the travel start, and after a lane      *)
(* change past the 95 percent mark only where the change was not lateral,  *)
(* so more changes follow.  On the goal lane it is before the goal if the  *)
(* last change began with room.                                            *)
PlaceExplained ==
  /\ index = 1 => currentOffset = task.startOffset
  /\ index > 1 /\ task.types[index - 1] = "forward" =>
       currentOffset = TravelStartOffset(map, Lane)
  /\ index > 1 /\ task.types[index - 1] = "lane_change" /\ PastMark(currentOffset) =>
       \E j \in index + 1 .. Len(task.types) : task.types[j] = "lane_change"
  /\ /\ index > 1
     /\ OnGoalLane
     /\ task.types[index - 1] = "lane_change"
     /\ result # "built"
     /\ RoomForChange(steps[Len(steps) - 1].fromOffset)
     => GoalIsAhead

Inv ==
  /\ TypeOK
  /\ RouteIsUnbroken
  /\ NeverDrivesBack
  /\ PlaceExplained
  /\ FailuresExplained

LEMMA InvInit ==
  Init => Inv
<1> SUFFICES ASSUME Init PROVE Inv
  OBVIOUS
<1>1. map \in Maps /\ IsTask(map, task)
  BY BuilderAssumption DEF Init
<1>2. task.path \in Seq(map.lanes) /\ Len(task.path) \in Nat /\ Len(task.types) \in Nat
      /\ Len(task.path) = Len(task.types) + 1
  BY <1>1, LenProperties DEF IsTask
<1>3. TypeOK
  <2>1. index \in 1 .. Len(task.path)
    BY <1>2 DEF Init
  <2>2. currentOffset \in Offsets
    BY <1>1 DEF Init, IsTask
  <2>3. steps \in Seq(RouteSteps)
    BY EmptySeq DEF Init
  <2> QED
    BY <1>1, <2>1, <2>2, <2>3 DEF TypeOK, Init
<1>4. Len(steps) = 0
  BY EmptySeq DEF Init
<1>5. RouteIsUnbroken
  BY <1>4 DEF Init, RouteIsUnbroken, Joined
<1>6. NeverDrivesBack
  BY <1>4 DEF NeverDrivesBack
<1>7. PlaceExplained
  BY DEF Init, PlaceExplained
<1>8. FailuresExplained
  BY DEF Init, FailuresExplained
<1> QED
  BY <1>3, <1>5, <1>6, <1>7, <1>8 DEF Inv

LEMMA FinishKeepsInv ==
  ASSUME Inv, FinishOnGoalLane
  PROVE  Inv'
<1> DEFINE seg == LaneSegment(currentOffset, task.goalOffset)
<1>1. /\ TypeOK /\ RouteIsUnbroken /\ NeverDrivesBack
      /\ steps \in Seq(RouteSteps)
      /\ steps' = Append(steps, seg)
      /\ map' = map /\ task' = task /\ index' = index
      /\ currentOffset' = currentOffset /\ result' = "built"
  BY DEF Inv, TypeOK, FinishOnGoalLane
<1>2. seg \in RouteSteps /\ DrivesForward(map, seg)
  <2>1. task.goalOffset \in Offsets
    BY <1>1 DEF TypeOK, IsTask
  <2>2. OffsetsMoveForward(map, Lane, currentOffset, task.goalOffset)
    BY DEF FinishOnGoalLane, GoalIsAhead
  <2> QED
    BY <1>1, <2>1, <2>2, SegmentFacts
<1>3. /\ seg.fromLane = Lane /\ seg.fromOffset = currentOffset
      /\ seg.toLane = Lane /\ seg.toOffset = task.goalOffset
  BY DEF LaneSegment
<1> HIDE DEF seg
<1>4. /\ steps' \in Seq(RouteSteps)
      /\ steps' # << >>
      /\ Len(steps) \in Nat
      /\ Len(steps') = Len(steps) + 1
      /\ \A i \in 1 .. Len(steps) : steps'[i] = steps[i]
      /\ steps'[Len(steps) + 1] = seg
  BY <1>1, <1>2, OneStepAdded
<1>5. TypeOK'
  BY <1>1, <1>4 DEF TypeOK, RouteSteps
<1>6. NeverDrivesBack'
  BY <1>1, <1>2, ForwardStepsGrow DEF NeverDrivesBack
<1>7. RouteIsUnbroken'
  <2>1. steps'[1].fromLane = task.path[1] /\ steps'[1].fromOffset = task.startOffset
    <3>1. CASE steps = << >>
      <4>1. index = 1 /\ currentOffset = task.startOffset /\ steps'[1] = seg
        BY <1>1, <1>4, <3>1, EmptySeq DEF RouteIsUnbroken
      <4> QED
        BY <1>3, <4>1 DEF Lane
    <3>2. CASE steps # << >>
      <4>1. 1 \in 1 .. Len(steps)
        BY <1>1, <1>4, <3>2, EmptySeq
      <4>2. steps'[1] = steps[1]
        BY <1>4, <4>1
      <4> QED
        BY <1>1, <3>2, <4>2 DEF RouteIsUnbroken
    <3> QED
      BY <3>1, <3>2
  <2>2. Joined(map, steps')
    <3>1. steps # << >> => GoesOnAt(map, steps[Len(steps)], seg.fromLane, seg.fromOffset)
      BY <1>1, <1>3 DEF RouteIsUnbroken, FinishOnGoalLane
    <3>2. Joined(map, steps)
      BY <1>1 DEF RouteIsUnbroken
    <3> QED
      BY <1>1, <1>2, <3>1, <3>2, JoinedGrows
  <2>3. /\ steps'[Len(steps')].toLane = task.path[Len(task.path)]
        /\ steps'[Len(steps')].toOffset = task.goalOffset
    BY <1>3, <1>4 DEF Lane, FinishOnGoalLane, OnGoalLane
  <2> QED
    BY <1>1, <1>4, <2>1, <2>2, <2>3 DEF RouteIsUnbroken
<1>8. PlaceExplained'
  BY <1>1 DEF Inv, PlaceExplained, Lane, PastMark, OnGoalLane
<1>9. FailuresExplained'
  BY <1>1 DEF FailuresExplained
<1> QED
  BY <1>5, <1>6, <1>7, <1>8, <1>9 DEF Inv

LEMMA DriveForwardKeepsInv ==
  ASSUME Inv, DriveForward
  PROVE  Inv'
<1> DEFINE seg == LaneSegment(currentOffset, TravelEndOffset(map, Lane))
<1>1. /\ TypeOK /\ RouteIsUnbroken /\ NeverDrivesBack
      /\ steps \in Seq(RouteSteps)
      /\ steps' = Append(steps, seg)
      /\ map' = map /\ task' = task /\ index' = index + 1
      /\ currentOffset' = TravelStartOffset(map, NextLane)
      /\ result = "building" /\ result' = "building"
  BY DEF Inv, TypeOK, DriveForward
<1>2. seg \in RouteSteps /\ DrivesForward(map, seg)
  BY <1>1, EndIsAhead, SegmentFacts
<1>3. /\ seg.fromLane = Lane /\ seg.fromOffset = currentOffset
      /\ seg.toLane = Lane /\ seg.toOffset = TravelEndOffset(map, Lane)
  BY DEF LaneSegment
<1> HIDE DEF seg
<1>4. /\ steps' \in Seq(RouteSteps)
      /\ steps' # << >>
      /\ Len(steps) \in Nat
      /\ Len(steps') = Len(steps) + 1
      /\ \A i \in 1 .. Len(steps) : steps'[i] = steps[i]
      /\ steps'[Len(steps) + 1] = seg
  BY <1>1, <1>2, OneStepAdded
<1>5. /\ index \in Nat /\ 1 <= index /\ index < Len(task.path)
      /\ Len(task.path) \in Nat
      /\ MayMove(map, Lane, NextLane, "forward")
      /\ index' \in 1 .. Len(task.path)
      /\ index' - 1 = index
      /\ Lane' = NextLane
  <2>1. index < Len(task.path) /\ task.types[index] = "forward"
    BY <1>1, TaskFacts DEF DriveForward, OnGoalLane
  <2>2. MayMove(map, Lane, NextLane, "forward")
    BY <1>1, <2>1, TaskFacts
  <2>3. index \in Nat /\ 1 <= index /\ Len(task.path) \in Nat
    BY <1>1, TaskFacts
  <2>4. Lane' = NextLane
    BY <1>1 DEF Lane, NextLane
  <2> QED
    BY <1>1, <2>1, <2>2, <2>3, <2>4
<1>6. TypeOK'
  <2>1. currentOffset' \in Offsets
    BY <1>1, EndIsAhead
  <2> QED
    BY <1>1, <1>4, <1>5, <2>1 DEF TypeOK, RouteSteps
<1>7. NeverDrivesBack'
  BY <1>1, <1>2, ForwardStepsGrow DEF NeverDrivesBack
<1>8. RouteIsUnbroken'
  <2>1. steps'[1].fromLane = task.path[1] /\ steps'[1].fromOffset = task.startOffset
    <3>1. CASE steps = << >>
      <4>1. index = 1 /\ currentOffset = task.startOffset /\ steps'[1] = seg
        BY <1>1, <1>4, <3>1, EmptySeq DEF RouteIsUnbroken
      <4> QED
        BY <1>3, <4>1 DEF Lane
    <3>2. CASE steps # << >>
      <4>1. 1 \in 1 .. Len(steps)
        BY <1>1, <1>4, <3>2, EmptySeq
      <4>2. steps'[1] = steps[1]
        BY <1>4, <4>1
      <4> QED
        BY <1>1, <3>2, <4>2 DEF RouteIsUnbroken
    <3> QED
      BY <3>1, <3>2
  <2>2. Joined(map, steps')
    <3>1. steps # << >> => GoesOnAt(map, steps[Len(steps)], seg.fromLane, seg.fromOffset)
      BY <1>1, <1>3 DEF RouteIsUnbroken
    <3>2. Joined(map, steps)
      BY <1>1 DEF RouteIsUnbroken
    <3> QED
      BY <1>1, <1>2, <3>1, <3>2, JoinedGrows
  <2>3. GoesOnAt(map, seg, NextLane, TravelStartOffset(map, NextLane))
    BY <1>3, <1>5 DEF GoesOnAt
  <2>4. GoesOnAt(map', steps'[Len(steps')], Lane', currentOffset')
    BY <1>1, <1>4, <1>5, <2>3
  <2> QED
    BY <1>1, <1>4, <2>1, <2>2, <2>4 DEF RouteIsUnbroken
<1>9. PlaceExplained'
  <2>1. task'.types[index' - 1] = "forward"
    BY <1>1, <1>5 DEF DriveForward
  <2>2. currentOffset' = TravelStartOffset(map', Lane')
    BY <1>1, <1>5
  <2>3. index' # 1
    BY <1>1, <1>5
  <2>4. task'.types[index' - 1] # "lane_change"
    BY <2>1
  <2> QED
    BY <2>2, <2>3, <2>4 DEF PlaceExplained
<1>10. FailuresExplained'
  BY <1>1 DEF FailuresExplained
<1> QED
  BY <1>6, <1>7, <1>8, <1>9, <1>10 DEF Inv

LEMMA ChangeLaneKeepsInv ==
  ASSUME Inv, ChangeLane
  PROVE  Inv'
<1> DEFINE seg == LaneSegment(currentOffset, ChangeFrom)
           chg == LaneChange(ChangeFrom, ChangeTo)
           mid == Append(steps, seg)
<1>1. /\ TypeOK /\ RouteIsUnbroken /\ NeverDrivesBack
      /\ steps \in Seq(RouteSteps)
      /\ steps' = steps \o <<seg, chg>>
      /\ map' = map /\ task' = task /\ index' = index + 1
      /\ currentOffset' = ChangeTo
      /\ result = "building" /\ result' = "building"
      /\ ~ OnGoalLane /\ task.types[index] = "lane_change"
  BY DEF Inv, TypeOK, ChangeLane
<1>2. /\ ChangeFrom \in Offsets /\ ChangeTo \in Offsets
      /\ LaneIsPositive(map, Lane) <=> LaneIsPositive(map, NextLane)
      /\ ~ PastMark(ChangeFrom)
      /\ IsGoalLane => IsFinalLateral(task.types, index)
      /\ IsFinalLateral(task.types, index) => ChangeTo = ChangeFrom
      /\ IsGoalLane /\ RoomForChange(currentOffset) =>
           OffsetsMoveForward(map, Lane, ChangeFrom, task.goalOffset)
  BY <1>1, ChangeFacts
<1>3. seg \in RouteSteps /\ DrivesForward(map, seg)
  BY <1>1, <1>2, SegmentFacts DEF ChangeLane
<1>4. chg \in RouteSteps /\ DrivesForward(map, chg)
  BY <1>1, ChangeStepFacts
<1>5. /\ seg.fromLane = Lane /\ seg.fromOffset = currentOffset
      /\ seg.toLane = Lane /\ seg.toOffset = ChangeFrom
  BY DEF LaneSegment
<1>6. /\ chg.fromLane = Lane /\ chg.fromOffset = ChangeFrom
      /\ chg.toLane = NextLane /\ chg.toOffset = ChangeTo
  BY DEF LaneChange
<1> HIDE DEF seg, chg
<1>7. /\ mid \in Seq(RouteSteps)
      /\ mid # << >>
      /\ Len(steps) \in Nat
      /\ Len(mid) = Len(steps) + 1
      /\ \A i \in 1 .. Len(steps) : mid[i] = steps[i]
      /\ mid[Len(steps) + 1] = seg
  BY <1>1, <1>3, OneStepAdded
<1>8. steps' = Append(mid, chg)
  BY <1>1, <1>3, <1>4, TwoStepsAdded
<1> HIDE DEF mid
<1>9. /\ steps' \in Seq(RouteSteps)
      /\ steps' # << >>
      /\ Len(steps') = Len(steps) + 2
      /\ \A i \in 1 .. Len(steps) : steps'[i] = steps[i]
      /\ steps'[Len(steps) + 1] = seg
      /\ steps'[Len(steps) + 2] = chg
  <2>1. /\ steps' \in Seq(RouteSteps)
        /\ steps' # << >>
        /\ Len(steps') = Len(mid) + 1
        /\ \A i \in 1 .. Len(mid) : steps'[i] = mid[i]
        /\ steps'[Len(mid) + 1] = chg
    BY <1>4, <1>7, <1>8, OneStepAdded
  <2> QED
    BY <1>7, <2>1
<1>10. /\ index \in Nat /\ 1 <= index /\ index < Len(task.path)
       /\ Len(task.path) \in Nat /\ Len(task.path) = Len(task.types) + 1
       /\ index' \in 1 .. Len(task.path)
       /\ index' - 1 = index
       /\ index' # 1
       /\ Lane' = NextLane
  <2>1. index < Len(task.path)
    BY <1>1, TaskFacts DEF OnGoalLane
  <2>2. /\ index \in Nat /\ 1 <= index /\ Len(task.path) \in Nat
        /\ Len(task.path) = Len(task.types) + 1
    BY <1>1, TaskFacts
  <2>3. Lane' = NextLane
    BY <1>1 DEF Lane, NextLane
  <2> QED
    BY <1>1, <2>1, <2>2, <2>3
<1>11. TypeOK'
  BY <1>1, <1>2, <1>9, <1>10 DEF TypeOK, RouteSteps
<1>12. NeverDrivesBack'
  <2>1. \A i \in 1 .. Len(mid) : DrivesForward(map, mid[i])
    BY <1>1, <1>3, ForwardStepsGrow DEF NeverDrivesBack, mid
  <2> QED
    BY <1>1, <1>4, <1>7, <1>8, <2>1, ForwardStepsGrow DEF NeverDrivesBack
<1>13. RouteIsUnbroken'
  <2>1. steps'[1].fromLane = task.path[1] /\ steps'[1].fromOffset = task.startOffset
    <3>1. CASE steps = << >>
      <4>1. index = 1 /\ currentOffset = task.startOffset /\ steps'[1] = seg
        BY <1>1, <1>9, <3>1, EmptySeq DEF RouteIsUnbroken
      <4> QED
        BY <1>5, <4>1 DEF Lane
    <3>2. CASE steps # << >>
      <4>1. 1 \in 1 .. Len(steps)
        BY <1>1, <1>7, <3>2, EmptySeq
      <4>2. steps'[1] = steps[1]
        BY <1>9, <4>1
      <4> QED
        BY <1>1, <3>2, <4>2 DEF RouteIsUnbroken
    <3> QED
      BY <3>1, <3>2
  <2>2. Joined(map, mid)
    <3>1. steps # << >> => GoesOnAt(map, steps[Len(steps)], seg.fromLane, seg.fromOffset)
      BY <1>1, <1>5 DEF RouteIsUnbroken
    <3>2. Joined(map, steps)
      BY <1>1 DEF RouteIsUnbroken
    <3> QED
      BY <1>1, <1>3, <3>1, <3>2, JoinedGrows DEF mid
  <2>3. GoesOnAt(map, mid[Len(mid)], chg.fromLane, chg.fromOffset)
    BY <1>5, <1>6, <1>7 DEF GoesOnAt
  <2>4. Joined(map, steps')
    BY <1>4, <1>7, <1>8, <2>2, <2>3, JoinedGrows
  <2>5. GoesOnAt(map, chg, NextLane, ChangeTo)
    BY <1>6 DEF GoesOnAt
  <2>6. GoesOnAt(map', steps'[Len(steps')], Lane', currentOffset')
    BY <1>1, <1>9, <1>10, <2>5
  <2> QED
    BY <1>1, <1>9, <2>1, <2>4, <2>6 DEF RouteIsUnbroken
<1>14. PlaceExplained'
  <2>1. task'.types[index' - 1] # "forward"
    BY <1>1, <1>10
  <2>2. ASSUME PastMark(currentOffset)'
        PROVE  \E j \in index' + 1 .. Len(task'.types) : task'.types[j] = "lane_change"
    <3>1. ~ IsFinalLateral(task.types, index)
      BY <1>1, <1>2, <1>10, <2>2 DEF PastMark, LaneIsPositive
    <3>2. PICK j, k \in index + 1 .. Len(task.types) :
            task.types[j] = "lane_change" /\ task.types[k] = "lane_change" /\ j # k
      BY <1>1, <3>1 DEF IsFinalLateral
    <3>3. j \in index + 2 .. Len(task.types) \/ k \in index + 2 .. Len(task.types)
      BY <1>10, <3>2
    <3>4. index' + 1 = index + 2
      BY <1>1, <1>10
    <3> QED
      BY <1>1, <3>2, <3>3, <3>4
  <2>3. ASSUME OnGoalLane', RoomForChange(steps[Len(steps) - 1].fromOffset)'
        PROVE  GoalIsAhead'
    <3>1. IsGoalLane
      BY <1>1, <2>3 DEF OnGoalLane, IsGoalLane
    <3>2. Len(steps') - 1 = Len(steps) + 1
      BY <1>7, <1>9
    <3>3. steps'[Len(steps') - 1].fromOffset = currentOffset
      BY <1>5, <1>9, <3>2
    <3>4. RoomForChange(currentOffset)
      BY <1>1, <1>2, <1>10, <2>3, <3>3 DEF RoomForChange, LaneIsPositive
    <3>5. OffsetsMoveForward(map, Lane, ChangeFrom, task.goalOffset)
      BY <1>2, <3>1, <3>4
    <3>6. ChangeTo = ChangeFrom
      BY <1>2, <3>1
    <3> QED
      BY <1>1, <1>2, <1>10, <3>5, <3>6
      DEF GoalIsAhead, OffsetsMoveForward, LaneIsPositive
  <2> QED
    BY <1>10, <2>1, <2>2, <2>3 DEF PlaceExplained
<1>15. FailuresExplained'
  BY <1>1 DEF FailuresExplained
<1> QED
  BY <1>11, <1>12, <1>13, <1>14, <1>15 DEF Inv

(* A raise changes nothing but the result.                                 *)
LEMMA RaiseKeeps ==
  ASSUME Inv, result = "building",
         NEW reason \in {"goal behind", "change behind"}, Raise(reason)
  PROVE  TypeOK' /\ RouteIsUnbroken' /\ NeverDrivesBack' /\ PlaceExplained'
<1>1. /\ TypeOK /\ RouteIsUnbroken /\ NeverDrivesBack /\ PlaceExplained
      /\ map' = map /\ task' = task /\ index' = index /\ steps' = steps
      /\ currentOffset' = currentOffset /\ result' = reason
  BY DEF Inv, Raise
<1>2. TypeOK'
  BY <1>1 DEF TypeOK, RouteSteps
<1>3. RouteIsUnbroken'
  BY <1>1 DEF RouteIsUnbroken, Lane
<1>4. NeverDrivesBack'
  BY <1>1 DEF NeverDrivesBack
<1>5. PlaceExplained'
  <2>1. /\ Lane' = Lane
        /\ PastMark(currentOffset)' <=> PastMark(currentOffset)
        /\ OnGoalLane' <=> OnGoalLane
        /\ GoalIsAhead' <=> GoalIsAhead
        /\ RoomForChange(steps[Len(steps) - 1].fromOffset)' <=>
             RoomForChange(steps[Len(steps) - 1].fromOffset)
    BY <1>1 DEF Lane, PastMark, OnGoalLane, GoalIsAhead, RoomForChange
  <2> QED
    BY <1>1, <2>1 DEF PlaceExplained
<1> QED
  BY <1>2, <1>3, <1>4, <1>5

LEMMA GoalBehindKeepsInv ==
  ASSUME Inv, GoalBehind
  PROVE  Inv'
<1>1. /\ TypeOK /\ PlaceExplained
      /\ result = "building" /\ Raise("goal behind")
      /\ OnGoalLane /\ ~ GoalIsAhead
  BY DEF Inv, GoalBehind
<1>2. /\ map' = map /\ task' = task /\ index' = index /\ steps' = steps
      /\ currentOffset' = currentOffset /\ result' = "goal behind"
  BY <1>1 DEF Raise
<1>3. index > 1
  <2>1. index \in Nat /\ 1 <= index
    BY <1>1, TaskFacts
  <2>2. ASSUME index = 1 PROVE FALSE
    <3>1. OffsetsMoveForward(map, task.path[1], task.startOffset, task.goalOffset)
      BY <1>1, <2>2 DEF TypeOK, IsTask, OnGoalLane
    <3>2. currentOffset = task.startOffset /\ Lane = task.path[1]
      BY <1>1, <2>2 DEF PlaceExplained, Lane
    <3> QED
      BY <1>1, <3>1, <3>2 DEF GoalIsAhead
  <2>3. index # 1
    BY <2>2
  <2> QED
    BY <2>1, <2>3
<1>4. task.types[index - 1] = "lane_change"
  <2>1. index - 1 \in 1 .. Len(task.types)
    <3>1. /\ index \in Nat /\ Len(task.types) \in Nat
          /\ index <= Len(task.types) + 1
      BY <1>1, TaskFacts
    <3> QED
      BY <1>3, <3>1
  <2>2. task.types[index - 1] \in {"forward", "lane_change"}
    BY <1>1, <2>1, TaskFacts, ElementOfSeq
  <2>3. ASSUME task.types[index - 1] = "forward" PROVE FALSE
    <3>1. currentOffset = TravelStartOffset(map, Lane)
      BY <1>1, <1>3, <2>3 DEF PlaceExplained
    <3>2. task.goalOffset \in Offsets
      BY <1>1 DEF TypeOK, IsTask
    <3>3. OffsetsMoveForward(map, Lane, TravelStartOffset(map, Lane), task.goalOffset)
      BY <3>2, ScaleAssumption DEF OffsetsMoveForward, TravelStartOffset, Offsets
    <3> QED
      BY <1>1, <3>1, <3>3 DEF GoalIsAhead
  <2> QED
    BY <2>2, <2>3
<1>5. ~ RoomForChange(steps[Len(steps) - 1].fromOffset)
  BY <1>1, <1>3, <1>4 DEF PlaceExplained
<1>6. ~ RoomForChange(steps[Len(steps) - 1].fromOffset)'
  BY <1>2, <1>5 DEF RoomForChange, Lane
<1>7. FailuresExplained'
  BY <1>2, <1>3, <1>4, <1>6 DEF FailuresExplained
<1> QED
  BY <1>1, <1>7, RaiseKeeps DEF Inv

LEMMA ChangeBehindKeepsInv ==
  ASSUME Inv, ChangeBehind
  PROVE  Inv'
<1>1. /\ TypeOK /\ PlaceExplained
      /\ result = "building" /\ Raise("change behind")
      /\ ~ OnGoalLane /\ task.types[index] = "lane_change"
      /\ ~ OffsetsMoveForward(map, Lane, currentOffset, ChangeFrom)
  BY DEF Inv, ChangeBehind
<1>2. /\ map' = map /\ task' = task /\ index' = index /\ steps' = steps
      /\ currentOffset' = currentOffset /\ result' = "change behind"
  BY <1>1 DEF Raise
<1>3. PastMark(currentOffset)
  BY <1>1, ChangeFacts
<1>4. PastMark(currentOffset)'
  BY <1>2, <1>3 DEF PastMark, Lane
<1>5. ASSUME index > 1
      PROVE  /\ task.types[index - 1] = "lane_change"
             /\ \E j \in index + 1 .. Len(task.types) : task.types[j] = "lane_change"
  <2>1. index - 1 \in 1 .. Len(task.types)
    <3>1. /\ index \in Nat /\ Len(task.types) \in Nat
          /\ index <= Len(task.types) + 1
      BY <1>1, TaskFacts
    <3> QED
      BY <1>5, <3>1
  <2>2. task.types[index - 1] \in {"forward", "lane_change"}
    BY <1>1, <2>1, TaskFacts, ElementOfSeq
  <2>3. ASSUME task.types[index - 1] = "forward" PROVE FALSE
    <3>1. currentOffset = TravelStartOffset(map, Lane)
      BY <1>1, <1>5, <2>3 DEF PlaceExplained
    <3> QED
      BY <1>3, <3>1, PercentIsOffset, ScaleAssumption
      DEF PastMark, TravelStartOffset, Offsets
  <2>4. task.types[index - 1] = "lane_change"
    BY <2>2, <2>3
  <2> QED
    BY <1>1, <1>3, <1>5, <2>4 DEF PlaceExplained
<1>6. FailuresExplained'
  BY <1>2, <1>4, <1>5 DEF FailuresExplained
<1> QED
  BY <1>1, <1>6, RaiseKeeps DEF Inv

LEMMA StutterKeepsInv ==
  ASSUME Inv, UNCHANGED vars
  PROVE  Inv'
<1>1. /\ map' = map /\ task' = task /\ index' = index /\ steps' = steps
      /\ currentOffset' = currentOffset /\ result' = result
  BY DEF vars
<1>2. TypeOK'
  BY <1>1 DEF Inv, TypeOK, RouteSteps
<1>3. RouteIsUnbroken'
  BY <1>1 DEF Inv, RouteIsUnbroken, Lane
<1>4. NeverDrivesBack'
  BY <1>1 DEF Inv, NeverDrivesBack
<1>5. /\ Lane' = Lane
      /\ PastMark(currentOffset)' <=> PastMark(currentOffset)
      /\ OnGoalLane' <=> OnGoalLane
      /\ GoalIsAhead' <=> GoalIsAhead
      /\ RoomForChange(steps[Len(steps) - 1].fromOffset)' <=>
           RoomForChange(steps[Len(steps) - 1].fromOffset)
  BY <1>1 DEF Lane, PastMark, OnGoalLane, GoalIsAhead, RoomForChange
<1>6. PlaceExplained'
  BY <1>1, <1>5 DEF Inv, PlaceExplained
<1>7. FailuresExplained'
  BY <1>1, <1>5 DEF Inv, FailuresExplained
<1> QED
  BY <1>2, <1>3, <1>4, <1>6, <1>7 DEF Inv

LEMMA InvStep ==
  Inv /\ [Next]_vars => Inv'
BY FinishKeepsInv, DriveForwardKeepsInv, ChangeLaneKeepsInv,
   GoalBehindKeepsInv, ChangeBehindKeepsInv, StutterKeepsInv
DEF Next

LEMMA Inductive ==
  SafetySpec => []Inv
BY InvInit, InvStep, PTL DEF SafetySpec

-----------------------------------------------------------------------------
(* The last two lane changes stay lateral.                                 *)

(* The lane changes among the steps after the i-th, and among the          *)
(* transitions from the n-th on.                                           *)
ChangesMade(s, i) == { j \in i + 1 .. Len(s) : s[j].type = "lane_change" }
ChangesLeft(t, n) == { p \in n .. Len(t) : t[p] = "lane_change" }

(* At least two lane changes follow step i of s, made or still to be made. *)
TwoFollow(s, i, t, n) ==
  \/ \E j, k \in ChangesMade(s, i) : j # k
  \/ ChangesMade(s, i) # {} /\ ChangesLeft(t, n) # {}
  \/ \E p, q \in ChangesLeft(t, n) : p # q

DiagonalsAreFollowed ==
  \A i \in 1 .. Len(steps) :
     steps[i].type = "lane_change" /\ steps[i].toOffset # steps[i].fromOffset =>
       TwoFollow(steps, i, task.types, index)

LEMMA SegmentKeepsDiagonals ==
  ASSUME Inv, DiagonalsAreFollowed,
         NEW seg \in RouteSteps, seg.type = "lane_segment",
         steps' = Append(steps, seg), task' = task,
         \/ index' = index
         \/ index' = index + 1 /\ task.types[index] # "lane_change"
  PROVE  DiagonalsAreFollowed'
<1>1. steps \in Seq(RouteSteps) /\ index \in Nat /\ Len(task.types) \in Nat
  BY TaskFacts DEF Inv, TypeOK
<1>2. /\ Len(steps) \in Nat
      /\ Len(steps') = Len(steps) + 1
      /\ \A i \in 1 .. Len(steps) : steps'[i] = steps[i]
      /\ steps'[Len(steps) + 1] = seg
  BY <1>1, OneStepAdded
<1>3. ChangesLeft(task.types, index) \subseteq ChangesLeft(task.types, index')
  BY <1>1 DEF ChangesLeft
<1>4. ASSUME NEW i \in 1 .. Len(steps')
      PROVE  ChangesMade(steps, i) \subseteq ChangesMade(steps', i)
  BY <1>2 DEF ChangesMade
<1> SUFFICES ASSUME NEW i \in 1 .. Len(steps'),
                    steps'[i].type = "lane_change",
                    steps'[i].toOffset # steps'[i].fromOffset
             PROVE  TwoFollow(steps', i, task.types, index')
  BY DEF DiagonalsAreFollowed
<1>5. i \in 1 .. Len(steps) /\ steps'[i] = steps[i]
  BY <1>2
<1>6. TwoFollow(steps, i, task.types, index)
  BY <1>5 DEF DiagonalsAreFollowed
<1> QED
  BY <1>3, <1>4, <1>6 DEF TwoFollow

LEMMA ChangeKeepsDiagonals ==
  ASSUME Inv, DiagonalsAreFollowed, ChangeLane
  PROVE  DiagonalsAreFollowed'
<1> DEFINE seg == LaneSegment(currentOffset, ChangeFrom)
           chg == LaneChange(ChangeFrom, ChangeTo)
           n == Len(steps)
<1>1. /\ TypeOK /\ steps \in Seq(RouteSteps)
      /\ steps' = steps \o <<seg, chg>>
      /\ task' = task /\ index' = index + 1
      /\ ~ OnGoalLane /\ task.types[index] = "lane_change"
      /\ index \in Nat /\ Len(task.types) \in Nat
  BY TaskFacts DEF Inv, TypeOK, ChangeLane
<1>2. /\ ChangeFrom \in Offsets
      /\ IsFinalLateral(task.types, index) => ChangeTo = ChangeFrom
  BY <1>1, ChangeFacts
<1>3. seg \in RouteSteps
  BY <1>1, <1>2, SegmentFacts DEF ChangeLane
<1>4. chg \in RouteSteps
  BY <1>1, ChangeStepFacts
<1>5. /\ seg.type = "lane_segment" /\ chg.type = "lane_change"
      /\ chg.fromOffset = ChangeFrom /\ chg.toOffset = ChangeTo
  BY DEF LaneSegment, LaneChange
<1> HIDE DEF seg, chg
<1>6. /\ n \in Nat
      /\ Len(steps') = n + 2
      /\ \A i \in 1 .. n : steps'[i] = steps[i]
      /\ steps'[n + 1] = seg
      /\ steps'[n + 2] = chg
  <2> DEFINE mid == Append(steps, seg)
  <2>1. /\ n \in Nat /\ mid \in Seq(RouteSteps) /\ Len(mid) = n + 1
        /\ \A i \in 1 .. n : mid[i] = steps[i]
        /\ mid[n + 1] = seg
    BY <1>1, <1>3, OneStepAdded
  <2>2. steps' = Append(mid, chg)
    BY <1>1, <1>3, <1>4, TwoStepsAdded
  <2> HIDE DEF mid
  <2>3. /\ Len(steps') = Len(mid) + 1
        /\ \A i \in 1 .. Len(mid) : steps'[i] = mid[i]
        /\ steps'[Len(mid) + 1] = chg
    BY <1>4, <2>1, <2>2, OneStepAdded
  <2> QED
    BY <2>1, <2>3
<1> HIDE DEF n
<1> SUFFICES ASSUME NEW i \in 1 .. Len(steps'),
                    steps'[i].type = "lane_change",
                    steps'[i].toOffset # steps'[i].fromOffset
             PROVE  TwoFollow(steps', i, task.types, index + 1)
  BY <1>1 DEF DiagonalsAreFollowed
<1>7. i \in 1 .. n \/ i = n + 2
  <2>1. i \in 1 .. n \/ i = n + 1 \/ i = n + 2
    BY <1>6
  <2>2. i # n + 1
    BY <1>5, <1>6
  <2> QED
    BY <2>1, <2>2
<1>8. CASE i = n + 2
  <2>1. ~ IsFinalLateral(task.types, index)
    BY <1>2, <1>5, <1>6, <1>8
  <2> QED
    BY <1>1, <2>1 DEF IsFinalLateral, TwoFollow, ChangesLeft
<1>9. CASE i \in 1 .. n
  <2>1. TwoFollow(steps, i, task.types, index)
    <3>1. steps'[i] = steps[i]
      BY <1>6, <1>9
    <3> QED
      BY <1>9, <3>1 DEF DiagonalsAreFollowed, n
  <2>2. ChangesMade(steps, i) \subseteq ChangesMade(steps', i)
    BY <1>6, <1>9 DEF ChangesMade, n
  <2>3. n + 2 \in ChangesMade(steps', i)
    BY <1>5, <1>6, <1>9 DEF ChangesMade
  <2>4. n + 2 \notin ChangesMade(steps, i)
    BY <1>6, <1>9 DEF ChangesMade, n
  <2>5. ChangesLeft(task.types, index) \subseteq
          {index} \cup ChangesLeft(task.types, index + 1)
    BY <1>1 DEF ChangesLeft
  <2>6. CASE ChangesMade(steps, i) # {}
    BY <2>2, <2>3, <2>4, <2>6 DEF TwoFollow
  <2>7. CASE ChangesMade(steps, i) = {}
    <3>1. PICK p, q \in ChangesLeft(task.types, index) : p # q
      BY <2>1, <2>7 DEF TwoFollow
    <3>2. ChangesLeft(task.types, index + 1) # {}
      BY <2>5, <3>1
    <3> QED
      BY <2>3, <3>2 DEF TwoFollow
  <2> QED
    BY <2>6, <2>7
<1> QED
  BY <1>7, <1>8, <1>9

LEMMA DiagonalsFollowed ==
  SafetySpec => []DiagonalsAreFollowed
<1>1. Init => DiagonalsAreFollowed
  <2>1. ASSUME Init PROVE Len(steps) = 0
    BY <2>1, EmptySeq DEF Init
  <2> QED
    BY <2>1 DEF DiagonalsAreFollowed
<1>2. Inv /\ DiagonalsAreFollowed /\ [Next]_vars => DiagonalsAreFollowed'
  <2> SUFFICES ASSUME Inv, DiagonalsAreFollowed, [Next]_vars
               PROVE  DiagonalsAreFollowed'
    OBVIOUS
  <2>1. CASE FinishOnGoalLane
    <3>1. task.goalOffset \in Offsets
      BY DEF Inv, TypeOK, IsTask
    <3>2. LaneSegment(currentOffset, task.goalOffset) \in RouteSteps
      BY <2>1, <3>1, SegmentFacts DEF Inv, FinishOnGoalLane, GoalIsAhead
    <3>3. LaneSegment(currentOffset, task.goalOffset).type = "lane_segment"
      BY DEF LaneSegment
    <3> QED
      BY <2>1, <3>2, <3>3, SegmentKeepsDiagonals DEF FinishOnGoalLane
  <2>2. CASE DriveForward
    <3>1. LaneSegment(currentOffset, TravelEndOffset(map, Lane)) \in RouteSteps
      BY EndIsAhead, SegmentFacts DEF Inv
    <3>2. LaneSegment(currentOffset, TravelEndOffset(map, Lane)).type = "lane_segment"
      BY DEF LaneSegment
    <3>3. task.types[index] # "lane_change"
      BY <2>2 DEF DriveForward
    <3> QED
      BY <2>2, <3>1, <3>2, <3>3, SegmentKeepsDiagonals DEF DriveForward
  <2>3. CASE ChangeLane
    BY <2>3, ChangeKeepsDiagonals
  <2>4. CASE GoalBehind \/ ChangeBehind \/ UNCHANGED vars
    <3>1. steps' = steps /\ task' = task /\ index' = index
      BY <2>4 DEF GoalBehind, ChangeBehind, Raise, vars
    <3> QED
      BY <3>1 DEF DiagonalsAreFollowed
  <2> QED
    BY <2>1, <2>2, <2>3, <2>4 DEF Next
<1> QED
  BY <1>1, <1>2, Inductive, PTL DEF SafetySpec

-----------------------------------------------------------------------------
(* The theorems.                                                           *)

(* The offsets of a route, also those computed for its lane changes, lie   *)
(* on lanes of the map.                                                    *)
THEOREM BuilderTypeCorrect ==
  SafetySpec => []TypeOK
BY Inductive, PTL DEF Inv

(* The steps of build_custom_route join up from the start offset to the    *)
(* goal offset.                                                            *)
THEOREM UnbrokenRoute ==
  SafetySpec => []RouteIsUnbroken
BY Inductive, PTL DEF Inv

(* No segment and no lane change of a route runs against the travel        *)
(* direction of the lane it ends on.                                       *)
THEOREM NoStepBack ==
  SafetySpec => []NeverDrivesBack
BY Inductive, PTL DEF Inv

(* A legal lane path is given up only for want of room for a lane change.  *)
THEOREM GivingUpExplained ==
  SafetySpec => []FailuresExplained
BY Inductive, PTL DEF Inv

(* In a route that was built the last two lane changes are lateral.        *)
THEOREM LastChangesLateral ==
  SafetySpec => []LastChangesAreLateral
<1>1. Inv /\ DiagonalsAreFollowed /\ (result = "built" => OnGoalLane) =>
        LastChangesAreLateral
  <2> SUFFICES ASSUME Inv, DiagonalsAreFollowed, result = "built", OnGoalLane,
                      NEW i \in 1 .. Len(steps),
                      steps[i].type = "lane_change",
                      \A j, k \in i + 1 .. Len(steps) :
                        steps[j].type = "lane_change" /\ steps[k].type = "lane_change"
                          => j = k,
                      steps[i].toOffset # steps[i].fromOffset
               PROVE  FALSE
    BY DEF LastChangesAreLateral
  <2>1. ChangesLeft(task.types, index) = {}
    BY TaskFacts DEF ChangesLeft, OnGoalLane, Inv
  <2>2. TwoFollow(steps, i, task.types, index)
    BY DEF DiagonalsAreFollowed
  <2> QED
    BY <2>1, <2>2 DEF TwoFollow, ChangesMade
<1>2. SafetySpec => [](result = "built" => OnGoalLane)
  <2>1. Init => (result = "built" => OnGoalLane)
    BY DEF Init
  <2>2. (result = "built" => OnGoalLane) /\ [Next]_vars =>
          (result = "built" => OnGoalLane)'
    BY DEF Next, vars, OnGoalLane, FinishOnGoalLane, DriveForward, ChangeLane,
           GoalBehind, ChangeBehind, Raise
  <2> QED
    BY <2>1, <2>2, PTL DEF SafetySpec
<1> QED
  BY <1>1, <1>2, Inductive, DiagonalsFollowed, PTL

(* LegalDrive asks the same questions of a map.                            *)
LEMMA SameQuestions ==
  /\ LD!Offsets = Offsets
  /\ \A m, l, a, b : LD!OffsetsMoveForward(m, l, a, b) <=> OffsetsMoveForward(m, l, a, b)
  /\ \A m, l : LD!TravelStartOffset(m, l) = TravelStartOffset(m, l)
  /\ \A m, k, l, t : MayMove(m, k, l, t) => LD!MayMove(m, k, l, t)
<1>1. LD!Offsets = Offsets
  BY DEF LD!Offsets, Offsets
<1>2. \A m, l : LD!LaneIsPositive(m, l) <=> LaneIsPositive(m, l)
  BY DEF LD!LaneIsPositive, LaneIsPositive
<1>3. \A m, l, a, b : LD!OffsetsMoveForward(m, l, a, b) <=> OffsetsMoveForward(m, l, a, b)
  BY <1>2 DEF LD!OffsetsMoveForward, OffsetsMoveForward
<1>4. \A m, l : LD!TravelStartOffset(m, l) = TravelStartOffset(m, l)
  BY <1>2 DEF LD!TravelStartOffset, TravelStartOffset
<1>5. \A m, l, c : LD!IsForward(m, l, c) <=> IsForward(m, l, c)
  BY <1>2 DEF LD!IsForward, IsForward, LD!Routeable, Routeable,
     LD!ForwardContactLocation, ForwardContactLocation
<1>6. \A m, l, c : IsLaneChange(m, l, c) => LD!IsLaneChange(m, l, c)
  BY <1>2 DEF LD!IsLaneChange, IsLaneChange, LD!Routeable, Routeable,
     LD!ForwardContactLocation, ForwardContactLocation,
     LD!LaneIsIntersection, LaneIsIntersection,
     LD!LanesHaveSameDirection, LanesHaveSameDirection
<1>7. \A m, l, c : IsTransition(m, l, c) => LD!IsTransition(m, l, c)
  BY <1>5, <1>6 DEF LD!IsTransition, IsTransition
<1>8. \A m, l, c : LD!TransitionType(m, l, c) = TransitionType(m, l, c)
  BY <1>5 DEF LD!TransitionType, TransitionType
<1>9. \A m, k, l, t : MayMove(m, k, l, t) => LD!MayMove(m, k, l, t)
  BY <1>7, <1>8 DEF LD!MayMove, MayMove
<1> QED
  BY <1>1, <1>3, <1>4, <1>9

(* Following the route is a legal drive: the first place of the vehicle is *)
(* the start of the trip, and every iteration of the builder moves it as   *)
(* LegalDrive allows, or ends the drive.                                   *)
THEOREM RouteIsLegalDrive ==
  SafetySpec => LD!SafetySpec
<1>1. Init => LD!Init
  <2> SUFFICES ASSUME Init PROVE LD!Init
    OBVIOUS
  <2>1. map \in Maps /\ IsTask(map, task)
    BY BuilderAssumption DEF Init
  <2>2. /\ task.path \in Seq(map.lanes)
        /\ Len(task.path) \in Nat /\ Len(task.types) \in Nat
        /\ Len(task.path) = Len(task.types) + 1
    BY <2>1, LenProperties DEF IsTask
  <2>3. task.path[1] \in map.lanes /\ task.path[Len(task.path)] \in map.lanes
    BY <2>2, ElementOfSeq
  <2>4. task.startOffset \in Offsets /\ task.goalOffset \in Offsets
    BY <2>1 DEF IsTask
  <2> QED
    BY <2>1, <2>3, <2>4, SameQuestions DEF Init, LD!Init
<1>2. Inv /\ [Next]_vars => [LD!Next]_(LD!vars)
  <2> SUFFICES ASSUME Inv, [Next]_vars PROVE [LD!Next]_(LD!vars)
    OBVIOUS
  <2>0. TypeOK
    BY DEF Inv
  <2>1. CASE FinishOnGoalLane
    <3>1. LD!Arrive
      BY <2>1, SameQuestions
      DEF FinishOnGoalLane, OnGoalLane, GoalIsAhead, Lane, LD!Arrive
    <3> QED
      BY <3>1 DEF LD!Next
  <2>2. CASE DriveForward
    <3>1. /\ index < Len(task.path)
          /\ NextLane \in map.lanes
          /\ MayMove(map, Lane, NextLane, "forward")
      BY <2>0, <2>2, TaskFacts DEF DriveForward, OnGoalLane
    <3>2. LD!Cross
      BY <2>2, <3>1, SameQuestions DEF DriveForward, Lane, NextLane, LD!Cross
    <3> QED
      BY <3>2 DEF LD!Next
  <2>3. CASE ChangeLane
    <3>1. /\ index < Len(task.path)
          /\ NextLane \in map.lanes
          /\ MayMove(map, Lane, NextLane, "lane_change")
      BY <2>0, <2>3, TaskFacts DEF ChangeLane, OnGoalLane
    <3>2. /\ ChangeFrom \in Offsets /\ ChangeTo \in Offsets
          /\ LaneIsPositive(map, Lane) <=> LaneIsPositive(map, NextLane)
          /\ OffsetsMoveForward(map, NextLane, ChangeFrom, ChangeTo)
          /\ OffsetsMoveForward(map, Lane, currentOffset, ChangeFrom)
          /\ currentOffset \in Offsets
      BY <2>0, <2>3, ChangeFacts DEF ChangeLane, TypeOK
    <3>3. OffsetsMoveForward(map, NextLane, currentOffset, ChangeTo)
      BY <3>2, ScaleAssumption DEF OffsetsMoveForward, Offsets
    <3>4. LD!Change
      BY <2>3, <3>1, <3>2, <3>3, SameQuestions
      DEF ChangeLane, Lane, NextLane, LD!Change
    <3> QED
      BY <3>4 DEF LD!Next
  <2>4. CASE GoalBehind \/ ChangeBehind
    <3>1. LD!GiveUp
      BY <2>4 DEF GoalBehind, ChangeBehind, Raise, LD!GiveUp
    <3> QED
      BY <3>1 DEF LD!Next
  <2>5. CASE UNCHANGED vars
    BY <2>5 DEF vars, LD!vars
  <2> QED
    BY <2>1, <2>2, <2>3, <2>4, <2>5 DEF Next
<1> QED
  BY <1>1, <1>2, Inductive, PTL DEF SafetySpec, LD!SafetySpec

-----------------------------------------------------------------------------
(* Sampling: numbers.                                                      *)

(* A set of natural numbers that is not empty has a least element.         *)
LEMMA LeastNatural ==
  ASSUME NEW T, T \subseteq Nat, T # {}
  PROVE  \E x \in T : \A y \in T : x <= y
<1> DEFINE R == OpToRel(<, Nat)
<1>1. IsWellFoundedOn(R, Nat)
  BY NatLessThanWellFounded
<1>2. \A x, y \in Nat : x < y => <<x, y>> \in R
  BY DEF OpToRel
<1> HIDE DEF R
<1>3. PICK x \in T : \A y \in T : ~ (<<y, x>> \in R)
  BY <1>1, WFMin
<1>4. ASSUME NEW y \in T PROVE x <= y
  <2>1. x \in Nat /\ y \in Nat
    OBVIOUS
  <2>2. ~ (y < x)
    BY <1>2, <1>3, <2>1
  <2> QED
    BY <2>1, <2>2
<1> QED
  BY <1>4

LEMMA ProductIsNatural ==
  ASSUME NEW a \in Nat, NEW b \in Nat
  PROVE  a * b \in Nat
OBVIOUS

LEMMA ProductGrows ==
  ASSUME NEW a \in Nat, NEW b \in Nat, NEW c \in Nat, a <= b
  PROVE  a * c <= b * c
OBVIOUS

LEMMA SquareGrows ==
  ASSUME NEW a \in Nat, NEW b \in Nat, a < b
  PROVE  a * a < b * b
<1>1. a * a <= b * a
  BY ProductGrows
<1>2. b * b = b * a + b * (b - a)
  OBVIOUS
<1>3. b * (b - a) >= 1
  OBVIOUS
<1> QED
  BY <1>1, <1>2, <1>3

LEMMA QuotientFits ==
  ASSUME NEW a \in Nat, NEW b \in Nat, b # 0
  PROVE  (a \div b) * b <= a
OBVIOUS

LEMMA QuotientIsMost ==
  ASSUME NEW a \in Nat, NEW b \in Nat, b # 0, NEW k \in Nat, k * b <= a
  PROVE  k <= a \div b
<1>1. a \div b \in Nat
  BY DivisionIsNatural
<1>2. a < (a \div b) * b + b
  OBVIOUS
<1> SUFFICES ASSUME (a \div b) + 1 <= k PROVE FALSE
  BY <1>1
<1>3. ((a \div b) + 1) * b <= k * b
  BY <1>1, ProductGrows
<1>4. ((a \div b) + 1) * b = (a \div b) * b + b
  BY <1>1
<1>5. (a \div b) * b \in Nat /\ k * b \in Nat
  BY <1>1, ProductIsNatural
<1> QED
  BY <1>2, <1>3, <1>4, <1>5

(* A part of a way does not leave the way, and all of it reaches its end.   *)
LEMMA PartOfWay ==
  ASSUME NEW a \in Int, NEW c \in Nat, NEW i \in 1 .. c
  PROVE  /\ (a * i) \div c \in Int
         /\ a >= 0 => 0 <= (a * i) \div c /\ (a * i) \div c <= a
         /\ a <= 0 => a <= (a * i) \div c /\ (a * i) \div c <= 0
         /\ i = c => (a * i) \div c = a
<1>1. c \in Nat /\ c > 0 /\ i \in Nat
  OBVIOUS
<1>2. a * i \in Int /\ a * c \in Int
  OBVIOUS
<1>3. \A x, y \in Int : x * c <= y /\ y < x * c + c => y \div c = x
  BY <1>1
<1>4. (a * c) \div c = a
  BY <1>1, <1>2, <1>3
<1>5. ASSUME NEW x \in Int, NEW y \in Int, x <= y PROVE x \div c <= y \div c
  <2> DEFINE u == x \div c
             v == y \div c
  <2>1. u \in Int /\ v \in Int
    BY <1>1
  <2>2. u * c <= x /\ y < v * c + c
    BY <1>1
  <2> HIDE DEF u, v
  <2> SUFFICES ASSUME v + 1 <= u PROVE FALSE
    BY <2>1 DEF u, v
  <2>3. (u - v - 1) * c \in Nat
    BY <1>1, <2>1
  <2>4. (u - v - 1) * c = u * c - v * c - c
    BY <1>1, <2>1
  <2>5. u * c \in Int /\ v * c \in Int
    BY <1>1, <2>1
  <2> QED
    BY <1>1, <1>5, <2>2, <2>3, <2>4, <2>5
<1>6. 0 \div c = 0
  BY <1>1
<1>7. a >= 0 => 0 <= a * i /\ a * i <= a * c
  BY <1>1
<1>8. a <= 0 => a * c <= a * i /\ a * i <= 0
  BY <1>1
<1>9. (a * i) \div c \in Int
  BY <1>1, <1>2
<1> QED
  BY <1>2, <1>4, <1>5, <1>6, <1>7, <1>8, <1>9

LEMMA SquareOfSum ==
  ASSUME NEW a \in Int, NEW b \in Int
  PROVE  /\ a * a + b * b \in Nat
         /\ Absolute(a) \in Nat /\ Absolute(b) \in Nat
         /\ a * a + b * b <= (Absolute(a) + Absolute(b)) * (Absolute(a) + Absolute(b))
<1> DEFINE x == Absolute(a)
           y == Absolute(b)
<1>1. x \in Nat /\ y \in Nat
  BY DEF Absolute
<1>2. a * a = x * x /\ b * b = y * y
  BY DEF Absolute
<1> HIDE DEF x, y
<1>3. (x + y) * (x + y) = x * x + y * y + 2 * (x * y)
  BY <1>1
<1>4. x * x \in Nat /\ y * y \in Nat /\ x * y \in Nat
  BY <1>1, ProductIsNatural
<1>5. a * a + b * b \in Nat /\ a * a + b * b <= (x + y) * (x + y)
  BY <1>2, <1>3, <1>4
<1> QED
  BY <1>1, <1>5 DEF x, y

(* There is a whole number of spacings between any two points.             *)
LEMMA WholeSpacingsExist ==
  ASSUME NEW p \in Int \X Int, NEW q \in Int \X Int
  PROVE  WholeSpacings(p, q) \in Nat
<1> DEFINE gap == Spacing * Scale
           way == Absolute(p[1] - q[1]) + Absolute(p[2] - q[2])
           square == SquareDistance(p, q)
           Fits(k) == /\ k * k * gap * gap <= square
                      /\ (k + 1) * (k + 1) * gap * gap > square
<1>1. gap \in Nat /\ gap >= 1
  BY SamplerAssumption, ScaleAssumption
<1>2. p[1] - q[1] \in Int /\ p[2] - q[2] \in Int
  OBVIOUS
<1>3. way \in Nat /\ square \in Nat /\ square <= way * way
  <2> DEFINE a == p[1] - q[1]
             b == p[2] - q[2]
  <2>1. square = a * a + b * b
    BY Zenon DEF SquareDistance
  <2>2. a \in Int /\ b \in Int
    BY <1>2
  <2> HIDE DEF a, b, square
  <2>3. way = Absolute(a) + Absolute(b)
    BY DEF a, b
  <2> HIDE DEF way
  <2>4. /\ a * a + b * b \in Nat
        /\ Absolute(a) \in Nat /\ Absolute(b) \in Nat
        /\ a * a + b * b <= (Absolute(a) + Absolute(b)) * (Absolute(a) + Absolute(b))
    BY <2>2, SquareOfSum
  <2> QED
    BY <2>1, <2>3, <2>4
<1>4. WholeSpacings(p, q) = CHOOSE k \in 0 .. way \div gap : Fits(k)
  BY DEF WholeSpacings
<1> HIDE DEF gap, way, square
<1>5. \A k \in Nat : k * k * gap * gap = (k * gap) * (k * gap) /\ k * gap \in Nat
  BY <1>1
<1> DEFINE Past == { k \in Nat : (k * gap) * (k * gap) > square }
<1>6. square + 1 \in Past
  <2>1. square + 1 <= (square + 1) * gap
    <3>1. 1 * (square + 1) <= gap * (square + 1)
      BY <1>1, <1>3, ProductGrows
    <3> QED
      BY <1>1, <1>3, <3>1
  <2> DEFINE n == (square + 1) * gap
  <2>2. n \in Nat /\ n >= 1 /\ n > square
    BY <1>1, <1>3, <2>1, ProductIsNatural
  <2> HIDE DEF n
  <2>3. 1 * n <= n * n
    BY <2>2, ProductGrows
  <2>4. n * n \in Nat /\ n * n > square
    BY <1>3, <2>2, <2>3, ProductIsNatural
  <2> QED
    BY <1>3, <2>4 DEF n
<1>7. PICK x \in Past : \A y \in Past : x <= y
  BY <1>6, LeastNatural
<1>8. x \in Nat /\ x # 0
  BY <1>1, <1>3, <1>7
<1>9. x - 1 \in Nat /\ x - 1 \notin Past
  BY <1>7, <1>8
<1> DEFINE k == x - 1
<1>10. k \in Nat /\ (k * gap) * (k * gap) <= square
  <2>1. k * gap \in Nat
    BY <1>1, <1>9
  <2>2. (k * gap) * (k * gap) \in Nat
    BY <2>1, ProductIsNatural
  <2>3. ~ ((k * gap) * (k * gap) > square)
    BY <1>9
  <2> QED
    BY <1>3, <1>9, <2>2, <2>3
<1>11. ((k + 1) * gap) * ((k + 1) * gap) > square
  BY <1>7, <1>8
<1> HIDE DEF k
<1>12. Fits(k)
  BY <1>5, <1>10, <1>11
<1>13. k * gap <= way
  <2> SUFFICES ASSUME way < k * gap PROVE FALSE
    BY <1>1, <1>3, <1>10, ProductIsNatural
  <2>1. way * way < (k * gap) * (k * gap)
    BY <1>1, <1>3, <1>10, ProductIsNatural, SquareGrows
  <2>2. way * way \in Nat /\ (k * gap) * (k * gap) \in Nat
    BY <1>1, <1>3, <1>10, ProductIsNatural
  <2> QED
    BY <1>3, <1>10, <2>1, <2>2
<1>14. k \in 0 .. way \div gap
  BY <1>1, <1>3, <1>10, <1>13, QuotientIsMost, DivisionIsNatural
<1>15. WholeSpacings(p, q) \in 0 .. way \div gap
  <2> HIDE DEF Fits
  <2> QED
    BY <1>4, <1>12, <1>14
<1> QED
  BY <1>15

LEMMA SequenceOfFunction ==
  ASSUME NEW S, NEW n \in Nat, NEW f \in [1 .. n -> S]
  PROVE  f \in Seq(S) /\ Len(f) = n
<1>1. f \in Seq(S)
  BY SeqDef
<1>2. Len(f) \in Nat /\ DOMAIN f = 1 .. Len(f)
  BY <1>1, LenProperties
<1>3. 1 .. Len(f) = 1 .. n
  BY <1>2
<1> QED
  BY <1>1, <1>2, <1>3

(* The sampled offsets of a way along a lane lie in the direction of the    *)
(* way, and the last one is its end.                                        *)
LEMMA SampledOffsets ==
  ASSUME TypeOK, NEW l \in map.lanes, NEW from \in Offsets, NEW to \in Offsets,
         OffsetsMoveForward(map, l, from, to)
  PROVE  LET o == SampleLaneOffsets(l, from, to) IN
         \E n \in Nat :
           /\ n >= 1
           /\ o \in [1 .. n -> Offsets]
           /\ Len(o) = n
           /\ o[n] = to
           /\ \A i \in 1 .. n : /\ OffsetsMoveForward(map, l, from, o[i])
                                /\ OffsetsMoveForward(map, l, o[i], to)
           /\ \A i, k \in 1 .. n : i < k => OffsetsMoveForward(map, l, o[i], o[k])
<1>1. Scale \in Nat \ {0} /\ Spacing \in Nat \ {0} /\ IsLaneMap(map) /\ map \in Maps
  BY ScaleAssumption, SamplerAssumption, TaskFacts
<1>2. map.length[l] \in Nat /\ map.length[l] <= Spacing * Scale
  BY <1>1, SamplerAssumption DEF IsLaneMap
<1>3. from \in 0 .. Scale /\ to \in 0 .. Scale
  BY DEF Offsets
<1>4. CASE from = to
  <2>1. SampleLaneOffsets(l, from, to) = <<from>>
    BY <1>4 DEF SampleLaneOffsets
  <2>2. OffsetsMoveForward(map, l, from, from)
    BY <1>3 DEF OffsetsMoveForward
  <2>3. <<from>> \in [1 .. 1 -> Offsets] /\ Len(<<from>>) = 1 /\ <<from>>[1] = to
    BY <1>4
  <2> QED
    BY <1>4, <2>1, <2>2, <2>3
<1>5. CASE from # to
  <2> DEFINE st == OffsetStep(l)
             d == Absolute(to - from)
             inner == (d - 1) \div st
             n == inner + 2
             o == [i \in 1 .. n |-> IF i = n THEN to ELSE Along(l, from, (i - 1) * st)]
  <2>1. SampleLaneOffsets(l, from, to) = o
    BY <1>5 DEF SampleLaneOffsets
  <2>2. st \in Nat /\ st >= 1
    <3> DEFINE b == IF map.length[l] >= Spacing THEN map.length[l] ELSE Spacing
    <3>1. b \in Nat /\ b >= 1
      BY <1>1, <1>2
    <3>2. Spacing * Scale \in Nat /\ Spacing <= Spacing * Scale
      BY <1>1
    <3>3. b <= Spacing * Scale
      BY <1>2, <3>2
    <3>4. st = (Spacing * Scale) \div b
      BY DEF OffsetStep
    <3> HIDE DEF b
    <3>5. 1 * b <= Spacing * Scale
      BY <3>1, <3>3
    <3> QED
      BY <3>1, <3>2, <3>4, <3>5, QuotientIsMost, DivisionIsNatural
  <2>3. d \in Nat /\ d >= 1
    BY <1>3, <1>5 DEF Absolute
  <2> HIDE DEF st, d
  <2>4. inner \in Nat /\ inner * st <= d - 1
    BY <2>2, <2>3, DivisionIsNatural, QuotientFits
  <2> HIDE DEF inner
  <2>5. n \in Nat /\ n >= 1
    BY <2>4
  <2>6. ASSUME NEW i \in 1 .. n, i # n
        PROVE  (i - 1) * st \in Nat /\ (i - 1) * st <= d - 1
    <3>1. i - 1 \in Nat /\ i - 1 <= inner
      BY <2>4, <2>6
    <3>2. (i - 1) * st <= inner * st
      BY <2>2, <2>4, <3>1, ProductGrows
    <3>3. (i - 1) * st \in Nat /\ inner * st \in Nat
      BY <2>2, <2>4, <3>1, ProductIsNatural
    <3> QED
      BY <2>3, <2>4, <3>2, <3>3
  <2>7. ASSUME NEW e \in Nat, e <= d - 1
        PROVE  /\ Along(l, from, e) \in Offsets
               /\ OffsetsMoveForward(map, l, from, Along(l, from, e))
               /\ OffsetsMoveForward(map, l, Along(l, from, e), to)
    BY <1>1, <1>3, <2>3, <2>7 DEF Along, OffsetsMoveForward, Offsets, Absolute, d
  <2>8. ASSUME NEW i \in 1 .. n
        PROVE  /\ o[i] \in Offsets
               /\ OffsetsMoveForward(map, l, from, o[i])
               /\ OffsetsMoveForward(map, l, o[i], to)
    <3>1. CASE i = n
      BY <1>3, <3>1 DEF OffsetsMoveForward, Offsets
    <3>2. CASE i # n
      <4>1. o[i] = Along(l, from, (i - 1) * st)
        BY <3>2
      <4> QED
        BY <2>6, <2>7, <3>2, <4>1
    <3> QED
      BY <3>1, <3>2
  <2>9. ASSUME NEW i \in 1 .. n, NEW k \in 1 .. n, i < k
        PROVE  OffsetsMoveForward(map, l, o[i], o[k])
    <3>1. CASE k = n
      BY <2>8, <3>1
    <3>2. CASE k # n
      <4>1. o[i] = Along(l, from, (i - 1) * st) /\ o[k] = Along(l, from, (k - 1) * st)
        BY <2>4, <2>9, <3>2
      <4>2. (i - 1) * st <= (k - 1) * st
        BY <2>2, <2>4, <2>9, ProductGrows
      <4>3. (i - 1) * st \in Nat /\ (k - 1) * st \in Nat
        BY <2>2, <2>4, ProductIsNatural
      <4> QED
        BY <1>3, <4>1, <4>2, <4>3 DEF Along, OffsetsMoveForward
    <3> QED
      BY <3>1, <3>2
  <2>10. o \in [1 .. n -> Offsets] /\ o[n] = to
    BY <2>5, <2>8
  <2>11. Len(o) = n
    BY <2>5, <2>10, SequenceOfFunction
  <2> HIDE DEF o, n
  <2> QED
    BY <2>1, <2>5, <2>8, <2>9, <2>10, <2>11
<1> QED
  BY <1>4, <1>5

-----------------------------------------------------------------------------
(* The samples of a step.                                                  *)

Samples == [position : Int \X Int, lane : map.lanes, offset : Offsets]

(* The offset on the lane where a step ends from which its samples go on.   *)
FirstOffset(s) == IF s.type = "lane_segment" THEN s.fromOffset ELSE s.toOffset

SamplesOf(s) == IF s.type = "lane_segment" THEN SegmentSamples(s) ELSE ConnectorSamples(s)

(* The sample x lies on its lane, or on the way of the lane change s.       *)
LiesOn(x, s) ==
  \/ x.position = Centre(map, x.lane, x.offset)
  \/ /\ s.type # "lane_segment"
     /\ x.offset = s.toOffset
     /\ \A d \in 1 .. 2 : Between(Centre(map, s.fromLane, s.fromOffset)[d], x.position[d],
                                  Centre(map, s.toLane, s.toOffset)[d])

(* The samples of a step are on the lane where it ends, in the direction of  *)
(* that lane, and the last one is at its end.                                *)
AreSamplesOf(t, s) ==
  /\ t \in Seq(Samples)
  /\ \A i \in 1 .. Len(t) :
       /\ t[i].lane = s.toLane
       /\ OffsetsMoveForward(map, s.toLane, FirstOffset(s), t[i].offset)
       /\ OffsetsMoveForward(map, s.toLane, t[i].offset, s.toOffset)
       /\ LiesOn(t[i], s)
  /\ \A i, k \in 1 .. Len(t) :
       i < k => OffsetsMoveForward(map, s.toLane, t[i].offset, t[k].offset)
  /\ t # << >> => t[Len(t)].position = Centre(map, s.toLane, s.toOffset)

LEMMA CentresAreNumbers ==
  ASSUME TypeOK, NEW l \in map.lanes, NEW offset \in Offsets
  PROVE  Centre(map, l, offset) \in Int \X Int
BY SamplerAssumption, TaskFacts

LEMMA SamplesOfSegment ==
  ASSUME TypeOK, NEW s \in RouteSteps, s.type = "lane_segment", DrivesForward(map, s)
  PROVE  AreSamplesOf(SegmentSamples(s), s) /\ SegmentSamples(s) # << >>
<1> DEFINE l == s.toLane
           from == s.fromOffset
           to == s.toOffset
           o == SampleLaneOffsets(l, from, to)
<1>1. /\ l \in map.lanes /\ from \in Offsets /\ to \in Offsets
      /\ OffsetsMoveForward(map, l, from, to)
  BY DEF RouteSteps, DrivesForward
<1>2. FirstOffset(s) = from
  BY DEF FirstOffset
<1> HIDE DEF l, from, to
<1>3. PICK n \in Nat :
        /\ n >= 1
        /\ o \in [1 .. n -> Offsets]
        /\ Len(o) = n
        /\ o[n] = to
        /\ \A i \in 1 .. n : /\ OffsetsMoveForward(map, l, from, o[i])
                             /\ OffsetsMoveForward(map, l, o[i], to)
        /\ \A i, k \in 1 .. n : i < k => OffsetsMoveForward(map, l, o[i], o[k])
  BY <1>1, SampledOffsets
<1> DEFINE t == [i \in 1 .. n |-> Sample(Centre(map, l, o[i]), l, o[i])]
<1>4. SegmentSamples(s) = t
  BY <1>3 DEF SegmentSamples, l, from, to
<1> HIDE DEF o
<1>5. ASSUME NEW i \in 1 .. n
      PROVE  /\ t[i] \in Samples
             /\ t[i].position = Centre(map, l, o[i])
             /\ t[i].lane = l
             /\ t[i].offset = o[i]
  <2>1. o[i] \in Offsets
    BY <1>3
  <2>2. Centre(map, l, o[i]) \in Int \X Int
    BY <1>1, <2>1, CentresAreNumbers
  <2>3. t[i] = [position |-> Centre(map, l, o[i]), lane |-> l, offset |-> o[i]]
    BY DEF Sample
  <2> QED
    BY <1>1, <2>1, <2>2, <2>3 DEF Samples
<1>6. t \in [1 .. n -> Samples]
  BY <1>5
<1> HIDE DEF t
<1>7. t \in Seq(Samples) /\ Len(t) = n
  BY <1>6, SequenceOfFunction
<1>8. \A i \in 1 .. n : LiesOn(t[i], s)
  BY <1>5 DEF LiesOn
<1>9. t # << >>
  BY <1>3, <1>7, EmptySeq
<1>10. n \in 1 .. n
  BY <1>3
<1>11. t[Len(t)].position = Centre(map, l, to)
  BY <1>3, <1>5, <1>7, <1>10
<1>12. AreSamplesOf(t, s)
  BY <1>2, <1>3, <1>5, <1>7, <1>8, <1>11 DEF AreSamplesOf, l, to
<1> QED
  BY <1>4, <1>9, <1>12

LEMMA SamplesOfConnector ==
  ASSUME TypeOK, NEW s \in RouteSteps, s.type # "lane_segment"
  PROVE  AreSamplesOf(ConnectorSamples(s), s) /\ ConnectorSamples(s) # << >>
<1> DEFINE p == Centre(map, s.fromLane, s.fromOffset)
           q == Centre(map, s.toLane, s.toOffset)
           n == IF WholeSpacings(p, q) >= 1 THEN WholeSpacings(p, q) + 1 ELSE 2
           at(i) == << p[1] + ((q[1] - p[1]) * i) \div n, p[2] + ((q[2] - p[2]) * i) \div n >>
           l == s.toLane
           to == s.toOffset
           t == [i \in 1 .. n |-> Sample(at(i), l, to)]
<1>1. s.fromLane \in map.lanes /\ s.fromOffset \in Offsets /\ l \in map.lanes /\ to \in Offsets
  BY DEF RouteSteps
<1>2. p \in Int \X Int /\ q \in Int \X Int
  BY <1>1, CentresAreNumbers
<1>3. ConnectorSamples(s) = t
  BY DEF ConnectorSamples
<1>4. FirstOffset(s) = to
  BY DEF FirstOffset
<1>5. OffsetsMoveForward(map, l, to, to)
  BY <1>1, ScaleAssumption DEF OffsetsMoveForward, Offsets
<1> HIDE DEF l, to, p, q
<1>6. n \in Nat /\ n >= 1
  <2>1. WholeSpacings(p, q) \in Nat
    BY <1>2, WholeSpacingsExist
  <2> QED
    BY <2>1
<1> HIDE DEF n
<1>7. ASSUME NEW i \in 1 .. n, NEW d \in 1 .. 2
      PROVE  /\ at(i)[d] \in Int
             /\ Between(p[d], at(i)[d], q[d])
             /\ i = n => at(i)[d] = q[d]
  <2> DEFINE a == q[d] - p[d]
  <2>1. p[d] \in Int /\ q[d] \in Int /\ a \in Int
    BY <1>2
  <2>2. at(i)[d] = p[d] + (a * i) \div n
    <3>1. d = 1 \/ d = 2
      OBVIOUS
    <3> QED
      BY <3>1
  <2>3. /\ (a * i) \div n \in Int
        /\ a >= 0 => 0 <= (a * i) \div n /\ (a * i) \div n <= a
        /\ a <= 0 => a <= (a * i) \div n /\ (a * i) \div n <= 0
        /\ i = n => (a * i) \div n = a
    <3> HIDE DEF a
    <3> QED
      BY <1>6, <2>1, PartOfWay
  <2> DEFINE part == (a * i) \div n
  <2>4. part = (a * i) \div n
    OBVIOUS
  <2> HIDE DEF part
  <2>5. at(i)[d] = p[d] + part
    BY <2>2, <2>4
  <2> HIDE DEF at
  <2> QED
    BY <2>1, <2>3, <2>4, <2>5 DEF Between
<1>8. ASSUME NEW i \in 1 .. n
      PROVE  at(i) \in Int \X Int /\ (i = n => at(i) = q)
  <2>1. at(i)[1] \in Int /\ at(i)[2] \in Int /\ at(i) = <<at(i)[1], at(i)[2]>>
    BY <1>7
  <2>2. i = n => at(i)[1] = q[1] /\ at(i)[2] = q[2]
    BY <1>7
  <2>3. q = <<q[1], q[2]>>
    BY <1>2
  <2> HIDE DEF at
  <2> QED
    BY <2>1, <2>2, <2>3
<1> HIDE DEF at
<1>9. ASSUME NEW i \in 1 .. n
      PROVE  /\ t[i] \in Samples
             /\ t[i].position = at(i)
             /\ t[i].lane = l
             /\ t[i].offset = to
  <2>1. t[i] = [position |-> at(i), lane |-> l, offset |-> to]
    BY DEF Sample
  <2> QED
    BY <1>1, <1>8, <2>1 DEF Samples, l, to
<1>10. t \in [1 .. n -> Samples]
  BY <1>9
<1> HIDE DEF t
<1>11. t \in Seq(Samples) /\ Len(t) = n
  BY <1>6, <1>10, SequenceOfFunction
<1>12. \A i \in 1 .. n : LiesOn(t[i], s)
  BY <1>7, <1>9 DEF LiesOn, p, q, to
<1>13. t # << >>
  BY <1>6, <1>11, EmptySeq
<1>14. n \in 1 .. n
  BY <1>6
<1>15. t[Len(t)].position = q
  BY <1>8, <1>9, <1>11, <1>14
<1>16. AreSamplesOf(t, s)
  BY <1>4, <1>5, <1>9, <1>11, <1>12, <1>15 DEF AreSamplesOf, l, to, q
<1> QED
  BY <1>3, <1>13, <1>16

LEMMA SamplesOfStep ==
  ASSUME TypeOK, NEW s \in RouteSteps, DrivesForward(map, s)
  PROVE  AreSamplesOf(SamplesOf(s), s) /\ SamplesOf(s) # << >>
BY SamplesOfSegment, SamplesOfConnector DEF SamplesOf

-----------------------------------------------------------------------------
(* Places along the lane path.                                             *)

(* On the way along the lane path the offset a of its m-th lane is not      *)
(* after the offset b of its n-th.                                          *)
NotAfter(m, a, n, b) ==
  m < n \/ (m = n /\ OffsetsMoveForward(map, task.path[m], a, b))

LEMMA NotAfterIsTransitive ==
  ASSUME NEW m \in Int, NEW n \in Int, NEW k \in Int,
         NEW a \in Offsets, NEW b \in Offsets, NEW c \in Offsets,
         NotAfter(m, a, n, b), NotAfter(n, b, k, c)
  PROVE  NotAfter(m, a, k, c)
<1>1. a \in Nat /\ b \in Nat /\ c \in Nat
  BY ScaleAssumption DEF Offsets
<1> QED
  BY <1>1 DEF NotAfter, OffsetsMoveForward

LEMMA NotAfterIsReflexive ==
  ASSUME NEW m \in Int, NEW a \in Offsets
  PROVE  NotAfter(m, a, m, a)
<1>1. a \in Nat
  BY ScaleAssumption DEF Offsets
<1> QED
  BY <1>1 DEF NotAfter, OffsetsMoveForward

(* The steps s lie along the lane path, at the lanes that at names.         *)
Placed(s, at) ==
  /\ at \in [1 .. Len(s) -> 1 .. Len(task.path)]
  /\ \A i \in 1 .. Len(s) :
       /\ s[i].toLane = task.path[at[i]]
       /\ NotAfter(1, task.startOffset, at[i], FirstOffset(s[i]))
  /\ \A i, k \in 1 .. Len(s) :
       i < k => NotAfter(at[i], s[i].toOffset, at[k], FirstOffset(s[k]))

(* None of the steps ends after the offset o of the n-th lane.              *)
EndBefore(s, at, n, o) == \A i \in 1 .. Len(s) : NotAfter(at[i], s[i].toOffset, n, o)

LEMMA StepPlaced ==
  ASSUME NEW s \in Seq(RouteSteps), NEW at, Placed(s, at),
         NEW x \in RouteSteps, NEW n \in 1 .. Len(task.path),
         x.toLane = task.path[n],
         NotAfter(1, task.startOffset, n, FirstOffset(x)),
         EndBefore(s, at, n, FirstOffset(x))
  PROVE  \E to : /\ Placed(Append(s, x), to)
                 /\ \A k, o : EndBefore(s, at, k, o) /\ NotAfter(n, x.toOffset, k, o) =>
                      EndBefore(Append(s, x), to, k, o)
<1> DEFINE t == Append(s, x)
           N == Len(s) + 1
           to == [i \in 1 .. N |-> IF i = N THEN n ELSE at[i]]
<1>1. /\ Len(s) \in Nat
      /\ Len(t) = N
      /\ \A i \in 1 .. Len(s) : t[i] = s[i]
      /\ t[N] = x
  BY OneStepAdded
<1>2. \A i \in 1 .. N : i \in 1 .. Len(s) \/ i = N
  BY <1>1
<1>3. at \in [1 .. Len(s) -> 1 .. Len(task.path)]
  BY DEF Placed
<1>4. to \in [1 .. N -> 1 .. Len(task.path)]
  BY <1>2, <1>3
<1>5. to[N] = n /\ \A i \in 1 .. Len(s) : to[i] = at[i]
  BY <1>1
<1> HIDE DEF t, to
<1>6. ASSUME NEW i \in 1 .. N
      PROVE  /\ t[i].toLane = task.path[to[i]]
             /\ NotAfter(1, task.startOffset, to[i], FirstOffset(t[i]))
  <2>1. CASE i = N
    BY <1>1, <1>5, <2>1
  <2>2. CASE i \in 1 .. Len(s)
    BY <1>1, <1>5, <2>2 DEF Placed
  <2> QED
    BY <1>2, <2>1, <2>2
<1>7. ASSUME NEW i \in 1 .. N, NEW k \in 1 .. N, i < k
      PROVE  NotAfter(to[i], t[i].toOffset, to[k], FirstOffset(t[k]))
  <2>1. i \in 1 .. Len(s)
    BY <1>1, <1>7
  <2>2. CASE k = N
    BY <1>1, <1>5, <2>1, <2>2 DEF EndBefore
  <2>3. CASE k \in 1 .. Len(s)
    BY <1>1, <1>5, <1>7, <2>1, <2>3 DEF Placed
  <2> QED
    BY <1>2, <2>2, <2>3
<1>8. Placed(t, to)
  BY <1>1, <1>4, <1>6, <1>7 DEF Placed
<1>9. ASSUME NEW k, NEW o, EndBefore(s, at, k, o), NotAfter(n, x.toOffset, k, o)
      PROVE  EndBefore(t, to, k, o)
  <2> SUFFICES ASSUME NEW i \in 1 .. N PROVE NotAfter(to[i], t[i].toOffset, k, o)
    BY <1>1 DEF EndBefore
  <2>1. CASE i = N
    BY <1>1, <1>5, <1>9, <2>1
  <2>2. CASE i \in 1 .. Len(s)
    BY <1>1, <1>5, <1>9, <2>2 DEF EndBefore
  <2> QED
    BY <1>2, <2>1, <2>2
<1> QED
  BY <1>8, <1>9 DEF t

(* The steps built so far lie along the path, up to where the builder is.   *)
BuiltAlong ==
  /\ NotAfter(1, task.startOffset, index, currentOffset)
  /\ \E at : /\ Placed(steps, at)
             /\ IF result = "built"
                THEN EndBefore(steps, at, Len(task.path), task.goalOffset)
                ELSE EndBefore(steps, at, index, currentOffset)

LEMMA BuiltAlongInit ==
  Init => BuiltAlong
<1> SUFFICES ASSUME Init PROVE BuiltAlong
  OBVIOUS
<1>1. TypeOK
  BY InvInit DEF Inv
<1>2. Len(steps) = 0 /\ index = 1 /\ currentOffset = task.startOffset
  BY EmptySeq DEF Init
<1>3. NotAfter(1, task.startOffset, 1, task.startOffset)
  <2>1. task.startOffset \in Offsets /\ 1 \in Int
    <3>1. IsTask(map, task)
      BY <1>1 DEF TypeOK
    <3> QED
      BY <3>1 DEF IsTask
  <2> QED
    BY <2>1, NotAfterIsReflexive
<1> DEFINE at == [i \in 1 .. 0 |-> 1]
<1>4. Placed(steps, at) /\ \A n, o : EndBefore(steps, at, n, o)
  BY <1>2 DEF Placed, EndBefore
<1> QED
  BY <1>2, <1>3, <1>4 DEF BuiltAlong

LEMMA BuiltAlongStep ==
  ASSUME Inv, BuiltAlong, Next
  PROVE  BuiltAlong'
<1>1. TypeOK
  BY DEF Inv
<1>2. /\ map' = map /\ task' = task
  BY DEF Next, FinishOnGoalLane, GoalBehind, DriveForward, ChangeLane, ChangeBehind, Raise
<1>3. PICK at : /\ Placed(steps, at)
                /\ result # "built" => EndBefore(steps, at, index, currentOffset)
  BY DEF BuiltAlong
<1>4. result = "building"
  BY DEF Next, FinishOnGoalLane, GoalBehind, DriveForward, ChangeLane, ChangeBehind
<1>5. EndBefore(steps, at, index, currentOffset)
  BY <1>3, <1>4
<1>6. /\ steps \in Seq(RouteSteps) /\ index \in 1 .. Len(task.path) /\ Len(task.path) \in Nat
      /\ currentOffset \in Offsets /\ task.startOffset \in Offsets /\ task.goalOffset \in Offsets
  <2>1. Len(task.path) \in Nat
    BY <1>1, TaskFacts
  <2> QED
    BY <1>1, <2>1 DEF TypeOK, IsTask
<1>7. ASSUME NEW to, Placed(steps', to), NotAfter(1, task.startOffset, index', currentOffset'),
             IF result' = "built"
             THEN EndBefore(steps', to, Len(task.path), task.goalOffset)
             ELSE EndBefore(steps', to, index', currentOffset')
      PROVE  BuiltAlong'
  <2>1. \A m, a, n, b : NotAfter(m, a, n, b)' <=> NotAfter(m, a, n, b)
    BY <1>2 DEF NotAfter, OffsetsMoveForward, LaneIsPositive
  <2>2. Placed(steps, to)'
    BY <1>2, <1>7, <2>1 DEF Placed, FirstOffset
  <2>3. NotAfter(1, task.startOffset, index, currentOffset)'
    BY <1>2, <1>7, <2>1
  <2>4. IF result' = "built"
        THEN EndBefore(steps, to, Len(task.path), task.goalOffset)'
        ELSE EndBefore(steps, to, index, currentOffset)'
    BY <1>2, <1>7, <2>1 DEF EndBefore
  <2> QED
    BY <2>2, <2>3, <2>4 DEF BuiltAlong
<1>8. \A i \in 1 .. Len(steps) : at[i] \in Int /\ at[i] <= index
  BY <1>3, <1>5, <1>6 DEF Placed, EndBefore, NotAfter
<1>9. \A o : EndBefore(steps, at, index + 1, o)
  BY <1>6, <1>8 DEF EndBefore, NotAfter
<1>10. ASSUME NEW to \in Offsets, LaneSegment(currentOffset, to) \in RouteSteps
       PROVE  \E on : /\ Placed(Append(steps, LaneSegment(currentOffset, to)), on)
                      /\ \A k, o : EndBefore(steps, at, k, o) /\ NotAfter(index, to, k, o) =>
                           EndBefore(Append(steps, LaneSegment(currentOffset, to)), on, k, o)
  <2> DEFINE x == LaneSegment(currentOffset, to)
  <2>1. FirstOffset(x) = currentOffset /\ x.toLane = task.path[index] /\ x.toOffset = to
    BY DEF LaneSegment, FirstOffset, Lane
  <2> HIDE DEF x
  <2>2. NotAfter(1, task.startOffset, index, currentOffset)
    BY DEF BuiltAlong
  <2>3. x \in RouteSteps
    BY <1>10 DEF x
  <2>4. \E on : /\ Placed(Append(steps, x), on)
                /\ \A k, o : EndBefore(steps, at, k, o) /\ NotAfter(index, x.toOffset, k, o) =>
                     EndBefore(Append(steps, x), on, k, o)
    BY <1>3, <1>5, <1>6, <2>1, <2>2, <2>3, StepPlaced
  <2> QED
    BY <2>1, <2>4 DEF x
<1>11. CASE FinishOnGoalLane
  <2>1. /\ steps' = Append(steps, LaneSegment(currentOffset, task.goalOffset))
        /\ result' = "built" /\ index' = index /\ currentOffset' = currentOffset
        /\ index = Len(task.path)
    BY <1>11 DEF FinishOnGoalLane, OnGoalLane
  <2>2. OffsetsMoveForward(map, Lane, currentOffset, task.goalOffset)
    BY <1>11 DEF FinishOnGoalLane, GoalIsAhead
  <2>3. LaneSegment(currentOffset, task.goalOffset) \in RouteSteps
    BY <1>1, <1>6, <2>2, SegmentFacts
  <2>4. NotAfter(index, currentOffset, Len(task.path), task.goalOffset)
    BY <2>1, <2>2 DEF NotAfter, Lane
  <2>5. EndBefore(steps, at, Len(task.path), task.goalOffset)
    <3> SUFFICES ASSUME NEW i \in 1 .. Len(steps)
                 PROVE  NotAfter(at[i], steps[i].toOffset, Len(task.path), task.goalOffset)
      BY DEF EndBefore
    <3>1. steps[i] \in RouteSteps
      BY <1>6, ElementOfSeq
    <3>2. steps[i].toOffset \in Offsets
      BY <3>1 DEF RouteSteps
    <3>3. NotAfter(at[i], steps[i].toOffset, index, currentOffset)
      BY <1>5 DEF EndBefore
    <3> QED
      BY <1>6, <1>8, <2>4, <3>2, <3>3, NotAfterIsTransitive
  <2>6. NotAfter(index, task.goalOffset, Len(task.path), task.goalOffset)
    BY <1>6, <2>1, NotAfterIsReflexive
  <2>7. NotAfter(1, task.startOffset, index', currentOffset')
    BY <2>1 DEF BuiltAlong
  <2> QED
    BY <1>6, <1>7, <1>10, <2>1, <2>3, <2>5, <2>6, <2>7
<1>12. CASE GoalBehind \/ ChangeBehind
  <2>1. UNCHANGED <<steps, index, currentOffset>> /\ result' # "built"
    BY <1>12 DEF GoalBehind, ChangeBehind, Raise
  <2> QED
    BY <1>3, <1>5, <1>7, <2>1 DEF BuiltAlong
<1>13. CASE DriveForward
  <2> DEFINE end == TravelEndOffset(map, Lane)
  <2>1. /\ steps' = Append(steps, LaneSegment(currentOffset, end))
        /\ result' = result /\ index' = index + 1
    BY <1>13 DEF DriveForward
  <2>2. end \in Offsets /\ OffsetsMoveForward(map, Lane, currentOffset, end)
    BY <1>1, EndIsAhead
  <2>3. LaneSegment(currentOffset, end) \in RouteSteps
    BY <1>1, <2>2, SegmentFacts
  <2> HIDE DEF end
  <2>4. NotAfter(index, end, index', currentOffset') /\ NotAfter(1, task.startOffset, index', currentOffset')
    BY <1>6, <2>1 DEF NotAfter
  <2>5. EndBefore(steps, at, index', currentOffset')
    BY <1>9, <2>1
  <2> QED
    BY <1>4, <1>7, <1>10, <2>1, <2>2, <2>3, <2>4, <2>5
<1>14. CASE ChangeLane
  <2>1. /\ steps' = steps \o << LaneSegment(currentOffset, ChangeFrom),
                                LaneChange(ChangeFrom, ChangeTo) >>
        /\ result' = result /\ index' = index + 1 /\ currentOffset' = ChangeTo
        /\ OffsetsMoveForward(map, Lane, currentOffset, ChangeFrom)
        /\ ~ OnGoalLane /\ task.types[index] = "lane_change"
    BY <1>14 DEF ChangeLane
  <2>2. index + 1 \in 1 .. Len(task.path)
    BY <1>6, <2>1 DEF OnGoalLane
  <2>3. LaneChange(ChangeFrom, ChangeTo) \in RouteSteps
    BY <1>1, <2>1, ChangeStepFacts
  <2>4. ChangeFrom \in Offsets /\ ChangeTo \in Offsets
    BY <2>3 DEF LaneChange, RouteSteps
  <2>5. LaneSegment(currentOffset, ChangeFrom) \in RouteSteps
    BY <1>1, <2>1, <2>4, SegmentFacts
  <2> DEFINE seg == LaneSegment(currentOffset, ChangeFrom)
             change == LaneChange(ChangeFrom, ChangeTo)
             mid == Append(steps, seg)
  <2>6. /\ change.toLane = task.path[index + 1] /\ change.toOffset = ChangeTo
        /\ FirstOffset(change) = ChangeTo
    BY DEF LaneChange, NextLane, FirstOffset
  <2>7. PICK on : /\ Placed(mid, on)
                  /\ \A k, o : EndBefore(steps, at, k, o) /\ NotAfter(index, ChangeFrom, k, o) =>
                       EndBefore(mid, on, k, o)
    BY <1>10, <2>4, <2>5
  <2>8. NotAfter(index, ChangeFrom, index + 1, ChangeTo)
        /\ NotAfter(1, task.startOffset, index + 1, ChangeTo)
    BY <1>6 DEF NotAfter
  <2>9. EndBefore(mid, on, index + 1, ChangeTo)
    BY <1>9, <2>7, <2>8
  <2>10. mid \in Seq(RouteSteps)
    BY <1>6, <2>5, OneStepAdded
  <2>11. steps' = Append(mid, change)
    BY <1>6, <2>1, <2>3, <2>5, TwoStepsAdded
  <2>12. change \in RouteSteps
    BY <2>3
  <2> HIDE DEF mid, change
  <2>13. PICK to : /\ Placed(Append(mid, change), to)
                   /\ \A k, o : EndBefore(mid, on, k, o) /\ NotAfter(index + 1, change.toOffset, k, o) =>
                        EndBefore(Append(mid, change), to, k, o)
    BY <2>2, <2>6, <2>7, <2>8, <2>9, <2>10, <2>12, StepPlaced
  <2>14. NotAfter(index + 1, ChangeTo, index + 1, ChangeTo)
    BY <2>2, <2>4, NotAfterIsReflexive
  <2>15. EndBefore(steps', to, index', currentOffset')
    BY <2>1, <2>6, <2>9, <2>11, <2>13, <2>14
  <2> QED
    BY <1>4, <1>7, <2>1, <2>8, <2>11, <2>13, <2>15
<1> QED
  BY <1>11, <1>12, <1>13, <1>14 DEF Next

-----------------------------------------------------------------------------
(* The points and their records.                                           *)

(* There is a record t[i] with each point ps[i], and it stands for it.      *)
Recorded(t, ps) ==
  /\ t \in Seq(Samples)
  /\ ps \in Seq(Int \X Int)
  /\ Len(t) = Len(ps)
  /\ \A i \in 1 .. Len(t) : StandsFor(t[i], ps[i])

(* The records t lie along the lane path, at the lanes that at names.       *)
RecordsPlaced(t, at) ==
  /\ at \in [1 .. Len(t) -> 1 .. Len(task.path)]
  /\ \A i \in 1 .. Len(t) : t[i].lane = task.path[at[i]]
  /\ \A i, k \in 1 .. Len(t) : i < k => NotAfter(at[i], t[i].offset, at[k], t[k].offset)

(* None of the records is after the offset o of the n-th lane.              *)
RecordsBefore(t, at, n, o) == \A i \in 1 .. Len(t) : NotAfter(at[i], t[i].offset, n, o)

RecordsFromStart(t, at) ==
  \A i \in 1 .. Len(t) : NotAfter(1, task.startOffset, at[i], t[i].offset)

SampledIn(ps, p) == \E i \in 1 .. Len(ps) : PointsAreClose(ps[i], p)

LEMMA PutInFront ==
  ASSUME NEW S, NEW s \in Seq(S), NEW a \in S
  PROVE  /\ <<a>> \o s \in Seq(S)
         /\ Len(s) \in Nat
         /\ Len(<<a>> \o s) = Len(s) + 1
         /\ (<<a>> \o s)[1] = a
         /\ \A i \in 2 .. Len(s) + 1 : (<<a>> \o s)[i] = s[i - 1]
<1>1. <<a>> \in Seq(S) /\ Len(<<a>>) = 1 /\ <<a>>[1] = a /\ Len(s) \in Nat
  OBVIOUS
<1> QED
  BY <1>1, ConcatProperties

LEMMA PointIsCloseToItself ==
  ASSUME NEW p \in Int \X Int
  PROVE  PointsAreClose(p, p)
<1>1. p[1] \in Int /\ p[2] \in Int /\ Tolerance \in Nat
  BY SamplerAssumption
<1> QED
  BY <1>1 DEF PointsAreClose, Absolute

LEMMA RecordAdded ==
  ASSUME NEW t, NEW ps, Recorded(t, ps), NEW at, RecordsPlaced(t, at),
         NEW x \in Samples, NEW n \in 1 .. Len(task.path), x.lane = task.path[n],
         RecordsBefore(t, at, n, x.offset), StandsFor(x, x.position)
  PROVE  /\ Recorded(Append(t, x), Append(ps, x.position))
         /\ \E to :
              /\ RecordsPlaced(Append(t, x), to)
              /\ \A k, o : RecordsBefore(t, at, k, o) /\ NotAfter(n, x.offset, k, o) =>
                             RecordsBefore(Append(t, x), to, k, o)
              /\ RecordsFromStart(t, at) /\ NotAfter(1, task.startOffset, n, x.offset) =>
                   RecordsFromStart(Append(t, x), to)
<1> DEFINE u == Append(t, x)
           q == x.position
           us == Append(ps, q)
           N == Len(t) + 1
           to == [i \in 1 .. N |-> IF i = N THEN n ELSE at[i]]
<1>1. t \in Seq(Samples) /\ ps \in Seq(Int \X Int) /\ Len(ps) = Len(t) /\ q \in Int \X Int
  BY DEF Recorded, Samples
<1> HIDE DEF q
<1>2. /\ u \in Seq(Samples)
      /\ Len(t) \in Nat
      /\ Len(u) = N
      /\ \A i \in 1 .. Len(t) : u[i] = t[i]
      /\ u[N] = x
  BY <1>1, OneStepAdded
<1>3. /\ us \in Seq(Int \X Int)
      /\ Len(us) = N
      /\ \A i \in 1 .. Len(t) : us[i] = ps[i]
      /\ us[N] = q
  <2>1. /\ us \in Seq(Int \X Int)
        /\ Len(us) = Len(ps) + 1
        /\ \A i \in 1 .. Len(ps) : us[i] = ps[i]
        /\ us[Len(ps) + 1] = q
    BY <1>1, OneStepAdded
  <2> QED
    BY <1>1, <2>1
<1>4. \A i \in 1 .. N : i \in 1 .. Len(t) \/ i = N
  BY <1>2
<1>5. at \in [1 .. Len(t) -> 1 .. Len(task.path)]
  BY DEF RecordsPlaced
<1>6. to \in [1 .. N -> 1 .. Len(task.path)]
  BY <1>4, <1>5
<1>7. to[N] = n /\ \A i \in 1 .. Len(t) : to[i] = at[i]
  BY <1>2
<1> HIDE DEF u, us, to
<1>8. \A i \in 1 .. N : StandsFor(u[i], us[i])
  BY <1>2, <1>3, <1>4 DEF Recorded, q
<1>9. Recorded(u, us)
  BY <1>2, <1>3, <1>8 DEF Recorded
<1>10. ASSUME NEW i \in 1 .. N PROVE u[i].lane = task.path[to[i]]
  <2>1. CASE i = N
    BY <1>2, <1>7, <2>1
  <2>2. CASE i \in 1 .. Len(t)
    BY <1>2, <1>7, <2>2 DEF RecordsPlaced
  <2> QED
    BY <1>4, <2>1, <2>2
<1>11. ASSUME NEW i \in 1 .. N, NEW k \in 1 .. N, i < k
       PROVE  NotAfter(to[i], u[i].offset, to[k], u[k].offset)
  <2>1. i \in 1 .. Len(t)
    BY <1>2, <1>11
  <2>2. CASE k = N
    BY <1>2, <1>7, <2>1, <2>2 DEF RecordsBefore
  <2>3. CASE k \in 1 .. Len(t)
    BY <1>2, <1>7, <1>11, <2>1, <2>3 DEF RecordsPlaced
  <2> QED
    BY <1>4, <2>2, <2>3
<1>12. RecordsPlaced(u, to)
  BY <1>2, <1>6, <1>10, <1>11 DEF RecordsPlaced
<1>13. ASSUME NEW k, NEW o, RecordsBefore(t, at, k, o), NotAfter(n, x.offset, k, o)
       PROVE  RecordsBefore(u, to, k, o)
  BY <1>2, <1>4, <1>7, <1>13 DEF RecordsBefore
<1>14. ASSUME RecordsFromStart(t, at), NotAfter(1, task.startOffset, n, x.offset)
       PROVE  RecordsFromStart(u, to)
  BY <1>2, <1>4, <1>7, <1>14 DEF RecordsFromStart
<1> QED
  BY <1>9, <1>12, <1>13, <1>14 DEF u, us, q

LEMMA RecordInserted ==
  ASSUME NEW t, NEW ps, Recorded(t, ps), NEW at, RecordsPlaced(t, at),
         NEW x \in Samples, 1 \in 1 .. Len(task.path), x.lane = task.path[1],
         x.offset = task.startOffset, RecordsFromStart(t, at), StandsFor(x, x.position)
  PROVE  /\ Recorded(<<x>> \o t, <<x.position>> \o ps)
         /\ \E to :
              /\ RecordsPlaced(<<x>> \o t, to)
              /\ \A k, o : RecordsBefore(t, at, k, o) /\ NotAfter(1, x.offset, k, o) =>
                             RecordsBefore(<<x>> \o t, to, k, o)
<1> DEFINE q == x.position
           u == <<x>> \o t
           us == <<q>> \o ps
           N == Len(t) + 1
           to == [i \in 1 .. N |-> IF i = 1 THEN 1 ELSE at[i - 1]]
<1>1. t \in Seq(Samples) /\ ps \in Seq(Int \X Int) /\ Len(ps) = Len(t) /\ q \in Int \X Int
  BY DEF Recorded, Samples
<1> HIDE DEF q
<1>2. /\ u \in Seq(Samples)
      /\ Len(t) \in Nat
      /\ Len(u) = N
      /\ u[1] = x
      /\ \A i \in 2 .. N : u[i] = t[i - 1]
  BY <1>1, PutInFront
<1>3. /\ us \in Seq(Int \X Int)
      /\ Len(us) = N
      /\ us[1] = q
      /\ \A i \in 2 .. N : us[i] = ps[i - 1]
  <2>1. /\ us \in Seq(Int \X Int)
        /\ Len(us) = Len(ps) + 1
        /\ us[1] = q
        /\ \A i \in 2 .. Len(ps) + 1 : us[i] = ps[i - 1]
    BY <1>1, PutInFront
  <2> QED
    BY <1>1, <2>1
<1>4. \A i \in 1 .. N : i = 1 \/ (i \in 2 .. N /\ i - 1 \in 1 .. Len(t))
  BY <1>2
<1>5. at \in [1 .. Len(t) -> 1 .. Len(task.path)]
  BY DEF RecordsPlaced
<1>6. to \in [1 .. N -> 1 .. Len(task.path)]
  BY <1>4, <1>5
<1>7. to[1] = 1 /\ \A i \in 2 .. N : to[i] = at[i - 1]
  BY <1>2
<1> HIDE DEF u, us, to
<1>8. \A i \in 1 .. N : StandsFor(u[i], us[i])
  BY <1>2, <1>3, <1>4 DEF Recorded, q
<1>9. Recorded(u, us)
  BY <1>2, <1>3, <1>8 DEF Recorded
<1>10. ASSUME NEW i \in 1 .. N PROVE u[i].lane = task.path[to[i]]
  <2>1. CASE i = 1
    BY <1>2, <1>7, <2>1
  <2>2. CASE i \in 2 .. N /\ i - 1 \in 1 .. Len(t)
    BY <1>2, <1>7, <2>2 DEF RecordsPlaced
  <2> QED
    BY <1>4, <2>1, <2>2
<1>11. ASSUME NEW i \in 1 .. N, NEW k \in 1 .. N, i < k
       PROVE  NotAfter(to[i], u[i].offset, to[k], u[k].offset)
  <2>1. k \in 2 .. N /\ k - 1 \in 1 .. Len(t)
    BY <1>4, <1>11
  <2>2. CASE i = 1
    BY <1>2, <1>7, <2>1, <2>2 DEF RecordsFromStart
  <2>3. CASE i \in 2 .. N /\ i - 1 \in 1 .. Len(t)
    <3>1. i - 1 < k - 1
      BY <1>11
    <3> QED
      BY <1>2, <1>7, <2>1, <2>3, <3>1 DEF RecordsPlaced
  <2> QED
    BY <1>4, <2>2, <2>3
<1>12. RecordsPlaced(u, to)
  BY <1>2, <1>6, <1>10, <1>11 DEF RecordsPlaced
<1>13. ASSUME NEW k, NEW o, RecordsBefore(t, at, k, o), NotAfter(1, x.offset, k, o)
       PROVE  RecordsBefore(u, to, k, o)
  <2> SUFFICES ASSUME NEW i \in 1 .. N PROVE NotAfter(to[i], u[i].offset, k, o)
    BY <1>2 DEF RecordsBefore
  <2>1. CASE i = 1
    BY <1>2, <1>7, <1>13, <2>1
  <2>2. CASE i \in 2 .. N /\ i - 1 \in 1 .. Len(t)
    BY <1>2, <1>7, <1>13, <2>2 DEF RecordsBefore
  <2> QED
    BY <1>4, <2>1, <2>2
<1> QED
  BY <1>9, <1>12, <1>13 DEF u, us, q

LEMMA SampledStays ==
  ASSUME NEW ps \in Seq(Int \X Int), NEW q \in Int \X Int, NEW p
  PROVE  /\ SampledIn(ps, p) => SampledIn(Append(ps, q), p) /\ SampledIn(<<q>> \o ps, p)
         /\ SampledIn(Append(ps, q), q) /\ SampledIn(<<q>> \o ps, q)
<1>1. /\ Len(ps) \in Nat
      /\ Len(Append(ps, q)) = Len(ps) + 1
      /\ \A i \in 1 .. Len(ps) : Append(ps, q)[i] = ps[i]
      /\ Append(ps, q)[Len(ps) + 1] = q
  BY OneStepAdded
<1>2. /\ Len(<<q>> \o ps) = Len(ps) + 1
      /\ (<<q>> \o ps)[1] = q
      /\ \A i \in 2 .. Len(ps) + 1 : (<<q>> \o ps)[i] = ps[i - 1]
  BY PutInFront
<1>3. PointsAreClose(q, q)
  BY PointIsCloseToItself
<1>4. ASSUME NEW i \in 1 .. Len(ps)
      PROVE  /\ Append(ps, q)[i] = ps[i] /\ i \in 1 .. Len(ps) + 1
             /\ (<<q>> \o ps)[i + 1] = ps[i] /\ i + 1 \in 1 .. Len(ps) + 1
  <2>1. i + 1 \in 2 .. Len(ps) + 1 /\ i + 1 - 1 = i
    BY <1>1
  <2> QED
    BY <1>1, <1>2, <2>1
<1>5. Len(ps) + 1 \in 1 .. Len(ps) + 1 /\ 1 \in 1 .. Len(ps) + 1
  BY <1>1
<1> QED
  BY <1>1, <1>2, <1>3, <1>4, <1>5 DEF SampledIn

-----------------------------------------------------------------------------
(* The invariant of the sampler.                                           *)

EndPoint(s) == Centre(map, s.toLane, s.toOffset)

(* While the steps are sampled: t are the records and ps the points so far, *)
(* td the samples of step st - 1 that are not appended yet; at names the    *)
(* places of the steps on the lane path and on those of the records.        *)
Sampling(at, on, t, ps, td, st) ==
  /\ Placed(steps, at)
  /\ EndBefore(steps, at, Len(task.path), task.goalOffset)
  /\ st \in 1 .. Len(steps) + 1
  /\ td \in Seq(Samples)
  /\ td # << >> => st > 1
  /\ st > 1 => AreSamplesOf(td, steps[st - 1])
  /\ RecordsPlaced(t, on)
  /\ RecordsFromStart(t, on)
  /\ RecordsBefore(t, on, Len(task.path), task.goalOffset)
  /\ \A k \in 1 .. Len(td) : RecordsBefore(t, on, at[st - 1], td[k].offset)
  /\ \A k \in st .. Len(steps) : RecordsBefore(t, on, at[k], FirstOffset(steps[k]))
  /\ \A k \in 1 .. st - 1 : k < st - 1 \/ td = << >> => SampledIn(ps, EndPoint(steps[k]))

AllSampledIn(ps) ==
  /\ SampledIn(ps, ends.start)
  /\ \A i \in 1 .. Len(steps) : SampledIn(ps, EndPoint(steps[i]))

SamplerInv ==
  /\ Inv
  /\ ends.start \in Int \X Int /\ ends.goal \in Int \X Int
  /\ pc \in {"build", "sample", "goal", "sampled", "ask", "answered"}
  /\ IF pc = "build"
     THEN BuiltAlong /\ step = 1 /\ todo = << >> /\ points = << >> /\ info = << >>
     ELSE result = "built"
  /\ Recorded(info, points)
  /\ \E on : RecordsPlaced(info, on)
  /\ pc = "sample" => \E at, on : Sampling(at, on, info, points, todo, step)
  /\ pc = "goal" =>
       \E on : /\ RecordsPlaced(info, on)
               /\ RecordsBefore(info, on, Len(task.path), task.goalOffset)
  /\ pc \in {"goal", "sampled"} => AllSampledIn(points)

(* What a state with the invariant says of the task and of the steps.       *)
LEMMA RouteFacts ==
  ASSUME SamplerInv
  PROVE  /\ TypeOK
         /\ Len(task.path) \in Nat /\ 1 \in 1 .. Len(task.path)
         /\ Len(task.path) \in 1 .. Len(task.path)
         /\ task.path[1] \in map.lanes /\ task.path[Len(task.path)] \in map.lanes
         /\ task.startOffset \in Offsets /\ task.goalOffset \in Offsets
         /\ Len(steps) \in Nat
         /\ \A i \in 1 .. Len(steps) : steps[i] \in RouteSteps /\ DrivesForward(map, steps[i])
<1>1. TypeOK /\ NeverDrivesBack
  BY DEF SamplerInv, Inv
<1>2. IsTask(map, task)
  BY <1>1 DEF TypeOK
<1>3. task.path \in Seq(map.lanes) /\ task.startOffset \in Offsets /\ task.goalOffset \in Offsets
  BY <1>2 DEF IsTask
<1>4. Len(task.path) \in Nat /\ 1 \in 1 .. Len(task.path) /\ Len(task.path) \in 1 .. Len(task.path)
  <2>1. index \in 1 .. Len(task.path) /\ Len(task.path) \in Nat
    BY <1>1, TaskFacts DEF TypeOK
  <2> QED
    BY <2>1
<1>5. task.path[1] \in map.lanes /\ task.path[Len(task.path)] \in map.lanes
  BY <1>3, <1>4, ElementOfSeq
<1>6. steps \in Seq(RouteSteps)
  BY <1>1 DEF TypeOK
<1>7. Len(steps) \in Nat /\ \A i \in 1 .. Len(steps) : steps[i] \in RouteSteps
  BY <1>6, ElementOfSeq, LenProperties
<1> QED
  BY <1>1, <1>3, <1>4, <1>5, <1>7 DEF NeverDrivesBack

LEMMA NothingRecorded ==
  ASSUME TypeOK
  PROVE  /\ Recorded(<< >>, << >>)
         /\ \E on : /\ RecordsPlaced(<< >>, on)
                    /\ RecordsFromStart(<< >>, on)
                    /\ \A n, o : RecordsBefore(<< >>, on, n, o)
<1>1. /\ << >> \in Seq(Samples) /\ << >> \in Seq(Int \X Int) /\ Len(<< >>) = 0
  BY EmptySeq
<1>2. Recorded(<< >>, << >>)
  BY <1>1 DEF Recorded
<1> DEFINE on == [i \in 1 .. 0 |-> 1]
<1>3. /\ RecordsPlaced(<< >>, on)
      /\ RecordsFromStart(<< >>, on)
      /\ \A n, o : RecordsBefore(<< >>, on, n, o)
  BY <1>1 DEF RecordsPlaced, RecordsFromStart, RecordsBefore
<1> QED
  BY <1>2, <1>3

LEMMA SamplerInvInit ==
  SamplerInit => SamplerInv
<1> SUFFICES ASSUME SamplerInit PROVE SamplerInv
  OBVIOUS
<1>1. Inv /\ BuiltAlong
  BY InvInit, BuiltAlongInit DEF SamplerInit
<1>2. ends.start \in Int \X Int /\ ends.goal \in Int \X Int
  BY SamplerAssumption DEF SamplerInit, Init
<1>3. Recorded(<< >>, << >>) /\ \E on : RecordsPlaced(<< >>, on)
  BY <1>1, NothingRecorded DEF Inv
<1> QED
  BY <1>1, <1>2, <1>3 DEF SamplerInit, SamplerInv

(* The predicates above look at the route and its ends only, so they mean   *)
(* the same after a step that leaves these alone.                           *)
LEMMA SameRoute ==
  ASSUME UNCHANGED <<vars, ends>>
  PROVE  /\ Inv => Inv'
         /\ \A t, ps : Recorded(t, ps)' <=> Recorded(t, ps)
         /\ \A t, on : RecordsPlaced(t, on)' <=> RecordsPlaced(t, on)
         /\ \A t, on, n, o : RecordsBefore(t, on, n, o)' <=> RecordsBefore(t, on, n, o)
         /\ \A at, on, t, ps, td, st :
              Sampling(at, on, t, ps, td, st)' <=> Sampling(at, on, t, ps, td, st)
         /\ \A ps : AllSampledIn(ps)' <=> AllSampledIn(ps)
<1>1. map' = map /\ task' = task /\ steps' = steps /\ ends' = ends /\ UNCHANGED vars
  BY DEF vars
<1>2. Inv => Inv'
  BY <1>1, InvStep
<1>3. Samples' = Samples
  BY <1>1 DEF Samples
<1>4. \A m, a, n, b : NotAfter(m, a, n, b)' <=> NotAfter(m, a, n, b)
  BY <1>1 DEF NotAfter, OffsetsMoveForward, LaneIsPositive
<1>5. \A x, p : StandsFor(x, p)' <=> StandsFor(x, p)
  BY <1>1 DEF StandsFor
<1>6. \A t, ps : Recorded(t, ps)' <=> Recorded(t, ps)
  BY <1>3, <1>5 DEF Recorded
<1>7. \A t, on : RecordsPlaced(t, on)' <=> RecordsPlaced(t, on)
  BY <1>1, <1>4 DEF RecordsPlaced
<1>8. \A t, on, n, o : RecordsBefore(t, on, n, o)' <=> RecordsBefore(t, on, n, o)
  BY <1>4 DEF RecordsBefore
<1>9. \A t, on : RecordsFromStart(t, on)' <=> RecordsFromStart(t, on)
  BY <1>1, <1>4 DEF RecordsFromStart
<1>10. \A t, at : Placed(t, at)' <=> Placed(t, at)
  BY <1>1, <1>4 DEF Placed, FirstOffset
<1>11. \A t, at, n, o : EndBefore(t, at, n, o)' <=> EndBefore(t, at, n, o)
  BY <1>4 DEF EndBefore
<1>12. \A t, s : AreSamplesOf(t, s)' <=> AreSamplesOf(t, s)
  <2>1. \A x, s : LiesOn(x, s)' <=> LiesOn(x, s)
    BY <1>1 DEF LiesOn
  <2>2. \A l, a, b : OffsetsMoveForward(map, l, a, b)' <=> OffsetsMoveForward(map, l, a, b)
    BY <1>1 DEF OffsetsMoveForward, LaneIsPositive
  <2> QED
    BY <1>1, <1>3, <2>1, <2>2 DEF AreSamplesOf, FirstOffset
<1>13. \A s : EndPoint(s)' = EndPoint(s)
  BY <1>1 DEF EndPoint
<1>14. \A at, on, t, ps, td, st :
         Sampling(at, on, t, ps, td, st)' <=> Sampling(at, on, t, ps, td, st)
  BY <1>1, <1>3, <1>7, <1>8, <1>9, <1>10, <1>11, <1>12, <1>13
     DEF Sampling, FirstOffset, SampledIn
<1>15. \A ps : AllSampledIn(ps)' <=> AllSampledIn(ps)
  BY <1>1, <1>13 DEF AllSampledIn, SampledIn
<1> QED
  BY <1>2, <1>6, <1>7, <1>8, <1>14, <1>15

LEMMA SampleStepKeeps ==
  ASSUME SamplerInv, SampleStep
  PROVE  SamplerInv'
<1>1. /\ UNCHANGED <<vars, ends>> /\ info' = info /\ points' = points
      /\ pc = "sample" /\ pc' = "sample" /\ todo = << >> /\ step <= Len(steps)
      /\ step' = step + 1 /\ todo' = SamplesOf(steps[step])
  BY DEF SampleStep, SamplesOf
<1>2. PICK at, on : Sampling(at, on, info, points, todo, step)
  BY <1>1 DEF SamplerInv
<1>3. step \in 1 .. Len(steps) /\ Len(steps) \in Nat
  BY <1>1, <1>2, RouteFacts DEF Sampling
<1>4. steps[step] \in RouteSteps /\ DrivesForward(map, steps[step]) /\ TypeOK
  BY <1>3, RouteFacts
<1>5. AreSamplesOf(todo', steps[step]) /\ todo' # << >>
  BY <1>1, <1>4, SamplesOfStep
<1>6. todo' \in Seq(Samples)
  BY <1>5 DEF AreSamplesOf
<1>7. ASSUME NEW k \in 1 .. Len(todo') PROVE RecordsBefore(info, on, at[step], todo'[k].offset)
  <2> SUFFICES ASSUME NEW i \in 1 .. Len(info)
               PROVE  NotAfter(on[i], info[i].offset, at[step], todo'[k].offset)
    BY DEF RecordsBefore
  <2>1. NotAfter(on[i], info[i].offset, at[step], FirstOffset(steps[step]))
    BY <1>2, <1>3 DEF Sampling, RecordsBefore
  <2>2. /\ at[step] \in 1 .. Len(task.path)
        /\ steps[step].toLane = task.path[at[step]]
    BY <1>2, <1>3 DEF Sampling, Placed
  <2>3. OffsetsMoveForward(map, steps[step].toLane, FirstOffset(steps[step]), todo'[k].offset)
    BY <1>5 DEF AreSamplesOf
  <2>4. NotAfter(at[step], FirstOffset(steps[step]), at[step], todo'[k].offset)
    BY <2>2, <2>3 DEF NotAfter
  <2>5. on[i] \in 1 .. Len(task.path)
    BY <1>2 DEF Sampling, RecordsPlaced
  <2>6. info[i] \in Samples /\ todo'[k] \in Samples
    BY <1>6, ElementOfSeq DEF SamplerInv, Recorded
  <2>7. info[i].offset \in Offsets /\ todo'[k].offset \in Offsets
    BY <2>6 DEF Samples
  <2>8. FirstOffset(steps[step]) \in Offsets
    BY <1>4 DEF FirstOffset, RouteSteps
  <2> QED
    BY <2>1, <2>2, <2>4, <2>5, <2>7, <2>8, NotAfterIsTransitive
<1>8. \A k \in 1 .. step : k < step => SampledIn(points, EndPoint(steps[k]))
  BY <1>1, <1>2, <1>3 DEF Sampling
<1>9. Sampling(at, on, info, points, todo', step + 1)
  <2>1. step + 1 \in 1 .. Len(steps) + 1 /\ step + 1 > 1 /\ step + 1 - 1 = step
    BY <1>3
  <2>2. \A k \in step + 1 .. Len(steps) : RecordsBefore(info, on, at[k], FirstOffset(steps[k]))
    BY <1>2, <1>3 DEF Sampling
  <2> QED
    BY <1>2, <1>5, <1>6, <1>7, <1>8, <2>1, <2>2 DEF Sampling
<1>10. Sampling(at, on, info, points, todo, step)'
  BY <1>1, <1>9, SameRoute
<1> QED
  BY <1>1, <1>10, SameRoute DEF SamplerInv, vars

LEMMA TailFacts ==
  ASSUME NEW S, NEW s \in Seq(S), s # << >>
  PROVE  /\ Tail(s) \in Seq(S)
         /\ s[1] \in S
         /\ Len(s) \in Nat /\ Len(s) >= 1
         /\ Len(Tail(s)) = Len(s) - 1
         /\ \A i \in 1 .. Len(s) - 1 : Tail(s)[i] = s[i + 1]
<1>1. Len(s) \in Nat /\ Len(s) >= 1
  BY EmptySeq
<1>2. Tail(s) \in Seq(S) /\ Len(Tail(s)) = Len(s) - 1
      /\ \A i \in 1 .. Len(Tail(s)) : Tail(s)[i] = s[i + 1]
  BY HeadTailProperties
<1>3. s[1] \in S
  BY <1>1, ElementOfSeq
<1> QED
  BY <1>1, <1>2, <1>3

(* The samples that are left are samples of the step.                       *)
LEMMA RestOfSamples ==
  ASSUME NEW s, NEW t, AreSamplesOf(t, s), t # << >>
  PROVE  AreSamplesOf(Tail(t), s)
<1> DEFINE u == Tail(t)
           n == Len(t) - 1
<1>1. t \in Seq(Samples)
  BY DEF AreSamplesOf
<1>2. /\ u \in Seq(Samples) /\ Len(t) \in Nat /\ Len(t) >= 1 /\ Len(u) = n
      /\ \A i \in 1 .. n : u[i] = t[i + 1]
  BY <1>1, TailFacts
<1> HIDE DEF u
<1>3. \A i \in 1 .. n : i + 1 \in 1 .. Len(t)
  BY <1>2
<1>4. ASSUME NEW i \in 1 .. n
      PROVE  /\ u[i].lane = s.toLane
             /\ OffsetsMoveForward(map, s.toLane, FirstOffset(s), u[i].offset)
             /\ OffsetsMoveForward(map, s.toLane, u[i].offset, s.toOffset)
             /\ LiesOn(u[i], s)
  BY <1>2, <1>3 DEF AreSamplesOf
<1>5. ASSUME NEW i \in 1 .. n, NEW k \in 1 .. n, i < k
      PROVE  OffsetsMoveForward(map, s.toLane, u[i].offset, u[k].offset)
  <2>1. i + 1 < k + 1
    BY <1>5
  <2> QED
    BY <1>2, <1>3, <2>1 DEF AreSamplesOf
<1>6. ASSUME u # << >> PROVE u[Len(u)].position = EndPoint(s)
  <2>1. Len(u) \in 1 .. n /\ Len(u) + 1 = Len(t)
    BY <1>2, <1>6, EmptySeq
  <2> QED
    BY <1>2, <2>1 DEF AreSamplesOf, EndPoint
<1>7. AreSamplesOf(u, s)
  BY <1>2, <1>4, <1>5, <1>6 DEF AreSamplesOf, EndPoint
<1> QED
  BY <1>7 DEF u

(* The sample that is next: its place, and what comes before and after it.  *)
LEMMA NextSample ==
  ASSUME SamplerInv, NEW at, NEW on, Sampling(at, on, info, points, todo, step), todo # << >>
  PROVE  /\ step - 1 \in 1 .. Len(steps)
         /\ AreSamplesOf(todo, steps[step - 1])
         /\ todo[1] \in Samples
         /\ 1 \in 1 .. Len(todo)
         /\ at[step - 1] \in 1 .. Len(task.path)
         /\ todo[1].lane = task.path[at[step - 1]]
         /\ StandsFor(todo[1], todo[1].position)
         /\ NotAfter(1, task.startOffset, at[step - 1], todo[1].offset)
         /\ NotAfter(at[step - 1], todo[1].offset, Len(task.path), task.goalOffset)
         /\ \A k \in 2 .. Len(todo) :
              NotAfter(at[step - 1], todo[1].offset, at[step - 1], todo[k].offset)
         /\ \A k \in step .. Len(steps) :
              NotAfter(at[step - 1], todo[1].offset, at[k], FirstOffset(steps[k]))
<1> DEFINE j == step - 1
           s == steps[j]
           x == todo[1]
           n == at[j]
<1>1. j \in 1 .. Len(steps) /\ Len(steps) \in Nat /\ step \in Nat
  BY RouteFacts DEF Sampling
<1>2. AreSamplesOf(todo, s)
  BY DEF Sampling
<1>3. todo \in Seq(Samples) /\ 1 \in 1 .. Len(todo) /\ x \in Samples
  <2>1. todo \in Seq(Samples)
    BY DEF Sampling
  <2>2. Len(todo) \in Nat /\ Len(todo) >= 1 /\ x \in Samples
    BY <2>1, TailFacts
  <2> QED
    BY <2>1, <2>2
<1>4. n \in 1 .. Len(task.path) /\ s.toLane = task.path[n]
      /\ NotAfter(1, task.startOffset, n, FirstOffset(s))
  BY <1>1 DEF Sampling, Placed
<1>5. /\ s \in RouteSteps
      /\ FirstOffset(s) \in Offsets /\ s.toOffset \in Offsets
  <2>1. s \in RouteSteps
    BY <1>1, RouteFacts
  <2> QED
    BY <2>1 DEF RouteSteps, FirstOffset
<1>6. x.offset \in Offsets /\ x.lane = s.toLane
      /\ OffsetsMoveForward(map, s.toLane, FirstOffset(s), x.offset)
      /\ OffsetsMoveForward(map, s.toLane, x.offset, s.toOffset)
      /\ LiesOn(x, s)
  BY <1>2, <1>3 DEF AreSamplesOf, Samples
<1> HIDE DEF j, s, x, n
<1>7. StandsFor(x, x.position)
  BY <1>1, <1>6 DEF StandsFor, LiesOn, s
<1>8. NotAfter(n, FirstOffset(s), n, x.offset) /\ NotAfter(n, x.offset, n, s.toOffset)
  BY <1>4, <1>6 DEF NotAfter
<1>9. /\ Len(task.path) \in Int /\ n \in Int /\ 1 \in Int
      /\ task.startOffset \in Offsets /\ task.goalOffset \in Offsets
  BY <1>4, RouteFacts
<1>10. NotAfter(1, task.startOffset, n, x.offset)
  BY <1>4, <1>5, <1>6, <1>8, <1>9, NotAfterIsTransitive
<1>11. NotAfter(n, x.offset, Len(task.path), task.goalOffset)
  <2>1. NotAfter(n, s.toOffset, Len(task.path), task.goalOffset)
    BY <1>1 DEF Sampling, EndBefore, n, s
  <2> QED
    BY <1>5, <1>6, <1>8, <1>9, <2>1, NotAfterIsTransitive
<1>12. ASSUME NEW k \in 2 .. Len(todo) PROVE NotAfter(n, x.offset, n, todo[k].offset)
  <2>1. OffsetsMoveForward(map, s.toLane, x.offset, todo[k].offset)
    <3>1. k \in 1 .. Len(todo) /\ 1 < k
      OBVIOUS
    <3> QED
      BY <1>2, <1>3, <3>1 DEF AreSamplesOf, x
  <2> QED
    BY <1>4, <2>1 DEF NotAfter
<1>13. ASSUME NEW k \in step .. Len(steps)
       PROVE  NotAfter(n, x.offset, at[k], FirstOffset(steps[k]))
  <2>1. k \in 1 .. Len(steps) /\ j < k
    BY <1>1 DEF j
  <2>2. NotAfter(n, s.toOffset, at[k], FirstOffset(steps[k])) /\ at[k] \in 1 .. Len(task.path)
    BY <1>1, <2>1 DEF Sampling, Placed, n, s
  <2>3. steps[k] \in RouteSteps
    BY <2>1, RouteFacts
  <2>4. FirstOffset(steps[k]) \in Offsets
    BY <2>3 DEF RouteSteps, FirstOffset
  <2> QED
    BY <1>5, <1>6, <1>8, <1>9, <2>2, <2>4, NotAfterIsTransitive
<1> QED
  BY <1>1, <1>2, <1>3, <1>4, <1>6, <1>7, <1>10, <1>11, <1>12, <1>13 DEF j, s, x, n

(* One sample less to append: the points ps now hold one close to it.       *)
LEMMA SampleDone ==
  ASSUME SamplerInv, NEW at, NEW on, Sampling(at, on, info, points, todo, step), todo # << >>,
         NEW t, NEW to, NEW ps,
         RecordsPlaced(t, to), RecordsFromStart(t, to),
         RecordsBefore(t, to, Len(task.path), task.goalOffset),
         \A k \in 2 .. Len(todo) : RecordsBefore(t, to, at[step - 1], todo[k].offset),
         \A k \in step .. Len(steps) : RecordsBefore(t, to, at[k], FirstOffset(steps[k])),
         \A p : SampledIn(points, p) => SampledIn(ps, p),
         SampledIn(ps, todo[1].position)
  PROVE  Sampling(at, to, t, ps, Tail(todo), step)
<1> DEFINE td == Tail(todo)
<1>1. /\ td \in Seq(Samples) /\ Len(todo) \in Nat /\ Len(todo) >= 1
      /\ Len(td) = Len(todo) - 1
      /\ \A i \in 1 .. Len(todo) - 1 : td[i] = todo[i + 1]
  <2>1. todo \in Seq(Samples)
    BY DEF Sampling
  <2> QED
    BY <2>1, TailFacts
<1>2. AreSamplesOf(td, steps[step - 1]) /\ step > 1
  BY RestOfSamples DEF Sampling
<1>3. ASSUME NEW k \in 1 .. Len(td) PROVE RecordsBefore(t, to, at[step - 1], td[k].offset)
  <2>1. k + 1 \in 2 .. Len(todo) /\ td[k] = todo[k + 1]
    BY <1>1
  <2> QED
    BY <2>1
<1>4. ASSUME NEW k \in 1 .. step - 1, k < step - 1 \/ td = << >>
      PROVE  SampledIn(ps, EndPoint(steps[k]))
  <2>1. step \in Nat
    BY RouteFacts DEF Sampling
  <2>2. CASE k < step - 1
    BY <2>2 DEF Sampling
  <2>3. CASE ~ (k < step - 1)
    <3>1. k = step - 1 /\ td = << >>
      BY <1>4, <2>1, <2>3
    <3>2. Len(todo) = 1
      <4>1. Len(<< >>) = 0
        BY EmptySeq
      <4> HIDE DEF td
      <4>2. Len(td) = 0
        BY <3>1, <4>1
      <4> QED
        BY <1>1, <4>2
    <3>3. todo[1].position = EndPoint(steps[k])
      BY <3>1, <3>2 DEF Sampling, AreSamplesOf, EndPoint
    <3> QED
      BY <3>3
  <2> QED
    BY <2>2, <2>3
<1> HIDE DEF td
<1>5. Sampling(at, to, t, ps, td, step)
  BY <1>1, <1>2, <1>3, <1>4 DEF Sampling
<1> QED
  BY <1>5 DEF td

LEMMA SkipPointKeeps ==
  ASSUME SamplerInv, SkipPoint
  PROVE  SamplerInv'
<1>1. /\ UNCHANGED <<vars, ends>> /\ info' = info /\ points' = points /\ step' = step
      /\ pc = "sample" /\ pc' = "sample" /\ todo # << >> /\ todo' = Tail(todo)
      /\ points # << >> /\ PointsAreClose(points[Len(points)], todo[1].position)
  BY DEF SkipPoint, IsRepeat
<1>2. PICK at, on : Sampling(at, on, info, points, todo, step)
  BY <1>1 DEF SamplerInv
<1>3. SampledIn(points, todo[1].position)
  <2>1. Len(points) \in 1 .. Len(points)
    <3>1. points \in Seq(Int \X Int)
      BY DEF SamplerInv, Recorded
    <3>2. Len(points) \in Nat \ {0}
      BY <1>1, <3>1, EmptySeq
    <3> QED
      BY <3>2
  <2> QED
    BY <1>1, <2>1 DEF SampledIn
<1>4. \A k \in 2 .. Len(todo) : k \in 1 .. Len(todo)
  OBVIOUS
<1>5. /\ RecordsPlaced(info, on) /\ RecordsFromStart(info, on)
      /\ RecordsBefore(info, on, Len(task.path), task.goalOffset)
      /\ \A k \in 2 .. Len(todo) : RecordsBefore(info, on, at[step - 1], todo[k].offset)
      /\ \A k \in step .. Len(steps) : RecordsBefore(info, on, at[k], FirstOffset(steps[k]))
  BY <1>2, <1>4 DEF Sampling
<1>6. Sampling(at, on, info, points, Tail(todo), step)
  BY <1>1, <1>2, <1>3, <1>5, SampleDone
<1>7. Sampling(at, on, info, points, todo, step)'
  BY <1>1, <1>6, SameRoute
<1> QED
  BY <1>1, <1>7, SameRoute DEF SamplerInv, vars

LEMMA AppendPointKeeps ==
  ASSUME SamplerInv, AppendPoint
  PROVE  SamplerInv'
<1> DEFINE x == todo[1]
           t == Append(info, x)
           ps == Append(points, x.position)
<1>1. /\ UNCHANGED <<vars, ends>> /\ info' = t /\ points' = ps /\ step' = step
      /\ pc = "sample" /\ pc' = "sample" /\ todo # << >> /\ todo' = Tail(todo)
  BY DEF AppendPoint
<1>2. PICK at, on : Sampling(at, on, info, points, todo, step)
  BY <1>1 DEF SamplerInv
<1> DEFINE n == at[step - 1]
<1>3. /\ x \in Samples /\ 1 \in 1 .. Len(todo)
      /\ n \in 1 .. Len(task.path)
      /\ x.lane = task.path[n]
      /\ StandsFor(x, x.position)
      /\ NotAfter(1, task.startOffset, n, x.offset)
      /\ NotAfter(n, x.offset, Len(task.path), task.goalOffset)
      /\ \A k \in 2 .. Len(todo) : NotAfter(n, x.offset, n, todo[k].offset)
      /\ \A k \in step .. Len(steps) : NotAfter(n, x.offset, at[k], FirstOffset(steps[k]))
  BY <1>1, <1>2, NextSample
<1>4. Recorded(info, points)
  BY DEF SamplerInv
<1>5. /\ RecordsPlaced(info, on) /\ RecordsFromStart(info, on)
      /\ RecordsBefore(info, on, Len(task.path), task.goalOffset)
      /\ \A k \in 1 .. Len(todo) : RecordsBefore(info, on, n, todo[k].offset)
      /\ \A k \in step .. Len(steps) : RecordsBefore(info, on, at[k], FirstOffset(steps[k]))
  BY <1>2 DEF Sampling
<1>6. RecordsBefore(info, on, n, x.offset)
  BY <1>3, <1>5
<1>7. x.position \in Int \X Int /\ points \in Seq(Int \X Int)
  BY <1>3, <1>4 DEF Samples, Recorded
<1> HIDE DEF x, n
<1>8. PICK to :
        /\ Recorded(t, ps)
        /\ RecordsPlaced(t, to)
        /\ \A k, o : RecordsBefore(info, on, k, o) /\ NotAfter(n, x.offset, k, o) =>
                       RecordsBefore(t, to, k, o)
        /\ RecordsFromStart(info, on) /\ NotAfter(1, task.startOffset, n, x.offset) =>
             RecordsFromStart(t, to)
  BY <1>3, <1>4, <1>5, <1>6, RecordAdded
<1>9. (\A p : SampledIn(points, p) => SampledIn(ps, p)) /\ SampledIn(ps, x.position)
  BY <1>7, SampledStays
<1> HIDE DEF t, ps
<1>10. Sampling(at, to, t, ps, Tail(todo), step)
  <2>1. /\ RecordsFromStart(t, to)
        /\ RecordsBefore(t, to, Len(task.path), task.goalOffset)
    BY <1>3, <1>5, <1>8
  <2>2. \A k \in 2 .. Len(todo) : RecordsBefore(t, to, n, todo[k].offset)
    <3>1. \A k \in 2 .. Len(todo) : k \in 1 .. Len(todo)
      OBVIOUS
    <3> QED
      BY <1>3, <1>5, <1>8, <3>1
  <2>3. \A k \in step .. Len(steps) : RecordsBefore(t, to, at[k], FirstOffset(steps[k]))
    BY <1>3, <1>5, <1>8
  <2> QED
    BY <1>1, <1>2, <1>8, <1>9, <2>1, <2>2, <2>3, SampleDone DEF x, n
<1>11. Sampling(at, to, info, points, todo, step)'
  BY <1>1, <1>10, SameRoute
<1>12. Recorded(info, points)' /\ RecordsPlaced(info, to)'
  BY <1>1, <1>8, SameRoute
<1> QED
  BY <1>1, <1>11, <1>12, SameRoute DEF SamplerInv, vars

LEMMA KeepStartKeeps ==
  ASSUME SamplerInv, KeepStart
  PROVE  SamplerInv'
<1>1. /\ UNCHANGED <<vars, ends>> /\ UNCHANGED <<info, points, step, todo>>
      /\ pc = "sample" /\ pc' = "goal" /\ todo = << >> /\ step > Len(steps)
      /\ points # << >> /\ PointsAreClose(points[1], ends.start)
  BY DEF KeepStart, AllSampled, StartIsSampled
<1>2. PICK at, on : Sampling(at, on, info, points, todo, step)
  BY <1>1 DEF SamplerInv
<1>3. step = Len(steps) + 1 /\ Len(steps) \in Nat
  BY <1>1, <1>2, RouteFacts DEF Sampling
<1>4. SampledIn(points, ends.start)
  <2>1. points \in Seq(Int \X Int)
    BY DEF SamplerInv, Recorded
  <2>2. 1 \in 1 .. Len(points)
    <3>1. Len(points) \in Nat \ {0}
      BY <1>1, <2>1, EmptySeq
    <3> QED
      BY <3>1
  <2> QED
    BY <1>1, <2>2 DEF SampledIn
<1>5. AllSampledIn(points)
  <2>1. \A k \in 1 .. Len(steps) : SampledIn(points, EndPoint(steps[k]))
    BY <1>1, <1>2, <1>3 DEF Sampling
  <2> QED
    BY <1>4, <2>1 DEF AllSampledIn
<1>6. RecordsPlaced(info, on) /\ RecordsBefore(info, on, Len(task.path), task.goalOffset)
  BY <1>2 DEF Sampling
<1>7. AllSampledIn(points)'
  BY <1>1, <1>5, SameRoute
<1>8. /\ RecordsPlaced(info, on)'
      /\ RecordsBefore(info, on, Len(task.path), task.goalOffset)'
  BY <1>1, <1>6, SameRoute DEF vars
<1> QED
  BY <1>1, <1>7, <1>8, SameRoute DEF SamplerInv, vars

LEMMA InsertStartKeeps ==
  ASSUME SamplerInv, InsertStart
  PROVE  SamplerInv'
<1> DEFINE x == Sample(ends.start, task.path[1], task.startOffset)
           t == <<x>> \o info
           ps == <<x.position>> \o points
<1>1. /\ UNCHANGED <<vars, ends>> /\ UNCHANGED <<step, todo>>
      /\ pc = "sample" /\ pc' = "goal" /\ todo = << >> /\ step > Len(steps)
      /\ info' = t /\ points' = <<ends.start>> \o points
  BY DEF InsertStart, AllSampled
<1>2. PICK at, on : Sampling(at, on, info, points, todo, step)
  BY <1>1 DEF SamplerInv
<1>3. step = Len(steps) + 1 /\ Len(steps) \in Nat
  BY <1>1, <1>2, RouteFacts DEF Sampling
<1>4. /\ x.position = ends.start /\ x.lane = task.path[1] /\ x.offset = task.startOffset
      /\ x \in Samples
  <2>1. x = [position |-> ends.start, lane |-> task.path[1], offset |-> task.startOffset]
    BY DEF Sample
  <2>2. ends.start \in Int \X Int /\ task.path[1] \in map.lanes /\ task.startOffset \in Offsets
    BY RouteFacts DEF SamplerInv
  <2> QED
    BY <2>1, <2>2 DEF Samples
<1> HIDE DEF x
<1>5. points' = ps
  BY <1>1, <1>4
<1>6. StandsFor(x, x.position)
  BY <1>4 DEF StandsFor
<1>7. Recorded(info, points) /\ points \in Seq(Int \X Int) /\ x.position \in Int \X Int
  BY <1>4 DEF SamplerInv, Recorded
<1>8. /\ RecordsPlaced(info, on) /\ RecordsFromStart(info, on)
      /\ RecordsBefore(info, on, Len(task.path), task.goalOffset)
  BY <1>2 DEF Sampling
<1>9. 1 \in 1 .. Len(task.path)
  BY RouteFacts
<1>10. PICK to :
         /\ Recorded(t, ps)
         /\ RecordsPlaced(t, to)
         /\ \A k, o : RecordsBefore(info, on, k, o) /\ NotAfter(1, x.offset, k, o) =>
                        RecordsBefore(t, to, k, o)
  BY <1>4, <1>6, <1>7, <1>8, <1>9, RecordInserted
<1>11. NotAfter(1, x.offset, Len(task.path), task.goalOffset)
  <2>1. /\ 1 \in Int /\ Len(task.path) \in Int /\ 1 <= Len(task.path)
        /\ task.startOffset \in Offsets /\ task.goalOffset \in Offsets
    BY RouteFacts
  <2>2. CASE 1 < Len(task.path)
    BY <2>2 DEF NotAfter
  <2>3. CASE Len(task.path) = 1
    <3>1. OffsetsMoveForward(map, task.path[1], task.startOffset, task.goalOffset)
      <4>1. IsTask(map, task)
        BY RouteFacts DEF TypeOK
      <4> QED
        BY <2>3, <4>1 DEF IsTask
    <3>2. NotAfter(1, task.startOffset, 1, task.goalOffset)
      BY <3>1 DEF NotAfter
    <3>3. x.offset = task.startOffset
      BY <1>4
    <3> QED
      BY <2>3, <3>2, <3>3, Zenon
  <2>4. 1 < Len(task.path) \/ Len(task.path) = 1
    <3>1. \A m \in Int : 1 <= m => 1 < m \/ m = 1
      OBVIOUS
    <3>2. Len(task.path) \in Int /\ 1 <= Len(task.path)
      BY <2>1
    <3> QED
      BY <3>1, <3>2, Zenon
  <2> QED
    BY <2>2, <2>3, <2>4
<1>12. (\A p : SampledIn(points, p) => SampledIn(ps, p)) /\ SampledIn(ps, x.position)
  BY <1>7, SampledStays
<1> HIDE DEF t, ps
<1>13. AllSampledIn(ps)
  <2>1. \A k \in 1 .. Len(steps) : SampledIn(points, EndPoint(steps[k]))
    BY <1>1, <1>2, <1>3 DEF Sampling
  <2> QED
    BY <1>4, <1>12, <2>1 DEF AllSampledIn
<1>14. RecordsBefore(t, to, Len(task.path), task.goalOffset)
  BY <1>8, <1>10, <1>11
<1>15. AllSampledIn(points)' /\ Recorded(info, points)' /\ RecordsPlaced(info, to)'
  BY <1>1, <1>5, <1>10, <1>13, SameRoute
<1>16. RecordsBefore(info, to, Len(task.path), task.goalOffset)'
  BY <1>1, <1>14, SameRoute DEF vars
<1> QED
  BY <1>1, <1>15, <1>16, SameRoute DEF SamplerInv, vars

LEMMA KeepGoalKeeps ==
  ASSUME SamplerInv, KeepGoal
  PROVE  SamplerInv'
<1>1. /\ UNCHANGED <<vars, ends>> /\ UNCHANGED <<info, points, step, todo>>
      /\ pc = "goal" /\ pc' = "sampled"
  BY DEF KeepGoal
<1> QED
  BY <1>1, SameRoute DEF SamplerInv, vars

LEMMA AppendGoalKeeps ==
  ASSUME SamplerInv, AppendGoal
  PROVE  SamplerInv'
<1> DEFINE n == Len(task.path)
           x == Sample(ends.goal, task.path[n], task.goalOffset)
           t == Append(info, x)
           ps == Append(points, x.position)
<1>1. /\ UNCHANGED <<vars, ends>> /\ UNCHANGED <<step, todo>>
      /\ pc = "goal" /\ pc' = "sampled"
      /\ info' = t /\ points' = Append(points, ends.goal)
  BY DEF AppendGoal
<1>2. PICK on : /\ RecordsPlaced(info, on)
                /\ RecordsBefore(info, on, n, task.goalOffset)
  BY <1>1 DEF SamplerInv
<1>3. /\ x.position = ends.goal /\ x.lane = task.path[n] /\ x.offset = task.goalOffset
      /\ x \in Samples
  <2>1. x = [position |-> ends.goal, lane |-> task.path[n], offset |-> task.goalOffset]
    BY DEF Sample
  <2>2. ends.goal \in Int \X Int /\ task.path[n] \in map.lanes /\ task.goalOffset \in Offsets
    BY RouteFacts DEF SamplerInv
  <2> QED
    BY <2>1, <2>2 DEF Samples
<1> HIDE DEF x
<1>4. points' = ps
  BY <1>1, <1>3
<1>5. StandsFor(x, x.position)
  BY <1>3 DEF StandsFor
<1>6. Recorded(info, points) /\ points \in Seq(Int \X Int) /\ x.position \in Int \X Int
  BY <1>3 DEF SamplerInv, Recorded
<1>7. n \in 1 .. Len(task.path)
  BY RouteFacts
<1>8. RecordsBefore(info, on, n, x.offset)
  BY <1>2, <1>3
<1>9. PICK to : /\ Recorded(t, ps)
                /\ RecordsPlaced(t, to)
  <2> HIDE DEF n
  <2> QED
    BY <1>2, <1>3, <1>5, <1>6, <1>7, <1>8, RecordAdded
<1>10. \A p : SampledIn(points, p) => SampledIn(ps, p)
  BY <1>6, SampledStays
<1> HIDE DEF t, ps
<1>11. AllSampledIn(ps)
  BY <1>1, <1>10 DEF SamplerInv, AllSampledIn
<1>12. AllSampledIn(points)' /\ Recorded(info, points)' /\ RecordsPlaced(info, to)'
  BY <1>1, <1>4, <1>9, <1>11, SameRoute
<1> QED
  BY <1>1, <1>12, SameRoute DEF SamplerInv, vars

LEMMA RouteBuiltKeeps ==
  ASSUME SamplerInv, RouteBuilt
  PROVE  SamplerInv'
<1>1. /\ UNCHANGED <<vars, ends>> /\ UNCHANGED <<info, points, step, todo>>
      /\ pc = "build" /\ pc' = "sample" /\ result = "built"
  BY DEF RouteBuilt
<1>2. PICK at : Placed(steps, at) /\ EndBefore(steps, at, Len(task.path), task.goalOffset)
  BY <1>1 DEF SamplerInv, BuiltAlong
<1>3. step = 1 /\ todo = << >> /\ points = << >> /\ info = << >>
  BY <1>1 DEF SamplerInv
<1>4. Len(steps) \in Nat /\ TypeOK
  BY RouteFacts
<1>5. PICK on : /\ RecordsPlaced(info, on)
                /\ RecordsFromStart(info, on)
                /\ \A n, o : RecordsBefore(info, on, n, o)
  BY <1>3, <1>4, NothingRecorded
<1>6. << >> \in Seq(Samples) /\ Len(<< >>) = 0
  BY EmptySeq
<1>7. Sampling(at, on, info, points, todo, step)
  BY <1>2, <1>3, <1>4, <1>5, <1>6 DEF Sampling
<1>8. Sampling(at, on, info, points, todo, step)'
  BY <1>1, <1>7, SameRoute
<1> QED
  BY <1>1, <1>8, SameRoute DEF SamplerInv, vars

LEMMA BuildKeeps ==
  ASSUME SamplerInv, Build
  PROVE  SamplerInv'
<1>1. pc = "build" /\ Next /\ UNCHANGED samplerVars
  BY DEF Build
<1>2. Inv' /\ BuiltAlong'
  BY <1>1, InvStep, BuiltAlongStep DEF SamplerInv
<1>3. /\ pc' = "build" /\ step' = 1 /\ todo' = << >> /\ points' = << >> /\ info' = << >>
      /\ ends' = ends
  BY <1>1 DEF SamplerInv, samplerVars
<1>4. Recorded(info, points)'
  BY <1>3, EmptySeq DEF Recorded
<1>5. \E on : RecordsPlaced(info, on)'
  <2> DEFINE on == [i \in 1 .. 0 |-> 1]
  <2>1. Len(info') = 0 /\ on \in [1 .. 0 -> 1 .. Len(task'.path)]
    BY <1>3, EmptySeq
  <2>2. RecordsPlaced(info, on)'
    BY <2>1 DEF RecordsPlaced
  <2> QED
    BY <2>2
<1> QED
  BY <1>2, <1>3, <1>4, <1>5 DEF SamplerInv

LEMMA SamplerNextKeeps ==
  ASSUME SamplerInv, SamplerNext
  PROVE  SamplerInv'
<1>1. CASE Build
  BY <1>1, BuildKeeps
<1>2. CASE RouteBuilt
  BY <1>2, RouteBuiltKeeps
<1>3. CASE SampleStep
  BY <1>3, SampleStepKeeps
<1>4. CASE SkipPoint
  BY <1>4, SkipPointKeeps
<1>5. CASE AppendPoint
  BY <1>5, AppendPointKeeps
<1>6. CASE KeepStart
  BY <1>6, KeepStartKeeps
<1>7. CASE InsertStart
  BY <1>7, InsertStartKeeps
<1>8. CASE KeepGoal
  BY <1>8, KeepGoalKeeps
<1>9. CASE AppendGoal
  BY <1>9, AppendGoalKeeps
<1> QED
  BY <1>1, <1>2, <1>3, <1>4, <1>5, <1>6, <1>7, <1>8, <1>9 DEF SamplerNext

(* Looking for the points beside a sample changes nothing of the route.     *)
LEMMA SamplesStay ==
  ASSUME SamplerInv, UNCHANGED <<vars, ends, step, todo, points, info>>,
         pc' = pc \/ pc' \in {"ask", "answered"}, pc = "build" => pc' = "build"
  PROVE  SamplerInv'
<1>1. Inv' /\ Recorded(info, points)' /\ \E on : RecordsPlaced(info, on)'
  BY SameRoute DEF SamplerInv
<1>2. CASE pc' = pc
  <2>1. BuiltAlong => BuiltAlong'
    <3>1. /\ map' = map /\ task' = task /\ steps' = steps /\ result' = result
          /\ index' = index /\ currentOffset' = currentOffset
      BY DEF vars
    <3>2. \A m, a, n, b : NotAfter(m, a, n, b)' <=> NotAfter(m, a, n, b)
      BY <3>1 DEF NotAfter, OffsetsMoveForward, LaneIsPositive
    <3>3. \A at : Placed(steps, at)' <=> Placed(steps, at)
      BY <3>1, <3>2 DEF Placed, FirstOffset
    <3>5. NotAfter(1, task.startOffset, index, currentOffset)' <=>
            NotAfter(1, task.startOffset, index, currentOffset)
      BY <3>1, <3>2
    <3>4. \A at : EndBefore(steps, at, index, currentOffset)' <=>
                   EndBefore(steps, at, index, currentOffset)
      BY <3>1, <3>2 DEF EndBefore
    <3> SUFFICES ASSUME BuiltAlong PROVE BuiltAlong'
      OBVIOUS
    <3>6. PICK at :
            /\ Placed(steps, at)
            /\ IF result = "built"
               THEN EndBefore(steps, at, Len(task.path), task.goalOffset)
               ELSE EndBefore(steps, at, index, currentOffset)
      BY DEF BuiltAlong
    <3>7. NotAfter(1, task.startOffset, index, currentOffset)'
      BY <3>5 DEF BuiltAlong
    <3>8. Placed(steps, at)'
      BY <3>3, <3>6
    <3>9. result' = "built" => EndBefore(steps, at, Len(task.path), task.goalOffset)'
      <4>1. result' = "built" => EndBefore(steps, at, Len(task.path), task.goalOffset)
        BY <3>1, <3>6
      <4>2. EndBefore(steps, at, Len(task.path), task.goalOffset) =>
              EndBefore(steps, at, Len(task.path), task.goalOffset)'
        BY <3>1, <3>2 DEF EndBefore
      <4> QED
        BY <4>1, <4>2, Zenon
    <3>10. result' # "built" => EndBefore(steps, at, index, currentOffset)'
      BY <3>1, <3>4, <3>6
    <3> QED
      BY <3>7, <3>8, <3>9, <3>10 DEF BuiltAlong
  <2>2. result' = result
    BY DEF vars
  <2>3. pc = "build" => BuiltAlong'
    BY <2>1 DEF SamplerInv
  <2>4. pc = "sample" => \E at, on : Sampling(at, on, info, points, todo, step)'
    BY SameRoute DEF SamplerInv
  <2>5. pc = "goal" =>
          \E on : /\ RecordsPlaced(info, on)'
                  /\ RecordsBefore(info, on, Len(task.path), task.goalOffset)'
    <3>1. task' = task
      BY DEF vars
    <3> QED
      BY <3>1, SameRoute DEF SamplerInv
  <2>6. pc \in {"goal", "sampled"} => AllSampledIn(points)'
    BY SameRoute DEF SamplerInv
  <2> QED
    BY <1>1, <1>2, <2>2, <2>3, <2>4, <2>5, <2>6 DEF SamplerInv
<1>3. CASE pc' \in {"ask", "answered"}
  <2>1. pc # "build" /\ result' = result
    BY <1>3 DEF vars
  <2> QED
    BY <1>1, <1>3, <2>1 DEF SamplerInv
<1> QED
  BY <1>2, <1>3

(* What the sampler has recorded lies along the lane path, from the moment  *)
(* the builder starts until the points beside a sample are answered.        *)
THEOREM SamplerInductive ==
  AdjacentSpec => []SamplerInv
<1>1. AdjacentInit => SamplerInv
  BY SamplerInvInit DEF AdjacentInit
<1>2. SamplerInv /\ [AdjacentNext]_allVars => SamplerInv'
  <2> SUFFICES ASSUME SamplerInv, [AdjacentNext]_allVars
               PROVE  SamplerInv'
    OBVIOUS
  <2>1. CASE SampleRoute
    BY <2>1, SamplerNextKeeps DEF SampleRoute
  <2>2. CASE SelectSample
    BY <2>2, SamplesStay DEF SelectSample
  <2>3. CASE WalkAside
    BY <2>3, SamplesStay DEF WalkAside, routeVars, samplerVars
  <2>4. CASE AnswerAdjacent
    BY <2>4, SamplesStay DEF AnswerAdjacent
  <2>5. CASE UNCHANGED allVars
    BY <2>5, SamplesStay DEF allVars, routeVars, samplerVars
  <2> QED
    BY <2>1, <2>2, <2>3, <2>4, <2>5 DEF AdjacentNext
<1> QED
  BY <1>1, <1>2, PTL DEF AdjacentSpec

(* At every moment every sampled point has its record, the record names the *)
(* place the point stands for, and the records follow the lane path, also   *)
(* when the start point is put in front of them and the goal point behind   *)
(* them.                                                                    *)
THEOREM RecordsFollow ==
  AdjacentSpec => []RecordsFollowRoute
<1>1. SamplerInv => RecordsFollowRoute
  <2> SUFFICES ASSUME SamplerInv PROVE RecordsFollowRoute
    OBVIOUS
  <2>1. /\ Len(info) = Len(points) /\ Len(info) \in Nat
        /\ \A i \in 1 .. Len(info) : StandsFor(info[i], points[i])
    BY EmptySeq DEF SamplerInv, Recorded
  <2>2. PICK on : RecordsPlaced(info, on)
    BY DEF SamplerInv
  <2>3. ASSUME NEW i \in 1 .. Len(info), NEW k \in 1 .. Len(info), i < k
        PROVE  \/ /\ info[i].lane = info[k].lane
                  /\ OffsetsMoveForward(map, info[i].lane, info[i].offset, info[k].offset)
               \/ \E m, n \in 1 .. Len(task.path) :
                    m < n /\ task.path[m] = info[i].lane /\ task.path[n] = info[k].lane
    <3>1. /\ on[i] \in 1 .. Len(task.path) /\ on[k] \in 1 .. Len(task.path)
          /\ info[i].lane = task.path[on[i]] /\ info[k].lane = task.path[on[k]]
          /\ NotAfter(on[i], info[i].offset, on[k], info[k].offset)
      BY <2>2, <2>3 DEF RecordsPlaced
    <3> QED
      BY <3>1 DEF NotAfter
  <2> QED
    BY <2>1, <2>3 DEF RecordsFollowRoute
<1> QED
  BY <1>1, SamplerInductive, PTL

(* Whatever is dropped as a repeat of the point before it, the sampled      *)
(* route has a point where each of its steps ends and where it starts.      *)
THEOREM StepsSampled ==
  AdjacentSpec => []EveryStepSampled
<1>1. SamplerInv => EveryStepSampled
  BY DEF SamplerInv, AllSampledIn, SampledIn, EndPoint, EveryStepSampled, Sampled
<1> QED
  BY <1>1, SamplerInductive, PTL
=============================================================================
