--------------------------- MODULE MCRouteSampler ---------------------------
(* Instances of RouteSampler and AdjacentPoints for TLC: two lanes beside   *)
(* each other, each of which goes on in a road of two lanes again, driven   *)
(* with or against the offsets; the lanes are as long as a few spacings,    *)
(* shorter than one, or shorter than the tolerance.  Beside them there are  *)
(* a third lane, on which no route leads, and then a shoulder.  The snap    *)
(* points lie on the route's own lanes or on the lanes beside them.  And a  *)
(* circle of two lanes, which a route goes around once.                     *)
EXTENDS AdjacentPoints

C(l, loc) == [to |-> l, location |-> loc]

\* Lanes 1, 2 and 5, then 3, 4 and 6; x is where the offset 0 of a lane is.
MCRoad(direction, first, second) ==
  LET up == direction = "POSITIVE"
      ahead == IF up THEN "SUCCESSOR" ELSE "PREDECESSOR"
      back == IF up THEN "PREDECESSOR" ELSE "SUCCESSOR"
  IN  [lanes     |-> 1 .. 6,
       type      |-> [l \in 1 .. 6 |-> IF l = 6 THEN "SHOULDER" ELSE "NORMAL"],
       direction |-> [l \in 1 .. 6 |-> direction],
       length    |-> << first, first, second, second, first, second >>,
       contacts  |-> << << C(2, "RIGHT"), C(3, ahead) >>, << C(1, "LEFT"), C(5, "RIGHT"), C(4, ahead) >>,
                        << C(4, "RIGHT"), C(1, back) >>, << C(3, "LEFT"), C(6, "RIGHT"), C(2, back) >>,
                        << C(2, "LEFT") >>, << C(4, "LEFT") >> >>,
       x         |-> [l \in 1 .. 6 |-> IF (l \in {1, 2, 5}) = up THEN 0
                                       ELSE IF up THEN first ELSE second],
       back      |-> {}]

\* Lane 1 leads there, and lane 3 comes back.
MCCircle(direction) ==
  LET ahead == IF direction = "POSITIVE" THEN "SUCCESSOR" ELSE "PREDECESSOR"
      back == IF direction = "POSITIVE" THEN "PREDECESSOR" ELSE "SUCCESSOR"
  IN  [lanes     |-> {1, 3},
       type      |-> [l \in {1, 3} |-> "NORMAL"],
       direction |-> [l \in {1, 3} |-> direction],
       length    |-> [l \in {1, 3} |-> 10],
       contacts  |-> [l \in {1, 3} |-> << C(4 - l, back), C(4 - l, ahead) >>],
       x         |-> [l \in {1, 3} |-> IF l = 1 THEN 0 ELSE 10],
       back      |-> {3}]

IsCircle(m) == m.back # {}

MCMaps == { MCCircle(d) : d \in {"POSITIVE", "NEGATIVE"} } \cup { MCRoad(d, l[1], l[2]) : d \in {"POSITIVE", "NEGATIVE"},
                                    l \in { <<10, 14>>, <<2, 10>>, <<30, 0>> } }

\* Neighbour lane centres are three metres apart.
MCCentre(m, l, o) ==
  << m.x[l] * Scale + (IF l \in m.back THEN 0 - o ELSE o) * m.length[l],
     CASE l \in {1, 3} -> 0 [] l \in {2, 4} -> 3 * Scale [] OTHER -> 6 * Scale >>

MCPaths(m) ==
  IF IsCircle(m) THEN { << <<1, 3, 1>>, <<"forward", "forward">> >> }
  ELSE { << <<1>>, << >> >>,
         << <<1, 3>>, <<"forward">> >>,
         << <<1, 2>>, <<"lane_change">> >>,
         << <<1, 3, 4>>, <<"forward", "lane_change">> >>,
         << <<2, 1, 3, 4>>, <<"lane_change", "forward", "lane_change">> >>,
         << <<2, 1, 2, 4, 3>>, <<"lane_change", "lane_change", "forward", "lane_change">> >> }

MCTasks(m) ==
  { t \in { [path |-> p[1], types |-> p[2], startOffset |-> s, goalOffset |-> g] :
              p \in MCPaths(m), s \in {0, 30, 100}, g \in {0, 35, 70, 100} } :
      Len(t.path) = 1 => OffsetsMoveForward(m, t.path[1], t.startOffset, t.goalOffset) }

Beside(m, l) ==
  IF IsCircle(m) THEN l
  ELSE CASE l = 1 -> 2 [] l = 2 -> 1 [] l = 3 -> 4 [] l = 4 -> 3

MCEnds(m, t) ==
  { [start |-> MCCentre(m, s, t.startOffset), goal |-> MCCentre(m, g, t.goalOffset)] :
      s \in { t.path[1], Beside(m, t.path[1]) },
      g \in { t.path[Len(t.path)], Beside(m, t.path[Len(t.path)]) } }
=============================================================================
