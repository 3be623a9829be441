--------------------------- MODULE MCRouteBuilder ---------------------------
(* Instances of RouteBuilder for TLC: three lanes beside each other, the    *)
(* third of which goes on in a road of four lanes, driven with or against   *)
(* the offsets, with lanes shorter, longer and much longer than a lane      *)
(* change, and every lane path without a detour.                           *)
EXTENDS RouteBuilder

C(l, loc) == [to |-> l, location |-> loc]

MCNeighbours ==
  << << C(2, "RIGHT") >>, << C(1, "LEFT"), C(3, "RIGHT") >>, << C(2, "LEFT") >>,
     << C(5, "RIGHT") >>, << C(4, "LEFT"), C(6, "RIGHT") >>,
     << C(5, "LEFT"), C(7, "RIGHT") >>, << C(6, "LEFT") >> >>

MCRoad(direction, first, second) ==
  LET ahead == IF direction = "POSITIVE" THEN "SUCCESSOR" ELSE "PREDECESSOR"
      back  == IF direction = "POSITIVE" THEN "PREDECESSOR" ELSE "SUCCESSOR"
      Continued == [l \in 1 .. 7 |->
                      IF l = 3 THEN << C(4, ahead) >>
                      ELSE IF l = 4 THEN << C(3, back) >> ELSE << >>]
  IN  [lanes     |-> 1 .. 7,
       type      |-> [l \in 1 .. 7 |-> "NORMAL"],
       direction |-> [l \in 1 .. 7 |-> direction],
       length    |-> [l \in 1 .. 7 |-> IF l <= 3 THEN first ELSE second],
       contacts  |-> [l \in 1 .. 7 |-> MCNeighbours[l] \o Continued[l]]]

MCLengths == { <<4, 20>>, <<20, 4>>, <<20, 100>>, <<100, 0>> }

MCMaps == { MCRoad(d, l[1], l[2]) : d \in {"POSITIVE", "NEGATIVE"}, l \in MCLengths }

\* The only path without a detour from lane s to lane g: up the lane numbers,
\* with one forward move from lane 3 to lane 4, or down beside each other.
MCPath(s, g) ==
  [i \in 1 .. (IF s <= g THEN g - s ELSE s - g) + 1 |->
     IF s <= g THEN s + i - 1 ELSE s - i + 1]

MCTypes(path) ==
  [i \in 1 .. Len(path) - 1 |->
     IF path[i] = 3 /\ path[i + 1] = 4 THEN "forward" ELSE "lane_change"]

MCPaths == { MCPath(p[1], p[2]) :
               p \in { q \in (1 .. 7) \X (1 .. 7) :
                        q[1] <= q[2] \/ q[1] <= 3 \/ q[2] >= 4 } }

\* Places at the ends of a lane, in its middle, and about the 95 percent mark.
MCTasks(m) ==
  { t \in { [path |-> p, types |-> MCTypes(p), startOffset |-> s, goalOffset |-> g] :
            p \in MCPaths, s \in {0, 4, 40, 60, 95, 96}, g \in {0, 41, 60, 97, 100} } :
      Len(t.path) = 1 =>
        OffsetsMoveForward(m, t.path[1], t.startOffset, t.goalOffset) }
=============================================================================
