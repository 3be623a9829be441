-------------------------- MODULE MCParallelLanes --------------------------
(* Instances of ParallelLanes for TLC: every road of four lanes that are    *)
(* driven either way or not at all, and every way three lanes can be given  *)
(* neighbours, rings and neighbours that are not mutual included.           *)
EXTENDS ParallelLanes

C(l, loc) == << [to |-> l, location |-> loc] >>

MCRoad(types, directions) ==
  [lanes     |-> 1 .. 4,
   type      |-> types,
   direction |-> directions,
   length    |-> [l \in 1 .. 4 |-> 1],
   contacts  |-> [l \in 1 .. 4 |->
                    (IF l = 1 THEN << >> ELSE C(l - 1, "LEFT"))
                      \o (IF l = 4 THEN << >> ELSE C(l + 1, "RIGHT"))]]

MCRoads == { MCRoad(types, directions) :
               types \in [1 .. 4 -> {"NORMAL", "SHOULDER"}],
               directions \in [1 .. 4 -> {"POSITIVE", "NEGATIVE"}] }

\* Lane 0 stands for no neighbour.
MCNeighbours == { f \in [1 .. 3 -> 0 .. 3] : \A l \in 1 .. 3 : f[l] # l }

MCIntersection(left, right) ==
  [lanes     |-> 1 .. 3,
   type      |-> [l \in 1 .. 3 |-> "INTERSECTION"],
   direction |-> [l \in 1 .. 3 |-> "POSITIVE"],
   length    |-> [l \in 1 .. 3 |-> 1],
   contacts  |-> [l \in 1 .. 3 |->
                    (IF left[l] = 0 THEN << >> ELSE C(left[l], "LEFT"))
                      \o (IF right[l] = 0 THEN << >> ELSE C(right[l], "RIGHT"))]]

MCMaps == MCRoads \cup { MCIntersection(left, right) :
                           left \in MCNeighbours, right \in MCNeighbours }

MCCenters(m) == { l \in m.lanes : Routeable(m, l) }
=============================================================================
