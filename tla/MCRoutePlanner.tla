--------------------------- MODULE MCRoutePlanner ---------------------------
(* Instances of RoutePlanner for TLC: two neighbour lanes, the second of    *)
(* which goes on in a road of four, with a shoulder beside it, an oncoming  *)
(* lane and a lane that leads back; the points lie beside up to two lanes.  *)
EXTENDS RoutePlanner

C(l, loc) == [to |-> l, location |-> loc]

\* Lanes 1 and 2, then 3, 4, 5, 6 and the shoulder 7; 8 leads from 6 to 1,
\* and lane 9 beside lane 3 is oncoming.
MCRoad(length) ==
  [lanes     |-> 1 .. 9,
   type      |-> <<"NORMAL", "NORMAL", "NORMAL", "NORMAL", "NORMAL", "NORMAL",
                   "SHOULDER", "INTERSECTION", "NORMAL">>,
   direction |-> [l \in 1 .. 9 |-> IF l = 9 THEN "NEGATIVE" ELSE "POSITIVE"],
   length    |-> [l \in 1 .. 9 |-> IF l = 8 THEN 20 ELSE length],
   contacts  |->
     << << C(2, "RIGHT"), C(8, "PREDECESSOR") >>,
        << C(1, "LEFT"), C(3, "SUCCESSOR") >>,
        << C(9, "LEFT"), C(4, "RIGHT"), C(2, "PREDECESSOR") >>,
        << C(3, "LEFT"), C(5, "RIGHT") >>,
        << C(4, "LEFT"), C(6, "RIGHT") >>,
        << C(5, "LEFT"), C(7, "RIGHT"), C(8, "SUCCESSOR") >>,
        << C(6, "LEFT") >>,
        << C(1, "SUCCESSOR"), C(6, "PREDECESSOR") >>,
        << C(3, "LEFT") >> >>]

MCMaps == { MCRoad(4), MCRoad(40) }

Match(lane, offset, snap, inLane, probability) ==
  [lane |-> lane, offset |-> offset, snap |-> snap, inLane |-> inLane,
   probability |-> probability]

\* A point beside two lanes, nearer to the first, and points beside one lane
\* or none; lane 7 is no candidate.
MCStarts ==
  { << Match(1, o, 1, TRUE, 5), Match(2, o, n, FALSE, 6) >> :
       o \in {0, 50, 97}, n \in {1, 2} }
    \cup { << Match(4, 60, 1, FALSE, 9), Match(3, 60, 0, TRUE, 5) >>,
           << Match(7, 60, 0, TRUE, 9), Match(6, 50, 3, FALSE, 1) >>,
           << Match(9, 40, 1, TRUE, 9), Match(3, 60, 2, FALSE, 5) >>,
           << Match(9, 40, 1, TRUE, 9) >>,
           << Match(7, 60, 0, TRUE, 9) >> }

MCGoals ==
  { << Match(5, o, 2, FALSE, 7), Match(6, o, 1, TRUE, 5) >> : o \in {30, 61, 100} }
    \cup { << Match(2, 51, 0, TRUE, 8), Match(1, 51, 3, FALSE, 2) >>,
           << Match(4, 70, 0, TRUE, 8) >>,
           << >> }

MCRequests(m) == [starts : MCStarts, goals : MCGoals]
=============================================================================
