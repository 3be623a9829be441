-------------------------- MODULE MCLanePathSearch --------------------------
(* Instances of LanePathSearch for TLC: every successor relation between   *)
(* three lanes, with two length patterns, and one drawn road.              *)
EXTENDS LanePathSearch

\* Every way three lanes of one direction can follow each other, loops over
\* several lanes included; in the second pattern a detour can be shorter.
MCEdges == { <<k, l>> \in (1 .. 3) \X (1 .. 3) : k # l }

MCContactSeqs(k, edges) ==
  LET After(l) == IF <<k, l>> \in edges
                  THEN << [to |-> l, location |-> "SUCCESSOR"] >> ELSE << >>
  IN  After(1) \o After(2) \o After(3)

MCNetwork(edges, lengths) ==
  [lanes     |-> 1 .. 3,
   type      |-> [l \in 1 .. 3 |-> "NORMAL"],
   direction |-> [l \in 1 .. 3 |-> "POSITIVE"],
   length    |-> lengths,
   contacts  |-> [k \in 1 .. 3 |-> MCContactSeqs(k, edges)]]

MCNetworks == { MCNetwork(edges, lengths) :
                  edges \in SUBSET MCEdges,
                  lengths \in { <<1, 2, 2>>, <<1, 1, 3>> } }

\* A road in two sections: lanes 1 and 2 continue as 4 and 5 (lane 2 with the
\* second contact a traffic light leaves), 6 continues as 3 the other way, 7
\* is a crossing with a left turn and a turn back, 8 a shoulder, and 9 a
\* turning lane that is driven both ways.
C(l, loc) == [to |-> l, location |-> loc]

MCRoad ==
  [lanes     |-> 1 .. 9,
   type      |-> <<"NORMAL", "NORMAL", "NORMAL", "NORMAL", "TURN", "MULTI",
                   "INTERSECTION", "SHOULDER", "NORMAL">>,
   direction |-> <<"POSITIVE", "POSITIVE", "NEGATIVE", "POSITIVE", "POSITIVE",
                   "NEGATIVE", "POSITIVE", "POSITIVE", "BIDIRECTIONAL">>,
   length    |-> <<4, 4, 4, 2, 1, 2, 1, 4, 4>>,
   contacts  |->
     << << C(9, "LEFT"), C(2, "RIGHT"), C(4, "SUCCESSOR") >>,
        << C(1, "LEFT"), C(8, "RIGHT"), C(5, "SUCCESSOR"), C(5, "SUCCESSOR") >>,
        << C(9, "RIGHT"), C(6, "SUCCESSOR"), C(1, "PREDECESSOR") >>,
        << C(6, "LEFT"), C(5, "RIGHT"), C(7, "SUCCESSOR"), C(1, "PREDECESSOR") >>,
        << C(4, "LEFT"), C(7, "SUCCESSOR"), C(2, "PREDECESSOR") >>,
        << C(4, "RIGHT"), C(7, "SUCCESSOR"), C(3, "PREDECESSOR") >>,
        << C(8, "RIGHT"), C(1, "SUCCESSOR"), C(6, "SUCCESSOR"),
           C(4, "PREDECESSOR"), C(5, "PREDECESSOR"), C(3, "OVERLAP") >>,
        << C(2, "LEFT"), C(7, "SUCCESSOR") >>,
        << C(3, "LEFT"), C(1, "RIGHT"), C(6, "SUCCESSOR") >> >>]

MCMaps == MCNetworks \cup {MCRoad}

\* Start and goal are map matches, and only drivable lanes are kept as such.
\* The offsets matter to the search only when both are on one lane.
MCQueries(m) ==
  { [start |-> s, goal |-> g, startOffset |-> 1, goalOffset |-> o] :
      s \in { l \in m.lanes : Routeable(m, l) },
      g \in { l \in m.lanes : Routeable(m, l) },
      o \in Offsets }
=============================================================================
