---------------------------- MODULE ParallelLanes ----------------------------
(***************************************************************************)
(* get_parallel_lane_ids of scripts/admap_route.py: the lanes beside a     *)
(* lane that are driven in its direction.  The first loop walks to the     *)
(* left, the second one from the same lane to the right, and both share    *)
(* the set of visited lanes.                                               *)
(*                                                                         *)
(* The neighbours the importer of the map library gives a lane need not be *)
(* mutual: it connects the lanes of an intersection pair by pair, and a    *)
(* later pair overwrites the neighbour an earlier one has set.  A walk to  *)
(* one side may therefore come back to a lane it has been on.              *)
(*                                                                         *)
(* One step is one iteration of one of the loops.                          *)
(***************************************************************************)
EXTENDS LaneMap

CONSTANTS Maps,         \* the maps that may be loaded
          Centers(_)    \* the lanes of a map that are asked about

ASSUME ParallelAssumption ==
  /\ \A m \in Maps : IsLaneMap(m)
  /\ \A m \in Maps : Centers(m) \subseteq m.lanes

VARIABLES map,          \* the loaded map
          center,       \* center_lane_id
          side,         \* the side of the loop that runs, or "done"
          current,      \* current_lane_id
          visited,      \* visited_lane_ids
          leftIds,      \* left_lane_ids
          rightIds      \* right_lane_ids

vars == <<map, center, side, current, visited, leftIds, rightIds>>

Sides == {"LEFT", "RIGHT"}

\* Contact c of lane l leads to a drivable lane of its direction on side s.
LeadsAside(m, l, c, s) ==
  /\ c.location = s
  /\ c.to > 0
  /\ LanesHaveSameDirection(m, l, c.to)
  /\ Routeable(m, c.to)

\* Lane k is the one get_adjacent_lane_id finds beside lane l: the first
\* contact that leads aside decides.
IsAdjacent(m, l, s, k) ==
  \E i \in 1 .. Len(m.contacts[l]) :
     /\ m.contacts[l][i].to = k
     /\ LeadsAside(m, l, m.contacts[l][i], s)
     /\ \A j \in 1 .. i - 1 : ~ LeadsAside(m, l, m.contacts[l][j], s)

-----------------------------------------------------------------------------
Init ==
  /\ map \in Maps
  /\ center \in Centers(map)
  /\ side = "LEFT"
  /\ current = center
  /\ visited = {center}
  /\ leftIds = << >>
  /\ rightIds = << >>

StepLeft ==
  /\ side = "LEFT"
  /\ \E next \in map.lanes \ visited :
       /\ IsAdjacent(map, current, "LEFT", next)
       /\ leftIds' = Append(leftIds, next)
       /\ visited' = visited \cup {next}
       /\ current' = next
  /\ UNCHANGED <<map, center, side, rightIds>>

\* No lane on that side, or one that was visited.
EndOfWalk(s) == \A next \in map.lanes \ visited : ~ IsAdjacent(map, current, s, next)

\* Mutants: the walk to the right starts where the one to the left ended, it
\* starts with a fresh set of visited lanes, and a visited lane does not end
\* the walk to the left.
TurnBackAtLeftmost ==
  /\ side = "LEFT"
  /\ EndOfWalk("LEFT")
  /\ side' = "RIGHT"
  /\ UNCHANGED <<map, center, current, visited, leftIds, rightIds>>
TurnBackAtEdge ==
  /\ side = "LEFT"
  /\ \A next \in map.lanes : ~ IsAdjacent(map, current, "LEFT", next)
  /\ side' = "RIGHT"
  /\ current' = center
  /\ UNCHANGED <<map, center, visited, leftIds, rightIds>>

TurnBack ==
  /\ side = "LEFT"
  /\ EndOfWalk("LEFT")
  /\ side' = "RIGHT"
  /\ current' = center
  /\ UNCHANGED <<map, center, visited, leftIds, rightIds>>

StepRight ==
  /\ side = "RIGHT"
  /\ \E next \in map.lanes \ visited :
       /\ IsAdjacent(map, current, "RIGHT", next)
       /\ rightIds' = Append(rightIds, next)
       /\ visited' = visited \cup {next}
       /\ current' = next
  /\ UNCHANGED <<map, center, side, leftIds>>

Finish ==
  /\ side = "RIGHT"
  /\ EndOfWalk("RIGHT")
  /\ side' = "done"
  /\ UNCHANGED <<map, center, current, visited, leftIds, rightIds>>

Next == StepLeft \/ TurnBack \/ StepRight \/ Finish

\* One sequential call: it keeps running until it returns.
Spec == Init /\ [][Next]_vars /\ WF_vars(Next)

-----------------------------------------------------------------------------
(* What the walks find.                                                    *)

ParallelIds == leftIds \o rightIds

Found == { ParallelIds[i] : i \in 1 .. Len(ParallelIds) }

TypeOK ==
  /\ map \in Maps
  /\ center \in Centers(map)
  /\ side \in Sides \cup {"done"}
  /\ current \in visited
  /\ visited \subseteq map.lanes
  /\ leftIds \in Seq(map.lanes)
  /\ rightIds \in Seq(map.lanes)

\* No lane is returned twice and the lane asked about never, though both
\* walks may meet on lanes whose neighbours form a ring, and every lane that
\* is returned can be driven in the direction of the lane asked about.
EachLaneOnce ==
  /\ \A i, j \in 1 .. Len(ParallelIds) :
       ParallelIds[i] = ParallelIds[j] => i = j
  /\ \A l \in Found :
       /\ l # center
       /\ Routeable(map, l)
       /\ LanesHaveSameDirection(map, center, l)

\* The lanes S hold every lane beside one of them.
ClosedAside(m, S) ==
  \A k \in S : \A s \in Sides : \A l \in m.lanes : IsAdjacent(m, k, s, l) => l \in S

OtherSide(s) == IF s = "LEFT" THEN "RIGHT" ELSE "LEFT"

\* As on a road outside intersections: a lane that has another on one side
\* is what that one has on its other side.
NeighboursMutual(m) ==
  \A k, l \in m.lanes : \A s \in Sides :
     IsAdjacent(m, k, s, l) => IsAdjacent(m, l, OtherSide(s), k)

\* Where neighbours are mutual the walks miss no lane of the carriageway and
\* leave it nowhere: what they find, with the lane itself, is the smallest set
\* of lanes that holds the lane and every lane beside one of its lanes.
FindsCarriageway ==
  side = "done" /\ NeighboursMutual(map) =>
    /\ ClosedAside(map, Found \cup {center})
    /\ \A S \in SUBSET map.lanes :
         center \in S /\ ClosedAside(map, S) => Found \subseteq S

\* get_parallel_lane_ids returns.
Terminates == <>(side = "done")
=============================================================================
