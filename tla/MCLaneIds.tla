----------------------------- MODULE MCLaneIds -----------------------------
(* Instances of LaneIds for TLC: files of up to three lanes, taken from the *)
(* ends of what a road, a section and a lane index can be and from the      *)
(* roads 0, 1 and 16, a lane that the file repeats included.                *)
EXTENDS LaneIds

MCLanes == [road : {0, 1, 16}, section : {1, 10, 99}, index : {-50, -1, 1, 49}]

MCFiles == { << a, b >> : a \in MCLanes, b \in MCLanes }
             \cup { << a, b, a >> : a \in MCLanes, b \in { l \in MCLanes : l.road = 16 } }
=============================================================================
