------------------------------- MODULE LaneIds -------------------------------
(***************************************************************************)
(* The numbers of lanes: initializeLaneMap of the OpenDRIVE reader numbers *)
(* the lanes of a file with laneId (geometry/LaneUtils.cpp), and           *)
(* get_opendrive_lane_info of scripts/admap_route.py takes the number of a *)
(* matched lane apart again.                                               *)
(*                                                                         *)
(* A lane of the file is a record of road id, lane section and lane index. *)
(* One step adds one lane to the lane map, or describes one lane of it.    *)
(***************************************************************************)
EXTENDS Integers, Sequences

CONSTANT Files      \* the files that may be read: sequences of lanes

\* A road has fewer than 100 lane sections, numbered from 1, and a lane index
\* has at most two digits.  The files in maps/ have up to 4 sections a road
\* and indices from -10 to 9.
FileLanes == [road : Nat, section : 1 .. 99, index : -50 .. 49]

ASSUME FilesAssumption == Files \subseteq Seq(FileLanes)

VARIABLES file,      \* the lanes in the order they are read
          next,      \* the lane that is read next
          laneMap,   \* the set of [id, lane] pairs in the lane map
          ok,        \* no number was given twice
          described  \* the lane that was described last with its number

vars == <<file, next, laneMap, ok, described>>

\* Mutants: the section is left out, and 50 is not taken off again.
IdOfRoad(l) == l.road * 10000 + (l.index + 50)
InfoUnshifted(id) ==
  [road |-> id \div 10000, section |-> (id % 10000) \div 100, index |-> id % 100]

LaneId(l) == l.road * 10000 + l.section * 100 + (l.index + 50)

Unknown == [road |-> -1, section |-> -1, index |-> -1]

\* What a number says of its lane, if it is taken for one of a lane.
Info(id) ==
  [road |-> id \div 10000, section |-> (id % 10000) \div 100, index |-> (id % 100) - 50]

\* Numbers up to 10000 are not.
Describable(id) == id > 10000

OpenDriveLaneInfo(id) == IF Describable(id) THEN Info(id) ELSE Unknown

-----------------------------------------------------------------------------
Ids == { e.id : e \in laneMap }

Init ==
  /\ file \in Files
  /\ next = 1
  /\ laneMap = {}
  /\ ok = TRUE
  /\ described = [id |-> 0, info |-> Unknown]

AddLane ==
  /\ next <= Len(file)
  /\ LaneId(file[next]) \notin Ids
  /\ laneMap' = laneMap \cup { [id |-> LaneId(file[next]), lane |-> file[next]] }
  /\ next' = next + 1
  /\ UNCHANGED <<file, ok, described>>

\* The number is taken: the lane is left out and the import reports it.
DuplicateLane ==
  /\ next <= Len(file)
  /\ LaneId(file[next]) \in Ids
  /\ ok' = FALSE
  /\ next' = next + 1
  /\ UNCHANGED <<file, laneMap, described>>

\* The lane map is complete, and a lane that was matched is described.
Describe ==
  /\ next > Len(file)
  /\ \E id \in Ids : described' = [id |-> id, info |-> OpenDriveLaneInfo(id)]
  /\ UNCHANGED <<file, next, laneMap, ok>>

Next == AddLane \/ DuplicateLane \/ Describe

Spec == Init /\ [][Next]_vars

-----------------------------------------------------------------------------
Infos == FileLanes \cup { Unknown }

TypeOK ==
  /\ file \in Files
  /\ next \in 1 .. Len(file) + 1
  /\ laneMap \subseteq [id : Nat, lane : FileLanes]
  /\ ok \in BOOLEAN
  /\ described \in [id : Nat, info : Infos]

\* Numbers tell lanes apart: the import drops a lane, and says so, only if the
\* file itself holds that lane twice.
DropsOnlyRepeats ==
  /\ \A i \in 1 .. next - 1 : [id |-> LaneId(file[i]), lane |-> file[i]] \in laneMap
  /\ ~ ok => \E i, j \in 1 .. next - 1 : i # j /\ file[i] = file[j]

\* Every matched lane is described as the lane it is in the file, but for the
\* lanes of road 0, of which nothing is said.
DescribesTheLane ==
  described.id # 0 =>
    \E e \in laneMap :
       /\ e.id = described.id
       /\ described.info = IF e.lane.road > 0 THEN e.lane ELSE Unknown

-----------------------------------------------------------------------------
(* What the documentation says and the code does not do.                   *)

\* "This function reverses that exact format so the printed ids match the
\* original OpenDRIVE lane information": for the lanes of every road.
PrintedIdsMatch ==
  \A e \in laneMap : described.id = e.id => described.info = e.lane
=============================================================================
