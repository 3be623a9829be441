---------------------------- MODULE LaneIdsProofs ----------------------------
(***************************************************************************)
(* Proofs about LaneIds, for every file.                                   *)
(***************************************************************************)
EXTENDS LaneIds, SequenceTheorems, TLAPS

(* The digits of a number written with a factor and a rest.                *)
LEMMA Digits ==
  ASSUME NEW a \in Nat, NEW f \in {100, 10000}, NEW n \in Nat,
         NEW b \in Nat, b < f, n = a * f + b
  PROVE  n \div f = a /\ n % f = b
<1>1. CASE f = 100
  BY <1>1
<1>2. CASE f = 10000
  BY <1>2
<1> QED
  BY <1>1, <1>2

LEMMA LaneParts ==
  ASSUME NEW l \in FileLanes
  PROVE  /\ l.road \in Nat
         /\ l.section \in Nat /\ l.section <= 99
         /\ l.index + 50 \in Nat /\ l.index + 50 <= 99
         /\ (l.index + 50) - 50 = l.index
         /\ l = [road |-> l.road, section |-> l.section, index |-> l.index]
<1>1. l.road \in Nat /\ l.section \in 1 .. 99 /\ l.index \in -50 .. 49
  BY DEF FileLanes
<1>2. l = [road |-> l.road, section |-> l.section, index |-> l.index]
  BY DEF FileLanes
<1>3. l.index \in Int /\ -50 <= l.index /\ l.index <= 49
  BY <1>1
<1>4. l.index + 50 \in Nat /\ l.index + 50 <= 99 /\ (l.index + 50) - 50 = l.index
  BY <1>3
<1> QED
  BY <1>1, <1>2, <1>4

(* The number of a lane says which lane it is.                             *)
LEMMA InfoOfLaneId ==
  ASSUME NEW l \in FileLanes
  PROVE  /\ LaneId(l) \in Nat
         /\ Info(LaneId(l)) = l
<1> DEFINE n == LaneId(l)
           r == l.road
           s == l.section
           y == l.index + 50
           low == s * 100 + y
<1>1. r \in Nat /\ s \in Nat /\ s <= 99 /\ y \in Nat /\ y <= 99 /\ y - 50 = l.index
  BY LaneParts
<1>2. n = r * 10000 + s * 100 + y
  BY DEF LaneId
<1>3. l = [road |-> r, section |-> s, index |-> l.index]
  BY LaneParts
<1> HIDE DEF r, s, y
<1>4. low \in Nat /\ low < 10000 /\ n \in Nat /\ n = r * 10000 + low
  BY <1>1, <1>2
<1>5. r * 100 + s \in Nat /\ y < 100 /\ n = (r * 100 + s) * 100 + y
  BY <1>1, <1>2
<1> HIDE DEF n, low
<1>6. n \div 10000 = r /\ n % 10000 = low
  BY <1>1, <1>4, Digits
<1>7. low \div 100 = s
  <2>1. low = s * 100 + y /\ y < 100
    BY <1>1 DEF low
  <2> QED
    BY <1>1, <1>4, <2>1, Digits
<1>8. n % 100 = y
  BY <1>1, <1>4, <1>5, Digits
<1>9. Info(n) = [road |-> r, section |-> s, index |-> l.index]
  BY <1>1, <1>6, <1>7, <1>8 DEF Info
<1> QED
  BY <1>3, <1>4, <1>9 DEF n

(* Only the numbers of the lanes of road 0 are not described.              *)
LEMMA InfoGiven ==
  ASSUME NEW l \in FileLanes
  PROVE  OpenDriveLaneInfo(LaneId(l)) = IF l.road > 0 THEN l ELSE Unknown
<1> DEFINE n == LaneId(l)
           r == l.road
           s == l.section
           y == l.index + 50
<1>1. r \in Nat /\ s \in Nat /\ s <= 99 /\ y \in Nat /\ y <= 99
  BY LaneParts
<1>2. s >= 1
  BY DEF FileLanes
<1>3. n = r * 10000 + s * 100 + y
  BY DEF LaneId
<1> HIDE DEF n, r, s, y
<1>4. n > 10000 <=> r > 0
  BY <1>1, <1>2, <1>3
<1> QED
  BY <1>4, InfoOfLaneId DEF OpenDriveLaneInfo, Describable, n, r

(* No two lanes have the same number.                                      *)
LEMMA LaneIdIsInjective ==
  ASSUME NEW k \in FileLanes, NEW l \in FileLanes, LaneId(k) = LaneId(l)
  PROVE  k = l
BY InfoOfLaneId

-----------------------------------------------------------------------------
(* The lane map holds the lanes that were read under their numbers.        *)
Numbered ==
  \A e \in laneMap :
     /\ e.id = LaneId(e.lane)
     /\ \E i \in 1 .. next - 1 : file[i] = e.lane

Inv == TypeOK /\ DropsOnlyRepeats /\ Numbered /\ DescribesTheLane

LEMMA FileFacts ==
  ASSUME TypeOK
  PROVE  /\ Len(file) \in Nat
         /\ \A i \in 1 .. Len(file) : file[i] \in FileLanes
<1>1. file \in Seq(FileLanes)
  BY FilesAssumption DEF TypeOK
<1> QED
  BY <1>1, LenProperties, ElementOfSeq

LEMMA InvInit == Init => Inv
<1> SUFFICES ASSUME Init PROVE Inv
  OBVIOUS
<1>1. Len(file) \in Nat
  BY FilesAssumption, LenProperties DEF Init
<1>2. TypeOK
  BY <1>1 DEF Init, TypeOK, Infos
<1> QED
  BY <1>2 DEF Init, Inv, DropsOnlyRepeats, Numbered, DescribesTheLane

LEMMA AddLaneKeepsInv == Inv /\ AddLane => Inv'
<1> SUFFICES ASSUME Inv, AddLane PROVE Inv'
  OBVIOUS
<1> DEFINE l == file[next]
           e == [id |-> LaneId(l), lane |-> l]
<1>1. next \in Nat /\ next >= 1 /\ next <= Len(file) /\ Len(file) \in Nat
  BY FileFacts DEF Inv, TypeOK, AddLane
<1>2. l \in FileLanes
  BY <1>1, FileFacts DEF Inv
<1>3. /\ laneMap' = laneMap \cup {e}
      /\ next' = next + 1
      /\ UNCHANGED <<file, ok, described>>
  BY DEF AddLane
<1>4. e \in [id : Nat, lane : FileLanes] /\ e.id = LaneId(e.lane) /\ e.lane = file[next]
  BY <1>2, InfoOfLaneId
<1>5. 1 .. next' - 1 = (1 .. next - 1) \cup {next} /\ next' \in 1 .. Len(file) + 1
  BY <1>1, <1>3
<1>6. TypeOK'
  BY <1>3, <1>4, <1>5 DEF Inv, TypeOK
<1>7. DropsOnlyRepeats'
  <2>1. \A i \in 1 .. next' - 1 : [id |-> LaneId(file[i]), lane |-> file[i]] \in laneMap'
    BY <1>3, <1>5 DEF Inv, DropsOnlyRepeats
  <2>2. ~ ok => \E i, j \in 1 .. next' - 1 : i # j /\ file[i] = file[j]
    BY <1>5 DEF Inv, DropsOnlyRepeats
  <2> QED
    BY <2>1, <2>2, <1>3 DEF DropsOnlyRepeats, LaneId
<1>8. Numbered'
  <2> HIDE DEF e, l
  <2>1. \A d \in laneMap' : d.id = LaneId(d.lane)
    BY <1>3, <1>4 DEF Inv, Numbered
  <2>2. \A d \in laneMap' : \E i \in 1 .. next' - 1 : file[i] = d.lane
    BY <1>3, <1>4, <1>5 DEF Inv, Numbered
  <2> QED
    BY <2>1, <2>2, <1>3 DEF Numbered
<1>9. DescribesTheLane'
  BY <1>3 DEF Inv, DescribesTheLane
<1> QED
  BY <1>6, <1>7, <1>8, <1>9 DEF Inv

(* A number that is taken belongs to an equal lane read before.            *)
LEMMA DuplicateLaneKeepsInv == Inv /\ DuplicateLane => Inv'
<1> SUFFICES ASSUME Inv, DuplicateLane PROVE Inv'
  OBVIOUS
<1>1. next \in Nat /\ next >= 1 /\ next <= Len(file) /\ Len(file) \in Nat
  BY FileFacts DEF Inv, TypeOK, DuplicateLane
<1>2. file[next] \in FileLanes
  BY <1>1, FileFacts DEF Inv
<1>3. /\ ok' = FALSE
      /\ next' = next + 1
      /\ UNCHANGED <<file, laneMap, described>>
  BY DEF DuplicateLane
<1>4. PICK e \in laneMap : e.id = LaneId(file[next])
  BY DEF DuplicateLane, Ids
<1>5. PICK i \in 1 .. next - 1 : file[i] = e.lane
  BY DEF Inv, Numbered
<1>6. e.id = LaneId(e.lane) /\ e.lane \in FileLanes
  BY DEF Inv, Numbered, TypeOK
<1>7. file[i] = file[next] /\ e = [id |-> LaneId(file[next]), lane |-> file[next]]
  <2>1. e.lane = file[next]
    BY <1>2, <1>4, <1>6, LaneIdIsInjective
  <2>2. e = [id |-> e.id, lane |-> e.lane]
    BY DEF Inv, TypeOK
  <2> QED
    BY <1>4, <1>5, <2>1, <2>2
<1>8. 1 .. next' - 1 = (1 .. next - 1) \cup {next} /\ next' \in 1 .. Len(file) + 1 /\ i # next
  BY <1>1, <1>3
<1>9. TypeOK'
  BY <1>3, <1>8 DEF Inv, TypeOK
<1>10. DropsOnlyRepeats'
  <2>1. \A k \in 1 .. next' - 1 : [id |-> LaneId(file[k]), lane |-> file[k]] \in laneMap'
    BY <1>3, <1>7, <1>8 DEF Inv, DropsOnlyRepeats
  <2>2. \E k, j \in 1 .. next' - 1 : k # j /\ file[k] = file[j]
    BY <1>7, <1>8
  <2> QED
    BY <2>1, <2>2, <1>3 DEF DropsOnlyRepeats, LaneId
<1>11. Numbered' /\ DescribesTheLane'
  BY <1>3, <1>8 DEF Inv, Numbered, DescribesTheLane
<1> QED
  BY <1>9, <1>10, <1>11 DEF Inv

LEMMA DescribeKeepsInv == Inv /\ Describe => Inv'
<1> SUFFICES ASSUME Inv, Describe PROVE Inv'
  OBVIOUS
<1>1. PICK e \in laneMap : described' = [id |-> e.id, info |-> OpenDriveLaneInfo(e.id)]
  BY DEF Describe, Ids
<1>2. UNCHANGED <<file, next, laneMap, ok>>
  BY DEF Describe
<1>3. /\ e.id = LaneId(e.lane) /\ e.lane \in FileLanes /\ e.id \in Nat
      /\ e = [id |-> e.id, lane |-> e.lane]
  BY DEF Inv, Numbered, TypeOK
<1>4. OpenDriveLaneInfo(e.id) = IF e.lane.road > 0 THEN e.lane ELSE Unknown
  BY <1>3, InfoGiven
<1>5. TypeOK'
  BY <1>1, <1>2, <1>3, <1>4 DEF Inv, TypeOK, Infos
<1>6. DescribesTheLane'
  BY <1>1, <1>2, <1>3, <1>4 DEF DescribesTheLane
<1>7. DropsOnlyRepeats' /\ Numbered'
  BY <1>2 DEF Inv, DropsOnlyRepeats, Numbered
<1> QED
  BY <1>5, <1>6, <1>7 DEF Inv

LEMMA Inductive == Spec => []Inv
<1>1. Inv /\ [Next]_vars => Inv'
  <2>1. Inv /\ UNCHANGED vars => Inv'
    <3> SUFFICES ASSUME Inv, UNCHANGED vars PROVE Inv'
      OBVIOUS
    <3>1. UNCHANGED <<file, next, laneMap, ok, described>>
      BY DEF vars
    <3>2. TypeOK' /\ DescribesTheLane'
      BY <3>1 DEF Inv, TypeOK, DescribesTheLane
    <3>3. DropsOnlyRepeats'
      BY <3>1 DEF Inv, DropsOnlyRepeats, LaneId
    <3>4. Numbered'
      BY <3>1 DEF Inv, Numbered, LaneId
    <3> QED
      BY <3>2, <3>3, <3>4 DEF Inv
  <2> QED
    BY <2>1, AddLaneKeepsInv, DuplicateLaneKeepsInv, DescribeKeepsInv DEF Next
<1> QED
  BY InvInit, <1>1, PTL DEF Spec

(* The lane map and the descriptions stay in their domains.                *)
THEOREM LaneIdsTypeCorrect == Spec => []TypeOK
BY Inductive, PTL DEF Inv

(* For every file, no two of its lanes share a number: only a lane that    *)
(* the file repeats is dropped.                                            *)
THEOREM OnlyRepeatsDropped == Spec => []DropsOnlyRepeats
BY Inductive, PTL DEF Inv

(* For every file, get_opendrive_lane_info gives a matched lane back as it *)
(* was in the file, unless it is one of road 0.                            *)
THEOREM LaneDescribed == Spec => []DescribesTheLane
BY Inductive, PTL DEF Inv
=============================================================================
