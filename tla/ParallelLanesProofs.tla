------------------------- MODULE ParallelLanesProofs -------------------------
(***************************************************************************)
(* Proofs about ParallelLanes: what get_parallel_lane_ids returns, for     *)
(* every lane map and every lane.                                          *)
(***************************************************************************)
EXTENDS ParallelLanes, SequenceTheorems, TLAPS

(* The elements of a sequence, and a sequence without repetitions.         *)
Elements(s) == { s[i] : i \in 1 .. Len(s) }
Distinct(s) == \A i, j \in 1 .. Len(s) : s[i] = s[j] => i = j

(* A new element is added at the end of a sequence without repetitions.    *)
LEMMA AppendNew ==
  ASSUME NEW S, NEW s \in Seq(S), NEW x \in S
  PROVE  /\ Elements(Append(s, x)) = Elements(s) \cup {x}
         /\ Distinct(s) /\ x \notin Elements(s) => Distinct(Append(s, x))
<1> DEFINE t == Append(s, x)
<1>1. Len(s) \in Nat
  BY LenProperties
<1>2. /\ Len(t) = Len(s) + 1
      /\ \A i \in 1 .. Len(s) : t[i] = s[i]
      /\ t[Len(s) + 1] = x
  BY AppendProperties
<1> HIDE DEF t
<1>3. 1 .. Len(s) + 1 = (1 .. Len(s)) \cup {Len(s) + 1}
  BY <1>1
<1>4. Elements(t) = Elements(s) \cup {x}
  BY <1>2, <1>3 DEF Elements
<1>5. ASSUME Distinct(s), x \notin Elements(s), NEW i \in 1 .. Len(t), NEW j \in 1 .. Len(t),
             t[i] = t[j]
      PROVE  i = j
  <2>1. i \in (1 .. Len(s)) \cup {Len(s) + 1} /\ j \in (1 .. Len(s)) \cup {Len(s) + 1}
    BY <1>2, <1>3, <1>5
  <2>2. \A k \in 1 .. Len(s) : t[k] # x
    BY <1>2, <1>5 DEF Elements
  <2> QED
    BY <2>1, <2>2, <1>2, <1>5 DEF Distinct
<1> QED
  BY <1>4, <1>5 DEF t, Distinct

(* At most one lane is adjacent to a lane on a side.                       *)
LEMMA AdjacentIsUnique ==
  ASSUME NEW m, NEW l, NEW s, NEW j, NEW k, IsAdjacent(m, l, s, j), IsAdjacent(m, l, s, k)
  PROVE  j = k
<1>1. PICK a \in 1 .. Len(m.contacts[l]) :
         /\ m.contacts[l][a].to = j
         /\ LeadsAside(m, l, m.contacts[l][a], s)
         /\ \A i \in 1 .. a - 1 : ~ LeadsAside(m, l, m.contacts[l][i], s)
  BY DEF IsAdjacent
<1>2. PICK b \in 1 .. Len(m.contacts[l]) :
         /\ m.contacts[l][b].to = k
         /\ LeadsAside(m, l, m.contacts[l][b], s)
         /\ \A i \in 1 .. b - 1 : ~ LeadsAside(m, l, m.contacts[l][i], s)
  BY DEF IsAdjacent
<1>3. ~ (a < b) /\ ~ (b < a)
  <2>1. ASSUME a < b PROVE FALSE
    <3>1. a \in 1 .. b - 1
      BY <2>1
    <3> QED
      BY <3>1, <1>1, <1>2
  <2>2. ASSUME b < a PROVE FALSE
    <3>1. b \in 1 .. a - 1
      BY <2>2
    <3> QED
      BY <3>1, <1>1, <1>2
  <2> QED
    BY <2>1, <2>2
<1>4. a = b
  BY <1>3
<1> QED
  BY <1>1, <1>2, <1>4

(* A lane adjacent to another is drivable, in the direction of that one.   *)
LEMMA AdjacentIsDrivable ==
  ASSUME NEW m, NEW l, NEW s, NEW k, IsAdjacent(m, l, s, k)
  PROVE  Routeable(m, k) /\ LanesHaveSameDirection(m, l, k)
BY DEF IsAdjacent, LeadsAside

-----------------------------------------------------------------------------
(* The inductive invariant.                                                *)

(* The visited lanes are the lane asked about and those found, each found  *)
(* once.                                                                   *)
Bookkeeping ==
  /\ visited = {center} \cup Elements(leftIds) \cup Elements(rightIds)
  /\ Distinct(leftIds)
  /\ Distinct(rightIds)
  /\ Elements(leftIds) \cap Elements(rightIds) = {}
  /\ center \notin Elements(leftIds) \cup Elements(rightIds)

SameWay ==
  \A l \in visited :
     /\ LanesHaveSameDirection(map, center, l)
     /\ l # center => Routeable(map, l)

(* Every set that holds the lane and what is beside its lanes holds what   *)
(* was visited.                                                            *)
Needed ==
  \A S \in SUBSET map.lanes : center \in S /\ ClosedAside(map, S) => visited \subseteq S

(* The lane on side s of lane l was visited, if V is what was visited.     *)
BesideIn(V, l, s) == \A k \in map.lanes : IsAdjacent(map, l, s, k) => k \in V

(* Where neighbours are mutual, the lane beside a visited lane was visited *)
(* too, but for the lane where the walk is and the one where it will start *)
(* to the right.                                                           *)
Closing ==
  NeighboursMutual(map) =>
    /\ \A l \in visited : BesideIn(visited, l, "LEFT") \/ (side = "LEFT" /\ l = current)
    /\ \A l \in visited :
         \/ BesideIn(visited, l, "RIGHT")
         \/ side = "LEFT" /\ l = center
         \/ side = "RIGHT" /\ l = current

Inv == TypeOK /\ Bookkeeping /\ SameWay /\ Needed /\ Closing

LEMMA InvInit == Init => Inv
<1> SUFFICES ASSUME Init PROVE Inv
  OBVIOUS
<1>1. center \in map.lanes
  BY ParallelAssumption DEF Init
<1>2. Elements(<< >>) = {} /\ Distinct(<< >>)
  BY DEF Elements, Distinct
<1>3. TypeOK
  BY <1>1 DEF Init, TypeOK, Sides
<1>4. Bookkeeping
  BY <1>2 DEF Init, Bookkeeping
<1>5. SameWay
  BY DEF Init, SameWay, LanesHaveSameDirection
<1>6. Needed /\ Closing
  BY DEF Init, Needed, Closing
<1> QED
  BY <1>3, <1>4, <1>5, <1>6 DEF Inv

(* The facts of a step to a lane beside the current one that hold for both *)
(* walks.                                                                  *)
LEMMA StepFacts ==
  ASSUME Inv, NEW s \in Sides, NEW next \in map.lanes \ visited,
         IsAdjacent(map, current, s, next),
         map' = map, center' = center, visited' = visited \cup {next}
  PROVE  /\ SameWay'
         /\ Needed'
         /\ \A l \in visited, t \in Sides : BesideIn(visited, l, t) => BesideIn(visited', l, t)
         /\ BesideIn(visited', current, s)
         /\ NeighboursMutual(map) => BesideIn(visited', next, OtherSide(s))
<1> USE DEF Inv
<1>1. current \in visited /\ visited \subseteq map.lanes
  BY DEF TypeOK
<1>2. SameWay'
  BY <1>1, AdjacentIsDrivable DEF SameWay, LanesHaveSameDirection
<1>3. Needed'
  <2> SUFFICES ASSUME NEW S \in SUBSET map.lanes, center \in S, ClosedAside(map, S)
               PROVE  visited \cup {next} \subseteq S
    BY DEF Needed
  <2>1. visited \subseteq S
    BY DEF Needed
  <2> QED
    BY <2>1, <1>1 DEF ClosedAside
<1>4. \A l \in visited, t \in Sides : BesideIn(visited, l, t) => BesideIn(visited', l, t)
  BY DEF BesideIn
<1>5. BesideIn(visited', current, s)
  <2>1. \A k \in map.lanes : IsAdjacent(map, current, s, k) => k = next
    BY AdjacentIsUnique
  <2> QED
    BY <2>1 DEF BesideIn
<1>6. NeighboursMutual(map) => BesideIn(visited', next, OtherSide(s))
  <2> SUFFICES ASSUME NeighboursMutual(map) PROVE BesideIn(visited', next, OtherSide(s))
    OBVIOUS
  <2>1. IsAdjacent(map, next, OtherSide(s), current)
    BY <1>1 DEF NeighboursMutual
  <2>2. \A k \in map.lanes : IsAdjacent(map, next, OtherSide(s), k) => k = current
    BY <2>1, AdjacentIsUnique
  <2> QED
    BY <2>2, <1>1 DEF BesideIn
<1> QED
  BY <1>2, <1>3, <1>4, <1>5, <1>6

LEMMA StepLeftKeepsInv == Inv /\ StepLeft => Inv'
<1> SUFFICES ASSUME Inv, StepLeft PROVE Inv'
  OBVIOUS
<1>1. PICK next \in map.lanes \ visited :
         /\ IsAdjacent(map, current, "LEFT", next)
         /\ leftIds' = Append(leftIds, next)
         /\ visited' = visited \cup {next}
         /\ current' = next
  BY DEF StepLeft
<1>2. side = "LEFT" /\ UNCHANGED <<map, center, side, rightIds>>
  BY DEF StepLeft
<1>3. leftIds \in Seq(map.lanes)
  BY DEF Inv, TypeOK
<1>4. /\ leftIds' \in Seq(map.lanes)
      /\ Elements(leftIds') = Elements(leftIds) \cup {next}
      /\ next \notin Elements(leftIds) /\ Distinct(leftIds) => Distinct(leftIds')
  BY <1>1, <1>3, AppendNew, AppendProperties
<1>5. next \notin {center} \cup Elements(leftIds) \cup Elements(rightIds)
  BY <1>1 DEF Inv, Bookkeeping
<1>6. TypeOK'
  BY <1>1, <1>2, <1>4 DEF Inv, TypeOK
<1>7. Bookkeeping'
  BY <1>1, <1>2, <1>4, <1>5 DEF Inv, Bookkeeping
<1>8. "LEFT" \in Sides /\ OtherSide("LEFT") = "RIGHT" /\ "RIGHT" \in Sides
  BY DEF Sides, OtherSide
<1>9. /\ SameWay'
      /\ Needed'
      /\ \A l \in visited, t \in Sides : BesideIn(visited, l, t) => BesideIn(visited', l, t)
      /\ BesideIn(visited', current, "LEFT")
      /\ NeighboursMutual(map) => BesideIn(visited', next, "RIGHT")
  BY <1>1, <1>2, <1>8, StepFacts
<1>10. Closing'
  <2> SUFFICES ASSUME NeighboursMutual(map)
               PROVE  /\ \A l \in visited \cup {next} : BesideIn(visited', l, "LEFT") \/ l = next
                      /\ \A l \in visited \cup {next} : BesideIn(visited', l, "RIGHT") \/ l = center
    BY <1>1, <1>2 DEF Closing, BesideIn
  <2>1. \A l \in visited : BesideIn(visited', l, "LEFT") \/ l = next
    BY <1>2, <1>8, <1>9 DEF Inv, Closing
  <2>2. \A l \in visited \cup {next} : BesideIn(visited', l, "RIGHT") \/ l = center
    BY <1>2, <1>8, <1>9 DEF Inv, Closing
  <2> QED
    BY <2>1, <2>2
<1> QED
  BY <1>6, <1>7, <1>9, <1>10 DEF Inv

LEMMA StepRightKeepsInv == Inv /\ StepRight => Inv'
<1> SUFFICES ASSUME Inv, StepRight PROVE Inv'
  OBVIOUS
<1>1. PICK next \in map.lanes \ visited :
         /\ IsAdjacent(map, current, "RIGHT", next)
         /\ rightIds' = Append(rightIds, next)
         /\ visited' = visited \cup {next}
         /\ current' = next
  BY DEF StepRight
<1>2. side = "RIGHT" /\ UNCHANGED <<map, center, side, leftIds>>
  BY DEF StepRight
<1>3. rightIds \in Seq(map.lanes)
  BY DEF Inv, TypeOK
<1>4. /\ rightIds' \in Seq(map.lanes)
      /\ Elements(rightIds') = Elements(rightIds) \cup {next}
      /\ next \notin Elements(rightIds) /\ Distinct(rightIds) => Distinct(rightIds')
  BY <1>1, <1>3, AppendNew, AppendProperties
<1>5. next \notin {center} \cup Elements(leftIds) \cup Elements(rightIds)
  BY <1>1 DEF Inv, Bookkeeping
<1>6. TypeOK'
  BY <1>1, <1>2, <1>4 DEF Inv, TypeOK
<1>7. Bookkeeping'
  BY <1>1, <1>2, <1>4, <1>5 DEF Inv, Bookkeeping
<1>8. "RIGHT" \in Sides /\ OtherSide("RIGHT") = "LEFT" /\ "LEFT" \in Sides
  BY DEF Sides, OtherSide
<1>9. /\ SameWay'
      /\ Needed'
      /\ \A l \in visited, t \in Sides : BesideIn(visited, l, t) => BesideIn(visited', l, t)
      /\ BesideIn(visited', current, "RIGHT")
      /\ NeighboursMutual(map) => BesideIn(visited', next, "LEFT")
  BY <1>1, <1>2, <1>8, StepFacts
<1>10. Closing'
  <2> SUFFICES ASSUME NeighboursMutual(map)
               PROVE  /\ \A l \in visited \cup {next} : BesideIn(visited', l, "LEFT")
                      /\ \A l \in visited \cup {next} : BesideIn(visited', l, "RIGHT") \/ l = next
    BY <1>1, <1>2 DEF Closing, BesideIn
  <2>1. \A l \in visited \cup {next} : BesideIn(visited', l, "LEFT")
    BY <1>2, <1>8, <1>9 DEF Inv, Closing
  <2>2. \A l \in visited : BesideIn(visited', l, "RIGHT") \/ l = next
    BY <1>2, <1>8, <1>9 DEF Inv, Closing
  <2> QED
    BY <2>1, <2>2
<1> QED
  BY <1>6, <1>7, <1>9, <1>10 DEF Inv

(* Where a walk ends, the lane on its side of the current lane was visited. *)
LEMMA EndIsClosed ==
  ASSUME NEW s \in Sides, EndOfWalk(s)
  PROVE  BesideIn(visited, current, s)
BY DEF EndOfWalk, BesideIn

LEMMA TurnBackKeepsInv == Inv /\ TurnBack => Inv'
<1> SUFFICES ASSUME Inv, TurnBack PROVE Inv'
  OBVIOUS
<1>1. /\ side = "LEFT"
      /\ EndOfWalk("LEFT")
      /\ side' = "RIGHT"
      /\ current' = center
      /\ UNCHANGED <<map, center, visited, leftIds, rightIds>>
  BY DEF TurnBack
<1>2. BesideIn(visited, current, "LEFT")
  BY <1>1, EndIsClosed DEF Sides
<1>3. TypeOK' /\ Bookkeeping'
  BY <1>1 DEF Inv, TypeOK, Bookkeeping, Sides
<1>4. SameWay' /\ Needed'
  BY <1>1 DEF Inv, SameWay, Needed
<1>5. Closing'
  BY <1>1, <1>2 DEF Inv, Closing, BesideIn
<1> QED
  BY <1>3, <1>4, <1>5 DEF Inv

LEMMA FinishKeepsInv == Inv /\ Finish => Inv'
<1> SUFFICES ASSUME Inv, Finish PROVE Inv'
  OBVIOUS
<1>1. /\ side = "RIGHT"
      /\ EndOfWalk("RIGHT")
      /\ side' = "done"
      /\ UNCHANGED <<map, center, current, visited, leftIds, rightIds>>
  BY DEF Finish
<1>2. BesideIn(visited, current, "RIGHT")
  BY <1>1, EndIsClosed DEF Sides
<1>3. TypeOK' /\ Bookkeeping'
  BY <1>1 DEF Inv, TypeOK, Bookkeeping
<1>4. SameWay' /\ Needed'
  BY <1>1 DEF Inv, SameWay, Needed
<1>5. Closing'
  BY <1>1, <1>2 DEF Inv, Closing, BesideIn
<1> QED
  BY <1>3, <1>4, <1>5 DEF Inv

LEMMA StutterKeepsInv == Inv /\ UNCHANGED vars => Inv'
BY DEF Inv, vars, TypeOK, Bookkeeping, SameWay, Needed, Closing, BesideIn

LEMMA Inductive == Spec => []Inv
<1>1. Inv /\ [Next]_vars => Inv'
  BY StepLeftKeepsInv, TurnBackKeepsInv, StepRightKeepsInv, FinishKeepsInv,
     StutterKeepsInv
  DEF Next
<1> QED
  BY InvInit, <1>1, PTL DEF Spec

-----------------------------------------------------------------------------
(* The theorems.                                                           *)

(* What get_parallel_lane_ids returns is what the two walks found.         *)
LEMMA FoundByWalks ==
  ASSUME Inv
  PROVE  /\ Found = Elements(leftIds) \cup Elements(rightIds)
         /\ Distinct(ParallelIds)
<1>1. leftIds \in Seq(map.lanes) /\ rightIds \in Seq(map.lanes)
  BY DEF Inv, TypeOK
<1> DEFINE p == leftIds \o rightIds
           a == Len(leftIds)
           b == Len(rightIds)
<1>2. a \in Nat /\ b \in Nat
  BY <1>1, LenProperties
<1>3. /\ Len(p) = a + b
      /\ \A i \in 1 .. a + b : p[i] = IF i <= a THEN leftIds[i] ELSE rightIds[i - a]
  BY <1>1, ConcatProperties
<1> HIDE DEF p, a, b
<1>4. \A i \in 1 .. a + b :
         \/ i \in 1 .. a /\ p[i] = leftIds[i]
         \/ i > a /\ i - a \in 1 .. b /\ p[i] = rightIds[i - a]
  BY <1>2, <1>3
<1>5. /\ \A i \in 1 .. a : i \in 1 .. a + b /\ p[i] = leftIds[i]
      /\ \A i \in 1 .. b : i + a \in 1 .. a + b /\ p[i + a] = rightIds[i]
  <2>1. \A i \in 1 .. b : i + a \in 1 .. a + b /\ ~ (i + a <= a) /\ (i + a) - a = i
    BY <1>2
  <2> QED
    BY <1>2, <1>3, <2>1
<1>6. Elements(p) = Elements(leftIds) \cup Elements(rightIds)
  BY <1>3, <1>4, <1>5 DEF Elements, a, b
<1>7. ASSUME NEW i \in 1 .. Len(p), NEW j \in 1 .. Len(p), p[i] = p[j]
      PROVE  i = j
  <2>1. i \in 1 .. a + b /\ j \in 1 .. a + b
    BY <1>3
  <2>2. CASE i \in 1 .. a /\ p[i] = leftIds[i] /\ j \in 1 .. a /\ p[j] = leftIds[j]
    BY <2>2, <1>7 DEF Inv, Bookkeeping, Distinct, a
  <2>3. CASE /\ i > a /\ i - a \in 1 .. b /\ p[i] = rightIds[i - a]
             /\ j > a /\ j - a \in 1 .. b /\ p[j] = rightIds[j - a]
    <3>1. i - a = j - a
      BY <2>3, <1>7 DEF Inv, Bookkeeping, Distinct, b
    <3> QED
      BY <3>1, <2>1, <1>2
  <2>4. ASSUME NEW x \in 1 .. a, NEW y \in 1 .. b PROVE leftIds[x] # rightIds[y]
    BY <2>4 DEF Inv, Bookkeeping, Elements, a, b
  <2> QED
    BY <2>1, <2>2, <2>3, <2>4, <1>4, <1>7
<1> QED
  BY <1>6, <1>7 DEF Found, ParallelIds, Elements, Distinct, p

(* The walks stay on lanes of the map.                                     *)
THEOREM WalksTypeCorrect == Spec => []TypeOK
BY Inductive, PTL DEF Inv

(* For every map, get_parallel_lane_ids returns no lane twice, never the   *)
(* lane asked about, and only drivable lanes of its direction.             *)
THEOREM LanesReturnedOnce == Spec => []EachLaneOnce
<1>1. Inv => EachLaneOnce
  <2> SUFFICES ASSUME Inv PROVE EachLaneOnce
    OBVIOUS
  <2>1. Found = Elements(leftIds) \cup Elements(rightIds) /\ Distinct(ParallelIds)
    BY FoundByWalks
  <2>2. \A l \in Found : l # center /\ l \in visited
    BY <2>1 DEF Inv, Bookkeeping
  <2> QED
    BY <2>1, <2>2 DEF Inv, SameWay, EachLaneOnce, Distinct
<1> QED
  BY <1>1, Inductive, PTL

(* For every map whose neighbours are mutual, get_parallel_lane_ids        *)
(* returns the rest of the carriageway of the lane asked about.            *)
THEOREM CarriagewayFound == Spec => []FindsCarriageway
<1>1. Inv => FindsCarriageway
  <2> SUFFICES ASSUME Inv, side = "done", NeighboursMutual(map)
               PROVE  /\ ClosedAside(map, Found \cup {center})
                      /\ \A S \in SUBSET map.lanes :
                           center \in S /\ ClosedAside(map, S) => Found \subseteq S
    BY DEF FindsCarriageway
  <2>1. Found \cup {center} = visited
    BY FoundByWalks DEF Inv, Bookkeeping
  <2>2. \A l \in visited : BesideIn(visited, l, "LEFT") /\ BesideIn(visited, l, "RIGHT")
    BY DEF Inv, Closing
  <2>3. ClosedAside(map, visited)
    BY <2>2 DEF ClosedAside, BesideIn, Sides
  <2> QED
    BY <2>1, <2>3 DEF Inv, Needed
<1> QED
  BY <1>1, Inductive, PTL
=============================================================================
