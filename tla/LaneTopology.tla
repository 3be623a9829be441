---------------------------- MODULE LaneTopology ----------------------------
(***************************************************************************)
(* The import of a map: GenerateGeometry of the OpenDRIVE reader           *)
(* (geometry/GeometryGenerator.cpp, geometry/LaneUtils.cpp) from the lane  *)
(* map that LaneIds numbers to lanes that know each other, and             *)
(* AdMapFactory, which puts them into the store as the lane graph that the *)
(* planner reads (LaneMap).                                                *)
(*                                                                         *)
(* The import has five stages, each a loop over the lane map:              *)
(*   number   LaneIds: lanes get their numbers                             *)
(*   connect  generateTopology: neighbours and links, road by road         *)
(*   check    checkLaneConsistency: ends that nearly meet are moved        *)
(*   join     autoConnectIntersectionLanes: neighbours in intersections    *)
(*   store    convertToAdMap: types, directions and contacts               *)
(* The lane map is hashed, so the order of the lanes in the check stage,   *)
(* and of the junctions in the join stage, is any order.                   *)
(*                                                                         *)
(* The shape of a lane is its four corners, as the code looks at no other  *)
(* points.  A corner is a pair of integers in units of half the tolerance  *)
(* of near().  Overlaps, signals and speeds are left out.                  *)
(***************************************************************************)
EXTENDS LaneIds, FiniteSets, SequencesExt

CONSTANT Drawings    \* the contents of the files, beside their lanes

\* A drawing is a record
\*   [lanes    |-> the lanes in the order they are read,
\*    type     |-> for each of them its OpenDRIVE type,
\*    corners  |-> for each its corners when the road's geometry is drawn,
\*    link     |-> for each the lane indices [start, end] its link names, or 0,
\*    junction |-> for each road the junction it belongs to, or -1,
\*    joins    |-> for each road the road end that [start, end] are linked to,
\*                 a record [road, contact], with road -1 for none]
Ends == {"start", "end"}
Sides == {"left", "right"}

ASSUME DrawingsAssumption ==
  \A d \in Drawings :
     LET roads == { l.road : l \in Range(d.lanes) } IN
     /\ d.lanes \in Files
     /\ d.type \in [Range(d.lanes) -> {"Driving", "Bidirectional", "Shoulder"}]
     /\ d.corners \in [Range(d.lanes) -> [Ends -> [Sides -> Int \X Int]]]
     /\ d.link \in [Range(d.lanes) -> [Ends -> -50 .. 49]]
     /\ d.junction \in [roads -> Nat \cup { -1 }]
     /\ d.joins \in [roads -> [Ends -> [road : Nat \cup { -1 }, contact : Ends]]]

VARIABLES drawing,   \* what the file holds
          stage,     \* where the import is
          todo,      \* the lanes, roads or pairs the stage has not come to
          lanes,     \* the lane map with all that is known of its lanes
          fine,      \* the check stage found nothing wrong
          store      \* the lane graph in the map store

topologyVars == <<drawing, stage, todo, lanes, fine, store>>
importVars == <<vars, topologyVars>>

Graph == INSTANCE LaneMap WITH Scale <- 1

OtherEnd(e) == IF e = "start" THEN "end" ELSE "start"
OtherSide(s) == IF s = "left" THEN "right" ELSE "left"

Ascending(ids) ==
  [k \in 1 .. Cardinality(ids) |->
     CHOOSE i \in ids : Cardinality({ j \in ids : j < i }) = k - 1]

-----------------------------------------------------------------------------
(* Where lanes touch.                                                      *)

Near(p, q) == /\ p[1] - q[1] \in -1 .. 1
              /\ p[2] - q[2] \in -1 .. 1

\* Going from end e of lane a one enters lane b at its other end.
GoesOn(a, e, b) ==
  \A s \in Sides : Near(a.corners[e][s], b.corners[OtherEnd(e)][s])

\* Lane b is drawn the other way and meets a with the same end.
HeadOn(a, e, b) ==
  \A s \in Sides : Near(a.corners[e][s], b.corners[e][OtherSide(s)])

\* Side s of lane a is side t of lane b, drawn the same way, or reversed.
SidesMatch(a, s, b, t) ==
  \A e \in Ends : Near(a.corners[e][s], b.corners[e][t])
SidesMatchReversed(a, s, b, t) ==
  \A e \in Ends : Near(a.corners[e][s], b.corners[OtherEnd(e)][t])

ContactPlace(a, b) ==
  CASE \E s \in Sides : SidesMatch(a, s, b, s)      -> "Overlap"
    [] SidesMatch(a, "left", b, "right")            -> "LeftRight"
    [] SidesMatchReversed(a, "left", b, "left")     -> "LeftLeft"
    [] SidesMatch(a, "right", b, "left")            -> "RightLeft"
    [] SidesMatchReversed(a, "right", b, "right")   -> "RightRight"
    [] OTHER                                        -> "None"

-----------------------------------------------------------------------------
(* Stage connect.                                                          *)

Places(road, section) ==
  { i \in 1 .. Len(file) : file[i].road = road /\ file[i].section = section }

\* The lanes of a section from the left to the right, repeats beside each
\* other.
Across(road, section) ==
  LET Further(i) == { j \in Places(road, section) :
                        \/ file[j].index > file[i].index
                        \/ file[j].index = file[i].index /\ j < i }
  IN  [k \in 1 .. Cardinality(Places(road, section)) |->
         CHOOSE i \in Places(road, section) : Cardinality(Further(i)) = k - 1]

NumberAt(across, k) ==
  IF k \in 1 .. Len(across) THEN LaneId(file[across[k]]) ELSE 0

\* setLeftRightNeighbor: of a lane the file repeats, the repeat that lies
\* further out is written last.
NeighborsOf(id) ==
  LET l      == CHOOSE e \in laneMap : e.id = id
      across == Across(l.lane.road, l.lane.section)
      here   == { k \in 1 .. Len(across) : NumberAt(across, k) = id }
      k      == IF l.lane.index > 0
                THEN CHOOSE i \in here : \A j \in here : i <= j
                ELSE CHOOSE i \in here : \A j \in here : i >= j
  IN  [left |-> NumberAt(across, k - 1), right |-> NumberAt(across, k + 1)]

SectionsOf(road) ==
  LET sections == { file[i].section : i \in { j \in 1 .. Len(file) : file[j].road = road } }
  IN  CHOOSE n \in sections : \A s \in sections : s <= n

RoadsOfFile == { file[i].road : i \in 1 .. Len(file) }

NumberOf(road, section, index) ==
  LaneId([road |-> road, section |-> section, index |-> index])

LastSection(l, e) == l.section = (IF e = "start" THEN 1 ELSE SectionsOf(l.road))

\* The lane that the link at end e of lane l names: one of the next section,
\* or one at the end of the road its road is joined to.
Linked(l, e) ==
  LET join == drawing.joins[l.road][e] IN
  IF LastSection(l, e)
  THEN NumberOf(join.road, IF join.contact = "start" THEN 1 ELSE SectionsOf(join.road),
                drawing.link[l][e])
  ELSE NumberOf(l.road, IF e = "start" THEN l.section - 1 ELSE l.section + 1,
                drawing.link[l][e])

\* setSuccessorPredecessor looks at the link: there is one, and the road it
\* leads to is in the file.
NamesLane(l, e) ==
  /\ drawing.link[l][e] # 0
  /\ LastSection(l, e) => drawing.joins[l.road][e].road \in RoadsOfFile

HasLink(l, e) == NamesLane(l, e) /\ Linked(l, e) \in Ids

\* A link may name a lane that is not there.  Only the lane before it on the
\* same road is looked for first, and left out.  Any other is made by looking
\* it up, and the first points of its edges are read, which has none.
ReadsMissingLane(road) ==
  \E l \in { k \in Range(file) : k.road = road }, e \in Ends :
     /\ NamesLane(l, e) /\ ~ HasLink(l, e)
     /\ e = "end" \/ LastSection(l, e)

\* checkAddSuccessor and checkAddPredecessor: a lane is linked only to what
\* its end touches.
Meets(a, e, b) == GoesOn(lanes[a], e, lanes[b]) \/ HeadOn(lanes[a], e, lanes[b])

\* Mutant: the lane at the other end of a link is left as it is.
LinksOneWay(road) ==
  { k \in { << LaneId(p[1]), p[2], Linked(p[1], p[2]) >> :
              p \in { q \in Range(file) \X Ends : q[1].road = road /\ HasLink(q[1], q[2]) } } :
      Meets(k[1], k[2], k[3]) }

\* The links a road gives to its lanes, and at its ends to the lanes of the
\* roads it is joined to.
LinksOf(road) ==
  LET own == { << LaneId(l), e, Linked(l, e) >> :
                 << l, e >> \in { p \in Range(file) \X Ends :
                                    p[1].road = road /\ HasLink(p[1], p[2]) } }
      back == { << Linked(l, e), drawing.joins[road][e].contact, LaneId(l) >> :
                  << l, e >> \in { p \in Range(file) \X Ends :
                                     /\ p[1].road = road
                                     /\ HasLink(p[1], p[2])
                                     /\ LastSection(p[1], p[2]) } }
  IN  { k \in own \cup back : Meets(k[1], k[2], k[3]) }

\* generateTopology: each lane of the road gets its neighbours, and each lane
\* of the map the links that the road gives it.
Connected(road) ==
  [id \in Ids |->
     LET fromRoad == \E e \in laneMap : e.id = id /\ e.lane.road = road IN
     [lanes[id] EXCEPT
        !.beside = IF fromRoad THEN NeighborsOf(id) ELSE @,
        !.links  = [e \in Ends |->
                      @[e] \cup { k[3] : k \in { j \in LinksOf(road) :
                                                   j[1] = id /\ j[2] = e } }]]]

-----------------------------------------------------------------------------
(* Stage check.                                                            *)

Swapped(pair) == [s \in Sides |-> pair[OtherSide(s)]]

\* fixNeighborEdgesAtBegin, fixNeighborEdgesAtEnd: the neighbours of a lane
\* get its corners at one end.
WithNeighbors(ls, id, e) ==
  [n \in DOMAIN ls |->
     [ls[n] EXCEPT !.corners[e] =
        [s \in Sides |->
           IF ls[id].beside[OtherSide(s)] = n THEN ls[id].corners[e][OtherSide(s)]
           ELSE @[s]]]]

Moved(ls, id, e, pair) == WithNeighbors([ls EXCEPT ![id].corners[e] = pair], id, e)

\* One link of lane a: if the ends do not meet exactly, the end of a is moved
\* when this is its only link there; otherwise the end of b, when b has one
\* link only at its other end; otherwise the import reports it.  The latter
\* end is looked at for lanes that meet head on as well.
Mend(st, a, e, b) ==
  LET ls      == st.lanes
      facing  == IF a \in ls[b].links[OtherEnd(e)] THEN OtherEnd(e) ELSE e
      InA(c)  == IF facing = e THEN Swapped(c) ELSE c
  IN  CASE a \notin ls[b].links[facing] -> st
        [] InA(ls[b].corners[facing]) = ls[a].corners[e] -> st
        [] OTHER ->
           CASE Cardinality(ls[a].links[e]) = 1 ->
                  [st EXCEPT !.lanes = Moved(ls, a, e, InA(ls[b].corners[facing]))]
             [] Cardinality(ls[b].links[OtherEnd(e)]) = 1 ->
                  [st EXCEPT !.lanes = Moved(ls, b, facing, InA(ls[a].corners[e]))]
             [] OTHER -> [st EXCEPT !.fine = FALSE]

\* The successors of a lane are looked at first, then its predecessors.
Mended(id) ==
  LET Links(e) == [k \in 1 .. Cardinality(lanes[id].links[e]) |->
                     [at |-> e, to |-> Ascending(lanes[id].links[e])[k]]]
      MendLink(st, k) == Mend(st, id, k.at, k.to)
  IN  FoldLeft(MendLink, [lanes |-> lanes, fine |-> fine], Links("end") \o Links("start"))

-----------------------------------------------------------------------------
(* Stage join.                                                             *)

\* Mutant: the side of the road is kept.
InvertedKeepingIndex(l) ==
  [l EXCEPT
     !.corners = [e \in Ends |-> Swapped(l.corners[OtherEnd(e)])],
     !.links   = [e \in Ends |-> l.links[OtherEnd(e)]],
     !.beside  = Swapped(l.beside)]

\* invertLane
Inverted(l) ==
  [l EXCEPT
     !.corners = [e \in Ends |-> Swapped(l.corners[OtherEnd(e)])],
     !.links   = [e \in Ends |-> l.links[OtherEnd(e)]],
     !.beside  = Swapped(l.beside),
     !.index   = 0 - l.index]

\* The walk from lane id to one side ends at a lane that was seen before.
Seen(ls, id, side, before) ==
  LET walk[n \in 0 .. Cardinality(DOMAIN ls)] ==
        IF n = 0 THEN [at |-> ls[id].beside[side], seen |-> before]
        ELSE LET w == walk[n - 1] IN
             IF w.at = 0 \/ w.at \in w.seen THEN w
             ELSE [at |-> ls[w.at].beside[side], seen |-> w.seen \cup { w.at }]
  IN  walk[Cardinality(DOMAIN ls)].seen

Neighborhood(ls, id) == Seen(ls, id, "right", Seen(ls, id, "left", { id }))

\* Mutant: only the lane itself is inverted.
InvertedAlone(ls, id) == [ls EXCEPT ![id] = Inverted(@)]

InvertedWithNeighbors(ls, id) ==
  LET hood == Neighborhood(ls, id) IN
  [n \in DOMAIN ls |-> IF n \in hood THEN Inverted(ls[n]) ELSE ls[n]]

Beside(ls, a, side, b) ==
  [ls EXCEPT ![a].beside[side] = b, ![b].beside[OtherSide(side)] = a]

\* A pair of lanes of one junction: lanes that touch along a side become
\* neighbours there, the second being inverted if it is drawn the other way.
Joined(ls, a, b) ==
  LET place == ContactPlace(ls[a], ls[b]) IN
  CASE place = "LeftLeft"   -> Beside(InvertedWithNeighbors(ls, b), a, "left", b)
    [] place = "LeftRight"  -> Beside(ls, a, "left", b)
    [] place = "RightRight" -> Beside(InvertedWithNeighbors(ls, b), a, "right", b)
    [] place = "RightLeft"  -> Beside(ls, a, "right", b)
    [] OTHER                -> ls

\* The lanes of a junction as they were read, without the repeats.
IntersectionLanes(junction) ==
  LET first == { i \in 1 .. Len(file) :
                   /\ drawing.junction[file[i].road] = junction
                   /\ \A j \in 1 .. i - 1 : file[j] # file[i] }
  IN  [k \in 1 .. Cardinality(first) |-> LaneId(file[Ascending(first)[k]])]

Junctions == { drawing.junction[r] : r \in RoadsOfFile } \ { -1 }

\* The pairs are taken in the order of the two loops over the lanes.
JunctionJoined(junction) ==
  LET ids == IntersectionLanes(junction)
      JoinAll(ls, i) == FoldLeft(LAMBDA l, j : Joined(l, ids[i], j), ls, SubSeq(ids, i + 1, Len(ids)))
  IN  FoldLeft(JoinAll, lanes, [i \in 1 .. Len(ids) |-> i])

-----------------------------------------------------------------------------
(* Stage store.                                                            *)

\* toLaneType, and addLane for the lanes of a junction.
StoredType(l) ==
  IF l.type = "Shoulder" THEN "SHOULDER"
  ELSE IF l.junction # -1 THEN "INTERSECTION" ELSE "NORMAL"

\* toLaneDirection, for traffic on the right.
StoredDirection(l) ==
  CASE l.type = "Bidirectional" -> "BIDIRECTIONAL"
    [] l.type = "Shoulder"      -> "NONE"
    [] OTHER                    -> IF l.index <= 0 THEN "POSITIVE" ELSE "NEGATIVE"

\* addContactLanes: the neighbours, the successors, the predecessors.
ContactsOf(l) ==
  LET To(location, ids) == [k \in 1 .. Len(ids) |-> [to |-> ids[k], location |-> location]]
      Neighbor(side) == IF l.beside[side] = 0 THEN << >> ELSE << l.beside[side] >>
  IN  To("LEFT", Neighbor("left")) \o To("RIGHT", Neighbor("right"))
        \o To("SUCCESSOR", Ascending(l.links["end"]))
        \o To("PREDECESSOR", Ascending(l.links["start"]))

LaneGraph ==
  [lanes     |-> DOMAIN lanes,
   type      |-> [id \in DOMAIN lanes |-> StoredType(lanes[id])],
   direction |-> [id \in DOMAIN lanes |-> StoredDirection(lanes[id])],
   length    |-> [id \in DOMAIN lanes |-> 1],
   contacts  |-> [id \in DOMAIN lanes |-> ContactsOf(lanes[id])]]

EmptyStore == [lanes |-> {}]

-----------------------------------------------------------------------------
ImportInit ==
  /\ drawing \in Drawings
  /\ file = drawing.lanes
  /\ Init
  /\ stage = "number"
  /\ todo = {}
  /\ lanes = << >>
  /\ fine = TRUE
  /\ store = EmptyStore

NumberLane ==
  /\ stage = "number"
  /\ AddLane \/ DuplicateLane
  /\ UNCHANGED topologyVars

\* The roads are drawn; the lanes of a file have no neighbours and links yet.
DrawRoads ==
  /\ stage = "number"
  /\ next > Len(file)
  /\ lanes' = [id \in Ids |->
                 LET l == (CHOOSE e \in laneMap : e.id = id).lane IN
                 [index    |-> l.index,
                  type     |-> drawing.type[l],
                  junction |-> drawing.junction[l.road],
                  corners  |-> drawing.corners[l],
                  links    |-> [start |-> {}, end |-> {}],
                  beside   |-> [left |-> 0, right |-> 0]]]
  /\ stage' = "connect"
  /\ todo' = RoadsOfFile
  /\ UNCHANGED <<vars, drawing, fine, store>>

FirstPlace(road) ==
  CHOOSE i \in 1 .. Len(file) : file[i].road = road /\ \A j \in 1 .. i - 1 : file[j].road # road

IsNextRoad(road) == road \in todo /\ \A r \in todo : FirstPlace(road) <= FirstPlace(r)

ConnectRoad ==
  /\ stage = "connect"
  /\ \E road \in todo :
       /\ IsNextRoad(road) /\ ~ ReadsMissingLane(road)
       /\ lanes' = Connected(road)
       /\ IF todo = { road }
          THEN stage' = "check" /\ todo' = Ids
          ELSE stage' = stage /\ todo' = todo \ { road }
  /\ UNCHANGED <<vars, drawing, fine, store>>

\* Reading where there is nothing ends the process, and nothing is stored.
CrashAtMissingLane ==
  /\ stage = "connect"
  /\ \E road \in todo : IsNextRoad(road) /\ ReadsMissingLane(road)
  /\ stage' = "crashed"
  /\ UNCHANGED <<vars, drawing, todo, lanes, fine, store>>

StayCrashed == stage = "crashed" /\ UNCHANGED importVars

CheckLane ==
  /\ stage = "check"
  /\ \E id \in todo :
       /\ lanes' = Mended(id).lanes
       /\ fine' = Mended(id).fine
       /\ IF todo = { id }
          THEN stage' = "join" /\ todo' = Junctions
          ELSE stage' = stage /\ todo' = todo \ { id }
  /\ UNCHANGED <<vars, drawing, store>>

JoinJunction ==
  /\ stage = "join"
  /\ \E junction \in todo :
       /\ lanes' = JunctionJoined(junction)
       /\ todo' = todo \ { junction }
  /\ UNCHANGED <<vars, drawing, stage, fine, store>>

StoreMap ==
  /\ stage = "join"
  /\ todo = {}
  /\ store' = LaneGraph
  /\ stage' = "stored"
  /\ UNCHANGED <<vars, drawing, todo, lanes, fine>>

DescribeLane ==
  /\ stage = "stored"
  /\ Describe
  /\ UNCHANGED topologyVars

ImportNext ==
  \/ NumberLane
  \/ DrawRoads
  \/ ConnectRoad
  \/ CrashAtMissingLane
  \/ StayCrashed
  \/ CheckLane
  \/ JoinJunction
  \/ StoreMap
  \/ DescribeLane

ImportSpec == ImportInit /\ [][ImportNext]_importVars

-----------------------------------------------------------------------------
(* What the import makes.                                                  *)

TravelEnd(l) == IF Graph!LaneIsPositive(store, l) THEN "end" ELSE "start"
TravelStart(l) == OtherEnd(TravelEnd(l))

\* Two corners that were each near a third.
Close(p, q) == /\ p[1] - q[1] \in -2 .. 2
               /\ p[2] - q[2] \in -2 .. 2

\* Every link of the file joins a lane that is driven to the link's end with
\* one that is driven away from it.
LinksFollowTheTraffic ==
  LET DrivenTo(index, e) == (index <= 0) = (e = "end")
      Entered(l, e) == IF LastSection(l, e) THEN drawing.joins[l.road][e].contact ELSE OtherEnd(e)
  IN  \A l \in Range(file), e \in Ends :
        HasLink(l, e) =>
          DrivenTo(l.index, e) # DrivenTo(drawing.link[l][e], Entered(l, e))

\* Where the planner may drive on from a lane of the store to the next, the
\* pavement goes on: the end at which it leaves the one is the end at which it
\* enters the other, whichever way the two are drawn, whatever the check moved
\* and whichever lanes of an intersection were inverted after they were linked.
\* Lanes for both directions are left out: the planner takes them for lanes
\* against the reference line.
ForwardMovesMeet ==
  store.lanes # {} /\ LinksFollowTheTraffic =>
  \A l, k \in { n \in store.lanes : store.direction[n] # "BIDIRECTIONAL" } :
     Graph!MayMove(store, l, k, "forward") =>
       \A s \in Sides :
          Close(lanes[l].corners[TravelEnd(l)][s],
                lanes[k].corners[TravelStart(k)]
                  [IF TravelEnd(l) = TravelEnd(k) THEN s ELSE OtherSide(s)])

\* A lane that is linked to another is linked by it, also where only the road
\* of one of the two names the link and where one of the two was inverted: so
\* the search backward through the graph finds what the search forward finds.
LinksAreAnswered ==
  stage \in {"check", "join", "stored"} =>
    \A a \in DOMAIN lanes, e \in Ends : \A b \in lanes[a].links[e] :
       \E f \in Ends : a \in lanes[b].links[f]

\* No side of a lane of an intersection is a side of two others.
NoSideIsShared ==
  \A a \in { l \in DOMAIN lanes : lanes[l].junction # -1 }, s \in Sides :
    Cardinality({ p \in (DOMAIN lanes \ { a }) \X Sides :
                    \/ SidesMatch(lanes[a], s, lanes[p[1]], p[2])
                    \/ SidesMatchReversed(lanes[a], s, lanes[p[1]], p[2]) }) <= 1

\* In a map without repeated lanes and shared sides, neighbours lie side by
\* side and are drawn the same way, and each is the other's neighbour: for the
\* lanes of an intersection in whatever order and direction they were read.
NeighborsLieSideBySide ==
  store.lanes # {} /\ ok /\ NoSideIsShared =>
    \A a \in store.lanes, s \in Sides :
       LET b == lanes[a].beside[s] IN
       b # 0 =>
         /\ lanes[b].beside[OtherSide(s)] = a
         /\ SidesMatch(lanes[a], s, lanes[b], OtherSide(s))
=============================================================================
