-------------------------- MODULE MCRouteOperation --------------------------
(***************************************************************************)
(* Small roads for RouteOperation.                                         *)
(***************************************************************************)
EXTENDS RouteOperation

\* The contacts of a lane in the order right, left, predecessors, successors.
Contacts(right, left, before, after) ==
  LET All(seq, place) == [i \in DOMAIN seq |-> [to |-> seq[i], location |-> place]]
  IN  All(right, "RIGHT") \o All(left, "LEFT")
        \o All(before, "PREDECESSOR") \o All(after, "SUCCESSOR")

\* A lane along the x axis from x to u, at height y.
Lane(type, direction, y, x, u, length, contacts) ==
  [type |-> type, direction |-> direction, contacts |-> contacts, length |-> length,
   at |-> [o \in Offsets |-> <<x * Scale + (u - x) * o, y>>]]

MapOf(lanes, shift, leftHanded) ==
  LET ids == DOMAIN lanes IN
  [lanes |-> ids,
   type |-> [l \in ids |-> lanes[l].type],
   direction |-> [l \in ids |-> lanes[l].direction],
   length |-> [l \in ids |-> lanes[l].length],
   contacts |-> [l \in ids |-> lanes[l].contacts],
   at |-> [l \in ids |-> lanes[l].at],
   pace |-> [l \in ids |-> 1], shift |-> shift, leftHanded |-> leftHanded]

Level(n) == [l \in 1 .. n |-> 0]

\* Two sections of two lanes and of one lane of the other direction; the
\* left lane starts a little later.
RoadMap ==
  MapOf(<<Lane("NORMAL", "POSITIVE", 0, 0, 1, 1, Contacts(<<>>, <<2>>, <<>>, <<4>>)),
          Lane("NORMAL", "POSITIVE", 1, 0, 1, 1, Contacts(<<1>>, <<3>>, <<>>, <<5>>)),
          Lane("NORMAL", "NEGATIVE", 2, 0, 1, 1, Contacts(<<2>>, <<>>, <<>>, <<6>>)),
          Lane("NORMAL", "POSITIVE", 0, 1, 2, 1, Contacts(<<>>, <<5>>, <<1>>, <<>>)),
          Lane("NORMAL", "POSITIVE", 1, 1, 2, 1, Contacts(<<4>>, <<6>>, <<2>>, <<>>)),
          Lane("NORMAL", "NEGATIVE", 2, 1, 2, 1, Contacts(<<5>>, <<>>, <<3>>, <<>>))>>,
        <<0, 1, 0, 0, 0, 1>>, FALSE)

\* A pocket lane opens beside the road, and only it goes on, through an
\* intersection.
PocketMap ==
  MapOf(<<Lane("NORMAL", "POSITIVE", 0, 0, 1, 1, Contacts(<<>>, <<>>, <<>>, <<2>>)),
          Lane("NORMAL", "POSITIVE", 0, 1, 2, 1, Contacts(<<>>, <<3>>, <<1>>, <<>>)),
          Lane("NORMAL", "POSITIVE", 1, 1, 2, 1, Contacts(<<2>>, <<>>, <<>>, <<4>>)),
          Lane("INTERSECTION", "POSITIVE", 1, 2, 3, 1, Contacts(<<>>, <<>>, <<3>>, <<5>>)),
          Lane("NORMAL", "POSITIVE", 1, 3, 4, 1, Contacts(<<>>, <<>>, <<4>>, <<>>))>>,
        Level(5), FALSE)

\* A curve driven on the left, against the offsets of its lanes: the lane
\* outside is the longer one, and beside it runs one of the other direction.
CurveMap ==
  MapOf(<<Lane("NORMAL", "NEGATIVE", 0, 1, 0, 2, Contacts(<<2>>, <<5>>, <<3>>, <<>>)),
          Lane("NORMAL", "NEGATIVE", 1, 1, 0, 1, Contacts(<<>>, <<1>>, <<4>>, <<>>)),
          Lane("NORMAL", "NEGATIVE", 0, 2, 1, 2, Contacts(<<4>>, <<>>, <<>>, <<1>>)),
          Lane("NORMAL", "NEGATIVE", 1, 2, 1, 1, Contacts(<<>>, <<3>>, <<>>, <<2>>)),
          Lane("NORMAL", "POSITIVE", -1, 1, 0, 2, Contacts(<<1>>, <<>>, <<>>, <<>>))>>,
        <<0, 1, 1, 0, 0>>, TRUE)

\* A lane that becomes two, which become one again.
IslandMap ==
  MapOf(<<Lane("NORMAL", "POSITIVE", 0, 0, 1, 1, Contacts(<<>>, <<>>, <<>>, <<2, 3>>)),
          Lane("NORMAL", "POSITIVE", 0, 1, 2, 1, Contacts(<<>>, <<3>>, <<1>>, <<4>>)),
          Lane("NORMAL", "POSITIVE", 1, 1, 2, 1, Contacts(<<2>>, <<>>, <<1>>, <<4>>)),
          Lane("NORMAL", "POSITIVE", 0, 2, 3, 1, Contacts(<<>>, <<>>, <<2, 3>>, <<>>))>>,
        <<0, 0, 1, 0>>, FALSE)

\* A successor that does not lead back, and a lane with two left neighbours.
BrokenMap ==
  MapOf(<<Lane("NORMAL", "POSITIVE", 0, 0, 1, 1, Contacts(<<>>, <<>>, <<>>, <<2, 3>>)),
          Lane("NORMAL", "POSITIVE", 0, 1, 2, 1, Contacts(<<>>, <<3, 4>>, <<1>>, <<>>)),
          Lane("NORMAL", "POSITIVE", 1, 1, 2, 1, Contacts(<<>>, <<>>, <<>>, <<>>)),
          Lane("NORMAL", "POSITIVE", 2, 1, 2, 1, Contacts(<<2>>, <<>>, <<>>, <<>>))>>,
        Level(4), FALSE)

MCMaps == {BrokenMap, IslandMap, RoadMap, PocketMap, CurveMap}

Point(l, o) == [lane |-> l, offset |-> o, dir |-> "DONT_CARE"]

MCRequests(m) ==
  {[kind |-> "list", start |-> start, dests |-> <<Point(k, Scale - 1)>>, matches |-> <<>>,
    mode |-> mode, maxDistance |-> 1000, maxDuration |-> 1000, ignoreDirection |-> FALSE]
     : start \in {Point(1, 0), Point(1, 1), Point(2, 1)}, k \in m.lanes \ {1, 2},
       mode \in {"SameDrivingDirection", "AllNeighborLanes"}}

MCPositions(m) ==
  {<<[lane |-> l, offset |-> o]>> : l \in m.lanes, o \in Offsets}
  \cup {<<[lane |-> l, offset |-> 2], [lane |-> k, offset |-> o]>>
          : l \in {1}, k \in {2, 4}, o \in {1, 3}}

MCOpposing(m) ==
  LET against == IF m.leftHanded THEN {5} ELSE {l \in m.lanes : m.direction[l] = "NEGATIVE"}
  IN  {[lane |-> l, offset |-> o] : l \in against, o \in {1, 3}}

MCDistances(m) == {2, 5, 6}

MCDestinations(m) == {Point(l, 2) : l \in m.lanes}
=============================================================================
