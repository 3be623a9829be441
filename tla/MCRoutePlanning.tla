-------------------------- MODULE MCRoutePlanning --------------------------
(***************************************************************************)
(* Small roads for RoutePlanning, and every request between a few of their *)
(* points.                                                                 *)
(***************************************************************************)
EXTENDS RoutePlanning

\* The contacts of a lane in the order right, left, predecessors, successors.
Contacts(right, left, before, after) ==
  LET All(seq, place) == [i \in DOMAIN seq |-> [to |-> seq[i], location |-> place]]
  IN  All(right, "RIGHT") \o All(left, "LEFT")
        \o All(before, "PREDECESSOR") \o All(after, "SUCCESSOR")

\* A straight lane from <<x, y>> to <<u, v>>.
Lane(type, direction, from, to, contacts) ==
  [type |-> type, direction |-> direction, contacts |-> contacts,
   at |-> [o \in Offsets |-> <<from[1] + ((to[1] - from[1]) * o) \div Scale,
                               from[2] + ((to[2] - from[2]) * o) \div Scale>>]]

\* A map of a sequence of lanes.
MapOf(lanes, pace, shift) ==
  LET ids == DOMAIN lanes IN
  [lanes |-> ids,
   type |-> [l \in ids |-> lanes[l].type],
   direction |-> [l \in ids |-> lanes[l].direction],
   length |-> [l \in ids |-> Gap(lanes[l].at[0][1], lanes[l].at[Scale][1])
                             + Gap(lanes[l].at[0][2], lanes[l].at[Scale][2])],
   contacts |-> [l \in ids |-> lanes[l].contacts],
   at |-> [l \in ids |-> lanes[l].at],
   pace |-> pace, shift |-> shift]

Even(n) == [l \in 1 .. n |-> 1]
Level(n) == [l \in 1 .. n |-> 0]

\* Two lanes that become one; the left one is the second predecessor.
MergeMap ==
  MapOf(<<Lane("NORMAL", "POSITIVE", <<0, 0>>, <<4, 0>>, Contacts(<<>>, <<2>>, <<>>, <<3>>)),
          Lane("NORMAL", "POSITIVE", <<0, 2>>, <<4, 0>>, Contacts(<<1>>, <<>>, <<>>, <<3>>)),
          Lane("NORMAL", "POSITIVE", <<4, 0>>, <<8, 0>>, Contacts(<<>>, <<>>, <<1, 2>>, <<>>))>>,
        Even(3), <<0, 1, 0>>)

\* A lane that forks into a short slow one and a long fast one, which meet
\* again inside an intersection.
DiamondMap ==
  MapOf(<<Lane("NORMAL", "POSITIVE", <<0, 0>>, <<2, 0>>, Contacts(<<>>, <<>>, <<>>, <<2, 3>>)),
          Lane("INTERSECTION", "POSITIVE", <<2, 0>>, <<6, 0>>, Contacts(<<>>, <<>>, <<1>>, <<5>>)),
          Lane("INTERSECTION", "POSITIVE", <<2, 0>>, <<4, 2>>, Contacts(<<>>, <<>>, <<1>>, <<4>>)),
          Lane("INTERSECTION", "POSITIVE", <<4, 2>>, <<6, 0>>, Contacts(<<>>, <<>>, <<3>>, <<5>>)),
          Lane("NORMAL", "POSITIVE", <<6, 0>>, <<8, 0>>, Contacts(<<>>, <<>>, <<2, 4>>, <<>>))>>,
        <<1, 9, 1, 1, 1>>, Level(5))

\* Two lanes a direction, the second pair behind the first.
TwoWayMap ==
  MapOf(<<Lane("NORMAL", "POSITIVE", <<0, 0>>, <<4, 0>>, Contacts(<<>>, <<2>>, <<>>, <<3>>)),
          Lane("NORMAL", "NEGATIVE", <<0, 2>>, <<4, 2>>, Contacts(<<1>>, <<>>, <<>>, <<4>>)),
          Lane("NORMAL", "POSITIVE", <<4, 0>>, <<8, 0>>, Contacts(<<>>, <<4>>, <<1>>, <<>>)),
          Lane("NORMAL", "NEGATIVE", <<4, 2>>, <<8, 2>>, Contacts(<<3>>, <<>>, <<2>>, <<>>))>>,
        Even(4), <<0, 1, 0, 1>>)

\* Lanes that meet end to end, and one that may be driven both ways.
EndToEndMap ==
  MapOf(<<Lane("NORMAL", "POSITIVE", <<0, 0>>, <<4, 0>>, Contacts(<<>>, <<>>, <<>>, <<2>>)),
          Lane("NORMAL", "NEGATIVE", <<8, 0>>, <<4, 0>>, Contacts(<<>>, <<>>, <<3>>, <<1>>)),
          Lane("NORMAL", "BIDIRECTIONAL", <<8, 0>>, <<12, 0>>, Contacts(<<>>, <<>>, <<2>>, <<>>))>>,
        Even(3), Level(3))

\* One lane that becomes two, and a shoulder beside the first.
SplitMap ==
  MapOf(<<Lane("NORMAL", "POSITIVE", <<0, 0>>, <<4, 0>>, Contacts(<<4>>, <<>>, <<>>, <<2, 3>>)),
          Lane("NORMAL", "POSITIVE", <<4, 0>>, <<8, 0>>, Contacts(<<>>, <<3>>, <<1>>, <<>>)),
          Lane("MULTI", "POSITIVE", <<4, 0>>, <<8, 2>>, Contacts(<<2>>, <<>>, <<1>>, <<>>)),
          Lane("SHOULDER", "POSITIVE", <<0, -2>>, <<4, -2>>, Contacts(<<>>, <<1>>, <<>>, <<>>))>>,
        Even(4), Level(4))

\* A successor that does not lead back, and a lane with two left neighbours.
BrokenMap ==
  MapOf(<<Lane("NORMAL", "POSITIVE", <<0, 0>>, <<4, 0>>, Contacts(<<>>, <<2, 3>>, <<>>, <<4>>)),
          Lane("NORMAL", "POSITIVE", <<0, 2>>, <<2, 2>>, Contacts(<<1>>, <<>>, <<>>, <<3>>)),
          Lane("NORMAL", "POSITIVE", <<2, 2>>, <<4, 2>>, Contacts(<<1>>, <<>>, <<2>>, <<>>)),
          Lane("NORMAL", "POSITIVE", <<4, 0>>, <<8, 0>>, Contacts(<<>>, <<>>, <<>>, <<>>))>>,
        Even(4), Level(4))

\* Two lanes side by side all along a road of two sections.
TwoLanesMap ==
  MapOf(<<Lane("NORMAL", "POSITIVE", <<0, 0>>, <<4, 0>>, Contacts(<<>>, <<2>>, <<>>, <<3>>)),
          Lane("NORMAL", "POSITIVE", <<0, 2>>, <<4, 2>>, Contacts(<<1>>, <<>>, <<>>, <<4>>)),
          Lane("NORMAL", "POSITIVE", <<4, 0>>, <<8, 0>>, Contacts(<<>>, <<4>>, <<1>>, <<>>)),
          Lane("NORMAL", "POSITIVE", <<4, 2>>, <<8, 2>>, Contacts(<<3>>, <<>>, <<2>>, <<>>))>>,
        Even(4), Level(4))

\* Two lanes in a row that may be driven both ways.
BothWaysMap ==
  MapOf(<<Lane("NORMAL", "BIDIRECTIONAL", <<0, 0>>, <<4, 0>>, Contacts(<<>>, <<>>, <<>>, <<2>>)),
          Lane("NORMAL", "BIDIRECTIONAL", <<4, 0>>, <<8, 0>>, Contacts(<<>>, <<>>, <<1>>, <<>>))>>,
        Even(2), Level(2))

MCMaps == {BothWaysMap, TwoLanesMap, MergeMap, DiamondMap, TwoWayMap, EndToEndMap, SplitMap, BrokenMap}

Far == 100

\* Points of every lane: its ends and its middle, with no direction asked.
SomePoints(m) == [lane : m.lanes, offset : Offsets, dir : {"DONT_CARE"}]

Request(kind, start, dests, mode, maxDistance, ignore) ==
  [kind |-> kind, start |-> start, dests |-> dests, matches |-> <<>>, mode |-> mode,
   maxDistance |-> maxDistance, maxDuration |-> Far, ignoreDirection |-> ignore]

Spot(l, o) == [lane |-> l, offset |-> o, dir |-> "DONT_CARE"]

\* Three points about one lane: matched, not on the map, or ambiguous.
Matches(m) ==
  UNION {
    LET Places == {<<>>, <<Spot(1, 1), Spot(2, 1)>>} \cup {<<Spot(l, o)>> : o \in Offsets}
    IN  {<<<<Spot(l, o)>>, second, third>> : o \in Offsets, second \in Places, third \in Places}
    : l \in m.lanes}

MCRequests(m) ==
  {Request("list", s, <<d>>, "SameDrivingDirection", Far, FALSE)
     : s \in SomePoints(m), d \in SomePoints(m)}
  \cup {Request("list", [s EXCEPT !.dir = "NEGATIVE"], <<[d EXCEPT !.dir = "POSITIVE"]>>,
                "AllNeighborLanes", limit, TRUE)
          : s \in SomePoints(m), d \in SomePoints(m), limit \in {3, Far}}
  \cup {Request(kind, At(s, 1), <<At(d, 1), At(e, 1)>>, "AllRoutableLanes", Far, FALSE)
          : kind \in {"list", "candidates"},
            s \in SomePoints(m), d \in SomePoints(m), e \in SomePoints(m)}
  \cup {[Request("points", Spot(1, 0), <<>>, "SameDrivingDirection", Far, FALSE)
           EXCEPT !.matches = found] : found \in Matches(m)}

\* These roads are such that the search is proved to find shortest ways on
\* them.
ASSUME RoadsMeet ==
  \A m \in MCMaps : \A r \in MCRequests(m) : LanesMeet(m, QueryOf(r, r.start, 1))
=============================================================================
