--------------------------- MODULE MCLaneTopology ---------------------------
(* Instances of LaneTopology for TLC.  The world is a strip of land with    *)
(* stations 0 .. 3 from west to east and borders 0 .. 3 from south to       *)
(* north; a lane runs over one stretch between two stations, at each of     *)
(* which it lies between two borders.  A road that is drawn eastward has    *)
(* its left in the north.                                                   *)
(*   bare     files of two or three lanes that lie apart, for the numbers   *)
(*   street   a road of two sections and the road it is joined to           *)
(*   gaps     streets of which a lane is missing that links name            *)
(*   crossing a road, the lanes of a junction, and the road behind it       *)
EXTENDS LaneTopology

L(r, s, i) == [road |-> r, section |-> s, index |-> i]
NoJoin == [road |-> -1, contact |-> "start"]
Open == [start |-> NoJoin, end |-> NoJoin]
J(r, c) == [road |-> r, contact |-> c]

\* A lane over stretch s, on strip w at its western and e at its eastern
\* station; its corners lie shift units beside the borders.
Shape(way, s, w, e, shift) ==
  LET P(station, border) == << 10 * station, 10 * border + shift >>
      West == [left |-> P(s, w + 1), right |-> P(s, w)]
      East == [left |-> P(s + 1, e + 1), right |-> P(s + 1, e)]
  IN  IF way = "east" THEN [start |-> West, end |-> East]
      ELSE [start |-> [left |-> East.right, right |-> East.left],
            end   |-> [left |-> West.right, right |-> West.left]]

\* The index of the lane on strip y of a road whose reference line is at
\* border ref.
IndexOf(way, ref, y) ==
  LET left == IF way = "east" THEN y >= ref ELSE y < ref
      out == IF y >= ref THEN y - ref + 1 ELSE ref - y
  IN  IF left THEN out ELSE 0 - out

-----------------------------------------------------------------------------
(* Bare files.                                                             *)

MCLanes == [road : {0, 1, 16}, section : {1, 10, 99}, index : {-50, -1, 1, 49}]

BareFiles == { << a, b >> : a \in MCLanes, b \in MCLanes }
               \cup { << a, b, a >> : a \in MCLanes, b \in { l \in MCLanes : l.road = 16 } }

Bare(f) ==
  LET Same(l) == { k \in Range(f) : k.road = l.road /\ k.section = l.section }
      at(l) == Cardinality({ k \in Same(l) : k.index < l.index }) IN
  [lanes    |-> f,
   type     |-> [l \in Range(f) |-> "Driving"],
   corners  |-> [l \in Range(f) |-> Shape("east", l.section, at(l), at(l), 100 * l.road)],
   link     |-> [l \in Range(f) |-> [start |-> 0, end |-> 0]],
   junction |-> [r \in { l.road : l \in Range(f) } |-> -1],
   joins    |-> [r \in { l.road : l \in Range(f) } |-> Open]]

-----------------------------------------------------------------------------
(* Streets: road 1 of two sections over stretches 0 and 1, in either order  *)
(* as it is drawn, and road 2 over stretch 2, three strips wide.            *)

Strips == 0 .. 2
Other(way) == IF way = "east" THEN "west" ELSE "east"

Street(way1, way2, ref, shift, middle) ==
  LET First  == IF way1 = "east" THEN 0 ELSE 1
      One(y) == IndexOf(way1, ref, y)
      Two(y) == IndexOf(way2, ref, y)
      Lane1(n, y) == L(1, n, One(y))
      Lane2(y) == L(2, 1, Two(y))
      all1 == { Lane1(n, y) : n \in 1 .. 2, y \in Strips }
      all2 == { Lane2(y) : y \in Strips }
      Strip(l) == CHOOSE y \in Strips : IF l.road = 1 THEN One(y) = l.index ELSE Two(y) = l.index
      Stretch(l) == IF l.road = 2 THEN 2
                    ELSE IF l.section = 1 THEN First ELSE 1 - First
      \* the end of road 1 in the east, and the end of road 2 in the west
      east1 == IF way1 = "east" THEN "end" ELSE "start"
      west2 == IF way2 = "east" THEN "start" ELSE "end"
      LinkAt(l, e) ==
        IF l.road = 2 THEN IF e = west2 THEN One(Strip(l)) ELSE 0
        ELSE IF Stretch(l) = 1 /\ e = east1 THEN Two(Strip(l))
        ELSE IF Stretch(l) = 0 /\ e # east1 THEN 0 ELSE l.index
  IN  [lanes    |-> [i \in 1 .. 9 |-> IF i <= 6 THEN Lane1((i + 2) \div 3, (i - 1) % 3) ELSE Lane2(i - 7)],
       type     |-> [l \in all1 \cup all2 |->
                       << "Driving", middle, "Shoulder" >>[Strip(l) + 1]],
       corners  |-> [l \in all1 \cup all2 |->
                       Shape(IF l.road = 1 THEN way1 ELSE way2, Stretch(l), Strip(l), Strip(l),
                             IF l.road = 2 THEN shift ELSE 0)],
       link     |-> [l \in all1 \cup all2 |-> [e \in Ends |-> LinkAt(l, e)]],
       junction |-> [r \in 1 .. 2 |-> -1],
       joins    |-> << [e \in Ends |-> IF e = east1 THEN J(2, west2) ELSE NoJoin],
                       [e \in Ends |-> IF e = west2 THEN J(1, east1) ELSE NoJoin] >>]

Streets == { Street(w1, w2, r, s, m) :
               w1 \in {"east", "west"}, w2 \in {"east", "west"},
               r \in {0, 1, 3}, s \in {0, 1, 3},
               m \in {"Driving", "Bidirectional"} }

-----------------------------------------------------------------------------
(* Gaps: streets without one of the outermost lanes of a section.  What      *)
(* names the lane is a predecessor on its road, and is left out, or any     *)
(* other link, and the import crashes.                                      *)

Without(d, l) ==
  LET Kept(f) == [k \in DOMAIN f \ { l } |-> f[k]] IN
  [d EXCEPT !.lanes = SelectSeq(@, LAMBDA k : k # l),
            !.type = Kept(@), !.corners = Kept(@), !.link = Kept(@)]

IsOutermost(d, l) ==
  \A k \in Range(d.lanes) :
     k.road = l.road /\ k.section = l.section /\ (k.index > 0) = (l.index > 0) =>
       IF l.index > 0 THEN k.index <= l.index ELSE k.index >= l.index

WithGap(d) == { Without(d, l) : l \in { k \in Range(d.lanes) : IsOutermost(d, k) } }

Gaps == UNION { WithGap(Street(w1, w2, r, 0, "Driving")) :
                  w1 \in {"east", "west"}, w2 \in {"east", "west"}, r \in {0, 1, 3} }

-----------------------------------------------------------------------------
(* Crossings: road 1 of two strips over stretch 0, road 2 over stretch 2,   *)
(* both drawn eastward; the roads 11, 12, 13 of junction 7 between them     *)
(* have a lane each, which goes from a strip to a strip.                    *)

\* A connection is [way, w, e, shift]: how it is drawn, and where it lies.
Crossing(ref, connections) ==
  LET Roads == 11 .. 10 + Len(connections)
      C(r) == connections[r - 10]
      Index(y) == IndexOf("east", ref, y)
      outer == { L(r, 1, Index(y)) : r \in 1 .. 2, y \in Strips }
      \* the lane is driven to the east if its strip is south of the line
      inner == { L(r, 1, IF (C(r).w < ref) = (C(r).way = "east") THEN -1 ELSE 1) : r \in Roads }
      LinkAt(l, e) ==
        IF l.road <= 2 THEN 0
        ELSE IF (C(l.road).way = "east") = (e = "start") THEN Index(C(l.road).w)
        ELSE Index(C(l.road).e)
      Strip(l) == CHOOSE y \in Strips : Index(y) = l.index
  IN  [lanes    |-> [i \in 1 .. 6 |-> L((i + 2) \div 3, 1, Index((i - 1) % 3))]
                      \o [i \in 1 .. Len(connections) |->
                            CHOOSE l \in inner : l.road = 10 + i],
       type     |-> [l \in outer \cup inner |-> "Driving"],
       corners  |-> [l \in outer \cup inner |->
                       IF l.road <= 2
                       THEN Shape("east", 2 * (l.road - 1), Strip(l), Strip(l), 0)
                       ELSE Shape(C(l.road).way, 1, C(l.road).w, C(l.road).e, C(l.road).shift)],
       link     |-> [l \in outer \cup inner |-> [e \in Ends |-> LinkAt(l, e)]],
       junction |-> [r \in {1, 2} \cup Roads |-> IF r <= 2 THEN -1 ELSE 7],
       joins    |-> [r \in {1, 2} \cup Roads |->
                       IF r <= 2 THEN Open
                       ELSE IF C(r).way = "east"
                            THEN [start |-> J(1, "end"), end |-> J(2, "start")]
                            ELSE [start |-> J(2, "start"), end |-> J(1, "end")]]]

Across2(way, w, e) == [way |-> way, w |-> w, e |-> e, shift |-> 0]

\* Straight on in strips 0, 1 and 2, drawn in any way and read in any order.
Straight ==
  { << Across2(a, o[1], o[1]), Across2(b, o[2], o[2]), Across2(c, o[3], o[3]) >> :
      a \in {"east", "west"}, b \in {"east", "west"}, c \in {"east", "west"},
      o \in Permutations(1 .. 3) }

\* From strip 1 to all the strips, or from all to strip 1.
Forks ==
  { << Across2(a, 1, 0), Across2(b, 1, 1), Across2(a, 1, 2) >> :
      a \in {"east", "west"}, b \in {"east", "west"} }
  \cup
  { << Across2(a, 0, 1), Across2(b, 1, 1), Across2(a, 2, 1) >> :
      a \in {"east", "west"}, b \in {"east", "west"} }

Crossings == { Crossing(r, k) : r \in {0, 1, 3}, k \in Forks } \cup
             { Crossing(r, [i \in 1 .. 3 |-> [k[i] EXCEPT !.w = @ - 1, !.e = @ - 1]]) :
                 r \in {0, 1, 3}, k \in Straight }

MCDrawings == { Bare(f) : f \in BareFiles } \cup Streets \cup Gaps \cup Crossings
MCFiles == { d.lanes : d \in MCDrawings }
=============================================================================
