----------------------------- MODULE RouteAstar -----------------------------
(***************************************************************************)
(* route/RouteAStar.cpp: the search the map library plans its routes with. *)
(* One step of the model takes the cheapest point off mProcessingMap.      *)
(*                                                                         *)
(* open is mProcessingMap, a function from points to what is known of      *)
(* them: [distance, duration, estimate]; closed is mProcessedPoints;       *)
(* cameFrom is mCameFrom.                                                  *)
(***************************************************************************)
EXTENDS RouteExpander

VARIABLES map, query, open, closed, cameFrom, outcome, rawRoute

searchVars == <<map, query, open, closed, cameFrom, outcome, rawRoute>>

Outcomes == {"searching", "found", "notFound", "threw"}

NoRawRoute == [points |-> <<>>, distance |-> 0, duration |-> 0]

-----------------------------------------------------------------------------
(* The parts of the search.                                                *)

CostEstimate(m, q, p) == CentreDistance(m, p.lane, p.offset, q.dest.lane, q.dest.offset)

\* A start that does not care for its direction stands for two points.
StartPoints(q) ==
  IF q.start.dir = "DONT_CARE"
  THEN {[q.start EXCEPT !.dir = d] : d \in {"POSITIVE", "NEGATIVE"}}
  ELSE {q.start}

StartOpen(m, q) ==
  [p \in StartPoints(q) |->
     [distance |-> 0, duration |-> 0, estimate |-> CostEstimate(m, q, p)]]

IsCheapest(known, p) ==
  p \in DOMAIN known /\ \A o \in DOMAIN known : known[p].estimate <= known[o].estimate

IsDest(q, p) ==
  /\ q.dest.dir \in {"DONT_CARE", p.dir}
  /\ ParaPoint(p) = ParaPoint(q.dest)

\* Mutants: a point that is known is never improved, and a point that was
\* closed may be opened again.
FirstWayKept(m, q, known, done, p) ==
  {n \in ExpandNeighbors(m, q, p, known[p]) :
     n.to \notin DOMAIN known \cup done}
ClosedAreReopened(m, q, known, done, p) ==
  {n \in ExpandNeighbors(m, q, p, known[p]) :
     n.to \in DOMAIN known => known[p].distance + n.distance < known[n.to].distance}

\* Neighbours that are new to the search or reached over less distance than
\* before.
Improved(m, q, known, done, p) ==
  {n \in ExpandNeighbors(m, q, p, known[p]) :
     /\ n.to \notin done \cup {p}
     /\ n.to \in DOMAIN known =>
          known[p].distance + n.distance < known[n.to].distance}

\* Mutant: the distance is not renewed either.
AddNeighborsOnce(m, q, known, done, p) ==
  LET new == Improved(m, q, known, done, p)
      ways == {[to |-> n.to, distance |-> known[p].distance + n.distance,
                duration |-> known[p].duration + n.duration] : n \in new}
  IN  [o \in (DOMAIN known \ {p}) \cup {w.to : w \in ways} |->
         IF o \in DOMAIN known THEN known[o]
         ELSE LET w == CHOOSE v \in ways : v.to = o
              IN  [distance |-> w.distance, duration |-> w.duration,
                   estimate |-> w.distance + CostEstimate(m, q, o)]]

\* addNeighbor.  Of a point that is already known the distance and the
\* estimate are renewed, and its duration is not.
AddNeighbors(m, q, known, done, p) ==
  LET better == Improved(m, q, known, done, p)
      targets == {n.to : n \in better}
  IN  [o \in (DOMAIN known \ {p}) \cup targets |->
         IF o \notin targets THEN known[o]
         ELSE LET n == CHOOSE b \in better : b.to = o
                  g == known[p].distance + n.distance
              IN  [distance |-> g,
                   duration |-> IF o \in DOMAIN known THEN known[o].duration
                                ELSE known[p].duration + n.duration,
                   estimate |-> g + CostEstimate(m, q, o)]]

\* The points that led to p, from the start of the search on.
WayTo(came, p) ==
  LET back[n \in 0 .. Cardinality(DOMAIN came)] ==
        IF n = 0 THEN <<p>>
        ELSE LET way == back[n - 1] IN
             IF Head(way) \in DOMAIN came THEN <<came[Head(way)]>> \o way ELSE way
  IN  back[Cardinality(DOMAIN came)]

-----------------------------------------------------------------------------
(* The search.                                                             *)

SearchInit(m, q) ==
  /\ map = m
  /\ query = q
  /\ open = StartOpen(m, q)
  /\ closed = {}
  /\ cameFrom = <<>>
  /\ outcome = "searching"
  /\ rawRoute = NoRawRoute

\* A new RouteAstar object, on the same map.
NewSearch(q) ==
  /\ query' = q
  /\ open' = StartOpen(map, q)
  /\ outcome' = "searching"
  /\ rawRoute' = NoRawRoute
  /\ closed' = {} /\ cameFrom' = <<>>
  /\ UNCHANGED map

Expand(p) ==
  /\ outcome = "searching"
  /\ IsCheapest(open, p)
  /\ ~ IsDest(query, p)
  /\ ~ ExpansionThrows(map, query, p, open[p])
  /\ open' = AddNeighbors(map, query, open, closed, p)
  /\ closed' = closed \cup {p}
  /\ cameFrom' =
       LET new == {n.to : n \in Improved(map, query, open, closed, p)}
       IN  [o \in DOMAIN cameFrom \cup new |-> IF o \in new THEN p ELSE cameFrom[o]]
  /\ UNCHANGED <<map, query, outcome, rawRoute>>

\* reconstructPath; the point reached takes the place of the destination.
Reach(p) ==
  /\ outcome = "searching"
  /\ IsCheapest(open, p)
  /\ IsDest(query, p)
  /\ rawRoute' = [points |-> WayTo(cameFrom, p),
                  distance |-> open[p].distance,
                  duration |-> open[p].duration]
  /\ query' = [query EXCEPT !.dest = p]
  /\ outcome' = "found"
  /\ open' = <<>> /\ closed' = {} /\ cameFrom' = <<>>
  /\ UNCHANGED map

GiveUp ==
  /\ outcome = "searching"
  /\ open = <<>>
  /\ outcome' = "notFound"
  /\ closed' = {} /\ cameFrom' = <<>>
  /\ UNCHANGED <<map, query, open, rawRoute>>

\* The error of a lane that does not lead back ends the whole call.
Throw(p) ==
  /\ outcome = "searching"
  /\ IsCheapest(open, p)
  /\ ~ IsDest(query, p)
  /\ ExpansionThrows(map, query, p, open[p])
  /\ outcome' = "threw"
  /\ UNCHANGED <<map, query, open, closed, cameFrom, rawRoute>>

SearchNext ==
  \/ \E p \in DOMAIN open : Expand(p) \/ Reach(p) \/ Throw(p)
  \/ GiveUp

-----------------------------------------------------------------------------
(* What a search is for.                                                   *)

\* The least distances over one more step than before.
OneStepMore(m, q, before) ==
  LET Steps(p) == ExpandNeighbors(m, q, p, [distance |-> before[p], duration |-> 0])
      ways == {[to |-> p, length |-> before[p]] : p \in DOMAIN before}
        \cup UNION {{[to |-> s.to, length |-> before[p] + s.distance] : s \in Steps(p)}
                    : p \in {r \in DOMAIN before : ~ IsDest(q, r)}}
  IN  [p \in {w.to : w \in ways} |-> Min({w.length : w \in {v \in ways : v.to = p}})]

\* The least distance over which each point can be reached, in as many steps
\* as there are points: a definition of the shortest way that knows no order
\* of points.
LeastDistancesTo(m, q) ==
  LET within[n \in 0 .. Cardinality(RoutingPoints(m))] ==
        IF n = 0 THEN [p \in StartPoints(q) |-> 0] ELSE OneStepMore(m, q, within[n - 1])
  IN  within[Cardinality(RoutingPoints(m))]
=============================================================================
